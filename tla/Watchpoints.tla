------------------------------ MODULE Watchpoints ------------------------------
(***************************************************************************)
(* Watchpoints: the Z2 to Z4 and z2 to z4 commands of cmd_break_watch.c,   *)
(* the comparators of Dwt behind them, and what mriDebugException makes of *)
(* a match.  The program runs from one instruction to the next; an access  *)
(* that matches a comparator pends DebugMon, as do breakpoints and single  *)
(* steps, and gdb may interrupt at the same time.                          *)
(*                                                                         *)
(* The unit is external: the handler starts some instructions after the    *)
(* access, and an access of code that DebugMon cannot interrupt, or of the *)
(* monitor itself, sets MATCHED and nothing else.                          *)
(***************************************************************************)
EXTENDS Dwt, FiniteSets

CONSTANTS
    Requests,     \* watchpoints that gdb asks for
    Bytes         \* addresses that the program and the monitor access

ASSUME WatchpointsAssumption ==
    /\ Requests \subseteq Watchpoints
    /\ Bytes \subseteq Nat

\* What is at the PC: an instruction that just executes, a breakpoint or hard
\* coded BKPT, the BKPT of a semihosting call, the temporary breakpoint.
Places == {"plain", "break", "call", "temp"}

VARIABLES
    bank,        \* the comparators
    phase,       \* "running", or "halted" in the command loop
    place,       \* what is at the PC
    dfsr,        \* SCB->DFSR
    pending,     \* DebugMon is pending
    rx,          \* gdb has sent Ctrl-C, and nobody has read it
    stepping,    \* a single step is armed
    ranged,      \* MRI_FLAGS_RANGED_SINGLE_STEP
    reason,      \* mriCortexMState.reason
    signal,      \* signalValue
    reply,       \* the answer to the last Z or z, and what it was about
    requested,   \* history: the watchpoints that gdb has been told are set
    touched      \* history: those of them that the program or the monitor has
                 \* accessed since, and since a handler last read MATCHED

processor == <<place, dfsr, pending>>
vars == <<bank, phase, processor, rx, stepping, ranged, reason, signal, reply,
          requested, touched>>

NoReply == [text |-> "none"]

Init ==
    /\ bank = ClearedBank
    /\ phase = "running"
    /\ place = "plain"
    /\ dfsr = {}
    /\ pending = FALSE
    /\ rx = FALSE
    /\ stepping = FALSE
    /\ ranged = FALSE
    /\ reason = Unknown
    /\ signal = "none"
    /\ reply = NoReply
    /\ requested = {}
    /\ touched = {}

-----------------------------------------------------------------------------
(* The program, and gdb's Ctrl-C.                                           *)

Region(w) == w.address .. w.address + w.size - 1

Watching(a, kind) ==
    {w \in requested : a \in Region(w) /\ MatchesKind(w.type, kind)}

\* One instruction accesses the byte at a, where DebugMon can be taken or not.
Execute(a, kind, taken, next) ==
    LET traps == taken /\ MatchedBy(bank, a, kind) # {}
    IN  /\ phase = "running"
        /\ place = "plain"
        /\ "HALTED" \notin dfsr
        /\ bank' = AfterAccess(bank, a, kind)
        /\ touched' = touched \cup Watching(a, kind)
        /\ dfsr' = dfsr \cup (IF traps THEN {"DWTTRAP"} ELSE {})
                        \cup (IF stepping THEN {"HALTED"} ELSE {})
        /\ pending' = (pending \/ traps \/ stepping)
        /\ place' = next
        /\ UNCHANGED <<phase, rx, stepping, ranged, reason, signal, reply,
                       requested>>

ReachBreakpoint ==
    /\ phase = "running"
    /\ place # "plain"
    /\ "BKPT" \notin dfsr
    /\ dfsr' = dfsr \cup {"BKPT"}
    /\ pending' = TRUE
    /\ UNCHANGED <<bank, phase, place, rx, stepping, ranged, reason, signal,
                   reply, requested, touched>>

ControlC ==
    /\ phase = "running"
    /\ rx' = TRUE
    /\ UNCHANGED <<bank, phase, processor, stepping, ranged, reason, signal,
                   reply, requested, touched>>

-----------------------------------------------------------------------------
(* mriCortexMExceptionHandler and mriDebugException, for DebugMon (12) and  *)
(* for the interrupt of the port to gdb (16).                               *)

\* cacheTrapReason: a breakpoint comes before the watchpoints, which are then
\* not looked at.
Reason ==
    IF "BKPT" \in dfsr THEN [type |-> "break", address |-> 0]
    ELSE IF "DWTTRAP" \in dfsr THEN ReasonOfMatch(bank)
    ELSE Unknown

LooksForMatch == "DWTTRAP" \in dfsr /\ "BKPT" \notin dfsr

BankAfterReason == IF LooksForMatch THEN AllRead(bank) ELSE bank

\* Platform_DetermineCauseOfException
SignalOf(number) ==
    CASE number = 16               -> "SIGINT"
      [] number = 12 /\ dfsr # {}  -> "SIGTRAP"
      [] number = 12 /\ dfsr = {}  -> "SIGSTOP"

\* The handler of exception number starts; DFSR is recorded and cleared.
Exception(number) ==
    /\ phase = "running"
    /\ number = 12 => pending
    /\ number = 16 => rx
    /\ dfsr' = {}

\* The callback of the temporary breakpoint resumes the program at once:
\* the cause of the exception is never looked at.
TempBreakpointCallbackResumes(number) ==
    /\ Exception(number)
    /\ place = "temp"
    /\ place' = "plain"
    /\ pending' = (number # 12 /\ pending)
    /\ UNCHANGED <<bank, phase, rx, stepping, ranged, reason, signal, reply,
                   requested, touched>>

DetermineSignalValue(number) ==
    /\ Exception(number)
    /\ bank' = BankAfterReason
    /\ reason' = Reason
    /\ signal' = SignalOf(number)
    /\ touched' = IF LooksForMatch THEN {} ELSE touched

\* Mutant: a watchpoint that is hit is not a reason to stop.
AreSingleSteppingInRangeUntilBreak(number) ==
    ranged /\ SignalOf(number) # "SIGINT" /\ Reason.type # "break"

AreSingleSteppingInRange(number) ==
    /\ ranged
    /\ SignalOf(number) # "SIGINT"
    /\ SignalOf(number) = "SIGTRAP" => Reason.type = "unknown"

\* The PC is within the range: the step is armed again.
StepAgainInRange(number) ==
    /\ AreSingleSteppingInRange(number)
    /\ DetermineSignalValue(number)
    /\ pending' = (number # 12 /\ pending)
    /\ stepping' = TRUE
    /\ UNCHANGED <<phase, place, rx, ranged, reply, requested>>

IsSemihostCall(number) == SignalOf(number) = "SIGTRAP" /\ place = "call"

\* Semihost_HandleSemihostRequest: the program resumes behind the call.
ServeSemihostCall(number) ==
    /\ IsSemihostCall(number)
    /\ ~stepping
    /\ ~rx
    /\ DetermineSignalValue(number)
    /\ ranged' = FALSE
    /\ place' = "plain"
    /\ pending' = FALSE
    /\ UNCHANGED <<phase, rx, stepping, reply, requested>>

\* The T response is sent and the command loop entered, after the call at the
\* PC was served when the step or Ctrl-C does not let the program resume.
EnterCommandLoop(number) ==
    /\ IsSemihostCall(number) => stepping \/ rx
    /\ DetermineSignalValue(number)
    /\ ranged' = FALSE
    /\ stepping' = FALSE
    /\ place' = IF IsSemihostCall(number) THEN "plain" ELSE place
    /\ pending' = (number # 12 /\ pending)
    /\ rx' = FALSE
    /\ phase' = "halted"
    /\ UNCHANGED <<reply, requested>>

-----------------------------------------------------------------------------
(* gdb's commands.                                                          *)

\* Platform_SetHardwareWatchpoint.  A setting that is not valid is refused
\* before the comparators are looked at.
WatchpointSetCommand(w) ==
    /\ phase = "halted"
    /\ IF ~IsValid(w)
       THEN /\ reply' = [text |-> "invalid", set |-> w]
            /\ UNCHANGED <<bank, requested>>
       ELSE /\ bank' = Enabled(bank, w)
            /\ IF CannotEnable(bank, w)
               THEN /\ reply' = [text |-> "no free", set |-> w]
                    /\ UNCHANGED requested
               ELSE /\ reply' = [text |-> "OK", set |-> w]
                    /\ requested' = requested \cup {w}
    /\ UNCHANGED <<phase, processor, rx, stepping, ranged, reason, signal,
                   touched>>

\* Platform_ClearHardwareWatchpoint: what is not set is removed as well.
WatchpointRemoveCommand(w) ==
    /\ phase = "halted"
    /\ IF ~IsValid(w)
       THEN /\ reply' = [text |-> "invalid", removed |-> w]
            /\ UNCHANGED <<bank, requested, touched>>
       ELSE /\ bank' = Cleared(bank, w)
            /\ reply' = [text |-> "OK", removed |-> w]
            /\ requested' = requested \ {w}
            /\ touched' = touched \ {w}
    /\ UNCHANGED <<phase, processor, rx, stepping, ranged, reason, signal>>

\* m, M and X: the monitor accesses the byte at a.
MemoryCommand(a, kind) ==
    /\ phase = "halted"
    /\ bank' = AfterAccess(bank, a, kind)
    /\ touched' = touched \cup Watching(a, kind)
    /\ UNCHANGED <<phase, processor, rx, stepping, ranged, reason, signal,
                   reply, requested>>

\* c, s and vCont;r: Platform_LeavingDebugger clears the pending DebugMon.
Resume(step, range, next) ==
    /\ phase = "halted"
    /\ range => step
    /\ phase' = "running"
    /\ place' = next
    /\ pending' = FALSE
    /\ stepping' = step
    /\ ranged' = range
    /\ reply' = NoReply
    /\ UNCHANGED <<bank, dfsr, rx, reason, signal, requested, touched>>

\* The program is started again and calls mriInit; gdb sets its watchpoints
\* anew when it finds the program halted.
Restart ==
    /\ phase = "halted"
    /\ bank' = ClearedBank
    /\ phase' = "running"
    /\ place' = "plain"
    /\ dfsr' = {}
    /\ pending' = FALSE
    /\ rx' = FALSE
    /\ stepping' = FALSE
    /\ ranged' = FALSE
    /\ reason' = Unknown
    /\ signal' = "none"
    /\ reply' = NoReply
    /\ requested' = {}
    /\ touched' = {}

-----------------------------------------------------------------------------

ProgramNext ==
    \/ \E a \in Bytes, kind \in Kinds, taken \in BOOLEAN, next \in Places :
          Execute(a, kind, taken, next)
    \/ ReachBreakpoint
    \/ ControlC

HandlerNext ==
    \E number \in {12, 16} :
        \/ TempBreakpointCallbackResumes(number)
        \/ StepAgainInRange(number)
        \/ ServeSemihostCall(number)
        \/ EnterCommandLoop(number)

CommandNext ==
    \/ \E w \in Requests : WatchpointSetCommand(w) \/ WatchpointRemoveCommand(w)
    \/ \E a \in Bytes, kind \in Kinds : MemoryCommand(a, kind)
    \/ \E step \in BOOLEAN, range \in BOOLEAN, next \in Places :
          Resume(step, range, next)
    \/ Restart

Next == ProgramNext \/ HandlerNext \/ CommandNext

Spec == Init /\ [][Next]_vars

-----------------------------------------------------------------------------
(* Properties.                                                              *)

Reasons == [type : Types \cup {"break", "unknown"}, address : Nat]

\* Every variable holds a value of its type: in particular the comparators
\* are always settings that the unit can hold.
TypeOK ==
    /\ bank \in [Comparators -> Registers]
    /\ phase \in {"running", "halted"}
    /\ place \in Places
    /\ dfsr \subseteq {"DWTTRAP", "BKPT", "HALTED"}
    /\ pending \in BOOLEAN
    /\ rx \in BOOLEAN
    /\ stepping \in BOOLEAN
    /\ ranged \in BOOLEAN
    /\ reason \in Reasons
    /\ signal \in {"none", "SIGINT", "SIGTRAP", "SIGSTOP"}
    /\ requested \subseteq Requests
    /\ touched \subseteq requested

\* An access of the program matches a comparator exactly when it is one that
\* gdb has been told is watched, after any sequence of Z and z, repeated,
\* refused, failed half-way or overlapping.
WatchesWhatIsRequested ==
    \A a \in Bytes, kind \in Kinds :
        MatchedBy(bank, a, kind) # {} <=> Watching(a, kind) # {}

\* gdb is told that no comparator is free only when each holds another
\* watchpoint that it has set, or when none could cover as many bytes.
RefusesOnlyWhenFull ==
    reply.text = "no free" =>
        \/ ~FitsMask(reply.set)
        \/ /\ reply.set \notin requested
           /\ Cardinality(requested) = NumComparators

\* The watchpoint that a T response names is one that is set, and its bytes
\* have been accessed, by the program or by the monitor, since it was set and
\* since the monitor last looked which one was hit: an access is reported once
\* at most, and no MATCHED bit outlives the watchpoint that it was for.  That
\* the access is one since the program was resumed is not said: m and M, an
\* access that DebugMon cannot interrupt and a hit behind a breakpoint all
\* leave MATCHED for a later halt (see WatchpointsFresh).
ReportsWhatWasTouched ==
    [][(phase = "running" /\ phase' = "halted" /\ reason'.type \in Types) =>
            \E w \in touched : /\ w.type = reason'.type
                               /\ w.address = reason'.address]_vars

\* When a watchpoint has been hit the program does not go on: not even within
\* the range of a range step, and not when gdb interrupts or a breakpoint is
\* reached at the same time.  gdb is told why it halted.  Only a semihosting
\* call or a temporary breakpoint at the PC comes first.
HitsHalt ==
    [][("DWTTRAP" \in dfsr /\ dfsr' = {} /\ place \in {"plain", "break"}) =>
            phase' = "halted" /\ reason'.type # "unknown"]_vars

\* No exception: a watchpoint that has been hit halts the program.
EveryHitHalts ==
    [][("DWTTRAP" \in dfsr /\ dfsr' = {} /\ place # "temp") =>
            phase' = "halted"]_vars
=============================================================================
