---------------------------- MODULE DebugMonitor ----------------------------
(***************************************************************************)
(* The debug monitor between gdb and the program: core/mri.c and the       *)
(* exception handlers of architectures/armv7-m.  The program runs on the   *)
(* processor of Cortex; breakpoints, BKPT instructions, single steps,      *)
(* faults and bytes from gdb raise exceptions; mriDebugException handles   *)
(* them and, when it enters its command loop, gdb steps, continues, moves  *)
(* or resets the program.                                                  *)
(*                                                                         *)
(* The handlers run at the priority of DebugMon with the program stopped,  *)
(* so each is one action from its exception to its return or to the        *)
(* command loop.  The packets are left to PacketLink and the comparators   *)
(* behind the breakpoints to Breakpoints: here a breakpoint is a member of *)
(* a set of addresses, and setting the one on the SVC handler may fail.    *)
(***************************************************************************)
EXTENDS Cortex

CONSTANTS
    GdbCode,           \* addresses where gdb sets breakpoints
    TempCode,          \* addresses the program gives mriCore_SetTempBreakpoint
    CallbackResults,   \* what the callback of such a breakpoint returns
    Range              \* the range of vCont;r

ASSUME DebugMonitorAssumption ==
    /\ GdbCode \subseteq Addresses
    /\ TempCode \subseteq Addresses
    /\ CallbackResults \subseteq BOOLEAN
    /\ Range \subseteq Addresses

NoTemp == Last + 1
NoJump == Last + 1

VARIABLES
    m,                \* registers of the program, those of the debug units,
                      \* mriCortexMFlags and what RESTORE_PRI goes with
    isr,              \* what the device's interrupt handler left
    rx,               \* gdb has sent a byte (Ctrl-C) that nobody has read
    phase,            \* "running", "fault" and "exception" when a handler is
                      \* about to run, "halted" in the command loop
    exc,              \* the exception that the processor reports
    recorded,         \* mriCortexMState's record of it
    temp,             \* the temporary breakpoint
    ranged,           \* MRI_FLAGS_RANGED_SINGLE_STEP
    resetRequested,   \* MRI_FLAGS_RESET_ON_CONTINUE
    originalPc,       \* the PC when the command loop was entered
    signal,           \* signalValue, what the T response reports
    command,          \* history: how gdb last resumed the program
    steps,            \* history: instructions executed since then, at most 2
    cause,            \* history: what the last exception was about
    resetBy           \* history: the command that reset the device

monitor == <<recorded, temp, ranged, resetRequested, originalPc, signal>>
history == <<command, steps, cause, resetBy>>
vars == <<m, isr, rx, phase, exc, monitor, history>>

NoException == [number |-> 0, dfsr |-> {}, debugEvent |-> FALSE]

MachineAtReset ==
    [pc |-> AtReset.pc, primask |-> AtReset.primask,
     basepri |-> AtReset.basepri, r |-> AtReset.r, q |-> AtReset.q,
     ret |-> AtReset.ret,
     monStep |-> FALSE, armed |-> {}, flags |-> {},
     savedPrimask |-> 0, savedBasepri |-> 0]

\* mriInit, which the program calls when it starts.
Init ==
    /\ m = MachineAtReset
    /\ isr = 0
    /\ rx = FALSE
    /\ phase = "running"
    /\ exc = NoException
    /\ recorded = NoException
    /\ temp = NoTemp
    /\ ranged = FALSE
    /\ resetRequested = FALSE
    /\ originalPc = 0
    /\ signal = "none"
    /\ command = "none"
    /\ steps = 0
    /\ cause = "none"
    /\ resetBy = "none"

-----------------------------------------------------------------------------
(* Platform_EnableSingleStep and Platform_DisableSingleStep, from one state *)
(* of the machine to the next.                                              *)

\* checkCurrentInstruction: an instruction that reads or writes the priority
\* registers is simulated, on the registers of the halted program.
SimulatedPriority(s) ==
    LET next == [s EXCEPT !.pc = Following(s.pc)]
        kind == Program[s.pc]
    IN  CASE kind = "mrs primask" -> [next EXCEPT !.r = s.primask]
          [] kind = "msr primask" -> [next EXCEPT !.primask = s.r]
          [] kind = "cpsid i"     -> [next EXCEPT !.primask = 1]
          [] kind = "cpsie i"     -> [next EXCEPT !.primask = 0]
          [] kind = "mrs basepri" -> [next EXCEPT !.q = s.basepri]
          [] kind = "msr basepri" -> [next EXCEPT !.basepri = s.q]
          [] kind = "msr basepri_max" ->
                IF s.basepri = 0 \/ s.q < s.basepri
                THEN [next EXCEPT !.basepri = s.q]
                ELSE next

\* Mutant: BASEPRI is recorded and left as it is.
RaisePriorityForgotten(s) ==
    [s EXCEPT !.savedPrimask = s.primask,
              !.savedBasepri = s.basepri,
              !.primask = 0,
              !.flags = @ \cup {"RESTORE_PRI"}]

RaisePriority(s) ==
    [s EXCEPT !.savedPrimask = s.primask,
              !.savedBasepri = s.basepri,
              !.primask = 0,
              !.basepri = DebugMonPriority + 1,
              !.flags = @ \cup {"RESTORE_PRI"}]

\* Mutant: the flag is set, the processor does not step.
EnableStepFlagOnly(s) == [s EXCEPT !.flags = @ \cup {"SINGLE_STEPPING"}]

EnableHardwareStep(s) ==
    [s EXCEPT !.monStep = TRUE, !.flags = @ \cup {"SINGLE_STEPPING"}]

\* Mutant: the breakpoint on the SVC handler is noted and not set.
EnableStepWithoutSvcBreakpoint(s, svcSet) ==
    IF Program[s.pc] \in PriorityInstructions THEN SimulatedPriority(s)
    ELSE IF Program[s.pc] # "svc" THEN EnableHardwareStep(RaisePriority(s))
    ELSE [s EXCEPT !.flags = @ \cup {"SVC_STEP"}]

\* An SVC is stepped by a breakpoint on its handler, svcSet when a comparator
\* was free for it, since it cannot be executed with the priority raised.
EnableSingleStep(s, svcSet) ==
    IF Program[s.pc] \in PriorityInstructions THEN SimulatedPriority(s)
    ELSE IF Program[s.pc] # "svc" THEN EnableHardwareStep(RaisePriority(s))
    ELSE IF svcSet
         THEN [s EXCEPT !.armed = @ \cup {SvcHandler},
                        !.flags = @ \cup {"SVC_STEP"}]
    ELSE EnableHardwareStep(s)

\* Mutant: the registers stay as they were raised for the step.
RestorePriorityForgotten(s) == s

RestorePriority(s) ==
    IF "RESTORE_PRI" \in s.flags
    THEN [s EXCEPT !.primask = s.savedPrimask, !.basepri = s.savedBasepri,
                   !.savedPrimask = 0, !.savedBasepri = 0]
    ELSE s

DisableSingleStep(s) ==
    [RestorePriority(s) EXCEPT
        !.armed = IF "SVC_STEP" \in s.flags THEN @ \ {SvcHandler} ELSE @,
        !.monStep = FALSE,
        !.flags = @ \ {"RESTORE_PRI", "SVC_STEP", "SINGLE_STEPPING"}]

IsSingleStepping(s) == "SINGLE_STEPPING" \in s.flags

-----------------------------------------------------------------------------
(* The program runs, natively.                                              *)

CanTakeDebugMon(s) == ~Masks(s, DebugMonPriority)

\* The byte from gdb interrupts at the priority of DebugMon.
CommPending == rx /\ CanTakeDebugMon(m)

StopsAt(s) == s.pc \in s.armed \/ Program[s.pc] \in BreakInstructions

CountedStep == IF command = "none" \/ steps = 2 THEN steps ELSE steps + 1

RunInstruction ==
    /\ phase = "running"
    /\ ~CommPending
    /\ ~StopsAt(m)
    /\ m' \in Executed(m)
    /\ steps' = CountedStep
    /\ IF m.monStep /\ CanTakeDebugMon(m')
       THEN /\ phase' = "exception"
            /\ exc' = [number |-> 12, dfsr |-> {"HALTED"}, debugEvent |-> FALSE]
            /\ cause' = "step"
       ELSE UNCHANGED <<phase, exc, cause>>
    /\ UNCHANGED <<isr, rx, monitor, command, resetBy>>

\* A breakpoint escalates to HardFault where DebugMon is masked.
HitBreakpoint ==
    /\ phase = "running"
    /\ ~CommPending
    /\ StopsAt(m)
    /\ IF CanTakeDebugMon(m)
       THEN /\ phase' = "exception"
            /\ exc' = [number |-> 12, dfsr |-> {"BKPT"}, debugEvent |-> FALSE]
       ELSE /\ phase' = "fault"
            /\ exc' = [number |-> 3, dfsr |-> {"BKPT"}, debugEvent |-> TRUE]
    /\ cause' = "breakpoint"
    /\ UNCHANGED <<m, isr, rx, monitor, command, steps, resetBy>>

Fault ==
    /\ phase = "running"
    /\ ~CommPending
    /\ ~StopsAt(m)
    /\ Executed(m) = {}
    /\ phase' = "fault"
    /\ exc' = [number |-> 3, dfsr |-> {}, debugEvent |-> FALSE]
    /\ cause' = "fault"
    /\ UNCHANGED <<m, isr, rx, monitor, command, steps, resetBy>>

DeviceInterrupt ==
    /\ phase = "running"
    /\ CanTakeLower(m)
    /\ isr' = 1 - isr
    /\ UNCHANGED <<m, rx, phase, exc, monitor, history>>

\* The user presses Ctrl-C.
ControlC ==
    /\ phase # "halted"
    /\ ~rx
    /\ rx' = TRUE
    /\ UNCHANGED <<m, isr, phase, exc, monitor, history>>

CommInterrupt ==
    /\ phase = "running"
    /\ CommPending
    /\ phase' = "exception"
    /\ exc' = [number |-> 16, dfsr |-> {}, debugEvent |-> FALSE]
    /\ cause' = "control-c"
    /\ UNCHANGED <<m, isr, rx, monitor, command, steps, resetBy>>

SetTempBreakpoint(a) ==
    /\ phase = "running"
    /\ temp = NoTemp
    /\ temp' = a
    /\ m' = [m EXCEPT !.armed = @ \cup {a}]
    /\ UNCHANGED <<isr, rx, phase, exc, recorded, ranged, resetRequested,
                   originalPc, signal, history>>

-----------------------------------------------------------------------------
(* mriFaultHandler: a fault is left to DebugMon when that can be pended.     *)

HasDebugMonInterruptBeenDisabled(s) ==
    \/ s.primask # 0 /\ DebugMonPriority > 0
    \/ s.basepri # 0 /\ s.basepri <= DebugMonPriority

DisableInterruptMasking(s) ==
    IF s.primask # 0
    THEN [s EXCEPT !.savedPrimask = s.primask, !.savedBasepri = s.basepri,
                   !.primask = 0, !.flags = @ \cup {"RESTORE_PRI"}]
    ELSE s

\* A HardFault that is only a debug event is recorded as a DebugMon exception.
AsDebugMon(e) == IF e.debugEvent THEN [e EXCEPT !.number = 12] ELSE e

PendFaultToDebugMon ==
    /\ phase = "fault"
    /\ ~HasDebugMonInterruptBeenDisabled(m)
    /\ recorded' = AsDebugMon(exc)
    /\ m' = [DisableInterruptMasking(m) EXCEPT
                !.flags = @ \cup {"PEND_FROM_FAULT"}]
    /\ phase' = "exception"
    /\ UNCHANGED <<isr, rx, exc, temp, ranged, resetRequested, originalPc,
                   signal, history>>

\* mriExceptionHandler is run at the priority of the fault.
HandleFaultFromHighPriorityCode ==
    /\ phase = "fault"
    /\ HasDebugMonInterruptBeenDisabled(m)
    /\ phase' = "exception"
    /\ cause' = "fault"
    /\ UNCHANGED <<m, isr, rx, exc, monitor, command, steps, resetBy>>

-----------------------------------------------------------------------------
(* mriCortexMExceptionHandler and mriDebugException.                        *)

\* Mutant: the handler records the exception that it was called for.
RecordedAgain == exc

\* What was recorded when DebugMon was pended is not recorded again.
Recorded == IF "PEND_FROM_FAULT" \in m.flags THEN recorded ELSE exc

\* Mutant: determineCauseOfDebugEvent does not know SCB_DFSR_HALTED.
SignalOfBreakpoint(e) ==
    CASE e.number = 3  -> "SIGSEGV"
      [] e.number = 12 -> IF "BKPT" \in e.dfsr THEN "SIGTRAP" ELSE "SIGSTOP"
      [] OTHER         -> "SIGINT"

\* Platform_DetermineCauseOfException
SignalOf(e) ==
    CASE e.number = 3  -> "SIGSEGV"
      [] e.number = 12 -> IF e.dfsr # {} THEN "SIGTRAP" ELSE "SIGSTOP"
      [] OTHER         -> "SIGINT"

WasTempBreakpointHit == temp # NoTemp /\ m.pc = temp

ClearTempBreakpoint(s) ==
    IF WasTempBreakpointHit THEN [s EXCEPT !.armed = @ \ {temp}] ELSE s

\* Only a trap that no breakpoint explains is a step within the range.
AreSingleSteppingInRange ==
    /\ ranged
    /\ SignalOf(Recorded) = "SIGTRAP"
    /\ "BKPT" \notin Recorded.dfsr

\* What each way through mriDebugException has in common, once the callback
\* of a temporary breakpoint has returned this.
Exception(resumes) ==
    /\ phase = "exception"
    /\ IF WasTempBreakpointHit
       THEN resumes \in CallbackResults
       ELSE resumes = FALSE
    /\ recorded' = Recorded
    /\ temp' = IF WasTempBreakpointHit THEN NoTemp ELSE temp
    /\ exc' = NoException

\* The callback resumes the program at once.
TempBreakpointCallbackResumes ==
    /\ Exception(TRUE)
    /\ m' = ClearTempBreakpoint(m)
    /\ phase' = "running"
    /\ command' = "none"
    /\ steps' = 0
    /\ UNCHANGED <<isr, rx, ranged, resetRequested, originalPc, signal, cause,
                   resetBy>>

\* Mutant: the step is armed before it is disabled.
StepAgainThenDisable(svcSet) ==
    /\ Exception(FALSE)
    /\ AreSingleSteppingInRange
    /\ m.pc \in Range
    /\ signal' = SignalOf(Recorded)
    /\ m' = DisableSingleStep(EnableSingleStep(ClearTempBreakpoint(m), svcSet))
    /\ phase' = "running"
    /\ steps' = IF command = "r" THEN 0 ELSE steps
    /\ UNCHANGED <<isr, rx, ranged, resetRequested, originalPc, command, cause,
                   resetBy>>

StepAgainInRange(svcSet) ==
    /\ Exception(FALSE)
    /\ AreSingleSteppingInRange
    /\ m.pc \in Range
    /\ signal' = SignalOf(Recorded)
    /\ m' = EnableSingleStep(DisableSingleStep(ClearTempBreakpoint(m)), svcSet)
    /\ phase' = "running"
    /\ steps' = IF command = "r" THEN 0 ELSE steps
    /\ UNCHANGED <<isr, rx, ranged, resetRequested, originalPc, command, cause,
                   resetBy>>

StopsForGdb ==
    /\ Exception(FALSE)
    /\ ~(AreSingleSteppingInRange /\ m.pc \in Range)
    /\ ranged' = FALSE

\* Platform_EnteringDebugger
EnteringDebugger == DisableSingleStep(ClearTempBreakpoint(m))

IsSemihostCall ==
    SignalOf(Recorded) = "SIGTRAP" /\ Program[m.pc] = "console"

\* prepareForDebuggerExit: the device is reset first when gdb asked for it.
\* CORTEXM_FLAGS_PEND_FROM_FAULT is cleared by Platform_LeavingDebugger.
MustReset(s) == resetRequested /\ ~IsSingleStepping(s)

LeavingDebugger(s) == [s EXCEPT !.flags = @ \ {"PEND_FROM_FAULT"}]

ResetDevice(by) ==
    /\ m' = MachineAtReset
    /\ isr' = 0
    /\ rx' = FALSE
    /\ phase' = "running"
    /\ exc' = NoException
    /\ recorded' = NoException
    /\ temp' = NoTemp
    /\ ranged' = FALSE
    /\ resetRequested' = FALSE
    /\ originalPc' = 0
    /\ signal' = "none"
    /\ command' = "none"
    /\ steps' = 0
    /\ cause' = "none"
    /\ resetBy' = by

\* Mutant: Ctrl-C, read while the text was sent, is forgotten.
ServeSemihostCallDespiteControlC ==
    /\ StopsForGdb
    /\ IsSemihostCall
    /\ ~IsSingleStepping(m)
    /\ ~MustReset(EnteringDebugger)
    /\ m' = LeavingDebugger([EnteringDebugger EXCEPT !.pc = Following(@)])
    /\ originalPc' = m.pc
    /\ signal' = SignalOf(Recorded)
    /\ rx' = FALSE
    /\ phase' = "running"
    /\ UNCHANGED <<isr, resetRequested, history>>

\* writeToGdbConsole has sent the text and the program resumes behind the
\* call, unless it was being stepped.
ServeSemihostCall ==
    /\ StopsForGdb
    /\ IsSemihostCall
    /\ ~rx
    /\ ~IsSingleStepping(m)
    /\ ~MustReset(EnteringDebugger)
    /\ m' = LeavingDebugger([EnteringDebugger EXCEPT !.pc = Following(@)])
    /\ originalPc' = m.pc
    /\ signal' = SignalOf(Recorded)
    /\ phase' = "running"
    /\ UNCHANGED <<isr, rx, resetRequested, history>>

\* The same with a reset still requested.
ResetAfterSemihostCall ==
    /\ phase = "exception"
    /\ WasTempBreakpointHit => FALSE \in CallbackResults
    /\ IsSemihostCall
    /\ ~rx
    /\ ~IsSingleStepping(m)
    /\ MustReset(EnteringDebugger)
    /\ ResetDevice("call")

\* The text was sent and Ctrl-C read meanwhile, or the program was stepped.
EnterCommandLoopAfterSemihostCall ==
    /\ StopsForGdb
    /\ IsSemihostCall
    /\ rx \/ IsSingleStepping(m)
    /\ m' = [EnteringDebugger EXCEPT !.pc = Following(@)]
    /\ originalPc' = m.pc
    /\ signal' = IF rx THEN "SIGINT" ELSE SignalOf(Recorded)
    /\ cause' = IF rx THEN "control-c" ELSE cause
    /\ rx' = FALSE
    /\ phase' = "halted"
    /\ UNCHANGED <<isr, resetRequested, command, steps, resetBy>>

EnterCommandLoop ==
    /\ StopsForGdb
    /\ ~IsSemihostCall
    /\ m' = EnteringDebugger
    /\ originalPc' = m.pc
    /\ signal' = SignalOf(Recorded)
    /\ rx' = FALSE
    /\ phase' = "halted"
    /\ UNCHANGED <<isr, resetRequested, history>>

-----------------------------------------------------------------------------
(* gdb's commands, in the command loop.                                     *)

SkipsHardcodedBreakpoint ==
    m.pc = originalPc /\ Program[m.pc] = "bkpt"

\* ContinueExecution, with the address that the command may give.
ReadyToContinue(jump) ==
    LET skipped == IF SkipsHardcodedBreakpoint
                   THEN [m EXCEPT !.pc = Following(@)] ELSE m
    IN  IF jump = NoJump THEN skipped ELSE [skipped EXCEPT !.pc = jump]

\* History: "rs" is an s while the range of an earlier vCont;r is kept.
CommandOf(by) == IF by = "s" /\ ranged THEN "rs" ELSE by

Resume(s, by) ==
    IF MustReset(s)
    THEN ResetDevice(by)
    ELSE /\ m' = LeavingDebugger(s)
         /\ phase' = "running"
         /\ command' = CommandOf(by)
         /\ steps' = 0
         /\ ranged' = (ranged \/ by = "r")
         /\ UNCHANGED <<isr, rx, exc, recorded, temp, resetRequested,
                        originalPc, signal, cause, resetBy>>

\* A command that stands for the step: another T response is sent.
StepWithoutResuming(s, by) ==
    /\ m' = s
    /\ command' = CommandOf(by)
    /\ steps' = 1
    /\ ranged' = (ranged \/ by = "r")
    /\ UNCHANGED <<isr, rx, phase, exc, recorded, temp, resetRequested,
                   originalPc, signal, cause, resetBy>>

\* c, C, D and vCont;c
ContinueCommand(jump) ==
    /\ phase = "halted"
    /\ Resume(ReadyToContinue(jump), "c")

\* s and vCont;s, and vCont;r which then records its range, also when the
\* program has not been resumed.
SingleStepCommand(jump, svcSet, by) ==
    LET before == ReadyToContinue(jump)
        after == EnableSingleStep(before, svcSet)
    IN  /\ phase = "halted"
        /\ IF SkipsHardcodedBreakpoint
           THEN StepWithoutResuming(before, by)
           ELSE IF after.pc # before.pc
           THEN StepWithoutResuming(after, by)
           ELSE Resume(after, by)

\* S: Platform_EnableSingleStep is its last call.
SingleStepWithSignalCommand(jump, svcSet) ==
    LET before == ReadyToContinue(jump)
    IN  /\ phase = "halted"
        /\ IF SkipsHardcodedBreakpoint
           THEN StepWithoutResuming(before, "S")
           ELSE Resume(EnableSingleStep(before, svcSet), "S")

\* The PC is written with the other registers by G.
RegisterWriteCommand(a) ==
    /\ phase = "halted"
    /\ m' = [m EXCEPT !.pc = a]
    /\ UNCHANGED <<isr, rx, phase, exc, monitor, history>>

BreakpointSetCommand(a) ==
    /\ phase = "halted"
    /\ m' = [m EXCEPT !.armed = @ \cup {a}]
    /\ UNCHANGED <<isr, rx, phase, exc, monitor, history>>

BreakpointRemoveCommand(a) ==
    /\ phase = "halted"
    /\ m' = [m EXCEPT !.armed = @ \ {a}]
    /\ UNCHANGED <<isr, rx, phase, exc, monitor, history>>

\* monitor reset
MonitorResetCommand ==
    /\ phase = "halted"
    /\ resetRequested' = TRUE
    /\ UNCHANGED <<m, isr, rx, phase, exc, recorded, temp, ranged, originalPc,
                   signal, history>>

-----------------------------------------------------------------------------

Jumps == JumpTargets \cup {NoJump}

ProgramNext ==
    \/ RunInstruction
    \/ HitBreakpoint
    \/ Fault
    \/ DeviceInterrupt
    \/ ControlC
    \/ CommInterrupt
    \/ \E a \in TempCode : SetTempBreakpoint(a)

HandlerNext ==
    \/ PendFaultToDebugMon
    \/ HandleFaultFromHighPriorityCode
    \/ TempBreakpointCallbackResumes
    \/ \E svcSet \in BOOLEAN : StepAgainInRange(svcSet)
    \/ ServeSemihostCall
    \/ ResetAfterSemihostCall
    \/ EnterCommandLoopAfterSemihostCall
    \/ EnterCommandLoop

CommandNext ==
    \/ \E jump \in Jumps :
          \/ ContinueCommand(jump)
          \/ \E svcSet \in BOOLEAN :
                \/ \E by \in {"s", "r"} : SingleStepCommand(jump, svcSet, by)
                \/ SingleStepWithSignalCommand(jump, svcSet)
    \/ \E a \in JumpTargets : RegisterWriteCommand(a)
    \/ \E a \in GdbCode : BreakpointSetCommand(a) \/ BreakpointRemoveCommand(a)
    \/ MonitorResetCommand

Next == ProgramNext \/ HandlerNext \/ CommandNext

\* The processor executes instructions, takes the exceptions that are
\* pending, and runs its handlers to their end.
Fairness ==
    /\ WF_vars(RunInstruction \/ HitBreakpoint \/ Fault)
    /\ WF_vars(CommInterrupt)
    /\ WF_vars(HandlerNext)

Spec == Init /\ [][Next]_vars /\ Fairness

-----------------------------------------------------------------------------
(* Properties.                                                              *)

Flags == {"SINGLE_STEPPING", "RESTORE_PRI", "SVC_STEP", "PEND_FROM_FAULT"}
Exceptions ==
    [number : {0, 3, 12, 16}, dfsr : SUBSET {"HALTED", "BKPT"},
     debugEvent : BOOLEAN]

\* The registers, the debug units and the monitor's flags.
Machines ==
    [pc : Addresses, primask : {0, 1}, basepri : Nat,
     r : {0, 1}, q : Nat, ret : Addresses \cup {NoReturn},
     monStep : BOOLEAN, armed : SUBSET Addresses, flags : SUBSET Flags,
     savedPrimask : {0, 1}, savedBasepri : Nat]

TypeOK ==
    /\ m \in Machines
    /\ isr \in {0, 1}
    /\ rx \in BOOLEAN
    /\ phase \in {"running", "fault", "exception", "halted"}
    /\ exc \in Exceptions
    /\ recorded \in Exceptions
    /\ temp \in Addresses \cup {NoTemp}
    /\ ranged \in BOOLEAN
    /\ resetRequested \in BOOLEAN
    /\ originalPc \in Addresses
    /\ signal \in {"none", "SIGINT", "SIGSEGV", "SIGTRAP"}
    /\ command \in {"none", "c", "s", "S", "r", "rs"}
    /\ steps \in 0 .. 2
    /\ cause \in {"none", "step", "breakpoint", "fault", "control-c"}
    /\ resetBy \in {"none", "c", "s", "S", "r", "call"}

\* The registers as the program left them: while a step is armed, or a fault
\* handler has unmasked DebugMon, the monitor keeps two of them aside.
ProgramRegisters(s) ==
    LET kept == "RESTORE_PRI" \in s.flags
    IN  [pc |-> s.pc,
         primask |-> IF kept THEN s.savedPrimask ELSE s.primask,
         basepri |-> IF kept THEN s.savedBasepri ELSE s.basepri,
         r |-> s.r, q |-> s.q, ret |-> s.ret]

Bare == INSTANCE Processor WITH cpu <- ProgramRegisters(m)

\* The program executes as it would without the monitor, whatever is stepped,
\* simulated, skipped or served on its way: every instruction takes effect
\* once, PRIMASK and BASEPRI hold what the program wrote, and no device
\* interrupts a critical section.
Transparent == Bare!Spec

\* s executes one instruction of the program and no more before the program
\* is halted again (EnableSingleStep may decide to execute it itself), unless
\* a range has been left behind by vCont;r.
StepExecutesOne == command = "s" => steps <= 1

\* s executes one instruction, also when vCont;r was the command before it:
\* a range is not kept for later.
EveryStepExecutesOne == command \in {"s", "rs"} => steps <= 1

\* So does each step within the range of vCont;r: the program is not resumed
\* at an instruction that nothing will stop behind.
RangeStepExecutesOne == command = "r" => steps <= 1

\* And so does S, which differs from s in a signal that is ignored.
SignalStepExecutesOne == command = "S" => steps <= 1

\* No device interrupts between a step and the instruction it is for: the
\* priority is raised.  An SVC cannot be executed with the priority raised.
NoInterruptDuringStep ==
    [][(isr' # isr /\ ~resetRequested /\ command = "s" /\ steps = 0)
            => Program[m.pc] = "svc"]_vars

\* The signal of the T response is that of the exception that halted the
\* program, also when DebugMon was pended by a fault handler and when another
\* exception had been recorded before.
SignalMatchesCause ==
    phase = "halted" =>
        signal = CASE cause \in {"step", "breakpoint"} -> "SIGTRAP"
                   [] cause = "fault"                  -> "SIGSEGV"
                   [] cause = "control-c"              -> "SIGINT"

\* Only a continue resets the device that gdb asked to reset.
ResetOnlyOnContinue == resetBy \in {"none", "c"}

\* Ctrl-C halts a program that does not stay in a critical section.
ControlCHalts == rx ~> phase = "halted"

\* A step ends in the command loop.
StepEnds == (phase = "running" /\ command = "s") ~> phase = "halted"

=============================================================================
