----------------------------- MODULE Breakpoints -----------------------------
(***************************************************************************)
(* Who uses the code comparators, and what becomes of a breakpoint when    *)
(* two of them use the same address.  Three parts of the monitor set       *)
(* hardware breakpoints through the one bank of comparators:               *)
(*                                                                         *)
(*   - gdb, with the Z1 and z1 commands (core/cmd_break_watch.c);          *)
(*   - the program, with mriCore_SetTempBreakpoint (core/mri.c), a         *)
(*     breakpoint that mriDebugException clears when it is hit;            *)
(*   - the monitor itself, which single steps an SVC instruction by a      *)
(*     breakpoint on the SVC handler (Platform_EnableSingleStep).          *)
(*                                                                         *)
(* None of them records who else wanted the comparator.                    *)
(***************************************************************************)
EXTENDS FlashPatch, FiniteSets

CONSTANTS
    Code,         \* addresses of the instructions the actors name
    Wide,         \* those of Code that hold a 32-bit instruction
    Unreadable,   \* those of Code whose halfword faults when it is read
    SvcHandler,   \* entry of the SVC handler in the vector table
    GdbCode,      \* addresses where gdb sets breakpoints
    TempCode      \* function pointers the program gives SetTempBreakpoint

\* Instructions do not overlap: a 32-bit instruction covers two halfwords.
ASSUME LayoutAssumption ==
    /\ Code \subseteq Nat
    /\ Wide \subseteq Code
    /\ Unreadable \subseteq Code
    /\ \A a \in Wide : a + 2 \notin Code
    /\ GdbCode \subseteq Code
    /\ TempCode \subseteq Nat
    /\ \A a \in TempCode : a - (a % 2) \in Code
    /\ SvcHandler \in Code

VARIABLES
    fpb,         \* the bank of code comparators
    temp,        \* MRI_FLAGS_TEMP_BREAKPOINT and tempBreakpointAddress
    svcStep,     \* CORTEXM_FLAGS_SVC_STEP
    ranged,      \* MRI_FLAGS_RANGED_SINGLE_STEP
    mode,        \* the program is running, or halted in the command loop
    requested    \* history: breakpoints gdb was told are set, not yet removed

vars == <<fpb, temp, svcStep, ranged, mode, requested>>

NoTemp == [set |-> FALSE, address |-> 0]

Init ==
    /\ fpb = ClearedBank
    /\ temp = NoTemp
    /\ svcStep = FALSE
    /\ ranged = FALSE
    /\ mode = "running"
    /\ requested = {}

-----------------------------------------------------------------------------
(* Platform routines.  Those that take no kind read the instruction to      *)
(* learn its width, and throw when it cannot be read.                       *)

\* The kinds gdb uses for the instruction at a, and one that it does not.
Kinds(a) == IF a \in Wide THEN {3, 4, 5} ELSE {2, 5}
KindIsValid(kind) == kind \in {2, 3, 4}
KindIsWide(kind) == kind \in {3, 4}

SetHardwareBreakpointThrows(bank, a) ==
    a \in Unreadable \/ CannotEnable(bank, a, a \in Wide)

SetHardwareBreakpoint(bank, a) ==
    IF a \in Unreadable THEN bank ELSE EnableBreakpoint(bank, a, a \in Wide)

ClearHardwareBreakpoint(bank, a) ==
    IF a \in Unreadable THEN bank ELSE DisableBreakpoint(bank, a, a \in Wide)

\* Mutant: disabling the step forgets the breakpoint on the SVC handler.
WithSvcBreakpointLeft(bank) == bank

\* removeHardwareBreakpointOnSvcHandlerIfNeeded, the part of
\* Platform_DisableSingleStep that concerns the comparators.
WithoutSvcBreakpoint(bank) ==
    IF svcStep THEN ClearHardwareBreakpoint(bank, SvcHandler) ELSE bank

\* Platform_EnableSingleStep with the PC at an SVC instruction ("svc") or at
\* any other: only the former touches the comparators.
ArmStep(bank, instruction) ==
    /\ svcStep' = ( /\ instruction = "svc"
                    /\ ~SetHardwareBreakpointThrows(bank, SvcHandler) )
    /\ fpb' = IF instruction = "svc"
              THEN SetHardwareBreakpoint(bank, SvcHandler)
              ELSE bank

Instructions == {"svc", "other"}

-----------------------------------------------------------------------------
(* gdb, while the program is halted.                                        *)

\* Z1,a,kind
HandleBreakpointSetCommand(a, kind) ==
    /\ mode = "halted"
    /\ IF ~KindIsValid(kind) \/ CannotEnable(fpb, a, KindIsWide(kind))
       THEN UNCHANGED <<fpb, requested>>
       ELSE /\ fpb' = EnableBreakpoint(fpb, a, KindIsWide(kind))
            /\ requested' = requested \cup {a}
    /\ UNCHANGED <<temp, svcStep, ranged, mode>>

\* z1,a,kind: an absent breakpoint is removed successfully as well.
HandleBreakpointRemoveCommand(a, kind) ==
    /\ mode = "halted"
    /\ IF KindIsValid(kind)
       THEN /\ fpb' = DisableBreakpoint(fpb, a, KindIsWide(kind))
            /\ requested' = requested \ {a}
       ELSE UNCHANGED <<fpb, requested>>
    /\ UNCHANGED <<temp, svcStep, ranged, mode>>

\* c: the program runs freely.
Continue ==
    /\ mode = "halted"
    /\ mode' = "running"
    /\ UNCHANGED <<fpb, temp, svcStep, ranged, requested>>

\* s, or vCont;r when the step is for a range.
Step(instruction, inRange) ==
    /\ mode = "halted"
    /\ ArmStep(fpb, instruction)
    /\ ranged' = inRange
    /\ mode' = "running"
    /\ UNCHANGED <<temp, requested>>

\* c after monitor reset: the device comes back through mriInit.
Reset ==
    /\ mode = "halted"
    /\ fpb' = ClearedBank
    /\ temp' = NoTemp
    /\ svcStep' = FALSE
    /\ ranged' = FALSE
    /\ mode' = "running"
    /\ requested' = {}

-----------------------------------------------------------------------------
(* The program, and the exceptions that it takes.                           *)

\* Mutant: the Thumb bit of a function pointer is kept.
AddressWithThumbBit(a) == a

\* The bit of the address that selects Thumb state is cleared first.
ClearThumbBitOfAddress(a) == a - (a % 2)

SetTempBreakpoint(a) ==
    LET address == ClearThumbBitOfAddress(a)
    IN  /\ mode = "running"
        /\ ~temp.set
        /\ ~SetHardwareBreakpointThrows(fpb, address)
        /\ fpb' = SetHardwareBreakpoint(fpb, address)
        /\ temp' = [set |-> TRUE, address |-> address]
        /\ UNCHANGED <<svcStep, ranged, mode, requested>>

WasTempBreakpointHit(pc) ==
    temp.set /\ ClearThumbBitOfAddress(pc) = temp.address

\* clearTempBreakpoint swallows the exception of a clear that throws.
BankOnceTempIsCleared(pc) ==
    IF WasTempBreakpointHit(pc)
    THEN ClearHardwareBreakpoint(fpb, temp.address)
    ELSE fpb

ClearTempBreakpointIfHit(pc) ==
    temp' = IF WasTempBreakpointHit(pc) THEN NoTemp ELSE temp

\* mriDebugException when the callback of the temporary breakpoint asks to
\* resume: nothing but the breakpoint itself has been cleaned up.
TempBreakpointCallbackResumes(pc) ==
    /\ mode = "running"
    /\ WasTempBreakpointHit(pc)
    /\ ClearTempBreakpointIfHit(pc)
    /\ fpb' = BankOnceTempIsCleared(pc)
    /\ UNCHANGED <<svcStep, ranged, mode, requested>>

\* mriDebugException within the range of vCont;r: the step is armed again.
StepAgainInRange(pc, instruction) ==
    /\ mode = "running"
    /\ ranged
    /\ ClearTempBreakpointIfHit(pc)
    /\ ArmStep(WithoutSvcBreakpoint(BankOnceTempIsCleared(pc)), instruction)
    /\ UNCHANGED <<ranged, mode, requested>>

\* mriDebugException otherwise: Platform_EnteringDebugger disables the step,
\* and either the command loop is entered or a semihost call is served and
\* the program resumes at once.
EnterDebugger(pc, semihostServed) ==
    /\ mode = "running"
    /\ ClearTempBreakpointIfHit(pc)
    /\ fpb' = WithoutSvcBreakpoint(BankOnceTempIsCleared(pc))
    /\ svcStep' = FALSE
    /\ ranged' = FALSE
    /\ mode' = IF semihostServed THEN "running" ELSE "halted"
    /\ UNCHANGED requested

-----------------------------------------------------------------------------

Next ==
    \/ \E a \in GdbCode : \E kind \in Kinds(a) :
          \/ HandleBreakpointSetCommand(a, kind)
          \/ HandleBreakpointRemoveCommand(a, kind)
    \/ Continue
    \/ \E instruction \in Instructions, inRange \in BOOLEAN :
          Step(instruction, inRange)
    \/ Reset
    \/ \E a \in TempCode : SetTempBreakpoint(a)
    \/ \E pc \in Code :
          \/ TempBreakpointCallbackResumes(pc)
          \/ \E instruction \in Instructions : StepAgainInRange(pc, instruction)
          \/ \E semihostServed \in BOOLEAN : EnterDebugger(pc, semihostServed)

Spec == Init /\ [][Next]_vars

-----------------------------------------------------------------------------
(* Properties.                                                              *)

TypeOK ==
    /\ fpb \in [Comparators -> Registers]
    /\ temp \in [set : BOOLEAN, address : Code \cup {0}]
    /\ svcStep \in BOOLEAN
    /\ ranged \in BOOLEAN
    /\ mode \in {"running", "halted"}
    /\ requested \subseteq GdbCode

TempAddresses == {ClearThumbBitOfAddress(a) : a \in TempCode}

\* The processor stops before it executes the instruction at a.
Watched(bank, a) == \E i \in Comparators : Hits(bank[i], a)

\* The breakpoints that some part of the monitor still wants.
Wanted ==
    requested \cup {a \in TempAddresses : temp.set /\ temp.address = a}
              \cup {a \in {SvcHandler} : svcStep}

\* A breakpoint occupies one comparator however often and by whomever it is
\* set (enableFPBBreakpoint looks for it first), so that clearing it once
\* clears it.
OneComparatorEach ==
    \A i, j \in Comparators :
        fpb[i] = fpb[j] /\ IsEnabled(fpb[i]) => i = j

\* No comparator is left behind by the temporary breakpoint, the step over
\* an SVC, a range step or gdb: each one in use is for a breakpoint that is
\* still wanted.  The bank is small, and a lost comparator never comes back.
NoComparatorLeaked ==
    \A i \in Comparators :
        IsEnabled(fpb[i]) =>
            \E a \in Wanted : fpb[i] = ComparatorValue(a, a \in Wide)

\* What the monitor does for itself and for the program never disarms a
\* breakpoint of gdb at an address that neither of them uses.
GdbBreakpointsKept ==
    \A a \in requested :
        a \notin TempAddresses \cup {SvcHandler} => Watched(fpb, a)

\* Nor does gdb, which clears and sets its breakpoints at every stop, or the
\* stepping over SVCs, disarm the temporary breakpoint while it is pending,
\* or the temporary breakpoint the one a step over an SVC waits for.
InternalBreakpointsKept ==
    /\ temp.set /\ temp.address \notin GdbCode \cup {SvcHandler}
            => Watched(fpb, temp.address)
    /\ svcStep /\ SvcHandler \notin GdbCode \cup TempAddresses
            => Watched(fpb, SvcHandler)

\* No exception: the processor stops where gdb has been told that it does.
EveryBreakpointKept == \A a \in requested : Watched(fpb, a)

\* When Z1 answers OK, the processor stops at that address.
OkMeansArmed ==
    [][\A a \in requested' \ requested : Watched(fpb', a)]_vars

\* When z1 answers OK, no comparator holds the breakpoint any more.
RemovedMeansCleared ==
    [][\A a \in requested \ requested' : Matching(fpb', a, a \in Wide) = {}]_vars

=============================================================================
