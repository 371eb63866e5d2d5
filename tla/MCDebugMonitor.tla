--------------------------- MODULE MCDebugMonitor ---------------------------
(***************************************************************************)
(* Programs for the runs of DebugMonitor.  Each is a loop.                 *)
(***************************************************************************)
EXTENDS DebugMonitor, Sequences

At(instructions) == [a \in Addresses |-> instructions[a + 1]]

\* A critical section in PRIMASK, an SVC with its handler at 9, a call to
\* the console and a hard coded breakpoint.
PrimaskProgram == At(<<
    "nop", "mrs primask", "cpsid i", "nop", "msr primask",
    "svc", "console", "bkpt", "branch", "nop", "return">>)

\* The same without a breakpoint that would halt it sooner or later, and
\* behind it, where only gdb sends the program, a fault in a critical section.
EndlessProgram == At(<<
    "nop", "mrs primask", "cpsid i", "nop", "msr primask",
    "svc", "console", "nop", "branch", "nop", "return",
    "load", "msr basepri", "fault">>)

\* A critical section in BASEPRI, with an instruction that faults in it.
BasepriProgram == At(<<
    "load", "msr basepri_max", "mrs basepri", "fault", "zero", "msr basepri",
    "cpsid i", "cpsie i", "svc", "branch", "return">>)

\* MSR BASEPRI_MAX with a register that holds 0.
MaxProgram == At(<<
    "load", "msr basepri", "zero", "msr basepri_max", "mrs basepri",
    "msr basepri", "nop", "nop", "branch", "nop", "return">>)

\* The handler of the SVC is at 5 and begins with a call to the console.
CallInHandlerProgram == At(<<
    "nop", "svc", "nop", "branch", "nop", "console", "return">>)

Start == {0}
InCritical == {3}
BehindFault == {4}
InSection == {11}
Handler == {9}
None == {}

\* Ranges of vCont;r with and without an instruction that is simulated.
Priority == 0 .. 3
NoPriority == 5 .. 8

\* What the callback of a temporary breakpoint may return.
No == {FALSE}
Both == BOOLEAN
=============================================================================
