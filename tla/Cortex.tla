-------------------------------- MODULE Cortex --------------------------------
(***************************************************************************)
(* A program and the processor that executes it, as far as a debug monitor *)
(* can disturb them: the program counter, the registers that mask          *)
(* exceptions, and the two general registers the program moves them        *)
(* through, r for PRIMASK and q for BASEPRI.  None of this is code of the  *)
(* monitor: Processor puts it together as a machine of its own, and        *)
(* DebugMonitor as the machine that the monitor halts and steps.           *)
(*                                                                         *)
(* Instructions are numbered by their addresses, whatever their width, and *)
(* the last is followed by the first.                                      *)
(***************************************************************************)
EXTENDS Naturals

CONSTANTS
    Last,               \* the last address
    Program,            \* the kind of instruction at each address
    BranchTargets,      \* where a branch may go
    SvcHandler,         \* entry of the SVC handler
    DebugMonPriority,   \* priority of the DebugMon exception, 0 is highest
    Level,              \* the priority that "load" puts in q, where "zero" puts 0
    JumpTargets         \* addresses at which gdb may resume the program

Addresses == 0 .. Last

\* No handler is active: there is no address to return to.
NoReturn == Last + 1

\* The instructions that Platform_EnableSingleStep simulates.
PriorityInstructions ==
    {"mrs primask", "msr primask", "cpsid i", "cpsie i",
     "mrs basepri", "msr basepri", "msr basepri_max"}

\* BKPT instructions: hard coded, and a semihosting call to the console.
BreakInstructions == {"bkpt", "console"}

Kinds == PriorityInstructions \cup BreakInstructions
            \cup {"nop", "load", "zero", "branch", "svc", "return", "fault"}

ASSUME CortexAssumption ==
    /\ Last \in Nat \ {0}
    /\ Program \in [Addresses -> Kinds]
    /\ BranchTargets \subseteq Addresses
    /\ SvcHandler \in Addresses
    /\ DebugMonPriority \in Nat
    /\ Level \in Nat
    /\ JumpTargets \subseteq Addresses

Registers ==
    [pc : Addresses, primask : {0, 1}, basepri : Nat,
     r : {0, 1}, q : Nat, ret : Addresses \cup {NoReturn}]

AtReset ==
    [pc |-> 0, primask |-> 0, basepri |-> 0, r |-> 0, q |-> 0,
     ret |-> NoReturn]

Following(a) == IF a = Last THEN 0 ELSE a + 1

-----------------------------------------------------------------------------
(* The operators below take any record that has the fields of Registers.    *)

\* The exception mask registers hold back an exception of this priority.
Masks(s, priority) ==
    s.primask = 1 \/ (s.basepri # 0 /\ s.basepri <= priority)

\* SVC and the devices have a priority lower than that of DebugMon
\* (mriCortexMInit gives it to them when DebugMon has the highest one), and
\* do not preempt the SVC handler.
LowerPriority == DebugMonPriority + 1
CanTakeLower(s) == ~Masks(s, LowerPriority) /\ s.ret = NoReturn

\* MSR BASEPRI_MAX only ever raises the priority.
RaisedBasepri(s) ==
    IF s.q # 0 /\ (s.basepri = 0 \/ s.q < s.basepri) THEN s.q ELSE s.basepri

\* The registers after the instruction at the PC, the empty set for an
\* instruction that does not complete.
Executed(s) ==
    LET next == [s EXCEPT !.pc = Following(s.pc)]
        kind == Program[s.pc]
    IN  CASE kind = "nop"             -> {next}
          [] kind = "load"            -> {[next EXCEPT !.q = Level]}
          [] kind = "zero"            -> {[next EXCEPT !.q = 0]}
          [] kind = "branch"          -> {[s EXCEPT !.pc = a] : a \in BranchTargets}
          [] kind = "mrs primask"     -> {[next EXCEPT !.r = s.primask]}
          [] kind = "msr primask"     -> {[next EXCEPT !.primask = s.r]}
          [] kind = "cpsid i"         -> {[next EXCEPT !.primask = 1]}
          [] kind = "cpsie i"         -> {[next EXCEPT !.primask = 0]}
          [] kind = "mrs basepri"     -> {[next EXCEPT !.q = s.basepri]}
          [] kind = "msr basepri"     -> {[next EXCEPT !.basepri = s.q]}
          [] kind = "msr basepri_max" -> {[next EXCEPT !.basepri = RaisedBasepri(s)]}
          [] kind = "svc" /\ CanTakeLower(s) ->
                {[s EXCEPT !.pc = SvcHandler, !.ret = Following(s.pc)]}
          [] kind = "return" /\ s.ret # NoReturn ->
                {[s EXCEPT !.pc = s.ret, !.ret = NoReturn]}
          [] OTHER                    -> {}

\* A BKPT is nothing to the program that gdb lets go past it.
PastBreak(s) ==
    IF Program[s.pc] \in BreakInstructions
    THEN {[s EXCEPT !.pc = Following(s.pc)]}
    ELSE {}
=============================================================================
