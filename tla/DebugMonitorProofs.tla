------------------------- MODULE DebugMonitorProofs -------------------------
(***************************************************************************)
(* That the program runs under DebugMonitor as it runs on the bare         *)
(* processor, for every program, range, set of breakpoints and priority of *)
(* DebugMon.  Two things must be left out, which monitor_callback and      *)
(* monitor_basepri_max show to break it: a callback that resumes the       *)
(* program, and the instruction that is simulated wrongly.  And what gdb   *)
(* sees of a step and of a halt, in the second half of the module.         *)
(*                                                                         *)
(* The invariant says what the monitor keeps aside, and when: PRIMASK and  *)
(* BASEPRI are kept only while a step is armed at an instruction that does *)
(* not touch them, or between a fault handler and the command loop.        *)
(***************************************************************************)
EXTENDS DebugMonitor, TLAPS

\* What the refinement assumes of the program and of its callbacks.
NoCallbackResumes == CallbackResults \subseteq {FALSE}
NoBasepriMax == \A a \in Addresses : Program[a] # "msr basepri_max"

Kept(s) == "RESTORE_PRI" \in s.flags

\* Instructions that the priority of a step would disturb.
Delicate == PriorityInstructions \cup {"svc"}

\* A step is armed with the priority raised, which holds back everything
\* that could change PRIMASK or BASEPRI before the program stops.
StepIsArmed(s) ==
    /\ s.primask = 0
    /\ s.basepri = DebugMonPriority + 1
    /\ s.monStep

KeptWhileArmed ==
    /\ phase = "halted" => ~Kept(m)
    /\ phase \in {"running", "fault"} /\ Kept(m) => StepIsArmed(m)
    /\ phase = "running" /\ Kept(m) => Program[m.pc] \notin Delicate

\* A debug event comes with the bit that names it.
DebugEventsAreNamed(e) ==
    e.number = 12 \/ e.debugEvent => e.dfsr # {}

Types ==
    /\ TypeOK
    /\ DebugEventsAreNamed(exc)
    /\ DebugEventsAreNamed(recorded)

IInv == Types /\ KeptWhileArmed

-----------------------------------------------------------------------------
(* The operators on machines.                                               *)

\* The address behind an instruction is another instruction's.
LEMMA FollowingIsAddress ==
    ASSUME NEW a \in Addresses
    PROVE  Following(a) \in Addresses /\ Following(a) # a
  BY CortexAssumption DEF Following, Addresses

\* y is what the program knows of the registers of t.
Matches(y, t) ==
    /\ y.pc = t.pc /\ y.r = t.r /\ y.q = t.q /\ y.ret = t.ret
    /\ y.primask = IF Kept(t) THEN t.savedPrimask ELSE t.primask
    /\ y.basepri = IF Kept(t) THEN t.savedBasepri ELSE t.basepri

\* The registers that the program knows of are these.
LEMMA ProgramRegistersMatch ==
    ASSUME NEW t \in Machines
    PROVE  ProgramRegisters(t) \in Registers /\ Matches(ProgramRegisters(t), t)
  <1>1. ProgramRegisters(t) \in Registers
    BY Zenon DEF Machines, ProgramRegisters, Registers
  <1>2. Matches(ProgramRegisters(t), t)
    BY Zenon DEF Matches, ProgramRegisters, Kept
  <1> QED BY <1>1, <1>2

\* Registers with the same contents are the same.
LEMMA RegistersAreEqual ==
    ASSUME NEW x \in Registers, NEW y \in Registers,
           x.pc = y.pc, x.primask = y.primask, x.basepri = y.basepri,
           x.r = y.r, x.q = y.q, x.ret = y.ret
    PROVE  x = y
  BY SMT DEF Registers

\* There is only one such record.
LEMMA MatchesProgramRegisters ==
    ASSUME NEW t \in Machines, NEW y \in Registers, Matches(y, t)
    PROVE  y = ProgramRegisters(t)
  <1> DEFINE x == ProgramRegisters(t)
  <1>1. x \in Registers /\ Matches(x, t)
    BY ProgramRegistersMatch, Zenon
  <1> HIDE DEF x
  <1>2. /\ x.pc = y.pc /\ x.r = y.r /\ x.q = y.q /\ x.ret = y.ret
        /\ x.primask = y.primask /\ x.basepri = y.basepri
    BY <1>1, Zenon DEF Matches
  <1>3. x = y
    BY <1>1, <1>2, RegistersAreEqual, Zenon
  <1> QED
    BY <1>3, Zenon DEF x

\* Platform_DisableSingleStep gives the program its registers back.
LEMMA DisableKeepsRegisters ==
    ASSUME NEW s \in Machines
    PROVE  /\ DisableSingleStep(s) \in Machines
           /\ ~Kept(DisableSingleStep(s))
           /\ DisableSingleStep(s).pc = s.pc
           /\ ProgramRegisters(DisableSingleStep(s)) = ProgramRegisters(s)
  <1> DEFINE cleared == s.flags \ {"RESTORE_PRI", "SVC_STEP", "SINGLE_STEPPING"}
             left == IF "SVC_STEP" \in s.flags
                     THEN s.armed \ {SvcHandler} ELSE s.armed
             t == RestorePriority(s)
  <1>1. cleared \in SUBSET Flags /\ "RESTORE_PRI" \notin cleared
    BY DEF Machines
  <1>2. left \in SUBSET Addresses
    BY DEF Machines
  <1>3. t \in Machines /\ t.pc = s.pc /\ t.flags = s.flags /\ t.armed = s.armed
    <2>1. 0 \in Nat /\ 0 \in {0, 1}
      OBVIOUS
    <2> QED
      BY <2>1, Zenon DEF RestorePriority, Machines
  <1>4. DisableSingleStep(s) =
           [t EXCEPT !.armed = left, !.monStep = FALSE, !.flags = cleared]
    BY <1>3, Zenon DEF DisableSingleStep, Machines
  <1>5. /\ t.pc = s.pc /\ t.r = s.r /\ t.q = s.q /\ t.ret = s.ret
        /\ t.primask = IF Kept(s) THEN s.savedPrimask ELSE s.primask
        /\ t.basepri = IF Kept(s) THEN s.savedBasepri ELSE s.basepri
    BY Zenon DEF RestorePriority, Kept, Machines
  <1> HIDE DEF cleared, left, t
  <1>6. DisableSingleStep(s) \in Machines
    BY <1>1, <1>2, <1>3, <1>4, Zenon DEF Machines
  <1>7. ProgramRegisters(DisableSingleStep(s)) =
           [pc |-> t.pc, primask |-> t.primask, basepri |-> t.basepri,
            r |-> t.r, q |-> t.q, ret |-> t.ret]
    BY <1>1, <1>3, <1>4, Zenon DEF Machines, ProgramRegisters
  <1>8. ProgramRegisters(DisableSingleStep(s)) = ProgramRegisters(s)
    BY <1>5, <1>7, Zenon DEF ProgramRegisters, Kept
  <1> QED
    BY <1>1, <1>3, <1>4, <1>6, <1>8, Zenon DEF Machines, Kept

\* An instruction leaves alone what the monitor keeps, and PRIMASK and
\* BASEPRI unless it is one that the monitor is careful with.
LEMMA ExecutedMachines ==
    ASSUME NEW s \in Machines, NEW t \in Executed(s)
    PROVE  /\ t \in Machines
           /\ t.flags = s.flags
           /\ t.monStep = s.monStep
           /\ Program[s.pc] \notin Delicate =>
                 t.primask = s.primask /\ t.basepri = s.basepri
  <1>1. s.pc \in Addresses /\ Following(s.pc) \in Addresses
    BY FollowingIsAddress, Zenon DEF Machines
  <1>2. /\ 0 \in {0, 1} /\ 1 \in {0, 1} /\ 0 \in Nat /\ Level \in Nat
        /\ SvcHandler \in Addresses /\ BranchTargets \subseteq Addresses
    BY CortexAssumption
  <1>3. Program[s.pc] \in Kinds
    BY <1>1, CortexAssumption
  <1>4. RaisedBasepri(s) \in Nat
    BY Zenon DEF RaisedBasepri, Machines
  <1>5. CASE Program[s.pc] = "nop"
    <2>1. t = [s EXCEPT !.pc = Following(s.pc)]
      BY <1>5, Zenon DEF Executed
    <2> QED
      BY <1>1, <1>2, <1>5, <2>1, Zenon DEF Machines, Delicate, PriorityInstructions
  <1>6. CASE Program[s.pc] = "load"
    <2>1. t = [[s EXCEPT !.pc = Following(s.pc)] EXCEPT !.q = Level]
      BY <1>6, Zenon DEF Executed
    <2> QED
      BY <1>1, <1>2, <1>6, <2>1, Zenon DEF Machines, Delicate, PriorityInstructions
  <1>7. CASE Program[s.pc] = "zero"
    <2>1. t = [[s EXCEPT !.pc = Following(s.pc)] EXCEPT !.q = 0]
      BY <1>7, Zenon DEF Executed
    <2> QED
      BY <1>1, <1>2, <1>7, <2>1, Zenon DEF Machines, Delicate, PriorityInstructions
  <1>8. CASE Program[s.pc] = "mrs primask"
    <2>1. t = [[s EXCEPT !.pc = Following(s.pc)] EXCEPT !.r = s.primask]
      BY <1>8, Zenon DEF Executed
    <2> QED
      BY <1>1, <1>2, <1>8, <2>1, Zenon DEF Machines, Delicate, PriorityInstructions
  <1>9. CASE Program[s.pc] = "msr primask"
    <2>1. t = [[s EXCEPT !.pc = Following(s.pc)] EXCEPT !.primask = s.r]
      BY <1>9, Zenon DEF Executed
    <2> QED
      BY <1>1, <1>2, <1>9, <2>1, Zenon DEF Machines, Delicate, PriorityInstructions
  <1>10. CASE Program[s.pc] = "cpsid i"
    <2>1. t = [[s EXCEPT !.pc = Following(s.pc)] EXCEPT !.primask = 1]
      BY <1>10, Zenon DEF Executed
    <2> QED
      BY <1>1, <1>2, <1>10, <2>1, Zenon DEF Machines, Delicate, PriorityInstructions
  <1>11. CASE Program[s.pc] = "cpsie i"
    <2>1. t = [[s EXCEPT !.pc = Following(s.pc)] EXCEPT !.primask = 0]
      BY <1>11, Zenon DEF Executed
    <2> QED
      BY <1>1, <1>2, <1>11, <2>1, Zenon DEF Machines, Delicate, PriorityInstructions
  <1>12. CASE Program[s.pc] = "mrs basepri"
    <2>1. t = [[s EXCEPT !.pc = Following(s.pc)] EXCEPT !.q = s.basepri]
      BY <1>12, Zenon DEF Executed
    <2> QED
      BY <1>1, <1>2, <1>12, <2>1, Zenon DEF Machines, Delicate, PriorityInstructions
  <1>13. CASE Program[s.pc] = "msr basepri"
    <2>1. t = [[s EXCEPT !.pc = Following(s.pc)] EXCEPT !.basepri = s.q]
      BY <1>13, Zenon DEF Executed
    <2> QED
      BY <1>1, <1>2, <1>13, <2>1, Zenon DEF Machines, Delicate, PriorityInstructions
  <1>14. CASE Program[s.pc] = "msr basepri_max"
    <2>1. t = [[s EXCEPT !.pc = Following(s.pc)] EXCEPT !.basepri = RaisedBasepri(s)]
      BY <1>14, Zenon DEF Executed
    <2> QED
      BY <1>1, <1>4, <1>14, <2>1, Zenon DEF Machines, Delicate, PriorityInstructions
  <1>15. CASE Program[s.pc] = "branch"
    <2>1. PICK a \in BranchTargets : t = [s EXCEPT !.pc = a]
      BY <1>15, Zenon DEF Executed
    <2> QED
      BY <1>2, <2>1, Zenon DEF Machines
  <1>16. CASE Program[s.pc] = "svc"
    <2>1. t = [s EXCEPT !.pc = SvcHandler, !.ret = Following(s.pc)]
      BY <1>16, Zenon DEF Executed
    <2> QED
      BY <1>1, <1>2, <1>16, <2>1, Zenon DEF Machines, Delicate
  <1>17. CASE Program[s.pc] = "return"
    <2>1. s.ret # NoReturn
          /\ t = [s EXCEPT !.pc = s.ret, !.ret = NoReturn]
      BY <1>17, Zenon DEF Executed
    <2>2. s.ret \in Addresses /\ NoReturn \in Addresses \cup {NoReturn}
      BY <2>1, Zenon DEF Machines
    <2> QED
      BY <2>1, <2>2, Zenon DEF Machines
  <1>18. CASE Program[s.pc] \in BreakInstructions \cup {"fault"}
    BY <1>18, Zenon DEF Executed, BreakInstructions
  <1> QED
    BY <1>3, <1>5, <1>6, <1>7, <1>8, <1>9, <1>10, <1>11, <1>12, <1>13, <1>14,
       <1>15, <1>16, <1>17, <1>18, Zenon DEF Kinds, PriorityInstructions

\* What an instruction does to the registers of a machine it does to those
\* that the program knows of.
LEMMA ExecutedIsExecution ==
    ASSUME NEW s \in Machines, NEW t \in Executed(s),
           Kept(s) => Program[s.pc] \notin Delicate
    PROVE  ProgramRegisters(t) \in Executed(ProgramRegisters(s))
  <1> DEFINE p == ProgramRegisters(s)
  <1>1. p \in Registers /\ Matches(p, s) /\ p.pc = s.pc
    BY ProgramRegistersMatch, Zenon DEF Matches
  <1>2. s.pc \in Addresses /\ Following(s.pc) \in Addresses
    BY FollowingIsAddress, Zenon DEF Machines
  <1>3. /\ 0 \in {0, 1} /\ 1 \in {0, 1} /\ 0 \in Nat /\ Level \in Nat
        /\ SvcHandler \in Addresses /\ BranchTargets \subseteq Addresses
        /\ RaisedBasepri(s) \in Nat
    BY CortexAssumption DEF RaisedBasepri, Machines
  <1>4. Program[s.pc] \in Kinds
    BY <1>2, CortexAssumption
  <1> HIDE DEF p
  <1> SUFFICES \E y \in Executed(p) : y \in Registers /\ Matches(y, t)
    BY ExecutedMachines, MatchesProgramRegisters, Zenon DEF p
  <1>5. CASE Program[s.pc] = "nop"
    <2> DEFINE y == [p EXCEPT !.pc = Following(p.pc)]
    <2>2. t = [s EXCEPT !.pc = Following(s.pc)]
      BY <1>5, Zenon DEF Executed
    <2>3. y \in Executed(p)
      BY <1>1, <1>5, Zenon DEF Executed
    <2>4. y \in Registers /\ Matches(y, t)
      BY <1>1, <1>2, <1>3, <2>2, Zenon
      DEF Matches, Registers, Machines, Kept
    <2> QED
      BY <2>3, <2>4, Zenon
  <1>6. CASE Program[s.pc] = "load"
    <2> DEFINE y == [[p EXCEPT !.pc = Following(p.pc)] EXCEPT !.q = Level]
    <2>2. t = [[s EXCEPT !.pc = Following(s.pc)] EXCEPT !.q = Level]
      BY <1>6, Zenon DEF Executed
    <2>3. y \in Executed(p)
      BY <1>1, <1>6, Zenon DEF Executed
    <2>4. y \in Registers /\ Matches(y, t)
      BY <1>1, <1>2, <1>3, <2>2, Zenon
      DEF Matches, Registers, Machines, Kept
    <2> QED
      BY <2>3, <2>4, Zenon
  <1>7. CASE Program[s.pc] = "zero"
    <2> DEFINE y == [[p EXCEPT !.pc = Following(p.pc)] EXCEPT !.q = 0]
    <2>2. t = [[s EXCEPT !.pc = Following(s.pc)] EXCEPT !.q = 0]
      BY <1>7, Zenon DEF Executed
    <2>3. y \in Executed(p)
      BY <1>1, <1>7, Zenon DEF Executed
    <2>4. y \in Registers /\ Matches(y, t)
      BY <1>1, <1>2, <1>3, <2>2, Zenon
      DEF Matches, Registers, Machines, Kept
    <2> QED
      BY <2>3, <2>4, Zenon
  <1>8. CASE Program[s.pc] = "mrs primask"
    <2> DEFINE y == [[p EXCEPT !.pc = Following(p.pc)] EXCEPT !.r = p.primask]
    <2>1. ~Kept(s)
      BY <1>8, Zenon DEF Delicate, PriorityInstructions
    <2>2. t = [[s EXCEPT !.pc = Following(s.pc)] EXCEPT !.r = s.primask]
      BY <1>8, Zenon DEF Executed
    <2>3. y \in Executed(p)
      BY <1>1, <1>8, Zenon DEF Executed
    <2>4. y \in Registers /\ Matches(y, t)
      BY <1>1, <1>2, <1>3, <2>1, <2>2, Zenon
      DEF Matches, Registers, Machines, Kept
    <2> QED
      BY <2>3, <2>4, Zenon
  <1>9. CASE Program[s.pc] = "msr primask"
    <2> DEFINE y == [[p EXCEPT !.pc = Following(p.pc)] EXCEPT !.primask = p.r]
    <2>1. ~Kept(s)
      BY <1>9, Zenon DEF Delicate, PriorityInstructions
    <2>2. t = [[s EXCEPT !.pc = Following(s.pc)] EXCEPT !.primask = s.r]
      BY <1>9, Zenon DEF Executed
    <2>3. y \in Executed(p)
      BY <1>1, <1>9, Zenon DEF Executed
    <2>4. y \in Registers /\ Matches(y, t)
      BY <1>1, <1>2, <1>3, <2>1, <2>2, Zenon
      DEF Matches, Registers, Machines, Kept
    <2> QED
      BY <2>3, <2>4, Zenon
  <1>10. CASE Program[s.pc] = "cpsid i"
    <2> DEFINE y == [[p EXCEPT !.pc = Following(p.pc)] EXCEPT !.primask = 1]
    <2>1. ~Kept(s)
      BY <1>10, Zenon DEF Delicate, PriorityInstructions
    <2>2. t = [[s EXCEPT !.pc = Following(s.pc)] EXCEPT !.primask = 1]
      BY <1>10, Zenon DEF Executed
    <2>3. y \in Executed(p)
      BY <1>1, <1>10, Zenon DEF Executed
    <2>4. y \in Registers /\ Matches(y, t)
      BY <1>1, <1>2, <1>3, <2>1, <2>2, Zenon
      DEF Matches, Registers, Machines, Kept
    <2> QED
      BY <2>3, <2>4, Zenon
  <1>11. CASE Program[s.pc] = "cpsie i"
    <2> DEFINE y == [[p EXCEPT !.pc = Following(p.pc)] EXCEPT !.primask = 0]
    <2>1. ~Kept(s)
      BY <1>11, Zenon DEF Delicate, PriorityInstructions
    <2>2. t = [[s EXCEPT !.pc = Following(s.pc)] EXCEPT !.primask = 0]
      BY <1>11, Zenon DEF Executed
    <2>3. y \in Executed(p)
      BY <1>1, <1>11, Zenon DEF Executed
    <2>4. y \in Registers /\ Matches(y, t)
      BY <1>1, <1>2, <1>3, <2>1, <2>2, Zenon
      DEF Matches, Registers, Machines, Kept
    <2> QED
      BY <2>3, <2>4, Zenon
  <1>12. CASE Program[s.pc] = "mrs basepri"
    <2> DEFINE y == [[p EXCEPT !.pc = Following(p.pc)] EXCEPT !.q = p.basepri]
    <2>1. ~Kept(s)
      BY <1>12, Zenon DEF Delicate, PriorityInstructions
    <2>2. t = [[s EXCEPT !.pc = Following(s.pc)] EXCEPT !.q = s.basepri]
      BY <1>12, Zenon DEF Executed
    <2>3. y \in Executed(p)
      BY <1>1, <1>12, Zenon DEF Executed
    <2>4. y \in Registers /\ Matches(y, t)
      BY <1>1, <1>2, <1>3, <2>1, <2>2, Zenon
      DEF Matches, Registers, Machines, Kept
    <2> QED
      BY <2>3, <2>4, Zenon
  <1>13. CASE Program[s.pc] = "msr basepri"
    <2> DEFINE y == [[p EXCEPT !.pc = Following(p.pc)] EXCEPT !.basepri = p.q]
    <2>1. ~Kept(s)
      BY <1>13, Zenon DEF Delicate, PriorityInstructions
    <2>2. t = [[s EXCEPT !.pc = Following(s.pc)] EXCEPT !.basepri = s.q]
      BY <1>13, Zenon DEF Executed
    <2>3. y \in Executed(p)
      BY <1>1, <1>13, Zenon DEF Executed
    <2>4. y \in Registers /\ Matches(y, t)
      BY <1>1, <1>2, <1>3, <2>1, <2>2, Zenon
      DEF Matches, Registers, Machines, Kept
    <2> QED
      BY <2>3, <2>4, Zenon
  <1>14. CASE Program[s.pc] = "msr basepri_max"
    <2> DEFINE y == [[p EXCEPT !.pc = Following(p.pc)] EXCEPT !.basepri = RaisedBasepri(p)]
    <2>1. ~Kept(s)
      BY <1>14, Zenon DEF Delicate, PriorityInstructions
    <2>2. t = [[s EXCEPT !.pc = Following(s.pc)] EXCEPT !.basepri = RaisedBasepri(s)]
      BY <1>14, Zenon DEF Executed
    <2>3. y \in Executed(p)
      BY <1>1, <1>14, Zenon DEF Executed
    <2>5. RaisedBasepri(p) = RaisedBasepri(s)
      BY <1>1, <2>1, Zenon DEF RaisedBasepri, Matches
    <2>4. y \in Registers /\ Matches(y, t)
      BY <1>1, <1>2, <1>3, <2>1, <2>2, <2>5, Zenon
      DEF Matches, Registers, Machines, Kept
    <2> QED
      BY <2>3, <2>4, Zenon
  <1>15. CASE Program[s.pc] = "branch"
    <2>1. PICK a \in BranchTargets : t = [s EXCEPT !.pc = a]
      BY <1>15, Zenon DEF Executed
    <2>2. [p EXCEPT !.pc = a] \in Executed(p)
      BY <1>1, <1>15, Zenon DEF Executed
    <2>3. [p EXCEPT !.pc = a] \in Registers /\ Matches([p EXCEPT !.pc = a], t)
      BY <1>1, <1>3, <2>1, Zenon DEF Matches, Registers, Machines, Kept
    <2> QED
      BY <2>2, <2>3, Zenon
  <1>16. CASE Program[s.pc] = "svc"
    <2> DEFINE y == [p EXCEPT !.pc = SvcHandler, !.ret = Following(p.pc)]
    <2>1. CanTakeLower(s)
          /\ t = [s EXCEPT !.pc = SvcHandler, !.ret = Following(s.pc)]
      BY <1>16, Zenon DEF Executed
    <2>2. ~Kept(s)
      BY <1>16, Zenon DEF Delicate
    <2>3. CanTakeLower(p)
      <3>1. p.primask = s.primask /\ p.basepri = s.basepri /\ p.ret = s.ret
        BY <1>1, <2>2, Zenon DEF Matches
      <3> QED
        BY <2>1, <3>1 DEF CanTakeLower, Masks
    <2>4. y \in Executed(p)
      BY <1>1, <1>16, <2>3, Zenon DEF Executed
    <2>5. y \in Registers /\ Matches(y, t)
      BY <1>1, <1>2, <1>3, <2>1, <2>2, Zenon
      DEF Matches, Registers, Machines, Kept
    <2> QED
      BY <2>4, <2>5, Zenon
  <1>17. CASE Program[s.pc] = "return"
    <2> DEFINE y == [p EXCEPT !.pc = p.ret, !.ret = NoReturn]
    <2>1. s.ret # NoReturn
          /\ t = [s EXCEPT !.pc = s.ret, !.ret = NoReturn]
      BY <1>17, Zenon DEF Executed
    <2>2. p.ret = s.ret /\ s.ret \in Addresses
      BY <1>1, <2>1, Zenon DEF Matches, Machines
    <2>3. y \in Executed(p)
      BY <1>1, <1>17, <2>1, <2>2, Zenon DEF Executed
    <2>4. y \in Registers /\ Matches(y, t)
      BY <1>1, <2>1, <2>2, Zenon DEF Matches, Registers, Machines, Kept
    <2> QED
      BY <2>3, <2>4, Zenon
  <1>18. CASE Program[s.pc] \in BreakInstructions \cup {"fault"}
    BY <1>18, Zenon DEF Executed, BreakInstructions
  <1> QED
    BY <1>4, <1>5, <1>6, <1>7, <1>8, <1>9, <1>10, <1>11, <1>12, <1>13, <1>14,
       <1>15, <1>16, <1>17, <1>18, Zenon DEF Kinds, PriorityInstructions

\* The simulation of an instruction does what the processor would do.
LEMMA SimulationIsExecution ==
    ASSUME NEW s \in Machines, ~Kept(s),
           Program[s.pc] \in PriorityInstructions
    PROVE  /\ SimulatedPriority(s) \in Machines
           /\ SimulatedPriority(s).flags = s.flags
           /\ SimulatedPriority(s).pc = Following(s.pc)
           /\ Program[s.pc] # "msr basepri_max" =>
                 ProgramRegisters(SimulatedPriority(s))
                    \in Executed(ProgramRegisters(s))
  <1> DEFINE next == [s EXCEPT !.pc = Following(s.pc)]
  <1>1. s.pc \in Addresses /\ Following(s.pc) \in Addresses
    BY FollowingIsAddress, Zenon DEF Machines
  <1>2. CASE Program[s.pc] # "msr basepri_max"
    <2>1. Executed(s) = {SimulatedPriority(s)}
      BY <1>2, Zenon DEF PriorityInstructions, SimulatedPriority, Executed
    <2>2. SimulatedPriority(s).pc = Following(s.pc)
      BY <1>1, <1>2, Zenon DEF PriorityInstructions, SimulatedPriority, Machines
    <2> QED
      BY <2>1, <2>2, ExecutedMachines, ExecutedIsExecution, Zenon
  <1>3. CASE Program[s.pc] = "msr basepri_max"
    <2>1. SimulatedPriority(s) =
             IF s.basepri = 0 \/ s.q < s.basepri
             THEN [next EXCEPT !.basepri = s.q] ELSE next
      BY <1>3, Zenon DEF SimulatedPriority
    <2> QED
      BY <1>1, <1>3, <2>1, Zenon DEF Machines
  <1> QED
    BY <1>2, <1>3, Zenon

\* The priority is raised without a change that the program can see.
LEMMA RaiseKeepsRegisters ==
    ASSUME NEW s \in Machines, ~Kept(s)
    PROVE  LET t == EnableHardwareStep(RaisePriority(s))
           IN  /\ t \in Machines
               /\ t.pc = s.pc
               /\ StepIsArmed(t)
               /\ ProgramRegisters(t) = ProgramRegisters(s)
  <1> DEFINE u == RaisePriority(s)
             t == EnableHardwareStep(u)
  <1>1. DebugMonPriority + 1 \in Nat /\ 0 \in {0, 1}
    BY CortexAssumption
  <1>2. s.flags \cup {"RESTORE_PRI"} \in SUBSET Flags
    BY DEF Machines, Flags
  <1>3. u \in Machines
    BY <1>1, <1>2, Zenon DEF RaisePriority, Machines
  <1>4. u.flags \cup {"SINGLE_STEPPING"} \in SUBSET Flags
        /\ "RESTORE_PRI" \in u.flags \cup {"SINGLE_STEPPING"}
    <2>1. "RESTORE_PRI" \in u.flags
      BY Zenon DEF RaisePriority, Machines
    <2> HIDE DEF u
    <2> QED
      BY <1>3, <2>1 DEF Machines, Flags
  <1>5. t \in Machines
    <2> HIDE DEF u
    <2> QED
      BY <1>3, <1>4, Zenon DEF EnableHardwareStep, Machines
  <1>6. /\ u.pc = s.pc /\ u.r = s.r /\ u.q = s.q /\ u.ret = s.ret
        /\ u.savedPrimask = s.primask /\ u.savedBasepri = s.basepri
        /\ u.primask = 0 /\ u.basepri = DebugMonPriority + 1
    BY Zenon DEF RaisePriority, Machines
  <1> HIDE DEF u
  <1>7. t.pc = s.pc /\ StepIsArmed(t)
    BY <1>3, <1>6, Zenon DEF EnableHardwareStep, StepIsArmed, Machines
  <1>8. ProgramRegisters(t) =
           [pc |-> u.pc, primask |-> u.savedPrimask, basepri |-> u.savedBasepri,
            r |-> u.r, q |-> u.q, ret |-> u.ret]
    BY <1>3, <1>4, Zenon DEF EnableHardwareStep, ProgramRegisters, Machines
  <1>9. ProgramRegisters(t) = ProgramRegisters(s)
    BY <1>6, <1>8, Zenon DEF ProgramRegisters, Kept
  <1> QED
    BY <1>5, <1>7, <1>9, Zenon DEF u

\* Platform_EnableSingleStep changes nothing that the program can see, unless
\* it executes the instruction.
LEMMA EnableStepsOrArms ==
    ASSUME NEW s \in Machines, ~Kept(s), NEW svcSet \in BOOLEAN
    PROVE  LET t == EnableSingleStep(s, svcSet)
           IN  /\ t \in Machines
               /\ \/ /\ t.pc = Following(s.pc)
                     /\ ~Kept(t)
                     /\ NoBasepriMax =>
                           ProgramRegisters(t) \in Executed(ProgramRegisters(s))
                  \/ /\ t.pc = s.pc
                     /\ ProgramRegisters(t) = ProgramRegisters(s)
                     /\ Kept(t) =>
                           StepIsArmed(t) /\ Program[t.pc] \notin Delicate
  <1> DEFINE t == EnableSingleStep(s, svcSet)
  <1>1. CASE Program[s.pc] \in PriorityInstructions
    <2>1. t = SimulatedPriority(s)
      BY <1>1, Zenon DEF EnableSingleStep
    <2>2. s.pc \in Addresses
      BY Zenon DEF Machines
    <2> QED
      BY <1>1, <2>1, <2>2, SimulationIsExecution, Zenon DEF Kept, NoBasepriMax
  <1>2. CASE Program[s.pc] \notin Delicate
    <2>1. t = EnableHardwareStep(RaisePriority(s))
      BY <1>2, Zenon DEF EnableSingleStep, Delicate
    <2> QED
      BY <1>2, <2>1, RaiseKeepsRegisters, Zenon
  <1>3. CASE Program[s.pc] = "svc"
    <2>1. Program[s.pc] \notin PriorityInstructions
      BY <1>3 DEF PriorityInstructions
    <2>2. /\ s.flags \cup {"SVC_STEP"} \in SUBSET Flags
          /\ s.flags \cup {"SINGLE_STEPPING"} \in SUBSET Flags
          /\ s.armed \cup {SvcHandler} \in SUBSET Addresses
          /\ "RESTORE_PRI" \notin s.flags \cup {"SVC_STEP"}
          /\ "RESTORE_PRI" \notin s.flags \cup {"SINGLE_STEPPING"}
      BY CortexAssumption DEF Machines, Flags, Kept
    <2>3. CASE svcSet
      <3>1. t = [s EXCEPT !.armed = s.armed \cup {SvcHandler},
                          !.flags = s.flags \cup {"SVC_STEP"}]
        BY <1>3, <2>1, <2>3, Zenon DEF EnableSingleStep
      <3> HIDE DEF t
      <3>2. t \in Machines /\ t.pc = s.pc /\ ~Kept(t)
        BY <2>2, <3>1, Zenon DEF Machines, Kept
      <3>3. ProgramRegisters(t) = ProgramRegisters(s)
        BY <2>2, <3>1, Zenon DEF Machines, ProgramRegisters, Kept
      <3> QED
        BY <3>2, <3>3, Zenon DEF t
    <2>4. CASE ~svcSet
      <3>1. t = [s EXCEPT !.monStep = TRUE,
                          !.flags = s.flags \cup {"SINGLE_STEPPING"}]
        BY <1>3, <2>1, <2>4, Zenon DEF EnableSingleStep, EnableHardwareStep
      <3> HIDE DEF t
      <3>2. t \in Machines /\ t.pc = s.pc /\ ~Kept(t)
        BY <2>2, <3>1, Zenon DEF Machines, Kept
      <3>3. ProgramRegisters(t) = ProgramRegisters(s)
        BY <2>2, <3>1, Zenon DEF Machines, ProgramRegisters, Kept
      <3> QED
        BY <3>2, <3>3, Zenon DEF t
    <2> QED
      BY <2>3, <2>4, Zenon
  <1> QED
    BY <1>1, <1>2, <1>3, Zenon DEF Delicate

\* What the program knows of its registers depends on no breakpoint.
LEMMA ArmedIsNotSeen ==
    ASSUME NEW s \in Machines, NEW armed \in SUBSET Addresses
    PROVE  LET t == [s EXCEPT !.armed = armed]
           IN  /\ t \in Machines
               /\ t.pc = s.pc /\ t.flags = s.flags /\ t.monStep = s.monStep
               /\ t.primask = s.primask /\ t.basepri = s.basepri
               /\ ProgramRegisters(t) = ProgramRegisters(s)
  <1> DEFINE t == [s EXCEPT !.armed = armed]
  <1>1. t \in Machines /\ t.pc = s.pc /\ t.flags = s.flags
        /\ t.monStep = s.monStep
        /\ t.primask = s.primask /\ t.basepri = s.basepri
    BY Zenon DEF Machines
  <1>2. ProgramRegisters(t) = ProgramRegisters(s)
    BY Zenon DEF Machines, ProgramRegisters
  <1> QED BY <1>1, <1>2, Zenon

\* Nor on a flag, other than the one that says what is kept.
LEMMA FlagsAreNotSeen ==
    ASSUME NEW s \in Machines, NEW flags \in SUBSET Flags,
           "RESTORE_PRI" \in flags <=> Kept(s)
    PROVE  LET t == [s EXCEPT !.flags = flags]
           IN  /\ t \in Machines
               /\ t.pc = s.pc /\ t.flags = flags
               /\ t.primask = s.primask /\ t.basepri = s.basepri
               /\ ProgramRegisters(t) = ProgramRegisters(s)
  <1> DEFINE t == [s EXCEPT !.flags = flags]
  <1>1. t \in Machines /\ t.pc = s.pc /\ t.flags = flags
        /\ t.primask = s.primask /\ t.basepri = s.basepri
    BY Zenon DEF Machines
  <1>2. ProgramRegisters(t) = ProgramRegisters(s)
    BY Zenon DEF Machines, ProgramRegisters, Kept
  <1> QED BY <1>1, <1>2, Zenon

\* gdb and the monitor move the program by its PC alone.
LEMMA MoveIsSeen ==
    ASSUME NEW s \in Machines, NEW a \in Addresses
    PROVE  LET t == [s EXCEPT !.pc = a]
           IN  /\ t \in Machines
               /\ t.pc = a /\ t.flags = s.flags
               /\ ProgramRegisters(t) = [ProgramRegisters(s) EXCEPT !.pc = a]
  <1> DEFINE t == [s EXCEPT !.pc = a]
             p == ProgramRegisters(s)
             y == [p EXCEPT !.pc = a]
  <1>1. t \in Machines /\ t.pc = a /\ t.flags = s.flags
    BY Zenon DEF Machines
  <1>2. p \in Registers /\ Matches(p, s)
    BY ProgramRegistersMatch, Zenon
  <1> HIDE DEF p
  <1>3. y \in Registers /\ Matches(y, t)
    BY <1>2, Zenon DEF Machines, Registers, Matches, Kept
  <1>4. y = ProgramRegisters(t)
    BY <1>1, <1>3, MatchesProgramRegisters, Zenon
  <1> QED BY <1>1, <1>4, Zenon DEF p

\* clearTempBreakpoint
LEMMA ClearTempKeeps ==
    ASSUME m \in Machines
    PROVE  /\ ClearTempBreakpoint(m) \in Machines
           /\ ClearTempBreakpoint(m).pc = m.pc
           /\ ClearTempBreakpoint(m).flags = m.flags
           /\ ProgramRegisters(ClearTempBreakpoint(m)) = ProgramRegisters(m)
  <1>1. m.armed \ {temp} \in SUBSET Addresses
    BY DEF Machines
  <1> QED
    BY <1>1, ArmedIsNotSeen, Zenon DEF ClearTempBreakpoint

\* Platform_EnteringDebugger
LEMMA EnteringKeeps ==
    ASSUME m \in Machines
    PROVE  /\ EnteringDebugger \in Machines
           /\ ~Kept(EnteringDebugger)
           /\ EnteringDebugger.pc = m.pc
           /\ ProgramRegisters(EnteringDebugger) = ProgramRegisters(m)
  BY ClearTempKeeps, DisableKeepsRegisters, Zenon DEF EnteringDebugger

\* Platform_LeavingDebugger
LEMMA LeavingKeeps ==
    ASSUME NEW s \in Machines
    PROVE  /\ LeavingDebugger(s) \in Machines
           /\ LeavingDebugger(s).pc = s.pc
           /\ Kept(LeavingDebugger(s)) <=> Kept(s)
           /\ StepIsArmed(s) => StepIsArmed(LeavingDebugger(s))
           /\ ProgramRegisters(LeavingDebugger(s)) = ProgramRegisters(s)
  <1> DEFINE flags == s.flags \ {"PEND_FROM_FAULT"}
  <1>1. flags \in SUBSET Flags /\ ("RESTORE_PRI" \in flags <=> Kept(s))
    BY DEF Machines, Kept
  <1> HIDE DEF flags
  <1>2. LeavingDebugger(s) = [s EXCEPT !.flags = flags]
    BY Zenon DEF LeavingDebugger, flags
  <1>3. LeavingDebugger(s).monStep = s.monStep
    BY <1>2, Zenon DEF Machines
  <1> DEFINE u == LeavingDebugger(s)
  <1> HIDE DEF u
  <1>4. /\ u \in Machines /\ u.pc = s.pc /\ u.flags = flags
        /\ u.primask = s.primask /\ u.basepri = s.basepri
        /\ ProgramRegisters(u) = ProgramRegisters(s)
    <2>1. u = [s EXCEPT !.flags = flags]
      BY <1>2, Zenon DEF u
    <2> QED
      BY <1>1, <2>1, FlagsAreNotSeen, Zenon
  <1>5. (Kept(u) <=> Kept(s)) /\ (StepIsArmed(s) => StepIsArmed(u))
    BY <1>1, <1>3, <1>4, Zenon DEF Kept, StepIsArmed, u
  <1> QED
    BY <1>4, <1>5, Zenon DEF u

\* disableInterruptMaskingIfNecessary sets PRIMASK aside, and so it must not
\* be called with a register already set aside.
LEMMA MaskingKeeps ==
    ASSUME NEW s \in Machines
    PROVE  LET t == [DisableInterruptMasking(s) EXCEPT
                        !.flags = @ \cup {"PEND_FROM_FAULT"}]
           IN  /\ t \in Machines
               /\ (Kept(s) => s.primask = 0) =>
                     ProgramRegisters(t) = ProgramRegisters(s)
  <1> DEFINE u == DisableInterruptMasking(s)
             flags == u.flags \cup {"PEND_FROM_FAULT"}
             t == [u EXCEPT !.flags = flags]
  <1>1. u \in Machines
    <2>1. s.flags \cup {"RESTORE_PRI"} \in SUBSET Flags /\ 0 \in {0, 1}
      BY DEF Machines, Flags
    <2> QED
      BY <2>1, Zenon DEF DisableInterruptMasking, Machines
  <1>2. (Kept(s) => s.primask = 0) => ProgramRegisters(u) = ProgramRegisters(s)
    <2>1. CASE s.primask = 0
      BY <2>1, Zenon DEF DisableInterruptMasking
    <2>2. CASE s.primask # 0
      <3> SUFFICES ASSUME ~Kept(s)
                   PROVE  ProgramRegisters(u) = ProgramRegisters(s)
        BY <2>2, Zenon
      <3> DEFINE p == ProgramRegisters(s)
      <3>1. p \in Registers /\ Matches(p, s)
        BY ProgramRegistersMatch, Zenon
      <3>2. "RESTORE_PRI" \in s.flags \cup {"RESTORE_PRI"}
        OBVIOUS
      <3>3. Matches(p, u)
        BY <2>2, <3>1, <3>2, Zenon
        DEF DisableInterruptMasking, Machines, Matches, Kept
      <3> QED
        BY <1>1, <3>1, <3>3, MatchesProgramRegisters, Zenon
    <2> QED BY <2>1, <2>2, Zenon
  <1> HIDE DEF u
  <1>3. flags \in SUBSET Flags /\ ("RESTORE_PRI" \in flags <=> Kept(u))
    BY <1>1 DEF Machines, Flags, Kept
  <1>4. t \in Machines /\ ProgramRegisters(t) = ProgramRegisters(u)
    BY <1>1, <1>3, FlagsAreNotSeen, Zenon
  <1> QED
    BY <1>2, <1>4, Zenon DEF u

\* The machine at reset is the processor at reset.
LEMMA ResetMachine ==
    /\ MachineAtReset \in Machines
    /\ ~Kept(MachineAtReset)
    /\ ProgramRegisters(MachineAtReset) = AtReset
  <1>1. 0 \in Addresses /\ NoReturn \in Addresses \cup {NoReturn}
        /\ {} \in SUBSET Addresses /\ {} \in SUBSET Flags /\ 0 \in Nat
        /\ 0 \in {0, 1} /\ FALSE \in BOOLEAN /\ "RESTORE_PRI" \notin {}
    BY CortexAssumption DEF Addresses
  <1> QED
    BY <1>1, Zenon DEF MachineAtReset, AtReset, Machines, Kept, ProgramRegisters

\* ContinueExecution
LEMMA ReadyKeeps ==
    ASSUME m \in Machines, NEW jump \in Jumps
    PROVE  LET s == ReadyToContinue(jump)
           IN  /\ s \in Machines
               /\ s.flags = m.flags
               /\ \/ /\ jump # NoJump
                     /\ jump \in JumpTargets
                     /\ ProgramRegisters(s) =
                           [ProgramRegisters(m) EXCEPT !.pc = jump]
                  \/ /\ jump = NoJump
                     /\ SkipsHardcodedBreakpoint
                     /\ ProgramRegisters(s) \in PastBreak(ProgramRegisters(m))
                  \/ /\ jump = NoJump
                     /\ ~SkipsHardcodedBreakpoint
                     /\ s = m
  <1> DEFINE skipped == IF SkipsHardcodedBreakpoint
                        THEN [m EXCEPT !.pc = Following(@)] ELSE m
             p == ProgramRegisters(m)
             q == ProgramRegisters(skipped)
  <1>1. m.pc \in Addresses /\ Following(m.pc) \in Addresses
    BY FollowingIsAddress, Zenon DEF Machines
  <1>2. p \in Registers /\ p.pc = m.pc
    BY ProgramRegistersMatch, Zenon DEF Matches
  <1>3. skipped \in Machines /\ skipped.flags = m.flags
    BY <1>1, MoveIsSeen, Zenon
  <1>4. SkipsHardcodedBreakpoint => q \in PastBreak(p)
    <2> SUFFICES ASSUME SkipsHardcodedBreakpoint PROVE q \in PastBreak(p)
      BY Zenon
    <2>1. q = [p EXCEPT !.pc = Following(p.pc)]
      BY <1>1, <1>2, MoveIsSeen, Zenon
    <2>2. Program[p.pc] \in BreakInstructions
      BY <1>2 DEF SkipsHardcodedBreakpoint, BreakInstructions
    <2> HIDE DEF p, q
    <2> QED
      BY <2>1, <2>2, Zenon DEF PastBreak
  <1>5. CASE jump = NoJump
    <2>1. ReadyToContinue(jump) = skipped
      BY <1>5, Zenon DEF ReadyToContinue
    <2> QED
      BY <1>3, <1>4, <1>5, <2>1, Zenon
  <1>6. CASE jump # NoJump
    <2>1. jump \in JumpTargets /\ jump \in Addresses
      BY <1>6, CortexAssumption DEF Jumps
    <2>2. ReadyToContinue(jump) = [m EXCEPT !.pc = jump]
      BY <1>6, Zenon DEF ReadyToContinue, Machines
    <2> QED
      BY <1>6, <2>1, <2>2, MoveIsSeen, Zenon
  <1> QED BY <1>5, <1>6, Zenon

-----------------------------------------------------------------------------
(* Types.                                                                   *)

\* The exceptions that the actions make.
LEMMA RaisedExceptions ==
    /\ NoException \in Exceptions /\ DebugEventsAreNamed(NoException)
    /\ \A number \in {0, 3, 12, 16}, dfsr \in SUBSET {"HALTED", "BKPT"},
          debugEvent \in BOOLEAN :
          LET e == [number |-> number, dfsr |-> dfsr, debugEvent |-> debugEvent]
          IN  /\ e \in Exceptions
              /\ (number = 12 \/ debugEvent => dfsr # {}) =>
                    DebugEventsAreNamed(e)
  BY DEF NoException, Exceptions, DebugEventsAreNamed

\* Those of a breakpoint, in its two forms, and of a step.
LEMMA RaisedByBreakpoint ==
    LET hit == [number |-> 12, dfsr |-> {"BKPT"}, debugEvent |-> FALSE]
        escalated == [number |-> 3, dfsr |-> {"BKPT"}, debugEvent |-> TRUE]
        stepped == [number |-> 12, dfsr |-> {"HALTED"}, debugEvent |-> FALSE]
    IN  /\ hit \in Exceptions /\ DebugEventsAreNamed(hit)
        /\ escalated \in Exceptions /\ DebugEventsAreNamed(escalated)
        /\ stepped \in Exceptions /\ DebugEventsAreNamed(stepped)
  BY DEF Exceptions, DebugEventsAreNamed

\* mriInit
LEMMA InitTypes == Init => Types
  <1> SUFFICES ASSUME Init PROVE Types
    OBVIOUS
  <1>1. 0 \in Addresses
    BY CortexAssumption DEF Addresses
  <1>2. m \in Machines /\ exc \in Exceptions /\ recorded \in Exceptions
        /\ DebugEventsAreNamed(exc) /\ DebugEventsAreNamed(recorded)
    BY ResetMachine, RaisedExceptions, Zenon DEF Init
  <1>3. 0 \in 0 .. 2
    OBVIOUS
  <1> QED
    BY <1>1, <1>2, <1>3, Zenon DEF Init, Types, TypeOK

\* What treatDebugEventHardFaultAsDebugMonInterrupt makes of one.
LEMMA AsDebugMonIsNamed ==
    ASSUME NEW e \in Exceptions, DebugEventsAreNamed(e)
    PROVE  AsDebugMon(e) \in Exceptions /\ DebugEventsAreNamed(AsDebugMon(e))
  <1>1. 12 \in {0, 3, 12, 16}
    OBVIOUS
  <1> QED
    BY <1>1, Zenon DEF AsDebugMon, Exceptions, DebugEventsAreNamed

\* The signal of an exception.
LEMMA SignalIsNamed ==
    ASSUME NEW e \in Exceptions, DebugEventsAreNamed(e)
    PROVE  SignalOf(e) \in {"SIGINT", "SIGSEGV", "SIGTRAP"}
  BY Zenon DEF SignalOf, Exceptions, DebugEventsAreNamed

\* What all the ways through mriDebugException have in common.
LEMMA ExceptionTypes ==
    ASSUME Types, NEW resumes, Exception(resumes)
    PROVE  /\ exc' \in Exceptions /\ DebugEventsAreNamed(exc')
           /\ recorded' \in Exceptions /\ DebugEventsAreNamed(recorded')
           /\ temp' \in Addresses \cup {NoTemp}
           /\ SignalOf(Recorded) \in {"none", "SIGINT", "SIGSEGV", "SIGTRAP"}
           /\ m \in Machines /\ m.pc \in Addresses
           /\ Following(m.pc) \in Addresses
  <1>1. Recorded \in Exceptions /\ DebugEventsAreNamed(Recorded)
    BY Zenon DEF Recorded, Types, TypeOK
  <1>2. m \in Machines /\ m.pc \in Addresses
    BY Zenon DEF Types, TypeOK, Machines
  <1>3. temp' \in Addresses \cup {NoTemp}
    BY DEF Exception, Types, TypeOK
  <1>4. exc' = NoException /\ recorded' = Recorded
    BY Zenon DEF Exception
  <1>5. SignalOf(Recorded) \in {"none", "SIGINT", "SIGSEGV", "SIGTRAP"}
    BY <1>1, SignalIsNamed
  <1> QED
    BY <1>1, <1>2, <1>3, <1>4, <1>5, RaisedExceptions, FollowingIsAddress, Zenon

\* The device starts again.
LEMMA ResetTypes ==
    ASSUME Types, NEW by \in {"none", "c", "s", "S", "r", "call"},
           ResetDevice(by)
    PROVE  Types'
  <1>1. 0 \in Addresses
    BY CortexAssumption DEF Addresses
  <1>2. m' \in Machines /\ exc' \in Exceptions /\ recorded' \in Exceptions
        /\ DebugEventsAreNamed(exc') /\ DebugEventsAreNamed(recorded')
    BY ResetMachine, RaisedExceptions, Zenon DEF ResetDevice
  <1>3. 0 \in 0 .. 2
    OBVIOUS
  <1> QED
    BY <1>1, <1>2, <1>3, Zenon DEF ResetDevice, Types, TypeOK

\* The program is resumed or reset.
LEMMA ResumeTypes ==
    ASSUME Types, NEW s \in Machines, NEW by \in {"c", "s", "S", "r"},
           Resume(s, by)
    PROVE  Types'
  <1>1. CASE MustReset(s)
    <2>1. ResetDevice(by)
      BY <1>1, Zenon DEF Resume
    <2> QED
      BY <2>1, ResetTypes
  <1>2. CASE ~MustReset(s)
    <2>1. LeavingDebugger(s) \in Machines
      BY LeavingKeeps
    <2>2. CommandOf(by) \in {"none", "c", "s", "S", "r", "rs"}
      BY Zenon DEF CommandOf
    <2>3. (ranged \/ by = "r") \in BOOLEAN
      OBVIOUS
    <2> QED
      BY <1>2, <2>1, <2>2, <2>3 DEF Resume, Types, TypeOK
  <1> QED BY <1>1, <1>2

\* The program runs.
LEMMA ProgramTypes ==
    ASSUME Types, ProgramNext
    PROVE  Types'
  <1>1. m \in Machines
    BY DEF Types, TypeOK
  <1>2. CountedStep \in 0 .. 2
    BY DEF Types, TypeOK, CountedStep
  <1>3. CASE RunInstruction
    <2>1. m' \in Executed(m)
      BY <1>3, Zenon DEF RunInstruction
    <2>2. m' \in Machines
      BY <1>1, <2>1, ExecutedMachines
    <2>3. exc' \in Exceptions /\ DebugEventsAreNamed(exc')
          /\ phase' \in {"running", "exception"}
      BY <1>3, RaisedByBreakpoint, Zenon DEF RunInstruction, Types, TypeOK
    <2> QED
      BY <1>2, <1>3, <2>2, <2>3
      DEF RunInstruction, Types, TypeOK, monitor
  <1>4. CASE HitBreakpoint
    <2>1. exc' \in Exceptions /\ DebugEventsAreNamed(exc')
          /\ phase' \in {"fault", "exception"}
      BY <1>4, RaisedByBreakpoint, Zenon DEF HitBreakpoint
    <2> QED
      BY <1>4, <2>1 DEF HitBreakpoint, Types, TypeOK, monitor
  <1>5. CASE Fault
    <2>1. exc' \in Exceptions /\ DebugEventsAreNamed(exc')
      BY <1>5 DEF Fault, Exceptions, DebugEventsAreNamed
    <2>2. /\ UNCHANGED <<m, isr, rx, monitor, command, steps, resetBy>>
          /\ phase' = "fault" /\ cause' = "fault"
      BY <1>5, Zenon DEF Fault
    <2> QED
      BY <2>1, <2>2 DEF Types, TypeOK, monitor
  <1>6. CASE DeviceInterrupt
    BY <1>6 DEF DeviceInterrupt, Types, TypeOK, monitor, history
  <1>7. CASE ControlC
    BY <1>7 DEF ControlC, Types, TypeOK, monitor, history
  <1>8. CASE CommInterrupt
    <2>1. exc' \in Exceptions /\ DebugEventsAreNamed(exc')
      BY <1>8 DEF CommInterrupt, Exceptions, DebugEventsAreNamed
    <2>2. /\ UNCHANGED <<m, isr, rx, monitor, command, steps, resetBy>>
          /\ phase' = "exception" /\ cause' = "control-c"
      BY <1>8, Zenon DEF CommInterrupt
    <2> QED
      BY <2>1, <2>2 DEF Types, TypeOK, monitor
  <1>9. ASSUME NEW a \in TempCode, SetTempBreakpoint(a) PROVE Types'
    <2>1. a \in Addresses /\ m.armed \cup {a} \in SUBSET Addresses
      BY <1>1, DebugMonitorAssumption DEF Machines
    <2>2. m' \in Machines
      BY <1>1, <1>9, <2>1, ArmedIsNotSeen, Zenon DEF SetTempBreakpoint
    <2> QED
      BY <1>9, <2>1, <2>2 DEF SetTempBreakpoint, Types, TypeOK, history
  <1> QED
    BY <1>3, <1>4, <1>5, <1>6, <1>7, <1>8, <1>9, Zenon DEF ProgramNext

\* The handlers run.
LEMMA HandlerTypes ==
    ASSUME Types, HandlerNext
    PROVE  Types'
  <1>1. m \in Machines
    BY DEF Types, TypeOK
  <1>2. ClearTempBreakpoint(m) \in Machines /\ EnteringDebugger \in Machines
        /\ ~Kept(EnteringDebugger) /\ EnteringDebugger.pc = m.pc
    BY <1>1, ClearTempKeeps, EnteringKeeps
  <1> DEFINE past == [EnteringDebugger EXCEPT !.pc = Following(@)]
  <1>3. past \in Machines /\ LeavingDebugger(past) \in Machines
    <2>1. Following(m.pc) \in Addresses
      BY <1>1, FollowingIsAddress, Zenon DEF Machines
    <2> QED
      BY <1>2, <2>1, MoveIsSeen, LeavingKeeps, Zenon
  <1>4. CASE PendFaultToDebugMon
    <2>1. m' \in Machines
      BY <1>1, <1>4, MaskingKeeps, Zenon DEF PendFaultToDebugMon
    <2>2. recorded' \in Exceptions /\ DebugEventsAreNamed(recorded')
      BY <1>4, AsDebugMonIsNamed, Zenon DEF PendFaultToDebugMon, Types, TypeOK
    <2> QED
      BY <1>4, <2>1, <2>2 DEF PendFaultToDebugMon, Types, TypeOK, history
  <1>5. CASE HandleFaultFromHighPriorityCode
    BY <1>5 DEF HandleFaultFromHighPriorityCode, Types, TypeOK, monitor
  <1>6. CASE TempBreakpointCallbackResumes
    <2>1. Exception(TRUE)
      BY <1>6, Zenon DEF TempBreakpointCallbackResumes
    <2>2. 0 \in 0 .. 2
      OBVIOUS
    <2>3. /\ exc' \in Exceptions /\ DebugEventsAreNamed(exc')
          /\ recorded' \in Exceptions /\ DebugEventsAreNamed(recorded')
          /\ temp' \in Addresses \cup {NoTemp}
      BY <2>1, ExceptionTypes, Zenon
    <2>4. /\ m' = ClearTempBreakpoint(m)
          /\ phase' = "running" /\ command' = "none" /\ steps' = 0
          /\ UNCHANGED isr /\ UNCHANGED rx /\ UNCHANGED ranged
          /\ UNCHANGED resetRequested /\ UNCHANGED originalPc
          /\ UNCHANGED signal /\ UNCHANGED cause /\ UNCHANGED resetBy
      BY <1>6, Zenon DEF TempBreakpointCallbackResumes
    <2> QED
      BY <1>2, <2>2, <2>3, <2>4 DEF Types, TypeOK, DebugEventsAreNamed
  <1>7. ASSUME NEW svcSet \in BOOLEAN, StepAgainInRange(svcSet) PROVE Types'
    <2>1. Exception(FALSE)
      BY <1>7, Zenon DEF StepAgainInRange
    <2>2. m' \in Machines
      BY <1>2, <1>7, EnableStepsOrArms, Zenon
      DEF StepAgainInRange, EnteringDebugger
    <2>3. 0 \in 0 .. 2
      OBVIOUS
    <2>4. /\ exc' \in Exceptions /\ DebugEventsAreNamed(exc')
          /\ recorded' \in Exceptions /\ DebugEventsAreNamed(recorded')
          /\ temp' \in Addresses \cup {NoTemp}
          /\ signal' \in {"none", "SIGINT", "SIGSEGV", "SIGTRAP"}
      BY <1>7, <2>1, ExceptionTypes, Zenon DEF StepAgainInRange
    <2> QED
      BY <1>7, <2>2, <2>3, <2>4, Zenon DEF StepAgainInRange, Types, TypeOK
  <1>8. CASE ServeSemihostCall
    <2>1. Exception(FALSE)
      BY <1>8, Zenon DEF ServeSemihostCall, StopsForGdb
    <2>2. /\ exc' \in Exceptions /\ DebugEventsAreNamed(exc')
          /\ recorded' \in Exceptions /\ DebugEventsAreNamed(recorded')
          /\ temp' \in Addresses \cup {NoTemp}
          /\ originalPc' \in Addresses
          /\ signal' \in {"none", "SIGINT", "SIGSEGV", "SIGTRAP"}
      BY <1>8, <2>1, ExceptionTypes, Zenon DEF ServeSemihostCall
    <2>3. m' \in Machines /\ phase' = "running" /\ ranged' = FALSE
      BY <1>3, <1>8, Zenon DEF ServeSemihostCall, StopsForGdb
    <2>4. UNCHANGED <<isr, rx, resetRequested, history>>
      BY <1>8, Zenon DEF ServeSemihostCall
    <2> QED
      BY <2>2, <2>3, <2>4 DEF Types, TypeOK, DebugEventsAreNamed, history
  <1>9. CASE ResetAfterSemihostCall
    BY <1>9, ResetTypes, Zenon DEF ResetAfterSemihostCall
  <1>10. CASE EnterCommandLoopAfterSemihostCall
    <2>1. Exception(FALSE)
      BY <1>10, Zenon DEF EnterCommandLoopAfterSemihostCall, StopsForGdb
    <2>2. /\ exc' \in Exceptions /\ DebugEventsAreNamed(exc')
          /\ recorded' \in Exceptions /\ DebugEventsAreNamed(recorded')
          /\ temp' \in Addresses \cup {NoTemp}
          /\ originalPc' \in Addresses
          /\ signal' \in {"none", "SIGINT", "SIGSEGV", "SIGTRAP"}
      BY <1>10, <2>1, ExceptionTypes, Zenon
      DEF EnterCommandLoopAfterSemihostCall
    <2>3. m' \in Machines /\ phase' = "halted" /\ ranged' = FALSE /\ rx' = FALSE
      BY <1>3, <1>10, Zenon DEF EnterCommandLoopAfterSemihostCall, StopsForGdb
    <2>4. /\ cause' = IF rx THEN "control-c" ELSE cause
          /\ UNCHANGED <<isr, resetRequested, command, steps, resetBy>>
      BY <1>10, Zenon DEF EnterCommandLoopAfterSemihostCall
    <2> QED
      BY <2>2, <2>3, <2>4 DEF Types, TypeOK, DebugEventsAreNamed
  <1>11. CASE EnterCommandLoop
    <2>1. Exception(FALSE)
      BY <1>11, Zenon DEF EnterCommandLoop, StopsForGdb
    <2>2. /\ exc' \in Exceptions /\ DebugEventsAreNamed(exc')
          /\ recorded' \in Exceptions /\ DebugEventsAreNamed(recorded')
          /\ temp' \in Addresses \cup {NoTemp}
          /\ originalPc' \in Addresses
          /\ signal' \in {"none", "SIGINT", "SIGSEGV", "SIGTRAP"}
      BY <1>11, <2>1, ExceptionTypes, Zenon DEF EnterCommandLoop
    <2>3. m' \in Machines /\ phase' = "halted" /\ ranged' = FALSE /\ rx' = FALSE
      BY <1>2, <1>11, Zenon DEF EnterCommandLoop, StopsForGdb
    <2>4. UNCHANGED <<isr, resetRequested, history>>
      BY <1>11, Zenon DEF EnterCommandLoop
    <2> QED
      BY <2>2, <2>3, <2>4 DEF Types, TypeOK, DebugEventsAreNamed, history
  <1> QED
    BY <1>4, <1>5, <1>6, <1>7, <1>8, <1>9, <1>10, <1>11, Zenon DEF HandlerNext

\* A step that gdb asks for, once the PC is where it is to start.
LEMMA StepWithoutResumingTypes ==
    ASSUME Types, NEW s \in Machines, NEW by \in {"s", "S", "r"},
           StepWithoutResuming(s, by)
    PROVE  Types'
  <1>1. 1 \in 0 .. 2
    OBVIOUS
  <1>2. CommandOf(by) \in {"none", "c", "s", "S", "r", "rs"}
    BY Zenon DEF CommandOf
  <1>3. (ranged \/ by = "r") \in BOOLEAN
    OBVIOUS
  <1> QED
    BY <1>1, <1>2, <1>3 DEF StepWithoutResuming, Types, TypeOK

\* gdb's commands are executed.
LEMMA CommandTypes ==
    ASSUME Types, phase = "halted" => ~Kept(m), CommandNext
    PROVE  Types'
  <1>1. m \in Machines
    BY DEF Types, TypeOK
  <1>2. ASSUME NEW jump \in Jumps, ContinueCommand(jump) PROVE Types'
    <2>1. ReadyToContinue(jump) \in Machines
      BY <1>1, ReadyKeeps, Zenon
    <2> QED
      BY <1>2, <2>1, ResumeTypes, Zenon DEF ContinueCommand
  <1>3. ASSUME NEW jump \in Jumps, NEW svcSet \in BOOLEAN,
               NEW by \in {"s", "r"}, SingleStepCommand(jump, svcSet, by)
        PROVE  Types'
    <2> DEFINE before == ReadyToContinue(jump)
               after == EnableSingleStep(before, svcSet)
    <2>1. before \in Machines /\ ~Kept(before)
      BY <1>1, <1>3, ReadyKeeps, Zenon DEF SingleStepCommand, Kept
    <2>2. after \in Machines
      BY <2>1, EnableStepsOrArms, Zenon
    <2>3. \/ StepWithoutResuming(before, by)
          \/ StepWithoutResuming(after, by)
          \/ Resume(after, by)
      BY <1>3, Zenon DEF SingleStepCommand
    <2> HIDE DEF before, after
    <2> QED
      BY <2>1, <2>2, <2>3, StepWithoutResumingTypes, ResumeTypes, Zenon
  <1>4. ASSUME NEW jump \in Jumps, NEW svcSet \in BOOLEAN,
               SingleStepWithSignalCommand(jump, svcSet)
        PROVE  Types'
    <2> DEFINE before == ReadyToContinue(jump)
               after == EnableSingleStep(before, svcSet)
    <2>1. before \in Machines /\ ~Kept(before)
      BY <1>1, <1>4, ReadyKeeps, Zenon DEF SingleStepWithSignalCommand, Kept
    <2>2. after \in Machines
      BY <2>1, EnableStepsOrArms, Zenon
    <2>3. \/ StepWithoutResuming(before, "S")
          \/ Resume(after, "S")
      BY <1>4, Zenon DEF SingleStepWithSignalCommand
    <2> HIDE DEF before, after
    <2> QED
      BY <2>1, <2>2, <2>3, StepWithoutResumingTypes, ResumeTypes, Zenon
  <1>5. ASSUME NEW a \in JumpTargets, RegisterWriteCommand(a) PROVE Types'
    <2>1. m' \in Machines
      BY <1>1, <1>5, CortexAssumption, MoveIsSeen, Zenon DEF RegisterWriteCommand
    <2> QED
      BY <1>5, <2>1
      DEF RegisterWriteCommand, Types, TypeOK, monitor, history
  <1>6. ASSUME NEW a \in GdbCode,
               BreakpointSetCommand(a) \/ BreakpointRemoveCommand(a)
        PROVE  Types'
    <2>1. /\ m.armed \cup {a} \in SUBSET Addresses
          /\ m.armed \ {a} \in SUBSET Addresses
      BY <1>1, DebugMonitorAssumption DEF Machines
    <2>2. m' \in Machines
      BY <1>1, <1>6, <2>1, ArmedIsNotSeen, Zenon
      DEF BreakpointSetCommand, BreakpointRemoveCommand
    <2> QED
      BY <1>6, <2>2
      DEF BreakpointSetCommand, BreakpointRemoveCommand, Types, TypeOK,
          monitor, history
  <1>7. CASE MonitorResetCommand
    BY <1>7 DEF MonitorResetCommand, Types, TypeOK, history
  <1> QED
    BY <1>2, <1>3, <1>4, <1>5, <1>6, <1>7, Zenon DEF CommandNext

\* Every step of the specification keeps the types.  That no register is set
\* aside in the command loop is all that it takes from elsewhere.
LEMMA TypesStep ==
    ASSUME Types, phase = "halted" => ~Kept(m), [Next]_vars
    PROVE  Types'
  <1>1. CASE UNCHANGED vars
    BY <1>1 DEF vars, monitor, history, Types, TypeOK
  <1> QED
    BY <1>1, ProgramTypes, HandlerTypes, CommandTypes, Zenon DEF Next

\* In the command loop nothing is set aside: Platform_EnteringDebugger has put
\* it back, and no command but a step, which resumes the program, sets it aside
\* again.
NothingKeptInCommandLoop == phase = "halted" => ~Kept(m)

\* Every step keeps it so.
LEMMA CommandLoopStep ==
    ASSUME Types, NothingKeptInCommandLoop, [Next]_vars
    PROVE  NothingKeptInCommandLoop'
  <1> SUFFICES ASSUME phase' = "halted" PROVE ~Kept(m')
    BY DEF NothingKeptInCommandLoop, Kept
  <1>1. m \in Machines
    BY DEF Types, TypeOK
  <1>2. EnteringDebugger \in Machines /\ ~Kept(EnteringDebugger)
        /\ EnteringDebugger.pc = m.pc
    BY <1>1, EnteringKeeps
  <1>3. CASE UNCHANGED vars
    BY <1>3, Zenon DEF vars, NothingKeptInCommandLoop
  <1>4. ~ProgramNext
    BY DEF ProgramNext, RunInstruction, HitBreakpoint, Fault, DeviceInterrupt,
           ControlC, CommInterrupt, SetTempBreakpoint
  <1>5. CASE HandlerNext
    <2>1. \/ m' = EnteringDebugger
          \/ m' = [EnteringDebugger EXCEPT !.pc = Following(@)]
      BY <1>5, Zenon
      DEF HandlerNext, PendFaultToDebugMon, HandleFaultFromHighPriorityCode,
          TempBreakpointCallbackResumes, StepAgainInRange, ServeSemihostCall,
          ResetAfterSemihostCall, ResetDevice,
          EnterCommandLoopAfterSemihostCall, EnterCommandLoop
    <2>2. m'.flags = EnteringDebugger.flags
      BY <1>2, <2>1, Zenon DEF Machines
    <2> QED
      BY <1>2, <2>2, Zenon DEF Kept
  <1>6. CASE CommandNext
    <2>1. phase = "halted" /\ ~Kept(m)
      BY <1>6, Zenon
      DEF CommandNext, ContinueCommand, SingleStepCommand,
          SingleStepWithSignalCommand, RegisterWriteCommand,
          BreakpointSetCommand, BreakpointRemoveCommand, MonitorResetCommand,
          NothingKeptInCommandLoop
    <2>2. \A s, by : ~Resume(s, by)
      BY Zenon DEF Resume, ResetDevice
    <2>3. ASSUME NEW jump \in Jumps, NEW svcSet \in BOOLEAN,
                 NEW by \in {"s", "r"}, SingleStepCommand(jump, svcSet, by)
          PROVE  ~Kept(m')
      <3> DEFINE before == ReadyToContinue(jump)
                 after == EnableSingleStep(before, svcSet)
      <3>1. before \in Machines /\ ~Kept(before)
        BY <1>1, <2>1, ReadyKeeps, Zenon DEF Kept
      <3>2. after.pc # before.pc => ~Kept(after)
        BY <3>1, EnableStepsOrArms, Zenon
      <3>3. m' = before \/ (m' = after /\ after.pc # before.pc)
        BY <2>2, <2>3, Zenon DEF SingleStepCommand, StepWithoutResuming
      <3> QED
        BY <3>1, <3>2, <3>3, Zenon
    <2>4. ASSUME NEW jump \in Jumps, NEW svcSet \in BOOLEAN,
                 SingleStepWithSignalCommand(jump, svcSet)
          PROVE  ~Kept(m')
      <3>1. ~Kept(ReadyToContinue(jump))
        BY <1>1, <2>1, ReadyKeeps, Zenon DEF Kept
      <3> QED
        BY <2>2, <2>4, <3>1, Zenon
        DEF SingleStepWithSignalCommand, StepWithoutResuming
    <2>5. ASSUME NEW a \in JumpTargets \cup GdbCode,
                 \/ RegisterWriteCommand(a)
                 \/ BreakpointSetCommand(a)
                 \/ BreakpointRemoveCommand(a)
          PROVE  ~Kept(m')
      BY <1>1, <2>1, <2>5, Zenon
      DEF RegisterWriteCommand, BreakpointSetCommand, BreakpointRemoveCommand,
          Machines, Kept
    <2>6. CASE MonitorResetCommand
      BY <2>1, <2>6, Zenon DEF MonitorResetCommand
    <2> QED
      BY <1>6, <2>2, <2>3, <2>4, <2>5, <2>6 DEF CommandNext, ContinueCommand
  <1> QED
    BY <1>3, <1>4, <1>5, <1>6, Zenon DEF Next

\* The registers of the halted and of the running program, the state of the
\* debug units and of the monitor stay within their types; in particular the
\* T response has a signal for every exception that enters the command loop.
THEOREM TypeCorrectness == Spec => []TypeOK
  <1> DEFINE Inv == Types /\ NothingKeptInCommandLoop
  <1>1. Init => Inv
    BY InitTypes DEF Init, NothingKeptInCommandLoop
  <1>2. Inv /\ [Next]_vars => Inv'
    BY TypesStep, CommandLoopStep DEF NothingKeptInCommandLoop
  <1>3. Inv => TypeOK
    BY DEF Types
  <1> QED
    BY <1>1, <1>2, <1>3, PTL DEF Spec

-----------------------------------------------------------------------------
(* The steps of the bare processor.                                         *)

BareStep == [Bare!Next]_<<ProgramRegisters(m), isr>>

\* The bare processor stands still, executes the instruction at the PC, or
\* passes a BKPT.
LEMMA BareExecutes ==
    ASSUME ProgramRegisters(m') \in {ProgramRegisters(m)}
                                       \cup Executed(ProgramRegisters(m))
                                       \cup PastBreak(ProgramRegisters(m)),
           isr' = isr
    PROVE  BareStep
  <1>1. ProgramRegisters(m)' = ProgramRegisters(m')
    BY DEF ProgramRegisters
  <1>2. /\ Bare!Executed(ProgramRegisters(m)) = Executed(ProgramRegisters(m))
        /\ Bare!PastBreak(ProgramRegisters(m)) = PastBreak(ProgramRegisters(m))
    BY Zenon
    DEF Bare!Executed, Executed, Bare!PastBreak, PastBreak, Bare!Following,
        Following, Bare!CanTakeLower, CanTakeLower, Bare!Masks, Masks,
        Bare!LowerPriority, LowerPriority, Bare!RaisedBasepri, RaisedBasepri,
        Bare!NoReturn, NoReturn, Bare!BreakInstructions, BreakInstructions
  <1> QED
    BY <1>1, <1>2 DEF BareStep, Bare!Next, Bare!Execute

\* It is sent elsewhere by gdb and may execute the instruction there.
LEMMA BareJumps ==
    ASSUME NEW a \in JumpTargets,
           LET there == [ProgramRegisters(m) EXCEPT !.pc = a]
           IN  ProgramRegisters(m') \in {there} \cup Executed(there),
           isr' = isr
    PROVE  BareStep
  <1> DEFINE there == [ProgramRegisters(m) EXCEPT !.pc = a]
  <1>1. ProgramRegisters(m)' = ProgramRegisters(m')
    BY DEF ProgramRegisters
  <1>2. Bare!Executed(there) = Executed(there)
    BY Zenon
    DEF Bare!Executed, Executed, Bare!Following, Following,
        Bare!CanTakeLower, CanTakeLower, Bare!Masks, Masks,
        Bare!LowerPriority, LowerPriority, Bare!RaisedBasepri, RaisedBasepri,
        Bare!NoReturn, NoReturn
  <1>3. Bare!Jump
    BY <1>1, <1>2, Zenon DEF Bare!Jump
  <1> QED
    BY <1>3 DEF BareStep, Bare!Next

\* It is reset when the device is.
LEMMA BareResets ==
    ASSUME NEW by, ResetDevice(by)
    PROVE  BareStep
  <1>1. ProgramRegisters(m)' = AtReset
    <2>1. ProgramRegisters(m)' = ProgramRegisters(m')
      BY DEF ProgramRegisters
    <2> QED
      BY <2>1, ResetMachine, Zenon DEF ResetDevice
  <1> QED
    BY <1>1
    DEF BareStep, Bare!Next, Bare!Reset, ResetDevice, Bare!AtReset, AtReset,
        Bare!NoReturn, NoReturn

\* A device interrupts it where it takes interrupts of that priority.
LEMMA BareInterrupt ==
    ASSUME m' = m, isr' = 1 - isr, CanTakeLower(ProgramRegisters(m))
    PROVE  BareStep
  <1>1. ProgramRegisters(m)' = ProgramRegisters(m)
    BY DEF ProgramRegisters
  <1>2. Bare!CanTakeLower(ProgramRegisters(m))
    BY Zenon
    DEF Bare!CanTakeLower, CanTakeLower, Bare!Masks, Masks,
        Bare!LowerPriority, LowerPriority, Bare!NoReturn, NoReturn
  <1> QED
    BY <1>1, <1>2 DEF BareStep, Bare!Next, Bare!DeviceInterrupt

-----------------------------------------------------------------------------
(* The steps of the monitor are those of the bare processor, or none.       *)

\* Nothing moves while m stays.
LEMMA StandsStill ==
    ASSUME ProgramRegisters(m') = ProgramRegisters(m), isr' = isr
    PROVE  BareStep
  BY BareExecutes, Zenon

\* The running program does what it does on the bare processor.
LEMMA ProgramImplements ==
    ASSUME IInv, ProgramNext
    PROVE  KeptWhileArmed' /\ BareStep
  <1>1. m \in Machines
    BY DEF IInv, Types, TypeOK
  <1>2. CASE RunInstruction
    <2>1. m' \in Executed(m) /\ m' \in Machines
          /\ m'.flags = m.flags /\ m'.monStep = m.monStep
          /\ (Program[m.pc] \notin Delicate =>
                m'.primask = m.primask /\ m'.basepri = m.basepri)
      BY <1>1, <1>2, ExecutedMachines, Zenon DEF RunInstruction
    <2>2. phase = "running" /\ isr' = isr
      BY <1>2, Zenon DEF RunInstruction
    <2>3. Kept(m) => Program[m.pc] \notin Delicate /\ StepIsArmed(m)
      BY <2>2, Zenon DEF IInv, KeptWhileArmed
    <2>4. BareStep
      BY <1>1, <2>1, <2>2, <2>3, ExecutedIsExecution, BareExecutes, Zenon
    <2>5. Kept(m) => phase' = "exception"
      <3> SUFFICES ASSUME Kept(m) PROVE phase' = "exception"
        BY Zenon
      <3>1. m.monStep /\ m'.primask = 0 /\ m'.basepri = DebugMonPriority + 1
        BY <2>1, <2>3, Zenon DEF StepIsArmed
      <3>2. CanTakeDebugMon(m')
        BY <3>1, CortexAssumption DEF CanTakeDebugMon, Masks
      <3> QED
        BY <1>2, <3>1, <3>2, Zenon DEF RunInstruction
    <2>6. Kept(m') <=> Kept(m)
      BY <2>1, Zenon DEF Kept
    <2>7. phase' \in {"running", "exception"}
      BY <1>2, <2>2 DEF RunInstruction
    <2>8. KeptWhileArmed'
      BY <2>5, <2>6, <2>7 DEF KeptWhileArmed, Kept
    <2> QED BY <2>4, <2>8
  <1>3. CASE HitBreakpoint \/ Fault
    <2>1. m' = m /\ isr' = isr /\ phase = "running"
          /\ phase' \in {"fault", "exception"}
      BY <1>3 DEF HitBreakpoint, Fault
    <2>2. KeptWhileArmed'
      BY <2>1 DEF IInv, KeptWhileArmed, Kept, StepIsArmed
    <2> QED
      BY <2>1, <2>2, StandsStill, Zenon
  <1>4. CASE DeviceInterrupt
    <2>1. m' = m /\ isr' = 1 - isr /\ phase = "running" /\ phase' = phase
          /\ CanTakeLower(m)
      BY <1>4, Zenon DEF DeviceInterrupt
    <2>2. ~Kept(m)
      <3>1. Kept(m) => m.basepri = DebugMonPriority + 1
        BY <2>1, Zenon DEF IInv, KeptWhileArmed, StepIsArmed
      <3> QED
        BY <2>1, <3>1, CortexAssumption DEF CanTakeLower, Masks, LowerPriority
    <2>3. CanTakeLower(ProgramRegisters(m))
      <3> DEFINE p == ProgramRegisters(m)
      <3>1. p.primask = m.primask /\ p.basepri = m.basepri /\ p.ret = m.ret
        BY <1>1, <2>2, ProgramRegistersMatch, Zenon DEF Matches
      <3> HIDE DEF p
      <3>2. CanTakeLower(p)
        BY <2>1, <3>1 DEF CanTakeLower, Masks
      <3> QED BY <3>2, Zenon DEF p
    <2>4. KeptWhileArmed'
      BY <2>1, <2>2 DEF KeptWhileArmed, Kept
    <2> QED
      BY <2>1, <2>3, <2>4, BareInterrupt, Zenon
  <1>5. CASE ControlC \/ CommInterrupt
    <2>1. m' = m /\ isr' = isr /\ phase' \in {phase, "exception"}
      BY <1>5 DEF ControlC, CommInterrupt
    <2>2. KeptWhileArmed'
      BY <2>1 DEF IInv, KeptWhileArmed, Kept, StepIsArmed
    <2> QED
      BY <2>1, <2>2, StandsStill, Zenon
  <1>6. ASSUME NEW a \in TempCode, SetTempBreakpoint(a)
        PROVE  KeptWhileArmed' /\ BareStep
    <2>1. m.armed \cup {a} \in SUBSET Addresses
      BY <1>1, DebugMonitorAssumption DEF Machines
    <2>2. /\ m'.pc = m.pc /\ m'.flags = m.flags /\ m'.monStep = m.monStep
          /\ m'.primask = m.primask /\ m'.basepri = m.basepri
          /\ ProgramRegisters(m') = ProgramRegisters(m)
      BY <1>1, <1>6, <2>1, ArmedIsNotSeen, Zenon DEF SetTempBreakpoint
    <2>3. phase' = phase /\ isr' = isr
      BY <1>6, Zenon DEF SetTempBreakpoint
    <2>4. KeptWhileArmed'
      BY <2>2, <2>3 DEF IInv, KeptWhileArmed, Kept, StepIsArmed
    <2> QED
      BY <2>2, <2>3, <2>4, StandsStill, Zenon
  <1> QED
    BY <1>2, <1>3, <1>4, <1>5, <1>6, Zenon DEF ProgramNext

\* The exception handlers do nothing that the program could see, but for the
\* instruction that they step over or serve.
LEMMA HandlerImplements ==
    ASSUME IInv, NoCallbackResumes, NoBasepriMax, HandlerNext
    PROVE  KeptWhileArmed' /\ BareStep
  <1>1. m \in Machines /\ m.pc \in Addresses /\ Following(m.pc) \in Addresses
    <2>1. m \in Machines
      BY Zenon DEF IInv, Types, TypeOK
    <2> QED
      BY <2>1, FollowingIsAddress, Zenon DEF Machines
  <1> DEFINE past == [EnteringDebugger EXCEPT !.pc = Following(@)]
             p == ProgramRegisters(m)
  <1>2. /\ EnteringDebugger \in Machines /\ ~Kept(EnteringDebugger)
        /\ EnteringDebugger.pc = m.pc /\ ProgramRegisters(EnteringDebugger) = p
    BY <1>1, EnteringKeeps
  <1>3. p.pc = m.pc
    BY <1>1, ProgramRegistersMatch, Zenon DEF Matches
  \* A call to the console is to the program an instruction without effect.
  <1>4. /\ past \in Machines /\ ~Kept(past)
        /\ IsSemihostCall => ProgramRegisters(past) \in PastBreak(p)
    <2>1. /\ past \in Machines /\ past.flags = EnteringDebugger.flags
          /\ ProgramRegisters(past) = [p EXCEPT !.pc = Following(m.pc)]
      <3> DEFINE e == EnteringDebugger
      <3>1. past = [e EXCEPT !.pc = Following(m.pc)]
        BY <1>2, Zenon
      <3>2. e \in Machines /\ ProgramRegisters(e) = p
        BY <1>2, Zenon
      <3> HIDE DEF e, past, p
      <3>3. /\ past \in Machines /\ past.flags = e.flags
            /\ ProgramRegisters(past) = [p EXCEPT !.pc = Following(m.pc)]
        BY <1>1, <3>1, <3>2, MoveIsSeen, Zenon
      <3> QED BY <3>3, Zenon DEF e
    <2>2. IsSemihostCall => Program[p.pc] \in BreakInstructions
      BY <1>3 DEF IsSemihostCall, BreakInstructions
    <2>3. IsSemihostCall => ProgramRegisters(past) \in PastBreak(p)
      BY <1>3, <2>1, <2>2, Zenon DEF PastBreak
    <2>4. ~Kept(past)
      BY <1>2, <2>1, Zenon DEF Kept
    <2> QED BY <2>1, <2>3, <2>4, Zenon
  <1>5. CASE PendFaultToDebugMon
    <2>1. phase = "fault" /\ phase' = "exception" /\ isr' = isr
      BY <1>5, Zenon DEF PendFaultToDebugMon
    <2>2. Kept(m) => m.primask = 0
      BY <2>1 DEF IInv, KeptWhileArmed, StepIsArmed
    <2>3. ProgramRegisters(m') = ProgramRegisters(m)
      BY <1>1, <1>5, <2>2, MaskingKeeps, Zenon DEF PendFaultToDebugMon
    <2>4. KeptWhileArmed'
      BY <2>1 DEF KeptWhileArmed
    <2> QED
      BY <2>1, <2>3, <2>4, StandsStill, Zenon
  <1>6. CASE HandleFaultFromHighPriorityCode
    <2>1. phase' = "exception" /\ isr' = isr /\ m' = m
      BY <1>6, Zenon DEF HandleFaultFromHighPriorityCode
    <2>2. KeptWhileArmed'
      BY <2>1 DEF KeptWhileArmed
    <2> QED
      BY <2>1, <2>2, StandsStill, Zenon
  <1>7. ~TempBreakpointCallbackResumes
    BY DEF TempBreakpointCallbackResumes, Exception, NoCallbackResumes
  <1>8. ASSUME NEW svcSet \in BOOLEAN, StepAgainInRange(svcSet)
        PROVE  KeptWhileArmed' /\ BareStep
    <2>1. m' = EnableSingleStep(EnteringDebugger, svcSet)
          /\ phase' = "running" /\ isr' = isr
      BY <1>8, Zenon DEF StepAgainInRange, EnteringDebugger
    <2>2. /\ \/ ProgramRegisters(m') \in Executed(p)
             \/ ProgramRegisters(m') = p
          /\ Kept(m') => StepIsArmed(m') /\ Program[m'.pc] \notin Delicate
      BY <1>2, <2>1, EnableStepsOrArms, Zenon
    <2>3. BareStep
      BY <2>1, <2>2, BareExecutes, Zenon
    <2>4. KeptWhileArmed'
      BY <2>1, <2>2 DEF KeptWhileArmed, Kept, StepIsArmed
    <2> QED BY <2>3, <2>4
  <1>9. CASE ServeSemihostCall
    <2>1. m' = LeavingDebugger(past) /\ isr' = isr /\ phase' = "running"
          /\ IsSemihostCall
      BY <1>9, Zenon DEF ServeSemihostCall
    <2>2. ProgramRegisters(m') \in PastBreak(p) /\ ~Kept(m')
      BY <1>4, <2>1, LeavingKeeps, Zenon
    <2>3. BareStep
      BY <2>1, <2>2, BareExecutes, Zenon
    <2>4. KeptWhileArmed'
      BY <2>1, <2>2 DEF KeptWhileArmed, Kept
    <2> QED BY <2>3, <2>4
  <1>10. CASE ResetAfterSemihostCall
    <2>1. ResetDevice("call")
      BY <1>10, Zenon DEF ResetAfterSemihostCall
    <2>2. KeptWhileArmed'
      BY <2>1, ResetMachine DEF ResetDevice, KeptWhileArmed, Kept
    <2> QED BY <2>1, <2>2, BareResets
  <1>11. CASE EnterCommandLoopAfterSemihostCall
    <2>1. m' = past /\ isr' = isr /\ phase' = "halted" /\ IsSemihostCall
      BY <1>11, Zenon DEF EnterCommandLoopAfterSemihostCall
    <2>2. BareStep
      BY <1>4, <2>1, BareExecutes, Zenon
    <2>3. KeptWhileArmed'
      BY <1>4, <2>1 DEF KeptWhileArmed, Kept
    <2> QED BY <2>2, <2>3
  <1>12. CASE EnterCommandLoop
    <2>1. m' = EnteringDebugger /\ isr' = isr /\ phase' = "halted"
      BY <1>12, Zenon DEF EnterCommandLoop
    <2>2. BareStep
      BY <1>2, <2>1, StandsStill, Zenon
    <2>3. KeptWhileArmed'
      BY <1>2, <2>1 DEF KeptWhileArmed, Kept
    <2> QED BY <2>2, <2>3
  <1> QED
    BY <1>5, <1>6, <1>7, <1>8, <1>9, <1>10, <1>11, <1>12, Zenon DEF HandlerNext

\* The program is resumed, or the device reset.
LEMMA ResumeImplements ==
    ASSUME m \in Machines, NEW s \in Machines, NEW by, Resume(s, by),
           Kept(s) => StepIsArmed(s) /\ Program[s.pc] \notin Delicate
    PROVE  /\ KeptWhileArmed'
           /\ \/ BareStep
              \/ ProgramRegisters(m') = ProgramRegisters(s) /\ isr' = isr
  <1>1. CASE ResetDevice(by)
    <2>1. KeptWhileArmed'
      BY <1>1, ResetMachine DEF ResetDevice, KeptWhileArmed, Kept
    <2> QED BY <1>1, <2>1, BareResets
  <1>2. CASE ~ResetDevice(by)
    <2>1. m' = LeavingDebugger(s) /\ phase' = "running" /\ isr' = isr
      BY <1>2, Zenon DEF Resume
    <2>2. /\ ProgramRegisters(m') = ProgramRegisters(s) /\ m'.pc = s.pc
          /\ Kept(m') => StepIsArmed(m') /\ Program[m'.pc] \notin Delicate
      BY <2>1, LeavingKeeps, Zenon
    <2>3. KeptWhileArmed'
      BY <2>1, <2>2 DEF KeptWhileArmed, Kept, StepIsArmed
    <2> QED BY <2>1, <2>2, <2>3
  <1> QED BY <1>1, <1>2

\* Where a command may leave the program's registers.
LEMMA ReadyImplements ==
    ASSUME m \in Machines, NEW jump \in Jumps, isr' = isr,
           LET p == ProgramRegisters(ReadyToContinue(jump))
           IN  \/ ProgramRegisters(m') = p
               \/ /\ ProgramRegisters(m') \in Executed(p)
                  /\ jump = NoJump => ~SkipsHardcodedBreakpoint
    PROVE  BareStep
  <1> DEFINE p == ProgramRegisters(ReadyToContinue(jump))
  <1>1. CASE jump # NoJump
    <2>1. jump \in JumpTargets /\ p = [ProgramRegisters(m) EXCEPT !.pc = jump]
      BY <1>1, ReadyKeeps, Zenon
    <2> QED
      BY <2>1, BareJumps, Zenon
  <1>2. CASE jump = NoJump /\ SkipsHardcodedBreakpoint
    <2>1. p \in PastBreak(ProgramRegisters(m))
      BY <1>2, ReadyKeeps, Zenon
    <2> QED
      BY <1>2, <2>1, BareExecutes, Zenon
  <1>3. CASE jump = NoJump /\ ~SkipsHardcodedBreakpoint
    <2>1. p = ProgramRegisters(m)
      BY <1>3, ReadyKeeps, Zenon
    <2> QED
      BY <1>3, <2>1, BareExecutes, Zenon
  <1> QED BY <1>1, <1>2, <1>3, Zenon

\* Nor do gdb's commands, but for where they send the program.
LEMMA CommandImplements ==
    ASSUME IInv, NoBasepriMax, CommandNext
    PROVE  KeptWhileArmed' /\ BareStep
  <1>1. m \in Machines /\ phase = "halted" /\ ~Kept(m)
    <2>1. phase = "halted"
      BY Zenon
      DEF CommandNext, ContinueCommand, SingleStepCommand,
          SingleStepWithSignalCommand, RegisterWriteCommand,
          BreakpointSetCommand, BreakpointRemoveCommand, MonitorResetCommand
    <2> QED
      BY <2>1, Zenon DEF IInv, Types, TypeOK, KeptWhileArmed
  <1>2. ASSUME NEW jump \in Jumps
        PROVE  ReadyToContinue(jump) \in Machines /\ ~Kept(ReadyToContinue(jump))
    BY <1>1, ReadyKeeps, Zenon DEF Kept
  <1>3. ASSUME NEW s \in Machines, NEW by, StepWithoutResuming(s, by), ~Kept(s)
        PROVE  m' = s /\ isr' = isr /\ KeptWhileArmed'
    <2>1. m' = s /\ isr' = isr /\ phase' = "halted"
      BY <1>1, <1>3, Zenon DEF StepWithoutResuming
    <2> QED
      BY <1>3, <2>1 DEF KeptWhileArmed, Kept
  <1>4. ASSUME NEW jump \in Jumps, ContinueCommand(jump)
        PROVE  KeptWhileArmed' /\ BareStep
    <2>1. Resume(ReadyToContinue(jump), "c")
      BY <1>4, Zenon DEF ContinueCommand
    <2>2. /\ KeptWhileArmed'
          /\ \/ BareStep
             \/ /\ isr' = isr
                /\ ProgramRegisters(m') = ProgramRegisters(ReadyToContinue(jump))
      BY <1>1, <1>2, <2>1, ResumeImplements, Zenon
    <2> QED
      BY <1>1, <2>2, ReadyImplements, Zenon
  <1>5. ASSUME NEW jump \in Jumps, NEW svcSet \in BOOLEAN, NEW by,
               ~SkipsHardcodedBreakpoint,
               LET before == ReadyToContinue(jump)
                   after == EnableSingleStep(before, svcSet)
               IN  \/ StepWithoutResuming(after, by) /\ after.pc # before.pc
                   \/ Resume(after, by)
        PROVE  KeptWhileArmed' /\ BareStep
    <2> DEFINE before == ReadyToContinue(jump)
               after == EnableSingleStep(before, svcSet)
               p == ProgramRegisters(before)
    <2>1. before \in Machines /\ ~Kept(before)
      BY <1>2, Zenon
    <2>2. /\ after \in Machines
          /\ ProgramRegisters(after) \in Executed(p) \cup {p}
          /\ after.pc # before.pc => ~Kept(after)
          /\ Kept(after) => StepIsArmed(after) /\ Program[after.pc] \notin Delicate
      BY <2>1, EnableStepsOrArms, Zenon
    <2>3. \/ StepWithoutResuming(after, by) /\ after.pc # before.pc
          \/ Resume(after, by)
      BY <1>5, Zenon
    <2> HIDE DEF after
    <2>4. /\ KeptWhileArmed'
          /\ \/ BareStep
             \/ ProgramRegisters(m') = ProgramRegisters(after) /\ isr' = isr
      BY <1>1, <1>3, <2>2, <2>3, ResumeImplements, Zenon
    <2> QED
      BY <1>1, <1>5, <2>2, <2>4, ReadyImplements, Zenon
  <1>6. ASSUME NEW jump \in Jumps, NEW by,
               StepWithoutResuming(ReadyToContinue(jump), by)
        PROVE  KeptWhileArmed' /\ BareStep
    BY <1>1, <1>2, <1>3, <1>6, ReadyImplements, Zenon
  <1>7. ASSUME NEW jump \in Jumps, NEW svcSet \in BOOLEAN, NEW by \in {"s", "r"},
               SingleStepCommand(jump, svcSet, by)
        PROVE  KeptWhileArmed' /\ BareStep
    BY <1>5, <1>6, <1>7, Zenon DEF SingleStepCommand
  <1>8. ASSUME NEW jump \in Jumps, NEW svcSet \in BOOLEAN,
               SingleStepWithSignalCommand(jump, svcSet)
        PROVE  KeptWhileArmed' /\ BareStep
    BY <1>5, <1>6, <1>8, Zenon DEF SingleStepWithSignalCommand
  <1>9. ASSUME NEW a \in JumpTargets, RegisterWriteCommand(a)
        PROVE  KeptWhileArmed' /\ BareStep
    <2>1. m' = [m EXCEPT !.pc = a] /\ isr' = isr /\ phase' = "halted"
      BY <1>1, <1>9, Zenon DEF RegisterWriteCommand
    <2>2. a \in Addresses
      BY CortexAssumption
    <2>3. ProgramRegisters(m') = [ProgramRegisters(m) EXCEPT !.pc = a]
          /\ m'.flags = m.flags
      BY <1>1, <2>1, <2>2, MoveIsSeen, Zenon
    <2>4. KeptWhileArmed'
      BY <1>1, <2>1, <2>3 DEF KeptWhileArmed, Kept
    <2> QED
      BY <2>1, <2>3, <2>4, BareJumps, Zenon
  <1>10. ASSUME NEW a \in GdbCode,
                BreakpointSetCommand(a) \/ BreakpointRemoveCommand(a)
         PROVE  KeptWhileArmed' /\ BareStep
    <2>1. /\ m.armed \cup {a} \in SUBSET Addresses
          /\ m.armed \ {a} \in SUBSET Addresses
      BY <1>1, DebugMonitorAssumption DEF Machines
    <2>4. PICK addresses \in SUBSET Addresses :
             m' = [m EXCEPT !.armed = addresses] /\ isr' = isr /\ phase' = "halted"
      <3>1. CASE BreakpointSetCommand(a)
        BY <1>1, <2>1, <3>1, Zenon DEF BreakpointSetCommand
      <3>2. CASE BreakpointRemoveCommand(a)
        BY <1>1, <2>1, <3>2, Zenon DEF BreakpointRemoveCommand
      <3> QED
        BY <1>10, <3>1, <3>2, Zenon
    <2>2. /\ ProgramRegisters(m') = ProgramRegisters(m) /\ m'.flags = m.flags
          /\ isr' = isr /\ phase' = "halted"
      BY <1>1, <2>4, ArmedIsNotSeen, Zenon
    <2>3. KeptWhileArmed'
      BY <1>1, <2>2 DEF KeptWhileArmed, Kept
    <2> QED
      BY <2>2, <2>3, StandsStill, Zenon
  <1>11. CASE MonitorResetCommand
    <2>1. m' = m /\ isr' = isr /\ phase' = "halted"
      BY <1>1, <1>11, Zenon DEF MonitorResetCommand
    <2>2. KeptWhileArmed'
      BY <1>1, <2>1 DEF KeptWhileArmed, Kept
    <2> QED
      BY <2>1, <2>2, StandsStill, Zenon
  <1> QED
    BY <1>4, <1>7, <1>8, <1>9, <1>10, <1>11, Zenon DEF CommandNext

\* The program runs under the monitor as it would without it: every step of
\* the system is a step of the bare processor, or nothing to the program.
THEOREM Transparency ==
    ASSUME NoCallbackResumes, NoBasepriMax
    PROVE  Spec => Transparent
  <1>1. Init => IInv /\ Bare!Init
    <2> SUFFICES ASSUME Init PROVE IInv /\ Bare!Init
      OBVIOUS
    <2>1. IInv
      <3>1. ~Kept(m)
        BY ResetMachine, Zenon DEF Init
      <3> QED
        BY <3>1, InitTypes DEF IInv, KeptWhileArmed
    <2>2. Bare!Init
      <3>1. ProgramRegisters(m) = AtReset /\ isr = 0
        BY ResetMachine, Zenon DEF Init
      <3> QED
        BY <3>1 DEF Bare!Init, Bare!AtReset, AtReset, Bare!NoReturn, NoReturn
    <2> QED BY <2>1, <2>2
  <1>2. ASSUME IInv, [Next]_vars PROVE IInv' /\ BareStep
    <2>1. Types'
      BY <1>2, TypesStep DEF IInv, KeptWhileArmed
    <2>2. CASE UNCHANGED vars
      <3>1. m' = m /\ isr' = isr /\ phase' = phase
        BY <2>2 DEF vars
      <3>2. KeptWhileArmed'
        BY <1>2, <3>1 DEF IInv, KeptWhileArmed, Kept, StepIsArmed
      <3> QED
        BY <2>1, <3>1, <3>2, StandsStill, Zenon DEF IInv
    <2>3. CASE Next
      <3>1. KeptWhileArmed' /\ BareStep
        BY <1>2, <2>3, ProgramImplements, HandlerImplements, CommandImplements,
           Zenon DEF Next
      <3> QED
        BY <2>1, <3>1 DEF IInv
    <2> QED BY <1>2, <2>2, <2>3
  <1> QED
    BY <1>1, <1>2, PTL DEF Spec, Transparent, Bare!Spec, BareStep

-----------------------------------------------------------------------------
(* What gdb sees of a step and of a halt, for every program: a step         *)
(* executes one instruction and no interrupt handler besides, and the       *)
(* signal of a T response is that of what halted the program.               *)
(*                                                                          *)
(* The invariant follows a step from the command to the halt: until its     *)
(* instruction is executed the processor is set to stop behind it, either   *)
(* by MON_STEP with the priority raised, or at an SVC by MON_STEP or by a   *)
(* breakpoint on the SVC handler; then the program is at that breakpoint or *)
(* on its way into the monitor.                                             *)

\* What a step needs of the program: a call to the console as the first
\* instruction of the SVC handler would be served by a step of the SVC.
NoCallInSvcHandler == Program[SvcHandler] # "console"

\* What vCont;r needs: a step within the range is not simulated.
NoPriorityInRange == \A a \in Range : Program[a] \notin PriorityInstructions

\* The processor stops behind the instruction at the PC.
StopsBehind(s) ==
    \/ IsSingleStepping(s) /\ StepIsArmed(s) /\ Program[s.pc] \notin Delicate
    \/ IsSingleStepping(s) /\ s.monStep /\ Program[s.pc] = "svc"
    \/ Program[s.pc] = "svc" /\ SvcHandler \in s.armed

StopsInSvcHandler(s) == s.pc = SvcHandler /\ SvcHandler \in s.armed

\* The commands that execute one instruction at a time.
Stepping(by) == by = "s" \/ (by = "r" /\ NoPriorityInRange)

OneInstruction ==
    Stepping(command) =>
        /\ steps <= 1
        /\ phase = "running" =>
              \/ steps = 0 /\ StopsBehind(m)
              \/ steps = 1 /\ StopsInSvcHandler(m)
        /\ phase \in {"fault", "exception"} =>
              IsSingleStepping(m) \/ Program[m.pc] # "console"

RangeIsNotKept == command = "s" => ~ranged

StepInv == Types /\ NothingKeptInCommandLoop /\ OneInstruction /\ RangeIsNotKept

-----------------------------------------------------------------------------

\* An instruction leaves the breakpoints alone, and an SVC enters its handler.
LEMMA ExecutedArmed ==
    ASSUME NEW s \in Machines, NEW t \in Executed(s)
    PROVE  /\ t.armed = s.armed
           /\ Program[s.pc] = "svc" =>
                 /\ t.pc = SvcHandler
                 /\ t.primask = s.primask /\ t.basepri = s.basepri
                 /\ CanTakeLower(s)
  <1> DEFINE next == [s EXCEPT !.pc = Following(s.pc)]
             kind == Program[s.pc]
  <1>1. CASE kind = "svc"
    <2>1. CanTakeLower(s) /\ t = [s EXCEPT !.pc = SvcHandler, !.ret = Following(s.pc)]
      BY <1>1, Zenon DEF Executed
    <2> QED
      BY <2>1, Zenon DEF Machines
  <1>2. CASE kind # "svc"
    <2>1. next \in [pc : {Following(s.pc)}, primask : {0, 1}, basepri : Nat,
     r : {0, 1}, q : Nat, ret : Addresses \cup {NoReturn},
     monStep : BOOLEAN, armed : SUBSET Addresses, flags : SUBSET Flags,
     savedPrimask : {0, 1}, savedBasepri : Nat]
      BY Zenon DEF Machines
    <2>2. next.armed = s.armed
      BY Zenon DEF Machines
    <2> HIDE DEF next
    <2>3. \/ t = next
          \/ t = [next EXCEPT !.q = Level]
          \/ t = [next EXCEPT !.q = 0]
          \/ t = [next EXCEPT !.r = s.primask]
          \/ t = [next EXCEPT !.primask = s.r]
          \/ t = [next EXCEPT !.primask = 1]
          \/ t = [next EXCEPT !.primask = 0]
          \/ t = [next EXCEPT !.q = s.basepri]
          \/ t = [next EXCEPT !.basepri = s.q]
          \/ t = [next EXCEPT !.basepri = RaisedBasepri(s)]
          \/ \E a \in BranchTargets : t = [s EXCEPT !.pc = a]
          \/ t = [s EXCEPT !.pc = s.ret, !.ret = NoReturn]
      BY <1>2, Zenon DEF Executed, next
    <2> QED
      BY <1>2, <2>1, <2>2, <2>3, Zenon DEF Machines
  <1> QED
    BY <1>1, <1>2

\* DebugMon is taken where the priority is that of a step, and where an SVC is.
LEMMA TakesDebugMon ==
    ASSUME NEW s \in Machines
    PROVE  /\ StepIsArmed(s) => CanTakeDebugMon(s) /\ ~CanTakeLower(s)
           /\ CanTakeLower(s) => CanTakeDebugMon(s)
  BY CortexAssumption
  DEF StepIsArmed, CanTakeDebugMon, CanTakeLower, Masks, LowerPriority, Machines

\* Platform_EnableSingleStep sets the processor to stop behind an instruction
\* that it does not simulate.
LEMMA EnableStopsBehind ==
    ASSUME NEW s \in Machines, ~Kept(s), NEW svcSet \in BOOLEAN,
           Program[s.pc] \notin PriorityInstructions
    PROVE  StopsBehind(EnableSingleStep(s, svcSet))
  <1>1. s.pc \in Addresses /\ Program[s.pc] \in Kinds
    BY CortexAssumption, Zenon DEF Machines
  <1> DEFINE flags == s.flags \cup {"SINGLE_STEPPING"}
             raised == EnableHardwareStep(RaisePriority(s))
  <1>2. "SINGLE_STEPPING" \in flags
    OBVIOUS
  <1>3. CASE Program[s.pc] # "svc"
    <2>1. EnableSingleStep(s, svcSet) = raised
      BY <1>3, Zenon DEF EnableSingleStep
    <2>2. StepIsArmed(raised) /\ raised.pc = s.pc
      BY RaiseKeepsRegisters, Zenon
    <2>3. RaisePriority(s) \in Machines
      <3>1. DebugMonPriority + 1 \in Nat /\ 0 \in {0, 1}
            /\ s.flags \cup {"RESTORE_PRI"} \in SUBSET Flags
        BY CortexAssumption DEF Machines, Flags
      <3> QED
        BY <3>1, Zenon DEF RaisePriority, Machines
    <2>4. IsSingleStepping(raised)
      <3>1. raised.flags = RaisePriority(s).flags \cup {"SINGLE_STEPPING"}
        BY <2>3, Zenon DEF EnableHardwareStep, Machines
      <3> QED
        BY <3>1 DEF IsSingleStepping
    <2>5. Program[s.pc] \notin Delicate
      BY <1>3 DEF Delicate
    <2> QED
      BY <2>1, <2>2, <2>4, <2>5, Zenon DEF StopsBehind
  <1>4. CASE Program[s.pc] = "svc" /\ svcSet
    <2>1. EnableSingleStep(s, svcSet) =
             [s EXCEPT !.armed = s.armed \cup {SvcHandler},
                       !.flags = s.flags \cup {"SVC_STEP"}]
      BY <1>4, Zenon DEF EnableSingleStep, Machines
    <2>2. EnableSingleStep(s, svcSet).armed = s.armed \cup {SvcHandler}
          /\ EnableSingleStep(s, svcSet).pc = s.pc
      BY <2>1, Zenon DEF Machines
    <2> QED
      BY <1>4, <2>2 DEF StopsBehind
  <1>5. CASE Program[s.pc] = "svc" /\ ~svcSet
    <2>1. EnableSingleStep(s, svcSet) =
             [s EXCEPT !.monStep = TRUE, !.flags = flags]
      BY <1>5, Zenon DEF EnableSingleStep, EnableHardwareStep, Machines
    <2>2. /\ EnableSingleStep(s, svcSet).flags = flags
          /\ EnableSingleStep(s, svcSet).monStep
          /\ EnableSingleStep(s, svcSet).pc = s.pc
      BY <2>1, Zenon DEF Machines
    <2> QED
      BY <1>2, <1>5, <2>2, Zenon DEF StopsBehind, IsSingleStepping
  <1> QED
    BY <1>3, <1>4, <1>5

\* Platform_LeavingDebugger leaves the step as it is.
LEMMA LeavingStops ==
    ASSUME NEW s \in Machines, StopsBehind(s)
    PROVE  StopsBehind(LeavingDebugger(s))
  <1>1. /\ LeavingDebugger(s).pc = s.pc
        /\ LeavingDebugger(s).armed = s.armed
        /\ LeavingDebugger(s).monStep = s.monStep
        /\ LeavingDebugger(s).primask = s.primask
        /\ LeavingDebugger(s).basepri = s.basepri
        /\ LeavingDebugger(s).flags = s.flags \ {"PEND_FROM_FAULT"}
    BY Zenon DEF LeavingDebugger, Machines
  <1>2. IsSingleStepping(s) => IsSingleStepping(LeavingDebugger(s))
    BY <1>1 DEF IsSingleStepping
  <1> QED
    BY <1>1, <1>2, Zenon DEF StopsBehind, StepIsArmed

-----------------------------------------------------------------------------
(* A step of the system keeps OneInstruction.                               *)

\* The program takes the step and stops, or is stopped before.
LEMMA ProgramTakesOne ==
    ASSUME StepInv, NoCallInSvcHandler, ProgramNext
    PROVE  OneInstruction'
  <1> SUFFICES ASSUME Stepping(command), command' = command
               PROVE  OneInstruction'
    <2>1. command' = command
      BY DEF ProgramNext, RunInstruction, HitBreakpoint, Fault, DeviceInterrupt,
             ControlC, CommInterrupt, SetTempBreakpoint, history
    <2> QED
      BY <2>1, Zenon DEF OneInstruction
  <1>1. m \in Machines /\ steps \in 0 .. 2 /\ steps <= 1
    BY DEF StepInv, Types, TypeOK, OneInstruction
  <1>2. phase = "running" =>
           \/ steps = 0 /\ StopsBehind(m)
           \/ steps = 1 /\ StopsInSvcHandler(m)
    BY Zenon DEF StepInv, OneInstruction
  <1>3. CASE RunInstruction
    <2>1. m' \in Executed(m) /\ phase = "running" /\ ~StopsAt(m)
          /\ steps' = CountedStep
          /\ (m.monStep /\ CanTakeDebugMon(m') => phase' = "exception")
          /\ phase' \in {"running", "exception"}
      BY <1>3, Zenon DEF RunInstruction
    <2>2. ~StopsInSvcHandler(m)
      BY <2>1, Zenon DEF StopsAt, StopsInSvcHandler
    <2>3. steps = 0 /\ StopsBehind(m)
      BY <1>2, <2>1, <2>2
    <2>4. steps' = 1 /\ steps' <= 1
      BY <2>1, <2>3 DEF CountedStep, Stepping
    <2>5. m' \in Machines /\ m'.flags = m.flags /\ m'.monStep = m.monStep
          /\ m'.armed = m.armed
          /\ (Program[m.pc] \notin Delicate =>
                 m'.primask = m.primask /\ m'.basepri = m.basepri)
          /\ (Program[m.pc] = "svc" =>
                 /\ m'.pc = SvcHandler /\ CanTakeLower(m)
                 /\ m'.primask = m.primask /\ m'.basepri = m.basepri)
      BY <1>1, <2>1, ExecutedMachines, ExecutedArmed, Zenon
    <2>6. CASE IsSingleStepping(m) /\ StepIsArmed(m) /\ Program[m.pc] \notin Delicate
      <3>1. StepIsArmed(m') /\ IsSingleStepping(m') /\ m.monStep
        BY <2>5, <2>6, Zenon DEF StepIsArmed, IsSingleStepping
      <3>2. phase' = "exception"
        BY <2>1, <2>5, <3>1, TakesDebugMon, Zenon
      <3> QED
        BY <2>4, <3>1, <3>2, Zenon DEF OneInstruction, IsSingleStepping
    <2>7. CASE Program[m.pc] = "svc" /\ IsSingleStepping(m) /\ m.monStep
      <3>1. CanTakeDebugMon(m)
        BY <1>1, <2>5, <2>7, TakesDebugMon, Zenon
      <3>2. CanTakeDebugMon(m') /\ IsSingleStepping(m')
        BY <2>5, <2>7, <3>1, Zenon DEF CanTakeDebugMon, Masks, IsSingleStepping
      <3> QED
        BY <2>1, <2>4, <2>7, <3>2, Zenon DEF OneInstruction, IsSingleStepping
    <2>8. CASE Program[m.pc] = "svc" /\ SvcHandler \in m.armed
      <3>1. StopsInSvcHandler(m')
        BY <2>5, <2>8, Zenon DEF StopsInSvcHandler
      <3>2. Program[m'.pc] # "console"
        BY <2>5, <2>8, Zenon DEF NoCallInSvcHandler
      <3> QED
        BY <2>1, <2>4, <3>1, <3>2, Zenon DEF OneInstruction, StopsInSvcHandler
    <2> QED
      BY <2>3, <2>6, <2>7, <2>8, Zenon DEF StopsBehind
  <1>4. CASE HitBreakpoint \/ Fault \/ CommInterrupt
    <2>1. m' = m /\ steps' = steps /\ phase = "running"
          /\ phase' \in {"exception", "fault"}
      BY <1>4, Zenon DEF HitBreakpoint, Fault, CommInterrupt
    <2>2. Program[m.pc] # "console" \/ IsSingleStepping(m)
      BY <1>2, <2>1 DEF StopsBehind, StopsInSvcHandler, NoCallInSvcHandler
    <2> QED
      BY <1>1, <2>1, <2>2 DEF OneInstruction, IsSingleStepping
  <1>5. CASE DeviceInterrupt \/ ControlC
    <2>1. m' = m /\ steps' = steps /\ phase' = phase
      BY <1>5 DEF DeviceInterrupt, ControlC, history
    <2> QED
      BY <2>1 DEF StepInv, OneInstruction, IsSingleStepping, StopsBehind,
                  StepIsArmed, StopsInSvcHandler
  <1>6. ASSUME NEW a \in TempCode, SetTempBreakpoint(a) PROVE OneInstruction'
    <2>1. phase' = "running" /\ phase = "running" /\ steps' = steps
          /\ m' = [m EXCEPT !.armed = m.armed \cup {a}]
      BY <1>1, <1>6 DEF SetTempBreakpoint, history
    <2>2. /\ m'.pc = m.pc /\ m'.flags = m.flags /\ m'.monStep = m.monStep
          /\ m'.primask = m.primask /\ m'.basepri = m.basepri
          /\ m'.armed = m.armed \cup {a}
      BY <1>1, <2>1, Zenon DEF Machines
    <2>3. StopsBehind(m) => StopsBehind(m')
      BY <2>2 DEF StopsBehind, StepIsArmed, IsSingleStepping
    <2>4. StopsInSvcHandler(m) => StopsInSvcHandler(m')
      BY <2>2 DEF StopsInSvcHandler
    <2>5. \/ steps' = 0 /\ StopsBehind(m')
          \/ steps' = 1 /\ StopsInSvcHandler(m')
      BY <1>2, <2>1, <2>3, <2>4
    <2>6. steps' <= 1
      BY <1>1, <2>1
    <2> QED
      BY <2>1, <2>5, <2>6 DEF OneInstruction, StopsBehind, StepIsArmed,
             IsSingleStepping, StopsInSvcHandler
  <1> QED
    BY <1>3, <1>4, <1>5, <1>6, Zenon DEF ProgramNext

\* The handlers halt a step, or repeat it within the range of vCont;r.
LEMMA HandlerTakesOne ==
    ASSUME StepInv, HandlerNext
    PROVE  OneInstruction'
  <1>1. m \in Machines
    BY DEF StepInv, Types, TypeOK
  <1>2. Stepping(command) => steps <= 1
    BY DEF StepInv, OneInstruction
  <1>3. CASE PendFaultToDebugMon
    <2>1. /\ phase = "fault" /\ phase' = "exception"
          /\ command' = command /\ steps' = steps
          /\ m' = [DisableInterruptMasking(m) EXCEPT
                     !.flags = DisableInterruptMasking(m).flags
                                  \cup {"PEND_FROM_FAULT"}]
      BY <1>3 DEF PendFaultToDebugMon, history
    <2> DEFINE u == DisableInterruptMasking(m)
    <2>2. u \in Machines /\ u.pc = m.pc /\ m.flags \subseteq u.flags
      <3>1. m.flags \cup {"RESTORE_PRI"} \in SUBSET Flags /\ 0 \in {0, 1}
        BY <1>1 DEF Machines, Flags
      <3>2. u \in Machines /\ u.pc = m.pc
            /\ u.flags \in {m.flags, m.flags \cup {"RESTORE_PRI"}}
        BY <1>1, <3>1, Zenon DEF DisableInterruptMasking, Machines
      <3> QED
        BY <3>2
    <2> HIDE DEF u
    <2>3. m'.pc = m.pc /\ m'.flags = u.flags \cup {"PEND_FROM_FAULT"}
      BY <2>1, <2>2, Zenon DEF u, Machines
    <2>4. IsSingleStepping(m) => IsSingleStepping(m')
      BY <2>2, <2>3 DEF IsSingleStepping
    <2>5. Stepping(command) =>
             IsSingleStepping(m) \/ Program[m.pc] # "console"
      BY <2>1, Zenon DEF StepInv, OneInstruction
    <2> QED
      BY <1>2, <2>1, <2>3, <2>4, <2>5, Zenon DEF OneInstruction, IsSingleStepping
  <1>4. CASE HandleFaultFromHighPriorityCode
    <2>1. m' = m /\ phase = "fault" /\ phase' = "exception"
          /\ command' = command /\ steps' = steps
      BY <1>4, Zenon DEF HandleFaultFromHighPriorityCode
    <2> QED
      BY <2>1, Zenon DEF StepInv, OneInstruction, IsSingleStepping
  <1>5. CASE TempBreakpointCallbackResumes \/ ResetAfterSemihostCall
    BY <1>5 DEF TempBreakpointCallbackResumes, ResetAfterSemihostCall,
                ResetDevice, OneInstruction, Stepping
  <1>6. ASSUME NEW svcSet \in BOOLEAN, StepAgainInRange(svcSet)
        PROVE  OneInstruction'
    <2> DEFINE s == DisableSingleStep(ClearTempBreakpoint(m))
    <2>1. ranged /\ m.pc \in Range /\ command' = command /\ phase' = "running"
          /\ m' = EnableSingleStep(s, svcSet)
          /\ steps' = IF command = "r" THEN 0 ELSE steps
      BY <1>6, Zenon DEF StepAgainInRange, AreSingleSteppingInRange
    <2>2. s \in Machines /\ ~Kept(s) /\ s.pc = m.pc
      BY <1>1, ClearTempKeeps, DisableKeepsRegisters, Zenon
    <2>3. NoPriorityInRange => StopsBehind(m')
      BY <2>1, <2>2, EnableStopsBehind, Zenon DEF NoPriorityInRange
    <2>4. command # "s"
      BY <2>1 DEF StepInv, RangeIsNotKept
    <2> QED
      BY <2>1, <2>3, <2>4 DEF Stepping, OneInstruction, StopsBehind, StepIsArmed,
                              IsSingleStepping
  <1>7. CASE ServeSemihostCall
    <2>1. Program[m.pc] = "console" /\ ~IsSingleStepping(m)
          /\ phase = "exception" /\ command' = command
      BY <1>7 DEF ServeSemihostCall, StopsForGdb, Exception, IsSemihostCall, history
    <2>2. ~Stepping(command)
      BY <2>1, Zenon DEF StepInv, OneInstruction
    <2> QED
      BY <2>1, <2>2, Zenon DEF OneInstruction
  <1>8. CASE EnterCommandLoopAfterSemihostCall \/ EnterCommandLoop
    <2>1. phase' = "halted" /\ command' = command /\ steps' = steps
      BY <1>8 DEF EnterCommandLoopAfterSemihostCall, EnterCommandLoop, history
    <2> QED
      BY <1>2, <2>1, Zenon DEF OneInstruction
  <1> QED
    BY <1>3, <1>4, <1>5, <1>6, <1>7, <1>8, Zenon DEF HandlerNext

\* gdb's commands set the processor to stop, or stand for the step.
LEMMA CommandTakesOne ==
    ASSUME StepInv, CommandNext
    PROVE  OneInstruction'
  <1>1. m \in Machines /\ phase = "halted" /\ ~Kept(m)
    <2>1. phase = "halted"
      BY Zenon
      DEF CommandNext, ContinueCommand, SingleStepCommand,
          SingleStepWithSignalCommand, RegisterWriteCommand,
          BreakpointSetCommand, BreakpointRemoveCommand, MonitorResetCommand
    <2> QED
      BY <2>1, Zenon DEF StepInv, Types, TypeOK, NothingKeptInCommandLoop
  <1>2. ASSUME NEW s, NEW by, StepWithoutResuming(s, by) PROVE OneInstruction'
    <2>1. phase' = "halted" /\ steps' = 1
      BY <1>1, <1>2, Zenon DEF StepWithoutResuming
    <2> QED
      BY <2>1 DEF OneInstruction
  <1>3. ASSUME NEW s \in Machines, NEW by, Resume(s, by),
               Stepping(by) => StopsBehind(s)
        PROVE  OneInstruction'
    <2>1. CASE MustReset(s)
      <3>1. ResetDevice(by)
        BY <1>3, <2>1, Zenon DEF Resume
      <3> QED
        BY <3>1, Zenon DEF ResetDevice, OneInstruction, Stepping
    <2>2. CASE ~MustReset(s)
      <3>1. m' = LeavingDebugger(s) /\ phase' = "running" /\ steps' = 0
            /\ command' = CommandOf(by)
        BY <1>3, <2>2, Zenon DEF Resume
      <3>2. Stepping(command') => StopsBehind(m')
        BY <1>3, <3>1, LeavingStops, Zenon DEF CommandOf, Stepping
      <3> QED
        BY <3>1, <3>2 DEF OneInstruction, StopsBehind, StepIsArmed,
                          IsSingleStepping
    <2> QED
      BY <2>1, <2>2
  <1>4. ASSUME NEW jump \in Jumps, ContinueCommand(jump) PROVE OneInstruction'
    <2>1. Resume(ReadyToContinue(jump), "c") /\ ReadyToContinue(jump) \in Machines
      BY <1>1, <1>4, ReadyKeeps, Zenon DEF ContinueCommand
    <2>2. ~Stepping("c")
      BY DEF Stepping
    <2> QED
      BY <1>3, <2>1, <2>2
  <1>5. ASSUME NEW jump \in Jumps, NEW svcSet \in BOOLEAN, NEW by \in {"s", "r"},
               SingleStepCommand(jump, svcSet, by)
        PROVE  OneInstruction'
    <2> DEFINE before == ReadyToContinue(jump)
               after == EnableSingleStep(before, svcSet)
    <2>1. before \in Machines /\ ~Kept(before)
      BY <1>1, ReadyKeeps, Zenon DEF Kept
    <2>2. after \in Machines
      BY <2>1, EnableStepsOrArms, Zenon
    <2>3. after.pc = before.pc => Program[before.pc] \notin PriorityInstructions
      <3>1. ASSUME Program[before.pc] \in PriorityInstructions
            PROVE  after.pc # before.pc
        <4>1. after.pc = Following(before.pc) /\ before.pc \in Addresses
          BY <2>1, <3>1, SimulationIsExecution, Zenon DEF EnableSingleStep, Machines
        <4> HIDE DEF after
        <4> QED
          BY <4>1, FollowingIsAddress, Zenon
      <3> QED
        BY <3>1
    <2>4. after.pc = before.pc => StopsBehind(after)
      BY <2>1, <2>3, EnableStopsBehind, Zenon
    <2>5. \/ StepWithoutResuming(before, by)
          \/ StepWithoutResuming(after, by)
          \/ after.pc = before.pc /\ Resume(after, by)
      BY <1>5, Zenon DEF SingleStepCommand
    <2> HIDE DEF after, before
    <2> QED
      BY <1>2, <1>3, <2>2, <2>4, <2>5
  <1>6. ASSUME NEW jump \in Jumps, NEW svcSet \in BOOLEAN,
               SingleStepWithSignalCommand(jump, svcSet)
        PROVE  OneInstruction'
    <2> DEFINE before == ReadyToContinue(jump)
               after == EnableSingleStep(before, svcSet)
    <2>1. before \in Machines /\ ~Kept(before)
      BY <1>1, ReadyKeeps, Zenon DEF Kept
    <2>2. after \in Machines
      BY <2>1, EnableStepsOrArms, Zenon
    <2>3. StepWithoutResuming(before, "S") \/ Resume(after, "S")
      BY <1>6, Zenon DEF SingleStepWithSignalCommand
    <2>4. ~Stepping("S")
      BY DEF Stepping
    <2> HIDE DEF after, before
    <2> QED
      BY <1>2, <1>3, <2>2, <2>3, <2>4
  <1>7. CASE \/ \E a \in JumpTargets : RegisterWriteCommand(a)
             \/ \E a \in GdbCode : BreakpointSetCommand(a) \/ BreakpointRemoveCommand(a)
             \/ MonitorResetCommand
    <2>1. phase' = phase /\ command' = command /\ steps' = steps
      BY <1>7 DEF RegisterWriteCommand, BreakpointSetCommand,
                  BreakpointRemoveCommand, MonitorResetCommand, history
    <2> QED
      BY <1>1, <2>1 DEF StepInv, OneInstruction
  <1> QED
    BY <1>4, <1>5, <1>6, <1>7, Zenon DEF CommandNext

-----------------------------------------------------------------------------

\* A range is kept by no command that is counted as an s.
LEMMA RangeStep ==
    ASSUME RangeIsNotKept, [Next]_vars
    PROVE  RangeIsNotKept'
  <1>1. ASSUME NEW s, NEW by \in {"c", "s", "S", "r"},
               Resume(s, by) \/ StepWithoutResuming(s, by)
        PROVE  RangeIsNotKept'
    <2>1. CASE ResetDevice(by)
      BY <2>1, Zenon DEF ResetDevice, RangeIsNotKept
    <2>2. CASE ~ResetDevice(by)
      <3>1. command' = CommandOf(by) /\ ranged' = (ranged \/ by = "r")
        <4>1. CASE StepWithoutResuming(s, by)
          BY <4>1, Zenon DEF StepWithoutResuming
        <4>2. CASE Resume(s, by)
          <5>1. ~MustReset(s)
            BY <2>2, <4>2, Zenon DEF Resume
          <5> QED
            BY <4>2, <5>1, Zenon DEF Resume
        <4> QED
          BY <1>1, <4>1, <4>2
      <3> QED
        BY <3>1 DEF CommandOf, RangeIsNotKept
    <2> QED
      BY <2>1, <2>2
  <1>2. CASE CommandNext
    <2>1. CASE \E jump \in Jumps : ContinueCommand(jump)
      BY <1>1, <2>1 DEF ContinueCommand
    <2>2. CASE \E jump \in Jumps, svcSet \in BOOLEAN, by \in {"s", "r"} :
                  SingleStepCommand(jump, svcSet, by)
      <3>1. PICK by \in {"s", "r"} :
               \E s : Resume(s, by) \/ StepWithoutResuming(s, by)
        BY <2>2, Zenon DEF SingleStepCommand
      <3> QED
        BY <1>1, <3>1
    <2>3. CASE \E jump \in Jumps, svcSet \in BOOLEAN :
                  SingleStepWithSignalCommand(jump, svcSet)
      <3>1. \E s : Resume(s, "S") \/ StepWithoutResuming(s, "S")
        BY <2>3, Zenon DEF SingleStepWithSignalCommand
      <3> QED
        BY <1>1, <3>1
    <2>4. CASE \/ \E a \in JumpTargets : RegisterWriteCommand(a)
               \/ \E a \in GdbCode : BreakpointSetCommand(a)
                                        \/ BreakpointRemoveCommand(a)
               \/ MonitorResetCommand
      BY <2>4 DEF RegisterWriteCommand, BreakpointSetCommand, RangeIsNotKept,
                  BreakpointRemoveCommand, MonitorResetCommand, history, monitor
    <2> QED
      BY <1>2, <2>1, <2>2, <2>3, <2>4, Zenon DEF CommandNext
  <1>3. CASE ProgramNext
    BY <1>3 DEF ProgramNext, RunInstruction, HitBreakpoint, Fault,
                DeviceInterrupt, ControlC, CommInterrupt, SetTempBreakpoint,
                history, monitor, RangeIsNotKept
  <1>4. CASE HandlerNext
    BY <1>4 DEF HandlerNext, PendFaultToDebugMon,
                HandleFaultFromHighPriorityCode, TempBreakpointCallbackResumes,
                StepAgainInRange, ServeSemihostCall, ResetAfterSemihostCall,
                EnterCommandLoopAfterSemihostCall, EnterCommandLoop,
                StopsForGdb, ResetDevice, history, monitor, RangeIsNotKept
  <1>5. CASE UNCHANGED vars
    BY <1>5 DEF vars, history, monitor, RangeIsNotKept
  <1> QED
    BY <1>2, <1>3, <1>4, <1>5, Zenon DEF Next

\* The invariant holds.
LEMMA StepInvariance ==
    ASSUME NoCallInSvcHandler
    PROVE  Spec => []StepInv
  <1>1. Init => StepInv
    <2> SUFFICES ASSUME Init PROVE StepInv
      OBVIOUS
    <2>1. phase = "running" /\ command = "none"
      BY Zenon DEF Init
    <2> QED
      BY <2>1, InitTypes
      DEF StepInv, NothingKeptInCommandLoop, OneInstruction, RangeIsNotKept,
          Stepping
  <1>2. StepInv /\ [Next]_vars => StepInv'
    <2> SUFFICES ASSUME StepInv, [Next]_vars PROVE StepInv'
      OBVIOUS
    <2>1. Types' /\ NothingKeptInCommandLoop' /\ RangeIsNotKept'
      BY TypesStep, CommandLoopStep, RangeStep
      DEF StepInv, NothingKeptInCommandLoop
    <2>2. OneInstruction'
      <3>1. CASE UNCHANGED vars
        BY <3>1 DEF vars, history, StepInv, OneInstruction, StopsBehind,
                    StepIsArmed, IsSingleStepping, StopsInSvcHandler
      <3> QED
        BY <3>1, ProgramTakesOne, HandlerTakesOne, CommandTakesOne, Zenon DEF Next
    <2> QED
      BY <2>1, <2>2 DEF StepInv
  <1> QED
    BY <1>1, <1>2, PTL DEF Spec

\* s executes one instruction before the program is halted again.
THEOREM StepIsOneInstruction ==
    ASSUME NoCallInSvcHandler
    PROVE  Spec => []StepExecutesOne
  <1>1. StepInv => StepExecutesOne
    BY DEF StepInv, OneInstruction, Stepping, StepExecutesOne
  <1> QED
    BY <1>1, StepInvariance, PTL

\* So does each step within the range of vCont;r.
THEOREM RangeStepIsOneInstruction ==
    ASSUME NoCallInSvcHandler, NoPriorityInRange
    PROVE  Spec => []RangeStepExecutesOne
  <1>1. StepInv => RangeStepExecutesOne
    BY DEF StepInv, OneInstruction, Stepping, RangeStepExecutesOne
  <1> QED
    BY <1>1, StepInvariance, PTL

\* No device interrupts between a step and its instruction, unless that is an
\* SVC.
THEOREM StepIsNotInterrupted ==
    ASSUME NoCallInSvcHandler
    PROVE  Spec => NoInterruptDuringStep
  <1> DEFINE Interrupted ==
                isr' # isr /\ ~resetRequested /\ command = "s" /\ steps = 0
  <1>1. StepInv /\ [Next]_vars => [Interrupted => Program[m.pc] = "svc"]_vars
    <2> SUFFICES ASSUME StepInv, Next, Interrupted
                 PROVE  Program[m.pc] = "svc"
      OBVIOUS
    <2>2. CASE CommandNext
      <3>1. ASSUME NEW s, NEW by, Resume(s, by) PROVE isr' = isr
        <4>1. ~MustReset(s)
          BY Zenon DEF MustReset
        <4> QED
          BY <3>1, <4>1, Zenon DEF Resume
      <3>2. ASSUME NEW s, NEW by, StepWithoutResuming(s, by) PROVE isr' = isr
        BY <3>2, Zenon DEF StepWithoutResuming
      <3>3. isr' = isr
        BY <2>2, <3>1, <3>2, Zenon
        DEF CommandNext, ContinueCommand, SingleStepCommand,
            SingleStepWithSignalCommand, RegisterWriteCommand,
            BreakpointSetCommand, BreakpointRemoveCommand, MonitorResetCommand
      <3> QED
        BY <3>3
    <2>3. CASE HandlerNext
      <3>1. ~ResetAfterSemihostCall
        BY Zenon DEF ResetAfterSemihostCall, MustReset
      <3>2. isr' = isr
        BY <2>3, <3>1, Zenon
        DEF HandlerNext, PendFaultToDebugMon, HandleFaultFromHighPriorityCode,
            TempBreakpointCallbackResumes, StepAgainInRange, ServeSemihostCall,
            EnterCommandLoopAfterSemihostCall, EnterCommandLoop
      <3> QED
        BY <3>2
    <2>4. CASE ProgramNext
      <3>1. DeviceInterrupt
        BY <2>4, Zenon
        DEF ProgramNext, RunInstruction, HitBreakpoint, Fault, ControlC,
            CommInterrupt, SetTempBreakpoint
      <3>2. phase = "running" /\ CanTakeLower(m) /\ m \in Machines
        BY <3>1, Zenon DEF DeviceInterrupt, StepInv, Types, TypeOK
      <3>3. StopsBehind(m)
        BY <3>2 DEF StepInv, OneInstruction, Stepping
      <3> QED
        BY <3>2, <3>3, TakesDebugMon, Zenon DEF StopsBehind
    <2> QED
      BY <2>2, <2>3, <2>4, Zenon DEF Next
  <1> QED
    BY <1>1, StepInvariance, PTL DEF Spec, NoInterruptDuringStep

-----------------------------------------------------------------------------
(* The signal that gdb is told.                                             *)

\* What SignalMatchesCause says of the signal.
Explains(name, what) ==
    name = CASE what \in {"step", "breakpoint"} -> "SIGTRAP"
             [] what = "fault"                  -> "SIGSEGV"
             [] what = "control-c"              -> "SIGINT"

Pended(s) == "PEND_FROM_FAULT" \in s.flags

\* What a fault handler recorded is used once, for the exception that it has
\* pended, and is no step.
SignalsMatch ==
    /\ phase = "halted" => Explains(signal, cause)
    /\ phase \in {"running", "fault"} => ~Pended(m)
    /\ phase = "fault" =>
          /\ exc.number = 3
          /\ exc.dfsr = IF exc.debugEvent THEN {"BKPT"} ELSE {}
          /\ cause = IF exc.debugEvent THEN "breakpoint" ELSE "fault"
    /\ phase = "exception" =>
          /\ Explains(SignalOf(Recorded), cause)
          /\ Pended(m) => recorded.number = 3 \/ "BKPT" \in recorded.dfsr

\* Enabling and disabling a step leave what was pended.
LEMMA SteppingKeepsPended ==
    ASSUME NEW s \in Machines, NEW svcSet \in BOOLEAN
    PROVE  /\ Pended(DisableSingleStep(s)) <=> Pended(s)
           /\ Pended(EnableSingleStep(s, svcSet)) <=> Pended(s)
  <1>1. Pended(DisableSingleStep(s)) <=> Pended(s)
    <2> DEFINE t == RestorePriority(s)
    <2>1. t \in Machines /\ t.flags = s.flags
      <3>1. 0 \in Nat /\ 0 \in {0, 1}
        OBVIOUS
      <3> QED
        BY <3>1, Zenon DEF RestorePriority, Machines
    <2> HIDE DEF t
    <2>2. DisableSingleStep(s).flags =
             t.flags \ {"RESTORE_PRI", "SVC_STEP", "SINGLE_STEPPING"}
      BY <2>1, Zenon DEF DisableSingleStep, t, Machines
    <2> QED
      BY <2>1, <2>2 DEF Pended
  <1>2. Pended(EnableSingleStep(s, svcSet)) <=> Pended(s)
    <2>1. CASE Program[s.pc] \in PriorityInstructions
      <3>1. EnableSingleStep(s, svcSet) = SimulatedPriority(s)
        BY <2>1, Zenon DEF EnableSingleStep
      <3> DEFINE next == [s EXCEPT !.pc = Following(s.pc)]
      <3>2. next \in [pc : {Following(s.pc)}, primask : {0, 1}, basepri : Nat,
                      r : {0, 1}, q : Nat, ret : Addresses \cup {NoReturn},
                      monStep : BOOLEAN, armed : SUBSET Addresses,
                      flags : SUBSET Flags,
                      savedPrimask : {0, 1}, savedBasepri : Nat]
            /\ next.flags = s.flags
        BY Zenon DEF Machines
      <3> HIDE DEF next
      <3>3. \/ SimulatedPriority(s) = next
            \/ \E v : \/ SimulatedPriority(s) = [next EXCEPT !.r = v]
                      \/ SimulatedPriority(s) = [next EXCEPT !.q = v]
                      \/ SimulatedPriority(s) = [next EXCEPT !.primask = v]
                      \/ SimulatedPriority(s) = [next EXCEPT !.basepri = v]
        BY <2>1, Zenon DEF SimulatedPriority, PriorityInstructions, next
      <3>4. SimulatedPriority(s).flags = s.flags
        BY <3>2, <3>3, Zenon
      <3> QED
        BY <3>1, <3>4, Zenon DEF Pended
    <2>2. CASE /\ Program[s.pc] \notin PriorityInstructions
               /\ Program[s.pc] # "svc"
      <3> DEFINE u == RaisePriority(s)
      <3>1. u \in Machines /\ u.flags = s.flags \cup {"RESTORE_PRI"}
        <4>1. DebugMonPriority + 1 \in Nat /\ 0 \in {0, 1}
              /\ s.flags \cup {"RESTORE_PRI"} \in SUBSET Flags
          BY CortexAssumption DEF Machines, Flags
        <4> QED
          BY <4>1, Zenon DEF RaisePriority, Machines
      <3> HIDE DEF u
      <3>2. EnableSingleStep(s, svcSet).flags = u.flags \cup {"SINGLE_STEPPING"}
        BY <2>2, <3>1, Zenon DEF EnableSingleStep, EnableHardwareStep, u, Machines
      <3> QED
        BY <3>1, <3>2 DEF Pended
    <2>3. CASE /\ Program[s.pc] \notin PriorityInstructions
               /\ Program[s.pc] = "svc"
      <3>1. EnableSingleStep(s, svcSet).flags
               \in {s.flags \cup {"SVC_STEP"}, s.flags \cup {"SINGLE_STEPPING"}}
        BY <2>3, Zenon DEF EnableSingleStep, EnableHardwareStep, Machines
      <3> QED
        BY <3>1 DEF Pended
    <2> QED
      BY <2>1, <2>2, <2>3
  <1> QED
    BY <1>1, <1>2

\* An exception that was not pended is explained by what the processor says of
\* it, and one that was by what the fault handler recorded.
LEMMA ProgramExplains ==
    ASSUME Types, SignalsMatch, ProgramNext
    PROVE  SignalsMatch'
  <1>1. m \in Machines
    BY DEF Types, TypeOK
  <1>2. CASE RunInstruction
    <2>1. phase = "running" /\ m' \in Executed(m)
          /\ \/ phase' = phase
             \/ /\ phase' = "exception" /\ cause' = "step"
                /\ exc' = [number |-> 12, dfsr |-> {"HALTED"},
                           debugEvent |-> FALSE]
      BY <1>2, Zenon DEF RunInstruction
    <2>2. ~Pended(m) /\ m'.flags = m.flags
      BY <1>1, <2>1, ExecutedMachines, Zenon DEF SignalsMatch
    <2> QED
      BY <2>1, <2>2 DEF SignalsMatch, Pended, Recorded, SignalOf, Explains
  <1>3. CASE HitBreakpoint
    <2>1. ~Pended(m) /\ m' = m
      BY <1>3, Zenon DEF HitBreakpoint, SignalsMatch
    <2>2. /\ cause' = "breakpoint"
          /\ \/ /\ phase' = "exception"
                /\ exc' = [number |-> 12, dfsr |-> {"BKPT"},
                           debugEvent |-> FALSE]
             \/ /\ phase' = "fault"
                /\ exc' = [number |-> 3, dfsr |-> {"BKPT"},
                           debugEvent |-> TRUE]
      BY <1>3, Zenon DEF HitBreakpoint
    <2> QED
      BY <2>1, <2>2 DEF SignalsMatch, Pended, Recorded, SignalOf, Explains
  <1>4. CASE Fault
    <2>1. ~Pended(m) /\ m' = m /\ phase' = "fault" /\ cause' = "fault"
          /\ exc' = [number |-> 3, dfsr |-> {}, debugEvent |-> FALSE]
      BY <1>4, Zenon DEF Fault, SignalsMatch
    <2> QED
      BY <2>1 DEF SignalsMatch, Pended
  <1>5. CASE CommInterrupt
    <2>1. ~Pended(m) /\ m' = m /\ phase' = "exception" /\ cause' = "control-c"
          /\ exc' = [number |-> 16, dfsr |-> {}, debugEvent |-> FALSE]
      BY <1>5, Zenon DEF CommInterrupt, SignalsMatch
    <2> QED
      BY <2>1 DEF SignalsMatch, Pended, Recorded, SignalOf, Explains
  <1>6. CASE DeviceInterrupt \/ ControlC
    <2>1. m' = m /\ phase' = phase /\ exc' = exc /\ recorded' = recorded
          /\ signal' = signal /\ cause' = cause
      BY <1>6 DEF DeviceInterrupt, ControlC, history, monitor
    <2> QED
      BY <2>1 DEF SignalsMatch, Pended, Recorded
  <1>7. ASSUME NEW a \in TempCode, SetTempBreakpoint(a) PROVE SignalsMatch'
    <2>1. phase = "running" /\ phase' = "running"
          /\ m' = [m EXCEPT !.armed = @ \cup {a}]
      BY <1>7, Zenon DEF SetTempBreakpoint
    <2>2. m'.flags = m.flags
      BY <1>1, <2>1, Zenon DEF Machines
    <2> QED
      BY <2>1, <2>2 DEF SignalsMatch, Pended
  <1> QED
    BY <1>2, <1>3, <1>4, <1>5, <1>6, <1>7, Zenon DEF ProgramNext

\* A handler takes what was recorded for the exception it is called for.
LEMMA HandlerExplains ==
    ASSUME Types, SignalsMatch, NoCallbackResumes, HandlerNext
    PROVE  SignalsMatch'
  <1>1. m \in Machines /\ exc \in Exceptions
    BY DEF Types, TypeOK
  <1> DEFINE past == [EnteringDebugger EXCEPT !.pc = Following(@)]
  <1>2. EnteringDebugger \in Machines /\ EnteringDebugger.pc = m.pc
        /\ past \in Machines
    <2>1. EnteringDebugger \in Machines /\ EnteringDebugger.pc = m.pc
      BY <1>1, EnteringKeeps
    <2>2. Following(m.pc) \in Addresses
      BY <1>1, FollowingIsAddress, Zenon DEF Machines
    <2> QED
      BY <2>1, <2>2, Zenon DEF Machines
  <1> HIDE DEF past
  <1>3. ASSUME NEW s \in Machines PROVE ~Pended(LeavingDebugger(s))
    <2>1. LeavingDebugger(s).flags = s.flags \ {"PEND_FROM_FAULT"}
      BY Zenon DEF LeavingDebugger, Machines
    <2> QED
      BY <2>1 DEF Pended
  <1>4. CASE PendFaultToDebugMon
    <2> DEFINE u == DisableInterruptMasking(m)
    <2>1. /\ phase = "fault" /\ phase' = "exception"
          /\ recorded' = AsDebugMon(exc) /\ cause' = cause
          /\ m' = [u EXCEPT !.flags = u.flags \cup {"PEND_FROM_FAULT"}]
      BY <1>4 DEF PendFaultToDebugMon, history
    <2>2. u \in Machines
      <3>1. m.flags \cup {"RESTORE_PRI"} \in SUBSET Flags /\ 0 \in {0, 1}
        BY <1>1 DEF Machines, Flags
      <3> QED
        BY <1>1, <3>1, Zenon DEF DisableInterruptMasking, Machines
    <2> HIDE DEF u
    <2>3. Pended(m')
      <3>1. m'.flags = u.flags \cup {"PEND_FROM_FAULT"}
        BY <2>1, <2>2, Zenon DEF Machines
      <3> QED
        BY <3>1 DEF Pended
    <2>4. Recorded' = recorded'
      BY <2>3, Zenon DEF Recorded, Pended
    <2>5. /\ exc.number = 3
          /\ exc.dfsr = IF exc.debugEvent THEN {"BKPT"} ELSE {}
          /\ cause = IF exc.debugEvent THEN "breakpoint" ELSE "fault"
      BY <2>1, Zenon DEF SignalsMatch
    <2>6. CASE exc.debugEvent
      <3>1. recorded'.number = 12 /\ recorded'.dfsr = {"BKPT"}
        BY <1>1, <2>1, <2>5, <2>6, Zenon DEF AsDebugMon, Exceptions
      <3>2. SignalOf(recorded') = "SIGTRAP"
        BY <3>1 DEF SignalOf
      <3> QED
        BY <2>1, <2>4, <2>5, <2>6, <3>1, <3>2 DEF SignalsMatch, Explains, Recorded, Pended
    <2>7. CASE ~exc.debugEvent
      <3>1. recorded' = exc
        BY <2>1, <2>7, Zenon DEF AsDebugMon
      <3>2. SignalOf(recorded') = "SIGSEGV"
        BY <2>5, <3>1 DEF SignalOf
      <3> QED
        BY <2>1, <2>4, <2>5, <2>7, <3>1, <3>2 DEF SignalsMatch, Explains, Recorded, Pended
    <2> QED
      BY <2>6, <2>7
  <1>5. CASE HandleFaultFromHighPriorityCode
    <2>1. m' = m /\ exc' = exc /\ phase = "fault" /\ phase' = "exception"
          /\ cause' = "fault" /\ ~Pended(m) /\ exc.number = 3
      BY <1>5, Zenon DEF HandleFaultFromHighPriorityCode, SignalsMatch
    <2> QED
      BY <2>1 DEF SignalsMatch, Explains, Recorded, Pended, SignalOf
  <1>6. ~TempBreakpointCallbackResumes
    BY DEF TempBreakpointCallbackResumes, Exception, NoCallbackResumes
  <1>7. ASSUME NEW svcSet \in BOOLEAN, StepAgainInRange(svcSet)
        PROVE  SignalsMatch'
    <2> DEFINE s == DisableSingleStep(ClearTempBreakpoint(m))
    <2>1. phase = "exception" /\ phase' = "running"
          /\ m' = EnableSingleStep(s, svcSet)
          /\ SignalOf(Recorded) = "SIGTRAP" /\ "BKPT" \notin Recorded.dfsr
      BY <1>7, Zenon DEF StepAgainInRange, AreSingleSteppingInRange, Exception
    <2>2. ~Pended(m)
      <3> SUFFICES ASSUME Pended(m) PROVE FALSE
        OBVIOUS
      <3>1. Recorded = recorded
        BY Zenon DEF Recorded, Pended
      <3>2. recorded.number = 3 \/ "BKPT" \in recorded.dfsr
        BY <2>1, Zenon DEF SignalsMatch
      <3> QED
        BY <2>1, <3>1, <3>2 DEF SignalOf
    <2>3. ClearTempBreakpoint(m) \in Machines
          /\ (Pended(ClearTempBreakpoint(m)) <=> Pended(m))
      BY <1>1, ClearTempKeeps, Zenon DEF Pended
    <2>4. s \in Machines /\ ~Pended(s)
      BY <2>2, <2>3, SteppingKeepsPended, DisableKeepsRegisters, Zenon
    <2> HIDE DEF s
    <2>5. ~Pended(m')
      BY <2>1, <2>4, SteppingKeepsPended, Zenon
    <2> QED
      BY <2>1, <2>5 DEF SignalsMatch, Pended
  <1>8. CASE ServeSemihostCall
    <2>1. phase' = "running" /\ m' = LeavingDebugger(past)
      BY <1>8, Zenon DEF ServeSemihostCall, past
    <2>2. ~Pended(m')
      BY <1>2, <1>3, <2>1, Zenon
    <2> QED
      BY <2>1, <2>2 DEF SignalsMatch, Pended
  <1>9. CASE ResetAfterSemihostCall
    <2>1. phase' = "running" /\ m' = MachineAtReset
      BY <1>9, Zenon DEF ResetAfterSemihostCall, ResetDevice
    <2>2. ~Pended(m')
      BY <2>1 DEF MachineAtReset, Pended
    <2> QED
      BY <2>1, <2>2 DEF SignalsMatch, Pended
  <1>10. CASE EnterCommandLoopAfterSemihostCall \/ EnterCommandLoop
    <2>1. phase = "exception" /\ phase' = "halted"
      BY <1>10, Zenon
      DEF EnterCommandLoopAfterSemihostCall, EnterCommandLoop, StopsForGdb,
          Exception
    <2>2. \/ signal' = SignalOf(Recorded) /\ cause' = cause
          \/ signal' = "SIGINT" /\ cause' = "control-c"
      BY <1>10 DEF EnterCommandLoopAfterSemihostCall, EnterCommandLoop, history
    <2>3. Explains(signal', cause')
      BY <2>1, <2>2 DEF SignalsMatch, Explains
    <2> QED
      BY <2>1, <2>3 DEF SignalsMatch, Explains
  <1> QED
    BY <1>4, <1>5, <1>6, <1>7, <1>8, <1>9, <1>10, Zenon DEF HandlerNext

\* gdb's commands tell it nothing new, and forget what was pended.
LEMMA CommandExplains ==
    ASSUME Types, NothingKeptInCommandLoop, SignalsMatch, CommandNext
    PROVE  SignalsMatch'
  <1>1. m \in Machines /\ phase = "halted" /\ ~Kept(m)
    <2>1. phase = "halted"
      BY Zenon
      DEF CommandNext, ContinueCommand, SingleStepCommand,
          SingleStepWithSignalCommand, RegisterWriteCommand,
          BreakpointSetCommand, BreakpointRemoveCommand, MonitorResetCommand
    <2> QED
      BY <2>1, Zenon DEF Types, TypeOK, NothingKeptInCommandLoop
  <1>2. Explains(signal, cause)
    BY <1>1, Zenon DEF SignalsMatch
  <1>3. ASSUME NEW s \in Machines, NEW by, Resume(s, by) PROVE SignalsMatch'
    <2>1. CASE MustReset(s)
      <3>1. phase' = "running" /\ m' = MachineAtReset
        BY <1>3, <2>1, Zenon DEF Resume, ResetDevice
      <3>2. ~Pended(m')
        BY <3>1 DEF MachineAtReset, Pended
      <3> QED
        BY <3>1, <3>2 DEF SignalsMatch, Pended
    <2>2. CASE ~MustReset(s)
      <3>1. phase' = "running" /\ m' = LeavingDebugger(s)
        BY <1>3, <2>2, Zenon DEF Resume
      <3>2. LeavingDebugger(s).flags = s.flags \ {"PEND_FROM_FAULT"}
        BY Zenon DEF LeavingDebugger, Machines
      <3> QED
        BY <3>1, <3>2 DEF SignalsMatch, Pended
    <2> QED
      BY <2>1, <2>2
  <1>4. CASE phase' = "halted" /\ signal' = signal /\ cause' = cause
    BY <1>2, <1>4 DEF SignalsMatch, Explains
  <1>5. \/ phase' = "halted" /\ signal' = signal /\ cause' = cause
        \/ \E s \in Machines : \E by : Resume(s, by)
    <2>1. ASSUME NEW s, NEW by, StepWithoutResuming(s, by)
          PROVE  phase' = "halted" /\ signal' = signal /\ cause' = cause
      BY <1>1, <2>1, Zenon DEF StepWithoutResuming
    <2>2. ASSUME NEW jump \in Jumps, NEW svcSet \in BOOLEAN
          PROVE  /\ ReadyToContinue(jump) \in Machines
                 /\ EnableSingleStep(ReadyToContinue(jump), svcSet) \in Machines
      <3>1. ReadyToContinue(jump) \in Machines /\ ~Kept(ReadyToContinue(jump))
        BY <1>1, ReadyKeeps, Zenon DEF Kept
      <3> QED
        BY <3>1, EnableStepsOrArms, Zenon
    <2>3. ASSUME NEW jump \in Jumps, ContinueCommand(jump)
          PROVE  \E s \in Machines : \E by : Resume(s, by)
      <3>1. ReadyToContinue(jump) \in Machines
        BY <1>1, ReadyKeeps, Zenon
      <3> QED
        BY <2>3, <3>1, Zenon DEF ContinueCommand
    <2>4. ASSUME NEW jump \in Jumps, NEW svcSet \in BOOLEAN, NEW by,
                 SingleStepCommand(jump, svcSet, by)
                    \/ SingleStepWithSignalCommand(jump, svcSet)
          PROVE  \/ phase' = "halted" /\ signal' = signal /\ cause' = cause
                 \/ \E s \in Machines : \E any : Resume(s, any)
      BY <2>1, <2>2, <2>4, Zenon DEF SingleStepCommand, SingleStepWithSignalCommand
    <2>5. CASE \/ \E a \in JumpTargets : RegisterWriteCommand(a)
               \/ \E a \in GdbCode : BreakpointSetCommand(a)
                                        \/ BreakpointRemoveCommand(a)
               \/ MonitorResetCommand
      BY <1>1, <2>5 DEF RegisterWriteCommand, BreakpointSetCommand,
                  BreakpointRemoveCommand, MonitorResetCommand, history, monitor
    <2> QED
      BY <2>3, <2>4, <2>5, Zenon DEF CommandNext
  <1> QED
    BY <1>3, <1>4, <1>5, Zenon

\* The signal of a T response is that of the exception that halted the
\* program, unless a callback resumes it and leaves what was pended.
THEOREM SignalIsOfCause ==
    ASSUME NoCallbackResumes
    PROVE  Spec => []SignalMatchesCause
  <1> DEFINE Inv == Types /\ NothingKeptInCommandLoop /\ SignalsMatch
  <1>1. Init => Inv
    <2> SUFFICES ASSUME Init PROVE Inv
      OBVIOUS
    <2>1. phase = "running" /\ m = MachineAtReset
      BY Zenon DEF Init
    <2>2. ~Pended(m)
      BY <2>1 DEF MachineAtReset, Pended
    <2> QED
      BY <2>1, <2>2, InitTypes DEF NothingKeptInCommandLoop, SignalsMatch
  <1>2. Inv /\ [Next]_vars => Inv'
    <2> SUFFICES ASSUME Inv, [Next]_vars PROVE Inv'
      OBVIOUS
    <2>1. Types' /\ NothingKeptInCommandLoop'
      BY TypesStep, CommandLoopStep DEF NothingKeptInCommandLoop
    <2>2. SignalsMatch'
      <3>1. CASE UNCHANGED vars
        <4>1. /\ m' = m /\ phase' = phase /\ exc' = exc
              /\ recorded' = recorded /\ signal' = signal /\ cause' = cause
          BY <3>1 DEF vars, history, monitor
        <4>2. Recorded' = Recorded
          BY <4>1 DEF Recorded
        <4> HIDE DEF Inv
        <4>3. SignalsMatch
          BY DEF Inv
        <4> QED
          BY <4>1, <4>2, <4>3, Zenon DEF SignalsMatch, Pended
      <3> QED
        BY <3>1, ProgramExplains, HandlerExplains, CommandExplains, Zenon DEF Next
    <2> QED
      BY <2>1, <2>2
  <1>3. Inv => SignalMatchesCause
    BY DEF SignalsMatch, Explains, SignalMatchesCause
  <1> QED
    BY <1>1, <1>2, <1>3, PTL DEF Spec
=============================================================================
