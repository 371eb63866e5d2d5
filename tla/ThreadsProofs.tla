----------------------------- MODULE ThreadsProofs -----------------------------
(***************************************************************************)
(* Proofs about Threads, for any threads, any room in a packet and any     *)
(* vCont packets of any length.  What the pass over the actions of a       *)
(* packet computes is shown by induction: the theorem of the library about *)
(* the least elements of sets of numbers gives it for a set, to which each *)
(* use brings the numbers that have its property.                          *)
(***************************************************************************)
EXTENDS Threads, SequenceTheorems, WellFoundedInduction, TLAPS

\* Until the command loop is entered a step stays armed as gdb asked for it;
\* only then can there be the exception of one.
StepIsKept ==
    /\ phase \in {"running", "exception", "halted"}
    /\ phase # "halted" => stepping = asked
    /\ phase = "exception" /\ cause = "step" => stepping = TRUE

\* No error is left from before when an exception arrives.
ErrorsAreRejections == reply = "E01" => phase = "halted"

\* From the exception to the resumption the threads are as the RTOS left them.
ThreadsAreStopped ==
    /\ supported \in BOOLEAN
    /\ phase # "running" /\ supported /\ style = "vCont" => state = All("frozen")

\* What gdb asked for is kept while the threads are stopped.
StatesAreWanted ==
    /\ phase \in {"running", "exception", "halted"}
    /\ phase = "running" => state = wanted
    /\ phase = "exception" /\ supported => previous = wanted
    /\ ~supported => state = wanted

\* While gdb collects a list it has got what the RTOS has listed.
ListIsSent ==
    /\ reply \in {"m", "l"} =>
          /\ cursor \in 0 .. Len(ThreadOrder)
          /\ listed = SubSeq(ThreadOrder, 1, cursor)
    /\ reply = "l" => cursor = Len(ThreadOrder)

-----------------------------------------------------------------------------
(* The packets of a list.                                                   *)

\* The threads are listed in a sequence.
LEMMA OrderIsSequence ==
    /\ ThreadOrder \in Seq(Threads)
    /\ Len(ThreadOrder) \in Nat
    /\ Room \in Nat
BY ThreadsAssumption, LenProperties

\* A packet continues the list where the last one ended.
LEMMA OutputContinues ==
    ASSUME NEW from \in 0 .. Len(ThreadOrder), NEW sent,
           sent = SubSeq(ThreadOrder, 1, from),
           Output(from, sent)
    PROVE  /\ cursor' \in 0 .. Len(ThreadOrder)
           /\ listed' = SubSeq(ThreadOrder, 1, cursor')
           /\ reply' = "m"
<1>. DEFINE to == IF from + 1 + Room < Len(ThreadOrder)
                  THEN from + 1 + Room ELSE Len(ThreadOrder)
<1>1. to \in from .. Len(ThreadOrder)
  BY OrderIsSequence
<1>2. /\ cursor' = to /\ reply' = "m"
      /\ listed' = SubSeq(ThreadOrder, 1, from) \o SubSeq(ThreadOrder, from + 1, to)
  BY DEF Output
<1>. HIDE DEF to
<1>3. SubSeq(ThreadOrder, 1, from) \o SubSeq(ThreadOrder, from + 1, to)
        = SubSeq(ThreadOrder, 1, to)
  BY <1>1, OrderIsSequence, ConcatAdjacentSubSeq
<1>4. cursor' \in 0 .. Len(ThreadOrder)
  BY <1>1, <1>2, OrderIsSequence
<1>. QED
  BY <1>2, <1>3, <1>4

\* A list begins with none of them.
LEMMA NothingSentYet == <<>> = SubSeq(ThreadOrder, 1, 0)
BY OrderIsSequence, SubSeqEmpty

-----------------------------------------------------------------------------
(* The pass over the actions of a packet.                                   *)

\* Induction over the natural numbers, for a set instead of a predicate.
LEMMA Induction ==
    ASSUME NEW S,
           0 \in S,
           \A n \in Nat : n \in S => n + 1 \in S
    PROVE  Nat \subseteq S
<1>. SUFFICES ASSUME Nat \ S # {} PROVE FALSE
  OBVIOUS
<1>1. PICK n \in Nat \ S : \A k \in Nat \ S : <<k, n>> \notin OpToRel(<, Nat)
  BY NatLessThanWellFounded, WFMin, Zenon
<1>2. \A k \in Nat \ S : ~(k < n)
  BY <1>1 DEF OpToRel
<1>3. n - 1 \in Nat /\ n - 1 < n
  OBVIOUS
<1>. QED
  BY <1>2, <1>3

\* The states after each of the first n actions.
IsPass(f, actions, n) ==
    f = [i \in 0 .. n |->
            IF i = 0 THEN state ELSE SetByAction(f[i - 1], actions[i])]

\* The pass over the actions has a result.
LEMMA PassExists ==
    ASSUME NEW actions, NEW n \in Nat
    PROVE  \E f : IsPass(f, actions, n)
<1>. DEFINE S == {k \in Nat : \E f : IsPass(f, actions, k)}
<1>1. 0 \in S
  <2>. DEFINE g == [i \in 0 .. 0 |-> state]
  <2>1. IsPass(g, actions, 0)
    BY DEF IsPass
  <2>. QED
    BY <2>1
<1>2. ASSUME NEW k \in Nat, k \in S
      PROVE  k + 1 \in S
  <2>1. PICK f : IsPass(f, actions, k)
    BY <1>2
  <2>. DEFINE g == [i \in 0 .. k + 1 |->
                       IF i = k + 1 THEN SetByAction(f[k], actions[k + 1]) ELSE f[i]]
  <2>2. ASSUME NEW i \in 0 .. k + 1
        PROVE  g[i] = IF i = 0 THEN state ELSE SetByAction(g[i - 1], actions[i])
    <3>. HIDE DEF g
    <3>1. g[i] = IF i = k + 1 THEN SetByAction(f[k], actions[k + 1]) ELSE f[i]
      BY DEF g
    <3>2. i # 0 => g[i - 1] = f[i - 1]
      BY DEF g
    <3>3. i # k + 1 => f[i] = IF i = 0 THEN state ELSE SetByAction(f[i - 1], actions[i])
      BY <2>1 DEF IsPass
    <3>. QED
      BY <3>1, <3>2, <3>3
  <2>3. IsPass(g, actions, k + 1)
    BY <2>2 DEF IsPass
  <2>. QED
    BY <2>3
<1>. HIDE DEF S
<1>3. Nat \subseteq S
  BY <1>1, <1>2, Induction
<1>. QED
  BY <1>3 DEF S

\* secondParsePass is such a pass.
LEMMA StatesAfterIsPass ==
    ASSUME NEW actions, Len(actions) \in Nat
    PROVE  \E f : /\ IsPass(f, actions, Len(actions))
                  /\ StatesAfter(actions) = f[Len(actions)]
<1>. DEFINE g == CHOOSE f : IsPass(f, actions, Len(actions))
<1>1. IsPass(g, actions, Len(actions))
  BY PassExists
<1>2. StatesAfter(actions) = g[Len(actions)]
  BY DEF StatesAfter, IsPass
<1>. QED
  BY <1>1, <1>2

\* What the first n actions of a packet mean for a thread that was frozen.
MeansTo(st, t, actions, n) ==
    /\ \A j \in 1 .. n : actions[j].thread = t => st = StateFor(actions[j].type)
    /\ (\A j \in 1 .. n : actions[j].thread # t) =>
          /\ \A j \in 1 .. n : actions[j].thread \in {AllThreads, NoThread}
                                    => st = StateFor(actions[j].type)
          /\ (\A j \in 1 .. n : actions[j].thread \notin {AllThreads, NoThread})
                => st = "frozen"

\* One more action.
LEMMA ActionMeans ==
    ASSUME NEW actions \in Seq(Actions), IsUnambiguous(actions),
           NEW n \in Nat, n < Len(actions), NEW t \in Threads,
           NEW s \in [Threads -> States], MeansTo(s[t], t, actions, n)
    PROVE  MeansTo(SetByAction(s, actions[n + 1])[t], t, actions, n + 1)
<1>. DEFINE a == actions[n + 1]
            st == SetByAction(s, a)[t]
<1>1. /\ a.thread \in Targets
      /\ 1 .. n + 1 = (1 .. n) \cup {n + 1}
      /\ \A j \in 1 .. n : j # n + 1
      /\ \A j \in 1 .. n + 1 : j \in DOMAIN actions
  <2>1. Len(actions) \in Nat /\ DOMAIN actions = 1 .. Len(actions)
    BY LenProperties
  <2>2. a \in Actions
    BY <2>1, ElementOfSeq
  <2>. QED
    BY <2>1, <2>2 DEF Actions
<1>2. \A j \in 1 .. n : /\ actions[j].thread # a.thread
                        /\ actions[j].thread # AllThreads
                        /\ a.thread # AllThreads
  BY <1>1 DEF IsUnambiguous
<1>3. /\ t # AllThreads /\ t # NoThread
      /\ \A type : StateFor(type) # "frozen"
  BY ThreadsAssumption DEF StateFor
<1>4. st = IF \/ a.thread = t
              \/ a.thread = AllThreads
              \/ a.thread = NoThread /\ s[t] = "frozen"
           THEN StateFor(a.type) ELSE s[t]
  BY DEF SetByAction, WithState
<1>5. SUFFICES MeansTo(st, t, actions, n + 1)
  OBVIOUS
<1>. HIDE DEF a, st
<1>. USE DEF MeansTo
<1>6. CASE a.thread = t
  BY <1>1, <1>2, <1>3, <1>4, <1>6 DEF a
<1>7. CASE a.thread = NoThread
  BY <1>1, <1>2, <1>3, <1>4, <1>7 DEF a
<1>8. CASE a.thread = AllThreads
  BY <1>1, <1>2, <1>3, <1>4, <1>8 DEF a
<1>9. CASE a.thread \notin {t, AllThreads, NoThread}
  BY <1>1, <1>2, <1>3, <1>4, <1>9 DEF a
<1>. QED
  BY <1>6, <1>7, <1>8, <1>9

\* secondParsePass gives each thread what its own action or else the default
\* action says, wherever they stand.
LEMMA PassMeans ==
    ASSUME NEW actions \in Seq(Actions), IsUnambiguous(actions),
           state = All("frozen")
    PROVE  /\ StatesAfter(actions) \in [Threads -> States]
           /\ \A t \in Threads :
                 MeansTo(StatesAfter(actions)[t], t, actions, Len(actions))
<1>1. Len(actions) \in Nat /\ DOMAIN actions = 1 .. Len(actions)
  BY LenProperties
<1>2. PICK f : /\ IsPass(f, actions, Len(actions))
               /\ StatesAfter(actions) = f[Len(actions)]
  BY <1>1, StatesAfterIsPass
<1>. DEFINE S == {n \in Nat : n <= Len(actions) =>
                     /\ f[n] \in [Threads -> States]
                     /\ \A t \in Threads : MeansTo(f[n][t], t, actions, n)}
<1>3. 0 \in S
  <2>1. f[0] = All("frozen")
    BY <1>1, <1>2 DEF IsPass
  <2>. QED
    BY <2>1 DEF All, States, MeansTo
<1>4. ASSUME NEW n \in Nat, n \in S
      PROVE  n + 1 \in S
  <2>. SUFFICES ASSUME n + 1 <= Len(actions)
                PROVE  /\ f[n + 1] \in [Threads -> States]
                       /\ \A t \in Threads : MeansTo(f[n + 1][t], t, actions, n + 1)
    OBVIOUS
  <2>1. f[n + 1] = SetByAction(f[n], actions[n + 1])
    BY <1>1, <1>2 DEF IsPass
  <2>2. /\ f[n] \in [Threads -> States] /\ n < Len(actions)
        /\ \A t \in Threads : MeansTo(f[n][t], t, actions, n)
    BY <1>1, <1>4
  <2>3. f[n + 1] \in [Threads -> States]
    BY <2>1, <2>2 DEF SetByAction, WithState, StateFor, States
  <2>. QED
    BY <2>1, <2>2, <2>3, ActionMeans
<1>. HIDE DEF S
<1>5. Nat \subseteq S
  BY <1>3, <1>4, Induction
<1>. QED
  BY <1>1, <1>2, <1>5 DEF S

\* That is what gdb means.
LEMMA PassIsWanted ==
    ASSUME NEW actions \in Seq(Actions), IsUnambiguous(actions),
           state = All("frozen")
    PROVE  StatesAfter(actions) = WantedBy(actions)
<1>1. Len(actions) \in Nat /\ DOMAIN actions = 1 .. Len(actions)
  BY LenProperties
<1>2. ASSUME NEW t \in Threads
      PROVE  StatesAfter(actions)[t] = WantedBy(actions)[t]
  <2>. DEFINE st == StatesAfter(actions)[t]
              named == {a \in ToSet(actions) : a.thread = t}
              others == {a \in ToSet(actions) : a.thread \in {AllThreads, NoThread}}
  <2>1. WantedBy(actions)[t] =
            IF named # {} THEN StateFor((CHOOSE a \in named : TRUE).type)
            ELSE IF others # {} THEN StateFor((CHOOSE a \in others : TRUE).type)
            ELSE "frozen"
    BY DEF WantedBy, All
  <2>2. MeansTo(st, t, actions, Len(actions))
    BY PassMeans
  <2>3. \A a \in ToSet(actions) : \E j \in 1 .. Len(actions) : a = actions[j]
    BY <1>1 DEF ToSet
  <2>4. \A j \in 1 .. Len(actions) : actions[j] \in ToSet(actions)
    BY <1>1 DEF ToSet
  <2>. HIDE DEF st
  <2>5. CASE named # {}
    <3>1. (CHOOSE a \in named : TRUE) \in named
      BY <2>5
    <3>. QED
      BY <2>1, <2>2, <2>3, <2>5, <3>1 DEF st, MeansTo
  <2>6. CASE named = {} /\ others # {}
    <3>1. (CHOOSE a \in others : TRUE) \in others
      BY <2>6
    <3>. QED
      BY <2>1, <2>2, <2>3, <2>4, <2>6, <3>1 DEF st, MeansTo
  <2>7. CASE named = {} /\ others = {}
    BY <2>1, <2>2, <2>4, <2>7 DEF st, MeansTo
  <2>. QED
    BY <2>5, <2>6, <2>7
<1>3. StatesAfter(actions) \in [Threads -> States]
  BY PassMeans
<1>4. WantedBy(actions) = [t \in Threads |-> WantedBy(actions)[t]]
  BY DEF WantedBy
<1>. QED
  BY <1>2, <1>3, <1>4

\* The packets are sequences of actions.
LEMMA PacketsAreUnambiguous ==
    ASSUME NEW actions \in Packets
    PROVE  actions \in Seq(Actions) /\ IsUnambiguous(actions)
<1>1. PICK m \in 0 .. MaxActions : actions \in [1 .. m -> Actions]
  BY DEF Packets, BoundedSeq, SeqOf
<1>2. m \in Nat
  BY ThreadsAssumption
<1>3. actions \in Seq(Actions)
  BY <1>1, <1>2, SeqDef
<1>. QED
  BY <1>3 DEF Packets

-----------------------------------------------------------------------------
(* The parts of the invariant.                                              *)

\* What a vCont packet does, whichever of the two ways it is handled.
LEMMA VContOutcomes ==
    ASSUME NEW actions, VContCommand(actions)
    PROVE  /\ phase = "halted" /\ style = "vCont"
           /\ UNCHANGED <<supported, style, cause>>
           /\ \/ /\ reply' = "E01"
                 /\ UNCHANGED <<phase, state, stepping, ranged, atBreak, context>>
              \/ reply' = "T" /\ UNCHANGED <<phase, state>>
              \/ reply' = "none" /\ phase' = "running" /\ stepping' = asked'
<1>1. CASE Rejected(actions)
  BY <1>1, Zenon DEF Rejected, VContCommand, rtos
<1>2. CASE SetThreadStates(actions)
  <2>1. CASE AdvancedInstead(FALSE) /\ UNCHANGED state
    BY <2>1, Zenon DEF AdvancedInstead, VContCommand
  <2>2. CASE Resumed(HasType(actions, StepTypes), HasType(actions, {"r"}))
    BY <2>2, Zenon DEF Resumed, VContCommand
  <2>. QED
    BY <1>2, <2>1, <2>2, Zenon DEF SetThreadStates
<1>3. CASE StepOrContinueHaltedThread(actions)
  <2>. DEFINE step == StepAction(actions)
  <2>1. CASE AdvancedInstead(step.type = "r") /\ UNCHANGED state
    BY <2>1, Zenon DEF AdvancedInstead, VContCommand
  <2>2. CASE Resumed(step # NoAction, step.type = "r")
    BY <2>2, Zenon DEF Resumed, VContCommand
  <2>. QED
    BY <1>3, <2>1, <2>2, Zenon DEF StepOrContinueHaltedThread
<1>. QED
  BY <1>1, <1>2, <1>3, Zenon DEF VContCommand

\* An action of vCont is no list.
LEMMA VContListing ==
    ASSUME NEW actions, VContCommand(actions)
    PROVE  reply' \notin {"m", "l"}
BY VContOutcomes

\* A step stays armed as gdb asked for it.
LEMMA StepInvariance == Spec => []StepIsKept
<1>1. Init => StepIsKept
  BY DEF Init, StepIsKept
<1>2. ASSUME StepIsKept, [Next]_vars
      PROVE  StepIsKept'
  <2>1. ASSUME NEW t, NEW why, Exception(t, why)
        PROVE  StepIsKept'
    BY <1>2, <2>1 DEF Exception, StepIsKept
  <2>2. CASE HandlerNext
    <3>1. CASE TempBreakpointCallbackResumes
      BY <1>2, <3>1 DEF TempBreakpointCallbackResumes, StepIsKept
    <3>2. CASE StepAgainInRange
      BY <1>2, <3>2 DEF StepAgainInRange, StepIsKept
    <3>3. CASE ServeSemihostCall
      BY <1>2, <3>3 DEF ServeSemihostCall, StepIsKept
    <3>4. CASE EnterCommandLoop
      BY <1>2, <3>4 DEF EnterCommandLoop, StepIsKept
    <3>. QED
      BY <2>2, <3>1, <3>2, <3>3, <3>4 DEF HandlerNext
  <2>3. CASE CommandNext
    <3>1. ASSUME NEW actions, VContCommand(actions)
          PROVE  StepIsKept'
      BY <1>2, <3>1, VContOutcomes DEF StepIsKept
    <3>2. CASE ContinueCommand
      BY <1>2, <3>2 DEF ContinueCommand, Resumed, StepIsKept
    <3>3. CASE SingleStepCommand
      BY <1>2, <3>3 DEF SingleStepCommand, Resumed, AdvancedInstead, StepIsKept
    <3>4. ASSUME NEW t, ThreadContextCommand(t)
          PROVE  StepIsKept'
      BY <1>2, <3>4 DEF ThreadContextCommand, rtos, StepIsKept
    <3>5. CASE FirstThreadInfoCommand
      BY <1>2, <3>5 DEF FirstThreadInfoCommand, rtos, StepIsKept
    <3>6. CASE SubsequentThreadInfoCommand
      BY <1>2, <3>6 DEF SubsequentThreadInfoCommand, rtos, StepIsKept
    <3>. QED
      BY <2>3, <3>1, <3>2, <3>3, <3>4, <3>5, <3>6 DEF CommandNext
  <2>4. CASE UNCHANGED vars
    BY <1>2, <2>4 DEF vars, rtos, StepIsKept
  <2>. QED
    BY <1>2, <2>1, <2>2, <2>3, <2>4 DEF Next
<1>. QED
  BY <1>1, <1>2, PTL DEF Spec

\* An error is one of the command loop.
LEMMA ErrorInvariance == Spec => []ErrorsAreRejections
<1>1. Init => ErrorsAreRejections
  BY DEF Init, ErrorsAreRejections
<1>2. ASSUME ErrorsAreRejections, [Next]_vars
      PROVE  ErrorsAreRejections'
  <2>1. ASSUME NEW t, NEW why, Exception(t, why)
        PROVE  ErrorsAreRejections'
    BY <1>2, <2>1 DEF Exception, ErrorsAreRejections
  <2>2. CASE HandlerNext
    BY <1>2, <2>2 DEF HandlerNext, TempBreakpointCallbackResumes, StepAgainInRange,
                      ServeSemihostCall, EnterCommandLoop, ErrorsAreRejections
  <2>3. CASE CommandNext
    <3>1. ASSUME NEW actions, VContCommand(actions)
          PROVE  ErrorsAreRejections'
      BY <1>2, <3>1, VContOutcomes DEF ErrorsAreRejections
    <3>2. CASE ContinueCommand \/ SingleStepCommand
      BY <1>2, <3>2 DEF ContinueCommand, SingleStepCommand, Resumed,
                        AdvancedInstead, ErrorsAreRejections
    <3>3. ASSUME NEW t, ThreadContextCommand(t)
          PROVE  ErrorsAreRejections'
      BY <1>2, <3>3 DEF ThreadContextCommand, ErrorsAreRejections
    <3>4. CASE FirstThreadInfoCommand \/ SubsequentThreadInfoCommand
      BY <1>2, <3>4 DEF FirstThreadInfoCommand, SubsequentThreadInfoCommand,
                        Output, ErrorsAreRejections
    <3>. QED
      BY <2>3, <3>1, <3>2, <3>3, <3>4 DEF CommandNext
  <2>4. CASE UNCHANGED vars
    BY <1>2, <2>4 DEF vars, ErrorsAreRejections
  <2>. QED
    BY <1>2, <2>1, <2>2, <2>3, <2>4 DEF Next
<1>. QED
  BY <1>1, <1>2, PTL DEF Spec

\* The threads stay stopped until the program is resumed.
LEMMA StoppedInvariance == Spec => []ThreadsAreStopped
<1>1. Init => ThreadsAreStopped
  BY DEF Init, ThreadsAreStopped
<1>2. ASSUME ThreadsAreStopped, [Next]_vars
      PROVE  ThreadsAreStopped'
  <2>1. ASSUME NEW t, NEW why, Exception(t, why)
        PROVE  ThreadsAreStopped'
    BY <1>2, <2>1 DEF Exception, ThreadsAreStopped, All
  <2>2. CASE HandlerNext
    <3>1. UNCHANGED supported /\ (phase' = "running" \/ phase # "running")
      BY <2>2 DEF HandlerNext, TempBreakpointCallbackResumes, StepAgainInRange,
                  ServeSemihostCall, EnterCommandLoop
    <3>2. phase' = "running" \/ UNCHANGED <<style, state>>
      BY <2>2 DEF HandlerNext, TempBreakpointCallbackResumes, StepAgainInRange,
                  ServeSemihostCall, EnterCommandLoop, rtos
    <3>. QED
      BY <1>2, <3>1, <3>2 DEF ThreadsAreStopped, All
  <2>3. CASE CommandNext
    <3>1. ASSUME NEW actions, VContCommand(actions)
          PROVE  ThreadsAreStopped'
      BY <1>2, <3>1, VContOutcomes DEF ThreadsAreStopped, All
    <3>2. CASE ContinueCommand \/ SingleStepCommand
      BY <1>2, <3>2 DEF ContinueCommand, SingleStepCommand, Resumed,
                        AdvancedInstead, ThreadsAreStopped, All
    <3>3. ASSUME NEW t, ThreadContextCommand(t)
          PROVE  ThreadsAreStopped'
      BY <1>2, <3>3 DEF ThreadContextCommand, rtos, ThreadsAreStopped, All
    <3>4. CASE FirstThreadInfoCommand \/ SubsequentThreadInfoCommand
      BY <1>2, <3>4 DEF FirstThreadInfoCommand, SubsequentThreadInfoCommand,
                        rtos, ThreadsAreStopped, All
    <3>. QED
      BY <2>3, <3>1, <3>2, <3>3, <3>4 DEF CommandNext
  <2>4. CASE UNCHANGED vars
    BY <1>2, <2>4 DEF vars, rtos, ThreadsAreStopped, All
  <2>. QED
    BY <1>2, <2>1, <2>2, <2>3, <2>4 DEF Next
<1>. QED
  BY <1>1, <1>2, PTL DEF Spec

\* What was listed is a beginning of the list.
LEMMA ListInvariance == Spec => []ListIsSent
<1>1. Init => ListIsSent
  BY DEF Init, ListIsSent
<1>2. ASSUME ListIsSent, [Next]_vars
      PROVE  ListIsSent'
  <2>1. ASSUME NEW t, NEW why, Exception(t, why)
        PROVE  ListIsSent'
    BY <1>2, <2>1 DEF Exception, listing, ListIsSent
  <2>2. CASE HandlerNext
    BY <1>2, <2>2 DEF HandlerNext, TempBreakpointCallbackResumes, StepAgainInRange,
                      ServeSemihostCall, EnterCommandLoop, listing, ListIsSent
  <2>3. CASE CommandNext
    <3>1. ASSUME NEW actions, VContCommand(actions)
          PROVE  ListIsSent'
      BY <3>1, VContListing DEF ListIsSent
    <3>2. CASE ContinueCommand \/ SingleStepCommand
      BY <3>2 DEF ContinueCommand, SingleStepCommand, Resumed, AdvancedInstead,
                  ListIsSent
    <3>3. ASSUME NEW t, ThreadContextCommand(t)
          PROVE  ListIsSent'
      BY <3>3 DEF ThreadContextCommand, ListIsSent
    <3>4. CASE FirstThreadInfoCommand
      <4>1. 0 \in 0 .. Len(ThreadOrder)
        BY OrderIsSequence
      <4>. QED
        BY <3>4, <4>1, NothingSentYet, OutputContinues
           DEF FirstThreadInfoCommand, ListIsSent
    <3>5. CASE SubsequentThreadInfoCommand
      <4>1. /\ reply = "m" /\ cursor \in 0 .. Len(ThreadOrder)
            /\ listed = SubSeq(ThreadOrder, 1, cursor)
        BY <1>2, <3>5 DEF SubsequentThreadInfoCommand, ListIsSent
      <4>2. CASE cursor = Len(ThreadOrder) /\ reply' = "l" /\ UNCHANGED listing
        BY <4>1, <4>2 DEF listing, ListIsSent
      <4>3. CASE Output(cursor, listed)
        BY <4>1, <4>3, OutputContinues DEF ListIsSent
      <4>. QED
        BY <3>5, <4>2, <4>3 DEF SubsequentThreadInfoCommand
    <3>. QED
      BY <2>3, <3>1, <3>2, <3>3, <3>4, <3>5 DEF CommandNext
  <2>4. CASE UNCHANGED vars
    BY <1>2, <2>4 DEF vars, listing, ListIsSent
  <2>. QED
    BY <1>2, <2>1, <2>2, <2>3, <2>4 DEF Next
<1>. QED
  BY <1>1, <1>2, PTL DEF Spec

\* A vCont packet that resumes the program leaves the threads as it asks, and
\* one that does not leaves them stopped.
LEMMA VContStates ==
    ASSUME ThreadsAreStopped, StatesAreWanted,
           NEW actions \in Packets, VContCommand(actions)
    PROVE  StatesAreWanted'
<1>1. phase = "halted" /\ style = "vCont" /\ supported' = supported
  BY VContOutcomes
<1>2. CASE Rejected(actions)
  BY <1>1, <1>2 DEF Rejected, rtos, StatesAreWanted
<1>3. CASE supported /\ SetThreadStates(actions)
  <2>1. state = All("frozen")
    BY <1>1, <1>3 DEF ThreadsAreStopped
  <2>2. CASE AdvancedInstead(FALSE) /\ UNCHANGED state
    BY <1>1, <1>3, <2>2 DEF AdvancedInstead, StatesAreWanted
  <2>3. CASE /\ state' = StatesAfter(actions)
             /\ wanted' = WantedBy(actions)
             /\ Resumed(HasType(actions, StepTypes), HasType(actions, {"r"}))
    <3>1. state' = wanted' /\ phase' = "running"
      BY <2>1, <2>3, PassIsWanted, PacketsAreUnambiguous, Zenon DEF Resumed
    <3>. QED
      BY <3>1 DEF StatesAreWanted
  <2>. QED
    BY <1>3, <2>2, <2>3, Zenon DEF SetThreadStates
<1>4. CASE ~supported /\ StepOrContinueHaltedThread(actions)
  <2>. DEFINE step == StepAction(actions)
  <2>1. CASE AdvancedInstead(step.type = "r") /\ UNCHANGED state
    BY <1>1, <1>4, <2>1 DEF AdvancedInstead, StatesAreWanted
  <2>2. CASE Resumed(step # NoAction, step.type = "r") /\ UNCHANGED <<state, wanted>>
    BY <1>1, <1>4, <2>2 DEF Resumed, StatesAreWanted
  <2>. QED
    BY <1>4, <2>1, <2>2, Zenon DEF StepOrContinueHaltedThread
<1>. QED
  BY <1>2, <1>3, <1>4, Zenon DEF VContCommand

\* The states that gdb asked for are those the program runs with.
LEMMA WantedInvariance == Spec => []StatesAreWanted
<1>1. Init => StatesAreWanted
  BY DEF Init, StatesAreWanted
<1>2. ASSUME ThreadsAreStopped, StatesAreWanted, [Next]_vars
      PROVE  StatesAreWanted'
  <2>1. ASSUME NEW t, NEW why, Exception(t, why)
        PROVE  StatesAreWanted'
    BY <1>2, <2>1 DEF Exception, StatesAreWanted
  <2>2. CASE HandlerNext
    <3>1. CASE EnterCommandLoop
      BY <1>2, <3>1 DEF EnterCommandLoop, rtos, StatesAreWanted
    <3>2. CASE TempBreakpointCallbackResumes \/ StepAgainInRange \/ ServeSemihostCall
      <4>1. /\ phase = "exception" /\ phase' = "running"
            /\ supported' = supported /\ wanted' = wanted
            /\ state' = IF supported THEN previous ELSE state
        BY <3>2 DEF TempBreakpointCallbackResumes, StepAgainInRange,
                    ServeSemihostCall, RestoreThreadStates
      <4>. QED
        BY <1>2, <4>1 DEF StatesAreWanted
    <3>. QED
      BY <2>2, <3>1, <3>2 DEF HandlerNext
  <2>3. CASE CommandNext
    <3>1. ASSUME NEW actions \in Packets, VContCommand(actions)
          PROVE  StatesAreWanted'
      BY <1>2, <3>1, VContStates
    <3>2. CASE ContinueCommand
      BY <1>2, <3>2 DEF ContinueCommand, Resumed, Thawed, StatesAreWanted
    <3>3. CASE SingleStepCommand
      BY <1>2, <3>3 DEF SingleStepCommand, Resumed, AdvancedInstead, Thawed,
                        StatesAreWanted
    <3>4. ASSUME NEW t, ThreadContextCommand(t)
          PROVE  StatesAreWanted'
      BY <1>2, <3>4 DEF ThreadContextCommand, rtos, StatesAreWanted
    <3>5. CASE FirstThreadInfoCommand \/ SubsequentThreadInfoCommand
      BY <1>2, <3>5 DEF FirstThreadInfoCommand, SubsequentThreadInfoCommand,
                        rtos, StatesAreWanted
    <3>. QED
      BY <2>3, <3>1, <3>2, <3>3, <3>4, <3>5 DEF CommandNext
  <2>4. CASE UNCHANGED vars
    BY <1>2, <2>4 DEF vars, rtos, StatesAreWanted
  <2>. QED
    BY <1>2, <2>1, <2>2, <2>3, <2>4 DEF Next
<1>. QED
  BY <1>1, <1>2, StoppedInvariance, PTL DEF Spec

-----------------------------------------------------------------------------
(* The theorems.                                                            *)

\* The program runs with a step armed exactly when gdb asked for one, whatever
\* the monitor handled by itself since.
THEOREM StepsAsAskedHolds == Spec => []StepsAsAsked
<1>1. StepIsKept => StepsAsAsked
  BY DEF StepIsKept, StepsAsAsked
<1>. QED
  BY <1>1, StepInvariance, PTL

\* Each thread runs in the state that gdb last asked for, however many actions
\* its packet had, in whichever order, and whatever the monitor handled since.
THEOREM RunsAsAskedHolds == Spec => []RunsAsAsked
<1>1. StatesAreWanted => RunsAsAsked
  BY DEF StatesAreWanted, RunsAsAsked
<1>. QED
  BY <1>1, WantedInvariance, PTL

\* With vCont no command lets a thread go unless it resumes the program.
THEOREM FrozenForVContHolds == Spec => []FrozenForVCont
<1>1. ThreadsAreStopped => FrozenForVCont
  BY DEF ThreadsAreStopped, FrozenForVCont
<1>. QED
  BY <1>1, StoppedInvariance, PTL

\* The packets of a thread list add up to all threads, in order, whatever
\* fits into one.
THEOREM ListsEveryThreadHolds == Spec => []ListsEveryThread
<1>1. ListIsSent => ListsEveryThread
  BY OrderIsSequence, SubSeqFull DEF ListIsSent, ListsEveryThread
<1>. QED
  BY <1>1, ListInvariance, PTL

\* What is answered with an error had no effect, on whichever way it is
\* handled and whatever came before the action that does not parse.
THEOREM RejectedChangesNothingHolds == Spec => RejectedChangesNothing
<1>1. ErrorsAreRejections /\ [Next]_vars
        => [reply' = "E01" =>
               UNCHANGED <<phase, state, stepping, ranged, atBreak, context>>]_vars
  <2>. SUFFICES ASSUME ErrorsAreRejections, Next, reply' = "E01"
                PROVE  UNCHANGED <<phase, state, stepping, ranged, atBreak, context>>
    OBVIOUS
  <2>1. ASSUME NEW t, NEW why, Exception(t, why)
        PROVE  FALSE
    BY <2>1 DEF Exception, ErrorsAreRejections
  <2>2. CASE HandlerNext
    BY <2>2 DEF HandlerNext, TempBreakpointCallbackResumes, StepAgainInRange,
                ServeSemihostCall, EnterCommandLoop, ErrorsAreRejections
  <2>3. CASE CommandNext
    <3>1. ASSUME NEW actions, VContCommand(actions)
          PROVE  UNCHANGED <<phase, state, stepping, ranged, atBreak, context>>
      BY <3>1, VContOutcomes
    <3>2. CASE ContinueCommand \/ SingleStepCommand
      BY <3>2 DEF ContinueCommand, SingleStepCommand, Resumed, AdvancedInstead
    <3>3. ASSUME NEW t, ThreadContextCommand(t)
          PROVE  UNCHANGED <<phase, state, stepping, ranged, atBreak, context>>
      BY <3>3 DEF ThreadContextCommand, rtos
    <3>4. CASE FirstThreadInfoCommand \/ SubsequentThreadInfoCommand
      BY <3>4 DEF FirstThreadInfoCommand, SubsequentThreadInfoCommand, Output
    <3>. QED
      BY <2>3, <3>1, <3>2, <3>3, <3>4 DEF CommandNext
  <2>. QED
    BY <2>1, <2>2, <2>3 DEF Next
<1>. QED
  BY <1>1, ErrorInvariance, PTL DEF Spec, RejectedChangesNothing
=============================================================================
