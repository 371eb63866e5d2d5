-------------------------------- MODULE Threads --------------------------------
(***************************************************************************)
(* Threads of an RTOS: cmd_vcont.c, cmd_thread.c, the thread queries of    *)
(* cmd_query.c, and what cmd_continue.c, cmd_step.c and mriDebugException  *)
(* do to the threads.  The port of the RTOS (core/platforms.h) is external: *)
(* it stops the threads when one of them raises an exception, puts them    *)
(* back on request, and may not be able to set the state of a thread at    *)
(* all, as the stubs of rtos/rtos_weak.c.                                  *)
(*                                                                         *)
(* Addresses are left out: of the halted thread's PC it matters whether a  *)
(* hard coded BKPT is there, which a command steps or continues over.  The *)
(* instructions that Platform_EnableSingleStep simulates are left to       *)
(* DebugMonitor: a monitor that runs as a thread has none.                 *)
(***************************************************************************)
EXTENDS Naturals, Sequences, SequencesExt, FiniteSets

CONSTANTS
    ThreadOrder,   \* the thread ids in the order in which the RTOS lists them
    Room,          \* how many ids a packet holds behind the first one
    AllThreads,    \* -1, MRI_PLATFORM_ALL_THREADS
    NoThread,      \* no thread-id: MRI_PLATFORM_ALL_FROZEN_THREADS
    MaxActions     \* bound: how many actions a vCont packet holds

Threads == ToSet(ThreadOrder)

ASSUME ThreadsAssumption ==
    /\ ThreadOrder \in Seq(Threads)
    /\ ThreadOrder # <<>>
    /\ IsInjective(ThreadOrder)
    /\ Room \in Nat /\ MaxActions \in Nat
    /\ {AllThreads, NoThread} \cap Threads = {}
    /\ AllThreads # NoThread

VARIABLES
    supported,   \* Platform_RtosIsSetThreadStateSupported
    style,       \* gdb resumes with vCont, or with plain commands as c and s
    phase,       \* "running", "exception" once the RTOS has stopped the
                 \* threads, "halted" in the command loop
    state,       \* the states of the threads
    previous,    \* those before the RTOS stopped them
    halted,      \* Platform_RtosGetHaltedThreadId
    cause,       \* why it raised an exception
    atBreak,     \* its PC points at a hard coded BKPT
    context,     \* the thread whose registers g and G access
    stepping,    \* Platform_IsSingleStepping
    ranged,      \* MRI_FLAGS_RANGED_SINGLE_STEP
    reply,       \* the last response
    cursor,      \* how many ids the RTOS has listed
    wanted,      \* history: the states that gdb asked for
    asked,       \* history: gdb asked for a step
    listed       \* history: the ids sent since qfThreadInfo

rtos == <<state, previous, halted, cause>>
listing == <<cursor, listed>>
vars == <<supported, style, phase, rtos, atBreak, context, stepping, ranged,
          reply, wanted, asked, listing>>

States == {"frozen", "thawed", "stepping"}
All(st) == [t \in Threads |-> st]

Init ==
    /\ supported \in BOOLEAN
    /\ style \in {"vCont", "plain"}
    /\ phase = "running"
    /\ state = All("thawed")
    /\ previous = All("thawed")
    /\ halted = Head(ThreadOrder)
    /\ cause = "none"
    /\ atBreak = FALSE
    /\ context = Head(ThreadOrder)
    /\ stepping = FALSE
    /\ ranged = FALSE
    /\ reply = "none"
    /\ cursor = 0
    /\ wanted = All("thawed")
    /\ asked = FALSE
    /\ listed = <<>>

-----------------------------------------------------------------------------
(* The RTOS.                                                                *)

\* Platform_RtosSetThreadState
WithState(s, target, st) ==
    [t \in Threads |->
        IF \/ target = t
           \/ target = AllThreads
           \/ target = NoThread /\ s[t] = "frozen"
        THEN st ELSE s[t]]

\* A thread that may run raises an exception, and all threads are stopped.
Exception(t, why) ==
    /\ phase = "running"
    /\ supported => state[t] # "frozen"
    /\ why = "step" => stepping /\ (supported => state[t] = "stepping")
    /\ phase' = "exception"
    /\ previous' = state
    /\ state' = IF supported THEN All("frozen") ELSE state
    /\ halted' = t
    /\ cause' = why
    /\ UNCHANGED <<supported, style, atBreak, context, stepping, ranged, reply,
                   wanted, asked, listing>>

-----------------------------------------------------------------------------
(* mriDebugException.                                                       *)

\* Mutant: the threads are left as the exception stopped them.
RestoreThreadStatesForgotten == UNCHANGED state

RestoreThreadStates == state' = IF supported THEN previous ELSE state

TempBreakpointCallbackResumes ==
    /\ phase = "exception"
    /\ cause = "temp"
    /\ RestoreThreadStates
    /\ phase' = "running"
    /\ UNCHANGED <<supported, style, previous, halted, cause, atBreak, context,
                   stepping, ranged, reply, wanted, asked, listing>>

\* Mutant: the step is not armed again.
StepAgainInRangeDisabled ==
    /\ phase = "exception"
    /\ ranged
    /\ cause = "step"
    /\ stepping' = FALSE
    /\ RestoreThreadStates
    /\ phase' = "running"
    /\ UNCHANGED <<supported, style, previous, halted, cause, atBreak, context,
                   ranged, reply, wanted, asked, listing>>

\* The PC is within the range.
StepAgainInRange ==
    /\ phase = "exception"
    /\ ranged
    /\ cause = "step"
    /\ stepping' = TRUE
    /\ RestoreThreadStates
    /\ phase' = "running"
    /\ UNCHANGED <<supported, style, previous, halted, cause, atBreak, context,
                   ranged, reply, wanted, asked, listing>>

\* Platform_EnteringDebugger has disabled the step; a call that was reached
\* while one was armed, by this thread or another, does not resume.
ServeSemihostCall ==
    /\ phase = "exception"
    /\ cause = "call"
    /\ ~stepping
    /\ ranged' = FALSE
    /\ RestoreThreadStates
    /\ phase' = "running"
    /\ UNCHANGED <<supported, style, previous, halted, cause, atBreak, context,
                   stepping, reply, wanted, asked, listing>>

EnterCommandLoop ==
    /\ phase = "exception"
    /\ cause = "call" => stepping
    /\ phase' = "halted"
    /\ stepping' = FALSE
    /\ ranged' = FALSE
    /\ context' = halted
    /\ atBreak' \in IF cause = "break" THEN BOOLEAN ELSE {FALSE}
    /\ reply' = "T"
    /\ UNCHANGED <<supported, style, rtos, wanted, asked, listing>>

-----------------------------------------------------------------------------
(* vCont.  Its argument is a sequence of actions; "bad" is one that does     *)
(* not parse.                                                               *)

Targets == Threads \cup {AllThreads, NoThread}
StepTypes == {"s", "r"}
Actions == [type : {"c"} \cup StepTypes \cup {"bad"}, thread : Targets]

NoAction == [type |-> "none", thread |-> NoThread]

\* getActionPriority.  Where the states of threads can be set, an action for
\* another thread is nothing to the halted one.
Priority(action) ==
    CASE action.type = "none"                -> 0
      [] action.thread = NoThread            -> 1
      [] action.thread = AllThreads          -> 3
      [] action.thread = halted              -> 4
      [] supported                           -> 0
      [] OTHER                               -> 2

\* firstParsePass keeps the first of the actions with the highest priority.
MostSpecific(actions, types) ==
    FoldLeft(LAMBDA kept, action :
                IF action.type \in types /\ Priority(action) > Priority(kept)
                THEN action ELSE kept,
             NoAction, actions)

ContinueAction(actions) == MostSpecific(actions, {"c"})
StepAction(actions) == MostSpecific(actions, StepTypes)

IsRejected(actions) ==
    actions = <<>> \/ \E i \in DOMAIN actions : actions[i].type = "bad"

StateFor(type) == IF type \in StepTypes THEN "stepping" ELSE "thawed"

\* Mutant: the default action is for all threads, not for those still frozen.
SetToAllThreads(s, action) ==
    IF action.thread = NoThread
    THEN All(StateFor(action.type))
    ELSE WithState(s, action.thread, StateFor(action.type))

\* handleActionWithSetThreadState
SetByAction(s, action) == WithState(s, action.thread, StateFor(action.type))

\* secondParsePass, one action after the other
StatesAfter(actions) ==
    LET after[i \in 0 .. Len(actions)] ==
            IF i = 0 THEN state ELSE SetByAction(after[i - 1], actions[i])
    IN  after[Len(actions)]

HasType(actions, types) == \E i \in DOMAIN actions : actions[i].type \in types

\* What gdb means by the actions: one that names the thread, or the one for
\* the others, wherever it stands.
WantedBy(actions) ==
    [t \in Threads |->
        LET named == {a \in ToSet(actions) : a.thread = t}
            others == {a \in ToSet(actions) : a.thread \in {AllThreads, NoThread}}
        IN  IF named # {} THEN StateFor((CHOOSE a \in named : TRUE).type)
            ELSE IF others # {} THEN StateFor((CHOOSE a \in others : TRUE).type)
            ELSE state[t]]

Rejected(actions) ==
    /\ reply' = "E01"
    /\ UNCHANGED <<supported, style, phase, rtos, atBreak, context, stepping,
                   ranged, wanted, asked, listing>>

\* The halted thread was advanced over its BKPT: this is the step.
AdvancedInstead(range) ==
    /\ reply' = "T"
    /\ atBreak' \in BOOLEAN
    /\ ranged' = (ranged \/ range)
    /\ UNCHANGED <<supported, style, phase, previous, halted, cause, context,
                   stepping, wanted, asked, listing>>

Resumed(step, range) ==
    /\ phase' = "running"
    /\ stepping' = step
    /\ ranged' = (ranged \/ range)
    /\ reply' = "none"
    /\ atBreak' = FALSE
    /\ asked' = step
    /\ UNCHANGED <<supported, style, previous, halted, cause, context, listing>>

\* Mutant: the states are set before the BKPT is looked for.
ApplyThenAdvance(actions) ==
    LET step == StepAction(actions)
    IN  /\ state' = StatesAfter(actions)
        /\ wanted' = WantedBy(actions)
        /\ IF step # NoAction /\ atBreak
           THEN /\ reply' = "T"
                /\ atBreak' \in BOOLEAN
                /\ UNCHANGED <<supported, style, phase, previous, halted, cause,
                               context, stepping, ranged, asked, listing>>
           ELSE Resumed(HasType(actions, StepTypes), HasType(actions, {"r"}))

\* handleSingleStepAndContinueCommandsWithSetThreadState
SetThreadStates(actions) ==
    IF StepAction(actions) # NoAction /\ atBreak
    THEN AdvancedInstead(FALSE) /\ UNCHANGED state
    ELSE /\ state' = StatesAfter(actions)
         /\ wanted' = WantedBy(actions)
         /\ Resumed(HasType(actions, StepTypes), HasType(actions, {"r"}))

\* handleSingleStepAndContinueCommands: a step for whichever thread is a step
\* of the halted one.  The range is recorded also when only the BKPT was
\* advanced over.
StepOrContinueHaltedThread(actions) ==
    LET step == StepAction(actions)
    IN  /\ UNCHANGED state
        /\ IF step # NoAction /\ atBreak
           THEN AdvancedInstead(step.type = "r")
           ELSE /\ Resumed(step # NoAction, step.type = "r")
                /\ UNCHANGED wanted

\* Mutant: an action takes effect before the next one has been parsed.
VContCommandInOnePass(actions) ==
    /\ phase = "halted"
    /\ style = "vCont"
    /\ IF IsRejected(actions)
       THEN /\ reply' = "E01"
            /\ state' = IF supported
                        THEN FoldLeft(LAMBDA s, action :
                                        IF action.type = "bad" THEN s
                                        ELSE SetByAction(s, action),
                                      state, actions)
                        ELSE state
            /\ UNCHANGED <<supported, style, phase, previous, halted, cause,
                           atBreak, context, stepping, ranged, wanted, asked,
                           listing>>
       ELSE IF supported
       THEN SetThreadStates(actions)
       ELSE StepOrContinueHaltedThread(actions)

\* handleVContCommand parses all actions before it executes one.
VContCommand(actions) ==
    /\ phase = "halted"
    /\ style = "vCont"
    /\ IF IsRejected(actions)
       THEN Rejected(actions)
       ELSE IF supported
       THEN SetThreadStates(actions)
       ELSE StepOrContinueHaltedThread(actions)

-----------------------------------------------------------------------------
(* The other commands.                                                      *)

Thawed == IF supported THEN All("thawed") ELSE state

\* c, C and D, the last of them whichever commands gdb resumes with.
ContinueCommand ==
    /\ phase = "halted"
    /\ state' = Thawed
    /\ wanted' = Thawed
    /\ Resumed(FALSE, FALSE)

\* s and S: a step starts as a continue does, and thaws all threads.
SingleStepCommand ==
    /\ phase = "halted"
    /\ style = "plain"
    /\ IF atBreak
       THEN AdvancedInstead(FALSE) /\ state' = Thawed
       ELSE /\ state' = IF supported
                        THEN WithState(Thawed, halted, "stepping") ELSE state
            /\ wanted' = state'
            /\ Resumed(TRUE, FALSE)

\* Hg: the port has no context for a thread that it does not know.
ThreadContextCommand(t) ==
    /\ phase = "halted"
    /\ IF t \in Threads
       THEN reply' = "OK" /\ context' = t
       ELSE reply' = "E01" /\ UNCHANGED context
    /\ UNCHANGED <<supported, style, phase, rtos, atBreak, stepping, ranged,
                   wanted, asked, listing>>

\* Mutant: an id is fetched before it is known to fit, and is lost.
OutputLosingOne(from, sent) ==
    LET to == IF from + 1 + Room < Len(ThreadOrder)
              THEN from + 1 + Room ELSE Len(ThreadOrder)
    IN  /\ cursor' = IF to < Len(ThreadOrder) THEN to + 1 ELSE to
        /\ listed' = sent \o SubSeq(ThreadOrder, from + 1, to)
        /\ reply' = "m"

\* outputThreadIds, for an id that is not 0: the RTOS is asked for the next
\* one only when there is room for it.
Output(from, sent) ==
    LET to == IF from + 1 + Room < Len(ThreadOrder)
              THEN from + 1 + Room ELSE Len(ThreadOrder)
    IN  /\ cursor' = to
        /\ listed' = sent \o SubSeq(ThreadOrder, from + 1, to)
        /\ reply' = "m"

FirstThreadInfoCommand ==
    /\ phase = "halted"
    /\ Output(0, <<>>)
    /\ UNCHANGED <<supported, style, phase, rtos, atBreak, context, stepping,
                   ranged, wanted, asked>>

\* gdb asks for more until it has got l.
SubsequentThreadInfoCommand ==
    /\ phase = "halted"
    /\ reply = "m"
    /\ IF cursor = Len(ThreadOrder)
       THEN reply' = "l" /\ UNCHANGED listing
       ELSE Output(cursor, listed)
    /\ UNCHANGED <<supported, style, phase, rtos, atBreak, context, stepping,
                   ranged, wanted, asked>>

-----------------------------------------------------------------------------

\* What gdb sends: an action for every thread that it names, and at most one
\* for the others; to all threads only when it names none.
IsUnambiguous(actions) ==
    \A i, j \in DOMAIN actions :
        i # j => /\ actions[i].thread # actions[j].thread
                 /\ actions[i].thread # AllThreads

Packets == {actions \in BoundedSeq(Actions, MaxActions) : IsUnambiguous(actions)}

HandlerNext ==
    \/ TempBreakpointCallbackResumes
    \/ StepAgainInRange
    \/ ServeSemihostCall
    \/ EnterCommandLoop

CommandNext ==
    \/ \E actions \in Packets : VContCommand(actions)
    \/ ContinueCommand
    \/ SingleStepCommand
    \/ \E t \in Targets : ThreadContextCommand(t)
    \/ FirstThreadInfoCommand
    \/ SubsequentThreadInfoCommand

Next ==
    \/ \E t \in Threads, why \in {"step", "break", "call", "temp"} :
          Exception(t, why)
    \/ HandlerNext
    \/ CommandNext

Spec == Init /\ [][Next]_vars

-----------------------------------------------------------------------------
(* Properties.                                                              *)

\* Every variable holds a value of its type.
TypeOK ==
    /\ supported \in BOOLEAN
    /\ style \in {"vCont", "plain"}
    /\ phase \in {"running", "exception", "halted"}
    /\ state \in [Threads -> States]
    /\ previous \in [Threads -> States]
    /\ halted \in Threads
    /\ cause \in {"none", "step", "break", "call", "temp"}
    /\ atBreak \in BOOLEAN
    /\ context \in Threads
    /\ stepping \in BOOLEAN
    /\ ranged \in BOOLEAN
    /\ reply \in {"none", "T", "OK", "E01", "m", "l"}
    /\ cursor \in 0 .. Len(ThreadOrder)
    /\ wanted \in [Threads -> States]
    /\ asked \in BOOLEAN

\* While the program runs each thread is in the state that gdb last asked
\* for: a default action is for the threads without one of their own wherever
\* it stands in the packet, a thread that is not mentioned stays frozen, and
\* an exception that the monitor handles by itself changes nothing.
RunsAsAsked == phase = "running" => state = wanted

\* While the program runs a step is armed exactly when gdb asked for one,
\* whichever thread it was for and whatever the monitor handled since.
StepsAsAsked == phase = "running" => stepping = asked

\* A vCont packet with an action that does not parse has no effect at all, not
\* even that of the actions before it.
RejectedChangesNothing ==
    [][reply' = "E01" =>
        UNCHANGED <<phase, state, stepping, ranged, atBreak, context>>]_vars

\* gdb is told of every thread once, whatever fits into a packet.
ListsEveryThread == reply = "l" => listed = ThreadOrder

\* No thread is let go while gdb that uses vCont has the program halted.
FrozenForVCont ==
    phase = "halted" /\ supported /\ style = "vCont" => state = All("frozen")

\* No thread is let go while the program is halted, whatever gdb uses.
FrozenWhileHalted ==
    phase = "halted" /\ supported => state = All("frozen")
=============================================================================
