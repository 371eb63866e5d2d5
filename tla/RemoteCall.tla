----------------------------- MODULE RemoteCall -----------------------------
(***************************************************************************)
(* What gdb may expect of the packets it exchanges with the monitor.       *)
(* While the line loses nothing each of its commands is executed once,     *)
(* and afterwards at least once; and the reply that it takes for a         *)
(* command's is the one to that command.                                   *)
(***************************************************************************)
EXTENDS Naturals

VARIABLES
    call,       \* number of the command that gdb has sent last
    waiting,    \* gdb waits for its reply
    executed,   \* how often the monitor has executed it
    answered,   \* number of the command that gdb's last reply was to
    lossy       \* the line has lost something

vars == <<call, waiting, executed, answered, lossy>>

Init == call = 0 /\ ~waiting /\ executed = 0 /\ answered = 0 /\ ~lossy

Send ==
    /\ ~waiting
    /\ waiting' = TRUE
    /\ call' = call + 1
    /\ executed' = 0
    /\ UNCHANGED <<answered, lossy>>

Execute ==
    /\ waiting
    /\ executed = 0 \/ lossy
    /\ executed' = executed + 1
    /\ UNCHANGED <<call, waiting, answered, lossy>>

Answer ==
    /\ waiting
    /\ executed > 0
    /\ waiting' = FALSE
    /\ answered' = call
    /\ UNCHANGED <<call, executed, lossy>>

Lose ==
    /\ lossy' = TRUE
    /\ UNCHANGED <<call, waiting, executed, answered>>

Next == Send \/ Execute \/ Answer \/ Lose

Spec == Init /\ [][Next]_vars
=============================================================================
