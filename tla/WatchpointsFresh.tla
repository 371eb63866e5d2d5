---------------------------- MODULE WatchpointsFresh ----------------------------
(***************************************************************************)
(* Watchpoints with one more history variable: what the program has        *)
(* accessed since it was last resumed.  It shows which accesses a T        *)
(* response may name that are not among them.                              *)
(***************************************************************************)
EXTENDS MCWatchpoints

VARIABLE fresh   \* watchpoints that the program has accessed since it resumed

InitFresh == Init /\ fresh = {}

ExecuteFresh ==
    \E a \in Bytes, kind \in Kinds, taken \in BOOLEAN, next \in Places :
        /\ Execute(a, kind, taken, next)
        /\ fresh' = fresh \cup Watching(a, kind)

StartFresh == (CommandNext /\ phase' = "running") /\ fresh' = {}

OtherFresh ==
    /\ \/ ReachBreakpoint
       \/ ControlC
       \/ HandlerNext
       \/ CommandNext /\ phase' = "halted"
    /\ UNCHANGED fresh

NextFresh == ExecuteFresh \/ StartFresh \/ OtherFresh

SpecFresh == InitFresh /\ [][NextFresh]_<<vars, fresh>>

\* A T response names a watchpoint that the program has hit since it was
\* resumed.
NamesHitOfThisRun ==
    phase = "halted" /\ reply = NoReply /\ reason.type \in Types =>
        \E w \in fresh : w.type = reason.type /\ w.address = reason.address
=============================================================================
