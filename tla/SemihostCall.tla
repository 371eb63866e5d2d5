----------------------------- MODULE SemihostCall -----------------------------
(***************************************************************************)
(* What a program may expect of its semihosting calls: the host acts once  *)
(* on each, and the call returns once, with the outcome of what the host   *)
(* did for it and in the form that its interface has for it.  A call that  *)
(* Ctrl-C cancelled is made again.  There are two exceptions: an answer    *)
(* that comes with Ctrl-C may be the host's own, and when the debugger     *)
(* goes away before it answers, the call returns anything.                 *)
(***************************************************************************)
EXTENDS HostCalls

VARIABLES
    call,         \* the call that the program waits for
    host,         \* what the host has done for it
    gone,         \* the debugger that was asked has gone
    interrupted,  \* Ctrl-C was pressed
    r0,           \* what the program's last call returned
    errno         \* its error

vars == <<call, host, gone, interrupted, r0, errno>>

Init ==
    /\ call = NoCall
    /\ host = NotDone
    /\ gone = FALSE
    /\ interrupted = FALSE
    /\ r0 = 0
    /\ errno = 0

Make(c) ==
    /\ call = NoCall
    /\ call' = c
    /\ UNCHANGED <<host, gone, interrupted, r0, errno>>

ActOn(o) ==
    /\ IsHostCall(call)
    /\ host = NotDone
    /\ ~gone
    /\ host' = o
    /\ UNCHANGED <<call, gone, interrupted, r0, errno>>

\* Ctrl-C comes and goes as it likes.
Returned ==
    /\ call # NoCall
    /\ call' = NoCall
    /\ host' = NotDone
    /\ gone' = FALSE
    /\ interrupted' \in BOOLEAN

MayAnswer(o) ==
    \/ r0' = Answer(call, o)
    \/ interrupted /\ r0' = o.code

Return ==
    /\ host # NotDone
    /\ Returned
    /\ MayAnswer(host)
    /\ errno' = host.errno

\* What the monitor does by itself: text for gdb's console, and local calls.
ReturnText ==
    /\ IsConsoleWrite(call)
    /\ Returned
    /\ \E n \in 0 .. call.size : MayAnswer(Success(n, 0))
    /\ errno' = 0

ReturnLocally ==
    /\ call.op \in LocalOps
    /\ Returned
    /\ r0' = LocalAnswer(call, errno)
    /\ errno' = LocalErrno(call, errno)

\* Nothing was done, or nothing came of it.
Cancel ==
    /\ call # NoCall
    /\ interrupted
    /\ host = NotDone \/ host.code < 0
    /\ host' = NotDone
    /\ errno' = EINTR
    /\ interrupted' \in BOOLEAN
    /\ UNCHANGED <<call, gone, r0>>

Interrupt ==
    /\ interrupted' \in BOOLEAN
    /\ UNCHANGED <<call, host, gone, r0, errno>>

\* The user moves the program somewhere else.
Abandon ==
    /\ host = NotDone
    /\ call' = NoCall
    /\ UNCHANGED <<host, gone, interrupted, r0, errno>>

DebuggerGoes ==
    /\ call # NoCall
    /\ gone' = TRUE
    /\ UNCHANGED <<call, host, interrupted, r0, errno>>

ReturnUnanswered ==
    /\ gone
    /\ Returned
    /\ r0' \in Int
    /\ UNCHANGED errno

\* The debugger that comes next is asked again.
AskAgain ==
    /\ gone
    /\ host' = NotDone
    /\ gone' = FALSE
    /\ interrupted' \in BOOLEAN
    /\ UNCHANGED <<call, r0, errno>>

Next ==
    \/ \E c \in Calls : Make(c)
    \/ \E o \in Outcomes(call) : ActOn(o)
    \/ Return
    \/ ReturnText
    \/ ReturnLocally
    \/ Cancel
    \/ Interrupt
    \/ Abandon
    \/ DebuggerGoes
    \/ ReturnUnanswered
    \/ AskAgain

Spec == Init /\ [][Next]_vars
=============================================================================
