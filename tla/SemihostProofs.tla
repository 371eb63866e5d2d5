----------------------------- MODULE SemihostProofs -----------------------------
(***************************************************************************)
(* Proofs about Semihost: for any calls and files, any length of an O      *)
(* packet, and any number of interruptions and of deaths of gdb.           *)
(***************************************************************************)
EXTENDS Semihost, TLAPS

-----------------------------------------------------------------------------
(* Calls and what the host may do of them.                                  *)

\* The calls of the program have an operation and an interface.
LEMMA CallsAreCalls ==
    ASSUME NEW c \in Calls
    PROVE  /\ IsCall(c)
           /\ c.size \in Nat
           /\ c.abi \in {"arm", "newlib"}
           /\ c # NoCall
<1>1. IsCall(c)
  BY HostCallsAssumption
<1>2. c.abi \in {"arm", "newlib"} /\ NoCall.abi = "none"
  BY <1>1 DEF IsCall, NoCall
<1>. QED
  BY <1>1, <1>2 DEF IsCall

\* Between the calls there is none.
LEMMA NoCallIsNone == NoCall.op = "none" /\ NoCall.file = NoFile
BY DEF NoCall

\* An outcome has all its fields, and an error never comes with a result.
LEMMA OutcomesAreDone ==
    ASSUME NEW c \in Calls, NEW o \in Outcomes(c)
    PROVE  /\ o \in [done : BOOLEAN, code : Int, errno : Nat, length : Nat]
           /\ o.done
           /\ o.errno # 0 => o.code < 0
           /\ o.length \in 0 .. MaxLength
<1>. DEFINE Form(x) ==
              /\ x \in [done : BOOLEAN, code : Int, errno : Nat, length : Nat]
              /\ x.done
              /\ x.errno # 0 => x.code < 0
              /\ x.length \in 0 .. MaxLength
<1>1. c.size \in Nat /\ MaxLength \in Nat /\ Errors \subseteq Nat \ {0}
  BY CallsAreCalls, HostCallsAssumption
<1>2. ASSUME NEW e \in Errors
      PROVE  Form(Failure(e))
  BY <1>1 DEF Failure
<1>3. ASSUME NEW n \in Nat, NEW l \in 0 .. MaxLength
      PROVE  Form(Success(n, l))
  BY <1>1 DEF Success
<1>4. CASE o \in {Failure(e) : e \in Errors}
  BY <1>2, <1>4
<1>5. CASE o \in {Success(n, 0) : n \in 0 .. c.size}
  <2>1. PICK n \in 0 .. c.size : o = Success(n, 0)
    BY <1>5
  <2>. QED
    BY <1>1, <1>3, <2>1
<1>6. CASE o \in {Success(0, n) : n \in 0 .. MaxLength}
  BY <1>3, <1>6
<1>7. CASE o = Success(0, 0)
  BY <1>1, <1>3, <1>7
<1>8. \/ o \in {Failure(e) : e \in Errors}
      \/ o \in {Success(n, 0) : n \in 0 .. c.size}
      \/ o \in {Success(0, n) : n \in 0 .. MaxLength}
      \/ o = Success(0, 0)
  BY DEF Outcomes
<1>. QED
  BY <1>4, <1>5, <1>6, <1>7, <1>8

\* The two forms of an answer are the same, when the monitor has the length
\* that the host gave.
LEMMA ConvertedIsAnswer ==
    ASSUME NEW c, NEW o,
           c.op = "length" /\ o.code = 0 => stats = o.length
    PROVE  Converted(c, o.code) = Answer(c, o)
BY DEF Converted, Answer

\* The answer that the program gets is a number.
LEMMA ConvertedIsNumber ==
    ASSUME NEW c \in Calls, NEW n \in Int, stats \in Int
    PROVE  Converted(c, n) \in Int
BY CallsAreCalls DEF Converted

-----------------------------------------------------------------------------
(* The inductive invariant: what holds of a request while gdb serves it.    *)
(* The host has acted on the call that the request is for, the length that  *)
(* the monitor was given is that of its file, and what the last call left   *)
(* is kept until gdb answers.                                               *)

RequestIsServed ==
    /\ IsHostCall(call)
    /\ signal = "SIGTRAP"
    /\ host # NotDone =>
          /\ host \in Outcomes(call)
          /\ call.op = "length" /\ host.code = 0 => stats = host.length

NothingIsServed == host = NotDone /\ ~pressed /\ ~gone

Inv ==
    /\ TypeOK
    /\ phase = "request" => RequestIsServed
    /\ phase # "request" => NothingIsServed
    /\ RunsUnpaused

\* The invariant holds at first.
LEMMA InitInv == Init => Inv
<1>. SUFFICES ASSUME Init
              PROVE  Inv
  OBVIOUS
<1>1. MaxLength \in Nat /\ MaxPresses \in Nat /\ MaxDeaths \in Nat
  BY HostCallsAssumption, SemihostAssumption
<1>2. core \in [code : Int, errno : Nat, ctrlC : BOOLEAN]
  BY DEF Init
<1>3. host \in [done : BOOLEAN, code : Int, errno : Nat, length : Nat]
  BY DEF Init, NotDone
<1>4. sent = IF phase = "request" THEN HostRequest(call) ELSE NoRequest
  BY DEF Init
<1>5. stats \in 0 .. MaxLength /\ presses \in 0 .. MaxPresses
          /\ deaths \in 0 .. MaxDeaths
  BY <1>1 DEF Init
<1>6. /\ phase \in {"running", "request", "halted"}
      /\ call \in Calls \cup {NoCall} /\ r0 \in Int
      /\ signal \in {"none", "SIGTRAP", "SIGINT"}
  BY DEF Init
<1>7. TypeOK
  BY <1>2, <1>3, <1>4, <1>5, <1>6, Zenon DEF Init, TypeOK
<1>. QED
  BY <1>7 DEF Init, Inv, NothingIsServed, RunsUnpaused

\* The call that gdb is asked for is one of the program's.
LEMMA ServedCall ==
    ASSUME TypeOK, IsHostCall(call)
    PROVE  call \in Calls
BY NoCallIsNone DEF TypeOK, IsHostCall, HostOps

-----------------------------------------------------------------------------
(* Each action keeps the invariant.                                         *)

\* What a program that has stopped may have done by the monitor.
LEMMA ResumesKeeps ==
    ASSUME NEW stops \in BOOLEAN, NEW hooked \in BOOLEAN, TypeOK,
           ResumesUnless(stops, hooked), hooks' = hooked
    PROVE  /\ phase' \in {"running", "halted"}
           /\ paused' \in BOOLEAN
           /\ RunsUnpaused'
BY DEF ResumesUnless, RunsUnpaused, TypeOK

\* The monitor keeps it when it serves a call.
LEMMA MonitorKeeps ==
    ASSUME Inv, MonitorNext
    PROVE  Inv'
<1>1. /\ phase = "running" /\ TypeOK /\ NothingIsServed /\ sent = NoRequest
      /\ call # NoCall /\ call \in Calls
      /\ stepped' = stepping /\ stepping' = FALSE
      /\ UNCHANGED <<host, pressed, gone, presses, deaths>>
  <2>1. phase = "running" /\ StopsAtCall
    BY DEF MonitorNext, IssueRequest, WriteToConsole, AnswerLocally, RejectCall,
           StopsAtCall
  <2>2. UNCHANGED gdb
    BY DEF MonitorNext, IssueRequest, WriteToConsole, AnswerLocally, RejectCall
  <2>. QED
    BY <2>1, <2>2 DEF Inv, TypeOK, StopsAtCall, gdb
<1>2. ASSUME phase' \in {"running", "halted"}, paused' \in BOOLEAN,
             RunsUnpaused', UNCHANGED <<sent, stats>>,
             call' \in Calls \cup {NoCall}, r0' \in Int, hooks' \in BOOLEAN,
             core' \in [code : Int, errno : Nat, ctrlC : BOOLEAN],
             signal' \in {"SIGTRAP", "SIGINT"}, rx' \in BOOLEAN
      PROVE  Inv'
  <2>1. TypeOK'
    BY <1>1, <1>2 DEF TypeOK
  <2>2. NothingIsServed'
    BY <1>1 DEF NothingIsServed
  <2>. QED
    BY <1>2, <2>1, <2>2 DEF Inv
<1>3. CASE IssueRequest
  <2>1. /\ IsHostCall(call) /\ sent' = HostRequest(call) /\ phase' = "request"
        /\ paused' \in BOOLEAN /\ signal' = "SIGTRAP" /\ rx' = FALSE
        /\ UNCHANGED <<call, r0, hooks, core, stats>>
    BY <1>1, <1>3 DEF IssueRequest, TypeOK, program
  <2>2. sent' = HostRequest(call')
    BY <2>1
  <2>3. TypeOK'
    BY <1>1, <2>1, <2>2 DEF TypeOK
  <2>4. RequestIsServed'
    BY <1>1, <2>1 DEF RequestIsServed, NothingIsServed
  <2>. QED
    BY <2>1, <2>3, <2>4 DEF Inv, RunsUnpaused
<1>4. CASE WriteToConsole
  <2>. DEFINE chars == Min({call.size, Room})
  <2>1. chars \in Nat
    BY <1>1, CallsAreCalls, SemihostAssumption DEF Min
  <2>2. stats \in Int /\ rx \in BOOLEAN /\ stepping \in BOOLEAN
    BY <1>1, HostCallsAssumption DEF TypeOK
  <2>. HIDE DEF chars
  <2>3. /\ core' = [core EXCEPT !.code = chars, !.errno = 0]
        /\ call' = NoCall /\ rx' = FALSE
        /\ r0' = IF rx THEN chars ELSE Converted(call, chars)
        /\ signal' = IF rx THEN "SIGINT" ELSE "SIGTRAP"
        /\ ResumesUnless(rx \/ stepping, hooks)
        /\ UNCHANGED <<hooks, sent, stats>>
    BY <1>4 DEF WriteToConsole, chars
  <2>4. core' \in [code : Int, errno : Nat, ctrlC : BOOLEAN]
    <3>1. core \in [code : Int, errno : Nat, ctrlC : BOOLEAN] /\ chars \in Int
      BY <1>1, <2>1 DEF TypeOK
    <3>. QED
      BY <2>3, <3>1
  <2>5. r0' \in Int
    BY <1>1, <2>1, <2>2, <2>3, ConvertedIsNumber
  <2>6. hooks' \in BOOLEAN /\ (rx \/ stepping) \in BOOLEAN
    BY <1>1, <2>2, <2>3 DEF TypeOK
  <2>7. phase' \in {"running", "halted"} /\ paused' \in BOOLEAN /\ RunsUnpaused'
    BY <1>1, <2>3, <2>6, ResumesKeeps
  <2>. QED
    BY <1>2, <2>3, <2>4, <2>5, <2>6, <2>7
<1>5. CASE AnswerLocally
  <2>. DEFINE value == IF call.op = "errno" THEN core.errno ELSE 0
              hooked == IF call.op = "set hooks" THEN call.mode # {} ELSE hooks
  <2>1. core \in [code : Int, errno : Nat, ctrlC : BOOLEAN] /\ hooks \in BOOLEAN
            /\ stepping \in BOOLEAN /\ rx \in BOOLEAN
    BY <1>1 DEF TypeOK
  <2>2. value \in Int /\ hooked \in BOOLEAN
    <3>1. core.errno \in Int
      BY <2>1
    <3>2. value \in Int
      BY <3>1
    <3>3. hooked \in BOOLEAN
      BY <2>1, Zenon
    <3>. QED
      BY <3>2, <3>3
  <2>. HIDE DEF value, hooked
  <2>3. /\ core' = IF call.abi = "newlib"
                   THEN [core EXCEPT !.code = value, !.errno = 0]
                   ELSE core
        /\ r0' = value /\ hooks' = hooked /\ call' = NoCall
        /\ signal' = "SIGTRAP"
        /\ ResumesUnless(stepping, hooked)
        /\ rx' = (rx /\ ~stepping)
        /\ UNCHANGED <<sent, stats>>
    BY <1>5 DEF AnswerLocally, value, hooked
  <2>6. rx' \in BOOLEAN
    BY <2>1, <2>3, Zenon
  <2>4. core' \in [code : Int, errno : Nat, ctrlC : BOOLEAN]
    BY <2>1, <2>2, <2>3
  <2>5. phase' \in {"running", "halted"} /\ paused' \in BOOLEAN /\ RunsUnpaused'
    BY <1>1, <2>1, <2>2, <2>3, ResumesKeeps
  <2>. QED
    BY <1>2, <2>1, <2>2, <2>3, <2>4, <2>5, <2>6
<1>6. CASE RejectCall
  <2>1. /\ phase' = "halted" /\ signal' = "SIGTRAP" /\ paused' \in BOOLEAN
        /\ rx' = FALSE
        /\ UNCHANGED <<call, r0, hooks, core, sent, stats>>
    BY <1>1, <1>6 DEF RejectCall, TypeOK, program
  <2>2. RunsUnpaused'
    BY <2>1 DEF RunsUnpaused
  <2>. QED
    BY <1>1, <1>2, <2>1, <2>2 DEF TypeOK
<1>. QED
  BY <1>3, <1>4, <1>5, <1>6 DEF MonitorNext

\* However a request ends, nothing of it is left.
LEMMA EndKeeps ==
    ASSUME Inv, phase = "request",
           NEW c \in [code : Int, errno : Nat, ctrlC : BOOLEAN], EndRequest(c),
           gone' = FALSE, stepping' \in BOOLEAN,
           UNCHANGED <<hooks, stepped, stats, rx, presses, deaths>>
    PROVE  Inv'
<1>1. TypeOK /\ IsHostCall(call) /\ call \in Calls
  BY ServedCall DEF Inv, RequestIsServed
<1>2. stats \in Int
  BY <1>1, HostCallsAssumption DEF TypeOK
<1>3. Converted(call, c.code) \in Int /\ c.code \in Int
  BY <1>1, <1>2, ConvertedIsNumber
<1>4. /\ phase' \in {"running", "halted"}
      /\ call' \in {NoCall, call}
      /\ r0' \in {r0, c.code, Converted(call, c.code)}
      /\ core' = c
      /\ signal' \in {"SIGINT", signal}
      /\ paused' = (paused /\ ~(phase' = "running" /\ hooks))
      /\ sent' = NoRequest /\ host' = NotDone /\ pressed' = FALSE
  BY DEF EndRequest
<1>5. host' \in [done : BOOLEAN, code : Int, errno : Nat, length : Nat]
  BY <1>4 DEF NotDone
<1>6. r0' \in Int /\ paused' \in BOOLEAN /\ RunsUnpaused'
  BY <1>1, <1>3, <1>4 DEF TypeOK, RunsUnpaused
<1>7. TypeOK'
  BY <1>1, <1>4, <1>5, <1>6 DEF TypeOK
<1>. QED
  BY <1>4, <1>6, <1>7 DEF Inv, NothingIsServed

\* gdb keeps it with what it answers.
LEMMA GdbKeeps ==
    ASSUME Inv, GdbNext \/ GdbDies
    PROVE  Inv'
<1>1. /\ phase = "request" /\ gone = FALSE /\ TypeOK /\ RequestIsServed
      /\ call \in Calls
  BY ServedCall DEF Inv, GdbNext, HostActs, GdbReplies, GdbCancels, GdbDies,
         Requested, TypeOK, RequestIsServed
<1>2. CASE \E o \in Outcomes(call) : HostActs(o)
  <2>1. PICK o \in Outcomes(call) : HostActs(o)
    BY <1>2
  <2>2. /\ host' = o
        /\ stats' = IF call.op = "length" /\ o.code = 0 THEN o.length ELSE stats
        /\ UNCHANGED <<phase, call, r0, hooks, paused, core, signal, stepping,
                       stepped, sent, rx, pressed, gone, presses, deaths>>
    BY <2>1 DEF HostActs, program
  <2>3. /\ o \in [done : BOOLEAN, code : Int, errno : Nat, length : Nat]
        /\ o.length \in 0 .. MaxLength
    BY <1>1, OutcomesAreDone
  <2>4. sent' = IF phase' = "request" THEN HostRequest(call') ELSE NoRequest
    BY <1>1, <2>2 DEF TypeOK
  <2>5. TypeOK'
    BY <1>1, <2>2, <2>3, <2>4 DEF TypeOK
  <2>6. Outcomes(call') = Outcomes(call) /\ (IsHostCall(call') <=> IsHostCall(call))
    BY <2>2
  <2>7. RequestIsServed'
    BY <1>1, <2>2, <2>6 DEF RequestIsServed
  <2>. QED
    BY <1>1, <2>2, <2>5, <2>7 DEF Inv, RunsUnpaused
<1>3. CASE GdbReplies
  <2>1. PICK e \in {host.errno, EINTR} :
            /\ EndRequest(Reply(host.code, e, pressed))
            /\ UNCHANGED <<hooks, stepping, stepped, stats, rx, gone, presses,
                           deaths>>
    BY <1>3 DEF GdbReplies
  <2>2. Reply(host.code, e, pressed)
            \in [code : Int, errno : Nat, ctrlC : BOOLEAN]
    BY <1>1 DEF TypeOK, Reply, EINTR
  <2>3. stepping' \in BOOLEAN /\ gone' = FALSE
    BY <1>1, <2>1 DEF TypeOK
  <2>. QED
    BY <1>1, <2>1, <2>2, <2>3, EndKeeps
<1>4. CASE GdbCancels
  <2>1. Reply(-1, EINTR, TRUE) \in [code : Int, errno : Nat, ctrlC : BOOLEAN]
    BY DEF Reply, EINTR
  <2>2. /\ EndRequest(Reply(-1, EINTR, TRUE)) /\ gone' = FALSE
        /\ stepping' \in BOOLEAN
        /\ UNCHANGED <<hooks, stepped, stats, rx, presses, deaths>>
    BY <1>1, <1>4 DEF GdbCancels, TypeOK
  <2>. QED
    BY <1>1, <2>1, <2>2, EndKeeps
<1>5. CASE GdbDies
  <2>1. /\ deaths < MaxDeaths /\ deaths' = deaths + 1 /\ gone' = TRUE
        /\ UNCHANGED <<phase, call, r0, hooks, paused, core, signal, stepping,
                       stepped, sent, stats, rx, host, pressed, presses>>
    BY <1>5 DEF GdbDies, program, monitor
  <2>2. sent' = IF phase' = "request" THEN HostRequest(call') ELSE NoRequest
    BY <1>1, <2>1 DEF TypeOK
  <2>3. deaths' \in 0 .. MaxDeaths
    BY <1>1, <2>1, SemihostAssumption DEF TypeOK
  <2>4. TypeOK'
    BY <1>1, <2>1, <2>2, <2>3 DEF TypeOK
  <2>5. RequestIsServed'
    BY <1>1, <2>1 DEF RequestIsServed
  <2>. QED
    BY <1>1, <2>1, <2>4, <2>5 DEF Inv, RunsUnpaused
<1>. QED
  BY <1>2, <1>3, <1>4, <1>5 DEF GdbNext

\* So it does when it resumes the program instead.
LEMMA ResumeInsteadKeeps ==
    ASSUME Inv, NEW step \in BOOLEAN, ResumeInsteadOfReply(step)
    PROVE  Inv'
<1>1. /\ phase = "request" /\ EndRequest(core) /\ gone' = FALSE
      /\ stepping' \in BOOLEAN
      /\ UNCHANGED <<hooks, stepped, stats, rx, presses, deaths>>
  BY DEF ResumeInsteadOfReply
<1>2. core \in [code : Int, errno : Nat, ctrlC : BOOLEAN]
  BY DEF Inv, TypeOK
<1>. QED
  BY <1>1, <1>2, EndKeeps

\* Halting elsewhere keeps it.
LEMMA HaltWithKeeps ==
    ASSUME Inv, phase = "running", NEW s \in {"SIGTRAP", "SIGINT"}, HaltWith(s)
    PROVE  Inv'
<1>1. /\ phase' = "halted" /\ signal' = s /\ stepped' = stepping
      /\ stepping' = FALSE /\ paused' = (paused \/ hooks) /\ rx' = FALSE
      /\ UNCHANGED <<call, r0, hooks, core, sent, stats, host, pressed, gone,
                     presses, deaths>>
  BY DEF HaltWith, program, gdb
<1>2. TypeOK'
  BY <1>1 DEF Inv, TypeOK
<1>. QED
  BY <1>1, <1>2 DEF Inv, NothingIsServed, RunsUnpaused

\* The program, the user and the command loop keep it.
LEMMA OthersKeep ==
    ASSUME Inv,
           \/ \E c \in Calls : ReachCall(c)
           \/ HaltElsewhere
           \/ CommInterrupt
           \/ PressControlC
           \/ \E step \in BOOLEAN : Resume(step)
           \/ MoveProgramCounter
    PROVE  Inv'
<1>. TypeOK
  BY DEF Inv
<1>1. ASSUME NEW c \in Calls, ReachCall(c)
      PROVE  Inv'
  <2>1. /\ phase = "running" /\ call' = c
        /\ UNCHANGED <<phase, r0, hooks, paused, core, signal, stepping, stepped,
                       sent, stats, rx, host, pressed, gone, presses, deaths>>
    BY <1>1 DEF ReachCall, monitor, gdb
  <2>2. sent' = IF phase' = "request" THEN HostRequest(call') ELSE NoRequest
    BY <2>1 DEF TypeOK
  <2>3. TypeOK'
    BY <2>1, <2>2 DEF TypeOK
  <2>. QED
    BY <2>1, <2>3 DEF Inv, NothingIsServed, RunsUnpaused
<1>2. CASE HaltElsewhere
  BY <1>2, HaltWithKeeps DEF HaltElsewhere, TypeOK
<1>3. CASE CommInterrupt
  BY <1>3, HaltWithKeeps DEF CommInterrupt
<1>4. CASE PressControlC
  <2>1. /\ presses < MaxPresses /\ presses' = presses + 1
        /\ rx' \in {rx, TRUE} /\ pressed' \in {pressed, TRUE}
        /\ phase # "request" => pressed' = pressed
        /\ UNCHANGED <<phase, call, r0, hooks, paused, core, signal, stepping,
                       stepped, sent, stats, host, gone, deaths>>
    BY <1>4 DEF PressControlC, program, monitor, Requested
  <2>2. sent' = IF phase' = "request" THEN HostRequest(call') ELSE NoRequest
    BY <2>1 DEF TypeOK
  <2>3. presses' \in 0 .. MaxPresses
    BY <2>1, SemihostAssumption DEF TypeOK
  <2>4. rx' \in BOOLEAN /\ pressed' \in BOOLEAN
    BY <2>1, Zenon DEF TypeOK
  <2>5. TypeOK'
    BY <2>1, <2>2, <2>3, <2>4 DEF TypeOK
  <2>6. RequestIsServed => RequestIsServed'
    BY <2>1 DEF RequestIsServed
  <2>. QED
    BY <2>1, <2>5, <2>6 DEF Inv, NothingIsServed, RunsUnpaused
<1>5. ASSUME NEW step \in BOOLEAN, Resume(step)
      PROVE  Inv'
  <2>1. /\ phase = "halted" /\ phase' = "running"
        /\ stepping' = (stepping \/ step) /\ paused' = (paused /\ ~hooks)
        /\ UNCHANGED <<call, r0, hooks, core, signal, stepped, sent, stats, rx,
                       host, pressed, gone, presses, deaths>>
    BY <1>5 DEF Resume, program, gdb
  <2>2. TypeOK'
    BY <2>1 DEF TypeOK
  <2>. QED
    BY <2>1, <2>2 DEF Inv, NothingIsServed, RunsUnpaused
<1>6. CASE MoveProgramCounter
  <2>1. /\ phase = "halted" /\ call' = NoCall
        /\ UNCHANGED <<phase, r0, hooks, paused, core, signal, stepping, stepped,
                       sent, stats, rx, host, pressed, gone, presses, deaths>>
    BY <1>6 DEF MoveProgramCounter, monitor, gdb
  <2>2. sent' = IF phase' = "request" THEN HostRequest(call') ELSE NoRequest
    BY <2>1 DEF TypeOK
  <2>3. TypeOK'
    BY <2>1, <2>2 DEF TypeOK
  <2>. QED
    BY <2>1, <2>3 DEF Inv, NothingIsServed, RunsUnpaused
<1>. QED
  BY <1>1, <1>2, <1>3, <1>4, <1>5, <1>6

\* Every step keeps the invariant.
LEMMA StepKeeps ==
    ASSUME Inv, [Next]_vars
    PROVE  Inv'
<1>1. CASE UNCHANGED vars
  <2>1. UNCHANGED <<phase, call, r0, hooks, paused, core, signal, stepping,
                    stepped, sent, stats, rx, host, pressed, gone, presses,
                    deaths>>
    BY <1>1 DEF vars, program, monitor, gdb
  <2>2. sent' = IF phase' = "request" THEN HostRequest(call') ELSE NoRequest
    BY <2>1 DEF Inv, TypeOK
  <2>3. TypeOK'
    BY <2>1, <2>2 DEF Inv, TypeOK
  <2>4. RequestIsServed => RequestIsServed'
    BY <2>1 DEF RequestIsServed
  <2>. QED
    BY <2>1, <2>3, <2>4 DEF Inv, NothingIsServed, RunsUnpaused
<1>2. CASE Next
  BY <1>2, MonitorKeeps, GdbKeeps, ResumeInsteadKeeps, OthersKeep DEF Next
<1>. QED
  BY <1>1, <1>2

\* The invariant holds in every reachable state.
LEMMA Invariance == Spec => []Inv
<1>1. Init => Inv
  BY InitInv
<1>2. Inv /\ [Next]_vars => Inv'
  BY StepKeeps
<1>. QED
  BY <1>1, <1>2, PTL DEF Spec

-----------------------------------------------------------------------------
(* The theorems about the monitor.                                          *)

\* Every variable has its type, and what gdb was sent is always what the call
\* at the PC asks for.
THEOREM SemihostTypes == Spec => []TypeOK
<1>1. Inv => TypeOK
  BY DEF Inv
<1>. QED
  BY <1>1, Invariance, PTL

\* A program that has registered hooks never runs with its hardware paused.
THEOREM NeverRunsPaused == Spec => []RunsUnpaused
<1>1. Inv => RunsUnpaused
  BY DEF Inv
<1>. QED
  BY <1>1, Invariance, PTL

\* gdb is asked to open a file as fopen would with the program's mode.
THEOREM RequestsMeanCalls == Spec => []RequestMeansCall
<1>1. Inv => RequestMeansCall
  <2>. SUFFICES ASSUME Inv, phase = "request", call.abi = "arm",
                       call.op = "open"
                PROVE  /\ sent.name = "open"
                       /\ sent.length > NameLength[call.file]
                       /\ ("TRUNC" \in sent.flags) = ("w" \in call.mode)
                       /\ ("CREAT" \in sent.flags)
                              = (call.mode \cap {"w", "a"} # {})
                       /\ (sent.flags \cap {"WRONLY", "RDWR"} # {})
                              = (call.mode \cap {"w", "a", "+"} # {})
                       /\ (sent.flags \cap {"RDONLY", "RDWR"} # {})
                              = ("+" \in call.mode
                                    \/ call.mode \cap {"w", "a"} = {})
    BY DEF RequestMeansCall
  <2>1. call \in Calls
    BY ServedCall DEF Inv, RequestIsServed
  <2>2. NameLength[call.file] \in Nat
    BY <2>1, CallsAreCalls, HostCallsAssumption DEF IsCall
  <2>3. sent = OpenRequest(call.file, NameSize(call.file),
                           PosixOpenFlags(call.mode))
    BY DEF Inv, TypeOK, HostRequest
  <2>4. /\ sent.name = "open"
        /\ sent.length = NameLength[call.file] + 1
        /\ sent.flags = PosixOpenFlags(call.mode)
    BY <2>3 DEF OpenRequest, NameSize
  <2>5. sent.length > NameLength[call.file]
    BY <2>2, <2>4
  <2>6. ("TRUNC" \in sent.flags) = ("w" \in call.mode)
    BY <2>4 DEF PosixOpenFlags
  <2>7. ("CREAT" \in sent.flags) = (call.mode \cap {"w", "a"} # {})
    BY <2>4 DEF PosixOpenFlags
  <2>8. (sent.flags \cap {"WRONLY", "RDWR"} # {})
            = (call.mode \cap {"w", "a", "+"} # {})
    BY <2>4 DEF PosixOpenFlags
  <2>9. (sent.flags \cap {"RDONLY", "RDWR"} # {})
            = ("+" \in call.mode \/ call.mode \cap {"w", "a"} = {})
    BY <2>4 DEF PosixOpenFlags
  <2>. QED
    BY <2>4, <2>5, <2>6, <2>7, <2>8, <2>9
<1>. QED
  BY <1>1, Invariance, PTL

\* Behind a call that gdb answered the program halts when the user or a step
\* wants it to, and only then, with the signal that says which.
THEOREM HaltsAsAsked == Spec => HaltsWhenAsked
<1>1. Inv /\ [Next]_vars =>
          [(phase = "request" /\ phase' # "request" /\ ~gone)
               => /\ (phase' = "halted") = (stepped \/ pressed)
                  /\ (signal' = "SIGINT") = pressed]_vars
  <2>. SUFFICES ASSUME Inv, Next, phase = "request", phase' # "request", ~gone
                PROVE  /\ (phase' = "halted") = (stepped \/ pressed)
                       /\ (signal' = "SIGINT") = pressed
    OBVIOUS
  <2>1. /\ signal = "SIGTRAP" /\ pressed \in BOOLEAN /\ stepped \in BOOLEAN
    BY DEF Inv, TypeOK, RequestIsServed
  <2>2. GdbReplies \/ GdbCancels
    BY DEF Next, MonitorNext, IssueRequest, WriteToConsole, AnswerLocally,
           RejectCall, StopsAtCall, GdbNext, HostActs, GdbDies,
           ResumeInsteadOfReply, ReachCall, HaltElsewhere, CommInterrupt,
           PressControlC, Resume, MoveProgramCounter
  <2>3. \E code, e : EndRequest(Reply(code, e, pressed))
    <3>1. CASE GdbReplies
      BY <3>1 DEF GdbReplies
    <3>2. CASE GdbCancels
      BY <2>1, <3>2 DEF GdbCancels
    <3>. QED
      BY <2>2, <3>1, <3>2
  <2>4. /\ signal' = IF pressed THEN "SIGINT" ELSE signal
        /\ phase' = IF pressed \/ stepped THEN "halted" ELSE "running"
    BY <2>3 DEF EndRequest, Reply
  <2>. QED
    BY <2>1, <2>4
<1>. QED
  BY <1>1, Invariance, PTL DEF Spec, HaltsWhenAsked

-----------------------------------------------------------------------------
(* The refinement of SemihostCall.  The promise sees the call, what the host *)
(* has done for it, whether Ctrl-C was pressed, and the program's result.    *)

\* The promise speaks of the same calls.
LEMMA SameCalls ==
    /\ Promised!NoCall = NoCall /\ Promised!NotDone = NotDone
    /\ Promised!EINTR = EINTR /\ Promised!LocalOps = LocalOps
    /\ \A c : Promised!IsHostCall(c) <=> IsHostCall(c)
    /\ \A c : Promised!IsConsoleWrite(c) <=> IsConsoleWrite(c)
    /\ \A c : Promised!Outcomes(c) = Outcomes(c)
    /\ \A c, o : Promised!Answer(c, o) = Answer(c, o)
    /\ \A n : Promised!Success(n, 0) = Success(n, 0)
    /\ \A c, e : Promised!LocalAnswer(c, e) = LocalAnswer(c, e)
    /\ \A c, e : Promised!LocalErrno(c, e) = LocalErrno(c, e)
<1>1. /\ Promised!NoCall = NoCall /\ Promised!NotDone = NotDone
      /\ Promised!EINTR = EINTR /\ Promised!LocalOps = LocalOps
  BY DEF Promised!NoCall, NoCall, Promised!NotDone, NotDone, Promised!EINTR,
         EINTR, Promised!LocalOps, LocalOps, Promised!NoFile, NoFile
<1>2. \A c : Promised!IsConsoleWrite(c) <=> IsConsoleWrite(c)
  BY DEF Promised!IsConsoleWrite, IsConsoleWrite, Promised!Stdout, Stdout
<1>3. \A c : Promised!IsHostCall(c) <=> IsHostCall(c)
  BY <1>2 DEF Promised!IsHostCall, IsHostCall, Promised!HostOps, HostOps
<1>4. \A n, l : Promised!Success(n, l) = Success(n, l)
  BY DEF Promised!Success, Success
<1>5. \A c : Promised!Outcomes(c) = Outcomes(c)
  BY DEF Promised!Outcomes, Outcomes, Promised!Success, Success,
         Promised!Failure, Failure
<1>6. \A c, o : Promised!Answer(c, o) = Answer(c, o)
  BY DEF Promised!Answer, Answer
<1>7. \A c, e : /\ Promised!LocalAnswer(c, e) = LocalAnswer(c, e)
               /\ Promised!LocalErrno(c, e) = LocalErrno(c, e)
  BY DEF Promised!LocalAnswer, LocalAnswer, Promised!LocalErrno, LocalErrno
<1>. QED
  BY <1>1, <1>2, <1>3, <1>4, <1>5, <1>6, <1>7

\* The initial states are those of SemihostCall.
LEMMA InitMaps == Init => Promised!Init
BY SameCalls DEF Init, Promised!Init

\* What the promise does not see, and Ctrl-C as it comes and goes.
LEMMA OthersMap ==
    ASSUME Inv, (pressed' \/ rx') \in BOOLEAN,
           UNCHANGED <<call, host, gone, r0, core>>
    PROVE  Promised!Interrupt
BY DEF Promised!Interrupt

\* The end of a call is the return of SemihostCall.
LEMMA ReturnedMaps ==
    ASSUME Inv, call # NoCall, call' = NoCall, host' = NotDone, gone' = FALSE,
           (pressed' \/ rx') \in BOOLEAN
    PROVE  Promised!Returned
BY SameCalls DEF Promised!Returned

\* What the monitor does is a step of SemihostCall, or none.
LEMMA MonitorMaps ==
    ASSUME Inv, MonitorNext
    PROVE  [Promised!Next]_Promised!vars
<1>1. /\ NothingIsServed /\ call # NoCall /\ call \in Calls
      /\ UNCHANGED <<host, pressed, gone>>
  <2>1. phase = "running" /\ StopsAtCall
    BY DEF MonitorNext, IssueRequest, WriteToConsole, AnswerLocally, RejectCall,
           StopsAtCall
  <2>2. UNCHANGED gdb
    BY DEF MonitorNext, IssueRequest, WriteToConsole, AnswerLocally, RejectCall
  <2>. QED
    BY <2>1, <2>2 DEF Inv, TypeOK, StopsAtCall, gdb
<1>2. rx \in BOOLEAN /\ pressed = FALSE /\ gone = FALSE /\ host = NotDone
  BY <1>1 DEF Inv, TypeOK, NothingIsServed
<1>3. CASE IssueRequest
  <2>1. rx' = FALSE /\ UNCHANGED <<call, r0, core>>
    BY <1>3 DEF IssueRequest, program
  <2>2. Promised!Interrupt
    BY <1>1, <1>2, <2>1, OthersMap
  <2>. QED
    BY <2>2 DEF Promised!Next
<1>4. CASE WriteToConsole
  <2>. DEFINE chars == Min({call.size, Room})
  <2>1. chars \in 0 .. call.size
    BY <1>1, CallsAreCalls, SemihostAssumption DEF Min
  <2>. HIDE DEF chars
  <2>2. /\ IsConsoleWrite(call) /\ call' = NoCall /\ rx' = FALSE
        /\ core' = [core EXCEPT !.code = chars, !.errno = 0]
        /\ r0' = IF rx THEN chars ELSE Converted(call, chars)
    BY <1>4 DEF WriteToConsole, chars
  <2>3. core'.errno = 0
    BY <2>2 DEF Inv, TypeOK
  <2>4. Promised!Returned
    <3>1. host' = NotDone /\ gone' = FALSE /\ (pressed' \/ rx') \in BOOLEAN
      BY <1>1, <1>2, <2>2
    <3>. QED
      BY <1>1, <2>2, <3>1, ReturnedMaps
  <2>5. Promised!MayAnswer(Success(chars, 0))
    <3>1. Success(chars, 0).code = chars
      BY DEF Success
    <3>2. call.op = "write"
      BY <2>2 DEF IsConsoleWrite
    <3>3. Converted(call, chars) = Answer(call, Success(chars, 0))
      BY <3>1, <3>2 DEF Converted, Answer
    <3>. QED
      BY <2>2, <3>1, <3>3, SameCalls DEF Promised!MayAnswer
  <2>6. Promised!ReturnText
    BY <2>1, <2>2, <2>3, <2>4, <2>5, SameCalls DEF Promised!ReturnText
  <2>. QED
    BY <2>6 DEF Promised!Next
<1>5. CASE AnswerLocally
  <2>. DEFINE value == IF call.op = "errno" THEN core.errno ELSE 0
  <2>1. /\ call.op \in LocalOps /\ call' = NoCall /\ r0' = value
        /\ rx' = (rx /\ ~stepping)
        /\ core' = IF call.abi = "newlib"
                   THEN [core EXCEPT !.code = value, !.errno = 0]
                   ELSE core
    BY <1>5 DEF AnswerLocally
  <2>2. core'.errno = LocalErrno(call, core.errno)
    BY <2>1 DEF LocalErrno, Inv, TypeOK
  <2>3. Promised!Returned
    <3>1. host' = NotDone /\ gone' = FALSE
      BY <1>1, <1>2
    <3>2. (pressed' \/ rx') \in BOOLEAN
      OBVIOUS
    <3>. QED
      BY <1>1, <2>1, <3>1, <3>2, ReturnedMaps
  <2>4. Promised!ReturnLocally
    BY <2>1, <2>2, <2>3, SameCalls DEF Promised!ReturnLocally, LocalAnswer
  <2>. QED
    BY <2>4 DEF Promised!Next
<1>6. CASE RejectCall
  <2>1. UNCHANGED <<call, r0, core, host, gone>> /\ rx' = FALSE
    BY <1>1, <1>6 DEF RejectCall, program
  <2>2. (pressed' \/ rx') \in BOOLEAN
    BY <2>1
  <2>3. Promised!Interrupt
    BY <2>1, <2>2, OthersMap
  <2>. QED
    BY <2>3 DEF Promised!Next
<1>. QED
  BY <1>3, <1>4, <1>5, <1>6 DEF MonitorNext

\* So is what gdb answers.
LEMMA GdbMaps ==
    ASSUME Inv, GdbNext \/ GdbDies
    PROVE  [Promised!Next]_Promised!vars
<1>1. /\ phase = "request" /\ gone = FALSE /\ TypeOK /\ RequestIsServed
      /\ call \in Calls /\ call # NoCall /\ rx \in BOOLEAN
  BY ServedCall, CallsAreCalls
     DEF Inv, GdbNext, HostActs, GdbReplies, GdbCancels, GdbDies,
         Requested, TypeOK, RequestIsServed
<1>2. host.done => host # NotDone /\ (host.errno # 0 => host.code < 0)
  BY <1>1, OutcomesAreDone DEF NotDone, RequestIsServed
<1>3. ~host.done => host = NotDone
  BY <1>1, OutcomesAreDone DEF RequestIsServed
<1>4. CASE \E o \in Outcomes(call) : HostActs(o)
  <2>1. PICK o \in Outcomes(call) : HostActs(o)
    BY <1>4
  <2>2. ~host.done /\ host' = o /\ UNCHANGED <<call, r0, core, rx, pressed, gone>>
    BY <2>1 DEF HostActs, program
  <2>3. Promised!ActOn(o)
    BY <1>1, <1>3, <2>2, SameCalls DEF Promised!ActOn, RequestIsServed
  <2>. QED
    BY <2>3, SameCalls DEF Promised!Next
<1>5. CASE GdbReplies
  <2>1. PICK e : /\ e = host.errno \/ (e = EINTR /\ pressed /\ host.code < 0)
                 /\ EndRequest(Reply(host.code, e, pressed))
                 /\ host.done /\ UNCHANGED <<rx, gone>>
    BY <1>5 DEF GdbReplies
  <2>2. (pressed' \/ rx') \in BOOLEAN /\ gone' = FALSE /\ host' = NotDone
            /\ core'.errno = e
    BY <1>1, <2>1 DEF EndRequest, Reply
  <2>3. CASE pressed /\ e = EINTR
    <3>1. UNCHANGED <<call, r0>> /\ host.code < 0
      <4>1. host.code < 0
        BY <1>2, <2>1, <2>3 DEF EINTR
      <4>. QED
        BY <2>1, <2>3, <4>1 DEF EndRequest, Reply
    <3>2. Promised!Cancel
      BY <1>1, <2>2, <2>3, <3>1, SameCalls DEF Promised!Cancel
    <3>. QED
      BY <3>2 DEF Promised!Next
  <2>4. CASE ~(pressed /\ e = EINTR)
    <3>1. e = host.errno
      BY <2>1, <2>4
    <3>2. /\ call' = NoCall
          /\ r0' = IF pressed THEN host.code ELSE Converted(call, host.code)
      BY <2>1, <2>4 DEF EndRequest, Reply
    <3>3. Converted(call, host.code) = Answer(call, host)
      BY <1>1, <1>2, <2>1, ConvertedIsAnswer DEF RequestIsServed
    <3>4. Promised!MayAnswer(host)
      BY <3>2, <3>3, SameCalls DEF Promised!MayAnswer
    <3>5. Promised!Returned
      BY <1>1, <2>2, <3>2, ReturnedMaps
    <3>6. Promised!Return
      BY <1>2, <2>1, <2>2, <3>1, <3>4, <3>5, SameCalls DEF Promised!Return
    <3>. QED
      BY <3>6 DEF Promised!Next
  <2>. QED
    BY <2>3, <2>4
<1>6. CASE GdbCancels
  <2>1. pressed /\ ~host.done /\ EndRequest(Reply(-1, EINTR, TRUE))
            /\ UNCHANGED <<rx, gone>>
    BY <1>6 DEF GdbCancels
  <2>2. /\ UNCHANGED <<call, r0, gone>> /\ host' = NotDone
        /\ core'.errno = EINTR /\ (pressed' \/ rx') \in BOOLEAN
    BY <1>1, <2>1 DEF EndRequest, Reply
  <2>3. Promised!Cancel
    BY <1>1, <1>3, <2>1, <2>2, SameCalls DEF Promised!Cancel
  <2>. QED
    BY <2>3 DEF Promised!Next
<1>7. CASE GdbDies
  <2>1. gone' = TRUE /\ UNCHANGED <<call, host, pressed, rx, r0, core>>
    BY <1>7 DEF GdbDies, program, monitor
  <2>2. Promised!DebuggerGoes
    BY <1>1, <2>1, SameCalls DEF Promised!DebuggerGoes
  <2>. QED
    BY <2>2 DEF Promised!Next
<1>. QED
  BY <1>4, <1>5, <1>6, <1>7 DEF GdbNext

\* So is resuming the program instead.
LEMMA ResumeInsteadMaps ==
    ASSUME Inv, NEW step \in BOOLEAN, ResumeInsteadOfReply(step)
    PROVE  Promised!Next
<1>1. /\ phase = "request" /\ gone /\ EndRequest(core) /\ gone' = FALSE
      /\ UNCHANGED rx /\ rx \in BOOLEAN /\ stats \in Int
  BY HostCallsAssumption DEF ResumeInsteadOfReply, Inv, TypeOK
<1>2. core.code \in Int /\ call \in Calls /\ call # NoCall
  <2>1. call \in Calls
    BY <1>1, ServedCall DEF Inv, RequestIsServed
  <2>. QED
    BY <2>1, CallsAreCalls DEF Inv, TypeOK
<1>3. core' = core /\ host' = NotDone /\ (pressed' \/ rx') \in BOOLEAN
  BY <1>1 DEF EndRequest
<1>4. CASE core.ctrlC /\ core.errno = EINTR
  <2>1. UNCHANGED <<call, r0>>
    BY <1>1, <1>4 DEF EndRequest
  <2>2. Promised!AskAgain
    BY <1>1, <1>3, <2>1, SameCalls DEF Promised!AskAgain
  <2>. QED
    BY <2>2 DEF Promised!Next
<1>5. CASE ~(core.ctrlC /\ core.errno = EINTR)
  <2>1. /\ call' = NoCall
        /\ r0' = IF core.ctrlC THEN core.code ELSE Converted(call, core.code)
    BY <1>1, <1>5 DEF EndRequest
  <2>2. r0' \in Int
    BY <1>1, <1>2, <2>1, ConvertedIsNumber
  <2>3. Promised!Returned
    BY <1>1, <1>2, <1>3, <2>1, ReturnedMaps
  <2>4. Promised!ReturnUnanswered
    BY <1>1, <1>3, <2>2, <2>3 DEF Promised!ReturnUnanswered
  <2>. QED
    BY <2>4 DEF Promised!Next
<1>. QED
  BY <1>4, <1>5

\* Every step is one of SemihostCall, or none.
LEMMA StepMaps ==
    ASSUME Inv, [Next]_vars
    PROVE  [Promised!Next]_Promised!vars
<1>. TypeOK /\ (phase # "request" => NothingIsServed)
  BY DEF Inv
<1>1. CASE MonitorNext \/ GdbNext \/ GdbDies
  BY <1>1, MonitorMaps, GdbMaps
<1>2. CASE \E step \in BOOLEAN : ResumeInsteadOfReply(step)
  BY <1>2, ResumeInsteadMaps
<1>3. ASSUME NEW c \in Calls, ReachCall(c)
      PROVE  Promised!Next
  <2>1. call = NoCall /\ call' = c
            /\ UNCHANGED <<host, gone, pressed, rx, r0, core>>
    BY <1>3 DEF ReachCall, monitor, gdb
  <2>2. Promised!Make(c)
    BY <2>1, SameCalls DEF Promised!Make
  <2>. QED
    BY <2>2 DEF Promised!Next
<1>4. CASE HaltElsewhere \/ CommInterrupt
  <2>1. UNCHANGED <<call, host, gone, pressed, r0, core>> /\ rx' \in BOOLEAN
            /\ pressed \in BOOLEAN
    BY <1>4 DEF HaltElsewhere, CommInterrupt, HaltWith, program, gdb, TypeOK
  <2>2. Promised!Interrupt
    BY <2>1, OthersMap
  <2>. QED
    BY <2>2 DEF Promised!Next
<1>5. CASE PressControlC
  <2>1. UNCHANGED <<call, host, gone, r0, core>>
            /\ rx' \in {rx, TRUE} /\ pressed' \in {pressed, TRUE}
    BY <1>5 DEF PressControlC, program, monitor
  <2>2. rx' \in BOOLEAN /\ pressed' \in BOOLEAN
    BY <2>1, Zenon DEF TypeOK
  <2>3. Promised!Interrupt
    BY <2>1, <2>2, OthersMap
  <2>. QED
    BY <2>3 DEF Promised!Next
<1>6. ASSUME NEW step \in BOOLEAN, Resume(step)
      PROVE  UNCHANGED Promised!vars
  BY <1>6 DEF Resume, program, gdb, Promised!vars
<1>7. CASE MoveProgramCounter
  <2>1. /\ phase = "halted" /\ call' = NoCall
        /\ UNCHANGED <<host, gone, pressed, rx, r0, core>>
    BY <1>7 DEF MoveProgramCounter, monitor, gdb
  <2>2. Promised!Abandon
    BY <2>1, SameCalls DEF Promised!Abandon, NothingIsServed
  <2>. QED
    BY <2>2 DEF Promised!Next
<1>8. CASE UNCHANGED vars
  BY <1>8 DEF vars, program, monitor, gdb, Promised!vars
<1>. QED
  BY <1>1, <1>2, <1>3, <1>4, <1>5, <1>6, <1>7, <1>8 DEF Next

\* Every call is acted on once and returns once with its own answer in the
\* form that its interface wants, is made again when Ctrl-C cancelled it, and
\* gets another answer only when gdb died.
THEOREM CallsAreServed == Spec => ServesCalls
<1>1. Init => Promised!Init
  BY InitMaps
<1>2. Inv /\ [Next]_vars => [Promised!Next]_Promised!vars
  BY StepMaps
<1>. QED
  BY <1>1, <1>2, Invariance, PTL DEF Spec, ServesCalls, Promised!Spec
=============================================================================
