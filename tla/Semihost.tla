------------------------------- MODULE Semihost -------------------------------
(***************************************************************************)
(* Semihosting: semihost/, core/cmd_file.c and the part of mriDebugException *)
(* that serves the calls.  The program stops at a BKPT; the monitor asks gdb *)
(* with an F packet and runs its command loop until gdb answers with F,     *)
(* while gdb reads and writes the program's memory.  Text for standard      *)
(* output goes to gdb's console, and some calls need no gdb at all.         *)
(*                                                                         *)
(* gdb, the user and the host are modelled as cmd_file.c expects them: the *)
(* user may press Ctrl-C at any time, gdb may die and another take its      *)
(* place.  Packets and transfers of memory are left to other modules.       *)
(***************************************************************************)
EXTENDS HostCalls, FiniteSetsExt

CONSTANTS
    Room,        \* how many characters fit into an O packet
    MaxPresses,  \* bound: how often the user presses Ctrl-C
    MaxDeaths    \* bound: how often gdb dies

ASSUME SemihostAssumption == {Room, MaxPresses, MaxDeaths} \subseteq Nat

VARIABLES
    phase,       \* "running", "request" while gdb is asked, "halted"
    call,        \* the call whose BKPT is at the PC
    r0,          \* the program's R0: what its last call returned
    hooks,       \* the program has registered its debugger hooks
    paused,      \* they have paused the hardware that the program drives
    core,        \* semihostReturnCode, semihostErrno, MRI_FLAGS_SEMIHOST_CTRL_C
    signal,      \* signalValue
    stepping,    \* a single step is armed
    stepped,     \* justSingleStepped
    sent,        \* the request that gdb has got
    stats,       \* gdbFileStats: the length of the file
    rx,          \* Ctrl-C is waiting in the receiver
    host,        \* what the host has done for this call
    pressed,     \* the user has pressed Ctrl-C while gdb served the request
    gone,        \* the gdb that was asked has gone
    presses, deaths

monitor == <<core, signal, stepping, stepped, sent, stats>>
program == <<call, r0, hooks>>
gdb == <<host, pressed, gone, presses, deaths>>
vars == <<phase, program, paused, monitor, rx, gdb>>

NoRequest == [name |-> "none"]

Init ==
    /\ phase = "running"
    /\ call = NoCall
    /\ r0 = 0
    /\ hooks = FALSE /\ paused = FALSE
    /\ core = [code |-> 0, errno |-> 0, ctrlC |-> FALSE]
    /\ signal = "none"
    /\ stepping = FALSE /\ stepped = FALSE
    /\ sent = NoRequest
    /\ stats = 0
    /\ rx = FALSE
    /\ host = NotDone
    /\ pressed = FALSE /\ gone = FALSE
    /\ presses = 0 /\ deaths = 0

-----------------------------------------------------------------------------
(* The requests of cmd_file.c.                                              *)

OpenRequest(file, length, flags) ==
    [name |-> "open", file |-> file, length |-> length, flags |-> flags]
WriteRequest(file, size) == [name |-> "write", file |-> file, size |-> size]
ReadRequest(file, size) == [name |-> "read", file |-> file, size |-> size]
CloseRequest(file) == [name |-> "close", file |-> file]
SeekRequest(file, whence) ==
    [name |-> "lseek", file |-> file, whence |-> whence]
FStatRequest(file) == [name |-> "fstat", file |-> file]
UnlinkRequest(file, length) ==
    [name |-> "unlink", file |-> file, length |-> length]
StatRequest(file, length) ==
    [name |-> "stat", file |-> file, length |-> length]
RenameRequest(file, length, other, otherLength) ==
    [name |-> "rename", file |-> file, length |-> length,
     other |-> other, otherLength |-> otherLength]

\* convertRealViewOpenModeToPosixOpenFlags.  Mutant: "+" is looked at first,
\* and a file opened with "w+" is not created.
PlusFirst(mode) ==
    IF "+" \in mode THEN {"RDWR"}
    ELSE IF "w" \in mode THEN {"WRONLY", "CREAT", "TRUNC"}
    ELSE IF "a" \in mode THEN {"WRONLY", "CREAT", "APPEND"}
    ELSE {"RDONLY"}

PosixOpenFlags(mode) ==
    LET access == IF "+" \in mode THEN {"RDWR"}
                  ELSE IF mode \cap {"w", "a"} # {} THEN {"WRONLY"}
                  ELSE {"RDONLY"}
    IN  access \cup (IF "w" \in mode THEN {"CREAT", "TRUNC"}
                     ELSE IF "a" \in mode THEN {"CREAT", "APPEND"}
                     ELSE {})

\* The program gives the ARM interface the length of a name, to which the
\* handlers add its terminator, and newlib's stubs the length with it.
NameSize(name) == NameLength[name] + 1

\* semihost_arm.c, and semihost_newlib.c where the flags are gdb's already.
HostRequest(c) ==
    CASE c.op = "open"   -> OpenRequest(c.file, NameSize(c.file),
                                IF c.abi = "arm" THEN PosixOpenFlags(c.mode)
                                ELSE c.mode)
      [] c.op = "close"  -> CloseRequest(c.file)
      [] c.op = "write"  -> WriteRequest(c.file, c.size)
      [] c.op = "read"   -> ReadRequest(c.file, c.size)
      [] c.op = "seek"   -> SeekRequest(c.file, "SEEK_SET")
      [] c.op = "lseek"  -> SeekRequest(c.file, c.mode)
      [] c.op = "length" -> FStatRequest(c.file)
      [] c.op = "fstat"  -> FStatRequest(c.file)
      [] c.op = "stat"   -> StatRequest(c.file, NameSize(c.file))
      [] c.op = "unlink" -> UnlinkRequest(c.file, NameSize(c.file))
      [] c.op = "rename" -> RenameRequest(c.file, NameSize(c.file),
                                          c.other, NameSize(c.other))

-----------------------------------------------------------------------------
(* mriDebugException, for a program that has stopped at a call.             *)

\* The signal is SIGTRAP and the hook is called before the call is looked at.
StopsAtCall ==
    /\ phase = "running"
    /\ call # NoCall
    /\ stepped' = stepping
    /\ stepping' = FALSE

\* Mutant: the hook is called only when the command loop was entered.
ResumesWithoutHook(stops, hooked) ==
    /\ phase' = IF stops THEN "halted" ELSE "running"
    /\ paused' = (paused \/ hooks)

\* Platform_LeavingDebugger and the hook, or the T response, whose "+" is
\* waited for: a Ctrl-C that arrived meanwhile is read and forgotten.
\* The hook that is called then is the one that the call may have registered.
ResumesUnless(stops, hooked) ==
    /\ phase' = IF stops THEN "halted" ELSE "running"
    /\ paused' = IF stops \/ ~hooked THEN paused \/ hooks ELSE FALSE

\* A Ctrl-C that arrived meanwhile is read while the "+" of the packet is
\* waited for, and forgotten.
IssueRequest ==
    /\ StopsAtCall
    /\ IsHostCall(call)
    /\ sent' = HostRequest(call)
    /\ phase' = "request"
    /\ paused' = (paused \/ hooks)
    /\ signal' = "SIGTRAP"
    /\ rx' = FALSE
    /\ UNCHANGED <<program, core, stats, gdb>>

\* convertBytesTransferredToBytesNotTransferred, and the length of a file from
\* its stat structure.  Mutant: the size that was asked for is forgotten.
NotConverted(c, code) == IF c.op = "length" /\ code = 0 THEN stats ELSE code

Converted(c, code) ==
    IF c.abi = "arm" /\ c.op \in {"read", "write"} /\ code >= 0
    THEN c.size - code
    ELSE IF c.op = "length" /\ code = 0 THEN stats
    ELSE code

\* writeToGdbConsole
WriteToConsole ==
    LET chars == Min({call.size, Room})
    IN  /\ StopsAtCall
        /\ IsConsoleWrite(call)
        /\ core' = [core EXCEPT !.code = chars, !.errno = 0]
        /\ call' = NoCall
        /\ r0' = IF rx THEN chars ELSE Converted(call, chars)
        /\ signal' = IF rx THEN "SIGINT" ELSE "SIGTRAP"
        /\ ResumesUnless(rx \/ stepping, hooks)
        /\ rx' = FALSE
        /\ UNCHANGED <<hooks, sent, stats, gdb>>

\* Mutant: the error that is read is kept for the next call.
AnswerLocallyKeepingErrno ==
    LET value == IF call.op = "errno" THEN core.errno ELSE 0
        hooked == IF call.op = "set hooks" THEN call.mode # {} ELSE hooks
    IN  /\ StopsAtCall
        /\ call.op \in LocalOps
        /\ core' = core
        /\ r0' = value
        /\ hooks' = hooked
        /\ call' = NoCall
        /\ signal' = "SIGTRAP"
        /\ ResumesUnless(stepping, hooked)
        /\ rx' = (rx /\ ~stepping)
        /\ UNCHANGED <<sent, stats, gdb>>

\* newlib's calls go through FlagSemihostCallAsHandled and leave an errno, the
\* others set R0 themselves.
AnswerLocally ==
    LET value == IF call.op = "errno" THEN core.errno ELSE 0
        hooked == IF call.op = "set hooks" THEN call.mode # {} ELSE hooks
    IN  /\ StopsAtCall
        /\ call.op \in LocalOps
        /\ core' = IF call.abi = "newlib"
                   THEN [core EXCEPT !.code = value, !.errno = 0]
                   ELSE core
        /\ r0' = value
        /\ hooks' = hooked
        /\ call' = NoCall
        /\ signal' = "SIGTRAP"
        /\ ResumesUnless(stepping, hooked)
        /\ rx' = (rx /\ ~stepping)
        /\ UNCHANGED <<sent, stats, gdb>>

RejectCall ==
    /\ StopsAtCall
    /\ call.op = "unknown"
    /\ signal' = "SIGTRAP"
    /\ phase' = "halted"
    /\ paused' = (paused \/ hooks)
    /\ rx' = FALSE
    /\ UNCHANGED <<program, core, sent, stats, gdb>>

-----------------------------------------------------------------------------
(* HandleFileIOCommand, and what follows when the command loop returns to   *)
(* processGdbFileResponseCommands.                                          *)

\* Mutant: the PC is left at the BKPT.
EndRequestInPlace(c) ==
    /\ core' = c
    /\ call' = call
    /\ r0' = IF c.ctrlC THEN c.code ELSE Converted(call, c.code)
    /\ signal' = IF c.ctrlC THEN "SIGINT" ELSE signal
    /\ phase' = IF c.ctrlC \/ stepped THEN "halted" ELSE "running"
    /\ paused' = (paused /\ ~(phase' = "running" /\ hooks))
    /\ sent' = NoRequest
    /\ host' = NotDone
    /\ pressed' = FALSE

\* Mutant: SIGINT is set and the program resumed.
EndRequestResuming(c) ==
    LET handled == ~(c.ctrlC /\ c.errno = EINTR)
    IN  /\ core' = c
        /\ call' = IF handled THEN NoCall ELSE call
        /\ r0' = IF ~handled THEN r0
                 ELSE IF c.ctrlC THEN c.code
                 ELSE Converted(call, c.code)
        /\ signal' = IF c.ctrlC THEN "SIGINT" ELSE signal
        /\ phase' = IF stepped THEN "halted" ELSE "running"
        /\ paused' = (paused /\ ~(phase' = "running" /\ hooks))
        /\ sent' = NoRequest
        /\ host' = NotDone
        /\ pressed' = FALSE

\* WasSemihostCallCancelledByGdb: the call is made again when the program is
\* resumed.  With Ctrl-C the handler of the call returns before it converts.
EndRequest(c) ==
    LET handled == ~(c.ctrlC /\ c.errno = EINTR)
    IN  /\ core' = c
        /\ call' = IF handled THEN NoCall ELSE call
        /\ r0' = IF ~handled THEN r0
                 ELSE IF c.ctrlC THEN c.code
                 ELSE Converted(call, c.code)
        /\ signal' = IF c.ctrlC THEN "SIGINT" ELSE signal
        /\ phase' = IF c.ctrlC \/ stepped THEN "halted" ELSE "running"
        /\ paused' = (paused /\ ~(phase' = "running" /\ hooks))
        /\ sent' = NoRequest
        /\ host' = NotDone
        /\ pressed' = FALSE

\* Mutant: the flag of an earlier call is not cleared.
ReplyStickingControlC(code, errno, c) ==
    [code |-> code, errno |-> errno, ctrlC |-> c \/ core.ctrlC]

\* F with a return code, an errno and ",C".
Reply(code, errno, c) == [code |-> code, errno |-> errno, ctrlC |-> c]

Requested == phase = "request" /\ ~gone

\* gdb moves what is read or written, and the stat structure, and the host
\* acts.
HostActs(o) ==
    /\ Requested
    /\ ~host.done
    /\ host' = o
    /\ stats' = IF call.op = "length" /\ o.code = 0 THEN o.length ELSE stats
    /\ UNCHANGED <<phase, program, paused, core, signal, stepping, stepped,
                   sent, rx, pressed, gone, presses, deaths>>

\* An error may be turned into EINTR when Ctrl-C was pressed.
GdbReplies ==
    /\ Requested
    /\ host.done
    /\ \E e \in {host.errno}
            \cup (IF pressed /\ host.code < 0 THEN {EINTR} ELSE {}) :
          EndRequest(Reply(host.code, e, pressed))
    /\ UNCHANGED <<hooks, stepping, stepped, stats, rx, gone, presses, deaths>>

GdbCancels ==
    /\ Requested
    /\ pressed
    /\ ~host.done
    /\ EndRequest(Reply(-1, EINTR, TRUE))
    /\ UNCHANGED <<hooks, stepping, stepped, stats, rx, gone, presses, deaths>>

\* Another gdb connects, finds the program stopped and resumes it: the command
\* loop ends, with what the last call left.
GdbDies ==
    /\ Requested
    /\ deaths < MaxDeaths
    /\ deaths' = deaths + 1
    /\ gone' = TRUE
    /\ UNCHANGED <<phase, program, paused, monitor, rx, host, pressed, presses>>

ResumeInsteadOfReply(step) ==
    /\ phase = "request"
    /\ gone
    /\ EndRequest(core)
    /\ stepping' = step
    /\ gone' = FALSE
    /\ UNCHANGED <<hooks, stepped, stats, rx, presses, deaths>>

-----------------------------------------------------------------------------
(* The program, the user, and gdb's command loop.                           *)

\* The program reaches a BKPT, by itself or by a single step.
ReachCall(c) ==
    /\ phase = "running"
    /\ call = NoCall
    /\ call' = c
    /\ UNCHANGED <<phase, r0, hooks, paused, monitor, rx, gdb>>

\* A Ctrl-C that waits is read, by the interrupt or with the "+" of the T
\* response.
HaltWith(s) ==
    /\ phase' = "halted"
    /\ signal' = s
    /\ rx' = FALSE
    /\ stepped' = stepping
    /\ stepping' = FALSE
    /\ paused' = (paused \/ hooks)
    /\ UNCHANGED <<program, core, sent, stats, gdb>>

\* A breakpoint, or a step that does not end at a call.
HaltElsewhere ==
    /\ phase = "running"
    /\ call = NoCall
    /\ HaltWith("SIGTRAP")

CommInterrupt ==
    /\ phase = "running"
    /\ rx
    /\ HaltWith("SIGINT")

PressControlC ==
    /\ presses < MaxPresses
    /\ presses' = presses + 1
    /\ \/ phase = "running" /\ ~rx /\ rx' = TRUE /\ UNCHANGED pressed
       \/ Requested /\ ~pressed /\ pressed' = TRUE /\ UNCHANGED rx
    /\ UNCHANGED <<phase, program, paused, monitor, host, gone, deaths>>

\* c, D and s: a BKPT that is a call is not skipped.
Resume(step) ==
    /\ phase = "halted"
    /\ phase' = "running"
    /\ stepping' = (stepping \/ step)
    /\ paused' = (paused /\ ~hooks)
    /\ UNCHANGED <<program, core, signal, stepped, sent, stats, rx, gdb>>

\* G, or an address behind c or s.
MoveProgramCounter ==
    /\ phase = "halted"
    /\ call # NoCall
    /\ call' = NoCall
    /\ UNCHANGED <<phase, r0, hooks, paused, monitor, rx, gdb>>

MonitorNext == IssueRequest \/ WriteToConsole \/ AnswerLocally \/ RejectCall

GdbNext ==
    \/ \E o \in Outcomes(call) : HostActs(o)
    \/ GdbReplies
    \/ GdbCancels

Next ==
    \/ MonitorNext
    \/ GdbNext
    \/ GdbDies
    \/ \E step \in BOOLEAN : ResumeInsteadOfReply(step)
    \/ \E c \in Calls : ReachCall(c)
    \/ HaltElsewhere
    \/ CommInterrupt
    \/ PressControlC
    \/ \E step \in BOOLEAN : Resume(step)
    \/ MoveProgramCounter

\* The monitor's handlers run to their end, gdb serves requests, and a user
\* does not leave the program halted for ever.
Fairness ==
    /\ WF_vars(MonitorNext)
    /\ WF_vars(CommInterrupt)
    /\ WF_vars(GdbNext)
    /\ WF_vars(\E step \in BOOLEAN : ResumeInsteadOfReply(step) \/ Resume(step))

Spec == Init /\ [][Next]_vars /\ Fairness

-----------------------------------------------------------------------------
(* Properties.                                                              *)

TypeOK ==
    /\ phase \in {"running", "request", "halted"}
    /\ call \in Calls \cup {NoCall}
    /\ r0 \in Int
    /\ hooks \in BOOLEAN /\ paused \in BOOLEAN
    /\ core \in [code : Int, errno : Nat, ctrlC : BOOLEAN]
    /\ signal \in {"none", "SIGTRAP", "SIGINT"}
    /\ stepping \in BOOLEAN /\ stepped \in BOOLEAN
    /\ sent = IF phase = "request" THEN HostRequest(call) ELSE NoRequest
    /\ stats \in 0 .. MaxLength
    /\ rx \in BOOLEAN
    /\ host \in [done : BOOLEAN, code : Int, errno : Nat, length : Nat]
    /\ pressed \in BOOLEAN /\ gone \in BOOLEAN
    /\ presses \in 0 .. MaxPresses
    /\ deaths \in 0 .. MaxDeaths

\* Every call is acted on once and returns once with its own answer; what
\* Ctrl-C cancels is made again, and no answer is another call's unless gdb
\* died in between.
Promised == INSTANCE SemihostCall
                WITH interrupted <- pressed \/ rx, errno <- core.errno
ServesCalls == Promised!Spec

\* gdb is asked for what the program wants: the file is opened for what the
\* mode allows and no more, created and truncated where fopen would, and the
\* length of a name counts its terminator.
RequestMeansCall ==
    phase = "request" /\ call.abi = "arm" /\ call.op = "open" =>
        /\ sent.name = "open"
        /\ sent.length > NameLength[call.file]
        /\ ("TRUNC" \in sent.flags) = ("w" \in call.mode)
        /\ ("CREAT" \in sent.flags) = (call.mode \cap {"w", "a"} # {})
        /\ (sent.flags \cap {"WRONLY", "RDWR"} # {})
                = (call.mode \cap {"w", "a", "+"} # {})
        /\ (sent.flags \cap {"RDONLY", "RDWR"} # {})
                = ("+" \in call.mode \/ call.mode \cap {"w", "a"} = {})

\* Behind a call that gdb answered the program halts when it was stepped or
\* when the user pressed Ctrl-C, is told of as SIGINT only then, and runs on
\* otherwise.
HaltsWhenAsked ==
    [][(phase = "request" /\ phase' # "request" /\ ~gone)
            => /\ (phase' = "halted") = (stepped \/ pressed)
               /\ (signal' = "SIGINT") = pressed]_vars

\* The hardware is not left paused while the program runs, unless the program
\* has taken its hooks away.
RunsUnpaused == phase = "running" /\ hooks => ~paused

\* Every call of a known operation returns.
CallsReturn == (call.op # "unknown" /\ call # NoCall) ~> call = NoCall

\* The answer of a file call is in the form that its interface wants, also
\* with Ctrl-C.
AnswersInForm ==
    [][(host.done /\ call' = NoCall /\ ~gone) => r0' = Answer(call, host)]_vars

\* Ctrl-C halts the program.
ControlCHalts == rx ~> phase = "halted"
=============================================================================
