------------------------------ MODULE HostCalls ------------------------------
(***************************************************************************)
(* The semihosting calls of a program and what it expects of them: the     *)
(* operations of the ARM interface (BKPT 0xAB) and those of the newlib     *)
(* stubs, what each asks of the host that gdb runs on, and in which form   *)
(* each wants its answer.  SemihostCall promises with them what Semihost   *)
(* does.                                                                   *)
(***************************************************************************)
EXTENDS Integers

CONSTANTS
    Calls,        \* the calls that the program makes
    NameLength,   \* the length of each file name
    Errors,       \* what the host's errno may be, with EINTR
    MaxLength     \* bound: the length of a file

\* What the host may ever be asked for, and what is answered on the target.
HostOps == {"open", "close", "read", "write", "lseek", "fstat", "stat",
            "unlink", "rename"}
LocalOps == {"is tty", "uid", "errno", "set hooks"}

\* Two operations of the ARM interface have a name of their own.
ArmOps == {"open", "close", "read", "write", "seek", "length", "unlink",
           "rename", "is tty", "uid", "errno", "unknown"}
NewlibOps == HostOps \cup {"errno", "set hooks"}

\* file and other are names or a descriptor, whatever the operation takes;
\* size is how much is to be transferred; mode is how a file is opened, from
\* where it is sought, or the hooks that are registered.
NoFile == "none"
Stdout == "stdout"
ArmModes == SUBSET {"w", "a", "+", "b"}
NewlibModes ==
    SUBSET {"RDONLY", "WRONLY", "RDWR", "CREAT", "TRUNC", "APPEND"}
        \cup {{"SEEK_SET"}, {"SEEK_CUR"}, {"SEEK_END"}, {"hooks"}}

IsCall(c) ==
    /\ c.abi \in {"arm", "newlib"}
    /\ c.op \in IF c.abi = "arm" THEN ArmOps ELSE NewlibOps
    /\ {c.file, c.other} \subseteq DOMAIN NameLength
    /\ c.size \in Nat
    /\ c.mode \in IF c.abi = "arm" THEN ArmModes ELSE NewlibModes

EINTR == 4

ASSUME HostCallsAssumption ==
    /\ \A c \in Calls : IsCall(c)
    /\ {NoFile, Stdout} \subseteq DOMAIN NameLength
    /\ \A name \in DOMAIN NameLength : NameLength[name] \in Nat
    /\ Errors \subseteq Nat \ {0}
    /\ MaxLength \in Nat

NoCall == [abi |-> "none", op |-> "none", file |-> NoFile, other |-> NoFile,
           size |-> 0, mode |-> {}]

IsConsoleWrite(c) == c.op = "write" /\ c.file = Stdout
IsHostCall(c) ==
    c.op \in HostOps \cup {"seek", "length"} /\ ~IsConsoleWrite(c)

\* The host has not acted on the call, or it has, with this outcome: length
\* is that of the file, for a call that asks for it.
NotDone == [done |-> FALSE, code |-> 0, errno |-> 0, length |-> 0]

Success(code, length) ==
    [done |-> TRUE, code |-> code, errno |-> 0, length |-> length]
Failure(errno) == [done |-> TRUE, code |-> -1, errno |-> errno, length |-> 0]

\* What the host may do of a call.
Outcomes(c) ==
    {Failure(e) : e \in Errors}
        \cup CASE c.op \in {"read", "write"}   -> {Success(n, 0) : n \in 0 .. c.size}
               [] c.op \in {"length", "fstat", "stat"} ->
                     {Success(0, n) : n \in 0 .. MaxLength}
               [] OTHER                        -> {Success(0, 0)}

\* The answer that the program expects in R0: the ARM interface wants the
\* number of bytes that were not transferred, and the length of a file where
\* newlib has it in the buffer of fstat.
Answer(c, o) ==
    IF c.abi = "arm" /\ c.op \in {"read", "write"} /\ o.code >= 0
    THEN c.size - o.code
    ELSE IF c.op = "length" /\ o.code = 0 THEN o.length
    ELSE o.code

\* errno asks for the last error; the other local calls succeed.
LocalAnswer(c, errno) == IF c.op = "errno" THEN errno ELSE 0

\* newlib's calls leave an errno, also the one that reads it.
LocalErrno(c, errno) == IF c.abi = "newlib" THEN 0 ELSE errno
=============================================================================
