----------------------------- MODULE PacketLink -----------------------------
(***************************************************************************)
(* The packets between gdb and the command loop: core/packet.c, one        *)
(* character received at a time, with gdb at the other end of a line that  *)
(* may lose what it carries.  A packet from gdb is the characters "$",     *)
(* data, "#" and two digits of a checksum; one to gdb is a unit, which gdb *)
(* receives whole or not at all.  Handling a command is one step: here it  *)
(* either answers, or resumes the program which then stops.                *)
(*                                                                         *)
(* gdb is modelled by what packet.c expects of it: it waits for "+", sends *)
(* its packet again after "-" or a timeout, and answers a packet with "+". *)
(***************************************************************************)
EXTENDS Integers, Sequences, SequencesExt

CONSTANTS
    Chars,      \* the characters on the line
    Digits,     \* sequence of those that are digits, "0" first
    Weight,     \* what each character adds to the checksum
    Unescaped,  \* the character that one stands for behind "}"
    Capacity,   \* how much data fits into the packet buffer
    Commands,   \* what gdb sends, a set of sequences of characters
    Resuming,   \* those of them that resume the program
    MaxCalls,   \* bound: how many commands gdb sends
    MaxLosses,  \* bound: how many characters and packets are lost
    Impatience  \* bound: how often gdb times out on something that is still
                \* on its way

Base == Len(Digits)
Special == {"$", "#", "}", "+", "-", "^C"}

\* Characters that are not sent as they are.
Reserved == {"#", "$", "}"}
Escapes(c) == {e \in Chars \ Reserved : Unescaped[e] = c}

ASSUME PacketLinkAssumption ==
    /\ Special \subseteq Chars
    /\ Digits \in Seq(Chars \ Special)
    /\ Base > 0
    /\ \A i, j \in 1 .. Base : Digits[i] = Digits[j] => i = j
    /\ Weight \in [Chars -> Nat]
    /\ Unescaped \in [Chars -> Chars]
    /\ Commands \subseteq Seq(Chars)
    /\ \A command \in Commands :
          \A c \in ToSet(command) \cap Reserved : Escapes(c) # {}
    /\ Resuming \subseteq Commands
    /\ {Capacity, MaxCalls, MaxLosses, Impatience} \subseteq Nat

VARIABLES
    toTarget,     \* characters on their way to the target
    toGdb,        \* acknowledgements and packets on their way to gdb
    pc,           \* where packet.c waits for a character, or what comes next
    lastChar,     \* Packet.lastChar
    data,         \* Packet.dataBuffer
    sum,          \* Packet.calculatedChecksum
    firstDigit,   \* char1 of extractExpectedChecksum
    valid,        \* isChecksumValid
    packet,       \* what Packet_SendToGDB sends until it is acknowledged
    gdb,          \* "idle", "acking" or "waiting"
    sent,         \* the command that it sent
    interrupted,  \* it has sent Ctrl-C since
    losses,       \* counts what the line has lost
    timeouts,     \* counts gdb's timeouts that were too early
    calls,        \* history: the number of the command
    executed,     \* history: how often it was executed
    answered      \* history: the number of the last one that was answered

line == <<toTarget, toGdb>>
reader == <<lastChar, data, sum, firstDigit, valid>>
host == <<gdb, sent, interrupted, timeouts, calls, answered>>
vars == <<line, pc, reader, packet, host, losses, executed>>

\* What gdb receives: "+", "-", or a packet, with the number of the command
\* that it replies to, for the properties: gdb does not see it.
Ack == [kind |-> "+", call |-> 0]
Nak == [kind |-> "-", call |-> 0]
Reply(call) == [kind |-> "packet", call |-> call]

NoChar == "none"

Init ==
    /\ toTarget = <<>> /\ toGdb = <<>>
    /\ pc = "start"
    /\ lastChar = NoChar
    /\ data = <<>> /\ sum = 0
    /\ firstDigit = NoChar
    /\ valid = FALSE
    /\ packet = Reply(0)
    /\ gdb = "idle"
    /\ sent = <<>>
    /\ interrupted = FALSE
    /\ losses = 0 /\ timeouts = 0
    /\ calls = 0 /\ executed = 0 /\ answered = 0

-----------------------------------------------------------------------------
(* Packet_GetFromGDB                                                        *)

Checksum(total) == total % (Base * Base)

\* getNextCharFromGdb
Received(c) ==
    /\ toTarget # <<>>
    /\ c = Head(toTarget)
    /\ toTarget' = Tail(toTarget)

\* waitForStartOfNextPacket looks at the last character before it waits for
\* another, and getPacketData starts with an empty buffer.
AwaitPacket(last) ==
    /\ lastChar' = last
    /\ IF last = "$"
       THEN pc' = "data" /\ data' = <<>> /\ sum' = 0
       ELSE pc' = "start" /\ UNCHANGED <<data, sum>>

WaitForStartOfNextPacket ==
    /\ pc = "start"
    /\ \E c \in Chars : Received(c) /\ AwaitPacket(c)
    /\ UNCHANGED <<toGdb, firstDigit, valid, packet, host, losses, executed>>

\* The packet is complete at "#"; at anything else it is given up.
EndOfData(c) ==
    IF c = "#"
    THEN pc' = "digit1" /\ lastChar' = c /\ UNCHANGED <<data, sum>>
    ELSE AwaitPacket(c)

\* Mutant: the end of the buffer is not noticed.
GetPacketDataUnbounded ==
    /\ pc = "data"
    /\ \E c \in Chars :
          /\ Received(c)
          /\ IF c \in {"$", "#"}
             THEN EndOfData(c)
             ELSE /\ sum' = Checksum(sum + Weight[c])
                  /\ lastChar' = c
                  /\ IF c = "}"
                     THEN pc' = "escaped" /\ UNCHANGED data
                     ELSE data' = Append(data, c) /\ UNCHANGED pc
    /\ UNCHANGED <<toGdb, firstDigit, valid, packet, host, losses, executed>>

\* Mutant: the buffer fills up and the rest is dropped.
GetPacketDataTruncated ==
    /\ pc = "data"
    /\ \E c \in Chars :
          /\ Received(c)
          /\ IF c \in {"$", "#"}
             THEN EndOfData(c)
             ELSE /\ sum' = Checksum(sum + Weight[c])
                  /\ lastChar' = c
                  /\ IF c = "}"
                     THEN pc' = "escaped" /\ UNCHANGED data
                     ELSE /\ data' = IF Len(data) = Capacity THEN data
                                     ELSE Append(data, c)
                          /\ UNCHANGED pc
    /\ UNCHANGED <<toGdb, firstDigit, valid, packet, host, losses, executed>>

GetPacketData ==
    /\ pc = "data"
    /\ \E c \in Chars :
          /\ Received(c)
          /\ IF Len(data) = Capacity \/ c \in {"$", "#"}
             THEN EndOfData(c)
             ELSE /\ sum' = Checksum(sum + Weight[c])
                  /\ lastChar' = c
                  /\ IF c = "}"
                     THEN pc' = "escaped" /\ UNCHANGED data
                     ELSE data' = Append(data, c) /\ UNCHANGED pc
    /\ UNCHANGED <<toGdb, firstDigit, valid, packet, host, losses, executed>>

GetEscapedCharacter ==
    /\ pc = "escaped"
    /\ \E c \in Chars :
          /\ Received(c)
          /\ IF c \in {"$", "#"}
             THEN EndOfData(c)
             ELSE /\ sum' = Checksum(sum + Weight[c])
                  /\ lastChar' = c
                  /\ data' = Append(data, Unescaped[c])
                  /\ pc' = "data"
    /\ UNCHANGED <<toGdb, firstDigit, valid, packet, host, losses, executed>>

IsDigit(c) == c \in ToSet(Digits)
Digit(c) == CHOOSE n \in 0 .. Base - 1 : Digits[n + 1] = c

\* Mutant: HexCharToNibble gives 0 for what is not a digit.
MatchesUnlessWrongDigit(first, second) ==
    /\ (IF IsDigit(first) THEN Digit(first) ELSE 0) * Base
            + (IF IsDigit(second) THEN Digit(second) ELSE 0) = sum

\* Anything but a digit is a mismatch.
MatchesChecksum(first, second) ==
    /\ IsDigit(first) /\ IsDigit(second)
    /\ Digit(first) * Base + Digit(second) = sum

ExtractFirstDigit ==
    /\ pc = "digit1"
    /\ \E c \in Chars : Received(c) /\ firstDigit' = c /\ lastChar' = c
    /\ pc' = "digit2"
    /\ UNCHANGED <<toGdb, data, sum, valid, packet, host, losses, executed>>

ExtractSecondDigit ==
    /\ pc = "digit2"
    /\ \E c \in Chars :
          /\ Received(c)
          /\ lastChar' = c
          /\ valid' = MatchesChecksum(firstDigit, c)
    /\ pc' = "complete"
    /\ UNCHANGED <<toGdb, data, sum, firstDigit, packet, host, losses, executed>>

\* getMostRecentPacket: while there is more to receive this is not the most
\* recent packet, and is dropped whether or not it is valid.
DropPacket ==
    /\ pc = "complete"
    /\ toTarget # <<>>
    /\ AwaitPacket(lastChar)
    /\ UNCHANGED <<line, firstDigit, valid, packet, host, losses, executed>>

SendNak ==
    /\ pc = "complete"
    /\ toTarget = <<>>
    /\ ~valid
    /\ toGdb' = Append(toGdb, Nak)
    /\ AwaitPacket(lastChar)
    /\ UNCHANGED <<toTarget, firstDigit, valid, packet, host, losses, executed>>

SendAck ==
    /\ pc = "complete"
    /\ toTarget = <<>>
    /\ valid
    /\ toGdb' = Append(toGdb, Ack)
    /\ pc' = "command"
    /\ UNCHANGED <<toTarget, reader, packet, host, losses, executed>>

-----------------------------------------------------------------------------
(* handleGDBCommand, and the stop that follows a command which resumes.     *)

\* sendPacket, from initPacketStructure in Packet_SendToGDB.
SendPacket(p) ==
    /\ packet' = p
    /\ toGdb' = Append(toGdb, p)
    /\ lastChar' = NoChar
    /\ pc' = "sent"

HandleCommand ==
    /\ pc = "command"
    /\ executed' = executed + 1
    /\ IF data \in Resuming
       THEN pc' = "running" /\ UNCHANGED <<toGdb, lastChar, packet>>
       ELSE SendPacket(Reply(calls))
    /\ UNCHANGED <<toTarget, data, sum, firstDigit, valid, host, losses>>

\* Mutant: gdb is not told of the stop.
ProgramStopsSilently ==
    /\ pc = "running"
    /\ AwaitPacket(NoChar)
    /\ UNCHANGED <<line, firstDigit, valid, packet, host, losses, executed>>

\* The program hits a breakpoint, or a character interrupts it.
ProgramStops ==
    /\ pc = "running"
    /\ SendPacket(Reply(calls))
    /\ UNCHANGED <<toTarget, data, sum, firstDigit, valid, host, losses, executed>>

-----------------------------------------------------------------------------
(* Packet_SendToGDB                                                         *)

SkipControlC ==
    /\ pc = "sent"
    /\ Received("^C")
    /\ lastChar' = "^C"
    /\ UNCHANGED <<toGdb, pc, data, sum, firstDigit, valid, packet, host, losses,
                   executed>>

\* "$" will do: gdb has something else to say.
EndsWait == {"+", "$"}

\* Mutant: the "$" is taken for the start of the next packet.
PacketAcknowledgedByNext ==
    /\ pc = "sent"
    /\ \E c \in EndsWait : Received(c) /\ AwaitPacket(c)
    /\ UNCHANGED <<toGdb, firstDigit, valid, packet, host, losses, executed>>

\* Packet_GetFromGDB forgets the last character: if it was "$", the packet that
\* it started is not received.
PacketAcknowledged ==
    /\ pc = "sent"
    /\ \E c \in EndsWait : Received(c)
    /\ AwaitPacket(NoChar)
    /\ UNCHANGED <<toGdb, firstDigit, valid, packet, host, losses, executed>>

\* Mutant: "-" is skipped like Ctrl-C.
SendPacketOnce ==
    /\ pc = "sent"
    /\ \E c \in Chars \ (EndsWait \cup {"^C"}) : Received(c) /\ lastChar' = c
    /\ UNCHANGED <<toGdb, pc, data, sum, firstDigit, valid, packet, host, losses,
                   executed>>

SendPacketAgain ==
    /\ pc = "sent"
    /\ \E c \in Chars \ (EndsWait \cup {"^C"}) : Received(c) /\ lastChar' = c
    /\ toGdb' = Append(toGdb, packet)
    /\ UNCHANGED <<pc, data, sum, firstDigit, valid, packet, host, losses,
                   executed>>

-----------------------------------------------------------------------------
(* gdb, and the line.                                                       *)

\* A reserved character is sent as "}" and one that stands for it there.
Escape(c) == CHOOSE e \in Escapes(c) : TRUE

Weighed(total, c) == (total + Weight[c]) % (Base * Base)

\* What gdb sends after the "$" when n characters of the command are left, for
\* each checksum of what it has sent.
Rest(command) ==
    LET rest[n \in 0 .. Len(command)] ==
            [total \in 0 .. Base * Base - 1 |->
                LET c == command[Len(command) - n + 1]
                IN  IF n = 0
                    THEN <<"#", Digits[(total \div Base) + 1], Digits[(total % Base) + 1]>>
                    ELSE IF c \in Reserved
                    THEN <<"}", Escape(c)>>
                            \o rest[n - 1][Weighed(Weighed(total, "}"), Escape(c))]
                    ELSE <<c>> \o rest[n - 1][Weighed(total, c)]]
    IN  rest

Frame(command) == <<"$">> \o Rest(command)[Len(command)][0]

GdbSends(chars) == toTarget' = toTarget \o chars

Call(command) ==
    /\ gdb = "idle"
    /\ calls < MaxCalls
    /\ GdbSends(Frame(command))
    /\ gdb' = "acking"
    /\ sent' = command
    /\ interrupted' = FALSE
    /\ calls' = calls + 1
    /\ executed' = 0
    /\ UNCHANGED <<toGdb, pc, reader, packet, losses, timeouts, answered>>

GdbReceived(x) ==
    /\ toGdb # <<>>
    /\ x = Head(toGdb)
    /\ toGdb' = Tail(toGdb)

IsPacket(x) == x.kind = "packet"

GdbTakesAck ==
    /\ gdb = "acking"
    /\ GdbReceived(Ack)
    /\ gdb' = "waiting"
    /\ UNCHANGED <<toTarget, pc, reader, packet, sent, interrupted, timeouts,
                   calls, answered, losses, executed>>

GdbSendsAgain ==
    /\ gdb = "acking"
    /\ GdbReceived(Nak)
    /\ GdbSends(Frame(sent))
    /\ UNCHANGED <<pc, reader, packet, host, losses, executed>>

\* A packet instead of "+" is acknowledged and ignored.
GdbIgnoresPacket ==
    /\ gdb = "acking"
    /\ \E x \in ToSet(toGdb) : IsPacket(x) /\ GdbReceived(x)
    /\ GdbSends(<<"+">>)
    /\ UNCHANGED <<pc, reader, packet, host, losses, executed>>

\* While it waits for a packet, what comes before one is ignored.
GdbTakesReply ==
    /\ gdb = "waiting"
    /\ \E i \in DOMAIN toGdb :
          /\ IsPacket(toGdb[i])
          /\ \A j \in 1 .. i - 1 : ~IsPacket(toGdb[j])
          /\ answered' = toGdb[i].call
          /\ toGdb' = SubSeq(toGdb, i + 1, Len(toGdb))
    /\ GdbSends(<<"+">>)
    /\ gdb' = "idle"
    /\ UNCHANGED <<pc, reader, packet, sent, interrupted, timeouts, calls, losses,
                   executed>>

\* The user wants the program back.
GdbInterrupts ==
    /\ gdb = "waiting"
    /\ sent \in Resuming
    /\ ~interrupted
    /\ interrupted' = TRUE
    /\ GdbSends(<<"^C">>)
    /\ UNCHANGED <<toGdb, pc, reader, packet, gdb, sent, timeouts, calls,
                   answered, losses, executed>>

\* Nothing that gdb could be waiting for is on its way.
Quiet ==
    /\ toTarget = <<>>
    /\ pc \notin {"complete", "command"}
    /\ IF gdb = "acking" THEN toGdb = <<>> ELSE \A i \in DOMAIN toGdb : ~IsPacket(toGdb[i])

TimesOut ==
    /\ \/ Quiet /\ UNCHANGED timeouts
       \/ ~Quiet /\ timeouts < Impatience /\ timeouts' = timeouts + 1
    /\ UNCHANGED <<toGdb, pc, reader, packet, gdb, sent, interrupted, calls,
                   answered, losses, executed>>

GdbTimesOutOnAck ==
    /\ gdb = "acking"
    /\ GdbSends(Frame(sent))
    /\ TimesOut

\* It waits for ever for a program that it has resumed.
GdbTimesOutOnReply ==
    /\ gdb = "waiting"
    /\ sent \notin Resuming
    /\ GdbSends(<<"-">>)
    /\ TimesOut

LoseCharacter ==
    /\ losses < MaxLosses
    /\ losses' = losses + 1
    /\ \E i \in DOMAIN toTarget : toTarget' = RemoveAt(toTarget, i)
    /\ UNCHANGED <<toGdb, pc, reader, packet, host, executed>>

LoseReply ==
    /\ losses < MaxLosses
    /\ losses' = losses + 1
    /\ \E i \in DOMAIN toGdb : toGdb' = RemoveAt(toGdb, i)
    /\ UNCHANGED <<toTarget, pc, reader, packet, host, executed>>

-----------------------------------------------------------------------------

GetFromGdb ==
    \/ WaitForStartOfNextPacket
    \/ GetPacketData
    \/ GetEscapedCharacter
    \/ ExtractFirstDigit
    \/ ExtractSecondDigit
    \/ DropPacket
    \/ SendNak
    \/ SendAck

SendToGdb == SkipControlC \/ PacketAcknowledged \/ SendPacketAgain

GdbNext ==
    \/ \E command \in Commands : Call(command)
    \/ GdbInterrupts
    \/ GdbTakesAck
    \/ GdbSendsAgain
    \/ GdbIgnoresPacket
    \/ GdbTakesReply
    \/ GdbTimesOutOnAck
    \/ GdbTimesOutOnReply

Next ==
    \/ GetFromGdb
    \/ HandleCommand
    \/ ProgramStops
    \/ SendToGdb
    \/ GdbNext
    \/ LoseCharacter
    \/ LoseReply

\* The target polls its receiver, gdb reads what comes and times out, a
\* character interrupts the program.
Fairness ==
    /\ WF_vars(GetFromGdb \/ HandleCommand \/ SendToGdb)
    /\ WF_vars(ProgramStops /\ toTarget # <<>>)
    /\ WF_vars(GdbTakesAck \/ GdbSendsAgain \/ GdbIgnoresPacket \/ GdbTakesReply)
    /\ WF_vars(GdbTimesOutOnAck /\ Quiet)
    /\ WF_vars(GdbTimesOutOnReply /\ Quiet)

Spec == Init /\ [][Next]_vars /\ Fairness

-----------------------------------------------------------------------------
(* Properties.                                                              *)

TypeOK ==
    /\ toTarget \in Seq(Chars)
    /\ \A x \in ToSet(toGdb) : x \in {Ack, Nak} \cup {Reply(n) : n \in 1 .. MaxCalls}
    /\ pc \in {"start", "data", "escaped", "digit1", "digit2", "complete",
               "command", "running", "sent"}
    /\ lastChar \in Chars \cup {NoChar}
    /\ data \in Seq(Chars)
    /\ sum \in 0 .. Base * Base - 1
    /\ gdb \in {"idle", "acking", "waiting"}

\* The data buffer is never written beyond its end, whatever arrives.
DataFits == Len(data) <= Capacity

\* What the monitor executes is what gdb is waiting for: never a command with
\* characters missing, never one in which two were run together, and never an
\* earlier one that gdb sent again before it was answered.
ExecutesWhatWasSent == pc = "command" => data = sent /\ gdb # "idle"

\* Every command is executed once, or again if the line has lost something
\* since, and the reply that gdb takes for its own is its own.
Remote == INSTANCE RemoteCall
              WITH call <- calls, waiting <- gdb # "idle", lossy <- losses > 0
Delivery == Remote!Spec

\* gdb gets an answer to everything that it sends, unless it has resumed a
\* program and does not interrupt it.
CallsReturn == (gdb # "idle" /\ sent \notin Resuming) ~> gdb = "idle"

\* Ctrl-C halts the program and is reported.  The report of a stop is sent
\* once: nothing asks for it again when it is lost.
InterruptReturns == interrupted ~> (gdb = "idle" \/ losses > 0)

\* No exception: when a stop was sent and the user interrupts, gdb learns of it,
\* also when the line has lost the report of the stop.
EveryStopIsReported == (interrupted /\ pc = "sent") ~> gdb = "idle"
=============================================================================
