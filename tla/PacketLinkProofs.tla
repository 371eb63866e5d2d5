-------------------------- MODULE PacketLinkProofs --------------------------
(***************************************************************************)
(* The packet buffer of PacketLink is never written beyond its end, for    *)
(* every size of the buffer and whatever the line delivers: characters of  *)
(* any packets, in any order and any number.  A character behind "}" is    *)
(* written without another look at the end of the buffer, so that the      *)
(* invariant says that there was room for it when the "}" came.            *)
(*                                                                         *)
(* On a line that loses nothing, every command is executed as it was sent, *)
(* once, and gets its own answer.                                          *)
(***************************************************************************)
EXTENDS PacketLink, SequenceTheorems, WellFoundedInduction, TLAPS

RoomForEscaped == pc = "escaped" => Len(data) < Capacity

BufferInv == data \in Seq(Chars) /\ DataFits /\ RoomForEscaped

\* An empty buffer has room for nothing and more.
LEMMA EmptyFits == <<>> \in Seq(Chars) /\ Len(<<>>) = 0 /\ Capacity \in Nat
  BY PacketLinkAssumption

\* One more character fits where there is room.
LEMMA AppendFits ==
    ASSUME NEW c \in Chars, data \in Seq(Chars), Len(data) < Capacity
    PROVE  Append(data, c) \in Seq(Chars) /\ Len(Append(data, c)) <= Capacity
  BY EmptyFits

\* waitForStartOfNextPacket and getPacketData begin with an empty buffer.
LEMMA AwaitFits ==
    ASSUME BufferInv, NEW last, AwaitPacket(last)
    PROVE  BufferInv' /\ pc' # "escaped"
  <1>1. CASE last = "$"
    <2>1. data' = <<>> /\ pc' = "data"
      BY <1>1, Zenon DEF AwaitPacket
    <2> QED
      BY <2>1, EmptyFits DEF BufferInv, DataFits, RoomForEscaped
  <1>2. CASE last # "$"
    <2>1. data' = data /\ pc' = "start"
      BY <1>2, Zenon DEF AwaitPacket
    <2> QED
      BY <2>1 DEF BufferInv, DataFits, RoomForEscaped
  <1> QED
    BY <1>1, <1>2

\* The packet ends, or is given up.
LEMMA EndFits ==
    ASSUME BufferInv, NEW c, EndOfData(c)
    PROVE  BufferInv'
  <1>1. CASE c = "#"
    <2>1. data' = data /\ pc' = "digit1"
      BY <1>1, Zenon DEF EndOfData
    <2> QED
      BY <2>1 DEF BufferInv, DataFits, RoomForEscaped
  <1>2. CASE c # "#"
    <2>1. AwaitPacket(c)
      BY <1>2, Zenon DEF EndOfData
    <2> QED
      BY <2>1, AwaitFits
  <1> QED
    BY <1>1, <1>2

\* No step of the system writes beyond the end of the buffer.
LEMMA BufferStep ==
    ASSUME BufferInv, [Next]_vars
    PROVE  BufferInv'
  <1>1. CASE data' = data /\ (pc' = pc \/ pc' # "escaped")
    BY <1>1 DEF BufferInv, DataFits, RoomForEscaped
  <1>2. ASSUME NEW last, AwaitPacket(last) PROVE BufferInv'
    BY <1>2, AwaitFits
  <1>3. CASE GetPacketData
    <2>1. PICK c \in Chars :
             IF Len(data) = Capacity \/ c \in {"$", "#"}
             THEN EndOfData(c)
             ELSE IF c = "}"
                  THEN pc' = "escaped" /\ data' = data
                  ELSE data' = Append(data, c) /\ pc' = pc
      BY <1>3, Zenon DEF GetPacketData
    <2>2. pc = "data"
      BY <1>3, Zenon DEF GetPacketData
    <2>3. CASE Len(data) = Capacity \/ c \in {"$", "#"}
      BY <2>1, <2>3, EndFits
    <2>4. CASE ~(Len(data) = Capacity \/ c \in {"$", "#"})
      <3>1. data \in Seq(Chars) /\ Len(data) < Capacity
        BY <2>4, EmptyFits DEF BufferInv, DataFits
      <3>2. CASE c = "}"
        <4>1. data' = data
          BY <2>1, <2>4, <3>2, Zenon
        <4> QED
          BY <3>1, <4>1 DEF BufferInv, DataFits, RoomForEscaped
      <3>3. CASE c # "}"
        <4>1. data' = Append(data, c) /\ pc' = "data"
          BY <2>1, <2>2, <2>4, <3>3, Zenon
        <4> QED
          BY <3>1, <4>1, AppendFits DEF BufferInv, DataFits, RoomForEscaped
      <3> QED
        BY <3>2, <3>3
    <2> QED
      BY <2>3, <2>4
  <1>4. CASE GetEscapedCharacter
    <2>1. PICK c \in Chars :
             \/ EndOfData(c)
             \/ data' = Append(data, Unescaped[c]) /\ pc' = "data"
      BY <1>4, Zenon DEF GetEscapedCharacter
    <2>2. data \in Seq(Chars) /\ Len(data) < Capacity
      BY <1>4, Zenon DEF GetEscapedCharacter, BufferInv, RoomForEscaped
    <2>3. Unescaped[c] \in Chars
      BY PacketLinkAssumption
    <2>4. CASE EndOfData(c)
      BY <2>4, EndFits
    <2>5. CASE data' = Append(data, Unescaped[c]) /\ pc' = "data"
      BY <2>2, <2>3, <2>5, AppendFits DEF BufferInv, DataFits, RoomForEscaped
    <2> QED
      BY <2>1, <2>4, <2>5
  <1>5. CASE \/ WaitForStartOfNextPacket \/ DropPacket \/ SendNak
             \/ PacketAcknowledged
    BY <1>2, <1>5, Zenon
    DEF WaitForStartOfNextPacket, DropPacket, SendNak, PacketAcknowledged
  <1>6. CASE \/ ExtractFirstDigit \/ ExtractSecondDigit \/ SendAck
             \/ HandleCommand \/ ProgramStops \/ SkipControlC \/ SendPacketAgain
    <2>1. data' = data /\ (pc' = pc \/ pc' # "escaped")
      BY <1>6
      DEF ExtractFirstDigit, ExtractSecondDigit, SendAck, HandleCommand,
          ProgramStops, SkipControlC, SendPacketAgain, SendPacket, reader
    <2> QED
      BY <1>1, <2>1
  <1>7. CASE GdbNext \/ LoseCharacter \/ LoseReply \/ UNCHANGED vars
    <2>1. data' = data /\ pc' = pc
      BY <1>7
      DEF GdbNext, Call, GdbInterrupts, GdbTakesAck, GdbSendsAgain,
          GdbIgnoresPacket, GdbTakesReply, GdbTimesOutOnAck,
          GdbTimesOutOnReply, TimesOut, LoseCharacter, LoseReply, reader, vars
    <2> QED
      BY <1>1, <2>1
  <1> QED
    BY <1>3, <1>4, <1>5, <1>6, <1>7, Zenon DEF Next, GetFromGdb, SendToGdb

\* Whatever arrives, the data of a packet fit into the buffer.
THEOREM BufferIsNotOverrun == Spec => []DataFits
  <1>1. Init => BufferInv
    BY EmptyFits DEF Init, BufferInv, DataFits, RoomForEscaped
  <1>2. BufferInv /\ [Next]_vars => BufferInv'
    BY BufferStep
  <1>3. BufferInv => DataFits
    BY DEF BufferInv
  <1> QED
    BY <1>1, <1>2, <1>3, PTL DEF Spec

-----------------------------------------------------------------------------
(* A line that loses nothing and a gdb that waits for what is on its way:   *)
(* then every command arrives as it was sent and is executed once, and the  *)
(* reply that gdb takes is the one to its command, for every alphabet with  *)
(* its checksums and escapes, every set of commands, those among them that  *)
(* do not fit into the buffer, and Ctrl-C at any time.                      *)

Lossless == MaxLosses = 0 /\ Impatience = 0

\* The same of what has happened so far, on any line.
Undisturbed == losses = 0 /\ timeouts = 0

Sums == 0 .. Base * Base - 1

\* How many characters of the command have not been received as data.
Left == Len(sent) - Len(data)

\* The next character of the command.
NextChar == sent[Len(data) + 1]

HighDigit(total) == Digits[(total \div Base) + 1]
LowDigit(total) == Digits[(total % Base) + 1]

\* Part of the command has been received, and the rest is on its way.
ReceivingData ==
    /\ pc = "data"
    /\ Len(data) <= Len(sent)
    /\ toTarget = Rest(sent)[Left][sum]

ReceivingEscaped ==
    /\ pc = "escaped"
    /\ Len(data) < Len(sent)
    /\ NextChar \in Reserved
    /\ toTarget =
          <<Escape(NextChar)>> \o Rest(sent)[Left - 1][Weighed(sum, Escape(NextChar))]

\* All of it has been received, and the digits of its checksum follow.
ReceivingChecksum ==
    /\ data = sent
    /\ \/ pc = "digit1" /\ toTarget = <<HighDigit(sum), LowDigit(sum)>>
       \/ pc = "digit2" /\ toTarget = <<LowDigit(sum)>> /\ firstDigit = HighDigit(sum)
       \/ pc = "complete" /\ toTarget = <<>> /\ valid

Receiving ==
    /\ sum \in Sums
    /\ data = SubSeq(sent, 1, Len(data))
    /\ ReceivingData \/ ReceivingEscaped \/ ReceivingChecksum

\* A command that does not fit is passed over to the next "$".
PassedOver == pc = "start" /\ toTarget \in Seq(Chars \ {"$"})

\* The last reply has not been acknowledged yet.
BeforeAck == {<<"+">>, <<"^C", "+">>}

\* gdb waits for "+": its command is on its way.
CommandOnItsWay ==
    \/ pc = "sent" /\ \E ahead \in BeforeAck : toTarget = ahead \o Frame(sent)
    \/ pc = "start" /\ toTarget = Frame(sent)
    \/ Receiving
    \/ PassedOver

\* The target has the command, and what it has sent since.
Executing(acks, replies) ==
    \/ /\ pc = "command" /\ data = sent /\ executed = 0
       /\ toGdb = acks
    \/ /\ pc = "running" /\ sent \in Resuming /\ executed = 1
       /\ toGdb = acks
    \/ /\ pc = "sent" /\ executed = 1
       /\ toGdb = replies

Idle ==
    /\ gdb = "idle"
    /\ toGdb = <<>>
    /\ \/ pc = "start" /\ toTarget = <<>>
       \/ pc = "sent" /\ toTarget \in BeforeAck

Acking ==
    /\ gdb = "acking"
    /\ sent \in Commands
    /\ \/ executed = 0 /\ toGdb = <<>> /\ CommandOnItsWay
       \/ toTarget = <<>> /\ Executing(<<Ack>>, <<Ack, Reply(calls)>>)

Waiting ==
    /\ gdb = "waiting"
    /\ sent \in Commands
    /\ \/ toTarget = <<>>
       \/ interrupted /\ toTarget = <<"^C">>
    /\ Executing(<<>>, <<Reply(calls)>>)

LosslessInv ==
    /\ Undisturbed
    /\ Idle \/ Acking \/ Waiting

-----------------------------------------------------------------------------
(* The packet that gdb sends.                                               *)

\* Induction over the natural numbers, for a set instead of a predicate.
LEMMA Induction ==
    ASSUME NEW S,
           0 \in S,
           \A n \in Nat : n \in S => n + 1 \in S
    PROVE  Nat \subseteq S
<1>. SUFFICES ASSUME Nat \ S # {} PROVE FALSE
  OBVIOUS
<1>1. PICK n \in Nat \ S : \A k \in Nat \ S : <<k, n>> \notin OpToRel(<, Nat)
  BY NatLessThanWellFounded, WFMin, Zenon
<1>2. \A k \in Nat \ S : ~(k < n)
  BY <1>1 DEF OpToRel
<1>3. n - 1 \in Nat /\ n - 1 < n
  OBVIOUS
<1>. QED
  BY <1>2, <1>3

\* What is sent when k characters are left, given what is sent for fewer.
With(before, command, k) ==
    [total \in 0 .. Base * Base - 1 |->
        LET c == command[Len(command) - k + 1]
        IN  IF k = 0
            THEN <<"#", Digits[(total \div Base) + 1], Digits[(total % Base) + 1]>>
            ELSE IF c \in Reserved
            THEN <<"}", Escape(c)>>
                    \o before[k - 1][Weighed(Weighed(total, "}"), Escape(c))]
            ELSE <<c>> \o before[k - 1][Weighed(total, c)]]

IsRest(f, command, n) == f = [k \in 0 .. n |-> With(f, command, k)]

\* Only what is sent for one character fewer counts.
LEMMA WithIsLocal ==
    ASSUME NEW f, NEW g, NEW command, NEW k, k # 0 => f[k - 1] = g[k - 1]
    PROVE  With(f, command, k) = With(g, command, k)
<1>1. CASE k = 0
  BY <1>1 DEF With
<1>2. CASE k # 0
  BY <1>2, Zenon DEF With
<1>. QED
  BY <1>1, <1>2

\* There is such a function for commands of any length.
LEMMA RestExists ==
    ASSUME NEW command, NEW n \in Nat
    PROVE  \E f : IsRest(f, command, n)
<1>. DEFINE S == {k \in Nat : \E f : IsRest(f, command, k)}
<1>1. 0 \in S
  <2>. DEFINE g == [k \in 0 .. 0 |-> With(<<>>, command, k)]
  <2>1. \A k \in 0 .. 0 : With(<<>>, command, k) = With(g, command, k)
    BY WithIsLocal
  <2>2. IsRest(g, command, 0)
    BY <2>1 DEF IsRest
  <2>. QED
    BY <2>2
<1>2. ASSUME NEW k \in Nat, k \in S
      PROVE  k + 1 \in S
  <2>1. PICK f : IsRest(f, command, k)
    BY <1>2
  <2>. DEFINE g == [i \in 0 .. k + 1 |->
                       IF i = k + 1 THEN With(f, command, i) ELSE f[i]]
  <2>2. ASSUME NEW i \in 0 .. k + 1
        PROVE  g[i] = With(g, command, i)
    <3>. HIDE DEF g
    <3>1. g[i] = IF i = k + 1 THEN With(f, command, i) ELSE f[i]
      BY DEF g
    <3>2. i # 0 => f[i - 1] = g[i - 1]
      BY DEF g
    <3>3. i # k + 1 => f[i] = With(f, command, i)
      BY <2>1 DEF IsRest
    <3>4. With(f, command, i) = With(g, command, i)
      BY <3>2, WithIsLocal
    <3>. QED
      BY <3>1, <3>3, <3>4
  <2>3. IsRest(g, command, k + 1)
    BY <2>2 DEF IsRest
  <2>. QED
    BY <2>3
<1>. HIDE DEF S
<1>3. Nat \subseteq S
  BY <1>1, <1>2, Induction
<1>. QED
  BY <1>3 DEF S

\* Rest is that function.
LEMMA RestIs ==
    ASSUME NEW command, Len(command) \in Nat, NEW k \in 0 .. Len(command)
    PROVE  Rest(command)[k] = With(Rest(command), command, k)
<1>. DEFINE g == CHOOSE f : IsRest(f, command, Len(command))
<1>1. IsRest(g, command, Len(command))
  BY RestExists
<1>2. Rest(command) = g
  BY Zenon DEF Rest, IsRest, With
<1>. HIDE DEF g
<1>. QED
  BY <1>1, <1>2 DEF IsRest

\* The modulus of the checksum.
LEMMA Bases == Base \in Nat \ {0} /\ Base * Base \in Nat \ {0}
<1>1. Base \in Nat \ {0}
  BY PacketLinkAssumption, LenProperties DEF Base
<1>. QED
  BY <1>1

\* A checksum is one whatever is added to it.
LEMMA Summed ==
    ASSUME NEW total \in Sums, NEW c \in Chars
    PROVE  /\ Weighed(total, c) \in Sums
           /\ Checksum(total + Weight[c]) = Weighed(total, c)
<1>1. Weight[c] \in Nat /\ total \in Nat
  BY PacketLinkAssumption, Bases DEF Sums
<1>2. \A a \in Nat, b \in Nat \ {0} : a % b \in 0 .. b - 1
  OBVIOUS
<1>3. (total + Weight[c]) % (Base * Base) \in 0 .. Base * Base - 1
  <2>. DEFINE m == Base * Base
              a == total + Weight[c]
  <2>1. a \in Nat /\ m \in Nat \ {0}
    BY <1>1, Bases
  <2>. HIDE DEF m, a
  <2>2. a % m \in 0 .. m - 1
    BY <1>2, <2>1
  <2>. QED
    BY <2>2 DEF m, a
<1>. QED
  BY <1>3 DEF Weighed, Checksum, Sums

\* Two digits make a checksum.
LEMMA TwoDigits ==
    ASSUME NEW total \in Sums
    PROVE  /\ total \div Base \in 0 .. Base - 1
           /\ total % Base \in 0 .. Base - 1
           /\ ((total \div Base) * Base) + (total % Base) = total
<1>1. ASSUME NEW b \in Nat \ {0}, NEW a \in 0 .. b * b - 1
      PROVE  /\ a % b \in 0 .. b - 1
             /\ ((a \div b) * b) + (a % b) = a
             /\ a \div b \in Nat
  OBVIOUS
<1>2. ASSUME NEW b \in Nat \ {0}, NEW q \in Nat, q >= b
      PROVE  q * b >= b * b
  BY <1>2
<1>3. ASSUME NEW b \in Nat \ {0}, NEW a \in 0 .. b * b - 1
      PROVE  a \div b \in 0 .. b - 1
  <2>. DEFINE q == a \div b
  <2>1. q \in Nat /\ (q * b) + (a % b) = a /\ a % b \in 0 .. b - 1
    BY <1>1
  <2>2. q >= b => q * b >= b * b
    BY <1>2, <2>1
  <2>. HIDE DEF q
  <2>3. q * b \in Nat /\ b * b \in Nat /\ a < b * b
    BY <2>1
  <2>. QED
    BY <2>1, <2>2, <2>3 DEF q
<1>. QED
  BY <1>1, <1>3, Bases DEF Sums

\* HexCharToNibble tells the digits apart.
LEMMA DigitOf ==
    ASSUME NEW n \in 0 .. Base - 1
    PROVE  IsDigit(Digits[n + 1]) /\ Digit(Digits[n + 1]) = n
           /\ Digits[n + 1] \in Chars \ Special
<1>1. n + 1 \in 1 .. Base /\ DOMAIN Digits = 1 .. Base
  BY PacketLinkAssumption, LenProperties, Bases DEF Base
<1>2. \A k \in 0 .. Base - 1 : Digits[k + 1] = Digits[n + 1] => k = n
  <2>. TAKE k \in 0 .. Base - 1
  <2>1. k + 1 \in 1 .. Base
    BY Bases
  <2>. QED
    BY <1>1, <2>1, PacketLinkAssumption
<1>3. Digit(Digits[n + 1]) = n
  BY <1>2 DEF Digit
<1>4. Digits[n + 1] \in Chars \ Special
  BY <1>1, PacketLinkAssumption, ElementOfSeq DEF Base
<1>. QED
  BY <1>1, <1>3, <1>4 DEF IsDigit, ToSet

\* The digits that gdb sends are those of the checksum.
LEMMA DigitsMatch ==
    ASSUME NEW total \in Sums
    PROVE  /\ sum = total => MatchesChecksum(HighDigit(total), LowDigit(total))
           /\ HighDigit(total) \in Chars \ Special
           /\ LowDigit(total) \in Chars \ Special
<1>1. /\ total \div Base \in 0 .. Base - 1
      /\ total % Base \in 0 .. Base - 1
      /\ ((total \div Base) * Base) + (total % Base) = total
  BY TwoDigits
<1>. QED
  BY <1>1, DigitOf DEF MatchesChecksum, HighDigit, LowDigit

\* What is received first, and what remains.
LEMMA AheadOne ==
    ASSUME NEW S, NEW c \in S, NEW t \in Seq(S)
    PROVE  /\ <<c>> \o t \in Seq(S)
           /\ <<c>> \o t # <<>>
           /\ Head(<<c>> \o t) = c
           /\ Tail(<<c>> \o t) = t
<1>. DEFINE s == <<c>> \o t
<1>1. <<c>> \in Seq(S) /\ Len(<<c>>) = 1 /\ Len(t) \in Nat
  BY LenProperties
<1>2. s \in Seq(S) /\ Len(s) = Len(t) + 1
      /\ \A i \in 1 .. Len(t) + 1 : s[i] = IF i <= 1 THEN <<c>>[i] ELSE t[i - 1]
  BY <1>1, ConcatProperties
<1>. HIDE DEF s
<1>3. s # <<>> /\ Head(s) = c
  BY <1>1, <1>2
<1>4. Tail(s) \in Seq(S) /\ Len(Tail(s)) = Len(t)
      /\ \A i \in 1 .. Len(t) : Tail(s)[i] = t[i]
  BY <1>1, <1>2, <1>3, HeadTailProperties
<1>5. Tail(s) = t
  BY <1>4, SeqEqual
<1>. QED
  BY <1>2, <1>3, <1>5 DEF s

LEMMA AheadTwo ==
    ASSUME NEW S, NEW c \in S, NEW d \in S, NEW t \in Seq(S)
    PROVE  /\ <<c, d>> \o t = <<c>> \o (<<d>> \o t)
           /\ <<c, d>> \o t \in Seq(S)
<1>1. <<c>> \in Seq(S) /\ <<d>> \in Seq(S) /\ <<c, d>> \in Seq(S)
  OBVIOUS
<1>2. <<c>> \o <<d>> = <<c, d>>
  <2>1. /\ <<c>> \o <<d>> \in Seq(S) /\ Len(<<c>> \o <<d>>) = 2
        /\ \A i \in 1 .. 2 : (<<c>> \o <<d>>)[i] = IF i <= 1 THEN <<c>>[i] ELSE <<d>>[i - 1]
    BY <1>1, ConcatProperties
  <2>2. \A i \in 1 .. 2 : (<<c>> \o <<d>>)[i] = <<c, d>>[i]
    BY <2>1
  <2>. QED
    BY <1>1, <2>1, <2>2, SeqEqual
<1>3. (<<c>> \o <<d>>) \o t = <<c>> \o (<<d>> \o t)
  BY <1>1, ConcatAssociative
<1>4. <<c, d>> \o t \in Seq(S)
  BY <1>1, ConcatProperties
<1>. QED
  BY <1>2, <1>3, <1>4

\* The characters of a command, and what is sent for them.
LEMMA CommandChars ==
    ASSUME NEW command \in Commands, NEW i \in 1 .. Len(command)
    PROVE  /\ command \in Seq(Chars) /\ Len(command) \in Nat
           /\ command[i] \in Chars
           /\ command[i] \in Reserved =>
                 /\ Escape(command[i]) \in Chars \ Reserved
                 /\ Unescaped[Escape(command[i])] = command[i]
<1>1. command \in Seq(Chars) /\ Len(command) \in Nat /\ DOMAIN command = 1 .. Len(command)
  BY PacketLinkAssumption, LenProperties
<1>2. command[i] \in Chars
  BY <1>1, ElementOfSeq
<1>3. ASSUME command[i] \in Reserved
      PROVE  Escape(command[i]) \in Escapes(command[i])
  <2>1. command[i] \in ToSet(command)
    BY <1>1 DEF ToSet
  <2>2. Escapes(command[i]) # {}
    BY <1>3, <2>1, PacketLinkAssumption
  <2>. QED
    BY <2>2 DEF Escape
<1>. QED
  BY <1>1, <1>2, <1>3 DEF Escapes

LEMMA RestEnds ==
    ASSUME NEW command \in Commands, NEW total \in Sums
    PROVE  Rest(command)[0][total] = <<"#", HighDigit(total), LowDigit(total)>>
<1>1. Len(command) \in Nat
  BY PacketLinkAssumption, LenProperties
<1>2. Rest(command)[0] = With(Rest(command), command, 0)
  BY <1>1, RestIs
<1>. QED
  BY <1>2 DEF With, HighDigit, LowDigit, Sums

LEMMA RestGoesOn ==
    ASSUME NEW command \in Commands, NEW i \in 1 .. Len(command), NEW total \in Sums
    PROVE  /\ command[i] \in Reserved =>
                 Rest(command)[Len(command) - i + 1][total] =
                    <<"}", Escape(command[i])>>
                       \o Rest(command)[Len(command) - i]
                              [Weighed(Weighed(total, "}"), Escape(command[i]))]
           /\ command[i] \notin Reserved =>
                 Rest(command)[Len(command) - i + 1][total] =
                    <<command[i]>>
                       \o Rest(command)[Len(command) - i][Weighed(total, command[i])]
<1>. DEFINE k == Len(command) - i + 1
            r == Rest(command)
<1>1. Len(command) \in Nat
  BY PacketLinkAssumption, LenProperties
<1>2. k \in 0 .. Len(command) /\ k # 0 /\ k - 1 = Len(command) - i
      /\ Len(command) - k + 1 = i
  BY <1>1
<1>. HIDE DEF k, r
<1>3. r[k] = With(r, command, k)
  BY <1>1, <1>2, RestIs DEF r
<1>4. ASSUME command[i] \in Reserved
      PROVE  r[k][total] = <<"}", Escape(command[i])>>
                \o r[k - 1][Weighed(Weighed(total, "}"), Escape(command[i]))]
  BY <1>2, <1>3, <1>4 DEF With, Sums
<1>5. ASSUME command[i] \notin Reserved
      PROVE  r[k][total] = <<command[i]>> \o r[k - 1][Weighed(total, command[i])]
  BY <1>2, <1>3, <1>5 DEF With, Sums
<1>. QED
  BY <1>2, <1>4, <1>5 DEF k, r

\* Nothing of it starts another packet.
LEMMA RestTyped ==
    ASSUME NEW command \in Commands
    PROVE  \A k \in 0 .. Len(command), total \in Sums :
              Rest(command)[k][total] \in Seq(Chars \ {"$"})
<1>. DEFINE n == Len(command)
            S == {k \in Nat : k <= n => \A total \in Sums :
                                 Rest(command)[k][total] \in Seq(Chars \ {"$"})}
<1>0. n \in Nat /\ Special \subseteq Chars
  BY PacketLinkAssumption, LenProperties
<1>1. 0 \in S
  <2>1. ASSUME NEW total \in Sums
        PROVE  Rest(command)[0][total] \in Seq(Chars \ {"$"})
    <3>1. Rest(command)[0][total] = <<"#", HighDigit(total), LowDigit(total)>>
      BY RestEnds
    <3>2. HighDigit(total) \in Chars \ Special /\ LowDigit(total) \in Chars \ Special
      BY DigitsMatch
    <3>3. "#" \in Chars \ {"$"} /\ Chars \ Special \subseteq Chars \ {"$"}
      BY <1>0 DEF Special
    <3>. QED
      BY <3>1, <3>2, <3>3
  <2>. QED
    BY <2>1
<1>2. ASSUME NEW m \in Nat, m \in S
      PROVE  m + 1 \in S
  <2>. SUFFICES ASSUME m + 1 <= n, NEW total \in Sums
                PROVE  Rest(command)[m + 1][total] \in Seq(Chars \ {"$"})
    OBVIOUS
  <2>. DEFINE i == n - m
              c == command[i]
              T == Chars \ {"$"}
              r(s) == Rest(command)[m][s]
  <2>1. i \in 1 .. n /\ n - i = m /\ n - i + 1 = m + 1
    BY <1>0
  <2>2. c \in Chars
        /\ (c \in Reserved => Escape(c) \in Chars \ Reserved)
    BY <2>1, CommandChars
  <2>3. \A s \in Sums : r(s) \in Seq(T)
    BY <1>2, <2>1
  <2>4. "}" \in T /\ "}" \in Chars /\ Chars \ Reserved \subseteq T
    BY <1>0 DEF Special, Reserved
  <2>. HIDE DEF i, T, n
  <2>5. CASE c \in Reserved
    <3>. DEFINE s == Weighed(Weighed(total, "}"), Escape(c))
    <3>1. s \in Sums
      BY <2>2, <2>4, <2>5, Summed
    <3>2. Rest(command)[m + 1][total] = <<"}", Escape(c)>> \o r(s)
      BY <2>1, <2>5, RestGoesOn DEF n
    <3>. HIDE DEF s, r, c
    <3>3. Escape(c) \in T /\ r(s) \in Seq(T)
      BY <2>2, <2>3, <2>4, <2>5, <3>1
    <3>4. <<"}", Escape(c)>> \o r(s) \in Seq(T)
      BY <2>4, <3>3, AheadTwo
    <3>. QED
      BY <3>2, <3>4 DEF T
  <2>6. CASE c \notin Reserved
    <3>. DEFINE s == Weighed(total, c)
    <3>1. s \in Sums
      BY <2>2, Summed
    <3>2. Rest(command)[m + 1][total] = <<c>> \o r(s)
      BY <2>1, <2>6, RestGoesOn DEF n
    <3>. HIDE DEF s, r, c
    <3>3. c \in T /\ r(s) \in Seq(T)
      BY <2>2, <2>3, <2>4, <2>6, <3>1
    <3>. QED
      BY <3>2, <3>3, AheadOne DEF T
  <2>. QED
    BY <2>5, <2>6
<1>. HIDE DEF S
<1>3. Nat \subseteq S
  BY <1>1, <1>2, Induction
<1>. QED
  BY <1>0, <1>3 DEF S

\* A packet starts with "$".
LEMMA FrameStarts ==
    ASSUME NEW command \in Commands
    PROVE  /\ 0 \in Sums
           /\ Rest(command)[Len(command)][0] \in Seq(Chars)
           /\ Frame(command) \in Seq(Chars)
           /\ Frame(command) # <<>>
           /\ Head(Frame(command)) = "$"
           /\ Tail(Frame(command)) = Rest(command)[Len(command)][0]
<1>1. Len(command) \in Nat /\ "$" \in Chars
  BY PacketLinkAssumption, LenProperties DEF Special
<1>0. 0 \in Sums
  <2>. DEFINE m == Base * Base
  <2>1. m \in Nat \ {0}
    BY Bases
  <2>. HIDE DEF m
  <2>2. 0 \in 0 .. m - 1
    BY <2>1
  <2>. QED
    BY <2>2 DEF m, Sums
<1>2. Rest(command)[Len(command)][0] \in Seq(Chars \ {"$"})
  BY <1>0, <1>1, RestTyped
<1>3. Rest(command)[Len(command)][0] \in Seq(Chars)
  BY <1>2, SeqMonotonic
<1>. HIDE DEF Rest
<1>. QED
  BY <1>0, <1>1, <1>3, AheadOne DEF Frame

-----------------------------------------------------------------------------
(* Receiving it.                                                            *)

\* waitForStartOfNextPacket finds the "$" of a packet, or passes over one more
\* character of a command that does not fit.
LEMMA StartStep ==
    ASSUME sent \in Commands, CommandOnItsWay, WaitForStartOfNextPacket
    PROVE  CommandOnItsWay'
<1>1. PICK c \in Chars : Received(c) /\ AwaitPacket(c)
  BY DEF WaitForStartOfNextPacket
<1>2. pc = "start" /\ sent' = sent /\ c = Head(toTarget) /\ toTarget' = Tail(toTarget)
      /\ toTarget # <<>>
  BY <1>1 DEF WaitForStartOfNextPacket, host, Received
<1>3. CASE toTarget = Frame(sent)
  <2>1. c = "$" /\ toTarget' = Rest(sent)[Len(sent)][0] /\ 0 \in Sums
    BY <1>2, <1>3, FrameStarts
  <2>2. pc' = "data" /\ data' = <<>> /\ sum' = 0
    BY <1>1, <2>1, Zenon DEF AwaitPacket
  <2>3. sent \in Seq(Chars) /\ Len(sent) \in Nat
    BY PacketLinkAssumption, LenProperties
  <2>4. Len(<<>>) = 0 /\ Len(sent) - 0 = Len(sent) /\ <<>> = SubSeq(sent, 1, 0)
    BY <2>3, SubSeqEmpty
  <2>5. Left' = Len(sent)
    BY <1>2, <2>2, <2>4 DEF Left
  <2>6. ReceivingData'
    BY <1>2, <2>1, <2>2, <2>3, <2>4, <2>5 DEF ReceivingData
  <2>. QED
    BY <1>2, <2>1, <2>2, <2>4, <2>6 DEF CommandOnItsWay, Receiving
<1>4. CASE PassedOver
  <2>1. c \in Chars \ {"$"} /\ toTarget' \in Seq(Chars \ {"$"})
    BY <1>2, <1>4, HeadTailProperties DEF PassedOver
  <2>2. pc' = "start"
    BY <1>1, <2>1, Zenon DEF AwaitPacket
  <2>. QED
    BY <2>1, <2>2 DEF CommandOnItsWay, PassedOver
<1>. QED
  BY <1>2, <1>3, <1>4
     DEF CommandOnItsWay, Receiving, ReceivingData, ReceivingEscaped, ReceivingChecksum

\* What the reader knows of the command.
LEMMA KnownPart ==
    ASSUME BufferInv, sent \in Commands, Receiving
    PROVE  /\ sent \in Seq(Chars) /\ Len(sent) \in Nat
           /\ data \in Seq(Chars) /\ Len(data) \in Nat
           /\ sum \in Sums
           /\ Len(data) < Len(sent) =>
                 /\ Len(data) + 1 \in 1 .. Len(sent)
                 /\ NextChar \in Chars
                 /\ NextChar \in Reserved =>
                       /\ Escape(NextChar) \in Chars \ Reserved
                       /\ Unescaped[Escape(NextChar)] = NextChar
                 /\ Append(data, NextChar) = SubSeq(sent, 1, Len(data) + 1)
                 /\ Len(Append(data, NextChar)) = Len(data) + 1
<1>1. /\ sent \in Seq(Chars) /\ Len(sent) \in Nat
      /\ data \in Seq(Chars) /\ Len(data) \in Nat
      /\ sum \in Sums
      /\ data = SubSeq(sent, 1, Len(data))
  BY PacketLinkAssumption, LenProperties DEF BufferInv, Receiving
<1>2. ASSUME Len(data) < Len(sent)
      PROVE  /\ Len(data) + 1 \in 1 .. Len(sent)
             /\ Append(data, NextChar) = SubSeq(sent, 1, Len(data) + 1)
             /\ Len(Append(data, NextChar)) = Len(data) + 1
  <2>. DEFINE n == Len(data) + 1
  <2>1. n \in 1 .. Len(sent) /\ 1 \in 1 .. Len(sent) /\ n - 1 = Len(data)
    BY <1>1, <1>2
  <2>2. SubSeq(sent, 1, n) = SubSeq(sent, 1, n - 1) \o <<sent[n]>>
    BY <1>1, <2>1, SubSeqRecursiveSecond
  <2>3. sent[n] \in Chars
    BY <1>1, <2>1, ElementOfSeq
  <2>4. Append(data, sent[n]) = data \o <<sent[n]>>
    BY <1>1, <2>3, AppendIsConcat
  <2>5. Len(Append(data, sent[n])) = Len(data) + 1
    BY <1>1, <2>3, AppendProperties
  <2>. QED
    BY <1>1, <2>1, <2>2, <2>4, <2>5 DEF NextChar
<1>3. ASSUME Len(data) < Len(sent)
      PROVE  /\ NextChar \in Chars
             /\ NextChar \in Reserved =>
                   /\ Escape(NextChar) \in Chars \ Reserved
                   /\ Unescaped[Escape(NextChar)] = NextChar
  BY <1>2, <1>3, CommandChars DEF NextChar
<1>. QED
  BY <1>1, <1>2, <1>3

\* What comes next while there is data: the end of it, a character as it is or
\* behind "}".
LEMMA ComesNext ==
    ASSUME BufferInv, sent \in Commands, Receiving, ReceivingData
    PROVE  /\ Len(data) = Len(sent) =>
                 toTarget = <<"#", HighDigit(sum), LowDigit(sum)>> /\ data = sent
           /\ Len(data) < Len(sent) /\ NextChar \in Reserved =>
                 /\ Head(toTarget) = "}"
                 /\ Tail(toTarget) = <<Escape(NextChar)>> \o
                       Rest(sent)[Left - 1][Weighed(Weighed(sum, "}"), Escape(NextChar))]
           /\ Len(data) < Len(sent) /\ NextChar \notin Reserved =>
                 /\ Head(toTarget) = NextChar
                 /\ Tail(toTarget) = Rest(sent)[Left - 1][Weighed(sum, NextChar)]
           /\ toTarget \in Seq(Chars \ {"$"}) /\ toTarget # <<>>
<1>1. /\ sent \in Seq(Chars) /\ Len(sent) \in Nat
      /\ data \in Seq(Chars) /\ Len(data) \in Nat
      /\ sum \in Sums /\ Len(data) <= Len(sent)
      /\ toTarget = Rest(sent)[Left][sum]
      /\ data = SubSeq(sent, 1, Len(data))
  BY KnownPart DEF ReceivingData, Receiving
<1>2. Left \in 0 .. Len(sent) /\ toTarget \in Seq(Chars \ {"$"})
  BY <1>1, RestTyped DEF Left
<1>3. ASSUME Len(data) = Len(sent)
      PROVE  /\ toTarget = <<"#", HighDigit(sum), LowDigit(sum)>>
             /\ data = sent
             /\ toTarget # <<>>
  <2>1. Left = 0
    BY <1>1, <1>3 DEF Left
  <2>2. toTarget = <<"#", HighDigit(sum), LowDigit(sum)>>
    BY <1>1, <2>1, RestEnds
  <2>3. data = sent
    BY <1>1, <1>3, SubSeqFull
  <2>. QED
    BY <2>2, <2>3
<1>4. ASSUME Len(data) < Len(sent)
      PROVE  /\ NextChar \in Reserved =>
                   /\ Head(toTarget) = "}"
                   /\ Tail(toTarget) = <<Escape(NextChar)>> \o
                         Rest(sent)[Left - 1]
                            [Weighed(Weighed(sum, "}"), Escape(NextChar))]
             /\ NextChar \notin Reserved =>
                   /\ Head(toTarget) = NextChar
                   /\ Tail(toTarget) = Rest(sent)[Left - 1][Weighed(sum, NextChar)]
             /\ toTarget # <<>>
  <2>. DEFINE i == Len(data) + 1
              r(s) == Rest(sent)[Left - 1][s]
              c == NextChar
              T == Chars \ {"$"}
  <2>1. /\ i \in 1 .. Len(sent) /\ Len(sent) - i + 1 = Left /\ Len(sent) - i = Left - 1
        /\ Left - 1 \in 0 .. Len(sent)
        /\ sent[i] = c
    BY <1>1, <1>4 DEF Left, NextChar
  <2>2. /\ c \in Chars
        /\ c \in Reserved => Escape(c) \in Chars \ Reserved
    BY <1>4, KnownPart
  <2>3. \A s \in Sums : r(s) \in Seq(T)
    BY <2>1, RestTyped
  <2>4. "}" \in T /\ "}" \in Chars /\ Chars \ Reserved \subseteq T
    BY PacketLinkAssumption DEF Special, Reserved
  <2>5. /\ c \in Reserved =>
              toTarget = <<"}", Escape(c)>>
                            \o r(Weighed(Weighed(sum, "}"), Escape(c)))
        /\ c \notin Reserved => toTarget = <<c>> \o r(Weighed(sum, c))
    <3>. HIDE DEF i, c
    <3>. QED
      BY <1>1, <2>1, RestGoesOn
  <2>6. ASSUME c \in Reserved
        PROVE  /\ toTarget # <<>>
               /\ Head(toTarget) = "}"
               /\ Tail(toTarget) =
                     <<Escape(c)>> \o r(Weighed(Weighed(sum, "}"), Escape(c)))
    <3>. DEFINE e == Escape(c)
                s == Weighed(Weighed(sum, "}"), e)
                rest == r(s)
    <3>1. s \in Sums /\ e \in T
      BY <1>1, <2>2, <2>4, <2>6, Summed
    <3>2. rest \in Seq(T) /\ toTarget = <<"}", e>> \o rest
      BY <2>3, <2>5, <2>6, <3>1
    <3>. HIDE DEF e, s, r, rest, T
    <3>5. e \in T /\ rest \in Seq(T) /\ "}" \in T
      BY <2>4, <3>1, <3>2
    <3>6. <<"}", e>> \o rest = <<"}">> \o (<<e>> \o rest)
      <4>1. \A x, y \in T : \A t \in Seq(T) : <<x, y>> \o t = <<x>> \o (<<y>> \o t)
        BY AheadTwo
      <4>. QED
        BY <3>5, <4>1
    <3>7. <<e>> \o rest \in Seq(T)
      BY <3>5, AheadOne
    <3>3. toTarget = <<"}">> \o (<<e>> \o rest) /\ <<e>> \o rest \in Seq(T)
      BY <3>2, <3>6, <3>7
    <3>4. toTarget # <<>> /\ Head(toTarget) = "}" /\ Tail(toTarget) = <<e>> \o rest
      <4>. DEFINE behind == <<e>> \o rest
      <4>. HIDE DEF behind
      <4>. QED
        BY <2>4, <3>3, AheadOne DEF behind
    <3>. QED
      BY <3>4 DEF e, rest, r, s
  <2>7. ASSUME c \notin Reserved
        PROVE  /\ toTarget # <<>>
               /\ Head(toTarget) = c
               /\ Tail(toTarget) = r(Weighed(sum, c))
    <3>. DEFINE rest == r(Weighed(sum, c))
    <3>1. Weighed(sum, c) \in Sums /\ c \in T
      BY <1>1, <2>2, <2>4, <2>7, Summed DEF Reserved
    <3>2. rest \in Seq(T) /\ toTarget = <<c>> \o rest
      BY <2>3, <2>5, <2>7, <3>1
    <3>. HIDE DEF rest, T, c
    <3>. QED
      BY <3>1, <3>2, AheadOne DEF rest
  <2>. HIDE DEF i
  <2>. QED
    BY <2>6, <2>7
<1>5. Len(data) = Len(sent) \/ Len(data) < Len(sent)
  BY <1>1
<1>6. toTarget # <<>>
  BY <1>3, <1>4, <1>5
<1>. QED
  BY <1>2, <1>3, <1>4, <1>6, Zenon

\* A character more of the data, or the end of it.
LEMMA DataStep ==
    ASSUME BufferInv, sent \in Commands, Receiving, GetPacketData
    PROVE  CommandOnItsWay'
<1>1. PICK c \in Chars :
         /\ Received(c)
         /\ IF Len(data) = Capacity \/ c \in {"$", "#"}
            THEN EndOfData(c)
            ELSE /\ sum' = Checksum(sum + Weight[c])
                 /\ IF c = "}"
                    THEN pc' = "escaped" /\ data' = data
                    ELSE data' = Append(data, c) /\ pc' = pc
  BY Zenon DEF GetPacketData
<1>2. pc = "data" /\ sent' = sent /\ c = Head(toTarget) /\ toTarget' = Tail(toTarget)
  BY <1>1 DEF GetPacketData, host, Received
<1>3. ReceivingData
  BY <1>2 DEF Receiving, ReceivingEscaped, ReceivingChecksum
<1>4. /\ sent \in Seq(Chars) /\ Len(sent) \in Nat
      /\ data \in Seq(Chars) /\ Len(data) \in Nat
      /\ sum \in Sums
      /\ Len(data) = Len(sent) \/ Len(data) < Len(sent)
      /\ data = SubSeq(sent, 1, Len(data))
  BY <1>3, KnownPart DEF ReceivingData, Receiving
<1>5. CASE Len(data) = Len(sent)
  <2>1. toTarget = <<"#", HighDigit(sum), LowDigit(sum)>> /\ data = sent
    BY <1>3, <1>5, ComesNext
  <2>2. c = "#" /\ toTarget' = <<HighDigit(sum), LowDigit(sum)>>
    BY <1>2, <2>1
  <2>3. pc' = "digit1" /\ data' = data /\ sum' = sum
    BY <1>1, <2>2, Zenon DEF EndOfData
  <2>4. ReceivingChecksum'
    BY <1>2, <2>1, <2>2, <2>3 DEF ReceivingChecksum, HighDigit, LowDigit
  <2>. QED
    BY <1>2, <1>4, <2>3, <2>4 DEF CommandOnItsWay, Receiving
<1>6. CASE Len(data) < Len(sent) /\ Len(data) = Capacity
  <2>1. toTarget \in Seq(Chars \ {"$"}) /\ toTarget # <<>>
    BY <1>3, ComesNext
  <2>2. c # "$" /\ toTarget' \in Seq(Chars \ {"$"})
    BY <1>2, <2>1, HeadTailProperties
  <2>3. c # "#"
    BY <1>2, <1>3, <1>6, ComesNext DEF Reserved
  <2>4. AwaitPacket(c)
    BY <1>1, <1>6, <2>3, Zenon DEF EndOfData
  <2>5. pc' = "start"
    BY <2>2, <2>4, Zenon DEF AwaitPacket
  <2>. QED
    BY <2>2, <2>5 DEF CommandOnItsWay, PassedOver
<1>7. CASE Len(data) < Len(sent) /\ Len(data) # Capacity /\ NextChar \in Reserved
  <2>1. c = "}" /\ toTarget' = <<Escape(NextChar)>> \o
           Rest(sent)[Left - 1][Weighed(Weighed(sum, "}"), Escape(NextChar))]
    BY <1>2, <1>3, <1>7, ComesNext
  <2>2. pc' = "escaped" /\ data' = data /\ sum' = Checksum(sum + Weight[c])
    BY <1>1, <1>7, <2>1
  <2>3. sum' = Weighed(sum, "}") /\ sum' \in Sums
    BY <1>4, <2>1, <2>2, Summed
  <2>4. ReceivingEscaped'
    BY <1>2, <1>7, <2>1, <2>2, <2>3 DEF ReceivingEscaped, NextChar, Left
  <2>5. (sum \in Sums)' /\ (data = SubSeq(sent, 1, Len(data)))'
    BY <1>2, <1>4, <2>2, <2>3 DEF Sums
  <2>. QED
    BY <2>4, <2>5 DEF CommandOnItsWay, Receiving
<1>8. CASE Len(data) < Len(sent) /\ Len(data) # Capacity /\ NextChar \notin Reserved
  <2>1. c = NextChar /\ toTarget' = Rest(sent)[Left - 1][Weighed(sum, NextChar)]
    BY <1>2, <1>3, <1>8, ComesNext
  <2>2. pc' = "data" /\ data' = Append(data, c) /\ sum' = Checksum(sum + Weight[c])
    BY <1>1, <1>2, <1>8, <2>1 DEF Reserved
  <2>3. sum' = Weighed(sum, NextChar) /\ sum' \in Sums
    BY <1>4, <2>1, <2>2, Summed
  <2>4. Append(data, NextChar) = SubSeq(sent, 1, Len(data) + 1)
        /\ Len(Append(data, NextChar)) = Len(data) + 1
    BY <1>8, KnownPart
  <2>5. Left' = Left - 1 /\ Len(data') <= Len(sent')
    BY <1>2, <1>4, <1>8, <2>1, <2>2, <2>4 DEF Left
  <2>6. ReceivingData'
    BY <1>2, <2>1, <2>2, <2>3, <2>5 DEF ReceivingData
  <2>7. (sum \in Sums)' /\ (data = SubSeq(sent, 1, Len(data)))'
    BY <1>2, <2>1, <2>2, <2>3, <2>4 DEF Sums
  <2>. QED
    BY <2>6, <2>7 DEF CommandOnItsWay, Receiving
<1>. QED
  BY <1>4, <1>5, <1>6, <1>7, <1>8

\* The character behind "}" stands for the next one of the command.
LEMMA EscapedStep ==
    ASSUME BufferInv, sent \in Commands, Receiving, GetEscapedCharacter
    PROVE  CommandOnItsWay'
<1>1. PICK c \in Chars :
         /\ Received(c)
         /\ IF c \in {"$", "#"}
            THEN EndOfData(c)
            ELSE /\ sum' = Checksum(sum + Weight[c])
                 /\ data' = Append(data, Unescaped[c])
                 /\ pc' = "data"
  BY Zenon DEF GetEscapedCharacter
<1>2. pc = "escaped" /\ sent' = sent /\ c = Head(toTarget) /\ toTarget' = Tail(toTarget)
  BY <1>1 DEF GetEscapedCharacter, host, Received
<1>3. ReceivingEscaped
  BY <1>2 DEF Receiving, ReceivingData, ReceivingChecksum
<1>4. /\ sent \in Seq(Chars) /\ Len(sent) \in Nat
      /\ data \in Seq(Chars) /\ Len(data) \in Nat
      /\ sum \in Sums
      /\ Len(data) < Len(sent)
  BY <1>3, KnownPart DEF ReceivingEscaped
<1>5. /\ Escape(NextChar) \in Chars \ Reserved
      /\ Unescaped[Escape(NextChar)] = NextChar
      /\ Append(data, NextChar) = SubSeq(sent, 1, Len(data) + 1)
      /\ Len(Append(data, NextChar)) = Len(data) + 1
  BY <1>3, <1>4, KnownPart DEF ReceivingEscaped
<1>6. Weighed(sum, Escape(NextChar)) \in Sums
  BY <1>4, <1>5, Summed
<1>7. Left - 1 \in 0 .. Len(sent)
  BY <1>4 DEF Left
<1>8. Rest(sent)[Left - 1][Weighed(sum, Escape(NextChar))] \in Seq(Chars)
  <2>1. Rest(sent)[Left - 1][Weighed(sum, Escape(NextChar))] \in Seq(Chars \ {"$"})
    BY <1>6, <1>7, RestTyped
  <2>. QED
    BY <2>1, SeqMonotonic
<1>9. c = Escape(NextChar)
      /\ toTarget' = Rest(sent)[Left - 1][Weighed(sum, Escape(NextChar))]
  <2>. DEFINE e == Escape(NextChar)
              r == Rest(sent)[Left - 1][Weighed(sum, Escape(NextChar))]
  <2>1. toTarget = <<e>> \o r /\ e \in Chars /\ r \in Seq(Chars)
    BY <1>3, <1>5, <1>8 DEF ReceivingEscaped
  <2>. HIDE DEF e, r
  <2>2. Head(toTarget) = e /\ Tail(toTarget) = r
    BY <2>1, AheadOne
  <2>. QED
    BY <1>2, <2>2 DEF e, r
<1>10. pc' = "data" /\ data' = Append(data, NextChar) /\ sum' = Checksum(sum + Weight[c])
  BY <1>1, <1>5, <1>9 DEF Reserved
<1>11. sum' = Weighed(sum, Escape(NextChar))
  BY <1>4, <1>5, <1>9, <1>10, Summed
<1>12. Left' = Left - 1 /\ Len(data') <= Len(sent')
  BY <1>2, <1>4, <1>5, <1>10 DEF Left
<1>13. ReceivingData'
  BY <1>2, <1>9, <1>10, <1>11, <1>12 DEF ReceivingData
<1>14. (sum \in Sums)' /\ (data = SubSeq(sent, 1, Len(data)))'
  BY <1>2, <1>5, <1>6, <1>10, <1>11 DEF Sums
<1>. QED
  BY <1>13, <1>14 DEF CommandOnItsWay, Receiving

\* The digits of the checksum are those of the sum.
LEMMA ChecksumStep ==
    ASSUME sent \in Commands, Receiving, ExtractFirstDigit \/ ExtractSecondDigit
    PROVE  CommandOnItsWay'
<1>1. /\ sum \in Sums /\ data = SubSeq(sent, 1, Len(data))
      /\ sent' = sent /\ sum' = sum /\ data' = data
  BY DEF Receiving, ExtractFirstDigit, ExtractSecondDigit, host
<1>2. data = sent
  BY DEF Receiving, ReceivingData, ReceivingEscaped, ReceivingChecksum,
         ExtractFirstDigit, ExtractSecondDigit
<1>3. CASE ExtractFirstDigit
  <2>1. pc = "digit1" /\ pc' = "digit2" /\ firstDigit' = Head(toTarget)
        /\ toTarget' = Tail(toTarget)
    BY <1>3 DEF ExtractFirstDigit, Received
  <2>2. toTarget = <<HighDigit(sum), LowDigit(sum)>>
    BY <2>1 DEF Receiving, ReceivingData, ReceivingEscaped, ReceivingChecksum
  <2>3. firstDigit' = HighDigit(sum) /\ toTarget' = <<LowDigit(sum)>>
    BY <2>1, <2>2
  <2>4. ReceivingChecksum'
    BY <1>1, <1>2, <2>1, <2>3 DEF ReceivingChecksum, HighDigit, LowDigit
  <2>. QED
    BY <1>1, <2>4 DEF CommandOnItsWay, Receiving, Sums
<1>4. CASE ExtractSecondDigit
  <2>1. pc = "digit2" /\ pc' = "complete" /\ toTarget' = Tail(toTarget)
        /\ valid' = MatchesChecksum(firstDigit, Head(toTarget))
    BY <1>4 DEF ExtractSecondDigit, Received
  <2>2. toTarget = <<LowDigit(sum)>> /\ firstDigit = HighDigit(sum)
    BY <2>1 DEF Receiving, ReceivingData, ReceivingEscaped, ReceivingChecksum
  <2>3. Head(toTarget) = LowDigit(sum) /\ toTarget' = <<>>
    BY <2>1, <2>2
  <2>4. MatchesChecksum(HighDigit(sum), LowDigit(sum))
    BY <1>1, DigitsMatch
  <2>5. ReceivingChecksum'
    BY <1>1, <1>2, <2>1, <2>2, <2>3, <2>4 DEF ReceivingChecksum
  <2>. QED
    BY <1>1, <2>5 DEF CommandOnItsWay, Receiving, Sums
<1>. QED
  BY <1>3, <1>4

-----------------------------------------------------------------------------
(* Every step keeps the invariant.                                          *)

\* What no step of the packet's reception changes.
LEMMA ReaderStep ==
    ASSUME BufferInv, LosslessInv, GetFromGdb
    PROVE  LosslessInv'
<1>1. /\ gdb' = gdb /\ sent' = sent /\ interrupted' = interrupted /\ calls' = calls
      /\ losses' = losses /\ timeouts' = timeouts /\ executed' = executed
      /\ pc \in {"start", "data", "escaped", "digit1", "digit2", "complete"}
      /\ pc = "start" => toTarget # <<>>
      /\ pc = "start" => WaitForStartOfNextPacket
  BY DEF GetFromGdb, WaitForStartOfNextPacket, GetPacketData, GetEscapedCharacter,
         ExtractFirstDigit, ExtractSecondDigit, DropPacket, SendNak, SendAck,
         host, Received
<1>2. /\ gdb = "acking" /\ sent \in Commands /\ executed = 0 /\ toGdb = <<>>
      /\ CommandOnItsWay
  BY <1>1 DEF LosslessInv, Undisturbed, Idle, Acking, Waiting, Executing
<1>3. ASSUME CommandOnItsWay', toGdb' = toGdb
      PROVE  LosslessInv'
  <2>1. Acking'
    BY <1>1, <1>2, <1>3 DEF Acking
  <2>. QED
    BY <1>1, <2>1 DEF LosslessInv, Undisturbed
<1>4. pc # "start" => Receiving
  BY <1>1, <1>2 DEF CommandOnItsWay, PassedOver
<1>5. CASE WaitForStartOfNextPacket
  <2>1. toGdb' = toGdb
    BY <1>5 DEF WaitForStartOfNextPacket
  <2>. QED
    BY <1>2, <1>3, <1>5, <2>1, StartStep
<1>6. CASE GetPacketData
  <2>1. toGdb' = toGdb /\ pc = "data"
    BY <1>6 DEF GetPacketData
  <2>. QED
    BY <1>2, <1>3, <1>4, <1>6, <2>1, DataStep
<1>7. CASE GetEscapedCharacter
  <2>1. toGdb' = toGdb /\ pc = "escaped"
    BY <1>7 DEF GetEscapedCharacter
  <2>. QED
    BY <1>2, <1>3, <1>4, <1>7, <2>1, EscapedStep
<1>8. CASE ExtractFirstDigit \/ ExtractSecondDigit
  <2>1. toGdb' = toGdb /\ pc # "start"
    BY <1>8 DEF ExtractFirstDigit, ExtractSecondDigit
  <2>. QED
    BY <1>2, <1>3, <1>4, <1>8, <2>1, ChecksumStep
<1>9. CASE DropPacket \/ SendNak \/ SendAck
  <2>1. pc = "complete"
    BY <1>9 DEF DropPacket, SendNak, SendAck
  <2>2. toTarget = <<>> /\ valid /\ data = sent
    BY <1>4, <2>1 DEF Receiving, ReceivingData, ReceivingEscaped, ReceivingChecksum
  <2>3. SendAck
    BY <1>9, <2>2 DEF DropPacket, SendNak
  <2>4. /\ toTarget' = <<>> /\ data' = sent' /\ executed' = 0
        /\ pc' = "command" /\ toGdb' = <<Ack>>
    BY <1>1, <1>2, <2>2, <2>3 DEF SendAck, reader
  <2>5. Executing(<<Ack>>, <<Ack, Reply(calls)>>)'
    BY <2>4 DEF Executing, Ack
  <2>6. Acking'
    BY <1>1, <1>2, <2>4, <2>5 DEF Acking, Ack, Reply
  <2>. QED
    BY <1>1, <2>6 DEF LosslessInv, Undisturbed
<1>. QED
  BY <1>5, <1>6, <1>7, <1>8, <1>9 DEF GetFromGdb

\* The command is handled, and answered at once or when the program stops.
LEMMA CommandStep ==
    ASSUME LosslessInv, HandleCommand \/ ProgramStops
    PROVE  LosslessInv'
<1>. DEFINE reply == Reply(calls)
<1>1. /\ toTarget' = toTarget /\ data' = data
      /\ gdb' = gdb /\ sent' = sent /\ interrupted' = interrupted /\ calls' = calls
      /\ losses' = losses /\ timeouts' = timeouts
  BY DEF HandleCommand, ProgramStops, host
<1>2. ASSUME NEW acks, NEW replies, Executing(acks, replies), replies = Append(acks, reply)
      PROVE  \/ pc' = "running" /\ sent' \in Resuming /\ executed' = 1 /\ toGdb' = acks
             \/ pc' = "sent" /\ executed' = 1 /\ toGdb' = replies
  <2>1. CASE HandleCommand
    <3>1. pc = "command" /\ data = sent /\ executed = 0 /\ toGdb = acks
      BY <1>2, <2>1 DEF HandleCommand, Executing
    <3>2. executed' = 1
      BY <2>1, <3>1 DEF HandleCommand
    <3>3. CASE data \in Resuming
      <4>1. pc' = "running" /\ toGdb' = acks
        BY <2>1, <3>1, <3>3 DEF HandleCommand
      <4>. QED
        BY <1>1, <3>1, <3>2, <3>3, <4>1
    <3>4. CASE data \notin Resuming
      <4>1. pc' = "sent" /\ toGdb' = replies
        BY <1>2, <2>1, <3>1, <3>4 DEF HandleCommand, SendPacket
      <4>. QED
        BY <3>2, <4>1
    <3>. QED
      BY <3>3, <3>4
  <2>2. CASE ProgramStops
    <3>1. pc = "running" /\ executed = 1 /\ toGdb = acks
      BY <1>2, <2>2 DEF ProgramStops, Executing
    <3>2. pc' = "sent" /\ toGdb' = replies /\ executed' = 1
      BY <1>2, <2>2, <3>1 DEF ProgramStops, SendPacket
    <3>. QED
      BY <3>2
  <2>. QED
    BY <2>1, <2>2
<1>3. pc \in {"command", "running"}
  BY DEF HandleCommand, ProgramStops
<1>4. ~Idle /\ ~CommandOnItsWay
  BY <1>3 DEF Idle, CommandOnItsWay, Receiving, ReceivingData, ReceivingEscaped,
              ReceivingChecksum, PassedOver
<1>5. CASE Acking
  <2>1. toTarget = <<>> /\ Executing(<<Ack>>, <<Ack, reply>>)
    BY <1>4, <1>5 DEF Acking
  <2>2. <<Ack, reply>> = Append(<<Ack>>, reply)
    OBVIOUS
  <2>3. Executing(<<Ack>>, <<Ack, reply>>)'
    <3>1. \/ /\ pc' = "running" /\ sent' \in Resuming /\ executed' = 1
             /\ toGdb' = <<Ack>>
          \/ pc' = "sent" /\ executed' = 1 /\ toGdb' = <<Ack, reply>>
      BY <1>2, <2>1, <2>2
    <3>. QED
      BY <1>1, <3>1 DEF Executing, Ack, Reply
  <2>4. Acking'
    BY <1>1, <1>5, <2>1, <2>3 DEF Acking
  <2>. QED
    BY <1>1, <2>4 DEF LosslessInv, Undisturbed
<1>6. CASE Waiting
  <2>1. Executing(<<>>, <<reply>>)
    BY <1>6 DEF Waiting
  <2>2. <<reply>> = Append(<<>>, reply)
    OBVIOUS
  <2>3. Executing(<<>>, <<reply>>)'
    <3>1. \/ pc' = "running" /\ sent' \in Resuming /\ executed' = 1 /\ toGdb' = <<>>
          \/ pc' = "sent" /\ executed' = 1 /\ toGdb' = <<reply>>
      BY <1>2, <2>1, <2>2
    <3>. QED
      BY <1>1, <3>1 DEF Executing, Reply
  <2>4. Waiting'
    BY <1>1, <1>6, <2>3 DEF Waiting
  <2>. QED
    BY <1>1, <2>4 DEF LosslessInv, Undisturbed
<1>. QED
  BY <1>4, <1>5, <1>6 DEF LosslessInv, Undisturbed

\* What is on its way when the next command follows an acknowledgement.
LEMMA AheadOfFrame ==
    ASSUME Acking, pc = "sent", toTarget # <<>>
    PROVE  /\ executed = 0 /\ toGdb = <<>>
           /\ \/ Head(toTarget) = "+" /\ Tail(toTarget) = Frame(sent)
              \/ Head(toTarget) = "^C" /\ Tail(toTarget) = <<"+">> \o Frame(sent)
<1>1. executed = 0 /\ toGdb = <<>> /\ CommandOnItsWay
  BY DEF Acking
<1>2. PICK ahead \in BeforeAck : toTarget = ahead \o Frame(sent)
  BY <1>1 DEF CommandOnItsWay, Receiving, ReceivingData, ReceivingEscaped,
              ReceivingChecksum, PassedOver
<1>3. Frame(sent) \in Seq(Chars) /\ "+" \in Chars /\ "^C" \in Chars
  BY FrameStarts, PacketLinkAssumption DEF Acking, Special
<1>. DEFINE f == Frame(sent)
<1>4. f \in Seq(Chars)
  BY <1>3
<1>5. ahead = <<"+">> \/ ahead = <<"^C", "+">>
  BY <1>2 DEF BeforeAck
<1>6. toTarget = ahead \o f
  BY <1>2
<1>. HIDE DEF f
<1>7. CASE ahead = <<"+">>
  <2>1. Head(<<"+">> \o f) = "+" /\ Tail(<<"+">> \o f) = f
    BY <1>3, <1>4, AheadOne
  <2>. QED
    BY <1>1, <1>6, <1>7, <2>1 DEF f
<1>8. CASE ahead = <<"^C", "+">>
  <2>1. <<"^C", "+">> \o f = <<"^C">> \o (<<"+">> \o f)
    <3>1. \A x, y \in Chars : \A t \in Seq(Chars) :
             <<x, y>> \o t = <<x>> \o (<<y>> \o t)
      BY AheadTwo
    <3>. QED
      BY <1>3, <1>4, <3>1
  <2>. DEFINE g == <<"+">> \o f
  <2>2. g \in Seq(Chars)
    BY <1>3, <1>4, AheadOne
  <2>3. toTarget = <<"^C">> \o g
    BY <1>6, <1>8, <2>1
  <2>. HIDE DEF g
  <2>4. Head(<<"^C">> \o g) = "^C" /\ Tail(<<"^C">> \o g) = g
    BY <1>3, <2>2, AheadOne
  <2>. QED
    BY <1>1, <2>3, <2>4 DEF f, g
<1>. QED
  BY <1>5, <1>7, <1>8

\* The reply is acknowledged, with Ctrl-C before it or without.
LEMMA AcknowledgedStep ==
    ASSUME LosslessInv, SendToGdb
    PROVE  LosslessInv'
<1>1. /\ pc = "sent" /\ toTarget # <<>> /\ toTarget' = Tail(toTarget)
      /\ gdb' = gdb /\ sent' = sent /\ interrupted' = interrupted /\ calls' = calls
      /\ losses' = losses /\ timeouts' = timeouts /\ executed' = executed
  BY DEF SendToGdb, SkipControlC, PacketAcknowledged, SendPacketAgain, Received, host
<1>2. CASE Head(toTarget) = "+"
  <2>1. PacketAcknowledged
    BY <1>2 DEF SendToGdb, SkipControlC, SendPacketAgain, Received, EndsWait
  <2>2. pc' = "start" /\ toGdb' = toGdb
    BY <2>1, Zenon DEF PacketAcknowledged, AwaitPacket, NoChar
  <2>3. CASE Idle
    <3>1. toTarget' = <<>>
      <4>1. toTarget = <<"+">> \/ toTarget = <<"^C", "+">>
        BY <1>1, <2>3 DEF Idle, BeforeAck
      <4>2. Head(<<"^C", "+">>) = "^C" /\ Tail(<<"+">>) = <<>>
        OBVIOUS
      <4>3. toTarget = <<"+">>
        BY <1>2, <4>1, <4>2
      <4>. QED
        BY <1>1, <4>2, <4>3
    <3>2. Idle'
      BY <1>1, <2>2, <2>3, <3>1 DEF Idle
    <3>. QED
      BY <1>1, <3>2 DEF LosslessInv, Undisturbed
  <2>4. CASE Acking
    <3>1. executed = 0 /\ toGdb = <<>> /\ toTarget' = Frame(sent)
      BY <1>1, <1>2, <2>4, AheadOfFrame
    <3>2. CommandOnItsWay'
      BY <1>1, <2>2, <3>1 DEF CommandOnItsWay
    <3>3. Acking'
      BY <1>1, <2>2, <2>4, <3>1, <3>2 DEF Acking
    <3>. QED
      BY <1>1, <3>3 DEF LosslessInv, Undisturbed
  <2>5. ~Waiting
    BY <1>1, <1>2 DEF Waiting
  <2>. QED
    BY <2>3, <2>4, <2>5 DEF LosslessInv, Undisturbed
<1>3. CASE Head(toTarget) = "^C"
  <2>1. SkipControlC
    BY <1>3 DEF SendToGdb, PacketAcknowledged, SendPacketAgain, Received, EndsWait
  <2>2. pc' = pc /\ toGdb' = toGdb
    BY <2>1 DEF SkipControlC
  <2>3. CASE Idle
    <3>1. toTarget' = <<"+">>
      <4>1. toTarget = <<"+">> \/ toTarget = <<"^C", "+">>
        BY <1>1, <2>3 DEF Idle, BeforeAck
      <4>2. Head(<<"+">>) = "+" /\ Tail(<<"^C", "+">>) = <<"+">>
        OBVIOUS
      <4>3. toTarget = <<"^C", "+">>
        BY <1>3, <4>1, <4>2
      <4>. QED
        BY <1>1, <4>2, <4>3
    <3>2. Idle'
      BY <1>1, <2>2, <2>3, <3>1 DEF Idle, BeforeAck
    <3>. QED
      BY <1>1, <3>2 DEF LosslessInv, Undisturbed
  <2>4. CASE Acking
    <3>1. executed = 0 /\ toGdb = <<>> /\ toTarget' = <<"+">> \o Frame(sent)
      BY <1>1, <1>3, <2>4, AheadOfFrame
    <3>2. CommandOnItsWay'
      BY <1>1, <2>2, <3>1 DEF CommandOnItsWay, BeforeAck, Frame
    <3>3. Acking'
      BY <1>1, <2>2, <2>4, <3>1, <3>2 DEF Acking
    <3>. QED
      BY <1>1, <3>3 DEF LosslessInv, Undisturbed
  <2>5. CASE Waiting
    <3>1. toTarget' = <<>>
      <4>1. toTarget = <<"^C">>
        BY <1>1, <2>5, Zenon DEF Waiting
      <4>. QED
        BY <1>1, <4>1
    <3>2. executed' = 1 /\ toGdb' = <<Reply(calls')>> /\ pc' = "sent"
      BY <1>1, <2>2, <2>5 DEF Waiting, Executing
    <3>3. Waiting'
      BY <1>1, <2>5, <3>1, <3>2 DEF Waiting, Executing, Reply
    <3>. QED
      BY <1>1, <3>3 DEF LosslessInv, Undisturbed
  <2>. QED
    BY <2>3, <2>4, <2>5 DEF LosslessInv, Undisturbed
<1>4. Head(toTarget) \in {"+", "^C"}
  <2>1. Idle => toTarget \in BeforeAck
    BY <1>1 DEF Idle
  <2>2. Waiting => toTarget = <<"^C">>
    BY <1>1 DEF Waiting
  <2>. QED
    BY <1>1, <2>1, <2>2, AheadOfFrame DEF LosslessInv, BeforeAck
<1>. QED
  BY <1>2, <1>3, <1>4

\* When nothing is on its way any more, the command has been passed over or is
\* complete.
LEMMA NothingOnItsWay ==
    ASSUME BufferInv, sent \in Commands, CommandOnItsWay, toTarget = <<>>, pc # "complete"
    PROVE  pc = "start"
<1>1. CASE Receiving
  <2>1. CASE ReceivingData
    <3>1. toTarget # <<>>
      BY <1>1, <2>1, ComesNext
    <3>. QED
      BY <3>1
  <2>2. CASE ReceivingEscaped
    <3>1. /\ Len(data) < Len(sent) /\ sum \in Sums
          /\ Len(sent) \in Nat /\ Len(data) \in Nat
          /\ Escape(NextChar) \in Chars
      BY <1>1, <2>2, KnownPart DEF ReceivingEscaped
    <3>2. Weighed(sum, Escape(NextChar)) \in Sums /\ Left - 1 \in 0 .. Len(sent)
      BY <3>1, Summed DEF Left
    <3>. DEFINE e == Escape(NextChar)
                r == Rest(sent)[Left - 1][Weighed(sum, Escape(NextChar))]
                T == Chars \ {"$"}
    <3>3. r \in Seq(T)
      BY <3>2, RestTyped
    <3>4. r \in Seq(Chars) /\ e \in Chars /\ toTarget = <<e>> \o r
      BY <2>2, <3>1, <3>3, SeqMonotonic DEF ReceivingEscaped
    <3>. HIDE DEF e, r
    <3>5. <<e>> \o r # <<>>
      BY <3>4, AheadOne
    <3>. QED
      BY <3>4, <3>5
  <2>. QED
    BY <1>1, <2>1, <2>2 DEF Receiving, ReceivingChecksum
<1>2. CASE pc = "sent" /\ \E ahead \in BeforeAck : toTarget = ahead \o Frame(sent)
  <2>1. PICK ahead \in BeforeAck : toTarget = ahead \o Frame(sent)
    BY <1>2
  <2>2. Frame(sent) \in Seq(Chars) /\ ahead \in Seq(Chars) /\ Len(ahead) \in Nat \ {0}
    <3>1. "+" \in Chars /\ "^C" \in Chars
      BY PacketLinkAssumption DEF Special
    <3>2. ahead = <<"+">> \/ ahead = <<"^C", "+">>
      BY DEF BeforeAck
    <3>3. ahead \in Seq(Chars) /\ Len(ahead) \in Nat \ {0}
      <4>1. <<"+">> \in Seq(Chars) /\ <<"^C", "+">> \in Seq(Chars)
        BY <3>1
      <4>2. Len(<<"+">>) = 1 /\ Len(<<"^C", "+">>) = 2
        OBVIOUS
      <4>3. CASE ahead = <<"+">>
        BY <4>1, <4>2, <4>3
      <4>4. CASE ahead = <<"^C", "+">>
        BY <4>1, <4>2, <4>4
      <4>. QED
        BY <3>2, <4>3, <4>4
    <3>4. Frame(sent) \in Seq(Chars)
      BY FrameStarts
    <3>. QED
      BY <3>3, <3>4
  <2>3. Len(ahead \o Frame(sent)) = Len(ahead) + Len(Frame(sent)) /\ Len(Frame(sent)) \in Nat
    BY <2>2, ConcatProperties, LenProperties
  <2>. QED
    BY <2>1, <2>2, <2>3
<1>. QED
  BY <1>1, <1>2, FrameStarts DEF CommandOnItsWay, PassedOver

\* gdb sends a command or Ctrl-C, takes what it waits for, or times out when
\* nothing is on its way.
LEMMA GdbStep ==
    ASSUME BufferInv, LosslessInv, Undisturbed', GdbNext
    PROVE  LosslessInv'
<1>0. losses' = losses
  BY DEF GdbNext, Call, GdbInterrupts, GdbTakesAck, GdbSendsAgain, GdbIgnoresPacket,
         GdbTakesReply, GdbTimesOutOnAck, GdbTimesOutOnReply, TimesOut, host
<1>1. CASE \E command \in Commands : Call(command)
  <2>1. PICK command \in Commands : Call(command)
    BY <1>1
  <2>2. /\ toTarget' = toTarget \o Frame(command) /\ sent' = command
        /\ gdb = "idle" /\ gdb' = "acking" /\ executed' = 0 /\ toGdb' = toGdb /\ pc' = pc
        /\ timeouts' = timeouts
    BY <2>1 DEF Call, GdbSends
  <2>3. Idle
    BY <2>2 DEF LosslessInv, Undisturbed, Acking, Waiting
  <2>4. Frame(command) \in Seq(Chars)
    BY FrameStarts
  <2>5. CASE pc = "start" /\ toTarget = <<>>
    <3>1. toTarget' = Frame(command)
      <4>. DEFINE f == Frame(command)
      <4>1. f \in Seq(Chars) /\ toTarget' = <<>> \o f
        BY <2>2, <2>4, <2>5
      <4>. HIDE DEF f
      <4>2. toTarget' = f
        BY <4>1, ConcatEmptySeq
      <4>. QED
        BY <4>2 DEF f
    <3>2. CommandOnItsWay'
      BY <2>2, <2>5, <3>1 DEF CommandOnItsWay, Frame
    <3>. QED
      BY <1>0, <2>2, <2>3, <3>2 DEF LosslessInv, Undisturbed, Acking, Idle
  <2>6. CASE pc = "sent" /\ toTarget \in BeforeAck
    <3>1. \E ahead \in BeforeAck' : toTarget' = ahead \o Frame(command)
      BY <2>2, <2>6 DEF BeforeAck
    <3>2. CommandOnItsWay'
      BY <2>2, <2>6, <3>1 DEF CommandOnItsWay, Frame
    <3>. QED
      BY <1>0, <2>2, <2>3, <3>2 DEF LosslessInv, Undisturbed, Acking, Idle
  <2>. QED
    BY <2>3, <2>5, <2>6 DEF Idle
<1>2. CASE GdbInterrupts
  <2>1. /\ Waiting /\ toTarget = <<>>
        /\ toTarget' = toTarget \o <<"^C">>
        /\ interrupted' = TRUE /\ sent' = sent /\ gdb' = gdb /\ pc' = pc /\ calls' = calls
        /\ toGdb' = toGdb /\ executed' = executed /\ timeouts' = timeouts /\ data' = data
    BY <1>2 DEF GdbInterrupts, GdbSends, LosslessInv, Undisturbed, Idle, Acking, Waiting, reader
  <2>2. toTarget' = <<"^C">>
    BY <2>1
  <2>3. Executing(<<>>, <<Reply(calls)>>)'
    BY <2>1 DEF Waiting, Executing, Reply
  <2>4. Waiting'
    BY <2>1, <2>2, <2>3 DEF Waiting
  <2>. QED
    BY <1>0, <2>1, <2>4 DEF LosslessInv, Undisturbed
<1>3. CASE GdbTakesAck
  <2>1. /\ Acking /\ toGdb # <<>> /\ toGdb' = Tail(toGdb)
        /\ toTarget' = toTarget /\ sent' = sent /\ gdb' = "waiting" /\ pc' = pc
        /\ calls' = calls /\ executed' = executed /\ timeouts' = timeouts /\ data' = data
    BY <1>3 DEF GdbTakesAck, GdbReceived, LosslessInv, Undisturbed, Idle, Acking, Waiting, reader
  <2>2. toTarget = <<>> /\ Executing(<<Ack>>, <<Ack, Reply(calls)>>)
    BY <2>1 DEF Acking
  <2>3. Tail(<<Ack>>) = <<>> /\ Tail(<<Ack, Reply(calls)>>) = <<Reply(calls)>>
    OBVIOUS
  <2>4. Executing(<<>>, <<Reply(calls)>>)'
    BY <2>1, <2>2, <2>3 DEF Executing, Reply
  <2>5. Waiting'
    BY <2>1, <2>2, <2>4 DEF Waiting, Acking
  <2>. QED
    BY <1>0, <2>1, <2>5 DEF LosslessInv, Undisturbed
<1>4. ~GdbSendsAgain /\ ~GdbIgnoresPacket
  <2>1. ASSUME GdbSendsAgain \/ GdbIgnoresPacket
        PROVE  toGdb # <<>> /\ Head(toGdb) # Ack /\ Acking
    BY <2>1 DEF GdbSendsAgain, GdbIgnoresPacket, GdbReceived, IsPacket, Ack, Nak,
                LosslessInv, Undisturbed, Idle, Waiting
  <2>2. Acking /\ toGdb # <<>> => toGdb = <<Ack>> \/ toGdb = <<Ack, Reply(calls)>>
    BY DEF Acking, Executing
  <2>3. Head(<<Ack>>) = Ack /\ Head(<<Ack, Reply(calls)>>) = Ack
    OBVIOUS
  <2>. QED
    BY <2>1, <2>2, <2>3
<1>5. CASE GdbTakesReply
  <2>1. PICK i \in DOMAIN toGdb : toGdb' = SubSeq(toGdb, i + 1, Len(toGdb))
    BY <1>5 DEF GdbTakesReply
  <2>2. /\ Waiting
        /\ toTarget' = toTarget \o <<"+">>
        /\ gdb' = "idle" /\ pc' = pc /\ timeouts' = timeouts
    BY <1>5 DEF GdbTakesReply, GdbSends, LosslessInv, Undisturbed, Idle, Acking, Waiting
  <2>3. toGdb = <<Reply(calls)>> /\ pc = "sent"
    BY <2>1, <2>2 DEF Waiting, Executing
  <2>4. toGdb' = <<>>
    <3>1. i = 1
      BY <2>1, <2>3
    <3>. QED
      BY <2>1, <2>3, <3>1
  <2>5. toTarget' \in BeforeAck
    <3>1. toTarget = <<>> \/ toTarget = <<"^C">>
      BY <2>2, Zenon DEF Waiting
    <3>2. <<>> \o <<"+">> = <<"+">> /\ <<"^C">> \o <<"+">> = <<"^C", "+">>
      <4>1. ASSUME NEW S, NEW x \in S, NEW y \in S
            PROVE  <<x>> \o <<y>> = <<x, y>>
        <5>1. <<x>> \in Seq(S) /\ <<y>> \in Seq(S) /\ <<x, y>> \in Seq(S)
          OBVIOUS
        <5>2. /\ <<x>> \o <<y>> \in Seq(S) /\ Len(<<x>> \o <<y>>) = 2
              /\ \A k \in 1 .. 2 :
                    (<<x>> \o <<y>>)[k] = IF k <= 1 THEN <<x>>[k] ELSE <<y>>[k - 1]
          BY <5>1, ConcatProperties
        <5>3. \A k \in 1 .. 2 : (<<x>> \o <<y>>)[k] = <<x, y>>[k]
          BY <5>2
        <5>. QED
          BY <5>1, <5>2, <5>3, SeqEqual
      <4>2. "^C" \in Chars /\ "+" \in Chars
        BY PacketLinkAssumption DEF Special
      <4>3. <<"+">> \in Seq(Chars)
        BY <4>2
      <4>. QED
        BY <4>1, <4>2, <4>3, ConcatEmptySeq
    <3>3. toTarget' = <<"+">> \/ toTarget' = <<"^C", "+">>
      BY <2>2, <3>1, <3>2
    <3>. QED
      BY <3>3 DEF BeforeAck
  <2>6. Idle'
    BY <2>2, <2>3, <2>4, <2>5 DEF Idle, BeforeAck
  <2>. QED
    BY <1>0, <2>2, <2>6 DEF LosslessInv, Undisturbed
<1>6. ASSUME TimesOut PROVE Quiet /\ timeouts' = timeouts
  BY <1>6 DEF TimesOut, LosslessInv, Undisturbed
<1>7. CASE GdbTimesOutOnAck
  <2>1. /\ gdb = "acking" /\ toTarget' = toTarget \o Frame(sent) /\ Quiet
        /\ sent' = sent /\ gdb' = gdb /\ pc' = pc /\ timeouts' = timeouts
        /\ toGdb' = toGdb /\ executed' = executed
    BY <1>6, <1>7 DEF GdbTimesOutOnAck, TimesOut, GdbSends
  <2>2. toTarget = <<>> /\ pc # "complete" /\ toGdb = <<>> /\ Acking
    BY <2>1 DEF Quiet, LosslessInv, Undisturbed, Idle, Waiting
  <2>3. executed = 0 /\ CommandOnItsWay
    BY <2>2 DEF Acking, Executing
  <2>4. sent \in Commands /\ Frame(sent) \in Seq(Chars)
    BY <2>2, FrameStarts DEF Acking
  <2>5. pc = "start"
    BY <2>2, <2>3, <2>4, NothingOnItsWay
  <2>6. toTarget' = Frame(sent)
    <3>. DEFINE f == Frame(sent)
    <3>1. f \in Seq(Chars) /\ toTarget' = <<>> \o f
      BY <2>1, <2>2, <2>4
    <3>. HIDE DEF f
    <3>2. toTarget' = f
      BY <3>1, ConcatEmptySeq
    <3>. QED
      BY <3>2 DEF f
  <2>7. CommandOnItsWay'
    BY <2>1, <2>5, <2>6 DEF CommandOnItsWay, Frame
  <2>8. Acking'
    BY <2>1, <2>2, <2>3, <2>4, <2>7 DEF Acking
  <2>. QED
    BY <1>0, <2>1, <2>8 DEF LosslessInv, Undisturbed
<1>8. ~GdbTimesOutOnReply
  <2>1. ASSUME GdbTimesOutOnReply
        PROVE  FALSE
    <3>1. Waiting /\ Quiet /\ sent \notin Resuming /\ gdb = "waiting"
      BY <1>6, <2>1 DEF GdbTimesOutOnReply, LosslessInv, Undisturbed, Idle, Acking
    <3>2. toGdb = <<Reply(calls)>>
      BY <3>1 DEF Waiting, Executing, Quiet
    <3>3. ~IsPacket(toGdb[1]) /\ toGdb[1] = Reply(calls)
      BY <3>1, <3>2 DEF Quiet
    <3>. QED
      BY <3>3 DEF IsPacket, Reply
  <2>. QED
    BY <2>1
<1>. QED
  BY <1>1, <1>2, <1>3, <1>4, <1>5, <1>7, <1>8 DEF GdbNext

\* Every step of the system keeps the invariant.
LEMMA LosslessStep ==
    ASSUME BufferInv, LosslessInv, Undisturbed', [Next]_vars
    PROVE  LosslessInv'
<1>1. CASE GetFromGdb
  BY <1>1, ReaderStep
<1>2. CASE HandleCommand \/ ProgramStops
  BY <1>2, CommandStep
<1>3. CASE SendToGdb
  BY <1>3, AcknowledgedStep
<1>4. CASE GdbNext
  BY <1>4, GdbStep
<1>5. ~LoseCharacter /\ ~LoseReply
  BY DEF LoseCharacter, LoseReply, LosslessInv, Undisturbed, Lossless
<1>6. CASE UNCHANGED vars
  <2>1. /\ toTarget' = toTarget /\ toGdb' = toGdb /\ pc' = pc /\ data' = data /\ sum' = sum
        /\ firstDigit' = firstDigit /\ valid' = valid /\ gdb' = gdb /\ sent' = sent
        /\ interrupted' = interrupted /\ calls' = calls /\ losses' = losses
        /\ timeouts' = timeouts /\ executed' = executed
    BY <1>6 DEF vars, line, reader, host
  <2>2. Idle => Idle'
    BY <2>1 DEF Idle, BeforeAck
  <2>3. \A acks, replies : Executing(acks, replies) =>
           \/ pc' = "command" /\ data' = sent' /\ executed' = 0 /\ toGdb' = acks
           \/ pc' = "running" /\ sent' \in Resuming /\ executed' = 1 /\ toGdb' = acks
           \/ pc' = "sent" /\ executed' = 1 /\ toGdb' = replies
    BY <2>1 DEF Executing
  <2>4. CommandOnItsWay => CommandOnItsWay'
    <3>1. ReceivingData => ReceivingData'
      BY <2>1 DEF ReceivingData, Left
    <3>2. ReceivingEscaped => ReceivingEscaped'
      BY <2>1 DEF ReceivingEscaped, Left, NextChar
    <3>3. ReceivingChecksum => ReceivingChecksum'
      BY <2>1 DEF ReceivingChecksum, HighDigit, LowDigit
    <3>4. Receiving => Receiving'
      BY <2>1, <3>1, <3>2, <3>3 DEF Receiving, Sums
    <3>. QED
      BY <2>1, <3>4 DEF CommandOnItsWay, PassedOver, BeforeAck, Frame
  <2>5. Acking => Acking'
    <3>1. Executing(<<Ack>>, <<Ack, Reply(calls)>>)
             => Executing(<<Ack>>, <<Ack, Reply(calls)>>)'
      BY <2>1, <2>3 DEF Executing, Ack, Reply
    <3>. QED
      BY <2>1, <2>4, <3>1 DEF Acking
  <2>6. Waiting => Waiting'
    <3>1. Executing(<<>>, <<Reply(calls)>>) => Executing(<<>>, <<Reply(calls)>>)'
      BY <2>1, <2>3 DEF Executing, Reply
    <3>. QED
      BY <2>1, <3>1 DEF Waiting
  <2>. QED
    BY <2>1, <2>2, <2>5, <2>6 DEF LosslessInv, Undisturbed
<1>. QED
  BY <1>1, <1>2, <1>3, <1>4, <1>5, <1>6 DEF Next

\* Nothing is undone: what is undisturbed has been so before.
LEMMA CountsGrow ==
    ASSUME losses \in Nat, timeouts \in Nat, [Next]_vars
    PROVE  /\ losses' \in Nat /\ timeouts' \in Nat
           /\ Undisturbed' => Undisturbed
           /\ Undisturbed /\ Lossless => Undisturbed'
<1>1. /\ losses' = losses \/ (losses < MaxLosses /\ losses' = losses + 1)
      /\ timeouts' = timeouts \/ (timeouts < Impatience /\ timeouts' = timeouts + 1)
  BY DEF Next, GetFromGdb, WaitForStartOfNextPacket, GetPacketData, GetEscapedCharacter,
         ExtractFirstDigit, ExtractSecondDigit, DropPacket, SendNak, SendAck,
         HandleCommand, ProgramStops, SendToGdb, SkipControlC, PacketAcknowledged,
         SendPacketAgain, GdbNext, Call, GdbInterrupts, GdbTakesAck, GdbSendsAgain,
         GdbIgnoresPacket, GdbTakesReply, GdbTimesOutOnAck, GdbTimesOutOnReply,
         TimesOut, LoseCharacter, LoseReply, host, vars
<1>. QED
  BY <1>1 DEF Undisturbed, Lossless

\* The inductive invariant of any line, up to what it loses first.
LinkInv ==
    /\ BufferInv
    /\ losses \in Nat /\ timeouts \in Nat
    /\ Undisturbed => LosslessInv

\* At first nothing is on its way and nothing has been received.
LEMMA LinkInit == Init => LinkInv
<1>1. Init => BufferInv
  BY EmptyFits DEF Init, BufferInv, DataFits, RoomForEscaped
<1>2. Init => LosslessInv /\ losses \in Nat /\ timeouts \in Nat
  BY DEF Init, LosslessInv, Undisturbed, Idle
<1>. QED
  BY <1>1, <1>2 DEF LinkInv

\* Until the line has lost something, or gdb has not waited for what was on its
\* way, the two are in one of the situations above.
THEOREM LinkInvariant == Spec => []LinkInv
<1>1. LinkInv /\ [Next]_vars => LinkInv'
  <2>. SUFFICES ASSUME LinkInv, [Next]_vars PROVE LinkInv'
    OBVIOUS
  <2>1. BufferInv'
    BY BufferStep DEF LinkInv
  <2>2. /\ losses' \in Nat /\ timeouts' \in Nat
        /\ Undisturbed' => Undisturbed
    BY CountsGrow DEF LinkInv
  <2>3. Undisturbed' => LosslessInv'
    BY <2>2, LosslessStep DEF LinkInv
  <2>. QED
    BY <2>1, <2>2, <2>3 DEF LinkInv
<1>. QED
  BY <1>1, LinkInit, PTL DEF Spec

\* What LosslessInv says of a command that is executed.
LEMMA SituationsExecute == LosslessInv => ExecutesWhatWasSent
  BY DEF LosslessInv, Idle, Acking, Waiting, Executing, ExecutesWhatWasSent,
         CommandOnItsWay, Receiving, ReceivingData, ReceivingEscaped,
         ReceivingChecksum, PassedOver

\* Whatever may happen later, as long as nothing was lost and gdb has waited,
\* what the monitor executes is what gdb has sent and waits for: getPacketData
\* puts together the command that was escaped, and never one that does not fit
\* or was cut short.
THEOREM ExecutesWhileUndisturbed == Spec => [](Undisturbed => ExecutesWhatWasSent)
<1>1. LinkInv => (Undisturbed => ExecutesWhatWasSent)
  BY SituationsExecute DEF LinkInv
<1>. QED
  BY <1>1, LinkInvariant, PTL

\* A line that loses nothing and a patient gdb are never disturbed.
LEMMA LosslessInvariant == ASSUME Lossless PROVE Spec => []LosslessInv
<1>1. Init => Undisturbed
  BY DEF Init, Undisturbed
<1>2. Undisturbed /\ LinkInv /\ [Next]_vars => Undisturbed'
  BY CountsGrow DEF LinkInv
<1>3. LinkInv /\ Undisturbed => LosslessInv
  BY DEF LinkInv
<1>. QED
  BY <1>1, <1>2, <1>3, LinkInvariant, PTL DEF Spec

\* So on such a line the monitor executes nothing else.
THEOREM ExecutesWhatWasSentHolds ==
    ASSUME Lossless PROVE Spec => []ExecutesWhatWasSent
  BY SituationsExecute, LosslessInvariant, PTL

-----------------------------------------------------------------------------
(* Such a line implements RemoteCall.                                       *)

\* At first gdb has sent nothing.
LEMMA RemoteInit == Init => Remote!Init
  BY DEF Init, Remote!Init

\* The steps that RemoteCall knows are a command that gdb sends, its execution
\* and the reply that gdb takes.
LEMMA RemoteStep ==
    ASSUME LosslessInv, Lossless, [Next]_vars
    PROVE  [Remote!Next]_(Remote!vars)
<1>. DEFINE same == /\ calls' = calls /\ gdb' = gdb /\ executed' = executed
                    /\ answered' = answered /\ losses' = losses
<1>0. losses = 0
  BY DEF LosslessInv, Undisturbed
<1>1. ASSUME same PROVE [Remote!Next]_(Remote!vars)
  BY <1>1 DEF Remote!vars
<1>2. CASE GetFromGdb \/ ProgramStops \/ SendToGdb \/ UNCHANGED vars
  <2>1. same
    BY <1>2
    DEF GetFromGdb, WaitForStartOfNextPacket, GetPacketData, GetEscapedCharacter,
        ExtractFirstDigit, ExtractSecondDigit, DropPacket, SendNak, SendAck,
        ProgramStops, SendToGdb, SkipControlC, PacketAcknowledged, SendPacketAgain,
        host, vars
  <2>. QED
    BY <1>1, <2>1
<1>3. CASE HandleCommand
  <2>1. gdb # "idle" /\ executed = 0
    BY <1>3
    DEF HandleCommand, LosslessInv, Undisturbed, Idle, Acking, Waiting, Executing, CommandOnItsWay,
        Receiving, ReceivingData, ReceivingEscaped, ReceivingChecksum, PassedOver
  <2>2. /\ executed' = executed + 1 /\ calls' = calls /\ gdb' = gdb
        /\ answered' = answered /\ losses' = losses
    BY <1>3 DEF HandleCommand, host
  <2>3. Remote!Execute
    BY <2>1, <2>2 DEF Remote!Execute
  <2>. QED
    BY <2>3 DEF Remote!Next
<1>4. CASE GdbNext
  <2>1. CASE \E command \in Commands : Call(command)
    <3>1. /\ gdb = "idle" /\ gdb' = "acking" /\ calls' = calls + 1 /\ executed' = 0
          /\ answered' = answered /\ losses' = losses
      BY <2>1 DEF Call
    <3>2. Remote!Send
      BY <3>1 DEF Remote!Send
    <3>. QED
      BY <3>2 DEF Remote!Next
  <2>2. CASE GdbTakesReply
    <3>1. PICK i \in DOMAIN toGdb : answered' = toGdb[i].call
      BY <2>2 DEF GdbTakesReply
    <3>2. /\ Waiting /\ gdb' = "idle" /\ calls' = calls /\ executed' = executed
          /\ losses' = losses
      BY <2>2 DEF GdbTakesReply, LosslessInv, Undisturbed, Idle, Acking
    <3>3. toGdb = <<Reply(calls)>> /\ executed = 1 /\ gdb = "waiting"
      BY <3>1, <3>2 DEF Waiting, Executing
    <3>4. answered' = calls
      <4>1. i = 1
        BY <3>1, <3>3
      <4>. QED
        BY <3>1, <3>3, <4>1 DEF Reply
    <3>5. Remote!Answer
      BY <3>2, <3>3, <3>4 DEF Remote!Answer
    <3>. QED
      BY <3>5 DEF Remote!Next
  <2>3. CASE \/ GdbInterrupts \/ GdbTakesAck \/ GdbSendsAgain \/ GdbIgnoresPacket
             \/ GdbTimesOutOnAck \/ GdbTimesOutOnReply
    <3>1. /\ calls' = calls /\ executed' = executed /\ answered' = answered
          /\ losses' = losses /\ (gdb' # "idle" <=> gdb # "idle")
      BY <2>3
      DEF GdbInterrupts, GdbTakesAck, GdbSendsAgain, GdbIgnoresPacket,
          GdbTimesOutOnAck, GdbTimesOutOnReply, TimesOut, host
    <3>. QED
      BY <3>1 DEF Remote!vars
  <2>. QED
    BY <1>4, <2>1, <2>2, <2>3 DEF GdbNext
<1>5. ~LoseCharacter /\ ~LoseReply
  BY DEF LoseCharacter, LoseReply, LosslessInv, Undisturbed, Lossless
<1>. QED
  BY <1>2, <1>3, <1>4, <1>5 DEF Next

\* On a line that loses nothing every command is executed once, before gdb takes
\* a reply for its own, and that reply is the one to it.
THEOREM DeliveryHolds == ASSUME Lossless PROVE Spec => Delivery
<1>1. LosslessInv /\ [Next]_vars => [Remote!Next]_(Remote!vars)
  BY RemoteStep
<1>. QED
  BY <1>1, RemoteInit, LosslessInvariant, PTL DEF Spec, Delivery, Remote!Spec
=============================================================================
