----------------------------- MODULE MemoryProofs -----------------------------
(***************************************************************************)
(* Proofs about Memory, for a memory of any size, lines of any length, any *)
(* ranges and any number of commands.                                      *)
(***************************************************************************)
EXTENDS Memory, SequenceTheorems, TLAPS

-----------------------------------------------------------------------------
(* Lines of a cache.                                                        *)

\* A number is its quotient times the divisor, and the remainder.
LEMMA DivisionAndRemainder ==
    ASSUME NEW n \in Nat, NEW d \in Nat \ {0}
    PROVE  /\ n \div d \in Nat /\ n % d \in 0 .. (d - 1)
           /\ n = d * (n \div d) + (n % d)
OBVIOUS

\* Nothing else is the quotient.
LEMMA QuotientIsUnique ==
    ASSUME NEW d \in Nat \ {0}, NEW q \in Nat, NEW r \in 0 .. (d - 1)
    PROVE  (d * q + r) \div d = q
<1>. DEFINE n == d * q + r
            p == n \div d
            s == n % d
<1>1. n \in Nat
  OBVIOUS
<1>2. p \in Nat /\ s \in 0 .. (d - 1) /\ d * q + r = d * p + s
  BY <1>1, DivisionAndRemainder
<1>. HIDE DEF n, p, s
<1>3. ASSUME q < p PROVE FALSE
  <2>1. d * (q + 1) <= d * p
    BY <1>2, <1>3
  <2>2. d * (q + 1) = d * q + d
    OBVIOUS
  <2>. QED
    BY <1>2, <2>1, <2>2
<1>4. ASSUME p < q PROVE FALSE
  <2>1. d * (p + 1) <= d * q
    BY <1>2, <1>4
  <2>2. d * (p + 1) = d * p + d
    BY <1>2
  <2>. QED
    BY <1>2, <2>1, <2>2
<1>5. p = q
  BY <1>2, <1>3, <1>4
<1>. QED
  BY <1>5 DEF p, n

\* The loops over the lines reach every byte of the range.
LEMMA LinesCover ==
    ASSUME NEW start \in Nat, NEW size \in Nat, NEW line \in Nat \ {0},
           NEW a \in Span(start, size), a \in Addresses
    PROVE  a \in UNION LinesFrom(start, size, line)
<1>. DEFINE q == start \div line
            r == start % line
            j == a - start
            k == (r + j) \div line
            t == (r + j) % line
            e == size + r + line - 1
            count == e \div line
<1>1. q \in Nat /\ r \in 0 .. (line - 1) /\ start = line * q + r
  BY DivisionAndRemainder
<1>2. j \in Nat /\ j < size /\ a = start + j /\ a \in Nat
  BY DEF Span
<1>3. r + j \in Nat /\ e \in Nat
  BY <1>1, <1>2
<1>4. k \in Nat /\ t \in 0 .. (line - 1) /\ r + j = line * k + t
  BY <1>3, DivisionAndRemainder
<1>5. count \in Nat /\ e % line \in 0 .. (line - 1)
      /\ e = line * count + (e % line)
  BY <1>3, DivisionAndRemainder
<1>. DEFINE u == e % line
<1>6. u \in 0 .. (line - 1) /\ e = line * count + u
  BY <1>5
<1>7. e = size + r + line - 1
  OBVIOUS
<1>8. (size + (start % line) + line - 1) \div line = count
  OBVIOUS
<1>9. a \div line = q + k
  <2>1. a = line * (q + k) + t
    <3>. HIDE DEF q, r, j, k, t
    <3>1. line * (q + k) = line * q + line * k
      BY <1>1, <1>4
    <3>. QED
      BY <1>1, <1>2, <1>4, <3>1
  <2>2. q + k \in Nat
    BY <1>1, <1>4
  <2>. HIDE DEF q, k, t
  <2>. QED
    BY <1>4, <2>1, <2>2, QuotientIsUnique
<1>10. (start + k * line) \div line = q + k
  <2>1. start + k * line = line * (q + k) + r
    <3>. HIDE DEF q, r, j, k, t
    <3>1. line * (q + k) = line * q + line * k /\ k * line = line * k
      BY <1>1, <1>4
    <3>. QED
      BY <1>1, <1>4, <3>1
  <2>2. q + k \in Nat
    BY <1>1, <1>4
  <2>. HIDE DEF q, k, r
  <2>. QED
    BY <1>1, <2>1, <2>2, QuotientIsUnique
<1>11. k <= count - 1
  <2>. HIDE DEF q, r, j, k, t, e, count, u
  <2>1. SUFFICES ASSUME count <= k PROVE FALSE
    BY <1>4, <1>5
  <2>2. line * count <= line * k
    BY <1>4, <1>5, <2>1
  <2>. QED
    BY <1>1, <1>2, <1>4, <1>5, <1>6, <1>7, <2>2
<1>12. a \in LineOf(start + k * line, line)
  <2>1. /\ a = line * (a \div line) + (a % line)
        /\ a % line \in 0 .. (line - 1) /\ a \div line \in Nat
    BY <1>2, DivisionAndRemainder
  <2>. DEFINE p == a \div line
              s == a % line
  <2>2. a = line * p + s /\ s \in 0 .. (line - 1) /\ p \in Nat
        /\ p = (start + k * line) \div line
    BY <1>9, <1>10, <2>1
  <2>. HIDE DEF p, s, k
  <2>3. p * line = line * p /\ p * line \in Nat
    BY <2>2
  <2>4. p * line <= a /\ a <= p * line + line - 1
    BY <1>2, <2>2, <2>3
  <2>5. a \in Span(p * line, line)
    BY <1>2, <2>3, <2>4 DEF Span
  <2>. QED
    BY <2>2, <2>5 DEF LineOf
<1>13. k \in 0 .. (count - 1)
  BY <1>4, <1>5, <1>11
<1>. HIDE DEF k, count
<1>14. LineOf(start + k * line, line) \in LinesFrom(start, size, line)
  BY <1>8, <1>13 DEF LinesFrom
<1>. QED
  BY <1>12, <1>14

-----------------------------------------------------------------------------
(* What the program executes.                                               *)

CommandOK ==
    /\ command \in [name : {"m", "M", "X"}, start : Nat, length : Nat,
                    data : Seq(Int)]
    /\ done \in 0 .. command.length
    /\ Width # 1 => done \in {0, command.length}
    /\ cached \in BOOLEAN

\* The instruction cache holds nothing else at a than memory does, and loads
\* nothing else.
Loadable(a) == unified[a] = memory[a]
Clean(a) == copy[a] \in {Absent, memory[a]}

Target == Span(command.start, command.length)

Writing == command.name # "m" /\ phase \in {"transfer", "clean", "invalidate"}

\* What gdb last wrote with X stays fit to be executed while it writes
\* elsewhere, and the rest becomes so line by line.
SyncInv ==
    /\ CommandOK
    /\ memory \in [Addresses -> Int]
    /\ unified \in [Addresses -> Int]
    /\ copy \in [Addresses -> Int]
    /\ ~cached => \A a \in Addresses : Loadable(a) /\ copy[a] = Absent
    /\ synced \subseteq Addresses
    /\ \A a \in synced : Loadable(a) /\ Clean(a)
    /\ Writing => /\ synced \cap Target = {}
                  /\ Span(command.start, done) \subseteq Addresses
    /\ phase \in {"clean", "invalidate"} =>
          Writing /\ Target \subseteq Addresses
    /\ phase = "clean" =>
          \A a \in Target : a \in UNION lines \/ Loadable(a)
    /\ phase = "invalidate" =>
          \A a \in Target : Loadable(a) /\ (a \in UNION lines \/ Clean(a))

\* At first memory and both caches agree.
LEMMA SyncInit == Init => SyncInv
<1>. SUFFICES ASSUME Init PROVE SyncInv
  OBVIOUS
<1>1. CommandOK
  <2>1. <<>> \in Seq(Int)
    OBVIOUS
  <2>. QED
    BY <2>1 DEF Init, CommandOK, NoCommand
<1>2. /\ memory \in [Addresses -> Int] /\ unified \in [Addresses -> Int]
      /\ copy \in [Addresses -> Int]
  BY DEF Init, Absent
<1>3. \A a \in Addresses : Loadable(a) /\ Clean(a) /\ copy[a] = Absent
  BY DEF Init, Loadable, Clean
<1>. QED
  BY <1>1, <1>2, <1>3 DEF Init, SyncInv, Writing

\* Steps that leave the bytes, the caches and the command alone.
LEMMA SyncKept ==
    ASSUME SyncInv,
           UNCHANGED <<cached, memory, unified, copy, command, done, synced>>,
           phase' \notin {"transfer", "clean", "invalidate"}
    PROVE  SyncInv'
<1>1. CommandOK'
  <2>1. Width' = Width
    BY DEF Width
  <2>. QED
    BY <2>1 DEF SyncInv, CommandOK
<1>2. \A a : Loadable(a)' = Loadable(a) /\ Clean(a)' = Clean(a)
  BY DEF Loadable, Clean
<1>. QED
  BY <1>1, <1>2 DEF SyncInv, Writing

\* Writing a line back changes nothing that is read.
LEMMA WriteBackSyncs ==
    ASSUME SyncInv, NEW line, WriteBack(line)
    PROVE  SyncInv'
<1>1. /\ UNCHANGED <<cached, memory, copy, phase, command, done, lines, synced>>
      /\ unified' = [a \in Addresses |-> IF a \in line THEN memory[a] ELSE unified[a]]
  BY DEF WriteBack, transfer
<1>2. \A a \in Addresses : Loadable(a) => Loadable(a)'
  BY <1>1 DEF Loadable
<1>3. \A a : Clean(a)' = Clean(a)
  BY <1>1 DEF Clean
<1>4. CommandOK'
  <2>1. Width' = Width
    BY <1>1 DEF Width
  <2>. QED
    BY <1>1, <2>1 DEF SyncInv, CommandOK
<1>5. unified' \in [Addresses -> Int]
  BY <1>1 DEF SyncInv
<1>6. Writing' = Writing /\ Target' = Target
  BY <1>1 DEF Writing, Target
<1>. QED
  BY <1>1, <1>2, <1>3, <1>4, <1>5, <1>6 DEF SyncInv

\* A line that is loaded holds what is in memory.
LEMMA LoadSyncs ==
    ASSUME SyncInv, NEW line, Load(line)
    PROVE  SyncInv'
<1>1. /\ UNCHANGED <<cached, memory, unified, phase, command, done, lines, synced>>
      /\ copy' = [a \in Addresses |-> IF a \in line THEN unified[a] ELSE copy[a]]
      /\ cached
  BY DEF Load, transfer
<1>2. \A a : Loadable(a)' = Loadable(a)
  BY <1>1 DEF Loadable
<1>3. \A a \in Addresses : Loadable(a) /\ Clean(a) => Clean(a)'
  BY <1>1 DEF Clean, Loadable
<1>4. CommandOK'
  <2>1. Width' = Width
    BY <1>1 DEF Width
  <2>. QED
    BY <1>1, <2>1 DEF SyncInv, CommandOK
<1>5. copy' \in [Addresses -> Int]
  BY <1>1 DEF SyncInv
<1>6. Writing' = Writing /\ Target' = Target
  BY <1>1 DEF Writing, Target
<1>. QED
  BY <1>1, <1>2, <1>3, <1>4, <1>5, <1>6 DEF SyncInv

\* A command begins with nothing transferred.
LEMMA ReceiveSyncs ==
    ASSUME SyncInv, NEW name \in {"m", "M", "X"}, NEW start \in Starts,
           NEW length \in Lengths, NEW data \in Seq(Int),
           Receive(name, start, length, data)
    PROVE  SyncInv'
<1>1. /\ UNCHANGED <<cached, memory, unified, copy>>
      /\ command' = [name |-> name, start |-> start, length |-> length, data |-> data]
      /\ done' = 0 /\ phase' = "transfer"
      /\ synced' = IF name = "m" THEN synced ELSE synced \ Span(start, length)
  BY DEF Receive, caches
<1>2. CommandOK'
  BY <1>1, MemoryAssumption DEF SyncInv, CommandOK
<1>3. \A a : Loadable(a)' = Loadable(a) /\ Clean(a)' = Clean(a)
  BY <1>1 DEF Loadable, Clean
<1>4. Target' = Span(start, length)
  BY <1>1 DEF Target
<1>5. Span(command'.start, done') = {}
  BY <1>1, <1>2 DEF Span, CommandOK
<1>6. Writing' => synced' \cap Target' = {}
  BY <1>1, <1>4 DEF Writing
<1>. QED
  BY <1>1, <1>2, <1>3, <1>5, <1>6 DEF SyncInv

\* An access is of a byte, or of the whole range.
LEMMA Widths ==
    ASSUME CommandOK
    PROVE  /\ Width \in Nat \ {0}
           /\ Width = 1 \/ Width = command.length
           /\ NextAddress \in Nat
           /\ AccessRange = NextAddress .. (NextAddress + Width - 1)
           /\ done < command.length => done + Width <= command.length
BY DEF CommandOK, Width, NextAddress, AccessRange, Span

\* n bytes of memory from base on
Bytes(f, base, n) == [i \in 1 .. n |-> f[base + i - 1]]

\* What a range holds is a sequence of as many bytes.
LEMMA BytesAreSequences ==
    ASSUME NEW f \in [Addresses -> Int], NEW base \in Nat, NEW n \in Nat,
           Span(base, n) \subseteq Addresses
    PROVE  /\ Bytes(f, base, n) \in Seq(Int)
           /\ Len(Bytes(f, base, n)) = n
           /\ \A i \in 1 .. n : Bytes(f, base, n)[i] = f[base + i - 1]
<1>. DEFINE bytes == Bytes(f, base, n)
<1>1. \A i \in 1 .. n : base + i - 1 \in Addresses
  BY DEF Span
<1>2. /\ bytes \in [1 .. n -> Int] /\ DOMAIN bytes = 1 .. n
      /\ \A i \in 1 .. n : bytes[i] = f[base + i - 1]
  BY <1>1 DEF Bytes
<1>. HIDE DEF bytes
<1>3. bytes \in Seq(Int)
  BY <1>2, SeqDef
<1>4. Len(bytes) = n
  BY <1>2, <1>3, LenProperties
<1>. QED
  BY <1>2, <1>3, <1>4 DEF bytes

\* A range in two parts holds what its parts hold.
LEMMA BytesAdd ==
    ASSUME NEW f \in [Addresses -> Int], NEW base \in Nat, NEW n \in Nat,
           NEW more \in Nat, Span(base, n + more) \subseteq Addresses
    PROVE  Bytes(f, base, n) \o Bytes(f, base + n, more) = Bytes(f, base, n + more)
<1>. DEFINE s == Bytes(f, base, n)
            t == Bytes(f, base + n, more)
            u == Bytes(f, base, n + more)
<1>1. Span(base, n) \subseteq Addresses /\ Span(base + n, more) \subseteq Addresses
  BY DEF Span
<1>2. /\ s \in Seq(Int) /\ Len(s) = n
      /\ \A i \in 1 .. n : s[i] = f[base + i - 1]
  BY <1>1, BytesAreSequences
<1>3. /\ t \in Seq(Int) /\ Len(t) = more
      /\ \A i \in 1 .. more : t[i] = f[base + n + i - 1]
  BY <1>1, BytesAreSequences
<1>4. /\ u \in Seq(Int) /\ Len(u) = n + more
      /\ \A i \in 1 .. n + more : u[i] = f[base + i - 1]
  BY BytesAreSequences
<1>. HIDE DEF s, t, u
<1>5. /\ s \o t \in Seq(Int)
      /\ Len(s \o t) = n + more
      /\ \A i \in 1 .. n + more : (s \o t)[i] = IF i <= n THEN s[i] ELSE t[i - n]
  BY <1>2, <1>3, ConcatProperties
<1>6. ASSUME NEW i \in 1 .. n + more
      PROVE  (s \o t)[i] = u[i]
  <2>1. CASE i <= n
    <3>1. i \in 1 .. n
      BY <2>1
    <3>. QED
      BY <1>2, <1>4, <1>5, <2>1, <3>1
  <2>2. CASE ~(i <= n)
    <3>1. i - n \in 1 .. more /\ base + n + (i - n) - 1 = base + i - 1
      BY <2>2
    <3>. QED
      BY <1>3, <1>4, <1>5, <2>2, <3>1
  <2>. QED
    BY <2>1, <2>2
<1>. QED
  BY <1>4, <1>5, <1>6, SeqEqual DEF s, t, u

\* Reading writes nothing.
LEMMA ReadSyncs ==
    ASSUME SyncInv, ReadAccess
    PROVE  SyncInv'
<1>1. /\ UNCHANGED <<cached, memory, unified, copy, synced>>
      /\ command.name = "m" /\ phase = "transfer"
  BY DEF ReadAccess, caches
<1>. DEFINE bytes == Bytes(memory, NextAddress, Width)
<1>2. \/ phase' = "halted" /\ UNCHANGED <<command, done>>
      \/ /\ phase' = "transfer" /\ done' = done + Width
         /\ command' = [command EXCEPT !.data = @ \o bytes]
         /\ AccessRange \subseteq Readable
  BY DEF ReadAccess, Finish, SeesFault, Bytes
<1>3. CASE phase' = "halted" /\ UNCHANGED <<command, done>>
  BY <1>1, <1>3, SyncKept
<1>4. CASE /\ phase' = "transfer" /\ done' = done + Width
           /\ command' = [command EXCEPT !.data = @ \o bytes]
           /\ AccessRange \subseteq Readable
  <2>1. Width \in Nat /\ NextAddress \in Nat
    BY Widths DEF SyncInv
  <2>2. bytes \in Seq(Int)
    <3>1. Span(NextAddress, Width) \subseteq Addresses
      BY <1>4, MemoryAssumption DEF AccessRange, Addresses
    <3>. QED
      BY <2>1, <3>1, BytesAreSequences DEF SyncInv
  <2>. HIDE DEF bytes
  <2>3. command.data \o bytes \in Seq(Int)
    BY <2>2, ConcatProperties DEF SyncInv, CommandOK
  <2>4. CommandOK' /\ command'.name = "m"
    <3>1. /\ command' \in [name : {"m", "M", "X"}, start : Nat, length : Nat,
                            data : Seq(Int)]
          /\ command'.name = "m" /\ command'.start = command.start
          /\ command'.length = command.length
      BY <1>1, <1>4, <2>3, Zenon DEF SyncInv, CommandOK
    <3>2. Width' = Width
      BY <3>1 DEF Width
    <3>3. done < command.length
      BY DEF ReadAccess
    <3>. QED
      BY <1>1, <1>4, <2>1, <3>1, <3>2, <3>3, Widths DEF SyncInv, CommandOK
  <2>5. \A a : Loadable(a)' = Loadable(a) /\ Clean(a)' = Clean(a)
    BY <1>1 DEF Loadable, Clean
  <2>. QED
    BY <1>1, <1>4, <2>4, <2>5 DEF SyncInv, Writing
<1>. QED
  BY <1>2, <1>3, <1>4

\* Each access of a write leaves its bytes in the data cache, or in memory.
LEMMA WriteSyncs ==
    ASSUME SyncInv, WriteAccess
    PROVE  SyncInv'
<1>1. /\ UNCHANGED <<cached, copy, command, lines, synced>>
      /\ phase = "transfer" /\ command.name # "m" /\ Writing
      /\ done < command.length /\ done + Width <= Len(command.data)
  BY DEF WriteAccess, Writing
<1>2. /\ Width \in Nat \ {0} /\ NextAddress \in Nat /\ done \in Nat
      /\ Width = 1 \/ Width = command.length
      /\ AccessRange = NextAddress .. (NextAddress + Width - 1)
      /\ NextAddress = command.start + done
      /\ command.start \in Nat /\ command.length \in Nat
      /\ command.data \in Seq(Int)
  BY Widths DEF SyncInv, CommandOK, NextAddress
<1>. DEFINE bytes == SubSeq(command.data, done + 1, done + Width)
<1>3. /\ DOMAIN bytes = 1 .. Width
      /\ \A i \in 1 .. Width : bytes[i] \in Int
  BY <1>1, <1>2
<1>4. \/ UNCHANGED <<memory, unified>>
      \/ AccessRange \subseteq Writable /\ Store(NextAddress, bytes)
  BY DEF WriteAccess
<1>5. \/ phase' = "halted" /\ UNCHANGED done
      \/ /\ phase' = "transfer" /\ done' = done + Width
         /\ AccessRange \subseteq Writable
  BY DEF WriteAccess, Finish, SeesFault
<1>. HIDE DEF bytes
<1>6. ASSUME Store(NextAddress, bytes)
      PROVE  /\ memory' \in [Addresses -> Int] /\ unified' \in [Addresses -> Int]
             /\ \A a \in Addresses \ AccessRange : memory'[a] = memory[a]
             /\ unified' = IF cached THEN unified ELSE memory'
  <2>1. memory' = [a \in Addresses |->
                    IF a - NextAddress + 1 \in 1 .. Width
                    THEN bytes[a - NextAddress + 1] ELSE memory[a]]
    BY <1>3, <1>6 DEF Store, Stored
  <2>2. memory' \in [Addresses -> Int]
    BY <1>3, <2>1 DEF SyncInv
  <2>3. \A a \in Addresses \ AccessRange : memory'[a] = memory[a]
    BY <1>2, <2>1, MemoryAssumption DEF Addresses
  <2>. QED
    BY <1>6, <2>2, <2>3 DEF Store, SyncInv
<1>7. done + Width <= command.length
  BY <1>1, Widths DEF SyncInv
<1>8. AccessRange \subseteq Target
  BY <1>2, <1>7 DEF Target, Span, SyncInv, CommandOK
<1>9. AccessRange \cap synced = {}
  BY <1>1, <1>8 DEF SyncInv
<1>10. /\ memory' \in [Addresses -> Int] /\ unified' \in [Addresses -> Int]
       /\ \A a \in synced : memory'[a] = memory[a] /\ Loadable(a)'
       /\ ~cached => \A a \in Addresses : Loadable(a)'
  <2>1. CASE UNCHANGED <<memory, unified>>
    BY <2>1 DEF SyncInv, Loadable
  <2>2. CASE Store(NextAddress, bytes)
    <3>1. \A a \in synced : a \in Addresses \ AccessRange
      BY <1>9 DEF SyncInv
    <3>. QED
      BY <1>6, <2>2, <3>1 DEF SyncInv, Loadable
  <2>. QED
    BY <1>4, <2>1, <2>2
<1>11. \A a \in synced : Clean(a)'
  BY <1>1, <1>10 DEF SyncInv, Clean
<1>12. CommandOK'
  <2>1. Width' = Width
    BY <1>1 DEF Width
  <2>. QED
    BY <1>1, <1>2, <1>5, <1>7, <2>1 DEF SyncInv, CommandOK
<1>13. Target' = Target /\ synced \cap Target = {}
  BY <1>1 DEF Target, SyncInv
<1>14. Span(command.start, done') \subseteq Addresses
  <2>1. Span(command.start, done) \subseteq Addresses
    BY <1>1 DEF SyncInv
  <2>2. CASE UNCHANGED done
    BY <2>1, <2>2
  <2>3. CASE done' = done + Width /\ AccessRange \subseteq Writable
    <3>1. AccessRange \subseteq Addresses
      BY <2>3, MemoryAssumption DEF Addresses
    <3>2. Span(command.start, done')
            = Span(command.start, done) \cup AccessRange
      BY <1>2, <2>3 DEF Span
    <3>. QED
      BY <2>1, <3>1, <3>2
  <2>. QED
    BY <1>5, <2>2, <2>3
<1>15. phase' \notin {"clean", "invalidate"}
  BY <1>5
<1>. QED
  BY <1>1, <1>10, <1>11, <1>12, <1>13, <1>14, <1>15 DEF SyncInv

\* The data are written and the caches are next, unless it was M.
LEMMA WriteDoneSyncs ==
    ASSUME SyncInv, WriteDone
    PROVE  SyncInv'
<1>1. /\ UNCHANGED <<cached, memory, unified, copy, command, done>>
      /\ phase = "transfer" /\ command.name # "m" /\ Writing
      /\ done = command.length
  BY DEF WriteDone, Writing, caches
<1>2. /\ synced \cap Target = {} /\ Target \subseteq Addresses
      /\ command.start \in Nat /\ command.length \in Nat
  BY <1>1 DEF SyncInv, CommandOK, Target
<1>3. /\ CommandOK' /\ Target' = Target
      /\ \A a : Loadable(a)' = Loadable(a) /\ Clean(a)' = Clean(a)
  <2>1. Width' = Width
    BY <1>1 DEF Width
  <2>. QED
    BY <1>1, <2>1 DEF SyncInv, CommandOK, Target, Loadable, Clean
<1>4. CASE phase' = "clean" /\ lines' = DataLinesOf(command) /\ UNCHANGED synced
  <2>1. \A a \in Target : a \in UNION lines'
    BY <1>2, <1>4, LinesCover, MemoryAssumption DEF DataLinesOf, Target
  <2>2. Writing'
    BY <1>1, <1>4 DEF Writing
  <2>. QED
    BY <1>1, <1>2, <1>3, <1>4, <2>1, <2>2 DEF SyncInv
<1>5. CASE /\ phase' = "halted"
           /\ command.name = "X" /\ command.length # 0 => ~cached
           /\ synced' = IF command.name = "X"
                        THEN synced \cup Span(command.start, command.length)
                        ELSE synced
  <2>1. synced' \subseteq synced \cup Target
    BY <1>5 DEF Target
  <2>2. \A a \in synced' : a \in synced \/ ~cached
    <3>1. CASE command.length = 0
      <4>1. Target = {}
        BY <1>2, <3>1 DEF Target, Span
      <4>. QED
        BY <2>1, <4>1
    <3>2. CASE command.length # 0
      BY <1>5, <3>2
    <3>. QED
      BY <3>1, <3>2
  <2>3. \A a \in Addresses : ~cached => Loadable(a) /\ Clean(a)
    BY DEF SyncInv, Clean
  <2>4. synced' \subseteq Addresses
    BY <1>2, <2>1 DEF SyncInv
  <2>5. \A a \in synced' : Loadable(a)' /\ Clean(a)'
    BY <1>3, <2>2, <2>3, <2>4 DEF SyncInv
  <2>6. ~Writing'
    BY <1>5 DEF Writing
  <2>. QED
    BY <1>1, <1>3, <1>5, <2>4, <2>5, <2>6 DEF SyncInv
<1>. QED
  BY <1>4, <1>5 DEF WriteDone, Finish

\* Cleaning brings the range to memory, a line at a time.
LEMMA CleanSyncs ==
    ASSUME SyncInv, CleanLine
    PROVE  SyncInv'
<1>. DEFINE line == FirstOf(lines)
<1>1. /\ UNCHANGED <<cached, memory, copy, phase, command, done, synced>>
      /\ phase = "clean" /\ Target \subseteq Addresses
      /\ unified' = [a \in Addresses |-> IF a \in line THEN memory[a] ELSE unified[a]]
      /\ lines' = lines \ {line}
  BY DEF CleanLine, transfer, SyncInv
<1>. HIDE DEF line
<1>2. /\ \A a \in Addresses : Loadable(a) => Loadable(a)'
      /\ \A a \in Addresses : a \in line => Loadable(a)'
      /\ \A a : Clean(a)' = Clean(a)
  BY <1>1 DEF Loadable, Clean
<1>3. CommandOK' /\ Writing' = Writing /\ Target' = Target
  <2>1. Width' = Width
    BY <1>1 DEF Width
  <2>. QED
    BY <1>1, <2>1 DEF SyncInv, CommandOK, Writing, Target
<1>4. unified' \in [Addresses -> Int]
  BY <1>1 DEF SyncInv
<1>5. \A a \in Target : a \in UNION lines' \/ Loadable(a)'
  BY <1>1, <1>2 DEF SyncInv
<1>. QED
  BY <1>1, <1>2, <1>3, <1>4, <1>5 DEF SyncInv

\* Then nothing of the range is left to write back.
LEMMA CleanedSyncs ==
    ASSUME SyncInv, Cleaned
    PROVE  SyncInv'
<1>1. /\ UNCHANGED <<cached, memory, unified, copy, command, done, synced>>
      /\ phase = "clean" /\ phase' = "invalidate" /\ lines = {}
      /\ lines' = InstructionLinesOf(command)
      /\ Writing /\ Target \subseteq Addresses
      /\ command.start \in Nat /\ command.length \in Nat
  BY DEF Cleaned, caches, transfer, SyncInv, CommandOK
<1>2. /\ CommandOK' /\ Target' = Target /\ Writing'
      /\ \A a : Loadable(a)' = Loadable(a) /\ Clean(a)' = Clean(a)
  <2>1. Width' = Width
    BY <1>1 DEF Width
  <2>. QED
    BY <1>1, <2>1 DEF SyncInv, CommandOK, Target, Writing, Loadable, Clean
<1>3. \A a \in Target : Loadable(a)
  BY <1>1 DEF SyncInv
<1>4. \A a \in Target : a \in UNION lines'
  BY <1>1, LinesCover, MemoryAssumption DEF InstructionLinesOf, Target
<1>. QED
  BY <1>1, <1>2, <1>3, <1>4 DEF SyncInv

\* Invalidating drops what was loaded before, a line at a time.
LEMMA InvalidateSyncs ==
    ASSUME SyncInv, InvalidateLine
    PROVE  SyncInv'
<1>. DEFINE line == FirstOf(lines)
<1>1. /\ UNCHANGED <<cached, memory, unified, phase, command, done, synced>>
      /\ phase = "invalidate" /\ Target \subseteq Addresses
      /\ copy' = [a \in Addresses |-> IF a \in line THEN Absent ELSE copy[a]]
      /\ lines' = lines \ {line}
  BY DEF InvalidateLine, transfer, SyncInv
<1>. HIDE DEF line
<1>2. /\ \A a : Loadable(a)' = Loadable(a)
      /\ \A a \in Addresses : Clean(a) => Clean(a)'
      /\ \A a \in Addresses : a \in line => Clean(a)'
      /\ \A a \in Addresses : copy[a] = Absent => copy'[a] = Absent
  BY <1>1 DEF Loadable, Clean
<1>3. CommandOK' /\ Writing' = Writing /\ Target' = Target
  <2>1. Width' = Width
    BY <1>1 DEF Width
  <2>. QED
    BY <1>1, <2>1 DEF SyncInv, CommandOK, Writing, Target
<1>4. copy' \in [Addresses -> Int]
  BY <1>1 DEF SyncInv, Absent
<1>5. \A a \in Target : a \in UNION lines' \/ Clean(a)'
  BY <1>1, <1>2 DEF SyncInv
<1>. QED
  BY <1>1, <1>2, <1>3, <1>4, <1>5 DEF SyncInv

\* Then nothing stale can be fetched.
LEMMA InvalidatedSyncs ==
    ASSUME SyncInv, Invalidated
    PROVE  SyncInv'
<1>1. /\ UNCHANGED <<cached, memory, unified, copy, command, done>>
      /\ phase = "invalidate" /\ phase' = "halted" /\ lines = {}
      /\ synced' = synced \cup Target
      /\ Target \subseteq Addresses
  BY DEF Invalidated, caches, Finish, SyncInv, Target
<1>2. /\ CommandOK' /\ ~Writing'
      /\ \A a : Loadable(a)' = Loadable(a) /\ Clean(a)' = Clean(a)
  <2>1. Width' = Width
    BY <1>1 DEF Width
  <2>. QED
    BY <1>1, <2>1 DEF SyncInv, CommandOK, Writing, Loadable, Clean
<1>3. \A a \in Target : Loadable(a) /\ Clean(a)
  BY <1>1 DEF SyncInv
<1>. QED
  BY <1>1, <1>2, <1>3 DEF SyncInv

\* The program is resumed with the caches as they are.
LEMMA RunSyncs ==
    ASSUME SyncInv, Run
    PROVE  SyncInv'
<1>1. /\ UNCHANGED <<cached, memory, unified, copy, synced>>
      /\ command' = NoCommand /\ done' = 0 /\ phase' = "running"
  BY DEF Run, caches
<1>2. CommandOK'
  <2>1. <<>> \in Seq(Int)
    OBVIOUS
  <2>. QED
    BY <1>1, <2>1 DEF SyncInv, CommandOK, NoCommand
<1>3. \A a : Loadable(a)' = Loadable(a) /\ Clean(a)' = Clean(a)
  BY <1>1 DEF Loadable, Clean
<1>. QED
  BY <1>1, <1>2, <1>3 DEF SyncInv, Writing

\* What gdb writes are bytes.
LEMMA DataAreBytes ==
    ASSUME NEW length \in Nat, commands \in Nat
    PROVE  Data(length) \in Seq(Int)
<1>1. Data(length) \in [1 .. length -> Int]
  BY DEF Data
<1>. QED
  BY <1>1, SeqDef

\* The data of M and X, also when one byte is missing.
LEMMA GivenData ==
    ASSUME NEW length \in Lengths, NEW given \in {length, Max({length - 1, 0})},
           commands \in Nat
    PROVE  Data(given) \in Seq(Int)
<1>1. length \in Nat
  BY MemoryAssumption
<1>2. Max({length - 1, 0}) \in {length - 1, 0} /\ Max({length - 1, 0}) >= 0
  <2>1. \E x \in {length - 1, 0} : \A y \in {length - 1, 0} : x >= y
    BY <1>1
  <2>. QED
    BY <1>1, <2>1 DEF Max
<1>3. given \in Nat
  BY <1>1, <1>2
<1>. QED
  BY <1>3, DataAreBytes

\* A step keeps the invariant of the caches.
LEMMA SyncNext ==
    ASSUME SyncInv, commands \in Nat, [Next]_vars
    PROVE  SyncInv'
<1>1. CASE Call
  BY <1>1, SyncKept DEF Call, caches, transfer
<1>2. ASSUME NEW block, Request(block)
      PROVE  SyncInv'
  BY <1>2, SyncKept DEF Request, caches, transfer
<1>3. ASSUME NEW start \in Starts, NEW length \in Lengths,
             Receive("m", start, length, <<>>)
      PROVE  SyncInv'
  <2>1. <<>> \in Seq(Int)
    OBVIOUS
  <2>. QED
    BY <1>3, <2>1, ReceiveSyncs
<1>4. ASSUME NEW name \in {"M", "X"}, NEW start \in Starts,
             NEW length \in Lengths, NEW given \in {length, Max({length - 1, 0})},
             Receive(name, start, length, Data(given))
      PROVE  SyncInv'
  <2>1. Data(given) \in Seq(Int)
    BY GivenData
  <2>. QED
    BY <1>4, <2>1, ReceiveSyncs
<1>5. CASE ReadAccess \/ WriteAccess \/ WriteDone \/ CleanLine \/ Cleaned
              \/ InvalidateLine \/ Invalidated \/ Run
  BY <1>5, ReadSyncs, WriteSyncs, WriteDoneSyncs, CleanSyncs, CleanedSyncs,
     InvalidateSyncs, InvalidatedSyncs, RunSyncs
<1>6. CASE ReadDone \/ WriteOverrun
  BY <1>6, SyncKept DEF ReadDone, WriteOverrun, Finish, caches
<1>7. CASE Respond
  BY <1>7, SyncKept DEF Respond, caches, transfer
<1>8. ASSUME NEW line, WriteBack(line) \/ Load(line)
      PROVE  SyncInv'
  BY <1>8, WriteBackSyncs, LoadSyncs
<1>9. CASE UNCHANGED vars
  <2>1. UNCHANGED <<cached, memory, unified, copy, command, done, synced, phase, lines>>
    BY <1>9 DEF vars, caches, transfer
  <2>2. /\ CommandOK' /\ Target' = Target /\ Writing' = Writing
        /\ \A a : Loadable(a)' = Loadable(a) /\ Clean(a)' = Clean(a)
    <3>1. Width' = Width
      BY <2>1 DEF Width
    <3>. QED
      BY <2>1, <3>1 DEF SyncInv, CommandOK, Target, Writing, Loadable, Clean
  <2>. QED
    BY <2>1, <2>2 DEF SyncInv
<1>. QED
  BY <1>1, <1>2, <1>3, <1>4, <1>5, <1>6, <1>7, <1>8, <1>9 DEF Next

\* The bound on the commands counts them.
LEMMA CommandsAreCounted ==
    ASSUME commands \in Nat, [Next]_vars
    PROVE  commands' \in Nat
<1>1. ASSUME NEW name, NEW start, NEW length, NEW data,
             Receive(name, start, length, data)
      PROVE  commands' \in Nat
  BY <1>1 DEF Receive
<1>2. ASSUME NEW x, Request(x) \/ WriteBack(x) \/ Load(x)
      PROVE  commands' \in Nat
  BY <1>2, Zenon DEF Request, WriteBack, Load
<1>3. CASE ReadAccess \/ ReadDone \/ WriteOverrun \/ WriteAccess \/ WriteDone
  BY <1>3, Zenon DEF ReadAccess, ReadDone, WriteOverrun, WriteAccess, WriteDone
<1>4. CASE Call \/ CleanLine \/ Cleaned \/ InvalidateLine \/ Invalidated
              \/ Respond \/ Run
  BY <1>4, Zenon DEF Call, CleanLine, Cleaned, InvalidateLine, Invalidated,
                     Respond, Run
<1>5. CASE UNCHANGED vars
  BY <1>5 DEF vars
<1>. QED
  BY <1>1, <1>2, <1>3, <1>4, <1>5 DEF Next

\* The invariant of the caches holds.
LEMMA SyncInvariance == Spec => [](SyncInv /\ commands \in Nat)
<1>1. Init => SyncInv /\ commands \in Nat
  BY SyncInit DEF Init
<1>2. SyncInv /\ commands \in Nat /\ [Next]_vars
        => SyncInv' /\ (commands \in Nat)'
  BY SyncNext, CommandsAreCounted
<1>. QED
  BY <1>1, <1>2, PTL DEF Spec

\* Wherever the lines of the caches lie, what X has written is executed.
THEOREM WrittenIsExecuted == Spec => []ExecutesWhatWasWritten
<1>1. SyncInv => ExecutesWhatWasWritten
  BY DEF SyncInv, ExecutesWhatWasWritten, Fetched, Loadable, Clean
<1>. QED
  BY <1>1, SyncInvariance, PTL

-----------------------------------------------------------------------------
(* What m reads and M and X write.  The parameters of a call have to be      *)
(* readable: otherwise a fault is left for the first access of a command.   *)

ParametersReadable == \A block \in Blocks : Span(block, 4) \subseteq Readable

\* Memory can be read by whole words or not at all.
ReadableByWords ==
    \A size \in {2, 4}, a \in Nat :
        a % size = 0 => \/ Span(a, size) \subseteq Readable
                        \/ Span(a, size) \cap Readable = {}

InCommand == phase \in {"transfer", "clean", "invalidate"}

Part(n) == Bytes(memory, command.start, n)

Written ==
    /\ done <= Len(command.data)
    /\ \A a \in Addresses :
           memory[a] = IF a \in Span(command.start, done)
                       THEN command.data[a - command.start + 1]
                       ELSE before[a]

\* A command has transferred what comes before the next access, and nothing
\* else; its answer says how far it got.
TransferInv ==
    /\ fault = FALSE
    /\ phase # "responded" => pc \in Breakpoints
    /\ phase \in {"running", "called"} => answer.code = "none"
    /\ phase \in {"clean", "invalidate"} =>
          command.name # "m" /\ done = command.length
    /\ command.name = "m" /\ InCommand =>
          command.data = Part(done) /\ Span(command.start, done) \subseteq Readable
    /\ command.name # "m" /\ (InCommand \/ Answered) => Written
    /\ command.name # "m" /\ Answered =>
          (answer.code = "OK" <=> done = command.length)

\* What is read is as long as what can be read.
ReadInv ==
    command.name = "m" /\ Answered => answer = DataReply(Part(Reach(Readable)))

\* Of a range as much is in reach as lies before its first byte that is not.
LEMMA ReachIs ==
    ASSUME CommandOK, NEW set, NEW n \in 0 .. command.length,
           Span(command.start, n) \subseteq set,
           n < command.length => command.start + n \notin set
    PROVE  Reach(set) = n
<1>. DEFINE S == {k \in 0 .. command.length : Span(command.start, k) \subseteq set}
<1>1. n \in S
  OBVIOUS
<1>2. ASSUME NEW k \in S
      PROVE  k \in Nat /\ n >= k
  <2>1. k \in 0 .. command.length /\ command.length \in Nat /\ command.start \in Nat
    BY DEF CommandOK
  <2>2. SUFFICES ASSUME k > n PROVE FALSE
    BY <2>1
  <2>3. command.start + n \in Span(command.start, k)
    BY <2>1, <2>2 DEF Span
  <2>. QED
    BY <2>1, <2>2, <2>3
<1>. HIDE DEF S
<1>3. Max(S) \in S /\ \A k \in S : Max(S) >= k
  BY <1>1, <1>2 DEF Max
<1>4. Max(S) = n
  <2>1. Max(S) \in Nat /\ n >= Max(S) /\ Max(S) >= n
    BY <1>1, <1>2, <1>3
  <2>2. n \in Nat
    BY DEF CommandOK
  <2>. QED
    BY <2>1, <2>2
<1>. QED
  BY <1>4 DEF Reach, S

\* Where an access cannot be read its first byte cannot.
LEMMA FaultAtNext ==
    ASSUME ReadableByWords, CommandOK, done < command.length,
           ~(AccessRange \subseteq Readable)
    PROVE  command.start + done \notin Readable
<1>1. /\ command.start \in Nat /\ command.length \in Nat /\ done \in Nat
      /\ NextAddress = command.start + done
      /\ AccessRange = NextAddress .. (NextAddress + Width - 1)
  BY Widths DEF CommandOK, NextAddress
<1>2. CASE Width = 1
  <2>1. AccessRange = {NextAddress}
    BY <1>1, <1>2
  <2>. QED
    BY <1>1, <2>1
<1>3. CASE Width # 1
  <2>1. /\ Width = command.length /\ command.length \in {2, 4}
        /\ command.start % command.length = 0
        /\ done = 0
    BY <1>3 DEF Width, CommandOK
  <2>2. AccessRange = Span(command.start, command.length)
    BY <1>1, <2>1 DEF AccessRange, NextAddress
  <2>3. Span(command.start, command.length) \cap Readable = {}
    BY <1>1, <2>1, <2>2 DEF ReadableByWords
  <2>4. command.start \in Span(command.start, command.length)
    BY <1>1, <2>1 DEF Span
  <2>. QED
    BY <1>1, <2>1, <2>3, <2>4
<1>. QED
  BY <1>2, <1>3

\* What m answers.
LEMMA DataReplyCodes ==
    ASSUME NEW bytes
    PROVE  DataReply(bytes).code \in {"E03", "E04", "data"}
BY DEF DataReply, Reply

\* At first nothing is transferred.
LEMMA TransferInit ==
    ASSUME Init
    PROVE  TransferInv /\ ReadInv
BY DEF Init, TransferInv, ReadInv, InCommand, Answered, NoCommand, Reply

\* Steps of the caches.
LEMMA TransferUnseen ==
    ASSUME TransferInv, ReadInv,
           UNCHANGED <<memory, fault, pc, phase, command, done, answer, before>>
    PROVE  TransferInv' /\ ReadInv'
<1>1. /\ InCommand' = InCommand /\ Answered' = Answered /\ Written' = Written
      /\ \A n : Part(n)' = Part(n)
      /\ Reach(Readable)' = Reach(Readable)
      /\ \A b : DataReply(b)' = DataReply(b)
  BY DEF InCommand, Answered, Written, Part, Reach, DataReply
<1>. QED
  BY <1>1 DEF TransferInv, ReadInv

\* An access of m reads the next bytes, or stops at a fault.
LEMMA ReadAccessTransfers ==
    ASSUME SyncInv, TransferInv, ReadableByWords, ReadAccess
    PROVE  TransferInv' /\ ReadInv'
<1>1. /\ UNCHANGED <<memory, pc, before>> /\ fault' = FALSE
      /\ phase = "transfer" /\ command.name = "m" /\ done < command.length
      /\ command.data = Part(done) /\ Span(command.start, done) \subseteq Readable
      /\ pc \in Breakpoints
  BY DEF ReadAccess, TransferInv, InCommand, TakesFault
<1>2. /\ Width \in Nat \ {0} /\ NextAddress \in Nat
      /\ NextAddress = command.start + done
      /\ AccessRange = NextAddress .. (NextAddress + Width - 1)
      /\ AccessRange = Span(NextAddress, Width)
      /\ done + Width <= command.length
      /\ command.start \in Nat /\ command.length \in Nat
      /\ done \in 0 .. command.length
      /\ CommandOK
  BY <1>1, Widths DEF SyncInv, CommandOK, NextAddress, AccessRange
<1>3. CASE ~(AccessRange \subseteq Readable)
  <2>1. phase' = "halted" /\ answer' = DataReply(command.data)
        /\ UNCHANGED <<command, done>>
    BY <1>3 DEF ReadAccess, SeesFault, Finish
  <2>2. command.start + done \notin Readable
    BY <1>1, <1>2, <1>3, FaultAtNext
  <2>3. Reach(Readable) = done
    BY <1>1, <1>2, <2>2, ReachIs
  <2>4. answer' = DataReply(Part(Reach(Readable)))
    BY <1>1, <2>1, <2>3
  <2>5. Part(Reach(Readable))' = Part(Reach(Readable))
    BY <1>1, <2>1 DEF Part, Reach
  <2>6. ReadInv'
    BY <2>4, <2>5 DEF ReadInv, DataReply
  <2>. QED
    BY <1>1, <2>1, <2>6 DEF TransferInv, InCommand
<1>4. CASE AccessRange \subseteq Readable
  <2>. DEFINE bytes == Bytes(memory, NextAddress, Width)
  <2>1. /\ command' = [command EXCEPT !.data = @ \o bytes]
        /\ done' = done + Width /\ phase' = "transfer"
    BY <1>1, <1>4 DEF ReadAccess, SeesFault, TransferInv, Bytes
  <2>. HIDE DEF bytes
  <2>2. /\ command'.name = "m" /\ command'.start = command.start
        /\ command'.data = command.data \o bytes
    BY <1>1, <1>2, <2>1, Zenon DEF CommandOK
  <2>3. Span(command.start, done + Width) \subseteq Readable
    <3>1. Span(command.start, done + Width)
            = Span(command.start, done) \cup AccessRange
      BY <1>2 DEF Span
    <3>. QED
      BY <1>1, <1>4, <3>1
  <2>4. Part(done) \o bytes = Part(done + Width)
    <3>1. Span(command.start, done + Width) \subseteq Addresses
      BY <2>3, MemoryAssumption DEF Addresses
    <3>2. memory \in [Addresses -> Int]
      BY DEF SyncInv
    <3>3. done \in Nat /\ bytes = Bytes(memory, command.start + done, Width)
      BY <1>2 DEF bytes
    <3>4. /\ command.start \in Nat /\ Width \in Nat
          /\ Part(done) = Bytes(memory, command.start, done)
          /\ Part(done + Width) = Bytes(memory, command.start, done + Width)
      BY <1>2 DEF Part
    <3>5. Bytes(memory, command.start, done)
              \o Bytes(memory, command.start + done, Width)
            = Bytes(memory, command.start, done + Width)
      BY <3>1, <3>2, <3>3, <3>4, BytesAdd
    <3>. QED
      BY <3>3, <3>4, <3>5
  <2>5. command'.data = Bytes(memory', command'.start, done')
    BY <1>1, <2>1, <2>2, <2>4 DEF Part
  <2>6. Part(done)' = Bytes(memory', command'.start, done')
    BY DEF Part
  <2>7. ~Answered'
    BY <2>1 DEF Answered
  <2>. QED
    BY <1>1, <2>1, <2>2, <2>3, <2>5, <2>6, <2>7 DEF TransferInv, ReadInv
<1>. QED
  BY <1>3, <1>4

\* m answers with what it has read.
LEMMA ReadDoneTransfers ==
    ASSUME SyncInv, TransferInv, ReadDone
    PROVE  TransferInv' /\ ReadInv'
<1>1. /\ UNCHANGED <<memory, fault, pc, before, command, done>>
      /\ phase = "transfer" /\ phase' = "halted"
      /\ command.name = "m" /\ done = command.length
      /\ answer' = DataReply(command.data)
      /\ command.data = Part(done) /\ Span(command.start, done) \subseteq Readable
      /\ pc \in Breakpoints
  BY DEF ReadDone, TransferInv, InCommand, Finish
<1>2. CommandOK /\ done \in 0 .. command.length /\ ~(done < command.length)
  BY <1>1 DEF SyncInv, CommandOK
<1>3. Reach(Readable) = done
  BY <1>1, <1>2, ReachIs
<1>4. answer' = DataReply(Part(Reach(Readable)))
  BY <1>1, <1>3
<1>5. Part(Reach(Readable))' = Part(Reach(Readable))
  BY <1>1 DEF Part, Reach
<1>6. ReadInv'
  BY <1>4, <1>5 DEF ReadInv, DataReply
<1>. QED
  BY <1>1, <1>6 DEF TransferInv, InCommand

\* A write stops where the data of the packet end.
LEMMA WriteOverrunTransfers ==
    ASSUME SyncInv, TransferInv, WriteOverrun
    PROVE  TransferInv' /\ ReadInv'
<1>1. /\ UNCHANGED <<memory, fault, pc, before, command, done>>
      /\ phase = "transfer" /\ phase' = "halted"
      /\ command.name # "m" /\ done < command.length /\ done # command.length
      /\ answer' = Reply("E04") /\ answer'.code = "E04"
      /\ pc \in Breakpoints /\ fault = FALSE
  BY DEF WriteOverrun, TransferInv, InCommand, Finish, Reply, SyncInv, CommandOK
<1>2. Written
  BY <1>1 DEF TransferInv, InCommand
<1>3. Written'
  BY <1>1, <1>2 DEF Written
<1>. QED
  BY <1>1, <1>3 DEF TransferInv, ReadInv, InCommand

\* What is written is a part of the data.
LEMMA PartOfData ==
    ASSUME NEW data \in Seq(Int), NEW n \in Nat, NEW more \in Nat,
           n + more <= Len(data)
    PROVE  /\ DOMAIN SubSeq(data, n + 1, n + more) = 1 .. more
           /\ \A i \in 1 .. more : SubSeq(data, n + 1, n + more)[i] = data[n + i]
OBVIOUS

\* The next bytes of a range, counted from its beginning and from themselves
LEMMA Offsets ==
    ASSUME NEW start \in Nat, NEW n \in Nat, NEW more \in Nat, NEW a \in Nat
    PROVE  /\ a \in Span(start + n, more) =>
                  /\ a - (start + n) + 1 \in 1 .. more
                  /\ n + (a - (start + n) + 1) = a - start + 1
                  /\ a \in Span(start, n + more)
           /\ a \notin Span(start + n, more) =>
                  /\ ~(a - (start + n) + 1 \in 1 .. more)
                  /\ a \in Span(start, n + more) <=> a \in Span(start, n)
BY DEF Span

\* An access of M or X writes the next bytes, or stops at a fault.
LEMMA WriteAccessTransfers ==
    ASSUME SyncInv, TransferInv, WriteAccess
    PROVE  TransferInv' /\ ReadInv'
<1>1. /\ UNCHANGED <<pc, before, command>> /\ fault' = FALSE
      /\ phase = "transfer" /\ command.name # "m"
      /\ done < command.length /\ done + Width <= Len(command.data)
      /\ pc \in Breakpoints
  BY DEF WriteAccess, TransferInv, TakesFault
<1>2. /\ Width \in Nat \ {0} /\ NextAddress \in Nat
      /\ NextAddress = command.start + done
      /\ AccessRange = NextAddress .. (NextAddress + Width - 1)
      /\ command.start \in Nat /\ command.length \in Nat
      /\ done \in Nat /\ command.data \in Seq(Int)
  BY Widths DEF SyncInv, CommandOK, NextAddress
<1>3. Written
  BY <1>1 DEF TransferInv, InCommand
<1>4. CASE ~(AccessRange \subseteq Writable)
  <2>1. /\ UNCHANGED <<memory, done>> /\ phase' = "halted"
        /\ answer' = Reply("E03") /\ answer'.code = "E03"
        /\ done # command.length
    BY <1>1, <1>2, <1>4 DEF WriteAccess, SeesFault, Finish, Reply
  <2>2. Written'
    BY <1>1, <1>3, <2>1 DEF Written
  <2>. QED
    BY <1>1, <2>1, <2>2 DEF TransferInv, ReadInv, InCommand
<1>5. CASE AccessRange \subseteq Writable
  <2>. DEFINE bytes == SubSeq(command.data, done + 1, done + Width)
  <2>1. /\ Store(NextAddress, bytes)
        /\ done' = done + Width /\ phase' = "transfer"
    BY <1>1, <1>5 DEF WriteAccess, SeesFault, TransferInv
  <2>2. /\ DOMAIN bytes = 1 .. Width
        /\ \A i \in 1 .. Width : bytes[i] = command.data[done + i]
    BY <1>1, <1>2, PartOfData
  <2>. HIDE DEF bytes
  <2>3. memory' = [a \in Addresses |->
                     IF a - NextAddress + 1 \in 1 .. Width
                     THEN bytes[a - NextAddress + 1] ELSE memory[a]]
    BY <2>1, <2>2 DEF Store, Stored
  <2>4. ASSUME NEW a \in Addresses
        PROVE  memory'[a] = IF a \in Span(command.start, done + Width)
                            THEN command.data[a - command.start + 1]
                            ELSE before[a]
    <3>1. a \in Nat
      BY MemoryAssumption DEF Addresses
    <3>2. CASE a \in Span(NextAddress, Width)
      <4>1. /\ a - NextAddress + 1 \in 1 .. Width
            /\ done + (a - NextAddress + 1) = a - command.start + 1
            /\ a \in Span(command.start, done + Width)
        <5>1. /\ Width \in Nat /\ NextAddress = command.start + done
              /\ a \in Span(command.start + done, Width)
          BY <1>2, <3>2
        <5>2. /\ a - (command.start + done) + 1 \in 1 .. Width
              /\ done + (a - (command.start + done) + 1) = a - command.start + 1
              /\ a \in Span(command.start, done + Width)
          BY <1>2, <3>1, <5>1, Offsets
        <5>. QED
          BY <5>1, <5>2
      <4>. QED
        BY <2>2, <2>3, <4>1
    <3>3. CASE a \notin Span(NextAddress, Width)
      <4>1. /\ ~(a - NextAddress + 1 \in 1 .. Width)
            /\ a \in Span(command.start, done + Width)
                    <=> a \in Span(command.start, done)
        BY <1>2, <3>1, <3>3, Offsets
      <4>. QED
        BY <1>3, <2>3, <4>1 DEF Written
    <3>. QED
      BY <3>2, <3>3
  <2>5. Written'
    BY <1>1, <2>1, <2>4 DEF Written
  <2>6. ~Answered'
    BY <2>1 DEF Answered
  <2>. QED
    BY <1>1, <2>1, <2>5, <2>6 DEF TransferInv, ReadInv, InCommand
<1>. QED
  BY <1>4, <1>5

\* A write that is complete is answered OK, unless the caches come first.
LEMMA WriteDoneTransfers ==
    ASSUME SyncInv, TransferInv, WriteDone
    PROVE  TransferInv' /\ ReadInv'
<1>1. /\ UNCHANGED <<memory, fault, pc, before, command, done>>
      /\ phase = "transfer" /\ command.name # "m" /\ done = command.length
      /\ pc \in Breakpoints /\ fault = FALSE
  BY DEF WriteDone, TransferInv
<1>2. Written'
  <2>1. Written
    BY <1>1 DEF TransferInv, InCommand
  <2>. QED
    BY <1>1, <2>1 DEF Written
<1>3. \/ phase' = "clean"
      \/ phase' = "halted" /\ answer'.code = "OK"
  BY DEF WriteDone, Finish, Reply
<1>. QED
  BY <1>1, <1>2, <1>3 DEF TransferInv, ReadInv, InCommand, Answered

\* X is answered when the caches are done.
LEMMA InvalidatedTransfers ==
    ASSUME SyncInv, TransferInv, Invalidated
    PROVE  TransferInv' /\ ReadInv'
<1>1. /\ UNCHANGED <<memory, fault, pc, before, command, done>>
      /\ phase = "invalidate" /\ phase' = "halted" /\ answer'.code = "OK"
      /\ command.name # "m" /\ done = command.length
      /\ pc \in Breakpoints /\ fault = FALSE
  BY DEF Invalidated, TransferInv, Finish, Reply
<1>2. Written'
  <2>1. Written
    BY <1>1 DEF TransferInv, InCommand
  <2>. QED
    BY <1>1, <2>1 DEF Written
<1>. QED
  BY <1>1, <1>2 DEF TransferInv, ReadInv, InCommand

\* From line to line.
LEMMA LinesTransfer ==
    ASSUME TransferInv, CleanLine \/ Cleaned \/ InvalidateLine
    PROVE  TransferInv' /\ ReadInv'
<1>1. /\ UNCHANGED <<memory, fault, pc, before, command, done>>
      /\ phase \in {"clean", "invalidate"} /\ phase' \in {"clean", "invalidate"}
      /\ command.name # "m" /\ done = command.length
      /\ pc \in Breakpoints /\ fault = FALSE
  BY DEF CleanLine, Cleaned, InvalidateLine, transfer, TransferInv
<1>2. Written'
  <2>1. Written
    BY <1>1 DEF TransferInv, InCommand
  <2>. QED
    BY <1>1, <2>1 DEF Written
<1>. QED
  BY <1>1, <1>2 DEF TransferInv, ReadInv, InCommand, Answered

\* A command begins with no fault that another access has left.
LEMMA ReceiveTransfers ==
    ASSUME SyncInv, TransferInv, NEW name \in {"m", "M", "X"},
           NEW start \in Starts, NEW length \in Lengths, NEW data \in Seq(Int),
           name = "m" => data = <<>>,
           Receive(name, start, length, data)
    PROVE  TransferInv' /\ ReadInv'
<1>1. /\ UNCHANGED <<memory, fault, pc>>
      /\ command'.name = name /\ command'.start = start
      /\ command'.data = data
      /\ done' = 0 /\ phase' = "transfer" /\ before' = memory
      /\ pc \in Breakpoints /\ fault = FALSE
  BY DEF Receive, TransferInv
<1>2. start \in Nat
  BY MemoryAssumption
<1>3. Span(start, 0) = {}
  BY <1>2 DEF Span
<1>4. name = "m" => command'.data = Part(done)'
  <2>1. Bytes(memory', start, 0) = <<>>
    BY DEF Bytes
  <2>. QED
    BY <1>1, <2>1 DEF Part
<1>5. Written'
  <2>1. Len(data) \in Nat
    OBVIOUS
  <2>. QED
    BY <1>1, <1>3, <2>1 DEF Written
<1>. QED
  BY <1>1, <1>3, <1>4, <1>5 DEF TransferInv, ReadInv, InCommand, Answered

\* The call around the commands.
LEMMA CallTransfers ==
    ASSUME TransferInv, ParametersReadable,
           Call \/ (\E block \in Blocks : Request(block)) \/ Respond \/ Run
    PROVE  TransferInv' /\ ReadInv'
<1>1. Breakpoints \subseteq Readable
  BY MemoryAssumption
<1>2. CASE Call
  <2>1. /\ UNCHANGED <<pc, answer>> /\ fault' = FALSE /\ phase' = "called"
        /\ pc \in Breakpoints /\ answer.code = "none"
    BY <1>2 DEF Call, transfer, TransferInv
  <2>. QED
    BY <2>1 DEF TransferInv, ReadInv, InCommand, Answered
<1>3. ASSUME NEW block \in Blocks, Request(block)
      PROVE  TransferInv' /\ ReadInv'
  <2>1. /\ UNCHANGED <<pc, answer>> /\ fault' = FALSE /\ phase' = "halted"
        /\ pc \in Breakpoints /\ answer.code = "none"
    BY <1>3 DEF Request, transfer, TransferInv, Copies, ParametersReadable
  <2>. QED
    BY <2>1 DEF TransferInv, ReadInv, InCommand, Answered
<1>4. CASE Respond
  <2>1. fault' = FALSE /\ phase' = "responded"
    BY <1>4 DEF Respond, TakesFault
  <2>. QED
    BY <2>1 DEF TransferInv, ReadInv, InCommand, Answered
<1>5. CASE Run
  <2>1. /\ UNCHANGED fault /\ phase' = "running" /\ answer'.code = "none"
        /\ pc' \in Breakpoints /\ fault = FALSE
    BY <1>5 DEF Run, Reply, TransferInv
  <2>. QED
    BY <2>1 DEF TransferInv, ReadInv, InCommand, Answered
<1>. QED
  BY <1>2, <1>3, <1>4, <1>5

\* A step keeps the invariant of the transfers.
LEMMA TransferNext ==
    ASSUME SyncInv, commands \in Nat, TransferInv, ReadInv,
           ParametersReadable, ReadableByWords, [Next]_vars
    PROVE  TransferInv' /\ ReadInv'
<1>1. ASSUME NEW start \in Starts, NEW length \in Lengths,
             Receive("m", start, length, <<>>)
      PROVE  TransferInv' /\ ReadInv'
  <2>1. <<>> \in Seq(Int)
    OBVIOUS
  <2>. QED
    BY <1>1, <2>1, ReceiveTransfers
<1>2. ASSUME NEW name \in {"M", "X"}, NEW start \in Starts,
             NEW length \in Lengths, NEW given \in {length, Max({length - 1, 0})},
             Receive(name, start, length, Data(given))
      PROVE  TransferInv' /\ ReadInv'
  <2>1. Data(given) \in Seq(Int)
    BY GivenData
  <2>. QED
    BY <1>2, <2>1, ReceiveTransfers
<1>3. CASE ReadAccess \/ ReadDone \/ WriteOverrun \/ WriteAccess \/ WriteDone
              \/ Invalidated
  BY <1>3, ReadAccessTransfers, ReadDoneTransfers, WriteOverrunTransfers,
     WriteAccessTransfers, WriteDoneTransfers, InvalidatedTransfers
<1>4. CASE CleanLine \/ Cleaned \/ InvalidateLine
  BY <1>4, LinesTransfer
<1>5. CASE Call \/ (\E block \in Blocks : Request(block)) \/ Respond \/ Run
  BY <1>5, CallTransfers
<1>6. ASSUME NEW line, WriteBack(line) \/ Load(line)
      PROVE  TransferInv' /\ ReadInv'
  BY <1>6, TransferUnseen DEF WriteBack, Load, transfer
<1>7. CASE UNCHANGED vars
  BY <1>7, TransferUnseen DEF vars, transfer
<1>. QED
  BY <1>1, <1>2, <1>3, <1>4, <1>5, <1>6, <1>7 DEF Next

\* The invariant of the transfers holds.
LEMMA TransferInvariance ==
    ASSUME ParametersReadable, ReadableByWords
    PROVE  Spec => [](SyncInv /\ TransferInv /\ ReadInv)
<1>1. Init => TransferInv /\ ReadInv
  BY TransferInit
<1>2. SyncInv /\ commands \in Nat /\ TransferInv /\ ReadInv /\ [Next]_vars
        => TransferInv' /\ ReadInv'
  BY TransferNext
<1>. QED
  BY <1>1, <1>2, SyncInvariance, PTL DEF Spec

-----------------------------------------------------------------------------

\* m answers with what it can read from its address on, for every width of
\* the accesses.
THEOREM ReadsAreExact ==
    ASSUME ParametersReadable, ReadableByWords
    PROVE  Spec => []ReadsWhatIsThere
<1>1. ReadInv => ReadsWhatIsThere
  BY DEF ReadInv, ReadsWhatIsThere, Part, Bytes
<1>. QED
  BY <1>1, TransferInvariance, PTL

\* What M and X have written is the first bytes of their data, all of them
\* exactly when they answer OK.
THEOREM WritesAreExact ==
    ASSUME ParametersReadable, ReadableByWords
    PROVE  Spec => []WritesAllOrAPrefix
<1>1. ASSUME SyncInv, TransferInv, Answered, command.name # "m"
      PROVE  \E n \in 0 .. Min({command.length, Len(command.data)}) :
                /\ \A a \in Addresses :
                       memory[a] = IF a \in Span(command.start, n)
                                   THEN command.data[a - command.start + 1]
                                   ELSE before[a]
                /\ answer.code = "OK" <=> n = command.length
  <2>1. /\ command.length \in Nat /\ Len(command.data) \in Nat
        /\ done \in 0 .. command.length
    BY <1>1 DEF SyncInv, CommandOK
  <2>2. Written /\ (answer.code = "OK" <=> done = command.length)
    BY <1>1 DEF TransferInv
  <2>. DEFINE S == {command.length, Len(command.data)}
  <2>3. Min(S) \in S
    <3>1. \E x \in S : \A y \in S : x <= y
      BY <2>1
    <3>. QED
      BY <3>1 DEF Min
  <2>4. done \in 0 .. Min(S)
    BY <2>1, <2>2, <2>3 DEF Written
  <2>. QED
    BY <2>2, <2>4 DEF Written
<1>2. SyncInv /\ TransferInv => WritesAllOrAPrefix
  BY <1>1 DEF WritesAllOrAPrefix
<1>. QED
  BY <1>2, TransferInvariance, PTL

\* A call whose parameters can be read is not made again.
THEOREM CallsAdvance ==
    ASSUME ParametersReadable, ReadableByWords
    PROVE  Spec => AdvancesPastCall
<1>1. TransferInv /\ [Next]_vars
        => [phase = "halted" /\ phase' = "responded" => pc' # pc]_vars
  <2>. SUFFICES ASSUME TransferInv, Next, phase = "halted", phase' = "responded"
                PROVE  pc' # pc
    OBVIOUS
  <2>1. Respond
    BY DEF Next, Call, Request, Receive, ReadAccess, ReadDone, WriteOverrun,
           WriteAccess, WriteDone, CleanLine, Cleaned, InvalidateLine,
           Invalidated, Run, WriteBack, Load, Finish
  <2>2. fault = FALSE /\ pc \in Readable /\ pc \in Nat
    <3>1. fault = FALSE /\ pc \in Breakpoints
      BY DEF TransferInv
    <3>. QED
      BY <3>1, MemoryAssumption
  <2>3. pc' = pc + 2
    BY <2>1, <2>2 DEF Respond, SeesFault
  <2>. QED
    BY <2>2, <2>3
<1>. QED
  BY <1>1, TransferInvariance, PTL DEF Spec, AdvancesPastCall
=============================================================================
