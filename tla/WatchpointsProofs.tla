--------------------------- MODULE WatchpointsProofs ---------------------------
(***************************************************************************)
(* Proofs about Watchpoints, for any number of comparators, any size of    *)
(* their mask fields and any watchpoints that gdb asks for.                *)
(***************************************************************************)
EXTENDS Watchpoints, FiniteSetTheorems, TLAPS

-----------------------------------------------------------------------------
(* The scans of the bank.                                                   *)

\* A nonempty set of comparators has a last element: the image of the
\* comparators under i |-> NumComparators - i has a least one.
LEMMA ExtremeComparators ==
    ASSUME NEW S, S \subseteq Comparators, S # {}
    PROVE  /\ \E i \in S : \A j \in S : i <= j
           /\ \E i \in S : \A j \in S : j <= i
<1>. DEFINE Below(i) == {j \in S : j < i}
            Above(i) == {j \in S : i < j}
<1>1. IsFiniteSet(S) /\ S \subseteq Nat
  <2>1. IsFiniteSet(Comparators)
    BY FS_Interval, DwtAssumption DEF Comparators
  <2>2. IsFiniteSet(S)
    BY <2>1, FS_Subset
  <2>. QED
    BY <2>2 DEF Comparators
<1>2. ASSUME NEW T, T \subseteq SUBSET S, T # {}
      PROVE  \E x \in T : \A y \in T : ~(y \subseteq x /\ y # x)
  <2>1. T \subseteq FiniteSubsetsOf(S)
    BY <1>1, <1>2, FS_FiniteSubsetsOfFinite
  <2>2. PICK x \in T : \A y \in T : <<y, x>> \notin StrictSubsetOrdering(S)
    BY <1>2, <2>1, FS_StrictSubsetOrderingWellFounded, WFMin, Zenon
  <2>3. ASSUME NEW y \in T
        PROVE  ~(y \subseteq x /\ y # x)
    BY <1>2, <2>2 DEF StrictSubsetOrdering
  <2>. QED
    BY <2>3
<1>3. \E i \in S : \A j \in S : i <= j
  <2>. DEFINE T == {Below(i) : i \in S}
  <2>1. PICK i \in S : \A j \in S :
            ~(Below(j) \subseteq Below(i) /\ Below(j) # Below(i))
    <3>1. T \subseteq SUBSET S /\ T # {} /\ \A j \in S : Below(j) \in T
      OBVIOUS
    <3>2. \A x \in T : \E i \in S : x = Below(i)
      OBVIOUS
    <3>. HIDE DEF T, Below, Above
    <3>3. PICK x \in T : \A y \in T : ~(y \subseteq x /\ y # x)
      BY <1>2, <3>1
    <3>. QED
      BY <3>1, <3>2, <3>3
  <2>2. ASSUME NEW j \in S, j < i
        PROVE  FALSE
    <3>1. \A k \in S : k < j => k < i
      BY <1>1, <2>2
    <3>2. j \in Below(i) /\ j \notin Below(j)
      BY <1>1, <2>2
    <3>. QED
      BY <2>1, <3>1, <3>2
  <2>. QED
    BY <1>1, <2>2
<1>4. \E i \in S : \A j \in S : j <= i
  <2>. DEFINE T == {Above(i) : i \in S}
  <2>1. PICK i \in S : \A j \in S :
            ~(Above(j) \subseteq Above(i) /\ Above(j) # Above(i))
    <3>1. T \subseteq SUBSET S /\ T # {} /\ \A j \in S : Above(j) \in T
      OBVIOUS
    <3>2. \A x \in T : \E i \in S : x = Above(i)
      OBVIOUS
    <3>. HIDE DEF T, Below, Above
    <3>3. PICK x \in T : \A y \in T : ~(y \subseteq x /\ y # x)
      BY <1>2, <3>1
    <3>. QED
      BY <3>1, <3>2, <3>3
  <2>2. ASSUME NEW j \in S, i < j
        PROVE  FALSE
    <3>1. \A k \in S : j < k => i < k
      BY <1>1, <2>2
    <3>2. j \in Above(i) /\ j \notin Above(j)
      BY <1>1, <2>2
    <3>. QED
      BY <2>1, <3>1, <3>2
  <2>. QED
    BY <1>1, <2>2
<1>. QED
  BY <1>3, <1>4

\* A scan of the bank ends at a comparator that it looks for.
LEMMA ScansStopAtMembers ==
    ASSUME NEW S, S \subseteq Comparators, S # {}
    PROVE  First(S) \in S /\ Last(S) \in S
BY ExtremeComparators DEF First, Last

-----------------------------------------------------------------------------
(* What a comparator watches.                                               *)

\* The register is set for w.
Holds(register, w) ==
    /\ register.function = w.type
    /\ register.comp = w.address
    /\ register.mask = Log2(w.size)

\* calculateLog2 inverts the power, for the sizes that are accepted.
LEMMA SizeIsPower ==
    ASSUME NEW w \in Watchpoints, IsValid(w)
    PROVE  Log2(w.size) \in Nat /\ w.size = 2^Log2(w.size)
<1>1. \E n \in 0 .. w.size : w.size = 2^n
  BY DEF IsValid, IsPowerOf2
<1>2. w.size \in Nat
  BY DEF Watchpoints
<1>3. Log2(w.size) \in 0 .. w.size /\ w.size = 2^Log2(w.size)
  BY <1>1 DEF Log2
<1>. QED
  BY <1>2, <1>3

\* A comparator holds at most one watchpoint.
LEMMA HoldsOne ==
    ASSUME NEW r, NEW v \in Watchpoints, NEW w \in Watchpoints,
           IsValid(v), IsValid(w), Holds(r, v), Holds(r, w)
    PROVE  v = w
<1>1. v.size = w.size /\ v.address = w.address /\ v.type = w.type
  BY SizeIsPower DEF Holds
<1>2. \A u \in [address : Nat, size : Nat \ {0}, type : Types] :
          u = [address |-> u.address, size |-> u.size, type |-> u.type]
  BY SMT
<1>. QED
  BY <1>1, <1>2 DEF Watchpoints

\* Comparing two addresses without the bits below an alignment asks whether
\* one is in the aligned block that the other starts.
LEMMA AlignedBlock ==
    ASSUME NEW s \in Nat \ {0}, NEW a \in Nat, NEW b \in Nat, b % s = 0
    PROVE  b \div s = a \div s <=> a \in b .. b + s - 1
<1>. DEFINE p == a \div s
            q == b \div s
            r == a % s
<1>1. p \in Nat /\ q \in Nat /\ r \in Nat /\ r < s
  OBVIOUS
<1>2. a = s * p + r /\ b = s * q
  OBVIOUS
<1>. HIDE DEF p, q, r
<1>3. ASSUME p = q
      PROVE  a \in b .. b + s - 1
  BY <1>1, <1>2, <1>3
<1>4. ASSUME p < q
      PROVE  a < b
  <2>1. PICK d \in Nat : q = p + 1 + d
    <3>1. q - p - 1 \in Nat /\ q = p + 1 + (q - p - 1)
      BY <1>1, <1>4
    <3>. QED
      BY <3>1
  <2>2. b = s * p + s + s * d /\ s * d >= 0
    BY <1>1, <1>2, <2>1
  <2>. QED
    BY <1>1, <1>2, <2>2
<1>5. ASSUME q < p
      PROVE  a >= b + s
  <2>1. PICK d \in Nat : p = q + 1 + d
    <3>1. p - q - 1 \in Nat /\ p = q + 1 + (p - q - 1)
      BY <1>1, <1>5
    <3>. QED
      BY <3>1
  <2>2. a = s * q + s + s * d + r /\ s * d >= 0
    BY <1>1, <1>2, <2>1
  <2>. QED
    BY <1>1, <1>2, <2>2
<1>6. q = p <=> a \in b .. b + s - 1
  BY <1>1, <1>3, <1>4, <1>5
<1>. QED
  BY <1>6 DEF p, q

\* A comparator that holds w matches the accesses that w is about.
LEMMA HoldsMatches ==
    ASSUME NEW r, NEW w \in Watchpoints, IsValid(w), Holds(r, w),
           NEW a \in Nat, NEW kind \in Kinds
    PROVE  /\ MatchesKind(r.function, kind)
           /\ r.comp \div 2^r.mask = a \div 2^r.mask
           <=> a \in Region(w) /\ MatchesKind(w.type, kind)
<1>1. r.comp = w.address /\ 2^r.mask = w.size /\ r.function = w.type
  BY SizeIsPower DEF Holds
<1>2. w.size \in Nat \ {0} /\ w.address \in Nat /\ w.address % w.size = 0
  BY DEF Watchpoints, IsValid
<1>3. w.address \div w.size = a \div w.size <=> a \in Region(w)
  BY <1>2, AlignedBlock DEF Region
<1>. QED
  BY <1>1, <1>3
-----------------------------------------------------------------------------
(* What the routines do to a bank b with the watchpoints R, of which T have *)
(* been accessed.                                                           *)

AreSettable(R) == \A w \in R : w \in Watchpoints /\ IsValid(w) /\ FitsMask(w)

BankFor(b, R, T) ==
    /\ b \in [Comparators -> Registers]
    /\ \A i \in Comparators :
          b[i].function # "disabled" => \E w \in R : Holds(b[i], w)
    /\ \A w \in R : \E i \in Comparators : Holds(b[i], w)
    /\ \A w \in R, i, j \in Comparators :
          Holds(b[i], w) /\ Holds(b[j], w) => i = j
    /\ \A i \in Comparators :
          b[i].matched => \E w \in T : Holds(b[i], w)

SameSetting(q, r) ==
    q.function = r.function /\ q.comp = r.comp /\ q.mask = r.mask

\* MATCHED is no part of what a comparator is set to.
LEMMA MatchedBit ==
    ASSUME NEW r \in Registers, NEW v \in BOOLEAN
    PROVE  /\ [r EXCEPT !.matched = v] \in Registers
           /\ SameSetting([r EXCEPT !.matched = v], r)
           /\ [r EXCEPT !.matched = v].matched = v
BY Zenon DEF Registers, SameSetting

\* Reading FUNCTION loses MATCHED bits and nothing else.
LEMMA ReadingKeeps ==
    ASSUME NEW R, NEW T, NEW b, BankFor(b, R, T),
           NEW c \in [Comparators -> Registers],
           \A i \in Comparators :
              SameSetting(c[i], b[i]) /\ (c[i].matched => b[i].matched)
    PROVE  BankFor(c, R, T)
<1>1. \A i \in Comparators : \A w : Holds(c[i], w) <=> Holds(b[i], w)
  BY DEF Holds, SameSetting
<1>2. \A i \in Comparators : c[i].function = b[i].function
  BY DEF SameSetting
<1>. QED
  BY <1>1, <1>2 DEF BankFor

\* A scan clears MATCHED in comparators that it passes, and nothing else.
LEMMA ScannedRegisters ==
    ASSUME NEW b \in [Comparators -> Registers], NEW w
    PROVE  /\ Scanned(b, w) \in [Comparators -> Registers]
           /\ \A i \in Comparators :
                 /\ SameSetting(Scanned(b, w)[i], b[i])
                 /\ Scanned(b, w)[i].matched => b[i].matched
                 /\ Found(b, w) = {} => ~Scanned(b, w)[i].matched
<1>1. ASSUME NEW i \in Comparators
      PROVE  /\ Scanned(b, w)[i] \in Registers
             /\ SameSetting(Scanned(b, w)[i], b[i])
             /\ Scanned(b, w)[i].matched => b[i].matched
             /\ Found(b, w) = {} => ~Scanned(b, w)[i].matched
  <2>1. CASE \E j \in Found(b, w) : j < i
    <3>1. Scanned(b, w)[i] = b[i]
      BY <2>1 DEF Scanned
    <3>. QED
      BY <2>1, <3>1 DEF SameSetting
  <2>2. CASE ~(\E j \in Found(b, w) : j < i)
    <3>1. Scanned(b, w)[i] = [b[i] EXCEPT !.matched = FALSE]
      BY <2>2 DEF Scanned
    <3>. QED
      BY <3>1, MatchedBit
  <2>. QED
    BY <2>1, <2>2
<1>2. Scanned(b, w) = [i \in Comparators |-> Scanned(b, w)[i]]
  BY DEF Scanned
<1>. QED
  BY <1>1, <1>2

\* findDWTComparator accepts the comparators that hold the watchpoint.
LEMMA FoundHolds ==
    ASSUME NEW b, NEW w
    PROVE  Found(b, w) = {i \in Comparators : Holds(b[i], w)}
BY DEF Found, Holds

\* attemptToSetDWTComparator
LEMMA SetRegister ==
    ASSUME NEW r \in Registers, NEW w \in Watchpoints, IsValid(w)
    PROVE  /\ WithSetting(r, w) \in Registers
           /\ WithSetting(r, w).matched = r.matched
           /\ FitsMask(w) => Holds(WithSetting(r, w), w)
           /\ ~FitsMask(w) => WithSetting(r, w).function = r.function
<1>1. Log2(w.size) \in Nat /\ MaxMask \in Nat
  BY SizeIsPower, DwtAssumption
<1>2. MaskRead(w) \in Nat /\ (FitsMask(w) => MaskRead(w) = Log2(w.size))
  BY <1>1 DEF MaskRead, FitsMask
<1>3. w.address \in Nat /\ w.type \in Types
  BY DEF Watchpoints
<1>4. CASE FitsMask(w)
  <2>1. WithSetting(r, w) = [r EXCEPT !.comp = w.address, !.mask = MaskRead(w),
                                      !.function = w.type]
    BY <1>4 DEF WithSetting
  <2>. HIDE DEF MaskRead, FitsMask
  <2>2. /\ WithSetting(r, w) \in Registers
        /\ WithSetting(r, w).matched = r.matched
        /\ WithSetting(r, w).comp = w.address
        /\ WithSetting(r, w).mask = MaskRead(w)
        /\ WithSetting(r, w).function = w.type
    BY <1>2, <1>3, <2>1, Zenon DEF Registers
  <2>. QED
    BY <1>2, <1>4, <2>2 DEF Holds
<1>5. CASE ~FitsMask(w)
  <2>1. WithSetting(r, w) = [r EXCEPT !.mask = MaskRead(w)]
    BY <1>5 DEF WithSetting
  <2>2. /\ WithSetting(r, w) \in Registers
        /\ WithSetting(r, w).matched = r.matched
        /\ WithSetting(r, w).function = r.function
    BY <1>2, <2>1, Zenon DEF Registers
  <2>. QED
    BY <1>5, <2>2
<1>. QED
  BY <1>4, <1>5

\* enableDWTWatchpoint sets what it does not refuse, and nothing else.
LEMMA EnableIsSound ==
    ASSUME NEW R, NEW T, NEW b, AreSettable(R), BankFor(b, R, T),
           NEW w \in Watchpoints, IsValid(w)
    PROVE  /\ CannotEnable(b, w) => BankFor(Enabled(b, w), R, T)
           /\ ~CannotEnable(b, w) =>
                 /\ BankFor(Enabled(b, w), R \cup {w}, T)
                 /\ AreSettable(R \cup {w})
<1>. DEFINE c == Scanned(b, w)
            f == First(Free(b))
<1>1. b \in [Comparators -> Registers]
  BY DEF BankFor
<1>2. BankFor(c, R, T)
  BY <1>1, ReadingKeeps, ScannedRegisters
<1>3. CASE Found(b, w) # {}
  <2>1. PICK i \in Comparators : Holds(b[i], w)
    BY <1>3, FoundHolds
  <2>2. b[i].function # "disabled"
    BY <2>1 DEF Holds, Watchpoints, Types
  <2>3. PICK v \in R : Holds(b[i], v)
    BY <2>2 DEF BankFor
  <2>4. v = w
    BY <2>1, <2>3, HoldsOne DEF AreSettable
  <2>5. R \cup {w} = R
    BY <2>4
  <2>6. Enabled(b, w) = c
    BY <1>3 DEF Enabled
  <2>. QED
    BY <1>2, <2>5, <2>6
<1>4. CASE Found(b, w) = {} /\ Free(b) = {}
  <2>1. Enabled(b, w) = c /\ CannotEnable(b, w)
    BY <1>4 DEF Enabled, CannotEnable
  <2>. QED
    BY <1>2, <2>1
<1>5. CASE Found(b, w) = {} /\ Free(b) # {}
  <2>. DEFINE d == Enabled(b, w)
  <2>1. f \in Free(b)
    <3>1. Free(b) \subseteq Comparators
      BY DEF Free
    <3>. QED
      BY <1>5, <3>1, ScansStopAtMembers
  <2>2. f \in Comparators /\ b[f].function = "disabled"
    BY <2>1 DEF Free
  <2>3. d = [c EXCEPT ![f] = WithSetting(c[f], w)]
    BY <1>5 DEF Enabled
  <2>4. c \in [Comparators -> Registers]
    BY <1>1, ScannedRegisters
  <2>5. c[f].function = "disabled" /\ ~c[f].matched
    BY <1>1, <1>5, <2>2, ScannedRegisters DEF SameSetting
  <2>6. /\ WithSetting(c[f], w) \in Registers
        /\ ~WithSetting(c[f], w).matched
        /\ FitsMask(w) => Holds(WithSetting(c[f], w), w)
        /\ ~FitsMask(w) => WithSetting(c[f], w).function = "disabled"
    BY <2>2, <2>4, <2>5, SetRegister
  <2>7. \A i \in Comparators : ~Holds(c[i], w)
    <3>1. \A i \in Comparators : ~Holds(b[i], w)
      BY <1>5, FoundHolds
    <3>. QED
      BY <1>1, <3>1, ScannedRegisters DEF Holds, SameSetting
  <2>8. \A v \in R : ~Holds(c[f], v)
    BY <2>5 DEF AreSettable, Holds, Watchpoints, Types
  <2>. HIDE DEF c, f, d
  <2>9. /\ d \in [Comparators -> Registers]
        /\ d[f] = WithSetting(c[f], w)
        /\ \A i \in Comparators : i # f => d[i] = c[i]
    BY <2>2, <2>3, <2>4, <2>6
  <2>10. CASE ~FitsMask(w)
    <3>1. CannotEnable(b, w)
      BY <1>5, <2>10 DEF CannotEnable
    <3>2. \A v \in R : ~Holds(d[f], v)
      BY <2>6, <2>9, <2>10 DEF AreSettable, Holds, Watchpoints, Types
    <3>3. BankFor(d, R, T)
      BY <1>2, <2>2, <2>6, <2>8, <2>9, <2>10, <3>2 DEF BankFor
    <3>. QED
      BY <3>1, <3>3 DEF d
  <2>11. CASE FitsMask(w)
    <3>1. ~CannotEnable(b, w)
      BY <1>5, <2>11 DEF CannotEnable
    <3>2. AreSettable(R \cup {w})
      BY <2>11 DEF AreSettable
    <3>3. Holds(d[f], w) /\ \A i \in Comparators : Holds(d[i], w) => i = f
      BY <2>6, <2>7, <2>9, <2>11
    <3>4. w \notin R
      BY <1>2, <2>7 DEF BankFor
    <3>5. \A v \in R : ~Holds(d[f], v)
      BY <3>3, <3>4, HoldsOne DEF AreSettable
    <3>6. BankFor(d, R \cup {w}, T)
      BY <1>2, <2>2, <2>6, <2>8, <2>9, <3>3, <3>5 DEF BankFor
    <3>. QED
      BY <3>1, <3>2, <3>6 DEF d
  <2>. QED
    BY <2>10, <2>11
<1>. QED
  BY <1>3, <1>4, <1>5

\* disableDWTWatchpoint removes w, and nothing else.
LEMMA DisableIsSound ==
    ASSUME NEW R, NEW T, T \subseteq R, NEW b, AreSettable(R),
           BankFor(b, R, T), NEW w \in Watchpoints, IsValid(w)
    PROVE  BankFor(Cleared(b, w), R \ {w}, T \ {w})
<1>. DEFINE c == Scanned(b, w)
            f == First(Found(b, w))
            d == Cleared(b, w)
<1>1. b \in [Comparators -> Registers]
  BY DEF BankFor
<1>2. BankFor(c, R, T)
  BY <1>1, ReadingKeeps, ScannedRegisters
<1>3. CASE Found(b, w) = {}
  <2>1. w \notin R
    BY <1>3, FoundHolds DEF BankFor
  <2>2. R \ {w} = R /\ T \ {w} = T
    BY <2>1
  <2>3. d = c
    BY <1>3 DEF Cleared
  <2>. QED
    BY <1>2, <2>2, <2>3
<1>4. CASE Found(b, w) # {}
  <2>1. f \in Comparators /\ Holds(b[f], w)
    <3>1. Found(b, w) \subseteq Comparators
      BY DEF Found
    <3>. QED
      BY <1>4, <3>1, FoundHolds, ScansStopAtMembers
  <2>2. d = [c EXCEPT ![f] = Disabled]
    BY <1>4 DEF Cleared
  <2>3. c \in [Comparators -> Registers]
    BY <1>1, ScannedRegisters
  <2>4. Disabled \in Registers /\ ~Disabled.matched
            /\ Disabled.function = "disabled"
    BY DEF Disabled, Registers
  <2>5. Holds(c[f], w)
    BY <1>1, <2>1, ScannedRegisters DEF Holds, SameSetting
  <2>6. w \in R
    <3>1. c[f].function # "disabled"
      BY <2>5 DEF Holds, Watchpoints, Types
    <3>2. PICK v \in R : Holds(c[f], v)
      BY <1>2, <2>1, <3>1 DEF BankFor
    <3>. QED
      BY <2>5, <3>2, HoldsOne DEF AreSettable
  <2>7. \A i \in Comparators : Holds(c[i], w) => i = f
    BY <1>2, <2>1, <2>5, <2>6 DEF BankFor
  <2>8. \A v \in R \ {w} : ~Holds(c[f], v)
    BY <2>5, HoldsOne DEF AreSettable
  <2>9. \A v \in R : ~Holds(Disabled, v)
    BY <2>4 DEF AreSettable, Holds, Watchpoints, Types
  <2>. HIDE DEF c, f, d
  <2>10. /\ d \in [Comparators -> Registers]
         /\ d[f] = Disabled
         /\ \A i \in Comparators : i # f => d[i] = c[i]
    BY <2>1, <2>2, <2>3, <2>4
  <2>11. BankFor(d, R \ {w}, T \ {w})
    <3>1. \A i \in Comparators : d[i].function # "disabled" =>
              \E v \in R \ {w} : Holds(d[i], v)
      BY <1>2, <2>4, <2>7, <2>10 DEF BankFor
    <3>2. \A v \in R \ {w} : \E i \in Comparators : Holds(d[i], v)
      BY <1>2, <2>8, <2>10 DEF BankFor
    <3>3. \A v \in R \ {w}, i, j \in Comparators :
              Holds(d[i], v) /\ Holds(d[j], v) => i = j
      BY <1>2, <2>9, <2>10 DEF BankFor
    <3>4. \A i \in Comparators : d[i].matched =>
              \E v \in T \ {w} : Holds(d[i], v)
      BY <1>2, <2>4, <2>7, <2>10 DEF BankFor
    <3>. QED
      BY <2>10, <3>1, <3>2, <3>3, <3>4 DEF BankFor
  <2>. QED
    BY <2>11 DEF d
<1>. QED
  BY <1>3, <1>4

-----------------------------------------------------------------------------
(* What an access does to the bank.                                         *)

\* The watchpoints of R that an access is about.
Hit(R, a, kind) == {w \in R : a \in Region(w) /\ MatchesKind(w.type, kind)}

\* A comparator that matches is one that holds such a watchpoint.
LEMMA MatchesHit ==
    ASSUME NEW R, NEW T, NEW b, AreSettable(R), BankFor(b, R, T),
           NEW a \in Nat, NEW kind \in Kinds
    PROVE  /\ \A i \in MatchedBy(b, a, kind) :
                  \E w \in Hit(R, a, kind) : Holds(b[i], w)
           /\ MatchedBy(b, a, kind) # {} <=> Hit(R, a, kind) # {}
<1>1. ASSUME NEW i \in MatchedBy(b, a, kind)
      PROVE  \E w \in Hit(R, a, kind) : Holds(b[i], w)
  <2>1. i \in Comparators /\ MatchesKind(b[i].function, kind)
            /\ b[i].comp \div 2^b[i].mask = a \div 2^b[i].mask
    BY DEF MatchedBy
  <2>2. b[i].function # "disabled"
    BY <2>1 DEF MatchesKind, Kinds
  <2>3. PICK w \in R : Holds(b[i], w)
    BY <2>1, <2>2 DEF BankFor
  <2>4. a \in Region(w) /\ MatchesKind(w.type, kind)
    BY <2>1, <2>3, HoldsMatches DEF AreSettable
  <2>. QED
    BY <2>3, <2>4 DEF Hit
<1>2. ASSUME NEW w \in Hit(R, a, kind)
      PROVE  MatchedBy(b, a, kind) # {}
  <2>1. w \in R /\ a \in Region(w) /\ MatchesKind(w.type, kind)
    BY DEF Hit
  <2>2. PICK i \in Comparators : Holds(b[i], w)
    BY <2>1 DEF BankFor
  <2>3. /\ MatchesKind(b[i].function, kind)
        /\ b[i].comp \div 2^b[i].mask = a \div 2^b[i].mask
    BY <2>1, <2>2, HoldsMatches DEF AreSettable
  <2>4. i \in MatchedBy(b, a, kind)
    BY <2>2, <2>3 DEF MatchedBy
  <2>. QED
    BY <2>4
<1>. QED
  BY <1>1, <1>2

\* What has matched has been accessed.
LEMMA AccessIsSound ==
    ASSUME NEW R, NEW T, NEW b, AreSettable(R), BankFor(b, R, T),
           NEW a \in Nat, NEW kind \in Kinds
    PROVE  /\ BankFor(AfterAccess(b, a, kind), R, T \cup Hit(R, a, kind))
           /\ \A i \in Comparators :
                 \/ b[i].matched
                 \/ i \in MatchedBy(b, a, kind)
                 => AfterAccess(b, a, kind)[i].matched
<1>. DEFINE c == AfterAccess(b, a, kind)
<1>1. b \in [Comparators -> Registers]
  BY DEF BankFor
<1>2. ASSUME NEW i \in Comparators
      PROVE  /\ c[i] \in Registers
             /\ SameSetting(c[i], b[i])
             /\ c[i].matched => b[i].matched \/ i \in MatchedBy(b, a, kind)
             /\ b[i].matched \/ i \in MatchedBy(b, a, kind) => c[i].matched
  <2>1. CASE i \in MatchedBy(b, a, kind)
    <3>1. c[i] = [b[i] EXCEPT !.matched = TRUE]
      BY <2>1 DEF AfterAccess
    <3>. QED
      BY <1>1, <2>1, <3>1, MatchedBit
  <2>2. CASE i \notin MatchedBy(b, a, kind)
    <3>1. c[i] = b[i]
      BY <2>2 DEF AfterAccess
    <3>. QED
      BY <1>1, <2>2, <3>1 DEF SameSetting
  <2>. QED
    BY <2>1, <2>2
<1>3. c \in [Comparators -> Registers]
  <2>1. c = [i \in Comparators |-> c[i]]
    BY DEF AfterAccess
  <2>. QED
    BY <1>2, <2>1
<1>4. \A i \in Comparators : \A w : Holds(c[i], w) <=> Holds(b[i], w)
  BY <1>2 DEF Holds, SameSetting
<1>5. \A i \in Comparators : c[i].function = b[i].function
  BY <1>2 DEF SameSetting
<1>. HIDE DEF c
<1>6. ASSUME NEW i \in Comparators, c[i].matched
      PROVE  \E w \in T \cup Hit(R, a, kind) : Holds(c[i], w)
  <2>1. CASE b[i].matched
    BY <1>4, <2>1 DEF BankFor
  <2>2. CASE i \in MatchedBy(b, a, kind)
    BY <1>4, <2>2, MatchesHit
  <2>. QED
    BY <1>2, <1>6, <2>1, <2>2
<1>7. BankFor(c, R, T \cup Hit(R, a, kind))
  BY <1>3, <1>4, <1>5, <1>6 DEF BankFor
<1>. QED
  BY <1>2, <1>7 DEF c

-----------------------------------------------------------------------------
(* The inductive invariant.  A comparator that is in use is for a           *)
(* watchpoint of gdb's, one for each, and MATCHED is set only where that    *)
(* watchpoint has been accessed since the bits were last read.              *)

Inv ==
    /\ TypeOK
    /\ AreSettable(requested)
    /\ BankFor(bank, requested, touched)
    /\ dfsr # {} => phase = "running"
    /\ "DWTTRAP" \in dfsr => \E i \in Comparators : bank[i].matched
    /\ RefusesOnlyWhenFull

\* A cleared bank holds no watchpoints.
LEMMA InitialBank == BankFor(ClearedBank, {}, {})
<1>1. Disabled \in Registers /\ ~Disabled.matched
          /\ Disabled.function = "disabled"
  BY DEF Disabled, Registers
<1>2. \A i \in Comparators : ClearedBank[i] = Disabled
  BY DEF ClearedBank
<1>. QED
  BY <1>1, <1>2 DEF ClearedBank, BankFor

\* The invariant holds at first.
LEMMA InitInv == Init => Inv
<1>. SUFFICES ASSUME Init
              PROVE  Inv
  OBVIOUS
<1>1. BankFor(bank, requested, touched) /\ AreSettable(requested)
  BY InitialBank DEF Init, AreSettable
<1>2. TypeOK
  <2>1. bank \in [Comparators -> Registers]
    BY <1>1 DEF BankFor
  <2>2. reason \in Reasons
    BY DEF Init, Unknown, Reasons
  <2>. QED
    BY <2>1, <2>2 DEF Init, TypeOK, Places
<1>3. RefusesOnlyWhenFull
  BY DEF Init, RefusesOnlyWhenFull, NoReply
<1>. QED
  BY <1>1, <1>2, <1>3 DEF Inv, Init

-----------------------------------------------------------------------------
(* Each action keeps the invariant.                                         *)

\* The bytes that the program accesses are addresses.
LEMMA BytesAreAddresses ==
    ASSUME NEW a \in Bytes
    PROVE  a \in Nat
BY WatchpointsAssumption

\* What the reply and the reason are about does not change while neither they
\* nor the watchpoints do.
LEMMA ReplyKept ==
    ASSUME RefusesOnlyWhenFull, UNCHANGED <<reply, requested>>
    PROVE  RefusesOnlyWhenFull'
BY DEF RefusesOnlyWhenFull, FitsMask, Log2

\* No access adds to the watchpoints, and touched names some of them.
LEMMA WatchingIsHit ==
    ASSUME NEW a, NEW kind
    PROVE  Watching(a, kind) = Hit(requested, a, kind)
               /\ Watching(a, kind) \subseteq requested
BY DEF Watching, Hit

\* An access sets MATCHED only in comparators that cover it.
LEMMA ExecuteKeeps ==
    ASSUME Inv, NEW a \in Bytes, NEW kind \in Kinds, NEW taken \in BOOLEAN,
           NEW next \in Places, Execute(a, kind, taken, next)
    PROVE  Inv'
<1>. DEFINE traps == taken /\ MatchedBy(bank, a, kind) # {}
<1>1. /\ bank' = AfterAccess(bank, a, kind)
      /\ touched' = touched \cup Hit(requested, a, kind)
      /\ requested' = requested
      /\ phase' = "running"
      /\ UNCHANGED <<rx, stepping, ranged, reason, signal, reply>>
      /\ place' = next
      /\ dfsr' = dfsr \cup (IF traps THEN {"DWTTRAP"} ELSE {})
                      \cup (IF stepping THEN {"HALTED"} ELSE {})
      /\ pending' = (pending \/ traps \/ stepping)
  BY WatchingIsHit DEF Execute
<1>2. a \in Nat /\ AreSettable(requested) /\ BankFor(bank, requested, touched)
  BY BytesAreAddresses DEF Inv
<1>3. BankFor(bank', requested', touched') /\ AreSettable(requested')
  BY <1>1, <1>2, AccessIsSound
<1>4. TypeOK'
  <2>1. bank' \in [Comparators -> Registers]
    BY <1>3 DEF BankFor
  <2>2. touched' \subseteq requested'
    BY <1>1, WatchingIsHit DEF Inv, TypeOK
  <2>. HIDE DEF traps
  <2>3. traps \in BOOLEAN
    BY DEF traps
  <2>4. pending' \in BOOLEAN
    BY <1>1, <2>3 DEF Inv, TypeOK
  <2>5. dfsr' \subseteq {"DWTTRAP", "BKPT", "HALTED"}
    BY <1>1 DEF Inv, TypeOK
  <2>. QED
    BY <1>1, <2>1, <2>2, <2>4, <2>5 DEF Inv, TypeOK
<1>5. "DWTTRAP" \in dfsr' => \E i \in Comparators : bank'[i].matched
  <2>1. CASE traps
    <3>1. PICK i \in Comparators : i \in MatchedBy(bank, a, kind)
      BY <2>1 DEF MatchedBy
    <3>. QED
      BY <1>1, <1>2, <3>1, AccessIsSound
  <2>2. CASE ~traps /\ "DWTTRAP" \in dfsr
    <3>1. PICK i \in Comparators : bank[i].matched
      BY <2>2 DEF Inv
    <3>. QED
      BY <1>1, <1>2, <3>1, AccessIsSound
  <2>. QED
    BY <1>1, <2>1, <2>2
<1>. QED
  BY <1>1, <1>3, <1>4, <1>5, ReplyKept DEF Inv

\* Steps of the program that leave comparators and commands alone.
LEMMA ProgramKeeps ==
    ASSUME Inv, ReachBreakpoint \/ ControlC
    PROVE  Inv'
<1>1. /\ UNCHANGED <<bank, requested, touched, reply, reason, signal,
                     stepping, ranged, place>>
      /\ phase' = "running"
      /\ dfsr' \in {dfsr, dfsr \cup {"BKPT"}}
      /\ pending' \in {pending, TRUE}
      /\ rx' \in {rx, TRUE}
  BY DEF ReachBreakpoint, ControlC, processor
<1>2. TypeOK'
  BY <1>1 DEF Inv, TypeOK
<1>3. BankFor(bank', requested', touched') /\ AreSettable(requested')
  BY <1>1 DEF Inv
<1>4. "DWTTRAP" \in dfsr' => \E i \in Comparators : bank'[i].matched
  BY <1>1 DEF Inv
<1>. QED
  BY <1>1, <1>2, <1>3, <1>4, ReplyKept DEF Inv

\* What the handler records of a watchpoint is of one that was accessed since
\* the last time, it records something whenever the processor reports a match,
\* and when it looks for one no MATCHED bit is left.
LEMMA ReasonIsSound ==
    ASSUME Inv
    PROVE  /\ Reason \in Reasons
           /\ "DWTTRAP" \in dfsr => Reason.type # "unknown"
           /\ Reason.type \in Types =>
                 \E w \in touched : /\ w.type = Reason.type
                                    /\ w.address = Reason.address
           /\ BankFor(BankAfterReason, requested,
                      IF LooksForMatch THEN {} ELSE touched)
<1>. DEFINE l == Last(Matched(bank))
<1>1. bank \in [Comparators -> Registers]
          /\ BankFor(bank, requested, touched) /\ AreSettable(requested)
  BY DEF Inv, BankFor
<1>2. BankFor(BankAfterReason, requested,
              IF LooksForMatch THEN {} ELSE touched)
  <2>1. /\ AllRead(bank) \in [Comparators -> Registers]
        /\ \A i \in Comparators : /\ SameSetting(AllRead(bank)[i], bank[i])
                                  /\ ~AllRead(bank)[i].matched
    BY <1>1, MatchedBit DEF AllRead
  <2>2. BankFor(AllRead(bank), requested, touched)
    BY <1>1, <2>1, ReadingKeeps
  <2>3. BankFor(AllRead(bank), requested, {})
    BY <2>1, <2>2 DEF BankFor
  <2>. QED
    BY <1>1, <2>3 DEF BankAfterReason
<1>3. CASE Matched(bank) # {}
  <2>1. l \in Comparators /\ bank[l].matched
    <3>1. Matched(bank) \subseteq Comparators
      BY DEF Matched
    <3>2. l \in Matched(bank)
      BY <1>3, <3>1, ScansStopAtMembers
    <3>. QED
      BY <3>2 DEF Matched
  <2>2. PICK w \in touched : Holds(bank[l], w)
    BY <1>1, <2>1 DEF BankFor
  <2>3. w \in Watchpoints
    BY <1>1 DEF Inv, TypeOK, AreSettable
  <2>4. w.type \in Types /\ w.address \in Nat
    BY <2>3 DEF Watchpoints
  <2>5. ReasonOfMatch(bank) = [type |-> w.type, address |-> w.address]
    BY <1>3, <2>2, <2>4 DEF ReasonOfMatch, ReasonOf, Holds, Types
  <2>6. Reason \in {[type |-> "break", address |-> 0], Unknown,
                    ReasonOfMatch(bank)}
            /\ ("DWTTRAP" \in dfsr => Reason # Unknown)
    <3>1. ReasonOfMatch(bank) # Unknown
      BY <2>4, <2>5 DEF Unknown, Types
    <3>2. [type |-> "break", address |-> 0] # Unknown
      BY DEF Unknown
    <3>. QED
      BY <3>1, <3>2 DEF Reason
  <2>7. Reason \in Reasons
    BY <2>4, <2>5, <2>6 DEF Reasons, Unknown
  <2>8. "DWTTRAP" \in dfsr => Reason.type # "unknown"
    BY <2>4, <2>5, <2>6 DEF Types
  <2>9. Reason.type \in Types =>
            \E v \in touched : v.type = Reason.type /\ v.address = Reason.address
    BY <2>5, <2>6 DEF Unknown, Types
  <2>. QED
    BY <1>2, <2>7, <2>8, <2>9
<1>4. CASE Matched(bank) = {}
  <2>1. "DWTTRAP" \notin dfsr
    BY <1>4 DEF Inv, Matched
  <2>2. Reason \in {[type |-> "break", address |-> 0], Unknown}
    BY <2>1 DEF Reason
  <2>. QED
    BY <1>2, <2>1, <2>2 DEF Reasons, Unknown, Types
<1>. QED
  BY <1>3, <1>4

\* The signal has its type.
LEMMA SignalIsTyped ==
    ASSUME NEW number \in {12, 16}
    PROVE  SignalOf(number) \in {"SIGINT", "SIGTRAP", "SIGSTOP"}
<1>1. CASE number = 12
  BY <1>1 DEF SignalOf
<1>2. CASE number = 16
  BY <1>2 DEF SignalOf
<1>. QED
  BY <1>1, <1>2

\* The handler reports a comparator that has matched, and clears them all.
LEMMA HandlerKeeps ==
    ASSUME Inv, HandlerNext
    PROVE  Inv'
<1>. PICK number \in {12, 16} :
         \/ TempBreakpointCallbackResumes(number)
         \/ StepAgainInRange(number)
         \/ ServeSemihostCall(number)
         \/ EnterCommandLoop(number)
  BY DEF HandlerNext
<1>. USE DEF Exception, DetermineSignalValue
<1>1. CASE TempBreakpointCallbackResumes(number)
  <2>1. /\ UNCHANGED <<bank, phase, rx, stepping, ranged, reason, signal,
                       reply, requested, touched>>
        /\ phase' = "running" /\ dfsr' = {} /\ place' = "plain"
        /\ pending' \in BOOLEAN
    BY <1>1 DEF TempBreakpointCallbackResumes, Inv, TypeOK
  <2>2. TypeOK'
    BY <2>1 DEF Inv, TypeOK, Places
  <2>3. BankFor(bank', requested', touched') /\ AreSettable(requested')
    BY <2>1 DEF Inv
  <2>. QED
    BY <2>1, <2>2, <2>3, ReplyKept DEF Inv
<1>2. CASE \/ StepAgainInRange(number)
           \/ ServeSemihostCall(number)
           \/ EnterCommandLoop(number)
  <2>1. /\ UNCHANGED <<reply, requested>>
        /\ touched' = IF LooksForMatch THEN {} ELSE touched
        /\ bank' = BankAfterReason /\ reason' = Reason
        /\ signal' = SignalOf(number)
        /\ dfsr' = {}
    BY <1>2 DEF StepAgainInRange, ServeSemihostCall, EnterCommandLoop
  <2>2. /\ phase' \in {"running", "halted"}
        /\ place' \in Places
        /\ pending' \in BOOLEAN
        /\ rx' \in BOOLEAN
        /\ stepping' \in BOOLEAN
        /\ ranged' \in BOOLEAN
    <3>1. CASE StepAgainInRange(number)
      BY <3>1 DEF StepAgainInRange, Inv, TypeOK
    <3>2. CASE ServeSemihostCall(number)
      BY <3>2 DEF ServeSemihostCall, Inv, TypeOK, Places
    <3>3. CASE EnterCommandLoop(number)
      BY <3>3 DEF EnterCommandLoop, Inv, TypeOK, Places
    <3>. QED
      BY <1>2, <3>1, <3>2, <3>3
  <2>3. BankFor(bank', requested', touched') /\ AreSettable(requested')
    BY <2>1, ReasonIsSound DEF Inv
  <2>4. TypeOK'
    <3>1. bank' \in [Comparators -> Registers]
      BY <2>3 DEF BankFor
    <3>2. reason' \in Reasons
      BY <2>1, ReasonIsSound
    <3>3. signal' \in {"none", "SIGINT", "SIGTRAP", "SIGSTOP"}
      BY <2>1, SignalIsTyped
    <3>4. requested' \subseteq Requests /\ touched' \subseteq requested'
      BY <2>1 DEF Inv, TypeOK
    <3>. QED
      BY <2>1, <2>2, <3>1, <3>2, <3>3, <3>4 DEF TypeOK
  <2>. QED
    BY <2>1, <2>3, <2>4, ReplyKept DEF Inv
<1>. QED
  BY <1>1, <1>2

\* A bank without a free comparator has one for each watchpoint.
LEMMA FullMeansOneEach ==
    ASSUME NEW R, NEW T, NEW b, AreSettable(R), BankFor(b, R, T), Free(b) = {}
    PROVE  Cardinality(R) = NumComparators
<1>. DEFINE f == [i \in Comparators |-> CHOOSE w \in R : Holds(b[i], w)]
<1>1. ASSUME NEW i \in Comparators
      PROVE  f[i] \in R /\ Holds(b[i], f[i])
  <2>1. b[i].function # "disabled"
    BY DEF Free
  <2>2. \E w \in R : Holds(b[i], w)
    BY <2>1 DEF BankFor
  <2>. QED
    BY <2>2
<1>2. f \in [Comparators -> R]
  BY <1>1
<1>. HIDE DEF f
<1>3. ASSUME NEW i \in Comparators, NEW j \in Comparators, f[i] = f[j]
      PROVE  i = j
  BY <1>1, <1>3 DEF BankFor
<1>4. ASSUME NEW w \in R
      PROVE  \E i \in Comparators : f[i] = w
  <2>1. PICK i \in Comparators : Holds(b[i], w)
    BY DEF BankFor
  <2>2. f[i] = w
    BY <1>1, <2>1, HoldsOne DEF AreSettable
  <2>. QED
    BY <2>2
<1>5. ExistsBijection(Comparators, R)
  BY <1>2, <1>3, <1>4
     DEF ExistsBijection, Bijection, Injection, Surjection, IsInjective
<1>6. IsFiniteSet(Comparators) /\ Cardinality(Comparators) = NumComparators
  BY FS_Interval, DwtAssumption DEF Comparators
<1>. QED
  BY <1>5, <1>6, FS_Bijection

\* No event is left in the command loop.
LEMMA HaltedHasNoEvent ==
    ASSUME Inv, phase = "halted"
    PROVE  dfsr = {}
BY DEF Inv

\* Z takes a comparator, or none.
LEMMA SetKeeps ==
    ASSUME Inv, NEW w \in Requests, WatchpointSetCommand(w)
    PROVE  Inv'
<1>1. /\ w \in Watchpoints
      /\ AreSettable(requested) /\ BankFor(bank, requested, touched)
      /\ dfsr = {}
  BY WatchpointsAssumption, HaltedHasNoEvent DEF WatchpointSetCommand, Inv
<1>2. /\ UNCHANGED <<phase, place, dfsr, pending, rx, stepping, ranged, reason,
                     signal, touched>>
  BY DEF WatchpointSetCommand, processor
<1>3. /\ BankFor(bank', requested', touched')
      /\ AreSettable(requested')
      /\ requested' \in {requested, requested \cup {w}}
      /\ RefusesOnlyWhenFull'
      /\ reply'.text # "none"
  <2>1. CASE ~IsValid(w)
    <3>1. UNCHANGED <<bank, requested>> /\ reply' = [text |-> "invalid", set |-> w]
      BY <2>1 DEF WatchpointSetCommand
    <3>. QED
      BY <1>1, <1>2, <3>1 DEF RefusesOnlyWhenFull
  <2>2. CASE IsValid(w) /\ CannotEnable(bank, w)
    <3>1. /\ bank' = Enabled(bank, w) /\ requested' = requested
          /\ reply' = [text |-> "no free", set |-> w]
      BY <2>2 DEF WatchpointSetCommand
    <3>2. BankFor(bank', requested', touched')
      BY <1>1, <1>2, <2>2, <3>1, EnableIsSound
    <3>3. FitsMask(w) =>
              w \notin requested /\ Cardinality(requested) = NumComparators
      <4>1. w \notin requested
        BY <1>1, <2>2, FoundHolds DEF CannotEnable, BankFor
      <4>2. FitsMask(w) => Free(bank) = {}
        BY <2>2 DEF CannotEnable
      <4>. QED
        BY <1>1, <4>1, <4>2, FullMeansOneEach
    <3>4. reply'.text = "no free" /\ reply'.set = w
      BY <3>1
    <3>5. FitsMask(w)' <=> FitsMask(w)
      BY DEF FitsMask, Log2
    <3>6. RefusesOnlyWhenFull'
      BY <3>1, <3>3, <3>4 DEF RefusesOnlyWhenFull, FitsMask, Log2
    <3>. QED
      BY <1>1, <3>1, <3>2, <3>4, <3>6
  <2>3. CASE IsValid(w) /\ ~CannotEnable(bank, w)
    <3>1. /\ bank' = Enabled(bank, w) /\ requested' = requested \cup {w}
          /\ reply' = [text |-> "OK", set |-> w]
      BY <2>3 DEF WatchpointSetCommand
    <3>2. BankFor(bank', requested', touched') /\ AreSettable(requested')
      BY <1>1, <1>2, <2>3, <3>1, EnableIsSound
    <3>. QED
      BY <3>1, <3>2 DEF RefusesOnlyWhenFull
  <2>. QED
    BY <2>1, <2>2, <2>3
<1>4. TypeOK'
  <2>1. bank' \in [Comparators -> Registers]
    BY <1>3 DEF BankFor
  <2>2. requested' \subseteq Requests /\ touched' \subseteq requested'
    BY <1>2, <1>3 DEF Inv, TypeOK
  <2>. QED
    BY <1>2, <2>1, <2>2 DEF Inv, TypeOK
<1>. QED
  BY <1>1, <1>2, <1>3, <1>4 DEF Inv

\* z gives back the comparator of its watchpoint.
LEMMA RemoveKeeps ==
    ASSUME Inv, NEW w \in Requests, WatchpointRemoveCommand(w)
    PROVE  Inv'
<1>1. /\ w \in Watchpoints
      /\ AreSettable(requested) /\ BankFor(bank, requested, touched)
      /\ dfsr = {} /\ touched \subseteq requested
      /\ requested \subseteq Requests
  BY WatchpointsAssumption, HaltedHasNoEvent
     DEF WatchpointRemoveCommand, Inv, TypeOK
<1>2. UNCHANGED <<phase, place, dfsr, pending, rx, stepping, ranged, reason,
                  signal>>
  BY DEF WatchpointRemoveCommand, processor
<1>3. \/ reply' = [text |-> "invalid", removed |-> w]
      \/ reply' = [text |-> "OK", removed |-> w]
  BY DEF WatchpointRemoveCommand
<1>4. /\ BankFor(bank', requested', touched')
      /\ AreSettable(requested')
      /\ requested' \subseteq Requests
      /\ touched' \subseteq requested'
  <2>1. CASE ~IsValid(w)
    <3>1. UNCHANGED <<bank, requested, touched>>
      BY <2>1 DEF WatchpointRemoveCommand
    <3>. QED
      BY <1>1, <3>1
  <2>2. CASE IsValid(w)
    <3>1. /\ bank' = Cleared(bank, w)
          /\ requested' = requested \ {w} /\ touched' = touched \ {w}
      BY <2>2 DEF WatchpointRemoveCommand
    <3>2. BankFor(bank', requested', touched')
      BY <1>1, <2>2, <3>1, DisableIsSound
    <3>. QED
      BY <1>1, <3>1, <3>2 DEF AreSettable
  <2>. QED
    BY <2>1, <2>2
<1>5. TypeOK'
  <2>1. bank' \in [Comparators -> Registers]
    BY <1>4 DEF BankFor
  <2>. QED
    BY <1>2, <1>4, <2>1 DEF Inv, TypeOK
<1>6. reply'.text # "none" /\ reply'.text # "no free"
  <2>1. reply'.text = "invalid" \/ reply'.text = "OK"
    BY <1>3
  <2>. QED
    BY <2>1
<1>7. RefusesOnlyWhenFull'
  BY <1>6 DEF RefusesOnlyWhenFull
<1>. QED
  BY <1>1, <1>2, <1>4, <1>5, <1>7 DEF Inv

\* An access of the monitor counts as one.
LEMMA MemoryKeeps ==
    ASSUME Inv, NEW a \in Bytes, NEW kind \in Kinds, MemoryCommand(a, kind)
    PROVE  Inv'
<1>1. /\ bank' = AfterAccess(bank, a, kind)
      /\ touched' = touched \cup Hit(requested, a, kind)
      /\ UNCHANGED <<phase, place, dfsr, pending, rx, stepping, ranged, reason,
                     signal, reply, requested>>
      /\ dfsr = {}
  BY WatchingIsHit, HaltedHasNoEvent DEF MemoryCommand, processor
<1>2. a \in Nat /\ AreSettable(requested) /\ BankFor(bank, requested, touched)
  BY BytesAreAddresses DEF Inv
<1>3. BankFor(bank', requested', touched') /\ AreSettable(requested')
  BY <1>1, <1>2, AccessIsSound
<1>4. TypeOK'
  <2>1. bank' \in [Comparators -> Registers]
    BY <1>3 DEF BankFor
  <2>2. touched' \subseteq requested'
    BY <1>1, WatchingIsHit DEF Inv, TypeOK
  <2>. QED
    BY <1>1, <2>1, <2>2 DEF Inv, TypeOK
<1>. QED
  BY <1>1, <1>3, <1>4, ReplyKept DEF Inv

\* Resuming the program leaves the comparators alone.
LEMMA ResumeKeeps ==
    ASSUME Inv, NEW step \in BOOLEAN, NEW range \in BOOLEAN,
           NEW next \in Places, Resume(step, range, next)
    PROVE  Inv'
<1>1. /\ UNCHANGED <<bank, dfsr, rx, reason, signal, requested, touched>>
      /\ phase' = "running" /\ place' = next /\ pending' = FALSE
      /\ stepping' = step /\ ranged' = range /\ reply' = NoReply
  BY DEF Resume
<1>2. TypeOK'
  BY <1>1 DEF Inv, TypeOK
<1>3. BankFor(bank', requested', touched') /\ AreSettable(requested')
  BY <1>1 DEF Inv
<1>4. RefusesOnlyWhenFull'
  BY <1>1 DEF RefusesOnlyWhenFull, NoReply
<1>5. "DWTTRAP" \in dfsr' => \E i \in Comparators : bank'[i].matched
  BY <1>1 DEF Inv
<1>. QED
  BY <1>1, <1>2, <1>3, <1>4, <1>5 DEF Inv

\* A restart clears the bank.
LEMMA RestartKeeps ==
    ASSUME Inv, Restart
    PROVE  Inv'
<1>1. /\ bank' = ClearedBank /\ phase' = "running" /\ place' = "plain"
      /\ dfsr' = {} /\ pending' = FALSE /\ rx' = FALSE /\ stepping' = FALSE
      /\ ranged' = FALSE /\ reason' = Unknown /\ signal' = "none"
      /\ reply' = NoReply /\ requested' = {} /\ touched' = {}
  BY DEF Restart
<1>2. BankFor(bank', requested', touched') /\ AreSettable(requested')
  BY <1>1, InitialBank DEF AreSettable
<1>3. TypeOK'
  <2>1. bank' \in [Comparators -> Registers]
    BY <1>2 DEF BankFor
  <2>2. reason' \in Reasons
    BY <1>1 DEF Unknown, Reasons
  <2>. QED
    BY <1>1, <2>1, <2>2 DEF TypeOK, Places
<1>4. RefusesOnlyWhenFull'
  BY <1>1 DEF RefusesOnlyWhenFull, NoReply
<1>. QED
  BY <1>1, <1>2, <1>3, <1>4 DEF Inv

\* Every step keeps the invariant.
LEMMA StepKeeps ==
    ASSUME Inv, [Next]_vars
    PROVE  Inv'
<1>1. CASE ProgramNext
  BY <1>1, ExecuteKeeps, ProgramKeeps DEF ProgramNext
<1>2. CASE HandlerNext
  BY <1>2, HandlerKeeps
<1>3. CASE CommandNext
  BY <1>3, SetKeeps, RemoveKeeps, MemoryKeeps, ResumeKeeps, RestartKeeps
     DEF CommandNext
<1>4. CASE UNCHANGED vars
  <2>1. UNCHANGED <<bank, phase, place, dfsr, pending, rx, stepping, ranged,
                    reason, signal, reply, requested, touched>>
    BY <1>4 DEF vars, processor
  <2>2. TypeOK'
    BY <2>1 DEF Inv, TypeOK
  <2>3. BankFor(bank', requested', touched') /\ AreSettable(requested')
    BY <2>1 DEF Inv
  <2>. QED
    BY <2>1, <2>2, <2>3, ReplyKept DEF Inv
<1>. QED
  BY <1>1, <1>2, <1>3, <1>4 DEF Next

-----------------------------------------------------------------------------
(* The theorems.                                                            *)

\* The invariant holds in every reachable state.
LEMMA Invariance == Spec => []Inv
<1>1. Init => Inv
  BY InitInv
<1>2. Inv /\ [Next]_vars => Inv'
  BY StepKeeps
<1>. QED
  BY <1>1, <1>2, PTL DEF Spec

\* Comparators, flags and records always hold values of their types, and a
\* comparator one of the settings that the unit can hold.
THEOREM WatchpointTypes == Spec => []TypeOK
<1>1. Inv => TypeOK
  BY DEF Inv
<1>. QED
  BY <1>1, Invariance, PTL

\* The comparators watch exactly what gdb has been told is watched, whatever
\* was set, refused and removed, and however the watchpoints overlap.
THEOREM WatchedAsRequested == Spec => []WatchesWhatIsRequested
<1>1. Inv => WatchesWhatIsRequested
  <2>. SUFFICES ASSUME Inv, NEW a \in Bytes, NEW kind \in Kinds
                PROVE  MatchedBy(bank, a, kind) # {} <=> Watching(a, kind) # {}
    BY DEF WatchesWhatIsRequested
  <2>1. a \in Nat /\ AreSettable(requested) /\ BankFor(bank, requested, touched)
    BY BytesAreAddresses DEF Inv
  <2>. QED
    BY <2>1, MatchesHit, WatchingIsHit
<1>. QED
  BY <1>1, Invariance, PTL

\* A watchpoint that could be held is refused only when every comparator holds
\* another one.
THEOREM RefusedWhenFull == Spec => []RefusesOnlyWhenFull
<1>1. Inv => RefusesOnlyWhenFull
  BY DEF Inv
<1>. QED
  BY <1>1, Invariance, PTL

\* A halting program is in a handler.
LEMMA HaltsInHandler ==
    ASSUME Next, phase = "running", phase' = "halted"
    PROVE  HandlerNext
<1>1. ~CommandNext
  BY DEF CommandNext, WatchpointSetCommand, WatchpointRemoveCommand,
         MemoryCommand, Resume, Restart
<1>2. ~ProgramNext
  BY DEF ProgramNext, Execute, ReachBreakpoint, ControlC, processor
<1>. QED
  BY <1>1, <1>2 DEF Next

\* Whenever the program halts for a watchpoint, gdb is told of one that is set
\* and that was accessed since it was set and since a handler last looked for
\* what had been hit: no access is reported twice, and none of a watchpoint
\* that was removed.
THEOREM EachReportHasItsAccess == Spec => ReportsWhatWasTouched
<1>1. Inv /\ [Next]_vars =>
          [(phase = "running" /\ phase' = "halted" /\ reason'.type \in Types) =>
              \E w \in touched : /\ w.type = reason'.type
                                 /\ w.address = reason'.address]_vars
  <2>. SUFFICES ASSUME Inv, Next, phase = "running", phase' = "halted",
                       reason'.type \in Types
                PROVE  \E w \in touched : /\ w.type = reason'.type
                                          /\ w.address = reason'.address
    OBVIOUS
  <2>1. PICK number \in {12, 16} :
            \/ TempBreakpointCallbackResumes(number)
            \/ StepAgainInRange(number)
            \/ ServeSemihostCall(number)
            \/ EnterCommandLoop(number)
    BY HaltsInHandler DEF HandlerNext
  <2>2. EnterCommandLoop(number)
    BY <2>1 DEF TempBreakpointCallbackResumes, StepAgainInRange,
                ServeSemihostCall
  <2>3. reason' = Reason
    BY <2>2 DEF EnterCommandLoop, DetermineSignalValue
  <2>. QED
    BY <2>3, ReasonIsSound
<1>. QED
  BY <1>1, Invariance, PTL DEF Spec, ReportsWhatWasTouched

\* A hit halts the program and is reported, but at a call and a temporary
\* breakpoint.
THEOREM HitsAreReported == Spec => HitsHalt
<1>1. Inv /\ [Next]_vars =>
          [("DWTTRAP" \in dfsr /\ dfsr' = {} /\ place \in {"plain", "break"}) =>
              phase' = "halted" /\ reason'.type # "unknown"]_vars
  <2>. SUFFICES ASSUME Inv, Next, "DWTTRAP" \in dfsr, dfsr' = {},
                       place \in {"plain", "break"}
                PROVE  phase' = "halted" /\ reason'.type # "unknown"
    OBVIOUS
  <2>1. phase = "running"
    BY DEF Inv
  <2>2. HandlerNext
    <3>1. ~CommandNext
      BY <2>1 DEF CommandNext, WatchpointSetCommand, WatchpointRemoveCommand,
                  MemoryCommand, Resume, Restart
    <3>2. ~ProgramNext
      BY DEF ProgramNext, Execute, ReachBreakpoint, ControlC, processor
    <3>. QED
      BY <3>1, <3>2 DEF Next
  <2>3. Reason.type # "unknown"
    BY ReasonIsSound
  <2>4. PICK number \in {12, 16} :
            \/ TempBreakpointCallbackResumes(number)
            \/ StepAgainInRange(number)
            \/ ServeSemihostCall(number)
            \/ EnterCommandLoop(number)
    BY <2>2 DEF HandlerNext
  <2>5. ~TempBreakpointCallbackResumes(number)
    BY DEF TempBreakpointCallbackResumes
  <2>6. ~ServeSemihostCall(number)
    BY DEF ServeSemihostCall, IsSemihostCall
  <2>7. ~StepAgainInRange(number)
    <3>1. CASE number = 12
      <4>1. SignalOf(number) = "SIGTRAP"
        BY <3>1 DEF SignalOf
      <4>. QED
        BY <2>3, <4>1 DEF StepAgainInRange, AreSingleSteppingInRange
    <3>2. CASE number = 16
      <4>1. SignalOf(number) = "SIGINT"
        BY <3>2 DEF SignalOf
      <4>. QED
        BY <4>1 DEF StepAgainInRange, AreSingleSteppingInRange
    <3>. QED
      BY <3>1, <3>2
  <2>8. EnterCommandLoop(number)
    BY <2>4, <2>5, <2>6, <2>7
  <2>. QED
    BY <2>3, <2>8 DEF EnterCommandLoop, DetermineSignalValue
<1>. QED
  BY <1>1, Invariance, PTL DEF Spec, HitsHalt
=============================================================================
