-------------------------- MODULE BreakpointsProofs --------------------------
(***************************************************************************)
(* Proofs about Breakpoints, for a bank of any size, both revisions of the *)
(* Flash Patch unit and any layout of code that the unit can compare with. *)
(***************************************************************************)
EXTENDS Breakpoints, FiniteSetTheorems, TLAPS

-----------------------------------------------------------------------------
(* The scans of a bank.                                                     *)

\* A nonempty set of comparators has a first element.  (The sets of
\* comparators below each element of S are well-ordered by inclusion.)
LEMMA LeastComparator ==
    ASSUME NEW S, S \subseteq Comparators, S # {}
    PROVE  \E i \in S : \A j \in S : i <= j
<1>. DEFINE Below(i) == {j \in S : j < i}
            T == {Below(i) : i \in S}
<1>1. S \subseteq Nat /\ IsFiniteSet(S)
  <2>1. IsFiniteSet(Comparators)
    BY FS_Interval, FlashPatchAssumption DEF Comparators
  <2>2. IsFiniteSet(S)
    BY <2>1, FS_Subset
  <2>. QED
    BY <2>2 DEF Comparators
<1>2. T \subseteq FiniteSubsetsOf(S) /\ T # {}
  <2>1. T \subseteq SUBSET S
    OBVIOUS
  <2>2. FiniteSubsetsOf(S) = SUBSET S
    BY <1>1, FS_FiniteSubsetsOfFinite
  <2>3. T # {}
    OBVIOUS
  <2>. QED
    BY <2>1, <2>2, <2>3
<1>3. PICK x \in T : \A y \in T : <<y, x>> \notin StrictSubsetOrdering(S)
  BY <1>2, FS_StrictSubsetOrderingWellFounded, WFMin, Zenon
<1>4. PICK i \in S : x = Below(i)
  BY <1>3
<1>5. ASSUME NEW j \in S
      PROVE  i <= j
  <2>1. SUFFICES ASSUME j < i
                 PROVE  FALSE
    BY <1>1
  <2>2. Below(j) \subseteq Below(i)
    <3>1. \A k \in S : k < j => k < i
      BY <1>1, <2>1
    <3>. QED
      BY <3>1
  <2>3. j \in Below(i) /\ j \notin Below(j)
    BY <1>1, <2>1
  <2>4. <<Below(j), x>> \in StrictSubsetOrdering(S)
    BY <1>4, <2>2, <2>3 DEF StrictSubsetOrdering
  <2>. QED
    BY <1>3, <2>4
<1>. QED
  BY <1>5

\* A scan that accepts some comparator stops at one that it accepts.
LEMMA FirstIsMember ==
    ASSUME NEW S, S \subseteq Comparators, S # {}
    PROVE  First(S) \in S
BY LeastComparator DEF First

-----------------------------------------------------------------------------
(* The values that comparators hold.                                        *)

\* The unit can compare with every address the actors name: on revision 1
\* all of the code is in the lowest 0.5GB.
AllComparable == \A a \in Code : ~IsBreakpointAddressInvalid(a)

\* The register value of a breakpoint on the instruction at a.
ValueOf(a) == ComparatorValue(a, a \in Wide)

\* Such a value enables the comparator, is not changed by masking off the
\* reserved bits, and stops the processor at a.
LEMMA ValueOfCode ==
    ASSUME AllComparable, NEW a \in Code
    PROVE  /\ ValueOf(a) \in Registers
           /\ IsEnabled(ValueOf(a))
           /\ ValueOf(a) # AllOnes
           /\ MaskOffReservedBits(ValueOf(a)) = ValueOf(a)
           /\ Hits(ValueOf(a), a)
<1>1. a \in Nat /\ a \div 4 \in Nat
  BY LayoutAssumption
<1>2. ValueOf(a) = [word |-> a \div 4,
                    half |-> IF Revision = 1 /\ a \in Wide
                             THEN "both" ELSE HalfOf(a)]
  BY DEF AllComparable, ValueOf, ComparatorValue
<1>3. HalfOf(a) \in {"lower", "upper"}
  BY DEF HalfOf
<1>4. ValueOf(a).half \in {HalfOf(a), "both"} /\ ValueOf(a).word = a \div 4
  BY <1>2
<1>5. ValueOf(a) \in Registers
  BY <1>1, <1>2, <1>3 DEF Registers, Halves
<1>6. IsEnabled(ValueOf(a)) /\ ValueOf(a) # AllOnes
  BY <1>3, <1>4 DEF IsEnabled, AllOnes
<1>. QED
  BY <1>4, <1>5, <1>6 DEF MaskOffReservedBits, Hits

\* Distinct instructions have distinct comparator values, although revision 1
\* drops the halfword bit of the address of a 32-bit instruction.
LEMMA ValueOfInjective ==
    ASSUME AllComparable, NEW a \in Code, NEW b \in Code,
           ValueOf(a) = ValueOf(b)
    PROVE  a = b
<1>1. a \in Nat /\ b \in Nat
  BY LayoutAssumption
<1>2. a % 2 # 1 /\ b % 2 # 1
  BY DEF AllComparable, IsBreakpointAddressInvalid, IsAddressOdd
<1>3. ASSUME NEW c \in Code
      PROVE  /\ ValueOf(c).word = c \div 4
             /\ ValueOf(c).half = IF Revision = 1 /\ c \in Wide
                                  THEN "both" ELSE HalfOf(c)
             /\ HalfOf(c) # "both"
  BY DEF AllComparable, ValueOf, ComparatorValue, HalfOf
<1>4. a \div 4 = b \div 4
  BY <1>3
<1>5. CASE Revision = 1 /\ a \in Wide
  <2>1. b \in Wide
    BY <1>3, <1>5
  <2>2. a + 2 # b /\ b + 2 # a
    BY <1>5, <2>1, LayoutAssumption
  <2>. QED
    BY <1>1, <1>2, <1>4, <2>2
<1>6. CASE ~(Revision = 1 /\ a \in Wide)
  <2>1. HalfOf(a) = HalfOf(b)
    BY <1>3, <1>6
  <2>2. (a \div 2) % 2 = (b \div 2) % 2
    BY <1>1, <2>1 DEF HalfOf
  <2>. QED
    BY <1>1, <1>2, <1>4, <2>2
<1>. QED
  BY <1>5, <1>6

-----------------------------------------------------------------------------
(* What enabling and disabling a breakpoint do to a bank.                   *)

\* The comparators in use are for breakpoints on W, one for each.
BankFor(bank, W) ==
    /\ bank \in [Comparators -> Registers]
    /\ \A i \in Comparators :
          IsEnabled(bank[i]) => \E a \in W : bank[i] = ValueOf(a)
    /\ \A i, j \in Comparators :
          bank[i] = bank[j] /\ IsEnabled(bank[i]) => i = j

Holds(bank, a) == \E i \in Comparators : bank[i] = ValueOf(a)

\* The scan for a breakpoint finds exactly the comparators that hold it.
LEMMA MatchingHolds ==
    ASSUME AllComparable, NEW W, W \subseteq Code, NEW bank,
           BankFor(bank, W), NEW a \in Code
    PROVE  Matching(bank, a, a \in Wide) =
               {i \in Comparators : bank[i] = ValueOf(a)}
<1>1. ASSUME NEW i \in Comparators
      PROVE  MaskOffReservedBits(bank[i]) = bank[i]
  <2>1. CASE IsEnabled(bank[i])
    BY <2>1, ValueOfCode DEF BankFor
  <2>2. CASE ~IsEnabled(bank[i])
    BY <2>2 DEF IsEnabled, AllOnes, MaskOffReservedBits
  <2>. QED
    BY <2>1, <2>2
<1>. QED
  BY <1>1 DEF Matching, ValueOf

\* enableFPBBreakpoint arms the address that it is given and disturbs no
\* other, when it does not report an error.
LEMMA EnableIsSound ==
    ASSUME AllComparable, NEW W, W \subseteq Code, NEW bank,
           BankFor(bank, W), NEW a \in Code,
           ~CannotEnable(bank, a, a \in Wide)
    PROVE  LET b == EnableBreakpoint(bank, a, a \in Wide)
           IN  /\ BankFor(b, W \cup {a})
               /\ Holds(b, a)
               /\ \A c \in Code : Holds(bank, c) => Holds(b, c)
<1>. DEFINE b == EnableBreakpoint(bank, a, a \in Wide)
            M == Matching(bank, a, a \in Wide)
<1>1. M = {i \in Comparators : bank[i] = ValueOf(a)}
  BY MatchingHolds
<1>2. CASE M # {}
  <2>1. b = bank
    BY <1>2 DEF EnableBreakpoint
  <2>2. BankFor(bank, W \cup {a})
    BY DEF BankFor
  <2>3. Holds(bank, a)
    BY <1>1, <1>2 DEF Holds
  <2>. QED
    BY <2>1, <2>2, <2>3
<1>3. CASE M = {}
  <2>. DEFINE f == First(Free(bank))
  <2>1. Free(bank) # {} /\ Free(bank) \subseteq Comparators
    BY <1>3 DEF CannotEnable, Free
  <2>2. f \in Free(bank)
    BY <2>1, FirstIsMember
  <2>3. f \in Comparators /\ ~IsEnabled(bank[f])
    BY <2>2 DEF Free
  <2>4. b = [bank EXCEPT ![f] = ValueOf(a)]
    BY <1>3, <2>1 DEF EnableBreakpoint, ValueOf
  <2>. HIDE DEF b, f
  <2>5. ValueOf(a) \in Registers /\ IsEnabled(ValueOf(a))
    BY ValueOfCode
  <2>6. b \in [Comparators -> Registers]
    BY <2>4, <2>5 DEF BankFor
  <2>7. ASSUME NEW i \in Comparators
        PROVE  b[i] = IF i = f THEN ValueOf(a) ELSE bank[i]
    BY <2>4 DEF BankFor
  <2>8. ASSUME NEW i \in Comparators, IsEnabled(b[i])
        PROVE  \E c \in W \cup {a} : b[i] = ValueOf(c)
    BY <2>7, <2>8 DEF BankFor
  <2>9. ASSUME NEW i \in Comparators, NEW j \in Comparators,
               b[i] = b[j], IsEnabled(b[i])
        PROVE  i = j
    BY <1>1, <1>3, <2>7, <2>9 DEF BankFor
  <2>10. BankFor(b, W \cup {a})
    BY <2>6, <2>8, <2>9 DEF BankFor
  <2>11. Holds(b, a)
    BY <2>3, <2>7 DEF Holds
  <2>12. ASSUME NEW c \in Code, Holds(bank, c)
         PROVE  Holds(b, c)
    BY <2>3, <2>7, <2>12, ValueOfCode DEF Holds
  <2>. QED
    BY <2>10, <2>11, <2>12 DEF b
<1>. QED
  BY <1>2, <1>3

\* disableFPBBreakpoint clears the address that it is given and disturbs no
\* other.
LEMMA DisableIsSound ==
    ASSUME AllComparable, NEW W, W \subseteq Code, NEW bank,
           BankFor(bank, W), NEW a \in Code
    PROVE  LET b == DisableBreakpoint(bank, a, a \in Wide)
           IN  /\ BankFor(b, W \ {a})
               /\ ~Holds(b, a)
               /\ \A c \in Code \ {a} : Holds(bank, c) => Holds(b, c)
<1>. DEFINE b == DisableBreakpoint(bank, a, a \in Wide)
            M == Matching(bank, a, a \in Wide)
<1>1. M = {i \in Comparators : bank[i] = ValueOf(a)}
  BY MatchingHolds
<1>2. CASE M = {}
  <2>1. b = bank
    BY <1>2 DEF DisableBreakpoint
  <2>2. ~Holds(bank, a)
    BY <1>1, <1>2 DEF Holds
  <2>3. BankFor(bank, W \ {a})
    BY <2>2 DEF BankFor, Holds
  <2>. QED
    BY <2>1, <2>2, <2>3
<1>3. CASE M # {}
  <2>. DEFINE f == First(M)
  <2>1. f \in Comparators /\ bank[f] = ValueOf(a)
    BY <1>1, <1>3, FirstIsMember
  <2>2. b = [bank EXCEPT ![f] = Cleared]
    BY <1>3 DEF DisableBreakpoint
  <2>. HIDE DEF b, f
  <2>3. Cleared \in Registers /\ ~IsEnabled(Cleared)
    BY DEF Cleared, Registers, IsEnabled
  <2>4. IsEnabled(ValueOf(a))
    BY ValueOfCode
  <2>5. b \in [Comparators -> Registers]
    BY <2>2, <2>3 DEF BankFor
  <2>6. ASSUME NEW i \in Comparators
        PROVE  b[i] = IF i = f THEN Cleared ELSE bank[i]
    BY <2>2 DEF BankFor
  <2>7. ASSUME NEW i \in Comparators
        PROVE  b[i] # ValueOf(a)
    BY <2>1, <2>3, <2>4, <2>6 DEF BankFor
  <2>8. ASSUME NEW i \in Comparators, IsEnabled(b[i])
        PROVE  \E c \in W \ {a} : b[i] = ValueOf(c)
    BY <2>3, <2>6, <2>7, <2>8 DEF BankFor
  <2>9. ASSUME NEW i \in Comparators, NEW j \in Comparators,
               b[i] = b[j], IsEnabled(b[i])
        PROVE  i = j
    BY <2>3, <2>6, <2>9 DEF BankFor
  <2>10. BankFor(b, W \ {a})
    BY <2>5, <2>8, <2>9 DEF BankFor
  <2>11. ~Holds(b, a)
    BY <2>7 DEF Holds
  <2>12. ASSUME NEW c \in Code \ {a}, Holds(bank, c)
         PROVE  Holds(b, c)
    BY <2>1, <2>6, <2>12, ValueOfInjective DEF Holds
  <2>. QED
    BY <2>10, <2>11, <2>12 DEF b
<1>. QED
  BY <1>2, <1>3

-----------------------------------------------------------------------------
(* The inductive invariant.  Its heart relates the bank to the three users, *)
(* given as the breakpoints r requested by gdb, the temporary breakpoint t  *)
(* and the flag s of a step over an SVC, so that what one of them does can  *)
(* be followed by what another one does within the same step.               *)

WantedBy(r, t, s) ==
    r \cup {a \in TempAddresses : t.set /\ t.address = a}
      \cup {a \in {SvcHandler} : s}

Serves(bank, r, t, s) ==
    /\ r \subseteq GdbCode
    /\ t \in [set : BOOLEAN, address : Code \cup {0}]
    /\ s \in BOOLEAN
    /\ BankFor(bank, WantedBy(r, t, s))
    /\ t.set => t.address \in TempAddresses \ Unreadable
    /\ s => SvcHandler \notin Unreadable
    /\ \A a \in r : a \notin TempAddresses \cup {SvcHandler} => Holds(bank, a)
    /\ t.set /\ t.address \notin GdbCode \cup {SvcHandler}
          => Holds(bank, t.address)
    /\ s /\ SvcHandler \notin GdbCode \cup TempAddresses
          => Holds(bank, SvcHandler)

IInv ==
    /\ Serves(fpb, requested, temp, svcStep)
    /\ ranged \in BOOLEAN
    /\ mode \in {"running", "halted"}
    /\ mode = "halted" => ~svcStep

\* Everyone's breakpoints are at addresses of code.
LEMMA AddressesAreCode ==
    /\ GdbCode \subseteq Code
    /\ TempAddresses \subseteq Code
    /\ SvcHandler \in Code
    /\ \A r, t, s : r \subseteq GdbCode => WantedBy(r, t, s) \subseteq Code
BY LayoutAssumption DEF TempAddresses, ClearThumbBitOfAddress, WantedBy

\* A bank for some breakpoints is one for more.
LEMMA BankForMore ==
    ASSUME NEW bank, NEW W, NEW V, W \subseteq V, BankFor(bank, W)
    PROVE  BankFor(bank, V)
BY DEF BankFor

\* Z1 adds a breakpoint of gdb's to those the bank serves.
LEMMA GdbSets ==
    ASSUME AllComparable, NEW bank, NEW r, NEW t, NEW s,
           Serves(bank, r, t, s), NEW a \in GdbCode,
           ~CannotEnable(bank, a, a \in Wide)
    PROVE  Serves(EnableBreakpoint(bank, a, a \in Wide), r \cup {a}, t, s)
<1>. DEFINE b == EnableBreakpoint(bank, a, a \in Wide)
<1>1. /\ BankFor(b, WantedBy(r, t, s) \cup {a})
      /\ Holds(b, a)
      /\ \A c \in Code : Holds(bank, c) => Holds(b, c)
  BY EnableIsSound, AddressesAreCode DEF Serves
<1>. HIDE DEF b
<1>2. WantedBy(r, t, s) \cup {a} = WantedBy(r \cup {a}, t, s)
  BY DEF WantedBy
<1>. QED
  BY <1>1, <1>2, AddressesAreCode DEF Serves, b

\* z1 takes one of gdb's away.
LEMMA GdbRemoves ==
    ASSUME AllComparable, NEW bank, NEW r, NEW t, NEW s,
           Serves(bank, r, t, s), NEW a \in GdbCode
    PROVE  Serves(DisableBreakpoint(bank, a, a \in Wide), r \ {a}, t, s)
<1>. DEFINE b == DisableBreakpoint(bank, a, a \in Wide)
<1>1. /\ BankFor(b, WantedBy(r, t, s) \ {a})
      /\ \A c \in Code \ {a} : Holds(bank, c) => Holds(b, c)
  BY DisableIsSound, AddressesAreCode DEF Serves
<1>. HIDE DEF b
<1>2. WantedBy(r, t, s) \ {a} \subseteq WantedBy(r \ {a}, t, s)
  BY DEF WantedBy
<1>3. BankFor(b, WantedBy(r \ {a}, t, s))
  BY <1>1, <1>2, BankForMore
<1>. QED
  BY <1>1, <1>3, AddressesAreCode DEF Serves, b

\* mriCore_SetTempBreakpoint adds the temporary one, when there is none.
LEMMA ProgramSetsTemp ==
    ASSUME AllComparable, NEW bank, NEW r, NEW t, NEW s,
           Serves(bank, r, t, s), NEW a \in TempAddresses,
           ~t.set, ~SetHardwareBreakpointThrows(bank, a)
    PROVE  Serves(SetHardwareBreakpoint(bank, a), r,
                  [set |-> TRUE, address |-> a], s)
<1>. DEFINE b == SetHardwareBreakpoint(bank, a)
            u == [set |-> TRUE, address |-> a]
<1>1. /\ BankFor(b, WantedBy(r, t, s) \cup {a})
      /\ Holds(b, a)
      /\ \A c \in Code : Holds(bank, c) => Holds(b, c)
  BY EnableIsSound, AddressesAreCode
     DEF Serves, SetHardwareBreakpoint, SetHardwareBreakpointThrows
<1>2. a \notin Unreadable
  BY DEF SetHardwareBreakpointThrows
<1>3. /\ u \in [set : BOOLEAN, address : Code \cup {0}]
      /\ u.set /\ u.address = a
  BY AddressesAreCode
<1>. HIDE DEF b, u
<1>4. WantedBy(r, t, s) \cup {a} \subseteq WantedBy(r, u, s)
  BY <1>3 DEF WantedBy
<1>5. BankFor(b, WantedBy(r, u, s))
  BY <1>1, <1>4, BankForMore
<1>. QED
  BY <1>1, <1>2, <1>3, <1>5, AddressesAreCode DEF Serves, b, u

\* clearTempBreakpoint takes it away.
LEMMA TempIsCleared ==
    ASSUME AllComparable, NEW bank, NEW r, NEW t, NEW s,
           Serves(bank, r, t, s), t.set
    PROVE  Serves(ClearHardwareBreakpoint(bank, t.address), r, NoTemp, s)
<1>. DEFINE b == ClearHardwareBreakpoint(bank, t.address)
            a == t.address
<1>1. a \in TempAddresses /\ a \in Code /\ a \notin Unreadable
  BY AddressesAreCode DEF Serves
<1>2. /\ BankFor(b, WantedBy(r, t, s) \ {a})
      /\ \A c \in Code \ {a} : Holds(bank, c) => Holds(b, c)
  BY <1>1, DisableIsSound, AddressesAreCode DEF Serves, ClearHardwareBreakpoint
<1>3. /\ NoTemp \in [set : BOOLEAN, address : Code \cup {0}]
      /\ ~NoTemp.set
  BY DEF NoTemp
<1>. HIDE DEF b
<1>4. WantedBy(r, t, s) \ {a} \subseteq WantedBy(r, NoTemp, s)
  BY DEF WantedBy
<1>5. BankFor(b, WantedBy(r, NoTemp, s))
  BY <1>2, <1>4, BankForMore
<1>. QED
  BY <1>1, <1>2, <1>3, <1>5, AddressesAreCode DEF Serves, b

\* removeHardwareBreakpointOnSvcHandlerIfNeeded takes that on the SVC handler
\* away.
LEMMA SvcIsCleared ==
    ASSUME AllComparable, NEW bank, NEW r, NEW t, Serves(bank, r, t, TRUE)
    PROVE  Serves(ClearHardwareBreakpoint(bank, SvcHandler), r, t, FALSE)
<1>. DEFINE b == ClearHardwareBreakpoint(bank, SvcHandler)
<1>1. SvcHandler \in Code /\ SvcHandler \notin Unreadable
  BY AddressesAreCode DEF Serves
<1>2. /\ BankFor(b, WantedBy(r, t, TRUE) \ {SvcHandler})
      /\ \A c \in Code \ {SvcHandler} : Holds(bank, c) => Holds(b, c)
  BY <1>1, DisableIsSound, AddressesAreCode DEF Serves, ClearHardwareBreakpoint
<1>. HIDE DEF b
<1>3. WantedBy(r, t, TRUE) \ {SvcHandler} \subseteq WantedBy(r, t, FALSE)
  BY DEF WantedBy
<1>4. BankFor(b, WantedBy(r, t, FALSE))
  BY <1>2, <1>3, BankForMore
<1>. QED
  BY <1>2, <1>4, AddressesAreCode DEF Serves, b

\* A step over an SVC adds it.
LEMMA SvcIsSet ==
    ASSUME AllComparable, NEW bank, NEW r, NEW t,
           Serves(bank, r, t, FALSE),
           ~SetHardwareBreakpointThrows(bank, SvcHandler)
    PROVE  Serves(SetHardwareBreakpoint(bank, SvcHandler), r, t, TRUE)
<1>. DEFINE b == SetHardwareBreakpoint(bank, SvcHandler)
<1>1. /\ BankFor(b, WantedBy(r, t, FALSE) \cup {SvcHandler})
      /\ Holds(b, SvcHandler)
      /\ \A c \in Code : Holds(bank, c) => Holds(b, c)
  BY EnableIsSound, AddressesAreCode
     DEF Serves, SetHardwareBreakpoint, SetHardwareBreakpointThrows
<1>2. SvcHandler \notin Unreadable
  BY DEF SetHardwareBreakpointThrows
<1>. HIDE DEF b
<1>3. WantedBy(r, t, FALSE) \cup {SvcHandler} = WantedBy(r, t, TRUE)
  BY DEF WantedBy
<1>. QED
  BY <1>1, <1>2, <1>3, AddressesAreCode DEF Serves, b

-----------------------------------------------------------------------------
(* Every step keeps the invariant.                                          *)

\* initFPB leaves a bank that serves nobody, and nobody wants one.
LEMMA InitHolds == Init => IInv
<1>. SUFFICES ASSUME Init PROVE IInv
  OBVIOUS
<1>1. ClearedBank \in [Comparators -> Registers]
  BY DEF ClearedBank, Cleared, Registers
<1>2. \A i \in Comparators : ~IsEnabled(ClearedBank[i])
  BY DEF ClearedBank, Cleared, IsEnabled
<1>3. BankFor(fpb, WantedBy(requested, temp, svcStep))
  BY <1>1, <1>2 DEF Init, BankFor
<1>. QED
  BY <1>3, AddressesAreCode DEF Init, IInv, Serves, NoTemp

\* The part of Platform_EnableSingleStep that concerns the comparators.
LEMMA StepIsArmed ==
    ASSUME AllComparable, NEW bank, NEW instruction \in Instructions,
           Serves(bank, requested, temp', FALSE), ArmStep(bank, instruction)
    PROVE  Serves(fpb', requested, temp', svcStep')
<1>1. CASE instruction = "svc" /\ ~SetHardwareBreakpointThrows(bank, SvcHandler)
  BY <1>1, SvcIsSet DEF ArmStep
<1>2. CASE instruction = "svc" /\ SetHardwareBreakpointThrows(bank, SvcHandler)
  <2>1. SetHardwareBreakpoint(bank, SvcHandler) = bank
    BY <1>2 DEF SetHardwareBreakpointThrows, SetHardwareBreakpoint,
                CannotEnable, EnableBreakpoint
  <2>. QED
    BY <1>2, <2>1 DEF ArmStep
<1>3. CASE instruction # "svc"
  BY <1>3 DEF ArmStep
<1>. QED
  BY <1>1, <1>2, <1>3

\* clearTempBreakpoint, if the temporary breakpoint was hit.
LEMMA HitTempIsCleared ==
    ASSUME AllComparable, IInv, NEW pc, ClearTempBreakpointIfHit(pc)
    PROVE  Serves(BankOnceTempIsCleared(pc), requested, temp', svcStep)
<1>1. CASE WasTempBreakpointHit(pc)
  BY <1>1, TempIsCleared DEF IInv, ClearTempBreakpointIfHit,
     BankOnceTempIsCleared, WasTempBreakpointHit
<1>2. CASE ~WasTempBreakpointHit(pc)
  BY <1>2 DEF IInv, ClearTempBreakpointIfHit, BankOnceTempIsCleared
<1>. QED
  BY <1>1, <1>2

\* Platform_DisableSingleStep.
LEMMA SvcBreakpointIsRemoved ==
    ASSUME AllComparable, NEW bank, NEW r, NEW t, Serves(bank, r, t, svcStep)
    PROVE  Serves(WithoutSvcBreakpoint(bank), r, t, FALSE)
<1>1. svcStep \in BOOLEAN
  BY DEF Serves
<1>2. CASE svcStep
  <2>1. svcStep = TRUE
    BY <1>1, <1>2
  <2>. QED
    BY <1>2, <2>1, SvcIsCleared DEF WithoutSvcBreakpoint
<1>3. CASE ~svcStep
  <2>1. svcStep = FALSE
    BY <1>1, <1>3
  <2>. QED
    BY <1>3, <2>1 DEF WithoutSvcBreakpoint
<1>. QED
  BY <1>2, <1>3

\* The kind that gdb gives in Z1 and z1 says how wide the instruction is.
LEMMA KindGivesWidth ==
    ASSUME NEW a, NEW kind \in Kinds(a), KindIsValid(kind)
    PROVE  KindIsWide(kind) <=> a \in Wide
BY DEF Kinds, KindIsValid, KindIsWide

\* HandleBreakpointWatchpointSetCommand keeps the invariant.
LEMMA SetCommandHolds ==
    ASSUME AllComparable, IInv, NEW a \in GdbCode, NEW kind \in Kinds(a),
           HandleBreakpointSetCommand(a, kind)
    PROVE  IInv'
<1>1. CASE ~KindIsValid(kind) \/ CannotEnable(fpb, a, KindIsWide(kind))
  BY <1>1 DEF HandleBreakpointSetCommand, IInv
<1>2. CASE KindIsValid(kind) /\ ~CannotEnable(fpb, a, KindIsWide(kind))
  <2>1. KindIsWide(kind) = (a \in Wide)
    BY <1>2, KindGivesWidth DEF KindIsWide
  <2>2. /\ fpb' = EnableBreakpoint(fpb, a, a \in Wide)
        /\ requested' = requested \cup {a}
        /\ ~CannotEnable(fpb, a, a \in Wide)
    BY <1>2, <2>1 DEF HandleBreakpointSetCommand
  <2>3. Serves(fpb', requested', temp, svcStep)
    BY <2>2, GdbSets DEF IInv
  <2>. QED
    BY <2>3 DEF HandleBreakpointSetCommand, IInv
<1>. QED
  BY <1>1, <1>2

\* HandleBreakpointWatchpointRemoveCommand keeps the invariant.
LEMMA RemoveCommandHolds ==
    ASSUME AllComparable, IInv, NEW a \in GdbCode, NEW kind \in Kinds(a),
           HandleBreakpointRemoveCommand(a, kind)
    PROVE  IInv'
<1>1. CASE ~KindIsValid(kind)
  BY <1>1 DEF HandleBreakpointRemoveCommand, IInv
<1>2. CASE KindIsValid(kind)
  <2>1. KindIsWide(kind) = (a \in Wide)
    BY <1>2, KindGivesWidth DEF KindIsWide
  <2>2. /\ fpb' = DisableBreakpoint(fpb, a, a \in Wide)
        /\ requested' = requested \ {a}
    BY <1>2, <2>1 DEF HandleBreakpointRemoveCommand
  <2>3. Serves(fpb', requested', temp, svcStep)
    BY <2>2, GdbRemoves DEF IInv
  <2>. QED
    BY <2>3 DEF HandleBreakpointRemoveCommand, IInv
<1>. QED
  BY <1>1, <1>2

\* Every step of the specification keeps the invariant.
LEMMA StepHolds == AllComparable /\ IInv /\ [Next]_vars => IInv'
<1>. SUFFICES ASSUME AllComparable, IInv, [Next]_vars PROVE IInv'
  OBVIOUS
<1>1. ASSUME NEW a \in GdbCode, NEW kind \in Kinds(a),
             \/ HandleBreakpointSetCommand(a, kind)
             \/ HandleBreakpointRemoveCommand(a, kind)
      PROVE  IInv'
  BY <1>1, SetCommandHolds, RemoveCommandHolds
<1>2. CASE Continue
  BY <1>2 DEF Continue, IInv
<1>3. ASSUME NEW instruction \in Instructions, NEW inRange \in BOOLEAN,
             Step(instruction, inRange)
      PROVE  IInv'
  <2>1. svcStep = FALSE
    BY <1>3 DEF Step, IInv, Serves
  <2>2. Serves(fpb', requested, temp', svcStep')
    BY <1>3, <2>1, StepIsArmed DEF Step, IInv
  <2>. QED
    BY <1>3, <2>2 DEF Step, IInv
<1>4. CASE Reset
  <2>1. Init'
    BY <1>4 DEF Reset, Init
  <2>. QED
    BY <2>1, InitHolds, PTL
<1>5. ASSUME NEW a \in TempCode, SetTempBreakpoint(a)
      PROVE  IInv'
  <2>. DEFINE address == ClearThumbBitOfAddress(a)
  <2>1. address \in TempAddresses
    BY DEF TempAddresses
  <2>. HIDE DEF address
  <2>2. Serves(fpb', requested, temp', svcStep)
    BY <1>5, <2>1, ProgramSetsTemp DEF SetTempBreakpoint, IInv, address
  <2>. QED
    BY <1>5, <2>2 DEF SetTempBreakpoint, IInv
<1>6. ASSUME NEW pc \in Code, TempBreakpointCallbackResumes(pc)
      PROVE  IInv'
  <2>1. Serves(fpb', requested, temp', svcStep)
    BY <1>6, HitTempIsCleared DEF TempBreakpointCallbackResumes
  <2>. QED
    BY <1>6, <2>1 DEF TempBreakpointCallbackResumes, IInv
<1>7. ASSUME NEW pc \in Code, NEW instruction \in Instructions,
             StepAgainInRange(pc, instruction)
      PROVE  IInv'
  <2>1. Serves(WithoutSvcBreakpoint(BankOnceTempIsCleared(pc)),
               requested, temp', FALSE)
    BY <1>7, HitTempIsCleared, SvcBreakpointIsRemoved DEF StepAgainInRange
  <2>2. Serves(fpb', requested, temp', svcStep')
    BY <1>7, <2>1, StepIsArmed DEF StepAgainInRange
  <2>. QED
    BY <1>7, <2>2 DEF StepAgainInRange, IInv
<1>8. ASSUME NEW pc \in Code, NEW semihostServed \in BOOLEAN,
             EnterDebugger(pc, semihostServed)
      PROVE  IInv'
  <2>1. Serves(fpb', requested, temp', FALSE)
    BY <1>8, HitTempIsCleared, SvcBreakpointIsRemoved DEF EnterDebugger
  <2>. QED
    BY <1>8, <2>1 DEF EnterDebugger, IInv
<1>9. CASE UNCHANGED vars
  BY <1>9 DEF vars, IInv
<1>. QED
  BY <1>1, <1>2, <1>3, <1>4, <1>5, <1>6, <1>7, <1>8, <1>9 DEF Next

\* The invariant holds in every reachable state, whatever the size of the
\* bank, the revision of the unit and the layout of the code.
THEOREM Invariance ==
    ASSUME AllComparable
    PROVE  Spec => []IInv
<1>1. Init => IInv
  BY InitHolds
<1>2. IInv /\ [Next]_vars => IInv'
  BY StepHolds
<1>. QED
  BY <1>1, <1>2, PTL DEF Spec

-----------------------------------------------------------------------------
(* The properties that the runs check follow from the invariant.            *)

\* Every variable keeps its type.
THEOREM TypeCorrectness ==
    ASSUME AllComparable
    PROVE  Spec => []TypeOK
<1>1. IInv => TypeOK
  BY DEF IInv, Serves, BankFor, TypeOK
<1>. QED
  BY <1>1, Invariance, PTL

\* However often a breakpoint is set, it occupies one comparator of
\* enableFPBBreakpoint's bank.
THEOREM OneComparatorEachHolds ==
    ASSUME AllComparable
    PROVE  Spec => []OneComparatorEach
<1>1. IInv => OneComparatorEach
  BY DEF IInv, Serves, BankFor, OneComparatorEach
<1>. QED
  BY <1>1, Invariance, PTL

\* Neither the temporary breakpoint, nor stepping over SVCs, nor gdb ever
\* leaves a comparator in use behind.
THEOREM NoComparatorLeakedHolds ==
    ASSUME AllComparable
    PROVE  Spec => []NoComparatorLeaked
<1>1. IInv => NoComparatorLeaked
  BY DEF IInv, Serves, BankFor, NoComparatorLeaked, Wanted, WantedBy, ValueOf
<1>. QED
  BY <1>1, Invariance, PTL

\* A bank that holds a breakpoint stops the processor there.
LEMMA HoldsMeansWatched ==
    ASSUME AllComparable, NEW bank, NEW a \in Code, Holds(bank, a)
    PROVE  Watched(bank, a)
BY ValueOfCode DEF Holds, Watched

\* gdb's breakpoints survive everything the monitor and the program do at
\* other addresses.
THEOREM GdbBreakpointsKeptHolds ==
    ASSUME AllComparable
    PROVE  Spec => []GdbBreakpointsKept
<1>1. IInv => GdbBreakpointsKept
  BY HoldsMeansWatched, AddressesAreCode DEF IInv, Serves, GdbBreakpointsKept
<1>. QED
  BY <1>1, Invariance, PTL

\* The temporary breakpoint and the one on the SVC handler survive what gdb
\* and each other do at other addresses.
THEOREM InternalBreakpointsKeptHolds ==
    ASSUME AllComparable
    PROVE  Spec => []InternalBreakpointsKept
<1>1. IInv => InternalBreakpointsKept
  BY HoldsMeansWatched, AddressesAreCode
     DEF IInv, Serves, InternalBreakpointsKept
<1>. QED
  BY <1>1, Invariance, PTL

\* A step that adds to or takes from what gdb requested is one of its two
\* commands, or the reset of the device.
LEMMA RequestsChange ==
    ASSUME [Next]_vars, requested' # requested
    PROVE  \/ \E a \in GdbCode : \E kind \in Kinds(a) :
                 \/ HandleBreakpointSetCommand(a, kind)
                 \/ HandleBreakpointRemoveCommand(a, kind)
           \/ Reset
BY DEF Next, vars, Continue, Step, SetTempBreakpoint, StepAgainInRange,
       TempBreakpointCallbackResumes, EnterDebugger

\* When Z1 answers OK the processor stops at that address, as long as the
\* unit can compare with it.
THEOREM OkMeansArmedHolds ==
    ASSUME AllComparable
    PROVE  Spec => OkMeansArmed
<1>1. ASSUME IInv, [Next]_vars, NEW a \in requested' \ requested
      PROVE  Watched(fpb', a)
  <2>1. PICK kind \in Kinds(a) :
            a \in GdbCode /\ HandleBreakpointSetCommand(a, kind)
    BY <1>1, RequestsChange DEF HandleBreakpointSetCommand,
       HandleBreakpointRemoveCommand, Reset
  <2>2. KindIsValid(kind) /\ ~CannotEnable(fpb, a, KindIsWide(kind))
    BY <1>1, <2>1 DEF HandleBreakpointSetCommand
  <2>3. KindIsWide(kind) = (a \in Wide)
    BY <2>1, <2>2, KindGivesWidth DEF KindIsWide
  <2>4. fpb' = EnableBreakpoint(fpb, a, a \in Wide)
    BY <2>1, <2>2, <2>3 DEF HandleBreakpointSetCommand
  <2>5. Holds(fpb', a)
    BY <1>1, <2>1, <2>2, <2>3, <2>4, EnableIsSound, AddressesAreCode
       DEF IInv, Serves
  <2>. QED
    BY <2>1, <2>5, HoldsMeansWatched, AddressesAreCode
<1>2. IInv /\ [Next]_vars
        => [\A a \in requested' \ requested : Watched(fpb', a)]_vars
  BY <1>1
<1>. QED
  BY <1>2, Invariance, PTL DEF Spec, OkMeansArmed

\* When z1 answers OK no comparator holds the breakpoint any more.
THEOREM RemovedMeansClearedHolds ==
    ASSUME AllComparable
    PROVE  Spec => RemovedMeansCleared
<1>1. ASSUME IInv, [Next]_vars, NEW a \in requested \ requested'
      PROVE  Matching(fpb', a, a \in Wide) = {}
  <2>1. a \in Code
    BY <1>1, AddressesAreCode DEF IInv, Serves
  <2>2. IInv'
    BY <1>1, StepHolds
  <2>3. ~Holds(fpb', a)
    <3>1. CASE Reset
      BY <2>1, <3>1, ValueOfCode
         DEF Reset, Holds, ClearedBank, Cleared, IsEnabled
    <3>2. CASE ~Reset
      <4>1. PICK kind \in Kinds(a) :
                a \in GdbCode /\ HandleBreakpointRemoveCommand(a, kind)
        BY <1>1, <3>2, RequestsChange DEF HandleBreakpointSetCommand,
           HandleBreakpointRemoveCommand
      <4>2. KindIsValid(kind)
        BY <1>1, <4>1 DEF HandleBreakpointRemoveCommand
      <4>3. KindIsWide(kind) = (a \in Wide)
        BY <4>1, <4>2, KindGivesWidth DEF KindIsWide
      <4>4. fpb' = DisableBreakpoint(fpb, a, a \in Wide)
        BY <4>1, <4>2, <4>3 DEF HandleBreakpointRemoveCommand
      <4>. QED
        BY <1>1, <2>1, <4>4, DisableIsSound, AddressesAreCode DEF IInv, Serves
    <3>. QED
      BY <3>1, <3>2
  <2>4. Matching(fpb', a, a \in Wide) =
            {i \in Comparators : fpb'[i] = ValueOf(a)}
    BY <2>1, <2>2, MatchingHolds, AddressesAreCode DEF IInv, Serves
  <2>. QED
    BY <2>3, <2>4 DEF Holds
<1>2. IInv /\ [Next]_vars
        => [\A a \in requested \ requested' :
                Matching(fpb', a, a \in Wide) = {}]_vars
  BY <1>1
<1>. QED
  BY <1>2, Invariance, PTL DEF Spec, RemovedMeansCleared
=============================================================================
