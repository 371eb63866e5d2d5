---------------------------------- MODULE Dwt ----------------------------------
(***************************************************************************)
(* The Data Watchpoint and Trace unit of a Cortex-M processor as           *)
(* architectures/armv7-m/debug_cm3.h and armv7-m.c drive it: which         *)
(* settings a comparator can have, the routines that look a watchpoint up, *)
(* enable it and clear it, and the scan for the one that has matched.      *)
(*                                                                         *)
(* MATCHED is cleared when the register that holds it is read, so even a   *)
(* routine that only looks for a comparator leaves the bank changed: every *)
(* routine is an operator from banks to banks.                             *)
(***************************************************************************)
EXTENDS Naturals

CONSTANTS
    NumComparators,   \* getDWTComparatorCount
    MaxMask           \* the largest address mask that the MASK field holds

ASSUME DwtAssumption ==
    /\ NumComparators \in Nat
    /\ MaxMask \in Nat

Comparators == 1 .. NumComparators

Types == {"read", "write", "readwrite"}
Kinds == {"read", "write"}

\* What gdb asks for with Z and z: it never watches zero bytes.
Watchpoints == [address : Nat, size : Nat \ {0}, type : Types]

\* FUNCTION has two parts, the function and the MATCHED bit.
Registers ==
    [comp : Nat, mask : Nat, function : Types \cup {"disabled"},
     matched : BOOLEAN]

Disabled == [comp |-> 0, mask |-> 0, function |-> "disabled", matched |-> FALSE]

\* clearDWTComparators, which mriCortexMInit runs through initDWT.
ClearedBank == [i \in Comparators |-> Disabled]

-----------------------------------------------------------------------------
(* Settings.                                                                *)

\* calculateLog2 counts the shifts that make the value 1.  It is called for
\* powers of two only.
Log2(value) == CHOOSE n \in 0 .. value : value = 2^n

IsPowerOf2(value) == \E n \in 0 .. value : value = 2^n

\* isValidDWTComparatorSetting
IsValid(w) == IsPowerOf2(w.size) /\ w.address % w.size = 0

\* attemptToSetDWTComparatorMask: the field keeps the bits that it has.
FitsMask(w) == Log2(w.size) <= MaxMask
MaskRead(w) == Log2(w.size) % (MaxMask + 1)

-----------------------------------------------------------------------------
(* The routines that scan the bank.                                         *)

First(S) == CHOOSE i \in S : \A j \in S : i <= j
Last(S) == CHOOSE i \in S : \A j \in S : j <= i

\* Mutant: a watchpoint of another type on the same bytes is taken for it.
FoundWithAnyType(bank, w) ==
    {i \in Comparators : /\ bank[i].function # "disabled"
                         /\ bank[i].comp = w.address
                         /\ bank[i].mask = Log2(w.size)}

\* The comparators that doesDWTComparatorMatch accepts.
Found(bank, w) ==
    {i \in Comparators : /\ bank[i].function = w.type
                         /\ bank[i].comp = w.address
                         /\ bank[i].mask = Log2(w.size)}

\* isDWTComparatorFree
Free(bank) == {i \in Comparators : bank[i].function = "disabled"}

\* findDWTComparator reads FUNCTION of every comparator up to the one that
\* it finds, and of all of them when it finds none.
Scanned(bank, w) ==
    [i \in Comparators |->
        IF \E j \in Found(bank, w) : j < i
        THEN bank[i]
        ELSE [bank[i] EXCEPT !.matched = FALSE]]

\* attemptToSetDWTComparator: the mask is written first, and a comparator
\* whose field does not hold it stays disabled with what was written.
WithSetting(register, w) ==
    IF FitsMask(w)
    THEN [register EXCEPT !.comp = w.address, !.mask = MaskRead(w),
                          !.function = w.type]
    ELSE [register EXCEPT !.mask = MaskRead(w)]

\* Mutant: a free comparator is taken whether or not one is set already.
EnabledInFreeOne(bank, w) ==
    IF Free(bank) = {}
    THEN Scanned(bank, w)
    ELSE [Scanned(bank, w) EXCEPT ![First(Free(bank))] = WithSetting(@, w)]

\* enableDWTWatchpoint
Enabled(bank, w) ==
    IF Found(bank, w) # {} \/ Free(bank) = {}
    THEN Scanned(bank, w)
    ELSE [Scanned(bank, w) EXCEPT ![First(Free(bank))] = WithSetting(@, w)]

\* enableDWTWatchpoint returns NULL.
CannotEnable(bank, w) ==
    Found(bank, w) = {} /\ (Free(bank) = {} \/ ~FitsMask(w))

\* Mutant: the comparator is disabled and its MATCHED bit not read.
ClearedLeavingMatched(bank, w) ==
    IF Found(bank, w) = {}
    THEN bank
    ELSE [bank EXCEPT ![First(Found(bank, w))] =
            [Disabled EXCEPT !.matched = bank[First(Found(bank, w))].matched]]

\* disableDWTWatchpoint
Cleared(bank, w) ==
    IF Found(bank, w) = {}
    THEN Scanned(bank, w)
    ELSE [Scanned(bank, w) EXCEPT ![First(Found(bank, w))] = Disabled]

-----------------------------------------------------------------------------
(* What the unit does when the byte at a is accessed.                       *)

MatchesKind(type, kind) == type \in {kind, "readwrite"}

MatchedBy(bank, a, kind) ==
    {i \in Comparators :
        /\ MatchesKind(bank[i].function, kind)
        /\ bank[i].comp \div 2^bank[i].mask = a \div 2^bank[i].mask}

AfterAccess(bank, a, kind) ==
    [i \in Comparators |->
        IF i \in MatchedBy(bank, a, kind)
        THEN [bank[i] EXCEPT !.matched = TRUE]
        ELSE bank[i]]

-----------------------------------------------------------------------------
(* findMatchedWatchpoint: the last comparator with MATCHED set gives the    *)
(* reason, and all are read.                                                *)

Unknown == [type |-> "unknown", address |-> 0]

Matched(bank) == {i \in Comparators : bank[i].matched}

\* getReasonFromMatchComparator
ReasonOf(register) ==
    [type |-> IF register.function = "disabled"
              THEN "unknown"
              ELSE register.function,
     address |-> register.comp]

ReasonOfMatch(bank) ==
    IF Matched(bank) = {}
    THEN Unknown
    ELSE ReasonOf(bank[Last(Matched(bank))])

\* Mutant: the scan ends at the first comparator that has matched.
ReadToFirst(bank) ==
    [i \in Comparators |->
        IF \E j \in Matched(bank) : j < i
        THEN bank[i]
        ELSE [bank[i] EXCEPT !.matched = FALSE]]

AllRead(bank) == [i \in Comparators |-> [bank[i] EXCEPT !.matched = FALSE]]
=============================================================================
