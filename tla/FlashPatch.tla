------------------------------ MODULE FlashPatch ------------------------------
(***************************************************************************)
(* The Flash Patch and Breakpoint unit of a Cortex-M processor as          *)
(* architectures/armv7-m/debug_cm3.h drives it: the value a code           *)
(* comparator holds for a breakpoint, and the routines that look one up,   *)
(* enable it and clear it.  A bank of comparators is a function from       *)
(* comparator indices to register values, so every routine is an operator  *)
(* from banks to banks.                                                    *)
(*                                                                         *)
(* Addresses are byte addresses; revision 1 compares words up to LastWord, *)
(* the last word of the lowest 0.5GB.                                      *)
(***************************************************************************)
EXTENDS Naturals

CONSTANTS
    Revision,         \* architecture revision of the unit, 1 or 2
    NumComparators,   \* number of code comparators
    LastWord          \* last word that revision 1 can compare with

ASSUME FlashPatchAssumption ==
    /\ Revision \in {1, 2}
    /\ NumComparators \in Nat
    /\ LastWord \in Nat

Comparators == 1 .. NumComparators

-----------------------------------------------------------------------------
(* Comparator registers: which word they match, and which half of it.       *)
(* "none" is a disabled comparator, "ones" the register with all bits set.  *)

Halves == {"lower", "upper", "both"}
Registers == [word : Nat, half : Halves \cup {"none", "ones"}]

\* clearFPBComparator: the register is zeroed.
Cleared == [word |-> 0, half |-> "none"]

\* ~0U, which calculateFPBComparatorValue returns for an address that the
\* unit cannot compare with: its word field is that of the last word.
AllOnes == [word |-> LastWord, half |-> "ones"]

IsAddressAboveLowestHalfGig(a) == a \div 4 > LastWord
IsAddressOdd(a) == a % 2 = 1

IsBreakpointAddressInvalid(a) ==
    \/ IsAddressOdd(a)
    \/ Revision = 1 /\ IsAddressAboveLowestHalfGig(a)

HalfOf(a) == IF (a \div 2) % 2 = 1 THEN "upper" ELSE "lower"

\* Revision 1 matches both halves of the word for a 32-bit instruction;
\* revision 2 holds the address itself whatever the instruction is.
ComparatorValue(a, wide) ==
    IF IsBreakpointAddressInvalid(a)
    THEN AllOnes
    ELSE [word |-> a \div 4,
          half |-> IF Revision = 1 /\ wide THEN "both" ELSE HalfOf(a)]

\* Bits 29 and 1 are reserved on revision 1: with them masked off the
\* register with all bits set is an enabled comparator of the last word.
MaskOffReservedBits(r) ==
    IF Revision = 1 /\ r = AllOnes THEN [r EXCEPT !.half = "both"] ELSE r

IsEnabled(r) == r.half # "none"

\* The processor stops at the instruction at a because of register r.
Hits(r, a) ==
    LET m == MaskOffReservedBits(r)
    IN  m.word = a \div 4 /\ m.half \in {HalfOf(a), "both"}

-----------------------------------------------------------------------------
(* The routines that scan the bank.                                         *)

\* The comparators that the scan of findFPBBreakpointComparator accepts.
Matching(bank, a, wide) ==
    {i \in Comparators :
        MaskOffReservedBits(bank[i]) = ComparatorValue(a, wide)}

\* The comparators that the scan of findFreeFPBBreakpointComparator accepts.
Free(bank) == {i \in Comparators : ~IsEnabled(bank[i])}

\* Both scans stop at the first comparator they accept.
First(S) == CHOOSE i \in S : \A j \in S : i <= j

\* Mutant: the NULL that enableFPBBreakpoint returns goes unnoticed.
CannotEnableUnnoticed(bank, a, wide) == FALSE

\* enableFPBBreakpoint returns NULL: every comparator is in use and none of
\* them is already set for this breakpoint.
CannotEnable(bank, a, wide) ==
    Matching(bank, a, wide) = {} /\ Free(bank) = {}

\* Mutant: a free comparator is taken without looking for an existing one.
EnableBreakpointInFreeOne(bank, a, wide) ==
    IF Free(bank) = {}
    THEN bank
    ELSE [bank EXCEPT ![First(Free(bank))] = ComparatorValue(a, wide)]

EnableBreakpoint(bank, a, wide) ==
    IF Matching(bank, a, wide) # {} \/ Free(bank) = {}
    THEN bank
    ELSE [bank EXCEPT ![First(Free(bank))] = ComparatorValue(a, wide)]

\* Mutant: the first comparator in use is cleared, whatever it holds.
DisableFirstBreakpoint(bank, a, wide) ==
    IF Free(bank) = Comparators
    THEN bank
    ELSE [bank EXCEPT ![First(Comparators \ Free(bank))] = Cleared]

DisableBreakpoint(bank, a, wide) ==
    IF Matching(bank, a, wide) = {}
    THEN bank
    ELSE [bank EXCEPT ![First(Matching(bank, a, wide))] = Cleared]

\* clearFPBComparators, which mriCortexMInit runs through initFPB.
ClearedBank == [i \in Comparators |-> Cleared]
=============================================================================
