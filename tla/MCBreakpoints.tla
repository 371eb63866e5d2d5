---------------------------- MODULE MCBreakpoints ----------------------------
(***************************************************************************)
(* Layouts of code for the runs of Breakpoints.  Words 0 to 3 are below    *)
(* the limit of revision 1.  In each layout one address is used by gdb and *)
(* by another part of the monitor, and the others by one of them only.     *)
(***************************************************************************)
EXTENDS Breakpoints

\* A bank with fewer comparators than there are breakpoints to set.
\* gdb and the program share 2; 6 holds a 32-bit instruction that straddles
\* two words; 4 cannot be read.
FlashCode == {0, 2, 4, 6, 10, 12}
FlashWide == {6, 12}
FlashUnreadable == {4}
FlashGdbCode == {0, 2, 6}
FlashTempCode == {3, 5, 12}

\* gdb and the step over an SVC share 12, and 18 is beyond the limit of
\* revision 1.
RamCode == {0, 6, 12, 18}
RamWide == {6}
RamGdbCode == {0, 12, 18}
RamTempCode == {7, 12}

\* What gdb asks of a revision 1 unit when the program runs from RAM.
BeyondGdbCode == {0, 18}
NoCode == {}
=============================================================================
