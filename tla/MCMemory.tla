-------------------------------- MODULE MCMemory --------------------------------
(***************************************************************************)
(* Memory in three parts for the runs of Memory: four bytes of flash,      *)
(* eight of RAM, and four bytes that no access reaches.  The lines of the  *)
(* caches differ in size, and the ranges start and end inside of them.     *)
(***************************************************************************)
EXTENDS Memory

Flash == 0 .. 3
Ram == 4 .. 11
FlashAndRam == Flash \cup Ram
Ends == {3, 4, 6, 7, 10}
Sizes == {0, 1, 2, 4, 5}
=============================================================================
