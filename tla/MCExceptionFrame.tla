---------------------------- MODULE MCExceptionFrame ----------------------------
(***************************************************************************)
(* A main and a process stack for the runs of ExceptionFrame, each aligned *)
(* to 8 bytes or not, and moves that leave the old and the new frame       *)
(* overlapping as well as apart.                                           *)
(***************************************************************************)
EXTENDS ExceptionFrame

Main == {27, 28}
Process == {54, 55}
UpAndDown == {-9, -1, 2}
=============================================================================
