------------------------------- MODULE MCThreads -------------------------------
(***************************************************************************)
(* Two or three threads for the runs of Threads, and packets that hold two *)
(* ids.                                                                    *)
(***************************************************************************)
EXTENDS Threads

CONSTANTS t1, t2, t3

ThreeThreads == <<t1, t2, t3>>
TwoThreads == <<t1, t2>>
=============================================================================
