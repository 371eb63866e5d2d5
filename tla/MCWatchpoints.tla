---------------------------- MODULE MCWatchpoints ----------------------------
(***************************************************************************)
(* Watchpoints for the runs of Watchpoints, two comparators and a mask of  *)
(* one bit: on the same byte with two types, overlapping, not aligned, of  *)
(* a size that is no power of two, and larger than a comparator covers.    *)
(***************************************************************************)
EXTENDS Watchpoints

Watch(address, size, type) ==
    [address |-> address, size |-> size, type |-> type]

MCRequests ==
    {Watch(0, 1, "write"), Watch(0, 2, "read"), Watch(0, 1, "readwrite"),
     Watch(2, 2, "readwrite"), Watch(1, 2, "write"), Watch(0, 3, "read"),
     Watch(0, 4, "write")}

MCBytes == 0 .. 3

FewRequests == {Watch(0, 1, "write")}
FewBytes == {0}
=============================================================================
