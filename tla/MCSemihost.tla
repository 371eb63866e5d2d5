------------------------------ MODULE MCSemihost ------------------------------
(***************************************************************************)
(* Calls of both interfaces that between them take every way through       *)
(* Semihost: text, files, local calls and one that nobody knows.           *)
(***************************************************************************)
EXTENDS Semihost

MCCall(abi, op, file, size, mode) ==
    [abi |-> abi, op |-> op, file |-> file, other |-> NoFile,
     size |-> size, mode |-> mode]

MCNameLength == [name \in {NoFile, Stdout, "fd", "old", "new"} |->
                    IF name \in {"old", "new"} THEN 3 ELSE 0]

MCCalls ==
    {MCCall("arm", "write", Stdout, 2, {}),
     MCCall("arm", "write", "fd", 1, {}),
     MCCall("arm", "length", "fd", 0, {}),
     MCCall("arm", "errno", NoFile, 0, {}),
     MCCall("arm", "unknown", NoFile, 0, {}),
     MCCall("newlib", "read", "fd", 1, {}),
     MCCall("newlib", "errno", NoFile, 0, {}),
     MCCall("newlib", "set hooks", NoFile, 0, {"hooks"}),
     MCCall("newlib", "set hooks", NoFile, 0, {})}
    \cup {MCCall("arm", "open", "old", 0, mode) : mode \in {{"w", "+"}, {"b"}}}

MCErrors == {4, 5}
=============================================================================
