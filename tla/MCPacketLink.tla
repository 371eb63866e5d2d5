---------------------------- MODULE MCPacketLink ----------------------------
(***************************************************************************)
(* An alphabet and commands for the runs of PacketLink.  Checksums have    *)
(* two digits of base 4.  As with ASCII characters and checksums modulo    *)
(* 256, no two characters together weigh as much as the modulus.           *)
(***************************************************************************)
EXTENDS PacketLink

Binary == <<"0", "1", "2", "3">>
Alphabet == {"$", "#", "}", "+", "-", "^C", "]", "0", "1", "2", "3", "m", "M"}

Weights ==
    [c \in Alphabet |->
        CASE c = "0" -> 1 [] c = "1" -> 2 [] c = "2" -> 3 [] c = "3" -> 4
          [] c = "m" -> 5 [] c = "M" -> 6 [] c = "^C" -> 3 [] c = "]" -> 6
          [] c = "}" -> 7 [] OTHER -> 5]

\* XOR with 0x20, of the characters that have one in the alphabet.
Unescapes ==
    [c \in Alphabet |->
        CASE c = "^C" -> "#" [] c = "#" -> "^C" [] c = "]" -> "}"
          [] c = "}" -> "]" [] c = "m" -> "M" [] c = "M" -> "m" [] OTHER -> c]

Read == <<"m", "1">>
WriteHash == <<"M", "#">>
Continue == <<"2">>
TooLong == <<"m", "1", "1">>

Runs == {Continue}
Sessions == {Read, Continue}
Everything == {Read, WriteHash, Continue, TooLong}
=============================================================================
