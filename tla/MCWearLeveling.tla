-------------------------- MODULE MCWearLeveling --------------------------
(***************************************************************************)
(* Writes for TLC: one and two bytes, 0 and 1, and more bytes than an      *)
(* entry takes.                                                            *)
(***************************************************************************)
EXTENDS WearLeveling

Put(a, b) == [at |-> a, bytes |-> b]

MCRequests == {Put(0, <<1, 0>>), Put(1, <<9>>), Put(2, <<7, 7, 7, 7, 7, 7>>)}

TwoByte == {2}
EightByte == {8}
AllSizes == {2, 4, 8}
=============================================================================
