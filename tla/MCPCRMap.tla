------------------------------ MODULE MCPCRMap ------------------------------
(* Every input of up to three entries on three PCRs, well-formed or not, in *)
(* any order and with an index given twice; and of up to two with values of *)
(* no, half and twice a PCR's length, that may add up to PCRs.              *)
EXTENDS PCRMap

PCRs == {15, 16, 23}
Bytes == {0, 1}
Values == {<<0, 1>>, <<1, 0>>}
OddValues == {<<>>, <<0>>, <<1>>, <<0, 1, 1, 0>>}
Entries(V) == [index : PCRs, value : V] \union Malformed
Inputs ==
  UNION {[1..n -> Entries(Values)] : n \in 0..3}
    \union UNION {[1..n -> Entries(Values \union OddValues)] : n \in 1..2}
=============================================================================
