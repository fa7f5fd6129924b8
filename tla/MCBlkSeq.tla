------------------------------ MODULE MCBlkSeq ------------------------------
(***************************************************************************)
(* All small diagrams, for TLC: three blocks with up to two inputs each    *)
(* (in ascending order, which the algorithm does not look at) and one      *)
(* output or none, the first one with up to two outputs.                   *)
(***************************************************************************)
EXTENDS BlkSeq

MCNodes == 1..3

UpTo2Pins ==
  {<<>>} \union {<<n>> : n \in MCNodes}
         \union {<<1, 1>>, <<1, 2>>, <<1, 3>>, <<2, 2>>, <<2, 3>>, <<3, 3>>}

Blocks(outputs) == [pin : UpTo2Pins, pout : outputs, uy : {0, 1}]

SmallDiagrams ==
  {<<>>} \union
  {<<a, b, c>> : a \in Blocks({<<1>>, <<1, 2>>}),
                 b \in Blocks({<<>>, <<2>>}), c \in Blocks({<<>>, <<3>>})}
=============================================================================
