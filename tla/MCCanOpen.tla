----------------------------- MODULE MCCanOpen ------------------------------
(***************************************************************************)
(* Instances of CanOpen for TLC.                                           *)
(***************************************************************************)
EXTENDS CanOpen

GenRecv(o) == [object |-> o, closes |-> FALSE]
Encoder(o) == [object |-> o, closes |-> TRUE]
SdoSend == [object |-> None, closes |-> TRUE]

(* Models with and without a block that keeps the channel, and blocks that *)
(* share an object.                                                        *)
FewBlocks ==
  {<<Encoder("a"), SdoSend>>,
   <<SdoSend, GenRecv("a"), Encoder("b")>>,
   <<GenRecv("a"), GenRecv("a")>>}
=============================================================================
