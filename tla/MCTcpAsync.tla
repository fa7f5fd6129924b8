----------------------------- MODULE MCTcpAsync -----------------------------
(***************************************************************************)
(* Instances of TcpAsync for TLC.                                          *)
(***************************************************************************)
EXTENDS TcpAsync

Block(in, out, size, down) ==
  [nin |-> in, nout |-> out, buffsize |-> size, down |-> down, range |-> 8,
   prompt |-> FALSE]

Prompt(in, size, down) == [Block(in, 0, size, down) EXCEPT !.prompt = TRUE]

(* Samples of two words in a ring of four (three asked for) and in the     *)
(* default one, which holds a single sample; samples that never fit;       *)
(* downsampling; a receiver alone.                                         *)
SafetyConfigs ==
  {Block(2, 0, 3, 1), Block(2, 0, 0, 1), Block(2, 0, 1, 1), Block(1, 0, 2, 2),
   Block(0, 2, 1, 2)}

(* Both directions; rings of four samples with a prompt sender.            *)
LivenessConfigs ==
  {[Block(1, 1, 1, 1) EXCEPT !.range = 2], Prompt(1, 4, 1), Prompt(1, 3, 2)}

(* A ring of one sample. *)
TightConfig == {Prompt(2, 2, 1)}
=============================================================================
