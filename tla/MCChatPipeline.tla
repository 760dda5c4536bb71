--------------------------- MODULE MCChatPipeline ----------------------------
(* Messages are alike.                                                       *)
EXTENDS ChatPipeline, TLC

Symmetry == Permutations(Messages)

=============================================================================
