---------------------------- MODULE MCScheduler ----------------------------
(* Instances of IngestionScheduler for TLC.                                 *)
EXTENDS IngestionScheduler

CONSTANTS media, price

(* A media fetch of an item with a source, and a more urgent refresh         *)
(* somebody enqueued without one.                                            *)
TwoItems    == {media, price}
MediaOnly   == {media}
Urgency     == [i \in TwoItems |-> IF i = price THEN 10 ELSE 100]

=============================================================================
