------------------------------ MODULE MCStore ------------------------------
(* Two callers of one session over its whole lifetime: stale and over-eager  *)
(* expected revisions, reused keys, sequences, questions, touch, completion  *)
(* and late writers, the clock running past the absolute expiry.             *)
EXTENDS ConversationStore, TLC

CONSTANTS b1, b2, k1, k2

Write(op, body, key, expected, seq) ==
  [op |-> op, body |-> body, key |-> key, expected |-> expected, seq |-> seq]

WriteCalls ==
  {Write("PATCH", b1, k1, 0, s) : s \in {NoSeq, 1}}
  \cup {Write("PATCH", b2, k1, 0, NoSeq), Write("PATCH", b2, k2, 0, 1)}
  \cup {Write("PATCH", b2, k2, 1, 1)}
  \cup {Write("SET_CLARIFICATION", b, k1, 1, NoSeq) : b \in {b1, b2}}
  \cup {Write("PATCH_SETTLE", b1, k2, 2, NoSeq)}

(* Two requests that both open the session they name, then write to it.      *)
OpeningCalls == {Write("PATCH", b1, k, e, NoSeq) : k \in {k1, k2}, e \in 0..1}

(* Callers are alike; keys are not, for SomeCall names one.                  *)
Symmetry == Permutations(Clients)

=============================================================================
