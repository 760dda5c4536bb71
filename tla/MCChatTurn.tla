----------------------------- MODULE MCChatTurn -----------------------------
(* Two callers run, repeat and abandon turns of a sequenced and of an        *)
(* unsequenced message, beside touches, completions and one older write.     *)
EXTENDS ChatTurn, TLC

CONSTANTS x1, other

TwoMessages == {[id |-> "m1", seq |-> 1], [id |-> "m2", seq |-> NoSeq]}
OneReading  == {x1}

OlderWrite == [op |-> "PATCH", body |-> other, key |-> other, expected |-> 0,
               seq |-> 0]

Symmetry == Permutations(Clients)

AllKeys   == TurnKeys \cup {other}
AllBodies == {TurnBody(r, p, x) : r \in Requests, p \in Parts, x \in Readings}
             \cup {other}
AllCalls  ==
  {TurnWrite([at |-> "ready", req |-> r, part |-> p, retry |-> b,
              reading |-> x, rev |-> n]) :
     r \in Requests, p \in Parts, b \in BOOLEAN, x \in Readings,
     n \in 0..MaxRevision}
  \cup {OlderWrite}

=============================================================================
