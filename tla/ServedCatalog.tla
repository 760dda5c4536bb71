---------------------------- MODULE ServedCatalog ----------------------------
(***************************************************************************)
(* What the publication of a category catalog promises to the matcher,     *)
(* which knows nothing of drafts, gates, jobs and workers: the catalog it  *)
(* reads changes in one step, to a complete one, and not otherwise.        *)
(*                                                                         *)
(* One thing it has to live with: under a number that was given out twice  *)
(* the vectors may be of other texts than those shown, and may change to   *)
(* others while the revision is served.  They are never taken away.        *)
(***************************************************************************)
EXTENDS Naturals

CONSTANTS Categories, Texts, None

VARIABLES
  number,  (* of the revision served, 0 before the first                    *)
  shown,   (* the text of every category served, None for the others        *)
  vector,  (* the text each category's vector was computed of               *)
  exact    (* the number of the revision was given out once                 *)

vars == <<number, shown, vector, exact>>

Catalog == [Categories -> Texts \cup {None}]

Nothing == [c \in Categories |-> None]

Init == number = 0 /\ shown = Nothing /\ vector = Nothing /\ exact = TRUE

Publish ==
  /\ number' \in Nat \ {0, number}
  /\ shown' \in Catalog /\ vector' \in Catalog /\ exact' \in BOOLEAN
  /\ \A c \in Categories : vector'[c] = None <=> shown'[c] = None
  /\ exact' => vector' = shown'

LateVector ==
  /\ ~exact
  /\ \E c \in Categories, t \in Texts :
       shown[c] # None /\ vector' = [vector EXCEPT ![c] = t]
  /\ UNCHANGED <<number, shown, exact>>

Spec == Init /\ [][Publish \/ LateVector]_vars

=============================================================================
