----------------------------- MODULE SessionLog -----------------------------
(***************************************************************************)
(* What ConversationStateManager promises its callers about one session:   *)
(* it is opened once, and while it is open it is a log that only grows, by *)
(* one write at a time that was based on the whole log, carries an         *)
(* idempotency key the log has not seen, and does not overtake the         *)
(* sequenced write right before it.  Completing it is final and may drop   *)
(* the latest writes, but never mixes two histories.                       *)
(* It promises less of a session that vanished and came back: a caller     *)
(* that was in flight may then continue the session as it knew it.         *)
(***************************************************************************)
EXTENDS Integers, Sequences

CONSTANTS Calls    (* the writes that may be asked for                      *)

VARIABLES phase,   (* "absent", "open", "done"; once it vanished, "gone",   *)
                   (* "reopened" or "redone"                                *)
          log      (* the writes the session's state was derived from       *)

vars == <<phase, log>>

Unsequenced == -1

Init == phase = "absent" /\ log = <<>>

Open == phase = "absent" /\ phase' = "open" /\ log' = <<>>

Fresh(w) == \A i \in 1..Len(log) : log[i].key # w.key

InOrder(w) ==
  \/ log = <<>>
  \/ Unsequenced \in {w.seq, log[Len(log)].seq}
  \/ log[Len(log)].seq < w.seq

Admitted(w) == w.expected = Len(log) /\ Fresh(w) /\ InOrder(w)

Write(w) ==
  /\ phase = "open"
  /\ Admitted(w)
  /\ log' = Append(log, w)
  /\ UNCHANGED phase

Prefix(l, m) == Len(l) <= Len(m) /\ \A i \in 1..Len(l) : l[i] = m[i]

(* Completing is not compare-and-set: the session is completed as somebody  *)
(* read it, without the writes since.                                       *)
Complete ==
  /\ phase = "open" /\ phase' = "done"
  /\ Prefix(log', log)

(* Callers that read the session before it was completed may complete it    *)
(* again, each as it knows it: further back or further on along the history *)
(* of writes that were applied.                                             *)
CompleteAgain ==
  /\ phase = "done" /\ phase' = "done"
  /\ Prefix(log', log) \/ Prefix(log, log')

Vanish ==
  /\ phase \notin {"absent", "gone"}
  /\ phase' = "gone" /\ log' = <<>>

(* A session that vanished under callers in flight may come back with the  *)
(* first write of one of them and nothing else.                            *)
Reopen(w) ==
  /\ phase = "gone"
  /\ w.expected = 0
  /\ phase' = "reopened"
  /\ log' = <<w>>

(* A later one of them puts its write after as many writes as there are,   *)
(* but those it knows: revisions restarted with the session.               *)
Rebase(w) ==
  /\ phase = "reopened"
  /\ Admitted(w)
  /\ Len(log') = Len(log) + 1 /\ log'[Len(log')] = w
  /\ UNCHANGED phase

(* And it may be completed as any of them knew it.                         *)
Recomplete == phase \in {"gone", "reopened", "redone"} /\ phase' = "redone"

Next ==
  \/ Open \/ Complete \/ CompleteAgain \/ Vanish \/ Recomplete
  \/ \E w \in Calls : Write(w) \/ Reopen(w) \/ Rebase(w)

Spec == Init /\ [][Next]_vars

=============================================================================
