------------------------------ MODULE JobQueue ------------------------------
(***************************************************************************)
(* What ingestion_scheduler_jobs promises to those who enqueue: a queue    *)
(* without workers, leases, crashes or time.  Jobs are added, taken and    *)
(* reported on, one report for each time a job was taken; an indexed item  *)
(* is busy in one job at a time; and a job is put back only while it has   *)
(* tries left.                                                             *)
(*                                                                         *)
(* The one thing a user of the queue has to live with: a job that is taken *)
(* again while it was taken, or whose success is not heard of, is loose:   *)
(* reports on it may still come whatever it has become, and set it going   *)
(* again.  They too respect the index and the tries.                       *)
(***************************************************************************)
EXTENDS Naturals

CONSTANTS Jobs, Items, Indexed, NoItem, MaxTries

VARIABLES
  job,    (* for every job its state, its item and how often it was taken   *)
  loose   (* the jobs somebody may still report on out of turn              *)

vars == <<job, loose>>

Busy == {"waiting", "taken"}

Init ==
  /\ job = [j \in Jobs |-> [state |-> "absent", item |-> NoItem, tries |-> 0]]
  /\ loose = {}

(* No other job is busy with an item that may be busy in one job only.       *)
Free(i, j) ==
  i \in Indexed =>
    \A k \in Jobs \ {j} : job[k].item = i => job[k].state \notin Busy

(* What a report makes of a job it was taken for, or reported on too late.   *)
Outcome(j, to) ==
  /\ to \in {"waiting", "succeeded", "failed"}
  /\ to = "waiting" => job[j].tries < MaxTries
  /\ to = "failed"  => job[j].tries >= MaxTries
  /\ job' = [job EXCEPT ![j].state = to]

Add(j, i) ==
  /\ job[j].state = "absent" /\ Free(i, j)
  /\ job' = [job EXCEPT ![j] = [state |-> "waiting", item |-> i, tries |-> 0]]
  /\ UNCHANGED loose

Take(j) ==
  /\ job[j].state \in Busy
  /\ job' = [job EXCEPT ![j].state = "taken", ![j].tries = @ + 1]
  /\ \/ UNCHANGED loose
     \/ job[j].state = "taken" /\ loose' = loose \cup {j}

Report(j) ==
  /\ job[j].state = "taken"
  /\ \E to \in {"waiting", "succeeded", "failed"} :
       /\ Outcome(j, to)
       /\ \/ UNCHANGED loose
          \/ to = "succeeded" /\ loose' = loose \cup {j}

(* Nobody is waiting for this report.                                        *)
LateReport(j) ==
  /\ j \in loose /\ job[j].state # "absent"
  /\ \/ \E to \in {"waiting", "succeeded", "failed"} : Outcome(j, to)
     \/ job' = [job EXCEPT ![j].state = "taken"]
  /\ job[j].state \notin Busy /\ job'[j].state \in Busy => Free(job[j].item, j)
  /\ loose' \in {loose, loose \ {j}}

Forget(j) == loose' = loose \ {j} /\ UNCHANGED job

Next ==
  \E j \in Jobs :
    \/ \E i \in Items : Add(j, i)
    \/ Take(j) \/ Report(j) \/ LateReport(j) \/ Forget(j)

Spec == Init /\ [][Next]_vars

=============================================================================
