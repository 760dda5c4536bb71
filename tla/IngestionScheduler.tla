------------------------- MODULE IngestionScheduler -------------------------
(***************************************************************************)
(* The table ingestion_scheduler_jobs and the LeaseLoopWorkers that drain  *)
(* it (PostgresSchedulerJobRepository, LeaseLoopWorker.tick, run_daemon).  *)
(*                                                                         *)
(* A tick is four statements of their own: lease, mark running, run the    *)
(* handler, complete or fail.  Only lease looks at the status it replaces; *)
(* the others update by id whatever the row has become, so a worker whose  *)
(* lease lapsed before it marked the job running still acts on it.  A row  *)
(* in status RUNNING is never leased again, whatever its lease_until.      *)
(*                                                                         *)
(* lease_owner is written and never read, so it is left out; available_at  *)
(* and lease_until are kept as "has come" and "is past".                   *)
(***************************************************************************)
EXTENDS Naturals, FiniteSets

CONSTANTS
  Jobs,          (* row ids the BIGSERIAL may hand out                      *)
  Items,         (* logical items: queue, source and external_item_id       *)
  Deduplicated,  (* the items that have an external_item_id                 *)
  Indexed,       (* of those, the ones whose source_id is not NULL: a       *)
                 (* unique index takes NULLs to be distinct                 *)
  Priority,      (* the priority each item is enqueued with                 *)
  Workers,       (* scheduler daemons                                       *)
  Enqueuers,     (* concurrent admin requests                               *)
  MaxAttempts,   (* max_attempts of a row                                   *)
  NoJob, NoItem,
  MaxCrashes,    (* bound on worker deaths                                  *)
  MaxLapses      (* bound on leases that lapse while their worker lives     *)

VARIABLES
  jobs,          (* the table                                               *)
  asked,         (* the item an enqueuer found no active job for            *)
  pc, held,      (* where a worker is in its tick, and the job it leased    *)
  contested,     (* history: jobs leased while a worker still held them     *)
  crashes, lapses

workerVars == <<pc, held>>
vars == <<jobs, asked, pc, held, contested, crashes, lapses>>

ASSUME SchedulerAssumption ==
  /\ Jobs \subseteq Nat
  /\ Indexed \subseteq Deduplicated /\ Deduplicated \subseteq Items
  /\ Priority \in [Items -> Nat]
  /\ MaxAttempts \in Nat \ {0}
  /\ MaxCrashes \in Nat /\ MaxLapses \in Nat
  /\ NoJob \notin Jobs /\ NoItem \notin Items
  /\ IsFiniteSet(Workers)

Active   == {"PENDING", "LEASED", "RUNNING"}
Settled  == {"SUCCEEDED", "FAILED"}
Statuses == Active \cup Settled \cup {"NONE"}

(* ready: available_at has come; lapsed: lease_until is past.               *)
Row == [status : Statuses, item : Items \cup {NoItem}, attempts : Nat,
        ready : BOOLEAN, lapsed : BOOLEAN]

NoRow == [status |-> "NONE", item |-> NoItem, attempts |-> 0, ready |-> FALSE,
          lapsed |-> FALSE]

TypeOK ==
  /\ jobs \in [Jobs -> Row]
  /\ asked \in [Enqueuers -> Items \cup {NoItem}]
  /\ pc \in [Workers -> {"idle", "leased", "running", "failing"}]
  /\ held \in [Workers -> Jobs \cup {NoJob}]
  /\ \A w \in Workers : held[w] = NoJob <=> pc[w] = "idle"
  /\ contested \subseteq Jobs
  /\ crashes \in Nat /\ lapses \in Nat

-----------------------------------------------------------------------------
(* The unique index on active items.                                        *)

ActiveFor(i) == {j \in Jobs : jobs[j].status \in Active /\ jobs[j].item = i}

(* A statement that makes row j of item i active is refused.                *)
Collides_pendingOnly(i, j) ==
  i \in Indexed /\ \E k \in ActiveFor(i) \ {j} : jobs[k].status = "PENDING"
Collides(i, j) == i \in Indexed /\ ActiveFor(i) \ {j} # {}

-----------------------------------------------------------------------------
(* enqueue: SELECT, then INSERT, in no transaction.  An active job for the  *)
(* item ends the call at once.                                              *)

EnqueueLook(e, i) ==
  /\ asked[e] = NoItem
  /\ i \notin Deduplicated \/ ActiveFor(i) = {}
  /\ asked' = [asked EXCEPT ![e] = i]
  /\ UNCHANGED <<jobs, workerVars, contested, crashes, lapses>>

FreshId(j) ==
  /\ jobs[j].status = "NONE"
  /\ \A k \in Jobs : jobs[k].status = "NONE" => j <= k

EnqueueInsert(e) ==
  /\ asked[e] # NoItem
  /\ \E j \in Jobs :
       /\ FreshId(j)
       /\ jobs' = IF Collides(asked[e], j) THEN jobs
                  ELSE [jobs EXCEPT ![j] =
                          [status |-> "PENDING", item |-> asked[e],
                           attempts |-> 0, ready |-> TRUE, lapsed |-> FALSE]]
  /\ asked' = [asked EXCEPT ![e] = NoItem]
  /\ UNCHANGED <<workerVars, contested, crashes, lapses>>

-----------------------------------------------------------------------------
(* lease_next.                                                              *)

Candidate_running(j) ==
  \/ jobs[j].status = "PENDING" /\ jobs[j].ready
  \/ jobs[j].status \in {"LEASED", "RUNNING"} /\ jobs[j].lapsed
Candidate_pending(j) == jobs[j].status = "PENDING" /\ jobs[j].ready
Candidate(j) ==
  \/ jobs[j].status = "PENDING" /\ jobs[j].ready
  \/ jobs[j].status = "LEASED" /\ jobs[j].lapsed

(* Most urgent first; available_at and id only break ties.                  *)
FirstInLine(j) ==
  /\ Candidate(j)
  /\ \A k \in Jobs :
       Candidate(k) => Priority[jobs[j].item] <= Priority[jobs[k].item]

Holders(j) == {w \in Workers : held[w] = j}

Lease(w) ==
  /\ pc[w] = "idle"
  /\ \E j \in Jobs :
       /\ FirstInLine(j)
       /\ jobs' = [jobs EXCEPT ![j].status = "LEASED", ![j].lapsed = FALSE,
                               ![j].attempts = @ + 1]
       /\ held' = [held EXCEPT ![w] = j]
       /\ contested' = IF jobs[j].status = "LEASED" /\ Holders(j) # {}
                       THEN contested \cup {j} ELSE contested
  /\ pc' = [pc EXCEPT ![w] = "leased"]
  /\ UNCHANGED <<asked, crashes, lapses>>

-----------------------------------------------------------------------------
(* The rest of the tick.                                                    *)

EndTick_keepsJob(w) == pc' = [pc EXCEPT ![w] = "idle"] /\ UNCHANGED held
EndTick(w) ==
  /\ pc' = [pc EXCEPT ![w] = "idle"]
  /\ held' = [held EXCEPT ![w] = NoJob]

(* mark_running, before the try: if the index refuses it the job is left.   *)
MarkRunning(w) ==
  LET j == held[w] IN
  /\ pc[w] = "leased"
  /\ IF jobs[j].status \notin Active /\ Collides(jobs[j].item, j)
     THEN EndTick(w) /\ UNCHANGED jobs
     ELSE /\ jobs' = [jobs EXCEPT ![j].status = "RUNNING"]
          /\ pc' = [pc EXCEPT ![w] = "running"]
          /\ UNCHANGED held
  /\ UNCHANGED <<asked, contested, crashes, lapses>>

Complete(w) ==
  /\ pc[w] = "running"
  /\ jobs' = [jobs EXCEPT ![held[w]].status = "SUCCEEDED"]
  /\ EndTick(w)
  /\ UNCHANGED <<asked, contested, crashes, lapses>>

(* complete stands inside the try: when it commits and its answer is lost,  *)
(* the job is failed after it succeeded.                                    *)
CompleteUnanswered(w) ==
  /\ pc[w] = "running"
  /\ jobs' = [jobs EXCEPT ![held[w]].status = "SUCCEEDED"]
  /\ pc' = [pc EXCEPT ![w] = "failing"]
  /\ UNCHANGED <<asked, held, contested, crashes, lapses>>

HandlerRaises(w) ==
  /\ pc[w] = "running"
  /\ pc' = [pc EXCEPT ![w] = "failing"]
  /\ UNCHANGED <<jobs, asked, held, contested, crashes, lapses>>

OutOfAttempts_never(j) == FALSE
OutOfAttempts(j) == jobs[j].attempts >= MaxAttempts

Fail(w) ==
  LET j == held[w] IN
  /\ pc[w] = "failing"
  /\ jobs' =
       IF OutOfAttempts(j) THEN [jobs EXCEPT ![j].status = "FAILED"]
       ELSE IF jobs[j].status \notin Active /\ Collides(jobs[j].item, j) THEN jobs
       ELSE [jobs EXCEPT ![j].status = "PENDING", ![j].ready = FALSE]
  /\ EndTick(w)
  /\ UNCHANGED <<asked, contested, crashes, lapses>>

-----------------------------------------------------------------------------
(* The environment.                                                         *)

(* A worker process dies, or its tick is cancelled (CancelledError is no    *)
(* Exception), or fail itself cannot reach the database; the loop goes on   *)
(* or is started again.                                                     *)
Crash(w) ==
  /\ pc[w] # "idle" /\ crashes < MaxCrashes
  /\ crashes' = crashes + 1
  /\ EndTick(w)
  /\ UNCHANGED <<jobs, asked, contested, lapses>>

LeaseLapses(j) ==
  /\ jobs[j].status = "LEASED" /\ ~jobs[j].lapsed
  /\ Holders(j) # {} => lapses < MaxLapses
  /\ lapses' = IF Holders(j) # {} THEN lapses + 1 ELSE lapses
  /\ jobs' = [jobs EXCEPT ![j].lapsed = TRUE]
  /\ UNCHANGED <<asked, workerVars, contested, crashes>>

DelayPasses(j) ==
  /\ jobs[j].status = "PENDING" /\ ~jobs[j].ready
  /\ jobs' = [jobs EXCEPT ![j].ready = TRUE]
  /\ UNCHANGED <<asked, workerVars, contested, crashes, lapses>>

-----------------------------------------------------------------------------

Init ==
  /\ jobs = [j \in Jobs |-> NoRow]
  /\ asked = [e \in Enqueuers |-> NoItem]
  /\ pc = [w \in Workers |-> "idle"]
  /\ held = [w \in Workers |-> NoJob]
  /\ contested = {}
  /\ crashes = 0 /\ lapses = 0

Tick(w) ==
  \/ Lease(w) \/ MarkRunning(w) \/ Complete(w) \/ CompleteUnanswered(w)
  \/ HandlerRaises(w) \/ Fail(w)

Next ==
  \/ \E e \in Enqueuers : EnqueueInsert(e) \/ \E i \in Items : EnqueueLook(e, i)
  \/ \E w \in Workers : Tick(w) \/ Crash(w)
  \/ \E j \in Jobs : LeaseLapses(j) \/ DelayPasses(j)

Spec == Init /\ [][Next]_vars

(* The daemon polls until it is stopped and is restarted by compose, a      *)
(* handler ends (its downloads have timeouts), and time passes.  Nothing    *)
(* obliges an enqueuer to come, a worker to crash or an answer to be lost.  *)
Fairness ==
  /\ \A w \in Workers : WF_vars(Tick(w))
  /\ \A j \in Jobs : WF_vars(LeaseLapses(j)) /\ WF_vars(DelayPasses(j))

LiveSpec == Spec /\ Fairness

-----------------------------------------------------------------------------
(* Properties.                                                              *)

(* V020's unique index and enqueue's look-up together: an item with a source *)
(* has one active job, even when late workers set old rows active again.     *)
OneActiveJobPerItem ==
  \A i \in Indexed : \A j, k \in ActiveFor(i) : j = k

(* A job is retried only while it has attempts left, and is given up only    *)
(* when it has none, whichever worker reports it and however late.  lease    *)
(* counts an attempt also when it takes a job over, and never looks at       *)
(* max_attempts: what a job gets beyond it, it owes to a worker's death or   *)
(* to a lease that lapsed while its worker lived.                            *)
RetryBudget ==
  \A j \in Jobs :
    /\ jobs[j].status = "PENDING" => jobs[j].attempts < MaxAttempts
    /\ jobs[j].status = "FAILED" => jobs[j].attempts >= MaxAttempts
    /\ jobs[j].attempts <= MaxAttempts + crashes + lapses

(* mark_running, complete and fail trust the id alone.  Unless a job was     *)
(* leased away from a worker that still held it, they are right to: one      *)
(* worker holds it, and the row is where that worker left it.  And it takes  *)
(* a lapsed lease for every worker more that holds a job.                    *)
HolderAlone ==
  \A w \in Workers :
    pc[w] # "idle" /\ held[w] \notin contested =>
      /\ \A v \in Workers : held[v] = held[w] => v = w
      /\ pc[w] = "leased"  => jobs[held[w]].status = "LEASED"
      /\ pc[w] = "running" => jobs[held[w]].status = "RUNNING"
      /\ pc[w] = "failing" => jobs[held[w]].status \in {"RUNNING", "SUCCEEDED"}

HoldersBounded == \A j \in Jobs : Cardinality(Holders(j)) <= 1 + lapses

HolderExclusive == HolderAlone /\ HoldersBounded

(* A settled job is set going again only by a worker that lost its lease or  *)
(* lost the answer to its complete.                                          *)
SettledStays ==
  [][\A j \in Jobs :
       jobs[j].status \in Settled /\ jobs'[j].status # jobs[j].status =>
         \/ j \in contested
         \/ \E w \in Workers : held[w] = j /\ pc[w] = "failing"]_vars

(* The queue behind the table, for those who do not see its workers: LEASED  *)
(* and RUNNING are one state, and a report is out of turn for a job that was *)
(* leased away from its worker, or succeeded without its worker knowing.     *)
Promised(status) ==
  CASE status = "NONE"      -> "absent"
    [] status = "PENDING"   -> "waiting"
    [] status = "SUCCEEDED" -> "succeeded"
    [] status = "FAILED"    -> "failed"
    [] OTHER                -> "taken"

PromisedJob ==
  [j \in Jobs |-> [state |-> Promised(jobs[j].status), item |-> jobs[j].item,
                   tries |-> jobs[j].attempts]]

Unheard(j) ==
  /\ jobs[j].status = "SUCCEEDED"
  /\ \E w \in Workers : held[w] = j /\ pc[w] = "failing"

PromisedLoose == contested \cup {j \in Jobs : Unheard(j)}

Queue == INSTANCE JobQueue WITH
           job <- PromisedJob, loose <- PromisedLoose, MaxTries <- MaxAttempts

(* Racing enqueuers, leases, crashes, late workers and retries add nothing   *)
(* to what the queue without them allows.                                    *)
ImplementsJobQueue == Queue!Spec

(* Left running by a worker that died: no other worker will ever lease it.   *)
Stranded(j) == jobs[j].status = "RUNNING" /\ Holders(j) = {}

(* Every enqueued job is settled in the end, through lapsed leases, crashes, *)
(* late workers and retries, unless its worker died while running it.        *)
JobsSettle ==
  \A j \in Jobs :
    jobs[j].status \in Active ~> jobs[j].status \in Settled \/ Stranded(j)

=============================================================================
