--------------------------- MODULE SchedulerProofs ---------------------------
(***************************************************************************)
(* Theorems about IngestionScheduler for every number of jobs, workers and *)
(* enqueuers, any max_attempts, and any crashes and lapsed leases.         *)
(***************************************************************************)
EXTENDS IngestionScheduler, FiniteSetTheorems, TLAPS

-----------------------------------------------------------------------------
(* Type correctness.                                                        *)

(* Ending a tick frees the worker.                                          *)
LEMMA EndTickType ==
  ASSUME TypeOK, NEW w \in Workers, EndTick(w)
  PROVE  /\ pc' \in [Workers -> {"idle", "leased", "running", "failing"}]
         /\ held' \in [Workers -> Jobs \cup {NoJob}]
         /\ \A v \in Workers : held'[v] = NoJob <=> pc'[v] = "idle"
  BY DEF TypeOK, EndTick

(* A worker in its tick holds a job.                                        *)
LEMMA BusyHolds ==
  ASSUME TypeOK, NEW w \in Workers, pc[w] # "idle"
  PROVE  held[w] \in Jobs /\ jobs[held[w]] \in Row
  BY DEF TypeOK

(* An empty table and idle workers are well-formed.                         *)
LEMMA TypeInit == Init => TypeOK
  BY SchedulerAssumption DEF Init, TypeOK, NoRow, Row, Statuses

(* Every statement and every accident keeps the types.                      *)
LEMMA TypeStep == TypeOK /\ [Next]_vars => TypeOK'
  <1> SUFFICES ASSUME TypeOK, [Next]_vars PROVE TypeOK'
    OBVIOUS
  <1>1. ASSUME NEW e \in Enqueuers, NEW i \in Items, EnqueueLook(e, i)
        PROVE  TypeOK'
    BY <1>1 DEF EnqueueLook, TypeOK, workerVars
  <1>2. ASSUME NEW e \in Enqueuers, EnqueueInsert(e) PROVE TypeOK'
    <2>1. asked[e] \in Items
      BY <1>2 DEF EnqueueInsert, TypeOK
    <2>2. jobs' \in [Jobs -> Row]
      BY <1>2, <2>1 DEF EnqueueInsert, TypeOK, Row, Statuses, Active
    <2>3. QED
      BY <1>2, <2>2 DEF EnqueueInsert, TypeOK, workerVars
  <1>3. ASSUME NEW w \in Workers, Tick(w) \/ Crash(w) PROVE TypeOK'
    <2>1. CASE Lease(w)
      <3>1. PICK j \in Jobs :
              /\ jobs' = [jobs EXCEPT ![j].status = "LEASED", ![j].lapsed = FALSE,
                                      ![j].attempts = @ + 1]
              /\ held' = [held EXCEPT ![w] = j]
              /\ contested' \subseteq contested \cup {j}
        BY <2>1 DEF Lease
      <3>2. jobs' \in [Jobs -> Row]
        BY <3>1 DEF TypeOK, Row, Statuses, Active
      <3>3. QED
        BY <2>1, <3>1, <3>2, SchedulerAssumption DEF Lease, TypeOK
    <2>2. CASE MarkRunning(w) \/ Complete(w) \/ CompleteUnanswered(w)
                \/ HandlerRaises(w) \/ Fail(w)
      <3>1. pc[w] # "idle"
        BY <2>2 DEF MarkRunning, Complete, CompleteUnanswered, HandlerRaises, Fail
      <3>2. held[w] \in Jobs /\ jobs[held[w]] \in Row
        BY <3>1, BusyHolds
      <3>3. jobs' \in [Jobs -> Row]
        BY <2>2, <3>2 DEF MarkRunning, Complete, CompleteUnanswered,
             HandlerRaises, Fail, TypeOK, Row, Statuses, Active, Settled
      <3>4. \/ EndTick(w)
            \/ held' = held /\ \E to \in {"running", "failing"} :
                                 pc' = [pc EXCEPT ![w] = to]
        BY <2>2 DEF MarkRunning, Complete, CompleteUnanswered, HandlerRaises, Fail
      <3>5. UNCHANGED <<asked, contested, crashes, lapses>>
        BY <2>2 DEF MarkRunning, Complete, CompleteUnanswered, HandlerRaises, Fail
      <3>6. CASE EndTick(w)
        BY <3>3, <3>5, <3>6, EndTickType DEF TypeOK
      <3>7. CASE ~EndTick(w)
        BY <3>1, <3>3, <3>4, <3>5, <3>7 DEF TypeOK
      <3>8. QED
        BY <3>6, <3>7
    <2>3. CASE Crash(w)
      BY <2>3, EndTickType DEF Crash, TypeOK
    <2>4. QED
      BY <1>3, <2>1, <2>2, <2>3 DEF Tick
  <1>4. ASSUME NEW j \in Jobs, LeaseLapses(j) \/ DelayPasses(j) PROVE TypeOK'
    <2>1. PICK r \in Row : jobs' = [jobs EXCEPT ![j] = r]
      <3>1. [jobs[j] EXCEPT !.lapsed = TRUE] \in Row
             /\ [jobs[j] EXCEPT !.ready = TRUE] \in Row
        BY DEF TypeOK, Row
      <3>2. QED
        BY <1>4, <3>1 DEF LeaseLapses, DelayPasses
    <2>2. QED
      BY <1>4, <2>1 DEF LeaseLapses, DelayPasses, TypeOK, workerVars
  <1>5. CASE UNCHANGED vars
    BY <1>5 DEF vars, TypeOK
  <1>6. QED
    BY <1>1, <1>2, <1>3, <1>4, <1>5 DEF Next

(* Rows, attempts and workers keep their types, and a worker holds a job     *)
(* exactly while it is in a tick.                                            *)
THEOREM SchedulerTypes == Spec => []TypeOK
  <1>1. QED
    BY TypeInit, TypeStep, PTL DEF Spec

-----------------------------------------------------------------------------
(* Retries.                                                                 *)

(* A leased row whose leaser is gone or has lost it is about to be leased    *)
(* beyond max_attempts, if it comes to that: one crash or lapse pays for it. *)
Overdue(j) ==
  /\ jobs[j].status = "LEASED"
  /\ jobs[j].lapsed \/ \A w \in Workers : held[w] = j => pc[w] # "leased"

BudgetInv ==
  /\ RetryBudget
  /\ \A j \in Jobs :
       Overdue(j) => jobs[j].attempts < MaxAttempts + crashes + lapses

(* An empty table is within budget.                                         *)
LEMMA BudgetInit == Init => BudgetInv
  <1> SUFFICES ASSUME Init, NEW j \in Jobs
               PROVE  /\ jobs[j].status = "NONE" /\ jobs[j].attempts = 0
                      /\ crashes = 0 /\ lapses = 0
    BY SchedulerAssumption DEF BudgetInv, RetryBudget, Overdue
  <1>1. QED
    BY DEF Init, NoRow

(* A worker's statement on the row it holds counts no attempt, and leaves    *)
(* the row LEASED only when it found it so and is not its leaser any more.   *)
LEMMA WorkerKeepsBudget ==
  ASSUME TypeOK, BudgetInv, NEW w \in Workers, held[w] \in Jobs,
         \A k \in Jobs \ {held[w]} : jobs'[k] = jobs[k],
         \A v \in Workers \ {w} : held'[v] = held[v] /\ pc'[v] = pc[v],
         UNCHANGED <<crashes, lapses>>,
         jobs'[held[w]].attempts = jobs[held[w]].attempts,
         jobs'[held[w]].status = "PENDING" =>
           jobs[held[w]].attempts < MaxAttempts,
         jobs'[held[w]].status = "FAILED" =>
           jobs[held[w]].attempts >= MaxAttempts,
         jobs'[held[w]].status = "LEASED" =>
           jobs'[held[w]] = jobs[held[w]] /\ pc[w] # "leased"
  PROVE  BudgetInv'
  <1>1. ASSUME NEW k \in Jobs, Overdue(k)' PROVE Overdue(k)
    <2>1. jobs'[k] = jobs[k]
      BY <1>1 DEF Overdue
    <2>2. k = held[w] => pc[w] # "leased"
      BY <1>1 DEF Overdue
    <2>3. QED
      BY <1>1, <2>1, <2>2 DEF Overdue
  <1>2. \A k \in Jobs : jobs'[k].attempts = jobs[k].attempts
    OBVIOUS
  <1>3. RetryBudget'
    <2> SUFFICES ASSUME NEW k \in Jobs
                 PROVE  /\ jobs'[k].status = "PENDING" =>
                             jobs'[k].attempts < MaxAttempts
                        /\ jobs'[k].status = "FAILED" =>
                             jobs'[k].attempts >= MaxAttempts
                        /\ jobs'[k].attempts <= MaxAttempts + crashes + lapses
      BY DEF RetryBudget
    <2>1. CASE k = held[w]
      BY <1>2, <2>1 DEF BudgetInv, RetryBudget
    <2>2. CASE k # held[w]
      BY <2>2 DEF BudgetInv, RetryBudget
    <2>3. QED
      BY <2>1, <2>2
  <1>4. QED
    BY <1>1, <1>2, <1>3 DEF BudgetInv

(* A job returns to PENDING only with attempts left, and every attempt more  *)
(* has a crash or a lapsed lease to it.                                      *)
LEMMA BudgetStep == TypeOK /\ BudgetInv /\ [Next]_vars => BudgetInv'
  <1> SUFFICES ASSUME TypeOK, BudgetInv, [Next]_vars PROVE BudgetInv'
    OBVIOUS
  <1> crashes \in Nat /\ lapses \in Nat /\ MaxAttempts \in Nat \ {0}
    BY SchedulerAssumption DEF TypeOK
  <1>1. ASSUME UNCHANGED <<pc, held, crashes, lapses>>,
               \A j \in Jobs :
                 \/ jobs'[j] = jobs[j]
                 \/ jobs'[j].status = "PENDING" /\ jobs'[j].attempts < MaxAttempts
                    /\ jobs'[j].attempts \in Nat
        PROVE  BudgetInv'
    BY <1>1 DEF BudgetInv, RetryBudget, Overdue
  <1>2. ASSUME NEW e \in Enqueuers,
               EnqueueInsert(e) \/ \E i \in Items : EnqueueLook(e, i)
        PROVE  BudgetInv'
    BY <1>1, <1>2 DEF EnqueueInsert, EnqueueLook, TypeOK, workerVars
  <1>3. ASSUME NEW w \in Workers, Lease(w) PROVE BudgetInv'
    <2>1. PICK j \in Jobs :
            /\ Candidate(j)
            /\ jobs' = [jobs EXCEPT ![j].status = "LEASED", ![j].lapsed = FALSE,
                                    ![j].attempts = @ + 1]
            /\ held' = [held EXCEPT ![w] = j]
      BY <1>3 DEF Lease, FirstInLine
    <2>2. /\ jobs'[j].status = "LEASED" /\ ~jobs'[j].lapsed
          /\ jobs'[j].attempts = jobs[j].attempts + 1
          /\ \A k \in Jobs \ {j} : jobs'[k] = jobs[k]
          /\ held'[w] = j /\ pc'[w] = "leased" /\ UNCHANGED <<crashes, lapses>>
          /\ \A v \in Workers \ {w} : held'[v] = held[v] /\ pc'[v] = pc[v]
      BY <1>3, <2>1 DEF Lease, TypeOK, Row
    <2>3. ~Overdue(j)'
      BY <2>2 DEF Overdue
    <2>4. \A k \in Jobs \ {j} : Overdue(k)' => Overdue(k)
      BY <1>3, <2>2 DEF Overdue, Lease
    <2>5. /\ jobs[j].attempts \in Nat
          /\ jobs[j].attempts < MaxAttempts + crashes + lapses
      BY <2>1 DEF Candidate, BudgetInv, RetryBudget, Overdue, TypeOK, Row
    <2>6. RetryBudget'
      BY <2>2, <2>5 DEF RetryBudget, BudgetInv
    <2>7. QED
      BY <2>2, <2>3, <2>4, <2>6 DEF BudgetInv
  <1>4. ASSUME NEW w \in Workers,
               \/ MarkRunning(w) \/ Complete(w) \/ CompleteUnanswered(w)
               \/ HandlerRaises(w) \/ Fail(w)
        PROVE  BudgetInv'
    <2>1. pc[w] # "idle" /\ UNCHANGED <<crashes, lapses>>
      BY <1>4 DEF MarkRunning, Complete, CompleteUnanswered, HandlerRaises, Fail
    <2>2. held[w] \in Jobs /\ jobs[held[w]] \in Row
      BY <2>1, BusyHolds
    <2>3. /\ \A k \in Jobs \ {held[w]} : jobs'[k] = jobs[k]
          /\ jobs'[held[w]].attempts = jobs[held[w]].attempts
          /\ \A v \in Workers \ {w} : held'[v] = held[v] /\ pc'[v] = pc[v]
      BY <1>4, <2>2 DEF MarkRunning, Complete, CompleteUnanswered,
           HandlerRaises, Fail, EndTick, TypeOK, Row
    <2>4. /\ jobs'[held[w]].status = "PENDING" =>
               jobs[held[w]].attempts < MaxAttempts
          /\ jobs'[held[w]].status = "FAILED" =>
               jobs[held[w]].attempts >= MaxAttempts
          /\ jobs'[held[w]].status = "LEASED" =>
               jobs'[held[w]] = jobs[held[w]] /\ pc[w] # "leased"
      <3>1. CASE MarkRunning(w)
        BY <2>2, <3>1 DEF MarkRunning, Active, BudgetInv, RetryBudget, TypeOK,
                          Row
      <3>2. CASE Complete(w) \/ CompleteUnanswered(w)
        BY <2>2, <3>2 DEF Complete, CompleteUnanswered, TypeOK, Row
      <3>3. CASE HandlerRaises(w)
        BY <2>2, <3>3 DEF HandlerRaises, BudgetInv, RetryBudget
      <3>4. CASE Fail(w)
        BY <2>2, <3>4 DEF Fail, OutOfAttempts, Active, BudgetInv, RetryBudget,
                          TypeOK, Row
      <3>5. QED
        BY <1>4, <3>1, <3>2, <3>3, <3>4
    <2>5. QED
      BY <2>1, <2>2, <2>3, <2>4, WorkerKeepsBudget
  <1>5. ASSUME NEW w \in Workers, Crash(w) PROVE BudgetInv'
    <2>1. jobs' = jobs /\ crashes' = crashes + 1 /\ lapses' = lapses
      BY <1>5 DEF Crash
    <2>2. \A j \in Jobs : jobs[j].attempts \in Nat
      BY DEF TypeOK, Row
    <2>3. QED
      BY <2>1, <2>2 DEF BudgetInv, RetryBudget
  <1>6. ASSUME NEW j \in Jobs, LeaseLapses(j) PROVE BudgetInv'
    <2>1. /\ jobs[j].status = "LEASED" /\ jobs'[j].status = "LEASED"
          /\ \A k \in Jobs : jobs'[k].attempts = jobs[k].attempts
          /\ \A k \in Jobs : jobs'[k].status = jobs[k].status
          /\ \A k \in Jobs \ {j} : jobs'[k] = jobs[k]
          /\ UNCHANGED <<pc, held, crashes>>
      BY <1>6 DEF LeaseLapses, workerVars, TypeOK, Row
    <2>2. \A k \in Jobs : jobs[k].attempts \in Nat
      BY DEF TypeOK, Row
    <2>3. jobs[j].attempts < MaxAttempts + crashes + lapses'
      <3>1. CASE Holders(j) # {}
        <4>1. lapses' = lapses + 1
          BY <1>6, <3>1 DEF LeaseLapses
        <4>2. QED
          BY <2>2, <4>1 DEF BudgetInv, RetryBudget
      <3>2. CASE Holders(j) = {}
        <4>1. Overdue(j) /\ lapses' = lapses
          BY <1>6, <3>2 DEF Overdue, Holders, LeaseLapses
        <4>2. QED
          BY <4>1 DEF BudgetInv
      <3>3. QED
        BY <3>1, <3>2
    <2>4. lapses' \in Nat /\ lapses <= lapses'
      BY <1>6 DEF LeaseLapses
    <2>5. \A k \in Jobs \ {j} : Overdue(k)' => Overdue(k)
      BY <2>1 DEF Overdue
    <2>6. RetryBudget'
      BY <2>1, <2>2, <2>4 DEF RetryBudget, BudgetInv
    <2>7. ASSUME NEW k \in Jobs, Overdue(k)'
          PROVE  jobs'[k].attempts < MaxAttempts + crashes' + lapses'
      <3>1. CASE k = j
        BY <2>1, <2>3, <3>1
      <3>2. CASE k # j
        BY <2>1, <2>2, <2>4, <2>5, <2>7, <3>2 DEF BudgetInv
      <3>3. QED
        BY <3>1, <3>2
    <2>8. QED
      BY <2>6, <2>7 DEF BudgetInv
  <1>7. ASSUME NEW j \in Jobs, DelayPasses(j) PROVE BudgetInv'
    <2>1. /\ jobs'[j].status = "PENDING"
          /\ jobs'[j].attempts = jobs[j].attempts
          /\ jobs[j].attempts < MaxAttempts /\ jobs[j].attempts \in Nat
          /\ \A k \in Jobs \ {j} : jobs'[k] = jobs[k]
          /\ UNCHANGED <<pc, held, crashes, lapses>>
      BY <1>7 DEF DelayPasses, workerVars, TypeOK, Row, BudgetInv, RetryBudget
    <2>2. QED
      BY <1>1, <2>1
  <1>8. CASE UNCHANGED vars
    BY <1>1, <1>8 DEF vars
  <1>9. QED
    BY <1>2, <1>3, <1>4, <1>5, <1>6, <1>7, <1>8 DEF Next, Tick

(* No order of late reports, crashes and lapsed leases retries a job beyond  *)
(* max_attempts or gives it up before, and a job is leased beyond it only as *)
(* often as workers died or leases lapsed.                                   *)
THEOREM RetriesWithinBudget == Spec => []RetryBudget
  <1>1. BudgetInv => RetryBudget
    BY DEF BudgetInv
  <1>2. QED
    BY <1>1, BudgetInit, BudgetStep, SchedulerTypes, PTL DEF Spec

-----------------------------------------------------------------------------
(* The unique index.                                                        *)

(* If row j becomes active only where the index allows it and no other row   *)
(* becomes active or changes its item, the index stays consistent.           *)
LEMMA IndexKept ==
  ASSUME OneActiveJobPerItem, NEW j \in Jobs,
         \A k \in Jobs \ {j} : jobs'[k] = jobs[k],
         jobs'[j].status \in Active =>
           \/ jobs[j].status \in Active /\ jobs'[j].item = jobs[j].item
           \/ ~Collides(jobs'[j].item, j)
  PROVE  OneActiveJobPerItem'
  <1> SUFFICES ASSUME NEW i \in Indexed, NEW k \in ActiveFor(i)',
                      NEW l \in ActiveFor(i)', k # l
               PROVE  FALSE
    BY DEF OneActiveJobPerItem
  <1>1. ASSUME NEW m \in ActiveFor(i)', m # j PROVE m \in ActiveFor(i)
    BY <1>1 DEF ActiveFor
  <1>2. k = j \/ l = j
    BY <1>1 DEF OneActiveJobPerItem
  <1>3. PICK m \in ActiveFor(i) \ {j} : TRUE
    BY <1>1, <1>2
  <1>4. jobs'[j].status \in Active /\ jobs'[j].item = i
    BY <1>2 DEF ActiveFor
  <1>5. CASE jobs[j].status \in Active /\ jobs'[j].item = jobs[j].item
    BY <1>3, <1>4, <1>5 DEF OneActiveJobPerItem, ActiveFor
  <1>6. CASE ~Collides(jobs'[j].item, j)
    BY <1>3, <1>4, <1>6 DEF Collides
  <1>7. QED
    BY <1>4, <1>5, <1>6

(* No statement, however late, gives an item a second active job.           *)
LEMMA IndexStep ==
  TypeOK /\ OneActiveJobPerItem /\ [Next]_vars => OneActiveJobPerItem'
  <1> SUFFICES ASSUME TypeOK, OneActiveJobPerItem, [Next]_vars
               PROVE  OneActiveJobPerItem'
    OBVIOUS
  <1>1. CASE jobs' = jobs
    BY <1>1 DEF OneActiveJobPerItem, ActiveFor
  <1>2. ASSUME NEW e \in Enqueuers, EnqueueInsert(e) PROVE OneActiveJobPerItem'
    <2>1. PICK j \in Jobs :
            jobs' = IF Collides(asked[e], j) THEN jobs
                    ELSE [jobs EXCEPT ![j] =
                            [status |-> "PENDING", item |-> asked[e],
                             attempts |-> 0, ready |-> TRUE, lapsed |-> FALSE]]
      BY <1>2 DEF EnqueueInsert
    <2>2. CASE ~Collides(asked[e], j)
      BY <2>1, <2>2, IndexKept DEF TypeOK
    <2>3. QED
      BY <1>1, <2>1, <2>2
  <1>3. ASSUME NEW w \in Workers, Lease(w) PROVE OneActiveJobPerItem'
    <2>1. PICK j \in Jobs :
            /\ Candidate(j)
            /\ jobs' = [jobs EXCEPT ![j].status = "LEASED", ![j].lapsed = FALSE,
                                    ![j].attempts = @ + 1]
      BY <1>3 DEF Lease, FirstInLine
    <2>2. jobs[j].status \in Active /\ jobs'[j].item = jobs[j].item
      BY <2>1 DEF Candidate, Active, TypeOK, Row
    <2>3. QED
      BY <2>1, <2>2, IndexKept DEF TypeOK
  <1>4. ASSUME NEW w \in Workers,
               MarkRunning(w) \/ Complete(w) \/ CompleteUnanswered(w) \/ Fail(w)
        PROVE  OneActiveJobPerItem'
    <2>1. held[w] \in Jobs
      BY <1>4, BusyHolds DEF MarkRunning, Complete, CompleteUnanswered, Fail
    <2>2. \A k \in Jobs \ {held[w]} : jobs'[k] = jobs[k]
      BY <1>4, <2>1 DEF MarkRunning, Complete, CompleteUnanswered, Fail, TypeOK
    <2>3. jobs'[held[w]].item = jobs[held[w]].item
      BY <1>4, <2>1 DEF MarkRunning, Complete, CompleteUnanswered, Fail, TypeOK, Row
    <2>4. \/ jobs' = jobs
          \/ jobs'[held[w]].status \in Active =>
               \/ jobs[held[w]].status \in Active
               \/ ~Collides(jobs[held[w]].item, held[w])
      <3>1. CASE MarkRunning(w)
        BY <2>1, <3>1 DEF MarkRunning
      <3>2. CASE Complete(w)
        BY <2>1, <3>2 DEF Complete, TypeOK, Active
      <3>3. CASE CompleteUnanswered(w)
        BY <2>1, <3>3 DEF CompleteUnanswered, TypeOK, Active
      <3>4. CASE Fail(w)
        BY <2>1, <3>4 DEF Fail, TypeOK, Active
      <3>5. QED
        BY <1>4, <3>1, <3>2, <3>3, <3>4
    <2>5. QED
      BY <1>1, <2>1, <2>2, <2>3, <2>4, IndexKept
  <1>5. ASSUME NEW j \in Jobs, LeaseLapses(j) \/ DelayPasses(j)
        PROVE  OneActiveJobPerItem'
    <2>1. \A k \in Jobs : /\ jobs'[k].status = jobs[k].status
                          /\ jobs'[k].item = jobs[k].item
      BY <1>5 DEF LeaseLapses, DelayPasses, TypeOK, Row
    <2>2. QED
      BY <2>1 DEF OneActiveJobPerItem, ActiveFor
  <1>6. QED
    BY <1>1, <1>2, <1>3, <1>4, <1>5 DEF Next, Tick, EnqueueLook, HandlerRaises,
                                        Crash, vars

(* An item with a source never has two active jobs.                          *)
THEOREM ActiveJobsAreUnique == Spec => []OneActiveJobPerItem
  <1>1. Init => OneActiveJobPerItem
    BY DEF Init, OneActiveJobPerItem, ActiveFor, NoRow, Active
  <1>2. QED
    BY <1>1, IndexStep, SchedulerTypes, PTL DEF Spec

-----------------------------------------------------------------------------
(* Who holds a job.                                                         *)

(* When worker w's tick ends, or goes on with the status it should have,     *)
(* and nobody else's job is touched, exclusiveness survives.                 *)
LEMMA HolderKept ==
  ASSUME TypeOK, HolderAlone, NEW w \in Workers, pc[w] # "idle",
         \A k \in Jobs \ {held[w]} : jobs'[k].status = jobs[k].status,
         contested' = contested,
         \A v \in Workers \ {w} : held'[v] = held[v] /\ pc'[v] = pc[v],
         \/ held'[w] = NoJob /\ pc'[w] = "idle"
         \/ /\ held'[w] = held[w]
            /\ pc'[w] \in {"running", "failing"}
            /\ pc'[w] = "running" => jobs'[held[w]].status = "RUNNING"
            /\ pc'[w] = "failing" /\ held[w] \notin contested =>
                 jobs'[held[w]].status \in {"RUNNING", "SUCCEEDED"}
  PROVE  HolderAlone'
  <1> SUFFICES ASSUME NEW u \in Workers, pc'[u] # "idle", held'[u] \notin contested
               PROVE  /\ \A v \in Workers : held'[v] = held'[u] => v = u
                      /\ pc'[u] = "leased"  => jobs'[held'[u]].status = "LEASED"
                      /\ pc'[u] = "running" => jobs'[held'[u]].status = "RUNNING"
                      /\ pc'[u] = "failing" =>
                           jobs'[held'[u]].status \in {"RUNNING", "SUCCEEDED"}
    BY DEF HolderAlone
  <1>1. held'[u] = held[u] /\ pc[u] # "idle" /\ held[u] \in Jobs
    BY BusyHolds
  <1>2. \A v \in Workers : held[v] = held[u] => v = u
    BY <1>1 DEF HolderAlone
  <1>3. \A v \in Workers : held'[v] = held'[u] => v = u
    BY <1>1, <1>2, SchedulerAssumption
  <1>4. CASE u = w
    BY <1>1, <1>3, <1>4
  <1>5. CASE u # w
    <2>1. held[u] # held[w]
      BY <1>2, <1>5
    <2>2. jobs'[held[u]].status = jobs[held[u]].status /\ pc'[u] = pc[u]
      BY <1>1, <1>5, <2>1
    <2>3. QED
      BY <1>1, <1>3, <2>2 DEF HolderAlone
  <1>6. QED
    BY <1>4, <1>5

(* A job not leased away stays with its worker, where it left it.           *)
LEMMA HolderStep == TypeOK /\ HolderAlone /\ [Next]_vars => HolderAlone'
  <1> SUFFICES ASSUME TypeOK, HolderAlone, [Next]_vars PROVE HolderAlone'
    OBVIOUS
  <1>1. ASSUME UNCHANGED <<workerVars, contested>>,
               \A w \in Workers :
                 pc[w] # "idle" /\ held[w] \notin contested =>
                   jobs'[held[w]].status = jobs[held[w]].status
        PROVE  HolderAlone'
    BY <1>1 DEF workerVars, HolderAlone
  <1>2. ASSUME NEW e \in Enqueuers, NEW i \in Items, EnqueueLook(e, i)
        PROVE  HolderAlone'
    BY <1>1, <1>2 DEF EnqueueLook
  <1>3. ASSUME NEW e \in Enqueuers, EnqueueInsert(e) PROVE HolderAlone'
    <2>1. PICK j \in Jobs :
            /\ jobs[j].status = "NONE"
            /\ \A k \in Jobs \ {j} : jobs'[k] = jobs[k]
      BY <1>3 DEF EnqueueInsert, FreshId, TypeOK
    <2>2. ASSUME NEW w \in Workers, pc[w] # "idle", held[w] \notin contested
          PROVE  held[w] # j /\ held[w] \in Jobs
      BY <2>1, <2>2, BusyHolds DEF HolderAlone, TypeOK
    <2>3. QED
      BY <1>1, <1>3, <2>1, <2>2 DEF EnqueueInsert
  <1>4. ASSUME NEW j \in Jobs, LeaseLapses(j) \/ DelayPasses(j)
        PROVE  HolderAlone'
    <2>1. \A k \in Jobs : jobs'[k].status = jobs[k].status
      BY <1>4 DEF LeaseLapses, DelayPasses, TypeOK, Row
    <2>2. QED
      BY <1>1, <1>4, <2>1, BusyHolds DEF LeaseLapses, DelayPasses
  <1>5. ASSUME NEW w \in Workers, Lease(w) PROVE HolderAlone'
    <2>1. PICK j \in Jobs :
            /\ Candidate(j)
            /\ jobs' = [jobs EXCEPT ![j].status = "LEASED", ![j].lapsed = FALSE,
                                    ![j].attempts = @ + 1]
            /\ held' = [held EXCEPT ![w] = j]
            /\ contested' = IF jobs[j].status = "LEASED" /\ Holders(j) # {}
                            THEN contested \cup {j} ELSE contested
      BY <1>5 DEF Lease, FirstInLine
    <2>2. /\ \A v \in Workers \ {w} : held'[v] = held[v] /\ pc'[v] = pc[v]
          /\ held'[w] = j /\ pc'[w] = "leased" /\ jobs'[j].status = "LEASED"
          /\ \A k \in Jobs \ {j} : jobs'[k] = jobs[k]
      BY <1>5, <2>1 DEF Lease, TypeOK, Row
    <2>3. ASSUME j \notin contested', NEW v \in Workers, v # w PROVE held[v] # j
      <3>1. SUFFICES ASSUME held[v] = j PROVE FALSE
        OBVIOUS
      <3>2. pc[v] # "idle" /\ j \notin contested
        BY <2>1, <2>3, <3>1, SchedulerAssumption DEF TypeOK
      <3>3. jobs[j].status # "PENDING"
        BY <3>1, <3>2 DEF HolderAlone, TypeOK
      <3>4. jobs[j].status = "LEASED" /\ Holders(j) # {}
        BY <2>1, <3>1, <3>3 DEF Candidate, Holders
      <3>5. QED
        BY <2>1, <2>3, <3>4
    <2>4. SUFFICES ASSUME NEW u \in Workers, pc'[u] # "idle",
                          held'[u] \notin contested'
                   PROVE  /\ \A v \in Workers : held'[v] = held'[u] => v = u
                          /\ pc'[u] = "leased"  => jobs'[held'[u]].status = "LEASED"
                          /\ pc'[u] = "running" => jobs'[held'[u]].status = "RUNNING"
                          /\ pc'[u] = "failing" =>
                               jobs'[held'[u]].status \in {"RUNNING", "SUCCEEDED"}
      BY DEF HolderAlone
    <2>5. CASE u = w
      BY <2>2, <2>3, <2>4, <2>5
    <2>6. CASE u # w
      <3>1. held'[u] = held[u] /\ pc'[u] = pc[u] /\ held[u] \in Jobs
            /\ held[u] \notin contested
        BY <2>1, <2>2, <2>4, <2>6, BusyHolds
      <3>2. held[u] # j
        BY <2>3, <2>4, <2>6, <3>1
      <3>3. jobs'[held[u]] = jobs[held[u]]
        BY <2>2, <3>1, <3>2
      <3>4. QED
        BY <2>2, <2>4, <3>1, <3>2, <3>3 DEF HolderAlone
    <2>7. QED
      BY <2>5, <2>6
  <1>6. ASSUME NEW w \in Workers, MarkRunning(w) PROVE HolderAlone'
    <2>1. held[w] \in Jobs
      BY <1>6, BusyHolds DEF MarkRunning
    <2>2. QED
      BY <1>6, <2>1, HolderKept DEF MarkRunning, EndTick, TypeOK, Row
  <1>7. ASSUME NEW w \in Workers, Complete(w) \/ Fail(w) \/ Crash(w)
        PROVE  HolderAlone'
    <2>1. pc[w] # "idle" /\ EndTick(w) /\ contested' = contested
      BY <1>7 DEF Complete, Fail, Crash
    <2>2. held[w] \in Jobs
      BY <2>1, BusyHolds
    <2>3. \A k \in Jobs \ {held[w]} : jobs'[k].status = jobs[k].status
      BY <1>7, <2>2 DEF Complete, Fail, Crash, TypeOK
    <2>4. QED
      BY <2>1, <2>3, HolderKept DEF EndTick, TypeOK
  <1>8. ASSUME NEW w \in Workers, CompleteUnanswered(w) PROVE HolderAlone'
    <2>1. held[w] \in Jobs
      BY <1>8, BusyHolds DEF CompleteUnanswered
    <2>2. jobs'[held[w]].status = "SUCCEEDED"
          /\ \A k \in Jobs \ {held[w]} : jobs'[k] = jobs[k]
      BY <1>8, <2>1 DEF CompleteUnanswered, TypeOK, Row
    <2>3. QED
      BY <1>8, <2>1, <2>2, HolderKept DEF CompleteUnanswered, TypeOK
  <1>9. ASSUME NEW w \in Workers, HandlerRaises(w) PROVE HolderAlone'
    <2>1. held[w] \notin contested => jobs[held[w]].status = "RUNNING"
      BY <1>9 DEF HandlerRaises, HolderAlone
    <2>2. QED
      BY <1>9, <2>1, HolderKept DEF HandlerRaises, TypeOK
  <1>10. CASE UNCHANGED vars
    BY <1>1, <1>10 DEF vars, workerVars
  <1>11. QED
    BY <1>2, <1>3, <1>4, <1>5, <1>6, <1>7, <1>8, <1>9, <1>10 DEF Next, Tick

(* Nobody holds a job yet.                                                  *)
LEMMA HolderInit == Init => HolderAlone
  BY DEF Init, HolderAlone

(* The conjunction, for the proofs below.                                   *)
LEMMA HolderIsAlone == Spec => []HolderAlone
  <1>1. QED
    BY HolderInit, HolderStep, SchedulerTypes, PTL DEF Spec

(* Leases go to jobs that are put back or whose lease has lapsed; such a job *)
(* has a holder less than there may be.  A row nobody has inserted has none. *)
Leasable(j) ==
  \/ jobs[j].status = "PENDING"
  \/ jobs[j].status = "LEASED" /\ jobs[j].lapsed

HoldersInv ==
  \A j \in Jobs :
    /\ Cardinality(Holders(j)) <= 1 + lapses
    /\ Leasable(j) => Cardinality(Holders(j)) <= lapses
    /\ jobs[j].status = "NONE" => Holders(j) = {}

(* The holders of a job are finitely many.                                  *)
LEMMA HoldersFinite ==
  \A j \in Jobs : IsFiniteSet(Holders(j)) /\ Cardinality(Holders(j)) \in Nat
  <1>1. ASSUME NEW j \in Jobs
        PROVE  IsFiniteSet(Holders(j)) /\ Cardinality(Holders(j)) \in Nat
    <2>1. Holders(j) \subseteq Workers
      BY DEF Holders
    <2>2. QED
      BY <2>1, SchedulerAssumption, FS_Subset, FS_CardinalityType
  <1>2. QED
    BY <1>1

(* No worker has begun.                                                     *)
LEMMA HoldersInit == Init => HoldersInv
  <1> SUFFICES ASSUME Init, NEW j \in Jobs
               PROVE  Holders(j) = {} /\ lapses = 0
    BY FS_EmptySet DEF HoldersInv
  <1>1. QED
    BY SchedulerAssumption DEF Init, Holders

(* A worker that gives its job up makes room for another.                   *)
LEMMA OneHolderLess ==
  ASSUME TypeOK, NEW w \in Workers, pc[w] # "idle", EndTick(w),
         NEW j \in Jobs
  PROVE  /\ j # held[w] => Holders(j)' = Holders(j)
         /\ j = held[w] =>
              Cardinality(Holders(j)') = Cardinality(Holders(j)) - 1
  <1>1. Holders(j)' = Holders(j) \ {w}
    BY SchedulerAssumption DEF EndTick, Holders, TypeOK
  <1>2. j # held[w] => Holders(j) \ {w} = Holders(j)
    BY DEF Holders
  <1>3. j = held[w] => w \in Holders(j)
    BY DEF Holders
  <1>4. QED
    BY <1>1, <1>2, <1>3, HoldersFinite, FS_RemoveElement

(* A worker's statement on the row it holds lets no more workers in.        *)
LEMMA WorkerKeepsHolders ==
  ASSUME TypeOK, HoldersInv, NEW w \in Workers, pc[w] # "idle",
         \A k \in Jobs \ {held[w]} : jobs'[k] = jobs[k],
         jobs'[held[w]].status # "NONE", lapses' = lapses,
         \/ EndTick(w)
         \/ held' = held /\ (Leasable(held[w])' => Leasable(held[w]))
  PROVE  HoldersInv'
  <1> SUFFICES ASSUME NEW j \in Jobs
               PROVE  /\ Cardinality(Holders(j)') <= 1 + lapses
                      /\ Leasable(j)' => Cardinality(Holders(j)') <= lapses
                      /\ jobs'[j].status = "NONE" => Holders(j)' = {}
    BY DEF HoldersInv
  <1>1. /\ Cardinality(Holders(j)) \in Nat /\ lapses \in Nat
        /\ Cardinality(Holders(j)) <= 1 + lapses
        /\ Leasable(j) => Cardinality(Holders(j)) <= lapses
        /\ jobs[j].status = "NONE" => Holders(j) = {}
    BY HoldersFinite DEF HoldersInv, TypeOK
  <1>2. CASE j # held[w]
    <2>1. jobs'[j] = jobs[j] /\ Holders(j)' = Holders(j)
      BY <1>2, OneHolderLess DEF Holders
    <2>2. QED
      BY <1>1, <2>1 DEF Leasable
  <1>3. CASE j = held[w] /\ EndTick(w)
    BY <1>1, <1>3, OneHolderLess
  <1>4. CASE j = held[w] /\ ~EndTick(w)
    <2>1. Holders(j)' = Holders(j)
      BY <1>4 DEF Holders
    <2>2. QED
      BY <1>1, <1>4, <2>1
  <1>5. QED
    BY <1>2, <1>3, <1>4

(* Only a lapsed lease lets another worker in.                              *)
LEMMA HoldersStep == TypeOK /\ HoldersInv /\ [Next]_vars => HoldersInv'
  <1> SUFFICES ASSUME TypeOK, HoldersInv, [Next]_vars PROVE HoldersInv'
    OBVIOUS
  <1>1. ASSUME held' = held, lapses' = lapses,
               \A j \in Jobs :
                 \/ jobs'[j] = jobs[j]
                 \/ ~Leasable(j)' /\ jobs'[j].status # "NONE"
        PROVE  HoldersInv'
    <2>1. \A j \in Jobs : Holders(j)' = Holders(j)
      BY <1>1 DEF Holders
    <2>2. \A j \in Jobs : Leasable(j)' => Leasable(j)
      BY <1>1 DEF Leasable
    <2>3. QED
      BY <1>1, <2>1, <2>2 DEF HoldersInv
  <1>2. ASSUME NEW e \in Enqueuers, NEW i \in Items, EnqueueLook(e, i)
        PROVE  HoldersInv'
    BY <1>1, <1>2 DEF EnqueueLook, workerVars
  <1>3. ASSUME NEW e \in Enqueuers, EnqueueInsert(e) PROVE HoldersInv'
    <2>1. PICK j \in Jobs :
            /\ jobs[j].status = "NONE"
            /\ \A k \in Jobs \ {j} : jobs'[k] = jobs[k]
      BY <1>3 DEF EnqueueInsert, FreshId, TypeOK
    <2>2. /\ \A k \in Jobs : Holders(k)' = Holders(k)
          /\ lapses' = lapses /\ lapses \in Nat
      BY <1>3 DEF EnqueueInsert, workerVars, Holders, TypeOK
    <2>3. Cardinality(Holders(j)) = 0 /\ Holders(j) = {}
      BY <2>1, FS_EmptySet DEF HoldersInv
    <2>4. QED
      BY <2>1, <2>2, <2>3 DEF HoldersInv, Leasable
  <1>4. ASSUME NEW w \in Workers, Lease(w) PROVE HoldersInv'
    <2>1. PICK j \in Jobs :
            /\ Candidate(j)
            /\ jobs' = [jobs EXCEPT ![j].status = "LEASED", ![j].lapsed = FALSE,
                                    ![j].attempts = @ + 1]
            /\ held' = [held EXCEPT ![w] = j]
      BY <1>4 DEF Lease, FirstInLine
    <2>2. /\ jobs'[j].status = "LEASED" /\ ~jobs'[j].lapsed
          /\ \A k \in Jobs \ {j} : jobs'[k] = jobs[k]
          /\ lapses' = lapses /\ lapses \in Nat
      BY <1>4, <2>1 DEF Lease, TypeOK, Row
    <2>3. Cardinality(Holders(j)) <= lapses /\ Cardinality(Holders(j)) \in Nat
      BY <2>1, HoldersFinite DEF HoldersInv, Candidate, Leasable
    <2>4. held[w] = NoJob
      BY <1>4 DEF Lease, TypeOK
    <2>5. Holders(j)' = Holders(j) \cup {w}
      BY <2>1 DEF Holders, TypeOK
    <2>6. \A k \in Jobs \ {j} : Holders(k)' = Holders(k)
      BY <2>1, <2>4, SchedulerAssumption DEF Holders, TypeOK
    <2>7. Cardinality(Holders(j)') <= 1 + lapses
      <3>1. Cardinality(Holders(j) \cup {w})
              = IF w \in Holders(j) THEN Cardinality(Holders(j))
                ELSE Cardinality(Holders(j)) + 1
        BY HoldersFinite, FS_AddElement
      <3>2. QED
        BY <2>2, <2>3, <2>5, <3>1
    <2>8. QED
      BY <2>2, <2>6, <2>7 DEF HoldersInv, Leasable
  <1>5. ASSUME NEW w \in Workers,
               \/ MarkRunning(w) \/ Complete(w) \/ CompleteUnanswered(w)
               \/ HandlerRaises(w) \/ Fail(w) \/ Crash(w)
        PROVE  HoldersInv'
    <2>1. pc[w] # "idle" /\ lapses' = lapses
      BY <1>5 DEF MarkRunning, Complete, CompleteUnanswered, HandlerRaises,
                  Fail, Crash
    <2>2. held[w] \in Jobs /\ jobs[held[w]].status # "NONE"
      BY <2>1, BusyHolds DEF HoldersInv, Holders
    <2>3. \A k \in Jobs \ {held[w]} : jobs'[k] = jobs[k]
      BY <1>5, <2>2 DEF MarkRunning, Complete, CompleteUnanswered,
           HandlerRaises, Fail, Crash, TypeOK
    <2>4. jobs'[held[w]].status # "NONE"
      BY <1>5, <2>2 DEF MarkRunning, Complete, CompleteUnanswered,
           HandlerRaises, Fail, Crash, TypeOK, Row
    <2>5. \/ EndTick(w)
          \/ held' = held /\ (Leasable(held[w])' => Leasable(held[w]))
      <3>1. CASE HandlerRaises(w)
        BY <3>1 DEF HandlerRaises, Leasable
      <3>2. CASE CompleteUnanswered(w)
        BY <2>2, <3>2 DEF CompleteUnanswered, Leasable, TypeOK, Row
      <3>3. CASE MarkRunning(w)
        BY <2>2, <3>3 DEF MarkRunning, Leasable, TypeOK, Row
      <3>4. QED
        BY <1>5, <3>1, <3>2, <3>3 DEF Complete, Fail, Crash
    <2>6. QED
      BY <2>1, <2>3, <2>4, <2>5, WorkerKeepsHolders
  <1>6. ASSUME NEW j \in Jobs, LeaseLapses(j) PROVE HoldersInv'
    <2>1. /\ jobs[j].status = "LEASED" /\ jobs'[j].status = "LEASED"
          /\ \A k \in Jobs \ {j} : jobs'[k] = jobs[k]
      BY <1>6 DEF LeaseLapses, TypeOK, Row
    <2>2. \A k \in Jobs : Holders(k)' = Holders(k)
      BY <1>6 DEF LeaseLapses, workerVars, Holders
    <2>3. /\ lapses \in Nat /\ lapses' \in Nat /\ lapses <= lapses'
          /\ Holders(j) # {} => lapses' = lapses + 1
      BY <1>6 DEF LeaseLapses, TypeOK
    <2>4. Cardinality(Holders(j)) <= lapses'
      BY <2>3, HoldersFinite, FS_EmptySet DEF HoldersInv
    <2>5. ASSUME NEW k \in Jobs, k # j
          PROVE  /\ Cardinality(Holders(k)) <= 1 + lapses'
                 /\ Leasable(k)' => Cardinality(Holders(k)) <= lapses'
                 /\ jobs'[k].status = "NONE" => Holders(k) = {}
      <3>1. jobs'[k] = jobs[k] /\ Cardinality(Holders(k)) \in Nat
        BY <2>1, <2>5, HoldersFinite
      <3>2. /\ Cardinality(Holders(k)) <= 1 + lapses
            /\ Leasable(k) => Cardinality(Holders(k)) <= lapses
            /\ jobs[k].status = "NONE" => Holders(k) = {}
        BY DEF HoldersInv
      <3>3. QED
        BY <2>3, <3>1, <3>2 DEF Leasable
    <2>6. Cardinality(Holders(j)) <= 1 + lapses'
      BY <2>3, <2>4, HoldersFinite
    <2>7. QED
      BY <2>1, <2>2, <2>4, <2>5, <2>6 DEF HoldersInv
  <1>7. ASSUME NEW j \in Jobs, DelayPasses(j) PROVE HoldersInv'
    <2>1. /\ \A k \in Jobs : /\ jobs'[k].status = jobs[k].status
                             /\ jobs'[k].lapsed = jobs[k].lapsed
          /\ held' = held /\ lapses' = lapses
      BY <1>7 DEF DelayPasses, workerVars, TypeOK, Row
    <2>2. QED
      BY <2>1 DEF HoldersInv, Holders, Leasable
  <1>8. CASE UNCHANGED vars
    BY <1>1, <1>8 DEF vars, workerVars
  <1>9. QED
    BY <1>2, <1>3, <1>4, <1>5, <1>6, <1>7, <1>8 DEF Next, Tick

(* Nobody holds a row that was never inserted, and no job has more workers   *)
(* than one and the leases that lapsed.                                      *)
LEMMA HoldersAreBounded == Spec => []HoldersInv
  <1>1. QED
    BY HoldersInit, HoldersStep, SchedulerTypes, PTL DEF Spec

(* The unguarded UPDATEs of a tick act on a row their worker alone holds,    *)
(* unless its lease lapsed before it marked the job running.                 *)
THEOREM HoldersAreExclusive == Spec => []HolderExclusive
  <1>1. HolderAlone /\ HoldersInv => HolderExclusive
    BY DEF HolderExclusive, HoldersInv, HoldersBounded
  <1>2. QED
    BY <1>1, HolderIsAlone, HoldersAreBounded, PTL

(* Whoever revives a settled job lost its lease or its answer.              *)
LEMMA SettledStep ==
  ASSUME TypeOK, HolderAlone, [Next]_vars, NEW j \in Jobs,
         jobs[j].status \in Settled, jobs'[j].status # jobs[j].status
  PROVE  j \in contested \/ \E w \in Workers : held[w] = j /\ pc[w] = "failing"
  <1>1. \A e \in Enqueuers : ~EnqueueInsert(e)
    BY DEF EnqueueInsert, FreshId, TypeOK, Settled
  <1>2. ASSUME NEW w \in Workers, Lease(w) PROVE FALSE
    <2>1. PICK k \in Jobs :
            /\ Candidate(k)
            /\ jobs' = [jobs EXCEPT ![k].status = "LEASED", ![k].lapsed = FALSE,
                                    ![k].attempts = @ + 1]
      BY <1>2 DEF Lease, FirstInLine
    <2>2. k # j
      BY <2>1 DEF Candidate, Settled
    <2>3. QED
      BY <2>1, <2>2 DEF TypeOK
  <1>3. \A k \in Jobs : ~LeaseLapses(k) /\ ~DelayPasses(k)
    BY DEF LeaseLapses, DelayPasses, TypeOK, Settled
  <1>4. PICK w \in Workers :
          MarkRunning(w) \/ Complete(w) \/ CompleteUnanswered(w) \/ Fail(w)
    BY <1>1, <1>2, <1>3
    DEF Next, Tick, EnqueueLook, HandlerRaises, Crash, vars
  <1>5. held[w] = j /\ pc[w] # "idle"
    <2>1. pc[w] # "idle" /\ held[w] \in Jobs
      BY <1>4, BusyHolds DEF MarkRunning, Complete, CompleteUnanswered, Fail
    <2>2. \A k \in Jobs \ {held[w]} : jobs'[k].status = jobs[k].status
      BY <1>4, <2>1 DEF MarkRunning, Complete, CompleteUnanswered, Fail, TypeOK
    <2>3. QED
      BY <2>1, <2>2
  <1>6. CASE Fail(w)
    BY <1>5, <1>6 DEF Fail
  <1>7. CASE ~Fail(w)
    <2>1. pc[w] \in {"leased", "running"}
      BY <1>4, <1>7 DEF MarkRunning, Complete, CompleteUnanswered
    <2>2. QED
      BY <1>5, <2>1 DEF HolderAlone, Settled
  <1>8. QED
    BY <1>6, <1>7

(* A settled job is reopened only by a worker that lost its lease or the     *)
(* answer to its complete.                                                   *)
THEOREM SettledJobsStay == Spec => SettledStays
  <1>1. TypeOK /\ HolderAlone /\ [Next]_vars =>
          [\A j \in Jobs :
             jobs[j].status \in Settled /\ jobs'[j].status # jobs[j].status =>
               \/ j \in contested
               \/ \E w \in Workers : held[w] = j /\ pc[w] = "failing"]_vars
    BY SettledStep
  <1>2. QED
    BY <1>1, SchedulerTypes, HolderIsAlone, PTL DEF Spec, SettledStays

-----------------------------------------------------------------------------
(* The queue without workers.                                               *)

(* What the refinement needs of a reachable state.                          *)
QueueInv ==
  /\ TypeOK /\ HolderAlone /\ HoldersInv
  /\ \A j \in contested : jobs[j].status # "NONE"

(* No statement deletes a row.                                              *)
LEMMA RowsStay ==
  ASSUME TypeOK, [Next]_vars, NEW j \in Jobs, jobs[j].status # "NONE"
  PROVE  jobs'[j].status # "NONE"
  <1>1. ASSUME NEW e \in Enqueuers, EnqueueInsert(e)
        PROVE  jobs'[j].status # "NONE"
    BY <1>1 DEF EnqueueInsert, TypeOK
  <1>2. ASSUME NEW w \in Workers, Lease(w) PROVE jobs'[j].status # "NONE"
    BY <1>2 DEF Lease, TypeOK, Row
  <1>3. ASSUME NEW w \in Workers,
               \/ MarkRunning(w) \/ Complete(w) \/ CompleteUnanswered(w)
               \/ HandlerRaises(w) \/ Fail(w) \/ Crash(w)
        PROVE  jobs'[j].status # "NONE"
    <2>1. CASE MarkRunning(w)
      BY <2>1 DEF MarkRunning, TypeOK, Row
    <2>2. CASE Complete(w) \/ CompleteUnanswered(w)
      BY <2>2 DEF Complete, CompleteUnanswered, TypeOK, Row
    <2>3. CASE Fail(w)
      BY <2>3 DEF Fail, TypeOK, Row
    <2>4. CASE HandlerRaises(w) \/ Crash(w)
      BY <2>4 DEF HandlerRaises, Crash
    <2>5. QED
      BY <1>3, <2>1, <2>2, <2>3, <2>4
  <1>4. ASSUME NEW k \in Jobs, LeaseLapses(k) \/ DelayPasses(k)
        PROVE  jobs'[j].status # "NONE"
    BY <1>4 DEF LeaseLapses, DelayPasses, TypeOK, Row
  <1>5. QED
    BY <1>1, <1>2, <1>3, <1>4 DEF Next, Tick, EnqueueLook, vars

(* A job that was leased away is a row of the table.                        *)
LEMMA ContestedStep ==
  ASSUME TypeOK, [Next]_vars, \A j \in contested : jobs[j].status # "NONE"
  PROVE  \A j \in contested' : jobs'[j].status # "NONE"
  <1>1. ASSUME NEW j \in contested', j \notin contested
        PROVE  j \in Jobs /\ jobs[j].status # "NONE"
    <2>1. CASE \E w \in Workers : Lease(w)
      BY <1>1, <2>1 DEF Lease
    <2>2. CASE ~\E w \in Workers : Lease(w)
      <3>1. contested' = contested
        BY <2>2 DEF Next, Tick, EnqueueLook, EnqueueInsert, MarkRunning,
                    Complete, CompleteUnanswered, HandlerRaises, Fail, Crash,
                    LeaseLapses, DelayPasses, vars
      <3>2. QED
        BY <1>1, <3>1
    <2>3. QED
      BY <2>1, <2>2
  <1>2. contested \subseteq Jobs
    BY DEF TypeOK
  <1>3. QED
    BY <1>1, <1>2, RowsStay

(* The facts the refinement needs hold in every reachable state.            *)
LEMMA QueueInvariant == Spec => []QueueInv
  <1> DEFINE Stored == \A j \in contested : jobs[j].status # "NONE"
  <1>1. Init => Stored
    BY DEF Init
  <1>2. TypeOK /\ Stored /\ [Next]_vars => Stored'
    BY ContestedStep
  <1>3. Spec => []Stored
    <2> HIDE DEF Stored
    <2>1. QED
      BY <1>1, <1>2, SchedulerTypes, PTL DEF Spec
  <1>4. TypeOK /\ HolderAlone /\ HoldersInv /\ Stored => QueueInv
    BY DEF QueueInv
  <1>5. QED
    BY <1>3, <1>4, SchedulerTypes, HolderIsAlone, HoldersAreBounded, PTL

(* A change of one row that keeps its item and its attempts is a change of   *)
(* one job's state.                                                          *)
LEMMA RowToState ==
  ASSUME TypeOK, NEW j \in Jobs,
         \A k \in Jobs \ {j} : jobs'[k] = jobs[k],
         jobs'[j].item = jobs[j].item,
         jobs'[j].attempts = jobs[j].attempts
  PROVE  PromisedJob'
           = [PromisedJob EXCEPT ![j].state = Promised(jobs'[j].status)]
  <1> DEFINE shown == [PromisedJob EXCEPT ![j].state
                                            = Promised(jobs'[j].status)]
  <1>1. PromisedJob'[j] = shown[j]
    BY DEF PromisedJob
  <1>2. ASSUME NEW k \in Jobs, k # j PROVE PromisedJob'[k] = shown[k]
    BY <1>2 DEF PromisedJob
  <1>3. PromisedJob' = shown
    BY <1>1, <1>2 DEF PromisedJob
  <1>4. QED
    BY <1>3

(* An unchanged status shows an unchanged state.                            *)
LEMMA SameStates ==
  ASSUME \A k \in Jobs : /\ Promised(jobs'[k].status) = Promised(jobs[k].status)
                         /\ jobs'[k].item = jobs[k].item
                         /\ jobs'[k].attempts = jobs[k].attempts
  PROVE  PromisedJob' = PromisedJob
  BY DEF PromisedJob

(* The unique index is the queue's condition on a job that becomes busy.    *)
LEMMA IndexIsFree ==
  ASSUME TypeOK, NEW j \in Jobs, NEW i, ~Collides(i, j)
  PROVE  Queue!Free(i, j)
  <1>1. ASSUME NEW k \in Jobs, Promised(jobs[k].status) \in {"waiting", "taken"}
        PROVE  jobs[k].status \in Active
    BY <1>1 DEF Promised, Active, TypeOK, Row, Statuses, Settled
  <1>2. QED
    BY <1>1 DEF Queue!Free, Queue!Busy, PromisedJob, Collides, ActiveFor

(* A worker's step says nothing of the jobs it does not hold.               *)
LEMMA OthersUnheard ==
  ASSUME NEW w \in Workers, NEW j \in Jobs, held[w] \in {j, NoJob},
         held'[w] \in {j, NoJob},
         \A v \in Workers \ {w} : held'[v] = held[v] /\ pc'[v] = pc[v],
         \A k \in Jobs \ {j} : jobs'[k] = jobs[k]
  PROVE  \A k \in Jobs \ {j} : Unheard(k)' <=> Unheard(k)
  <1> SUFFICES ASSUME NEW k \in Jobs, k # j
               PROVE  Unheard(k)' <=> Unheard(k)
    OBVIOUS
  <1>1. held[w] # k /\ held'[w] # k
    BY SchedulerAssumption
  <1>2. \A v \in Workers : /\ held'[v] = k <=> held[v] = k
                           /\ held[v] = k => pc'[v] = pc[v]
    BY <1>1
  <1>3. jobs'[k] = jobs[k]
    OBVIOUS
  <1>4. QED
    BY <1>2, <1>3 DEF Unheard

(* The insert of an enqueuer adds a job, or does nothing.                   *)
LEMMA InsertAdds ==
  ASSUME QueueInv, NEW e \in Enqueuers, EnqueueInsert(e)
  PROVE  [Queue!Next]_(Queue!vars)
  <1> TypeOK
    BY DEF QueueInv
  <1>1. PICK j \in Jobs :
          /\ jobs[j].status = "NONE"
          /\ jobs' = IF Collides(asked[e], j) THEN jobs
                     ELSE [jobs EXCEPT ![j] =
                             [status |-> "PENDING", item |-> asked[e],
                              attempts |-> 0, ready |-> TRUE,
                              lapsed |-> FALSE]]
    BY DEF EnqueueInsert, FreshId
  <1>2. asked[e] \in Items /\ UNCHANGED <<pc, held, contested>>
    BY DEF EnqueueInsert, workerVars, TypeOK
  <1>3. CASE Collides(asked[e], j)
    BY <1>1, <1>2, <1>3 DEF Queue!vars, PromisedJob, PromisedLoose, Unheard
  <1>4. CASE ~Collides(asked[e], j)
    <2>1. /\ \A k \in Jobs \ {j} : jobs'[k] = jobs[k]
          /\ jobs'[j] = [status |-> "PENDING", item |-> asked[e],
                         attempts |-> 0, ready |-> TRUE, lapsed |-> FALSE]
      BY <1>1, <1>4 DEF TypeOK
    <2>2. PromisedLoose' = PromisedLoose
      BY <1>1, <1>2, <2>1 DEF PromisedLoose, Unheard
    <2>3. PromisedJob' = [PromisedJob EXCEPT ![j] =
                           [state |-> "waiting", item |-> asked[e], tries |-> 0]]
      <3>1. PromisedJob'[j]
              = [state |-> "waiting", item |-> asked[e], tries |-> 0]
        BY <2>1 DEF PromisedJob, Promised
      <3>2. \A k \in Jobs \ {j} : PromisedJob'[k] = PromisedJob[k]
        BY <2>1 DEF PromisedJob
      <3>3. QED
        BY <3>1, <3>2 DEF PromisedJob
    <2>4. PromisedJob[j].state = "absent"
      BY <1>1 DEF PromisedJob, Promised
    <2>5. Queue!Add(j, asked[e])
      BY <1>4, <2>2, <2>3, <2>4, IndexIsFree DEF Queue!Add
    <2>6. QED
      BY <1>2, <2>5 DEF Queue!Next
  <1>5. QED
    BY <1>3, <1>4

(* A lease takes a job; taken from somebody, it is loose.                   *)
LEMMA LeaseTakes ==
  ASSUME QueueInv, NEW w \in Workers, Lease(w)
  PROVE  [Queue!Next]_(Queue!vars)
  <1> TypeOK
    BY DEF QueueInv
  <1>1. PICK j \in Jobs :
          /\ Candidate(j)
          /\ jobs' = [jobs EXCEPT ![j].status = "LEASED", ![j].lapsed = FALSE,
                                  ![j].attempts = @ + 1]
          /\ held' = [held EXCEPT ![w] = j]
          /\ contested' = IF jobs[j].status = "LEASED" /\ Holders(j) # {}
                          THEN contested \cup {j} ELSE contested
    BY DEF Lease, FirstInLine
  <1>2. /\ jobs'[j].status = "LEASED" /\ jobs'[j].item = jobs[j].item
        /\ jobs'[j].attempts = jobs[j].attempts + 1
        /\ \A k \in Jobs \ {j} : jobs'[k] = jobs[k]
        /\ held[w] = NoJob /\ held'[w] = j
        /\ \A v \in Workers \ {w} : held'[v] = held[v] /\ pc'[v] = pc[v]
    BY <1>1 DEF Lease, TypeOK, Row
  <1>3. \A k \in Jobs : Unheard(k)' <=> Unheard(k)
    <2>1. ~Unheard(j) /\ ~Unheard(j)'
      BY <1>1, <1>2 DEF Unheard, Candidate
    <2>2. QED
      BY <1>2, <2>1, OthersUnheard
  <1>4. PromisedJob[j].state \in {"waiting", "taken"}
    BY <1>1 DEF Candidate, PromisedJob, Promised
  <1>5. \/ PromisedLoose' = PromisedLoose
        \/ /\ PromisedJob[j].state = "taken"
           /\ PromisedLoose' = PromisedLoose \cup {j}
    <2>1. CASE jobs[j].status = "LEASED" /\ Holders(j) # {}
      <3>1. PromisedJob[j].state = "taken"
        BY <2>1 DEF PromisedJob, Promised
      <3>2. PromisedLoose' = PromisedLoose \cup {j}
        BY <1>1, <1>3, <2>1 DEF PromisedLoose
      <3>3. QED
        BY <3>1, <3>2
    <2>2. CASE ~(jobs[j].status = "LEASED" /\ Holders(j) # {})
      BY <1>1, <1>3, <2>2 DEF PromisedLoose
    <2>3. QED
      BY <2>1, <2>2
  <1>6. PromisedJob' = [PromisedJob EXCEPT ![j].state = "taken",
                                           ![j].tries = @ + 1]
    <2> DEFINE shown == [PromisedJob EXCEPT ![j].state = "taken",
                                            ![j].tries = @ + 1]
    <2>1. PromisedJob'[j] = shown[j]
      BY <1>2 DEF PromisedJob, Promised
    <2>2. ASSUME NEW k \in Jobs, k # j PROVE PromisedJob'[k] = shown[k]
      BY <1>2, <2>2 DEF PromisedJob
    <2>3. PromisedJob' = shown
      BY <2>1, <2>2 DEF PromisedJob
    <2>4. QED
      BY <2>3
  <1>7. Queue!Take(j)
    BY <1>4, <1>5, <1>6 DEF Queue!Take, Queue!Busy
  <1>8. QED
    BY <1>7 DEF Queue!Next

(* What a worker's step that is not a lease does to the row it holds: the    *)
(* status it leaves there is one a report may leave.                         *)
WorkerStep(w) ==
  \/ MarkRunning(w) \/ Complete(w) \/ CompleteUnanswered(w)
  \/ HandlerRaises(w) \/ Fail(w) \/ Crash(w)

LEMMA WorkerRow ==
  ASSUME TypeOK, NEW w \in Workers, WorkerStep(w)
  PROVE  /\ held[w] \in Jobs /\ pc[w] # "idle" /\ contested' = contested
         /\ held'[w] \in {held[w], NoJob}
         /\ \A v \in Workers \ {w} : held'[v] = held[v] /\ pc'[v] = pc[v]
         /\ \A k \in Jobs \ {held[w]} : jobs'[k] = jobs[k]
         /\ jobs'[held[w]].item = jobs[held[w]].item
         /\ jobs'[held[w]].attempts = jobs[held[w]].attempts
         /\ \/ jobs' = jobs
            \/ /\ jobs'[held[w]].status
                    \in {"RUNNING", "PENDING", "SUCCEEDED", "FAILED"}
               /\ jobs'[held[w]].status = "PENDING" =>
                    jobs[held[w]].attempts < MaxAttempts
               /\ jobs'[held[w]].status = "FAILED" =>
                    jobs[held[w]].attempts >= MaxAttempts
               /\ jobs'[held[w]].status \in Active =>
                    \/ jobs[held[w]].status \in Active
                    \/ ~Collides(jobs[held[w]].item, held[w])
  <1>1. pc[w] # "idle" /\ contested' = contested
    BY DEF WorkerStep, MarkRunning, Complete, CompleteUnanswered,
           HandlerRaises, Fail, Crash
  <1>2. held[w] \in Jobs /\ jobs[held[w]] \in Row
    BY <1>1, BusyHolds
  <1>3. /\ held'[w] \in {held[w], NoJob}
        /\ \A v \in Workers \ {w} : held'[v] = held[v] /\ pc'[v] = pc[v]
    BY DEF WorkerStep, MarkRunning, Complete, CompleteUnanswered,
           HandlerRaises, Fail, Crash, EndTick, TypeOK
  <1>4. jobs' = jobs \/ \E to \in {"RUNNING", "SUCCEEDED", "FAILED"} :
                          jobs' = [jobs EXCEPT ![held[w]].status = to]
                     \/ jobs' = [jobs EXCEPT ![held[w]].status = "PENDING",
                                             ![held[w]].ready = FALSE]
    BY DEF WorkerStep, MarkRunning, Complete, CompleteUnanswered,
           HandlerRaises, Fail, Crash
  <1>5. /\ \A k \in Jobs \ {held[w]} : jobs'[k] = jobs[k]
        /\ jobs'[held[w]].item = jobs[held[w]].item
        /\ jobs'[held[w]].attempts = jobs[held[w]].attempts
        /\ \/ jobs' = jobs
           \/ jobs'[held[w]].status
                \in {"RUNNING", "PENDING", "SUCCEEDED", "FAILED"}
    BY <1>2, <1>4 DEF TypeOK, Row
  <1>6. \/ jobs' = jobs
        \/ /\ jobs'[held[w]].status = "PENDING" =>
                jobs[held[w]].attempts < MaxAttempts
           /\ jobs'[held[w]].status = "FAILED" =>
                jobs[held[w]].attempts >= MaxAttempts
           /\ jobs'[held[w]].status \in Active =>
                \/ jobs[held[w]].status \in Active
                \/ ~Collides(jobs[held[w]].item, held[w])
    <2>1. CASE MarkRunning(w)
      <3>1. jobs' = jobs \/ /\ jobs'[held[w]].status = "RUNNING"
                            /\ \/ jobs[held[w]].status \in Active
                               \/ ~Collides(jobs[held[w]].item, held[w])
        BY <1>2, <2>1 DEF MarkRunning, TypeOK, Row
      <3>2. QED
        BY <3>1
    <2>2. CASE Complete(w) \/ CompleteUnanswered(w)
      <3>1. jobs'[held[w]].status = "SUCCEEDED"
        BY <1>2, <2>2 DEF Complete, CompleteUnanswered, TypeOK, Row
      <3>2. QED
        BY <3>1 DEF Active
    <2>3. CASE HandlerRaises(w) \/ Crash(w)
      BY <2>3 DEF HandlerRaises, Crash
    <2>4. CASE Fail(w)
      BY <1>2, <2>4, SchedulerAssumption
      DEF Fail, OutOfAttempts, TypeOK, Active, Row
    <2>5. QED
      BY <2>1, <2>2, <2>3, <2>4 DEF WorkerStep
  <1>7. QED
    BY <1>1, <1>2, <1>3, <1>5, <1>6

(* On a job that was leased away every report is out of turn.                *)
LEMMA ContestedReports ==
  ASSUME QueueInv, NEW w \in Workers, WorkerStep(w), held[w] \in contested
  PROVE  [Queue!Next]_(Queue!vars)
  <1> DEFINE j == held[w]
  <1> TypeOK
    BY DEF QueueInv
  <1>1. j \in Jobs /\ contested' = contested
    BY WorkerRow
  <1>2. PromisedLoose' = PromisedLoose
    <2>1. \A k \in Jobs \ {j} : Unheard(k)' <=> Unheard(k)
      BY WorkerRow, OthersUnheard
    <2>2. QED
      BY <1>1, <2>1 DEF PromisedLoose
  <1>3. CASE jobs' = jobs
    BY <1>2, <1>3 DEF Queue!vars, PromisedJob
  <1>4. CASE jobs' # jobs
    <2>1. PromisedJob'
            = [PromisedJob EXCEPT ![j].state = Promised(jobs'[j].status)]
      BY WorkerRow, RowToState
    <2>2. /\ Promised(jobs'[j].status)
               \in {"taken", "waiting", "succeeded", "failed"}
          /\ Promised(jobs'[j].status) = "waiting" =>
               PromisedJob[j].tries < MaxAttempts
          /\ Promised(jobs'[j].status) = "failed" =>
               PromisedJob[j].tries >= MaxAttempts
      BY <1>1, <1>4, WorkerRow DEF Promised, PromisedJob
    <2>3. j \in PromisedLoose /\ PromisedJob[j].state # "absent"
      <3>1. jobs[j].status # "NONE"
        BY DEF QueueInv
      <3>2. QED
        BY <1>1, <3>1 DEF PromisedLoose, PromisedJob, Promised, TypeOK, Row,
                          Statuses, Active, Settled
    <2>4. ASSUME PromisedJob[j].state \notin {"waiting", "taken"},
                 Promised(jobs'[j].status) \in {"waiting", "taken"}
          PROVE  Queue!Free(PromisedJob[j].item, j)
      <3>1. jobs[j].status \notin Active
        BY <1>1, <2>4 DEF PromisedJob, Promised, Active
      <3>2. jobs'[j].status \in Active
        BY <1>4, <2>4, WorkerRow DEF Promised, Active
      <3>3. ~Collides(jobs[j].item, j)
        BY <1>4, <3>1, <3>2, WorkerRow
      <3>4. PromisedJob[j].item = jobs[j].item
        BY <1>1 DEF PromisedJob
      <3>5. QED
        BY <1>1, <3>3, <3>4, IndexIsFree
    <2>5. PromisedJob'[j].state = Promised(jobs'[j].status)
      BY <1>1 DEF PromisedJob
    <2> HIDE DEF j
    <2>6. \/ \E to \in {"waiting", "succeeded", "failed"} : Queue!Outcome(j, to)
          \/ PromisedJob' = [PromisedJob EXCEPT ![j].state = "taken"]
      BY <2>1, <2>2 DEF Queue!Outcome
    <2>7. Queue!LateReport(j)
      BY <1>2, <2>3, <2>4, <2>5, <2>6 DEF Queue!LateReport, Queue!Busy
    <2>8. QED
      BY <1>1, <2>7 DEF Queue!Next
  <1>5. QED
    BY <1>3, <1>4

(* On any other job the worker that holds it reports once, or a second time  *)
(* when the answer to its complete was lost.                                 *)
LEMMA HolderReports ==
  ASSUME QueueInv, NEW w \in Workers, WorkerStep(w), held[w] \notin contested
  PROVE  [Queue!Next]_(Queue!vars)
  <1> TypeOK /\ HolderAlone
    BY DEF QueueInv
  <1>1. PICK j \in Jobs : j = held[w]
    BY WorkerRow
  <1>2. /\ \A v \in Workers : held[v] = j <=> v = w
        /\ pc[w] # "idle" /\ jobs[j] \in Row
        /\ pc[w] = "leased"  => jobs[j].status = "LEASED"
        /\ pc[w] = "running" => jobs[j].status = "RUNNING"
        /\ pc[w] = "failing" => jobs[j].status \in {"RUNNING", "SUCCEEDED"}
    BY <1>1, WorkerRow DEF HolderAlone, TypeOK
  <1>3. /\ j \in PromisedLoose <=> Unheard(j)
        /\ ~Unheard(j)' => PromisedLoose' = PromisedLoose \ {j}
        /\ Unheard(j)' => PromisedLoose' = PromisedLoose \cup {j}
    <2>1. contested' = contested /\ j \notin contested
      BY <1>1, WorkerRow
    <2>2. \A k \in Jobs \ {j} : Unheard(k)' <=> Unheard(k)
      BY <1>1, WorkerRow, OthersUnheard
    <2>3. QED
      BY <2>1, <2>2 DEF PromisedLoose
  <1>4. /\ PromisedJob'
             = [PromisedJob EXCEPT ![j].state = Promised(jobs'[j].status)]
        /\ PromisedJob[j].state = Promised(jobs[j].status)
        /\ PromisedJob[j].tries = jobs[j].attempts
        /\ PromisedJob[j].item = jobs[j].item
        /\ PromisedJob'[j].state = Promised(jobs'[j].status)
    BY <1>1, WorkerRow, RowToState DEF PromisedJob
  <1>5. Unheard(j) <=> jobs[j].status = "SUCCEEDED" /\ pc[w] = "failing"
    BY <1>2 DEF Unheard
  <1>6. EndTick(w) => ~Unheard(j)'
    BY <1>2, SchedulerAssumption DEF Unheard, EndTick, TypeOK
  <1>7. ASSUME jobs' = jobs, EndTick(w) PROVE Queue!Forget(j)
    <2>1. PromisedJob' = PromisedJob
      BY <1>7 DEF PromisedJob
    <2>2. QED
      BY <1>3, <1>6, <1>7, <2>1 DEF Queue!Forget
  <1>8. CASE MarkRunning(w)
    <2>1. jobs[j].status = "LEASED" /\ pc[w] = "leased"
      BY <1>2, <1>8 DEF MarkRunning
    <2>2. jobs' = [jobs EXCEPT ![j].status = "RUNNING"]
      BY <1>1, <1>8, <2>1 DEF MarkRunning, Active
    <2>3. jobs'[j].status = "RUNNING"
      BY <1>2, <2>2 DEF TypeOK, Row
    <2>4. ~Unheard(j) /\ ~Unheard(j)'
      BY <2>1, <2>3 DEF Unheard
    <2>5. PromisedLoose' = PromisedLoose
      BY <1>3, <2>4
    <2>6. PromisedJob' = PromisedJob
      BY <1>1, <2>1, <2>3, SameStates, WorkerRow DEF Promised
    <2>7. QED
      BY <2>5, <2>6 DEF Queue!vars
  <1>9. CASE Complete(w) \/ CompleteUnanswered(w)
    <2>1. jobs[j].status = "RUNNING" /\ jobs'[j].status = "SUCCEEDED"
      BY <1>1, <1>2, <1>9 DEF Complete, CompleteUnanswered, TypeOK, Row
    <2>2. ~Unheard(j)
      BY <2>1 DEF Unheard
    <2>3. PromisedLoose' = PromisedLoose \/ PromisedLoose' = PromisedLoose \cup {j}
      BY <1>3, <2>2
    <2>4. Queue!Outcome(j, "succeeded")
      BY <1>4, <2>1 DEF Queue!Outcome, Promised
    <2>5. Queue!Report(j)
      BY <1>4, <2>1, <2>3, <2>4 DEF Queue!Report, Promised
    <2>6. QED
      BY <2>5 DEF Queue!Next
  <1>10. CASE HandlerRaises(w)
    <2>1. jobs' = jobs /\ jobs[j].status = "RUNNING"
      BY <1>2, <1>10 DEF HandlerRaises
    <2>2. ~Unheard(j) /\ ~Unheard(j)'
      BY <2>1 DEF Unheard
    <2>3. PromisedLoose' = PromisedLoose /\ PromisedJob' = PromisedJob
      BY <1>3, <2>1, <2>2 DEF PromisedJob
    <2>4. QED
      BY <2>3 DEF Queue!vars
  <1>11. CASE Crash(w)
    BY <1>7, <1>11 DEF Crash, Queue!Next
  <1>12. CASE Fail(w)
    <2>1. EndTick(w) /\ pc[w] = "failing"
      BY <1>12 DEF Fail
    <2>2. CASE jobs' = jobs
      BY <1>7, <2>1, <2>2 DEF Queue!Next
    <2>3. CASE jobs' # jobs
      <3>1. \/ /\ jobs'[j].status = "FAILED"
               /\ jobs[j].attempts >= MaxAttempts
            \/ /\ jobs'[j].status = "PENDING"
               /\ jobs[j].attempts < MaxAttempts
               /\ \/ jobs[j].status \in Active
                  \/ ~Collides(jobs[j].item, j)
        BY <1>1, <1>2, <1>12, <2>3, SchedulerAssumption
        DEF Fail, OutOfAttempts, TypeOK, Row
      <3>2. PICK to \in {"waiting", "failed"} :
              to = Promised(jobs'[j].status) /\ Queue!Outcome(j, to)
        BY <1>4, <3>1 DEF Queue!Outcome, Promised
      <3>3. PromisedLoose' = PromisedLoose \ {j}
        BY <1>3, <1>6, <2>1
      <3>4. CASE jobs[j].status = "RUNNING"
        <4>1. PromisedLoose' = PromisedLoose
          BY <1>3, <1>5, <3>3, <3>4
        <4>2. Queue!Report(j)
          BY <1>4, <3>2, <3>4, <4>1 DEF Queue!Report, Promised
        <4>3. QED
          BY <4>2 DEF Queue!Next
      <3>5. CASE jobs[j].status = "SUCCEEDED"
        <4>1. j \in PromisedLoose /\ PromisedJob[j].state = "succeeded"
          BY <1>3, <1>4, <1>5, <2>1, <3>5 DEF Promised
        <4>2. PromisedJob'[j].state \in Queue!Busy =>
                Queue!Free(PromisedJob[j].item, j)
          <5>1. CASE jobs'[j].status = "PENDING"
            BY <1>4, <3>1, <3>5, <5>1, IndexIsFree DEF Active
          <5>2. CASE jobs'[j].status = "FAILED"
            BY <1>4, <5>2 DEF Promised, Queue!Busy
          <5>3. QED
            BY <3>1, <5>1, <5>2
        <4>3. Queue!LateReport(j)
          BY <3>2, <3>3, <4>1, <4>2 DEF Queue!LateReport
        <4>4. QED
          BY <4>3 DEF Queue!Next
      <3>6. QED
        BY <1>2, <2>1, <3>4, <3>5
    <2>4. QED
      BY <2>2, <2>3
  <1>13. QED
    BY <1>8, <1>9, <1>10, <1>11, <1>12 DEF WorkerStep

(* Every step of the table is a step of the queue, or none.                 *)
LEMMA StepIsPromised ==
  ASSUME QueueInv, [Next]_vars PROVE [Queue!Next]_(Queue!vars)
  <1>1. ASSUME \A k \in Jobs : /\ jobs'[k].status = jobs[k].status
                               /\ jobs'[k].item = jobs[k].item
                               /\ jobs'[k].attempts = jobs[k].attempts,
               UNCHANGED <<pc, held, contested>>
        PROVE  UNCHANGED Queue!vars
    <2>1. PromisedJob' = PromisedJob
      BY <1>1, SameStates
    <2>2. PromisedLoose' = PromisedLoose
      BY <1>1 DEF PromisedLoose, Unheard
    <2>3. QED
      BY <2>1, <2>2 DEF Queue!vars
  <1>2. ASSUME NEW e \in Enqueuers, NEW i \in Items, EnqueueLook(e, i)
        PROVE  UNCHANGED Queue!vars
    BY <1>1, <1>2 DEF EnqueueLook, workerVars
  <1>3. ASSUME NEW j \in Jobs, LeaseLapses(j) \/ DelayPasses(j)
        PROVE  UNCHANGED Queue!vars
    BY <1>1, <1>3 DEF LeaseLapses, DelayPasses, workerVars, QueueInv, TypeOK,
                      Row
  <1>4. ASSUME NEW w \in Workers, WorkerStep(w)
        PROVE  [Queue!Next]_(Queue!vars)
    BY <1>4, ContestedReports, HolderReports
  <1>5. CASE UNCHANGED vars
    BY <1>1, <1>5 DEF vars
  <1>6. QED
    BY <1>2, <1>3, <1>4, <1>5, InsertAdds, LeaseTakes DEF Next, Tick, WorkerStep

(* The table with its workers, leases, crashes and late reports implements   *)
(* the queue without them.                                                   *)
THEOREM SchedulerImplementsJobQueue == Spec => ImplementsJobQueue
  <1>1. Init => Queue!Init
    BY DEF Init, Queue!Init, PromisedJob, PromisedLoose, Promised, Unheard, NoRow
  <1>2. QueueInv /\ [Next]_vars => [Queue!Next]_(Queue!vars)
    BY StepIsPromised
  <1>3. QED
    BY <1>1, <1>2, QueueInvariant, PTL DEF Spec, ImplementsJobQueue, Queue!Spec

-----------------------------------------------------------------------------
(* Stranded jobs.                                                           *)

(* The job was left RUNNING by a worker that died, and it is the active job *)
(* of its item.                                                             *)
Blocks(j, i) == Stranded(j) /\ jobs[j].item = i /\ ActiveFor(i) = {j}

(* Only a holder changes a row that is RUNNING, and lease passes it by.     *)
LEMMA StrandedStep ==
  ASSUME TypeOK, NEW j \in Jobs, Stranded(j), [Next]_vars
  PROVE  Stranded(j)' /\ jobs'[j].item = jobs[j].item
  <1>1. /\ jobs[j].status = "RUNNING" /\ jobs[j] \in Row
        /\ \A w \in Workers : held[w] # j
    BY DEF Stranded, Holders, TypeOK
  <1>2. SUFFICES /\ jobs'[j].status = "RUNNING" /\ jobs'[j].item = jobs[j].item
                 /\ \A w \in Workers : held'[w] # j
    BY DEF Stranded, Holders
  <1>3. ASSUME NEW e \in Enqueuers,
               EnqueueInsert(e) \/ \E i \in Items : EnqueueLook(e, i)
        PROVE  jobs'[j] = jobs[j] /\ held' = held
    BY <1>1, <1>3
    DEF EnqueueInsert, EnqueueLook, FreshId, workerVars, TypeOK
  <1>4. ASSUME NEW w \in Workers, Tick(w) \/ Crash(w)
        PROVE  /\ jobs'[j] = jobs[j]
               /\ \A v \in Workers : held'[v] # j
    <2>1. CASE Lease(w)
      <3>1. PICK k \in Jobs :
              /\ FirstInLine(k)
              /\ jobs' = [jobs EXCEPT ![k].status = "LEASED",
                                      ![k].lapsed = FALSE,
                                      ![k].attempts = @ + 1]
              /\ held' = [held EXCEPT ![w] = k]
        BY <2>1 DEF Lease
      <3>2. k # j
        BY <1>1, <3>1 DEF FirstInLine, Candidate
      <3>3. QED
        BY <1>1, <3>1, <3>2 DEF TypeOK
    <2>2. CASE ~Lease(w)
      <3>1. /\ pc[w] # "idle" /\ held[w] # j
            /\ held' = held \/ held' = [held EXCEPT ![w] = NoJob]
        BY <1>1, <1>4, <2>2
        DEF Tick, MarkRunning, Complete, CompleteUnanswered, HandlerRaises,
            Fail, Crash, EndTick
      <3>2. jobs'[j] = jobs[j]
        BY <1>1, <1>4, <2>2, <3>1
        DEF Tick, MarkRunning, Complete, CompleteUnanswered, HandlerRaises,
            Fail, Crash, TypeOK
      <3>3. NoJob # j
        BY SchedulerAssumption
      <3>4. QED
        BY <1>1, <3>1, <3>2, <3>3 DEF TypeOK
    <2>3. QED
      BY <2>1, <2>2
  <1>5. ASSUME NEW k \in Jobs, LeaseLapses(k) \/ DelayPasses(k)
        PROVE  jobs'[j] = jobs[j] /\ held' = held
    BY <1>1, <1>5 DEF LeaseLapses, DelayPasses, workerVars, TypeOK
  <1>6. CASE UNCHANGED vars
    BY <1>1, <1>6 DEF vars
  <1>7. QED
    BY <1>1, <1>3, <1>4, <1>5, <1>6 DEF Next

(* It then never runs again, and no later job for its item becomes active:   *)
(* an item with a source is not ingested any more once its worker has died,  *)
(* which is why JobsSettle excepts these jobs.                               *)
THEOREM StrandedForGood ==
  ASSUME NEW j \in Jobs, NEW i \in Indexed
  PROVE  Spec => [](Stranded(j) /\ jobs[j].item = i => []Blocks(j, i))
  <1>1. TypeOK /\ OneActiveJobPerItem /\ Stranded(j) /\ jobs[j].item = i
          => Blocks(j, i)
    BY DEF Blocks, Stranded, OneActiveJobPerItem, ActiveFor, Active
  <1>2. TypeOK /\ OneActiveJobPerItem' /\ Blocks(j, i) /\ [Next]_vars
          => Blocks(j, i)'
    <2>1. SUFFICES ASSUME TypeOK, OneActiveJobPerItem', Blocks(j, i), [Next]_vars
                   PROVE  Blocks(j, i)'
      OBVIOUS
    <2>2. Stranded(j)' /\ jobs'[j].item = i
      BY <2>1, StrandedStep DEF Blocks
    <2>3. jobs'[j].status \in Active
      BY <2>2 DEF Stranded, Active
    <2>4. ActiveFor(i)' = {j}
      BY <2>1, <2>2, <2>3 DEF OneActiveJobPerItem, ActiveFor
    <2>5. QED
      BY <2>2, <2>4 DEF Blocks
  <1>3. QED
    BY <1>1, <1>2, SchedulerTypes, ActiveJobsAreUnique, PTL DEF Spec

=============================================================================
