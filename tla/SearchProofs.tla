---------------------------- MODULE SearchProofs ----------------------------
(***************************************************************************)
(* What a search session promises for any number of corrections, calls and *)
(* questions.                                                              *)
(***************************************************************************)
EXTENDS SearchSession, FiniteSetTheorems, TLAPS

(* Where a retrieval may leave a session.                                   *)
Delivered == {"RECEIVED", "CLARIFICATION_REQUIRED", "COMPLETED",
              "COMPLETED_DEGRADED", "FAILED", "CANCELLED"}

(* The steps a retrieval tries.                                             *)
RetrievalSteps == {"FAST_RETRIEVAL", "PARTIAL_RESULTS_READY", "RANKING",
                   "COMPLETED", "COMPLETED_DEGRADED"}

(* None of them leads away from where a retrieval may have left a session.  *)
LEMMA DeliveredStay ==
  ASSUME NEW s \in Delivered, NEW t \in RetrievalSteps
  PROVE  Try(s, t) = s
<1>1. t \notin Allowed[s]
  <2>1. CASE s = "RECEIVED"
    BY <2>1 DEF Allowed, RetrievalSteps
  <2>2. CASE s = "CLARIFICATION_REQUIRED"
    BY <2>2 DEF Allowed, RetrievalSteps
  <2>3. CASE s = "COMPLETED"
    BY <2>3 DEF Allowed, RetrievalSteps
  <2>4. CASE s = "COMPLETED_DEGRADED"
    BY <2>4 DEF Allowed, RetrievalSteps
  <2>5. CASE s = "FAILED"
    BY <2>5 DEF Allowed
  <2>6. CASE s = "CANCELLED"
    BY <2>6 DEF Allowed
  <2> QED
    BY <2>1, <2>2, <2>3, <2>4, <2>5, <2>6 DEF Delivered
<1> QED
  BY <1>1 DEF Try, CanTransition

(* The way of a retrieval that has begun, or that finds a search in          *)
(* progress, through the transition table.                                   *)
LEMMA RetrievalWay ==
  /\ \A s \in {"FAST_PARSING", "GAP_ANALYSIS", "WAITING_USER_ANSWER"} :
       Try(s, "FAST_RETRIEVAL") = "FAST_RETRIEVAL"
  /\ Try("FAST_RETRIEVAL", "PARTIAL_RESULTS_READY") = "FAST_RETRIEVAL"
  /\ \A s \in InProgress :
       /\ Try(s, "FAST_RETRIEVAL") = s
       /\ Try(s, "PARTIAL_RESULTS_READY") = "PARTIAL_RESULTS_READY"
  /\ \A s \in InProgress \cup {"FAST_RETRIEVAL"} : Try(s, "RANKING") = "RANKING"
  /\ \A s \in {"COMPLETED", "COMPLETED_DEGRADED"} : Try("RANKING", s) = s
<1> USE DEF Try, CanTransition
<1>1. \A s \in {"FAST_PARSING", "GAP_ANALYSIS", "WAITING_USER_ANSWER"} :
        "FAST_RETRIEVAL" \in Allowed[s]
  BY DEF Allowed
<1>2. /\ "PARTIAL_RESULTS_READY" \notin Allowed["FAST_RETRIEVAL"]
      /\ "RANKING" \in Allowed["FAST_RETRIEVAL"]
  BY DEF Allowed
<1>3. /\ "FAST_RETRIEVAL" \notin Allowed["LLM_RUNNING"]
      /\ "PARTIAL_RESULTS_READY" \in Allowed["LLM_RUNNING"]
      /\ "RANKING" \in Allowed["LLM_RUNNING"]
  BY DEF Allowed
<1>4. /\ "FAST_RETRIEVAL" \notin Allowed["PARTIAL_RESULTS_READY"]
      /\ "RANKING" \in Allowed["PARTIAL_RESULTS_READY"]
  BY DEF Allowed
<1>5. {"COMPLETED", "COMPLETED_DEGRADED"} \subseteq Allowed["RANKING"]
  BY DEF Allowed
<1>6. Try("FAST_RETRIEVAL", "PARTIAL_RESULTS_READY") = "FAST_RETRIEVAL"
  BY <1>2
<1>7. \A s \in {"FAST_PARSING", "GAP_ANALYSIS", "WAITING_USER_ANSWER"} :
        Try(s, "FAST_RETRIEVAL") = "FAST_RETRIEVAL"
  BY <1>1
<1>8. \A s \in InProgress : /\ Try(s, "FAST_RETRIEVAL") = s
                            /\ Try(s, "PARTIAL_RESULTS_READY")
                                 = "PARTIAL_RESULTS_READY"
  BY <1>3, <1>4 DEF InProgress
<1>9. \A s \in InProgress \cup {"FAST_RETRIEVAL"} :
        Try(s, "RANKING") = "RANKING"
  BY <1>2, <1>3, <1>4 DEF InProgress
<1>10. \A s \in {"COMPLETED", "COMPLETED_DEGRADED"} : Try("RANKING", s) = s
  BY <1>5
<1> QED
  BY <1>6, <1>7, <1>8, <1>9, <1>10

(* A retrieval ends a search in progress or waiting, whatever it finds, and *)
(* never moves one that is over.                                            *)
LEMMA RetrievalDelivers ==
  ASSUME NEW s \in Resting \cup {"FAST_PARSING", "GAP_ANALYSIS"},
         NEW degraded \in BOOLEAN, NEW found \in BOOLEAN
  PROVE  /\ Retrieved(s, degraded, found) \in Delivered
         /\ s \in {"CANCELLED", "FAILED"} => Retrieved(s, degraded, found) = s
<1>1. CASE s \in Delivered
  <2>1. \A t \in RetrievalSteps : Try(s, t) = s
    BY <1>1, DeliveredStay
  <2>2. Retrieved(s, degraded, found) = s
    BY <2>1 DEF Retrieved, RetrievalSteps
  <2> QED
    BY <1>1, <2>2
<1>2. CASE s \in InProgress \cup {"FAST_PARSING", "GAP_ANALYSIS",
                                 "WAITING_USER_ANSWER"}
  <2>1. Retrieved(s, degraded, found) \in {"COMPLETED", "COMPLETED_DEGRADED"}
    <3>1. CASE s \in InProgress
      BY <3>1, RetrievalWay DEF Retrieved, InProgress
    <3>2. CASE s \in {"FAST_PARSING", "GAP_ANALYSIS", "WAITING_USER_ANSWER"}
      BY <3>2, RetrievalWay DEF Retrieved
    <3> QED
      BY <1>2, <3>1, <3>2
  <2> QED
    BY <1>2, <2>1 DEF Delivered, InProgress
<1> QED
  BY <1>1, <1>2 DEF Resting, Delivered, InProgress

(* Whatever was found, the same holds of the retrieval of a step.           *)
LEMMA RetrieveDelivers ==
  ASSUME TypeOK, NEW degraded \in BOOLEAN, Retrieve(degraded)
  PROVE  /\ status' \in Delivered
         /\ status \in {"CANCELLED", "FAILED"} => status' = status
<1>1. PICK found \in BOOLEAN : status' = Retrieved(status, degraded, found)
  BY DEF Retrieve
<1> QED
  BY <1>1, RetrievalDelivers DEF TypeOK

(* Refusing a message does so too, except that a session that waits for an  *)
(* answer cannot be refused and goes on waiting.                            *)
LEMMA RefusalDelivers ==
  ASSUME NEW s \in Resting \cup {"FAST_PARSING"}
  PROVE  /\ Refused(s) \in Delivered \cup {"WAITING_USER_ANSWER"}
         /\ Refused(s) = "WAITING_USER_ANSWER" => s = "WAITING_USER_ANSWER"
         /\ s \in {"CANCELLED", "FAILED"} => Refused(s) = s
<1> USE DEF Refused, Try, CanTransition, Delivered
<1>1. CASE s \in {"RECEIVED", "CLARIFICATION_REQUIRED", "FAST_PARSING"}
  BY <1>1 DEF Allowed
<1>2. CASE s \in InProgress
  BY <1>2 DEF Allowed, InProgress
<1>3. CASE s \in {"WAITING_USER_ANSWER", "COMPLETED", "COMPLETED_DEGRADED"}
  BY <1>3 DEF Allowed
<1>4. CASE s \in {"FAILED", "CANCELLED"}
  BY <1>4 DEF Allowed
<1> QED
  BY <1>1, <1>2, <1>3, <1>4 DEF Resting, InProgress

(* A session over cannot take another message, one in progress or waiting   *)
(* always can, and only one that is complete resists being cancelled.       *)
LEMMA WhoMovesOn ==
  /\ \A s \in {"CANCELLED", "FAILED"} :
       ~CanTransition(s, "FAST_PARSING") /\ Try(s, "CANCELLED") = s
  /\ \A s \in InProgress \cup {"WAITING_USER_ANSWER"} :
       CanTransition(s, "FAST_PARSING") /\ Try(s, "CANCELLED") = "CANCELLED"
  /\ \A s \in Resting : Try(s, "CANCELLED") \in Delivered
<1> USE DEF CanTransition, Try, Allowed, InProgress
<1>1. \A s \in {"CANCELLED", "FAILED"} :
        ~CanTransition(s, "FAST_PARSING") /\ Try(s, "CANCELLED") = s
  OBVIOUS
<1>2. \A s \in InProgress \cup {"WAITING_USER_ANSWER"} :
        CanTransition(s, "FAST_PARSING") /\ Try(s, "CANCELLED") = "CANCELLED"
  OBVIOUS
<1>3. \A s \in Resting : Try(s, "CANCELLED") \in Delivered
  BY DEF Resting, Delivered
<1> QED
  BY <1>1, <1>2, <1>3

-----------------------------------------------------------------------------
(* Versions not reached yet have no job, no task and no call: without it a  *)
(* late answer could mark a job that does not exist yet.                    *)
Unborn ==
  \A v \in Versions :
    v > version => job[v] = "none" /\ ~task[v] /\ calls[v] = 0

(* clarification_count is the number of versions that answers opened.       *)
AnswersCounted == IsFiniteSet(replies) /\ Cardinality(replies) = answered

(* While a session waits, the query on screen has a question; of all its    *)
(* questions fewer than the limit followed an answer, also when it does not *)
(* wait.                                                                    *)
WaitsWithQuestion == status = "WAITING_USER_ANSWER" => version \in asked
FollowUpsWithin ==
  asked # {} => Cardinality(asked \cap replies) < MaxClarifications

QuestionInv == AnswersCounted /\ WaitsWithQuestion /\ FollowUpsWithin

SearchInv == TypeOK /\ Unborn /\ InProgressHasJob /\ QuestionInv

(* What the pipeline leaves behind when it took query v, with the jobs it   *)
(* was given and the number of answers it was told.                         *)
Piped(v, jobs, count) ==
  /\ status' \in Resting
  /\ asked' \in {asked, asked \cup {v}}
  /\ asked' = asked \/ status' = "WAITING_USER_ANSWER"
  /\ job' \in [Versions -> JobStatus]
  /\ \A w \in Versions : job'[w] # jobs[w] => w = v /\ job'[w] = "RUNNING"
  /\ task' \in [Versions -> BOOLEAN]
  /\ \A w \in Versions : task'[w] # task[w] => w = v
  /\ status' \in InProgress => job'[v] = "RUNNING" /\ task'[v]
  /\ status' = "WAITING_USER_ANSWER" =>
       v \in asked' /\ count < MaxClarifications

(* Showing results, asking and calling the model each leave such a state.   *)
LEMMA PipelineParts ==
  ASSUME TypeOK, NEW v \in Versions, NEW jobs \in [Versions -> JobStatus],
         NEW count, NEW s \in {"FAST_PARSING", "GAP_ANALYSIS"}
  PROVE  /\ ShowResults(s, jobs) => Piped(v, jobs, count)
         /\ AskUser(v, s, jobs, count) => Piped(v, jobs, count)
         /\ RouteToLlm(v, s, jobs) => Piped(v, jobs, count)
<1>1. ASSUME ShowResults(s, jobs) PROVE Piped(v, jobs, count)
  <2>1. PICK found \in BOOLEAN : status' = Retrieved(s, FALSE, found)
    BY <1>1 DEF ShowResults
  <2>2. status' \in Delivered
    BY <2>1, RetrievalDelivers
  <2> QED
    BY <1>1, <2>2
    DEF ShowResults, Piped, TypeOK, Delivered, Resting, InProgress
<1>2. ASSUME AskUser(v, s, jobs, count) PROVE Piped(v, jobs, count)
  BY <1>2 DEF AskUser, MayAsk, Piped, TypeOK, Resting, InProgress
<1>3. ASSUME RouteToLlm(v, s, jobs) PROVE Piped(v, jobs, count)
  BY <1>3 DEF RouteToLlm, Piped, TypeOK, Resting, InProgress, JobStatus
<1> QED
  BY <1>1, <1>2, <1>3

(* So does the pipeline on a new message.                                   *)
LEMMA Pipeline ==
  ASSUME TypeOK, NEW v \in Versions, NEW jobs \in [Versions -> JobStatus],
         RunPipeline(v, jobs)
  PROVE  Piped(v, jobs, answered)
<1>1. CASE /\ status' = Refused("FAST_PARSING") /\ job' = jobs
           /\ UNCHANGED <<asked, task>>
  <2>1. status' \in Delivered
    BY <1>1, RefusalDelivers
  <2> QED
    BY <1>1, <2>1 DEF Piped, TypeOK, Delivered, Resting, InProgress
<1>2. CASE AskFromPlan("GAP_ANALYSIS", jobs, answered)
  BY <1>2 DEF AskFromPlan, Piped, TypeOK, Resting, InProgress
<1>3. CASE \/ ShowResults("GAP_ANALYSIS", jobs)
           \/ AskUser(v, "GAP_ANALYSIS", jobs, answered)
           \/ RouteToLlm(v, "GAP_ANALYSIS", jobs)
  BY <1>3, PipelineParts
<1> QED
  BY <1>1, <1>2, <1>3 DEF RunPipeline

(* A query taken by the pipeline keeps the invariant: the version is the    *)
(* current one or the next, and the jobs of the older ones were at most     *)
(* withdrawn.                                                               *)
LEMMA PipedKeeps ==
  ASSUME SearchInv, NEW v \in Versions, NEW jobs \in [Versions -> JobStatus],
         \A w \in Versions : w > version => jobs[w] = "none",
         v = version \/ v = NextVersion, version' = v,
         NEW count \in Nat, Piped(v, jobs, count), answered' = count,
         \/ replies' = replies /\ count = answered
         \/ /\ replies' = replies \cup {v} /\ count = answered + 1
            /\ v = NextVersion,
         UNCHANGED <<calls, diverted>>
  PROVE  SearchInv'
<1>1. v \in Nat /\ version \in Nat /\ 1 <= version /\ version <= v
  BY DEF SearchInv, TypeOK, Versions, NextVersion
<1>2. TypeOK'
  <2>1. asked' \subseteq 1..v
    BY <1>1 DEF SearchInv, TypeOK, Piped
  <2>2. \A w \in Versions : w > v => job'[w] = "none"
    BY <1>1 DEF Piped, Versions
  <2>3. replies' \subseteq 2..v
    <3>1. replies \subseteq 2..version /\ 2..version \subseteq 2..v
      BY <1>1 DEF SearchInv, TypeOK
    <3>2. v = NextVersion => v \in 2..v
      BY <1>1 DEF NextVersion
    <3> QED
      BY <3>1, <3>2
  <2> QED
    BY <2>1, <2>2, <2>3 DEF SearchInv, TypeOK, Piped
<1>3. Unborn'
  BY <1>1, <1>2 DEF SearchInv, Unborn, Piped, TypeOK, Versions
<1>4. InProgressHasJob'
  BY DEF InProgressHasJob, IsWithdrawn, Piped
<1>5. AnswersCounted'
  <2>1. CASE replies' = replies /\ count = answered
    BY <2>1 DEF SearchInv, QuestionInv, AnswersCounted
  <2>2. CASE /\ replies' = replies \cup {v} /\ count = answered + 1
             /\ v = NextVersion
    <3>1. v \notin replies
      BY <1>1, <2>2 DEF SearchInv, TypeOK, NextVersion
    <3> QED
      BY <2>2, <3>1, FS_AddElement DEF SearchInv, QuestionInv, AnswersCounted
  <2> QED
    BY <2>1, <2>2
<1>6. FollowUpsWithin'
  <2>1. CASE status' = "WAITING_USER_ANSWER"
    <3>1. count < MaxClarifications
      BY <2>1 DEF Piped
    <3>2. IsFiniteSet(replies') /\ Cardinality(replies') = count
      BY <1>5 DEF AnswersCounted
    <3>3. asked' \cap replies' \in SUBSET replies'
      OBVIOUS
    <3>4. IsFiniteSet(asked' \cap replies')
          /\ Cardinality(asked' \cap replies') <= count
      BY <3>2, <3>3, FS_Subset
    <3>5. Cardinality(asked' \cap replies') \in Nat
      BY <3>4, FS_CardinalityType
    <3> QED
      BY <3>1, <3>4, <3>5, SearchAssumption DEF FollowUpsWithin
  <2>2. CASE asked' = asked
    <3>1. asked' \cap replies' = asked \cap replies
      BY <1>1, <2>2 DEF SearchInv, TypeOK, NextVersion
    <3> QED
      BY <2>2, <3>1 DEF SearchInv, QuestionInv, FollowUpsWithin
  <2> QED
    BY <2>1, <2>2 DEF Piped
<1>7. WaitsWithQuestion'
  BY DEF WaitsWithQuestion, Piped
<1> QED
  BY <1>2, <1>3, <1>4, <1>5, <1>6, <1>7 DEF SearchInv, QuestionInv

(* A step that leaves the session delivered, or waiting as it was, keeps    *)
(* the two parts of the invariant about the status.                         *)
LEMMA SettledKeeps ==
  ASSUME SearchInv,
         \/ status' \in Delivered
         \/ status' = "WAITING_USER_ANSWER" /\ status = status'
            /\ version' = version,
         UNCHANGED <<asked, answered, replies>>
  PROVE  status' \in Resting /\ InProgressHasJob' /\ QuestionInv'
BY DEF SearchInv, TypeOK, Delivered, Resting, InProgress, InProgressHasJob,
       QuestionInv, AnswersCounted, WaitsWithQuestion, FollowUpsWithin

(* Taking jobs back starts none and completes none.                         *)
LEMMA WithdrawnTypes ==
  ASSUME TypeOK
  PROVE  /\ Withdrawn(job) \in [Versions -> JobStatus]
         /\ \A w \in Versions : w > version => Withdrawn(job)[w] = "none"
         /\ \A w \in Versions :
              Withdrawn(job)[w] # job[w] => Withdrawn(job)[w] # "COMPLETED"
BY DEF TypeOK, Withdrawn, JobStatus

(* The next version is one of the bounded model's.                          *)
LEMMA NextIsAVersion ==
  ASSUME TypeOK, version < MaxVersion
  PROVE  /\ NextVersion \in Versions /\ version \in Versions
         /\ version < NextVersion /\ version \in Nat
         /\ 1..version \subseteq 1..NextVersion
BY SearchAssumption DEF TypeOK, Versions, NextVersion

(* Every request of the user keeps the invariant.                           *)
LEMMA RequestsKeep ==
  ASSUME SearchInv, Request
  PROVE  SearchInv'
<1> USE DEF SearchInv
<1>1. CASE Start
  <2>1. Piped(version, job, answered)
    BY <1>1, Pipeline DEF Start, TypeOK
  <2> QED
    BY <1>1, <2>1, PipedKeeps DEF Start, TypeOK
<1>2. CASE Supersede
  <2> DEFINE jobs == Withdrawn(job)
  <2>1. /\ jobs \in [Versions -> JobStatus]
        /\ \A w \in Versions : w > version => jobs[w] = "none"
    BY WithdrawnTypes
  <2>2. NextVersion \in Versions
    BY <1>2, NextIsAVersion DEF Supersede
  <2>3. CASE RunPipeline(NextVersion, jobs)
    <3>1. Piped(NextVersion, jobs, answered)
      BY <2>1, <2>2, <2>3, Pipeline
    <3> HIDE DEF jobs
    <3> QED
      BY <1>2, <2>1, <2>2, <3>1, PipedKeeps DEF Supersede, TypeOK
  <2>4. CASE /\ ~CanTransition(status, "FAST_PARSING")
             /\ job' = jobs /\ UNCHANGED <<status, asked, task>>
    <3>1. status' \in Delivered
      BY <2>4, WhoMovesOn DEF TypeOK, Resting, Delivered, InProgress
    <3>2. status' \in Resting /\ InProgressHasJob' /\ QuestionInv'
      BY <1>2, <2>4, <3>1, SettledKeeps DEF Supersede
    <3>3. TypeOK' /\ Unborn'
      BY <1>2, <2>1, <2>2, <2>4, NextIsAVersion
      DEF Supersede, TypeOK, Unborn, Versions
    <3> QED
      BY <3>2, <3>3
  <2> QED
    BY <1>2, <2>3, <2>4 DEF Supersede
<1>3. CASE AnswerClarification
  <2>1. NextVersion \in Versions /\ answered + 1 \in Nat
    BY <1>3, NextIsAVersion DEF AnswerClarification, TypeOK
  <2>2. CASE \/ ShowResults("FAST_PARSING", job)
             \/ AskUser(NextVersion, "FAST_PARSING", job, answered + 1)
             \/ RouteToLlm(NextVersion, "FAST_PARSING", job)
    <3>1. Piped(NextVersion, job, answered + 1)
      BY <2>1, <2>2, PipelineParts DEF TypeOK
    <3> QED
      BY <1>3, <2>1, <3>1, PipedKeeps DEF AnswerClarification, TypeOK
  <2>3. CASE /\ ~CanTransition(status, "FAST_PARSING")
             /\ UNCHANGED <<status, asked, job, task>>
    <3>1. status' \in Delivered
      BY <2>3, WhoMovesOn DEF TypeOK, Resting, Delivered, InProgress
    <3>2. InProgressHasJob'
      BY <3>1 DEF InProgressHasJob, Delivered, InProgress
    <3>3. TypeOK' /\ Unborn'
      BY <1>3, <2>1, <2>3, NextIsAVersion
      DEF AnswerClarification, TypeOK, Unborn, Versions
    <3>4. NextVersion \notin replies /\ NextVersion \notin asked
      BY DEF TypeOK, NextVersion, Versions
    <3>5. AnswersCounted'
      BY <1>3, <3>4, FS_AddElement
      DEF AnswerClarification, QuestionInv, AnswersCounted
    <3>6. asked' \cap replies' = asked \cap replies
      BY <1>3, <2>3, <3>4 DEF AnswerClarification
    <3>7. FollowUpsWithin' /\ WaitsWithQuestion'
      BY <2>3, <3>1, <3>6
      DEF QuestionInv, FollowUpsWithin, WaitsWithQuestion, Delivered
    <3> QED
      BY <3>2, <3>3, <3>5, <3>7 DEF QuestionInv
  <2> QED
    BY <1>3, <2>2, <2>3 DEF AnswerClarification
<1>4. CASE UpdateConstraint
  <2>1. status' \in Delivered
    BY <1>4, RetrieveDelivers DEF UpdateConstraint
  <2>2. status' \in Resting /\ InProgressHasJob' /\ QuestionInv'
    BY <1>4, <2>1, SettledKeeps DEF UpdateConstraint
  <2>3. TypeOK' /\ Unborn'
    BY <1>4, <2>2, NextIsAVersion
    DEF UpdateConstraint, TypeOK, Unborn, Versions
  <2> QED
    BY <2>2, <2>3
<1>5. CASE CompleteWithCurrentResults
  <2>1. status' \in Delivered
    BY <1>5, RetrieveDelivers DEF CompleteWithCurrentResults
  <2>2. status' \in Resting /\ InProgressHasJob' /\ QuestionInv'
    BY <1>5, <2>1, SettledKeeps DEF CompleteWithCurrentResults
  <2>3. TypeOK' /\ Unborn'
    BY <1>5, <2>2, WithdrawnTypes
    DEF CompleteWithCurrentResults, TypeOK, Unborn
  <2> QED
    BY <2>2, <2>3
<1>6. CASE Cancel
  <2>1. status' \in Delivered
    BY <1>6, WhoMovesOn DEF Cancel, TypeOK
  <2>2. status' \in Resting /\ InProgressHasJob' /\ QuestionInv'
    BY <1>6, <2>1, SettledKeeps DEF Cancel
  <2>3. TypeOK' /\ Unborn'
    BY <1>6, <2>2 DEF Cancel, TypeOK, Unborn, JobStatus
  <2> QED
    BY <2>2, <2>3
<1> QED
  BY <1>1, <1>2, <1>3, <1>4, <1>5, <1>6 DEF Request

(* A task that has its turn, and a drain, keep the invariant: the call they *)
(* begin takes the place of the task, or the session is delivered.          *)
LEMMA ProcessJobKeeps ==
  ASSUME SearchInv, NEW v \in Versions, ProcessJob(v),
         \/ task' = task
         \/ task' = [task EXCEPT ![v] = FALSE]
  PROVE  SearchInv'
<1> USE DEF SearchInv
<1>1. v <= version
  BY DEF ProcessJob, Unborn, TypeOK, Versions
<1>2. CASE /\ calls' = [calls EXCEPT ![v] = @ + 1]
           /\ UNCHANGED <<status, diverted>>
  <2>1. calls[v] + 1 \in 0..MaxCalls
    BY SearchAssumption DEF ProcessJob, TypeOK
  <2>2. TypeOK' /\ Unborn'
    BY <1>1, <1>2, <2>1 DEF ProcessJob, TypeOK, Unborn, Versions
  <2>3. InProgressHasJob'
    BY <1>2, <2>1
    DEF ProcessJob, TypeOK, InProgressHasJob, IsWithdrawn
  <2>4. QuestionInv'
    BY <1>2 DEF ProcessJob, QuestionInv, AnswersCounted, WaitsWithQuestion,
                FollowUpsWithin
  <2> QED
    BY <2>2, <2>3, <2>4
<1>3. CASE /\ diverted' = TRUE /\ Retrieve(TRUE) /\ UNCHANGED calls
  <2>1. status' \in Delivered
    BY <1>3, RetrieveDelivers
  <2>2. status' \in Resting /\ InProgressHasJob' /\ QuestionInv'
    BY <2>1, SettledKeeps DEF ProcessJob
  <2>3. TypeOK' /\ Unborn'
    BY <1>1, <1>3, <2>2 DEF ProcessJob, TypeOK, Unborn, Versions
  <2> QED
    BY <2>2, <2>3
<1> QED
  BY <1>2, <1>3 DEF ProcessJob

(* A step that gives job v another status keeps the invariant when it       *)
(* delivers the session, or when a session in progress does not lose its    *)
(* job by it.                                                               *)
LEMMA JobMarked ==
  ASSUME SearchInv, NEW v \in Versions, v <= version,
         NEW st \in JobStatus, job' = [job EXCEPT ![v] = st],
         calls' \in [Versions -> 0..MaxCalls],
         \A w \in Versions : calls'[w] # calls[w] => w = v,
         UNCHANGED <<version, answered, replies, asked, task, diverted>>,
         \/ status' \in Delivered
         \/ /\ status' = status
            /\ status \in InProgress /\ v = version =>
                 /\ st \notin {"CANCEL_REQUESTED", "CANCELLED"}
                 /\ calls'[v] > 0
  PROVE  SearchInv'
<1> USE DEF SearchInv
<1>1. TypeOK' /\ Unborn'
  <2>1. status' \in Resting
    BY DEF TypeOK, Delivered, Resting
  <2> QED
    BY <2>1 DEF TypeOK, Unborn, Versions
<1>2. InProgressHasJob' /\ QuestionInv'
  <2>1. CASE status' \in Delivered
    BY <2>1, SettledKeeps
  <2>2. CASE /\ status' = status
             /\ status \in InProgress /\ v = version =>
                  /\ st \notin {"CANCEL_REQUESTED", "CANCELLED"}
                  /\ calls'[v] > 0
    <3>1. version \in Versions /\ QuestionInv'
      BY <2>2 DEF TypeOK, QuestionInv, AnswersCounted, WaitsWithQuestion,
                  FollowUpsWithin
    <3>2. CASE v = version
      BY <2>2, <3>1, <3>2 DEF TypeOK, InProgressHasJob, IsWithdrawn
    <3>3. CASE v # version
      <4>1. job'[version] = job[version] /\ calls'[version] = calls[version]
        BY <3>1, <3>3 DEF TypeOK
      <4> QED
        BY <2>2, <3>1, <4>1 DEF InProgressHasJob, IsWithdrawn
    <3> QED
      BY <3>1, <3>2, <3>3
  <2> QED
    BY <2>1, <2>2
<1> QED
  BY <1>1, <1>2

(* The patch of a fresh job delivers, refuses, or leaves a session waiting. *)
LEMMA ApplyDelivers ==
  ASSUME TypeOK, NEW v \in Versions, Apply(v)
  PROVE  /\ \/ status' \in Delivered
            \/ status' = status /\ status \notin InProgress
         /\ status \in {"CANCELLED", "FAILED"} => status' = status
<1>1. CASE status' = Refused(status)
  BY <1>1, RefusalDelivers DEF TypeOK, InProgress
<1>2. CASE Retrieve(FALSE)
  BY <1>2, RetrieveDelivers
<1> QED
  BY <1>1, <1>2 DEF Apply

(* An answer, a failure and a patch from outside keep the invariant.        *)
LEMMA AnswersKeep ==
  ASSUME SearchInv, NEW v \in Versions,
         ProviderAnswers(v) \/ ProviderFails(v) \/ CompleteJob(v)
  PROVE  SearchInv'
<1> USE DEF SearchInv
<1>1. v <= version
  <2>1. calls[v] > 0 \/ job[v] # "none"
    BY Zenon DEF ProviderAnswers, ProviderFails, CompleteJob
  <2> QED
    BY <2>1 DEF Unborn, TypeOK, Versions
<1>2. ASSUME ProviderAnswers(v) \/ ProviderFails(v)
      PROVE  /\ calls' \in [Versions -> 0..MaxCalls]
             /\ \A w \in Versions : calls'[w] # calls[w] => w = v
  <2>1. calls[v] > 0 /\ calls' = [calls EXCEPT ![v] = @ - 1]
    BY <1>2, Zenon DEF ProviderAnswers, ProviderFails
  <2>2. calls[v] - 1 \in 0..MaxCalls
    BY <2>1, SearchAssumption DEF TypeOK
  <2> QED
    BY <2>1, <2>2 DEF TypeOK
<1>3. CASE ProviderAnswers(v)
  <2>1. CASE Fresh(v) /\ ~IsWithdrawn(v) /\ Apply(v)
    <3>1. \/ status' \in Delivered
          \/ status' = status /\ status \notin InProgress
      BY <2>1, ApplyDelivers
    <3>2. job' = [job EXCEPT ![v] = "COMPLETED"] /\ "COMPLETED" \in JobStatus
      BY <2>1 DEF Apply, JobStatus
    <3> QED
      BY <1>1, <1>2, <1>3, <3>1, <3>2, JobMarked DEF ProviderAnswers
  <2>2. CASE /\ Fresh(v) /\ IsWithdrawn(v)
             /\ job' = [job EXCEPT ![v] = "CANCELLED"] /\ UNCHANGED status
    <3>1. status \notin InProgress /\ "CANCELLED" \in JobStatus
      BY <2>2 DEF InProgressHasJob, Fresh, JobStatus
    <3> QED
      BY <1>1, <1>2, <1>3, <2>2, <3>1, JobMarked DEF ProviderAnswers
  <2>3. CASE /\ ~Fresh(v)
             /\ job' = [job EXCEPT ![v] = "STALE_RESULT"] /\ UNCHANGED status
    <3>1. v # version /\ "STALE_RESULT" \in JobStatus
      BY <2>3 DEF Fresh, JobStatus
    <3> QED
      BY <1>1, <1>2, <1>3, <2>3, <3>1, JobMarked DEF ProviderAnswers
  <2> QED
    BY <1>3, <2>1, <2>2, <2>3 DEF ProviderAnswers
<1>4. CASE ProviderFails(v)
  <2>1. status' \in Delivered /\ "FAILED" \in JobStatus
    BY <1>4, RetrieveDelivers DEF ProviderFails, JobStatus
  <2> QED
    BY <1>1, <1>2, <1>4, <2>1, JobMarked DEF ProviderFails
<1>5. CASE CompleteJob(v)
  <2> USE DEF TypeOK
  <2>1. CASE Fresh(v) /\ ~IsWithdrawn(v) /\ Apply(v)
    <3>1. \/ status' \in Delivered
          \/ status' = status /\ status \notin InProgress
      BY <2>1, ApplyDelivers
    <3>2. job' = [job EXCEPT ![v] = "COMPLETED"] /\ "COMPLETED" \in JobStatus
      BY <2>1 DEF Apply, JobStatus
    <3> QED
      BY <1>1, <1>5, <3>1, <3>2, JobMarked DEF CompleteJob
  <2>2. CASE /\ IsWithdrawn(v)
             /\ job' = [job EXCEPT ![v] = "CANCELLED"] /\ UNCHANGED status
    <3>1. ~(status \in InProgress /\ v = version) /\ "CANCELLED" \in JobStatus
      BY <2>2 DEF InProgressHasJob, JobStatus
    <3> QED
      BY <1>1, <1>5, <2>2, <3>1, JobMarked DEF CompleteJob
  <2>3. CASE /\ ~IsWithdrawn(v)
             /\ job' = [job EXCEPT ![v] = "STALE_RESULT"] /\ UNCHANGED status
    <3>1. status \in InProgress /\ v = version => calls[v] > 0
      BY <1>5 DEF InProgressHasJob, CompleteJob
    <3>2. "STALE_RESULT" \in JobStatus \ {"CANCEL_REQUESTED", "CANCELLED"}
      BY DEF JobStatus
    <3> QED
      BY <1>1, <1>5, <2>3, <3>1, <3>2, JobMarked DEF CompleteJob
  <2> QED
    BY <1>5, <2>1, <2>2, <2>3 DEF CompleteJob
<1> QED
  BY <1>3, <1>4, <1>5

(* The types and the two promises about what the user sees, together with   *)
(* Unborn, are inductive.                                                   *)
LEMMA SearchInvariant == Spec => []SearchInv
<1>1. Init => SearchInv
  <2> SUFFICES ASSUME Init PROVE SearchInv
    OBVIOUS
  <2>1. 1 \in Versions /\ 0 \in 0..MaxCalls
    BY SearchAssumption DEF Versions
  <2>2. TypeOK /\ Unborn
    BY <2>1 DEF Init, TypeOK, Unborn, Resting, JobStatus
  <2>3. InProgressHasJob /\ QuestionInv
    BY FS_EmptySet
    DEF Init, InProgressHasJob, InProgress, QuestionInv, AnswersCounted,
        WaitsWithQuestion, FollowUpsWithin
  <2> QED
    BY <2>2, <2>3 DEF SearchInv
<1>2. SearchInv /\ [Next]_vars => SearchInv'
  <2> SUFFICES ASSUME SearchInv, [Next]_vars PROVE SearchInv'
    OBVIOUS
  <2>1. CASE Request
    BY <2>1, RequestsKeep
  <2>2. ASSUME NEW v \in Versions, RunTask(v) PROVE SearchInv'
    <3>1. CASE ProcessJob(v)
      BY <2>2, <3>1, ProcessJobKeeps DEF RunTask
    <3>2. CASE /\ job[v] # "RUNNING"
               /\ UNCHANGED <<status, version, answered, replies, asked, job, calls,
                              diverted>>
      BY <2>2, <3>2
      DEF RunTask, SearchInv, TypeOK, Unborn, InProgressHasJob, IsWithdrawn,
          QuestionInv, AnswersCounted, WaitsWithQuestion, FollowUpsWithin
    <3> QED
      BY <2>2, <3>1, <3>2 DEF RunTask
  <2>3. ASSUME NEW v \in Versions, Drain(v) PROVE SearchInv'
    BY <2>3, ProcessJobKeeps DEF Drain
  <2>4. ASSUME NEW v \in Versions,
               ProviderAnswers(v) \/ ProviderFails(v) \/ CompleteJob(v)
        PROVE  SearchInv'
    BY <2>4, AnswersKeep
  <2>5. CASE DivertedElsewhere \/ UNCHANGED vars
    BY <2>5
    DEF DivertedElsewhere, vars, SearchInv, TypeOK, Unborn, InProgressHasJob,
        IsWithdrawn, QuestionInv, AnswersCounted, WaitsWithQuestion,
        FollowUpsWithin
  <2> QED
    BY <2>1, <2>2, <2>3, <2>4, <2>5 DEF Next, Worker
<1> QED
  BY <1>1, <1>2, PTL DEF Spec

(* In every reachable state the session rests in one of the statuses a      *)
(* request may find, and no version beyond the active one has a job.        *)
THEOREM SearchTypes == Spec => []TypeOK
BY SearchInvariant, PTL DEF SearchInv

(* The client is told to keep polling only while something will answer it,  *)
(* for any number of corrections, withdrawals, drains and calls.            *)
THEOREM ProgressIsReal == Spec => []InProgressHasJob
BY SearchInvariant, PTL DEF SearchInv

(* No path of the pipeline waits for an answer that nobody can give, and    *)
(* however often the user answers, old questions and new, fewer questions   *)
(* than the limit follow an answer.                                         *)
THEOREM QuestionsAreOpen == Spec => []WaitingMeansAsked
<1>1. SearchInv => WaitingMeansAsked
  BY DEF SearchInv, QuestionInv, WaitsWithQuestion, FollowUpsWithin,
         WaitingMeansAsked
<1> QED
  BY <1>1, SearchInvariant, PTL

(* ADR-011 decision 2 as far as the code keeps it: when each question        *)
(* follows the answer to the one before it, there are at most               *)
(* MaxClarifications in a row.  A question left unanswered when the user     *)
(* sends another message is not counted, and then there may be more.        *)
DialogueLimited ==
  \A u, w \in Versions :
    u <= w /\ u..w \subseteq asked /\ (u + 1)..w \subseteq replies
      => w - u + 1 <= MaxClarifications

THEOREM DialogueEnds == Spec => []DialogueLimited
<1>1. ASSUME SearchInv, NEW u \in Versions, NEW w \in Versions, u <= w,
             u..w \subseteq asked, (u + 1)..w \subseteq replies
      PROVE  w - u + 1 <= MaxClarifications
  <2>1. u \in Nat /\ w \in Nat /\ u + 1 \in Int
    BY DEF Versions
  <2>2. u \in asked /\ (u + 1)..w \in SUBSET (asked \cap replies)
    BY <1>1, <2>1
  <2>3. Cardinality((u + 1)..w) = w - u
    <3>1. Cardinality((u + 1)..w)
            = IF u + 1 > w THEN 0 ELSE w - (u + 1) + 1
      BY <2>1, FS_Interval
    <3> QED
      BY <1>1, <2>1, <3>1
  <2>4. IsFiniteSet(asked \cap replies)
    <3>1. asked \cap replies \in SUBSET replies
      OBVIOUS
    <3> QED
      BY <1>1, <3>1, FS_Subset DEF SearchInv, QuestionInv, AnswersCounted
  <2>5. w - u <= Cardinality(asked \cap replies)
    <3> DEFINE S == asked \cap replies
               T == (u + 1)..w
    <3>1. IsFiniteSet(S) /\ T \in SUBSET S
      BY <2>2, <2>4
    <3> HIDE DEF S, T
    <3>2. Cardinality(T) <= Cardinality(S)
      BY <3>1, FS_Subset
    <3> QED
      BY <2>3, <3>2 DEF S, T
  <2>6. Cardinality(asked \cap replies) < MaxClarifications
    BY <1>1, <2>2 DEF SearchInv, QuestionInv, FollowUpsWithin
  <2>7. Cardinality(asked \cap replies) \in Nat
    BY <2>4, FS_CardinalityType
  <2> QED
    BY <2>1, <2>5, <2>6, <2>7, SearchAssumption
<1>2. SearchInv => DialogueLimited
  BY <1>1 DEF DialogueLimited
<1> QED
  BY <1>2, SearchInvariant, PTL

-----------------------------------------------------------------------------
(* No step of a job, late or not, and no request takes a cancelled or       *)
(* refused session out of its status.                                       *)
THEOREM FinalStatusStays == Spec => FinalStays
<1>1. ASSUME SearchInv, [Next]_vars, status \in {"CANCELLED", "FAILED"}
      PROVE  status' = status
  <2> USE <1>1 DEF SearchInv
  <2>1. CASE Request
    <3>1. ~CanTransition(status, "FAST_PARSING") /\ status # "RECEIVED"
          /\ status \in HardTerminal
      BY WhoMovesOn DEF HardTerminal
    <3>2. CASE AnswerClarification
      BY <3>1, <3>2 DEF AnswerClarification
    <3>3. CASE UpdateConstraint \/ CompleteWithCurrentResults
      BY <3>3, RetrieveDelivers
      DEF UpdateConstraint, CompleteWithCurrentResults
    <3>4. CASE Cancel
      BY <3>4, WhoMovesOn DEF Cancel
    <3> QED
      BY <2>1, <3>1, <3>2, <3>3, <3>4 DEF Request, Start, Supersede
  <2>2. ASSUME NEW v \in Versions, ProcessJob(v) PROVE status' = status
    BY <2>2, RetrieveDelivers DEF ProcessJob
  <2>3. ASSUME NEW v \in Versions,
               ProviderAnswers(v) \/ ProviderFails(v) \/ CompleteJob(v)
        PROVE  status' = status
    BY <2>3, ApplyDelivers, RetrieveDelivers
    DEF ProviderAnswers, ProviderFails, CompleteJob
  <2>4. CASE DivertedElsewhere \/ UNCHANGED vars
    BY <2>4 DEF DivertedElsewhere, vars
  <2> QED
    BY <2>1, <2>2, <2>3, <2>4 DEF Next, Worker, RunTask, Drain
<1> QED
  BY <1>1, SearchInvariant, PTL DEF Spec, FinalStays

(* What the pipeline and the requests do to the jobs never completes one.   *)
LEMMA RequestsCompleteNothing ==
  ASSUME TypeOK, Request, NEW w \in Versions, job'[w] = "COMPLETED"
  PROVE  job[w] = "COMPLETED"
<1>1. ASSUME NEW v \in Versions, NEW jobs \in [Versions -> JobStatus],
             NEW count, Piped(v, jobs, count)
      PROVE  jobs[w] = "COMPLETED"
  BY <1>1 DEF Piped
<1>2. CASE Start
  BY <1>1, <1>2, Pipeline DEF Start, TypeOK
<1>3. CASE Supersede
  <2>1. Withdrawn(job)[w] = "COMPLETED"
    <3>1. CASE RunPipeline(NextVersion, Withdrawn(job))
      BY <1>1, <1>3, <3>1, NextIsAVersion, WithdrawnTypes, Pipeline
      DEF Supersede
    <3>2. CASE job' = Withdrawn(job)
      BY <3>2
    <3> QED
      BY <1>3, <3>1, <3>2 DEF Supersede
  <2> QED
    BY <2>1, WithdrawnTypes
<1>4. CASE AnswerClarification
  BY <1>1, <1>4, NextIsAVersion, PipelineParts
  DEF AnswerClarification, TypeOK
<1>5. CASE UpdateConstraint
  BY <1>5 DEF UpdateConstraint
<1>6. CASE CompleteWithCurrentResults
  BY <1>6, WithdrawnTypes DEF CompleteWithCurrentResults
<1>7. CASE Cancel
  BY <1>7 DEF Cancel
<1> QED
  BY <1>2, <1>3, <1>4, <1>5, <1>6, <1>7 DEF Request

(* An understanding reaches the query only through a job of the version     *)
(* that is active when it arrives, whichever way it is handed in.           *)
THEOREM PatchesFit == Spec => PatchFitsQuery
<1>1. ASSUME TypeOK, [Next]_vars, NEW w \in Versions,
             job'[w] = "COMPLETED", job[w] # "COMPLETED"
      PROVE  w = version
  <2> USE <1>1
  <2>1. CASE Request
    BY <2>1, RequestsCompleteNothing
  <2>2. ASSUME NEW v \in Versions, ProviderAnswers(v) \/ CompleteJob(v)
        PROVE  w = version
    <3>1. CASE Fresh(v) /\ Apply(v)
      BY <3>1 DEF Fresh, Apply, TypeOK
    <3>2. CASE \/ job' = [job EXCEPT ![v] = "CANCELLED"]
               \/ job' = [job EXCEPT ![v] = "STALE_RESULT"]
      BY <3>2 DEF TypeOK
    <3> QED
      BY <2>2, <3>1, <3>2, Zenon DEF ProviderAnswers, CompleteJob
  <2>3. ASSUME NEW v \in Versions, ProviderFails(v) PROVE w = version
    BY <2>3 DEF ProviderFails, TypeOK
  <2>4. ASSUME NEW v \in Versions, RunTask(v) \/ Drain(v) PROVE w = version
    BY <2>4 DEF RunTask, Drain, ProcessJob
  <2>5. CASE DivertedElsewhere \/ UNCHANGED vars
    BY <2>5 DEF DivertedElsewhere, vars
  <2> QED
    BY <2>1, <2>2, <2>3, <2>4, <2>5 DEF Next, Worker
<1>2. TypeOK /\ [Next]_vars =>
        \A v \in Versions :
          job'[v] = "COMPLETED" /\ job[v] # "COMPLETED" => v = version
  BY <1>1
<1> QED
  BY <1>2, SearchTypes, PTL DEF Spec, PatchFitsQuery

(* ADR-011 decision 5 as far as the code keeps it: the end of a call for a   *)
(* query that was corrected, or whose job was taken back, leaves the search  *)
(* as it is, unless the call failed; only a failure gets past the guards,    *)
(* which is the finding about StaleCallsAreHarmless.                         *)
THEOREM OnlyFailuresIntrude ==
  Spec => [][\A v \in Versions :
               calls'[v] < calls[v] /\ (v # version \/ IsWithdrawn(v))
                 => status' = status \/ job'[v] = "FAILED"]_vars
<1>1. ASSUME TypeOK, [Next]_vars, NEW w \in Versions, calls'[w] < calls[w],
             w # version \/ IsWithdrawn(w)
      PROVE  status' = status \/ job'[w] = "FAILED"
  <2> USE <1>1
  <2>1. calls[w] \in Nat
    BY SearchAssumption DEF TypeOK
  <2>2. calls' # calls
    BY <2>1
  <2>3. ~Request /\ ~DivertedElsewhere /\ ~UNCHANGED vars
    BY <2>2 DEF Request, Start, Supersede, AnswerClarification,
                UpdateConstraint, CompleteWithCurrentResults, Cancel,
                DivertedElsewhere, vars
  <2>4. ASSUME NEW v \in Versions, RunTask(v) \/ Drain(v) \/ CompleteJob(v)
        PROVE  FALSE
    <3>1. calls' = [calls EXCEPT ![v] = @ + 1]
      BY <2>2, <2>4, Zenon DEF RunTask, Drain, ProcessJob, CompleteJob
    <3> QED
      BY <2>1, <3>1 DEF TypeOK
  <2>5. ASSUME NEW v \in Versions, ProviderAnswers(v) PROVE status' = status
    <3>1. calls' = [calls EXCEPT ![v] = @ - 1]
      BY <2>5, Zenon DEF ProviderAnswers
    <3>2. w = v
      BY <2>1, <3>1 DEF TypeOK
    <3> QED
      BY <2>5, <3>2, Zenon DEF ProviderAnswers, Fresh
  <2>6. ASSUME NEW v \in Versions, ProviderFails(v) PROVE job'[w] = "FAILED"
    <3>1. calls' = [calls EXCEPT ![v] = @ - 1]
          /\ job' = [job EXCEPT ![v] = "FAILED"]
      BY <2>6, Zenon DEF ProviderFails
    <3>2. w = v
      BY <2>1, <3>1 DEF TypeOK
    <3> QED
      BY <3>1, <3>2 DEF TypeOK
  <2> QED
    BY <2>3, <2>4, <2>5, <2>6 DEF Next, Worker
<1>2. TypeOK /\ [Next]_vars =>
        [\A v \in Versions :
           calls'[v] < calls[v] /\ (v # version \/ IsWithdrawn(v))
             => status' = status \/ job'[v] = "FAILED"]_vars
  BY <1>1
<1> QED
  BY <1>2, SearchTypes, PTL DEF Spec

=============================================================================
