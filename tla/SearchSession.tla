--------------------------- MODULE SearchSession ----------------------------
(***************************************************************************)
(* One search session of the SearchOrchestrator: its status machine, its   *)
(* query versions, the questions it asks and the understanding jobs that   *)
(* run beside it (LlmUnderstandingWorker.process_job).                     *)
(*                                                                         *)
(* Every handler of the orchestrator is synchronous, so a request is one   *)
(* step.  The only await is the provider call: the user goes on correcting *)
(* the search while one or more calls are under way, and what they return  *)
(* meets whatever the session has become.                                  *)
(*                                                                         *)
(* What a message means is a choice among the routes the pipeline can      *)
(* take.  conversation_state_version moves only together with the query    *)
(* version and is left out; events, metrics and the persisted mirror too.  *)
(***************************************************************************)
EXTENDS Naturals, Sequences, FiniteSets

CONSTANTS
  MaxClarifications,  (* policy.max_clarifications_per_session              *)
  MaxVersion,         (* bound on the query versions of the session         *)
  MaxCalls            (* bound on the calls in flight for one job           *)

Versions == 1..MaxVersion

VARIABLES
  status,             (* SearchSession.status                               *)
  version,            (* active_query_version                               *)
  answered,           (* clarification_count                                *)
  replies,            (* history: the versions that answers opened          *)
  asked,              (* versions that stored a question with an id         *)
  job,                (* status of the understanding job of a version       *)
  task,               (* that job's task was created and has not run yet    *)
  calls,              (* provider calls in flight for that job              *)
  diverted            (* SearchOrchestrator.circuit_open                    *)

vars ==
  <<status, version, answered, replies, asked, job, task, calls, diverted>>

ASSUME SearchAssumption ==
  /\ MaxClarifications \in Nat
  /\ MaxVersion \in Nat \ {0}
  /\ MaxCalls \in Nat \ {0}

(* _TRANSITIONS.                                                            *)
Allowed ==
  [RECEIVED |-> {"FAST_PARSING"},
   FAST_PARSING |-> {"ENTITY_RESOLVING", "GAP_ANALYSIS", "FAST_RETRIEVAL",
     "CLARIFICATION_REQUIRED", "LLM_QUEUED", "FAILED", "CANCELLED"},
   ENTITY_RESOLVING |-> {"GAP_ANALYSIS", "FAST_RETRIEVAL", "FAILED",
     "CANCELLED"},
   GAP_ANALYSIS |-> {"FAST_RETRIEVAL", "CLARIFICATION_REQUIRED", "LLM_QUEUED",
     "FAILED", "CANCELLED"},
   CLARIFICATION_REQUIRED |-> {"WAITING_USER_ANSWER", "CANCELLED",
     "SUPERSEDED"},
   WAITING_USER_ANSWER |-> {"FAST_PARSING", "FAST_RETRIEVAL",
     "CLARIFICATION_REQUIRED", "LLM_QUEUED", "CANCELLED", "SUPERSEDED"},
   FAST_RETRIEVAL |-> {"RANKING", "FINANCE_OPTIONS_LOADING", "FAST_PARSING",
     "FAILED", "CANCELLED"},
   LLM_QUEUED |-> {"LLM_RUNNING", "FAST_PARSING", "CANCELLED", "SUPERSEDED",
     "TIMED_OUT"},
   LLM_RUNNING |-> {"PARTIAL_RESULTS_READY", "RANKING", "FAST_PARSING",
     "TIMED_OUT", "FAILED", "CANCELLED", "SUPERSEDED", "COMPLETED_DEGRADED"},
   PARTIAL_RESULTS_READY |-> {"FINANCE_OPTIONS_LOADING", "RANKING",
     "FAST_PARSING", "COMPLETED", "COMPLETED_DEGRADED", "CANCELLED",
     "SUPERSEDED", "TIMED_OUT"},
   FINANCE_OPTIONS_LOADING |-> {"RANKING", "PARTIAL_RESULTS_READY",
     "FAST_PARSING", "CANCELLED", "TIMED_OUT"},
   RANKING |-> {"COMPLETED", "COMPLETED_DEGRADED", "FAST_PARSING", "FAILED",
     "CANCELLED"},
   TIMED_OUT |-> {"COMPLETED_DEGRADED", "RANKING", "CANCELLED"},
   COMPLETED |-> {"FAST_PARSING"},
   COMPLETED_DEGRADED |-> {"FAST_PARSING"},
   FAILED |-> {}, CANCELLED |-> {}, SUPERSEDED |-> {}]

HardTerminal == {"CANCELLED", "FAILED", "TIMED_OUT", "SUPERSEDED"}

(* Where a session may stand between two requests.                          *)
Resting == {"RECEIVED", "CLARIFICATION_REQUIRED", "WAITING_USER_ANSWER",
            "LLM_RUNNING", "PARTIAL_RESULTS_READY", "COMPLETED",
            "COMPLETED_DEGRADED", "FAILED", "CANCELLED"}

JobStatus == {"none", "RUNNING", "CANCEL_REQUESTED", "CANCELLED",
              "STALE_RESULT", "COMPLETED", "FAILED"}

TypeOK ==
  /\ status \in Resting
  /\ version \in Versions
  /\ answered \in Nat
  /\ replies \subseteq 2..version
  /\ asked \subseteq 1..version
  /\ job \in [Versions -> JobStatus]
  /\ \A v \in Versions : v > version => job[v] = "none"
  /\ task \in [Versions -> BOOLEAN]
  /\ calls \in [Versions -> 0..MaxCalls]
  /\ diverted \in BOOLEAN

Init ==
  /\ status = "RECEIVED" /\ version = 1
  /\ answered = 0 /\ replies = {} /\ asked = {}
  /\ job = [v \in Versions |-> "none"]
  /\ task = [v \in Versions |-> FALSE]
  /\ calls = [v \in Versions |-> 0]
  /\ diverted = FALSE

-----------------------------------------------------------------------------
CanTransition(s, t) == s = t \/ t \in Allowed[s]

(* Every set_status of a handler's way is legal: none of them raises.       *)
Legal(way) == \A i \in 1..(Len(way) - 1) : CanTransition(way[i], way[i + 1])

Try_unchecked(s, t) == t
Try(s, t) == IF CanTransition(s, t) THEN t ELSE s

(* _fast_retrieve asks before each step, so it leaves alone a session it    *)
(* cannot move, and delivers its results all the same.                      *)
Retrieved_emptyIsLeft(s, degraded, found) ==
  LET begun  == Try(s, "FAST_RETRIEVAL")
      ranked == Try(Try(begun, "PARTIAL_RESULTS_READY"), "RANKING")
  IN  IF ~found THEN begun
      ELSE Try(ranked, IF degraded THEN "COMPLETED_DEGRADED" ELSE "COMPLETED")
Retrieved(s, degraded, found) ==
  LET begun   == Try(s, "FAST_RETRIEVAL")
      partial == IF found THEN Try(begun, "PARTIAL_RESULTS_READY") ELSE begun
      ranked  == Try(partial, "RANKING")
  IN  Try(ranked, IF degraded THEN "COMPLETED_DEGRADED" ELSE "COMPLETED")

(* _refuse_off_domain.                                                      *)
Refused(s) ==
  IF CanTransition(s, "FAILED") THEN "FAILED" ELSE Try(s, "COMPLETED")

Retrieve(degraded) ==
  \E found \in BOOLEAN : status' = Retrieved(status, degraded, found)

(* Jobs a supersede or a completion by the user takes back.                 *)
Withdrawn(jobs) ==
  [v \in Versions |->
     IF jobs[v] = "RUNNING" THEN "CANCEL_REQUESTED" ELSE jobs[v]]

NextVersion == version + 1

MayAsk_onceMore(count) == count <= MaxClarifications
MayAsk(count) == count < MaxClarifications

-----------------------------------------------------------------------------
(* Where the pipeline may take query v from status s, given the jobs so far *)
(* and the number of questions answered.                                    *)
ShowResults(s, jobs) ==
  /\ \E found \in BOOLEAN : status' = Retrieved(s, FALSE, found)
  /\ job' = jobs
  /\ UNCHANGED <<asked, task>>

AskUser(v, s, jobs, count) ==
  /\ MayAsk(count)
  /\ Legal(<<s, "CLARIFICATION_REQUIRED", "WAITING_USER_ANSWER">>)
  /\ status' = "WAITING_USER_ANSWER"
  /\ asked' = asked \cup {v}
  /\ job' = jobs
  /\ UNCHANGED task

(* The model runs while partial results are shown, if there are any.        *)
RouteToLlm_unscheduled(v, s, jobs) ==
  /\ ~diverted
  /\ Legal(<<s, "LLM_QUEUED", "LLM_RUNNING", "PARTIAL_RESULTS_READY">>)
  /\ status' \in {"LLM_RUNNING", "PARTIAL_RESULTS_READY"}
  /\ job' = [jobs EXCEPT ![v] = "RUNNING"]
  /\ UNCHANGED <<asked, task>>
RouteToLlm(v, s, jobs) ==
  /\ ~diverted
  /\ Legal(<<s, "LLM_QUEUED", "LLM_RUNNING", "PARTIAL_RESULTS_READY">>)
  /\ status' \in {"LLM_RUNNING", "PARTIAL_RESULTS_READY"}
  /\ job' = [jobs EXCEPT ![v] = "RUNNING"]
  /\ task' = [task EXCEPT ![v] = TRUE]
  /\ UNCHANGED asked

(* A question of the canonical plan is kept without an id to answer it by.  *)
AskFromPlan(s, jobs, count) ==
  /\ MayAsk(count)
  /\ Legal(<<s, "CLARIFICATION_REQUIRED">>)
  /\ status' = "CLARIFICATION_REQUIRED"
  /\ job' = jobs
  /\ UNCHANGED <<asked, task>>

(* _run_pipeline.                                                           *)
RunPipeline(v, jobs) ==
  \/ /\ status' = Refused("FAST_PARSING")
     /\ job' = jobs
     /\ UNCHANGED <<asked, task>>
  \/ /\ Legal(<<"FAST_PARSING", "ENTITY_RESOLVING", "GAP_ANALYSIS">>)
     /\ \/ AskFromPlan("GAP_ANALYSIS", jobs, answered)
        \/ ShowResults("GAP_ANALYSIS", jobs)
        \/ AskUser(v, "GAP_ANALYSIS", jobs, answered)
        \/ RouteToLlm(v, "GAP_ANALYSIS", jobs)

Start ==
  /\ status = "RECEIVED"
  /\ Legal(<<status, "FAST_PARSING">>)
  /\ RunPipeline(version, job)
  /\ UNCHANGED <<version, answered, replies, calls, diverted>>

(* A new message.  The jobs are withdrawn and the version is taken before   *)
(* set_status may refuse the session's status.                              *)
Supersede ==
  /\ status # "RECEIVED" /\ status \notin HardTerminal
  /\ version < MaxVersion
  /\ version' = NextVersion
  /\ \/ /\ CanTransition(status, "FAST_PARSING")
        /\ RunPipeline(NextVersion, Withdrawn(job))
     \/ /\ ~CanTransition(status, "FAST_PARSING")
        /\ job' = Withdrawn(job)
        /\ UNCHANGED <<status, asked, task>>
  /\ UNCHANGED <<answered, replies, calls, diverted>>

(* An answer that names the active version, to any question of the session: *)
(* the version that asked it is not looked at, and running jobs stay.       *)
AnswerClarification ==
  /\ asked # {} /\ version < MaxVersion
  /\ answered' = answered + 1
  /\ replies' = replies \cup {NextVersion}
  /\ version' = NextVersion
  /\ \/ /\ CanTransition(status, "FAST_PARSING")
        /\ \/ ShowResults("FAST_PARSING", job)
           \/ AskUser(NextVersion, "FAST_PARSING", job, answered + 1)
           \/ RouteToLlm(NextVersion, "FAST_PARSING", job)
     \/ /\ ~CanTransition(status, "FAST_PARSING")
        /\ UNCHANGED <<status, asked, job, task>>
  /\ UNCHANGED <<calls, diverted>>

UpdateConstraint ==
  /\ status # "RECEIVED" /\ version < MaxVersion
  /\ version' = NextVersion
  /\ Retrieve(FALSE)
  /\ UNCHANGED <<answered, replies, asked, job, task, calls, diverted>>

CompleteWithCurrentResults ==
  /\ status # "RECEIVED"
  /\ job' = Withdrawn(job)
  /\ Retrieve(TRUE)
  /\ UNCHANGED <<version, answered, replies, asked, task, calls, diverted>>

(* Every job is marked, also one that is done, and before set_status may    *)
(* refuse: a completed search cannot be cancelled.                          *)
Cancel ==
  /\ status # "RECEIVED"
  /\ job' = [v \in Versions |->
               IF job[v] = "none" THEN "none" ELSE "CANCEL_REQUESTED"]
  /\ status' = Try(status, "CANCELLED")
  /\ UNCHANGED <<version, answered, replies, asked, task, calls, diverted>>

-----------------------------------------------------------------------------
(* process_job up to the provider call.  Only the job's own status is       *)
(* looked at; whether the circuit lets it through is CircuitBreaker's.      *)
ProcessJob(v) ==
  /\ job[v] = "RUNNING" /\ calls[v] < MaxCalls
  /\ \/ /\ calls' = [calls EXCEPT ![v] = @ + 1]
        /\ UNCHANGED <<status, diverted>>
     \/ /\ diverted' = TRUE
        /\ Retrieve(TRUE)
        /\ UNCHANGED calls
  /\ UNCHANGED <<version, answered, replies, asked, job>>

RunTask(v) ==
  /\ task[v]
  /\ task' = [task EXCEPT ![v] = FALSE]
  /\ \/ ProcessJob(v)
     \/ /\ job[v] # "RUNNING"
        /\ UNCHANGED <<status, version, answered, replies, asked, job, calls,
                       diverted>>

(* POST llm-jobs/drain.                                                     *)
Drain(v) == ProcessJob(v) /\ UNCHANGED task

(* complete_llm_job on a job that apply_if_fresh finds fresh.               *)
Fresh_always(v) == TRUE
Fresh(v) == v = version

Apply(v) ==
  /\ job' = [job EXCEPT ![v] = "COMPLETED"]
  /\ status' = Refused(status) \/ Retrieve(FALSE)

IsWithdrawn(v) == job[v] \in {"CANCEL_REQUESTED", "CANCELLED"}

(* An answer is held against the active version first, then against the     *)
(* job's own status.                                                        *)
ProviderAnswers(v) ==
  /\ calls[v] > 0
  /\ calls' = [calls EXCEPT ![v] = @ - 1]
  /\ \/ /\ Fresh(v) /\ ~IsWithdrawn(v)
        /\ Apply(v)
     \/ /\ Fresh(v) /\ IsWithdrawn(v)
        /\ job' = [job EXCEPT ![v] = "CANCELLED"]
        /\ UNCHANGED status
     \/ /\ ~Fresh(v)
        /\ job' = [job EXCEPT ![v] = "STALE_RESULT"]
        /\ UNCHANGED status
  /\ UNCHANGED <<version, answered, replies, asked, task, diverted>>

(* A timeout, an error or an invalid patch, after the retry: the results at *)
(* hand are delivered, with no look at the version or at the job.           *)
ProviderFails_noFallback(v) ==
  /\ calls[v] > 0
  /\ calls' = [calls EXCEPT ![v] = @ - 1]
  /\ job' = [job EXCEPT ![v] = "FAILED"]
  /\ UNCHANGED <<status, version, answered, replies, asked, task, diverted>>
ProviderFails(v) ==
  /\ calls[v] > 0
  /\ calls' = [calls EXCEPT ![v] = @ - 1]
  /\ job' = [job EXCEPT ![v] = "FAILED"]
  /\ Retrieve(TRUE)
  /\ UNCHANGED <<version, answered, replies, asked, task, diverted>>

(* POST llm-jobs/{id}/complete hands in a patch from outside.  The id is    *)
(* known from the response, when the job's task has had its turn; a state   *)
(* version given with the patch may be outdated also for a fresh job.       *)
CompleteJob(v) ==
  /\ job[v] # "none" /\ ~task[v]
  /\ \/ /\ Fresh(v) /\ ~IsWithdrawn(v)
        /\ Apply(v)
     \/ /\ IsWithdrawn(v)
        /\ job' = [job EXCEPT ![v] = "CANCELLED"]
        /\ UNCHANGED status
     \/ /\ ~IsWithdrawn(v)
        /\ job' = [job EXCEPT ![v] = "STALE_RESULT"]
        /\ UNCHANGED status
  /\ UNCHANGED <<version, answered, replies, asked, task, calls, diverted>>

(* A task of another session meets the open circuit.                        *)
DivertedElsewhere ==
  /\ ~diverted
  /\ diverted' = TRUE
  /\ UNCHANGED <<status, version, answered, replies, asked, job, task, calls>>

Request == Start \/ Supersede \/ AnswerClarification \/ UpdateConstraint
             \/ CompleteWithCurrentResults \/ Cancel

Worker(v) == RunTask(v) \/ ProviderAnswers(v) \/ ProviderFails(v)

Next ==
  \/ Request \/ DivertedElsewhere
  \/ \E v \in Versions : Worker(v) \/ Drain(v) \/ CompleteJob(v)

Spec == Init /\ [][Next]_vars

(* schedule_llm_job hands the task to the event loop with the request that  *)
(* created its job, and the provider client has timeouts.  Users owe the    *)
(* session nothing.                                                         *)
Fairness ==
  \A v \in Versions : /\ WF_vars(RunTask(v))
                      /\ WF_vars(ProviderAnswers(v) \/ ProviderFails(v))

LiveSpec == Spec /\ Fairness

-----------------------------------------------------------------------------
InProgress == {"LLM_RUNNING", "PARTIAL_RESULTS_READY"}

(* A session that shows "still searching" has a call under way for the      *)
(* query on screen, or a job whose task is about to run, and that job was   *)
(* not taken back: no order of corrections, withdrawals and late answers    *)
(* leaves it without.                                                       *)
InProgressHasJob ==
  status \in InProgress =>
    /\ ~IsWithdrawn(version)
    /\ calls[version] > 0 \/ (task[version] /\ job[version] = "RUNNING")

(* A session waits for the user only with a question about the query on     *)
(* screen that can be answered, and fewer of its questions than the limit   *)
(* followed an answer: answering, also old questions and the same one again, *)
(* does not make it ask for ever.  A question to a new message is not       *)
(* counted by the code, so this bounds no row of unanswered questions.      *)
WaitingMeansAsked ==
  status = "WAITING_USER_ANSWER" =>
    /\ version \in asked
    /\ Cardinality(asked \cap replies) < MaxClarifications

(* An understanding is merged only into the query it was asked for.         *)
PatchFitsQuery ==
  [][\A v \in Versions :
       job'[v] = "COMPLETED" /\ job[v] # "COMPLETED" => v = version]_vars

(* A search the user cancelled, or that was refused, stays so, whatever     *)
(* arrives late.                                                            *)
FinalStays ==
  [][(status \in {"CANCELLED", "FAILED"}) => status' = status]_vars

(* A search in progress does not stay in progress for ever.                 *)
SearchSettles == status \in InProgress ~> status \notin InProgress

(* ADR-011 decision 5: protection against stale versions is mandatory.  The *)
(* end of a call for an older query leaves the status of the new one alone. *)
StaleCallsAreHarmless ==
  [][\A v \in Versions :
       v < version /\ calls'[v] < calls[v] => status' = status]_vars

=============================================================================
