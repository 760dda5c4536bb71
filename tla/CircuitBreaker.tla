--------------------------- MODULE CircuitBreaker ---------------------------
(***************************************************************************)
(* The circuit breaker of the understanding service                        *)
(* (CircuitBreakerController over the runtime health registry) and the     *)
(* tasks that ask it, LlmUnderstandingWorker.process_job.                  *)
(*                                                                         *)
(* A task runs without an await up to the provider call and from its       *)
(* answer to its end, so a job takes two steps: Process and Answer.        *)
(* Calls that were let through before the circuit opened are answered in   *)
(* whatever state it is in by then.                                        *)
(*                                                                         *)
(* The two counters are read only against their thresholds, so they stop   *)
(* there.  begin_request has no caller for this deployment, which leaves   *)
(* active_requests at zero; latencies are left out.                        *)
(***************************************************************************)
EXTENDS Naturals

CONSTANTS
  Jobs,              (* understanding jobs, reused once settled             *)
  FailureThreshold,  (* CircuitBreakerPolicy                                *)
  SuccessThreshold,
  MaxProbes,
  MaxCalls           (* bound on the calls in flight for one job            *)

VARIABLES
  breaker,           (* the controller and the snapshot of its deployment   *)
  cooled,            (* open_cooldown_seconds have passed since _opened_at  *)
  job,               (* LlmJobStatus: RUNNING from its creation on, and     *)
                     (* "SETTLED" for every final one and CANCEL_REQUESTED  *)
  task,              (* its task was created and has not run yet            *)
  calls,             (* provider calls in flight for a job                  *)
  diverted           (* SearchOrchestrator.circuit_open                     *)

vars == <<breaker, cooled, job, task, calls, diverted>>

ASSUME CircuitAssumption ==
  /\ FailureThreshold \in Nat \ {0}
  /\ SuccessThreshold \in Nat \ {0}
  /\ MaxProbes \in Nat \ {0}
  /\ MaxCalls \in Nat \ {0}

Breaker == [circuit : {"CLOSED", "OPEN", "HALF_OPEN"},
            health  : {"READY", "WARMING_UP", "UNAVAILABLE"},
            fails   : 0..FailureThreshold,
            succs   : 0..SuccessThreshold,
            probes  : 0..MaxProbes]

TypeOK ==
  /\ breaker \in Breaker
  /\ cooled \in BOOLEAN
  /\ job \in [Jobs -> {"RUNNING", "SETTLED"}]
  /\ task \in [Jobs -> BOOLEAN]
  /\ calls \in [Jobs -> 0..MaxCalls]
  /\ diverted \in BOOLEAN

Init ==
  /\ breaker = [circuit |-> "CLOSED", health |-> "READY", fails |-> 0,
                succs |-> 0, probes |-> 0]
  /\ cooled = FALSE
  /\ job = [j \in Jobs |-> "SETTLED"]
  /\ task = [j \in Jobs |-> FALSE]
  /\ calls = [j \in Jobs |-> 0]
  /\ diverted = FALSE

CountUpTo(n, limit) == IF n < limit THEN n + 1 ELSE limit

-----------------------------------------------------------------------------
(* What the controller does to its deployment.                              *)

(* maybe_transition.                                                        *)
Warmed(b) ==
  IF b.circuit = "OPEN" /\ cooled
  THEN [b EXCEPT !.circuit = "HALF_OPEN", !.health = "WARMING_UP"]
  ELSE b

Routable(b) ==
  \/ b.circuit = "HALF_OPEN" /\ b.probes < MaxProbes
  \/ b.circuit = "CLOSED" /\ b.health \in {"READY", "WARMING_UP"}

ProbeTaken_always(b) ==
  IF b.circuit = "HALF_OPEN" THEN [b EXCEPT !.probes = b.probes + 1] ELSE b
ProbeTaken(b) ==
  IF b.circuit = "HALF_OPEN" /\ b.probes < MaxProbes
  THEN [b EXCEPT !.probes = b.probes + 1]
  ELSE b

(* record_success: the registry marks the deployment READY whatever the     *)
(* circuit is, and only a half-open circuit is closed.                      *)
Succeeded_keepsFailures(b) ==
  LET succs == CountUpTo(b.succs, SuccessThreshold)
      ready == [b EXCEPT !.health = "READY", !.succs = succs]
  IN  IF b.circuit = "HALF_OPEN" /\ succs = SuccessThreshold
      THEN [ready EXCEPT !.circuit = "CLOSED", !.probes = 0]
      ELSE ready
Succeeded(b) ==
  LET succs == CountUpTo(b.succs, SuccessThreshold)
      ready == [b EXCEPT !.health = "READY", !.fails = 0, !.succs = succs]
  IN  IF b.circuit = "HALF_OPEN" /\ succs = SuccessThreshold
      THEN [ready EXCEPT !.circuit = "CLOSED", !.probes = 0]
      ELSE ready

Tripped_exactly(b) == b.fails + 1 = FailureThreshold
Tripped(b) == CountUpTo(b.fails, FailureThreshold) = FailureThreshold

(* record_failure.                                                          *)
Failed_keepsProbes(b) ==
  LET counted == [b EXCEPT !.succs = 0,
                           !.fails = CountUpTo(b.fails, FailureThreshold)]
  IN  IF Tripped(b)
      THEN [counted EXCEPT !.circuit = "OPEN", !.health = "UNAVAILABLE"]
      ELSE counted
Failed(b) ==
  LET counted == [b EXCEPT !.succs = 0,
                           !.fails = CountUpTo(b.fails, FailureThreshold)]
  IN  IF Tripped(b)
      THEN [counted EXCEPT !.circuit = "OPEN", !.health = "UNAVAILABLE",
                           !.probes = 0]
      ELSE counted

-----------------------------------------------------------------------------
(* A search is routed to the model, which should_route_to_llm refuses once  *)
(* a task has met the open circuit: nothing sets circuit_open back.         *)
Route(j) ==
  /\ ~diverted
  /\ job[j] = "SETTLED" /\ ~task[j] /\ calls[j] = 0
  /\ job' = [job EXCEPT ![j] = "RUNNING"]
  /\ task' = [task EXCEPT ![j] = TRUE]
  /\ UNCHANGED <<breaker, cooled, calls, diverted>>

(* process_job up to the provider call.  A refused job stays RUNNING.       *)
Ask(j) ==
  LET now == Warmed(breaker)
  IN  /\ job[j] = "RUNNING"
      /\ breaker' = ProbeTaken(now)
      /\ \/ /\ Routable(now)
            /\ calls' = [calls EXCEPT ![j] = @ + 1]
            /\ UNCHANGED diverted
         \/ /\ ~Routable(now)
            /\ diverted' = TRUE
            /\ UNCHANGED calls
      /\ UNCHANGED <<cooled, job>>

(* The task schedule_llm_job created.                                       *)
Process(j) ==
  /\ task[j] /\ calls[j] < MaxCalls
  /\ task' = [task EXCEPT ![j] = FALSE]
  /\ Ask(j)

(* The same task finds its job withdrawn, or settled by a drain.            *)
ProcessSettled(j) ==
  /\ task[j] /\ job[j] = "SETTLED"
  /\ task' = [task EXCEPT ![j] = FALSE]
  /\ UNCHANGED <<breaker, cooled, job, calls, diverted>>

(* POST llm-jobs/drain takes every job that is not settled, also one whose  *)
(* task has not run yet or is at the provider.                              *)
Drain(j) ==
  /\ calls[j] < MaxCalls
  /\ Ask(j)
  /\ UNCHANGED task

(* cancel and supersede withdraw the jobs of their session; a call that is  *)
(* under way goes on.                                                       *)
Withdraw(j) ==
  /\ job[j] = "RUNNING"
  /\ job' = [job EXCEPT ![j] = "SETTLED"]
  /\ UNCHANGED <<breaker, cooled, task, calls, diverted>>

Settle(j) ==
  /\ calls[j] > 0
  /\ calls' = [calls EXCEPT ![j] = @ - 1]
  /\ job' = [job EXCEPT ![j] = "SETTLED"]
  /\ UNCHANGED <<task, diverted>>

AnswerArrives(j) ==
  /\ Settle(j)
  /\ breaker' = Succeeded(breaker)
  /\ UNCHANGED cooled

(* A timeout, a transport error or an invalid patch, after the retry.       *)
CallFails(j) ==
  /\ Settle(j)
  /\ breaker' = Failed(breaker)
  /\ cooled' = (cooled /\ ~Tripped(breaker))

(* The answer is recorded and complete_llm_job raises: the same handler     *)
(* then records a failure.                                                  *)
AnswerIsNotApplied(j) ==
  /\ Settle(j)
  /\ breaker' = Failed(Succeeded(breaker))
  /\ cooled' = (cooled /\ ~Tripped(Succeeded(breaker)))

CoolDown ==
  /\ breaker.circuit = "OPEN" /\ ~cooled
  /\ cooled' = TRUE
  /\ UNCHANGED <<breaker, job, task, calls, diverted>>

Answer(j) == AnswerArrives(j) \/ CallFails(j) \/ AnswerIsNotApplied(j)

Next ==
  \/ \E j \in Jobs :
       \/ Route(j) \/ Process(j) \/ ProcessSettled(j)
       \/ Drain(j) \/ Withdraw(j) \/ Answer(j)
  \/ CoolDown

Spec == Init /\ [][Next]_vars

(* The event loop runs its tasks, the provider client times out and time    *)
(* passes; users keep searching and do not withdraw every search before its *)
(* task has had its turn.  Nobody is obliged to drain or to withdraw.       *)
Fairness ==
  /\ \A j \in Jobs : /\ WF_vars(Route(j)) /\ WF_vars(Answer(j))
                     /\ SF_vars(Process(j)) /\ WF_vars(ProcessSettled(j))
  /\ WF_vars(CoolDown)

LiveSpec == Spec /\ Fairness

-----------------------------------------------------------------------------
AtProvider == \E j \in Jobs : calls[j] > 0

(* The circuit, the registry's health and the count of failures are set by  *)
(* different calls, and late answers set some of them only.  They agree all *)
(* the same: an UNAVAILABLE deployment has an open circuit, so a circuit    *)
(* that is closed again lets calls through; and a closed one has fewer      *)
(* failures in a row than open it, whatever the order of answers.           *)
ControllerAgrees ==
  /\ breaker.health = "UNAVAILABLE" => breaker.circuit = "OPEN"
  /\ breaker.circuit = "CLOSED" => breaker.fails < FailureThreshold

(* A half-open circuit that has spent its probes waits for an answer, as    *)
(* long as no late success has reset the count of failures.                 *)
SpentProbeIsOut ==
  /\ breaker.circuit = "HALF_OPEN"
  /\ breaker.probes = MaxProbes
  /\ breaker.fails = FailureThreshold
  => AtProvider

(* Such a circuit leaves HALF_OPEN when the answer arrives.                 *)
ProbeDecides ==
  (/\ breaker.circuit = "HALF_OPEN"
   /\ breaker.fails = FailureThreshold
   /\ AtProvider)
  ~> breaker.circuit # "HALF_OPEN"

(* circuit.py:25: "OPEN -> cooldown HALF_OPEN": an open circuit is tried    *)
(* again after its cooldown, while users keep searching.                    *)
OpenEnds == breaker.circuit = "OPEN" ~> breaker.circuit # "OPEN"

=============================================================================
