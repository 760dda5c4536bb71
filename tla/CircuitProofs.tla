--------------------------- MODULE CircuitProofs ----------------------------
(***************************************************************************)
(* What the circuit breaker promises for any number of jobs and any        *)
(* thresholds, whatever the order in which answers arrive.                 *)
(***************************************************************************)
EXTENDS CircuitBreaker, TLAPS

(* A counter that stops at its limit stays within it.                       *)
LEMMA Counting ==
  ASSUME NEW limit \in Nat, NEW n \in 0..limit
  PROVE  CountUpTo(n, limit) \in 0..limit
BY DEF CountUpTo

(* Every method of the controller leaves a well-formed deployment.          *)
LEMMA BreakerMethods ==
  ASSUME NEW b \in Breaker, cooled \in BOOLEAN
  PROVE  /\ Warmed(b) \in Breaker
         /\ ProbeTaken(b) \in Breaker
         /\ Succeeded(b) \in Breaker
         /\ Failed(b) \in Breaker
<1> USE CircuitAssumption DEF Breaker
<1>1. Warmed(b) \in Breaker
  BY DEF Warmed
<1>2. ProbeTaken(b) \in Breaker
  BY DEF ProbeTaken
<1>3. /\ 0 \in 0..FailureThreshold
      /\ 0 \in 0..SuccessThreshold
      /\ 0 \in 0..MaxProbes
      /\ CountUpTo(b.succs, SuccessThreshold) \in 0..SuccessThreshold
      /\ CountUpTo(b.fails, FailureThreshold) \in 0..FailureThreshold
  BY Counting
<1>4. Succeeded(b) \in Breaker
  BY <1>3 DEF Succeeded
<1>5. Failed(b) \in Breaker
  BY <1>3 DEF Failed
<1> QED
  BY <1>1, <1>2, <1>4, <1>5

JobStep(j) ==
  \/ Route(j) \/ Process(j) \/ ProcessSettled(j)
  \/ Drain(j) \/ Withdraw(j) \/ Answer(j)

(* Every step of a job keeps the types.                                     *)
LEMMA JobStepTypes ==
  ASSUME TypeOK, NEW j \in Jobs, JobStep(j)
  PROVE  TypeOK'
<1>1. CASE Route(j)
  BY <1>1 DEF TypeOK, Route
<1>2. ASSUME Ask(j), calls[j] < MaxCalls
      PROVE  /\ breaker' \in Breaker
             /\ cooled' \in BOOLEAN /\ diverted' \in BOOLEAN
             /\ job' \in [Jobs -> {"RUNNING", "SETTLED"}]
             /\ calls' \in [Jobs -> 0..MaxCalls]
  <2>1. breaker' \in Breaker
    BY <1>2, BreakerMethods DEF TypeOK, Ask
  <2>2. calls' \in [Jobs -> 0..MaxCalls]
    <3>1. calls[j] + 1 \in 0..MaxCalls
      BY <1>2, CircuitAssumption DEF TypeOK
    <3> QED
      BY <1>2, <3>1 DEF TypeOK, Ask
  <2>3. job' \in [Jobs -> {"RUNNING", "SETTLED"}]
    BY <1>2 DEF TypeOK, Ask
  <2>4. cooled' \in BOOLEAN /\ diverted' \in BOOLEAN
    BY <1>2 DEF TypeOK, Ask
  <2> QED
    BY <2>1, <2>2, <2>3, <2>4
<1>3. CASE Process(j)
  BY <1>2, <1>3 DEF TypeOK, Process
<1>4. CASE Drain(j)
  BY <1>2, <1>4 DEF TypeOK, Drain
<1>5. CASE Answer(j)
  <2>1. /\ calls' \in [Jobs -> 0..MaxCalls]
        /\ job' \in [Jobs -> {"RUNNING", "SETTLED"}]
        /\ task' \in [Jobs -> BOOLEAN] /\ diverted' \in BOOLEAN
    <3>1. Settle(j)
      BY <1>5 DEF Answer, AnswerArrives, CallFails, AnswerIsNotApplied
    <3>2. calls[j] - 1 \in 0..MaxCalls
      BY <3>1, CircuitAssumption DEF TypeOK, Settle
    <3> QED
      BY <3>1, <3>2 DEF TypeOK, Settle
  <2>2. breaker' \in Breaker
    BY <1>5, BreakerMethods
    DEF TypeOK, Answer, AnswerArrives, CallFails, AnswerIsNotApplied
  <2>3. cooled' \in BOOLEAN
    BY <1>5 DEF TypeOK, Answer, AnswerArrives, CallFails, AnswerIsNotApplied
  <2> QED
    BY <2>1, <2>2, <2>3 DEF TypeOK
<1>6. CASE Withdraw(j)
  BY <1>6 DEF TypeOK, Withdraw
<1>7. CASE ProcessSettled(j)
  BY <1>7 DEF TypeOK, ProcessSettled
<1> QED
  BY <1>1, <1>3, <1>4, <1>5, <1>6, <1>7 DEF JobStep

(* The controller's counters and states, the jobs and the calls keep their  *)
(* types in every reachable state.                                          *)
THEOREM CircuitTypes == Spec => []TypeOK
<1>1. Init => TypeOK
  <2>1. /\ 0 \in 0..FailureThreshold /\ 0 \in 0..SuccessThreshold
        /\ 0 \in 0..MaxProbes /\ 0 \in 0..MaxCalls
    BY CircuitAssumption
  <2> SUFFICES ASSUME Init PROVE TypeOK
    OBVIOUS
  <2>2. breaker \in Breaker
    BY <2>1 DEF Init, Breaker
  <2> QED
    BY <2>1, <2>2 DEF Init, TypeOK
<1>2. TypeOK /\ [Next]_vars => TypeOK'
  <2> SUFFICES ASSUME TypeOK, [Next]_vars PROVE TypeOK'
    OBVIOUS
  <2>1. CASE \E j \in Jobs : JobStep(j)
    BY <2>1, JobStepTypes
  <2>2. CASE CoolDown
    BY <2>2 DEF TypeOK, CoolDown
  <2>3. CASE UNCHANGED vars
    BY <2>3 DEF TypeOK, vars
  <2> QED
    BY <2>1, <2>2, <2>3 DEF Next, JobStep
<1> QED
  BY <1>1, <1>2, PTL DEF Spec

-----------------------------------------------------------------------------
(* The part of the state a deployment's circuit depends on.  An open        *)
(* circuit has its probes back, which is what lets SpentProbeIsOut survive  *)
(* the step to HALF_OPEN.                                                   *)
Sound(b) ==
  /\ b.health = "UNAVAILABLE" => b.circuit = "OPEN"
  /\ b.circuit = "CLOSED" => b.fails < FailureThreshold
  /\ b.circuit = "OPEN" => b.probes = 0

ProbesAllOut(b) ==
  b.circuit = "HALF_OPEN" /\ b.probes = MaxProbes /\ b.fails = FailureThreshold

CircuitInv == Sound(breaker) /\ SpentProbeIsOut

(* Every method keeps a sound deployment sound.                             *)
LEMMA MethodsAreSound ==
  ASSUME NEW b \in Breaker, Sound(b)
  PROVE  /\ Sound(Warmed(b)) /\ Sound(ProbeTaken(b))
         /\ Sound(Succeeded(b)) /\ Sound(Failed(b))
<1> USE CircuitAssumption DEF Breaker, Sound
<1>1. Sound(Warmed(b))
  BY DEF Warmed
<1>2. Sound(ProbeTaken(b))
  BY DEF ProbeTaken
<1>3. Sound(Succeeded(b))
  BY DEF Succeeded, CountUpTo
<1>4. Sound(Failed(b))
  BY DEF Failed, CountUpTo, Tripped
<1> QED
  BY <1>1, <1>2, <1>3, <1>4

(* An answer, early or late, never leaves a half-open circuit waiting for   *)
(* probes with its count of failures at the threshold.                      *)
LEMMA AnswersDecide ==
  ASSUME NEW b \in Breaker
  PROVE  ~ProbesAllOut(Succeeded(b)) /\ ~ProbesAllOut(Failed(b))
<1> USE CircuitAssumption DEF Breaker, ProbesAllOut
<1>1. ~ProbesAllOut(Succeeded(b))
  BY DEF Succeeded, CountUpTo
<1>2. ~ProbesAllOut(Failed(b))
  BY DEF Failed, CountUpTo, Tripped
<1> QED
  BY <1>1, <1>2

(* A refused task found no probe spent by itself: if the circuit it leaves  *)
(* waits for probes, the one it met did.                                    *)
LEMMA RefusedTaskWaits ==
  ASSUME NEW b \in Breaker, Sound(b), ~Routable(Warmed(b)),
         ProbesAllOut(ProbeTaken(Warmed(b)))
  PROVE  ProbesAllOut(b)
BY CircuitAssumption
DEF Breaker, Sound, Routable, Warmed, ProbeTaken, ProbesAllOut

(* A job's steps preserve the invariant.                                    *)
LEMMA JobStepCircuit ==
  ASSUME TypeOK, CircuitInv, NEW j \in Jobs,
         JobStep(j)
  PROVE  CircuitInv'
<1> breaker \in Breaker /\ Sound(breaker) /\ cooled \in BOOLEAN
  BY DEF TypeOK, CircuitInv
<1>1. ASSUME UNCHANGED <<breaker, calls>> PROVE CircuitInv'
  BY <1>1 DEF CircuitInv, Sound, SpentProbeIsOut, AtProvider
<1>2. ASSUME Ask(j) PROVE CircuitInv'
  <2>1. Sound(breaker')
    <3>1. Warmed(breaker) \in Breaker /\ Sound(Warmed(breaker))
      BY BreakerMethods, MethodsAreSound
    <3> QED
      BY <1>2, <3>1, MethodsAreSound DEF Ask
  <2>2. SpentProbeIsOut'
    <3>1. CASE Routable(Warmed(breaker))
      <4>1. calls'[j] > 0
        BY <1>2, <3>1, CircuitAssumption DEF Ask, TypeOK
      <4> QED
        BY <4>1 DEF SpentProbeIsOut, AtProvider
    <3>2. CASE ~Routable(Warmed(breaker))
      <4>1. calls' = calls /\ breaker' = ProbeTaken(Warmed(breaker))
        BY <1>2, <3>2 DEF Ask
      <4>2. ProbesAllOut(breaker') => ProbesAllOut(breaker)
        BY <3>2, <4>1, RefusedTaskWaits
      <4> QED
        BY <4>1, <4>2 DEF CircuitInv, SpentProbeIsOut, ProbesAllOut, AtProvider
    <3> QED
      BY <3>1, <3>2
  <2> QED
    BY <2>1, <2>2 DEF CircuitInv, Sound
<1>3. ASSUME Answer(j) PROVE CircuitInv'
  <2>1. Succeeded(breaker) \in Breaker /\ Sound(Succeeded(breaker))
    BY BreakerMethods, MethodsAreSound
  <2>2. Sound(breaker') /\ ~ProbesAllOut(breaker')
    BY <1>3, <2>1, MethodsAreSound, AnswersDecide
    DEF Answer, AnswerArrives, CallFails, AnswerIsNotApplied
  <2> QED
    BY <2>2 DEF CircuitInv, Sound, SpentProbeIsOut, ProbesAllOut
<1>4. CASE Route(j)
  BY <1>1, <1>4 DEF Route
<1>5. CASE Process(j)
  BY <1>2, <1>5 DEF Process
<1>6. CASE Drain(j)
  BY <1>2, <1>6 DEF Drain
<1>7. CASE Withdraw(j)
  BY <1>1, <1>7 DEF Withdraw
<1>8. CASE ProcessSettled(j)
  BY <1>1, <1>8 DEF ProcessSettled
<1> QED
  BY <1>3, <1>4, <1>5, <1>6, <1>7, <1>8 DEF JobStep

(* Sound and SpentProbeIsOut together are inductive.                        *)
LEMMA CircuitInvariant == Spec => []CircuitInv
<1>1. Init => CircuitInv
  BY CircuitAssumption DEF Init, CircuitInv, Sound, SpentProbeIsOut
<1>2. TypeOK /\ CircuitInv /\ [Next]_vars => CircuitInv'
  <2> SUFFICES ASSUME TypeOK, CircuitInv, [Next]_vars PROVE CircuitInv'
    OBVIOUS
  <2>1. CASE \E j \in Jobs : JobStep(j)
    BY <2>1, JobStepCircuit
  <2>2. CASE CoolDown
    BY <2>2 DEF CoolDown, CircuitInv, Sound, SpentProbeIsOut, AtProvider
  <2>3. CASE UNCHANGED vars
    BY <2>3 DEF vars, CircuitInv, Sound, SpentProbeIsOut, AtProvider
  <2> QED
    BY <2>1, <2>2, <2>3 DEF Next, JobStep
<1> QED
  BY <1>1, <1>2, CircuitTypes, PTL DEF Spec

(* Health, circuit and count of failures, set by different calls, agree      *)
(* whatever the order answers arrive in, also when calls that began before   *)
(* the circuit opened are answered after it closed again.                    *)
THEOREM HealthAndCircuitAgree == Spec => []ControllerAgrees
<1>1. CircuitInv => ControllerAgrees
  BY DEF CircuitInv, Sound, ControllerAgrees
<1> QED
  BY <1>1, CircuitInvariant, PTL

(* A half-open circuit whose failures have not been forgotten and that has  *)
(* no probe left is waiting for a call that is still at the provider.       *)
THEOREM SpentProbesAreOut == Spec => []SpentProbeIsOut
<1>1. CircuitInv => SpentProbeIsOut
  BY DEF CircuitInv
<1> QED
  BY <1>1, CircuitInvariant, PTL

-----------------------------------------------------------------------------
(* The circuit is open, a task that met it has turned the model route off,  *)
(* and every job that asked has its answer or was withdrawn.                *)
NobodyAsks ==
  /\ breaker.circuit = "OPEN" /\ diverted
  /\ \A j \in Jobs : job[j] = "SETTLED" /\ calls[j] = 0

(* Nothing a job or the clock can do leads out of it.                       *)
LEMMA NobodyAsksStep ==
  ASSUME TypeOK, NobodyAsks, [Next]_vars
  PROVE  NobodyAsks'
<1>1. ASSUME NEW j \in Jobs
      PROVE  /\ ~Route(j) /\ ~Process(j) /\ ~Drain(j)
             /\ ~Withdraw(j) /\ ~Answer(j)
  <2>1. diverted /\ job[j] = "SETTLED" /\ calls[j] = 0
    BY DEF NobodyAsks
  <2>2. ~Route(j) /\ ~Withdraw(j)
    BY <2>1 DEF Route, Withdraw
  <2>3. ~Process(j) /\ ~Drain(j)
    BY <2>1 DEF Process, Drain, Ask
  <2>4. ~Answer(j)
    BY <2>1 DEF Answer, AnswerArrives, CallFails, AnswerIsNotApplied, Settle
  <2> QED
    BY <2>2, <2>3, <2>4
<1>2. ASSUME NEW j \in Jobs, ProcessSettled(j) PROVE NobodyAsks'
  BY <1>2 DEF NobodyAsks, ProcessSettled
<1>3. CASE CoolDown
  BY <1>3 DEF NobodyAsks, CoolDown
<1>4. CASE UNCHANGED vars
  BY <1>4 DEF NobodyAsks, vars
<1> QED
  BY <1>1, <1>2, <1>3, <1>4 DEF Next

(* Once nobody asks, nobody ever does: the open circuit is not tried again,  *)
(* whatever time passes and whatever users do, so that OpenEnds is refuted   *)
(* for every number of jobs and every threshold.                             *)
THEOREM OpenForGood == Spec => [](NobodyAsks => []NobodyAsks)
<1>1. TypeOK /\ NobodyAsks /\ [Next]_vars => NobodyAsks'
  BY NobodyAsksStep
<1> QED
  BY <1>1, CircuitTypes, PTL DEF Spec

(* The same with jobs that were refused and left RUNNING: no call is under  *)
(* way and no task is about to run.                                         *)
RefusedOnly ==
  /\ breaker.circuit = "OPEN" /\ diverted
  /\ \A j \in Jobs : ~task[j] /\ calls[j] = 0

(* Then it takes an operator: only a drain of a job that was refused may     *)
(* try the circuit again.                                                    *)
THEOREM OnlyDrainTries ==
  Spec => [][RefusedOnly =>
               RefusedOnly' \/ \E j \in Jobs : job[j] = "RUNNING" /\ Drain(j)]_vars
<1>1. ASSUME RefusedOnly, [Next]_vars
      PROVE  RefusedOnly' \/ \E j \in Jobs : job[j] = "RUNNING" /\ Drain(j)
  <2>1. ASSUME NEW j \in Jobs
        PROVE  ~Route(j) /\ ~Process(j) /\ ~ProcessSettled(j) /\ ~Answer(j)
    <3>1. diverted /\ ~task[j] /\ calls[j] = 0
      BY <1>1 DEF RefusedOnly
    <3>2. ~Route(j)
      BY <3>1 DEF Route
    <3>3. ~Process(j) /\ ~ProcessSettled(j)
      BY <3>1 DEF Process, ProcessSettled
    <3>4. ~Answer(j)
      BY <3>1 DEF Answer, AnswerArrives, CallFails, AnswerIsNotApplied, Settle
    <3> QED
      BY <3>2, <3>3, <3>4
  <2>2. ASSUME NEW j \in Jobs, Drain(j) PROVE job[j] = "RUNNING"
    BY <2>2 DEF Drain, Ask
  <2>3. ASSUME NEW j \in Jobs, Withdraw(j) PROVE RefusedOnly'
    BY <1>1, <2>3 DEF RefusedOnly, Withdraw
  <2>4. CASE CoolDown
    BY <1>1, <2>4 DEF RefusedOnly, CoolDown
  <2>5. CASE UNCHANGED vars
    BY <1>1, <2>5 DEF RefusedOnly, vars
  <2> QED
    BY <1>1, <2>1, <2>2, <2>3, <2>4, <2>5 DEF Next
<1> QED
  BY <1>1, PTL DEF Spec

=============================================================================
