------------------------- MODULE ChatPipelineProofs -------------------------
(***************************************************************************)
(* Theorems about ChatPipeline for every number of messages, with and      *)
(* without a fallback.                                                     *)
(*                                                                         *)
(* The inductive invariant is about all profiles that are stored or that   *)
(* some turn may still store: each has what the turns that ran alone have  *)
(* kept, and none has what was cleared at rest.                            *)
(***************************************************************************)
EXTENDS ChatPipeline, TLAPS

(* Steps of a turn that may still use the document it read.                 *)
CopySteps == {"adopting", "primary", "fallback",
              "creating once", "creating again"}

(* Steps at which the profile of the turn is settled.                       *)
Decided == {"once", "creating once", "storing once", "matching",
            "again", "creating again", "storing again"}

(* The profiles a turn may still write.                                     *)
Holds(t) ==
  {p \in {turn[t].copy.profile} : turn[t].step \in CopySteps}
  \cup {p \in {turn[t].profile} : turn[t].step \in Decided}

Profiles == {session.profile} \cup UNION {Holds(t) : t \in Messages}

(* Of two turns under way, each has met the other.                          *)
OverlapsSeen == \A m, n \in Active : m # n => m \in mixed

(* A settled profile accounts for its own message.                          *)
OwnMessage == \A m \in Messages : turn[m].step \in Decided => m \in turn[m].profile

(* What every profile has and has not.                                      *)
ProfileInv ==
  /\ \A p \in Profiles : /\ kept \ mixed \subseteq p
                         /\ p \cap cleared = {}
                         /\ \A x \in p : turn[x].step # "waiting"
  /\ \A x \in cleared : turn[x].step = "answered"

PipelineInv == TypeOK /\ OverlapsSeen /\ OwnMessage /\ ProfileInv

-----------------------------------------------------------------------------
(* Type correctness.                                                        *)

(* The session before the first message is well-formed.                     *)
LEMMA AbsentType == Absent \in Document /\ NoTurn \in Turn
                    /\ [NoTurn EXCEPT !.step = "answered"] \in Turn
  BY DEF Absent, Document, Profile, NoTurn, Turn, Step, Decision

(* No message, no session.                                                  *)
LEMMA TypeInit == Init => TypeOK
  BY AbsentType DEF Init, TypeOK

(* Ending a turn, or going on to another of its steps, keeps it a turn.     *)
LEMMA GoType ==
  ASSUME TypeOK, NEW m \in Messages, End(m) \/ \E s \in Step : Go(m, s)
  PROVE  turn' \in [Messages -> Turn]
  BY AbsentType DEF TypeOK, End, Go, Turn

(* A decision makes a profile of the messages known to the turn.            *)
LEMMA DecideType ==
  ASSUME TypeOK, NEW m \in Messages, NEW d \in Decision, Decide(m, d)
  PROVE  turn' \in [Messages -> Turn]
  <1>1. turn[m] \in Turn /\ Understood(m) \in Profile
    BY DEF TypeOK, Turn, Document, Profile, Understood
  <1>2. "matching" \in Step /\ "once" \in Step
    BY DEF Step
  <1>3. QED
    BY <1>1, <1>2 DEF TypeOK, Decide, Turn

(* Reading the session makes a copy of it.                                  *)
LEMMA CopyType ==
  ASSUME TypeOK
  PROVE  Opened(session) \in Document
         /\ [session EXCEPT !.exists = TRUE] \in Document
  BY DEF TypeOK, Opened, Document

(* Every step keeps the types.                                              *)
LEMMA TypeStep == TypeOK /\ [Next]_vars => TypeOK'
  <1> SUFFICES ASSUME TypeOK, [Next]_vars PROVE TypeOK'
    OBVIOUS
  <1>1. CASE Reset
    BY <1>1, AbsentType DEF Reset, TypeOK, Active, Document, Profile
  <1>2. ASSUME NEW m \in Messages, Run(m) PROVE TypeOK'
    <2>1. turn[m] \in Turn /\ turn[m].copy \in Document
          /\ turn[m].profile \in Profile
      BY DEF TypeOK, Turn
    <2>2. CASE Open(m)
      <3>1. turn' \in [Messages -> Turn]
        BY <2>1, <2>2, CopyType DEF Open, TypeOK, Turn, Step
      <3>2. QED
        BY <2>2, <3>1 DEF Open, TypeOK, Active
    <2>3. CASE Adopt(m)
      BY <2>1, <2>3, GoType DEF Adopt, TypeOK, Step
    <2>4. CASE AskPrimary(m) \/ AskFallback(m)
      BY <2>4, DecideType, GoType
      DEF AskPrimary, AskFallback, TypeOK, Decision, Step
    <2>5. ASSUME NEW r \in Step, NEW k \in Step, NEW s \in Step,
                 Load(m, r, k, s)
          PROVE  TypeOK'
      <3>1. turn' \in [Messages -> Turn]
        BY <2>1, <2>5, CopyType DEF Load, TypeOK, Turn
      <3>2. QED
        BY <2>5, <3>1 DEF Load, TypeOK
    <2>6. ASSUME NEW k, NEW s \in Step, Create(m, k, s) PROVE TypeOK'
      BY <2>1, <2>6, GoType DEF Create, TypeOK
    <2>7. CASE StoreOnce(m) \/ StoreAgain(m)
      <3>1. Stored(m) \in Document
        BY <2>1 DEF Stored, Document
      <3>2. turn' \in [Messages -> Turn]
        BY <2>7, GoType DEF StoreOnce, StoreAgain, Step
      <3>3. QED
        BY <2>7, <3>1, <3>2 DEF StoreOnce, StoreAgain, Store, TypeOK
    <2>8. CASE Match(m) \/ Abandon(m)
      BY <2>8, GoType DEF Match, Abandon, TypeOK, Step
    <2>9. QED
      BY <1>2, <2>2, <2>3, <2>4, <2>5, <2>6, <2>7, <2>8 DEF Run, Step
  <1>3. CASE UNCHANGED vars
    BY <1>3 DEF vars, TypeOK
  <1>4. QED
    BY <1>1, <1>2, <1>3 DEF Next

(* The session, the turns and the history keep their types.                 *)
THEOREM PipelineTypes == Spec => []TypeOK
  BY TypeInit, TypeStep, PTL DEF Spec

-----------------------------------------------------------------------------
(* What a turn may still write.                                             *)

(* A step of one turn leaves what the others hold alone.                    *)
LEMMA ProfilesAfter ==
  ASSUME NEW m \in Messages, NEW Q,
         \A t \in Messages \ {m} : turn'[t] = turn[t],
         session'.profile \in Q, Holds(m)' \subseteq Q, Profiles \subseteq Q
  PROVE  Profiles' \subseteq Q
  <1>1. ASSUME NEW t \in Messages PROVE Holds(t)' \subseteq Q
    <2>1. CASE t = m
      BY <2>1
    <2>2. CASE t # m
      <3>1. Holds(t)' = Holds(t)
        BY <2>2 DEF Holds
      <3>2. QED
        BY <3>1 DEF Profiles
    <2>3. QED
      BY <2>1, <2>2
  <1>2. QED
    BY <1>1 DEF Profiles

(* What a turn may write is among the profiles.                             *)
LEMMA HeldProfile ==
  ASSUME NEW m \in Messages
  PROVE  /\ session.profile \in Profiles
         /\ turn[m].step \in CopySteps => turn[m].copy.profile \in Profiles
         /\ turn[m].step \in Decided => turn[m].profile \in Profiles
  <1>1. turn[m].step \in CopySteps => turn[m].copy.profile \in Holds(m)
    BY DEF Holds
  <1>2. turn[m].step \in Decided => turn[m].profile \in Holds(m)
    BY DEF Holds
  <1>3. QED
    BY <1>1, <1>2 DEF Profiles

(* A turn that ends holds nothing.                                          *)
LEMMA EndFacts ==
  ASSUME TypeOK, NEW m \in Messages, End(m)
  PROVE  /\ \A t \in Messages \ {m} : turn'[t] = turn[t]
         /\ turn'[m].step = "answered" /\ Holds(m)' = {}
  <1>1. /\ \A t \in Messages \ {m} : turn'[t] = turn[t]
        /\ turn'[m] = [NoTurn EXCEPT !.step = "answered"]
    BY DEF End, TypeOK
  <1>2. turn'[m].step = "answered"
    BY <1>1 DEF NoTurn
  <1>3. QED
    BY <1>1, <1>2 DEF Holds, CopySteps, Decided

(* A turn that goes on keeps its copy and its profile.                      *)
LEMMA GoFacts ==
  ASSUME TypeOK, NEW m \in Messages, NEW s, Go(m, s)
  PROVE  /\ \A t \in Messages \ {m} : turn'[t] = turn[t]
         /\ turn'[m].step = s /\ turn'[m].copy = turn[m].copy
         /\ turn'[m].profile = turn[m].profile
  <1>1. turn[m] \in Turn
    BY DEF TypeOK
  <1>2. turn'[m] = [turn[m] EXCEPT !.step = s]
        /\ \A t \in Messages \ {m} : turn'[t] = turn[t]
    BY DEF Go, TypeOK
  <1>3. QED
    BY <1>1, <1>2 DEF Turn

(* A decision settles the profile: that of the copy and the message.        *)
LEMMA DecideFacts ==
  ASSUME TypeOK, NEW m \in Messages, NEW d, Decide(m, d)
  PROVE  /\ \A t \in Messages \ {m} : turn'[t] = turn[t]
         /\ turn'[m].step \in {"once", "matching"}
         /\ turn'[m].profile = turn[m].copy.profile \cup {m}
         /\ Holds(m)' = {turn[m].copy.profile \cup {m}}
  <1>1. turn[m] \in Turn
    BY DEF TypeOK
  <1>2. /\ \A t \in Messages \ {m} : turn'[t] = turn[t]
        /\ turn'[m] = [turn[m] EXCEPT
             !.profile = Understood(m), !.decision = d,
             !.step = IF d = "SAFE_FAILURE" THEN "matching" ELSE "once"]
    BY DEF Decide, TypeOK
  <1>3. turn'[m].step \in {"once", "matching"}
        /\ turn'[m].profile = Understood(m)
    BY <1>1, <1>2 DEF Turn
  <1>4. QED
    BY <1>2, <1>3 DEF Understood, Holds, CopySteps, Decided

(* A turn that reads takes the profile of the session.                      *)
LEMMA LoadFacts ==
  ASSUME TypeOK, NEW m \in Messages, NEW r, NEW k, NEW s, Load(m, r, k, s)
  PROVE  /\ \A t \in Messages \ {m} : turn'[t] = turn[t]
         /\ turn'[m].step \in {k, s}
         /\ turn'[m].copy.profile = session.profile
         /\ turn'[m].profile = turn[m].profile
  <1>1. turn[m] \in Turn /\ session \in Document
    BY DEF TypeOK
  <1>2. /\ \A t \in Messages \ {m} : turn'[t] = turn[t]
        /\ turn'[m] = [turn[m] EXCEPT !.copy = [session EXCEPT !.exists = TRUE],
                         !.step = IF session.exists THEN s ELSE k]
    BY DEF Load, TypeOK
  <1>3. QED
    BY <1>1, <1>2 DEF Turn, Document

(* So does a turn that opens the session.                                   *)
LEMMA OpenFacts ==
  ASSUME TypeOK, NEW m \in Messages, Open(m)
  PROVE  /\ \A t \in Messages \ {m} : turn'[t] = turn[t]
         /\ turn'[m].step \in {"primary", "adopting"}
         /\ turn'[m].copy.profile = session.profile
  <1>1. turn[m] \in Turn /\ session \in Document
    BY DEF TypeOK
  <1>2. /\ \A t \in Messages \ {m} : turn'[t] = turn[t]
        /\ turn'[m] = [turn[m] EXCEPT !.copy = Opened(session),
             !.step = IF session = Opened(session) THEN "primary"
                      ELSE "adopting"]
    BY DEF Open, TypeOK
  <1>3. Opened(session).profile = session.profile
    BY <1>1 DEF Opened, Document
  <1>4. QED
    BY <1>1, <1>2, <1>3 DEF Turn

(* Turns that are not under way hold nothing.                               *)
LEMMA HoldersActive ==
  ASSUME NEW t \in Messages, t \notin Active
  PROVE  Holds(t) = {}
  BY DEF Active, Holds, CopySteps, Decided

(* What a step of a turn leaves alone: other turns, what was cleared, what  *)
(* was mixed; and no turn goes back to waiting or on after its answer.      *)
LEMMA RunFacts ==
  ASSUME TypeOK, NEW m \in Messages, Run(m)
  PROVE  /\ \A t \in Messages \ {m} : turn'[t] = turn[t]
         /\ turn'[m].step # "waiting" /\ turn[m].step # "answered"
         /\ cleared' = cleared /\ mixed \subseteq mixed'
         /\ m \in Active \/ Open(m)
         /\ kept' \subseteq kept \cup {m}
  <1>1. CASE Open(m)
    BY <1>1, OpenFacts DEF Open
  <1>2. CASE Adopt(m)
    BY <1>2, GoFacts DEF Adopt, Active
  <1>3. CASE AskPrimary(m) \/ AskFallback(m)
    <2>1. \/ End(m) \/ Go(m, "fallback") \/ \E d \in Decision : Decide(m, d)
      BY <1>3 DEF AskPrimary, AskFallback, Decision
    <2>2. /\ \A t \in Messages \ {m} : turn'[t] = turn[t]
          /\ turn'[m].step # "waiting"
      BY <2>1, EndFacts, GoFacts, DecideFacts
    <2>3. QED
      BY <1>3, <2>2 DEF AskPrimary, AskFallback, Active
  <1>4. CASE Load(m, "once", "creating once", "storing once")
             \/ Load(m, "again", "creating again", "storing again")
    <2>1. CASE Load(m, "once", "creating once", "storing once")
      <3>1. /\ \A t \in Messages \ {m} : turn'[t] = turn[t]
            /\ turn'[m].step \in {"creating once", "storing once"}
        BY <2>1, LoadFacts
      <3>2. QED
        BY <2>1, <3>1 DEF Load, Active
    <2>2. CASE Load(m, "again", "creating again", "storing again")
      <3>1. /\ \A t \in Messages \ {m} : turn'[t] = turn[t]
            /\ turn'[m].step \in {"creating again", "storing again"}
        BY <2>2, LoadFacts
      <3>2. QED
        BY <2>2, <3>1 DEF Load, Active
    <2>3. QED
      BY <1>4, <2>1, <2>2
  <1>5. CASE Create(m, "creating once", "storing once")
             \/ Create(m, "creating again", "storing again")
    BY <1>5, GoFacts DEF Create, Active
  <1>6. CASE StoreOnce(m) \/ StoreAgain(m)
    BY <1>6, GoFacts, EndFacts DEF StoreOnce, StoreAgain, Store, Active
  <1>7. CASE Match(m)
    BY <1>7, GoFacts, EndFacts DEF Match, Active
  <1>8. CASE Abandon(m)
    BY <1>8, EndFacts DEF Abandon, Active
  <1>9. QED
    BY <1>1, <1>2, <1>3, <1>4, <1>5, <1>6, <1>7, <1>8 DEF Run

(* A turn that begins while others run marks them and itself as mixed.      *)
LEMMA OverlapsStep ==
  ASSUME TypeOK, OverlapsSeen, NEW m \in Messages, Run(m)
  PROVE  OverlapsSeen'
  <1>1. Active' \subseteq Active \cup {m} /\ mixed \subseteq mixed'
    BY RunFacts DEF Active
  <1>2. CASE m \in Active
    BY <1>1, <1>2 DEF OverlapsSeen
  <1>3. CASE m \notin Active
    <2>1. Open(m)
      BY <1>3, RunFacts
    <2>2. mixed' = IF Active = {} THEN mixed ELSE mixed \cup Active \cup {m}
      BY <2>1 DEF Open
    <2>3. QED
      BY <1>1, <2>2 DEF OverlapsSeen
  <1>4. QED
    BY <1>2, <1>3

(* A profile that has been settled stays so.                                *)
LEMMA OwnMessageStep ==
  ASSUME TypeOK, OwnMessage, NEW m \in Messages, Run(m)
  PROVE  OwnMessage'
  <1>1. \A t \in Messages \ {m} : turn'[t] = turn[t]
    BY RunFacts
  <1>2. turn'[m].step \in Decided => m \in turn'[m].profile
    <2>1. CASE AskPrimary(m) \/ AskFallback(m)
      <3>1. End(m) \/ Go(m, "fallback") \/ \E d \in Decision : Decide(m, d)
        BY <2>1 DEF AskPrimary, AskFallback, Decision
      <3>2. CASE End(m)
        BY <3>2, EndFacts DEF Decided
      <3>3. CASE Go(m, "fallback")
        <4>1. turn'[m].step = "fallback"
          BY <3>3, GoFacts
        <4>2. QED
          BY <4>1 DEF Decided
      <3>4. ASSUME NEW d \in Decision, Decide(m, d)
            PROVE  m \in turn'[m].profile
        <4>1. turn'[m].profile = turn[m].copy.profile \cup {m}
          BY <3>4, DecideFacts
        <4>2. QED
          BY <4>1
      <3>5. QED
        BY <3>1, <3>2, <3>3, <3>4
    <2>2. CASE Open(m) \/ Adopt(m) \/ Abandon(m)
      <3>1. turn'[m].step \in {"primary", "adopting", "answered"}
        BY <2>2, OpenFacts, GoFacts, EndFacts DEF Adopt, Abandon
      <3>2. QED
        BY <3>1 DEF Decided
    <2>3. CASE Load(m, "once", "creating once", "storing once")
               \/ Load(m, "again", "creating again", "storing again")
      <3>1. /\ turn[m].step \in Decided
            /\ turn'[m].profile = turn[m].profile
        BY <2>3, LoadFacts DEF Load, Decided
      <3>2. QED
        BY <3>1 DEF OwnMessage
    <2>4. CASE \/ Create(m, "creating once", "storing once")
               \/ Create(m, "creating again", "storing again")
               \/ StoreOnce(m) \/ StoreAgain(m) \/ Match(m)
      <3>1. turn[m].step \in Decided
        BY <2>4 DEF Create, StoreOnce, StoreAgain, Store, Match, Decided
      <3>2. End(m) \/ \E s \in Step : Go(m, s)
        BY <2>4 DEF Create, StoreOnce, StoreAgain, Match, Step
      <3>3. QED
        BY <3>1, <3>2, EndFacts, GoFacts DEF Decided, OwnMessage
    <2>5. QED
      BY <2>1, <2>2, <2>3, <2>4 DEF Run
  <1>3. QED
    BY <1>1, <1>2 DEF OwnMessage

(* A step after which turns and session hold nothing new.                   *)
LEMMA HoldsNothingNew ==
  ASSUME TypeOK, ProfileInv, NEW m \in Messages, Run(m),
         kept' = kept, Profiles' \subseteq Profiles
  PROVE  ProfileInv'
  <1>1. \A p \in Profiles : p \subseteq Messages
    BY DEF Profiles, Holds, TypeOK, Turn, Document, Profile
  <1>2. QED
    BY <1>1, RunFacts DEF ProfileInv, TypeOK

(* Of a decision, a profile that accounts for the message as well.          *)
LEMMA DecideKeepsProfileInv ==
  ASSUME TypeOK, ProfileInv, NEW m \in Messages, Run(m),
         turn[m].step \in {"primary", "fallback"},
         NEW d, Decide(m, d), UNCHANGED <<session, kept>>
  PROVE  ProfileInv'
  <1> DEFINE p == turn[m].copy.profile
  <1>1. p \in Profiles
    BY HeldProfile DEF CopySteps
  <1>2. Profiles' \subseteq Profiles \cup {p \cup {m}}
    <2>1. Holds(m)' = {p \cup {m}}
      BY DecideFacts
    <2>2. \A t \in Messages \ {m} : turn'[t] = turn[t]
      BY DecideFacts
    <2>3. session'.profile \in Profiles
      BY DEF Profiles
    <2> DEFINE Q == Profiles \cup {p \cup {m}}
    <2>4. session'.profile \in Q /\ Holds(m)' \subseteq Q /\ Profiles \subseteq Q
      BY <2>1, <2>3
    <2> HIDE DEF Q
    <2>5. Profiles' \subseteq Q
      BY <2>2, <2>4, ProfilesAfter
    <2>6. QED
      BY <2>5 DEF Q
  <1>3. m \notin cleared
    BY DEF ProfileInv
  <1>4. kept' \ mixed' \subseteq kept \ mixed /\ cleared' = cleared
    BY RunFacts
  <1>5. ASSUME NEW q \in Profiles', NEW x \in q PROVE turn'[x].step # "waiting"
    <2>1. x = m \/ turn[x].step # "waiting"
      BY <1>1, <1>2, <1>5 DEF ProfileInv
    <2>2. x \in Messages
      BY <1>1, <1>2, <1>5 DEF Profiles, Holds, TypeOK, Turn, Document, Profile
    <2>3. QED
      BY <2>1, <2>2, RunFacts
  <1>6. \A x \in cleared : turn'[x].step = "answered"
    BY RunFacts DEF ProfileInv, TypeOK
  <1>7. QED
    BY <1>1, <1>2, <1>3, <1>4, <1>5, <1>6 DEF ProfileInv

(* Of a store: a turn that is not mixed runs alone, and the profile it      *)
(* stores, the only one left, accounts for its message.                     *)
LEMMA StoreKeepsProfileInv ==
  ASSUME PipelineInv, NEW m \in Messages, Run(m),
         StoreOnce(m) \/ StoreAgain(m)
  PROVE  ProfileInv'
  <1> DEFINE p == turn[m].profile
  <1>1. /\ p \in Profiles /\ m \in p /\ session'.profile = p
        /\ kept' = kept \cup {m} /\ mixed' = mixed /\ m \in Active
    <2>1. turn[m].step \in Decided
      BY DEF StoreOnce, StoreAgain, Store, Decided
    <2>2. p \in Profiles /\ m \in p
      BY <2>1, HeldProfile DEF PipelineInv, OwnMessage
    <2>3. session'.profile = p
      <3>1. turn[m].copy \in Document
        BY DEF PipelineInv, TypeOK, Turn
      <3>2. QED
        BY <3>1 DEF StoreOnce, StoreAgain, Store, Stored, Document
    <2>4. QED
      BY <2>1, <2>2, <2>3
      DEF StoreOnce, StoreAgain, Store, Active, Decided
  <1>2. /\ \A t \in Messages \ {m} : turn'[t] = turn[t]
        /\ Holds(m)' \subseteq {p}
    <2>1. End(m) \/ Go(m, "matching")
      BY DEF StoreOnce, StoreAgain
    <2>2. CASE End(m)
      BY <2>2, EndFacts DEF PipelineInv
    <2>3. CASE Go(m, "matching")
      <3>1. turn'[m].step = "matching" /\ turn'[m].profile = p
        BY <2>3, GoFacts DEF PipelineInv
      <3>2. QED
        BY <2>3, <3>1, GoFacts DEF PipelineInv, Holds, CopySteps
    <2>4. QED
      BY <2>1, <2>2, <2>3
  <1>3. Profiles' \subseteq Profiles
    <2>1. session'.profile \in Profiles /\ Holds(m)' \subseteq Profiles
      BY <1>1, <1>2
    <2>2. QED
      BY <1>2, <2>1, ProfilesAfter
  <1>4. \A q \in Profiles' : kept' \ mixed' \subseteq q
    <2>1. CASE m \in mixed
      BY <1>1, <1>3, <2>1 DEF PipelineInv, ProfileInv
    <2>2. CASE m \notin mixed
      <3>1. \A t \in Messages \ {m} : t \notin Active
        BY <1>1, <2>2 DEF PipelineInv, OverlapsSeen, Active
      <3>2. ASSUME NEW t \in Messages \ {m} PROVE Holds(t)' = {}
        <4>1. Holds(t)' = Holds(t)
          BY <1>2 DEF Holds
        <4>2. QED
          BY <3>1, <4>1, HoldersActive
      <3>3. Profiles' \subseteq {p}
        BY <1>1, <1>2, <3>2 DEF Profiles
      <3>4. kept' \ mixed' \subseteq p
        BY <1>1 DEF PipelineInv, ProfileInv
      <3>5. QED
        BY <3>3, <3>4
    <2>3. QED
      BY <2>1, <2>2
  <1>5. \A q \in Profiles : q \subseteq Messages
    BY DEF PipelineInv, Profiles, Holds, TypeOK, Turn, Document, Profile
  <1>6. QED
    BY <1>3, <1>4, <1>5, RunFacts DEF PipelineInv, ProfileInv, TypeOK

(* Any other step only hands on what the turn read or settled.              *)
LEMMA OtherRunKeepsProfileInv ==
  ASSUME TypeOK, ProfileInv, NEW m \in Messages, Run(m),
         ~(StoreOnce(m) \/ StoreAgain(m)), \A d \in Decision : ~Decide(m, d)
  PROVE  ProfileInv'
  <1> DEFINE c == turn[m].copy.profile
             p == turn[m].profile
  <1>1. ASSUME kept' = kept, session'.profile \in Profiles,
               Holds(m)' \subseteq Profiles
        PROVE  ProfileInv'
    <2>1. \A t \in Messages \ {m} : turn'[t] = turn[t]
      BY RunFacts
    <2>2. Profiles' \subseteq Profiles
      BY <1>1, <2>1, ProfilesAfter
    <2>3. QED
      BY <1>1, <2>2, HoldsNothingNew
  <1>2. /\ session.profile \in Profiles
        /\ turn[m].step \in CopySteps => c \in Profiles
        /\ turn[m].step \in Decided => p \in Profiles
    BY HeldProfile
  <1>3. turn[m] \in Turn /\ session \in Document
    BY DEF TypeOK
  <1>4. CASE Open(m)
    <2>1. Holds(m)' \subseteq {session.profile}
      <3>1. turn'[m].step \notin Decided
        BY <1>4, OpenFacts DEF Decided
      <3>2. QED
        BY <1>4, <3>1, OpenFacts DEF Holds
    <2>2. QED
      BY <1>1, <1>2, <1>4, <2>1 DEF Open
  <1>5. CASE Adopt(m)
    <2>1. c \in Profiles
      BY <1>2, <1>5 DEF Adopt, CopySteps
    <2>2. turn'[m].step = "primary" /\ turn'[m].copy = turn[m].copy
      BY <1>5, GoFacts DEF Adopt
    <2>3. Holds(m)' \subseteq {c}
      BY <2>2 DEF Holds, Decided
    <2>4. QED
      BY <1>1, <1>5, <2>1, <2>3 DEF Adopt
  <1>6. CASE AskPrimary(m) /\ Go(m, "fallback")
    <2>1. c \in Profiles
      BY <1>2, <1>6 DEF AskPrimary, CopySteps
    <2>2. turn'[m].step = "fallback" /\ turn'[m].copy = turn[m].copy
      BY <1>6, GoFacts
    <2>3. Holds(m)' \subseteq {c}
      BY <2>2 DEF Holds, Decided
    <2>4. QED
      BY <1>1, <1>2, <1>6, <2>1, <2>3 DEF AskPrimary
  <1>7. CASE End(m)
    <2>1. Holds(m)' = {}
      BY <1>7, EndFacts
    <2>2. turn'[m].step = "answered"
      BY <1>7, EndFacts
    <2>3. UNCHANGED <<session, kept>>
      <3>1. ~Open(m) /\ ~Adopt(m)
        BY <2>2, OpenFacts, GoFacts DEF Adopt
      <3>2. \A r, k, s : Load(m, r, k, s) => UNCHANGED <<session, kept>>
        BY DEF Load
      <3>3. ~Create(m, "creating once", "storing once")
            /\ ~Create(m, "creating again", "storing again")
        BY <2>2, GoFacts DEF Create
      <3>4. QED
        BY <3>1, <3>2, <3>3 DEF Run, AskPrimary, AskFallback, Match, Abandon
    <2>4. QED
      BY <1>1, <1>2, <2>1, <2>3
  <1>8. ASSUME NEW r \in {"once", "again"}, NEW k, NEW s, Load(m, r, k, s)
        PROVE  ProfileInv'
    <2>1. p \in Profiles
      BY <1>2, <1>8 DEF Load, Decided
    <2>2. Holds(m)' \subseteq {session.profile, p}
      BY <1>8, LoadFacts DEF Holds
    <2>3. QED
      BY <1>1, <1>2, <1>8, <2>1, <2>2 DEF Load
  <1>9. ASSUME NEW k \in {"creating once", "creating again"},
               NEW s \in {"storing once", "storing again"}, Create(m, k, s)
        PROVE  ProfileInv'
    <2>1. c \in Profiles /\ p \in Profiles
      BY <1>2, <1>9 DEF Create, CopySteps, Decided
    <2>2. turn'[m].step = s /\ turn'[m].profile = turn[m].profile
      BY <1>9, GoFacts DEF Create
    <2>3. Holds(m)' \subseteq {p}
      BY <2>2 DEF Holds, CopySteps
    <2>4. QED
      BY <1>1, <1>9, <2>1, <2>3 DEF Create
  <1>10. CASE Match(m) /\ Go(m, "again")
    <2>1. p \in Profiles
      BY <1>2, <1>10 DEF Match, Decided
    <2>2. turn'[m].step = "again" /\ turn'[m].profile = turn[m].profile
      BY <1>10, GoFacts
    <2>3. Holds(m)' \subseteq {p}
      BY <2>2 DEF Holds, CopySteps
    <2>4. QED
      BY <1>1, <1>2, <1>10, <2>1, <2>3 DEF Match
  <1>11. QED
    <2>1. AskPrimary(m) => End(m) \/ Go(m, "fallback")
      BY DEF AskPrimary, Decision
    <2>2. AskFallback(m) => End(m)
      BY DEF AskFallback, Decision
    <2>3. QED
      BY <1>4, <1>5, <1>6, <1>7, <1>8, <1>9, <1>10, <2>1, <2>2
      DEF Run, Match, Abandon

(* Every step of a turn.                                                    *)
LEMMA RunKeepsProfileInv ==
  ASSUME PipelineInv, NEW m \in Messages, Run(m)
  PROVE  ProfileInv'
  <1>1. CASE StoreOnce(m) \/ StoreAgain(m)
    BY <1>1, StoreKeepsProfileInv
  <1>2. ASSUME NEW d \in Decision, Decide(m, d),
               ~(StoreOnce(m) \/ StoreAgain(m))
        PROVE  ProfileInv'
    <2>1. turn'[m].step \in {"once", "matching"}
          /\ turn'[m].profile = Understood(m)
      BY <1>2, DecideFacts DEF PipelineInv, Understood
    <2>2. CASE AskPrimary(m) \/ AskFallback(m)
      <3>1. turn[m].step \in {"primary", "fallback"}
            /\ UNCHANGED <<session, kept>>
        BY <2>2 DEF AskPrimary, AskFallback
      <3>2. QED
        BY <1>2, <3>1, DecideKeepsProfileInv DEF PipelineInv
    <2>3. ~(AskPrimary(m) \/ AskFallback(m)) => FALSE
      <3>1. ~Open(m) /\ ~Adopt(m)
        BY <2>1, OpenFacts, GoFacts DEF Adopt, PipelineInv
      <3>2. ~Load(m, "once", "creating once", "storing once")
            /\ ~Load(m, "again", "creating again", "storing again")
        <4>1. Load(m, "once", "creating once", "storing once")
              => turn'[m].step \in {"creating once", "storing once"}
          BY LoadFacts DEF PipelineInv
        <4>2. Load(m, "again", "creating again", "storing again")
              => turn'[m].step \in {"creating again", "storing again"}
          BY LoadFacts DEF PipelineInv
        <4>3. QED
          BY <2>1, <4>1, <4>2
      <3>3. ~Create(m, "creating once", "storing once")
            /\ ~Create(m, "creating again", "storing again")
        BY <2>1, GoFacts DEF Create, PipelineInv
      <3>4. ~Match(m) /\ ~Abandon(m)
        BY <2>1, GoFacts, EndFacts DEF Match, Abandon, PipelineInv
      <3>5. QED
        BY <1>2, <3>1, <3>2, <3>3, <3>4 DEF Run
    <2>4. QED
      BY <2>2, <2>3
  <1>3. QED
    BY <1>1, <1>2, OtherRunKeepsProfileInv DEF PipelineInv

(* A reset leaves the turns what they hold; at rest that is nothing.        *)
LEMMA ResetKeepsPipelineInv ==
  ASSUME PipelineInv, Reset
  PROVE  OverlapsSeen' /\ OwnMessage' /\ ProfileInv'
  <1>1. turn' = turn /\ Active' = Active /\ mixed \subseteq mixed'
        /\ session'.profile = {} /\ kept' = {}
    BY DEF Reset, Absent, Active
  <1>2. OverlapsSeen' /\ OwnMessage'
    BY <1>1 DEF PipelineInv, OverlapsSeen, OwnMessage
  <1>3. \A t \in Messages : Holds(t)' = Holds(t)
    BY <1>1 DEF Holds
  <1>4. Profiles' \subseteq Profiles \cup {{}}
    BY <1>1, <1>3 DEF Profiles
  <1>5. \A p \in Profiles' : \A x \in p : turn'[x].step # "waiting"
    BY <1>1, <1>4 DEF PipelineInv, ProfileInv
  <1>6. CASE Active # {}
    <2>1. cleared' = cleared
      BY <1>6 DEF Reset
    <2>2. \A p \in Profiles' : kept' \ mixed' \subseteq p /\ p \cap cleared' = {}
      BY <1>1, <1>4, <2>1 DEF PipelineInv, ProfileInv
    <2>3. \A x \in cleared' : turn'[x].step = "answered"
      BY <1>1, <2>1 DEF PipelineInv, ProfileInv
    <2>4. ProfileInv'
      BY <1>5, <2>2, <2>3 DEF ProfileInv
    <2>5. QED
      BY <1>2, <2>4
  <1>7. CASE Active = {}
    <2>1. Profiles' \subseteq {{}}
      BY <1>1, <1>3, <1>7, HoldersActive DEF Profiles
    <2>2. cleared' = cleared \cup session.profile
      BY <1>7 DEF Reset
    <2>3. ASSUME NEW x \in session.profile PROVE turn[x].step = "answered"
      <3>1. x \in Messages /\ turn[x].step # "waiting"
        BY HeldProfile DEF PipelineInv, ProfileInv, TypeOK, Document, Profile,
                           Profiles
      <3>2. QED
        BY <1>7, <3>1 DEF Active
    <2>4. \A x \in cleared' : turn'[x].step = "answered"
      BY <1>1, <2>2, <2>3 DEF PipelineInv, ProfileInv
    <2>5. ProfileInv'
      BY <1>1, <2>1, <2>4 DEF ProfileInv
    <2>6. QED
      BY <1>2, <2>5
  <1>8. QED
    BY <1>2, <1>6, <1>7

(* The invariant holds of the absent session and of no turn.                *)
LEMMA PipelineInit == Init => PipelineInv
  <1> SUFFICES ASSUME Init PROVE PipelineInv
    OBVIOUS
  <1>1. \A m \in Messages : turn[m].step = "waiting"
    BY DEF Init, NoTurn
  <1>2. Active = {}
    BY <1>1 DEF Active
  <1>3. \A m \in Messages : Holds(m) = {}
    BY <1>2, HoldersActive
  <1>4. Profiles = {{}}
    BY <1>3 DEF Profiles, Init, Absent
  <1>5. QED
    BY <1>1, <1>2, <1>4, TypeInit
    DEF PipelineInv, OverlapsSeen, OwnMessage, ProfileInv, Init, Decided

(* Every step keeps it.                                                     *)
LEMMA PipelineStep == PipelineInv /\ [Next]_vars => PipelineInv'
  <1> SUFFICES ASSUME PipelineInv, [Next]_vars PROVE PipelineInv'
    OBVIOUS
  <1>1. TypeOK'
    BY TypeStep DEF PipelineInv
  <1>2. CASE Reset
    BY <1>1, <1>2, ResetKeepsPipelineInv DEF PipelineInv
  <1>3. ASSUME NEW m \in Messages, Run(m) PROVE PipelineInv'
    BY <1>1, <1>3, OverlapsStep, OwnMessageStep, RunKeepsProfileInv
    DEF PipelineInv
  <1>4. CASE UNCHANGED vars
    <2>1. Profiles' = Profiles /\ Active' = Active
      BY <1>4 DEF vars, Profiles, Holds, Active
    <2>2. QED
      BY <1>1, <1>4, <2>1
      DEF PipelineInv, vars, OverlapsSeen, OwnMessage, ProfileInv
  <1>5. QED
    BY <1>2, <1>3, <1>4 DEF Next

(* What a turn stored that met no other turn and no reset stays in the      *)
(* session through all later races until the session is cleared, and what   *)
(* was cleared at rest never returns.                                       *)
THEOREM SoloTurnsStayStored == Spec => []SoloTurnsStay
  <1>1. PipelineInv => SoloTurnsStay
    BY DEF PipelineInv, ProfileInv, Profiles, SoloTurnsStay
  <1>2. QED
    BY <1>1, PipelineInit, PipelineStep, PTL DEF Spec

=============================================================================
