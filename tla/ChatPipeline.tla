---------------------------- MODULE ChatPipeline -----------------------------
(***************************************************************************)
(* The chat of a signed-in user: ChatPipeline.handle, the understanding    *)
(* service and model router under it, and the session of                   *)
(* conversation/session.py they share, which has no revision and no        *)
(* compare-and-set.                                                        *)
(*                                                                         *)
(* A turn reads the session three times and writes it up to five times,    *)
(* each a Redis GET or SET of the whole document; the models and the       *)
(* category matcher are awaited between.  Turns of one session overlap     *)
(* when the user sends again before the answer.                            *)
(*                                                                         *)
(* One session.  A need profile is abstracted to the set of messages it    *)
(* takes into account: the model is given the profile of the session and   *)
(* returns one that accounts for the new message as well.  The categories, *)
(* the turn count and the last clarification intent travel with the        *)
(* document and are left out.                                              *)
(***************************************************************************)
EXTENDS FiniteSets

CONSTANTS
  Messages,    (* each is sent once, in a turn of its own                   *)
  HasFallback  (* the route version has a fallback deployment               *)

VARIABLES
  session,     (* the document in Redis                                     *)
  turn,        (* the turn of each message                                  *)
  mixed,       (* history: messages whose turn met another turn or a reset  *)
  kept,        (* history: messages stored since the session was cleared    *)
  cleared      (* history: messages cleared while no turn was under way     *)

vars == <<session, turn, mixed, kept, cleared>>

ASSUME PipelineAssumption == HasFallback \in BOOLEAN

-----------------------------------------------------------------------------
(* Types.                                                                   *)

Profile == SUBSET Messages

(* Also a copy that a turn has read.  Without a user until one is adopted.  *)
Document == [exists : BOOLEAN, user : BOOLEAN, profile : Profile]
Absent   == [exists |-> FALSE, user |-> FALSE, profile |-> {}]

(* "once" and "again" are the two apply_need_profile of a turn.             *)
Step == {"waiting", "adopting", "primary", "fallback",
         "once", "creating once", "storing once", "matching",
         "again", "creating again", "storing again", "answered"}

Decision == {"none", "CONTINUE", "CLARIFY", "SAFE_FAILURE"}

Turn == [step : Step, copy : Document, profile : Profile, decision : Decision]
NoTurn == [step |-> "waiting", copy |-> Absent, profile |-> {},
           decision |-> "none"]

TypeOK ==
  /\ session \in Document
  /\ turn \in [Messages -> Turn]
  /\ mixed \subseteq Messages /\ kept \subseteq Messages
  /\ cleared \subseteq Messages

Active == {m \in Messages : turn[m].step \notin {"waiting", "answered"}}

-----------------------------------------------------------------------------
(* Steps of a turn.                                                         *)

Go(m, s) == turn' = [turn EXCEPT ![m].step = s]

End(m) == turn' = [turn EXCEPT ![m] = [NoTurn EXCEPT !.step = "answered"]]

(* get_or_create for the user: what was read, or a new session; a session   *)
(* without a user adopts this one.                                          *)
Opened(d) == [d EXCEPT !.exists = TRUE, !.user = TRUE]

(* GET; a message outside the domain, without a budget, or answered by a    *)
(* search session does not come this far.                                   *)
Open(m) ==
  /\ turn[m].step = "waiting"
  /\ turn' = [turn EXCEPT ![m].copy = Opened(session),
                          ![m].step =
                            IF session = Opened(session) THEN "primary"
                            ELSE "adopting"]
  /\ mixed' = IF Active = {} THEN mixed ELSE mixed \cup Active \cup {m}
  /\ UNCHANGED <<session, kept, cleared>>

(* The SET of a session just created or adopted: the copy, as it was read.  *)
Adopt(m) ==
  /\ turn[m].step = "adopting"
  /\ session' = turn[m].copy
  /\ Go(m, "primary")
  /\ UNCHANGED <<mixed, kept, cleared>>

Understood_forgetful(m) == {m}
Understood(m) == turn[m].copy.profile \cup {m}

(* An answer of a model that is not handed on to the fallback.  A message   *)
(* asking to clarify is stored too.                                         *)
Decide(m, d) ==
  turn' = [turn EXCEPT ![m].profile = Understood(m), ![m].decision = d,
                       ![m].step = IF d = "SAFE_FAILURE" THEN "matching"
                                   ELSE "once"]

(* The primary model answers, or what it returns is an error, invalid or    *)
(* too uncertain; then the fallback is asked if there is one and time left. *)
(* A safe failure without a profile ends the turn.                          *)
AskPrimary(m) ==
  /\ turn[m].step = "primary"
  /\ \/ \E d \in {"CONTINUE", "CLARIFY"} : Decide(m, d)
     \/ HasFallback /\ Go(m, "fallback")
     \/ End(m)
  /\ UNCHANGED <<session, mixed, kept, cleared>>

(* A fallback that is too uncertain is a safe failure with its profile:     *)
(* process_message does not store it, the pipeline goes on with it.         *)
AskFallback_unresolved(m) ==
  /\ turn[m].step = "fallback"
  /\ \/ \E d \in {"CONTINUE", "CLARIFY", "FALLBACK"} : Decide(m, d)
     \/ End(m)
  /\ UNCHANGED <<session, mixed, kept, cleared>>
AskFallback(m) ==
  /\ turn[m].step = "fallback"
  /\ \/ \E d \in {"CONTINUE", "CLARIFY", "SAFE_FAILURE"} : Decide(m, d)
     \/ End(m)
  /\ UNCHANGED <<session, mixed, kept, cleared>>

(* apply_need_profile: GET, SET of an empty session if there is none, and   *)
(* SET of the copy with the profile of the turn.                            *)
Load(m, reading, creating, storing) ==
  /\ turn[m].step = reading
  /\ turn' = [turn EXCEPT ![m].copy = [session EXCEPT !.exists = TRUE],
                          ![m].step = IF session.exists THEN storing
                                      ELSE creating]
  /\ UNCHANGED <<session, mixed, kept, cleared>>

Create(m, creating, storing) ==
  /\ turn[m].step = creating
  /\ session' = turn[m].copy
  /\ Go(m, storing)
  /\ UNCHANGED <<mixed, kept, cleared>>

Stored(m) == [turn[m].copy EXCEPT !.profile = turn[m].profile]

Store(m, storing) ==
  /\ turn[m].step = storing
  /\ session' = Stored(m)
  /\ kept' = kept \cup {m}
  /\ UNCHANGED <<mixed, cleared>>

StoreOnce(m) ==
  /\ Store(m, "storing once")
  /\ \/ turn[m].decision = "CLARIFY" /\ End(m)
     \/ turn[m].decision # "CLARIFY" /\ Go(m, "matching")

StoreAgain(m) == Store(m, "storing again") /\ End(m)

(* The category matcher: an ambiguous match, or a need outside the scope,   *)
(* ends the turn.                                                           *)
Match(m) ==
  /\ turn[m].step = "matching"
  /\ Go(m, "again") \/ End(m)
  /\ UNCHANGED <<session, mixed, kept, cleared>>

(* The request is cancelled, a call raises, or the process is lost.         *)
Abandon(m) ==
  /\ m \in Active
  /\ End(m)
  /\ UNCHANGED <<session, mixed, kept, cleared>>

(* DELETE /sessions/{id}, or the key expires.                               *)
Reset ==
  /\ session' = Absent
  /\ mixed' = mixed \cup Active
  /\ kept' = {}
  /\ cleared' = IF Active = {} THEN cleared \cup session.profile ELSE cleared
  /\ UNCHANGED turn

-----------------------------------------------------------------------------

Init ==
  /\ session = Absent
  /\ turn = [m \in Messages |-> NoTurn]
  /\ mixed = {} /\ kept = {} /\ cleared = {}

Run(m) ==
  \/ Open(m) \/ Adopt(m) \/ AskPrimary(m) \/ AskFallback(m)
  \/ Load(m, "once", "creating once", "storing once")
  \/ Create(m, "creating once", "storing once")
  \/ StoreOnce(m) \/ Match(m)
  \/ Load(m, "again", "creating again", "storing again")
  \/ Create(m, "creating again", "storing again")
  \/ StoreAgain(m) \/ Abandon(m)

Next == Reset \/ \E m \in Messages : Run(m)

Spec == Init /\ [][Next]_vars

-----------------------------------------------------------------------------
(* Properties.                                                              *)

(* The session has no revision, so a turn that overlaps another may erase   *)
(* it and one that overlaps a reset may bring back what was reset.  But     *)
(* only those: what a turn stored that ran alone is in the session until it *)
(* is cleared, through all later races, and what was cleared while no turn  *)
(* was under way never returns.                                             *)
SoloTurnsStay ==
  /\ kept \ mixed \subseteq session.profile
  /\ cleared \cap session.profile = {}

=============================================================================
