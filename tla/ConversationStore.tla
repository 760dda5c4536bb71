------------------------- MODULE ConversationStore -------------------------
(***************************************************************************)
(* One chat session kept in Redis by RedisConversationStateRepository and  *)
(* changed by concurrent callers of ConversationStateManager.              *)
(*                                                                         *)
(* A manager call is several awaits: it reads a snapshot with HGET         *)
(* payload, derives the next state, and runs compare_and_set.lua, which    *)
(* Redis executes atomically.  create, touch and complete issue plain      *)
(* commands instead, each one a step of its own here.  Between two awaits  *)
(* any other caller may run, the clock may tick, keys may expire and the   *)
(* caller may die.                                                         *)
(*                                                                         *)
(* What the payload says about the customer's need is abstracted to the    *)
(* sequence of writes it was derived from (field log).                     *)
(***************************************************************************)
EXTENDS Integers, Sequences

CONSTANTS
  Clients,         (* concurrent callers of the manager                     *)
  Keys,            (* idempotency keys                                      *)
  Bodies,          (* patch documents or typed arguments                    *)
  NoBody,          (* what a fingerprint holds for an operation that is not *)
                   (* a patch: its name alone, never its arguments          *)
  Calls,           (* the write calls the callers may issue                 *)
  IdleTTL,         (* anonymous or authenticated idle seconds               *)
  AbsTTL,          (* absolute_lifetime_seconds                             *)
  IdemTTL,         (* idempotency_ttl_seconds                               *)
  MaxNow,          (* bound on the clock                                    *)
  ClientNamedIds   (* TRUE: callers create under an id of their own choice, *)
                   (* as campaign_only_pipeline.handle does; FALSE: the id  *)
                   (* is a fresh uuid4 known only once create returned      *)

VARIABLES
  now,       (* the clock, in seconds; 0 stands for "field absent"          *)
  store,     (* the Redis hash of the session                               *)
  idem,      (* the idempotency records of the session                      *)
  idState,   (* whether callers can know the session id                     *)
  life,      (* history: how often the hash came into being                 *)
  pc,        (* where each caller is in its manager call                    *)
  call,      (* the write call it issues                                    *)
  snap,      (* the state it works on                                       *)
  born       (* history: the life in which it read that state               *)

clientVars == <<pc, call, snap, born>>
vars == <<now, store, idem, idState, life, pc, call, snap, born>>

-----------------------------------------------------------------------------
(* Types.                                                                   *)

NoSeq == -1                       \* client_sequence None, or '' in the hash

PatchOps == {"PATCH", "PATCH_ASK", "PATCH_SETTLE", "RESET_NEED"}
NamedOps == {"INITIALIZE_NEED", "SET_CLARIFICATION", "CLEAR_CLARIFICATION",
             "MARK_RECOMMENDATION_READY"}

Call == [op : PatchOps \cup NamedOps, body : Bodies, key : Keys,
         expected : Nat, seq : Nat \cup {NoSeq}]

Closed   == {"EXPIRED", "COMPLETED", "CANCELLED"}
Statuses == Closed \cup {"NONE", "ACTIVE", "AWAITING_CLARIFICATION",
                         "RECOMMENDATION_READY"}

Payload == [rev : Nat, status : Statuses, asks : BOOLEAN,
            seq : Nat \cup {NoSeq}, exp : Nat, abs : Nat, log : Seq(Call)]

NoPayload == [rev |-> 0, status |-> "NONE", asks |-> FALSE, seq |-> NoSeq,
              exp |-> 0, abs |-> 0, log |-> <<>>]

(* present: the key exists; full: it has a payload field.  rev, status,     *)
(* seq, exp and abs are the hash's own copies; dies is the key's deadline,  *)
(* 0 for a key without one.                                                 *)
Hash == [present : BOOLEAN, full : BOOLEAN, payload : Payload, rev : Nat,
         status : Statuses, seq : Nat \cup {NoSeq}, exp : Nat, abs : Nat,
         dies : Nat]

NoHash == [present |-> FALSE, full |-> FALSE, payload |-> NoPayload, rev |-> 0,
           status |-> "NONE", seq |-> NoSeq, exp |-> 0, abs |-> 0, dies |-> 0]

(* Of the call it answers a record keeps only the fingerprint, a function   *)
(* of the call.                                                             *)
Record == [until : Nat, call : Call]

ASSUME ConstantsAssumption ==
  /\ Calls \subseteq Call
  /\ NoBody \notin Bodies
  /\ IdleTTL \in Nat \ {0} /\ AbsTTL \in Nat \ {0} /\ IdemTTL \in Nat \ {0}
  /\ MaxNow \in Nat
  /\ ClientNamedIds \in BOOLEAN

SomeCall == CHOOSE c \in Calls : TRUE
NoRecord == [until |-> 0, call |-> SomeCall]
ASSUME CallsAssumption == Calls # {}

TypeOK ==
  /\ now \in Nat /\ life \in Nat
  /\ store \in Hash
  /\ idem \in [Keys -> Record]
  /\ idState \in {"fresh", "creating", "known"}
  /\ pc \in [Clients -> {"idle", "write", "touch", "touchHset", "touchExpire",
                         "complete", "createHset", "createExpire"}]
  /\ call \in [Clients -> Calls]
  /\ snap \in [Clients -> Payload]
  /\ born \in [Clients -> Nat]

-----------------------------------------------------------------------------
(* The clock and key expiry.                                                *)

Earlier(a, b) == IF a <= b THEN a ELSE b
Later(a, b)   == IF a <= b THEN b ELSE a

NextIdleExpiry(state) == Earlier(now + IdleTTL, state.abs)

IsExpired(state) ==
  \/ state.status = "EXPIRED"
  \/ state.status \notin Closed /\ (now >= state.abs \/ now >= state.exp)

(* A second passes and Redis drops the keys whose deadline it reaches.      *)
Tick ==
  /\ now < MaxNow
  /\ now' = now + 1
  /\ store' = IF store.dies # 0 /\ store.dies <= now' THEN NoHash ELSE store
  /\ idem' = [k \in Keys |->
                IF idem[k].until <= now' THEN NoRecord ELSE idem[k]]
  /\ UNCHANGED <<idState, life, clientVars>>

(* What comes into being when a command writes to a missing key.            *)
NextLife == life' = IF store.present THEN life ELSE life + 1

-----------------------------------------------------------------------------
(* The ends of a manager call.                                              *)

Idle(c) ==
  /\ pc' = [pc EXCEPT ![c] = "idle"]
  /\ call' = [call EXCEPT ![c] = SomeCall]
  /\ snap' = [snap EXCEPT ![c] = NoPayload]
  /\ born' = [born EXCEPT ![c] = 0]

(* The caller dies, its request is cancelled, or the patch engine rejects   *)
(* its patch: nothing more reaches Redis.                                   *)
GiveUp(c) ==
  /\ pc[c] # "idle"
  /\ Idle(c)
  /\ UNCHANGED <<now, store, idem, idState, life>>

(* get_session, with which write, touch and complete calls begin.           *)
GetSession(c, next) ==
  /\ pc[c] = "idle"
  /\ idState = "known"
  /\ store.full
  /\ ~IsExpired(store.payload)
  /\ pc' = [pc EXCEPT ![c] = next]
  /\ snap' = [snap EXCEPT ![c] = store.payload]
  /\ born' = [born EXCEPT ![c] = life]
  /\ UNCHANGED <<now, store, idem, idState, life>>

BeginWrite(c) ==
  \E w \in Calls : GetSession(c, "write") /\ call' = [call EXCEPT ![c] = w]

BeginTouch(c)    == GetSession(c, "touch") /\ UNCHANGED call
BeginComplete(c) == GetSession(c, "complete") /\ UNCHANGED call

-----------------------------------------------------------------------------
(* compare_and_set.                                                         *)

(* Definitions named X_slip give X with one mistake; the mutation runs of   *)
(* PROJECT.json put them in X's place to see a property fail.               *)

(* The code's fingerprint also holds client_message_id; callers derive it   *)
(* and the key from one message, so it is taken to be a function of the key. *)
Fingerprint_nameOnly(w) == <<w.expected, w.seq, w.op>>
Fingerprint(w) ==
  <<w.expected, w.seq, w.op, IF w.op \in PatchOps THEN w.body ELSE NoBody>>

AsksAfter_unset(op, state) ==
  IF op = "PATCH_ASK" THEN TRUE ELSE state.asks
AsksAfter(op, state) ==
  CASE op \in {"PATCH_ASK", "SET_CLARIFICATION"} -> TRUE
    [] op \in {"PATCH", "MARK_RECOMMENDATION_READY"} -> state.asks
    [] OTHER -> FALSE

StatusAfter(op, state) ==
  CASE op = "MARK_RECOMMENDATION_READY" -> "RECOMMENDATION_READY"
    [] op = "SET_CLARIFICATION" -> "AWAITING_CLARIFICATION"
    [] op \in {"INITIALIZE_NEED", "CLEAR_CLARIFICATION", "RESET_NEED"} -> "ACTIVE"
    [] OTHER -> IF AsksAfter(op, state) THEN "AWAITING_CLARIFICATION"
                ELSE IF state.status = "AWAITING_CLARIFICATION" THEN "ACTIVE"
                ELSE state.status

(* The state the manager derives from its snapshot.                         *)
NextState(w, state) ==
  [rev    |-> state.rev + 1,
   status |-> StatusAfter(w.op, state),
   asks   |-> AsksAfter(w.op, state),
   seq    |-> IF w.seq # NoSeq THEN w.seq ELSE state.seq,
   exp    |-> NextIdleExpiry(state),
   abs    |-> state.abs,
   log    |-> Append(state.log, w)]

SessionClosed_byStatus == store.status \in Closed
SessionClosed ==
  \/ store.status \in Closed
  \/ store.abs > 0 /\ now >= store.abs
  \/ store.exp > 0 /\ now >= store.exp

OutOfOrder_ungated(w) == FALSE
OutOfOrder(w) == w.seq # NoSeq /\ store.seq # NoSeq /\ w.seq <= store.seq

(* The next state must continue the stored revision.                        *)
WrongBase_unchecked(next) == FALSE
WrongBase(next) == next.rev # store.rev + 1

Answered_forgotten(w) == FALSE
Answered(w) == idem[w.key].until # 0

(* The early returns of compare_and_set.lua, in its order.                  *)
Verdict(w, next) ==
  IF Answered(w)
  THEN IF Fingerprint(idem[w.key].call) = Fingerprint(w)
       THEN "IDEMPOTENT_REPLAY" ELSE "DUPLICATE_PAYLOAD_MISMATCH"
  ELSE IF ~store.present          THEN "SESSION_NOT_FOUND"
  ELSE IF SessionClosed           THEN "SESSION_EXPIRED"
  ELSE IF store.rev # w.expected  THEN "VERSION_CONFLICT"
  ELSE IF OutOfOrder(w)           THEN "OUT_OF_ORDER"
  ELSE IF WrongBase(next)         THEN "INVALID_STATE"
  ELSE "APPLIED"

(* The sliding key TTL, capped by what is left of the absolute lifetime.    *)
KeyTTL ==
  LET left == IF store.abs > 0 THEN store.abs - now ELSE IdleTTL
  IN  Later(1, IF left > 0 THEN Earlier(IdleTTL, left) ELSE IdleTTL)

(* The hash takes the sequence of this call, so a call without one clears   *)
(* it; the payload keeps the snapshot's.                                    *)
Written_noDeadline(w, next) ==
  [present |-> TRUE, full |-> TRUE, payload |-> next, rev |-> next.rev,
   status |-> next.status, seq |-> w.seq, exp |-> next.exp, abs |-> next.abs]
Written_staleRevision(w, next) ==
  [store EXCEPT !.full = TRUE, !.payload = next, !.rev = w.expected,
                !.status = next.status, !.seq = w.seq]
Written(w, next) ==
  [present |-> TRUE, full |-> TRUE, payload |-> next, rev |-> next.rev,
   status |-> next.status, seq |-> w.seq, exp |-> next.exp, abs |-> next.abs,
   dies |-> now + KeyTTL]

Applies(c) ==
  pc[c] = "write" /\ Verdict(call[c], NextState(call[c], snap[c])) = "APPLIED"

CasApply(c) ==
  LET w == call[c] IN
  /\ Applies(c)
  /\ store' = Written(w, NextState(w, snap[c]))
  /\ idem' = [idem EXCEPT ![w.key] =
                [until |-> now + Later(Later(IdemTTL, IdleTTL), KeyTTL),
                 call  |-> w]]
  /\ Idle(c)
  /\ UNCHANGED <<now, idState, life>>

(* Every other verdict leaves Redis as it was; a replay answers the caller  *)
(* with the recorded revision, the rest raise.                              *)
CasRefuse(c) ==
  /\ pc[c] = "write"
  /\ ~Applies(c)
  /\ Idle(c)
  /\ UNCHANGED <<now, store, idem, idState, life>>

-----------------------------------------------------------------------------
(* create: EXISTS, HSET, PEXPIRE.                                           *)

Created == [rev |-> 0, status |-> "ACTIVE", asks |-> FALSE, seq |-> NoSeq,
            exp |-> Earlier(now + IdleTTL, now + AbsTTL), abs |-> now + AbsTTL,
            log |-> <<>>]

CreateCheck(c) ==
  /\ pc[c] = "idle"
  /\ ClientNamedIds \/ idState = "fresh"
  /\ ~store.present
  /\ pc' = [pc EXCEPT ![c] = "createHset"]
  /\ snap' = [snap EXCEPT ![c] = Created]
  /\ idState' = IF ClientNamedIds THEN "known" ELSE "creating"
  /\ UNCHANGED <<now, store, idem, life, call, born>>

CreateHset(c) ==
  /\ pc[c] = "createHset"
  /\ store' = [present |-> TRUE, full |-> TRUE, payload |-> snap[c], rev |-> 0,
               status |-> "ACTIVE", seq |-> NoSeq, exp |-> snap[c].exp,
               abs |-> snap[c].abs, dies |-> store.dies]
  /\ NextLife
  /\ pc' = [pc EXCEPT ![c] = "createExpire"]
  /\ UNCHANGED <<now, idem, idState, call, snap, born>>

(* PEXPIRE on a key that is gone does nothing.                              *)
SetDeadline(ttl) ==
  store' = IF store.present THEN [store EXCEPT !.dies = now + ttl] ELSE store

CreateExpire(c) ==
  /\ pc[c] = "createExpire"
  /\ LET left == snap[c].abs - now
     IN  SetDeadline(IF left > 0 THEN Earlier(IdleTTL, left) ELSE IdleTTL)
  /\ idState' = "known"
  /\ Idle(c)
  /\ UNCHANGED <<now, idem, life>>

-----------------------------------------------------------------------------
(* touch: EXISTS, HSET of the expiry fields, PEXPIRE.  The payload's own    *)
(* expires_at stays.                                                        *)

TouchCheck(c) ==
  /\ pc[c] = "touch"
  /\ store.present
  /\ pc' = [pc EXCEPT ![c] = "touchHset"]
  /\ snap' = [snap EXCEPT ![c].exp = NextIdleExpiry(snap[c])]
  /\ UNCHANGED <<now, store, idem, idState, life, call, born>>

TouchHset(c) ==
  /\ pc[c] = "touchHset"
  /\ store' = [store EXCEPT !.present = TRUE, !.exp = snap[c].exp]
  /\ NextLife
  /\ pc' = [pc EXCEPT ![c] = "touchExpire"]
  /\ UNCHANGED <<now, idem, idState, call, snap, born>>

(* The code reads abs (HGET) and sets the deadline in two commands; one step *)
(* here, since that field does not change within a life of the key.         *)
TouchExpire(c) ==
  /\ pc[c] = "touchExpire"
  /\ SetDeadline(IF store.abs > 0
                 THEN Earlier(IdleTTL, Later(1, store.abs - now)) ELSE IdleTTL)
  /\ Idle(c)
  /\ UNCHANGED <<now, idem, idState, life>>

-----------------------------------------------------------------------------
(* complete: one unconditional HSET of the snapshot the caller read.        *)

CompleteHset(c) ==
  LET done == [snap[c] EXCEPT !.status = "COMPLETED"] IN
  /\ pc[c] = "complete"
  /\ store' = [store EXCEPT !.present = TRUE, !.full = TRUE, !.payload = done,
                            !.status = done.status, !.rev = done.rev]
  /\ NextLife
  /\ Idle(c)
  /\ UNCHANGED <<now, idem, idState>>

-----------------------------------------------------------------------------

Init ==
  /\ now = 1 /\ life = 0
  /\ store = NoHash
  /\ idem = [k \in Keys |-> NoRecord]
  /\ idState = IF ClientNamedIds THEN "known" ELSE "fresh"
  /\ pc = [c \in Clients |-> "idle"]
  /\ call = [c \in Clients |-> SomeCall]
  /\ snap = [c \in Clients |-> NoPayload]
  /\ born = [c \in Clients |-> 0]

Step(c) ==
  \/ BeginWrite(c) \/ BeginTouch(c) \/ BeginComplete(c)
  \/ CasApply(c) \/ CasRefuse(c)
  \/ CreateCheck(c) \/ CreateHset(c) \/ CreateExpire(c)
  \/ TouchCheck(c) \/ TouchHset(c) \/ TouchExpire(c)
  \/ CompleteHset(c)
  \/ GiveUp(c)

Next == Tick \/ \E c \in Clients : Step(c)

Spec == Init /\ [][Next]_vars

-----------------------------------------------------------------------------
(* Properties.                                                              *)

(* The hash carries a second copy of revision, status, sequence and absolute *)
(* expiry beside the payload, and the Lua script decides on that copy while  *)
(* the manager derives the next state from the payload.  The two agree, and  *)
(* the revision counts the writes the payload is derived from.  (After an    *)
(* unconditional complete only revision and status are rewritten.)           *)
HashMirrorsPayload ==
  store.full =>
    /\ store.rev = store.payload.rev
    /\ store.status = store.payload.status
    /\ store.rev = Len(store.payload.log)
    /\ store.status # "COMPLETED" =>
         /\ store.abs = store.payload.abs
         /\ store.seq \in {NoSeq, store.payload.seq}

(* Optimistic locking: a write Redis would accept now was derived from       *)
(* exactly the state it replaces, whatever revision its caller claimed to    *)
(* expect and however long it was in flight.  Snapshots from an earlier      *)
(* life of the key are excepted: revisions restart with the key.             *)
NoLostUpdate ==
  \A c \in Clients : Applies(c) /\ born[c] = life => store.payload = snap[c]

(* When idempotency records live as long as the session may (the default     *)
(* policy: both 604800 s), one idempotency key is applied at most once in    *)
(* the life of a session, whichever payload and revision it comes with.      *)
KeyAppliedOnce ==
  IdemTTL >= AbsTTL =>
    \A i, j \in 1..Len(store.payload.log) :
      store.payload.log[i].key = store.payload.log[j].key => i = j

(* No write is accepted at or after the absolute expiry of the session it    *)
(* was derived from, although touch, create and compare_and_set each set     *)
(* expiry fields and deadlines on their own.                                 *)
NoWriteAfterAbsolute == \A c \in Clients : Applies(c) => now < snap[c].abs

(* A session waits for an answer only while a clarification is required, and *)
(* a required clarification is not silently dropped back to ACTIVE.          *)
AwaitingMeansAsked ==
  store.full =>
    /\ store.payload.status = "AWAITING_CLARIFICATION" => store.payload.asks
    /\ store.payload.status = "ACTIVE" => ~store.payload.asks

(* What ADR-003 promises against last-write-wins: once applied, a write      *)
(* stays part of the state it was applied to until the session is completed  *)
(* or its key expires.                                                       *)
WritesSurvive ==
  [][life' = life /\ store.full /\ store'.full /\ store'.status # "COMPLETED"
     => /\ Len(store'.payload.log) >= Len(store.payload.log)
        /\ SubSeq(store'.payload.log, 1, Len(store.payload.log))
             = store.payload.log]_vars

(* A replay tells the caller that its write was applied before.  While the  *)
(* session is open that is true: the same patch, or for named operations     *)
(* (whose arguments the fingerprint leaves out) the same operation, is part  *)
(* of the state.  Excepted are keys that vanished and came back, for records *)
(* outlive them, and ids that clients name, which are opened twice.          *)
ReplayIsStored ==
  \A c \in Clients :
    /\ pc[c] = "write" /\ store.status \notin Closed
    /\ Verdict(call[c], NextState(call[c], snap[c])) = "IDEMPOTENT_REPLAY"
    /\ store.full /\ life = 1 /\ ~ClientNamedIds
    => \E i \in 1..Len(store.payload.log) :
         LET w == store.payload.log[i] IN
         /\ w.key = call[c].key /\ w.op = call[c].op
         /\ w.op \in PatchOps => w.body = call[c].body

(* The promise of the store as an append-only log of writes.                 *)
Promised == INSTANCE SessionLog WITH
  log <- store.payload.log,
  phase <- IF ~store.full THEN IF life = 0 THEN "absent" ELSE "gone"
           ELSE IF store.status = "COMPLETED"
                THEN IF life = 1 THEN "done" ELSE "redone"
                ELSE IF life = 1 THEN "open" ELSE "reopened"

(* The store implements the abstract session: what happens to the hash, seen *)
(* through its payload, is opening once, appending one fresh write to the    *)
(* whole log, completing for good along the one history of the writes, or    *)
(* vanishing; only after a touch or a completion has brought a vanished key  *)
(* back may a write replace what is there by what its caller knew.           *)
ImplementsSessionLog == Promised!Spec

=============================================================================
