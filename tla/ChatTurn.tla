------------------------------ MODULE ChatTurn ------------------------------
(***************************************************************************)
(* The turns of ChatOrchestrator.handle_turn over the conversation store.  *)
(*                                                                         *)
(* A turn reads a snapshot, has the utterance understood, writes the need, *)
(* refreshes, has a category matched, writes the category and refreshes.   *)
(* Each write may meet a version conflict once: the snapshot is read again *)
(* and the same patch is sent under a second key.  A client that lost the  *)
(* answer sends its request again, so several turns may run one request.   *)
(*                                                                         *)
(* Every step is a step of ConversationStore, in which a caller that runs  *)
(* a turn issues the writes of that turn, or leaves the store alone.       *)
(***************************************************************************)
EXTENDS ConversationStore

CONSTANTS
  Requests,     (* user messages: [id, seq], seq their client_sequence      *)
  Readings,     (* what the model or the matcher may make of a message      *)
  MaxRevision   (* bound on the revisions a turn starts a write from        *)

VARIABLE turn   (* the turn each caller is in                               *)

turnVars == <<vars, turn>>

Parts == {"need", "cat"}

(* Keys are derived from the key of the request: a suffix for the part,     *)
(* another for the retry.                                                   *)
TurnKey(r, part, retry) == <<r, part, retry>>
TurnKeys == {TurnKey(r, p, b) : r \in Requests, p \in Parts, b \in BOOLEAN}

TurnBody(r, part, x) == <<r, part, x>>

Turn == [at : {"ready", "sent", "conflict", "done"}, req : Requests,
         part : Parts, retry : BOOLEAN, reading : Readings, rev : Nat]
NoTurn == [at |-> "none"]

(* The write a turn sends: the reading it has, the revision it saw.         *)
TurnWrite_unsequencedRetry(t) ==
  [op |-> "PATCH", body |-> TurnBody(t.req, t.part, t.reading),
   key |-> TurnKey(t.req, t.part, t.retry), expected |-> t.rev,
   seq |-> IF t.retry THEN NoSeq ELSE t.req.seq]
TurnWrite(t) ==
  [op |-> "PATCH", body |-> TurnBody(t.req, t.part, t.reading),
   key |-> TurnKey(t.req, t.part, t.retry), expected |-> t.rev,
   seq |-> t.req.seq]

(* The callers may issue the writes of turns, beside any others.            *)
ASSUME TurnAssumption ==
  /\ Requests \subseteq [id : STRING, seq : Nat \cup {NoSeq}]
  /\ MaxRevision \in Nat
  /\ \A t \in [at : {"ready"}, req : Requests, part : Parts,
               retry : BOOLEAN, reading : Readings, rev : 0..MaxRevision] :
       TurnWrite(t) \in Calls

(* A write of a turn is in flight exactly while its turn waits for it.      *)
TurnTypeOK ==
  /\ TypeOK
  /\ turn \in [Clients -> Turn \cup {NoTurn}]
  /\ \A c \in Clients :
       /\ turn[c].at = "sent" =>
            pc[c] = "write" /\ call[c] = TurnWrite(turn[c])
       /\ turn[c].at \in {"ready", "conflict", "done"} => pc[c] = "idle"
       /\ pc[c] = "write" /\ call[c].key \in TurnKeys => turn[c].at = "sent"

-----------------------------------------------------------------------------
(* One turn.                                                                *)

InTurn(c, place) == turn[c].at = place

SetTurn(c, t) == turn' = [turn EXCEPT ![c] = t]

Readable ==
  idState = "known" /\ store.full /\ ~IsExpired(store.payload)

(* get_session and the call of the FAST model behind it.                    *)
BeginTurn(c) ==
  /\ InTurn(c, "none") /\ pc[c] = "idle"
  /\ Readable
  /\ \E r \in Requests, x \in Readings :
       SetTurn(c, [at |-> "ready", req |-> r, part |-> "need", retry |-> FALSE,
                   reading |-> x, rev |-> store.payload.rev])
  /\ UNCHANGED vars

(* apply_model_update, directly or through CategoryResolutionApplier, reads *)
(* a snapshot of its own; the revision it expects is the one the turn saw.  *)
Send(c) ==
  /\ InTurn(c, "ready") /\ turn[c].rev <= MaxRevision
  /\ GetSession(c, "write")
  /\ call' = [call EXCEPT ![c] = TurnWrite(turn[c])]
  /\ turn' = [turn EXCEPT ![c].at = "sent"]

Answer(c) == Verdict(call[c], NextState(call[c], snap[c]))

Accepted_conflictToo(c) ==
  Answer(c) \in {"APPLIED", "IDEMPOTENT_REPLAY", "VERSION_CONFLICT"}
Accepted(c) == Answer(c) \in {"APPLIED", "IDEMPOTENT_REPLAY"}

MayRetry(c) == Answer(c) = "VERSION_CONFLICT" /\ ~turn[c].retry

Cas(c) == CasApply(c) \/ CasRefuse(c)

WriteAccepted(c) ==
  /\ InTurn(c, "sent") /\ Accepted(c)
  /\ Cas(c)
  /\ turn' = [turn EXCEPT ![c].at = "done"]

WriteConflicts(c) ==
  /\ InTurn(c, "sent") /\ ~Accepted(c) /\ MayRetry(c)
  /\ Cas(c)
  /\ turn' = [turn EXCEPT ![c].at = "conflict"]

(* A second conflict and every other refusal end the turn with an error.    *)
WriteFails(c) ==
  /\ InTurn(c, "sent") /\ ~Accepted(c) /\ ~MayRetry(c)
  /\ Cas(c)
  /\ SetTurn(c, NoTurn)

Reread(c) ==
  /\ InTurn(c, "conflict") /\ Readable
  /\ SetTurn(c, [turn[c] EXCEPT !.at = "ready", !.retry = TRUE,
                                !.rev = store.payload.rev])
  /\ UNCHANGED vars

(* The refresh after the need; the matcher then answers.                    *)
Match(c) ==
  /\ InTurn(c, "done") /\ turn[c].part = "need" /\ Readable
  /\ \E x \in Readings :
       SetTurn(c, [turn[c] EXCEPT !.at = "ready", !.part = "cat",
                                  !.retry = FALSE, !.reading = x,
                                  !.rev = store.payload.rev])
  /\ UNCHANGED vars

(* The refresh after the category: the outcome goes to the user.            *)
EndTurn(c) ==
  /\ InTurn(c, "done") /\ turn[c].part = "cat" /\ Readable
  /\ SetTurn(c, NoTurn)
  /\ UNCHANGED vars

(* The FAST model is unavailable or fails, get_session finds no session or  *)
(* an expired one, the matcher raises, or the request is cancelled: nothing *)
(* more is written for this turn.                                           *)
AbandonTurn_detached(c) ==
  /\ ~InTurn(c, "none")
  /\ UNCHANGED vars
  /\ SetTurn(c, NoTurn)
AbandonTurn(c) ==
  /\ ~InTurn(c, "none")
  /\ IF InTurn(c, "sent") THEN GiveUp(c) ELSE UNCHANGED vars
  /\ SetTurn(c, NoTurn)

-----------------------------------------------------------------------------
(* Calls outside of turns: creation, touch, completion, other writes.       *)

OtherWrite(c) ==
  \E w \in Calls : /\ w.key \notin TurnKeys
                   /\ GetSession(c, "write")
                   /\ call' = [call EXCEPT ![c] = w]

OtherStep(c) ==
  /\ InTurn(c, "none")
  /\ \/ OtherWrite(c) \/ Cas(c) \/ GiveUp(c)
     \/ CreateCheck(c) \/ CreateHset(c) \/ CreateExpire(c)
     \/ BeginTouch(c) \/ TouchCheck(c) \/ TouchHset(c) \/ TouchExpire(c)
     \/ BeginComplete(c) \/ CompleteHset(c)
  /\ UNCHANGED turn

TurnInit == Init /\ turn = [c \in Clients |-> NoTurn]

TurnStep(c) ==
  \/ BeginTurn(c) \/ Send(c)
  \/ WriteAccepted(c) \/ WriteConflicts(c) \/ WriteFails(c)
  \/ Reread(c) \/ Match(c) \/ EndTurn(c) \/ AbandonTurn(c)

TurnNext ==
  \/ Tick /\ UNCHANGED turn
  \/ \E c \in Clients : TurnStep(c) \/ OtherStep(c)

TurnSpec == TurnInit /\ [][TurnNext]_turnVars

-----------------------------------------------------------------------------
(* Properties.                                                              *)

Log == store.payload.log

(* The part of a request the i-th write of the log stores.                  *)
Stores(i, r, part) ==
  \E b \in BOOLEAN : Log[i].key = TurnKey(r, part, b)

Stored(r, part) == \E i \in 1..Len(Log) : Stores(i, r, part)

Open == store.full /\ store.status \notin Closed

(* A turn tells the user that a part was accepted only while that part is in *)
(* the state of the open session, whether it was applied, applied after a    *)
(* conflict, or answered as a replay of a turn of the same request.  Keys    *)
(* that vanished and came back are excepted, and ids that clients name.      *)
AcceptedIsStored ==
  ~ClientNamedIds /\ life = 1 /\ Open =>
    \A c \in Clients :
      InTurn(c, "done") => Stored(turn[c].req, turn[c].part)

(* The state never holds the category of a message without the need it was   *)
(* matched for: what a turn stores first comes first, through conflicts,     *)
(* retries and repeated requests.                                            *)
CategoryFollowsNeed ==
  ~ClientNamedIds /\ life = 1 =>
    \A i \in 1..Len(Log), r \in Requests :
      Stores(i, r, "cat") => \E j \in 1..(i - 1) : Stores(j, r, "need")

(* A repeated request finds no record under the key of the retry its first   *)
(* turn wrote with, so only the gate on sequences keeps it from being        *)
(* applied again, and any write without a sequence opens that gate.  While   *)
(* everything stored came with one, a request stores a part at most once;    *)
(* keys that vanished and came back are excepted again.                      *)
Sequenced(w) ==
  IF w.key \in TurnKeys THEN w.key[1].seq # NoSeq ELSE w.seq # NoSeq

SequencedOnce ==
  ~ClientNamedIds /\ life = 1 /\ (\A i \in 1..Len(Log) : Sequenced(Log[i])) =>
    \A i, j \in 1..Len(Log), r \in Requests, p \in Parts :
      Stores(i, r, p) /\ Stores(j, r, p) => i = j

=============================================================================
