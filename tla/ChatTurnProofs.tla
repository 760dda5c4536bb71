---------------------------- MODULE ChatTurnProofs ----------------------------
(***************************************************************************)
(* Theorems about ChatTurn for every set of callers, messages and readings: *)
(* its turns are calls of the conversation store, so all that is proved of  *)
(* the store holds of them, and what turns store comes in order.            *)
(***************************************************************************)
EXTENDS ChatTurn, ConversationStoreProofs

-----------------------------------------------------------------------------
(* The store under turns.                                                   *)

(* The write a turn sends is a call of the store.                           *)
LEMMA TurnWriteIsCall ==
  ASSUME NEW t \in Turn, t.at = "ready", t.rev <= MaxRevision
  PROVE  TurnWrite(t) \in Calls
  <1>1. t.rev \in 0..MaxRevision
    BY TurnAssumption DEF Turn
  <1>2. t \in [at : {"ready"}, req : Requests, part : Parts, retry : BOOLEAN,
               reading : Readings, rev : 0..MaxRevision]
    BY <1>1 DEF Turn
  <1>3. QED
    BY <1>2, TurnAssumption

(* A turn in one of its places has a message, a part and a revision.        *)
LEMMA TurnInPlace ==
  ASSUME TurnTypeOK, NEW c \in Clients, turn[c] # NoTurn
  PROVE  turn[c] \in Turn
  BY DEF TurnTypeOK

(* A caller in a turn, or beside turns, does a step of the store or leaves  *)
(* the store alone.                                                         *)
LEMMA CallerSteps ==
  ASSUME TurnTypeOK, NEW c \in Clients, TurnStep(c) \/ OtherStep(c)
  PROVE  Step(c) \/ UNCHANGED vars
  <1>1. CASE Send(c)
    <2>1. turn[c] \in Turn /\ turn[c].at = "ready"
      BY <1>1, TurnInPlace DEF Send, InTurn, NoTurn
    <2>2. TurnWrite(turn[c]) \in Calls
      BY <1>1, <2>1, TurnWriteIsCall DEF Send
    <2>3. BeginWrite(c)
      BY <1>1, <2>2 DEF Send, BeginWrite
    <2>4. QED
      BY <2>3 DEF Step
  <1>2. CASE AbandonTurn(c)
    BY <1>2 DEF AbandonTurn, Step
  <1>3. CASE WriteAccepted(c) \/ WriteConflicts(c) \/ WriteFails(c)
    BY <1>3 DEF WriteAccepted, WriteConflicts, WriteFails, Cas, Step
  <1>4. CASE BeginTurn(c) \/ Reread(c) \/ Match(c) \/ EndTurn(c)
    BY <1>4 DEF BeginTurn, Reread, Match, EndTurn
  <1>5. CASE OtherStep(c)
    <2>1. OtherWrite(c) => BeginWrite(c)
      BY DEF OtherWrite, BeginWrite
    <2>2. QED
      BY <1>5, <2>1 DEF OtherStep, Cas, Step
  <1>6. QED
    BY <1>1, <1>2, <1>3, <1>4, <1>5 DEF TurnStep

(* So turns take the store only where its own steps do.                     *)
LEMMA TurnStepIsStep ==
  ASSUME TurnTypeOK, [TurnNext]_turnVars
  PROVE  [Next]_vars
  BY CallerSteps DEF TurnNext, turnVars, Next

(* A step of one caller leaves the call of every other one alone.           *)
LEMMA OthersStay ==
  ASSUME TypeOK, NEW c \in Clients, Step(c) \/ UNCHANGED vars,
         NEW d \in Clients, d # c
  PROVE  pc'[d] = pc[d] /\ call'[d] = call[d]
  BY DEF TypeOK, Step, BeginWrite, BeginTouch, BeginComplete, GetSession,
         CasApply, CasRefuse, CreateCheck, CreateHset, CreateExpire,
         TouchCheck, TouchHset, TouchExpire, CompleteHset, GiveUp, Idle, vars

-----------------------------------------------------------------------------
(* Types.                                                                   *)

(* What TurnTypeOK says of one caller.                                      *)
TurnOK(c) ==
  /\ turn[c].at = "sent" => pc[c] = "write" /\ call[c] = TurnWrite(turn[c])
  /\ turn[c].at \in {"ready", "conflict", "done"} => pc[c] = "idle"
  /\ pc[c] = "write" /\ call[c].key \in TurnKeys => turn[c].at = "sent"

(* No turn has begun.                                                       *)
LEMMA TurnTypeInit == TurnInit => TurnTypeOK
  BY TypeInit DEF TurnInit, TurnTypeOK, Init, NoTurn

(* The turn after the snapshot is read again.                               *)
LEMMA RereadTurn ==
  ASSUME TurnTypeOK, NEW c \in Clients, Reread(c)
  PROVE  /\ turn'[c] \in Turn /\ turn' = [turn EXCEPT ![c] = turn'[c]]
         /\ turn'[c].at = "ready" /\ turn[c].at = "conflict"
         /\ turn'[c].req = turn[c].req /\ turn'[c].part = turn[c].part
  <1>1. turn[c] \in Turn /\ turn[c].at = "conflict"
    BY TurnInPlace DEF Reread, InTurn, NoTurn
  <1>2. store.payload.rev \in Nat
    BY DEF TurnTypeOK, TypeOK, Hash, Payload
  <1> DEFINE t == [turn[c] EXCEPT !.at = "ready", !.retry = TRUE,
                                  !.rev = store.payload.rev]
  <1>3. t \in Turn /\ t.at = "ready" /\ t.req = turn[c].req
        /\ t.part = turn[c].part
    BY <1>1, <1>2 DEF Turn
  <1>4. turn' = [turn EXCEPT ![c] = t] /\ turn'[c] = t
    BY DEF Reread, SetTurn, TurnTypeOK
  <1>5. QED
    BY <1>1, <1>3, <1>4

(* The turn after the matcher answered.                                     *)
LEMMA MatchTurn ==
  ASSUME TurnTypeOK, NEW c \in Clients, Match(c)
  PROVE  /\ turn'[c] \in Turn /\ turn' = [turn EXCEPT ![c] = turn'[c]]
         /\ turn'[c].at = "ready" /\ turn[c].at = "done"
         /\ turn[c].part = "need"
         /\ turn'[c].req = turn[c].req /\ turn'[c].part = "cat"
  <1>1. turn[c] \in Turn /\ turn[c].at = "done" /\ turn[c].part = "need"
    BY TurnInPlace DEF Match, InTurn, NoTurn
  <1>2. store.payload.rev \in Nat
    BY DEF TurnTypeOK, TypeOK, Hash, Payload
  <1>3. PICK x \in Readings :
          SetTurn(c, [turn[c] EXCEPT !.at = "ready", !.part = "cat",
                                     !.retry = FALSE, !.reading = x,
                                     !.rev = store.payload.rev])
    BY DEF Match
  <1> DEFINE t == [turn[c] EXCEPT !.at = "ready", !.part = "cat",
                                  !.retry = FALSE, !.reading = x,
                                  !.rev = store.payload.rev]
  <1>4. t \in Turn /\ t.at = "ready" /\ t.req = turn[c].req /\ t.part = "cat"
    BY <1>1, <1>2 DEF Turn, Parts
  <1>5. turn' = [turn EXCEPT ![c] = t] /\ turn'[c] = t
    BY <1>3 DEF SetTurn, TurnTypeOK
  <1>6. QED
    BY <1>1, <1>4, <1>5

(* A turn moves only by its own steps.                                      *)
LEMMA TurnMoves ==
  ASSUME TurnTypeOK, NEW c \in Clients, TurnStep(c) \/ OtherStep(c)
  PROVE  /\ turn' \in [Clients -> Turn \cup {NoTurn}]
         /\ \A d \in Clients : d # c => turn'[d] = turn[d]
  <1>1. turn \in [Clients -> Turn \cup {NoTurn}]
    BY DEF TurnTypeOK
  <1>2. ASSUME NEW t \in Turn \cup {NoTurn}, turn' = [turn EXCEPT ![c] = t]
        PROVE  /\ turn' \in [Clients -> Turn \cup {NoTurn}]
               /\ \A d \in Clients : d # c => turn'[d] = turn[d]
    BY <1>1, <1>2
  <1>3. store.full => store.payload.rev \in Nat
    BY DEF TurnTypeOK, TypeOK, Hash, Payload
  <1>4. CASE BeginTurn(c)
    <2>1. PICK r \in Requests, x \in Readings :
            SetTurn(c, [at |-> "ready", req |-> r, part |-> "need",
                        retry |-> FALSE, reading |-> x,
                        rev |-> store.payload.rev])
      BY <1>4 DEF BeginTurn
    <2>2. store.payload.rev \in Nat
      BY <1>3, <1>4 DEF BeginTurn, Readable
    <2>3. QED
      BY <1>2, <2>1, <2>2 DEF SetTurn, Turn, Parts
  <1>5. ASSUME NEW to \in {"ready", "sent", "conflict", "done"},
               turn[c].at # "none", turn' = [turn EXCEPT ![c].at = to]
        PROVE  /\ turn' \in [Clients -> Turn \cup {NoTurn}]
               /\ \A d \in Clients : d # c => turn'[d] = turn[d]
    <2>1. turn[c] \in Turn
      BY <1>5, TurnInPlace DEF NoTurn
    <2>2. [turn[c] EXCEPT !.at = to] \in Turn
      BY <2>1 DEF Turn
    <2>3. turn' = [turn EXCEPT ![c] = [turn[c] EXCEPT !.at = to]]
      BY <1>5
    <2>4. QED
      BY <1>2, <2>2, <2>3
  <1>6. CASE Send(c) \/ WriteAccepted(c) \/ WriteConflicts(c)
    BY <1>5, <1>6 DEF Send, WriteAccepted, WriteConflicts, InTurn
  <1>7. CASE WriteFails(c) \/ EndTurn(c) \/ AbandonTurn(c)
    BY <1>2, <1>7 DEF WriteFails, EndTurn, AbandonTurn, SetTurn
  <1>8. CASE Reread(c)
    BY <1>2, <1>8, RereadTurn
  <1>9. CASE Match(c)
    BY <1>2, <1>9, MatchTurn
  <1>10. CASE OtherStep(c)
    BY <1>1, <1>10 DEF OtherStep
  <1>11. QED
    BY <1>4, <1>6, <1>7, <1>8, <1>9, <1>10 DEF TurnStep

(* A caller keeps its turn and its write together.                          *)
LEMMA TurnKeepsWrite ==
  ASSUME TurnTypeOK, NEW c \in Clients, TurnStep(c) \/ OtherStep(c)
  PROVE  TurnOK(c)'
  <1>1. TypeOK /\ TurnOK(c) /\ turn \in [Clients -> Turn \cup {NoTurn}]
    BY DEF TurnTypeOK, TurnOK
  <1>2. CASE Send(c)
    <2>1. turn[c] \in Turn
      BY <1>2, TurnInPlace DEF Send, InTurn, NoTurn
    <2>2. TurnWrite(turn'[c]) = TurnWrite(turn[c]) /\ turn'[c].at = "sent"
      BY <1>1, <1>2, <2>1 DEF Send, TurnWrite, Turn
    <2>3. pc'[c] = "write" /\ call'[c] = TurnWrite(turn[c])
      BY <1>1, <1>2 DEF Send, GetSession, TypeOK
    <2>4. QED
      BY <2>2, <2>3 DEF TurnOK
  <1>3. ASSUME pc'[c] = "idle", turn'[c].at # "sent"
        PROVE  TurnOK(c)'
    BY <1>3 DEF TurnOK
  <1>4. CASE WriteAccepted(c) \/ WriteConflicts(c) \/ WriteFails(c)
    <2>1. pc'[c] = "idle"
      BY <1>1, <1>4 DEF WriteAccepted, WriteConflicts, WriteFails, Cas,
                        CasApply, CasRefuse, Idle, TypeOK
    <2>2. turn[c] \in Turn
      BY <1>4, TurnInPlace
      DEF WriteAccepted, WriteConflicts, WriteFails, InTurn, NoTurn
    <2>3. turn'[c].at # "sent"
      BY <1>1, <1>4, <2>2 DEF WriteAccepted, WriteConflicts, WriteFails,
                              SetTurn, NoTurn, Turn
    <2>4. QED
      BY <1>3, <2>1, <2>3
  <1>5. CASE BeginTurn(c) \/ Reread(c) \/ Match(c) \/ EndTurn(c)
    <2>1. pc'[c] = "idle"
      BY <1>1, <1>5 DEF BeginTurn, Reread, Match, EndTurn, InTurn, TurnOK,
                        vars
    <2>2. CASE BeginTurn(c) \/ EndTurn(c)
      BY <1>1, <1>3, <2>1, <2>2 DEF BeginTurn, EndTurn, SetTurn, NoTurn
    <2>3. CASE Reread(c) \/ Match(c)
      <3>1. turn'[c].at = "ready"
        BY <2>3, RereadTurn, MatchTurn
      <3>2. QED
        BY <1>3, <2>1, <3>1
    <2>4. QED
      BY <1>5, <2>2, <2>3
  <1>6. CASE AbandonTurn(c)
    <2>1. turn'[c] = NoTurn
      BY <1>1, <1>6 DEF AbandonTurn, SetTurn
    <2>2. turn[c] \in Turn
      BY <1>6, TurnInPlace DEF AbandonTurn, InTurn, NoTurn
    <2>3. pc'[c] = "idle"
      BY <1>1, <1>6, <2>2 DEF AbandonTurn, InTurn, GiveUp, Idle, TurnOK, vars,
                              TypeOK, Turn
    <2>4. QED
      BY <1>3, <2>1, <2>3 DEF NoTurn
  <1>7. CASE OtherStep(c)
    <2>1. turn'[c] = turn[c] /\ turn[c].at = "none"
      BY <1>7 DEF OtherStep, InTurn
    <2>2. ~(pc[c] = "write" /\ call[c].key \in TurnKeys)
      BY <1>1, <2>1 DEF TurnOK
    <2>3. ASSUME pc'[c] = "write" PROVE call'[c].key \notin TurnKeys
      <3>1. CASE OtherWrite(c)
        BY <1>1, <3>1 DEF OtherWrite, TypeOK
      <3>2. CASE ~OtherWrite(c)
        <4>1. FALSE
          BY <1>1, <1>7, <2>3, <3>2
          DEF OtherStep, Cas, CasApply, CasRefuse, GiveUp, CreateCheck,
              CreateHset, CreateExpire, BeginTouch, TouchCheck, TouchHset,
              TouchExpire, BeginComplete, CompleteHset, GetSession, Idle,
              TypeOK
        <4>2. QED
          BY <4>1
      <3>3. QED
        BY <3>1, <3>2
    <2>4. QED
      BY <2>1, <2>3 DEF TurnOK
  <1>8. QED
    BY <1>2, <1>4, <1>5, <1>6, <1>7 DEF TurnStep

(* Every step keeps the types.                                              *)
LEMMA TurnTypeStep == TurnTypeOK /\ [TurnNext]_turnVars => TurnTypeOK'
  <1> SUFFICES ASSUME TurnTypeOK, [TurnNext]_turnVars PROVE TurnTypeOK'
    OBVIOUS
  <1>1. TypeOK'
    BY TurnStepIsStep, TypeStep DEF TurnTypeOK
  <1>2. CASE UNCHANGED <<pc, call, turn>>
    BY <1>1, <1>2 DEF TurnTypeOK
  <1>3. ASSUME NEW c \in Clients, TurnStep(c) \/ OtherStep(c)
        PROVE  TurnTypeOK'
    <2>1. ASSUME NEW d \in Clients PROVE TurnOK(d)'
      <3>1. CASE d = c
        BY <1>3, <3>1, TurnKeepsWrite
      <3>2. CASE d # c
        <4>1. turn'[d] = turn[d]
          BY <1>3, <3>2, TurnMoves
        <4>2. pc'[d] = pc[d] /\ call'[d] = call[d]
          BY <1>3, <3>2, CallerSteps, OthersStay DEF TurnTypeOK
        <4>3. QED
          BY <4>1, <4>2 DEF TurnOK, TurnTypeOK
      <3>3. QED
        BY <3>1, <3>2
    <2>2. turn' \in [Clients -> Turn \cup {NoTurn}]
      BY <1>3, TurnMoves
    <2>3. QED
      BY <1>1, <2>1, <2>2 DEF TurnTypeOK, TurnOK
  <1>4. QED
    BY <1>2, <1>3 DEF TurnNext, turnVars, vars, Tick, clientVars

(* A write of a turn is in flight exactly while its turn waits for it, and   *)
(* every variable keeps its type.                                           *)
THEOREM TurnTypes == TurnSpec => []TurnTypeOK
  BY TurnTypeInit, TurnTypeStep, PTL DEF TurnSpec

(* Turns use the store by the calls it was proved for: what holds of every   *)
(* behaviour of the store holds under turns.                                *)
THEOREM TurnsUseTheStore == TurnSpec => Spec
  <1>1. TurnInit => Init
    BY DEF TurnInit
  <1>2. TurnTypeOK /\ [TurnNext]_turnVars => [Next]_vars
    BY TurnStepIsStep
  <1>3. QED
    BY <1>1, <1>2, TurnTypes, PTL DEF TurnSpec, Spec

(* What the store promises of a session holds under the turns, with their    *)
(* derived keys, retries and repeats: the session is the log of SessionLog,  *)
(* and what was applied stays until it is completed or its key expires.      *)
THEOREM TurnsKeepThePromise ==
  ASSUME ~ClientNamedIds, IdemTTL >= AbsTTL
  PROVE  TurnSpec => ImplementsSessionLog /\ FirstLifeStays
  BY TurnsUseTheStore, StoreImplementsSessionLog, FirstLifeKept

-----------------------------------------------------------------------------
(* What is known of the store, from its own theorems.                       *)
StoreInv == TypeOK /\ SoleCreator /\ MirrorInv /\ LockInv /\ ReplayInv
            /\ RecordKeys /\ HistoryInv

(* All of it holds of every behaviour of the store.                         *)
LEMMA StoreSound == ASSUME ~ClientNamedIds PROVE Spec => []StoreInv
  <1>1. Init => SoleCreator /\ LockInv /\ ReplayInv /\ RecordKeys /\ HistoryInv
    BY SoleCreatorInit, LockInit, ReplayInit, HistoryInit
    DEF Init, NoRecord, RecordKeys
  <1>2. StoreInv /\ [Next]_vars
          => SoleCreator' /\ MirrorInv' /\ LockInv' /\ ReplayInv'
             /\ RecordKeys' /\ HistoryInv'
    BY SoleCreatorStep, MirrorStep, LockStep, ReplayStep, RecordKeysStep,
       HistoryStep DEF StoreInv
  <1>3. QED
    BY <1>1, <1>2, MirrorInit, TypeCorrect, PTL DEF Spec, StoreInv

(* In the first life of the session an accepted write is added to the log,   *)
(* whose last sequence it exceeds where both have one.                      *)
LEMMA AppliedAppends ==
  ASSUME StoreInv, NEW c \in Clients, CasApply(c), life = 1
  PROVE  /\ Open /\ snap[c] = store.payload
         /\ Log \in Seq(Call) /\ call[c] \in Call
         /\ Log' = Append(Log, call[c])
         /\ Log # <<>> => \/ NoSeq \in {call[c].seq, Log[Len(Log)].seq}
                         \/ Log[Len(Log)].seq < call[c].seq
  <1>1. PICK w : w = call[c]
    OBVIOUS
  <1>2. /\ store.present /\ store.status \notin Closed /\ w \in Call
        /\ store'.payload.log = Append(snap[c].log, w)
        /\ snap[c].log \in Seq(Call)
        /\ w.seq = NoSeq \/ store.seq = NoSeq \/ store.seq < w.seq
    BY <1>1, AppliedHistory DEF StoreInv
  <1>3. pc[c] = "write" /\ born[c] = life
    BY DEF CasApply, Applies, StoreInv, ReplayInv, LockInv, TypeOK
  <1>4. store.full
    BY <1>2, <1>3 DEF StoreInv, LockInv, FreshOrOlder
  <1>5. store.payload = snap[c]
    BY <1>3, LockSafe DEF CasApply, NoLostUpdate, StoreInv
  <1>6. Log # <<>> => store.seq = Log[Len(Log)].seq
    BY <1>2, <1>4 DEF StoreInv, HistoryInv, Log, Closed
  <1>7. QED
    BY <1>1, <1>2, <1>4, <1>5, <1>6 DEF Open, Log

(* A session that is open in its first life was so before, unless it has     *)
(* just been created, and its log is the same or one write longer.          *)
LEMMA LogGrows ==
  ASSUME StoreInv, [Next]_vars, life # 0, life' = 1, Open'
  PROVE  /\ life = 1 /\ Open
         /\ Log' = Log \/ \E c \in Clients : CasApply(c)
  <1>1. CASE UNCHANGED <<store, life>>
    BY <1>1 DEF Open, Log
  <1>2. CASE Tick
    <2>1. store' = store
      BY <1>2 DEF Tick, Open, NoHash
    <2>2. QED
      BY <1>1, <1>2, <2>1 DEF Tick
  <1>3. ASSUME NEW c \in Clients, CasApply(c)
        PROVE  life = 1 /\ Open
    BY <1>3, AppliedAppends DEF CasApply
  <1>4. ASSUME NEW c \in Clients, CreateHset(c)
        PROVE  FALSE
    BY <1>4 DEF CreateHset, StoreInv, ReplayInv
  <1>5. ASSUME NEW c \in Clients, CreateExpire(c) \/ TouchExpire(c)
        PROVE  life = 1 /\ Open /\ Log' = Log
    <2>1. PICK ttl : SetDeadline(ttl)
      BY <1>5 DEF CreateExpire, TouchExpire
    <2>2. /\ store'.full = store.full /\ store'.status = store.status
          /\ store'.payload = store.payload
      BY <2>1 DEF SetDeadline, StoreInv, TypeOK, Hash
    <2>3. life' = life
      BY <1>5 DEF CreateExpire, TouchExpire
    <2>4. QED
      BY <2>2, <2>3 DEF Open, Log
  <1>6. ASSUME NEW c \in Clients, TouchHset(c)
        PROVE  life = 1 /\ Open /\ Log' = Log
    <2>1. /\ store'.full = store.full /\ store'.status = store.status
          /\ store'.payload = store.payload
      BY <1>6 DEF TouchHset, StoreInv, TypeOK, Hash
    <2>2. life' = life
      BY <1>6, <2>1 DEF TouchHset, NextLife, Open, StoreInv, LockInv
    <2>3. QED
      BY <2>1, <2>2 DEF Open, Log
  <1>7. ASSUME NEW c \in Clients, CompleteHset(c)
        PROVE  FALSE
    <2>1. store'.status = "COMPLETED"
      BY <1>7 DEF CompleteHset, StoreInv, TypeOK, Hash
    <2>2. QED
      BY <2>1 DEF Open, Closed
  <1>8. QED
    BY <1>1, <1>2, <1>3, <1>4, <1>5, <1>6, <1>7
    DEF Next, Step, BeginWrite, BeginTouch, BeginComplete, GetSession,
        CasRefuse, GiveUp, CreateCheck, TouchCheck, vars

(* What is stored stays stored as long as the session is open.              *)
LEMMA StoredStays ==
  ASSUME StoreInv, [Next]_vars, life # 0, life' = 1, Open',
         NEW r, NEW part, Stored(r, part)
  PROVE  Stored(r, part)'
  <1>1. CASE Log' = Log
    BY <1>1 DEF Stored, Stores
  <1>2. ASSUME NEW c \in Clients, CasApply(c)
        PROVE  Stored(r, part)'
    <2>1. /\ Log \in Seq(Call) /\ call[c] \in Call
          /\ Log' = Append(Log, call[c])
      BY <1>2, LogGrows, AppliedAppends
    <2>2. Len(Log) \in Nat /\ Len(Log') = Len(Log) + 1
          /\ \A i \in 1..Len(Log) : Log'[i] = Log[i]
      BY <2>1
    <2>3. PICK i \in 1..Len(Log) : Stores(i, r, part)
      BY DEF Stored
    <2>4. i \in 1..Len(Log') /\ Stores(i, r, part)'
      BY <2>2, <2>3 DEF Stores
    <2>5. QED
      BY <2>4 DEF Stored
  <1>3. QED
    BY <1>1, <1>2, LogGrows

(* An accepted write of a turn, applied or replayed, is stored.             *)
LEMMA AcceptedStores ==
  ASSUME TurnTypeOK, StoreInv, NEW c \in Clients, WriteAccepted(c),
         life = 1, Open, ~ClientNamedIds,
         NEW r, r = turn[c].req, NEW p, p = turn[c].part
  PROVE  Stored(r, p)'
  <1>1. PICK b \in BOOLEAN : b = turn[c].retry /\ turn[c].at = "sent"
    BY TurnInPlace DEF WriteAccepted, InTurn, NoTurn, Turn
  <1>2. pc[c] = "write" /\ call[c] = TurnWrite(turn[c])
    BY <1>1 DEF TurnTypeOK
  <1>3. call[c].key = TurnKey(r, p, b)
    BY <1>1, <1>2 DEF TurnWrite
  <1>4. CASE CasApply(c)
    <2>1. /\ Log \in Seq(Call) /\ call[c] \in Call
          /\ Log' = Append(Log, call[c])
      BY <1>4, AppliedAppends
    <2>2. PICK n : n = Len(Log) + 1
      OBVIOUS
    <2>3. n \in 1..Len(Log') /\ Log'[n] = call[c]
      BY <2>1, <2>2
    <2>4. Stores(n, r, p)'
      BY <1>3, <2>3 DEF Stores
    <2>5. QED
      BY <2>3, <2>4 DEF Stored
  <1>5. CASE CasRefuse(c)
    <2>1. Answer(c) = "IDEMPOTENT_REPLAY"
      BY <1>5 DEF WriteAccepted, Accepted, Answer, CasRefuse, Applies
    <2>2. ReplayIsStored
      BY ReplaySafe DEF StoreInv
    <2>3. PICK i \in 1..Len(Log) : Log[i].key = call[c].key
      BY <1>2, <2>1, <2>2 DEF ReplayIsStored, Open, Log, Answer
    <2>4. Stores(i, r, p)
      BY <1>3, <2>3 DEF Stores
    <2>5. Log' = Log
      BY <1>5 DEF CasRefuse, Log
    <2>6. QED
      BY <2>4, <2>5 DEF Stored, Stores
  <1>6. QED
    BY <1>4, <1>5 DEF WriteAccepted, Cas

-----------------------------------------------------------------------------
(* Turns and what is stored.                                                *)

(* Before the session there are no turns; while it is open a turn has stored *)
(* what it was told, and its need before it looks for a category.           *)
TurnInv ==
  /\ life = 0 => \A c \in Clients : turn[c] = NoTurn
  /\ life = 1 /\ Open =>
       \A c \in Clients : turn[c] # NoTurn =>
         /\ turn[c].part = "cat" => Stored(turn[c].req, "need")
         /\ turn[c].at = "done" => Stored(turn[c].req, turn[c].part)

(* No turn begins before the session does.                                  *)
LEMMA NoTurnUnborn ==
  ASSUME TurnTypeOK, StoreInv, TurnInv, [TurnNext]_turnVars, life = 0
  PROVE  \A c \in Clients : turn'[c] = NoTurn
  <1>1. ~store.full
    BY DEF StoreInv, ReplayInv, LockInv
  <1>2. \A c \in Clients : turn[c] = NoTurn /\ turn[c].at = "none"
    BY DEF TurnInv, NoTurn
  <1>3. \A c \in Clients : ~TurnStep(c)
    BY <1>1, <1>2
    DEF TurnStep, BeginTurn, Readable, Send, WriteAccepted, WriteConflicts,
        WriteFails, Reread, Match, EndTurn, AbandonTurn, InTurn
  <1>4. UNCHANGED turn
    BY <1>3 DEF TurnNext, OtherStep, turnVars
  <1>5. QED
    BY <1>2, <1>4

(* A step of a turn keeps to its request and part, but for the one from the  *)
(* need to the category.                                                    *)
LEMMA TurnPlaces ==
  ASSUME TurnTypeOK, NEW c \in Clients, TurnStep(c), turn'[c] # NoTurn
  PROVE  \/ turn'[c].part = "need" /\ turn'[c].at = "ready"
         \/ /\ turn[c] # NoTurn /\ turn'[c].req = turn[c].req
            /\ \/ turn'[c].part = turn[c].part
               \/ /\ turn'[c].part = "cat" /\ turn[c].part = "need"
                  /\ turn[c].at = "done"
            /\ turn'[c].at = "done" =>
                 WriteAccepted(c) /\ turn'[c].part = turn[c].part
  <1>1. turn \in [Clients -> Turn \cup {NoTurn}]
    BY DEF TurnTypeOK
  <1>2. CASE BeginTurn(c)
    BY <1>1, <1>2 DEF BeginTurn, SetTurn
  <1>3. CASE Send(c) \/ WriteAccepted(c) \/ WriteConflicts(c)
    <2>1. turn[c] \in Turn /\ turn[c] # NoTurn
      BY <1>3, TurnInPlace
      DEF Send, WriteAccepted, WriteConflicts, InTurn, NoTurn
    <2>2. PICK to : turn' = [turn EXCEPT ![c].at = to]
                    /\ (to = "done" => WriteAccepted(c))
      BY <1>3 DEF Send, WriteAccepted, WriteConflicts
    <2>3. turn'[c] = [turn[c] EXCEPT !.at = to]
      BY <1>1, <2>2
    <2>4. turn'[c].req = turn[c].req /\ turn'[c].part = turn[c].part
          /\ turn'[c].at = to
      BY <2>1, <2>3 DEF Turn
    <2>5. QED
      BY <2>1, <2>2, <2>4
  <1>4. CASE WriteFails(c) \/ EndTurn(c) \/ AbandonTurn(c)
    BY <1>1, <1>4 DEF WriteFails, EndTurn, AbandonTurn, SetTurn
  <1>5. CASE Reread(c)
    BY <1>5, RereadTurn DEF NoTurn
  <1>6. CASE Match(c)
    BY <1>6, MatchTurn DEF NoTurn
  <1>7. QED
    BY <1>2, <1>3, <1>4, <1>5, <1>6 DEF TurnStep

(* A life is not taken back.                                                *)
LEMMA LifeStep ==
  ASSUME TypeOK, [Next]_vars
  PROVE  life \in Nat /\ life' \in Nat /\ life <= life'
  <1>1. life' = life \/ life' = life + 1
    BY DEF Next, Tick, Step, BeginWrite, BeginTouch, BeginComplete, GetSession,
           CasApply, CasRefuse, CreateCheck, CreateHset, CreateExpire,
           TouchCheck, TouchHset, TouchExpire, CompleteHset, GiveUp, NextLife,
           vars
  <1>2. QED
    BY <1>1 DEF TypeOK

(* Every step keeps turns and stored parts together.                        *)
LEMMA TurnInvStep ==
  ~ClientNamedIds /\ TurnTypeOK /\ StoreInv /\ TurnInv /\ [TurnNext]_turnVars
    => TurnInv'
  <1> SUFFICES ASSUME ~ClientNamedIds, TurnTypeOK, StoreInv, TurnInv,
                      [TurnNext]_turnVars
               PROVE  TurnInv'
    OBVIOUS
  <1>0. [Next]_vars
    BY TurnStepIsStep
  <1>1. CASE life = 0
    BY <1>1, NoTurnUnborn DEF TurnInv
  <1>2. CASE life # 0
    <2>1. life' # 0
      BY <1>0, <1>2, LifeStep DEF StoreInv
    <2>2. ASSUME life' = 1, Open', NEW d \in Clients, turn'[d] # NoTurn,
                 NEW t, t = turn'[d]
          PROVE  /\ t.part = "cat" => Stored(t.req, "need")'
                 /\ t.at = "done" => Stored(t.req, t.part)'
      <3>1. life = 1 /\ Open
        BY <1>0, <1>2, <2>2, LogGrows
      <3>2. ASSUME NEW r, NEW p, Stored(r, p) PROVE Stored(r, p)'
        BY <1>0, <1>2, <2>2, <3>2, StoredStays
      <3>3. turn[d] # NoTurn =>
              /\ turn[d].part = "cat" => Stored(turn[d].req, "need")
              /\ turn[d].at = "done" => Stored(turn[d].req, turn[d].part)
        BY <3>1 DEF TurnInv
      <3>4. CASE turn'[d] = turn[d]
        BY <2>2, <3>2, <3>3, <3>4
      <3>5. CASE TurnStep(d)
        <4>1. CASE t.part = "need" /\ t.at = "ready"
          BY <4>1
        <4>2. CASE /\ turn[d] # NoTurn /\ t.req = turn[d].req
                   /\ \/ t.part = turn[d].part
                      \/ /\ t.part = "cat" /\ turn[d].part = "need"
                         /\ turn[d].at = "done"
                   /\ t.at = "done" =>
                        WriteAccepted(d) /\ t.part = turn[d].part
          <5>1. t.part = "cat" => Stored(t.req, "need")'
            BY <3>2, <3>3, <4>2
          <5>2. t.at = "done" => Stored(t.req, t.part)'
            BY <3>1, <4>2, AcceptedStores
          <5>3. QED
            BY <5>1, <5>2
        <4>3. QED
          BY <2>2, <3>5, <4>1, <4>2, TurnPlaces
      <3>6. QED
        BY <3>4, <3>5, TurnMoves DEF TurnNext, OtherStep, turnVars
    <2>3. QED
      BY <2>1, <2>2 DEF TurnInv
  <1>3. QED
    BY <1>1, <1>2

-----------------------------------------------------------------------------
(* The order of what turns store.                                           *)

(* The i-th write of a log stores this part of the request.                 *)
StoredAt(log, i, r, part) ==
  \E b \in BOOLEAN : log[i].key = TurnKey(r, part, b)

NeedFirst(log) ==
  \A i \in 1..Len(log), r \in Requests :
    StoredAt(log, i, r, "cat") =>
      \E j \in 1..(i - 1) : StoredAt(log, j, r, "need")

(* Writes of turns carry the sequence of their request, and the sequences of *)
(* a log in which every write has one rise.                                 *)
SeqOfRequest(w) == w.key \in TurnKeys => w.seq = w.key[1].seq

AllSequenced(log) == \A i \in 1..Len(log) : log[i].seq # NoSeq

Rising(log) ==
  AllSequenced(log) =>
    \A i, j \in 1..Len(log) : i < j => log[i].seq < log[j].seq

Ordered(log) ==
  /\ NeedFirst(log)
  /\ \A i \in 1..Len(log) : SeqOfRequest(log[i])
  /\ Rising(log)

OrderInv == life <= 1 => \A p \in States : Ordered(p.log)

(* Nothing is in order.                                                     *)
LEMMA OrderedEmpty == Ordered(<<>>)
  BY DEF Ordered, NeedFirst, Rising

(* A write that fits keeps a log in order.                                  *)
LEMMA OrderedAppend ==
  ASSUME NEW log \in Seq(Call), NEW w \in Call, Ordered(log), SeqOfRequest(w),
         NEW next, next = Append(log, w),
         \A r \in Requests, b \in BOOLEAN :
           w.key = TurnKey(r, "cat", b) =>
             \E j \in 1..Len(log) : StoredAt(log, j, r, "need"),
         log # <<>> => \/ NoSeq \in {w.seq, log[Len(log)].seq}
                      \/ log[Len(log)].seq < w.seq
  PROVE  Ordered(next)
  <1> DEFINE n == Len(log)
  <1>1. /\ n \in Nat /\ Len(next) = n + 1 /\ next[n + 1] = w
        /\ \A i \in 1..n : next[i] = log[i]
    OBVIOUS
  <1>2. \A i \in 1..(n + 1) : i \in 1..n \/ i = n + 1
    BY <1>1
  <1>3. \A i \in 1..n : \A r, part :
          StoredAt(log, i, r, part) <=> StoredAt(next, i, r, part)
    BY <1>1 DEF StoredAt
  <1>4. NeedFirst(next)
    <2> SUFFICES ASSUME NEW i \in 1..(n + 1), NEW r \in Requests,
                        StoredAt(next, i, r, "cat")
                 PROVE  \E j \in 1..(i - 1) : StoredAt(next, j, r, "need")
      BY <1>1 DEF NeedFirst
    <2>1. CASE i \in 1..n
      <3>1. PICK j \in 1..(i - 1) : StoredAt(log, j, r, "need")
        BY <1>3, <2>1 DEF Ordered, NeedFirst
      <3>2. j \in 1..n
        BY <1>1, <2>1
      <3>3. QED
        BY <1>3, <3>1, <3>2
    <2>2. CASE i = n + 1
      <3>1. PICK b \in BOOLEAN : w.key = TurnKey(r, "cat", b)
        BY <1>1, <2>2 DEF StoredAt
      <3>2. PICK j \in 1..n : StoredAt(log, j, r, "need")
        BY <3>1
      <3>3. j \in 1..(i - 1)
        BY <1>1, <2>2
      <3>4. QED
        BY <1>3, <3>2, <3>3
    <2>3. QED
      BY <1>2, <2>1, <2>2
  <1>5. \A i \in 1..Len(next) : SeqOfRequest(next[i])
    BY <1>1, <1>2 DEF Ordered
  <1>6. Rising(next)
    <2> SUFFICES ASSUME AllSequenced(next),
                        NEW i \in 1..(n + 1), NEW j \in 1..(n + 1), i < j
                 PROVE  next[i].seq < next[j].seq
      BY <1>1 DEF Rising
    <2>1. AllSequenced(log) /\ w.seq # NoSeq
      BY <1>1 DEF AllSequenced
    <2>2. i \in 1..n /\ next[i] = log[i]
      BY <1>1
    <2>3. CASE j \in 1..n
      BY <1>1, <2>1, <2>2, <2>3 DEF Ordered, Rising
    <2>4. CASE j = n + 1
      <3>1. log # <<>> /\ n \in 1..n
        BY <1>1, <2>2
      <3>2. log[n].seq < w.seq
        BY <2>1, <3>1 DEF AllSequenced
      <3>3. i = n \/ log[i].seq < log[n].seq
        BY <1>1, <2>1, <2>2, <3>1 DEF Ordered, Rising
      <3>4. log[i].seq \in Int /\ log[n].seq \in Int /\ w.seq \in Int
        <4>1. log[i] \in Call /\ log[n] \in Call
          BY <2>2, <3>1
        <4>2. QED
          BY <4>1 DEF Call, NoSeq
      <3>5. QED
        BY <1>1, <2>2, <2>4, <3>2, <3>3, <3>4
    <2>5. QED
      BY <1>2, <2>3, <2>4
  <1>7. QED
    BY <1>4, <1>5, <1>6 DEF Ordered

(* Every step keeps all logs in order, stored or held.                      *)
LEMMA OrderStep ==
  TurnTypeOK /\ StoreInv /\ TurnInv /\ OrderInv /\ [TurnNext]_turnVars
    => OrderInv'
  <1> SUFFICES ASSUME TurnTypeOK, StoreInv, TurnInv, OrderInv,
                      [TurnNext]_turnVars, life' <= 1, NEW p \in States'
               PROVE  Ordered(p.log)
    BY DEF OrderInv, Ordered, NeedFirst, StoredAt, SeqOfRequest, Rising,
           AllSequenced
  <1>1. [Next]_vars /\ TypeOK
    BY TurnStepIsStep DEF StoreInv
  <1>2. Derived(p)
    BY <1>1, StatesAreDerived
  <1>3. life \in Nat /\ life <= 1
    BY <1>1, LifeStep
  <1>4. \A q \in States : Ordered(q.log)
    BY <1>3 DEF OrderInv
  <1>5. CASE Kept(p) \/ Finished(p)
    BY <1>4, <1>5 DEF Kept, Finished, SameNeed
  <1>6. CASE Applied(p)
    <2>1. PICK c \in Clients : CasApply(c) /\ p = NextState(call[c], snap[c])
      BY <1>6 DEF Applied
    <2>2. PICK w : w = call[c]
      OBVIOUS
    <2>3. life = 1
      <3>1. store.present
        BY <2>1 DEF CasApply, Applies, Verdict
      <3>2. QED
        BY <1>3, <3>1 DEF StoreInv, ReplayInv
    <2>4. /\ Open /\ Log \in Seq(Call) /\ w \in Call
          /\ p.log = Append(Log, w)
          /\ Log # <<>> => \/ NoSeq \in {w.seq, Log[Len(Log)].seq}
                          \/ Log[Len(Log)].seq < w.seq
      BY <2>1, <2>2, <2>3, AppliedAppends DEF NextState, Log
    <2>5. Ordered(Log)
      BY <1>4 DEF States, Log
    <2>6. w.key \in TurnKeys =>
            w = TurnWrite(turn[c]) /\ turn[c].at = "sent" /\ turn[c] # NoTurn
      BY <2>1, <2>2 DEF CasApply, Applies, TurnTypeOK, NoTurn
    <2>7. SeqOfRequest(w)
      BY <2>6 DEF SeqOfRequest, TurnWrite, TurnKey
    <2>8. ASSUME NEW r \in Requests, NEW b \in BOOLEAN,
                 w.key = TurnKey(r, "cat", b)
          PROVE  \E j \in 1..Len(Log) : StoredAt(Log, j, r, "need")
      <3>1. w.key \in TurnKeys
        BY <2>8 DEF TurnKeys, Parts
      <3>2. turn[c].req = r /\ turn[c].part = "cat"
        BY <2>6, <2>8, <3>1 DEF TurnWrite, TurnKey
      <3>3. Stored(r, "need")
        BY <2>3, <2>4, <2>6, <3>1, <3>2 DEF TurnInv
      <3>4. QED
        BY <3>3 DEF Stored, Stores, StoredAt
    <2>9. QED
      BY <2>4, <2>5, <2>7, <2>8, OrderedAppend
  <1>7. CASE p = NoPayload \/ p = Created
    BY <1>7, OrderedEmpty DEF NoPayload, Created
  <1>8. QED
    BY <1>2, <1>5, <1>6, <1>7 DEF Derived

(* All that is known of turns holds in every behaviour.                     *)
LEMMA TurnsSound ==
  ASSUME ~ClientNamedIds
  PROVE  TurnSpec => [](StoreInv /\ TurnInv /\ OrderInv)
  <1>1. TurnInit => TurnInv
    BY DEF TurnInit, TurnInv, NoTurn, Init
  <1>2. TurnInit => OrderInv
    BY OrderedEmpty
    DEF TurnInit, OrderInv, Init, States, NoHash, NoPayload
  <1>3. QED
    BY <1>1, <1>2, TurnInvStep, OrderStep, TurnTypes, TurnsUseTheStore,
       StoreSound, PTL DEF TurnSpec

(* A turn tells its user that a part was accepted only while the open        *)
(* session holds it, for any number of callers, repeats and retries.        *)
THEOREM AcceptedPartsAreStored ==
  ASSUME ~ClientNamedIds PROVE TurnSpec => []AcceptedIsStored
  <1>1. TurnInv => AcceptedIsStored
    BY DEF TurnInv, AcceptedIsStored, InTurn, NoTurn
  <1>2. QED
    BY <1>1, TurnsSound, PTL

(* Within the first life of a session its state never holds a category       *)
(* before the need it was matched for, whoever writes beside the turn.      *)
THEOREM CategoriesFollowNeeds ==
  ASSUME ~ClientNamedIds PROVE TurnSpec => []CategoryFollowsNeed
  <1>1. OrderInv => CategoryFollowsNeed
    <2> SUFFICES ASSUME life = 1, OrderInv, NEW i \in 1..Len(Log),
                        NEW r \in Requests, Stores(i, r, "cat")
                 PROVE  \E j \in 1..(i - 1) : Stores(j, r, "need")
      BY DEF CategoryFollowsNeed
    <2>1. NeedFirst(Log)
      BY DEF OrderInv, States, Ordered, Log
    <2>2. QED
      BY <2>1 DEF NeedFirst, Stores, StoredAt
  <1>2. QED
    BY <1>1, TurnsSound, PTL

(* While every write came with a sequence, no part of a request is stored    *)
(* twice, however often the request is repeated or retried.                 *)
THEOREM SequencedPartsOnce ==
  ASSUME ~ClientNamedIds PROVE TurnSpec => []SequencedOnce
  <1>1. TypeOK /\ OrderInv => SequencedOnce
    <2> SUFFICES ASSUME TypeOK, life = 1, OrderInv,
                        \A i \in 1..Len(Log) : Sequenced(Log[i]),
                        NEW i \in 1..Len(Log), NEW j \in 1..Len(Log),
                        NEW r \in Requests, NEW p \in Parts,
                        Stores(i, r, p), Stores(j, r, p)
                 PROVE  i = j
      BY DEF SequencedOnce
    <2>1. Ordered(Log)
      BY DEF OrderInv, States, Log
    <2>2. AllSequenced(Log)
      BY <2>1 DEF AllSequenced, Sequenced, Ordered, SeqOfRequest
    <2>3. ASSUME NEW k \in 1..Len(Log), Stores(k, r, p)
          PROVE  Log[k].seq = r.seq
      <3>1. PICK b \in BOOLEAN : Log[k].key = TurnKey(r, p, b)
        BY <2>3 DEF Stores
      <3>2. Log[k].key \in TurnKeys /\ Log[k].key[1] = r
        BY <3>1 DEF TurnKeys, TurnKey
      <3>3. QED
        BY <2>1, <3>2 DEF Ordered, SeqOfRequest
    <2>4. Log[i].seq = r.seq /\ Log[j].seq = r.seq
      BY <2>3
    <2>5. Log \in Seq(Call)
      BY DEF TypeOK, Hash, Payload, Log
    <2>6. Log[i].seq \in Int /\ i \in Int /\ j \in Int
      <3>1. Log[i] \in Call
        BY <2>5
      <3>2. QED
        BY <3>1 DEF Call, NoSeq
    <2>7. ~(i < j) /\ ~(j < i)
      BY <2>1, <2>2, <2>4, <2>6 DEF Ordered, Rising
    <2>8. QED
      BY <2>6, <2>7
  <1>2. QED
    BY <1>1, TurnsSound, PTL DEF StoreInv

=============================================================================
