---------------------- MODULE ConversationStoreProofs ----------------------
(***************************************************************************)
(* Theorems about ConversationStore for every set of callers, keys and     *)
(* calls, every policy and every clock bound.                              *)
(***************************************************************************)
EXTENDS ConversationStore, TLAPS

-----------------------------------------------------------------------------
(* Lemmas about the operators.                                              *)

(* The default call used to blank a caller is one of the calls.             *)
LEMMA SomeCallType == SomeCall \in Calls /\ SomeCall \in Call
  BY CallsAssumption, ConstantsAssumption DEF SomeCall

(* A caller outside a call holds a well-formed state.                       *)
LEMMA NoPayloadType == NoPayload \in Payload
  <1>1. <<>> \in Seq(Call)
    OBVIOUS
  <1>2. QED
    BY <1>1 DEF NoPayload, Payload, Statuses, NoSeq

(* A missing key is a well-formed hash.                                     *)
LEMMA NoHashType == NoHash \in Hash
  BY NoPayloadType DEF NoHash, Hash, Statuses, NoSeq

(* So is the record of a key not used yet.                                  *)
LEMMA NoRecordType == NoRecord \in Record
  BY SomeCallType DEF NoRecord, Record

(* A key's new time to live is a positive number of seconds.                *)
LEMMA KeyTTLType ==
  ASSUME now \in Nat, store \in Hash
  PROVE  KeyTTL \in Nat \ {0}
  BY ConstantsAssumption DEF KeyTTL, Later, Earlier, Hash

(* No operation derives a status the code does not know.                    *)
LEMMA StatusAfterType ==
  ASSUME NEW s \in Payload, NEW op
  PROVE  StatusAfter(op, s) \in Statuses /\ AsksAfter(op, s) \in BOOLEAN
  BY DEF StatusAfter, AsksAfter, Payload, Statuses, Closed

(* What the manager derives from a snapshot is a state one revision on.     *)
LEMMA NextStateType ==
  ASSUME now \in Nat, NEW w \in Call, NEW s \in Payload
  PROVE  /\ NextState(w, s) \in Payload
         /\ NextState(w, s).rev = s.rev + 1
         /\ NextState(w, s).abs = s.abs
  <1>1. StatusAfter(w.op, s) \in Statuses /\ AsksAfter(w.op, s) \in BOOLEAN
    BY StatusAfterType
  <1>2. NextIdleExpiry(s) \in Nat
    BY ConstantsAssumption DEF NextIdleExpiry, Earlier, Payload
  <1>3. Append(s.log, w) \in Seq(Call)
    BY DEF Payload
  <1>4. (IF w.seq # NoSeq THEN w.seq ELSE s.seq) \in Nat \cup {NoSeq}
    BY DEF Call, Payload
  <1>5. s.rev + 1 \in Nat /\ s.abs \in Nat
    BY DEF Payload
  <1>6. QED
    BY <1>1, <1>2, <1>3, <1>4, <1>5 DEF NextState, Payload

(* What the script writes is a well-formed hash.                            *)
LEMMA WrittenType ==
  ASSUME now \in Nat, store \in Hash, NEW w \in Call, NEW p \in Payload
  PROVE  Written(w, p) \in Hash
  <1>1. KeyTTL \in Nat
    BY KeyTTLType
  <1>2. p.rev \in Nat /\ p.status \in Statuses /\ p.exp \in Nat /\ p.abs \in Nat
    BY DEF Payload
  <1>3. w.seq \in Nat \cup {NoSeq}
    BY DEF Call
  <1>4. QED
    BY <1>1, <1>2, <1>3 DEF Written, Hash

(* create begins with a well-formed state.                                  *)
LEMMA CreatedType == ASSUME now \in Nat PROVE Created \in Payload
  <1>1. <<>> \in Seq(Call)
    OBVIOUS
  <1>2. Earlier(now + IdleTTL, now + AbsTTL) \in Nat /\ now + AbsTTL \in Nat
    BY ConstantsAssumption DEF Earlier
  <1>3. QED
    BY <1>1, <1>2 DEF Created, Payload, Statuses, NoSeq

-----------------------------------------------------------------------------
(* Type correctness.                                                        *)

(* A call that ends leaves its caller well-formed.                          *)
LEMMA IdleType ==
  ASSUME TypeOK, NEW c \in Clients, Idle(c)
  PROVE  /\ pc' \in [Clients -> {"idle", "write", "touch", "touchHset",
                    "touchExpire", "complete", "createHset", "createExpire"}]
         /\ call' \in [Clients -> Calls]
         /\ snap' \in [Clients -> Payload]
         /\ born' \in [Clients -> Nat]
  BY SomeCallType, NoPayloadType DEF TypeOK, Idle

(* PEXPIRE keeps the hash well-formed.                                      *)
LEMMA SetDeadlineType ==
  ASSUME TypeOK, NEW ttl \in Nat, SetDeadline(ttl)
  PROVE  store' \in Hash
  BY DEF TypeOK, SetDeadline, Hash

(* The empty store is well-formed.                                          *)
LEMMA TypeInit == Init => TypeOK
  BY NoHashType, NoRecordType, NoPayloadType, SomeCallType, ConstantsAssumption
  DEF Init, TypeOK

(* Every step of a caller or of the clock keeps the types.                  *)
LEMMA TypeStep == TypeOK /\ [Next]_vars => TypeOK'
  <1> SUFFICES ASSUME TypeOK, [Next]_vars PROVE TypeOK'
    OBVIOUS
  <1>1. CASE Tick
    <2>1. now' \in Nat /\ store' \in Hash
      BY <1>1, NoHashType DEF Tick, TypeOK
    <2>2. idem' \in [Keys -> Record]
      BY <1>1, NoRecordType DEF Tick, TypeOK
    <2>3. QED
      BY <1>1, <2>1, <2>2 DEF Tick, TypeOK, clientVars
  <1>2. ASSUME NEW c \in Clients, Step(c) PROVE TypeOK'
    <2>1. ASSUME NEW to \in {"write", "touch", "complete"}, GetSession(c, to),
                 call' \in [Clients -> Calls]
          PROVE  TypeOK'
      <3>1. snap' \in [Clients -> Payload]
        BY <2>1 DEF GetSession, TypeOK, Hash
      <3>2. QED
        BY <2>1, <3>1 DEF GetSession, TypeOK
    <2>2. CASE BeginWrite(c)
      BY <2>1, <2>2 DEF BeginWrite, TypeOK
    <2>3. CASE BeginTouch(c) \/ BeginComplete(c)
      BY <2>1, <2>3 DEF BeginTouch, BeginComplete, TypeOK
    <2>4. CASE CasApply(c)
      <3>1. call[c] \in Call /\ snap[c] \in Payload /\ call[c].key \in Keys
        BY ConstantsAssumption DEF TypeOK, Call
      <3>2. store' \in Hash
        BY <2>4, <3>1, NextStateType, WrittenType DEF CasApply, TypeOK
      <3>3. now + Later(Later(IdemTTL, IdleTTL), KeyTTL) \in Nat
        BY KeyTTLType, ConstantsAssumption DEF Later, TypeOK
      <3>4. idem' \in [Keys -> Record]
        BY <2>4, <3>1, <3>3 DEF CasApply, TypeOK, Record
      <3>5. Idle(c) /\ UNCHANGED <<now, idState, life>>
        BY <2>4 DEF CasApply
      <3>6. QED
        BY <3>2, <3>4, <3>5, IdleType DEF TypeOK
    <2>5. CASE CasRefuse(c) \/ GiveUp(c)
      BY <2>5, IdleType DEF CasRefuse, GiveUp, TypeOK
    <2>6. CASE CreateCheck(c)
      BY <2>6, CreatedType, ConstantsAssumption DEF CreateCheck, TypeOK
    <2>7. CASE CreateHset(c)
      <3>1. store' \in Hash
        <4>1. snap[c] \in Payload /\ snap[c].exp \in Nat /\ snap[c].abs \in Nat
          BY DEF TypeOK, Payload
        <4>2. store.dies \in Nat
          BY DEF TypeOK, Hash
        <4>3. QED
          BY <2>7, <4>1, <4>2 DEF CreateHset, Hash, Statuses, NoSeq
      <3>2. QED
        BY <2>7, <3>1 DEF CreateHset, NextLife, TypeOK
    <2>8. CASE CreateExpire(c)
      <3>1. snap[c].abs \in Nat
        BY DEF TypeOK, Payload
      <3>2. (LET left == snap[c].abs - now
             IN  IF left > 0 THEN Earlier(IdleTTL, left) ELSE IdleTTL) \in Nat
        BY <3>1, ConstantsAssumption DEF Earlier, TypeOK
      <3>3. store' \in Hash
        BY <2>8, <3>2, SetDeadlineType DEF CreateExpire
      <3>4. QED
        BY <2>8, <3>3, IdleType DEF CreateExpire, TypeOK
    <2>9. CASE TouchCheck(c)
      <3>1. NextIdleExpiry(snap[c]) \in Nat
        BY ConstantsAssumption DEF NextIdleExpiry, Earlier, TypeOK, Payload
      <3>2. snap' \in [Clients -> Payload]
        <4>1. snap[c] \in Payload
          BY DEF TypeOK
        <4>2. [snap[c] EXCEPT !.exp = NextIdleExpiry(snap[c])] \in Payload
          BY <3>1, <4>1 DEF Payload
        <4>3. QED
          BY <2>9, <4>2 DEF TouchCheck, TypeOK
      <3>3. QED
        BY <2>9, <3>2 DEF TouchCheck, TypeOK
    <2>10. CASE TouchHset(c)
      <3>1. snap[c].exp \in Nat
        BY DEF TypeOK, Payload
      <3>2. store' \in Hash
        BY <2>10, <3>1 DEF TouchHset, TypeOK, Hash
      <3>3. QED
        BY <2>10, <3>2 DEF TouchHset, NextLife, TypeOK
    <2>11. CASE TouchExpire(c)
      <3>1. (IF store.abs > 0 THEN Earlier(IdleTTL, Later(1, store.abs - now))
             ELSE IdleTTL) \in Nat
        BY ConstantsAssumption DEF Earlier, Later, TypeOK, Hash
      <3>2. store' \in Hash
        BY <2>11, <3>1, SetDeadlineType DEF TouchExpire
      <3>3. QED
        BY <2>11, <3>2, IdleType DEF TouchExpire, TypeOK
    <2>12. CASE CompleteHset(c)
      <3>1. [snap[c] EXCEPT !.status = "COMPLETED"] \in Payload
        BY DEF TypeOK, Payload, Statuses, Closed
      <3>2. store' \in Hash
        BY <2>12, <3>1 DEF CompleteHset, TypeOK, Hash, Payload
      <3>3. Idle(c) /\ NextLife /\ UNCHANGED <<now, idem, idState>>
        BY <2>12 DEF CompleteHset
      <3>4. QED
        BY <3>2, <3>3, IdleType DEF TypeOK, NextLife
    <2>13. QED
      BY <1>2, <2>2, <2>3, <2>4, <2>5, <2>6, <2>7, <2>8, <2>9, <2>10, <2>11,
         <2>12 DEF Step
  <1>3. CASE UNCHANGED vars
    BY <1>3 DEF vars, TypeOK
  <1>4. QED
    BY <1>1, <1>2, <1>3 DEF Next

(* Every variable keeps its type: revisions, times and deadlines never go    *)
(* below zero, and the hash is always a record Lua and Python can read.      *)
THEOREM TypeCorrect == Spec => []TypeOK
  <1>1. QED
    BY TypeInit, TypeStep, PTL DEF Spec

-----------------------------------------------------------------------------
(* The two copies of the platform fields.                                   *)

(* Every state in some caller's hands counts its own writes, and a state     *)
(* about to be created is a blank one.                                       *)
SnapshotsCount ==
  \A c \in Clients :
    /\ snap[c].rev = Len(snap[c].log)
    /\ pc[c] = "createHset" =>
         snap[c].rev = 0 /\ snap[c].status = "ACTIVE" /\ snap[c].seq = NoSeq

MirrorInv == SnapshotsCount /\ HashMirrorsPayload

(* Nothing is stored, so the two copies agree.                              *)
LEMMA MirrorInit == Init => MirrorInv
  BY DEF Init, MirrorInv, SnapshotsCount, HashMirrorsPayload, NoHash, NoPayload

(* Ending a call keeps what is known of the snapshots.                      *)
LEMMA IdleSnapshots ==
  ASSUME TypeOK, SnapshotsCount, NEW c \in Clients, Idle(c)
  PROVE  SnapshotsCount'
  BY DEF TypeOK, SnapshotsCount, Idle, NoPayload

(* The script, create, touch and complete keep the copies together.         *)
LEMMA MirrorStep == TypeOK /\ MirrorInv /\ [Next]_vars => MirrorInv'
  <1> SUFFICES ASSUME TypeOK, MirrorInv, [Next]_vars PROVE MirrorInv'
    OBVIOUS
  <1>1. CASE Tick
    BY <1>1 DEF Tick, MirrorInv, SnapshotsCount, HashMirrorsPayload, NoHash,
                clientVars
  <1>2. ASSUME NEW c \in Clients, Step(c) PROVE MirrorInv'
    <2>1. ASSUME NEW to \in {"write", "touch", "complete"}, GetSession(c, to)
          PROVE  MirrorInv'
      <3>1. store.payload.rev = Len(store.payload.log)
        BY <2>1 DEF GetSession, MirrorInv, HashMirrorsPayload
      <3>2. SnapshotsCount'
        BY <2>1, <3>1 DEF GetSession, TypeOK, MirrorInv, SnapshotsCount
      <3>3. QED
        BY <2>1, <3>2 DEF GetSession, MirrorInv, HashMirrorsPayload
    <2>2. CASE BeginWrite(c) \/ BeginTouch(c) \/ BeginComplete(c)
      BY <2>1, <2>2 DEF BeginWrite, BeginTouch, BeginComplete
    <2>3. CASE CasApply(c)
      <3>1. PICK w \in Call : w = call[c]
        BY ConstantsAssumption DEF TypeOK
      <3>2. snap[c] \in Payload /\ snap[c].log \in Seq(Call)
        BY DEF TypeOK, Payload
      <3>3. Len(Append(snap[c].log, w)) = snap[c].rev + 1
        BY <3>2 DEF MirrorInv, SnapshotsCount
      <3>4. HashMirrorsPayload'
        BY <2>3, <3>1, <3>3 DEF CasApply, Written, NextState, HashMirrorsPayload
      <3>5. SnapshotsCount'
        BY <2>3, IdleSnapshots DEF CasApply, MirrorInv
      <3>6. QED
        BY <3>4, <3>5 DEF MirrorInv
    <2>4. CASE CasRefuse(c) \/ GiveUp(c)
      BY <2>4, IdleSnapshots DEF CasRefuse, GiveUp, MirrorInv, HashMirrorsPayload
    <2>5. CASE CreateCheck(c)
      BY <2>5 DEF CreateCheck, Created, TypeOK, MirrorInv, SnapshotsCount,
                  HashMirrorsPayload
    <2>6. CASE CreateHset(c)
      BY <2>6 DEF CreateHset, TypeOK, MirrorInv, SnapshotsCount, HashMirrorsPayload
    <2>7. CASE CreateExpire(c) \/ TouchExpire(c)
      <3>1. PICK ttl : SetDeadline(ttl)
        BY <2>7 DEF CreateExpire, TouchExpire
      <3>2. HashMirrorsPayload'
        BY <3>1 DEF SetDeadline, TypeOK, Hash, MirrorInv, HashMirrorsPayload
      <3>3. QED
        BY <2>7, <3>2, IdleSnapshots DEF CreateExpire, TouchExpire, MirrorInv
    <2>8. CASE TouchCheck(c)
      <3>1. SnapshotsCount'
        BY <2>8 DEF TouchCheck, TypeOK, Payload, MirrorInv, SnapshotsCount
      <3>2. QED
        BY <2>8, <3>1 DEF TouchCheck, MirrorInv, HashMirrorsPayload
    <2>9. CASE TouchHset(c)
      <3>1. HashMirrorsPayload'
        BY <2>9 DEF TouchHset, TypeOK, Hash, MirrorInv, HashMirrorsPayload
      <3>2. SnapshotsCount'
        BY <2>9 DEF TouchHset, TypeOK, MirrorInv, SnapshotsCount
      <3>3. QED
        BY <3>1, <3>2 DEF MirrorInv
    <2>10. CASE CompleteHset(c)
      <3>1. HashMirrorsPayload'
        <4> DEFINE done == [snap[c] EXCEPT !.status = "COMPLETED"]
        <4> snap[c] \in Payload
          BY DEF TypeOK
        <4>1. /\ done.rev = snap[c].rev /\ done.log = snap[c].log
              /\ done.status = "COMPLETED"
          BY DEF Payload
        <4> HIDE DEF done
        <4>2. store' = [store EXCEPT !.present = TRUE, !.full = TRUE,
                          !.payload = done, !.status = done.status,
                          !.rev = done.rev]
          BY <2>10 DEF CompleteHset, done
        <4>3. /\ store'.payload = done /\ store'.status = done.status
              /\ store'.rev = done.rev
          BY <4>2 DEF TypeOK, Hash
        <4>4. snap[c].rev = Len(snap[c].log)
          BY DEF MirrorInv, SnapshotsCount
        <4>5. QED
          BY <4>1, <4>3, <4>4 DEF HashMirrorsPayload
      <3>2. QED
        BY <2>10, <3>1, IdleSnapshots DEF CompleteHset, MirrorInv
    <2>11. QED
      BY <1>2, <2>2, <2>3, <2>4, <2>5, <2>6, <2>7, <2>8, <2>9, <2>10 DEF Step
  <1>3. CASE UNCHANGED vars
    BY <1>3 DEF vars, MirrorInv, SnapshotsCount, HashMirrorsPayload
  <1>4. QED
    BY <1>1, <1>2, <1>3 DEF Next

(* The fields compare_and_set.lua decides on never disagree with the payload *)
(* the manager derives its next state from, in either way of naming ids.     *)
THEOREM HashMirrors == Spec => []HashMirrorsPayload
  <1>1. MirrorInv => HashMirrorsPayload
    BY DEF MirrorInv
  <1>2. QED
    BY <1>1, MirrorInit, MirrorStep, TypeCorrect, PTL DEF Spec

-----------------------------------------------------------------------------
(* Sessions whose id is a fresh uuid4: nobody but its creator can name the  *)
(* session before create returns, so it is created at most once.            *)

Creating == {"createHset", "createExpire"}

SoleCreator ==
  /\ idState = "fresh" => \A c \in Clients : pc[c] = "idle"
  /\ idState = "creating" => \A c \in Clients : pc[c] \in {"idle"} \cup Creating
  /\ idState = "known" => \A c \in Clients : pc[c] \notin Creating
  /\ \A c, d \in Clients : pc[c] \in Creating /\ pc[d] \in Creating => c = d

(* No caller knows the id of a session nobody created.                      *)
LEMMA SoleCreatorInit == ~ClientNamedIds /\ Init => SoleCreator
  BY DEF Init, SoleCreator, Creating

(* Only the first creator ever gets past EXISTS.                            *)
LEMMA SoleCreatorStep ==
  ~ClientNamedIds /\ TypeOK /\ SoleCreator /\ [Next]_vars => SoleCreator'
  <1> SUFFICES ASSUME ~ClientNamedIds, TypeOK, SoleCreator, [Next]_vars
               PROVE  SoleCreator'
    OBVIOUS
  <1>1. CASE Tick \/ UNCHANGED vars
    BY <1>1 DEF Tick, clientVars, vars, SoleCreator
  <1>2. ASSUME NEW c \in Clients, Step(c) PROVE SoleCreator'
    <2>1. CASE BeginWrite(c) \/ BeginTouch(c) \/ BeginComplete(c)
      BY <2>1 DEF BeginWrite, BeginTouch, BeginComplete, GetSession, SoleCreator,
                  Creating, TypeOK
    <2>2. CASE CasApply(c) \/ CasRefuse(c) \/ GiveUp(c) \/ TouchExpire(c)
                \/ CompleteHset(c)
      BY <2>2 DEF CasApply, CasRefuse, GiveUp, TouchExpire, CompleteHset, Idle,
                  SoleCreator, Creating, TypeOK
    <2>3. CASE CreateCheck(c) \/ CreateHset(c) \/ CreateExpire(c)
      BY <2>3 DEF CreateCheck, CreateHset, CreateExpire, Idle, SoleCreator,
                  Creating, TypeOK
    <2>4. CASE TouchCheck(c) \/ TouchHset(c)
      BY <2>4 DEF TouchCheck, TouchHset, SoleCreator, Creating, TypeOK
    <2>5. QED
      BY <1>2, <2>1, <2>2, <2>3, <2>4 DEF Step
  <1>3. QED
    BY <1>1, <1>2 DEF Next

-----------------------------------------------------------------------------
(* Optimistic locking.                                                      *)

(* A snapshot read in this life of the key was taken from a full hash, and  *)
(* while the session is open it is either the stored state or one of a      *)
(* smaller revision.                                                        *)
FreshOrOlder(c) ==
  pc[c] = "write" /\ born[c] = life /\ store.present =>
    /\ store.full
    /\ store.status # "COMPLETED" =>
         /\ snap[c].rev <= store.payload.rev
         /\ snap[c].rev = store.payload.rev => snap[c] = store.payload

LockInv ==
  /\ store.full => store.present
  /\ \A c \in Clients : born[c] <= life
  /\ \A c \in Clients : FreshOrOlder(c)

(* Nobody holds a snapshot yet.                                             *)
LEMMA LockInit == Init => LockInv
  BY DEF Init, LockInv, FreshOrOlder, NoHash

(* A snapshot stays the stored state, or falls behind it for good.          *)
LEMMA LockStep ==
  ~ClientNamedIds /\ TypeOK /\ SoleCreator /\ MirrorInv /\ LockInv /\ [Next]_vars
    => LockInv'
  <1> SUFFICES ASSUME ~ClientNamedIds, TypeOK, SoleCreator, MirrorInv, LockInv,
                      [Next]_vars
               PROVE  LockInv'
    OBVIOUS
  <1>1. CASE Tick
    <2>1. store' = store \/ store' = NoHash
      BY <1>1 DEF Tick
    <2>2. QED
      BY <1>1, <2>1 DEF Tick, clientVars, LockInv, FreshOrOlder, NoHash
  <1>2. ASSUME NEW c \in Clients, Step(c) PROVE LockInv'
    <2>1. ASSUME NEW to \in {"write", "touch", "complete"}, GetSession(c, to)
          PROVE  LockInv'
      <3>1. store' = store /\ life' = life /\ store.full
        BY <2>1 DEF GetSession
      <3>2. store.payload.rev \in Nat
        BY DEF TypeOK, Hash, Payload
      <3>3. ASSUME NEW d \in Clients PROVE FreshOrOlder(d)'
        <4>1. CASE d = c
          <5>1. snap'[d] = store.payload
            BY <2>1, <4>1 DEF GetSession, TypeOK
          <5>2. QED
            BY <3>1, <3>2, <5>1 DEF FreshOrOlder
        <4>2. CASE d # c
          <5>1. pc'[d] = pc[d] /\ snap'[d] = snap[d] /\ born'[d] = born[d]
            BY <2>1, <4>2 DEF GetSession, TypeOK
          <5>2. QED
            BY <3>1, <5>1 DEF LockInv, FreshOrOlder
        <4>3. QED
          BY <4>1, <4>2
      <3>4. \A d \in Clients : born'[d] <= life'
        BY <2>1 DEF GetSession, TypeOK, LockInv
      <3>5. QED
        BY <3>1, <3>3, <3>4 DEF LockInv
    <2>2. CASE BeginWrite(c) \/ BeginTouch(c) \/ BeginComplete(c)
      BY <2>1, <2>2 DEF BeginWrite, BeginTouch, BeginComplete
    <2>3. ASSUME Idle(c), UNCHANGED <<life, store>> PROVE LockInv'
      BY <2>3 DEF Idle, TypeOK, LockInv, FreshOrOlder
    <2>4. CASE CasApply(c)
      <3>1. store.present /\ store.rev + 1 = snap[c].rev + 1
             /\ store.status \notin Closed
        <4>1. Verdict(call[c], NextState(call[c], snap[c])) = "APPLIED"
          BY <2>4 DEF CasApply, Applies
        <4>2. ~WrongBase(NextState(call[c], snap[c])) /\ ~SessionClosed
               /\ store.present
          BY <4>1 DEF Verdict
        <4>3. QED
          BY <4>2 DEF WrongBase, NextState, SessionClosed
      <3>2. store'.present /\ store'.full /\ store'.payload.rev = snap[c].rev + 1
        BY <2>4 DEF CasApply, Written, NextState
      <3>3. ASSUME NEW d \in Clients PROVE FreshOrOlder(d)'
        <4>1. CASE d = c
          BY <2>4, <4>1 DEF CasApply, Idle, TypeOK, FreshOrOlder
        <4>2. CASE d # c
          <5>1. pc'[d] = pc[d] /\ snap'[d] = snap[d] /\ born'[d] = born[d]
                 /\ life' = life
            BY <2>4, <4>2 DEF CasApply, Idle, TypeOK
          <5>2. pc[d] = "write" /\ born[d] = life => snap[d].rev < store'.payload.rev
            <6>1. store.full => store.rev = store.payload.rev
              BY DEF MirrorInv, HashMirrorsPayload
            <6>2. store.status # "COMPLETED"
              BY <3>1 DEF Closed
            <6>3. snap[d].rev \in Nat /\ snap[c].rev \in Nat /\ store.rev \in Nat
              BY DEF TypeOK, Payload, Hash
            <6>4. QED
              BY <3>1, <3>2, <6>1, <6>2, <6>3 DEF LockInv, FreshOrOlder
          <5>3. snap[d].rev \in Nat /\ store'.payload.rev \in Nat
            BY <3>2 DEF TypeOK, Payload
          <5>4. QED
            BY <3>2, <5>1, <5>2, <5>3 DEF FreshOrOlder
        <4>3. QED
          BY <4>1, <4>2
      <3>4. QED
        BY <2>4, <3>2, <3>3 DEF CasApply, Idle, TypeOK, LockInv
    <2>5. CASE CasRefuse(c) \/ GiveUp(c)
      BY <2>3, <2>5 DEF CasRefuse, GiveUp
    <2>6. CASE CreateCheck(c)
      BY <2>6 DEF CreateCheck, TypeOK, LockInv, FreshOrOlder
    <2>7. CASE CreateHset(c)
      <3>1. \A d \in Clients : pc[d] # "write"
        BY <2>7 DEF CreateHset, SoleCreator, Creating, TypeOK
      <3>2. life' \in {life, life + 1} /\ life \in Nat
        BY <2>7 DEF CreateHset, NextLife, TypeOK
      <3>3. \A d \in Clients : FreshOrOlder(d)'
        BY <2>7, <3>1 DEF CreateHset, FreshOrOlder, TypeOK
      <3>4. QED
        BY <2>7, <3>2, <3>3 DEF CreateHset, LockInv, TypeOK
    <2>8. CASE CreateExpire(c) \/ TouchExpire(c)
      <3>1. PICK ttl : SetDeadline(ttl)
        BY <2>8 DEF CreateExpire, TouchExpire
      <3>2. /\ store'.present = store.present /\ store'.full = store.full
            /\ store'.payload = store.payload /\ store'.status = store.status
        BY <3>1 DEF SetDeadline, TypeOK, Hash
      <3>3. QED
        BY <2>8, <3>2 DEF CreateExpire, TouchExpire, Idle, TypeOK, LockInv,
                          FreshOrOlder
    <2>9. CASE TouchCheck(c)
      BY <2>9 DEF TouchCheck, TypeOK, LockInv, FreshOrOlder
    <2>10. CASE TouchHset(c)
      <3>1. /\ store'.present /\ store'.full = store.full
            /\ store'.payload = store.payload /\ store'.status = store.status
        BY <2>10 DEF TouchHset, TypeOK, Hash
      <3>2. \A d \in Clients : pc'[d] = "write" => pc[d] = "write"
        BY <2>10 DEF TouchHset, TypeOK
      <3>3. CASE store.present
        BY <2>10, <3>1, <3>2, <3>3 DEF TouchHset, NextLife, LockInv, FreshOrOlder
      <3>4. CASE ~store.present
        BY <2>10, <3>1, <3>4 DEF TouchHset, NextLife, LockInv, FreshOrOlder, TypeOK
      <3>5. QED
        BY <3>3, <3>4
    <2>11. CASE CompleteHset(c)
      <3>1. store'.present /\ store'.full /\ store'.status = "COMPLETED"
        BY <2>11 DEF CompleteHset, TypeOK, Hash
      <3>2. life' \in {life, life + 1} /\ life \in Nat
        BY <2>11 DEF CompleteHset, NextLife, TypeOK
      <3>3. \A d \in Clients : born'[d] <= life'
        BY <2>11, <3>2 DEF CompleteHset, Idle, LockInv, TypeOK
      <3>4. QED
        BY <3>1, <3>3 DEF LockInv, FreshOrOlder
    <2>12. QED
      BY <1>2, <2>2, <2>4, <2>5, <2>6, <2>7, <2>8, <2>9, <2>10, <2>11 DEF Step
  <1>3. CASE UNCHANGED vars
    BY <1>3 DEF vars, LockInv, FreshOrOlder
  <1>4. QED
    BY <1>1, <1>2, <1>3 DEF Next

(* A write that passes the revision checks continues the stored state.      *)
LEMMA LockSafe == TypeOK /\ MirrorInv /\ LockInv => NoLostUpdate
  <1> SUFFICES ASSUME TypeOK, MirrorInv, LockInv, NEW c \in Clients, Applies(c),
                      born[c] = life
               PROVE  store.payload = snap[c]
    BY DEF NoLostUpdate
  <1>1. /\ store.present /\ ~SessionClosed
        /\ ~WrongBase(NextState(call[c], snap[c]))
    BY DEF Applies, Verdict
  <1>2. store.full /\ store.status # "COMPLETED"
    BY <1>1 DEF Applies, LockInv, FreshOrOlder, SessionClosed, Closed
  <1>3. snap[c].rev + 1 = store.payload.rev + 1
    BY <1>1, <1>2 DEF WrongBase, NextState, MirrorInv, HashMirrorsPayload
  <1>4. snap[c].rev = store.payload.rev
    BY <1>3 DEF TypeOK, Payload, Hash
  <1>5. pc[c] = "write"
    BY DEF Applies
  <1>6. QED
    BY <1>1, <1>2, <1>4, <1>5 DEF LockInv, FreshOrOlder

(* Whatever revision callers claim to expect, Redis accepts a write only     *)
(* over the very state it was derived from: no update is lost.               *)
THEOREM OptimisticLocking ==
  ASSUME ~ClientNamedIds PROVE Spec => []NoLostUpdate
  <1>1. Init => SoleCreator /\ LockInv
    BY SoleCreatorInit, LockInit
  <1>2. TypeOK /\ SoleCreator /\ MirrorInv /\ LockInv /\ [Next]_vars
          => SoleCreator' /\ LockInv'
    BY SoleCreatorStep, LockStep
  <1>3. QED
    BY <1>1, <1>2, MirrorInit, MirrorStep, TypeCorrect, LockSafe, PTL DEF Spec

-----------------------------------------------------------------------------
(* The states a step leaves in the store and in the callers' hands.         *)

States == {store.payload} \cup {snap[c] : c \in Clients}

SameNeed(p, q) == p.asks = q.asks /\ p.log = q.log /\ p.abs = q.abs

(* A state kept, completed, blank, created, or applied.                     *)
Kept(p)     == \E q \in States : SameNeed(p, q) /\ p.status = q.status
Finished(p) == \E q \in States : SameNeed(p, q) /\ p.status = "COMPLETED"
Applied(p)  == \E c \in Clients :
                 CasApply(c) /\ p = NextState(call[c], snap[c])

Derived(p) == Kept(p) \/ Finished(p) \/ Applied(p) \/ p = NoPayload
              \/ p = Created

(* The states themselves are kept.                                          *)
LEMMA StatesAreKept == /\ Kept(store.payload)
                       /\ \A c \in Clients : Kept(snap[c])
  BY DEF Kept, SameNeed, States

(* A caller that ends its call holds a blank state.                         *)
LEMMA IdleDerives ==
  ASSUME TypeOK, NEW c \in Clients, Idle(c)
  PROVE  \A d \in Clients : Derived(snap'[d])
  <1>1. \A d \in Clients : snap'[d] = snap[d] \/ snap'[d] = NoPayload
    BY DEF Idle, TypeOK
  <1>2. QED
    BY <1>1, StatesAreKept DEF Derived

(* Every step leaves states that are derived from those before it.          *)
LEMMA StatesAreDerived ==
  ASSUME TypeOK, [Next]_vars
  PROVE  \A p \in States' : Derived(p)
  <1> SUFFICES /\ Derived(store'.payload)
               /\ \A d \in Clients : Derived(snap'[d])
    BY DEF States
  <1>0. Derived(store.payload) /\ \A d \in Clients : Derived(snap[d])
    BY StatesAreKept DEF Derived
  <1>1. CASE Tick
    BY <1>0, <1>1 DEF Tick, clientVars, NoHash, Derived
  <1>2. CASE UNCHANGED vars
    BY <1>0, <1>2 DEF vars
  <1>3. ASSUME NEW c \in Clients, Step(c)
        PROVE  Derived(store'.payload) /\ \A d \in Clients : Derived(snap'[d])
    <2>1. ASSUME NEW to, GetSession(c, to)
          PROVE  Derived(store'.payload)
                 /\ \A d \in Clients : Derived(snap'[d])
      BY <1>0, <2>1 DEF GetSession, TypeOK
    <2>2. CASE BeginWrite(c) \/ BeginTouch(c) \/ BeginComplete(c)
      BY <2>1, <2>2 DEF BeginWrite, BeginTouch, BeginComplete
    <2>3. CASE CasApply(c)
      <3>1. store'.payload = NextState(call[c], snap[c])
        BY <2>3 DEF CasApply, Written
      <3>2. Derived(store'.payload)
        BY <2>3, <3>1 DEF Derived, Applied
      <3>3. QED
        BY <2>3, <3>2, IdleDerives DEF CasApply
    <2>4. CASE CasRefuse(c) \/ GiveUp(c)
      BY <1>0, <2>4, IdleDerives DEF CasRefuse, GiveUp
    <2>5. CASE CreateCheck(c)
      <3>1. \A d \in Clients : snap'[d] = snap[d] \/ snap'[d] = Created
        BY <2>5 DEF CreateCheck, TypeOK
      <3>2. QED
        BY <1>0, <2>5, <3>1 DEF CreateCheck, Derived
    <2>6. CASE CreateHset(c)
      BY <1>0, <2>6 DEF CreateHset
    <2>7. CASE CreateExpire(c) \/ TouchExpire(c)
      <3>1. PICK ttl : SetDeadline(ttl)
        BY <2>7 DEF CreateExpire, TouchExpire
      <3>2. store'.payload = store.payload
        BY <3>1 DEF SetDeadline, TypeOK, Hash
      <3>3. QED
        BY <1>0, <2>7, <3>2, IdleDerives DEF CreateExpire, TouchExpire
    <2>8. CASE TouchCheck(c)
      <3>1. \A d \in Clients : d # c => snap'[d] = snap[d]
        BY <2>8 DEF TouchCheck, TypeOK
      <3>2. SameNeed(snap'[c], snap[c]) /\ snap'[c].status = snap[c].status
        BY <2>8 DEF TouchCheck, TypeOK, Payload, SameNeed
      <3>3. Derived(snap'[c])
        BY <3>2 DEF Derived, Kept, States
      <3>4. QED
        BY <1>0, <2>8, <3>1, <3>3 DEF TouchCheck
    <2>9. CASE TouchHset(c)
      <3>1. store'.payload = store.payload /\ snap' = snap
        BY <2>9 DEF TouchHset, TypeOK, Hash
      <3>2. QED
        BY <1>0, <3>1
    <2>10. CASE CompleteHset(c)
      <3>1. store'.payload = [snap[c] EXCEPT !.status = "COMPLETED"]
        BY <2>10 DEF CompleteHset, TypeOK, Hash
      <3>2. SameNeed(store'.payload, snap[c])
            /\ store'.payload.status = "COMPLETED"
        BY <3>1 DEF TypeOK, Payload, SameNeed
      <3>3. Derived(store'.payload)
        BY <3>2 DEF Derived, Finished, States
      <3>4. QED
        BY <2>10, <3>3, IdleDerives DEF CompleteHset
    <2>11. QED
      BY <1>3, <2>2, <2>3, <2>4, <2>5, <2>6, <2>7, <2>8, <2>9, <2>10 DEF Step
  <1>4. QED
    BY <1>1, <1>2, <1>3 DEF Next

-----------------------------------------------------------------------------
(* Questions.                                                               *)

Consistent(p) ==
  /\ p.status = "AWAITING_CLARIFICATION" => p.asks
  /\ p.status = "ACTIVE" => ~p.asks

AskedInv == \A p \in States : Consistent(p)

(* Each operation of the manager keeps status and question together.        *)
LEMMA OperationsAsk ==
  ASSUME NEW w \in Call, NEW p \in Payload, Consistent(p)
  PROVE  Consistent(NextState(w, p))
  <1>1. w.op \in PatchOps \cup NamedOps
    BY DEF Call
  <1>2. NextState(w, p).status = StatusAfter(w.op, p)
        /\ NextState(w, p).asks = AsksAfter(w.op, p)
    BY DEF NextState
  <1>3. /\ StatusAfter(w.op, p) = "AWAITING_CLARIFICATION"
              => AsksAfter(w.op, p)
        /\ StatusAfter(w.op, p) = "ACTIVE" => ~AsksAfter(w.op, p)
    <2> DEFINE op == w.op
    <2>1. CASE op \in {"PATCH_ASK", "SET_CLARIFICATION"}
      <3>1. AsksAfter(op, p)
        BY <2>1 DEF AsksAfter
      <3>2. StatusAfter(op, p) = "AWAITING_CLARIFICATION"
        BY <2>1, <3>1 DEF StatusAfter
      <3>3. QED
        BY <3>1, <3>2
    <2>2. CASE op = "PATCH"
      <3>1. AsksAfter(op, p) <=> p.asks
        BY <2>2 DEF AsksAfter
      <3>2. p.asks => StatusAfter(op, p) = "AWAITING_CLARIFICATION"
        BY <2>2, <3>1 DEF StatusAfter
      <3>3. ~p.asks /\ p.status # "AWAITING_CLARIFICATION"
              => StatusAfter(op, p) = p.status
        BY <2>2, <3>1 DEF StatusAfter
      <3>4. QED
        BY <3>1, <3>2, <3>3 DEF Consistent
    <2>3. CASE op = "MARK_RECOMMENDATION_READY"
      BY <2>3 DEF StatusAfter
    <2>4. CASE op \in {"INITIALIZE_NEED", "CLEAR_CLARIFICATION", "RESET_NEED",
                      "PATCH_SETTLE"}
      <3>1. ~AsksAfter(op, p)
        BY <2>4 DEF AsksAfter
      <3>2. StatusAfter(op, p) # "AWAITING_CLARIFICATION"
        BY <2>4, <3>1 DEF StatusAfter
      <3>3. QED
        BY <3>1, <3>2
    <2>5. QED
      BY <1>1, <2>1, <2>2, <2>3, <2>4 DEF PatchOps, NamedOps
  <1>4. QED
    BY <1>2, <1>3 DEF Consistent

(* In every reachable state, stored or held, it is so.                      *)
LEMMA AskedStep == TypeOK /\ AskedInv /\ [Next]_vars => AskedInv'
  <1> SUFFICES ASSUME TypeOK, AskedInv, [Next]_vars, NEW p \in States'
               PROVE  Consistent(p)
    BY DEF AskedInv, Consistent
  <1>1. Derived(p)
    BY StatesAreDerived
  <1>2. CASE Kept(p) \/ Finished(p)
    BY <1>2 DEF Kept, Finished, SameNeed, AskedInv, Consistent
  <1>3. CASE Applied(p)
    <2>1. PICK c \in Clients : p = NextState(call[c], snap[c])
      BY <1>3 DEF Applied
    <2>2. call[c] \in Call /\ snap[c] \in Payload /\ Consistent(snap[c])
      BY ConstantsAssumption DEF TypeOK, AskedInv, States
    <2>3. QED
      BY <2>1, <2>2, OperationsAsk
  <1>4. CASE p = NoPayload \/ p = Created
    BY <1>4 DEF NoPayload, Created, Consistent
  <1>5. QED
    BY <1>1, <1>2, <1>3, <1>4 DEF Derived

(* A session awaits an answer only while it asks, and an active one asks    *)
(* nothing, through every interleaving of writes, touch and completion and  *)
(* in either way of naming ids.                                             *)
THEOREM AwaitingIsAsked == Spec => []AwaitingMeansAsked
  <1>1. Init => AskedInv
    BY DEF Init, AskedInv, States, NoHash, NoPayload, Consistent
  <1>2. AskedInv => AwaitingMeansAsked
    BY DEF AskedInv, States, Consistent, AwaitingMeansAsked
  <1>3. QED
    BY <1>1, <1>2, AskedStep, TypeCorrect, PTL DEF Spec

-----------------------------------------------------------------------------
(* Replays.                                                                 *)

(* The call a record answers is in the log of the session, while it is open *)
(* and its key has not been lost; before the session there are no records.  *)
LoggedCalls ==
  \A k \in Keys : idem[k].until # 0 =>
    \E i \in 1..Len(store.payload.log) : store.payload.log[i] = idem[k].call

OpenAtFirst == store.full /\ store.status \notin Closed /\ life = 1

ReplayInv ==
  /\ life = 0 => ~store.present /\ \A k \in Keys : idem[k].until = 0
  /\ \A c \in Clients : pc[c] = "createHset" => life = 0
  /\ idState = "fresh" => life = 0
  /\ \A c \in Clients : pc[c] = "write" => born[c] >= 1
  /\ OpenAtFirst => LoggedCalls

(* There are no records in the beginning.                                   *)
LEMMA ReplayInit == Init => ReplayInv
  BY DEF Init, ReplayInv, OpenAtFirst, NoHash, NoRecord

(* A write that is accepted in the first life continues the log and is      *)
(* remembered as the call it appended.                                      *)
LEMMA ReplayApplied ==
  ASSUME TypeOK, MirrorInv, LockInv, ReplayInv, NEW c \in Clients, CasApply(c)
  PROVE  ReplayInv'
  <1>1. PICK w \in Call : w = call[c] /\ w.key \in Keys
    BY ConstantsAssumption DEF TypeOK, Call
  <1>2. store.present /\ store'.present /\ life' = life /\ life # 0
        /\ idState' = idState
    <2>1. store.present
      BY DEF CasApply, Applies, Verdict
    <2>2. QED
      BY <2>1 DEF CasApply, Written, ReplayInv
  <1>3. \A d \in Clients : /\ pc'[d] = "write" => pc[d] = "write" /\ d # c
                           /\ pc'[d] = "createHset" => pc[d] = "createHset"
                           /\ d # c => born'[d] = born[d]
    BY DEF CasApply, Idle, TypeOK
  <1>4. ASSUME life = 1 PROVE LoggedCalls'
    <2>1. store.payload = snap[c]
      <3>1. born[c] = life
        BY <1>4 DEF CasApply, Applies, ReplayInv, LockInv, TypeOK
      <3>2. NoLostUpdate
        BY LockSafe
      <3>3. QED
        BY <3>1, <3>2 DEF CasApply, NoLostUpdate
    <2>2. store.full /\ store.status \notin Closed
      <3>1. born[c] = life /\ pc[c] = "write"
        BY <1>4 DEF CasApply, Applies, ReplayInv, LockInv, TypeOK
      <3>2. QED
        BY <1>2, <3>1
        DEF CasApply, Applies, Verdict, SessionClosed, LockInv, FreshOrOlder
    <2>3. LoggedCalls
      BY <1>4, <2>2 DEF ReplayInv, OpenAtFirst
    <2> DEFINE old == store.payload.log
               new == store'.payload.log
    <2>4. new = Append(old, w)
      BY <1>1, <2>1 DEF CasApply, Written, NextState
    <2>5. old \in Seq(Call)
      BY DEF TypeOK, Hash, Payload
    <2>6. /\ Len(new) = Len(old) + 1 /\ Len(old) \in Nat /\ new[Len(old) + 1] = w
          /\ \A i \in 1..Len(old) : new[i] = old[i]
      BY <1>1, <2>4, <2>5
    <2>7. ASSUME NEW k \in Keys, idem'[k].until # 0
          PROVE  \E i \in 1..Len(new) : new[i] = idem'[k].call
      <3>1. CASE k = w.key
        <4>1. idem'[k].call = w
          BY <1>1, <3>1 DEF CasApply, TypeOK
        <4>2. QED
          BY <2>6, <4>1
      <3>2. CASE k # w.key
        <4>1. idem'[k] = idem[k]
          BY <1>1, <3>2 DEF CasApply, TypeOK
        <4>2. PICK i \in 1..Len(old) : old[i] = idem[k].call
          BY <2>3, <2>7, <4>1 DEF LoggedCalls
        <4>3. i \in 1..Len(new) /\ new[i] = idem'[k].call
          BY <2>6, <4>1, <4>2
        <4>4. QED
          BY <4>3
      <3>3. QED
        BY <3>1, <3>2
    <2>8. QED
      BY <2>7 DEF LoggedCalls
  <1>5. QED
    BY <1>2, <1>3, <1>4 DEF ReplayInv, OpenAtFirst

(* Every step keeps the records true.                                       *)
LEMMA ReplayStep ==
  ~ClientNamedIds /\ TypeOK /\ SoleCreator /\ MirrorInv /\ LockInv /\ ReplayInv
    /\ [Next]_vars => ReplayInv'
  <1> SUFFICES ASSUME ~ClientNamedIds, TypeOK, SoleCreator, MirrorInv, LockInv,
                      ReplayInv, [Next]_vars
               PROVE  ReplayInv'
    OBVIOUS
  <1>1. CASE Tick
    <2>1. store' = store \/ store' = NoHash
      BY <1>1 DEF Tick
    <2>2. \A k \in Keys : idem'[k] = idem[k] \/ idem'[k].until = 0
      BY <1>1 DEF Tick, NoRecord
    <2>3. QED
      BY <1>1, <2>1, <2>2
      DEF Tick, clientVars, ReplayInv, OpenAtFirst, LoggedCalls, NoHash
  <1>2. CASE UNCHANGED vars
    BY <1>2 DEF vars, ReplayInv, OpenAtFirst, LoggedCalls
  <1>3. ASSUME NEW c \in Clients, Step(c) PROVE ReplayInv'
    <2>1. ASSUME NEW to \in {"write", "touch", "complete"}, GetSession(c, to)
          PROVE  ReplayInv'
      <3>1. life # 0 /\ life \in Nat
        BY <2>1 DEF GetSession, LockInv, ReplayInv, TypeOK
      <3>2. \A d \in Clients : pc'[d] = "write" => born'[d] >= 1
        BY <2>1, <3>1 DEF GetSession, ReplayInv, TypeOK
      <3>3. \A d \in Clients : pc'[d] = "createHset" => pc[d] = "createHset"
        BY <2>1 DEF GetSession, TypeOK
      <3>4. QED
        BY <2>1, <3>1, <3>2, <3>3
        DEF GetSession, ReplayInv, OpenAtFirst, LoggedCalls
    <2>2. CASE BeginWrite(c) \/ BeginTouch(c) \/ BeginComplete(c)
      BY <2>1, <2>2 DEF BeginWrite, BeginTouch, BeginComplete
    <2>3. CASE CasApply(c)
      BY <2>3, ReplayApplied
    <2>4. CASE CasRefuse(c) \/ GiveUp(c)
      BY <2>4 DEF CasRefuse, GiveUp, Idle, TypeOK, ReplayInv, OpenAtFirst,
                  LoggedCalls
    <2>5. CASE CreateCheck(c)
      BY <2>5 DEF CreateCheck, TypeOK, ReplayInv, OpenAtFirst, LoggedCalls
    <2>6. CASE CreateHset(c)
      <3>1. life = 0 /\ \A k \in Keys : idem'[k].until = 0
        BY <2>6 DEF CreateHset, ReplayInv
      <3>2. \A d \in Clients : pc'[d] # "createHset" /\ pc'[d] # "write"
        BY <2>6 DEF CreateHset, TypeOK, SoleCreator, Creating
      <3>3. life' = 1 /\ idState' # "fresh"
        BY <2>6, <3>1 DEF CreateHset, NextLife, ReplayInv, SoleCreator
      <3>4. QED
        BY <3>1, <3>2, <3>3 DEF ReplayInv, LoggedCalls
    <2>7. CASE CreateExpire(c) \/ TouchExpire(c)
      <3>1. PICK ttl : SetDeadline(ttl)
        BY <2>7 DEF CreateExpire, TouchExpire
      <3>2. /\ store'.present = store.present /\ store'.full = store.full
            /\ store'.payload = store.payload /\ store'.status = store.status
        BY <3>1 DEF SetDeadline, TypeOK, Hash
      <3>3. idem' = idem /\ life' = life /\ Idle(c)
            /\ (idState' = "fresh" => idState = "fresh")
        BY <2>7 DEF CreateExpire, TouchExpire
      <3>4. \A d \in Clients :
              /\ pc'[d] = "write" => pc[d] = "write" /\ born'[d] = born[d]
              /\ pc'[d] = "createHset" => pc[d] = "createHset"
        BY <3>3 DEF Idle, TypeOK
      <3>5. QED
        BY <3>2, <3>3, <3>4 DEF ReplayInv, OpenAtFirst, LoggedCalls
    <2>8. CASE TouchCheck(c)
      BY <2>8 DEF TouchCheck, TypeOK, ReplayInv, OpenAtFirst, LoggedCalls
    <2>9. CASE TouchHset(c) \/ CompleteHset(c)
      <3>1. idState # "fresh" /\ \A d \in Clients : pc[d] # "createHset"
        BY <2>9 DEF TouchHset, CompleteHset, SoleCreator, Creating, TypeOK
      <3>2. life' \in {life, life + 1} /\ life \in Nat /\ store'.present
            /\ life' # 0 /\ (life' = life => store.present)
        <4>1. store'.present
          BY <2>9 DEF TouchHset, CompleteHset, TypeOK, Hash
        <4>2. NextLife /\ life \in Nat
          BY <2>9 DEF TouchHset, CompleteHset, TypeOK
        <4>3. QED
          BY <4>1, <4>2 DEF NextLife, ReplayInv
      <3>3. \A d \in Clients :
              /\ pc'[d] = "write" => pc[d] = "write" /\ born'[d] = born[d]
              /\ pc'[d] # "createHset"
        BY <2>9, <3>1 DEF TouchHset, CompleteHset, Idle, TypeOK
      <3>4. OpenAtFirst' => LoggedCalls'
        <4>1. CASE CompleteHset(c)
          <5>1. store'.status = "COMPLETED"
            BY <4>1 DEF CompleteHset, TypeOK, Hash, Payload
          <5>2. QED
            BY <5>1 DEF OpenAtFirst, Closed
        <4>2. CASE TouchHset(c)
          <5>1. /\ store'.full = store.full /\ store'.status = store.status
                /\ store'.payload = store.payload /\ idem' = idem
            BY <4>2 DEF TouchHset, TypeOK, Hash
          <5>2. store'.full => life' = life
            BY <4>2, <5>1 DEF TouchHset, NextLife, LockInv
          <5>3. QED
            BY <5>1, <5>2 DEF ReplayInv, OpenAtFirst, LoggedCalls
        <4>3. QED
          BY <2>9, <4>1, <4>2
      <3>5. idState' = idState
        BY <2>9 DEF TouchHset, CompleteHset
      <3>6. QED
        BY <3>1, <3>2, <3>3, <3>4, <3>5 DEF ReplayInv
    <2>10. QED
      BY <1>3, <2>2, <2>3, <2>4, <2>5, <2>6, <2>7, <2>8, <2>9 DEF Step
  <1>4. QED
    BY <1>1, <1>2, <1>3 DEF Next

(* A record stands under the key of the call it answers.                    *)
RecordKeys == \A k \in Keys : idem[k].until # 0 => idem[k].call.key = k

(* Only the script writes records, under the key of its call.               *)
LEMMA RecordKeysStep == TypeOK /\ RecordKeys /\ [Next]_vars => RecordKeys'
  <1> SUFFICES ASSUME TypeOK, RecordKeys, [Next]_vars PROVE RecordKeys'
    OBVIOUS
  <1>1. CASE Tick
    BY <1>1 DEF Tick, RecordKeys, NoRecord
  <1>2. CASE UNCHANGED idem
    BY <1>2 DEF RecordKeys
  <1>3. ASSUME NEW c \in Clients, CasApply(c) PROVE RecordKeys'
    BY <1>3 DEF CasApply, RecordKeys, TypeOK
  <1>4. QED
    BY <1>1, <1>2, <1>3
    DEF Next, Step, BeginWrite, BeginTouch, BeginComplete, GetSession,
        CasRefuse, CreateCheck, CreateHset, CreateExpire, TouchCheck,
        TouchHset, TouchExpire, CompleteHset, GiveUp, vars

(* A record with the fingerprint of a call is of the same key, operation    *)
(* and, for a patch, body; so what a replay tells of is in the log.         *)
LEMMA ReplaySafe == TypeOK /\ RecordKeys /\ ReplayInv => ReplayIsStored
  <1> SUFFICES ASSUME TypeOK, RecordKeys, ReplayInv, NEW c \in Clients,
                      store.full, store.status \notin Closed, life = 1,
                      Verdict(call[c], NextState(call[c], snap[c]))
                        = "IDEMPOTENT_REPLAY"
               PROVE  \E i \in 1..Len(store.payload.log) :
                        LET w == store.payload.log[i] IN
                        /\ w.key = call[c].key /\ w.op = call[c].op
                        /\ w.op \in PatchOps => w.body = call[c].body
    BY DEF ReplayIsStored
  <1>1. PICK k \in Keys : k = call[c].key
    BY ConstantsAssumption DEF TypeOK, Call
  <1>2. idem[k].until # 0 /\ Fingerprint(idem[k].call) = Fingerprint(call[c])
    BY <1>1 DEF Verdict, Answered
  <1>3. PICK i \in 1..Len(store.payload.log) : store.payload.log[i] = idem[k].call
    BY <1>2 DEF ReplayInv, OpenAtFirst, LoggedCalls
  <1>4. idem[k].call.op = call[c].op
        /\ (call[c].op \in PatchOps => idem[k].call.body = call[c].body)
    BY <1>2 DEF Fingerprint
  <1>5. idem[k].call.key = k
    BY <1>2 DEF RecordKeys
  <1>6. QED
    BY <1>1, <1>3, <1>4, <1>5

(* While a session is open, a caller that is told of a replay has the same  *)
(* patch, or the same named operation, in the state.                        *)
THEOREM ReplaysAreStored ==
  ASSUME ~ClientNamedIds PROVE Spec => []ReplayIsStored
  <1>1. Init => SoleCreator /\ LockInv /\ ReplayInv /\ RecordKeys
    BY SoleCreatorInit, LockInit, ReplayInit DEF Init, NoRecord, RecordKeys
  <1>2. TypeOK /\ SoleCreator /\ MirrorInv /\ LockInv /\ ReplayInv
          /\ RecordKeys /\ [Next]_vars
        => SoleCreator' /\ LockInv' /\ ReplayInv' /\ RecordKeys'
    BY SoleCreatorStep, LockStep, ReplayStep, RecordKeysStep
  <1>3. QED
    BY <1>1, <1>2, MirrorInit, MirrorStep, TypeCorrect, ReplaySafe, PTL
    DEF Spec

-----------------------------------------------------------------------------
(* The absolute lifetime of a session: compare_and_set never accepts a      *)
(* write past it.                                                           *)

Working(c) == pc[c] # "idle"

(* All who work on the session hold one absolute expiry, the stored one if   *)
(* there is a payload.  A key that only touch's HSET brought back has no     *)
(* absolute expiry, but an idle one that lies within it.                     *)
SharedLifetime ==
  \A c \in Clients : Working(c) =>
    /\ snap[c].abs > 0
    /\ \A d \in Clients : Working(d) => snap[d].abs = snap[c].abs
    /\ store.full => store.payload.abs = snap[c].abs
    /\ store.present /\ ~store.full => 0 < store.exp /\ store.exp <= snap[c].abs

AbsInv ==
  /\ SharedLifetime
  /\ store.full => store.payload.abs > 0
  /\ idState = "fresh" => ~store.present
  /\ \A c \in Clients :
       pc[c] = "touchHset" => 0 < snap[c].exp /\ snap[c].exp <= snap[c].abs
  /\ now > 0

(* Nobody works on a session yet.                                           *)
LEMMA AbsInit == ~ClientNamedIds /\ Init => AbsInv
  BY DEF Init, AbsInv, SharedLifetime, Working, NoHash

(* A caller that finishes, with the session as it was, disturbs nobody.     *)
LEMMA AbsIdle ==
  ASSUME TypeOK, AbsInv, NEW c \in Clients, Idle(c),
         UNCHANGED <<now, store, idState>>
  PROVE  AbsInv'
  BY DEF TypeOK, AbsInv, SharedLifetime, Working, Idle

(* Every step keeps one absolute expiry among all who work on it.           *)
LEMMA AbsStep ==
  ~ClientNamedIds /\ TypeOK /\ SoleCreator /\ LockInv /\ AbsInv /\ [Next]_vars
    => AbsInv'
  <1> SUFFICES ASSUME ~ClientNamedIds, TypeOK, SoleCreator, LockInv, AbsInv,
                      [Next]_vars
               PROVE  AbsInv'
    OBVIOUS
  <1>1. CASE Tick
    <2>1. store' = store \/ store' = NoHash
      BY <1>1 DEF Tick
    <2>2. now' > 0
      BY <1>1 DEF Tick, AbsInv, TypeOK
    <2>3. QED
      BY <1>1, <2>1, <2>2 DEF Tick, clientVars, AbsInv, SharedLifetime, Working,
                              NoHash
  <1>2. ASSUME NEW c \in Clients, Step(c) PROVE AbsInv'
    <2>1. ASSUME NEW to \in {"write", "touch", "complete"}, GetSession(c, to)
          PROVE  AbsInv'
      <3>1. /\ store.full /\ store' = store /\ now' = now /\ idState' = idState
            /\ pc' = [pc EXCEPT ![c] = to]
            /\ snap' = [snap EXCEPT ![c] = store.payload]
        BY <2>1 DEF GetSession
      <3>2. snap'[c] = store.payload /\ store.payload.abs > 0
        BY <3>1 DEF TypeOK, AbsInv
      <3>3. \A d \in Clients : d # c => snap'[d] = snap[d] /\ pc'[d] = pc[d]
        BY <3>1 DEF TypeOK
      <3>4. \A d \in Clients : Working(d)' => snap'[d].abs = store.payload.abs
        BY <3>1, <3>2, <3>3 DEF AbsInv, SharedLifetime, Working
      <3>5. SharedLifetime'
        BY <3>1, <3>2, <3>4 DEF SharedLifetime
      <3>6. \A d \in Clients : pc'[d] = "touchHset" => d # c
        BY <3>1 DEF TypeOK
      <3>7. QED
        BY <3>1, <3>3, <3>5, <3>6 DEF AbsInv
    <2>2. CASE BeginWrite(c) \/ BeginTouch(c) \/ BeginComplete(c)
      BY <2>1, <2>2 DEF BeginWrite, BeginTouch, BeginComplete
    <2>3. CASE CasApply(c)
      <3>1. Working(c) /\ store'.full /\ store'.payload.abs = snap[c].abs
            /\ now' = now /\ idState' = idState
        BY <2>3 DEF CasApply, Applies, Working, Written, NextState
      <3>2. \A d \in Clients : Working(d)' => Working(d) /\ snap'[d] = snap[d]
        BY <2>3 DEF CasApply, Idle, Working, TypeOK
      <3>3. SharedLifetime'
        BY <3>1, <3>2 DEF AbsInv, SharedLifetime
      <3>4. \A d \in Clients :
              pc'[d] = "touchHset" => pc[d] = "touchHset" /\ snap'[d] = snap[d]
        BY <2>3 DEF CasApply, Idle, TypeOK
      <3>5. idState # "fresh"
        BY <2>3 DEF CasApply, Applies, SoleCreator
      <3>6. QED
        BY <3>1, <3>3, <3>4, <3>5 DEF AbsInv, SharedLifetime
    <2>4. CASE CasRefuse(c) \/ GiveUp(c)
      BY <2>4, AbsIdle DEF CasRefuse, GiveUp
    <2>5. CASE CreateCheck(c)
      <3>1. /\ ~store.present /\ ~store.full /\ store' = store /\ now' = now
            /\ \A d \in Clients : pc[d] = "idle"
            /\ idState' = "creating"
        BY <2>5 DEF CreateCheck, SoleCreator, LockInv
      <3>2. \A d \in Clients : Working(d)' => d = c
        BY <2>5, <3>1 DEF CreateCheck, Working, TypeOK
      <3>3. snap'[c].abs > 0 /\ pc'[c] = "createHset"
        BY <2>5, ConstantsAssumption DEF CreateCheck, Created, AbsInv, TypeOK
      <3>4. SharedLifetime'
        BY <3>1, <3>2, <3>3 DEF SharedLifetime
      <3>5. \A d \in Clients : pc'[d] # "touchHset"
        BY <3>2, <3>3 DEF Working
      <3>6. QED
        BY <3>1, <3>4, <3>5 DEF AbsInv
    <2>6. CASE CreateHset(c)
      <3>1. \A d \in Clients : Working(d) => d = c
        BY <2>6 DEF CreateHset, Working, SoleCreator, Creating, TypeOK
      <3>2. /\ store'.full /\ store'.payload = snap[c] /\ snap' = snap
            /\ pc' = [pc EXCEPT ![c] = "createExpire"]
            /\ now' = now /\ idState' = idState /\ snap[c].abs > 0
            /\ idState # "fresh"
        BY <2>6 DEF CreateHset, AbsInv, SharedLifetime, Working, SoleCreator
      <3>3. \A d \in Clients : Working(d)' => d = c
        BY <3>1, <3>2 DEF Working, TypeOK
      <3>4. pc'[c] = "createExpire"
        BY <3>2 DEF TypeOK
      <3>5. QED
        BY <3>2, <3>3, <3>4 DEF AbsInv, SharedLifetime, Working
    <2>7. CASE CreateExpire(c) \/ TouchExpire(c)
      <3>1. PICK ttl : SetDeadline(ttl)
        BY <2>7 DEF CreateExpire, TouchExpire
      <3>2. /\ store'.present = store.present /\ store'.full = store.full
            /\ store'.payload = store.payload /\ store'.exp = store.exp
        BY <3>1 DEF SetDeadline, TypeOK, Hash
      <3>3. Idle(c) /\ now' = now /\ (idState' = "fresh" => idState = "fresh")
        BY <2>7 DEF CreateExpire, TouchExpire
      <3>4. \A d \in Clients : pc'[d] # "idle" => pc'[d] = pc[d] /\ snap'[d] = snap[d]
        BY <3>3 DEF Idle, TypeOK
      <3>5. SharedLifetime'
        BY <3>2, <3>4 DEF AbsInv, SharedLifetime, Working
      <3>6. QED
        BY <3>2, <3>3, <3>4, <3>5 DEF AbsInv
    <2>8. CASE TouchCheck(c)
      <3>1. snap'[c].abs = snap[c].abs /\ snap'[c].exp = NextIdleExpiry(snap[c])
            /\ pc'[c] = "touchHset" /\ Working(c)
        BY <2>8 DEF TouchCheck, TypeOK, Payload, Working
      <3>2. \A d \in Clients : d # c => snap'[d] = snap[d] /\ pc'[d] = pc[d]
        BY <2>8 DEF TouchCheck, TypeOK
      <3>3. snap[c].abs \in Nat /\ snap[c].abs > 0 /\ now \in Nat /\ now > 0
        BY <3>1 DEF TypeOK, Payload, AbsInv, SharedLifetime
      <3>4. 0 < snap'[c].exp /\ snap'[c].exp <= snap'[c].abs
        BY <3>1, <3>3, ConstantsAssumption DEF NextIdleExpiry, Earlier
      <3>5. \A d \in Clients : Working(d)' => Working(d) /\ snap'[d].abs = snap[d].abs
        BY <3>1, <3>2 DEF Working
      <3>6. store' = store /\ now' = now /\ idState' = idState
        BY <2>8 DEF TouchCheck
      <3>7. SharedLifetime'
        BY <3>5, <3>6 DEF AbsInv, SharedLifetime
      <3>8. QED
        BY <3>2, <3>4, <3>6, <3>7 DEF AbsInv
    <2>9. CASE TouchHset(c)
      <3>1. /\ store'.present /\ store'.full = store.full
            /\ store'.payload = store.payload /\ store'.exp = snap[c].exp
        BY <2>9 DEF TouchHset, TypeOK, Hash
      <3>2. /\ snap' = snap /\ now' = now /\ idState' = idState
            /\ pc[c] = "touchHset" /\ pc' = [pc EXCEPT ![c] = "touchExpire"]
        BY <2>9 DEF TouchHset
      <3>3. \A d \in Clients : Working(d)' => Working(d)
        BY <3>2 DEF Working, TypeOK
      <3>4. \A d \in Clients : Working(d) => snap[d].abs = snap[c].abs
        BY <3>2 DEF AbsInv, SharedLifetime, Working
      <3>5. 0 < snap[c].exp /\ snap[c].exp <= snap[c].abs /\ idState # "fresh"
        BY <3>2 DEF AbsInv, SoleCreator
      <3>6. SharedLifetime'
        BY <3>1, <3>2, <3>3, <3>4, <3>5 DEF AbsInv, SharedLifetime
      <3>7. \A d \in Clients : pc'[d] = "touchHset" => pc[d] = "touchHset"
        BY <3>2 DEF TypeOK
      <3>8. QED
        BY <3>1, <3>2, <3>5, <3>6, <3>7 DEF AbsInv
    <2>10. CASE CompleteHset(c)
      <3>1. /\ Working(c) /\ store'.full /\ store'.payload.abs = snap[c].abs
            /\ now' = now /\ idState' = idState /\ idState # "fresh"
        BY <2>10 DEF CompleteHset, Working, TypeOK, Hash, Payload, SoleCreator
      <3>2. \A d \in Clients :
              Working(d)' => Working(d) /\ snap'[d] = snap[d] /\ pc'[d] = pc[d]
        BY <2>10 DEF CompleteHset, Idle, Working, TypeOK
      <3>3. SharedLifetime'
        BY <3>1, <3>2 DEF AbsInv, SharedLifetime
      <3>4. QED
        BY <3>1, <3>2, <3>3 DEF AbsInv, SharedLifetime, Working
    <2>11. QED
      BY <1>2, <2>2, <2>3, <2>4, <2>5, <2>6, <2>7, <2>8, <2>9, <2>10 DEF Step
  <1>3. CASE UNCHANGED vars
    BY <1>3 DEF vars, AbsInv, SharedLifetime, Working
  <1>4. QED
    BY <1>1, <1>2, <1>3 DEF Next

(* The expiry fields then refuse every write that is too late.              *)
LEMMA AbsSafe == TypeOK /\ MirrorInv /\ AbsInv => NoWriteAfterAbsolute
  <1> SUFFICES ASSUME TypeOK, MirrorInv, AbsInv, NEW c \in Clients, Applies(c)
               PROVE  now < snap[c].abs
    BY DEF NoWriteAfterAbsolute
  <1>1. store.present /\ ~SessionClosed /\ Working(c)
    BY DEF Applies, Verdict, Working
  <1>2. /\ store.abs \in Nat /\ store.exp \in Nat /\ snap[c].abs \in Nat
        /\ now \in Nat
    BY DEF TypeOK, Hash, Payload
  <1>3. CASE store.full
    <2>1. store.abs = snap[c].abs /\ snap[c].abs > 0
      BY <1>1, <1>3 DEF SessionClosed, Closed, MirrorInv, HashMirrorsPayload,
                        AbsInv, SharedLifetime
    <2>2. QED
      BY <1>1, <1>2, <2>1 DEF SessionClosed
  <1>4. CASE ~store.full
    <2>1. 0 < store.exp /\ store.exp <= snap[c].abs
      BY <1>1, <1>4 DEF AbsInv, SharedLifetime
    <2>2. QED
      BY <1>1, <1>2, <2>1 DEF SessionClosed
  <1>5. QED
    BY <1>3, <1>4

(* However touch, completion and expiry interleave with it, a write is only  *)
(* accepted before the absolute expiry fixed when the session was created.   *)
THEOREM LifetimeIsBounded ==
  ASSUME ~ClientNamedIds PROVE Spec => []NoWriteAfterAbsolute
  <1>1. Init => SoleCreator /\ LockInv /\ AbsInv
    BY SoleCreatorInit, LockInit, AbsInit
  <1>2. /\ TypeOK /\ SoleCreator /\ MirrorInv /\ LockInv /\ AbsInv /\ [Next]_vars
            => SoleCreator' /\ LockInv' /\ AbsInv'
    BY SoleCreatorStep, LockStep, AbsStep
  <1>3. QED
    BY <1>1, <1>2, MirrorInit, MirrorStep, TypeCorrect, AbsSafe, PTL DEF Spec

-----------------------------------------------------------------------------
(* Keys.                                                                    *)

(* Each key of a state is there once, and until the absolute expiry of the  *)
(* state Redis remembers that it was used.                                  *)
KeysKnown(p) ==
  /\ p.abs <= now + AbsTTL
  /\ \A i, j \in 1..Len(p.log) : p.log[i].key = p.log[j].key => i = j
  /\ now < p.abs => \A i \in 1..Len(p.log) : idem[p.log[i].key].until >= p.abs

KeyInv == \A p \in States : KeysKnown(p)

(* What a state in the store or in a caller's hands is.                     *)
LEMMA StatesType == TypeOK => \A p \in States : p \in Payload
  BY DEF TypeOK, States, Hash

(* The key of every write in a state is one of the keys.                    *)
LEMMA LoggedKeys ==
  ASSUME NEW p \in Payload
  PROVE  \A i \in 1..Len(p.log) : p.log[i].key \in Keys
  <1>1. p.log \in Seq(Call)
    BY DEF Payload
  <1>2. \A i \in 1..Len(p.log) : p.log[i] \in Call
    BY <1>1
  <1>3. QED
    BY <1>2 DEF Call

(* The clock does not go back.                                              *)
LEMMA ClockStep ==
  ASSUME TypeOK, [Next]_vars
  PROVE  now' \in Nat /\ now <= now'
  <1>1. now' = now \/ now' = now + 1
    BY DEF Next, Tick, Step, BeginWrite, BeginTouch, BeginComplete, GetSession,
           CasApply, CasRefuse, CreateCheck, CreateHset, CreateExpire,
           TouchCheck, TouchHset, TouchExpire, CompleteHset, GiveUp, vars
  <1>2. QED
    BY <1>1 DEF TypeOK

(* A record lasts to its deadline, and a write leaves one that lasts longer *)
(* than any session that exists by then.                                    *)
LEMMA RecordsLast ==
  ASSUME TypeOK, [Next]_vars, IdemTTL >= AbsTTL, NEW k \in Keys
  PROVE  idem[k].until > now' => \/ idem'[k].until >= idem[k].until
                                 \/ idem'[k].until >= now' + AbsTTL
  <1>1. CASE Tick
    BY <1>1 DEF Tick, TypeOK, Record
  <1>2. CASE UNCHANGED <<now, idem>>
    BY <1>2 DEF TypeOK, Record
  <1>3. ASSUME NEW c \in Clients, CasApply(c)
        PROVE  now' = now /\ \/ idem'[k] = idem[k]
                             \/ idem'[k].until >= now' + AbsTTL
    <2>1. now + Later(Later(IdemTTL, IdleTTL), KeyTTL) >= now + AbsTTL
      BY KeyTTLType, ConstantsAssumption DEF Later, TypeOK
    <2>2. QED
      BY <1>3, <2>1 DEF CasApply, TypeOK
  <1>4. \/ Tick \/ UNCHANGED <<now, idem>>
        \/ \E c \in Clients : CasApply(c)
    BY DEF Next, Step, BeginWrite, BeginTouch, BeginComplete, GetSession,
           CasRefuse, CreateCheck, CreateHset, CreateExpire, TouchCheck,
           TouchHset, TouchExpire, CompleteHset, GiveUp, vars
  <1>5. idem[k].until \in Nat
    BY DEF TypeOK, Record
  <1>6. QED
    BY <1>1, <1>2, <1>3, <1>4, <1>5

(* A state that stays known.                                                *)
LEMMA KnownStays ==
  ASSUME TypeOK, [Next]_vars, IdemTTL >= AbsTTL, NEW p \in Payload,
         KeysKnown(p)
  PROVE  KeysKnown(p)'
  <1>1. now' \in Nat /\ now \in Nat /\ now <= now' /\ p.abs \in Nat
        /\ AbsTTL \in Nat
    BY ClockStep, ConstantsAssumption DEF TypeOK, Payload
  <1>2. p.abs <= now + AbsTTL
    BY DEF KeysKnown
  <1>3. p.abs <= now' + AbsTTL
    BY <1>1, <1>2
  <1>4. ASSUME now' < p.abs, NEW i \in 1..Len(p.log)
        PROVE  idem'[p.log[i].key].until >= p.abs
    <2>1. p.log[i].key \in Keys
      BY LoggedKeys
    <2>2. idem[p.log[i].key].until >= p.abs
      BY <1>1, <1>4 DEF KeysKnown
    <2>3. idem[p.log[i].key].until \in Nat /\ idem'[p.log[i].key].until \in Nat
      BY <2>1, TypeStep DEF TypeOK, Record
    <2>4. \/ idem'[p.log[i].key].until >= idem[p.log[i].key].until
          \/ idem'[p.log[i].key].until >= now' + AbsTTL
      BY <1>1, <1>4, <2>1, <2>2, <2>3, RecordsLast
    <2>5. QED
      BY <1>1, <1>3, <2>2, <2>3, <2>4
  <1>5. QED
    BY <1>3, <1>4 DEF KeysKnown

(* What an accepted write makes of the state it was derived from.           *)
LEMMA KnownApplied ==
  ASSUME TypeOK, [Next]_vars, IdemTTL >= AbsTTL, NEW c \in Clients,
         CasApply(c), NEW w, w = call[c], NEW q, q = snap[c], KeysKnown(q),
         now < q.abs, NEW p, p = NextState(w, q)
  PROVE  KeysKnown(p)'
  <1>1. w \in Call /\ w.key \in Keys /\ q \in Payload
    BY ConstantsAssumption DEF TypeOK, Call
  <1>2. p.log = Append(q.log, w) /\ p.abs = q.abs
    BY DEF NextState
  <1>3. q.log \in Seq(Call) /\ q.abs \in Nat
    BY <1>1 DEF Payload
  <1>4. /\ Len(p.log) = Len(q.log) + 1 /\ Len(q.log) \in Nat
        /\ \A i \in 1..Len(q.log) : p.log[i] = q.log[i]
        /\ p.log[Len(q.log) + 1] = w
    BY <1>1, <1>2, <1>3
  <1>5. idem[w.key].until = 0
    <2>1. Verdict(w, p) = "APPLIED"
      BY DEF CasApply, Applies
    <2>2. QED
      BY <2>1 DEF Verdict, Answered
  <1>6. \A i \in 1..Len(q.log) : q.log[i].key # w.key
    <2>1. \A i \in 1..Len(q.log) : idem[q.log[i].key].until >= q.abs
      BY DEF KeysKnown
    <2>2. q.abs > 0
      BY <1>3 DEF TypeOK
    <2>3. QED
      BY <1>3, <1>5, <2>1, <2>2
  <1>7. KeysKnown(q)'
    BY <1>1, KnownStays
  <1>8. now' = now /\ idem'[w.key].until
                       = now + Later(Later(IdemTTL, IdleTTL), KeyTTL)
    BY <1>1 DEF CasApply, TypeOK
  <1>9. idem'[w.key].until >= q.abs
    <2>1. Later(Later(IdemTTL, IdleTTL), KeyTTL) \in Nat
          /\ Later(Later(IdemTTL, IdleTTL), KeyTTL) >= AbsTTL
      BY KeyTTLType, ConstantsAssumption DEF Later, TypeOK
    <2>2. q.abs <= now + AbsTTL /\ now \in Nat /\ AbsTTL \in Nat
      BY ConstantsAssumption DEF KeysKnown, TypeOK
    <2>3. QED
      BY <1>3, <1>8, <2>1, <2>2
  <1>10. ASSUME NEW i \in 1..Len(p.log), NEW j \in 1..Len(p.log),
                p.log[i].key = p.log[j].key
         PROVE  i = j
    <2>1. CASE i \in 1..Len(q.log) /\ j \in 1..Len(q.log)
      BY <1>4, <1>10, <2>1 DEF KeysKnown
    <2>2. CASE i = Len(q.log) + 1 /\ j \in 1..Len(q.log)
      BY <1>4, <1>6, <1>10, <2>2
    <2>3. CASE j = Len(q.log) + 1 /\ i \in 1..Len(q.log)
      BY <1>4, <1>6, <1>10, <2>3
    <2>4. QED
      BY <1>4, <2>1, <2>2, <2>3
  <1>11. ASSUME now' < p.abs, NEW i \in 1..Len(p.log)
         PROVE  idem'[p.log[i].key].until >= p.abs
    <2>1. CASE i \in 1..Len(q.log)
      BY <1>2, <1>4, <1>7, <1>11, <2>1 DEF KeysKnown
    <2>2. CASE i = Len(q.log) + 1
      BY <1>2, <1>4, <1>9, <2>2
    <2>3. QED
      BY <1>4, <2>1, <2>2
  <1>12. p.abs <= now' + AbsTTL
    BY <1>2, <1>7 DEF KeysKnown
  <1>13. QED
    BY <1>10, <1>11, <1>12 DEF KeysKnown

(* Adding the same to two times keeps their order.                          *)
LEMMA Shift == \A a, b, t \in Nat : a <= b => a + t <= b + t
  OBVIOUS

(* Every step keeps the keys known.                                         *)
LEMMA KeyStep ==
  TypeOK /\ IdemTTL >= AbsTTL /\ NoWriteAfterAbsolute /\ KeyInv /\ [Next]_vars
    => KeyInv'
  <1> SUFFICES ASSUME TypeOK, IdemTTL >= AbsTTL, NoWriteAfterAbsolute, KeyInv,
                      [Next]_vars, NEW p \in States'
               PROVE  KeysKnown(p)'
    BY DEF KeyInv
  <1>1. Derived(p)
    BY StatesAreDerived
  <1>2. CASE Kept(p) \/ Finished(p)
    <2>1. PICK q \in States : SameNeed(p, q)
      BY <1>2 DEF Kept, Finished
    <2>2. KeysKnown(q)'
      BY StatesType, KnownStays DEF KeyInv
    <2>3. QED
      BY <2>1, <2>2 DEF SameNeed, KeysKnown
  <1>3. CASE Applied(p)
    <2>1. PICK c \in Clients : CasApply(c) /\ p = NextState(call[c], snap[c])
      BY <1>3 DEF Applied
    <2>2. now < snap[c].abs /\ KeysKnown(snap[c])
      BY <2>1 DEF CasApply, NoWriteAfterAbsolute, KeyInv, States
    <2>3. QED
      BY <2>1, <2>2, KnownApplied
  <1>4. CASE p = NoPayload
    <2>1. p.abs = 0 /\ p.log = <<>>
      BY <1>4 DEF NoPayload
    <2>2. now' \in Nat /\ AbsTTL \in Nat
      BY TypeStep, ConstantsAssumption DEF TypeOK
    <2>3. QED
      BY <2>1, <2>2 DEF KeysKnown
  <1>5. CASE p = Created
    <2>1. p.abs = now + AbsTTL /\ p.log = <<>>
      BY <1>5 DEF Created
    <2>2. now' \in Nat /\ now \in Nat /\ now <= now' /\ AbsTTL \in Nat
      BY TypeStep, ConstantsAssumption, ClockStep DEF TypeOK
    <2>3. now + AbsTTL <= now' + AbsTTL
      BY <2>2, Shift
    <2> HIDE DEF Created
    <2>4. p.abs <= now' + AbsTTL
      BY <2>1, <2>3, Zenon
    <2>5. 1..Len(p.log) = {}
      BY <2>1
    <2>6. QED
      BY <2>4, <2>5 DEF KeysKnown
  <1>6. QED
    BY <1>1, <1>2, <1>3, <1>4, <1>5 DEF Derived

(* No key has been used.                                                    *)
LEMMA KeyInit == Init => KeyInv
  <1> SUFFICES ASSUME Init, NEW p \in States PROVE KeysKnown(p)
    BY DEF KeyInv
  <1>1. p = NoPayload
    BY DEF Init, States, NoHash
  <1>2. p.abs = 0 /\ p.log = <<>>
    BY <1>1 DEF NoPayload
  <1>3. QED
    BY <1>2, ConstantsAssumption DEF KeysKnown, Init

(* When records last as long as sessions may, an idempotency key is applied *)
(* at most once in the life of a session, whatever it comes with.           *)
THEOREM KeysApplyOnce ==
  ASSUME ~ClientNamedIds PROVE Spec => []KeyAppliedOnce
  <1>1. CASE IdemTTL >= AbsTTL
    <2>1. Init => KeyInv
      BY KeyInit
    <2>2. KeyInv => KeyAppliedOnce
      BY DEF KeyInv, KeysKnown, States, KeyAppliedOnce
    <2>3. TypeOK /\ NoWriteAfterAbsolute /\ KeyInv /\ [Next]_vars => KeyInv'
      BY <1>1, KeyStep
    <2>4. QED
      BY <2>1, <2>2, <2>3, TypeCorrect, LifetimeIsBounded, PTL DEF Spec
  <1>2. CASE ~(IdemTTL >= AbsTTL)
    <2>1. KeyAppliedOnce
      BY <1>2 DEF KeyAppliedOnce
    <2>2. QED
      BY <2>1, PTL
  <1>3. QED
    BY <1>1, <1>2

-----------------------------------------------------------------------------
(* The store implements the abstract session.                               *)

(* The last write of the log is the one the hash was written with; a hash   *)
(* without a payload is blank, and if there is one, its key vanished once.  *)
HistoryInv ==
  /\ store.full /\ store.status # "COMPLETED" /\ store.payload.log # <<>>
       => store.seq = store.payload.log[Len(store.payload.log)].seq
  /\ store.present /\ ~store.full => life >= 2
  /\ ~store.full => store.rev = 0 /\ store.payload.log = <<>>
  /\ \A c \in Clients : pc[c] \notin {"idle"} \cup Creating => life >= 1

(* Nothing is stored.                                                       *)
LEMMA HistoryInit == Init => HistoryInv
  BY DEF Init, HistoryInv, NoHash, NoPayload

(* An accepted write.                                                       *)
LEMMA AppliedHistory ==
  ASSUME TypeOK, NEW c \in Clients, CasApply(c), NEW w, w = call[c]
  PROVE  /\ store.present /\ store'.present /\ store'.full
         /\ store'.status = store'.payload.status
         /\ store'.payload.log = Append(snap[c].log, w)
         /\ w \in Calls /\ w \in Call /\ snap[c].log \in Seq(Call)
         /\ store'.seq = w.seq /\ life' = life
         /\ store.status \notin Closed
         /\ store.rev = w.expected /\ snap[c].rev = store.rev
         /\ w.seq = NoSeq \/ store.seq = NoSeq \/ store.seq < w.seq
  <1>1. /\ w \in Calls /\ w \in Call /\ snap[c] \in Payload
        /\ snap[c].log \in Seq(Call) /\ snap[c].rev \in Nat /\ store.rev \in Nat
    BY ConstantsAssumption DEF TypeOK, Payload, Hash
  <1>2. /\ store.present /\ ~SessionClosed /\ store.rev = w.expected
        /\ ~OutOfOrder(w) /\ ~WrongBase(NextState(w, snap[c]))
    BY DEF CasApply, Applies, Verdict
  <1>3. snap[c].rev = store.rev
    BY <1>1, <1>2 DEF WrongBase, NextState
  <1>4. w.seq = NoSeq \/ store.seq = NoSeq \/ store.seq < w.seq
    BY <1>1, <1>2 DEF OutOfOrder, Call, TypeOK, Hash, NoSeq
  <1>5. /\ store'.present /\ store'.full /\ store'.seq = w.seq /\ life' = life
        /\ store'.payload = NextState(w, snap[c])
        /\ store'.status = store'.payload.status
    BY DEF CasApply, Written
  <1>6. QED
    BY <1>1, <1>2, <1>3, <1>4, <1>5 DEF SessionClosed, NextState

(* Every step keeps the history.                                            *)
LEMMA HistoryStep ==
  ~ClientNamedIds /\ TypeOK /\ SoleCreator /\ MirrorInv /\ LockInv /\ ReplayInv
    /\ HistoryInv /\ [Next]_vars => HistoryInv'
  <1> SUFFICES ASSUME ~ClientNamedIds, TypeOK, SoleCreator, MirrorInv, LockInv,
                      ReplayInv, HistoryInv, [Next]_vars
               PROVE  HistoryInv'
    OBVIOUS
  <1>1. CASE Tick
    <2>1. store' = store \/ store' = NoHash
      BY <1>1 DEF Tick
    <2>2. QED
      BY <1>1, <2>1 DEF Tick, clientVars, HistoryInv, NoHash, NoPayload
  <1>2. CASE UNCHANGED vars
    BY <1>2 DEF vars, HistoryInv
  <1>3. ASSUME NEW c \in Clients, Step(c) PROVE HistoryInv'
    <2>1. ASSUME NEW to \in {"write", "touch", "complete"}, GetSession(c, to)
          PROVE  HistoryInv'
      <3>1. life \in Nat /\ life # 0
        BY <2>1 DEF GetSession, LockInv, ReplayInv, TypeOK
      <3>2. QED
        BY <2>1, <3>1 DEF GetSession, HistoryInv
    <2>2. CASE BeginWrite(c) \/ BeginTouch(c) \/ BeginComplete(c)
      BY <2>1, <2>2 DEF BeginWrite, BeginTouch, BeginComplete
    <2>3. CASE CasApply(c)
      <3>1. PICK w : w = call[c]
        OBVIOUS
      <3>2. /\ store'.present /\ store'.full /\ store'.seq = w.seq
            /\ store'.payload.log = Append(snap[c].log, w)
            /\ w \in Call /\ snap[c].log \in Seq(Call) /\ life' = life
        BY <2>3, <3>1, AppliedHistory
      <3>3. store'.payload.log[Len(store'.payload.log)] = w
        BY <3>2
      <3>4. \A d \in Clients : pc'[d] = pc[d] \/ pc'[d] = "idle"
        BY <2>3 DEF CasApply, Idle, TypeOK
      <3>5. QED
        BY <3>2, <3>3, <3>4 DEF HistoryInv
    <2>4. CASE CasRefuse(c) \/ GiveUp(c)
      BY <2>4 DEF CasRefuse, GiveUp, Idle, TypeOK, HistoryInv
    <2>5. CASE CreateCheck(c)
      BY <2>5 DEF CreateCheck, TypeOK, HistoryInv, Creating
    <2>6. CASE CreateHset(c)
      <3>1. \A d \in Clients : pc'[d] \in {"idle"} \cup Creating
        BY <2>6 DEF CreateHset, TypeOK, SoleCreator, Creating
      <3>2. store'.full /\ store'.seq = NoSeq /\ store'.payload = snap[c]
        BY <2>6 DEF CreateHset
      <3>3. Len(snap[c].log) = 0 => snap[c].log = <<>>
        <4>1. snap[c].log \in Seq(Call)
          BY DEF TypeOK, Payload
        <4>2. QED
          BY <4>1
      <3>4. QED
        BY <2>6, <3>1, <3>2, <3>3
        DEF CreateHset, HistoryInv, MirrorInv, SnapshotsCount
    <2>7. CASE CreateExpire(c) \/ TouchExpire(c)
      <3>1. PICK ttl : SetDeadline(ttl)
        BY <2>7 DEF CreateExpire, TouchExpire
      <3>2. /\ store'.present = store.present /\ store'.full = store.full
            /\ store'.payload = store.payload /\ store'.status = store.status
            /\ store'.seq = store.seq /\ store'.rev = store.rev
        BY <3>1 DEF SetDeadline, TypeOK, Hash
      <3>3. life' = life
            /\ \A d \in Clients : pc'[d] = pc[d] \/ pc'[d] = "idle"
        BY <2>7 DEF CreateExpire, TouchExpire, Idle, TypeOK
      <3>4. QED
        BY <3>2, <3>3 DEF HistoryInv
    <2>8. CASE TouchCheck(c)
      BY <2>8 DEF TouchCheck, TypeOK, HistoryInv, Creating
    <2>9. CASE TouchHset(c)
      <3>1. /\ store'.full = store.full /\ store'.status = store.status
            /\ store'.payload = store.payload
            /\ store'.seq = store.seq /\ store'.rev = store.rev
        BY <2>9 DEF TouchHset, TypeOK, Hash
      <3>2. life >= 1 /\ life \in Nat
        BY <2>9 DEF TouchHset, HistoryInv, TypeOK, Creating
      <3>3. life' >= life /\ (~store.present => life' >= 2)
        BY <2>9, <3>2 DEF TouchHset, NextLife
      <3>4. life' >= 1 /\ (store.present => life' = life)
        BY <2>9, <3>2 DEF TouchHset, NextLife
      <3>5. ~store.full => life' >= 2
        BY <3>3, <3>4 DEF HistoryInv
      <3>6. QED
        BY <3>1, <3>4, <3>5 DEF HistoryInv
    <2>10. CASE CompleteHset(c)
      <3>1. store'.full /\ store'.status = "COMPLETED"
        BY <2>10 DEF CompleteHset, TypeOK, Hash
      <3>2. life >= 1 /\ life' >= 1
        BY <2>10 DEF CompleteHset, NextLife, HistoryInv, TypeOK, Creating
      <3>3. QED
        BY <3>1, <3>2 DEF HistoryInv
    <2>11. QED
      BY <1>3, <2>2, <2>3, <2>4, <2>5, <2>6, <2>7, <2>8, <2>9, <2>10 DEF Step
  <1>4. QED
    BY <1>1, <1>2, <1>3 DEF Next

(* All states of the first life, in the store or in a caller's hands, were   *)
(* derived from one history of writes.  While the session is open the store  *)
(* has the whole of it; before there is a session there are no writes.       *)
Prefix(l, m) == Len(l) <= Len(m) /\ \A i \in 1..Len(l) : l[i] = m[i]

OpenSession == store.full /\ store.status # "COMPLETED"

OneHistory ==
  /\ life = 0 => \A p \in States : p.log = <<>>
  /\ life <= 1 => \A p, q \in States : Prefix(p.log, q.log)
                                      \/ Prefix(q.log, p.log)
  /\ life <= 1 /\ OpenSession =>
       \A p \in States : Prefix(p.log, store.payload.log)

(* Nobody has written.                                                      *)
LEMMA OneHistoryInit == Init => OneHistory
  BY DEF Init, OneHistory, States, NoHash, NoPayload, OpenSession, Prefix

(* The sequences of writes, ordered by prefix.                              *)
LEMMA EmptyPrefix == ASSUME NEW l \in Seq(Call) PROVE Prefix(<<>>, l)
  BY DEF Prefix

LEMMA AppendPrefix ==
  ASSUME NEW l \in Seq(Call), NEW m \in Seq(Call), NEW w \in Call, Prefix(l, m)
  PROVE  Prefix(l, Append(m, w))
  <1>1. Len(Append(m, w)) = Len(m) + 1
        /\ \A i \in 1..Len(m) : Append(m, w)[i] = m[i]
    OBVIOUS
  <1>2. QED
    BY <1>1 DEF Prefix

(* A session is in its first life only since it was created.                *)
LEMMA FirstLife ==
  ASSUME TypeOK, ReplayInv, HistoryInv, [Next]_vars, life' <= 1
  PROVE  /\ life \in Nat /\ life <= 1
         /\ life = life' \/ \E c \in Clients : CreateHset(c) /\ life = 0
  <1>1. life \in Nat
    BY DEF TypeOK
  <1>2. CASE life' = life
    BY <1>1, <1>2
  <1>3. ASSUME NEW c \in Clients, CreateHset(c)
        PROVE  life = 0
    BY <1>3 DEF CreateHset, ReplayInv
  <1>4. ASSUME NEW c \in Clients, TouchHset(c) \/ CompleteHset(c)
        PROVE  life' = life
    <2>1. life >= 1
      BY <1>4 DEF TouchHset, CompleteHset, HistoryInv, Creating
    <2>2. QED
      BY <1>1, <1>4, <2>1 DEF TouchHset, CompleteHset, NextLife
  <1>5. \/ life' = life
        \/ \E c \in Clients : CreateHset(c) \/ TouchHset(c) \/ CompleteHset(c)
    BY DEF Next, Tick, Step, BeginWrite, BeginTouch, BeginComplete, GetSession,
           CasApply, CasRefuse, CreateCheck, CreateExpire, TouchCheck,
           TouchExpire, GiveUp, vars
  <1>6. QED
    BY <1>1, <1>2, <1>3, <1>4, <1>5

(* A step adds no writes to any state but by an accepted one, to the store.  *)
LEMMA LogsAreDerived ==
  ASSUME TypeOK, [Next]_vars, NEW p \in States'
  PROVE  \/ \E q \in States : p.log = q.log
         \/ p.log = <<>>
         \/ \E c \in Clients : CasApply(c) /\ p.log = store'.payload.log
  <1>1. Derived(p)
    BY StatesAreDerived
  <1>2. CASE Applied(p)
    <2>1. PICK c \in Clients : CasApply(c) /\ p = NextState(call[c], snap[c])
      BY <1>2 DEF Applied
    <2>2. store'.payload = p
      BY <2>1 DEF CasApply, Written
    <2>3. QED
      BY <2>1, <2>2
  <1>3. QED
    BY <1>1, <1>2
    DEF Derived, Kept, Finished, SameNeed, NoPayload, Created

(* A session that is open was so before, with the writes it has, unless it   *)
(* was just created or written to.                                           *)
LEMMA StaysOpen ==
  ASSUME TypeOK, ReplayInv, HistoryInv, [Next]_vars, life' = life, life >= 1,
         OpenSession', ~\E c \in Clients : CasApply(c)
  PROVE  OpenSession /\ store'.payload.log = store.payload.log
  <1>1. CASE UNCHANGED store
    BY <1>1 DEF OpenSession
  <1>2. CASE Tick
    BY <1>1, <1>2 DEF Tick, NoHash, OpenSession
  <1>3. ASSUME NEW c \in Clients, CreateHset(c)
        PROVE  FALSE
    BY <1>3 DEF CreateHset, ReplayInv
  <1>4. ASSUME NEW c \in Clients, CreateExpire(c) \/ TouchExpire(c)
        PROVE  OpenSession /\ store'.payload.log = store.payload.log
    <2>1. PICK ttl : SetDeadline(ttl)
      BY <1>4 DEF CreateExpire, TouchExpire
    <2>2. QED
      BY <2>1 DEF SetDeadline, OpenSession, TypeOK, Hash
  <1>5. ASSUME NEW c \in Clients, TouchHset(c)
        PROVE  OpenSession /\ store'.payload.log = store.payload.log
    BY <1>5 DEF TouchHset, OpenSession, TypeOK, Hash
  <1>6. ASSUME NEW c \in Clients, CompleteHset(c)
        PROVE  FALSE
    BY <1>6 DEF CompleteHset, OpenSession, TypeOK, Hash
  <1>7. QED
    BY <1>1, <1>2, <1>3, <1>4, <1>5, <1>6
    DEF Next, Step, BeginWrite, BeginTouch, BeginComplete, GetSession,
        CasRefuse, CreateCheck, TouchCheck, GiveUp, vars

(* Every step keeps to the one history.                                     *)
LEMMA OneHistoryStep ==
  ASSUME TypeOK, MirrorInv, LockInv, ReplayInv, HistoryInv, OneHistory,
         [Next]_vars
  PROVE  OneHistory'
  <1> USE DEF Prefix
  <1>1. TypeOK'
    BY TypeStep
  <1>2. \A p \in States : p.log \in Seq(Call)
    BY StatesType DEF Payload
  <1>3. \A p \in States' : p.log \in Seq(Call)
    <2>1. store'.payload \in Payload
      BY <1>1 DEF TypeOK, Hash
    <2>2. \A c \in Clients : snap'[c] \in Payload
      BY <1>1 DEF TypeOK
    <2>3. \A p \in States' : p \in Payload
      BY <2>1, <2>2 DEF States
    <2>4. QED
      BY <2>3 DEF Payload
  <1>4. store.payload \in States /\ \A c \in Clients : snap[c] \in States
    BY DEF States
  <1>5. CASE life = 0
    <2>1. ~\E c \in Clients : CasApply(c)
      BY <1>5 DEF ReplayInv, CasApply, Applies, Verdict
    <2>2. \A p \in States' : p.log = <<>>
      BY <1>5, <2>1, LogsAreDerived DEF OneHistory
    <2>3. store'.payload.log = <<>>
      BY <2>2 DEF States
    <2>4. Prefix(<<>>, <<>>)
      OBVIOUS
    <2> HIDE DEF Prefix
    <2>5. \A p, q \in States' : Prefix(p.log, q.log)
      BY <2>2, <2>4
    <2>6. \A p \in States' : Prefix(p.log, store'.payload.log)
      BY <2>2, <2>3, <2>4
    <2>7. QED
      BY <2>2, <2>5, <2>6 DEF OneHistory
  <1>6. CASE life' > 1
    BY <1>1, <1>6 DEF OneHistory, TypeOK
  <1>7. ASSUME life = 1, life' = 1, ~\E c \in Clients : CasApply(c)
        PROVE  OneHistory'
    <2>1. ASSUME NEW p \in States'
          PROVE  p.log = <<>> \/ \E q \in States : p.log = q.log
      BY <1>7, LogsAreDerived
    <2>2. \A p, q \in States' : Prefix(p.log, q.log) \/ Prefix(q.log, p.log)
      BY <1>2, <1>3, <1>7, <2>1, EmptyPrefix DEF OneHistory
    <2>3. ASSUME OpenSession', NEW p \in States'
          PROVE  Prefix(p.log, store'.payload.log)
      <3>1. OpenSession /\ store'.payload.log = store.payload.log
        BY <1>7, <2>3, StaysOpen
      <3>2. store.payload.log \in Seq(Call)
        BY <1>2, <1>4
      <3>3. QED
        BY <1>7, <2>1, <3>1, <3>2, EmptyPrefix DEF OneHistory
    <2>4. QED
      BY <1>7, <2>2, <2>3 DEF OneHistory
  <1>8. ASSUME life = 1, life' = 1, NEW c \in Clients, CasApply(c)
        PROVE  OneHistory'
    <2>1. PICK w \in Call : w = call[c]
      BY ConstantsAssumption DEF TypeOK
    <2>2. store.present /\ store.status \notin Closed
          /\ store'.payload.log = Append(snap[c].log, w)
      BY <1>8, <2>1, AppliedHistory
    <2>3. OpenSession /\ store.payload = snap[c]
      <3>1. OpenSession
        BY <1>8, <2>2 DEF HistoryInv, OpenSession, Closed
      <3>2. born[c] = life
        BY <1>8 DEF CasApply, Applies, ReplayInv, LockInv, TypeOK
      <3>3. QED
        BY <1>8, <3>1, <3>2, LockSafe DEF CasApply, NoLostUpdate
    <2>4. PICK l \in Seq(Call) : l = store.payload.log
      BY <1>2, <1>4
    <2>5. store'.payload.log = Append(l, w)
      BY <2>2, <2>3, <2>4
    <2>6. \A q \in States : Prefix(q.log, l)
      BY <1>8, <2>3, <2>4 DEF OneHistory
    <2>7. ASSUME NEW p \in States'
          PROVE  p.log = Append(l, w) \/ Prefix(p.log, l)
      BY <2>4, <2>5, <2>6, LogsAreDerived, EmptyPrefix
    <2>8. ASSUME NEW p \in States'
          PROVE  Prefix(p.log, Append(l, w))
      <3>1. Append(l, w) \in Seq(Call) /\ p.log \in Seq(Call)
        BY <1>3
      <3>2. QED
        BY <2>7, <2>8, <3>1, AppendPrefix
    <2>9. ASSUME NEW p \in States', NEW q \in States'
          PROVE  Prefix(p.log, q.log) \/ Prefix(q.log, p.log)
      <3>1. CASE p.log = Append(l, w) \/ q.log = Append(l, w)
        BY <2>8, <2>9, <3>1
      <3>2. CASE Prefix(p.log, l) /\ Prefix(q.log, l)
        <4>1. PICK x \in Seq(Call), y \in Seq(Call) : x = p.log /\ y = q.log
          BY <1>3, <2>9
        <4>2. Prefix(x, y) \/ Prefix(y, x)
          BY <3>2, <4>1
        <4>3. QED
          BY <4>1, <4>2
      <3>3. QED
        BY <2>7, <2>9, <3>1, <3>2
    <2>10. QED
      BY <1>8, <2>5, <2>8, <2>9 DEF OneHistory
  <1>9. CASE life = 1 /\ life' = 1
    BY <1>7, <1>8, <1>9
  <1>10. QED
    BY <1>1, <1>5, <1>6, <1>9, FirstLife DEF TypeOK

(* Completion is no compare-and-set: it writes back what its caller read.    *)
(* Still every state of the first life, stored or held, is a point of one    *)
(* history of writes, and the open session is the last of them: completions  *)
(* go back along that history and never bring in another, whatever writes,   *)
(* touches and other completions come in between.                            *)
THEOREM HistoriesAgree ==
  ASSUME ~ClientNamedIds PROVE Spec => []OneHistory
  <1>1. Init => SoleCreator /\ LockInv /\ ReplayInv /\ HistoryInv /\ OneHistory
    BY SoleCreatorInit, LockInit, ReplayInit, HistoryInit, OneHistoryInit
  <1>2. /\ TypeOK /\ SoleCreator /\ MirrorInv /\ LockInv /\ ReplayInv
        /\ HistoryInv /\ OneHistory /\ [Next]_vars
        => SoleCreator' /\ LockInv' /\ ReplayInv' /\ HistoryInv' /\ OneHistory'
    BY SoleCreatorStep, LockStep, ReplayStep, HistoryStep, OneHistoryStep
  <1>3. QED
    BY <1>1, <1>2, MirrorInit, MirrorStep, TypeCorrect, PTL DEF Spec

(* While the key is there for the first time, the only step that takes a     *)
(* write back is a completion, and nothing takes a completion back: no late  *)
(* write, touch or creation opens a completed session again.                 *)
FirstLifeStays ==
  [][life' = 1 /\ store.full /\ OpenSession'
     => OpenSession /\ Prefix(store.payload.log, store'.payload.log)]_vars

(* Of these, WritesSurvive is what ADR-003 promises; with ids the clients    *)
(* name, or a key that came back, it does not hold.                          *)
THEOREM FirstLifeKept ==
  ASSUME ~ClientNamedIds PROVE Spec => FirstLifeStays
  <1>1. Init => SoleCreator /\ LockInv /\ ReplayInv /\ HistoryInv
    BY SoleCreatorInit, LockInit, ReplayInit, HistoryInit
  <1>2. /\ TypeOK /\ SoleCreator /\ MirrorInv /\ LockInv /\ ReplayInv
        /\ HistoryInv /\ [Next]_vars
        => SoleCreator' /\ LockInv' /\ ReplayInv' /\ HistoryInv'
    BY SoleCreatorStep, LockStep, ReplayStep, HistoryStep
  <1>3. ASSUME TypeOK, MirrorInv, LockInv, ReplayInv, HistoryInv, [Next]_vars,
               life' = 1, store.full, OpenSession'
        PROVE  OpenSession /\ Prefix(store.payload.log, store'.payload.log)
    <2>1. store.payload.log \in Seq(Call)
      BY <1>3 DEF TypeOK, Hash, Payload
    <2>2. life = 1
      <3>1. life # 0
        BY <1>3 DEF LockInv, ReplayInv
      <3>2. life' <= 1
        BY <1>3
      <3>3. QED
        BY <1>3, <3>1, <3>2, FirstLife
    <2>3. CASE ~\E c \in Clients : CasApply(c)
      <3>1. OpenSession /\ store'.payload.log = store.payload.log
        BY <1>3, <2>2, <2>3, StaysOpen
      <3>2. QED
        BY <2>1, <3>1 DEF Prefix
    <2>4. ASSUME NEW c \in Clients, CasApply(c)
          PROVE  OpenSession /\ Prefix(store.payload.log, store'.payload.log)
      <3>1. PICK w \in Call : w = call[c]
        BY <1>3, ConstantsAssumption DEF TypeOK
      <3>2. store.status \notin Closed
            /\ store'.payload.log = Append(snap[c].log, w)
        BY <1>3, <2>4, <3>1, AppliedHistory
      <3>3. born[c] = life
        BY <1>3, <2>2, <2>4 DEF CasApply, Applies, ReplayInv, LockInv, TypeOK
      <3>4. store.payload = snap[c]
        BY <1>3, <2>4, <3>3, LockSafe DEF CasApply, NoLostUpdate
      <3>5. Prefix(store.payload.log, store.payload.log)
        BY <2>1 DEF Prefix
      <3>6. QED
        BY <1>3, <2>1, <3>2, <3>4, <3>5, AppendPrefix DEF OpenSession, Closed
    <2>5. QED
      BY <2>3, <2>4
  <1>4. QED
    BY <1>1, <1>2, <1>3, MirrorInit, MirrorStep, TypeCorrect, PTL
    DEF Spec, FirstLifeStays

(* What of the hash the abstract session sees.                              *)
Phase == IF ~store.full THEN IF life = 0 THEN "absent" ELSE "gone"
         ELSE IF store.status = "COMPLETED"
              THEN IF life = 1 THEN "done" ELSE "redone"
              ELSE IF life = 1 THEN "open" ELSE "reopened"

(* An accepted write is one the abstract session admits.                    *)
LEMMA AppliedIsAdmitted ==
  ASSUME TypeOK, MirrorInv, LockInv, KeyInv, NoWriteAfterAbsolute, HistoryInv,
         AbsInv, NEW c \in Clients, CasApply(c), NEW w, w = call[c], store.full
  PROVE  Promised!Admitted(w)
  <1> DEFINE log == store.payload.log
  <1>1. log \in Seq(Call) /\ w \in Call /\ w.key \in Keys
    <2>1. w \in Call /\ log \in Seq(Call)
      BY ConstantsAssumption DEF TypeOK, Hash, Payload
    <2>2. QED
      BY <2>1 DEF Call
  <1>2. w.expected = Len(log)
    BY AppliedHistory DEF MirrorInv, HashMirrorsPayload
  <1>3. \A i \in 1..Len(log) : log[i].key # w.key
    <2>1. idem[w.key].until = 0
      BY DEF CasApply, Applies, Verdict, Answered
    <2>2. store.payload.abs = store.abs /\ store.abs > 0 /\ now < store.abs
      <3>1. store.status # "COMPLETED"
        BY AppliedHistory DEF Closed
      <3>2. store.payload.abs = store.abs /\ store.abs > 0
        BY <3>1 DEF MirrorInv, HashMirrorsPayload, AbsInv
      <3>3. ~SessionClosed
        BY DEF CasApply, Applies, Verdict
      <3>4. store.abs \in Nat /\ now \in Nat
        BY DEF TypeOK, Hash
      <3>5. QED
        BY <3>2, <3>3, <3>4 DEF SessionClosed
    <2>3. \A i \in 1..Len(log) : idem[log[i].key].until >= store.abs
      BY <2>2 DEF KeyInv, KeysKnown, States
    <2>4. store.abs \in Nat
      BY DEF TypeOK, Hash
    <2>5. QED
      BY <2>1, <2>2, <2>3, <2>4
  <1>4. \/ log = <<>> \/ -1 \in {w.seq, log[Len(log)].seq}
        \/ log[Len(log)].seq < w.seq
    BY AppliedHistory DEF HistoryInv, NoSeq, Closed
  <1>5. QED
    BY <1>2, <1>3, <1>4
    DEF Promised!Admitted, Promised!Fresh, Promised!InOrder,
        Promised!Unsequenced

(* No operation of the manager completes a session.                         *)
LEMMA OperationsDoNotComplete ==
  ASSUME NEW op, NEW p, p.status # "COMPLETED"
  PROVE  StatusAfter(op, p) # "COMPLETED"
  BY DEF StatusAfter

(* An accepted write appends to the log, opens a session that vanished, or  *)
(* replaces by what its caller knew what was written since it came back.    *)
(* One derived from a completed state completes what came back.             *)
LEMMA AppliedIsPromised ==
  ASSUME TypeOK, MirrorInv, LockInv, KeyInv, AbsInv, NoWriteAfterAbsolute,
         ReplayInv, HistoryInv,
         NEW c \in Clients, CasApply(c)
  PROVE  Promised!Next
  <1> DEFINE w == call[c]
  <1>1. PICK v : v = w
    OBVIOUS
  <1>2. /\ store'.present /\ store'.full /\ store.present
        /\ store'.payload.log = Append(snap[c].log, v)
        /\ v \in Calls /\ v \in Call /\ snap[c].log \in Seq(Call)
        /\ life' = life /\ store.status \notin Closed
        /\ store.rev = v.expected /\ snap[c].rev = store.rev
        /\ snap[c].rev = Len(snap[c].log)
    BY <1>1, AppliedHistory DEF MirrorInv, SnapshotsCount
  <1>0. life \in Nat /\ life # 0
    BY <1>2 DEF ReplayInv, TypeOK
  <1>3. CASE store'.status = "COMPLETED"
    <2>1. life # 1 \/ ~store.full
      <3> SUFFICES ASSUME life = 1, store.full PROVE FALSE
        OBVIOUS
      <3>1. store.payload = snap[c]
        BY LockSafe
        DEF CasApply, Applies, NoLostUpdate, ReplayInv, LockInv, TypeOK
      <3>2. snap[c].status # "COMPLETED"
        BY <1>2, <3>1 DEF MirrorInv, HashMirrorsPayload, Closed
      <3>3. store'.status = StatusAfter(w.op, snap[c])
        BY DEF CasApply, Written, NextState
      <3>4. QED
        BY <1>3, <3>2, <3>3, OperationsDoNotComplete
    <2>2. life # 1
      BY <1>2, <2>1 DEF HistoryInv
    <2>3. QED
      BY <1>0, <1>2, <1>3, <2>2 DEF Promised!Next, Promised!Recomplete, Closed
  <1>4. CASE ~store.full /\ store'.status # "COMPLETED"
    <2>1. v.expected = 0 /\ snap[c].log = <<>> /\ life >= 2 /\ life \in Nat
      BY <1>2, <1>4 DEF HistoryInv, TypeOK
    <2>2. store'.payload.log = <<v>>
      BY <1>2, <2>1
    <2>3. Promised!Reopen(v)
      BY <1>0, <1>2, <1>4, <2>1, <2>2 DEF Promised!Reopen
    <2>4. QED
      BY <1>2, <2>3 DEF Promised!Next
  <1>5. CASE store.full /\ store'.status # "COMPLETED"
    <2>1. Promised!Admitted(v)
      BY <1>1, <1>5, AppliedIsAdmitted
    <2>2. store.status # "COMPLETED"
      BY <1>2 DEF Closed
    <2>3. CASE life = 1
      <3>1. store.payload = snap[c]
        BY <2>3, LockSafe
        DEF CasApply, Applies, NoLostUpdate, ReplayInv, LockInv, TypeOK
      <3>2. Promised!Write(v)
        BY <1>2, <1>5, <2>1, <2>2, <2>3, <3>1 DEF Promised!Write
      <3>3. QED
        BY <1>2, <3>2 DEF Promised!Next
    <2>4. CASE life # 1
      <3>1. Len(snap[c].log) = Len(store.payload.log)
        BY <1>2, <1>5 DEF MirrorInv, HashMirrorsPayload
      <3>2. /\ Len(store'.payload.log) = Len(store.payload.log) + 1
            /\ store'.payload.log[Len(store'.payload.log)] = v
        <4>1. PICK l \in Seq(Call) : l = snap[c].log
          BY <1>2
        <4>2. Len(Append(l, v)) = Len(l) + 1 /\ Append(l, v)[Len(l) + 1] = v
          BY <1>2, <4>1
        <4>3. QED
          BY <1>2, <3>1, <4>1, <4>2
      <3>3. Promised!Rebase(v)
        BY <1>2, <1>5, <2>1, <2>2, <2>4, <3>2 DEF Promised!Rebase
      <3>4. QED
        BY <1>2, <3>3 DEF Promised!Next
    <2>5. QED
      BY <2>3, <2>4
  <1>6. QED
    BY <1>3, <1>4, <1>5

(* A completion writes a state of the one history back, or is one of a       *)
(* session that vanished.                                                    *)
LEMMA CompleteIsPromised ==
  ASSUME TypeOK, ReplayInv, HistoryInv, LockInv, OneHistory,
         NEW c \in Clients, CompleteHset(c)
  PROVE  Promised!Next
  <1>1. /\ store'.full /\ store'.status = "COMPLETED"
        /\ store'.payload.log = snap[c].log
    BY DEF CompleteHset, TypeOK, Hash, Payload
  <1>2. life \in Nat /\ life >= 1 /\ life' = IF store.present THEN life
                                           ELSE life + 1
    BY DEF CompleteHset, NextLife, HistoryInv, TypeOK, Creating
  <1>3. CASE life' # 1
    <2>1. ~store.full \/ life # 1
      BY <1>2, <1>3 DEF LockInv
    <2>2. QED
      BY <1>1, <1>2, <1>3, <2>1 DEF Promised!Next, Promised!Recomplete
  <1>4. CASE life' = 1
    <2>1. store.present /\ store.full /\ life = 1
      BY <1>2, <1>4 DEF HistoryInv
    <2>2. store.payload \in States /\ snap[c] \in States
      BY DEF States
    <2>3. CASE store.status = "COMPLETED"
      <3>1. \/ Prefix(snap[c].log, store.payload.log)
            \/ Prefix(store.payload.log, snap[c].log)
        BY <2>1, <2>2 DEF OneHistory
      <3>2. Promised!CompleteAgain
        BY <1>1, <1>4, <2>1, <2>3, <3>1
        DEF Promised!CompleteAgain, Promised!Prefix, Prefix
      <3>3. QED
        BY <3>2 DEF Promised!Next
    <2>4. CASE store.status # "COMPLETED"
      <3>1. Prefix(snap[c].log, store.payload.log)
        BY <2>1, <2>2, <2>4 DEF OneHistory, OpenSession
      <3>2. Promised!Complete
        BY <1>1, <1>4, <2>1, <2>4, <3>1
        DEF Promised!Complete, Promised!Prefix, Prefix
      <3>3. QED
        BY <3>2 DEF Promised!Next
    <2>5. QED
      BY <2>3, <2>4
  <1>5. QED
    BY <1>3, <1>4

(* Every step maps to a step of the abstract session or to none.            *)
LEMMA StepIsPromised ==
  ASSUME ~ClientNamedIds, TypeOK, SoleCreator, MirrorInv, LockInv, KeyInv,
         AbsInv, NoWriteAfterAbsolute, ReplayInv, HistoryInv, OneHistory,
         [Next]_vars
  PROVE  [Promised!Next]_(Promised!vars)
  <1>1. ASSUME store'.payload.log = store.payload.log, Phase' = Phase
        PROVE  [Promised!Next]_(Promised!vars)
    BY <1>1 DEF Promised!vars, Phase
  <1>2. CASE Tick
    <2>1. CASE store' = store
      BY <1>1, <1>2, <2>1 DEF Tick, Phase
    <2>2. CASE store' = NoHash
      <3>1. ~store'.full /\ store'.payload.log = <<>> /\ life' = life
        BY <1>2, <2>2 DEF Tick, NoHash, NoPayload
      <3>2. CASE store.full
        <4>1. life # 0
          BY <3>2 DEF LockInv, ReplayInv
        <4>2. QED
          BY <3>1, <3>2, <4>1 DEF Promised!Next, Promised!Vanish
      <3>3. CASE ~store.full
        BY <1>1, <3>1, <3>3 DEF HistoryInv, Phase
      <3>4. QED
        BY <3>2, <3>3
    <2>3. QED
      BY <1>2, <2>1, <2>2 DEF Tick
  <1>3. CASE UNCHANGED vars
    BY <1>1, <1>3 DEF vars, Phase
  <1>4. ASSUME NEW c \in Clients, Step(c)
        PROVE  [Promised!Next]_(Promised!vars)
    <2>1. CASE UNCHANGED <<store, life>>
      BY <1>1, <2>1 DEF Phase
    <2>2. CASE CasApply(c)
      BY <2>2, AppliedIsPromised
    <2>3. CASE CreateHset(c)
      <3>1. life = 0 /\ ~store.present
        BY <2>3 DEF CreateHset, ReplayInv
      <3>2. ~store.full /\ store.payload.log = <<>>
        BY <3>1 DEF LockInv, HistoryInv
      <3>3. store'.full /\ store'.status = "ACTIVE" /\ life' = 1
            /\ store'.payload = snap[c]
        BY <2>3, <3>1 DEF CreateHset, NextLife
      <3>4. Len(snap[c].log) = 0
        BY <2>3 DEF CreateHset, MirrorInv, SnapshotsCount
      <3>5. snap[c].log \in Seq(Call)
        BY DEF TypeOK, Payload
      <3>6. store'.payload.log = <<>>
        BY <3>3, <3>4, <3>5
      <3>7. Promised!Open
        BY <3>1, <3>2, <3>3, <3>6 DEF Promised!Open
      <3>8. QED
        BY <3>7 DEF Promised!Next
    <2>4. CASE CreateExpire(c) \/ TouchExpire(c)
      <3>1. PICK ttl : SetDeadline(ttl)
        BY <2>4 DEF CreateExpire, TouchExpire
      <3>2. /\ store'.full = store.full /\ store'.status = store.status
            /\ store'.payload = store.payload
        BY <3>1 DEF SetDeadline, TypeOK, Hash
      <3>3. life' = life
        BY <2>4 DEF CreateExpire, TouchExpire
      <3>4. QED
        BY <1>1, <3>2, <3>3 DEF Phase
    <2>5. CASE TouchHset(c)
      <3>1. /\ store'.full = store.full /\ store'.status = store.status
            /\ store'.payload = store.payload
        BY <2>5 DEF TouchHset, TypeOK, Hash
      <3>2. store.full => life' = life
        BY <2>5 DEF TouchHset, NextLife, LockInv
      <3>3. life \in Nat /\ life >= 1 /\ life' # 0
        BY <2>5 DEF TouchHset, NextLife, HistoryInv, TypeOK, Creating
      <3>4. QED
        BY <1>1, <3>1, <3>2, <3>3 DEF Phase
    <2>6. CASE CompleteHset(c)
      BY <2>6, CompleteIsPromised
    <2>7. QED
      BY <1>4, <2>1, <2>2, <2>3, <2>4, <2>5, <2>6
      DEF Step, BeginWrite, BeginTouch, BeginComplete, GetSession, CasRefuse,
          GiveUp, CreateCheck, TouchCheck
  <1>5. QED
    BY <1>2, <1>3, <1>4 DEF Next

(* When idempotency records live as long as sessions may, the store         *)
(* implements the abstract session for any number of callers, through       *)
(* touches that bring vanished keys back and completions that undo writes.  *)
THEOREM StoreImplementsSessionLog ==
  ASSUME ~ClientNamedIds, IdemTTL >= AbsTTL
  PROVE  Spec => ImplementsSessionLog
  <1>1. Init => SoleCreator /\ LockInv /\ AbsInv /\ ReplayInv /\ HistoryInv
                /\ KeyInv /\ OneHistory
    BY SoleCreatorInit, LockInit, AbsInit, ReplayInit, HistoryInit, KeyInit,
       OneHistoryInit
  <1>2. Init => Promised!Init
    BY DEF Init, NoHash, NoPayload, Promised!Init
  <1>3. AbsInv /\ MirrorInv /\ TypeOK => NoWriteAfterAbsolute
    BY AbsSafe
  <1>4. /\ TypeOK /\ SoleCreator /\ MirrorInv /\ LockInv /\ AbsInv /\ ReplayInv
        /\ HistoryInv /\ KeyInv /\ OneHistory /\ [Next]_vars
        => SoleCreator' /\ LockInv' /\ AbsInv' /\ ReplayInv' /\ HistoryInv'
           /\ KeyInv' /\ OneHistory'
    BY <1>3, SoleCreatorStep, LockStep, AbsStep, ReplayStep, HistoryStep,
       KeyStep, OneHistoryStep
  <1>5. /\ TypeOK /\ SoleCreator /\ MirrorInv /\ LockInv /\ AbsInv /\ ReplayInv
        /\ HistoryInv /\ KeyInv /\ OneHistory /\ [Next]_vars
        => [Promised!Next]_(Promised!vars)
    BY <1>3, StepIsPromised
  <1>6. QED
    BY <1>1, <1>2, <1>4, <1>5, MirrorInit, MirrorStep, TypeCorrect, PTL
    DEF Spec, ImplementsSessionLog, Promised!Spec

=============================================================================
