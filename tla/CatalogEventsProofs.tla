------------------------ MODULE CatalogEventsProofs ------------------------
(***************************************************************************)
(* Theorems about CatalogEvents for every number of products, contents,    *)
(* ingestion runs and consumers.                                           *)
(***************************************************************************)
EXTENDS CatalogEvents, TLAPS

-----------------------------------------------------------------------------
(* Lemmas about the operators.                                              *)

(* A key is named by its product and its content.                           *)
LEMMA KeyType ==
  ASSUME NEW i \in Items, NEW h \in Hashes
  PROVE  Key(i, h) \in EventKey /\ Key(i, h).item = i /\ Key(i, h).hash = h
  BY DEF Key, EventKey

(* Keys of different products or contents differ.                           *)
LEMMA KeyInjective ==
  ASSUME NEW i, NEW h, NEW j, NEW g, Key(i, h) = Key(j, g)
  PROVE  i = j /\ h = g
  <1>1. Key(i, h).item = Key(j, g).item /\ Key(i, h).hash = Key(j, g).hash
    OBVIOUS
  <1>2. QED
    BY <1>1 DEF Key

(* The rows a fetch returns are rows.                                       *)
LEMMA FetchedType ==
  ASSUME TypeOK, NEW K \in SUBSET Listable
  PROVE  {[key |-> k, attempt |-> event[k].attempt] : k \in K} \in SUBSET Row
  <1> SUFFICES ASSUME NEW k \in K
               PROVE  [key |-> k, attempt |-> event[k].attempt] \in Row
    OBVIOUS
  <1>1. k \in EventKey /\ event[k] \in Event /\ event[k].attempt < MaxAttempt
    BY DEF Listable, TypeOK
  <1>2. event[k].attempt \in 0..(MaxAttempt - 1)
    BY <1>1, EventsAssumption DEF Event
  <1>3. QED
    BY <1>1, <1>2 DEF Row

(* An UPDATE by id leaves an event an event.                                *)
LEMMA SetEventType ==
  ASSUME TypeOK, NEW k \in EventKey, NEW n \in 0..MaxAttempt,
         NEW s \in {"PENDING", "PROCESSING", "DONE", "FAILED"},
         SetEvent(k, s, n)
  PROVE  /\ event' \in [EventKey -> Event]
         /\ \A q \in EventKey : event'[q].type = event[q].type
         /\ \A q \in EventKey \ {k} : event'[q] = event[q]
         /\ event'[k].status = s
  BY DEF TypeOK, SetEvent, Event

-----------------------------------------------------------------------------
(* The write.                                                               *)

(* What a writer is at: a product and a content, and it saw the product     *)
(* only if there was one, for nothing deletes a product.                    *)
WritersSaw ==
  \A w \in Writers : writer[w] # NotWriting =>
    /\ writer[w].item \in Items /\ writer[w].hash \in Hashes
    /\ writer[w].existed => product[writer[w].item] # None

(* A product nobody has stored has no contents.                             *)
NoneStored == \A i \in Items : product[i] = None => stored[i] = {}

(* What the outbox invariant needs to be inductive.                         *)
WriteInv == WritersSaw /\ NoneStored /\ OutboxIsExact

(* The announcement of a writer adds its key under its type and leaves all  *)
(* other events alone.                                                      *)
LEMMA AnnouncedFacts ==
  ASSUME TypeOK, WritersSaw, NEW w \in Writers, writer[w] # NotWriting
  PROVE  LET k == Key(writer[w].item, writer[w].hash)
         IN /\ k \in EventKey
            /\ Announced(w) \in [EventKey -> Event]
            /\ \A q \in EventKey \ {k} : Announced(w)[q] = event[q]
            /\ event[k].type # "none" => Announced(w)[k] = event[k]
            /\ event[k].type = "none" =>
                 Announced(w)[k].type = ProductEvent(w)
                 /\ Announced(w)[k].status = "PENDING"
  <1> DEFINE k == Key(writer[w].item, writer[w].hash)
  <1>1. k \in EventKey
    BY KeyType DEF WritersSaw
  <1>2. ProductEvent(w) \in {"none", "DISCOVERED", "CHANGED"}
    BY DEF ProductEvent
  <1>3. [NoEvent EXCEPT !.type = ProductEvent(w)] \in Event
    BY <1>2, EventsAssumption DEF NoEvent, Event
  <1>4. [NoEvent EXCEPT !.type = ProductEvent(w)].type = ProductEvent(w)
        /\ [NoEvent EXCEPT !.type = ProductEvent(w)].status = "PENDING"
    BY DEF NoEvent
  <1>5. QED
    BY <1>1, <1>3, <1>4 DEF Announced, TypeOK

-----------------------------------------------------------------------------
(* Type correctness.                                                        *)

(* The empty tables are well-formed.                                        *)
LEMMA TypeInit == Init => TypeOK
  BY EventsAssumption
  DEF Init, TypeOK, NotWriting, Writer, NoEvent, Event, Idle, Consumer, NoRow

(* The work of a consumer keeps the types.                                  *)
LEMMA ConsumeTypes ==
  ASSUME TypeOK, NEW c \in Consumers, Consume(c)
  PROVE  TypeOK'
  <1>1. CASE Fetch(c)
    <2>1. PICK K \in SUBSET Listable :
            consumer' = [consumer EXCEPT ![c].todo =
              {[key |-> k, attempt |-> event[k].attempt] : k \in K}]
      BY <1>1 DEF Fetch
    <2>2. consumer' \in [Consumers -> Consumer]
      BY <2>1, FetchedType DEF TypeOK, Consumer
    <2>3. QED
      BY <1>1, <2>2 DEF Fetch, catalogVars, TypeOK
  <1>2. CASE Start(c)
    <2>1. PICK r \in consumer[c].todo :
            /\ SetEvent(r.key, "PROCESSING", r.attempt + 1)
            /\ consumer' = [consumer EXCEPT ![c].todo = @ \ {r},
                                            ![c].at = {r}]
      BY <1>2 DEF Start
    <2>2. r \in Row /\ r.key \in EventKey /\ r.attempt + 1 \in 0..MaxAttempt
      BY EventsAssumption DEF TypeOK, Consumer, Row
    <2>3. event' \in [EventKey -> Event]
      BY <2>1, <2>2, SetEventType
    <2>4. consumer' \in [Consumers -> Consumer]
      BY <2>1, <2>2 DEF TypeOK, Consumer
    <2>5. QED
      BY <1>2, <2>3, <2>4 DEF Start, catalogVars, TypeOK
  <1>3. CASE Finish(c) \/ Fail(c)
    <2>1. PICK r \in consumer[c].at :
            \/ SetEvent(r.key, "DONE", event[r.key].attempt)
            \/ SetEvent(r.key, "FAILED", r.attempt + 1)
      BY <1>3 DEF Finish, Fail
    <2>2. r \in Row /\ r.key \in EventKey /\ r.attempt + 1 \in 0..MaxAttempt
      BY EventsAssumption DEF TypeOK, Consumer, Row, NoRow
    <2>3. event[r.key].attempt \in 0..MaxAttempt
      BY <2>2 DEF TypeOK, Event
    <2>4. event' \in [EventKey -> Event]
      BY <2>1, <2>2, <2>3, SetEventType
    <2>5. consumer' \in [Consumers -> Consumer]
      BY <1>3 DEF Finish, Fail, Left, TypeOK, Consumer
    <2>6. QED
      BY <1>3, <2>4, <2>5 DEF Finish, Fail, catalogVars, TypeOK
  <1>4. CASE LoseConsumer(c)
    <2>1. Idle \in Consumer
      BY DEF Idle, Consumer, NoRow
    <2>2. \A r \in consumer[c].at : r.key \in EventKey
      BY DEF TypeOK, Consumer, Row, NoRow
    <2>3. QED
      BY <1>4, <2>1, <2>2 DEF LoseConsumer, catalogVars, TypeOK
  <1>5. QED
    BY <1>1, <1>2, <1>3, <1>4 DEF Consume

(* The write of a product keeps the types.                                  *)
LEMMA WriteTypes ==
  ASSUME TypeOK, WritersSaw, NEW w \in Writers, Write(w)
  PROVE  TypeOK'
  <1>1. NotWriting \in Writer
    BY DEF NotWriting, Writer
  <1>2. CASE \E i \in Items, h \in Hashes : ReadExisting(w, i, h)
    BY <1>2 DEF ReadExisting, TypeOK, Writer, consumerVars
  <1>3. CASE Upsert(w)
    <2>1. writer[w].item \in Items /\ writer[w].hash \in Hashes
      BY <1>3 DEF Upsert, WritersSaw
    <2>2. Announced(w) \in [EventKey -> Event]
      BY <1>3, AnnouncedFacts DEF Upsert
    <2>3. writer' \in [Writers -> Writer] /\ UNCHANGED consumerVars
      BY <1>1, <1>3 DEF Upsert, TypeOK
    <2>4. QED
      BY <1>3, <2>1, <2>2, <2>3 DEF Upsert, TypeOK, consumerVars
  <1>4. CASE WriteFails(w)
    BY <1>1, <1>4 DEF WriteFails, TypeOK, consumerVars
  <1>5. QED
    BY <1>2, <1>3, <1>4 DEF Write

-----------------------------------------------------------------------------
(* The outbox.                                                              *)

(* No product, no content, no event.                                        *)
LEMMA WriteInvInit == Init => WriteInv
  BY KeyType DEF Init, WriteInv, WritersSaw, NoneStored, OutboxIsExact, NoEvent

(* An UPDATE of a status leaves the types of events alone.                  *)
LEMMA SetEventKeepsType ==
  ASSUME TypeOK, NEW k, NEW s, NEW n, SetEvent(k, s, n)
  PROVE  \A q \in EventKey : event'[q].type = event[q].type
  <1> SUFFICES ASSUME NEW q \in EventKey
               PROVE  event'[q].type = event[q].type
    OBVIOUS
  <1>1. event[q] \in Event
    BY DEF TypeOK
  <1>2. CASE q # k
    BY <1>2 DEF SetEvent, TypeOK
  <1>3. CASE q = k
    <2>1. event'[q] = [event[q] EXCEPT !.status = s, !.attempt = n]
      BY <1>3 DEF SetEvent, TypeOK
    <2>2. QED
      BY <1>1, <2>1 DEF Event
  <1>4. QED
    BY <1>2, <1>3

(* Consumers change neither the products nor the types of events.           *)
LEMMA ConsumeKeepsWriteInv ==
  ASSUME TypeOK, WriteInv, NEW c \in Consumers, Consume(c)
  PROVE  WriteInv'
  <1>1. /\ UNCHANGED catalogVars
        /\ \A k \in EventKey : event'[k].type = event[k].type
    <2>1. CASE Fetch(c) \/ LoseConsumer(c)
      BY <2>1 DEF Fetch, LoseConsumer
    <2>2. CASE Start(c) \/ Finish(c) \/ Fail(c)
      BY <2>2, SetEventKeepsType DEF Start, Finish, Fail
    <2>3. QED
      BY <2>1, <2>2 DEF Consume
  <1>2. QED
    BY <1>1, KeyType
    DEF WriteInv, WritersSaw, NoneStored, OutboxIsExact, catalogVars

(* A write that commits announces the content it stores; one that is        *)
(* rejected changes neither.                                                *)
LEMMA UpsertKeepsWriteInv ==
  ASSUME TypeOK, WriteInv, NEW w \in Writers, Upsert(w)
  PROVE  WriteInv'
  <1> DEFINE i == writer[w].item
             h == writer[w].hash
  <1>1. i \in Items /\ h \in Hashes /\ writer[w] # NotWriting
    BY DEF Upsert, WriteInv, WritersSaw
  <1>2. h # None
    BY <1>1, EventsAssumption
  <1>3. writer' = [writer EXCEPT ![w] = NotWriting]
    BY DEF Upsert
  <1>4. CASE Rejected(w)
    <2>1. UNCHANGED <<product, event, stored>>
      BY <1>4 DEF Upsert
    <2>2. QED
      BY <1>3, <2>1 DEF WriteInv, WritersSaw, NoneStored, OutboxIsExact, TypeOK
  <1>5. CASE ~Rejected(w)
    <2>1. /\ product' = [product EXCEPT ![i] = h]
          /\ event' = Announced(w)
          /\ stored' = [stored EXCEPT ![i] = @ \cup {h}]
      BY <1>5 DEF Upsert
    <2>2. \A j \in Items : product[j] # None => product'[j] # None
      BY <1>1, <1>2, <2>1 DEF TypeOK
    <2>3. WritersSaw'
      BY <1>3, <2>2 DEF WriteInv, WritersSaw, TypeOK
    <2>4. NoneStored'
      BY <1>1, <1>2, <2>1 DEF WriteInv, NoneStored, TypeOK
    <2>5. ASSUME NEW j \in Items, NEW g \in Hashes
          PROVE  /\ g \in stored'[j] <=> event'[Key(j, g)].type # "none"
                 /\ event[Key(j, g)].type # "none" =>
                      event'[Key(j, g)] = event[Key(j, g)]
      <3>1. g \in stored[j] <=> event[Key(j, g)].type # "none"
        BY DEF WriteInv, OutboxIsExact
      <3>2. CASE j = i /\ g = h
        <4>1. event'[Key(j, g)].type # "none"
          BY <1>1, <2>1, <3>2, AnnouncedFacts DEF WriteInv, ProductEvent
        <4>2. g \in stored'[j]
          BY <1>1, <2>1, <3>2 DEF TypeOK
        <4>3. QED
          BY <1>1, <2>1, <3>2, <4>1, <4>2, AnnouncedFacts DEF WriteInv
      <3>3. CASE ~(j = i /\ g = h)
        <4>1. Key(j, g) # Key(i, h) /\ Key(j, g) \in EventKey
          BY <3>3, KeyInjective, KeyType
        <4>2. event'[Key(j, g)] = event[Key(j, g)]
          BY <1>1, <2>1, <4>1, AnnouncedFacts DEF WriteInv
        <4>3. g \in stored'[j] <=> g \in stored[j]
          BY <1>1, <2>1, <3>3 DEF TypeOK
        <4>4. QED
          BY <3>1, <4>2, <4>3
      <3>4. QED
        BY <3>2, <3>3
    <2>6. ASSUME NEW j \in Items, product'[j] # None
          PROVE  \E g \in stored'[j] : event'[Key(j, g)].type = "DISCOVERED"
      <3>1. stored[j] \subseteq stored'[j] /\ stored[j] \subseteq Hashes
        BY <1>1, <2>1 DEF TypeOK
      <3>2. CASE product[j] # None
        <4>1. PICK g \in stored[j] : event[Key(j, g)].type = "DISCOVERED"
          BY <3>2 DEF WriteInv, OutboxIsExact
        <4>2. QED
          BY <2>5, <3>1, <4>1
      <3>3. CASE product[j] = None
        <4>1. j = i
          BY <1>1, <2>1, <2>6, <3>3 DEF TypeOK
        <4>2. ProductEvent(w) = "DISCOVERED"
          BY <1>1, <3>3, <4>1 DEF WriteInv, WritersSaw, ProductEvent
        <4>3. event[Key(i, h)].type \in {"none", "DISCOVERED"}
          BY <1>5, <4>2 DEF Rejected
        <4>4. event'[Key(i, h)].type = "DISCOVERED"
          BY <1>1, <2>1, <4>2, <4>3, AnnouncedFacts DEF WriteInv
        <4>5. h \in stored'[i]
          BY <1>1, <2>1 DEF TypeOK
        <4>6. QED
          BY <4>1, <4>4, <4>5
      <3>4. QED
        BY <3>2, <3>3
    <2>7. ASSUME NEW j \in Items, product'[j] # None
          PROVE  product'[j] \in stored'[j]
      BY <1>1, <2>1, <2>7 DEF WriteInv, OutboxIsExact, TypeOK
    <2>8. \A j \in Items : stored'[j] \subseteq Hashes
      BY <1>1, <2>1 DEF TypeOK
    <2>9. OutboxIsExact'
      BY <2>5, <2>6, <2>7, <2>8 DEF OutboxIsExact
    <2>10. QED
      BY <2>3, <2>4, <2>9 DEF WriteInv
  <1>6. QED
    BY <1>4, <1>5

(* Every step keeps types and outbox.                                       *)
LEMMA WriteInvStep ==
  TypeOK /\ WriteInv /\ [Next]_vars => TypeOK' /\ WriteInv'
  <1> SUFFICES ASSUME TypeOK, WriteInv, [Next]_vars
               PROVE  TypeOK' /\ WriteInv'
    OBVIOUS
  <1>1. ASSUME NEW c \in Consumers, Consume(c) PROVE TypeOK' /\ WriteInv'
    BY <1>1, ConsumeTypes, ConsumeKeepsWriteInv
  <1>2. ASSUME NEW w \in Writers, Write(w) PROVE TypeOK' /\ WriteInv'
    <2>1. TypeOK'
      BY <1>2, WriteTypes DEF WriteInv
    <2>2. ASSUME NEW i \in Items, NEW h \in Hashes, ReadExisting(w, i, h)
          PROVE  WriteInv'
      <3>1. /\ UNCHANGED <<product, event, stored>>
            /\ writer' = [writer EXCEPT ![w] =
                 [item |-> i, hash |-> h, existed |-> product[i] # None]]
        BY <2>2 DEF ReadExisting
      <3>2. WritersSaw'
        BY <3>1 DEF WriteInv, WritersSaw, TypeOK
      <3>3. QED
        BY <3>1, <3>2 DEF WriteInv, NoneStored, OutboxIsExact
    <2>3. ASSUME WriteFails(w) PROVE WriteInv'
      <3>1. /\ UNCHANGED <<product, event, stored>>
            /\ writer' = [writer EXCEPT ![w] = NotWriting]
        BY <2>3 DEF WriteFails
      <3>2. WritersSaw'
        BY <3>1 DEF WriteInv, WritersSaw, TypeOK
      <3>3. QED
        BY <3>1, <3>2 DEF WriteInv, NoneStored, OutboxIsExact
    <2>4. QED
      BY <1>2, <2>1, <2>2, <2>3, UpsertKeepsWriteInv DEF Write
  <1>3. CASE UNCHANGED vars
    BY <1>3 DEF vars, TypeOK, WriteInv, WritersSaw, NoneStored, OutboxIsExact
  <1>4. QED
    BY <1>1, <1>2, <1>3 DEF Next

(* Products, events, writers and consumers keep their types.                *)
THEOREM EventTypes == Spec => []TypeOK
  <1>1. Init => TypeOK /\ WriteInv
    BY TypeInit, WriteInvInit
  <1>2. QED
    BY <1>1, WriteInvStep, PTL DEF Spec

(* What is announced is what has been committed, and the first content of a *)
(* product is announced as its discovery.                                   *)
THEOREM OutboxExact == Spec => []OutboxIsExact
  <1>1. Init => TypeOK /\ WriteInv
    BY TypeInit, WriteInvInit
  <1>2. WriteInv => OutboxIsExact
    BY DEF WriteInv
  <1>3. QED
    BY <1>1, <1>2, WriteInvStep, PTL DEF Spec

(* An upsert that returned without storing its content met that content     *)
(* under another type of event, which the outbox has only for contents the  *)
(* product has had.                                                         *)
LEMMA LostStep ==
  TypeOK /\ WriteInv /\ LostOnlyOnReturn /\ [Next]_vars => LostOnlyOnReturn'
  <1> SUFFICES ASSUME TypeOK, WriteInv, LostOnlyOnReturn, [Next]_vars
               PROVE  LostOnlyOnReturn'
    OBVIOUS
  <1>1. ASSUME NEW w \in Writers, Upsert(w) PROVE LostOnlyOnReturn'
    <2> DEFINE i == writer[w].item
               h == writer[w].hash
    <2>1. i \in Items /\ h \in Hashes
      BY <1>1 DEF Upsert, WriteInv, WritersSaw
    <2>2. acked' = [acked EXCEPT ![i] = h]
      BY <1>1 DEF Upsert
    <2>3. h \in stored'[i] /\ \A j \in Items : stored[j] \subseteq stored'[j]
      <3>1. CASE Rejected(w)
        <4>1. h \in stored[i]
          BY <2>1, <3>1 DEF Rejected, WriteInv, OutboxIsExact
        <4>2. QED
          BY <1>1, <3>1, <4>1 DEF Upsert
      <3>2. CASE ~Rejected(w)
        BY <1>1, <2>1, <3>2 DEF Upsert, TypeOK
      <3>3. QED
        BY <3>1, <3>2
    <2>4. QED
      BY <2>1, <2>2, <2>3 DEF LostOnlyOnReturn, TypeOK
  <1>2. CASE UNCHANGED <<acked, stored>>
    BY <1>2 DEF LostOnlyOnReturn
  <1>3. QED
    BY <1>1, <1>2 DEF Next, Write, ReadExisting, WriteFails, Consume, Fetch,
       Start, Finish, Fail, LoseConsumer, catalogVars, vars

(* An upsert may return without being committed only when its content is    *)
(* one the product had before.                                              *)
THEOREM NewContentIsStored == Spec => []LostOnlyOnReturn
  <1>1. Init => TypeOK /\ WriteInv /\ LostOnlyOnReturn
    BY TypeInit, WriteInvInit DEF Init, LostOnlyOnReturn
  <1>2. QED
    BY <1>1, WriteInvStep, LostStep, PTL DEF Spec

-----------------------------------------------------------------------------
(* The consumers.                                                           *)

(* Announcing leaves every status alone but that of a new event.            *)
LEMMA AnnounceKeepsHeld ==
  ASSUME TypeOK, WriteInv, ProcessingIsHeld, NEW w \in Writers, Upsert(w)
  PROVE  ProcessingIsHeld'
  <1> DEFINE k == Key(writer[w].item, writer[w].hash)
  <1>1. UNCHANGED <<consumer, stranded>> /\ writer[w] # NotWriting
    BY DEF Upsert, consumerVars
  <1>2. \A q \in EventKey :
          event'[q].status = "PROCESSING" => event[q].status = "PROCESSING"
    <2>1. CASE event' = event
      BY <2>1
    <2>2. CASE event' = Announced(w)
      <3>1. ASSUME NEW q \in EventKey, q # k PROVE event'[q] = event[q]
        BY <1>1, <2>2, <3>1, AnnouncedFacts DEF WriteInv
      <3>2. event'[k] = event[k] \/ event'[k].status = "PENDING"
        BY <1>1, <2>2, AnnouncedFacts DEF WriteInv
      <3>3. QED
        BY <3>1, <3>2
    <2>3. QED
      BY <2>1, <2>2 DEF Upsert
  <1>3. QED
    BY <1>1, <1>2 DEF ProcessingIsHeld

(* A consumer leaves an event it is at by setting its status, or is lost.   *)
LEMMA ConsumeKeepsHeld ==
  ASSUME TypeOK, ProcessingIsHeld, NEW c \in Consumers, Consume(c)
  PROVE  ProcessingIsHeld'
  <1> SUFFICES ASSUME NEW k \in EventKey, event'[k].status = "PROCESSING"
               PROVE  \/ k \in stranded'
                      \/ \E d \in Consumers : \E r \in consumer'[d].at : r.key = k
    BY DEF ProcessingIsHeld
  <1>1. CASE Fetch(c)
    <2>1. /\ event' = event /\ stranded' = stranded
          /\ \A d \in Consumers : consumer'[d].at = consumer[d].at
      <3>1. \A d \in Consumers : consumer[d] \in Consumer
        BY DEF TypeOK
      <3>2. QED
        BY <1>1, <3>1 DEF Fetch, TypeOK, Consumer
    <2>2. QED
      BY <2>1 DEF ProcessingIsHeld
  <1>2. CASE Start(c)
    <2>1. PICK r \in consumer[c].todo :
            /\ SetEvent(r.key, "PROCESSING", r.attempt + 1)
            /\ consumer' = [consumer EXCEPT ![c].todo = @ \ {r},
                                            ![c].at = {r}]
      BY <1>2 DEF Start
    <2>2. /\ consumer'[c].at = {r}
          /\ \A d \in Consumers \ {c} : consumer'[d] = consumer[d]
      BY <2>1 DEF TypeOK, Consumer
    <2>3. CASE k = r.key
      BY <2>2, <2>3
    <2>4. CASE k # r.key
      <3>1. event[k].status = "PROCESSING"
        BY <2>1, <2>4 DEF SetEvent, TypeOK
      <3>2. consumer[c].at = {} /\ stranded' = stranded
        BY <1>2 DEF Start, NoRow
      <3>3. QED
        BY <2>2, <3>1, <3>2 DEF ProcessingIsHeld
    <2>5. QED
      BY <2>3, <2>4
  <1>3. CASE Finish(c) \/ Fail(c)
    <2>1. PICK r \in consumer[c].at :
            \/ SetEvent(r.key, "DONE", event[r.key].attempt)
            \/ SetEvent(r.key, "FAILED", r.attempt + 1)
      BY <1>3 DEF Finish, Fail
    <2>2. consumer[c].at = {r}
      BY <2>1 DEF TypeOK, Consumer, NoRow
    <2>3. event[k] \in Event
      BY DEF TypeOK
    <2>4. k # r.key /\ event[k].status = "PROCESSING"
      BY <2>1, <2>3 DEF SetEvent, TypeOK, Event
    <2>5. stranded' = stranded
          /\ \A d \in Consumers \ {c} : consumer'[d] = consumer[d]
      BY <1>3 DEF Finish, Fail, Left, TypeOK
    <2>6. QED
      BY <2>2, <2>4, <2>5 DEF ProcessingIsHeld
  <1>4. CASE LoseConsumer(c)
    <2>1. /\ event' = event
          /\ stranded' = stranded \cup {r.key : r \in consumer[c].at}
          /\ \A d \in Consumers \ {c} : consumer'[d] = consumer[d]
      BY <1>4 DEF LoseConsumer, TypeOK
    <2>2. QED
      BY <2>1 DEF ProcessingIsHeld
  <1>5. QED
    BY <1>1, <1>2, <1>3, <1>4 DEF Consume

(* Every step keeps events in PROCESSING held.                              *)
LEMMA HeldStep ==
  TypeOK /\ WriteInv /\ ProcessingIsHeld /\ [Next]_vars => ProcessingIsHeld'
  <1> SUFFICES ASSUME TypeOK, WriteInv, ProcessingIsHeld, [Next]_vars
               PROVE  ProcessingIsHeld'
    OBVIOUS
  <1>1. ASSUME NEW w \in Writers, Write(w) PROVE ProcessingIsHeld'
    BY <1>1, AnnounceKeepsHeld
    DEF Write, ReadExisting, WriteFails, consumerVars, ProcessingIsHeld
  <1>2. CASE UNCHANGED vars
    BY <1>2 DEF vars, ProcessingIsHeld
  <1>3. QED
    BY <1>1, <1>2, ConsumeKeepsHeld DEF Next

(* An event in PROCESSING has a consumer at it or has lost one.             *)
THEOREM ProcessingHeld == Spec => []ProcessingIsHeld
  <1>1. Init => TypeOK /\ WriteInv /\ ProcessingIsHeld
    BY TypeInit, WriteInvInit DEF Init, ProcessingIsHeld, NoEvent
  <1>2. QED
    BY <1>1, WriteInvStep, HeldStep, PTL DEF Spec

-----------------------------------------------------------------------------
(* Stranded events.                                                         *)

(* The event is in PROCESSING, its consumer was lost, and no other consumer *)
(* had listed it.                                                           *)
LeftInProcessing(k) ==
  /\ event[k].status = "PROCESSING" /\ event[k].type # "none"
  /\ \A c \in Consumers : \A r \in consumer[c].todo \cup consumer[c].at :
       r.key # k

(* Nobody lists an event in PROCESSING, and announcing it again is skipped. *)
LEMMA LeftStep ==
  ASSUME TypeOK, WriteInv, NEW k \in EventKey, LeftInProcessing(k),
         [Next]_vars
  PROVE  LeftInProcessing(k)'
  <1>1. ASSUME UNCHANGED <<event, consumer>> PROVE LeftInProcessing(k)'
    BY <1>1 DEF LeftInProcessing
  <1>2. ASSUME NEW w \in Writers, Upsert(w) PROVE LeftInProcessing(k)'
    <2>1. writer[w] # NotWriting /\ consumer' = consumer
      BY <1>2 DEF Upsert, consumerVars
    <2>2. event'[k] = event[k]
      <3>1. CASE event' = event
        BY <3>1
      <3>2. CASE event' = Announced(w)
        BY <2>1, <3>2, AnnouncedFacts DEF WriteInv, LeftInProcessing
      <3>3. QED
        BY <1>2, <3>1, <3>2 DEF Upsert
    <2>3. QED
      BY <2>1, <2>2 DEF LeftInProcessing
  <1>3. ASSUME NEW c \in Consumers, Consume(c) PROVE LeftInProcessing(k)'
    <2>1. /\ \A d \in Consumers : consumer[d] \in Consumer
          /\ \A r \in consumer[c].todo \cup consumer[c].at : r.key # k
      BY DEF LeftInProcessing, TypeOK
    <2>2. CASE Fetch(c)
      <3>1. PICK K \in SUBSET Listable :
              consumer' = [consumer EXCEPT ![c].todo =
                {[key |-> q, attempt |-> event[q].attempt] : q \in K}]
        BY <2>2 DEF Fetch
      <3>2. k \notin K
        BY <3>1 DEF Listable, LeftInProcessing
      <3>3. \A r \in consumer'[c].todo \cup consumer'[c].at : r.key # k
        BY <2>1, <3>1, <3>2 DEF TypeOK, Consumer
      <3>4. \A d \in Consumers \ {c} : consumer'[d] = consumer[d]
        BY <3>1 DEF TypeOK
      <3>5. QED
        BY <2>2, <3>3, <3>4 DEF LeftInProcessing, Fetch
    <2>3. CASE Start(c)
      <3>1. PICK r \in consumer[c].todo :
              /\ SetEvent(r.key, "PROCESSING", r.attempt + 1)
              /\ consumer' = [consumer EXCEPT ![c].todo = @ \ {r},
                                              ![c].at = {r}]
        BY <2>3 DEF Start
      <3>2. event'[k] = event[k]
        BY <2>1, <3>1 DEF SetEvent, TypeOK
      <3>3. \A s \in consumer'[c].todo \cup consumer'[c].at : s.key # k
        BY <2>1, <3>1 DEF TypeOK, Consumer
      <3>4. \A d \in Consumers \ {c} : consumer'[d] = consumer[d]
        BY <3>1 DEF TypeOK
      <3>5. QED
        BY <3>2, <3>3, <3>4 DEF LeftInProcessing
    <2>4. CASE Finish(c) \/ Fail(c)
      <3>1. PICK r \in consumer[c].at :
              \/ SetEvent(r.key, "DONE", event[r.key].attempt)
              \/ SetEvent(r.key, "FAILED", r.attempt + 1)
        BY <2>4 DEF Finish, Fail
      <3>2. event'[k] = event[k]
        BY <2>1, <3>1 DEF SetEvent, TypeOK
      <3>3. consumer' = Left(c)
        BY <2>4 DEF Finish, Fail
      <3>4. \A s \in consumer'[c].todo \cup consumer'[c].at : s.key # k
        BY <2>1, <3>3 DEF Left, NoRow, TypeOK, Consumer
      <3>5. \A d \in Consumers \ {c} : consumer'[d] = consumer[d]
        BY <3>3 DEF Left, TypeOK
      <3>6. QED
        BY <3>2, <3>4, <3>5 DEF LeftInProcessing
    <2>5. CASE LoseConsumer(c)
      BY <2>5 DEF LoseConsumer, LeftInProcessing, Idle, NoRow, TypeOK
    <2>6. QED
      BY <1>3, <2>2, <2>3, <2>4, <2>5 DEF Consume
  <1>4. CASE UNCHANGED vars
    BY <1>1, <1>4 DEF vars
  <1>5. QED
    BY <1>1, <1>2, <1>3, <1>4
    DEF Next, Write, ReadExisting, WriteFails, consumerVars

(* It is never processed: neither another round of a consumer nor a later    *)
(* write of the same content brings it back, since there is no lease on      *)
(* PROCESSING and the event counts as announced.                             *)
THEOREM LeftForGood ==
  ASSUME NEW k \in EventKey
  PROVE  Spec => [](LeftInProcessing(k) => []LeftInProcessing(k))
  <1>1. Init => TypeOK /\ WriteInv
    BY TypeInit, WriteInvInit
  <1>2. TypeOK /\ WriteInv /\ LeftInProcessing(k) /\ [Next]_vars
          => LeftInProcessing(k)'
    BY LeftStep
  <1>3. QED
    BY <1>1, <1>2, WriteInvStep, PTL DEF Spec

=============================================================================
