---------------------------- MODULE CatalogEvents ----------------------------
(***************************************************************************)
(* Product writes, the domain events announced in their transaction, and   *)
(* the consumers of these events: upsert_product of the Postgres catalog,  *)
(* emit_events and process_pending_events over catalog_domain_events.      *)
(*                                                                         *)
(* upsert_product looks whether the product exists before it locks the     *)
(* row; from the INSERT ... ON CONFLICT to the COMMIT the lock makes it    *)
(* one step.  The consumers run without a transaction: the locks of FOR    *)
(* UPDATE SKIP LOCKED are gone when the list is back, and each statement   *)
(* commits by itself.                                                      *)
(*                                                                         *)
(* The content of a product is abstracted to its content hash.  An upsert  *)
(* announces the product and, in a second row, requests the readiness of   *)
(* the merchant; both rows are inserted, skipped and rejected together, so *)
(* one event stands for them.  The ledger row a consumer writes for the    *)
(* request, whose failure is swallowed, is left out.                       *)
(***************************************************************************)
EXTENDS Integers, FiniteSets

CONSTANTS
  Items,       (* products, by merchant and external id                     *)
  Hashes,      (* content hashes of a product                               *)
  None,
  Writers,     (* ingestion runs that apply their result                    *)
  Consumers,
  MaxAttempt   (* bound on the attempts of an event                         *)

VARIABLES
  product,     (* committed content hash of each product                    *)
  event,       (* the events, by item and hash                              *)
  writer,      (* the upsert each ingestion run is in                       *)
  consumer,    (* the list and the current row of each consumer             *)
  stored,      (* history: the contents each product has had                *)
  acked,       (* history: content of the last upsert that returned         *)
  stranded     (* history: events whose consumer was lost while at them     *)

catalogVars  == <<product, writer, stored, acked>>
consumerVars == <<consumer, stranded>>
vars == <<product, event, writer, consumer, stored, acked, stranded>>

ASSUME EventsAssumption ==
  /\ None \notin Hashes /\ None \notin Items
  /\ MaxAttempt \in Nat \ {0}

-----------------------------------------------------------------------------
(* Types.                                                                   *)

(* The unique index covers source, item, revision and hash, but not the     *)
(* type.                                                                    *)
EventKey == [item : Items, hash : Hashes]

Event ==
  [type    : {"none", "DISCOVERED", "CHANGED"},
   status  : {"PENDING", "PROCESSING", "DONE", "FAILED"},
   attempt : 0..MaxAttempt]
NoEvent == [type |-> "none", status |-> "PENDING", attempt |-> 0]

Writer == [item : Items \cup {None}, hash : Hashes \cup {None},
           existed : BOOLEAN]
NotWriting == [item |-> None, hash |-> None, existed |-> FALSE]

(* A row as it was fetched, with the attempts it had then.                  *)
Row == [key : EventKey, attempt : 0..(MaxAttempt - 1)]
NoRow == {}

(* at is empty or the one row between PROCESSING and DONE.                  *)
Consumer == [todo : SUBSET Row, at : {NoRow} \cup {{r} : r \in Row}]
Idle == [todo |-> {}, at |-> NoRow]

TypeOK ==
  /\ product \in [Items -> Hashes \cup {None}]
  /\ event \in [EventKey -> Event]
  /\ writer \in [Writers -> Writer]
  /\ consumer \in [Consumers -> Consumer]
  /\ stored \in [Items -> SUBSET Hashes]
  /\ acked \in [Items -> Hashes \cup {None}]
  /\ stranded \subseteq EventKey

Key(i, h) == [item |-> i, hash |-> h]

-----------------------------------------------------------------------------
(* The product write.                                                       *)

(* SELECT id FROM products, at the start of the transaction.                *)
ReadExisting_id(w, i, h) ==
  /\ writer[w] = NotWriting
  /\ writer' = [writer EXCEPT
       ![w] = [item |-> i, hash |-> h, existed |-> product[i]]]
  /\ UNCHANGED <<product, event, stored, acked, consumerVars>>
ReadExisting(w, i, h) ==
  /\ writer[w] = NotWriting
  /\ writer' = [writer EXCEPT
       ![w] = [item |-> i, hash |-> h, existed |-> product[i] # None]]
  /\ UNCHANGED <<product, event, stored, acked, consumerVars>>

(* events_for_product_upsert: the type of the product event.                *)
ProductEvent(w) == IF writer[w].existed THEN "CHANGED" ELSE "DISCOVERED"

(* insert_domain_event: WHERE NOT EXISTS looks for the key and the type, so *)
(* an event of the same type is skipped; the unique index rejects the key   *)
(* under another type.                                                      *)
Rejected_byItem(w) ==
  \E k \in EventKey :
    /\ k.item = writer[w].item
    /\ event[k].type \notin {"none", ProductEvent(w)}
Rejected(w) ==
  event[Key(writer[w].item, writer[w].hash)].type
    \notin {"none", ProductEvent(w)}

(* emit_events.                                                             *)
Announced(w) ==
  [event EXCEPT ![Key(writer[w].item, writer[w].hash)] =
     IF @.type = "none" THEN [NoEvent EXCEPT !.type = ProductEvent(w)] ELSE @]

(* INSERT ... ON CONFLICT DO UPDATE, the events and COMMIT.  An INSERT the  *)
(* index rejects raises, the exception is swallowed, and the COMMIT of the  *)
(* aborted transaction rolls the product back; upsert_product returns the   *)
(* row it wrote either way.                                                 *)
Upsert_announceFirst(w) ==
  LET i == writer[w].item
      h == writer[w].hash
  IN /\ writer[w] # NotWriting
     /\ event' = Announced(w)
     /\ IF Rejected(w)
        THEN UNCHANGED <<product, stored>>
        ELSE \/ /\ product' = [product EXCEPT ![i] = h]
                /\ stored' = [stored EXCEPT ![i] = @ \cup {h}]
             \/ UNCHANGED <<product, stored>>
     /\ acked' = [acked EXCEPT ![i] = product'[i]]
     /\ writer' = [writer EXCEPT ![w] = NotWriting]
     /\ UNCHANGED consumerVars
Upsert(w) ==
  LET i == writer[w].item
      h == writer[w].hash
  IN /\ writer[w] # NotWriting
     /\ IF Rejected(w)
        THEN UNCHANGED <<product, event, stored>>
        ELSE /\ product' = [product EXCEPT ![i] = h]
             /\ event' = Announced(w)
             /\ stored' = [stored EXCEPT ![i] = @ \cup {h}]
     /\ acked' = [acked EXCEPT ![i] = h]
     /\ writer' = [writer EXCEPT ![w] = NotWriting]
     /\ UNCHANGED consumerVars

(* The connection or the process is lost, or a statement of the write       *)
(* itself fails: nothing is committed and nothing returned.                 *)
WriteFails(w) ==
  /\ writer[w] # NotWriting
  /\ writer' = [writer EXCEPT ![w] = NotWriting]
  /\ UNCHANGED <<product, event, stored, acked, consumerVars>>

-----------------------------------------------------------------------------
(* process_pending_events.                                                  *)

Listable == {k \in EventKey : /\ event[k].type # "none"
                              /\ event[k].status \in {"PENDING", "FAILED"}
                              /\ event[k].attempt < MaxAttempt}

(* Rows another consumer locks at this moment, and those over the limit,    *)
(* are left out.                                                            *)
Fetch(c) ==
  /\ consumer[c] = Idle
  /\ \E K \in SUBSET Listable :
       consumer' = [consumer EXCEPT
         ![c].todo = {[key |-> k, attempt |-> event[k].attempt] : k \in K}]
  /\ UNCHANGED <<catalogVars, event, stranded>>

SetEvent(k, s, n) ==
  event' = [event EXCEPT ![k].status = s, ![k].attempt = n]

(* UPDATE ... PROCESSING, whatever has become of the event since the fetch. *)
Start(c) ==
  /\ consumer[c].at = NoRow
  /\ \E r \in consumer[c].todo :
       /\ SetEvent(r.key, "PROCESSING", r.attempt + 1)
       /\ consumer' = [consumer EXCEPT ![c].todo = @ \ {r}, ![c].at = {r}]
  /\ UNCHANGED <<catalogVars, stranded>>

Left(c) == [consumer EXCEPT ![c].at = NoRow]

(* UPDATE ... DONE keeps the attempt the row has by now.                    *)
Finish(c) ==
  /\ \E r \in consumer[c].at : SetEvent(r.key, "DONE", event[r.key].attempt)
  /\ consumer' = Left(c)
  /\ UNCHANGED <<catalogVars, stranded>>

(* A statement of the round fails: FAILED, to be fetched again.             *)
Fail_silently(c) ==
  /\ consumer[c].at # NoRow
  /\ consumer' = Left(c)
  /\ UNCHANGED <<catalogVars, event, stranded>>
Fail(c) ==
  /\ \E r \in consumer[c].at : SetEvent(r.key, "FAILED", r.attempt + 1)
  /\ consumer' = Left(c)
  /\ UNCHANGED <<catalogVars, stranded>>

(* The connection or the process is lost, the UPDATE to FAILED included.    *)
LoseConsumer(c) ==
  /\ consumer[c] # Idle
  /\ consumer' = [consumer EXCEPT ![c] = Idle]
  /\ stranded' = stranded \cup {r.key : r \in consumer[c].at}
  /\ UNCHANGED <<catalogVars, event>>

-----------------------------------------------------------------------------

Init ==
  /\ product = [i \in Items |-> None]
  /\ event = [k \in EventKey |-> NoEvent]
  /\ writer = [w \in Writers |-> NotWriting]
  /\ consumer = [c \in Consumers |-> Idle]
  /\ stored = [i \in Items |-> {}]
  /\ acked = [i \in Items |-> None]
  /\ stranded = {}

Write(w) == \/ \E i \in Items, h \in Hashes : ReadExisting(w, i, h)
            \/ Upsert(w) \/ WriteFails(w)

Consume(c) == \/ Fetch(c) \/ Start(c) \/ Finish(c)
              \/ Fail(c) \/ LoseConsumer(c)

Next == \/ \E w \in Writers : Write(w)
        \/ \E c \in Consumers : Consume(c)

Spec == Init /\ [][Next]_vars

-----------------------------------------------------------------------------
(* Properties.                                                              *)

(* "Organic domain events in the same transaction as the product write":    *)
(* the contents announced are exactly those the product has had, none that  *)
(* was rolled back and all that were committed, and one of them was         *)
(* announced as the discovery, however ingestion runs overlap and fail.     *)
OutboxIsExact ==
  \A i \in Items :
    /\ stored[i] = {h \in Hashes : event[Key(i, h)].type # "none"}
    /\ product[i] # None =>
         /\ product[i] \in stored[i]
         /\ \E h \in stored[i] : event[Key(i, h)].type = "DISCOVERED"

(* An upsert that returned may not have been committed, but only when it    *)
(* returns to a content the product had before: new content always arrives. *)
LostOnlyOnReturn ==
  \A i \in Items : acked[i] # None => acked[i] \in stored[i]

(* Two consumers may be at the same event and set its status over each      *)
(* other, and still an event in PROCESSING, which no fetch selects again,   *)
(* has a consumer at it or has lost one.                                    *)
ProcessingIsHeld ==
  \A k \in EventKey : event[k].status = "PROCESSING" =>
    \/ k \in stranded
    \/ \E c \in Consumers : \E r \in consumer[c].at : r.key = k

(* A comment of upsert_product: "product write still commits".  Not so.     *)
AcknowledgedIsStored ==
  [][\A i \in Items : acked'[i] # acked[i] => product'[i] = acked'[i]]_vars

=============================================================================
