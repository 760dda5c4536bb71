------------------------- MODULE CatalogPublication -------------------------
(***************************************************************************)
(* The two-stage publication of a category catalog and the embedding       *)
(* worker that feeds its gate: CategoryCatalogService, the outbox and      *)
(* CategoryEmbeddingWorker over the in-memory repositories.                *)
(*                                                                         *)
(* No method of the service, the outbox or the repositories suspends, so   *)
(* each is one step; publish_revision without a revision, or of one that   *)
(* is still PREPARING, runs several of them in a row.  The worker suspends *)
(* while the embedding server answers, once for every job it listed.       *)
(*                                                                         *)
(* One catalog, one locale, one embedding profile.  What a category says   *)
(* is abstracted to a text; the projection and its hash are functions of   *)
(* the text.                                                               *)
(***************************************************************************)
EXTENDS Integers, FiniteSets

CONSTANTS
  Categories,
  Texts,         (* what a valid category may say                           *)
  Invalid,       (* what a category says that no publication admits         *)
  None,
  Workers,
  MaxAttempts,   (* max_attempts of a job                                   *)
  MaxRevision    (* bound on revision numbers                               *)

VARIABLES
  published,  (* published_revision of the catalog, 0 before the first      *)
  draft,      (* draft_revision of the catalog                              *)
  category,   (* the mutable categories                                     *)
  revision,   (* status of the revision records                             *)
  snapshot,   (* per revision the texts of its categories                   *)
  job,        (* embedding jobs by category, revision and text              *)
  embedding,  (* per category and revision the text of the READY embedding  *)
  todo,       (* what is left of each worker's list of pending jobs         *)
  reused      (* history: revisions whose number was given out twice        *)

catalogVars == <<published, draft, category, revision, snapshot, reused>>
vars == <<published, draft, category, revision, snapshot, job, embedding,
          todo, reused>>

ASSUME PublicationAssumption ==
  /\ Invalid \notin Texts /\ None \notin Texts /\ None # Invalid
  /\ MaxAttempts \in Nat \ {0}
  /\ MaxRevision \in Nat

-----------------------------------------------------------------------------
(* Types.                                                                   *)

Revisions == 1..MaxRevision

Says == Texts \cup {Invalid}

(* An archived category is like an inactive one: no operation revives it by *)
(* itself and neither is in a snapshot.                                     *)
CategoryState ==
  [status : {"missing", "DRAFT", "ACTIVE", "INACTIVE"},
   text   : Says \cup {None}]

RevisionStatus == {"missing", "PREPARING", "READY_TO_PUBLISH", "PUBLISHED",
                   "FAILED", "SUPERSEDED"}

Snapshot   == [Categories -> Texts \cup {None}]
NoSnapshot == [c \in Categories |-> Invalid]

JobKey == [category : Categories, revision : Revisions, text : Texts]
Job == [status : {"missing", "PENDING", "READY", "FAILED"},
        attempts : 0..MaxAttempts]
NoJob == [status |-> "missing", attempts |-> 0]

(* A job as the worker listed it, with the attempts it had then.            *)
Listed == [key : JobKey, attempts : 0..MaxAttempts]

TypeOK ==
  /\ published \in 0..MaxRevision /\ draft \in 0..MaxRevision
  /\ category \in [Categories -> CategoryState]
  /\ revision \in [Revisions -> RevisionStatus]
  /\ snapshot \in [Revisions -> Snapshot \cup {NoSnapshot}]
  /\ job \in [JobKey -> Job]
  /\ embedding \in [Categories -> [Revisions -> Texts \cup {None}]]
  /\ todo \in [Workers -> SUBSET Listed]
  /\ reused \subseteq Revisions

-----------------------------------------------------------------------------
(* The draft of the catalog.                                                *)

(* add_category, and the operations that change what a category says.       *)
Write(c, x) ==
  /\ category' = [category EXCEPT
       ![c] = [status |-> IF @.status = "missing" THEN "DRAFT" ELSE @.status,
               text   |-> x]]
  /\ UNCHANGED <<published, draft, revision, snapshot, job, embedding, todo,
                 reused>>

(* activate, deactivate and archive_category.                               *)
SetStatus(c, s) ==
  /\ category[c].status # "missing"
  /\ category' = [category EXCEPT ![c].status = s]
  /\ UNCHANGED <<published, draft, revision, snapshot, job, embedding, todo,
                 reused>>

(* What validate_for_publish makes of the categories.                       *)
Valid(cats) ==
  \A c \in Categories : cats[c].status = "ACTIVE" => cats[c].text # Invalid

Activated(cats) ==
  [c \in Categories |-> IF cats[c].status = "DRAFT"
                        THEN [cats[c] EXCEPT !.status = "ACTIVE"] ELSE cats[c]]

SnapshotOf(cats) ==
  [c \in Categories |->
     IF cats[c].status = "ACTIVE" THEN cats[c].text ELSE None]

-----------------------------------------------------------------------------
(* Publication.                                                             *)

Greater(a, b) == IF a >= b THEN a ELSE b

PendingRevision_repeated == IF draft = 0 THEN 1 ELSE draft
PendingRevision == Greater(published, draft) + 1

(* prepare_revision of categories it may have activated first.  A snapshot  *)
(* stored under the number before is replaced, so is the record.            *)
Prepare(cats) ==
  /\ PendingRevision \in Revisions
  /\ category' = cats
  /\ IF Valid(cats)
     THEN /\ snapshot' = [snapshot EXCEPT
                            ![PendingRevision] = SnapshotOf(cats)]
          /\ draft' = PendingRevision
          /\ revision' = [revision EXCEPT ![PendingRevision] = "PREPARING"]
          /\ reused' = IF snapshot[PendingRevision] = NoSnapshot THEN reused
                       ELSE reused \cup {PendingRevision}
     ELSE /\ revision' = [revision EXCEPT ![PendingRevision] = "FAILED"]
          /\ UNCHANGED <<snapshot, draft, reused>>
  /\ UNCHANGED <<published, job, embedding, todo>>

PrepareRevision == Prepare(category) \/ Prepare(Activated(category))

(* RepositoryEmbeddingReadinessChecker: a READY embedding for the revision, *)
(* of whatever text.                                                        *)
Embedded_anyRevision(r) ==
  \A c \in Categories : snapshot[r][c] # None =>
    \E q \in Revisions : embedding[c][q] # None
Embedded(r) ==
  \A c \in Categories : snapshot[r][c] # None => embedding[c][r] # None

(* mark_ready_to_publish.  It validates the categories as they are now, not *)
(* the snapshot.                                                            *)
MarkReadyToPublish(r) ==
  /\ revision[r] \in {"PREPARING", "READY_TO_PUBLISH"}
  /\ snapshot[r] # NoSnapshot
  /\ revision' = [revision EXCEPT
       ![r] = IF ~Embedded(r)          THEN "PREPARING"
              ELSE IF ~Valid(category) THEN "FAILED" ELSE "READY_TO_PUBLISH"]
  /\ UNCHANGED <<published, draft, category, snapshot, job, embedding, todo,
                 reused>>

Superseded_never(recs) == recs
Superseded(recs) ==
  [r \in Revisions |-> IF r = published /\ recs[r] = "PUBLISHED"
                       THEN "SUPERSEDED" ELSE recs[r]]

(* publish_revision.                                                        *)
PublishRevision(r) ==
  /\ revision[r] = "READY_TO_PUBLISH"
  /\ revision' = [Superseded(revision) EXCEPT ![r] = "PUBLISHED"]
  /\ published' = r /\ draft' = r
  /\ UNCHANGED <<category, snapshot, job, embedding, todo, reused>>

-----------------------------------------------------------------------------
(* Outbox and worker.                                                       *)

(* enqueue_for_snapshot; a job that exists under its key stays what it is,  *)
(* FAILED ones included.                                                    *)
EnqueueForSnapshot_drafts(r) ==
  /\ snapshot[r] # NoSnapshot
  /\ job' = [k \in JobKey |->
               IF /\ k.revision = r /\ k.text = category[k.category].text
                  /\ job[k] = NoJob
               THEN [status |-> "PENDING", attempts |-> 0] ELSE job[k]]
  /\ UNCHANGED <<catalogVars, embedding, todo>>
EnqueueForSnapshot(r) ==
  /\ snapshot[r] # NoSnapshot
  /\ job' = [k \in JobKey |->
               IF /\ k.revision = r /\ k.text = snapshot[r][k.category]
                  /\ job[k] = NoJob
               THEN [status |-> "PENDING", attempts |-> 0] ELSE job[k]]
  /\ UNCHANGED <<catalogVars, embedding, todo>>

(* run_once lists what is pending; two workers may list the same jobs.      *)
ListPendingJobs(w) ==
  /\ todo[w] = {}
  /\ todo' = [todo EXCEPT ![w] =
       {[key |-> k, attempts |-> job[k].attempts] :
          k \in {q \in JobKey : job[q].status = "PENDING"}}]
  /\ UNCHANGED <<catalogVars, job, embedding>>

(* The end of one round of the loop: the job gets what this worker counted, *)
(* whatever became of it since.                                             *)
Report(w, e, s) ==
  /\ job' = [job EXCEPT ![e.key] = [status |-> s, attempts |-> e.attempts + 1]]
  /\ todo' = [todo EXCEPT ![w] = @ \ {e}]
  /\ UNCHANGED catalogVars

(* The embedding server answers: older embeddings of the category for this  *)
(* revision become STALE, the new one is READY.                             *)
StoreEmbedding(w) ==
  \E e \in todo[w] :
    /\ embedding' = [embedding EXCEPT
         ![e.key.category][e.key.revision] = e.key.text]
    /\ Report(w, e, "READY")

(* Beside an error the server may answer without a vector, which is final.  *)
EmbeddingFails_retries(w) ==
  \E e \in todo[w] : Report(w, e, "PENDING") /\ UNCHANGED embedding
EmbeddingFails(w) ==
  \E e \in todo[w], s \in {"PENDING", "FAILED"} :
    /\ e.attempts + 1 >= MaxAttempts => s = "FAILED"
    /\ Report(w, e, s)
    /\ UNCHANGED embedding

(* The task is cancelled between two jobs or at the server.                 *)
CancelWorker(w) ==
  /\ todo[w] # {}
  /\ todo' = [todo EXCEPT ![w] = {}]
  /\ UNCHANGED <<catalogVars, job, embedding>>

-----------------------------------------------------------------------------

Init ==
  /\ published = 0 /\ draft = 0
  /\ category = [c \in Categories |-> [status |-> "missing", text |-> None]]
  /\ revision = [r \in Revisions |-> "missing"]
  /\ snapshot = [r \in Revisions |-> NoSnapshot]
  /\ job = [k \in JobKey |-> NoJob]
  /\ embedding = [c \in Categories |-> [r \in Revisions |-> None]]
  /\ todo = [w \in Workers |-> {}]
  /\ reused = {}

Admin ==
  \/ \E c \in Categories : \/ \E x \in Says : Write(c, x)
                           \/ \E s \in {"ACTIVE", "INACTIVE"} : SetStatus(c, s)
  \/ PrepareRevision
  \/ \E r \in Revisions : \/ MarkReadyToPublish(r) \/ PublishRevision(r)
                          \/ EnqueueForSnapshot(r)

Work(w) == \/ ListPendingJobs(w) \/ StoreEmbedding(w) \/ EmbeddingFails(w)
           \/ CancelWorker(w)

Next == Admin \/ \E w \in Workers : Work(w)

Spec == Init /\ [][Next]_vars

-----------------------------------------------------------------------------
(* Properties.                                                              *)

(* The pointer of the catalog and the status of the records say the same:    *)
(* exactly the revision pointed at is PUBLISHED, however revisions are       *)
(* published in and out of order and numbers are given out again.            *)
PublishedIsPointer ==
  \A r \in Revisions : revision[r] = "PUBLISHED" <=> r = published

(* ADR-004: a revision that is not ready is not opened to the matcher.  What *)
(* the matcher reads, the snapshot at the pointer and the READY embeddings   *)
(* of its number, exists and is complete at every moment, while late workers *)
(* mark embeddings stale and store others.                                   *)
PublishedIsServed ==
  published # 0 => /\ snapshot[published] # NoSnapshot
                   /\ \A c \in Categories :
                        snapshot[published][c] # None
                          => embedding[c][published] # None

(* The gate looks at the ids of the categories alone.  Still the published   *)
(* embeddings are of the published texts, unless the number of the revision  *)
(* was given out twice: then a worker may store the text of the other one,   *)
(* before the gate or after the publication.                                 *)
EmbeddingsFitSnapshot ==
  published # 0 /\ published \notin reused =>
    \A c \in Categories :
      snapshot[published][c] # None
        => embedding[c][published] = snapshot[published][c]

(* What the matcher reads at the pointer.                                    *)
Shown ==
  IF published = 0 THEN [c \in Categories |-> None] ELSE snapshot[published]

Served == INSTANCE ServedCatalog WITH
            number <- published, shown <- Shown, exact <- published \notin reused,
            vector <- [c \in Categories |-> IF Shown[c] = None THEN None
                                            ELSE embedding[c][published]]

(* ADR-004: the old published revision goes on working while a new one is    *)
(* PREPARING, and the new one is opened when it is ready.  Edits, numbers    *)
(* given out again, the gate and late workers change nothing of what the     *)
(* matcher reads but by a publication, which leaves it complete; under a     *)
(* number given out twice a vector may still be replaced.                    *)
ImplementsServedCatalog == Served!Spec

=============================================================================
