---------------------- MODULE CatalogPublicationProofs ----------------------
(***************************************************************************)
(* Theorems about CatalogPublication for every number of categories,       *)
(* texts, workers, attempts and revisions.                                 *)
(*                                                                         *)
(* What is published was ready, and what is ready is complete and stays    *)
(* so: a number that is given out again starts over as PREPARING, and an   *)
(* embedding is only ever replaced by another.  What fits a revision is    *)
(* traced from the snapshot through the jobs and the lists of the workers  *)
(* to the embeddings.                                                      *)
(***************************************************************************)
EXTENDS CatalogPublication, TLAPS

(* A job or a listing that may be tried has an attempt left.                *)
AttemptsLeft ==
  /\ \A k \in JobKey : job[k].status = "PENDING"
                         => job[k].attempts + 1 \in 0..MaxAttempts
  /\ \A w \in Workers : \A e \in todo[w] : e.attempts + 1 \in 0..MaxAttempts

(* A revision that is ready or published is complete.                       *)
ReadyIsComplete ==
  \A r \in Revisions :
    revision[r] \in {"READY_TO_PUBLISH", "PUBLISHED"}
      => snapshot[r] # NoSnapshot /\ Embedded(r)

(* What is under way for a number given out once is of its snapshot; under  *)
(* a number not given out there is nothing, as no text is Invalid.          *)
Fits(r) ==
  /\ \A k \in JobKey : k.revision = r /\ job[k].status # "missing"
                         => k.text = snapshot[r][k.category]
  /\ \A w \in Workers : \A e \in todo[w] :
       e.key.revision = r => e.key.text = snapshot[r][e.key.category]
  /\ \A c \in Categories : embedding[c][r] \in {None, snapshot[r][c]}

FitInv == \A r \in Revisions \ reused : Fits(r)

TypeInv == TypeOK /\ AttemptsLeft

PublicationInv == TypeInv /\ PublishedIsPointer /\ ReadyIsComplete /\ FitInv

-----------------------------------------------------------------------------
(* Type correctness.                                                        *)

(* The numbers prepare_revision gives out are beyond the pointer.           *)
LEMMA PendingBeyond ==
  ASSUME TypeOK
  PROVE  PendingRevision \in Nat /\ PendingRevision > published
  BY PublicationAssumption DEF TypeOK, PendingRevision, Greater

(* A snapshot of valid categories has no invalid text.                      *)
LEMMA SnapshotType ==
  ASSUME NEW cats \in [Categories -> CategoryState], Valid(cats)
  PROVE  SnapshotOf(cats) \in Snapshot
  BY DEF Valid, SnapshotOf, Snapshot, CategoryState, Says

(* Activating the drafts keeps the categories what they are.                *)
LEMMA ActivatedType ==
  ASSUME TypeOK
  PROVE  Activated(category) \in [Categories -> CategoryState]
  BY DEF TypeOK, Activated, CategoryState

(* A catalog without categories and revisions is well-formed.               *)
LEMMA TypeInit == Init => TypeInv
  BY PublicationAssumption
  DEF Init, TypeInv, TypeOK, AttemptsLeft, CategoryState, RevisionStatus,
      NoJob, Job, Snapshot

(* prepare_revision.                                                        *)
LEMMA PrepareType ==
  ASSUME TypeInv, NEW cats \in [Categories -> CategoryState], Prepare(cats)
  PROVE  TypeInv'
  <1>1. PendingRevision \in 0..MaxRevision
    BY PublicationAssumption DEF Prepare, Revisions
  <1>2. snapshot' \in [Revisions -> Snapshot \cup {NoSnapshot}]
        /\ revision' \in [Revisions -> RevisionStatus]
        /\ draft' \in 0..MaxRevision /\ reused' \subseteq Revisions
    BY <1>1, SnapshotType DEF Prepare, TypeInv, TypeOK, RevisionStatus
  <1>3. QED
    BY <1>2 DEF Prepare, TypeInv, TypeOK, AttemptsLeft

(* enqueue_for_snapshot.                                                    *)
LEMMA EnqueueType ==
  ASSUME TypeInv, NEW r \in Revisions, EnqueueForSnapshot(r)
  PROVE  TypeInv'
  <1> DEFINE Pend == [status |-> "PENDING", attempts |-> 0]
  <1>1. Pend \in Job /\ Pend.attempts + 1 \in 0..MaxAttempts
        /\ Pend.status = "PENDING"
    BY PublicationAssumption DEF Job
  <1> HIDE DEF Pend
  <1>2. job' = [k \in JobKey |->
           IF k.revision = r /\ k.text = snapshot[r][k.category] /\ job[k] = NoJob
           THEN Pend ELSE job[k]]
    BY DEF EnqueueForSnapshot, Pend
  <1>3. job' \in [JobKey -> Job]
    BY <1>1, <1>2 DEF TypeInv, TypeOK
  <1>4. \A k \in JobKey : job'[k].status = "PENDING"
                            => job'[k].attempts + 1 \in 0..MaxAttempts
    BY <1>1, <1>2 DEF TypeInv, AttemptsLeft
  <1>5. QED
    BY <1>3, <1>4
    DEF EnqueueForSnapshot, catalogVars, TypeInv, TypeOK, AttemptsLeft

(* What a worker does at the end of a round, when the attempts it counts    *)
(* are in range and it puts back only what may be tried again.              *)
LEMMA ReportType ==
  ASSUME TypeInv, NEW w \in Workers, NEW e \in todo[w], NEW s, Report(w, e, s),
         s \in {"PENDING", "READY", "FAILED"},
         s = "PENDING" => e.attempts + 1 < MaxAttempts,
         embedding' \in [Categories -> [Revisions -> Texts \cup {None}]]
  PROVE  TypeInv'
  <1>1. e \in Listed /\ e.key \in JobKey /\ e.attempts \in Nat
        /\ e.attempts + 1 \in 0..MaxAttempts
    BY PublicationAssumption DEF TypeInv, TypeOK, AttemptsLeft, Listed
  <1> DEFINE new == [status |-> s, attempts |-> e.attempts + 1]
  <1>2. new \in Job /\ new.status = s /\ new.attempts = e.attempts + 1
    BY <1>1 DEF Job
  <1>3. s = "PENDING" => new.attempts + 1 \in 0..MaxAttempts
    BY <1>1, <1>2, PublicationAssumption
  <1> HIDE DEF new
  <1>4. job' = [job EXCEPT ![e.key] = new]
    BY DEF Report, new
  <1>5. job' \in [JobKey -> Job]
    BY <1>1, <1>2, <1>4 DEF TypeInv, TypeOK
  <1>6. \A k \in JobKey : job'[k].status = "PENDING"
                            => job'[k].attempts + 1 \in 0..MaxAttempts
    BY <1>1, <1>2, <1>3, <1>4 DEF TypeInv, TypeOK, AttemptsLeft
  <1>7. todo' \in [Workers -> SUBSET Listed]
        /\ \A v \in Workers : todo'[v] \subseteq todo[v]
    BY DEF Report, TypeInv, TypeOK
  <1>8. QED
    BY <1>5, <1>6, <1>7 DEF Report, catalogVars, TypeInv, TypeOK, AttemptsLeft

(* A worker lists the pending jobs with their attempts.                     *)
LEMMA ListType ==
  ASSUME TypeInv, NEW w \in Workers, ListPendingJobs(w)
  PROVE  TypeInv'
  <1> DEFINE L == {[key |-> k, attempts |-> job[k].attempts] :
                     k \in {q \in JobKey : job[q].status = "PENDING"}}
  <1>1. L \subseteq Listed
    BY DEF Listed, TypeInv, TypeOK, Job
  <1>2. \A e \in L : e.attempts + 1 \in 0..MaxAttempts
    BY DEF TypeInv, AttemptsLeft
  <1>3. todo' = [todo EXCEPT ![w] = L]
    BY DEF ListPendingJobs
  <1> HIDE DEF L
  <1>4. todo' \in [Workers -> SUBSET Listed]
        /\ \A v \in Workers : \A e \in todo'[v] :
             e.attempts + 1 \in 0..MaxAttempts
    BY <1>1, <1>2, <1>3 DEF TypeInv, TypeOK, AttemptsLeft
  <1>5. QED
    BY <1>4 DEF ListPendingJobs, catalogVars, TypeInv, TypeOK, AttemptsLeft

(* The embeddings a worker stores are of texts.                             *)
LEMMA StoredEmbedding ==
  ASSUME TypeOK, NEW w \in Workers, NEW e \in todo[w],
         embedding' = [embedding EXCEPT
           ![e.key.category][e.key.revision] = e.key.text]
  PROVE  /\ e.key \in JobKey
         /\ embedding' \in [Categories -> [Revisions -> Texts \cup {None}]]
         /\ \A c \in Categories, r \in Revisions :
              embedding'[c][r] =
                IF c = e.key.category /\ r = e.key.revision THEN e.key.text
                ELSE embedding[c][r]
  <1>1. e.key \in JobKey
    BY DEF TypeOK, Listed
  <1>2. e.key.category \in Categories /\ e.key.revision \in Revisions
        /\ e.key.text \in Texts
    BY <1>1 DEF JobKey
  <1>3. QED
    BY <1>1, <1>2 DEF TypeOK

(* Every step keeps the types and an attempt for what may be tried.         *)
LEMMA TypeStep == TypeInv /\ [Next]_vars => TypeInv'
  <1> SUFFICES ASSUME TypeInv, [Next]_vars PROVE TypeInv'
    OBVIOUS
  <1>1. ASSUME NEW c \in Categories, NEW x \in Says, Write(c, x)
        PROVE  TypeInv'
    <2>1. category' \in [Categories -> CategoryState]
      BY <1>1 DEF Write, TypeInv, TypeOK, CategoryState
    <2>2. QED
      BY <1>1, <2>1 DEF Write, TypeInv, TypeOK, AttemptsLeft
  <1>2. ASSUME NEW c \in Categories, NEW s \in {"ACTIVE", "INACTIVE"},
               SetStatus(c, s)
        PROVE  TypeInv'
    <2>1. category' \in [Categories -> CategoryState]
      BY <1>2 DEF SetStatus, TypeInv, TypeOK, CategoryState
    <2>2. QED
      BY <1>2, <2>1 DEF SetStatus, TypeInv, TypeOK, AttemptsLeft
  <1>3. CASE PrepareRevision
    <2>1. category \in [Categories -> CategoryState]
      BY DEF TypeInv, TypeOK
    <2>2. Activated(category) \in [Categories -> CategoryState]
      BY ActivatedType DEF TypeInv
    <2>3. QED
      BY <1>3, <2>1, <2>2, PrepareType DEF PrepareRevision
  <1>4. ASSUME NEW r \in Revisions, MarkReadyToPublish(r) PROVE TypeInv'
    <2>1. revision' \in [Revisions -> RevisionStatus]
      BY <1>4 DEF MarkReadyToPublish, TypeInv, TypeOK, RevisionStatus
    <2>2. QED
      BY <1>4, <2>1 DEF MarkReadyToPublish, TypeInv, TypeOK, AttemptsLeft
  <1>5. ASSUME NEW r \in Revisions, PublishRevision(r) PROVE TypeInv'
    <2>1. revision' \in [Revisions -> RevisionStatus]
      BY <1>5 DEF PublishRevision, Superseded, TypeInv, TypeOK, RevisionStatus
    <2>2. r \in 0..MaxRevision
      BY PublicationAssumption DEF Revisions
    <2>3. QED
      BY <1>5, <2>1, <2>2 DEF PublishRevision, TypeInv, TypeOK, AttemptsLeft
  <1>6. ASSUME NEW r \in Revisions, EnqueueForSnapshot(r) PROVE TypeInv'
    BY <1>6, EnqueueType
  <1>7. ASSUME NEW w \in Workers, Work(w) PROVE TypeInv'
    <2>1. CASE ListPendingJobs(w)
      BY <2>1, ListType
    <2>2. CASE StoreEmbedding(w)
      <3>1. PICK e \in todo[w] :
              /\ embedding' = [embedding EXCEPT
                   ![e.key.category][e.key.revision] = e.key.text]
              /\ Report(w, e, "READY")
        BY <2>2 DEF StoreEmbedding
      <3>2. embedding' \in [Categories -> [Revisions -> Texts \cup {None}]]
        BY <3>1, StoredEmbedding DEF TypeInv
      <3>3. QED
        BY <3>1, <3>2, ReportType
    <2>3. CASE EmbeddingFails(w)
      <3>1. PICK e \in todo[w], s \in {"PENDING", "FAILED"} :
              /\ e.attempts + 1 >= MaxAttempts => s = "FAILED"
              /\ Report(w, e, s) /\ UNCHANGED embedding
        BY <2>3 DEF EmbeddingFails
      <3>2. s = "PENDING" => e.attempts + 1 < MaxAttempts
        BY <3>1, PublicationAssumption DEF TypeInv, TypeOK, Listed
      <3>3. embedding' \in [Categories -> [Revisions -> Texts \cup {None}]]
        BY <3>1 DEF TypeInv, TypeOK
      <3>4. QED
        BY <3>1, <3>2, <3>3, ReportType
    <2>4. CASE CancelWorker(w)
      <3>1. todo' \in [Workers -> SUBSET Listed]
            /\ \A v \in Workers : todo'[v] \subseteq todo[v]
        BY <2>4 DEF CancelWorker, TypeInv, TypeOK
      <3>2. QED
        BY <2>4, <3>1 DEF CancelWorker, catalogVars, TypeInv, TypeOK,
                          AttemptsLeft
    <2>5. QED
      BY <1>7, <2>1, <2>2, <2>3, <2>4 DEF Work
  <1>8. CASE UNCHANGED vars
    BY <1>8 DEF vars, TypeInv, TypeOK, AttemptsLeft
  <1>9. QED
    BY <1>1, <1>2, <1>3, <1>4, <1>5, <1>6, <1>7, <1>8 DEF Next, Admin

(* The catalog, the outbox and the workers' lists keep their types, however *)
(* often jobs are tried.                                                    *)
THEOREM PublicationTypes == Spec => []TypeOK
  <1>1. TypeInv => TypeOK
    BY DEF TypeInv
  <1>2. QED
    BY <1>1, TypeInit, TypeStep, PTL DEF Spec

-----------------------------------------------------------------------------
(* The pointer.                                                             *)

(* The service alone changes the pointer and the status of revisions.       *)
LEMMA WorkFacts ==
  ASSUME NEW w \in Workers, Work(w)
  PROVE  UNCHANGED catalogVars
  BY DEF Work, ListPendingJobs, StoreEmbedding, EmbeddingFails, CancelWorker,
         Report

(* Writes of categories and the filling of the outbox leave the revisions   *)
(* and the snapshots alone.                                                 *)
LEMMA DraftFacts ==
  ASSUME \/ \E c \in Categories : \/ \E x \in Says : Write(c, x)
                                  \/ \E s \in {"ACTIVE", "INACTIVE"} :
                                       SetStatus(c, s)
         \/ \E r \in Revisions : EnqueueForSnapshot(r)
  PROVE  UNCHANGED <<published, revision, snapshot, embedding, todo, reused>>
  BY DEF Write, SetStatus, EnqueueForSnapshot, catalogVars

(* Every step keeps pointer and status together.                            *)
LEMMA PointerStep ==
  TypeOK /\ PublishedIsPointer /\ [Next]_vars => PublishedIsPointer'
  <1> SUFFICES ASSUME TypeOK, PublishedIsPointer, [Next]_vars
               PROVE  PublishedIsPointer'
    OBVIOUS
  <1>1. ASSUME NEW cats, Prepare(cats) PROVE PublishedIsPointer'
    <2>1. PendingRevision \in Revisions /\ PendingRevision # published
          /\ published' = published
      BY <1>1, PendingBeyond DEF Prepare, TypeOK
    <2>2. \E st \in {"PREPARING", "FAILED"} :
            revision' = [revision EXCEPT ![PendingRevision] = st]
      BY <1>1 DEF Prepare
    <2>3. QED
      BY <2>1, <2>2 DEF PublishedIsPointer, TypeOK
  <1>2. ASSUME NEW r \in Revisions, MarkReadyToPublish(r)
        PROVE  PublishedIsPointer'
    BY <1>2 DEF MarkReadyToPublish, PublishedIsPointer, TypeOK
  <1>3. ASSUME NEW r \in Revisions, PublishRevision(r)
        PROVE  PublishedIsPointer'
    BY <1>3 DEF PublishRevision, Superseded, PublishedIsPointer
  <1>4. CASE UNCHANGED <<published, revision>>
    BY <1>4 DEF PublishedIsPointer
  <1>5. QED
    BY <1>1, <1>2, <1>3, <1>4, WorkFacts, DraftFacts
    DEF Next, Admin, PrepareRevision, vars, catalogVars

-----------------------------------------------------------------------------
(* What is ready.                                                           *)

(* An embedding is never taken back, only replaced.                         *)
LEMMA EmbeddingsGrow ==
  ASSUME TypeOK, [Next]_vars
  PROVE  \A c \in Categories, r \in Revisions :
           embedding[c][r] # None => embedding'[c][r] # None
  <1>1. CASE UNCHANGED embedding
    BY <1>1
  <1>2. ASSUME NEW w \in Workers, StoreEmbedding(w)
        PROVE  \A c \in Categories, r \in Revisions :
                 embedding[c][r] # None => embedding'[c][r] # None
    <2>1. PICK e \in todo[w] :
            embedding' = [embedding EXCEPT
              ![e.key.category][e.key.revision] = e.key.text]
      BY <1>2 DEF StoreEmbedding
    <2>2. e.key \in JobKey
          /\ \A c \in Categories, r \in Revisions :
               embedding'[c][r] =
                 IF c = e.key.category /\ r = e.key.revision THEN e.key.text
                 ELSE embedding[c][r]
      BY <2>1, StoredEmbedding
    <2>3. e.key.text # None
      BY <2>2, PublicationAssumption DEF JobKey
    <2>4. QED
      BY <2>2, <2>3
  <1>3. QED
    BY <1>1, <1>2
    DEF Next, Admin, Write, SetStatus, PrepareRevision, Prepare,
        MarkReadyToPublish, PublishRevision, EnqueueForSnapshot, Work,
        ListPendingJobs, EmbeddingFails, CancelWorker, vars

(* A revision complete stays complete while its snapshot stays.             *)
LEMMA CompleteStays ==
  ASSUME TypeOK, [Next]_vars, NEW r \in Revisions, snapshot'[r] = snapshot[r],
         Embedded(r)
  PROVE  Embedded(r)'
  BY EmbeddingsGrow DEF Embedded

(* Every step keeps what is ready complete.                                 *)
LEMMA ReadyStep ==
  TypeOK /\ ReadyIsComplete /\ [Next]_vars => ReadyIsComplete'
  <1> SUFFICES ASSUME TypeOK, ReadyIsComplete, [Next]_vars,
                      NEW r \in Revisions,
                      revision'[r] \in {"READY_TO_PUBLISH", "PUBLISHED"}
               PROVE  snapshot'[r] # NoSnapshot /\ Embedded(r)'
    BY DEF ReadyIsComplete, NoSnapshot
  <1>1. CASE /\ snapshot'[r] = snapshot[r]
             /\ revision[r] \in {"READY_TO_PUBLISH", "PUBLISHED"}
    BY <1>1, CompleteStays DEF ReadyIsComplete
  <1>2. ASSUME NEW cats, Prepare(cats)
        PROVE  /\ snapshot'[r] = snapshot[r]
               /\ revision[r] \in {"READY_TO_PUBLISH", "PUBLISHED"}
    <2>1. \E st \in {"PREPARING", "FAILED"} :
            revision' = [revision EXCEPT ![PendingRevision] = st]
      BY <1>2 DEF Prepare
    <2>2. r # PendingRevision
      BY <2>1 DEF TypeOK
    <2>3. QED
      BY <1>2, <2>1, <2>2 DEF Prepare, TypeOK
  <1>3. ASSUME NEW q \in Revisions, MarkReadyToPublish(q)
        PROVE  snapshot'[r] # NoSnapshot /\ Embedded(r)'
    <2>1. snapshot' = snapshot /\ embedding' = embedding
      BY <1>3 DEF MarkReadyToPublish
    <2>2. CASE q = r
      <3>1. Embedded(r) /\ snapshot[r] # NoSnapshot
        BY <1>3, <2>2 DEF MarkReadyToPublish, TypeOK
      <3>2. QED
        BY <2>1, <3>1 DEF Embedded
    <2>3. CASE q # r
      <3>1. revision'[r] = revision[r]
        BY <1>3, <2>3 DEF MarkReadyToPublish, TypeOK
      <3>2. QED
        BY <1>1, <2>1, <3>1
    <2>4. QED
      BY <2>2, <2>3
  <1>4. ASSUME NEW q \in Revisions, PublishRevision(q)
        PROVE  /\ snapshot'[r] = snapshot[r]
               /\ revision[r] \in {"READY_TO_PUBLISH", "PUBLISHED"}
    BY <1>4 DEF PublishRevision, Superseded, TypeOK
  <1>5. CASE UNCHANGED <<revision, snapshot>>
    BY <1>1, <1>5
  <1>6. QED
    BY <1>1, <1>2, <1>3, <1>4, <1>5, WorkFacts, DraftFacts
    DEF Next, Admin, PrepareRevision, vars, catalogVars

-----------------------------------------------------------------------------
(* What fits.                                                               *)

(* Under a number not given out before there is nothing under way, and a    *)
(* new snapshot under it fits.                                              *)
LEMMA FitPrepare ==
  ASSUME TypeOK, FitInv, NEW cats, Prepare(cats)
  PROVE  FitInv'
  <1> SUFFICES ASSUME NEW r \in Revisions, r \notin reused' PROVE Fits(r)'
    BY DEF FitInv
  <1>1. UNCHANGED <<job, embedding, todo>>
    BY DEF Prepare
  <1>2. r \notin reused /\ Fits(r)
    BY DEF Prepare, FitInv
  <1>3. CASE snapshot'[r] = snapshot[r]
    BY <1>1, <1>2, <1>3 DEF Fits
  <1>4. CASE snapshot'[r] # snapshot[r]
    <2>1. r = PendingRevision /\ snapshot[r] = NoSnapshot
      BY <1>4 DEF Prepare, TypeOK
    <2>2. \A c \in Categories : snapshot[r][c] = Invalid
      BY <2>1 DEF NoSnapshot
    <2>3. \A k \in JobKey : k.text \in Texts /\ k.category \in Categories
      BY DEF JobKey
    <2>4. \A k \in JobKey : k.revision = r => job[k].status = "missing"
      BY <1>2, <2>2, <2>3, PublicationAssumption DEF Fits
    <2>5. \A w \in Workers : \A e \in todo[w] : e.key.revision # r
      <3>1. \A w \in Workers : \A e \in todo[w] : e.key \in JobKey
        BY DEF TypeOK, Listed
      <3>2. QED
        BY <1>2, <2>2, <2>3, <3>1, PublicationAssumption DEF Fits
    <2>6. \A c \in Categories : embedding[c][r] = None
      <3>1. \A c \in Categories : embedding[c][r] \in Texts \cup {None}
        BY DEF TypeOK
      <3>2. QED
        BY <1>2, <2>2, <3>1, PublicationAssumption DEF Fits
    <2>7. QED
      BY <1>1, <2>4, <2>5, <2>6 DEF Fits
  <1>5. QED
    BY <1>3, <1>4

(* The jobs of a snapshot are of its texts.                                 *)
LEMMA FitEnqueue ==
  ASSUME TypeOK, FitInv, NEW q \in Revisions, EnqueueForSnapshot(q)
  PROVE  FitInv'
  <1>1. UNCHANGED <<snapshot, embedding, todo, reused>>
    BY DraftFacts
  <1>2. \A k \in JobKey : job'[k].status # "missing" =>
          \/ k.revision = q /\ k.text = snapshot[q][k.category]
          \/ job[k].status # "missing"
    BY DEF EnqueueForSnapshot, NoJob
  <1>3. ASSUME NEW r \in Revisions \ reused PROVE Fits(r)'
    <2>1. Fits(r)
      BY DEF FitInv
    <2>2. QED
      BY <1>1, <1>2, <2>1 DEF Fits
  <1>4. QED
    BY <1>1, <1>3 DEF FitInv

(* A report is about a job the worker listed.                               *)
LEMMA FitReport ==
  ASSUME TypeOK, FitInv, NEW w \in Workers, NEW e \in todo[w], NEW s,
         Report(w, e, s),
         \/ UNCHANGED embedding
         \/ embedding' = [embedding EXCEPT
              ![e.key.category][e.key.revision] = e.key.text]
  PROVE  FitInv'
  <1>1. e.key \in JobKey
    BY DEF TypeOK, Listed
  <1>2. /\ snapshot' = snapshot /\ reused' = reused
        /\ \A k \in JobKey : k # e.key => job'[k] = job[k]
        /\ \A v \in Workers : todo'[v] \subseteq todo[v]
    BY DEF Report, catalogVars, TypeOK
  <1>3. ASSUME NEW r \in Revisions \ reused PROVE Fits(r)'
    <2>1. Fits(r)
      BY DEF FitInv
    <2>2. e.key.revision = r => e.key.text = snapshot[r][e.key.category]
      BY <2>1 DEF Fits
    <2>3. \A k \in JobKey : k.revision = r /\ job'[k].status # "missing"
                             => k.text = snapshot'[r][k.category]
      BY <1>2, <2>1, <2>2 DEF Fits
    <2>4. \A v \in Workers : \A f \in todo'[v] :
            f.key.revision = r => f.key.text = snapshot'[r][f.key.category]
      BY <1>2, <2>1 DEF Fits
    <2>5. ASSUME NEW c \in Categories
          PROVE  embedding'[c][r] \in {None, snapshot'[r][c]}
      <3>1. embedding[c][r] \in {None, snapshot[r][c]}
        BY <2>1 DEF Fits
      <3>2. \/ embedding'[c][r] = embedding[c][r]
            \/ /\ c = e.key.category /\ r = e.key.revision
               /\ embedding'[c][r] = e.key.text
        BY StoredEmbedding
      <3>3. QED
        BY <1>2, <2>2, <3>1, <3>2
    <2>6. QED
      BY <2>3, <2>4, <2>5 DEF Fits
  <1>4. QED
    BY <1>2, <1>3 DEF FitInv

(* So is what a worker lists.                                               *)
LEMMA FitList ==
  ASSUME TypeOK, FitInv, NEW w \in Workers, ListPendingJobs(w)
  PROVE  FitInv'
  <1>1. UNCHANGED <<snapshot, job, embedding, reused>>
    BY DEF ListPendingJobs, catalogVars
  <1>2. \A v \in Workers : \A e \in todo'[v] :
          \/ e \in todo[v]
          \/ e.key \in JobKey /\ job[e.key].status = "PENDING"
    BY DEF ListPendingJobs, TypeOK
  <1>3. ASSUME NEW r \in Revisions \ reused PROVE Fits(r)'
    <2>1. Fits(r)
      BY DEF FitInv
    <2>2. \A v \in Workers : \A e \in todo'[v] :
            e.key.revision = r => e.key.text = snapshot[r][e.key.category]
      BY <1>2, <2>1 DEF Fits
    <2>3. QED
      BY <1>1, <2>1, <2>2 DEF Fits
  <1>4. QED
    BY <1>1, <1>3 DEF FitInv

(* Every step keeps what fits.                                              *)
LEMMA FitStep == TypeOK /\ FitInv /\ [Next]_vars => FitInv'
  <1> SUFFICES ASSUME TypeOK, FitInv, [Next]_vars PROVE FitInv'
    OBVIOUS
  <1>1. CASE PrepareRevision
    BY <1>1, FitPrepare DEF PrepareRevision
  <1>2. ASSUME NEW q \in Revisions, EnqueueForSnapshot(q) PROVE FitInv'
    BY <1>2, FitEnqueue
  <1>3. ASSUME NEW w \in Workers, Work(w) PROVE FitInv'
    <2>1. CASE ListPendingJobs(w)
      BY <2>1, FitList
    <2>2. CASE StoreEmbedding(w) \/ EmbeddingFails(w)
      BY <2>2, FitReport DEF StoreEmbedding, EmbeddingFails
    <2>3. CASE CancelWorker(w)
      <3>1. UNCHANGED <<snapshot, job, embedding, reused>>
            /\ \A v \in Workers : todo'[v] \subseteq todo[v]
        BY <2>3 DEF CancelWorker, catalogVars, TypeOK
      <3>2. \A r \in Revisions : Fits(r) => Fits(r)'
        BY <3>1 DEF Fits
      <3>3. QED
        BY <3>1, <3>2 DEF FitInv
    <2>4. QED
      BY <1>3, <2>1, <2>2, <2>3 DEF Work
  <1>4. CASE UNCHANGED <<snapshot, job, embedding, todo, reused>>
    BY <1>4 DEF FitInv, Fits
  <1>5. QED
    BY <1>1, <1>2, <1>3, <1>4
    DEF Next, Admin, Write, SetStatus, MarkReadyToPublish, PublishRevision,
        vars

-----------------------------------------------------------------------------
(* Theorems.                                                                *)

(* Before the first prepare nothing is published, ready or under way.       *)
LEMMA PublicationInit == Init => PublicationInv
  BY TypeInit, PublicationAssumption
  DEF Init, PublicationInv, PublishedIsPointer, ReadyIsComplete, FitInv, Fits,
      NoJob, Revisions

(* Every step keeps the invariant.                                          *)
LEMMA PublicationStep == PublicationInv /\ [Next]_vars => PublicationInv'
  BY TypeStep, PointerStep, ReadyStep, FitStep DEF PublicationInv, TypeInv

(* Exactly the revision at the pointer is PUBLISHED, in whatever order      *)
(* revisions are published and numbers are given out again.                 *)
THEOREM PointerIsPublished == Spec => []PublishedIsPointer
  <1>1. PublicationInv => PublishedIsPointer
    BY DEF PublicationInv
  <1>2. QED
    BY <1>1, PublicationInit, PublicationStep, PTL DEF Spec

(* The revision at the pointer has its snapshot and an embedding of every   *)
(* category in it, whatever late workers do.                                *)
THEOREM PublishedIsComplete == Spec => []PublishedIsServed
  <1>1. PublicationInv => PublishedIsServed
    <2> SUFFICES ASSUME PublicationInv, published # 0
                 PROVE  snapshot[published] # NoSnapshot /\ Embedded(published)
      BY DEF PublishedIsServed, Embedded
    <2>1. published \in Revisions
      BY PublicationAssumption DEF PublicationInv, TypeInv, TypeOK, Revisions
    <2>2. QED
      BY <2>1 DEF PublicationInv, PublishedIsPointer, ReadyIsComplete
  <1>2. QED
    BY <1>1, PublicationInit, PublicationStep, PTL DEF Spec

(* The embeddings of a published revision whose number was given out once   *)
(* are of the texts of its snapshot.                                        *)
THEOREM PublishedEmbeddingsFit == Spec => []EmbeddingsFitSnapshot
  <1>1. PublicationInv => EmbeddingsFitSnapshot
    <2> SUFFICES ASSUME PublicationInv, published # 0, published \notin reused,
                        NEW c \in Categories, snapshot[published][c] # None
                 PROVE  embedding[c][published] = snapshot[published][c]
      BY DEF EmbeddingsFitSnapshot
    <2>1. published \in Revisions
      BY PublicationAssumption DEF PublicationInv, TypeInv, TypeOK, Revisions
    <2>2. embedding[c][published] # None
      BY <2>1 DEF PublicationInv, PublishedIsPointer, ReadyIsComplete, Embedded
    <2>3. embedding[c][published] \in {None, snapshot[published][c]}
      BY <2>1 DEF PublicationInv, FitInv, Fits
    <2>4. QED
      BY <2>2, <2>3
  <1>2. QED
    BY <1>1, PublicationInit, PublicationStep, PTL DEF Spec

(* No step changes the snapshot at a pointer that stays where it is, nor     *)
(* whether its number was given out twice.                                   *)
LEMMA PointedStays ==
  ASSUME PublicationInv, [Next]_vars, published # 0,
         \A r \in Revisions : ~PublishRevision(r)
  PROVE  /\ published' = published
         /\ snapshot'[published] = snapshot[published]
         /\ published \in reused' <=> published \in reused
  <1>1. ASSUME NEW cats, Prepare(cats)
        PROVE  /\ published' = published
               /\ snapshot'[published] = snapshot[published]
               /\ published \in reused' <=> published \in reused
    <2>1. published # PendingRevision
      BY PendingBeyond DEF PublicationInv, TypeInv, TypeOK
    <2>2. published \in Revisions
      BY PublicationAssumption DEF PublicationInv, TypeInv, TypeOK, Revisions
    <2>3. QED
      BY <1>1, <2>1, <2>2 DEF Prepare, PublicationInv, TypeInv, TypeOK
  <1>2. QED
    BY <1>1, WorkFacts, DraftFacts
    DEF Next, Admin, PrepareRevision, MarkReadyToPublish, vars, catalogVars

(* What is served, by the name the refinement has for it.                    *)
ServedVector ==
  [c \in Categories |-> IF Shown[c] = None THEN None
                        ELSE embedding[c][published]]

(* Before the first publication the matcher reads nothing, and afterwards    *)
(* the snapshot and the embeddings of the revision at the pointer.           *)
LEMMA ServedNow ==
  ASSUME PublicationInv
  PROVE  /\ published = 0 => Shown = Served!Nothing
                             /\ ServedVector = Served!Nothing
         /\ published # 0 => /\ published \in Revisions
                             /\ Shown = snapshot[published]
                             /\ Shown \in [Categories -> Texts \cup {None}]
  <1>1. published = 0 => Shown = Served!Nothing /\ ServedVector = Served!Nothing
    BY DEF Shown, ServedVector, Served!Nothing
  <1>2. ASSUME published # 0
        PROVE  /\ published \in Revisions
               /\ Shown = snapshot[published]
               /\ Shown \in [Categories -> Texts \cup {None}]
    <2>1. published \in Revisions
      BY <1>2, PublicationAssumption
      DEF PublicationInv, TypeInv, TypeOK, Revisions
    <2>2. snapshot[published] # NoSnapshot
      BY <2>1 DEF PublicationInv, PublishedIsPointer, ReadyIsComplete
    <2>3. QED
      BY <1>2, <2>1, <2>2 DEF Shown, PublicationInv, TypeInv, TypeOK, Snapshot
  <1>3. QED
    BY <1>1, <1>2

(* publish_revision opens a complete revision to the matcher.                *)
LEMMA PublishServes ==
  ASSUME PublicationInv, NEW r \in Revisions, PublishRevision(r)
  PROVE  Served!Publish
  <1>1. r \in Nat \ {0, published} /\ published' = r
    BY PublicationAssumption
    DEF PublishRevision, PublicationInv, PublishedIsPointer, Revisions
  <1>2. snapshot[r] # NoSnapshot /\ Embedded(r)
    BY DEF PublishRevision, PublicationInv, ReadyIsComplete
  <1>3. Shown' = snapshot[r] /\ embedding' = embedding /\ reused' = reused
    BY <1>1 DEF PublishRevision, Shown
  <1>4. snapshot[r] \in [Categories -> Texts \cup {None}]
        /\ embedding \in [Categories -> [Revisions -> Texts \cup {None}]]
    BY <1>2 DEF PublicationInv, TypeInv, TypeOK, Snapshot
  <1>5. ServedVector' = [c \in Categories |-> IF snapshot[r][c] = None THEN None
                                              ELSE embedding[c][r]]
    BY <1>1, <1>3 DEF ServedVector
  <1>6. ServedVector' \in Served!Catalog /\ Shown' \in Served!Catalog
    BY <1>3, <1>4, <1>5 DEF Served!Catalog
  <1>7. \A c \in Categories : ServedVector'[c] = None <=> Shown'[c] = None
    BY <1>2, <1>3, <1>5 DEF Embedded
  <1>8. r \notin reused => ServedVector' = Shown'
    <2> SUFFICES ASSUME r \notin reused PROVE ServedVector' = Shown'
      OBVIOUS
    <2>1. \A c \in Categories : embedding[c][r] \in {None, snapshot[r][c]}
      BY DEF PublicationInv, FitInv, Fits
    <2>2. \A c \in Categories : ServedVector'[c] = Shown'[c]
      BY <1>2, <1>3, <1>5, <2>1 DEF Embedded
    <2>3. QED
      BY <1>3, <1>4, <1>5, <2>2
  <1>9. QED
    BY <1>1, <1>3, <1>6, <1>7, <1>8 DEF Served!Publish, ServedVector

(* Every other step leaves what the matcher reads, or replaces a vector of a *)
(* number given out twice.                                                   *)
LEMMA OthersServe ==
  ASSUME PublicationInv, [Next]_vars, \A r \in Revisions : ~PublishRevision(r)
  PROVE  Served!LateVector \/ UNCHANGED Served!vars
  <1> TypeOK
    BY DEF PublicationInv, TypeInv
  <1>1. published' = published
    BY WorkFacts, DraftFacts
    DEF Next, Admin, PrepareRevision, Prepare, MarkReadyToPublish, vars,
        catalogVars
  <1>2. CASE published = 0
    <2>1. published \notin reused /\ published' \notin reused'
      <3>1. reused \subseteq Revisions /\ reused' \subseteq Revisions
        BY PublicationStep DEF PublicationInv, TypeInv, TypeOK
      <3>2. QED
        BY <1>1, <1>2, <3>1 DEF Revisions
    <2>2. Shown' = Shown /\ ServedVector' = ServedVector
      BY <1>1, <1>2 DEF Shown, ServedVector
    <2>3. QED
      BY <1>1, <2>1, <2>2 DEF Served!vars, ServedVector
  <1>3. CASE published # 0
    <2>1. /\ published \in Revisions /\ Shown = snapshot[published]
          /\ Shown' = Shown
          /\ published' \in reused' <=> published \in reused
      BY <1>1, <1>3, PointedStays, ServedNow DEF Shown
    <2>2. ASSUME ServedVector' = ServedVector PROVE UNCHANGED Served!vars
      BY <1>1, <2>1, <2>2 DEF Served!vars, ServedVector
    <2>3. CASE UNCHANGED embedding
      BY <1>1, <2>1, <2>2, <2>3 DEF ServedVector
    <2>4. ASSUME NEW w \in Workers, StoreEmbedding(w)
          PROVE  Served!LateVector \/ UNCHANGED Served!vars
      <3>1. PICK e \in todo[w] :
              embedding' = [embedding EXCEPT
                ![e.key.category][e.key.revision] = e.key.text]
        BY <2>4 DEF StoreEmbedding
      <3>2. /\ e.key.category \in Categories /\ e.key.text \in Texts
            /\ \A c \in Categories, r \in Revisions :
                 embedding'[c][r] =
                   IF c = e.key.category /\ r = e.key.revision THEN e.key.text
                   ELSE embedding[c][r]
        BY <3>1, StoredEmbedding DEF JobKey
      <3>3. CASE e.key.revision # published \/ Shown[e.key.category] = None
        <4>1. ServedVector' = ServedVector
          BY <1>1, <2>1, <3>2, <3>3 DEF ServedVector
        <4>2. QED
          BY <2>2, <4>1
      <3>4. CASE /\ e.key.revision = published
                 /\ Shown[e.key.category] # None /\ published \notin reused
        <4>1. e.key.text = snapshot[published][e.key.category]
          BY <2>1, <3>4 DEF PublicationInv, FitInv, Fits
        <4>2. embedding[e.key.category][published] = e.key.text
          BY <2>1, <3>2, <3>4, <4>1
          DEF PublicationInv, FitInv, Fits, PublishedIsPointer,
              ReadyIsComplete, Embedded
        <4>3. ServedVector' = ServedVector
          BY <1>1, <2>1, <3>2, <3>4, <4>2 DEF ServedVector
        <4>4. QED
          BY <2>2, <4>3
      <3>5. CASE /\ e.key.revision = published
                 /\ Shown[e.key.category] # None /\ published \in reused
        <4>1. ServedVector'
                = [ServedVector EXCEPT ![e.key.category] = e.key.text]
          BY <1>1, <2>1, <3>2, <3>5 DEF ServedVector
        <4>2. UNCHANGED <<published, Shown, published \notin reused>>
          BY <1>1, <2>1
        <4>3. QED
          BY <3>2, <3>5, <4>1, <4>2 DEF Served!LateVector, ServedVector
      <3>6. QED
        BY <3>3, <3>4, <3>5
    <2>5. QED
      BY <2>3, <2>4
      DEF Next, Admin, Write, SetStatus, PrepareRevision, Prepare,
          MarkReadyToPublish, EnqueueForSnapshot, Work, ListPendingJobs,
          EmbeddingFails, CancelWorker, vars
  <1>4. QED
    BY <1>2, <1>3

(* Whatever administrators, workers and the embedding server do, the matcher *)
(* reads a catalog that changes by publications alone.                       *)
THEOREM PublicationImplementsServed == Spec => ImplementsServedCatalog
  <1>1. Init => Served!Init
    BY DEF Init, Served!Init, Served!Nothing, Shown
  <1>2. PublicationInv /\ [Next]_vars =>
          [Served!Publish \/ Served!LateVector]_(Served!vars)
    BY PublishServes, OthersServe
  <1>3. QED
    BY <1>1, <1>2, PublicationInit, PublicationStep, PTL
    DEF Spec, ImplementsServedCatalog, Served!Spec

-----------------------------------------------------------------------------
(* Jobs that were given up.                                                 *)

AboutIt(k, c, r) == k.category = c /\ k.revision = r

(* The job of a category in the snapshot of r is FAILED, the category has   *)
(* no embedding under r, and nothing that could give it one is under way.   *)
GivenUp(c, r) ==
  /\ snapshot[r] # NoSnapshot /\ snapshot[r][c] # None
  /\ embedding[c][r] = None
  /\ \A k \in JobKey : AboutIt(k, c, r) =>
       /\ job[k].status # "PENDING"
       /\ k.text = snapshot[r][c] => job[k].status = "FAILED"
  /\ \A w \in Workers : \A e \in todo[w] : ~AboutIt(e.key, c, r)

(* A report is about another category or another revision.                  *)
LEMMA ReportElsewhere ==
  ASSUME TypeOK, NEW c \in Categories, NEW r \in Revisions, GivenUp(c, r),
         NEW w \in Workers, NEW e \in todo[w], NEW s, Report(w, e, s),
         \/ UNCHANGED embedding
         \/ embedding' = [embedding EXCEPT
              ![e.key.category][e.key.revision] = e.key.text]
  PROVE  GivenUp(c, r)'
  <1>1. e.key \in JobKey /\ ~AboutIt(e.key, c, r)
    BY DEF TypeOK, Listed, GivenUp
  <1>2. /\ snapshot' = snapshot
        /\ \A k \in JobKey : k # e.key => job'[k] = job[k]
        /\ \A v \in Workers : todo'[v] \subseteq todo[v]
    BY DEF Report, catalogVars, TypeOK
  <1>3. embedding'[c][r] = None
    <2>1. embedding[c][r] = None
      BY DEF GivenUp
    <2>2. QED
      BY <1>1, <2>1, StoredEmbedding DEF AboutIt
  <1>4. \A k \in JobKey : AboutIt(k, c, r) => job'[k] = job[k]
    BY <1>1, <1>2
  <1>5. QED
    BY <1>2, <1>3, <1>4 DEF GivenUp

(* The outbox leaves a job that exists under its key what it is.            *)
LEMMA EnqueueKeepsGivenUp ==
  ASSUME TypeOK, NEW c \in Categories, NEW r \in Revisions, GivenUp(c, r),
         NEW q \in Revisions, EnqueueForSnapshot(q)
  PROVE  GivenUp(c, r)'
  <1>1. UNCHANGED <<snapshot, embedding, todo>>
    BY DEF EnqueueForSnapshot, catalogVars
  <1>2. ASSUME NEW k \in JobKey, AboutIt(k, c, r) PROVE job'[k] = job[k]
    <2>1. k.text = snapshot[r][c] => job[k] # NoJob
      BY <1>2 DEF GivenUp, NoJob
    <2>2. ~(k.revision = q /\ k.text = snapshot[q][k.category] /\ job[k] = NoJob)
      BY <1>2, <2>1 DEF AboutIt
    <2>3. QED
      BY <1>2, <2>2 DEF EnqueueForSnapshot
  <1>3. QED
    BY <1>1, <1>2 DEF GivenUp

(* Nothing else puts it back: only another snapshot under the same number   *)
(* does.                                                                    *)
LEMMA GivenUpStep ==
  ASSUME TypeOK, NEW c \in Categories, NEW r \in Revisions, GivenUp(c, r),
         [Next]_vars, snapshot'[r] = snapshot[r]
  PROVE  GivenUp(c, r)'
  <1>1. ASSUME UNCHANGED <<job, embedding, todo>> PROVE GivenUp(c, r)'
    BY <1>1 DEF GivenUp
  <1>2. ASSUME NEW q \in Revisions, EnqueueForSnapshot(q)
        PROVE  GivenUp(c, r)'
    BY <1>2, EnqueueKeepsGivenUp
  <1>3. ASSUME NEW w \in Workers, Work(w) PROVE GivenUp(c, r)'
    <2>1. CASE StoreEmbedding(w) \/ EmbeddingFails(w)
      BY <2>1, ReportElsewhere DEF StoreEmbedding, EmbeddingFails
    <2>2. CASE ListPendingJobs(w) \/ CancelWorker(w)
      <3>1. UNCHANGED <<snapshot, job, embedding>>
        BY <2>2 DEF ListPendingJobs, CancelWorker, catalogVars
      <3>2. \A v \in Workers : \A e \in todo'[v] :
              \/ e \in todo[v]
              \/ e.key \in JobKey /\ job[e.key].status = "PENDING"
        BY <2>2 DEF ListPendingJobs, CancelWorker, TypeOK
      <3>3. \A v \in Workers : \A e \in todo'[v] : ~AboutIt(e.key, c, r)
        BY <3>2 DEF GivenUp
      <3>4. QED
        BY <3>1, <3>3 DEF GivenUp
    <2>3. QED
      BY <1>3, <2>1, <2>2 DEF Work
  <1>4. QED
    BY <1>1, <1>2, <1>3
    DEF Next, Admin, Write, SetStatus, PrepareRevision, Prepare,
        MarkReadyToPublish, PublishRevision, vars

(* An embedding server that is away for max_attempts calls blocks a revision *)
(* for good: it is neither ready nor published, and enqueueing it again,     *)
(* other workers and the gate do not change that; it takes a new snapshot    *)
(* under its number.                                                         *)
THEOREM GivenUpForGood ==
  ASSUME NEW c \in Categories, NEW r \in Revisions
  PROVE  Spec => /\ [](GivenUp(c, r) =>
                         revision[r] \notin {"READY_TO_PUBLISH", "PUBLISHED"})
                 /\ [][GivenUp(c, r) /\ snapshot'[r] = snapshot[r]
                         => GivenUp(c, r)']_vars
  <1>1. PublicationInv /\ GivenUp(c, r)
          => revision[r] \notin {"READY_TO_PUBLISH", "PUBLISHED"}
    BY DEF PublicationInv, ReadyIsComplete, Embedded, GivenUp
  <1>2. PublicationInv /\ [Next]_vars
          => [GivenUp(c, r) /\ snapshot'[r] = snapshot[r] => GivenUp(c, r)']_vars
    BY GivenUpStep DEF PublicationInv, TypeInv
  <1>3. QED
    BY <1>1, <1>2, PublicationInit, PublicationStep, PTL DEF Spec

=============================================================================
