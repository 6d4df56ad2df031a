---------------------------- MODULE BlobStorage ----------------------------
(***************************************************************************)
(* The objects of the object store and the blob rows that refer to them.   *)
(* The two are not in one transaction: a request uploads its object, then  *)
(* commits the row, and cleans up after a refusal; runs of the garbage     *)
(* collector remove objects without a row and rows without a reference.    *)
(*                                                                         *)
(* Each storage key is generated for one request, so a request is named by *)
(* its key.  What the namespaces do to a row is BlobRows: a live row may   *)
(* lose its last reference (Release) and is never referred to again.       *)
(*                                                                         *)
(* The answer to a COMMIT may be lost, the server may then still commit or *)
(* roll back; a PUT whose request gave up may still land; a DELETE may     *)
(* fail; a process may die at any step.  Time is the grace period only: an *)
(* object or an unreferenced row is younger or older than it.              *)
(***************************************************************************)
EXTENDS Integers, FiniteSets

CONSTANTS
    N,            \* the keys are 1..N, in the order the store lists them
    Gc,           \* processes that run the collector
    None,         \* nobody
    PageSize,     \* ORPHAN_OBJECT_PAGE_SIZE, ORPHAN_BLOB_PAGE_SIZE
    BudgetLimit,  \* STORIX_GC_MAX_ROWS_PER_STAGE
    MaxFaults     \* how often a collector dies or loses its lock

ASSUME KeyAssumption == N \in Nat
ASSUME GcAssumption == None \notin Gc
ASSUME PageAssumption == PageSize \in Nat \ {0} /\ BudgetLimit \in Nat \ {0}
ASSUME FaultAssumption == MaxFaults \in Nat

Key == 1..N

VARIABLES
    req,     \* where the request of a key is
    tx,      \* its transaction, as the database sees it
    put,     \* its PUT is on the way
    object,  \* the object of a key
    row,     \* the blob row of a key
    zeroAt,  \* the order in which rows lost their last reference
    run,     \* the collector runs
    cursor,  \* gc_cursor: where the next run of a stage goes on; 0 for no row
    lock,    \* the holder of the advisory lock
    faults

vars == <<req, tx, put, object, row, zeroAt, run, cursor, lock, faults>>

requestVars == <<req, tx, put>>
gcVars == <<run, cursor, lock, faults>>

-----------------------------------------------------------------------------
\* A request that writes content

\* storage.put is started.
BeginPut(k) ==
    /\ req[k] = "new"
    /\ req' = [req EXCEPT ![k] = "putting"]
    /\ put' = [put EXCEPT ![k] = TRUE]
    /\ UNCHANGED <<tx, object, row, zeroAt, gcVars>>

\* The object is there, whether or not somebody still waits for it.
PutLands(k) ==
    /\ put[k]
    /\ put' = [put EXCEPT ![k] = FALSE]
    /\ object' = [object EXCEPT ![k] = "young"]
    /\ UNCHANGED <<req, tx, row, zeroAt, gcVars>>

\* storage.put fails; what was sent may be lost or still land.
PutFails(k) ==
    /\ req[k] = "putting" /\ put[k]
    /\ req' = [req EXCEPT ![k] = "over"]
    /\ put' \in {put, [put EXCEPT ![k] = FALSE]}
    /\ UNCHANGED <<tx, object, row, zeroAt, gcVars>>

\* storage.put succeeded but the body broke off or was too large: uploadStream
\* deletes what it stored.
PutDiscarded(k) ==
    /\ req[k] = "putting" /\ ~put[k]
    /\ req' = [req EXCEPT ![k] = "over"]
    /\ object' \in {object, [object EXCEPT ![k] = "absent"]}
    /\ UNCHANGED <<tx, put, row, zeroAt, gcVars>>

\* The upload is complete: the transaction that inserts the row begins.
BeginCommit(k) ==
    /\ req[k] = "putting" /\ ~put[k]
    /\ req' = [req EXCEPT ![k] = "committing"]
    /\ tx' = [tx EXCEPT ![k] = "open"]
    /\ UNCHANGED <<put, object, row, zeroAt, gcVars>>

\* The database commits; nobody need be waiting for it any more.
TxCommit(k) ==
    /\ tx[k] = "open"
    /\ tx' = [tx EXCEPT ![k] = "done"]
    /\ row' = [row EXCEPT ![k] = "live"]
    /\ UNCHANGED <<req, put, object, zeroAt, gcVars>>

\* The database rolls back a transaction whose client is gone.
TxAbort(k) ==
    /\ tx[k] = "open" /\ req[k] # "committing"
    /\ tx' = [tx EXCEPT ![k] = "done"]
    /\ UNCHANGED <<req, put, object, row, zeroAt, gcVars>>

\* The answer to the COMMIT arrives.
Answer(k) ==
    /\ req[k] = "committing" /\ tx[k] = "done"
    /\ req' = [req EXCEPT ![k] = "over"]
    /\ UNCHANGED <<tx, put, object, row, zeroAt, gcVars>>

\* The transaction is rolled back with an error below 500, or touch found that
\* the file exists by now and had no use for the object.
Refuse(k, to) ==
    /\ req[k] = "committing" /\ tx[k] = "open"
    /\ to \in {"refused", "replaced"}
    /\ tx' = [tx EXCEPT ![k] = "done"]
    /\ req' = [req EXCEPT ![k] = to]
    /\ UNCHANGED <<put, object, row, zeroAt, gcVars>>

\* Any other error: the connection broke, and the outcome is not known.
LoseAnswer(k) ==
    /\ req[k] = "committing"
    /\ req' = [req EXCEPT ![k] = "unclear"]
    /\ UNCHANGED <<tx, put, object, row, zeroAt, gcVars>>

\* Mutant: every error is taken for a rollback.
LookUpAnyError(k) ==
    /\ req[k] \in {"refused", "unclear"}
    /\ \E found \in {TRUE, row[k] # "none"} :
         req' = [req EXCEPT ![k] = IF ~found THEN "deleting" ELSE "over"]
    /\ UNCHANGED <<tx, put, object, row, zeroAt, gcVars>>

\* deleteUnreferencedUpload: only an object without a row goes, and only after
\* an error that says the transaction was rolled back.  A lookup that fails
\* counts as a row found.
LookUp(k) ==
    /\ req[k] \in {"refused", "unclear"}
    /\ \E found \in {TRUE, row[k] # "none"} :
         req' = [req EXCEPT ![k] = IF ~found /\ req[k] = "refused" THEN "deleting" ELSE "over"]
    /\ UNCHANGED <<tx, put, object, row, zeroAt, gcVars>>

\* The object is deleted; a failure is ignored.
DeleteUpload(k) ==
    /\ req[k] \in {"deleting", "replaced"}
    /\ req' = [req EXCEPT ![k] = "over"]
    /\ object' \in {object, [object EXCEPT ![k] = "absent"]}
    /\ UNCHANGED <<tx, put, row, zeroAt, gcVars>>

\* The process dies with the request.
RequestDies(k) ==
    /\ req[k] \notin {"new", "over"}
    /\ req' = [req EXCEPT ![k] = "over"]
    /\ UNCHANGED <<tx, put, object, row, zeroAt, gcVars>>

-----------------------------------------------------------------------------
\* The namespaces, and time

\* The last reference to a blob goes away and zero_since is recorded.
Release(k) ==
    /\ row[k] = "live"
    /\ row' = [row EXCEPT ![k] = "zero"]
    /\ zeroAt' = [zeroAt EXCEPT ![k] = 1 + Cardinality({j \in Key : zeroAt[j] > 0})]
    /\ UNCHANGED <<requestVars, object, gcVars>>

\* A request that has its object commits or is over before the object is older
\* than the grace period: the operator sets the period long enough.
InTime(k) == req[k] \notin {"putting", "committing"} /\ tx[k] # "open"

AgeObject(k) ==
    /\ object[k] = "young" /\ InTime(k)
    /\ object' = [object EXCEPT ![k] = "old"]
    /\ UNCHANGED <<requestVars, row, zeroAt, gcVars>>

AgeRow(k) ==
    /\ row[k] = "zero"
    /\ \A j \in Key : row[j] = "zero" => zeroAt[k] <= zeroAt[j]
    /\ row' = [row EXCEPT ![k] = "old"]
    /\ UNCHANGED <<requestVars, object, zeroAt, gcVars>>

-----------------------------------------------------------------------------
\* The collector: one stage over the objects, one over the blob rows

Idle == [pc |-> "idle", stage |-> "objects", at |-> 0, used |-> 0,
         todo |-> {}, deleted |-> {}]

\* The first entries of S behind a position.
Page(S, rank, after) ==
    {k \in S : /\ rank[k] > after
               /\ Cardinality({j \in S : rank[j] > after /\ rank[j] < rank[k]}) < PageSize}

\* Mutant: the position behind the last entry.
LastBeyond(page, rank, more) ==
    IF more THEN {rank[k] + 1 : k \in {k \in page : \A j \in page : rank[j] <= rank[k]}} ELSE {0}

\* The position of the last entry of a page; 0 when nothing is to follow it.
Last(page, rank, more) ==
    IF more THEN {rank[k] : k \in {k \in page : \A j \in page : rank[j] <= rank[k]}} ELSE {0}

\* GcStageBudget: a page costs at least one.
Cost(page) == IF page = {} THEN 1 ELSE Cardinality(page)

\* The advisory lock is free, or its connection broke and another got it.
StartRun(g) ==
    /\ run[g].pc = "idle" /\ lock = None
    /\ lock' = g
    /\ run' = [run EXCEPT ![g].pc = "read"]
    /\ UNCHANGED <<requestVars, object, row, zeroAt, cursor, faults>>

\* A stage goes on where an earlier run stopped.
ReadCursor(g) ==
    /\ run[g].pc = "read"
    /\ run' = [run EXCEPT ![g].pc = "list", ![g].at = cursor[run[g].stage], ![g].used = 0]
    /\ UNCHANGED <<requestVars, object, row, zeroAt, cursor, lock, faults>>

\* A page is read, and todo is left of it.
TakePage(g, pc, next, page, todo) ==
    run' = [run EXCEPT ![g] = [pc |-> pc, stage |-> run[g].stage, at |-> next,
                               used |-> run[g].used + Cost(page), todo |-> todo, deleted |-> {}]]

\* A page of the store; what is older than the grace period is suspected.
ListObjects(g) ==
    LET S == {k \in Key : object[k] # "absent"}
        rank == [k \in Key |-> k]
        page == Page(S, rank, run[g].at)
        truncated == page # {} /\ \E k \in S : \A j \in page : k > j
    IN  /\ run[g].pc = "list" /\ run[g].stage = "objects"
        /\ \E next \in Last(page, rank, truncated) :
             TakePage(g, "check", next, page, {k \in page : object[k] = "old"})
        /\ UNCHANGED <<requestVars, object, row, zeroAt, cursor, lock, faults>>

\* findKnownStorageKeys: what has a row is no orphan.
CheckObjects(g) ==
    /\ run[g].pc = "check"
    /\ run' = [run EXCEPT ![g].pc = "delete", ![g].todo = {k \in @ : row[k] = "none"}]
    /\ UNCHANGED <<requestVars, object, row, zeroAt, cursor, lock, faults>>

\* Mutant: the reference count is not looked at.
ListRowsAny(g) ==
    LET S == {k \in Key : row[k] # "none"}
        page == Page(S, zeroAt, run[g].at - 1)
    IN  /\ run[g].pc = "list" /\ run[g].stage = "blobs"
        /\ \E next \in Last(page, zeroAt, Cardinality(page) >= PageSize) :
             TakePage(g, "delete", next, page, page)
        /\ UNCHANGED <<requestVars, object, row, zeroAt, cursor, lock, faults>>

\* findOrphanBlobsPage, in the order of zero_since.
ListRows(g) ==
    LET S == {k \in Key : row[k] = "old"}
        page == Page(S, zeroAt, run[g].at)
    IN  /\ run[g].pc = "list" /\ run[g].stage = "blobs"
        /\ \E next \in Last(page, zeroAt, Cardinality(page) >= PageSize) :
             TakePage(g, "delete", next, page, page)
        /\ UNCHANGED <<requestVars, object, row, zeroAt, cursor, lock, faults>>

DeleteObject(g, k) ==
    /\ run[g].pc = "delete" /\ k \in run[g].todo
    /\ object' = [object EXCEPT ![k] = "absent"]
    /\ run' = [run EXCEPT ![g].todo = @ \ {k},
                          ![g].deleted = IF run[g].stage = "blobs" THEN @ \cup {k} ELSE @]
    /\ UNCHANGED <<requestVars, row, zeroAt, cursor, lock, faults>>

\* Mutant: a failed DELETE counts as done.
DeleteFailsUnnoticed(g, k) ==
    /\ run[g].pc = "delete" /\ k \in run[g].todo
    /\ run' = [run EXCEPT ![g].todo = @ \ {k}, ![g].deleted = @ \cup {k}]
    /\ UNCHANGED <<requestVars, object, row, zeroAt, cursor, lock, faults>>

DeleteFails(g, k) ==
    /\ run[g].pc = "delete" /\ k \in run[g].todo
    /\ run' = [run EXCEPT ![g].todo = @ \ {k}]
    /\ UNCHANGED <<requestVars, object, row, zeroAt, cursor, lock, faults>>

\* The rows of the objects that are gone are deleted by identifier.
DeleteBlobRows(g) ==
    /\ run[g].pc = "delete" /\ run[g].todo = {} /\ run[g].stage = "blobs"
    /\ row' = [k \in Key |-> IF k \in run[g].deleted THEN "none" ELSE row[k]]
    /\ run' = [run EXCEPT ![g].pc = "advance", ![g].deleted = {}]
    /\ UNCHANGED <<requestVars, object, zeroAt, cursor, lock, faults>>

PageDone(g) ==
    \/ run[g].pc = "advance"
    \/ run[g].pc = "delete" /\ run[g].todo = {} /\ run[g].stage = "objects"

\* Mutant: the position stays when the end is reached.
AdvanceKeepCursor(g) ==
    LET r == run[g]
    IN  /\ PageDone(g)
        /\ IF r.at # 0 /\ r.used < BudgetLimit
           THEN /\ run' = [run EXCEPT ![g].pc = "list"]
                /\ UNCHANGED <<cursor, lock>>
           ELSE /\ cursor' = IF r.at = 0 THEN cursor
                             ELSE [cursor EXCEPT ![r.stage] = r.at]
                /\ run' = [run EXCEPT ![g] = IF r.stage = "objects"
                                             THEN [Idle EXCEPT !.pc = "read", !.stage = "blobs"]
                                             ELSE Idle]
                /\ lock' = IF r.stage = "blobs" /\ lock = g THEN None ELSE lock
        /\ UNCHANGED <<requestVars, object, row, zeroAt, faults>>

\* runCursorStage: go on behind the page; at the end forget the position, and
\* when the budget is spent keep it for the next run.
Advance(g) ==
    LET r == run[g]
    IN  /\ PageDone(g)
        /\ IF r.at # 0 /\ r.used < BudgetLimit
           THEN /\ run' = [run EXCEPT ![g].pc = "list"]
                /\ UNCHANGED <<cursor, lock>>
           ELSE /\ cursor' = [cursor EXCEPT ![r.stage] = r.at]
                /\ run' = [run EXCEPT ![g] = IF r.stage = "objects"
                                             THEN [Idle EXCEPT !.pc = "read", !.stage = "blobs"]
                                             ELSE Idle]
                /\ lock' = IF r.stage = "blobs" /\ lock = g THEN None ELSE lock
        /\ UNCHANGED <<requestVars, object, row, zeroAt, faults>>

\* The process of a run dies or gives up on an error; its session ends.
RunDies(g) ==
    /\ run[g].pc # "idle" /\ faults < MaxFaults
    /\ faults' = faults + 1
    /\ run' = [run EXCEPT ![g] = Idle]
    /\ lock' = IF lock = g THEN None ELSE lock
    /\ UNCHANGED <<requestVars, object, row, zeroAt, cursor>>

\* The idle connection that holds the lock breaks; the run does not notice.
LoseLock ==
    /\ lock # None /\ faults < MaxFaults
    /\ faults' = faults + 1
    /\ lock' = None
    /\ UNCHANGED <<requestVars, object, row, zeroAt, run, cursor>>

-----------------------------------------------------------------------------
Init ==
    /\ req = [k \in Key |-> "new"]
    /\ tx = [k \in Key |-> "none"]
    /\ put = [k \in Key |-> FALSE]
    /\ object = [k \in Key |-> "absent"]
    /\ row = [k \in Key |-> "none"]
    /\ zeroAt = [k \in Key |-> 0]
    /\ run = [g \in Gc |-> Idle]
    /\ cursor = [s \in {"objects", "blobs"} |-> 0]
    /\ lock = None
    /\ faults = 0

RequestStep(k) ==
    \/ BeginPut(k) \/ PutLands(k) \/ PutFails(k) \/ PutDiscarded(k)
    \/ BeginCommit(k) \/ TxCommit(k) \/ TxAbort(k) \/ Answer(k)
    \/ \E to \in {"refused", "replaced"} : Refuse(k, to)
    \/ LoseAnswer(k) \/ LookUp(k) \/ DeleteUpload(k) \/ RequestDies(k)

GcStep(g) ==
    \/ ReadCursor(g) \/ ListObjects(g) \/ CheckObjects(g) \/ ListRows(g)
    \/ \E k \in Key : DeleteObject(g, k) \/ DeleteFails(g, k)
    \/ DeleteBlobRows(g) \/ Advance(g)

Next ==
    \/ \E k \in Key : RequestStep(k) \/ Release(k) \/ AgeObject(k) \/ AgeRow(k)
    \/ \E g \in Gc : StartRun(g) \/ GcStep(g) \/ RunDies(g)
    \/ LoseLock

Spec == Init /\ [][Next]_vars

\* Requests and transactions come to an end, time passes, the scheduler starts
\* the collector again and again, and a DELETE that is retried forever
\* succeeds at last.
Fairness ==
    /\ \A k \in Key : /\ WF_vars(TxCommit(k) \/ TxAbort(k))
                      /\ WF_vars(PutLands(k))
                      /\ WF_vars(AgeObject(k))
                      /\ WF_vars(AgeRow(k))
                      /\ SF_vars(\E g \in Gc : DeleteObject(g, k))
    /\ WF_vars(\E g \in Gc : StartRun(g))
    /\ \A g \in Gc : WF_vars(GcStep(g))

FairSpec == Spec /\ Fairness

-----------------------------------------------------------------------------
RunRow == [pc : {"idle", "read", "list", "check", "delete", "advance"},
           stage : {"objects", "blobs"}, at : 0..N,
           used : 0..(BudgetLimit + PageSize - 1), todo : SUBSET Key, deleted : SUBSET Key]

\* Every variable has its type; a stage begins no page once its budget is spent.
TypeOK ==
    /\ req \in [Key -> {"new", "putting", "committing", "refused", "replaced",
                        "unclear", "deleting", "over"}]
    /\ tx \in [Key -> {"none", "open", "done"}]
    /\ put \in [Key -> BOOLEAN]
    /\ object \in [Key -> {"absent", "young", "old"}]
    /\ row \in [Key -> {"none", "live", "zero", "old"}]
    /\ zeroAt \in [Key -> 0..N]
    /\ run \in [Gc -> RunRow]
    /\ cursor \in [{"objects", "blobs"} -> 0..N]
    /\ lock \in Gc \cup {None}
    /\ faults \in 0..MaxFaults

\* A blob that files, trash or snapshots refer to, or that lost its last
\* reference less than the grace period ago, can be read: no cleanup after an
\* error and no overlap of collector runs has removed its object.
ReferencedObjectExists ==
    \A k \in Key : row[k] \in {"live", "zero"} => object[k] # "absent"

\* A row is removed only after its object: the store never keeps an object of
\* which the database has forgotten that it was once referred to.
RowOutlivesObject ==
    [][\A k \in Key : row[k] # "none" /\ row'[k] = "none" => object[k] = "absent"]_vars

\* The steps of the blob rows are those of BlobRows: what a run deletes by
\* identifier, and read without a lock before, still has no reference.
Rows == INSTANCE BlobRows WITH
    BlobId <- Key, row <- [k \in Key |-> IF row[k] = "old" THEN "zero" ELSE row[k]]
RowLifecycle == Rows!Spec

\* An object nobody refers to or will refer to is removed in the end, whatever
\* dies, fails or runs out of its budget.
OrphanObjectsCollected ==
    \A k \in Key :
      (object[k] # "absent" /\ row[k] = "none" /\ req[k] = "over" /\ tx[k] # "open")
        ~> object[k] = "absent"

\* A row without a reference is removed in the end.
DeadRowsCollected == \A k \in Key : row[k] = "zero" ~> row[k] = "none"

\* "GC runs one instance at a time, so updates of the cursor do not compete."
OneRunAtATime ==
    \A g, h \in Gc : run[g].pc # "idle" /\ run[h].pc # "idle" => g = h
=============================================================================
