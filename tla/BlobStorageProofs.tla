------------------------- MODULE BlobStorageProofs -------------------------
(***************************************************************************)
(* The objects that blob rows refer to are never removed, for any number   *)
(* of requests and of collector runs that overlap in any way, any page     *)
(* size and any budget.                                                    *)
(***************************************************************************)
EXTENDS BlobStorage, FiniteSetTheorems, TLAPS

\* The request of k will not commit any more, and neither will the database.
Settled(k) == req[k] \notin {"new", "putting", "committing"} /\ tx[k] # "open"

\* The types the proof needs: how much of its budget a stage has used does not
\* matter to it.
Pc == {"idle", "read", "list", "check", "delete", "advance"}
RunType == [pc : Pc, stage : {"objects", "blobs"}, at : Nat, used : Nat,
            todo : SUBSET Key, deleted : SUBSET Key]

Types ==
    /\ req \in [Key -> {"new", "putting", "committing", "refused", "replaced",
                        "unclear", "deleting", "over"}]
    /\ tx \in [Key -> {"none", "open", "done"}]
    /\ put \in [Key -> BOOLEAN]
    /\ object \in [Key -> {"absent", "young", "old"}]
    /\ row \in [Key -> {"none", "live", "zero", "old"}]
    /\ zeroAt \in [Key -> Nat]
    /\ run \in [Gc -> RunType]
    /\ cursor \in [{"objects", "blobs"} -> Nat]

\* What holds of the request of k, its transaction, its object and its row.
RequestInv(k) ==
    /\ row[k] \in {"live", "zero"} => object[k] # "absent"
    /\ row[k] # "none" => tx[k] = "done"
    /\ req[k] = "new" => object[k] = "absent"
    /\ req[k] \in {"new", "putting"} => tx[k] = "none"
    /\ req[k] = "putting" /\ ~put[k] => object[k] = "young"
    /\ req[k] = "committing" => tx[k] # "none"
    /\ req[k] \in {"refused", "replaced", "deleting"} => tx[k] = "done" /\ row[k] = "none"
    /\ put[k] => tx[k] = "none" /\ req[k] # "new"
    /\ tx[k] = "open" => object[k] = "young"
    /\ object[k] = "old" => Settled(k)

\* What holds of a key the run g has in hand.
HandInv(g, k) ==
    /\ k \in run[g].todo => run[g].pc \in {"check", "delete"}
    /\ k \in run[g].todo /\ run[g].stage = "objects" =>
         Settled(k) /\ (run[g].pc = "delete" => row[k] = "none")
    /\ k \in run[g].todo /\ run[g].stage = "blobs" =>
         row[k] \in {"old", "none"} /\ tx[k] = "done"
    /\ k \in run[g].deleted =>
         /\ run[g].pc = "delete" /\ run[g].stage = "blobs"
         /\ row[k] \in {"old", "none"} /\ tx[k] = "done" /\ object[k] = "absent"

\* The inductive invariant.
IInv ==
    /\ Types
    /\ \A k \in Key : RequestInv(k)
    /\ \A g \in Gc : run[g].pc = "check" => run[g].stage = "objects"
    /\ \A g \in Gc, k \in Key : HandInv(g, k)

\* The rows as BlobRows sees them.
RowView(r) == [k \in Key |-> IF r[k] = "old" THEN "zero" ELSE r[k]]

\* What a step does to the rows: each takes a step of its life, and one that
\* goes away has lost its object before.
Lives ==
    /\ \A k \in Key : Rows!Step(RowView(row)[k], RowView(row')[k])
    /\ \A k \in Key : row[k] # "none" /\ row'[k] = "none" => object[k] = "absent"

-----------------------------------------------------------------------------
\* Sets of keys are finite.
LEMMA KeysFinite ==
  ASSUME NEW S, S \subseteq Key
  PROVE  IsFiniteSet(S) /\ Cardinality(S) \in Nat
<1>1. 1 \in Int /\ N \in Int
  BY KeyAssumption
<1>2. IsFiniteSet(Key)
  BY <1>1, FS_Interval DEF Key
<1> QED BY <1>2, FS_Subset, FS_CardinalityType

\* The next place in the order of zero_since is a number.
LEMMA ZeroAtType == 1 + Cardinality({j \in Key : zeroAt[j] > 0}) \in Nat
<1>1. Cardinality({j \in Key : zeroAt[j] > 0}) \in Nat
  BY KeysFinite
<1> QED BY <1>1

\* A page is a part of what is listed; its cost and the position behind it are
\* numbers.
LEMMA PageType ==
  ASSUME NEW S, S \subseteq Key, NEW rank \in [Key -> Nat], NEW after, NEW more \in BOOLEAN
  PROVE  /\ Page(S, rank, after) \subseteq S
         /\ Cost(Page(S, rank, after)) \in Nat
         /\ Last(Page(S, rank, after), rank, more) \subseteq Nat
<1>1. Page(S, rank, after) \subseteq S
  BY DEF Page
<1>2. Cardinality(Page(S, rank, after)) \in Nat
  BY <1>1, KeysFinite
<1> QED BY <1>1, <1>2 DEF Cost, Last

\* A step that leaves the runs alone keeps the invariant when it does so for
\* every key.
LEMMA Assemble ==
  ASSUME IInv, UNCHANGED run, Types', \A j \in Key : RequestInv(j)',
         \A g \in Gc, j \in Key : HandInv(g, j)', Lives
  PROVE  IInv' /\ Lives
BY DEF IInv

\* The request of a key keeps the invariant.
LEMMA RequestStepStep ==
  ASSUME IInv, NEW k \in Key, RequestStep(k)
  PROVE  IInv' /\ Lives
<1>1. Types /\ (\A j \in Key : RequestInv(j)) /\ \A g \in Gc, j \in Key : HandInv(g, j)
  BY DEF IInv
<1> USE DEF requestVars, gcVars
<1>2. CASE BeginPut(k)
  <2>1. Types' /\ UNCHANGED run
    BY <1>1, <1>2 DEF Types, BeginPut
  <2>2. \A j \in Key : RequestInv(j)'
    BY <1>1, <1>2 DEF BeginPut, Types, RequestInv, Settled
  <2>3. \A g \in Gc, j \in Key : HandInv(g, j)'
    BY <1>1, <1>2 DEF BeginPut, Types, RequestInv, HandInv, Settled
  <2>4. Lives
    BY <1>1, <1>2 DEF BeginPut, Types, RequestInv, Lives, RowView, Rows!Step
  <2> QED BY <2>1, <2>2, <2>3, <2>4, Assemble
<1>3. CASE PutLands(k)
  <2>1. Types' /\ UNCHANGED run
    BY <1>1, <1>3 DEF Types, PutLands
  <2>2. \A j \in Key : RequestInv(j)'
    BY <1>1, <1>3 DEF PutLands, Types, RequestInv, Settled
  <2>3. \A g \in Gc, j \in Key : HandInv(g, j)'
    BY <1>1, <1>3 DEF PutLands, Types, RequestInv, HandInv, Settled
  <2>4. Lives
    BY <1>1, <1>3 DEF PutLands, Types, RequestInv, Lives, RowView, Rows!Step
  <2> QED BY <2>1, <2>2, <2>3, <2>4, Assemble
<1>4. CASE PutFails(k)
  <2>1. Types' /\ UNCHANGED run
    BY <1>1, <1>4, Zenon DEF Types, PutFails
  <2>2. \A j \in Key : RequestInv(j)'
    BY <1>1, <1>4 DEF PutFails, Types, RequestInv, Settled
  <2>3. \A g \in Gc, j \in Key : HandInv(g, j)'
    BY <1>1, <1>4 DEF PutFails, Types, RequestInv, HandInv, Settled
  <2>4. Lives
    BY <1>1, <1>4 DEF PutFails, Types, RequestInv, Lives, RowView, Rows!Step
  <2> QED BY <2>1, <2>2, <2>3, <2>4, Assemble
<1>5. CASE PutDiscarded(k)
  <2>1. Types' /\ UNCHANGED run
    BY <1>1, <1>5 DEF Types, PutDiscarded
  <2>2. \A j \in Key : RequestInv(j)'
    BY <1>1, <1>5 DEF PutDiscarded, Types, RequestInv, Settled
  <2>3. \A g \in Gc, j \in Key : HandInv(g, j)'
    BY <1>1, <1>5 DEF PutDiscarded, Types, RequestInv, HandInv, Settled
  <2>4. Lives
    BY <1>1, <1>5 DEF PutDiscarded, Types, RequestInv, Lives, RowView, Rows!Step
  <2> QED BY <2>1, <2>2, <2>3, <2>4, Assemble
<1>6. CASE BeginCommit(k)
  <2>1. Types' /\ UNCHANGED run
    BY <1>1, <1>6 DEF Types, BeginCommit
  <2>2. \A j \in Key : RequestInv(j)'
    BY <1>1, <1>6 DEF BeginCommit, Types, RequestInv, Settled
  <2>3. \A g \in Gc, j \in Key : HandInv(g, j)'
    BY <1>1, <1>6 DEF BeginCommit, Types, RequestInv, HandInv, Settled
  <2>4. Lives
    BY <1>1, <1>6 DEF BeginCommit, Types, RequestInv, Lives, RowView, Rows!Step
  <2> QED BY <2>1, <2>2, <2>3, <2>4, Assemble
<1>7. CASE TxCommit(k)
  <2>1. Types' /\ UNCHANGED run
    BY <1>1, <1>7 DEF Types, TxCommit
  <2>2. \A j \in Key : RequestInv(j)'
    BY <1>1, <1>7 DEF TxCommit, Types, RequestInv, Settled
  <2>3. \A g \in Gc, j \in Key : HandInv(g, j)'
    BY <1>1, <1>7 DEF TxCommit, Types, RequestInv, HandInv, Settled
  <2>4. Lives
    BY <1>1, <1>7 DEF TxCommit, Types, RequestInv, Lives, RowView, Rows!Step
  <2> QED BY <2>1, <2>2, <2>3, <2>4, Assemble
<1>8. CASE TxAbort(k)
  <2>1. Types' /\ UNCHANGED run
    BY <1>1, <1>8 DEF Types, TxAbort
  <2>2. \A j \in Key : RequestInv(j)'
    BY <1>1, <1>8 DEF TxAbort, Types, RequestInv, Settled
  <2>3. \A g \in Gc, j \in Key : HandInv(g, j)'
    BY <1>1, <1>8 DEF TxAbort, Types, RequestInv, HandInv, Settled
  <2>4. Lives
    BY <1>1, <1>8 DEF TxAbort, Types, RequestInv, Lives, RowView, Rows!Step
  <2> QED BY <2>1, <2>2, <2>3, <2>4, Assemble
<1>9. CASE Answer(k)
  <2>1. Types' /\ UNCHANGED run
    BY <1>1, <1>9 DEF Types, Answer
  <2>2. \A j \in Key : RequestInv(j)'
    BY <1>1, <1>9 DEF Answer, Types, RequestInv, Settled
  <2>3. \A g \in Gc, j \in Key : HandInv(g, j)'
    BY <1>1, <1>9 DEF Answer, Types, RequestInv, HandInv, Settled
  <2>4. Lives
    BY <1>1, <1>9 DEF Answer, Types, RequestInv, Lives, RowView, Rows!Step
  <2> QED BY <2>1, <2>2, <2>3, <2>4, Assemble
<1>10. CASE \E to \in {"refused", "replaced"} : Refuse(k, to)
  <2>1. Types' /\ UNCHANGED run
    BY <1>1, <1>10 DEF Types, Refuse
  <2>2. \A j \in Key : RequestInv(j)'
    BY <1>1, <1>10 DEF Refuse, Types, RequestInv, Settled
  <2>3. \A g \in Gc, j \in Key : HandInv(g, j)'
    BY <1>1, <1>10 DEF Refuse, Types, RequestInv, HandInv, Settled
  <2>4. Lives
    BY <1>1, <1>10 DEF Refuse, Types, RequestInv, Lives, RowView, Rows!Step
  <2> QED BY <2>1, <2>2, <2>3, <2>4, Assemble
<1>11. CASE LoseAnswer(k)
  <2>1. Types' /\ UNCHANGED run
    BY <1>1, <1>11 DEF Types, LoseAnswer
  <2>2. \A j \in Key : RequestInv(j)'
    BY <1>1, <1>11 DEF LoseAnswer, Types, RequestInv, Settled
  <2>3. \A g \in Gc, j \in Key : HandInv(g, j)'
    BY <1>1, <1>11 DEF LoseAnswer, Types, RequestInv, HandInv, Settled
  <2>4. Lives
    BY <1>1, <1>11 DEF LoseAnswer, Types, RequestInv, Lives, RowView, Rows!Step
  <2> QED BY <2>1, <2>2, <2>3, <2>4, Assemble
<1>12. CASE LookUp(k)
  <2>1. Types' /\ UNCHANGED run
    BY <1>1, <1>12 DEF Types, LookUp
  <2>2. \A j \in Key : RequestInv(j)'
    BY <1>1, <1>12 DEF LookUp, Types, RequestInv, Settled
  <2>3. \A g \in Gc, j \in Key : HandInv(g, j)'
    BY <1>1, <1>12 DEF LookUp, Types, RequestInv, HandInv, Settled
  <2>4. Lives
    BY <1>1, <1>12 DEF LookUp, Types, RequestInv, Lives, RowView, Rows!Step
  <2> QED BY <2>1, <2>2, <2>3, <2>4, Assemble
<1>13. CASE DeleteUpload(k)
  <2>1. Types' /\ UNCHANGED run
    BY <1>1, <1>13 DEF Types, DeleteUpload
  <2>2. \A j \in Key : RequestInv(j)'
    BY <1>1, <1>13 DEF DeleteUpload, Types, RequestInv, Settled
  <2>3. \A g \in Gc, j \in Key : HandInv(g, j)'
    BY <1>1, <1>13 DEF DeleteUpload, Types, RequestInv, HandInv, Settled
  <2>4. Lives
    BY <1>1, <1>13 DEF DeleteUpload, Types, RequestInv, Lives, RowView, Rows!Step
  <2> QED BY <2>1, <2>2, <2>3, <2>4, Assemble
<1>14. CASE RequestDies(k)
  <2>1. Types' /\ UNCHANGED run
    BY <1>1, <1>14 DEF Types, RequestDies
  <2>2. \A j \in Key : RequestInv(j)'
    BY <1>1, <1>14 DEF RequestDies, Types, RequestInv, Settled
  <2>3. \A g \in Gc, j \in Key : HandInv(g, j)'
    BY <1>1, <1>14 DEF RequestDies, Types, RequestInv, HandInv, Settled
  <2>4. Lives
    BY <1>1, <1>14 DEF RequestDies, Types, RequestInv, Lives, RowView, Rows!Step
  <2> QED BY <2>1, <2>2, <2>3, <2>4, Assemble
<1> QED BY <1>2, <1>3, <1>4, <1>5, <1>6, <1>7, <1>8, <1>9, <1>10, <1>11, <1>12, <1>13, <1>14 DEF RequestStep

\* So do the namespaces, and time.
LEMMA WorldStep ==
  ASSUME IInv, NEW k \in Key, Release(k) \/ AgeObject(k) \/ AgeRow(k)
  PROVE  IInv' /\ Lives
<1>1. Types /\ (\A j \in Key : RequestInv(j)) /\ \A g \in Gc, j \in Key : HandInv(g, j)
  BY DEF IInv
<1> USE DEF requestVars, gcVars
<1>2. CASE Release(k)
  <2>1. Types' /\ UNCHANGED run
    BY <1>1, <1>2, ZeroAtType DEF Types, Release
  <2>2. \A j \in Key : RequestInv(j)'
    BY <1>1, <1>2 DEF Release, InTime, Types, RequestInv, Settled
  <2>3. \A g \in Gc, j \in Key : HandInv(g, j)'
    BY <1>1, <1>2 DEF Release, Types, RequestInv, HandInv, Settled
  <2>4. Lives
    BY <1>1, <1>2 DEF Release, Types, RequestInv, Lives, RowView, Rows!Step
  <2> QED BY <2>1, <2>2, <2>3, <2>4, Assemble
<1>3. CASE AgeObject(k)
  <2>1. Types' /\ UNCHANGED run
    BY <1>1, <1>3 DEF Types, AgeObject
  <2>2. \A j \in Key : RequestInv(j)'
    BY <1>1, <1>3 DEF AgeObject, InTime, Types, RequestInv, Settled
  <2>3. \A g \in Gc, j \in Key : HandInv(g, j)'
    BY <1>1, <1>3 DEF AgeObject, Types, RequestInv, HandInv, Settled
  <2>4. Lives
    BY <1>1, <1>3 DEF AgeObject, Types, RequestInv, Lives, RowView, Rows!Step
  <2> QED BY <2>1, <2>2, <2>3, <2>4, Assemble
<1>4. CASE AgeRow(k)
  <2>1. Types' /\ UNCHANGED run
    BY <1>1, <1>4 DEF Types, AgeRow
  <2>2. \A j \in Key : RequestInv(j)'
    BY <1>1, <1>4 DEF AgeRow, InTime, Types, RequestInv, Settled
  <2>3. \A g \in Gc, j \in Key : HandInv(g, j)'
    BY <1>1, <1>4 DEF AgeRow, Types, RequestInv, HandInv, Settled
  <2>4. Lives
    BY <1>1, <1>4 DEF AgeRow, Types, RequestInv, Lives, RowView, Rows!Step
  <2> QED BY <2>1, <2>2, <2>3, <2>4, Assemble
<1> QED BY <1>2, <1>3, <1>4

\* A step of a run leaves the requests alone.
LEMMA AssembleRun ==
  ASSUME IInv, UNCHANGED <<req, tx, put>>, NEW g \in Gc, \A h \in Gc \ {g} : run'[h] = run[h],
         Types', \A j \in Key : RequestInv(j)',
         \A h \in Gc, j \in Key : HandInv(h, j)',
         run'[g].pc = "check" => run'[g].stage = "objects", Lives
  PROVE  IInv' /\ Lives
BY DEF IInv

\* A run that begins or dies keeps the invariant.
LEMMA RunBoundsStep ==
  ASSUME IInv, NEW g \in Gc, StartRun(g) \/ RunDies(g)
  PROVE  IInv' /\ Lives
<1>1. /\ Types
      /\ \A j \in Key : RequestInv(j)
      /\ \A h \in Gc, j \in Key : HandInv(h, j)
      /\ run[g].pc = "check" => run[g].stage = "objects"
  BY DEF IInv
<1> USE DEF requestVars
<1>2. CASE StartRun(g)
  <2>1. Types'
    BY <1>1, <1>2, SMTT(40) DEF Types, RunType, Pc, StartRun
  <2>2. UNCHANGED <<req, tx, put>> /\ (\A h \in Gc \ {g} : run'[h] = run[h])
    BY <1>1, <1>2 DEF Types, RunType, Pc, StartRun
  <2>3. \A j \in Key : RequestInv(j)'
    BY <1>1, <1>2 DEF StartRun, Types, RequestInv, HandInv, Settled
  <2>4. \A h \in Gc, j \in Key : HandInv(h, j)'
    BY <1>1, <1>2 DEF StartRun, Types, RequestInv, HandInv, Settled
  <2>5. run'[g].pc = "check" => run'[g].stage = "objects"
    BY <1>1, <1>2 DEF Types, RunType, Pc, StartRun
  <2>6. Lives
    BY <1>1, <1>2 DEF StartRun, Types, RequestInv, HandInv, Lives, RowView, Rows!Step
  <2> QED BY <2>1, <2>2, <2>3, <2>4, <2>5, <2>6, AssembleRun
<1>3. CASE RunDies(g)
  <2>1. Types'
    BY <1>1, <1>3 DEF Types, RunType, Pc, RunDies, Idle
  <2>2. UNCHANGED <<req, tx, put>> /\ (\A h \in Gc \ {g} : run'[h] = run[h])
    BY <1>1, <1>3 DEF Types, RunType, Pc, RunDies, Idle
  <2>3. \A j \in Key : RequestInv(j)'
    BY <1>1, <1>3 DEF RunDies, Idle, Types, RequestInv, HandInv, Settled
  <2>4. \A h \in Gc, j \in Key : HandInv(h, j)'
    BY <1>1, <1>3 DEF RunDies, Idle, Types, RequestInv, HandInv, Settled
  <2>5. run'[g].pc = "check" => run'[g].stage = "objects"
    BY <1>1, <1>3 DEF Types, RunType, Pc, RunDies, Idle
  <2>6. Lives
    BY <1>1, <1>3 DEF RunDies, Idle, Types, RequestInv, HandInv, Lives, RowView, Rows!Step
  <2> QED BY <2>1, <2>2, <2>3, <2>4, <2>5, <2>6, AssembleRun
<1> QED BY <1>2, <1>3

\* A run that has checked its page keeps its type.
LEMMA RunPcTodo ==
  ASSUME NEW R \in [Gc -> RunType], NEW g \in Gc, NEW pc \in Pc, NEW todo \in SUBSET Key
  PROVE  [R EXCEPT ![g].pc = pc, ![g].todo = todo] \in [Gc -> RunType]
BY Zenon DEF RunType

\* A run that has deleted its rows keeps its type.
LEMMA RunPcDeleted ==
  ASSUME NEW R \in [Gc -> RunType], NEW g \in Gc, NEW pc \in Pc, NEW deleted \in SUBSET Key
  PROVE  [R EXCEPT ![g].pc = pc, ![g].deleted = deleted] \in [Gc -> RunType]
BY Zenon DEF RunType

\* A run that is done with a key keeps its type.
LEMMA RunTodo ==
  ASSUME NEW R \in [Gc -> RunType], NEW g \in Gc, NEW todo \in SUBSET Key
  PROVE  [R EXCEPT ![g].todo = todo] \in [Gc -> RunType]
BY DEF RunType

\* A run that has deleted an object keeps its type.
LEMMA RunTodoDeleted ==
  ASSUME NEW R \in [Gc -> RunType], NEW g \in Gc, NEW todo \in SUBSET Key, NEW deleted \in SUBSET Key
  PROVE  [R EXCEPT ![g].todo = todo, ![g].deleted = deleted] \in [Gc -> RunType]
BY Zenon DEF RunType

\* A run that starts a stage keeps its type.
LEMMA RunPcAtUsed ==
  ASSUME NEW R \in [Gc -> RunType], NEW g \in Gc, NEW pc \in Pc, NEW at \in Nat, NEW used \in Nat
  PROVE  [R EXCEPT ![g].pc = pc, ![g].at = at, ![g].used = used] \in [Gc -> RunType]
<1> DEFINE R1 == [R EXCEPT ![g].pc = pc, ![g].at = at]
<1>1. R1 \in [Gc -> RunType]
  BY Zenon DEF RunType
<1>3. [R EXCEPT ![g].pc = pc, ![g].at = at, ![g].used = used] = [R1 EXCEPT ![g].used = used]
  OBVIOUS
<1> HIDE DEF R1
<1> QED BY <1>1, <1>3 DEF RunType

\* A run that goes through its stages keeps the invariant.
LEMMA GcStepStep ==
  ASSUME IInv, NEW g \in Gc, GcStep(g)
  PROVE  IInv' /\ Lives
<1>1. /\ Types
      /\ \A j \in Key : RequestInv(j)
      /\ \A h \in Gc, j \in Key : HandInv(h, j)
      /\ run[g].pc = "check" => run[g].stage = "objects"
  BY DEF IInv
<1>0. /\ run[g] \in RunType /\ run[g].stage \in {"objects", "blobs"} /\ run[g].used \in Nat
      /\ run[g].todo \subseteq Key /\ run[g].deleted \subseteq Key
  BY <1>1 DEF Types, RunType
<1>a. run \in [Gc -> RunType]
  BY <1>1 DEF Types
<1> USE DEF requestVars
<1>2. CASE ReadCursor(g)
  <2>1. /\ run' = [run EXCEPT ![g].pc = "list", ![g].at = cursor[run[g].stage], ![g].used = 0]
        /\ cursor[run[g].stage] \in Nat /\ 0 \in Nat /\ "list" \in Pc
    BY <1>0, <1>1, <1>2, SMTT(40) DEF ReadCursor, Types, Pc
  <2>2. run' \in [Gc -> RunType]
    BY <1>1, <2>1, RunPcAtUsed, Zenon DEF Types
  <2>3. Types'
    BY <1>1, <1>2, <2>2 DEF Types, ReadCursor
  <2>4. UNCHANGED <<req, tx, put>> /\ \A h \in Gc \ {g} : run'[h] = run[h]
    BY <1>1, <1>2 DEF Types, ReadCursor
  <2>5. \A j \in Key : RequestInv(j)'
    BY <1>1, <1>2 DEF ReadCursor, Types, RequestInv, HandInv, Settled
  <2>6. \A h \in Gc, j \in Key : HandInv(h, j)'
    BY <1>1, <1>2 DEF ReadCursor, Types, RequestInv, HandInv, Settled
  <2>7. run'[g].pc = "check" => run'[g].stage = "objects"
    BY <1>1, <1>2 DEF Types, ReadCursor
  <2>8. Lives
    BY <1>1, <1>2 DEF ReadCursor, Types, RequestInv, HandInv, Lives, RowView, Rows!Step
  <2> QED BY <2>3, <2>4, <2>5, <2>6, <2>7, <2>8, AssembleRun
<1>3. CASE ListObjects(g)
  <2> DEFINE S == {k \in Key : object[k] # "absent"}
             rank == [k \in Key |-> k]
             page == Page(S, rank, run[g].at)
             todo == {k \in page : object[k] = "old"}
  <2>1. PICK next \in Last(page, rank, page # {} /\ \E k \in S : \A j \in page : k > j) :
          TakePage(g, "check", next, page, todo)
    BY <1>3, Zenon DEF ListObjects
  <2>2. /\ run[g].stage = "objects" /\ run[g].pc = "list"
        /\ UNCHANGED <<req, tx, put, object, row, zeroAt, cursor>>
    BY <1>3 DEF ListObjects
  <2>3. S \subseteq Key /\ page \subseteq S /\ Cost(page) \in Nat /\ next \in Nat
    <3>1. S \subseteq Key /\ rank \in [Key -> Nat] /\ (page # {} /\ \E k \in S : \A j \in page : k > j) \in BOOLEAN
      BY <1>1, KeyAssumption DEF Types, Key
    <3> QED BY <3>1, <2>1, PageType, Zenon
  <2>4. todo \subseteq page
    OBVIOUS
  <2>5. \A j \in todo : Settled(j)
    BY <2>3, <1>1 DEF RequestInv
  <2> HIDE DEF S, rank, page, todo
  <2>6. todo \in SUBSET Key /\ run[g].used + Cost(page) \in Nat /\ "check" \in Pc
    BY <1>0, <2>3, <2>4, SMTT(40) DEF Pc
  <2>7. /\ run' \in [Gc -> RunType]
        /\ run'[g].pc = "check" /\ run'[g].stage = "objects" /\ run'[g].todo = todo
        /\ run'[g].deleted = {} /\ \A h \in Gc \ {g} : run'[h] = run[h]
    BY <1>a, <2>1, <2>2, <2>3, <2>6 DEF TakePage, RunType
  <2>8. Types'
    BY <1>1, <2>2, <2>7 DEF Types
  <2>9. \A j \in Key : RequestInv(j)'
    BY <1>1, <2>2 DEF RequestInv, Settled
  <2>10. \A h \in Gc, j \in Key : HandInv(h, j)'
    BY <1>1, <2>2, <2>5, <2>7 DEF HandInv, Settled
  <2>11. Lives
    BY <2>2 DEF Lives, RowView, Rows!Step
  <2> QED BY <2>2, <2>7, <2>8, <2>9, <2>10, <2>11, AssembleRun
<1>4. CASE CheckObjects(g)
  <2>1. /\ run' = [run EXCEPT ![g].pc = "delete", ![g].todo = {k \in run[g].todo : row[k] = "none"}]
        /\ {k \in run[g].todo : row[k] = "none"} \in SUBSET Key /\ "delete" \in Pc
    BY <1>0, <1>1, <1>4 DEF CheckObjects, Types, Pc
  <2>2. run' \in [Gc -> RunType]
    BY <1>1, <2>1, RunPcTodo, Zenon DEF Types
  <2>3. Types'
    BY <1>1, <1>4, <2>2 DEF Types, CheckObjects
  <2>4. UNCHANGED <<req, tx, put>> /\ \A h \in Gc \ {g} : run'[h] = run[h]
    BY <1>1, <1>4 DEF Types, CheckObjects
  <2>5. \A j \in Key : RequestInv(j)'
    BY <1>1, <1>4 DEF CheckObjects, Types, RequestInv, HandInv, Settled
  <2>6. \A h \in Gc, j \in Key : HandInv(h, j)'
    BY <1>1, <1>4 DEF CheckObjects, Types, RequestInv, HandInv, Settled
  <2>7. run'[g].pc = "check" => run'[g].stage = "objects"
    BY <1>1, <1>4 DEF Types, CheckObjects
  <2>8. Lives
    BY <1>1, <1>4 DEF CheckObjects, Types, RequestInv, HandInv, Lives, RowView, Rows!Step
  <2> QED BY <2>3, <2>4, <2>5, <2>6, <2>7, <2>8, AssembleRun
<1>5. CASE ListRows(g)
  <2> DEFINE S == {k \in Key : row[k] = "old"}
             rank == zeroAt
             page == Page(S, rank, run[g].at)
             todo == page
  <2>1. PICK next \in Last(page, rank, Cardinality(page) >= PageSize) :
          TakePage(g, "delete", next, page, todo)
    BY <1>5 DEF ListRows
  <2>2. /\ run[g].stage = "blobs" /\ run[g].pc = "list"
        /\ UNCHANGED <<req, tx, put, object, row, zeroAt, cursor>>
    BY <1>5 DEF ListRows
  <2>3. S \subseteq Key /\ page \subseteq S /\ Cost(page) \in Nat /\ next \in Nat
    <3>1. S \subseteq Key /\ rank \in [Key -> Nat] /\ (Cardinality(page) >= PageSize) \in BOOLEAN
      BY <1>1, KeyAssumption DEF Types, Key
    <3> QED BY <3>1, <2>1, PageType, Zenon
  <2>4. todo \subseteq page
    OBVIOUS
  <2>5. \A j \in todo : row[j] = "old" /\ tx[j] = "done"
    BY <2>3, <1>1 DEF RequestInv
  <2> HIDE DEF S, rank, page, todo
  <2>6. todo \in SUBSET Key /\ run[g].used + Cost(page) \in Nat /\ "delete" \in Pc
    BY <1>0, <2>3, <2>4 DEF Pc
  <2>7. /\ run' \in [Gc -> RunType]
        /\ run'[g].pc = "delete" /\ run'[g].stage = "blobs" /\ run'[g].todo = todo
        /\ run'[g].deleted = {} /\ \A h \in Gc \ {g} : run'[h] = run[h]
    BY <1>a, <2>1, <2>2, <2>3, <2>6, SMTT(40) DEF TakePage, RunType
  <2>8. Types'
    BY <1>1, <2>2, <2>7 DEF Types
  <2>9. \A j \in Key : RequestInv(j)'
    BY <1>1, <2>2 DEF RequestInv, Settled
  <2>10. \A h \in Gc, j \in Key : HandInv(h, j)'
    BY <1>1, <2>2, <2>5, <2>7 DEF HandInv, Settled
  <2>11. Lives
    BY <2>2 DEF Lives, RowView, Rows!Step
  <2> QED BY <2>2, <2>7, <2>8, <2>9, <2>10, <2>11, AssembleRun
<1>6. ASSUME NEW k \in Key, DeleteObject(g, k) PROVE IInv' /\ Lives
  <2> DEFINE deleted == IF run[g].stage = "blobs" THEN run[g].deleted \cup {k} ELSE run[g].deleted
  <2>1. /\ run' = [run EXCEPT ![g].todo = run[g].todo \ {k}, ![g].deleted = deleted]
        /\ run[g].todo \ {k} \in SUBSET Key /\ deleted \in SUBSET Key
    BY <1>0, <1>1, <1>6 DEF DeleteObject, Types
  <2> HIDE DEF deleted
  <2>2. run' \in [Gc -> RunType]
    BY <1>1, <2>1, RunTodoDeleted, Zenon DEF Types
  <2>3. Types'
    BY <1>1, <1>6, <2>2 DEF Types, DeleteObject
  <2>4. UNCHANGED <<req, tx, put>> /\ \A h \in Gc \ {g} : run'[h] = run[h]
    BY <1>1, <1>6 DEF Types, DeleteObject
  <2>9. row[k] \in {"old", "none"} /\ tx[k] # "open" /\ req[k] # "putting"
    BY <1>0, <1>1, <1>6 DEF DeleteObject, RequestInv, HandInv, Settled
  <2>5. \A j \in Key : RequestInv(j)'
    BY <1>1, <1>6, <2>9 DEF DeleteObject, Types, RequestInv, Settled
  <2>6. \A h \in Gc, j \in Key : HandInv(h, j)'
    BY <1>1, <1>6 DEF DeleteObject, Types, RequestInv, HandInv, Settled
  <2>7. run'[g].pc = "check" => run'[g].stage = "objects"
    BY <1>1, <1>6 DEF Types, DeleteObject
  <2>8. Lives
    BY <1>1, <1>6 DEF DeleteObject, Types, RequestInv, HandInv, Lives, RowView, Rows!Step
  <2> QED BY <2>3, <2>4, <2>5, <2>6, <2>7, <2>8, AssembleRun
<1>7. ASSUME NEW k \in Key, DeleteFails(g, k) PROVE IInv' /\ Lives
  <2>1. run' = [run EXCEPT ![g].todo = run[g].todo \ {k}] /\ run[g].todo \ {k} \in SUBSET Key
    BY <1>0, <1>1, <1>7 DEF DeleteFails, Types
  <2>2. run' \in [Gc -> RunType]
    BY <1>1, <2>1, RunTodo, Zenon DEF Types
  <2>3. Types'
    BY <1>1, <1>7, <2>2 DEF Types, DeleteFails
  <2>4. UNCHANGED <<req, tx, put>> /\ \A h \in Gc \ {g} : run'[h] = run[h]
    BY <1>1, <1>7 DEF Types, DeleteFails
  <2>5. \A j \in Key : RequestInv(j)'
    BY <1>1, <1>7 DEF DeleteFails, Types, RequestInv, HandInv, Settled
  <2>6. \A h \in Gc, j \in Key : HandInv(h, j)'
    BY <1>1, <1>7 DEF DeleteFails, Types, RequestInv, HandInv, Settled
  <2>7. run'[g].pc = "check" => run'[g].stage = "objects"
    BY <1>1, <1>7 DEF Types, DeleteFails
  <2>8. Lives
    BY <1>1, <1>7 DEF DeleteFails, Types, RequestInv, HandInv, Lives, RowView, Rows!Step
  <2> QED BY <2>3, <2>4, <2>5, <2>6, <2>7, <2>8, AssembleRun
<1>8. CASE DeleteBlobRows(g)
  <2>1. run' = [run EXCEPT ![g].pc = "advance", ![g].deleted = {}] /\ {} \in SUBSET Key /\ "advance" \in Pc
    BY <1>8 DEF DeleteBlobRows, Pc
  <2>2. run' \in [Gc -> RunType]
    BY <1>1, <2>1, RunPcDeleted, Zenon DEF Types
  <2>3. Types'
    BY <1>1, <1>8, <2>2 DEF Types, DeleteBlobRows
  <2>4. UNCHANGED <<req, tx, put>> /\ \A h \in Gc \ {g} : run'[h] = run[h]
    BY <1>1, <1>8 DEF Types, DeleteBlobRows
  <2>5. \A j \in Key : RequestInv(j)'
    BY <1>1, <1>8 DEF DeleteBlobRows, Types, RequestInv, HandInv, Settled
  <2>6. \A h \in Gc, j \in Key : HandInv(h, j)'
    BY <1>1, <1>8 DEF DeleteBlobRows, Types, RequestInv, HandInv, Settled
  <2>7. run'[g].pc = "check" => run'[g].stage = "objects"
    BY <1>1, <1>8 DEF Types, DeleteBlobRows
  <2>8. Lives
    BY <1>1, <1>8 DEF DeleteBlobRows, Types, RequestInv, HandInv, Lives, RowView, Rows!Step
  <2> QED BY <2>3, <2>4, <2>5, <2>6, <2>7, <2>8, AssembleRun
<1>9. CASE Advance(g)
  <2> DEFINE next == IF run[g].stage = "objects" THEN [Idle EXCEPT !.pc = "read", !.stage = "blobs"]
                     ELSE Idle
  <2>1. run[g].todo = {} /\ run[g].deleted = {} /\ UNCHANGED <<req, tx, put, object, row, zeroAt>>
    BY <1>9, <1>0, <1>1 DEF Advance, PageDone, HandInv
  <2>2. next \in RunType /\ next.todo = {} /\ next.deleted = {} /\ next.pc # "check"
    BY Zenon DEF Idle, RunType, Pc
  <2>3. cursor' \in [{"objects", "blobs"} -> Nat]
    BY <1>0, <1>1, <1>9 DEF Advance, Types, RunType
  <2>4. run' = [run EXCEPT ![g].pc = "list"] \/ run' = [run EXCEPT ![g] = next]
    BY <1>9 DEF Advance
  <2> HIDE DEF next
  <2>5. run' \in [Gc -> RunType]
    <3>1. CASE run' = [run EXCEPT ![g].pc = "list"]
      BY <1>a, <3>1 DEF RunType, Pc
    <3>2. CASE run' = [run EXCEPT ![g] = next]
      BY <1>a, <2>2, <3>2
    <3> QED BY <2>4, <3>1, <3>2
  <2>6. /\ \A h \in Gc \ {g} : run'[h] = run[h]
        /\ run'[g].todo = {} /\ run'[g].pc # "check"
        /\ run'[g].deleted = {}
    BY <1>a, <2>1, <2>2, <2>4 DEF RunType
  <2>7. Types'
    BY <1>1, <2>1, <2>3, <2>5 DEF Types
  <2>8. \A j \in Key : RequestInv(j)'
    BY <1>1, <2>1, SMTT(40) DEF RequestInv, Settled
  <2>9. \A h \in Gc, j \in Key : HandInv(h, j)'
    BY <1>1, <2>1, <2>6 DEF HandInv, Settled
  <2>10. Lives
    BY <2>1 DEF Lives, RowView, Rows!Step
  <2> QED BY <2>1, <2>6, <2>7, <2>8, <2>9, <2>10, AssembleRun
<1> QED BY <1>2, <1>3, <1>4, <1>5, <1>6, <1>7, <1>8, <1>9 DEF GcStep

-----------------------------------------------------------------------------
\* The invariant holds at the start.
LEMMA InitStep == Init => IInv
<1> SUFFICES ASSUME Init PROVE IInv
  OBVIOUS
<1>1. Types
  BY DEF Init, Types, RunType, Pc, Idle
<1>2. \A k \in Key : RequestInv(k)
  BY DEF Init, RequestInv, Settled
<1>3. \A g \in Gc : run[g].todo = {} /\ run[g].deleted = {} /\ run[g].pc = "idle"
  BY DEF Init, Idle
<1> QED BY <1>1, <1>2, <1>3 DEF IInv, HandInv

\* Every step, and every stutter, keeps it and lets the rows live as they may.
LEMMA NextStep == IInv /\ [Next]_vars => IInv' /\ Lives
<1> SUFFICES ASSUME IInv, [Next]_vars PROVE IInv' /\ Lives
  OBVIOUS
<1>1. CASE Next
  <2>1. CASE LoseLock
    <3>1. UNCHANGED <<req, tx, put, object, row, zeroAt, run, cursor>>
      BY <2>1 DEF LoseLock, requestVars
    <3> QED BY <3>1 DEF IInv, Types, RequestInv, HandInv, Settled, Lives, RowView, Rows!Step
  <2> QED BY <1>1, <2>1, RequestStepStep, WorldStep, RunBoundsStep, GcStepStep, SMTT(40) DEF Next
<1>2. CASE UNCHANGED vars
  <2>1. UNCHANGED <<req, tx, put, object, row, zeroAt, run, cursor>>
    BY <1>2 DEF vars
  <2> QED BY <2>1 DEF IInv, Types, RequestInv, HandInv, Settled, Lives, RowView, Rows!Step
<1> QED BY <1>1, <1>2

\* The invariant holds of every reachable state.
THEOREM Inductive == Spec => []IInv
<1>1. IInv /\ [Next]_vars => IInv'
  BY NextStep
<1> QED BY <1>1, InitStep, PTL DEF Spec

\* No cleanup after an error (unreferenced-upload-cleanup.ts) and no overlap of
\* collector runs (gc.job.ts) removes an object that a row still stands for.
THEOREM ObjectsExist == Spec => []ReferencedObjectExists
<1>1. IInv => ReferencedObjectExists
  BY DEF IInv, RequestInv, ReferencedObjectExists
<1> QED BY <1>1, Inductive, PTL

\* collectOrphanBlobs deletes the row only of an object that is gone, even
\* when several runs work on the same page.
THEOREM RowsLast == Spec => RowOutlivesObject
<1>1. IInv /\ [Next]_vars =>
        [\A k \in Key : row[k] # "none" /\ row'[k] = "none" => object[k] = "absent"]_vars
  BY NextStep DEF Lives
<1> QED BY <1>1, Inductive, PTL DEF Spec, RowOutlivesObject

\* The rows that deleteBlobs deletes by identifier are those BlobRows lets go:
\* the store, the requests and the collector implement BlobRows.
THEOREM ImplementsBlobRows == Spec => RowLifecycle
<1>1. Init => Rows!Init
  BY DEF Init, Rows!Init
<1>2. IInv /\ [Next]_vars => [Rows!Next]_(RowView(row))
  <2> SUFFICES ASSUME IInv, [Next]_vars
               PROVE  Rows!Next
    BY DEF RowView
  <2>1. IInv' /\ Lives
    BY NextStep
  <2>2. row' \in [Key -> {"none", "live", "zero", "old"}]
    BY <2>1 DEF IInv, Types
  <2> QED BY <2>1, <2>2 DEF Lives, RowView, Rows!Next, Rows!RowStates
<1>3. RowView(row) = [k \in Key |-> IF row[k] = "old" THEN "zero" ELSE row[k]]
  BY DEF RowView
<1> QED BY <1>1, <1>2, <1>3, Inductive, PTL DEF Spec, RowLifecycle, Rows!Spec, RowView
=============================================================================
