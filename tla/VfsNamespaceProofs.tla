------------------------- MODULE VfsNamespaceProofs -------------------------
(***************************************************************************)
(* The blob rows of a namespace: reference counts are exact, what the      *)
(* collector picked stays unreferenced, and VfsNamespace implements        *)
(* BlobRows, for every set of identifiers, every tree, limit and setting.  *)
(***************************************************************************)
EXTENDS VfsNamespaceTreeSteps, VfsNamespaceManifestSteps

\* Steps that leave the tree, the trash and the snapshots alone.
LEMMA OutsideStep ==
  ASSUME IInv, UNCHANGED <<node, trash, snap, usage>>, setting' \in Settings,
         picked' \in [Gc -> SUBSET BlobId],
         Exact(blob', Refs(node, trash, snap)),
         \A g \in Gc : \A b \in picked'[g] : b \in DOMAIN blob' => blob'[b].ref = 0
  PROVE  IInv'
<1>1. Refs(node', trash', snap') = Refs(node, trash, snap)
  OBVIOUS
<1>2. /\ IsTable(node') /\ IsTrash(trash') /\ IsSnaps(snap') /\ usage' \in UsageRow
      /\ Apart(node', trash')
  BY DEF IInv
<1> QED BY <1>1, <1>2 DEF IInv

\* A change of settings touches nothing that is counted.
LEMMA UpdateSettingsStep ==
  ASSUME IInv, NEW s \in Settings, UpdateSettings(s)
  PROVE  IInv' /\ Lives(blob, blob')
<1>1. /\ UNCHANGED <<node, trash, snap, usage>> /\ setting' = s /\ picked' = picked /\ blob' = blob
  BY DEF UpdateSettings
<1>2. /\ picked \in [Gc -> SUBSET BlobId] /\ Exact(blob, Refs(node, trash, snap))
      /\ \A g \in Gc : \A b \in picked[g] : b \in DOMAIN blob => blob[b].ref = 0
  BY Zenon DEF IInv
<1>3. IInv'
  BY <1>1, <1>2, OutsideStep
<1> QED BY <1>1, <1>3, LivesSame

\* The collector only reads rows whose count is zero.
LEMMA FindOrphanBlobStep ==
  ASSUME IInv, NEW g \in Gc, NEW b \in DOMAIN blob, FindOrphanBlob(g, b)
  PROVE  IInv' /\ Lives(blob, blob')
<1>1. /\ UNCHANGED <<node, trash, snap, usage>> /\ setting' = setting /\ blob' = blob
      /\ blob[b].ref = 0 /\ picked' = [picked EXCEPT ![g] = @ \cup {b}]
  BY DEF FindOrphanBlob
<1>2. /\ picked \in [Gc -> SUBSET BlobId] /\ Exact(blob, Refs(node, trash, snap))
      /\ setting \in Settings
      /\ \A h \in Gc : \A x \in picked[h] : x \in DOMAIN blob => blob[x].ref = 0
  BY DEF IInv
<1>3. b \in BlobId
  BY <1>2 DEF Exact
<1>4. picked' \in [Gc -> SUBSET BlobId]
  BY <1>1, <1>2, <1>3
<1>5. \A h \in Gc : picked'[h] \subseteq picked[h] \cup {b}
  BY <1>1, <1>2
<1>6. IInv'
  BY <1>1, <1>2, <1>4, <1>5, OutsideStep
<1> QED BY <1>1, <1>6, LivesSame

\* The row of a candidate goes away: it had no reference.
LEMMA DeleteBlobRowStep ==
  ASSUME IInv, NEW g \in Gc, NEW b \in picked[g], DeleteBlobRow(g, b)
  PROVE  IInv' /\ Lives(blob, blob')
<1> DEFINE R == Refs(node, trash, snap)
<1>1. /\ UNCHANGED <<node, trash, snap, usage>> /\ setting' = setting
      /\ blob' = Restrict(blob, DOMAIN blob \ {b})
      /\ picked' = [picked EXCEPT ![g] = @ \ {b}]
  BY DEF DeleteBlobRow
<1>2. /\ picked \in [Gc -> SUBSET BlobId] /\ Exact(blob, R) /\ setting \in Settings
      /\ \A h \in Gc : \A x \in picked[h] : x \in DOMAIN blob => blob[x].ref = 0
  BY Zenon DEF IInv
<1>3. picked' \in [Gc -> SUBSET BlobId] /\ \A h \in Gc : picked'[h] \subseteq picked[h]
  BY <1>1, <1>2
<1>4. /\ DOMAIN blob' = DOMAIN blob \ {b} /\ \A x \in DOMAIN blob' : blob'[x] = blob[x]
      /\ blob' = [x \in DOMAIN blob' |-> blob'[x]]
  BY <1>1 DEF Restrict
<1> HIDE DEF R
<1>5. R \in [BlobId -> Nat] /\ (b \in DOMAIN blob => R[b] = 0)
  BY <1>2 DEF Exact
<1>6. Exact(blob', R)
  BY <1>2, <1>4, <1>5 DEF Exact
<1>7. Lives(blob, blob')
  BY <1>2, <1>4 DEF Lives, RowState, Rows!Step
<1>8. IInv'
  BY <1>1, <1>2, <1>3, <1>4, <1>6, OutsideStep, Zenon DEF R
<1> QED BY <1>7, <1>8

\* Nothing changes in a stuttering step.
LEMMA StutterStep ==
  ASSUME IInv, UNCHANGED vars
  PROVE  IInv' /\ Lives(blob, blob')
<1>1. /\ UNCHANGED <<node, trash, snap, usage>> /\ setting' = setting /\ blob' = blob
      /\ picked' = picked
  BY DEF vars
<1>2. /\ picked \in [Gc -> SUBSET BlobId] /\ Exact(blob, Refs(node, trash, snap))
      /\ setting \in Settings
      /\ \A g \in Gc : \A b \in picked[g] : b \in DOMAIN blob => blob[b].ref = 0
  BY Zenon DEF IInv
<1>3. IInv'
  BY <1>1, <1>2, OutsideStep
<1> QED BY <1>1, <1>3, LivesSame

\* Every mutation of the tree preserves the invariant.
LEMMA TreeStepStep ==
  ASSUME IInv, TreeStep
  PROVE  IInv' /\ Lives(blob, blob')
<1>1. CASE \E d \in Directory : \E c \in Chains(d) : EnsureDirectory(d, c)
  BY <1>1, EnsureDirectoryStep
<1>2. CASE \E d \in Directory : \E c \in Chains(d) : \E nm \in Name : TouchAbsent(d, c, nm)
  BY <1>2, TouchAbsentStep
<1>3. CASE \E d \in Directory : \E c \in Chains(d) :
             \E nm \in Name, f \in FreshNode \ ChainIds(c), b \in FreshBlob, e \in BOOLEAN :
               CreateFile(d, c, nm, f, b, e)
  BY <1>3, CreateFileStep
<1>4. CASE \E d \in Directory : \E c \in Chains(d) :
             \E nm \in Name, s \in DOMAIN node \ {Root} : MoveNode(s, d, c, nm)
  BY <1>4, MoveNodeStep
<1>5. CASE \E d \in Directory : \E c \in Chains(d) :
             \E nm \in Name, s \in DOMAIN node \ {Root}, e \in BOOLEAN :
               \E m \in Injection(Subtree(node, s), FreshNode \ ChainIds(c)) :
                 CopyNode(s, d, c, nm, m, e)
  BY <1>5, CopyNodeStep
<1>6. CASE \E f \in File : \E b \in FreshBlob : ReplaceFile(f, b)
  BY <1>6, ReplaceFileStep
<1>7. CASE \E f \in File : TouchFile(f)
  BY <1>7, TouchFileStep
<1>8. CASE \E f \in File : PersistNode(f)
  BY <1>8, PersistNodeStep
<1>9. CASE \E f \in File : \E t \in TrashId : ExpireNode(f, t)
  BY <1>9, MoveToTrashStep DEF ExpireNode, File
<1>10. CASE \E n \in DOMAIN node \ {Root}, t \in TrashId : RemoveNode(n, t)
  BY <1>10, MoveToTrashStep DEF RemoveNode
<1>11. CASE \E t \in DOMAIN trash, d \in Directory, nm \in Name : RestoreTrashItem(t, d, nm)
  BY <1>11, RestoreTrashItemStep
<1>12. CASE \E s \in DOMAIN snap : \E b \in FileSnapshotBlobs(s) : \E f \in File :
              RestoreOver(b, f)
  BY <1>12, RestoreOverStep DEF FileSnapshotBlobs
<1>13. CASE \E s \in DOMAIN snap : \E b \in FileSnapshotBlobs(s) :
              \E d \in Directory, nm \in Name, f \in FreshNode : RestoreAs(b, d, nm, f)
  BY <1>13, RestoreAsStep DEF FileSnapshotBlobs
<1> QED BY <1>1, <1>2, <1>3, <1>4, <1>5, <1>6, <1>7, <1>8, <1>9, <1>10, <1>11, <1>12, <1>13, SMTT(40)
        DEF TreeStep

\* Every step does, and takes each blob row through at most one step of its life.
LEMMA NextStep ==
  ASSUME IInv, [Next]_vars
  PROVE  IInv' /\ Lives(blob, blob')
<1>1. CASE RootCanAdvance /\ TreeStep
  BY <1>1, TreeStepStep
<1>2. CASE \E t \in DOMAIN trash : PurgeTrashItem(t)
  BY <1>2, PurgeTrashItemStep
<1>3. CASE \E n \in DOMAIN node, s \in SnapId \ DOMAIN snap : SnapshotCreate(n, s)
  BY <1>3, SnapshotCreateStep
<1>4. CASE \E s \in DOMAIN snap : SnapshotDelete(s)
  BY <1>4, SnapshotDeleteStep
<1>5. CASE \E s \in Settings : UpdateSettings(s)
  BY <1>5, UpdateSettingsStep
<1>6. CASE \E g \in Gc : \E b \in DOMAIN blob : FindOrphanBlob(g, b)
  BY <1>6, FindOrphanBlobStep
<1>7. CASE \E g \in Gc : \E b \in picked[g] : DeleteBlobRow(g, b)
  BY <1>7, DeleteBlobRowStep
<1>8. CASE UNCHANGED vars
  BY <1>8, StutterStep
<1> QED BY <1>1, <1>2, <1>3, <1>4, <1>5, <1>6, <1>7, <1>8, Zenon DEF Next

\* Nothing refers to a blob in a tree that has only its root.
LEMMA InitStep ==
  ASSUME Init
  PROVE  IInv /\ Rows!Init
<1>1. /\ node = Row(Root, DirectoryRow(None, None)) /\ blob = <<>> /\ trash = <<>> /\ snap = <<>>
      /\ usage \in UsageRow /\ setting \in Settings /\ picked = [g \in Gc |-> {}]
  BY DEF Init, UsageRow
<1>2. DOMAIN blob = {} /\ DOMAIN trash = {} /\ DOMAIN snap = {}
      /\ blob = [x \in DOMAIN blob |-> blob[x]]
      /\ trash = [x \in DOMAIN trash |-> trash[x]] /\ snap = [x \in DOMAIN snap |-> snap[x]]
  BY <1>1
<1>3. DOMAIN node = {Root} /\ node[Root] = DirectoryRow(None, None)
      /\ node = [n \in DOMAIN node |-> node[n]]
  BY <1>1 DEF Row
<1>4. IsTable(node)
  <2>1. DirectoryRow(None, None) \in NodeRow
    <3>1. 1 \in 1..MaxVersion /\ FALSE \in BOOLEAN
      BY BoundAssumption
    <3> QED BY <3>1 DEF DirectoryRow, NodeRow
  <2>2. node[Root].type # "FILE"
    BY <1>3 DEF DirectoryRow
  <2>3. \A n \in DOMAIN node : n = Root /\ node[n] \in NodeRow
    BY <1>3, <2>1
  <2> QED BY <1>3, <2>2, <2>3, NodeAssumption DEF IsTable
<1>5. IsTrash(trash) /\ IsSnaps(snap) /\ Apart(node, trash)
  <2>1. trash \in [DOMAIN trash -> TrashItem] /\ snap \in [DOMAIN snap -> SnapItem]
    BY <1>2
  <2>2. trash \in Table(TrashId, TrashItem)
    BY <1>2, <2>1, TableParts, Zenon
  <2>3. snap \in Table(SnapId, SnapItem)
    BY <1>2, <2>1, TableParts, Zenon
  <2> QED BY <1>2, <2>2, <2>3 DEF IsTrash, IsSnaps, Apart
<1>6. Refs(node, trash, snap) = [b \in BlobId |-> 0]
  <2>1. \A b \in BlobId : Holders(node, b) = {}
    BY <1>3, BlobAssumption DEF Holders, DirectoryRow
  <2>2. DOMAIN TrashRows(trash) = {}
    BY <1>2 DEF TrashRows
  <2>3. DOMAIN Entries(TrashRows(trash)) = {} /\ DOMAIN Entries(snap) = {}
    BY <1>2, <2>2 DEF Entries
  <2>4. \A b \in BlobId : /\ Holders(Entries(TrashRows(trash)), b) = {}
                          /\ Holders(Entries(snap), b) = {}
    BY <2>3 DEF Holders
  <2> QED BY <2>1, <2>4, FS_EmptySet DEF Refs
<1>7. Exact(blob, Refs(node, trash, snap))
  BY <1>2, <1>6 DEF Exact
<1>8. IInv
  BY <1>1, <1>2, <1>4, <1>5, <1>7 DEF IInv
<1>9. Rows!Init
  BY <1>2 DEF Rows!Init, RowState
<1> QED BY <1>8, <1>9

\* The inductive invariant holds in every reachable state.
THEOREM Inductive == Spec => []IInv
<1>1. Init => IInv
  BY InitStep
<1>2. IInv /\ [Next]_vars => IInv'
  BY NextStep
<1> QED BY <1>1, <1>2, PTL DEF Spec

\* The references a state has are those the invariant counts.
LEMMA ReferencesCounted ==
  ASSUME IInv
  PROVE  \A b \in BlobId : References(b) = Refs(node, trash, snap)[b]
  BY DEF References, Refs, TrashEntries, SnapEntries, TrashRows

\* Every table keeps its type: no mutation writes a row the schema refuses.
THEOREM TypeCorrect == Spec => []TypeOK
<1>1. IInv => TypeOK
  <2> SUFFICES ASSUME IInv PROVE TypeOK
    OBVIOUS
  <2>1. HasRows(node, NodeId, NodeRow)
    BY DEF IInv, IsTable, HasRows
  <2>2. HasRows(blob, BlobId, BlobRow)
    BY DEF IInv, Exact, HasRows
  <2>3. /\ DOMAIN trash \subseteq TrashId
        /\ \A t \in DOMAIN trash : trash[t].root \in NodeId /\ HasRows(trash[t].rows, NodeId, TrashRow)
    BY TableParts, TrashManifests DEF IInv, IsTrash, HasRows
  <2>4. /\ DOMAIN snap \subseteq SnapId
        /\ \A s \in DOMAIN snap : HasRows(snap[s], NodeId, SnapRow)
    BY TableParts, SnapManifests DEF IInv, IsSnaps, HasRows, SnapRow
  <2> QED BY <2>1, <2>2, <2>3, <2>4, Zenon DEF IInv, TypeOK
<1> QED BY <1>1, Inductive, PTL

\* For any tree, trash and set of snapshots, reference_count is exactly the
\* number of rows that refer to the blob, and zero_since says when it is zero.
THEOREM ReferenceCountsExact == Spec => []RefCountExact
<1>1. IInv => RefCountExact
  <2> SUFFICES ASSUME IInv PROVE RefCountExact
    OBVIOUS
  <2>1. Exact(blob, Refs(node, trash, snap))
    BY Zenon DEF IInv
  <2> QED BY <2>1, ReferencesCounted DEF Exact, RefCountExact
<1> QED BY <1>1, Inductive, PTL

\* For any number of overlapping collector runs, a blob that one of them has
\* read as an orphan is not referred to again before its row is deleted.
THEOREM CandidatesDead == Spec => []CandidatesStayDead
<1>1. IInv => CandidatesStayDead
  <2> SUFFICES ASSUME IInv PROVE CandidatesStayDead
    OBVIOUS
  <2>1. Exact(blob, Refs(node, trash, snap))
        /\ picked \in [Gc -> SUBSET BlobId]
        /\ \A g \in Gc : \A b \in picked[g] : b \in DOMAIN blob => blob[b].ref = 0
    BY DEF IInv
  <2> QED BY <2>1, ReferencesCounted DEF Exact, CandidatesStayDead
<1> QED BY <1>1, Inductive, PTL

\* The namespace implements BlobRows: the object store may rely on the row of
\* a blob to be created live and to be removed only after its last reference.
THEOREM ImplementsBlobRows == Spec => BlobLifecycle
<1>1. Init => Rows!Init
  BY InitStep
<1>2. IInv /\ [Next]_vars => [Rows!Next]_(RowState(blob))
  <2> SUFFICES ASSUME IInv, [Next]_vars PROVE [Rows!Next]_(RowState(blob))
    OBVIOUS
  <2>1. RowState(blob') \in [BlobId -> Rows!RowStates]
    BY DEF RowState, Rows!RowStates
  <2>2. \A b \in BlobId : Rows!Step(RowState(blob)[b], RowState(blob')[b])
    BY NextStep DEF Lives
  <2> QED BY <2>1, <2>2 DEF Rows!Next
<1> QED BY <1>1, <1>2, Inductive, PTL DEF Spec, BlobLifecycle, Rows!Spec
=============================================================================
