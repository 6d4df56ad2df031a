----------------------- MODULE VfsNamespaceTreeSteps ------------------------
(***************************************************************************)
(* The mutations of the tree keep the inductive invariant: mkdir, touch,   *)
(* persist, move, writing, restoring and copying files.                    *)
(***************************************************************************)
EXTENDS VfsNamespaceLemmas

\* mkdir adds rows without a blob.
LEMMA EnsureDirectoryStep ==
  ASSUME IInv, NEW d \in Directory, NEW c \in Chains(d), EnsureDirectory(d, c)
  PROVE  IInv' /\ Lives(blob, blob')
<1>1. IsTable(node) /\ Apart(node, trash) /\ d \in NodeId /\ Len(c) \in Int
  BY DirectoryParts, ChainParts DEF IInv
<1> QED BY <1>1, ChainTable, QuietStep, NoDeltaType DEF EnsureDirectory

\* So does a touch that finds its file gone.
LEMMA TouchAbsentStep ==
  ASSUME IInv, NEW d \in Directory, NEW c \in Chains(d), NEW nm, TouchAbsent(d, c, nm)
  PROVE  IInv' /\ Lives(blob, blob')
<1>1. IsTable(node) /\ Apart(node, trash) /\ d \in NodeId /\ Len(c) \in Int
  BY DirectoryParts, ChainParts DEF IInv
<1> QED BY <1>1, ChainTable, QuietStep, NoDeltaType DEF TouchAbsent

\* touch changes versions only.
LEMMA TouchFileStep ==
  ASSUME IInv, NEW f \in File, TouchFile(f)
  PROVE  IInv' /\ Lives(blob, blob')
  BY QuietStep, NoDeltaType DEF TouchFile, IInv

\* Cancelling an expiry leaves every reference in place.
LEMMA PersistNodeStep ==
  ASSUME IInv, NEW f \in File, PersistNode(f)
  PROVE  IInv' /\ Lives(blob, blob')
<1> DEFINE nd == [node EXCEPT ![f].expires = FALSE]
<1>1. f \in DOMAIN node /\ IsTable(node) /\ Apart(node, trash)
  BY DEF File, IInv
<1>2. DOMAIN nd = DOMAIN node /\ \A n \in DOMAIN node : nd[n].blob = node[n].blob
  BY <1>1 DEF IsTable, NodeRow
<1>3. IsTable(nd)
  BY <1>1, Zenon DEF IsTable, NodeRow
<1>4. Apart(nd, trash) /\ \A b \in BlobId : Cardinality(Holders(nd, b)) = Cardinality(Holders(node, b))
  <2> HIDE DEF nd
  <2> QED BY <1>1, <1>2, SameBlobs
<1>5. Commit(nd, usage, 0, 0, NoFolderDelta, Ancestors(node, f))
      /\ UNCHANGED <<blob, trash, snap, setting, picked>>
  BY DEF PersistNode
<1> HIDE DEF nd
<1> QED BY <1>3, <1>4, <1>5, QuietStep, NoDeltaType

\* A move keeps its rows, and so their references.
LEMMA MoveNodeStep ==
  ASSUME IInv, NEW d \in Directory, NEW c \in Chains(d), NEW nm \in Name,
         NEW s \in DOMAIN node \ {Root}, MoveNode(s, d, c, nm)
  PROVE  IInv' /\ Lives(blob, blob')
<1> DEFINE new == ChainEnd(d, c)
           old == node[s].parent
           od == [node EXCEPT ![s].parent = new, ![s].name = nm]
           nd == ChainRows(d, c) ++ od
           delta == IF node[s].type = "FILE" /\ old # new
                    THEN [NoFolderDelta EXCEPT ![old] = -1, ![new] = 1]
                    ELSE NoFolderDelta
           changed == Subtree(node, s) \cup Ancestors(node, old) \cup Ancestors(node, d)
<1>1. s \in DOMAIN node /\ IsTable(node) /\ Apart(node, trash)
  BY DEF IInv
<1>2. d \in NodeId /\ new \in NodeId /\ Len(c) \in Int
  BY DirectoryParts, ChainParts
<1>3. Commit(nd, usage, Len(c), 0, delta, changed)
      /\ UNCHANGED <<blob, trash, snap, setting, picked>>
  BY DEF MoveNode
<1> HIDE DEF new, old, changed
<1>4. delta \in [NodeId -> Int]
  <2>1. -1 \in Int /\ 1 \in Int
    OBVIOUS
  <2> QED BY <2>1, NoDeltaType, Zenon
<1> HIDE DEF delta
<1>5. DOMAIN od = DOMAIN node /\ \A n \in DOMAIN node : od[n].blob = node[n].blob
  BY <1>1 DEF IsTable, NodeRow
<1>6. IsTable(od)
  <2>1. \A n \in DOMAIN node : node[n] \in NodeRow /\ n \in NodeId
                                /\ (node[n].type = "FILE" => node[n].blob \in BlobId)
    BY <1>1 DEF IsTable
  <2>2. \A n \in DOMAIN node \ {s} : od[n] = node[n]
    OBVIOUS
  <2>3. od[s] \in NodeRow /\ od[s].type = node[s].type /\ od[s].blob = node[s].blob
    <3>1. od[s] = [node[s] EXCEPT !.parent = new, !.name = nm]
      BY <1>1
    <3> HIDE DEF od
    <3> QED BY <1>1, <1>2, <2>1, <3>1, Zenon DEF NodeRow
  <2>4. od = [n \in DOMAIN node |-> od[n]]
    OBVIOUS
  <2> HIDE DEF od
  <2> QED BY <1>5, <2>1, <2>2, <2>3, <2>4 DEF IsTable
<1> HIDE DEF od
<1>7. Apart(od, trash) /\ \A b \in BlobId : Cardinality(Holders(od, b)) = Cardinality(Holders(node, b))
  BY <1>1, <1>5, SameBlobs
<1>8. /\ IsTable(nd) /\ Apart(nd, trash)
      /\ \A b \in BlobId : Cardinality(Holders(nd, b)) = Cardinality(Holders(od, b))
  BY <1>2, <1>5, <1>6, <1>7, ChainTable, SMTT(40)
<1> HIDE DEF nd
<1> QED BY <1>2, <1>3, <1>4, <1>7, <1>8, QuietStep

\* A new file brings one new row of the blob table and the one reference to it.
LEMMA CreateFileStep ==
  ASSUME IInv, NEW d \in Directory, NEW c \in Chains(d), NEW nm \in Name,
         NEW f \in FreshNode \ ChainIds(c), NEW b \in FreshBlob, NEW e \in BOOLEAN,
         CreateFile(d, c, nm, f, b, e)
  PROVE  IInv' /\ Lives(blob, blob')
<1> DEFINE p == ChainEnd(d, c)
           od == ChainRows(d, c) ++ node
           nd == Row(f, FileRow(p, nm, b, e)) ++ od
           delta == [NoFolderDelta EXCEPT ![p] = 1]
           R == Refs(node, trash, snap)
           R2 == [x \in BlobId |-> R[x] + One(b)[x]]
<1>1. d \in NodeId /\ p \in NodeId /\ Len(c) + 1 \in Int
  BY DirectoryParts, ChainParts
<1>2. b \in BlobId /\ b \notin DOMAIN blob /\ f \in NodeId
  BY FreshApart DEF FreshBlob
<1>3. /\ Commit(nd, usage, Len(c) + 1, Size[b], delta, Ancestors(node, d))
      /\ blob' = Row(b, NewBlob) ++ blob
      /\ UNCHANGED <<trash, snap, setting, picked>>
  BY DEF CreateFile
<1>4. delta \in [NodeId -> Int]
  BY OneDeltaType
<1>5. /\ IsTable(od) /\ Apart(od, trash)
      /\ \A x \in BlobId : Cardinality(Holders(od, x)) = Cardinality(Holders(node, x))
  BY <1>1, ChainTable DEF IInv
<1>6. f \notin DOMAIN od
  <2>1. DOMAIN od = ChainIds(c) \cup DOMAIN node
    BY <1>1, ChainParts, OverrideParts, Zenon
  <2> QED BY <2>1, FreshApart
<1>a. PICK r \in NodeRow : r.blob = b /\ nd = Row(f, r) ++ od
  <2>1. FileRow(p, nm, b, e) \in NodeRow /\ FileRow(p, nm, b, e).blob = b
    BY <1>1, <1>2, NewRows
  <2> QED BY <2>1
<1> HIDE DEF p, od, delta, nd
<1>7. /\ IsTable(nd) /\ DOMAIN nd = DOMAIN od \cup {f}
      /\ \A x \in BlobId : Cardinality(Holders(nd, x)) = Cardinality(Holders(od, x)) + One(b)[x]
  <2>1. IsTable(od) /\ f \in NodeId /\ r.blob \in BlobId
    BY <1>2, <1>5, <1>a
  <2> QED BY <1>6, <1>a, <2>1, AddFile
<1>8. Apart(nd, trash)
  BY <1>5, <1>7, FreshApart DEF Apart
<1>9. Exact(blob', R2) /\ Lives(blob, blob')
  BY <1>2, <1>3, NewBlobExact DEF IInv
<1>10. \A x \in BlobId : R2[x]
         = R[x] + Cardinality(Holders(nd, x)) - Cardinality(Holders(node, x))
  <2> TAKE x \in BlobId
  <2>1. Cardinality(Holders(node, x)) \in Nat /\ R[x] \in Nat /\ One(b)[x] \in Nat
    BY RefsType DEF IInv, IsTable, One
  <2> QED BY <1>5, <1>7, <2>1
<1>11. \A x \in DOMAIN blob' \ DOMAIN blob : x \in FreshBlob
  BY <1>3 DEF ++, Row
<1> HIDE DEF R2
<1> QED BY <1>1, <1>2, <1>3, <1>4, <1>7, <1>8, <1>9, <1>10, <1>11, SizeType, TreeBlobStep, SMTT(40)

\* A restored file refers to a blob its snapshot keeps live.
LEMMA RestoreAsStep ==
  ASSUME IInv, NEW b \in BlobId, NEW d \in Directory, NEW nm \in Name, NEW f \in FreshNode,
         RestoreAs(b, d, nm, f)
  PROVE  IInv' /\ Lives(blob, blob')
<1> DEFINE nd == Row(f, FileRow(d, nm, b, FALSE)) ++ node
           delta == [NoFolderDelta EXCEPT ![d] = 1]
           R == Refs(node, trash, snap)
           R2 == [x \in BlobId |-> R[x] + One(b)[x]]
<1>1. d \in NodeId /\ f \in NodeId /\ f \notin DOMAIN node
  BY DirectoryParts, FreshApart
<1>2. /\ Commit(nd, usage, 1, Size[b], delta, Ancestors(node, d))
      /\ blob' = Increment(blob, One(b))
      /\ UNCHANGED <<trash, snap, setting, picked>>
      /\ AllLive(blob, One(b))
  BY Zenon DEF RestoreAs
<1>3. delta \in [NodeId -> Int] /\ 1 \in Int /\ FALSE \in BOOLEAN
  BY OneDeltaType
<1>4. IsTable(node) /\ Apart(node, trash) /\ Exact(blob, R)
  BY DEF IInv
<1>a. PICK r \in NodeRow : r.blob = b /\ nd = Row(f, r) ++ node
  <2>1. FileRow(d, nm, b, FALSE) \in NodeRow /\ FileRow(d, nm, b, FALSE).blob = b
    BY <1>1, NewRows, Zenon
  <2> QED BY <2>1, Zenon
<1> HIDE DEF nd
<1>5. /\ IsTable(nd) /\ DOMAIN nd = DOMAIN node \cup {f}
      /\ \A x \in BlobId : Cardinality(Holders(nd, x)) = Cardinality(Holders(node, x)) + One(b)[x]
  BY <1>1, <1>3, <1>4, <1>a, AddFile
<1>6. Apart(nd, trash)
  BY <1>4, <1>5, FreshApart DEF Apart
<1>7. One(b) \in [BlobId -> Nat] /\ \A x \in BlobId : One(b)[x] > 0 => R[x] > 0
  <2>1. \A x \in BlobId : One(b)[x] > 0 => x \in DOMAIN blob /\ blob[x].ref > 0
    BY <1>2 DEF AllLive
  <2> QED BY <1>4, <2>1 DEF Exact, One
<1>8. Exact(blob', R2) /\ Lives(blob, blob')
  BY <1>2, <1>4, <1>7, IncrementExact
<1>9. \A x \in BlobId : R2[x]
         = R[x] + Cardinality(Holders(nd, x)) - Cardinality(Holders(node, x))
  <2> TAKE x \in BlobId
  <2>1. Cardinality(Holders(node, x)) \in Nat /\ R[x] \in Nat /\ One(b)[x] \in Nat
    BY RefsType DEF IInv, IsTable, One
  <2> QED BY <1>5, <2>1
<1>10. \A x \in DOMAIN blob' \ DOMAIN blob : x \in FreshBlob
  BY <1>2 DEF Increment
<1> HIDE DEF R2, delta
<1> QED BY <1>2, <1>3, <1>5, <1>6, <1>8, <1>9, <1>10, SizeType, TreeBlobStep

\* New content takes one reference from the old blob and gives one to a new row.
LEMMA ReplaceFileStep ==
  ASSUME IInv, NEW f \in File, NEW b \in FreshBlob, ReplaceFile(f, b)
  PROVE  IInv' /\ Lives(blob, blob')
<1> DEFINE nd == [node EXCEPT ![f].blob = b]
           old == node[f].blob
           bl == Decrement(blob, One(old))
           R == Refs(node, trash, snap)
           R1 == [x \in BlobId |-> R[x] - One(old)[x]]
           R2 == [x \in BlobId |-> R1[x] + One(b)[x]]
<1>1. f \in DOMAIN node /\ f \in NodeId /\ old \in BlobId /\ IsTable(node)
      /\ Apart(node, trash) /\ Exact(blob, R)
  BY FileParts DEF IInv
<1>2. b \in BlobId /\ b \notin DOMAIN blob
  BY DEF FreshBlob
<1>3. BlobCounts(Restrict(node, {f})) = One(old)
  <2>1. \A x \in BlobId : Holders(Restrict(node, {f}), x) = IF x = old THEN {f} ELSE {}
    BY DEF Holders, Restrict
  <2> HIDE DEF old
  <2> QED BY <2>1, FS_EmptySet, FS_Singleton, Zenon DEF BlobCounts, One
<1>4. /\ Commit(nd, usage, 0, Size[b] - Size[old], NoFolderDelta, Ancestors(node, f))
      /\ blob' = Row(b, NewBlob) ++ bl
      /\ UNCHANGED <<trash, snap, setting, picked>>
  BY <1>3 DEF ReplaceFile
<1>5. 0 \in Int /\ Size[b] - Size[old] \in Int
  BY <1>1, <1>2, SizeType
<1>6. /\ IsTable(nd) /\ DOMAIN nd = DOMAIN node
      /\ \A x \in BlobId : Cardinality(Holders(nd, x))
           = Cardinality(Holders(node, x)) + One(b)[x] - One(old)[x]
  <2>1. /\ IsTable(nd) /\ DOMAIN nd = DOMAIN node /\ nd[f].blob = b
        /\ \A n \in DOMAIN node \ {f} : nd[n].blob = node[n].blob
    BY <1>1, <1>2, BlobTable
  <2> HIDE DEF nd
  <2> QED BY <1>1, <1>2, <2>1, ChangeBlob
<1>7. Apart(nd, trash)
  BY <1>1, <1>6 DEF Apart
<1>8. One(old) \in [BlobId -> Nat] /\ \A x \in BlobId : One(old)[x] <= R[x]
  <2>1. R[old] > 0
    BY <1>1, HeldCounted
  <2> QED BY <1>1, <2>1 DEF One, Exact
<1> HIDE DEF old, R, nd
<1>9. Exact(bl, R1) /\ DOMAIN bl = DOMAIN blob
  BY <1>1, <1>8, DecrementExact
<1> HIDE DEF bl, R1
<1>10. Exact(blob', R2)
  BY <1>2, <1>4, <1>9, NewBlobExact
<1>11. DOMAIN blob' = DOMAIN blob \cup {b}
  BY <1>4, <1>9 DEF ++, Row
<1>12. \A x \in BlobId : /\ R[x] \in Nat
                         /\ R2[x] = R[x] - One(old)[x] + One(b)[x]
  BY <1>1 DEF R1, Exact
<1>13. Lives(blob, blob')
  <2>1. \A x \in DOMAIN blob : x \in BlobId /\ x # b
    BY <1>1, <1>2 DEF Exact
  <2>2. \A x \in DOMAIN blob : R[x] = 0 => R2[x] = 0
    BY <1>8, <1>12, <2>1 DEF One
  <2>3. R[b] = 0 /\ R2[b] > 0
    BY <1>1, <1>2, <1>8, <1>12 DEF Exact, One
  <2> HIDE DEF R2
  <2> QED BY <1>1, <1>10, <1>11, <2>2, <2>3, LivesByCounts
<1>14. \A x \in BlobId : R2[x] = Refs(node, trash, snap)[x] + Cardinality(Holders(nd, x))
                                   - Cardinality(Holders(node, x))
  <2> TAKE x \in BlobId
  <2>1. Cardinality(Holders(node, x)) \in Nat /\ One(b)[x] \in Nat /\ One(old)[x] \in Nat
    BY <1>8, RefsType DEF IInv, IsTable, One
  <2> QED BY <1>6, <1>12, <2>1 DEF R
<1>15. \A x \in DOMAIN blob' \ DOMAIN blob : x \in FreshBlob
  BY <1>11
<1> HIDE DEF R2
<1> QED BY <1>4, <1>5, <1>6, <1>7, <1>10, <1>13, <1>14, <1>15, NoDeltaType, TreeBlobStep, Zenon

\* Restoring over a file moves one reference between two rows of the blob table.
LEMMA RestoreOverStep ==
  ASSUME IInv, NEW b \in BlobId, NEW f \in File, RestoreOver(b, f)
  PROVE  IInv' /\ Lives(blob, blob')
<1> DEFINE nd == [node EXCEPT ![f].blob = b]
           old == node[f].blob
           bl == Increment(blob, One(b))
           R == Refs(node, trash, snap)
           R1 == [x \in BlobId |-> R[x] + One(b)[x]]
           R2 == [x \in BlobId |-> R1[x] - One(old)[x]]
<1>1. f \in DOMAIN node /\ old \in BlobId /\ IsTable(node) /\ Apart(node, trash) /\ Exact(blob, R)
  BY FileParts DEF IInv
<1>2. /\ Commit(nd, usage, 0, Size[b] - Size[old], NoFolderDelta, Ancestors(node, f))
      /\ UNCHANGED <<trash, snap, setting, picked>>
      /\ old = b => blob' = blob
      /\ old # b => AllLive(blob, One(b)) /\ blob' = Decrement(bl, One(old))
  BY DEF RestoreOver
<1>3. 0 \in Int /\ Size[b] - Size[old] \in Int
  <2> HIDE DEF old
  <2>1. Size[b] \in Int /\ Size[old] \in Int
    BY <1>1, SizeType, Zenon
  <2> QED BY <2>1
<1>4. /\ IsTable(nd) /\ DOMAIN nd = DOMAIN node
      /\ \A x \in BlobId : Cardinality(Holders(nd, x))
           = Cardinality(Holders(node, x)) + One(b)[x] - One(old)[x]
  <2>1. /\ IsTable(nd) /\ DOMAIN nd = DOMAIN node /\ nd[f].blob = b
        /\ \A n \in DOMAIN node \ {f} : nd[n].blob = node[n].blob
    BY <1>1, <1>2, BlobTable
  <2> HIDE DEF nd
  <2> QED BY <1>1, <2>1, ChangeBlob
<1>5. Apart(nd, trash)
  BY <1>1, <1>4 DEF Apart
<1>6. /\ One(b) \in [BlobId -> Nat] /\ One(old) \in [BlobId -> Nat]
      /\ \A x \in BlobId : One(old)[x] <= R[x] /\ R[x] \in Nat
  <2>1. R[old] > 0
    BY <1>1, HeldCounted
  <2> QED BY <1>1, <2>1 DEF One, Exact
<1> HIDE DEF old, R, nd
<1>7. \A x \in BlobId : R2[x] = R[x] + One(b)[x] - One(old)[x]
  BY <1>6
<1>8. \A x \in BlobId : R2[x] = Refs(node, trash, snap)[x] + Cardinality(Holders(nd, x))
                                   - Cardinality(Holders(node, x))
  <2> TAKE x \in BlobId
  <2>1. Cardinality(Holders(node, x)) \in Nat /\ One(b)[x] \in Nat /\ One(old)[x] \in Nat
        /\ R[x] \in Nat
    BY <1>6, RefsType DEF IInv, IsTable
  <2> HIDE DEF R2
  <2> QED BY <1>4, <1>7, <2>1 DEF R
<1>9. Exact(blob', R2) /\ Lives(blob, blob') /\ DOMAIN blob' = DOMAIN blob
  <2>1. CASE old = b
    <3>1. R2 = R
      BY <1>1, <1>6, <2>1 DEF Exact
    <3> QED BY <1>1, <1>2, <2>1, <3>1, LivesSame
  <2>2. CASE old # b
    <3>1. R[b] > 0
      <4>1. One(b)[b] > 0
        BY DEF One
      <4> QED BY <1>1, <1>2, <2>2, <4>1 DEF AllLive, Exact
    <3>2. \A x \in BlobId : One(b)[x] > 0 => R[x] > 0
      BY <3>1 DEF One
    <3>3. Exact(bl, R1) /\ DOMAIN bl = DOMAIN blob
      BY <1>1, <1>6, <3>2, IncrementExact DEF Increment
    <3>4. \A x \in BlobId : One(old)[x] <= R1[x]
      BY <1>6
    <3> HIDE DEF bl, R1
    <3>5. Exact(blob', R2) /\ DOMAIN blob' = DOMAIN bl
      BY <1>2, <1>6, <2>2, <3>3, <3>4, DecrementExact
    <3>6. \A x \in DOMAIN blob : R[x] = 0 => R2[x] = 0
      <4> TAKE x \in DOMAIN blob
      <4>1. x \in BlobId
        BY <1>1 DEF Exact
      <4>2. One(b)[x] \in Nat /\ One(old)[x] \in Nat /\ R[x] \in Nat
            /\ (One(b)[x] > 0 => R[x] > 0) /\ One(old)[x] <= R[x]
            /\ R2[x] = R[x] + One(b)[x] - One(old)[x]
        BY <1>6, <1>7, <3>2, <4>1 DEF R1
      <4> QED BY <4>2
    <3> HIDE DEF R2
    <3> QED BY <1>1, <3>3, <3>5, <3>6, LivesByCounts
  <2> QED BY <2>1, <2>2, SMTT(40)
<1> HIDE DEF R2
<1> QED BY <1>2, <1>3, <1>4, <1>5, <1>8, <1>9, NoDeltaType, TreeBlobStep, Zenon

\* A copy refers to each blob once more for every file of the source that did.
LEMMA CopyNodeStep ==
  ASSUME IInv, NEW d \in Directory, NEW c \in Chains(d), NEW nm \in Name,
         NEW s \in DOMAIN node \ {Root}, NEW e \in BOOLEAN,
         NEW m \in Injection(Subtree(node, s), FreshNode \ ChainIds(c)),
         CopyNode(s, d, c, nm, m, e)
  PROVE  IInv' /\ Lives(blob, blob')
<1> DEFINE sub == Subtree(node, s)
           p == ChainEnd(d, c)
           o(n) == CHOOSE o \in sub : m[o] = n
           Copy(n) == [node[o(n)] EXCEPT
                         !.parent = IF o(n) = s THEN p ELSE m[@],
                         !.name = IF o(n) = s THEN nm ELSE @,
                         !.version = 1, !.files = 0,
                         !.expires = e /\ node[o(n)].type = "FILE"]
           copies == [n \in Range(m) |-> Copy(n)]
           od == ChainRows(d, c) ++ node
           nd == copies ++ od
           counts == BlobCounts(copies)
           R == Refs(node, trash, snap)
           R2 == [x \in BlobId |-> R[x] + counts[x]]
<1>1. d \in NodeId /\ p \in NodeId /\ Len(c) \in Nat /\ s \in DOMAIN node
      /\ IsTable(node) /\ Exact(blob, R)
  BY DirectoryParts, ChainParts, Zenon DEF IInv
<1>2. /\ Commit(nd, usage, Len(c) + Cardinality(sub), Bytes(copies), FolderCounts(copies),
                Ancestors(node, d))
      /\ blob' = Increment(blob, counts)
      /\ UNCHANGED <<trash, snap, setting, picked>>
  BY Zenon DEF CopyNode
<1>3. sub \subseteq DOMAIN node /\ \A x \in sub : x # s => node[x].parent \in sub
  BY <1>1, SubtreeParts, Zenon
<1>4. m \in [sub -> FreshNode \ ChainIds(c)]
  BY DEF Injection
<1>5. \A n \in Range(m) : o(n) \in sub /\ n \in FreshNode \ ChainIds(c)
  BY <1>4 DEF Range
<1>6. \A x \in sub : x # s => m[node[x].parent] \in NodeId
  BY <1>3, <1>4, FreshApart
<1> HIDE DEF sub, p
<1>7. ASSUME NEW n \in Range(m)
      PROVE  /\ copies[n] \in NodeRow
             /\ copies[n].blob = node[o(n)].blob /\ copies[n].type = node[o(n)].type
  <2>0. o(n) \in sub
    BY <1>5
  <2> DEFINE row == node[o(n)]
             q == IF o(n) = s THEN p ELSE m[row.parent]
             k == IF o(n) = s THEN nm ELSE row.name
             z == e /\ row.type = "FILE"
  <2>1. row \in NodeRow
    BY <1>1, <1>3, <2>0, SMTT(40) DEF IsTable
  <2>2. q \in NodeId /\ k \in Name \cup {None} /\ z \in BOOLEAN /\ 1 \in 1..MaxVersion
    BY <1>1, <1>6, <2>0, <2>1, BoundAssumption DEF NodeRow
  <2>3. copies[n] = [row EXCEPT !.parent = q, !.name = k, !.version = 1, !.files = 0,
                                !.expires = z]
    BY <1>7, <2>1 DEF NodeRow
  <2> HIDE DEF row, q, k, z, copies
  <2>4. copies[n] = [parent |-> q, name |-> k, type |-> row.type, blob |-> row.blob,
                     version |-> 1, expires |-> z, files |-> 0]
    BY <2>1, <2>3, Zenon DEF NodeRow
  <2>5. copies[n].blob = row.blob /\ copies[n].type = row.type
    BY ONLY <2>4
  <2>6. copies[n] \in NodeRow
    <3>1. row.type \in {"FILE", "DIRECTORY"} /\ row.blob \in BlobId \cup {None}
      BY <2>1 DEF NodeRow
    <3> QED BY <2>2, <2>4, <3>1 DEF NodeRow
  <2> QED BY <2>5, <2>6 DEF row
<1>8. IsTable(copies) /\ DOMAIN copies = Range(m) /\ Range(m) \subseteq FreshNode \ ChainIds(c)
  <2>1. \A n \in Range(m) : node[o(n)].type = "FILE" => node[o(n)].blob \in BlobId
    BY <1>1, <1>3, <1>5, Zenon DEF IsTable
  <2>2. DOMAIN copies = Range(m) /\ copies = [n \in Range(m) |-> copies[n]]
    OBVIOUS
  <2> HIDE DEF copies
  <2> QED BY <1>5, <1>7, <2>1, <2>2, FreshApart, SMTT(40) DEF IsTable
<1> HIDE DEF copies
<1>9. IsFiniteSet(sub)
  BY <1>1, <1>3, NodeAssumption, FS_Subset DEF IsTable
<1>10. IsFiniteSet(DOMAIN copies)
  BY <1>8, TableFinite DEF IsTable
<1>11. \A x \in BlobId : counts[x] = Cardinality(Holders(copies, x))
  BY DEF BlobCounts
<1>12. ASSUME NEW x \in BlobId, counts[x] > 0 PROVE R[x] > 0
  <2>1. Holders(copies, x) # {}
    BY <1>11, <1>12, FS_EmptySet
  <2>2. PICK n \in DOMAIN copies : copies[n].blob = x
    BY <2>1 DEF Holders
  <2>3. o(n) \in DOMAIN node /\ node[o(n)].blob = x
    BY <1>3, <1>5, <1>7, <1>8, <2>2, SMTT(40)
  <2> QED BY <1>12, <2>3, HeldCounted
<1> HIDE DEF counts
<1>13. /\ Len(c) + Cardinality(sub) \in Int /\ Bytes(copies) \in Int
       /\ FolderCounts(copies) \in [NodeId -> Int] /\ counts \in [BlobId -> Nat]
  <2>1. Cardinality(sub) \in Nat
    BY <1>9, FS_CardinalityType
  <2> QED BY <1>1, <1>10, <2>1, CountsType DEF counts
<1>14. /\ IsTable(od) /\ Apart(od, trash)
       /\ \A x \in BlobId : Cardinality(Holders(od, x)) = Cardinality(Holders(node, x))
  BY <1>1, ChainTable, Zenon DEF IInv
<1>15. DOMAIN copies \cap DOMAIN od = {}
  <2>1. DOMAIN od = ChainIds(c) \cup DOMAIN node
    BY <1>1, ChainParts, OverrideParts, Zenon
  <2> QED BY <1>8, <2>1, FreshApart, Zenon
<1>16. IsTable(nd) /\ DOMAIN nd = DOMAIN copies \cup DOMAIN od
  BY <1>8, <1>14, TableOfUnion, OverrideParts, Zenon
<1>17. Apart(nd, trash)
  BY <1>8, <1>14, <1>16, FreshApart, SMTT(40) DEF Apart
<1>18. \A x \in BlobId : R2[x] = Refs(node, trash, snap)[x] + Cardinality(Holders(nd, x))
                                   - Cardinality(Holders(node, x))
  <2> TAKE x \in BlobId
  <2>1. IsFiniteSet(DOMAIN od)
    BY <1>14, TableFinite DEF IsTable
  <2>2. Cardinality(Holders(nd, x)) = counts[x] + Cardinality(Holders(od, x))
    BY <1>10, <1>11, <1>15, <2>1, HoldersOfUnion
  <2>3. Cardinality(Holders(node, x)) \in Nat /\ counts[x] \in Nat /\ R[x] \in Nat
    BY <1>1, <1>13, RefsType, Zenon DEF IInv, IsTable, Exact
  <2>4. Cardinality(Holders(od, x)) = Cardinality(Holders(node, x))
    BY <1>14, Zenon
  <2> HIDE DEF nd, od
  <2> QED BY <2>2, <2>3, <2>4, SMTT(40)
<1>19. Exact(blob', R2) /\ Lives(blob, blob')
  BY <1>1, <1>2, <1>12, <1>13, IncrementExact, Zenon
<1>20. \A x \in DOMAIN blob' \ DOMAIN blob : x \in FreshBlob
  BY <1>2 DEF Increment
<1> HIDE DEF nd, od, R2
<1> QED BY <1>2, <1>13, <1>16, <1>17, <1>18, <1>19, <1>20, TreeBlobStep, Zenon
=============================================================================
