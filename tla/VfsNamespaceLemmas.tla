------------------------- MODULE VfsNamespaceLemmas -------------------------
(***************************************************************************)
(* Facts about the operators VfsNamespace is built from: subtrees, counts  *)
(* of references over tables and manifests, the updates of the blob table; *)
(* and the inductive invariant with what every mutation does to it.        *)
(***************************************************************************)
EXTENDS VfsNamespace, FiniteSetTheorems, TLAPS

\* A subtree holds its root and every child of its members, and the parent of
\* every other member is a member.
LEMMA SubtreeParts ==
  ASSUME NEW nd, NEW n \in DOMAIN nd
  PROVE  /\ Subtree(nd, n) \subseteq DOMAIN nd
         /\ n \in Subtree(nd, n)
         /\ \A x \in DOMAIN nd : nd[x].parent \in Subtree(nd, n) => x \in Subtree(nd, n)
         /\ \A x \in Subtree(nd, n) : x # n => nd[x].parent \in Subtree(nd, n)
<1>1. Subtree(nd, n) \subseteq DOMAIN nd /\ n \in Subtree(nd, n)
  BY DEF Subtree
<1>2. ASSUME NEW x \in DOMAIN nd, nd[x].parent \in Subtree(nd, n)
      PROVE  x \in Subtree(nd, n)
  BY <1>2 DEF Subtree
<1>3. ASSUME NEW x \in Subtree(nd, n), x # n, nd[x].parent \notin Subtree(nd, n)
      PROVE  FALSE
  <2> DEFINE S == Subtree(nd, n) \ {x}
  <2>1. n \in S /\ S \in SUBSET DOMAIN nd
    BY <1>1, <1>3
  <2>2. \A y \in DOMAIN nd : nd[y].parent \in S => y \in S
    BY <1>2, <1>3
  <2>3. x \in S
    BY <2>1, <2>2, <1>3, Zenon DEF Subtree
  <2> QED BY <2>3
<1> QED BY <1>1, <1>2, <1>3

\* The left table wins where both have a row.
LEMMA OverrideParts ==
  ASSUME NEW f, NEW g
  PROVE  /\ DOMAIN (f ++ g) = DOMAIN f \cup DOMAIN g
         /\ \A x \in DOMAIN f : (f ++ g)[x] = f[x]
         /\ \A x \in (DOMAIN g) \ DOMAIN f : (f ++ g)[x] = g[x]
  BY DEF ++

-----------------------------------------------------------------------------
\* Disjoint sets are counted separately.
LEMMA CardinalityOfDisjoint ==
  ASSUME NEW S, NEW T, IsFiniteSet(S), IsFiniteSet(T), S \cap T = {}
  PROVE  /\ IsFiniteSet(S \cup T)
         /\ Cardinality(S \cup T) = Cardinality(S) + Cardinality(T)
<1>1. Cardinality(S) \in Nat /\ Cardinality(T) \in Nat
  BY FS_CardinalityType
<1> QED BY <1>1, FS_Union, FS_EmptySet

\* What a table with finitely many rows counts is finite.
LEMMA HoldersFinite ==
  ASSUME NEW rows, IsFiniteSet(DOMAIN rows), NEW b
  PROVE  /\ Holders(rows, b) \subseteq DOMAIN rows
         /\ IsFiniteSet(Holders(rows, b))
         /\ Cardinality(Holders(rows, b)) \in Nat
<1>1. Holders(rows, b) \in SUBSET DOMAIN rows
  BY DEF Holders
<1> QED BY <1>1, FS_Subset, FS_CardinalityType

\* The references of two tables without a common row add up.
LEMMA HoldersOfUnion ==
  ASSUME NEW f, NEW g, IsFiniteSet(DOMAIN f), IsFiniteSet(DOMAIN g),
         DOMAIN f \cap DOMAIN g = {}, NEW b
  PROVE  Cardinality(Holders(f ++ g, b))
           = Cardinality(Holders(f, b)) + Cardinality(Holders(g, b))
<1>1. Holders(f ++ g, b) = Holders(f, b) \cup Holders(g, b)
  BY DEF Holders, ++
<1>2. Holders(f, b) \cap Holders(g, b) = {}
  BY DEF Holders
<1> QED BY <1>1, <1>2, HoldersFinite, CardinalityOfDisjoint, Zenon

\* A table is split into a part and the rest.
LEMMA HoldersOfParts ==
  ASSUME NEW f, IsFiniteSet(DOMAIN f), NEW S \in SUBSET DOMAIN f, NEW b
  PROVE  Cardinality(Holders(f, b))
           = Cardinality(Holders(Restrict(f, S), b))
             + Cardinality(Holders(Restrict(f, DOMAIN f \ S), b))
<1> DEFINE A == Holders(Restrict(f, S), b)
           B == Holders(Restrict(f, DOMAIN f \ S), b)
<1>1. Holders(f, b) = A \cup B /\ A \cap B = {}
  BY DEF Holders, Restrict
<1>2. A \in SUBSET DOMAIN f /\ B \in SUBSET DOMAIN f
  BY DEF Holders, Restrict
<1>3. IsFiniteSet(A) /\ IsFiniteSet(B)
  BY <1>2, FS_Subset, Zenon
<1> HIDE DEF A, B
<1>4. Cardinality(A \cup B) = Cardinality(A) + Cardinality(B)
  BY <1>1, <1>3, CardinalityOfDisjoint
<1> QED BY <1>1, <1>4 DEF A, B

\* Tables that agree on their blobs count the same.
LEMMA HoldersSame ==
  ASSUME NEW f, NEW g, DOMAIN f = DOMAIN g, \A n \in DOMAIN f : f[n].blob = g[n].blob,
         NEW b
  PROVE  Holders(f, b) = Holders(g, b)
  BY DEF Holders

\* Directories refer to nothing.
LEMMA HoldersOfDirectories ==
  ASSUME NEW f, \A n \in DOMAIN f : f[n].blob = None, NEW b \in BlobId
  PROVE  Holders(f, b) = {}
  BY BlobAssumption DEF Holders

-----------------------------------------------------------------------------
\* A collection of manifests over node identifiers.
IsManifests(m) ==
    /\ m = [t \in DOMAIN m |-> m[t]]
    /\ IsFiniteSet(DOMAIN m)
    /\ \A t \in DOMAIN m : DOMAIN m[t] \subseteq NodeId

\* The manifests of finitely many items have finitely many entries.
LEMMA EntriesFinite ==
  ASSUME NEW m, IsManifests(m)
  PROVE  IsFiniteSet(DOMAIN Entries(m))
<1>1. IsFiniteSet((DOMAIN m) \X NodeId)
  BY FS_Product, NodeAssumption DEF IsManifests
<1>2. DOMAIN Entries(m) \in SUBSET ((DOMAIN m) \X NodeId)
  BY DEF Entries
<1> QED BY <1>1, <1>2, FS_Subset

\* A set of pairs with the same first component is as large as the set of
\* second components.
LEMMA CardinalityOfTagged ==
  ASSUME NEW t, NEW S, IsFiniteSet(S)
  PROVE  /\ IsFiniteSet({t} \X S)
         /\ Cardinality({t} \X S) = Cardinality(S)
<1>1. IsFiniteSet({t}) /\ Cardinality({t}) = 1 /\ Cardinality(S) \in Nat
  BY FS_Singleton, FS_CardinalityType, Zenon
<1> QED BY <1>1, FS_Product

\* A new manifest adds the references of its rows.
LEMMA EntriesAdd ==
  ASSUME NEW m, IsManifests(m), NEW t, t \notin DOMAIN m,
         NEW rows, DOMAIN rows \subseteq NodeId, NEW b
  PROVE  /\ IsManifests(Row(t, rows) ++ m)
         /\ Cardinality(Holders(Entries(Row(t, rows) ++ m), b))
              = Cardinality(Holders(Entries(m), b)) + Cardinality(Holders(rows, b))
<1> DEFINE m2 == Row(t, rows) ++ m
           A == Holders(Entries(m), b)
           B == {t} \X Holders(rows, b)
<1>1. IsManifests(m2)
  <2>1. DOMAIN m2 = {t} \cup DOMAIN m
    BY DEF ++, Row
  <2>2. IsFiniteSet(DOMAIN m2)
    BY <2>1, FS_AddElement DEF IsManifests
  <2> QED BY <2>2 DEF IsManifests, ++, Row
<1>2. Holders(Entries(m2), b) = A \cup B
  BY DEF Holders, Entries, ++, Row
<1>3. A \cap B = {}
  BY DEF Holders, Entries
<1>4. IsFiniteSet(A)
  BY EntriesFinite, HoldersFinite
<1>5. IsFiniteSet(Holders(rows, b))
  <2>1. IsFiniteSet(DOMAIN rows)
    BY NodeAssumption, FS_Subset
  <2> QED BY <2>1, HoldersFinite
<1>6. IsFiniteSet(B) /\ Cardinality(B) = Cardinality(Holders(rows, b))
  BY <1>5, CardinalityOfTagged, Zenon
<1> HIDE DEF A, B
<1>7. Cardinality(A \cup B) = Cardinality(A) + Cardinality(B)
  BY <1>3, <1>4, <1>6, CardinalityOfDisjoint
<1> QED BY <1>1, <1>2, <1>6, <1>7 DEF A

\* A manifest that goes takes the references of its rows away.
LEMMA EntriesRemove ==
  ASSUME NEW m, IsManifests(m), NEW t \in DOMAIN m, NEW b
  PROVE  LET rest == Restrict(m, DOMAIN m \ {t})
         IN  /\ IsManifests(rest)
             /\ Cardinality(Holders(Entries(m), b))
                  = Cardinality(Holders(Entries(rest), b)) + Cardinality(Holders(m[t], b))
<1> DEFINE rest == Restrict(m, DOMAIN m \ {t})
<1>1. IsManifests(rest)
  <2>1. IsFiniteSet(DOMAIN m \ {t})
    BY FS_RemoveElement DEF IsManifests
  <2> QED BY <2>1 DEF IsManifests, Restrict
<1>2. t \notin DOMAIN rest
  BY DEF Restrict
<1>3. m = Row(t, m[t]) ++ rest
  BY DEF IsManifests, Restrict, Row, ++
<1>4. DOMAIN m[t] \subseteq NodeId
  BY DEF IsManifests
<1> HIDE DEF rest
<1>5. Cardinality(Holders(Entries(Row(t, m[t]) ++ rest), b))
        = Cardinality(Holders(Entries(rest), b)) + Cardinality(Holders(m[t], b))
  BY <1>1, <1>2, <1>4, EntriesAdd
<1> QED BY <1>1, <1>3, <1>5 DEF rest

-----------------------------------------------------------------------------
\* The blob table bl counts exactly the references R.
Exact(bl, R) ==
    /\ R \in [BlobId -> Nat]
    /\ DOMAIN bl \subseteq BlobId
    /\ bl \in [DOMAIN bl -> BlobRow]
    /\ \A b \in BlobId : R[b] > 0 => b \in DOMAIN bl
    /\ \A b \in DOMAIN bl : bl[b].ref = R[b] /\ (bl[b].zeroSince <=> bl[b].ref = 0)

\* Each row of the blob table takes at most one step of its life.
Lives(bl, bl2) == \A b \in BlobId : Rows!Step(RowState(bl)[b], RowState(bl2)[b])

\* A step that leaves the blob table alone leaves every row in its state.
LEMMA LivesSame ==
  ASSUME NEW bl
  PROVE  Lives(bl, bl)
  BY DEF Lives, Rows!Step

\* Whatever two exact tables count, no row comes back from zero.
LEMMA LivesByCounts ==
  ASSUME NEW bl, NEW R, NEW bl2, NEW R2, Exact(bl, R), Exact(bl2, R2),
         DOMAIN bl \subseteq DOMAIN bl2,
         \A b \in DOMAIN bl : R[b] = 0 => R2[b] = 0,
         \A b \in DOMAIN bl2 \ DOMAIN bl : R2[b] > 0
  PROVE  Lives(bl, bl2)
  BY DEF Lives, Exact, RowState, Rows!Step

\* New references to rows that are live.
LEMMA IncrementExact ==
  ASSUME NEW bl, NEW R, Exact(bl, R), NEW counts \in [BlobId -> Nat],
         \A b \in BlobId : counts[b] > 0 => R[b] > 0
  PROVE  /\ Exact(Increment(bl, counts), [b \in BlobId |-> R[b] + counts[b]])
         /\ Lives(bl, Increment(bl, counts))
<1> DEFINE R2 == [b \in BlobId |-> R[b] + counts[b]]
           bl2 == Increment(bl, counts)
<1>1. DOMAIN bl2 = DOMAIN bl /\ \A b \in DOMAIN bl : 
         bl2[b] \in BlobRow /\ bl2[b].ref = bl[b].ref + counts[b] /\ bl2[b].zeroSince = bl[b].zeroSince
  BY DEF Exact, Increment, BlobRow
<1>2. Exact(bl2, R2)
  BY <1>1 DEF Exact, Increment, BlobRow
<1>3. Lives(bl, bl2)
  BY <1>1 DEF Exact, Lives, RowState, Rows!Step, BlobRow
<1> QED BY <1>2, <1>3

\* References given back, no more than there are.
LEMMA DecrementExact ==
  ASSUME NEW bl, NEW R, Exact(bl, R), NEW counts \in [BlobId -> Nat],
         \A b \in BlobId : counts[b] <= R[b]
  PROVE  /\ Exact(Decrement(bl, counts), [b \in BlobId |-> R[b] - counts[b]])
         /\ Lives(bl, Decrement(bl, counts))
         /\ DOMAIN Decrement(bl, counts) = DOMAIN bl
<1> DEFINE R2 == [b \in BlobId |-> R[b] - counts[b]]
           bl2 == Decrement(bl, counts)
<1>1. DOMAIN bl2 = DOMAIN bl /\ \A b \in DOMAIN bl : 
         /\ bl2[b] \in BlobRow
         /\ bl2[b].ref = bl[b].ref - counts[b]
         /\ bl2[b].zeroSince <=> bl2[b].ref = 0
  <2>1. DOMAIN bl2 = DOMAIN bl
    BY DEF Decrement
  <2>2. ASSUME NEW b \in DOMAIN bl PROVE
         /\ bl2[b] \in BlobRow
         /\ bl2[b].ref = bl[b].ref - counts[b]
         /\ bl2[b].zeroSince <=> bl2[b].ref = 0
    <3>1. bl[b] \in BlobRow /\ bl[b].ref = R[b] /\ (bl[b].zeroSince <=> bl[b].ref = 0)
          /\ R[b] \in Nat /\ counts[b] \in Nat /\ counts[b] <= R[b]
      BY DEF Exact
    <3>2. CASE counts[b] = 0
      BY <3>1, <3>2 DEF Decrement, BlobRow
    <3>3. CASE counts[b] # 0
      <4>1. bl2[b] = [ref |-> bl[b].ref - counts[b],
                      zeroSince |-> bl[b].zeroSince \/ bl[b].ref = counts[b]]
        BY <3>3 DEF Decrement
      <4>2. bl[b].ref # 0 /\ ~ bl[b].zeroSince
        BY <3>1, <3>3
      <4>3. bl2[b].ref = bl[b].ref - counts[b] /\ bl2[b].ref \in Int
        BY <3>1, <4>1
      <4>4. bl2[b].zeroSince = (bl[b].zeroSince \/ bl[b].ref = counts[b])
        BY <4>1
      <4>5. bl2[b].zeroSince <=> bl[b].ref = counts[b]
        BY <4>2, <4>4, Zenon
      <4>6. bl2[b] \in BlobRow
        BY <3>1, <4>1 DEF BlobRow
      <4> QED BY <3>1, <4>3, <4>5, <4>6
    <3> QED BY <3>2, <3>3
  <2> QED BY <2>1, <2>2
<1>2. Exact(bl2, R2)
  BY <1>1 DEF Exact, Decrement, BlobRow
<1>3. Lives(bl, bl2)
  BY <1>1 DEF Exact, Lives, RowState, Rows!Step, BlobRow
<1> QED BY <1>1, <1>2, <1>3

\* A new blob with its first reference.
LEMMA NewBlobExact ==
  ASSUME NEW bl, NEW R, Exact(bl, R), NEW b \in BlobId, b \notin DOMAIN bl
  PROVE  /\ R[b] = 0
         /\ Exact(Row(b, NewBlob) ++ bl, [x \in BlobId |-> R[x] + One(b)[x]])
         /\ Lives(bl, Row(b, NewBlob) ++ bl)
<1> DEFINE bl2 == Row(b, NewBlob) ++ bl
<1>1. R[b] = 0
  BY DEF Exact
<1>2. /\ DOMAIN bl2 = DOMAIN bl \cup {b}
      /\ bl2[b] = [ref |-> 1, zeroSince |-> FALSE]
      /\ \A x \in DOMAIN bl : bl2[x] = bl[x]
      /\ bl2 = [x \in DOMAIN bl2 |-> bl2[x]]
  BY DEF Row, ++, NewBlob
<1> HIDE DEF bl2
<1>3. Exact(bl2, [x \in BlobId |-> R[x] + One(b)[x]])
  <2>1. /\ [x \in BlobId |-> R[x] + One(b)[x]] \in [BlobId -> Nat]
        /\ \A x \in BlobId : R[x] + One(b)[x] = IF x = b THEN 1 ELSE R[x]
    BY <1>1 DEF Exact, One
  <2>2. DOMAIN bl2 \subseteq BlobId /\ bl2 \in [DOMAIN bl2 -> BlobRow]
    <3>1. [ref |-> 1, zeroSince |-> FALSE] \in BlobRow
      BY DEF BlobRow
    <3>2. \A x \in DOMAIN bl2 : x \in BlobId /\ bl2[x] \in BlobRow
      BY <1>2, <3>1, Zenon DEF Exact
    <3> QED BY <1>2, <3>2
  <2>3. \A x \in BlobId : R[x] + One(b)[x] > 0 => x \in DOMAIN bl2
    BY <1>2, <2>1 DEF Exact
  <2>4. ASSUME NEW x \in DOMAIN bl2
        PROVE  bl2[x].ref = R[x] + One(b)[x] /\ (bl2[x].zeroSince <=> bl2[x].ref = 0)
    <3>1. CASE x = b
      BY <1>2, <2>1, <3>1
    <3>2. CASE x # b
      BY <1>2, <2>1, <3>2 DEF Exact
    <3> QED BY <3>1, <3>2
  <2> QED BY <2>1, <2>2, <2>3, <2>4 DEF Exact
<1>4. Lives(bl, bl2)
  BY <1>2 DEF Lives, RowState, Rows!Step
<1> QED BY <1>1, <1>3, <1>4 DEF bl2

-----------------------------------------------------------------------------
\* The counts over a table with finitely many rows are numbers.
LEMMA CountsType ==
  ASSUME NEW rows, IsFiniteSet(DOMAIN rows)
  PROVE  /\ Cardinality(DOMAIN rows) \in Nat
         /\ Bytes(rows) \in Nat
         /\ BlobCounts(rows) \in [BlobId -> Nat]
         /\ FolderCounts(rows) \in [NodeId -> Nat]
<1>1. Bytes(rows) \in Nat
  <2>1. IsFiniteSet((DOMAIN rows) \X (1..MaxSize))
    <3>1. 1 \in Int /\ MaxSize \in Int
      BY SizeAssumption
    <3>2. IsFiniteSet(1..MaxSize)
      BY <3>1, FS_Interval
    <3> QED BY <3>2, FS_Product, Zenon
  <2>2. ByteSet(rows) \in SUBSET ((DOMAIN rows) \X (1..MaxSize))
    BY DEF ByteSet
  <2> QED BY <2>1, <2>2, FS_Subset, FS_CardinalityType DEF Bytes
<1>2. BlobCounts(rows) \in [BlobId -> Nat]
  BY HoldersFinite DEF BlobCounts
<1>3. ASSUME NEW d \in NodeId PROVE Cardinality(FilesBelow(rows, d)) \in Nat
  <2>1. FilesBelow(rows, d) \in SUBSET DOMAIN rows
    BY DEF FilesBelow
  <2> QED BY <2>1, FS_Subset, FS_CardinalityType
<1>4. FolderCounts(rows) \in [NodeId -> Nat]
  BY <1>3 DEF FolderCounts
<1> QED BY <1>1, <1>2, <1>4, FS_CardinalityType

\* Rows that a vfs_node table may hold.
IsTable(nd) ==
    /\ DOMAIN nd \subseteq NodeId
    /\ nd \in [DOMAIN nd -> NodeRow]
    /\ \A n \in DOMAIN nd : nd[n].type = "FILE" => nd[n].blob \in BlobId

\* A table of nodes has finitely many rows.
LEMMA TableFinite ==
  ASSUME NEW nd, DOMAIN nd \subseteq NodeId
  PROVE  IsFiniteSet(DOMAIN nd)
  BY NodeAssumption, FS_Subset

\* Putting node rows into a table of node rows gives one.
LEMMA TableOfUnion ==
  ASSUME NEW f, NEW g, IsTable(f), IsTable(g)
  PROVE  IsTable(f ++ g)
  BY DEF IsTable, ++

\* New rows.
LEMMA NewRows ==
  ASSUME NEW p \in NodeId, NEW nm \in Name, NEW b \in BlobId, NEW e \in BOOLEAN
  PROVE  /\ DirectoryRow(p, nm) \in NodeRow
         /\ DirectoryRow(p, nm).type = "DIRECTORY" /\ DirectoryRow(p, nm).blob = None
         /\ FileRow(p, nm, b, e) \in NodeRow
         /\ FileRow(p, nm, b, e).blob = b
<1>1. 1 \in 1..MaxVersion
  BY BoundAssumption
<1> QED BY <1>1 DEF DirectoryRow, FileRow, NodeRow

\* The directories a request makes on its path.
LEMMA ChainParts ==
  ASSUME NEW d \in NodeId, NEW c \in Chains(d)
  PROVE  /\ IsTable(ChainRows(d, c))
         /\ DOMAIN ChainRows(d, c) = ChainIds(c)
         /\ ChainIds(c) \subseteq FreshNode
         /\ \A n \in ChainIds(c) : ChainRows(d, c)[n].blob = None
         /\ ChainEnd(d, c) \in NodeId
         /\ Len(c) \in Nat
<1>1. PICK k \in 0..MaxMissing : c \in [1..k -> [id : FreshNode, name : Name]]
  BY DEF Chains
<1>2. k \in Nat /\ DOMAIN c = 1..k
  BY <1>1, BoundAssumption
<1>3. Len(c) = k
  BY <1>1, <1>2
<1>4. FreshNode \subseteq NodeId
  BY DEF FreshNode
<1>5. \A i \in DOMAIN c : c[i].id \in FreshNode /\ c[i].id \in NodeId /\ c[i].name \in Name
  BY <1>1, <1>2, <1>4
<1>6. ChainEnd(d, c) \in NodeId
  <2>1. CASE c = <<>>
    BY <2>1 DEF ChainEnd
  <2>2. CASE c # <<>>
    <3>1. k # 0
      BY <1>1, <2>2
    <3> QED BY <1>2, <1>3, <1>5, <2>2, <3>1 DEF ChainEnd
  <2> QED BY <2>1, <2>2
<1>7. ASSUME NEW n \in ChainIds(c)
      PROVE  /\ ChainRows(d, c)[n] \in NodeRow
             /\ ChainRows(d, c)[n].type = "DIRECTORY"
             /\ ChainRows(d, c)[n].blob = None
  <2> DEFINE i == CHOOSE i \in DOMAIN c : c[i].id = n
             p == IF i = 1 THEN d ELSE c[i - 1].id
  <2>1. i \in DOMAIN c
    BY <1>7 DEF ChainIds
  <2>2. ChainRows(d, c)[n] = DirectoryRow(p, c[i].name)
    BY <1>7 DEF ChainRows
  <2>3. p \in NodeId
    <3>1. CASE i = 1
      BY <3>1
    <3>2. CASE i # 1
      <4>1. i - 1 \in DOMAIN c
        BY <1>2, <2>1, <3>2
      <4> QED BY <1>5, <3>2, <4>1
    <3> QED BY <3>1, <3>2
  <2> HIDE DEF i, p
  <2>4. c[i].name \in Name
    BY <1>5, <2>1
  <2>5. 1 \in 1..MaxVersion
    BY BoundAssumption
  <2> QED BY <2>2, <2>3, <2>4, <2>5 DEF DirectoryRow, NodeRow
<1>8. DOMAIN ChainRows(d, c) = ChainIds(c) /\ ChainIds(c) \subseteq FreshNode
  BY <1>5 DEF ChainRows, ChainIds
<1>9. ChainRows(d, c) \in [ChainIds(c) -> NodeRow]
  BY <1>7, SMTT(40) DEF ChainRows
<1>10. IsTable(ChainRows(d, c))
  BY <1>4, <1>7, <1>8, <1>9 DEF IsTable
<1> QED BY <1>2, <1>3, <1>6, <1>7, <1>8, <1>10

\* What a mutation leaves: the rows of its work, with new versions and folder
\* counters, and the counters it recorded.
LEMMA CommitParts ==
  ASSUME NEW nd, IsTable(nd), NEW use \in UsageRow, NEW nodeDelta \in Int,
         NEW byteDelta \in Int, NEW folderDelta \in [NodeId -> Int], NEW changed,
         Commit(nd, use, nodeDelta, byteDelta, folderDelta, changed)
  PROVE  /\ IsTable(node')
         /\ DOMAIN node' = DOMAIN nd
         /\ \A n \in DOMAIN nd : node'[n].blob = nd[n].blob /\ node'[n].type = nd[n].type
         /\ usage' \in UsageRow
<1>0. /\ \A d \in DOMAIN nd : nd[d].files + folderDelta[d] >= 0
      /\ \A n \in changed : nd[n].version < MaxVersion
      /\ usage' = [use EXCEPT !.nodes = @ + nodeDelta, !.bytes = @ + byteDelta]
  BY Zenon DEF Commit
<1>1. DOMAIN node' = DOMAIN nd /\ node' = [n \in DOMAIN nd |-> node'[n]]
  BY Zenon DEF Commit
<1>2. ASSUME NEW n \in DOMAIN nd
      PROVE  /\ node'[n] \in NodeRow
             /\ node'[n].blob = nd[n].blob /\ node'[n].type = nd[n].type
  <2> DEFINE v == IF n \in changed THEN nd[n].version + 1 ELSE nd[n].version
             k == nd[n].files + folderDelta[n]
  <2>1. nd[n] \in NodeRow /\ n \in NodeId /\ folderDelta[n] \in Int
    BY DEF IsTable
  <2>2. v \in 1..MaxVersion /\ k \in Nat
    <3>1. nd[n].version \in 1..MaxVersion /\ nd[n].files \in Nat
      BY <2>1 DEF NodeRow
    <3> QED BY <1>0, <2>1, <3>1, BoundAssumption
  <2>3. node'[n] = [nd[n] EXCEPT !.files = k, !.version = v]
    BY <2>1, Zenon DEF Commit, NodeRow
  <2> HIDE DEF v, k
  <2> QED BY <2>1, <2>2, <2>3, Zenon DEF NodeRow
<1>3. usage' \in UsageRow
  <2> DEFINE a == use.nodes + nodeDelta
             b == use.bytes + byteDelta
  <2>1. a \in Int /\ b \in Int
    BY DEF UsageRow
  <2>2. usage' = [use EXCEPT !.nodes = a, !.bytes = b]
    BY <1>0
  <2> HIDE DEF a, b
  <2> QED BY <2>1, <2>2, Zenon DEF UsageRow
<1> QED BY <1>1, <1>2, <1>3 DEF IsTable

-----------------------------------------------------------------------------
\* The set of all tables, and the items of the trash and of a snapshot.
Table(Id, R) == UNION {[S -> R] : S \in SUBSET Id}
TrashItem == [root : NodeId, rows : Table(NodeId, TrashRow)]
SnapItem == Table(NodeId, [blob : BlobId \cup {None}])

\* What it takes for a function to be a table.
LEMMA TableParts ==
  ASSUME NEW Id, NEW R, NEW f
  PROVE  f \in Table(Id, R) <=> DOMAIN f \subseteq Id /\ f \in [DOMAIN f -> R]
  BY DEF Table

\* The rows of each trash item.
TrashRows(tr) == [t \in DOMAIN tr |-> tr[t].rows]

\* What the tree, the trash and the snapshots refer to.
Refs(nd, tr, sn) ==
    [b \in BlobId |-> Cardinality(Holders(nd, b)) + Cardinality(Holders(Entries(TrashRows(tr)), b))
                        + Cardinality(Holders(Entries(sn), b))]

IsTrash(tr) ==
    /\ tr \in Table(TrashId, TrashItem)
    /\ \A t \in DOMAIN tr : \A n \in DOMAIN tr[t].rows :
         tr[t].rows[n].type = "FILE" => tr[t].rows[n].blob \in BlobId

IsSnaps(sn) == sn \in Table(SnapId, SnapItem)

\* An identifier is in one place: live, or in one trash item.
Apart(nd, tr) ==
    /\ \A t \in DOMAIN tr : DOMAIN tr[t].rows \cap DOMAIN nd = {}
    /\ \A t, u \in DOMAIN tr : t # u => DOMAIN tr[t].rows \cap DOMAIN tr[u].rows = {}

\* The inductive invariant.
IInv ==
    /\ IsTable(node)
    /\ IsTrash(trash)
    /\ IsSnaps(snap)
    /\ usage \in UsageRow
    /\ setting \in Settings
    /\ picked \in [Gc -> SUBSET BlobId]
    /\ Apart(node, trash)
    /\ Exact(blob, Refs(node, trash, snap))
    /\ \A g \in Gc : \A b \in picked[g] : b \in DOMAIN blob => blob[b].ref = 0

\* The types of the trash items and of the rows they keep.
LEMMA TrashManifests ==
  ASSUME NEW tr, IsTrash(tr)
  PROVE  /\ IsManifests(TrashRows(tr))
         /\ \A t \in DOMAIN tr : /\ tr[t].root \in NodeId
                                 /\ DOMAIN tr[t].rows \subseteq NodeId
                                 /\ tr[t].rows \in [DOMAIN tr[t].rows -> TrashRow]
<1>1. DOMAIN tr \subseteq TrashId
      /\ tr \in [DOMAIN tr -> TrashItem]
  BY TableParts DEF IsTrash
<1>2. \A t \in DOMAIN tr : /\ tr[t].root \in NodeId
                           /\ DOMAIN tr[t].rows \subseteq NodeId
                           /\ tr[t].rows \in [DOMAIN tr[t].rows -> TrashRow]
  <2> TAKE t \in DOMAIN tr
  <2>1. tr[t].root \in NodeId /\ tr[t].rows \in Table(NodeId, TrashRow)
    BY <1>1 DEF TrashItem
  <2> QED BY <2>1, TableParts
<1>3. IsFiniteSet(DOMAIN tr)
  BY <1>1, ManifestAssumption, FS_Subset
<1> QED BY <1>2, <1>3 DEF IsManifests, TrashRows

\* The types of the rows the snapshots keep.
LEMMA SnapManifests ==
  ASSUME NEW sn, IsSnaps(sn)
  PROVE  /\ IsManifests(sn)
         /\ \A s \in DOMAIN sn : /\ DOMAIN sn[s] \subseteq NodeId
                                 /\ sn[s] \in [DOMAIN sn[s] -> [blob : BlobId \cup {None}]]
<1>1. DOMAIN sn \subseteq SnapId
      /\ sn \in [DOMAIN sn -> SnapItem]
  BY TableParts DEF IsSnaps
<1>2. \A s \in DOMAIN sn : /\ DOMAIN sn[s] \subseteq NodeId
                           /\ sn[s] \in [DOMAIN sn[s] -> [blob : BlobId \cup {None}]]
  <2> TAKE s \in DOMAIN sn
  <2>1. sn[s] \in Table(NodeId, [blob : BlobId \cup {None}])
    BY <1>1, Zenon DEF SnapItem
  <2> QED BY <2>1, TableParts, Zenon
<1>3. IsFiniteSet(DOMAIN sn)
  BY <1>1, ManifestAssumption, FS_Subset
<1> QED BY <1>1, <1>2, <1>3 DEF IsManifests

\* What is counted is finite.
LEMMA RefsType ==
  ASSUME NEW nd, NEW tr, NEW sn, DOMAIN nd \subseteq NodeId, IsTrash(tr), IsSnaps(sn)
  PROVE  /\ Refs(nd, tr, sn) \in [BlobId -> Nat]
         /\ \A b \in BlobId : /\ Cardinality(Holders(nd, b)) \in Nat
                              /\ Cardinality(Holders(Entries(TrashRows(tr)), b)) \in Nat
                              /\ Cardinality(Holders(Entries(sn), b)) \in Nat
<1>1. \A b \in BlobId : Cardinality(Holders(nd, b)) \in Nat
  BY TableFinite, HoldersFinite
<1>2. \A b \in BlobId : Cardinality(Holders(Entries(TrashRows(tr)), b)) \in Nat
  BY TrashManifests, EntriesFinite, HoldersFinite
<1>3. \A b \in BlobId : Cardinality(Holders(Entries(sn), b)) \in Nat
  BY SnapManifests, EntriesFinite, HoldersFinite
<1> QED BY <1>1, <1>2, <1>3 DEF Refs

\* What every mutation has in common: nd is what its work left of the tree.
LEMMA MutationStep ==
  ASSUME IInv, NEW nd, IsTable(nd), NEW use \in UsageRow, NEW nodeDelta \in Int,
         NEW byteDelta \in Int, NEW folderDelta \in [NodeId -> Int], NEW changed,
         Commit(nd, use, nodeDelta, byteDelta, folderDelta, changed),
         IsTrash(trash'), IsSnaps(snap'), Apart(nd, trash'),
         Exact(blob', Refs(nd, trash', snap')), Lives(blob, blob'),
         \A b \in DOMAIN blob' \ DOMAIN blob : b \in FreshBlob,
         UNCHANGED <<setting, picked>>
  PROVE  IInv' /\ Lives(blob, blob')
<1>1. /\ IsTable(node') /\ usage' \in UsageRow
      /\ DOMAIN node' = DOMAIN nd
      /\ \A n \in DOMAIN nd : node'[n].blob = nd[n].blob
  BY CommitParts
<1>2. Apart(node', trash')
  BY <1>1, SMTT(40) DEF Apart
<1>3. Refs(node', trash', snap') = Refs(nd, trash', snap')
  BY <1>1, HoldersSame DEF Refs
<1>4. ASSUME NEW g \in Gc, NEW b \in picked'[g], b \in DOMAIN blob'
      PROVE  blob'[b].ref = 0
  <2>1. b \in picked[g] /\ b \in BlobId
    BY <1>4 DEF IInv
  <2>2. b \in DOMAIN blob
    BY <1>4, <2>1 DEF FreshBlob
  <2>3. blob[b].ref = 0
    BY <2>1, <2>2 DEF IInv
  <2>4. blob'[b].ref \in Nat
    BY <1>4, <2>1 DEF Exact
  <2> QED BY <1>4, <2>1, <2>2, <2>3, <2>4, SMTT(40) DEF Lives, RowState, Rows!Step
<1> QED BY <1>1, <1>2, <1>3, <1>4 DEF IInv

-----------------------------------------------------------------------------
\* A mutation without files to count records a delta for every folder.
LEMMA NoDeltaType == NoFolderDelta \in [NodeId -> Int] /\ 0 \in Int
  BY DEF NoFolderDelta

\* So does one that counts for a single folder.
LEMMA OneDeltaType ==
  ASSUME NEW p, NEW k \in Int
  PROVE  [NoFolderDelta EXCEPT ![p] = k] \in [NodeId -> Int]
  BY NoDeltaType, Zenon

\* Rows under fresh identifiers share none with the trash.
LEMMA FreshApart ==
  ASSUME IInv
  PROVE  /\ FreshNode \subseteq NodeId
         /\ FreshNode \cap DOMAIN node = {}
         /\ \A t \in DOMAIN trash : FreshNode \cap DOMAIN trash[t].rows = {}
  BY DEF FreshNode

\* A mutation that leaves blobs and manifests alone and keeps the references of
\* the tree.
LEMMA QuietStep ==
  ASSUME IInv, NEW nd, IsTable(nd), NEW nodeDelta \in Int,
         NEW folderDelta \in [NodeId -> Int], NEW changed,
         Commit(nd, usage, nodeDelta, 0, folderDelta, changed),
         UNCHANGED <<blob, trash, snap, setting, picked>>, Apart(nd, trash),
         \A b \in BlobId : Cardinality(Holders(nd, b)) = Cardinality(Holders(node, b))
  PROVE  IInv' /\ Lives(blob, blob')
<1>1. Refs(nd, trash', snap') = Refs(node, trash, snap)
  BY DEF Refs
<1>2. Exact(blob', Refs(nd, trash', snap')) /\ Lives(blob, blob')
  BY <1>1, LivesSame DEF IInv
<1>3. usage \in UsageRow /\ IsTrash(trash') /\ IsSnaps(snap') /\ Apart(nd, trash')
  BY DEF IInv
<1>4. \A b \in DOMAIN blob' \ DOMAIN blob : b \in FreshBlob
  OBVIOUS
<1> QED BY <1>2, <1>3, <1>4, NoDeltaType, MutationStep

\* The directories of a chain refer to nothing and have fresh identifiers.
LEMMA ChainTable ==
  ASSUME IInv, NEW d \in NodeId, NEW c \in Chains(d), NEW f, IsTable(f),
         DOMAIN f \subseteq DOMAIN node \cup (NodeId \ ChainIds(c)), Apart(f, trash)
  PROVE  /\ IsTable(ChainRows(d, c) ++ f)
         /\ Apart(ChainRows(d, c) ++ f, trash)
         /\ \A b \in BlobId : Cardinality(Holders(ChainRows(d, c) ++ f, b))
                                = Cardinality(Holders(f, b))
<1> DEFINE g == ChainRows(d, c)
<1>1. /\ IsTable(g) /\ DOMAIN g = ChainIds(c) /\ ChainIds(c) \subseteq FreshNode
      /\ \A n \in DOMAIN g : g[n].blob = None
  BY ChainParts
<1>2. DOMAIN g \cap DOMAIN f = {}
  BY <1>1, FreshApart
<1>3. IsTable(g ++ f)
  BY <1>1, TableOfUnion
<1>4. DOMAIN (g ++ f) = DOMAIN g \cup DOMAIN f
  BY OverrideParts, Zenon
<1>5. Apart(g ++ f, trash)
  BY <1>1, <1>4, FreshApart DEF Apart
<1>6. ASSUME NEW b \in BlobId
      PROVE  Cardinality(Holders(g ++ f, b)) = Cardinality(Holders(f, b))
  <2> HIDE DEF g
  <2>1. IsFiniteSet(DOMAIN g) /\ IsFiniteSet(DOMAIN f)
    BY <1>1, TableFinite DEF IsTable
  <2>2. Cardinality(Holders(g ++ f, b)) = Cardinality(Holders(g, b)) + Cardinality(Holders(f, b))
    BY <1>2, <2>1, HoldersOfUnion
  <2>3. Cardinality(Holders(g, b)) = 0
    BY <1>1, HoldersOfDirectories, FS_EmptySet
  <2>4. Cardinality(Holders(f, b)) \in Nat
    BY <2>1, HoldersFinite
  <2> QED BY <2>2, <2>3, <2>4
<1> QED BY <1>3, <1>5, <1>6

\* Rows that keep their blobs keep the references of the tree.
LEMMA SameBlobs ==
  ASSUME NEW nd, NEW od, NEW tr, DOMAIN nd = DOMAIN od, Apart(od, tr),
         \A n \in DOMAIN od : nd[n].blob = od[n].blob
  PROVE  /\ Apart(nd, tr)
         /\ \A b \in BlobId : Cardinality(Holders(nd, b)) = Cardinality(Holders(od, b))
<1>1. Apart(nd, tr)
  BY DEF Apart
<1>2. \A b \in BlobId : Holders(nd, b) = Holders(od, b)
  BY HoldersSame
<1> QED BY <1>1, <1>2

\* A directory is a node.
LEMMA DirectoryParts ==
  ASSUME IInv, NEW d \in Directory
  PROVE  d \in NodeId /\ d \in DOMAIN node
  BY DEF IInv, IsTable, Directory

\* A mutation of the tree and the blob table: R2 counts what nd refers to
\* instead of node.
LEMMA TreeBlobStep ==
  ASSUME IInv, NEW nd, IsTable(nd), NEW nodeDelta \in Int, NEW byteDelta \in Int,
         NEW folderDelta \in [NodeId -> Int], NEW changed,
         Commit(nd, usage, nodeDelta, byteDelta, folderDelta, changed),
         UNCHANGED <<trash, snap, setting, picked>>, Apart(nd, trash),
         NEW R2, Exact(blob', R2), Lives(blob, blob'),
         \A b \in BlobId : R2[b] = Refs(node, trash, snap)[b] + Cardinality(Holders(nd, b))
                                     - Cardinality(Holders(node, b)),
         \A b \in DOMAIN blob' \ DOMAIN blob : b \in FreshBlob
  PROVE  IInv' /\ Lives(blob, blob')
<1>1. usage \in UsageRow /\ IsTrash(trash') /\ IsSnaps(snap') /\ Apart(nd, trash')
  BY DEF IInv
<1>2. \A b \in BlobId : R2[b] = Refs(nd, trash', snap')[b]
  <2> TAKE b \in BlobId
  <2>1. /\ Cardinality(Holders(node, b)) \in Nat /\ Cardinality(Holders(nd, b)) \in Nat
        /\ Cardinality(Holders(Entries(TrashRows(trash)), b)) \in Nat
        /\ Cardinality(Holders(Entries(snap), b)) \in Nat
    BY RefsType, Zenon DEF IInv, IsTable
  <2> QED BY <2>1 DEF Refs
<1>3. R2 \in [BlobId -> Nat] /\ Refs(nd, trash', snap') \in [BlobId -> Nat]
  BY <1>1, RefsType, SMTT(40) DEF Exact, IsTable
<1>4. Exact(blob', Refs(nd, trash', snap'))
  BY <1>2, <1>3
<1> QED BY <1>1, <1>4, MutationStep, SMTT(40)

\* One more row in a table.
LEMMA AddFile ==
  ASSUME NEW od, IsTable(od), NEW f \in NodeId, f \notin DOMAIN od,
         NEW r \in NodeRow, r.blob \in BlobId
  PROVE  /\ IsTable(Row(f, r) ++ od) /\ DOMAIN (Row(f, r) ++ od) = DOMAIN od \cup {f}
         /\ \A x \in BlobId : Cardinality(Holders(Row(f, r) ++ od, x))
                                = Cardinality(Holders(od, x)) + One(r.blob)[x]
<1> DEFINE new == Row(f, r)
<1>2. IsTable(new) /\ DOMAIN new = {f} /\ new[f].blob = r.blob
  BY DEF IsTable, Row
<1> HIDE DEF new
<1>3. IsTable(new ++ od) /\ DOMAIN (new ++ od) = DOMAIN od \cup {f}
  <2>1. IsTable(new ++ od)
    BY <1>2, TableOfUnion
  <2>2. DOMAIN (new ++ od) = DOMAIN new \cup DOMAIN od
    BY OverrideParts, Zenon
  <2> QED BY <1>2, <2>1, <2>2
<1>4. ASSUME NEW x \in BlobId
      PROVE  Cardinality(Holders(new ++ od, x)) = Cardinality(Holders(od, x)) + One(r.blob)[x]
  <2>1. IsFiniteSet(DOMAIN new) /\ IsFiniteSet(DOMAIN od) /\ DOMAIN new \cap DOMAIN od = {}
    BY <1>2, TableFinite DEF IsTable
  <2>2. Cardinality(Holders(new ++ od, x)) = Cardinality(Holders(new, x)) + Cardinality(Holders(od, x))
    BY <2>1, HoldersOfUnion
  <2>3. Cardinality(Holders(new, x)) = One(r.blob)[x]
    <3>1. Holders(new, x) = IF x = r.blob THEN {f} ELSE {}
      BY <1>2 DEF Holders
    <3> QED BY <3>1, FS_EmptySet, FS_Singleton, Zenon DEF One
  <2>4. Cardinality(Holders(od, x)) \in Nat /\ One(r.blob)[x] \in Nat
    BY <2>1, HoldersFinite DEF One
  <2> QED BY <2>2, <2>3, <2>4
<1> QED BY <1>3, <1>4 DEF new

\* The file f takes another blob.
LEMMA BlobTable ==
  ASSUME NEW od, IsTable(od), NEW f \in DOMAIN od, NEW b \in BlobId
  PROVE  /\ IsTable([od EXCEPT ![f].blob = b])
         /\ DOMAIN [od EXCEPT ![f].blob = b] = DOMAIN od
         /\ [od EXCEPT ![f].blob = b][f].blob = b
         /\ \A n \in DOMAIN od \ {f} : [od EXCEPT ![f].blob = b][n].blob = od[n].blob
<1> DEFINE nd == [od EXCEPT ![f].blob = b]
<1>1. /\ DOMAIN nd = DOMAIN od /\ nd = [n \in DOMAIN od |-> nd[n]]
      /\ \A n \in DOMAIN od \ {f} : nd[n] = od[n]
      /\ nd[f] = [od[f] EXCEPT !.blob = b]
  BY DEF IsTable
<1> HIDE DEF nd
<1>2. nd[f] \in NodeRow /\ nd[f].blob = b
  BY <1>1 DEF IsTable, NodeRow
<1>3. IsTable(nd)
  BY <1>1, <1>2 DEF IsTable
<1> QED BY <1>1, <1>2, <1>3 DEF nd

\* Pointing a file at another blob moves one reference.
LEMMA ChangeBlob ==
  ASSUME NEW od, IsTable(od), NEW f \in DOMAIN od, NEW b \in BlobId,
         NEW nd, DOMAIN nd = DOMAIN od, nd[f].blob = b,
         \A n \in DOMAIN od \ {f} : nd[n].blob = od[n].blob,
         NEW x \in BlobId
  PROVE  Cardinality(Holders(nd, x))
           = Cardinality(Holders(od, x)) + One(b)[x] - One(od[f].blob)[x]
<1> DEFINE S == Holders(od, x)
<1>1. Holders(nd, x) = IF x = b THEN S \cup {f} ELSE S \ {f}
  BY DEF Holders
<1>2. f \in S <=> od[f].blob = x
  BY DEF Holders
<1>3. IsFiniteSet(S) /\ Cardinality(S) \in Nat
  BY TableFinite, HoldersFinite DEF IsTable
<1> HIDE DEF S
<1>4. /\ Cardinality(S \cup {f}) = IF f \in S THEN Cardinality(S) ELSE Cardinality(S) + 1
      /\ Cardinality(S \ {f}) = IF f \in S THEN Cardinality(S) - 1 ELSE Cardinality(S)
  BY <1>3, FS_AddElement, FS_RemoveElement, Zenon
<1> QED BY <1>1, <1>2, <1>3, <1>4 DEF One, S

\* A live file refers to a blob.
LEMMA FileParts ==
  ASSUME IInv, NEW f \in File
  PROVE  f \in DOMAIN node /\ f \in NodeId /\ node[f].blob \in BlobId /\ IsTable(node)
  BY DEF IInv, IsTable, File

\* Sizes are numbers.
LEMMA SizeType ==
  ASSUME NEW b \in BlobId
  PROVE  Size[b] \in Int
  BY SizeAssumption

\* What is held in the tree is counted.
LEMMA HeldCounted ==
  ASSUME IInv, NEW f \in DOMAIN node, node[f].blob \in BlobId
  PROVE  Refs(node, trash, snap)[node[f].blob] > 0
<1> DEFINE b == node[f].blob
           S == Holders(node, b)
<1>1. IsFiniteSet(S) /\ Cardinality(S) \in Nat
  BY TableFinite, HoldersFinite DEF IInv, IsTable
<1>2. S # {}
  BY DEF Holders
<1>3. Cardinality(S) > 0
  BY <1>1, <1>2, FS_EmptySet
<1>4. /\ Cardinality(Holders(Entries(TrashRows(trash)), b)) \in Nat
      /\ Cardinality(Holders(Entries(snap), b)) \in Nat
  BY RefsType DEF IInv, IsTable
<1> QED BY <1>1, <1>3, <1>4 DEF Refs
=============================================================================
