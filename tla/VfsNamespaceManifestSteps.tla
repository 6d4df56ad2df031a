--------------------- MODULE VfsNamespaceManifestSteps ----------------------
(***************************************************************************)
(* The operations on the trash and on snapshots keep the inductive         *)
(* invariant.                                                              *)
(***************************************************************************)
EXTENDS VfsNamespaceLemmas

\* A trash item comes, or goes.
LEMMA TrashAdd ==
  ASSUME NEW tr, IsTrash(tr), NEW t \in TrashId, t \notin DOMAIN tr, NEW item \in TrashItem,
         \A x \in DOMAIN item.rows : item.rows[x].type = "FILE" => item.rows[x].blob \in BlobId,
         NEW new, new = Row(t, item) ++ tr
  PROVE  /\ IsTrash(new)
         /\ DOMAIN new = DOMAIN tr \cup {t}
         /\ new[t] = item /\ \A u \in DOMAIN tr : new[u] = tr[u]
         /\ \A b \in BlobId : Cardinality(Holders(Entries(TrashRows(new)), b))
              = Cardinality(Holders(Entries(TrashRows(tr)), b)) + Cardinality(Holders(item.rows, b))
<1>1. /\ DOMAIN new = DOMAIN tr \cup {t} /\ new[t] = item
      /\ \A u \in DOMAIN tr : new[u] = tr[u]
      /\ new = [u \in DOMAIN new |-> new[u]]
  BY DEF Row, ++
<1>2. DOMAIN item.rows \subseteq NodeId
  <2>1. item.rows \in Table(NodeId, TrashRow)
    BY DEF TrashItem
  <2> QED BY <2>1, TableParts
<1>3. /\ DOMAIN tr \subseteq TrashId
      /\ \A u \in DOMAIN tr : tr[u] \in TrashItem
      /\ \A u \in DOMAIN tr : \A x \in DOMAIN tr[u].rows :
            tr[u].rows[x].type = "FILE" => tr[u].rows[x].blob \in BlobId
  BY TableParts DEF IsTrash
<1>4. new \in Table(TrashId, TrashItem)
  <2>1. DOMAIN new \subseteq TrashId
        /\ \A u \in DOMAIN new : new[u] \in TrashItem
    BY <1>1, <1>3
  <2>2. new \in [DOMAIN new -> TrashItem]
    BY <1>1, <2>1
  <2> QED BY <2>1, <2>2, TableParts
<1>5. IsTrash(new)
  BY <1>1, <1>3, <1>4 DEF IsTrash
<1>6. TrashRows(new) = Row(t, item.rows) ++ TrashRows(tr)
  BY <1>1 DEF TrashRows, Row, ++
<1>7. t \notin DOMAIN TrashRows(tr) /\ IsManifests(TrashRows(tr))
  BY TrashManifests DEF TrashRows
<1>8. \A b \in BlobId : Cardinality(Holders(Entries(TrashRows(new)), b))
        = Cardinality(Holders(Entries(TrashRows(tr)), b)) + Cardinality(Holders(item.rows, b))
  BY <1>2, <1>6, <1>7, EntriesAdd
<1> QED BY <1>1, <1>5, <1>8

\* Taking an item out of the trash takes out the references of its rows.
LEMMA TrashRemove ==
  ASSUME NEW tr, IsTrash(tr), NEW t \in DOMAIN tr
  PROVE  LET new == Restrict(tr, DOMAIN tr \ {t})
         IN  /\ IsTrash(new)
             /\ DOMAIN new = DOMAIN tr \ {t} /\ \A u \in DOMAIN new : new[u] = tr[u]
             /\ \A b \in BlobId : Cardinality(Holders(Entries(TrashRows(tr)), b))
                  = Cardinality(Holders(Entries(TrashRows(new)), b))
                    + Cardinality(Holders(tr[t].rows, b))
<1> DEFINE new == Restrict(tr, DOMAIN tr \ {t})
<1>1. /\ DOMAIN new = DOMAIN tr \ {t} /\ \A u \in DOMAIN new : new[u] = tr[u]
      /\ new = [u \in DOMAIN new |-> new[u]]
  BY DEF Restrict
<1> HIDE DEF new
<1>2. new \in Table(TrashId, TrashItem)
  <2>1. DOMAIN tr \subseteq TrashId
        /\ \A u \in DOMAIN tr : tr[u] \in TrashItem
    BY TableParts DEF IsTrash
  <2>2. new \in [DOMAIN new -> TrashItem]
    BY <1>1, <2>1
  <2> QED BY <1>1, <2>1, <2>2, TableParts
<1>3. IsTrash(new)
  BY <1>1, <1>2 DEF IsTrash
<1>4. TrashRows(new) = Restrict(TrashRows(tr), DOMAIN TrashRows(tr) \ {t})
      /\ t \in DOMAIN TrashRows(tr) /\ TrashRows(tr)[t] = tr[t].rows
  BY <1>1 DEF TrashRows, Restrict
<1>5. \A b \in BlobId : Cardinality(Holders(Entries(TrashRows(tr)), b))
        = Cardinality(Holders(Entries(TrashRows(new)), b)) + Cardinality(Holders(tr[t].rows, b))
  BY <1>4, TrashManifests, EntriesRemove
<1> QED BY <1>1, <1>3, <1>5 DEF new

\* A snapshot comes, or goes.
LEMMA SnapAdd ==
  ASSUME NEW sn, IsSnaps(sn), NEW s \in SnapId, s \notin DOMAIN sn,
         NEW rows, DOMAIN rows \subseteq NodeId,
         rows \in [DOMAIN rows -> [blob : BlobId \cup {None}]]
  PROVE  LET new == Row(s, rows) ++ sn
         IN  /\ IsSnaps(new)
             /\ \A b \in BlobId : Cardinality(Holders(Entries(new), b))
                  = Cardinality(Holders(Entries(sn), b)) + Cardinality(Holders(rows, b))
<1> DEFINE new == Row(s, rows) ++ sn
<1>1. /\ DOMAIN new = DOMAIN sn \cup {s} /\ new[s] = rows
      /\ \A u \in DOMAIN sn : new[u] = sn[u]
      /\ new = [u \in DOMAIN new |-> new[u]]
  BY DEF Row, ++
<1>2. rows \in SnapItem
  BY TableParts, Zenon DEF SnapItem
<1>3. DOMAIN sn \subseteq SnapId /\ \A u \in DOMAIN sn : sn[u] \in SnapItem
  BY TableParts DEF IsSnaps
<1>4. IsManifests(sn)
  BY SnapManifests
<1>5. \A b \in BlobId : Cardinality(Holders(Entries(new), b))
        = Cardinality(Holders(Entries(sn), b)) + Cardinality(Holders(rows, b))
  BY <1>4, EntriesAdd
<1> HIDE DEF new
<1>6. DOMAIN new \subseteq SnapId /\ new \in [DOMAIN new -> SnapItem]
  BY <1>1, <1>2, <1>3
<1>7. IsSnaps(new)
  BY <1>6, TableParts DEF IsSnaps
<1> QED BY <1>5, <1>7 DEF new

\* Deleting a snapshot takes out the references of its rows.
LEMMA SnapRemove ==
  ASSUME NEW sn, IsSnaps(sn), NEW s \in DOMAIN sn
  PROVE  LET new == Restrict(sn, DOMAIN sn \ {s})
         IN  /\ IsSnaps(new)
             /\ \A b \in BlobId : Cardinality(Holders(Entries(sn), b))
                  = Cardinality(Holders(Entries(new), b)) + Cardinality(Holders(sn[s], b))
<1> DEFINE new == Restrict(sn, DOMAIN sn \ {s})
<1>1. /\ DOMAIN new = DOMAIN sn \ {s} /\ \A u \in DOMAIN new : new[u] = sn[u]
      /\ new = [u \in DOMAIN new |-> new[u]]
  BY DEF Restrict
<1>2. DOMAIN sn \subseteq SnapId /\ \A u \in DOMAIN sn : sn[u] \in SnapItem
  BY TableParts DEF IsSnaps
<1>3. \A b \in BlobId : Cardinality(Holders(Entries(sn), b))
        = Cardinality(Holders(Entries(new), b)) + Cardinality(Holders(sn[s], b))
  BY SnapManifests, EntriesRemove
<1> HIDE DEF new
<1>4. DOMAIN new \subseteq SnapId /\ new \in [DOMAIN new -> SnapItem]
  BY <1>1, <1>2
<1>5. IsSnaps(new)
  BY <1>4, TableParts DEF IsSnaps
<1> QED BY <1>3, <1>5 DEF new

-----------------------------------------------------------------------------
\* The subtree of n leaves the tree, into the trash or for good.
LEMMA MoveToTrashStep ==
  ASSUME IInv, NEW n \in DOMAIN node, NEW t \in TrashId, MoveToTrash(n, t)
  PROVE  IInv' /\ Lives(blob, blob')
<1> DEFINE sub == Subtree(node, n)
           rows == Restrict(node, sub)
           entries == [m \in sub |-> TrashEntry(node[m])]
           counts == BlobCounts(rows)
           rest == Restrict(node, DOMAIN node \ sub)
           retained == [usage EXCEPT !.trashNodes = @ + Cardinality(sub),
                                     !.trashBytes = @ + Bytes(rows)]
           use == IF setting.trashEnabled THEN retained ELSE usage
           R == Refs(node, trash, snap)
           gone == Minus(FolderCounts(rows))
           above == Ancestors(node, node[n].parent)
<1>1. /\ IsTable(node) /\ Apart(node, trash) /\ IsTrash(trash) /\ IsSnaps(snap)
      /\ Exact(blob, R) /\ usage \in UsageRow /\ n \in NodeId
  BY DEF IInv, IsTable
<1>2. /\ Commit(rest, use, -Cardinality(sub), -Bytes(rows), gone, above)
      /\ UNCHANGED <<snap, setting, picked>>
      /\ setting.trashEnabled =>
           /\ t \notin DOMAIN trash /\ AllLive(blob, counts)
           /\ trash' = Row(t, [root |-> n, rows |-> entries]) ++ trash
           /\ blob' = Decrement(Increment(blob, counts), counts)
      /\ ~ setting.trashEnabled => blob' = Decrement(blob, counts) /\ trash' = trash
  BY DEF MoveToTrash
<1>3. sub \subseteq DOMAIN node
  BY SubtreeParts
<1> HIDE DEF sub
<1>4. /\ DOMAIN rows = sub /\ DOMAIN entries = sub /\ DOMAIN rest = DOMAIN node \ sub
      /\ \A m \in sub : rows[m] = node[m] /\ entries[m] = TrashEntry(node[m])
      /\ \A m \in DOMAIN rest : rest[m] = node[m]
      /\ rest = [m \in DOMAIN rest |-> rest[m]] /\ entries = [m \in DOMAIN entries |-> entries[m]]
  BY DEF Restrict
<1>5. \A x \in BlobId : Cardinality(Holders(node, x))
                          = counts[x] + Cardinality(Holders(rest, x))
  BY <1>1, <1>3, TableFinite, HoldersOfParts DEF IsTable, BlobCounts
<1>6. IsFiniteSet(sub) /\ IsFiniteSet(DOMAIN rows)
  BY <1>1, <1>3, <1>4, NodeAssumption, FS_Subset DEF IsTable
<1>7. Cardinality(sub) \in Nat /\ Bytes(rows) \in Nat
      /\ counts \in [BlobId -> Nat] /\ FolderCounts(rows) \in [NodeId -> Nat]
  BY <1>6, CountsType, FS_CardinalityType
<1>8. entries \in [DOMAIN entries -> TrashRow]
      /\ \A m \in DOMAIN entries : /\ entries[m].blob = node[m].blob
                                   /\ entries[m].type = "FILE" => entries[m].blob \in BlobId
  <2>1. ASSUME NEW m \in sub
        PROVE  /\ TrashEntry(node[m]) \in TrashRow
               /\ TrashEntry(node[m]).blob = node[m].blob
               /\ TrashEntry(node[m]).type = node[m].type
               /\ node[m].type = "FILE" => node[m].blob \in BlobId
    <3>1. node[m] \in NodeRow /\ (node[m].type = "FILE" => node[m].blob \in BlobId)
      BY <1>1, <1>3 DEF IsTable
    <3> QED BY <3>1 DEF TrashEntry, TrashRow, NodeRow
  <2> HIDE DEF entries
  <2> QED BY <1>4, <2>1
<1>9. \A x \in BlobId : counts[x] = Cardinality(Holders(entries, x))
  <2>1. DOMAIN entries = DOMAIN rows /\ \A m \in DOMAIN entries : entries[m].blob = rows[m].blob
    BY <1>4, <1>8
  <2> HIDE DEF entries, rows
  <2> QED BY <2>1, HoldersSame DEF BlobCounts
<1>10. IsTable(rest)
  <2> HIDE DEF rest
  <2> QED BY <1>1, <1>4 DEF IsTable
<1> HIDE DEF rows, entries, counts, rest
<1>11. -Cardinality(sub) \in Int /\ -Bytes(rows) \in Int /\ gone \in [NodeId -> Int]
  BY <1>7 DEF Minus
<1>12. use \in UsageRow
  <2> DEFINE a == usage.trashNodes + Cardinality(sub)
             b == usage.trashBytes + Bytes(rows)
  <2>1. a \in Int /\ b \in Int
    BY <1>1, <1>7 DEF UsageRow
  <2>2. retained = [usage EXCEPT !.trashNodes = a, !.trashBytes = b]
    OBVIOUS
  <2> HIDE DEF a, b, retained
  <2> QED BY <1>1, <2>1, <2>2, Zenon DEF UsageRow
<1> HIDE DEF gone, above, use
<1>13. \A x \in BlobId : /\ Cardinality(Holders(node, x)) \in Nat
                         /\ Cardinality(Holders(rest, x)) \in Nat
                         /\ Cardinality(Holders(Entries(TrashRows(trash)), x)) \in Nat
                         /\ Cardinality(Holders(Entries(snap), x)) \in Nat
                         /\ counts[x] \in Nat /\ R[x] \in Nat
                         /\ counts[x] <= R[x]
  BY <1>1, <1>5, <1>7, <1>10, RefsType DEF IsTable, Refs
<1>14. CASE setting.trashEnabled
  <2>1. /\ IsTrash(trash') /\ DOMAIN trash' = DOMAIN trash \cup {t}
        /\ trash'[t].rows = entries /\ \A u \in DOMAIN trash : trash'[u] = trash[u]
        /\ \A x \in BlobId : Cardinality(Holders(Entries(TrashRows(trash')), x))
             = Cardinality(Holders(Entries(TrashRows(trash)), x)) + counts[x]
    <3>1. DOMAIN entries \subseteq NodeId
      BY <1>1, <1>3, <1>4 DEF IsTable
    <3> DEFINE item == [root |-> n, rows |-> entries]
    <3>2. trash' = Row(t, item) ++ trash /\ t \notin DOMAIN trash
      BY <1>2, <1>14
    <3>3. entries \in Table(NodeId, TrashRow)
      BY <1>8, <3>1, TableParts
    <3>4. item \in TrashItem /\ item.rows = entries
      BY <1>1, <3>3 DEF TrashItem
    <3> HIDE DEF item
    <3>5. /\ IsTrash(trash)
          /\ \A x \in DOMAIN item.rows : item.rows[x].type = "FILE" => item.rows[x].blob \in BlobId
      BY <1>1, <1>8, <3>4
    <3>6. /\ IsTrash(trash') /\ DOMAIN trash' = DOMAIN trash \cup {t}
          /\ trash'[t] = item /\ \A u \in DOMAIN trash : trash'[u] = trash[u]
          /\ \A x \in BlobId : Cardinality(Holders(Entries(TrashRows(trash')), x))
               = Cardinality(Holders(Entries(TrashRows(trash)), x))
                 + Cardinality(Holders(item.rows, x))
      <4>1. t \in TrashId /\ t \notin DOMAIN trash /\ item \in TrashItem
        BY <3>2, <3>4
      <4> DEFINE new == trash'
      <4>2. new = Row(t, item) ++ trash
        BY <3>2
      <4> HIDE DEF new
      <4> QED BY <3>5, <4>1, <4>2, TrashAdd, SMTT(40) DEF new
    <3> QED BY <1>9, <3>4, <3>6
  <2>2. Apart(rest, trash')
    BY <1>1, <1>2, <1>3, <1>4, <1>14, <2>1 DEF Apart
  <2>3. Refs(rest, trash', snap') = R
    BY <1>2, <1>5, <1>13, <2>1 DEF Refs
  <2> DEFINE bl == Increment(blob, counts)
             R1 == [x \in BlobId |-> R[x] + counts[x]]
             R2 == [x \in BlobId |-> R1[x] - counts[x]]
  <2> HIDE DEF R
  <2>4. \A x \in BlobId : counts[x] > 0 => R[x] > 0
    BY <1>1, <1>2, <1>14 DEF AllLive, Exact
  <2>5. Exact(bl, R1) /\ DOMAIN bl = DOMAIN blob
    BY <1>1, <1>7, <2>4, IncrementExact DEF Increment
  <2>6. \A x \in BlobId : counts[x] <= R1[x]
    BY <1>13
  <2>7. R2 = R
    BY <1>1, <1>13 DEF Exact
  <2> HIDE DEF bl, R1
  <2>8. Exact(Decrement(bl, counts), R2) /\ DOMAIN Decrement(bl, counts) = DOMAIN bl
    BY <1>7, <2>5, <2>6, DecrementExact
  <2>9. Exact(blob', R) /\ DOMAIN blob' = DOMAIN blob
    BY <1>2, <1>14, <2>5, <2>7, <2>8 DEF bl
  <2>10. Lives(blob, blob')
    BY <1>1, <2>9, LivesByCounts
  <2> QED BY <1>1, <1>2, <1>10, <1>11, <1>12, <2>1, <2>2, <2>3, <2>9, <2>10, MutationStep, SMTT(40)
<1>15. CASE ~ setting.trashEnabled
  <2> DEFINE R2 == [x \in BlobId |-> R[x] - counts[x]]
  <2>1. Apart(rest, trash')
    BY <1>1, <1>2, <1>4, <1>15 DEF Apart
  <2>2. Refs(rest, trash', snap') = R2
    BY <1>2, <1>5, <1>13, <1>15 DEF Refs
  <2> HIDE DEF R
  <2>3. Exact(blob', R2) /\ Lives(blob, blob') /\ DOMAIN blob' = DOMAIN blob
    BY <1>1, <1>2, <1>7, <1>13, <1>15, DecrementExact, Zenon
  <2> HIDE DEF R2
  <2> QED BY <1>1, <1>2, <1>10, <1>11, <1>12, <1>15, <2>1, <2>2, <2>3, MutationStep
<1> QED BY <1>14, <1>15

\* The references of a trash item go back to the tree; the blob table stays.
LEMMA RestoreTrashItemStep ==
  ASSUME IInv, NEW t \in DOMAIN trash, NEW d \in Directory, NEW nm \in Name,
         RestoreTrashItem(t, d, nm)
  PROVE  IInv' /\ Lives(blob, blob')
<1> DEFINE rows == trash[t].rows
           restored == [n \in DOMAIN rows |->
                          [parent |-> IF n = trash[t].root THEN d ELSE rows[n].parent,
                           name |-> IF n = trash[t].root THEN nm ELSE rows[n].name,
                           type |-> rows[n].type, blob |-> rows[n].blob,
                           version |-> rows[n].version + 1, expires |-> FALSE, files |-> 0]]
           nd == restored ++ node
           use == [usage EXCEPT !.trashNodes = @ - Cardinality(DOMAIN rows),
                                !.trashBytes = @ - Bytes(rows)]
           R == Refs(node, trash, snap)
<1>1. /\ IsTable(node) /\ Apart(node, trash) /\ IsTrash(trash) /\ IsSnaps(snap)
      /\ Exact(blob, R) /\ usage \in UsageRow /\ d \in NodeId
  BY DirectoryParts, Zenon DEF IInv
<1>2. /\ \A n \in DOMAIN rows : rows[n].version < MaxVersion
      /\ Commit(nd, use, Cardinality(DOMAIN rows), Bytes(rows), FolderCounts(restored),
                Ancestors(node, d))
      /\ trash' = Restrict(trash, DOMAIN trash \ {t})
      /\ UNCHANGED <<blob, snap, setting, picked>>
  BY DEF RestoreTrashItem
<1>3. /\ DOMAIN rows \subseteq NodeId /\ rows \in [DOMAIN rows -> TrashRow]
      /\ \A n \in DOMAIN rows : rows[n].type = "FILE" => rows[n].blob \in BlobId
  BY <1>1, TrashManifests, Zenon DEF IsTrash
<1> HIDE DEF rows
<1>4. ASSUME NEW n \in DOMAIN rows
      PROVE  /\ restored[n] \in NodeRow
             /\ restored[n].type = rows[n].type /\ restored[n].blob = rows[n].blob
  <2>1. rows[n] \in TrashRow
    BY <1>3
  <2>2. rows[n].version + 1 \in 1..MaxVersion
    BY <1>2, <2>1, BoundAssumption DEF TrashRow
  <2>3. FALSE \in BOOLEAN /\ 0 \in Nat
    OBVIOUS
  <2> QED BY <1>1, <2>1, <2>2, <2>3, Zenon DEF TrashRow, NodeRow
<1>5. DOMAIN restored = DOMAIN rows /\ restored = [n \in DOMAIN rows |-> restored[n]]
  OBVIOUS
<1> HIDE DEF restored
<1>6. IsTable(restored)
  BY <1>3, <1>4, <1>5 DEF IsTable
<1>7. IsFiniteSet(DOMAIN rows) /\ IsFiniteSet(DOMAIN restored) /\ IsFiniteSet(DOMAIN node)
  BY <1>1, <1>3, <1>5, TableFinite DEF IsTable
<1>8. Cardinality(DOMAIN rows) \in Nat /\ Bytes(rows) \in Nat
      /\ FolderCounts(restored) \in [NodeId -> Int]
  BY <1>7, CountsType
<1>9. use \in UsageRow
  <2> DEFINE a == usage.trashNodes - Cardinality(DOMAIN rows)
             b == usage.trashBytes - Bytes(rows)
  <2>1. a \in Int /\ b \in Int
    BY <1>1, <1>8 DEF UsageRow
  <2>2. use = [usage EXCEPT !.trashNodes = a, !.trashBytes = b]
    OBVIOUS
  <2> HIDE DEF a, b, use
  <2> QED BY <1>1, <2>1, <2>2, Zenon DEF UsageRow
<1>10. /\ IsTrash(trash') /\ DOMAIN trash' = DOMAIN trash \ {t}
       /\ \A u \in DOMAIN trash' : trash'[u] = trash[u]
       /\ \A x \in BlobId : Cardinality(Holders(Entries(TrashRows(trash)), x))
            = Cardinality(Holders(Entries(TrashRows(trash')), x)) + Cardinality(Holders(rows, x))
  BY <1>1, <1>2, TrashRemove DEF rows
<1>11. DOMAIN restored \cap DOMAIN node = {}
  BY <1>1, <1>5 DEF Apart, rows
<1>12. IsTable(nd) /\ DOMAIN nd = DOMAIN restored \cup DOMAIN node
  BY <1>1, <1>6, TableOfUnion, OverrideParts, Zenon
<1>13. Apart(nd, trash')
  BY <1>1, <1>5, <1>10, <1>12 DEF Apart, rows
<1>14. Refs(nd, trash', snap') = R
  <2>1. \A x \in BlobId : Cardinality(Holders(nd, x))
                            = Cardinality(Holders(rows, x)) + Cardinality(Holders(node, x))
    <3> TAKE x \in BlobId
    <3>1. Holders(restored, x) = Holders(rows, x)
      BY <1>4, <1>5, HoldersSame
    <3> QED BY <1>7, <1>11, <3>1, HoldersOfUnion
  <2>2. \A x \in BlobId : /\ Cardinality(Holders(rows, x)) \in Nat
                          /\ Cardinality(Holders(node, x)) \in Nat
                          /\ Cardinality(Holders(Entries(TrashRows(trash')), x)) \in Nat
                          /\ Cardinality(Holders(Entries(snap), x)) \in Nat
    BY <1>1, <1>7, <1>10, HoldersFinite, RefsType, Zenon DEF IsTable
  <2> HIDE DEF nd
  <2>3. \A x \in BlobId :
          Cardinality(Holders(nd, x)) + Cardinality(Holders(Entries(TrashRows(trash')), x))
            + Cardinality(Holders(Entries(snap), x))
          = Cardinality(Holders(node, x)) + Cardinality(Holders(Entries(TrashRows(trash)), x))
            + Cardinality(Holders(Entries(snap), x))
    BY <1>10, <2>1, <2>2
  <2>4. snap' = snap
    BY <1>2
  <2> QED BY <2>3, <2>4 DEF Refs
<1>15. Exact(blob', R) /\ Lives(blob, blob') /\ DOMAIN blob' = DOMAIN blob
  BY <1>1, <1>2, LivesSame
<1> HIDE DEF nd, use, R
<1>16. Exact(blob', Refs(nd, trash', snap')) /\ \A b \in DOMAIN blob' \ DOMAIN blob : b \in FreshBlob
  BY <1>14, <1>15
<1>17. IsSnaps(snap') /\ UNCHANGED <<setting, picked>>
  BY <1>1, <1>2
<1>18. Cardinality(DOMAIN rows) \in Int /\ Bytes(rows) \in Int
  BY <1>8
<1>19. Commit(nd, use, Cardinality(DOMAIN rows), Bytes(rows), FolderCounts(restored),
              Ancestors(node, d))
  BY <1>2
<1> QED BY <1>8, <1>9, <1>10, <1>12, <1>13, <1>15, <1>16, <1>17, <1>18, <1>19, MutationStep, Zenon

\* The counters after a change of a manifest.
LEMMA ManifestUsage ==
  ASSUME usage \in UsageRow, NEW a \in Int, NEW b \in Int
  PROVE  /\ [usage EXCEPT !.trashNodes = a, !.trashBytes = b] \in UsageRow
         /\ [usage EXCEPT !.snapNodes = a, !.snapBytes = b] \in UsageRow
  BY Zenon DEF UsageRow

\* The references of a trash item are returned.
LEMMA PurgeTrashItemStep ==
  ASSUME IInv, NEW t \in DOMAIN trash, PurgeTrashItem(t)
  PROVE  IInv' /\ Lives(blob, blob')
<1> DEFINE rows == trash[t].rows
           counts == BlobCounts(rows)
           a == usage.trashNodes - Cardinality(DOMAIN rows)
           z == usage.trashBytes - Bytes(rows)
           use == [usage EXCEPT !.trashNodes = a, !.trashBytes = z]
           R == Refs(node, trash, snap)
           R2 == [x \in BlobId |-> R[x] - counts[x]]
<1>1. /\ IsTable(node) /\ Apart(node, trash) /\ IsTrash(trash) /\ IsSnaps(snap)
      /\ Exact(blob, R) /\ usage \in UsageRow
  BY Zenon DEF IInv
<1>2. /\ Commit(node, use, 0, 0, NoFolderDelta, {})
      /\ trash' = Restrict(trash, DOMAIN trash \ {t})
      /\ blob' = Decrement(blob, counts)
      /\ UNCHANGED <<snap, setting, picked>>
  BY DEF PurgeTrashItem
<1>3. IsFiniteSet(DOMAIN rows)
  BY <1>1, TrashManifests, TableFinite
<1> HIDE DEF rows
<1>4. Cardinality(DOMAIN rows) \in Nat /\ Bytes(rows) \in Nat /\ counts \in [BlobId -> Nat]
  BY <1>3, CountsType
<1>5. use \in UsageRow
  <2>0. usage.trashNodes \in Int /\ usage.trashBytes \in Int
    BY <1>1 DEF UsageRow
  <2>1. a \in Int /\ z \in Int
    BY <1>4, <2>0
  <2> HIDE DEF a, z
  <2> QED BY <1>1, <2>1, ManifestUsage, Zenon
<1>6. /\ IsTrash(trash') /\ DOMAIN trash' = DOMAIN trash \ {t}
      /\ \A u \in DOMAIN trash' : trash'[u] = trash[u]
      /\ \A x \in BlobId : Cardinality(Holders(Entries(TrashRows(trash)), x))
           = Cardinality(Holders(Entries(TrashRows(trash')), x)) + counts[x]
  BY <1>1, <1>2, TrashRemove DEF rows, BlobCounts
<1> HIDE DEF counts, use
<1>7. Apart(node, trash')
  BY <1>1, <1>6, Zenon DEF Apart
<1>8. \A x \in BlobId : /\ Cardinality(Holders(node, x)) \in Nat
                        /\ Cardinality(Holders(Entries(TrashRows(trash')), x)) \in Nat
                        /\ Cardinality(Holders(Entries(snap), x)) \in Nat
  BY <1>1, <1>6, RefsType, Zenon DEF IsTable
<1>9. snap' = snap /\ \A x \in BlobId : counts[x] \in Nat
  BY <1>2, <1>4
<1>10. \A x \in BlobId :
         R[x] = Cardinality(Holders(node, x)) + Cardinality(Holders(Entries(TrashRows(trash')), x))
                  + counts[x] + Cardinality(Holders(Entries(snap), x))
  BY <1>6, <1>8, <1>9 DEF Refs
<1>11. Refs(node, trash', snap') = [x \in BlobId |->
         Cardinality(Holders(node, x)) + Cardinality(Holders(Entries(TrashRows(trash')), x))
           + Cardinality(Holders(Entries(snap), x))]
  BY <1>9 DEF Refs
<1> HIDE DEF R
<1>12. Refs(node, trash', snap') = R2 /\ \A x \in BlobId : counts[x] <= R[x]
  BY <1>8, <1>9, <1>10, <1>11
<1>13. Exact(blob, R) /\ blob' = Decrement(blob, counts)
  BY <1>1, <1>2 DEF R
<1>14. Exact(blob', R2) /\ Lives(blob, blob') /\ DOMAIN blob' = DOMAIN blob
  BY <1>4, <1>12, <1>13, DecrementExact
<1> HIDE DEF R2
<1>15. Exact(blob', Refs(node, trash', snap')) /\ \A b \in DOMAIN blob' \ DOMAIN blob : b \in FreshBlob
  BY <1>12, <1>14, Zenon
<1>16. IsSnaps(snap') /\ UNCHANGED <<setting, picked>> /\ Commit(node, use, 0, 0, NoFolderDelta, {})
  BY <1>1, <1>2
<1> QED BY <1>1, <1>5, <1>6, <1>7, <1>14, <1>15, <1>16, NoDeltaType, MutationStep

\* What the two snapshot operations have in common: only the snapshots, their
\* counters and the blob rows change.
LEMMA SnapshotStep ==
  ASSUME IInv, NEW a \in Int, NEW z \in Int,
         Commit(node, [usage EXCEPT !.snapNodes = a, !.snapBytes = z], 0, 0, NoFolderDelta, {}),
         UNCHANGED <<trash, setting, picked>>, IsSnaps(snap'),
         Exact(blob', Refs(node, trash, snap')), Lives(blob, blob'), DOMAIN blob' = DOMAIN blob
  PROVE  IInv' /\ Lives(blob, blob')
<1> DEFINE use == [usage EXCEPT !.snapNodes = a, !.snapBytes = z]
<1>1. /\ IsTable(node) /\ Apart(node, trash) /\ IsTrash(trash) /\ usage \in UsageRow
      /\ trash' = trash
  BY DEF IInv
<1>2. use \in UsageRow
  BY <1>1, ManifestUsage, Zenon
<1>3. IsTrash(trash') /\ Apart(node, trash') /\ Exact(blob', Refs(node, trash', snap'))
  BY <1>1
<1>4. \A b \in DOMAIN blob' \ DOMAIN blob : b \in FreshBlob
  OBVIOUS
<1> HIDE DEF use
<1>5. Commit(node, use, 0, 0, NoFolderDelta, {})
  BY DEF use
<1> QED BY <1>1, <1>2, <1>3, <1>4, <1>5, NoDeltaType, MutationStep

\* A snapshot refers to each blob once for every file it pins.
LEMMA SnapshotCreateStep ==
  ASSUME IInv, NEW n \in DOMAIN node, NEW s \in SnapId \ DOMAIN snap, SnapshotCreate(n, s)
  PROVE  IInv' /\ Lives(blob, blob')
<1> DEFINE rows == [m \in Subtree(node, n) |-> [blob |-> node[m].blob]]
           counts == BlobCounts(rows)
           a == usage.snapNodes + Cardinality(DOMAIN rows)
           z == usage.snapBytes + Bytes(rows)
           R == Refs(node, trash, snap)
           R2 == [x \in BlobId |-> R[x] + counts[x]]
<1>1. /\ IsTable(node) /\ IsTrash(trash) /\ IsSnaps(snap) /\ Exact(blob, R) /\ usage \in UsageRow
  BY DEF IInv
<1>2. /\ Commit(node, [usage EXCEPT !.snapNodes = a, !.snapBytes = z], 0, 0, NoFolderDelta, {})
      /\ AllLive(blob, counts)
      /\ blob' = Increment(blob, counts)
      /\ snap' = Row(s, rows) ++ snap
      /\ UNCHANGED <<trash, setting, picked>>
  BY DEF SnapshotCreate
<1>3. Subtree(node, n) \subseteq DOMAIN node /\ DOMAIN node \subseteq NodeId
  BY <1>1, SubtreeParts DEF IsTable
<1>4. /\ DOMAIN rows \subseteq NodeId
      /\ rows \in [DOMAIN rows -> [blob : BlobId \cup {None}]]
  <2>1. \A m \in Subtree(node, n) : node[m].blob \in BlobId \cup {None}
    BY <1>1, <1>3 DEF IsTable, NodeRow
  <2> QED BY <1>3, <2>1
<1> HIDE DEF rows
<1>5. Cardinality(DOMAIN rows) \in Nat /\ Bytes(rows) \in Nat /\ counts \in [BlobId -> Nat]
  BY <1>4, TableFinite, CountsType
<1>6. a \in Int /\ z \in Int
  <2>1. usage.snapNodes \in Int /\ usage.snapBytes \in Int
    BY <1>1 DEF UsageRow
  <2> QED BY <1>5, <2>1
<1>7. /\ IsSnaps(snap')
      /\ \A x \in BlobId : Cardinality(Holders(Entries(snap'), x))
           = Cardinality(Holders(Entries(snap), x)) + counts[x]
  BY <1>1, <1>2, <1>4, SnapAdd DEF BlobCounts
<1>8. \A x \in BlobId : /\ Cardinality(Holders(node, x)) \in Nat
                        /\ Cardinality(Holders(Entries(TrashRows(trash)), x)) \in Nat
                        /\ Cardinality(Holders(Entries(snap), x)) \in Nat
  BY <1>1, <1>3, RefsType
<1>9. \A x \in BlobId : counts[x] > 0 => R[x] > 0
  BY <1>1, <1>2 DEF AllLive, Exact
<1> HIDE DEF counts, a, z
<1>10. \A x \in BlobId : counts[x] \in Nat
  BY <1>5
<1>11. Refs(node, trash, snap') = R2
  BY <1>7, <1>8, <1>10 DEF Refs
<1> HIDE DEF R
<1>12. Exact(Increment(blob, counts), R2) /\ Lives(blob, Increment(blob, counts))
  BY <1>1, <1>5, <1>9, IncrementExact
<1> HIDE DEF R2
<1>13. DOMAIN blob' = DOMAIN blob
  BY <1>2 DEF Increment
<1>14. Exact(blob', Refs(node, trash, snap')) /\ Lives(blob, blob')
  BY <1>2, <1>11, <1>12
<1> QED BY <1>2, <1>6, <1>7, <1>13, <1>14, SnapshotStep, Zenon

\* The references of a snapshot are returned.
LEMMA SnapshotDeleteStep ==
  ASSUME IInv, NEW s \in DOMAIN snap, SnapshotDelete(s)
  PROVE  IInv' /\ Lives(blob, blob')
<1> DEFINE rows == snap[s]
           counts == BlobCounts(rows)
           a == usage.snapNodes - Cardinality(DOMAIN rows)
           z == usage.snapBytes - Bytes(rows)
           R == Refs(node, trash, snap)
           R2 == [x \in BlobId |-> R[x] - counts[x]]
<1>1. /\ IsTable(node) /\ IsTrash(trash) /\ IsSnaps(snap) /\ Exact(blob, R) /\ usage \in UsageRow
  BY DEF IInv
<1>2. /\ Commit(node, [usage EXCEPT !.snapNodes = a, !.snapBytes = z], 0, 0, NoFolderDelta, {})
      /\ blob' = Decrement(blob, counts)
      /\ snap' = Restrict(snap, DOMAIN snap \ {s})
      /\ UNCHANGED <<trash, setting, picked>>
  BY DEF SnapshotDelete
<1>3. IsFiniteSet(DOMAIN rows) /\ DOMAIN node \subseteq NodeId
  BY <1>1, SnapManifests, TableFinite DEF IsTable
<1>4. Cardinality(DOMAIN rows) \in Nat /\ Bytes(rows) \in Nat /\ counts \in [BlobId -> Nat]
  BY <1>3, CountsType
<1>5. a \in Int /\ z \in Int
  <2>1. usage.snapNodes \in Int /\ usage.snapBytes \in Int
    BY <1>1 DEF UsageRow
  <2> HIDE DEF rows
  <2> QED BY <1>4, <2>1
<1>6. /\ IsSnaps(snap')
      /\ \A x \in BlobId : Cardinality(Holders(Entries(snap), x))
           = Cardinality(Holders(Entries(snap'), x)) + counts[x]
  BY <1>1, <1>2, SnapRemove DEF BlobCounts
<1> HIDE DEF rows, counts, a, z
<1>7. \A x \in BlobId : /\ Cardinality(Holders(node, x)) \in Nat
                        /\ Cardinality(Holders(Entries(TrashRows(trash)), x)) \in Nat
                        /\ Cardinality(Holders(Entries(snap'), x)) \in Nat
                        /\ counts[x] \in Nat
  BY <1>1, <1>3, <1>4, <1>6, RefsType
<1>8. \A x \in BlobId :
         R[x] = Cardinality(Holders(node, x)) + Cardinality(Holders(Entries(TrashRows(trash)), x))
                  + Cardinality(Holders(Entries(snap'), x)) + counts[x]
  BY <1>6, <1>7 DEF Refs
<1> HIDE DEF R
<1>9. Refs(node, trash, snap') = R2 /\ \A x \in BlobId : counts[x] <= R[x]
  BY <1>7, <1>8 DEF Refs
<1>10. Exact(Decrement(blob, counts), R2) /\ Lives(blob, Decrement(blob, counts))
       /\ DOMAIN Decrement(blob, counts) = DOMAIN blob
  BY <1>1, <1>4, <1>9, DecrementExact
<1> HIDE DEF R2
<1>11. /\ Exact(blob', Refs(node, trash, snap')) /\ Lives(blob, blob')
       /\ DOMAIN blob' = DOMAIN blob
  BY <1>2, <1>9, <1>10
<1> QED BY <1>2, <1>5, <1>6, <1>11, SnapshotStep, Zenon
=============================================================================
