---------------------------- MODULE VfsNamespace ----------------------------
(***************************************************************************)
(* One namespace of the virtual file system: the tree of vfs_node rows,    *)
(* the blob rows the files refer to, the trash and snapshot manifests, and *)
(* the counters of the namespace row.                                      *)
(*                                                                         *)
(* Every mutation is one database transaction that begins by locking the   *)
(* root row of the namespace (withMutation), so a mutation is one action.  *)
(* A refused request rolls its transaction back and is no step.  The       *)
(* garbage collector does not take that lock: it reads its candidates in   *)
(* one step and deletes their rows in a later one.                         *)
(*                                                                         *)
(* A path is given by what it resolves to: an existing directory d, the    *)
(* names below d that are missing (`parents' creates them), and the last   *)
(* name.  MIME types, digests, keys and timestamps are left out; the time  *)
(* of an expiry may come at any moment.                                    *)
(***************************************************************************)
EXTENDS Integers, Sequences, FiniteSets, Functions

CONSTANTS
    NodeId,      \* identifiers of vfs_node rows
    Root,        \* the identifier of the root directory
    BlobId,      \* identifiers of blob rows
    TrashId,     \* identifiers of trash items
    SnapId,      \* identifiers of snapshots
    Gc,          \* garbage collector runs (the lock may let two overlap)
    Name,        \* path segments
    None,        \* SQL NULL
    Size,        \* the size of the object behind each blob
    MaxSize,     \* the largest of those sizes
    MaxVersion,  \* MAX_VFS_VERSION
    MaxMissing,  \* the most directories one request creates on its path
    Settings,    \* the values an administrator gives the namespace row
    Limits       \* the limits taken from the environment

ASSUME NodeAssumption == Root \in NodeId /\ IsFiniteSet(NodeId) /\ None \notin NodeId
ASSUME BlobAssumption == IsFiniteSet(BlobId) /\ None \notin BlobId
ASSUME ManifestAssumption == IsFiniteSet(TrashId) /\ IsFiniteSet(SnapId)
ASSUME SizeAssumption == MaxSize \in Nat /\ Size \in [BlobId -> 0..MaxSize]
ASSUME BoundAssumption == MaxVersion \in Nat \ {0} /\ MaxMissing \in Nat
ASSUME SettingAssumption ==
    /\ Settings # {}
    /\ Settings \subseteq
         [maxNodes : Nat, maxFiles : Nat, quota : Nat, trashEnabled : BOOLEAN,
          excludeTrash : BOOLEAN, excludeSnap : BOOLEAN, maxTrashBytes : Nat]
ASSUME LimitAssumption ==
    Limits \in [copyNodes : Nat, moveNodes : Nat, deleteNodes : Nat, trashNodes : Nat,
                snapNodes : Nat, snapBytes : Nat, allSnapNodes : Nat, allSnapBytes : Nat]

VARIABLES
    node,     \* the live rows of vfs_node, by identifier
    blob,     \* the rows of blob, by identifier
    trash,    \* the trash items with their manifests
    snap,     \* the snapshots: source identifier -> pinned blob or None
    usage,    \* the counters of the namespace row
    setting,  \* the settings of the namespace row
    picked    \* the candidates a garbage collector run has read

vars == <<node, blob, trash, snap, usage, setting, picked>>

-----------------------------------------------------------------------------
\* A table is a function from the identifiers in use to rows; Row is a table of
\* one row, and f ++ g puts the rows of f into g.
HasRows(f, Id, R) == DOMAIN f \subseteq Id /\ f \in [DOMAIN f -> R]
Row(x, r) == [y \in {x} |-> r]
f ++ g == [x \in DOMAIN f \cup DOMAIN g |-> IF x \in DOMAIN f THEN f[x] ELSE g[x]]

-----------------------------------------------------------------------------
\* Rows

NodeRow == [parent : NodeId \cup {None}, name : Name \cup {None},
            type : {"FILE", "DIRECTORY"}, blob : BlobId \cup {None},
            version : 1..MaxVersion, expires : BOOLEAN, files : Nat]

\* A trash entry keeps what restoring needs; an expiry is not kept.
TrashRow == [parent : NodeId \cup {None}, name : Name \cup {None},
             type : {"FILE", "DIRECTORY"}, blob : BlobId \cup {None},
             version : 1..MaxVersion]

\* What a snapshot pins of a row: the blob of a file.
SnapRow == [blob : BlobId \cup {None}]

BlobRow == [ref : Int, zeroSince : BOOLEAN]

UsageRow == [nodes : Int, bytes : Int, trashNodes : Int, trashBytes : Int,
             snapNodes : Int, snapBytes : Int]

DirectoryRow(p, nm) ==
    [parent |-> p, name |-> nm, type |-> "DIRECTORY", blob |-> None,
     version |-> 1, expires |-> FALSE, files |-> 0]

\* Mutant: versions start at zero.
FileRowFromZero(p, nm, b, e) ==
    [parent |-> p, name |-> nm, type |-> "FILE", blob |-> b,
     version |-> 0, expires |-> e, files |-> 0]

FileRow(p, nm, b, e) ==
    [parent |-> p, name |-> nm, type |-> "FILE", blob |-> b,
     version |-> 1, expires |-> e, files |-> 0]

NewBlob == [ref |-> 1, zeroSince |-> FALSE]

\* UUIDs are never issued twice: an identifier is free when nothing holds it.
FreshNode ==
    NodeId \ (DOMAIN node \cup UNION {DOMAIN trash[t].rows : t \in DOMAIN trash})
FreshBlob == BlobId \ (DOMAIN blob \cup UNION {picked[g] : g \in Gc})

-----------------------------------------------------------------------------
\* The tree

Directory == {d \in DOMAIN node : node[d].type = "DIRECTORY"}
File == {f \in DOMAIN node : node[f].type = "FILE"}

Lookup(d, nm) == {n \in DOMAIN node : node[n].parent = d /\ node[n].name = nm}

\* The recursive queries over parent_id: n and everything below it.
Subtree(nd, n) ==
    {m \in DOMAIN nd : \A S \in SUBSET DOMAIN nd :
        (n \in S /\ \A x \in DOMAIN nd : nd[x].parent \in S => x \in S) => m \in S}

\* Mutant: the node itself is left out.
AncestorsAbove(nd, n) == {m \in DOMAIN nd : m # n /\ n \in Subtree(nd, m)}

\* Mutant: only the node and its parent.
AncestorsOneUp(nd, n) == {n, nd[n].parent} \cap DOMAIN nd

\* n and everything above it.
Ancestors(nd, n) ==
    {m \in DOMAIN nd : \A S \in SUBSET DOMAIN nd :
        (n \in S /\ \A x \in S : nd[x].parent \in DOMAIN nd => nd[x].parent \in S) => m \in S}

\* The directories a request may find missing below d, outermost first.
Chains(d) ==
    {c \in UNION {[1..k -> [id : FreshNode, name : Name]] : k \in 0..MaxMissing} :
        /\ \A i, j \in DOMAIN c : c[i].id = c[j].id => i = j
        /\ c # <<>> => Lookup(d, c[1].name) = {}}

ChainIds(c) == {c[i].id : i \in DOMAIN c}

ChainRows(d, c) ==
    [n \in ChainIds(c) |->
        LET i == CHOOSE i \in DOMAIN c : c[i].id = n
        IN  DirectoryRow(IF i = 1 THEN d ELSE c[i - 1].id, c[i].name)]

ChainEnd(d, c) == IF c = <<>> THEN d ELSE c[Len(c)].id

\* Mutant: the name is not looked up.
VacantUnchecked(d, c, nm) == TRUE

\* The last name is free: below a directory just made everything is.
Vacant(d, c, nm) == c = <<>> => Lookup(d, nm) = {}

-----------------------------------------------------------------------------
\* Counting: how often a set of rows refers to each blob, how many bytes its
\* files hold (one for every file and offset), and how many files it puts
\* directly below each directory.

Holders(rows, b) == {n \in DOMAIN rows : rows[n].blob = b}
BlobCounts(rows) == [b \in BlobId |-> Cardinality(Holders(rows, b))]

ByteSet(rows) ==
    {e \in (DOMAIN rows) \X (1..MaxSize) :
        rows[e[1]].blob \in BlobId /\ e[2] <= Size[rows[e[1]].blob]}
Bytes(rows) == Cardinality(ByteSet(rows))

FilesBelow(rows, d) == {n \in DOMAIN rows : rows[n].type = "FILE" /\ rows[n].parent = d}
FolderCounts(rows) == [d \in NodeId |-> Cardinality(FilesBelow(rows, d))]

NoFolderDelta == [d \in NodeId |-> 0]

\* Mutant: removed files are not counted off.
MinusNothing(delta) == NoFolderDelta

Minus(delta) == [d \in NodeId |-> -delta[d]]

-----------------------------------------------------------------------------
\* The blob table

\* UPDATE blob SET reference_count = reference_count + count
Increment(bl, counts) ==
    [b \in DOMAIN bl |-> [bl[b] EXCEPT !.ref = @ + counts[b]]]

\* incrementLiveReferenceCount refuses a row that has reached zero.
AllLive(bl, counts) ==
    \A b \in BlobId : counts[b] > 0 => b \in DOMAIN bl /\ bl[b].ref > 0

\* Mutant: one reference is returned whatever the count.
DecrementOnce(bl, counts) ==
    [b \in DOMAIN bl |->
        IF counts[b] = 0 THEN bl[b]
        ELSE [ref |-> bl[b].ref - 1, zeroSince |-> bl[b].zeroSince \/ bl[b].ref = 1]]

\* The same UPDATE records when the count reached zero.
Decrement(bl, counts) ==
    [b \in DOMAIN bl |->
        IF counts[b] = 0 THEN bl[b]
        ELSE [ref |-> bl[b].ref - counts[b],
              zeroSince |-> bl[b].zeroSince \/ bl[b].ref = counts[b]]]

-----------------------------------------------------------------------------
\* What withMutation does after the work of a mutation

\* resolveEnforcedLogicalBytes
EnforcedBytes(use, set) ==
    use.bytes + (IF set.excludeTrash THEN 0 ELSE use.trashBytes)
              + (IF set.excludeSnap THEN 0 ELSE use.snapBytes)

\* Mutant: only a growth of the live bytes is checked.
WithinQuotaLiveOnly(after) ==
    after.bytes > usage.bytes => EnforcedBytes(after, setting) <= setting.quota

\* Only a mutation that makes the charged bytes grow is checked.
WithinQuota(after) ==
    EnforcedBytes(after, setting) > EnforcedBytes(usage, setting)
      => EnforcedBytes(after, setting) <= setting.quota

\* The rows nd and counters use the work left behind, the number of live
\* nodes and bytes and of files per folder it recorded, and the nodes whose
\* version it advances.
Commit(nd, use, nodeDelta, byteDelta, folderDelta, changed) ==
    LET after == [use EXCEPT !.nodes = @ + nodeDelta, !.bytes = @ + byteDelta]
    IN  /\ after.nodes >= 0
        /\ nodeDelta > 0 => after.nodes <= setting.maxNodes
        /\ \A d \in DOMAIN nd :
             /\ nd[d].files + folderDelta[d] >= 0
             /\ folderDelta[d] > 0 => nd[d].files + folderDelta[d] <= setting.maxFiles
        /\ \A d \in NodeId \ DOMAIN nd : folderDelta[d] <= 0
        /\ after.bytes >= 0
        /\ WithinQuota(after)
        /\ \A n \in changed : nd[n].version < MaxVersion
        /\ node' = [n \in DOMAIN nd |->
                      [nd[n] EXCEPT !.files = @ + folderDelta[n],
                                    !.version = IF n \in changed THEN @ + 1 ELSE @]]
        /\ usage' = after

-----------------------------------------------------------------------------
\* Directories and files

\* mkdir; with `parents' it makes several.  A path that exists is no step.
EnsureDirectory(d, c) ==
    /\ c # <<>>
    /\ Commit(ChainRows(d, c) ++ node, usage, Len(c), 0, NoFolderDelta, Ancestors(node, d))
    /\ UNCHANGED <<blob, trash, snap, setting, picked>>

\* putFileContent on a free name: also the file touch creates and the content
\* of a conditional PUT, the only one that may expire.
CreateFile(d, c, nm, f, b, e) ==
    /\ Vacant(d, c, nm)
    /\ e => c = <<>>
    /\ Commit(Row(f, FileRow(ChainEnd(d, c), nm, b, e)) ++ (ChainRows(d, c) ++ node),
              usage, Len(c) + 1, Size[b],
              [NoFolderDelta EXCEPT ![ChainEnd(d, c)] = 1], Ancestors(node, d))
    /\ blob' = Row(b, NewBlob) ++ blob
    /\ UNCHANGED <<trash, snap, setting, picked>>

\* putFileContent on an existing file; its expiry stays.
ReplaceFile(f, b) ==
    /\ Commit([node EXCEPT ![f].blob = b], usage, 0, Size[b] - Size[node[f].blob],
              NoFolderDelta, Ancestors(node, f))
    /\ blob' = Row(b, NewBlob) ++ Decrement(blob, BlobCounts(Restrict(node, {f})))
    /\ UNCHANGED <<trash, snap, setting, picked>>

\* touch of an existing file, and a change of its MIME type.
TouchFile(f) ==
    /\ Commit(node, usage, 0, 0, NoFolderDelta, Ancestors(node, f))
    /\ UNCHANGED <<blob, trash, snap, setting, picked>>

\* touch of a file that went away after it was looked up: the parents are made
\* and their versions advance, then the request starts over.
TouchAbsent(d, c, nm) ==
    /\ Vacant(d, c, nm)
    /\ Commit(ChainRows(d, c) ++ node, usage, Len(c), 0, NoFolderDelta, Ancestors(node, d))
    /\ UNCHANGED <<blob, trash, snap, setting, picked>>

\* Cancels the expiry of a file.
PersistNode(f) ==
    /\ node[f].expires
    /\ Commit([node EXCEPT ![f].expires = FALSE], usage, 0, 0, NoFolderDelta,
              Ancestors(node, f))
    /\ UNCHANGED <<blob, trash, snap, setting, picked>>

\* The subtree of s goes below the end of the chain; every row of it and both
\* ancestor chains get a new version.
MoveNode(s, d, c, nm) ==
    LET sub == Subtree(node, s)
        old == node[s].parent
        new == ChainEnd(d, c)
    IN  /\ d \notin sub
        /\ Vacant(d, c, nm)
        /\ Cardinality(sub) <= Limits.moveNodes
        /\ Commit(ChainRows(d, c) ++ [node EXCEPT ![s].parent = new, ![s].name = nm],
                  usage, Len(c), 0,
                  IF node[s].type = "FILE" /\ old # new
                  THEN [NoFolderDelta EXCEPT ![old] = -1, ![new] = 1]
                  ELSE NoFolderDelta,
                  sub \cup Ancestors(node, old) \cup Ancestors(node, d))
        /\ UNCHANGED <<blob, trash, snap, setting, picked>>

\* The copy shares the blobs of its source.  The identifiers it gets are m.
CopyNode(s, d, c, nm, m, e) ==
    LET sub == Subtree(node, s)
        copies == [n \in Range(m) |->
                     LET o == CHOOSE o \in sub : m[o] = n
                     IN  [node[o] EXCEPT
                            !.parent = IF o = s THEN ChainEnd(d, c) ELSE m[@],
                            !.name = IF o = s THEN nm ELSE @,
                            !.version = 1, !.files = 0,
                            !.expires = e /\ node[o].type = "FILE"]]
    IN  /\ d \notin sub
        /\ Vacant(d, c, nm)
        /\ e => c = <<>>
        /\ node[s].type = "DIRECTORY" => Cardinality(sub) <= Limits.copyNodes
        /\ Commit(copies ++ (ChainRows(d, c) ++ node), usage,
                  Len(c) + Cardinality(sub), Bytes(copies), FolderCounts(copies),
                  Ancestors(node, d))
        /\ blob' = Increment(blob, BlobCounts(copies))
        /\ UNCHANGED <<trash, snap, setting, picked>>

-----------------------------------------------------------------------------
\* Trash


TrashEntry(row) ==
    [parent |-> row.parent, name |-> row.name, type |-> row.type,
     blob |-> row.blob, version |-> row.version]

\* The subtree of n leaves the tree: into the trash item t, which keeps its
\* blobs pinned, or for good when the trash is disabled.
MoveToTrash(n, t) ==
    LET sub == Subtree(node, n)
        rows == Restrict(node, sub)
        counts == BlobCounts(rows)
        rest == Restrict(node, DOMAIN node \ sub)
        retained == [usage EXCEPT !.trashNodes = @ + Cardinality(sub),
                                  !.trashBytes = @ + Bytes(rows)]
    IN  /\ IF setting.trashEnabled
           THEN /\ t \notin DOMAIN trash
                /\ retained.trashNodes <= Limits.trashNodes
                /\ setting.excludeTrash /\ Bytes(rows) > 0
                     => retained.trashBytes <= setting.maxTrashBytes
                /\ AllLive(blob, counts)
                /\ trash' = Row(t, [root |-> n, rows |-> [m \in sub |-> TrashEntry(node[m])]])
                              ++ trash
                /\ blob' = Decrement(Increment(blob, counts), counts)
           ELSE /\ blob' = Decrement(blob, counts)
                /\ UNCHANGED trash
        /\ Commit(rest, IF setting.trashEnabled THEN retained ELSE usage,
                  -Cardinality(sub), -Bytes(rows), Minus(FolderCounts(rows)),
                  Ancestors(node, node[n].parent))
        /\ UNCHANGED <<snap, setting, picked>>

\* rm, rmdir and the conditional delete.
RemoveNode(n, t) ==
    /\ node[n].type = "DIRECTORY" => Cardinality(Subtree(node, n)) <= Limits.deleteNodes
    /\ MoveToTrash(n, t)

\* The collector removes a file whose time has come, if it is still due.
ExpireNode(f, t) ==
    /\ node[f].expires
    /\ MoveToTrash(f, t)

\* The rows of t return with their identifiers and a later version.
RestoreTrashItem(t, d, nm) ==
    LET rows == trash[t].rows
        restored == [n \in DOMAIN rows |->
                       [parent |-> IF n = trash[t].root THEN d ELSE rows[n].parent,
                        name |-> IF n = trash[t].root THEN nm ELSE rows[n].name,
                        type |-> rows[n].type, blob |-> rows[n].blob,
                        version |-> rows[n].version + 1, expires |-> FALSE, files |-> 0]]
    IN  /\ Lookup(d, nm) = {}
        /\ \A n \in DOMAIN rows : rows[n].version < MaxVersion
        /\ Commit(restored ++ node,
                  [usage EXCEPT !.trashNodes = @ - Cardinality(DOMAIN rows),
                                !.trashBytes = @ - Bytes(rows)],
                  Cardinality(DOMAIN rows), Bytes(rows), FolderCounts(restored),
                  Ancestors(node, d))
        /\ trash' = Restrict(trash, DOMAIN trash \ {t})
        /\ UNCHANGED <<blob, snap, setting, picked>>

\* By request, or by the collector when the retention period is over.
PurgeTrashItem(t) ==
    LET rows == trash[t].rows
    IN  /\ Commit(node, [usage EXCEPT !.trashNodes = @ - Cardinality(DOMAIN rows),
                                      !.trashBytes = @ - Bytes(rows)],
                  0, 0, NoFolderDelta, {})
        /\ trash' = Restrict(trash, DOMAIN trash \ {t})
        /\ blob' = Decrement(blob, BlobCounts(rows))
        /\ UNCHANGED <<snap, setting, picked>>

-----------------------------------------------------------------------------
\* Snapshots

\* A FILE snapshot is the one row of a file, a TREE snapshot a directory's.
SnapshotCreate(n, s) ==
    LET rows == [m \in Subtree(node, n) |-> [blob |-> node[m].blob]]
        count == Cardinality(DOMAIN rows)
    IN  /\ count <= Limits.snapNodes /\ Bytes(rows) <= Limits.snapBytes
        /\ usage.snapNodes + count <= Limits.allSnapNodes
        /\ usage.snapBytes + Bytes(rows) <= Limits.allSnapBytes
        /\ AllLive(blob, BlobCounts(rows))
        /\ Commit(node, [usage EXCEPT !.snapNodes = @ + count, !.snapBytes = @ + Bytes(rows)],
                  0, 0, NoFolderDelta, {})
        /\ blob' = Increment(blob, BlobCounts(rows))
        /\ snap' = Row(s, rows) ++ snap
        /\ UNCHANGED <<trash, setting, picked>>

SnapshotDelete(s) ==
    /\ Commit(node, [usage EXCEPT !.snapNodes = @ - Cardinality(DOMAIN snap[s]),
                                  !.snapBytes = @ - Bytes(snap[s])],
              0, 0, NoFolderDelta, {})
    /\ blob' = Decrement(blob, BlobCounts(snap[s]))
    /\ snap' = Restrict(snap, DOMAIN snap \ {s})
    /\ UNCHANGED <<trash, setting, picked>>

\* The blobs of a snapshot that has a file and nothing else.
FileSnapshotBlobs(s) ==
    {b \in BlobId : \A m \in DOMAIN snap[s] : snap[s][m].blob = b}

One(b) == [x \in BlobId |-> IF x = b THEN 1 ELSE 0]

\* restoreBlob over an existing file; the same blob only gets a new version.
RestoreOver(b, f) ==
    LET same == node[f].blob = b
    IN  /\ same \/ AllLive(blob, One(b))
        /\ Commit([node EXCEPT ![f].blob = b], usage, 0, Size[b] - Size[node[f].blob],
                  NoFolderDelta, Ancestors(node, f))
        /\ blob' = IF same THEN blob
                   ELSE Decrement(Increment(blob, One(b)), One(node[f].blob))
        /\ UNCHANGED <<trash, snap, setting, picked>>

\* restoreBlob to a free name.
RestoreAs(b, d, nm, f) ==
    /\ Lookup(d, nm) = {}
    /\ AllLive(blob, One(b))
    /\ Commit(Row(f, FileRow(d, nm, b, FALSE)) ++ node, usage, 1, Size[b],
              [NoFolderDelta EXCEPT ![d] = 1], Ancestors(node, d))
    /\ blob' = Increment(blob, One(b))
    /\ UNCHANGED <<trash, snap, setting, picked>>

-----------------------------------------------------------------------------
\* Administration and the collector

UpdateSettings(s) ==
    /\ s # setting
    /\ setting' = s
    /\ UNCHANGED <<node, blob, trash, snap, usage, picked>>

\* Mutant: a blob with one reference left is taken for an orphan.
FindOrphanBlobEarly(g, b) ==
    /\ blob[b].ref <= 1
    /\ picked' = [picked EXCEPT ![g] = @ \cup {b}]
    /\ UNCHANGED <<node, blob, trash, snap, usage, setting>>

\* A page of candidates is read without a lock ...
FindOrphanBlob(g, b) ==
    /\ blob[b].ref = 0 /\ blob[b].zeroSince
    /\ picked' = [picked EXCEPT ![g] = @ \cup {b}]
    /\ UNCHANGED <<node, blob, trash, snap, usage, setting>>

\* ... and after their objects are gone the rows are deleted by identifier.
DeleteBlobRow(g, b) ==
    /\ blob' = Restrict(blob, DOMAIN blob \ {b})
    /\ picked' = [picked EXCEPT ![g] = @ \ {b}]
    /\ UNCHANGED <<node, trash, snap, usage, setting>>

-----------------------------------------------------------------------------
Init ==
    /\ node = Row(Root, DirectoryRow(None, None))
    /\ blob = <<>> /\ trash = <<>> /\ snap = <<>>
    /\ usage = [nodes |-> 0, bytes |-> 0, trashNodes |-> 0, trashBytes |-> 0,
                snapNodes |-> 0, snapBytes |-> 0]
    /\ setting \in Settings
    /\ picked = [g \in Gc |-> {}]

\* Every change of the tree advances the version of the root: none is possible
\* once that version is the last one.
RootCanAdvance == node[Root].version < MaxVersion

TreeStep ==
    \/ \E d \in Directory : \E c \in Chains(d) :
         \/ EnsureDirectory(d, c)
         \/ \E nm \in Name : TouchAbsent(d, c, nm)
         \/ \E nm \in Name, f \in FreshNode \ ChainIds(c), b \in FreshBlob, e \in BOOLEAN :
              CreateFile(d, c, nm, f, b, e)
         \/ \E nm \in Name, s \in DOMAIN node \ {Root} : MoveNode(s, d, c, nm)
         \/ \E nm \in Name, s \in DOMAIN node \ {Root}, e \in BOOLEAN :
              \E m \in Injection(Subtree(node, s), FreshNode \ ChainIds(c)) :
                CopyNode(s, d, c, nm, m, e)
    \/ \E f \in File :
         \/ \E b \in FreshBlob : ReplaceFile(f, b)
         \/ TouchFile(f)
         \/ PersistNode(f)
         \/ \E t \in TrashId : ExpireNode(f, t)
    \/ \E n \in DOMAIN node \ {Root}, t \in TrashId : RemoveNode(n, t)
    \/ \E t \in DOMAIN trash, d \in Directory, nm \in Name : RestoreTrashItem(t, d, nm)
    \/ \E s \in DOMAIN snap : \E b \in FileSnapshotBlobs(s) :
         \/ \E f \in File : RestoreOver(b, f)
         \/ \E d \in Directory, nm \in Name, f \in FreshNode : RestoreAs(b, d, nm, f)

Next ==
    \/ RootCanAdvance /\ TreeStep
    \/ \E t \in DOMAIN trash : PurgeTrashItem(t)
    \/ \E n \in DOMAIN node, s \in SnapId \ DOMAIN snap : SnapshotCreate(n, s)
    \/ \E s \in DOMAIN snap : SnapshotDelete(s)
    \/ \E s \in Settings : UpdateSettings(s)
    \/ \E g \in Gc : \/ \E b \in DOMAIN blob : FindOrphanBlob(g, b)
                     \/ \E b \in picked[g] : DeleteBlobRow(g, b)

Spec == Init /\ [][Next]_vars

-----------------------------------------------------------------------------
\* The entries of several manifests as one set of rows.
Entries(manifests) ==
    [e \in {e \in (DOMAIN manifests) \X NodeId : e[2] \in DOMAIN manifests[e[1]]} |->
        manifests[e[1]][e[2]]]
TrashEntries == Entries([t \in DOMAIN trash |-> trash[t].rows])
SnapEntries == Entries(snap)

References(b) ==
    Cardinality(Holders(node, b)) + Cardinality(Holders(TrashEntries, b))
      + Cardinality(Holders(SnapEntries, b))

\* Every table holds rows of its type.
TypeOK ==
    /\ HasRows(node, NodeId, NodeRow)
    /\ HasRows(blob, BlobId, BlobRow)
    /\ DOMAIN trash \subseteq TrashId
    /\ \A t \in DOMAIN trash : trash[t].root \in NodeId /\ HasRows(trash[t].rows, NodeId, TrashRow)
    /\ DOMAIN snap \subseteq SnapId
    /\ \A s \in DOMAIN snap : HasRows(snap[s], NodeId, SnapRow)
    /\ usage \in UsageRow
    /\ setting \in Settings
    /\ picked \in [Gc -> SUBSET BlobId]

\* reference_count of a blob is the number of live files, trash entries and
\* snapshot entries that refer to it, each of them refers to a row that exists,
\* and zero_since is recorded exactly when nothing refers to the blob.
RefCountExact ==
    /\ \A b \in BlobId : References(b) > 0 => b \in DOMAIN blob
    /\ \A b \in DOMAIN blob : blob[b].ref = References(b)
    /\ \A b \in DOMAIN blob : blob[b].zeroSince <=> blob[b].ref = 0

\* A collector run works on candidates it read earlier: none of them has been
\* referred to again by the time their objects and rows are deleted.
CandidatesStayDead ==
    \A g \in Gc : \A b \in picked[g] : b \in DOMAIN blob => References(b) = 0

\* The counters that limits are enforced with equal what they count: live
\* nodes without the root, live bytes, retained trash and snapshot nodes and
\* bytes, and the files directly below each directory.
CountersExact ==
    /\ usage = [nodes |-> Cardinality(DOMAIN node) - 1, bytes |-> Bytes(node),
                trashNodes |-> Cardinality(DOMAIN TrashEntries), trashBytes |-> Bytes(TrashEntries),
                snapNodes |-> Cardinality(DOMAIN SnapEntries), snapBytes |-> Bytes(SnapEntries)]
    /\ \A d \in DOMAIN node : node[d].files = Cardinality(FilesBelow(node, d))

\* The live rows are one tree: every row but the root hangs below a directory,
\* siblings have different names, every row is reached from the root, and files
\* and only files have a blob.
TreeWellFormed ==
    /\ Root \in Directory
    /\ \A n \in DOMAIN node \ {Root} : node[n].parent \in Directory
    /\ \A n, m \in DOMAIN node :
         node[n].parent = node[m].parent /\ node[n].name = node[m].name => n = m
    /\ Subtree(node, Root) = DOMAIN node
    /\ \A n \in DOMAIN node : node[n].type = "FILE" <=> node[n].blob # None


-----------------------------------------------------------------------------
\* What a revision says of a row: everything but its version and its counter.
Content(nd, n) == [parent |-> nd[n].parent, name |-> nd[n].name, type |-> nd[n].type,
                   blob |-> nd[n].blob, expires |-> nd[n].expires]

\* A revision (identifier and version) never stands for two contents, also
\* across the trash: a changed row has a later version, and a row that comes
\* back from the trash has a later version than the one it left with.
RevisionNeverReused ==
    [][/\ \A n \in DOMAIN node \cap DOMAIN node' :
            /\ node'[n].version >= node[n].version
            /\ Content(node', n) # Content(node, n) => node'[n].version > node[n].version
       /\ \A e \in DOMAIN TrashEntries : e[2] \in DOMAIN node' =>
            node'[e[2]].version > TrashEntries[e].version]_vars

\* The revision of a directory covers everything below it: no row of its
\* subtree changes, appears or disappears while its version stays.
DirectoryRevisionCoversSubtree ==
    [][\A d \in DOMAIN node \cap DOMAIN node' :
         LET Below(nd) == [n \in Subtree(nd, d) |-> Content(nd, n)]
         IN  Below(node') # Below(node) => node'[d].version > node[d].version]_vars

\* The life of each blob row as BlobRows describes it.
RowState(bl) ==
    [b \in BlobId |-> IF b \notin DOMAIN bl THEN "none"
                      ELSE IF bl[b].ref > 0 THEN "live" ELSE "zero"]
Rows == INSTANCE BlobRows WITH row <- RowState(blob)

\* The namespace implements BlobRows: whatever copies, moves, trash and
\* snapshots do, the row of a blob is created live, loses its last reference
\* once, is never referred to again, and only then removed.
BlobLifecycle == Rows!Spec

HeldBytes == [bytes |-> Bytes(node), trashBytes |-> Bytes(TrashEntries),
              snapBytes |-> Bytes(SnapEntries)]

\* What the tree, the trash and the snapshots really hold never grows past the
\* limit in force: not the bytes the settings charge, the number of nodes or
\* the files of a folder, whatever mix of live, trashed and pinned rows a step
\* moves.
GrowthWithinLimits ==
    [][setting' = setting =>
         /\ EnforcedBytes(HeldBytes', setting) > EnforcedBytes(HeldBytes, setting)
              => EnforcedBytes(HeldBytes', setting) <= setting.quota
         /\ Cardinality(DOMAIN node') > Cardinality(DOMAIN node)
              => Cardinality(DOMAIN node') - 1 <= setting.maxNodes
         /\ \A d \in DOMAIN node' :
              Cardinality(FilesBelow(node', d)) > Cardinality(FilesBelow(node, d))
                => Cardinality(FilesBelow(node', d)) <= setting.maxFiles]_vars
=============================================================================
