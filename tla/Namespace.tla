----------------------------- MODULE Namespace -----------------------------
(* The directory tree in etcd and the operations that change it.

   dirent and inode are the etcd keys dirent:<parent>/<name> and inode:<ino>.
   The rev of a key counts its changes, deletions included, and plays the role
   of etcd's ModRevision.  A mount has one namespace operation in flight, since
   the kernel serialises those of a directory; descriptors are opened and
   closed beside it.  An operation reads first and commits one transaction
   later: every read its transaction is pinned to is taken in one planning
   step, since a commit whose pins still hold could have read everything then.
   Reads the transaction is not pinned to are steps of their own, and `amiss`
   notes every inode of which such a read was no longer true at the commit.

   Left out: permission bits, times (they only bump a rev, which makes a pinned
   transaction retry), the targets of symlinks, and the extents of a removed
   file, which the scrubber reclaims (FileExtents). *)
EXTENDS Naturals, FiniteSets

CONSTANTS
  Nodes,
  Inos,          \* inode numbers, in the order they are handed out
  Root,          \* the root directory's number, the least of Inos
  FileNames,     \* names used for files
  DirNames,      \* names used for directories
  Workloads,     \* what the mounts may be asked for, and what may fail
  MaxOpens,      \* bound: descriptors of one file on one node
  Attempts       \* casAttempts (20 in the code)

Names == FileNames \union DirNames

Kinds == {"create", "mknod", "mkdir", "link", "unlink", "rmdir", "rename",
          "open", "write", "xattr"}

\* nodes: the mounts; kinds: what they do; puts: the names each one creates,
\* links or renames to; from: the ones it renames; removes: the ones it unlinks
\* or removes; overlap: descriptors open and close while an operation is in
\* flight; errors: an etcd call may fail, applied or not; ops, crashes: bounds
\* on operations with writes, and on the daemon crashes still to come.
Workload ==
  [nodes : SUBSET Nodes, kinds : SUBSET Kinds, puts : [Nodes -> SUBSET Names],
   from : [Nodes -> SUBSET Names], removes : [Nodes -> SUBSET Names],
   overlap : BOOLEAN, errors : BOOLEAN, ops : Nat, crashes : Nat]

ASSUME NamespaceAssumption ==
  /\ Inos \subseteq Nat \ {0}
  /\ Root \in Inos /\ \A i \in Inos : Root <= i
  /\ Attempts \in Nat \ {0}
  /\ Workloads \subseteq Workload

VARIABLES
  dirent,    \* [Key -> [ino, rev]], ino 0 for a name that does not exist
  inode,     \* [Inos -> [kind, nlink, rev]], kind "none" for no record
  orphan,    \* the keys orphan:<node>/<ino>
  xattr,     \* inodes with extended attributes in etcd
  next,      \* the next inode number to be handed out
  node,      \* "absent", "up", "down" or "starting", per node
  op,        \* the operation a node's mount has in flight
  looked,    \* files whose name a mount's kernel has resolved, to open them
  open,      \* openFiles.count
  orphaned,  \* openFiles.orphaned
  closing,   \* a DeleteOrphan in progress on a node
  todo,      \* inodes ReclaimOrphans has still to delete
  snap,      \* the link count in a node's cached inode record, if it has one
  writing,   \* the file a node is publishing a write to
  amiss,     \* ghost: what a commit relied on and did not pin (see Relied)
  late,      \* ghost: files opened while this node was already removing them
  ops,       \* operations and writes so far
  load       \* the workload, with the crashes still to come

store == <<dirent, inode, orphan, xattr, amiss>>

descriptors == <<looked, open, orphaned, closing, todo, late>>

cache == <<snap, writing>>

vars == <<store, next, node, op, descriptors, cache, ops, load>>

----------------------------------------------------------------------------
Key == Inos \X Names

NoIno == 0

Record == [kind : {"none", "file", "dir"}, nlink : Nat]

NoRecord == [kind |-> "none", nlink |-> 0]

\* A planned etcd transaction: its comparisons (same, unchanged: revisions;
\* absent, unused: no such key; present, empty) and its writes.
Txn == [same : SUBSET (Key \X Nat), unchanged : SUBSET (Inos \X Nat),
        absent : SUBSET Key, unused : SUBSET Inos, present : SUBSET Key,
        empty : SUBSET Inos,
        names : SUBSET (Key \X (Inos \union {NoIno})),
        records : SUBSET (Inos \X Record),
        orphans : SUBSET Inos, xattrs : SUBSET Inos]

NoTxn == [same |-> {}, unchanged |-> {}, absent |-> {}, unused |-> {},
          present |-> {}, empty |-> {}, names |-> {}, records |-> {},
          orphans |-> {}, xattrs |-> {}]

NoKey == <<Root, CHOOSE x \in Names : TRUE>>

Idle == [step |-> "idle", kind |-> "none", old |-> NoKey, new |-> NoKey,
         ino |-> NoIno, dir |-> FALSE, tries |-> 0, txn |-> NoTxn]

NotClosing == [step |-> "idle", ino |-> NoIno, rec |-> NoRecord]

NoSnap == 99    \* no cached record; larger than any link count

\* What may have changed between a read and the commit that relies on it: the
\* source of a rename, its ancestors, the directory a name is put into, the record
\* of an orphan, the record a write puts back, and an open count.
Causes == {"source", "ancestors", "directory", "orphan", "write", "close"}

TypeOK ==
  /\ dirent \in [Key -> [ino : Inos \union {NoIno}, rev : Nat]]
  /\ inode \in [Inos -> [kind : {"none", "file", "dir"}, nlink : Nat, rev : Nat]]
  /\ orphan \subseteq Nodes \X Inos
  /\ xattr \subseteq Inos
  /\ next \in Nat
  /\ node \in [Nodes -> {"absent", "up", "down", "starting"}]
  /\ op \in [Nodes ->
       [step : {"idle", "source", "scan", "plan", "commit"},
        kind : {"none", "create", "mknod", "mkdir", "link", "unlink", "rmdir",
                "rename"},
        old : Key, new : Key, ino : Inos \union {NoIno}, dir : BOOLEAN,
        tries : 0..Attempts, txn : Txn]]
  /\ open \in [Nodes -> [Inos -> 0..MaxOpens]]
  /\ orphaned \in [Nodes -> SUBSET Inos]
  /\ closing \in [Nodes -> [step : {"idle", "read", "delete"},
                            ino : Inos \union {NoIno}, rec : Record]]
  /\ todo \in [Nodes -> SUBSET Inos]
  /\ snap \in [Nodes -> [Inos -> Nat]]
  /\ writing \in [Nodes -> Inos \union {NoIno}]
  /\ looked \in [Nodes -> SUBSET Inos] /\ late \in [Nodes -> SUBSET Inos]
  /\ amiss \subseteq Causes \X Inos
  /\ load \in Workload /\ ops \in 0..load.ops

----------------------------------------------------------------------------
(* Reading the tree *)

KindOf(i) == IF i = NoIno THEN "none" ELSE inode[i].kind

Exists(i) == KindOf(i) # "none"

IsDir(i) == KindOf(i) = "dir"

IsFile(i) == KindOf(i) = "file"

Entries(d) == {k \in Key : k[1] = d /\ dirent[k].ino # NoIno}

NamesOf(i) == {k \in Key : dirent[k].ino = i}

Subdirs(d) == {k \in Entries(d) : IsDir(dirent[k].ino)}

RecordOf(i) == [kind |-> inode[i].kind, nlink |-> inode[i].nlink]

\* parent[] of isDescendant: the scan runs in key order and the last key wins.
ParentOf(i) ==
  IF NamesOf(i) = {} THEN NoIno
  ELSE CHOOSE p \in {k[1] : k \in NamesOf(i)} : \A k \in NamesOf(i) : k[1] <= p

\* The chain of parents of i after at most s steps of isDescendant's walk.
AboveWithin(i) ==
  LET up[s \in 0..Cardinality(Inos)] ==
        IF s = 0 THEN {i}
        ELSE LET chain == up[s - 1]
             IN  chain \union ({ParentOf(j) : j \in chain} \ {NoIno})
  IN  up[Cardinality(Inos)]

\* Mutant: only the directory itself is refused as a destination.
MayNotMoveToSelf(i, d) == i = d

\* isDescendant(d, i) with its caller's newParent == ino, and its error for a
\* chain that does not terminate, which refuses the rename too.
MayNotMoveUnder(i, d) ==
  i \in AboveWithin(d) \/ \A j \in AboveWithin(d) : ParentOf(j) # NoIno

----------------------------------------------------------------------------
(* Transactions *)

Holds(t) ==
  /\ \A p \in t.same : dirent[p[1]].rev = p[2]
  /\ \A p \in t.unchanged : inode[p[1]].rev = p[2]
  /\ \A k \in t.absent : dirent[k].ino = NoIno
  /\ \A k \in t.present : dirent[k].ino # NoIno
  /\ \A i \in t.unused : ~Exists(i)
  /\ \A d \in t.empty : Entries(d) = {}

Written(rec, r) == [kind |-> rec.kind, nlink |-> rec.nlink, rev |-> r + 1]

\* What the commit of operation o relies on, is not pinned to and no longer finds:
\* a rename's source still naming the inode that was looked up, its destination
\* not lying beneath it, and the directory of a new name being there.
Relied(o) ==
  LET now == dirent[o.old].ino
      moved == o.kind = "rename" /\ now # o.ino
      dirs == IF o.dir \/ IsDir(now) THEN {o.old[1], o.new[1]} ELSE {}
      puts == o.kind \in {"create", "mknod", "mkdir", "link", "rename"}
  IN  {<<"source", i>> : i \in IF moved THEN {o.ino, now} \union dirs ELSE {}}
      \union {<<"ancestors", i>> : i \in
                IF o.dir /\ MayNotMoveUnder(o.ino, o.new[1]) THEN {o.ino} ELSE {}}
      \union {<<"directory", i>> : i \in
                IF puts /\ ~IsDir(o.new[1]) THEN {o.new[1]} ELSE {}}

Apply(n, t) ==
  /\ dirent' = [k \in Key |->
       IF \E p \in t.names : p[1] = k
         THEN [ino |-> (CHOOSE p \in t.names : p[1] = k)[2],
               rev |-> dirent[k].rev + 1]
         ELSE dirent[k]]
  /\ inode' = [i \in Inos |->
       IF \E p \in t.records : p[1] = i
         THEN Written((CHOOSE p \in t.records : p[1] = i)[2], inode[i].rev)
         ELSE inode[i]]
  /\ orphan' = orphan \union ({n} \X t.orphans)
  /\ xattr' = xattr \ t.xattrs
  /\ amiss' = amiss \union Relied(op[n])

\* adjustDirNlink: nothing for a missing record or a count it would take
\* below zero, otherwise the pinned write of the new count.
AdjustDirNlink(t, d, up, down) ==
  IF ~Exists(d) \/ inode[d].nlink + up < down THEN t
  ELSE [t EXCEPT !.unchanged = @ \union {<<d, inode[d].rev>>},
                 !.records = @ \union
                   {<<d, [RecordOf(d) EXCEPT !.nlink = @ + up - down]>>}]

\* unlinkInodeOps
UnlinkInodeOps(t, i, rec) ==
  IF rec.kind = "file" /\ rec.nlink > 1
    THEN [t EXCEPT !.records = @ \union {<<i, [rec EXCEPT !.nlink = @ - 1]>>}]
    ELSE [t EXCEPT !.records = @ \union {<<i, NoRecord>>},
                   !.xattrs = @ \union {i}]

----------------------------------------------------------------------------
(* What the kernel sends, and the operation's first read *)

MayBegin(n) == node[n] = "up" /\ op[n].step = "idle" /\ ops < load.ops

Begins(n, kind) == kind \in load.kinds /\ MayBegin(n) /\ ops' = ops + 1

Begun(n, kind, fields) ==
  op' = [op EXCEPT ![n] =
          [f \in DOMAIN Idle |->
            IF f = "kind" THEN kind
            ELSE IF f \in DOMAIN fields THEN fields[f] ELSE Idle[f]]]

\* allocInode: a number is reserved and never handed out again.
AllocInode == next \in Inos /\ next' = next + 1

\* A create returns an open descriptor; a mknod or a symlink does not.
Create(n, kind, k) ==
  /\ Begins(n, kind) /\ AllocInode
  /\ IsDir(k[1]) /\ k[2] \in FileNames \intersect load.puts[n]
  /\ dirent[k].ino = NoIno
  /\ Begun(n, kind, [step |-> "commit", new |-> k, ino |-> next,
       txn |-> [NoTxn EXCEPT !.absent = {k}, !.unused = {next},
                             !.names = {<<k, next>>},
                             !.records = {<<next, [kind |-> "file", nlink |-> 1]>>}]])
  /\ UNCHANGED <<store, node, descriptors, cache, load>>

Mkdir(n, k) ==
  /\ Begins(n, "mkdir") /\ AllocInode
  /\ IsDir(k[1]) /\ k[2] \in DirNames \intersect load.puts[n]
  /\ dirent[k].ino = NoIno
  /\ Begun(n, "mkdir", [step |-> "plan", new |-> k, ino |-> next])
  /\ UNCHANGED <<store, node, descriptors, cache, load>>

Link(n, i, k) ==
  /\ Begins(n, "link")
  /\ IsFile(i) /\ NamesOf(i) # {}
  /\ IsDir(k[1]) /\ k[2] \in FileNames \intersect load.puts[n]
  /\ dirent[k].ino = NoIno
  /\ Begun(n, "link", [step |-> "plan", new |-> k, ino |-> i])
  /\ UNCHANGED <<store, next, node, descriptors, cache, load>>

Unlink(n, k) ==
  /\ Begins(n, "unlink")
  /\ k[2] \in load.removes[n]
  /\ dirent[k].ino # NoIno /\ ~IsDir(dirent[k].ino)
  /\ Begun(n, "unlink", [step |-> "plan", old |-> k])
  /\ UNCHANGED <<store, next, node, descriptors, cache, load>>

Rmdir(n, k) ==
  /\ Begins(n, "rmdir")
  /\ k[2] \in load.removes[n]
  /\ IsDir(dirent[k].ino)
  /\ Begun(n, "rmdir", [step |-> "plan", old |-> k])
  /\ UNCHANGED <<store, next, node, descriptors, cache, load>>

\* handleRename up to its LookupDirent.  The kernel answers a rename of a file
\* onto another of its own names itself.
Rename(n, k, to) ==
  /\ Begins(n, "rename")
  /\ k # to /\ k[2] \in load.from[n] /\ to[2] \in load.puts[n]
  /\ dirent[k].ino # NoIno /\ dirent[to].ino # dirent[k].ino
  /\ IsDir(to[1])
  /\ to[2] \in (IF IsDir(dirent[k].ino) THEN DirNames ELSE FileNames)
  /\ Begun(n, "rename", [step |-> "source", old |-> k, new |-> to,
                         ino |-> dirent[k].ino])
  /\ UNCHANGED <<store, next, node, descriptors, cache, load>>

----------------------------------------------------------------------------
(* Planning: the reads a transaction is pinned to *)

Fails(n) == op' = [op EXCEPT ![n] = Idle]

Plans(n, i, t) ==
  op' = [op EXCEPT ![n].step = "commit", ![n].ino = i, ![n].txn = t]

\* GetInode of the rename's source, which nothing pins.
RenameSource(n) ==
  /\ op[n].step = "source"
  /\ op' = [op EXCEPT ![n].dir = IsDir(op[n].ino),
                      ![n].step = IF IsDir(op[n].ino) THEN "scan" ELSE "plan"]
  /\ UNCHANGED <<store, next, node, descriptors, cache, ops, load>>

\* The scan of isDescendant, which nothing pins either.
RenameScan(n) ==
  /\ op[n].step = "scan"
  /\ IF MayNotMoveUnder(op[n].ino, op[n].new[1])
       THEN Fails(n)
       ELSE op' = [op EXCEPT ![n].step = "plan"]
  /\ UNCHANGED <<store, next, node, descriptors, cache, ops, load>>

\* Mutant: the directory that is replaced is not counted.
ForgetVictim(t, o, victimIsDir) ==
  IF o.dir /\ o.old[1] # o.new[1]
    THEN AdjustDirNlink(AdjustDirNlink(t, o.old[1], 0, 1), o.new[1], 1, 0)
    ELSE t

\* applyRenameNlink
ApplyRenameNlink(t, o, victimIsDir) ==
  LET moved == o.dir /\ o.old[1] # o.new[1]
      left  == IF moved THEN AdjustDirNlink(t, o.old[1], 0, 1) ELSE t
      up    == IF moved THEN 1 ELSE 0
      down  == IF victimIsDir THEN 1 ELSE 0
  IN  IF up = down THEN left ELSE AdjustDirNlink(left, o.new[1], up, down)

\* AtomicRename from its read of the target on.
RenameTxn(o) ==
  LET target == dirent[o.new]
      v      == target.ino
      base   == [NoTxn EXCEPT !.present = {o.old},
                              !.names = {<<o.old, NoIno>>, <<o.new, o.ino>>}]
      pinned == [base EXCEPT !.same = {<<o.new, target.rev>>}]
      over   == UnlinkInodeOps(
                  [pinned EXCEPT !.unchanged = {<<v, inode[v].rev>>},
                                 !.empty = IF IsDir(v) THEN {v} ELSE {}],
                  v, RecordOf(v))
  IN  CASE v = NoIno ->
             ApplyRenameNlink([base EXCEPT !.absent = {o.new}], o, FALSE)
        [] v # NoIno /\ ~Exists(v) -> ApplyRenameNlink(pinned, o, FALSE)
        [] OTHER -> ApplyRenameNlink(over, o, IsDir(v))

\* ErrNotDir, ErrIsDir and ErrNotEmpty
RenameRefused(o) ==
  LET v == dirent[o.new].ino
  IN  /\ Exists(v)
      /\ o.dir # IsDir(v) \/ (IsDir(v) /\ Entries(v) # {})

PlanRename(n) ==
  /\ op[n].kind = "rename" /\ op[n].step = "plan"
  /\ IF RenameRefused(op[n])
       THEN Fails(n) ELSE Plans(n, op[n].ino, RenameTxn(op[n]))
  /\ UNCHANGED <<store, next, node, descriptors, cache, ops, load>>

MkdirTxn(o) ==
  AdjustDirNlink(
    [NoTxn EXCEPT !.absent = {o.new}, !.unused = {o.ino},
                  !.names = {<<o.new, o.ino>>},
                  !.records = {<<o.ino, [kind |-> "dir", nlink |-> 2]>>}],
    o.new[1], 1, 0)

PlanMkdir(n) ==
  /\ op[n].kind = "mkdir" /\ op[n].step = "plan"
  /\ Plans(n, op[n].ino, MkdirTxn(op[n]))
  /\ UNCHANGED <<store, next, node, descriptors, cache, ops, load>>

LinkTxn(o) ==
  [NoTxn EXCEPT !.absent = {o.new}, !.unchanged = {<<o.ino, inode[o.ino].rev>>},
                !.names = {<<o.new, o.ino>>},
                !.records = {<<o.ino, [RecordOf(o.ino) EXCEPT !.nlink = @ + 1]>>}]

PlanLink(n) ==
  /\ op[n].kind = "link" /\ op[n].step = "plan"
  /\ IF IsFile(op[n].ino) THEN Plans(n, op[n].ino, LinkTxn(op[n])) ELSE Fails(n)
  /\ UNCHANGED <<store, next, node, descriptors, cache, ops, load>>

\* Mutant: only the name is pinned.
RemovalPinsName(k) ==
  [NoTxn EXCEPT !.same = {<<k, dirent[k].rev>>}, !.names = {<<k, NoIno>>}]

\* The comparisons of AtomicUnlinkKeepingOpen and AtomicRmdir, and the
\* deletion of the name.
RemovalTxn(k) ==
  LET i == dirent[k].ino
  IN  [NoTxn EXCEPT !.same = {<<k, dirent[k].rev>>},
                    !.unchanged = {<<i, inode[i].rev>>},
                    !.names = {<<k, NoIno>>}]

\* An unlink of the last name of a file held open keeps the record, at link
\* count zero, under an orphan key.
KeepOpenTxn(k) ==
  [RemovalTxn(k) EXCEPT
     !.records = {<<dirent[k].ino, [kind |-> "file", nlink |-> 0]>>},
     !.orphans = {dirent[k].ino}]

\* Mutant: one descriptor does not count.
HeldOpenTwice(n, i) == IsFile(i) /\ inode[i].nlink <= 1 /\ open[n][i] > 1

HeldOpen(n, i) == IsFile(i) /\ inode[i].nlink <= 1 /\ open[n][i] > 0

\* One attempt of AtomicUnlinkKeepingOpen.  heldOpen marks the inode as this
\* node's to delete here, before the transaction is tried.
PlanUnlink(n) ==
  LET k == op[n].old
      i == dirent[k].ino
  IN  /\ op[n].kind = "unlink" /\ op[n].step = "plan"
      /\ \/ /\ ~Exists(i)
            /\ Fails(n) /\ UNCHANGED orphaned
         \/ /\ Exists(i) /\ HeldOpen(n, i)
            /\ orphaned' = [orphaned EXCEPT ![n] = @ \union {i}]
            /\ Plans(n, i, KeepOpenTxn(k))
         \/ /\ Exists(i) /\ ~HeldOpen(n, i)
            /\ Plans(n, i, UnlinkInodeOps(RemovalTxn(k), i, RecordOf(i)))
            /\ UNCHANGED orphaned
      /\ UNCHANGED <<store, next, node, looked, open, closing, todo, late, cache,
                     ops, load>>

RmdirTxn(k) ==
  AdjustDirNlink(
    [RemovalTxn(k) EXCEPT !.empty = {dirent[k].ino},
                          !.records = {<<dirent[k].ino, NoRecord>>}],
    k[1], 0, 1)

PlanRmdir(n) ==
  LET k == op[n].old
      i == dirent[k].ino
  IN  /\ op[n].kind = "rmdir" /\ op[n].step = "plan"
      /\ IF IsDir(i) THEN Plans(n, i, RmdirTxn(k)) ELSE Fails(n)
      /\ UNCHANGED <<store, next, node, descriptors, cache, ops, load>>

----------------------------------------------------------------------------
(* Committing *)

\* Mutant: a create's descriptor is counted twice.
CountTwice(n) ==
  /\ open' = [open EXCEPT ![n][op[n].ino] = IF op[n].kind = "create" THEN @ + 2 ELSE @]
  /\ UNCHANGED snap

\* What a handler does once its transaction is acknowledged: a create counts
\* the descriptor it returns and caches the record it wrote; an unlink that
\* removed the record gives up the inode's cached lock unless a write uses it.
AfterCommit(n) ==
  LET o == op[n]
  IN  CASE o.kind = "create" ->
             /\ open' = [open EXCEPT ![n][o.ino] = @ + 1]
             /\ snap' = [snap EXCEPT ![n][o.ino] = 1]
        [] o.kind = "unlink" /\ <<o.ino, NoRecord>> \in o.txn.records
             /\ writing[n] # o.ino ->
             /\ snap' = [snap EXCEPT ![n][o.ino] = NoSnap]
             /\ UNCHANGED open
        [] OTHER -> UNCHANGED <<open, snap>>

Acknowledged(n) ==
  /\ op[n].step = "commit"
  /\ Holds(op[n].txn) /\ Apply(n, op[n].txn)
  /\ AfterCommit(n) /\ Fails(n)
  /\ UNCHANGED <<next, node, looked, orphaned, closing, todo, late, writing, ops,
                 load>>

\* The transaction applies and the reply is lost: the handler reports EIO.
AppliedUnheard(n) ==
  /\ load.errors /\ op[n].step = "commit"
  /\ Holds(op[n].txn) /\ Apply(n, op[n].txn)
  /\ Fails(n)
  /\ UNCHANGED <<next, node, descriptors, cache, ops, load>>

NeverApplied(n) ==
  /\ load.errors /\ op[n].step = "commit"
  /\ Fails(n)
  /\ UNCHANGED <<store, next, node, descriptors, cache, ops, load>>

\* A comparison that fails is contention for retryCAS, unless the failure is
\* the caller's answer: the name is taken, or the directory has entries.
Contended(o) ==
  \/ o.kind \in {"mkdir", "link"} /\ dirent[o.new].ino = NoIno
  \/ o.kind = "unlink"
  \/ o.kind = "rmdir" /\ Entries(o.ino) = {}

Refused(n) ==
  /\ op[n].step = "commit" /\ ~Holds(op[n].txn)
  /\ IF Contended(op[n]) /\ op[n].tries + 1 < Attempts
       THEN op' = [op EXCEPT ![n].step = "plan", ![n].tries = @ + 1,
                             ![n].txn = NoTxn]
       ELSE Fails(n)
  /\ UNCHANGED <<store, next, node, descriptors, cache, ops, load>>

----------------------------------------------------------------------------
(* Descriptors *)

MayOpenOrClose(n) == node[n] = "up" /\ (load.overlap \/ op[n].step = "idle")

\* The kernel resolves a name it means to open.
Lookup(n, i) ==
  /\ "open" \in load.kinds /\ node[n] = "up"
  /\ IsFile(i) /\ NamesOf(i) # {} /\ i \notin looked[n] /\ open[n][i] < MaxOpens
  /\ looked' = [looked EXCEPT ![n] = @ \union {i}]
  /\ UNCHANGED <<store, next, node, op, open, orphaned, closing, todo, late, cache,
                 ops, load>>

\* This node is about to remove the record of i.
Removing(n, i) ==
  \/ op[n].kind = "unlink" /\ op[n].step = "commit" /\ op[n].ino = i
  \/ closing[n].step # "idle" /\ closing[n].ino = i

\* handleOpen counts the descriptor and looks at nothing else.
Open(n, i) ==
  /\ MayOpenOrClose(n)
  /\ i \in looked[n]
  /\ looked' = [looked EXCEPT ![n] = @ \ {i}]
  /\ open' = [open EXCEPT ![n][i] = @ + 1]
  /\ late' = IF Removing(n, i) THEN [late EXCEPT ![n] = @ \union {i}] ELSE late
  /\ UNCHANGED <<store, next, node, op, orphaned, closing, todo, cache, ops, load>>

\* openFiles.release
LastClose(n, i) == open[n][i] = 1 /\ i \in orphaned[n]

Close(n, i) ==
  /\ MayOpenOrClose(n)
  /\ open[n][i] > 0 /\ closing[n].step = "idle" /\ writing[n] # i
  /\ open' = [open EXCEPT ![n][i] = @ - 1]
  /\ late' = IF open[n][i] = 1 THEN [late EXCEPT ![n] = @ \ {i}] ELSE late
  /\ IF LastClose(n, i)
       THEN /\ orphaned' = [orphaned EXCEPT ![n] = @ \ {i}]
            /\ closing' = [closing EXCEPT ![n] = [NotClosing EXCEPT !.step = "read",
                                                                    !.ino = i]]
            /\ amiss' = IF Removing(n, i) THEN amiss \union {<<"close", i>>} ELSE amiss
       ELSE UNCHANGED <<orphaned, closing, amiss>>
  /\ UNCHANGED <<dirent, inode, orphan, xattr, next, node, op, looked, todo, cache,
                 ops, load>>

\* DeleteOrphan: GetInode, and then a transaction that compares nothing.
ReadOrphan(n) ==
  /\ closing[n].step = "read"
  /\ closing' = [closing EXCEPT ![n].step = "delete",
                                ![n].rec = RecordOf(closing[n].ino)]
  /\ UNCHANGED <<store, next, node, op, looked, open, orphaned, todo, late, cache,
                 ops, load>>

DeleteOrphanTxn(c) ==
  IF c.rec.kind # "none" /\ c.rec.nlink = 0
    THEN UnlinkInodeOps(NoTxn, c.ino, c.rec) ELSE NoTxn

DeleteOrphan(n) ==
  LET c == closing[n]
  IN  /\ c.step = "delete"
      /\ \/ /\ inode' = [i \in Inos |->
                 IF <<i, NoRecord>> \in DeleteOrphanTxn(c).records
                   THEN Written(NoRecord, inode[i].rev) ELSE inode[i]]
            /\ xattr' = xattr \ DeleteOrphanTxn(c).xattrs
            /\ orphan' = orphan \ {<<n, c.ino>>}
            /\ amiss' = IF DeleteOrphanTxn(c) # NoTxn /\ RecordOf(c.ino) # c.rec
                           THEN amiss \union {<<"orphan", c.ino>>} ELSE amiss
         \/ load.errors /\ UNCHANGED <<inode, xattr, orphan, amiss>>
      /\ closing' = [closing EXCEPT ![n] = NotClosing]
      /\ snap' = IF node[n] = "up"
                   THEN [snap EXCEPT ![n][c.ino] = NoSnap] ELSE snap
      /\ UNCHANGED <<dirent, next, node, op, looked, open, orphaned, todo, late,
                     writing, ops, load>>

----------------------------------------------------------------------------
(* Crash and restart *)

Crash(n) ==
  /\ load.crashes > 0 /\ load' = [load EXCEPT !.crashes = @ - 1]
  /\ node[n] \in {"up", "starting"}
  /\ node' = [node EXCEPT ![n] = "down"]
  /\ op' = [op EXCEPT ![n] = Idle]
  /\ open' = [open EXCEPT ![n] = [i \in Inos |-> 0]]
  /\ looked' = [looked EXCEPT ![n] = {}] /\ late' = [late EXCEPT ![n] = {}]
  /\ orphaned' = [orphaned EXCEPT ![n] = {}]
  /\ closing' = [closing EXCEPT ![n] = NotClosing]
  /\ todo' = [todo EXCEPT ![n] = {}]
  /\ snap' = [snap EXCEPT ![n] = [i \in Inos |-> NoSnap]]
  /\ writing' = [writing EXCEPT ![n] = NoIno]
  /\ UNCHANGED <<store, next, ops>>

\* ReclaimOrphans: ListOrphans, then DeleteOrphan for each, before serving.
Restart(n) ==
  /\ node[n] = "down"
  /\ node' = [node EXCEPT ![n] = "starting"]
  /\ todo' = [todo EXCEPT ![n] = {i \in Inos : <<n, i>> \in orphan}]
  /\ UNCHANGED <<store, next, op, looked, open, orphaned, closing, late, cache, ops,
                 load>>

ReclaimNext(n) ==
  /\ node[n] = "starting" /\ closing[n].step = "idle"
  /\ \E i \in todo[n] :
       /\ closing' = [closing EXCEPT ![n] = [NotClosing EXCEPT !.step = "read",
                                                               !.ino = i]]
       /\ todo' = [todo EXCEPT ![n] = @ \ {i}]
  /\ UNCHANGED <<store, next, node, op, looked, open, orphaned, late, cache, ops,
                 load>>

\* Mutant: requests are served before the orphans are gone.
ServeAtOnce(n) ==
  /\ node[n] = "starting" /\ closing[n].step = "idle"
  /\ node' = [node EXCEPT ![n] = "up"]
  /\ UNCHANGED <<store, next, op, descriptors, cache, ops, load>>

Serve(n) ==
  /\ node[n] = "starting" /\ closing[n].step = "idle" /\ todo[n] = {}
  /\ node' = [node EXCEPT ![n] = "up"]
  /\ UNCHANGED <<store, next, op, descriptors, cache, ops, load>>

----------------------------------------------------------------------------
(* Other writers of an inode's keys *)

\* handleWrite as far as the inode record: the exclusive lock recalls a peer's
\* cached record, and this node reads the record only if it has none cached.
StartWrite(n, i) ==
  /\ "write" \in load.kinds /\ node[n] = "up"
  /\ ops < load.ops /\ ops' = ops + 1
  /\ open[n][i] > 0 /\ writing[n] = NoIno /\ \A m \in Nodes : writing[m] # i
  /\ snap[n][i] # NoSnap \/ Exists(i)
  /\ writing' = [writing EXCEPT ![n] = i]
  /\ snap' = [m \in Nodes |-> [snap[m] EXCEPT ![i] =
                IF m # n THEN NoSnap
                ELSE IF @ # NoSnap THEN @ ELSE inode[i].nlink]]
  /\ UNCHANGED <<store, next, node, op, descriptors, load>>

\* The commit of a write that grows the file: a put of the cached record with
\* the new size, on which the transaction compares nothing.
CommitWrite(n) ==
  LET i == writing[n]
  IN  /\ i # NoIno
      /\ inode' = [inode EXCEPT ![i] =
                    Written([kind |-> "file", nlink |-> snap[n][i]], @.rev)]
      /\ amiss' = IF RecordOf(i) # [kind |-> "file", nlink |-> snap[n][i]]
                     THEN amiss \union {<<"write", i>>} ELSE amiss
      /\ writing' = [writing EXCEPT ![n] = NoIno]
      /\ UNCHANGED <<dirent, orphan, xattr, next, node, op, descriptors, snap,
                     ops, load>>

\* SetXattr: one transaction that requires the inode to exist.
SetXattr(n, i) ==
  /\ "xattr" \in load.kinds /\ node[n] = "up"
  /\ Exists(i) /\ i \notin xattr
  /\ xattr' = xattr \union {i}
  /\ UNCHANGED <<dirent, inode, orphan, amiss, next, node, op, descriptors, cache,
                 ops, load>>

RemoveXattr(n, i) ==
  /\ "xattr" \in load.kinds /\ node[n] = "up"
  /\ i \in xattr
  /\ xattr' = xattr \ {i}
  /\ UNCHANGED <<dirent, inode, orphan, amiss, next, node, op, descriptors, cache,
                 ops, load>>

----------------------------------------------------------------------------
Init ==
  /\ dirent = [k \in Key |-> [ino |-> NoIno, rev |-> 0]]
  /\ inode = [i \in Inos |->
       IF i = Root THEN [kind |-> "dir", nlink |-> 2, rev |-> 1]
       ELSE [kind |-> "none", nlink |-> 0, rev |-> 0]]
  /\ orphan = {} /\ xattr = {} /\ amiss = {}
  /\ next = Root + 1
  /\ load \in Workloads
  /\ node = [n \in Nodes |-> IF n \in load.nodes THEN "up" ELSE "absent"]
  /\ op = [n \in Nodes |-> Idle]
  /\ open = [n \in Nodes |-> [i \in Inos |-> 0]]
  /\ orphaned = [n \in Nodes |-> {}]
  /\ looked = [n \in Nodes |-> {}] /\ late = [n \in Nodes |-> {}]
  /\ closing = [n \in Nodes |-> NotClosing]
  /\ todo = [n \in Nodes |-> {}]
  /\ snap = [n \in Nodes |-> [i \in Inos |-> NoSnap]]
  /\ writing = [n \in Nodes |-> NoIno]
  /\ ops = 0

\* A step of an operation already in flight on node n.
Step(n) ==
  \/ RenameSource(n) \/ RenameScan(n) \/ PlanRename(n)
  \/ PlanMkdir(n) \/ PlanLink(n) \/ PlanUnlink(n) \/ PlanRmdir(n)
  \/ Acknowledged(n) \/ AppliedUnheard(n) \/ NeverApplied(n) \/ Refused(n)

Cleanup(n) ==
  ReadOrphan(n) \/ DeleteOrphan(n) \/ Restart(n) \/ ReclaimNext(n) \/ Serve(n)

Request(n) ==
  \/ /\ MayBegin(n)
     /\ \/ \E k \in Key :
             \/ Create(n, "create", k) \/ Create(n, "mknod", k)
             \/ Mkdir(n, k) \/ Unlink(n, k) \/ Rmdir(n, k)
        \/ \E i \in Inos : IsFile(i) /\ \E k \in Key : Link(n, i, k)
        \/ \E d \in Inos : \E k \in Entries(d), to \in Key : Rename(n, k, to)
  \/ \E i \in Inos : Lookup(n, i) \/ Open(n, i) \/ Close(n, i) \/ StartWrite(n, i)
  \/ \E i \in Inos : SetXattr(n, i) \/ RemoveXattr(n, i)

Next ==
  \E n \in Nodes :
    Request(n) \/ Step(n) \/ Cleanup(n) \/ CommitWrite(n) \/ Crash(n)

Spec == Init /\ [][Next]_vars

\* A handler that has started runs to its end, and a daemon that died is
\* started again; whether anyone asks for anything is not assumed.
FairSpec == Spec /\ \A n \in Nodes : WF_vars(Step(n)) /\ WF_vars(Cleanup(n))

----------------------------------------------------------------------------
(* Properties *)

\* The inodes of which a read for one of these reasons was relied on in vain.
Amiss(causes) == {a[2] : a \in {b \in amiss : b[1] \in causes}}

LinksOf(i) ==
  IF IsDir(i) THEN 2 + Cardinality(Subdirs(i)) ELSE Cardinality(NamesOf(i))

\* A file's link count is the number of its names, and a directory's is two plus
\* its subdirectories, through every race of the pinned transactions.  The count
\* goes wrong for no inode but those a rename found under another name, a write
\* put back an old record of, or DeleteOrphan deleted in spite of a new link.
NlinkCorrect ==
  \A i \in Inos \ Amiss({"source", "orphan", "write"}) :
    Exists(i) => inode[i].nlink = LinksOf(i)

\* With the same exceptions no name points at an inode that has been deleted.
NoDanglingDirent ==
  \A k \in Key : dirent[k].ino \notin Amiss({"source", "orphan", "write"}) \union {NoIno}
    => Exists(dirent[k].ino)

\* The directories a path from the root reaches.
Reachable ==
  LET down[s \in 0..Cardinality(Inos)] ==
        IF s = 0 THEN {Root}
        ELSE LET above == down[s - 1]
             IN  above \union {dirent[k].ino : k \in
                   {k \in Key : k[1] \in above /\ IsDir(dirent[k].ino)}}
  IN  down[Cardinality(Inos)]

\* Every entry lies in a directory that a path from the root reaches (the ancestor
\* check of AtomicRename, the empty range of AtomicRmdir).  The exceptions lie at
\* or beneath a directory that was renamed although it had been moved or replaced,
\* or was moved beneath itself, or that a name was put into although it was gone.
EntriesReachable ==
  LET there == Reachable
      lost  == Amiss({"source", "ancestors", "directory"})
  IN  \A k \in Key : dirent[k].ino # NoIno =>
        k[1] \in there \/ AboveWithin(k[1]) \intersect lost # {}

\* A file open on a mount is not removed by that mount's own unlink or close,
\* unless it was opened when the removal was already under way.  (The removal of a
\* peer takes it away, and so does a rename over it: AtomicUnlinkKeepingOpen,
\* AtomicRename.)
OpenFilesSurvive ==
  [][\A n \in Nodes, i \in Inos :
       Removing(n, i) /\ ~Removing(n, i)' /\ Exists(i) /\ open[n][i] > 0 /\ i \notin late[n]
         => Exists(i)']_vars

WillDelete(n, i) ==
  \/ i \in orphaned[n] /\ open[n][i] > 0
  \/ closing[n].step # "idle" /\ closing[n].ino = i
  \/ <<n, i>> \in orphan /\ (node[n] = "down" \/ i \in todo[n])

\* A file without a name or a descriptor is eventually removed, across crashes,
\* as long as DeleteOrphan's requests succeed, no close came between an unlink's
\* plan and its commit, and no write put back the record.
OrphansReclaimed ==
  \A i \in Inos \ {Root} :
    (~load.errors /\ IsFile(i) /\ inode[i].nlink = 0 /\ \A n \in Nodes : open[n][i] = 0)
      ~> (~Exists(i) \/ inode[i].nlink > 0 \/ i \in Amiss({"close", "write"}))

----------------------------------------------------------------------------
(* Claims of the source that the code does not keep. *)

\* "source or target changed under the rename": a rename that commits moves the
\* name of the inode it was asked to move (commitRename).
RenameMovesSource == Amiss({"source"}) = {}

\* "exactly one succeeds and the other fails with a conflict error", of two
\* renames that would each move a directory beneath the other.
RenameKeepsTree == Amiss({"ancestors"}) = {}

\* "there is no intermediate state where a dirent exists pointing to a deleted
\* inode": DeleteOrphan deletes no record that a link has given a name again.
OrphanStaysNameless == Amiss({"orphan"}) = {}

\* "nothing the snapshot describes can have changed underneath" a write.
WriteKeepsLinks == Amiss({"write"}) = {}

\* "a close racing the unlink cannot leave the record with nobody to remove it".
OrphansHaveKeeper ==
  ~load.errors => \A i \in Inos : IsFile(i) /\ inode[i].nlink = 0 =>
    \E n \in Nodes : WillDelete(n, i)

\* "does not delete it out from under the descriptor", on the mount's own node.
DescriptorsHaveFiles ==
  Cardinality(load.nodes) = 1 =>
    \A n \in Nodes, i \in Inos : open[n][i] > 0 => Exists(i)
=============================================================================
