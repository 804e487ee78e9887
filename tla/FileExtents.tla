---------------------------- MODULE FileExtents ----------------------------
(***************************************************************************)
(* One file of EtcFS over the shared device: its extent records and size   *)
(* in etcd, the bitmaps of the nodes whose arenas hold its blocks, and the *)
(* operations that rewrite them: a committing write, a truncate, a punched *)
(* hole, the growth of the file, each node's scrubber, and a crash and     *)
(* restart of a node.  Next to them stands `file`, what the caller of      *)
(* those operations is owed at every byte.                                 *)
(*                                                                         *)
(* A write, a truncate, a punch and a growth each hold the inode's         *)
(* exclusive lock from start to end, so at most one of them is under way   *)
(* (`op`); the scrubbers and crashes take no lock and interleave with its  *)
(* steps.  Each node has one arena and Owner says whose a block is.        *)
(***************************************************************************)
EXTENDS Extents, FiniteSets, Sequences

CONSTANTS Nodes,
          None,
          Blocks,        \* device blocks, a range of numbers
          MaxSize,       \* the bytes of the file that are looked at
          Workloads      \* the nodes, what they are asked for, what may fail

\* owner: the blocks in use and the node whose arena holds each; hints: where an
\* allocator's search may resume; starts, lens: offsets and lengths of writes;
\* holes: where a punched range may start and end; sizes: given to truncate and
\* to setattr or fallocate; outcomes: what a commit's caller may learn (Commit);
\* ops, crashes, errors: bounds on operations of callers, on crashes and on the
\* transactions of reclaims, truncates and scrubbers that end in an error; passes:
\* of a truncate or punch after its first; folded: the buried extents one write's
\* transaction has room to rewrite.
Workload ==
    [nodes : SUBSET Nodes, owner : UNION {[S -> Nodes] : S \in SUBSET Blocks},
     hints : SUBSET Blocks, starts : SUBSET Nat, lens : SUBSET (Nat \ {0}),
     holes : SUBSET (0 .. MaxSize), sizes : SUBSET (0 .. MaxSize),
     outcomes : SUBSET {"acked", "retried", "failed", "refused"},
     ops : Nat, crashes : Nat, errors : Nat, passes : Nat, folded : Nat]

ASSUME FileExtentsAssumption ==
    /\ Blocks \subseteq Nat /\ IsFiniteSet(Blocks)
    /\ MaxSize \in Nat
    /\ Workloads \subseteq Workload
    /\ None \notin Nodes

VARIABLES extents,   \* the extent:<ino>/ records
          size,      \* the size in the inode record
          rev,       \* etcd's revision, which stamps every record it writes
          used,      \* the blocks their owner's bitmap has marked allocated
          disk,      \* per block: the write it was filled by, and the logical
                     \* offset of its first byte
          op,        \* the operation that holds the exclusive lock, or idle
          cached,    \* the nodes whose lock cache has an entry for the inode
          scrub,     \* per node: the scrub pass
          held,      \* per node: blocks freeOrHold keeps back
          double,    \* some block was freed that was already free
          stray,     \* ghost: blocks that went unnamed by a transaction whose
                     \* caller was told it had failed
          ops,       \* counters: operations begun (a write's number is what
          crashes,   \* the bytes it writes are known by), crashes, and
          errors,    \* transactions that ended in an error
          file,      \* what every byte of the file should read as
          load       \* the workload

vars == <<extents, size, rev, used, disk, op, cached, scrub, held, double, stray,
          ops, crashes, errors, file, load>>

etcd == <<extents, size, rev>>
mishaps == <<stray, errors>>

Offsets == 0 .. MaxSize - 1

Hole == 0     \* a byte no write has reached
Unsure  == -1    \* a byte an unfinished operation may or may not have changed

Values == {Unsure} \cup Nat

\* A write of a buffered or committed proposal keeps its blocks, in allocation
\* order, in runs; a reclaim keeps what it still has to rewrite in todo.
Idle == [kind |-> "idle", step |-> "idle", node |-> None, start |-> 0, end |-> 0,
         runs |-> <<>>, todo |-> {}, chunk |-> 0, free |-> {}, tries |-> 0]

NoScrub == [step |-> "idle", todo |-> {}, cur |-> None]

\* Holds: an entry outlives the etcd key that it was made for.
Locked(n) == n \in cached

-----------------------------------------------------------------------------
(* Allocation. *)

Owner == load.owner

OwnBlocks(n) == {b \in DOMAIN Owner : Owner[b] = n}

FreeBlocks(n) == OwnBlocks(n) \ used

\* The order in which a search that resumes at h meets the free blocks of n.
Met(h, b, c) == (b >= h /\ c < h) \/ ((b >= h <=> c >= h) /\ b < c)

\* Allocate takes the first `want` of them, in that order.
Allocations(n, want, h) ==
    {s \in [1 .. want -> FreeBlocks(n)] :
        /\ \A i, j \in 1 .. want : i < j => Met(h, s[i], s[j])
        /\ \A c \in FreeBlocks(n) :
               \/ \E i \in 1 .. want : s[i] = c
               \/ \A i \in 1 .. want : Met(h, s[i], c)}

\* The runs of an allocation, as pairs of its first and last index: a run ends
\* where the next block taken is not the next one on the device.
Runs(r) ==
    {p \in (DOMAIN r) \X (DOMAIN r) :
        /\ \A k \in p[1] .. p[2] : r[k] = r[p[1]] + (k - p[1])
        /\ p[1] <= p[2]
        /\ p[1] = 1 \/ r[p[1]] # r[p[1] - 1] + 1
        /\ p[2] + 1 \notin DOMAIN r \/ r[p[2] + 1] # r[p[2]] + 1}

BlocksIn(r) == {r[i] : i \in DOMAIN r}

-----------------------------------------------------------------------------
(* The proposal of a write, and the reclaim of what it buries. *)

NextAfter(S) == IF S = {} THEN 0 ELSE (CHOOSE m \in S : \A k \in S : k <= m) + 1

ChunkAfter(S) == NextAfter({e.chunk : e \in S})

NextChunk == ChunkAfter(extents)

NextSeq == NextAfter({e.seq : e \in extents})

\* The extent of the run p: the last one is trimmed to the payload.
ExtentOf(o, p) ==
    LET whole == (p[2] - p[1] + 1) * BlockSize
        rest  == o.end - o.start - (p[1] - 1) * BlockSize
    IN  [chunk |-> NextChunk + Cardinality({q \in Runs(o.runs) : q[1] < p[1]}),
         seq   |-> NextSeq,
         log   |-> o.start + (p[1] - 1) * BlockSize,
         blk   |-> o.runs[p[1]],
         len   |-> IF whole < rest THEN whole ELSE rest,
         rev   |-> rev + 1]

\* One extent per run; all of them share the write's sequence number.
NewExtents(o) == {ExtentOf(o, p) : p \in Runs(o.runs)}

SubBlockFront(old, start, end) ==
    ~HasHead(old, start) /\ HasTail(old, end) /\ Skipped(old, end) = 0

\* planReclaim has nothing to do: the range is another node's, or less than a
\* block is covered at the front.
NoPlan(n, old, start, end) == Owner[old.blk] # n \/ SubBlockFront(old, start, end)

SplitsInTwo(old, start, end) == HasHead(old, start) /\ HasTail(old, end)

\* What a plan puts in the place of old; the second piece of two gets a key of
\* its own, and both keep old's sequence number.
Survivors(old, start, end, chunk) ==
    (IF HasHead(old, start)
     THEN {[HeadOf(old, start) EXCEPT !.rev = rev + 1]} ELSE {})
    \cup
    (IF HasTail(old, end)
     THEN {[TailOf(old, end) EXCEPT !.rev = rev + 1,
                !.chunk = IF HasHead(old, start) THEN chunk ELSE @]} ELSE {})

\* The extents a write over [start, end) rewrites, in list order: the ones its
\* transaction has room for, and the ones left for afterwards.
Buried(n, start, end) ==
    {e \in extents : Intersects(e, start, end) /\ ~NoPlan(n, e, start, end)}

Rank(e, S) == Cardinality({f \in S : Before(f, e)})

Folded(n, start, end) ==
    {e \in Buried(n, start, end) : Rank(e, Buried(n, start, end)) < load.folded}

\* The chunk number planReclaim reaches by the time it comes to old.
ChunkFor(old, S, start, end, first) ==
    first + Cardinality({f \in S : Before(f, old) /\ SplitsInTwo(f, start, end)})

Published(o) ==
    LET new    == NewExtents(o)
        buried == Folded(o.node, o.start, o.end)
        first  == NextChunk + Cardinality(new)
    IN  (extents \ buried) \cup new
        \cup UNION {Survivors(e, o.start, o.end, ChunkFor(e, buried, o.start, o.end, first))
                        : e \in buried}

GivenUp(S, start, end) == UNION {CoveredBlocks(e, start, end) : e \in S}

-----------------------------------------------------------------------------
(* Freeing: freeLocked notes a block that is already free and goes on. *)

Free(S) ==
    /\ used' = used \ S
    /\ double' = (double \/ ~(S \subseteq used))

Bytes(start, end) == {x \in Offsets : start <= x /\ x < end}

Now(S, v) == [x \in Offsets |-> IF x \in S THEN v ELSE file[x]]

\* The transaction of a reclaim, a truncate or a scrubber, as its caller sees it.
\* "lost" was applied and "refused" was not, and both are reported as an error.
Replies == {"acked", "lost", "refused"}

Answered(reply) ==
    /\ reply # "acked" => errors < load.errors
    /\ errors' = IF reply = "acked" THEN errors ELSE errors + 1

-----------------------------------------------------------------------------
(* A write that commits: handleWriteBlock, commitWriteOp. *)

\* The lock is taken, the blocks reserved and the payload put on the device.
WriteBegin(n, start, len, h) ==
    /\ op = Idle
    /\ ops < load.ops
    /\ start + len <= MaxSize
    /\ ops' = ops + 1
    /\ \E runs \in Allocations(n, BlocksFor(len), h) :
           /\ used' = used \cup BlocksIn(runs)
           /\ disk' = [b \in Blocks |->
                          IF b \in BlocksIn(runs)
                          THEN [write |-> ops + 1,
                                log |-> start + BlockSize
                                          * ((CHOOSE i \in DOMAIN runs : runs[i] = b) - 1)]
                          ELSE disk[b]]
           /\ op' = [Idle EXCEPT !.kind = "write", !.step = "commit", !.node = n,
                                 !.start = start, !.end = start + len, !.runs = runs]
    /\ cached' = cached \cup {n}
    /\ UNCHANGED <<extents, size, rev, scrub, held, double, crashes, file, mishaps>>

\* commitGuarded, as its caller sees it.  "acked": the transaction applied and
\* the reply came.  "retried": it applied, the reply was lost, and the retry's
\* own comparison fails, so the proposal is built again over the same blocks.
\* "failed": it applied, no reply came before the attempts ran out, and the
\* caller gives the blocks back.  "refused": it did not apply and the caller
\* gives the blocks back.
Commit(outcome) ==
    /\ op.step = "commit"
    /\ outcome = "retried" => op.tries = 0
    /\ IF outcome = "refused"
       THEN UNCHANGED <<etcd, file>>
       ELSE /\ extents' = Published(op)
            /\ size' = IF op.end > size THEN op.end ELSE size
            /\ rev' = rev + 1
            /\ file' = Now(Bytes(op.start, op.end), IF outcome = "failed" THEN Unsure ELSE ops)
    /\ CASE outcome = "acked" ->
              /\ op' = [op EXCEPT !.step = "free",
                          !.free = GivenUp(Folded(op.node, op.start, op.end), op.start, op.end),
                          !.todo = Buried(op.node, op.start, op.end)
                                       \ Folded(op.node, op.start, op.end),
                          !.chunk = NextChunk + Cardinality(NewExtents(op))
                                    + Cardinality({e \in Folded(op.node, op.start, op.end) :
                                                       SplitsInTwo(e, op.start, op.end)})]
              /\ UNCHANGED <<used, double>>
         [] outcome = "retried" ->
              op' = [op EXCEPT !.tries = 1] /\ UNCHANGED <<used, double>>
         [] OTHER ->
              op' = Idle /\ Free(BlocksIn(op.runs))
    /\ UNCHANGED <<disk, cached, scrub, held, ops, crashes, mishaps>>

\* Only after the commit are the buried blocks returned.
FreeReclaimed ==
    /\ op.step = "free"
    /\ Free(op.free)
    /\ op' = IF op.todo = {} THEN Idle ELSE [op EXCEPT !.step = "reclaim", !.free = {}]
    /\ UNCHANGED <<etcd, disk, cached, scrub, held, ops, crashes, file, mishaps>>

-----------------------------------------------------------------------------
(* Truncate, punched holes, and the reclaims a write had no room for. *)

ToReclaim(S, start, end) == {e \in S : Intersects(e, start, end)}

\* commitSetattr or truncateToZero of a smaller size: truncateOnce reclaims
\* everything past it, in list order, before the size is published.
Begin(kind, n, start, end) ==
    /\ op = Idle
    /\ ops < load.ops
    /\ ops' = ops + 1
    /\ op' = [Idle EXCEPT !.kind = kind, !.step = "reclaim", !.node = n, !.start = start,
                          !.end = end, !.todo = ToReclaim(extents, start, end),
                          !.chunk = NextChunk]
    /\ cached' = cached \cup {n}
    /\ UNCHANGED <<etcd, used, disk, scrub, held, double, crashes, file, mishaps>>

Truncate(n, s) == s < size /\ Begin("truncate", n, s, MaxSize)

PunchHole(n, start, end) == start < end /\ Begin("punch", n, start, end)

\* The size is taken for the distance to grow by.
GrowBy(n, s) ==
    /\ op = Idle
    /\ ops < load.ops
    /\ ops' = ops + 1
    /\ size' = size + s
    /\ rev' = rev + 1
    /\ cached' = cached \cup {n}
    /\ UNCHANGED <<extents, used, disk, op, scrub, held, double, crashes, file, mishaps>>

\* setattr of a larger size, or growTo.
Grow(n, s) ==
    /\ op = Idle
    /\ ops < load.ops
    /\ s > size
    /\ ops' = ops + 1
    /\ size' = s
    /\ rev' = rev + 1
    /\ cached' = cached \cup {n}
    /\ UNCHANGED <<extents, used, disk, op, scrub, held, double, crashes, file, mishaps>>

FirstOf(S) == CHOOSE e \in S : \A f \in S \ {e} : Before(e, f)

\* The bytes of [start, end) that extents of S reach.
Reached(S, start, end) == {x \in Bytes(start, end) : \E e \in S : Covers(e, x)}

\* reclaimCovered has failed for e: a write leaves e as it is (reclaimDeferred),
\* over its own bytes where e sorts first, and a truncate or a punch starts again
\* from a fresh read, until its passes are spent.
ReclaimFailed(e) ==
    \/ /\ op.kind = "write"
       /\ op' = [op EXCEPT !.todo = @ \ {e},
                     !.chunk = IF SplitsInTwo(e, op.start, op.end) THEN @ + 1 ELSE @]
       /\ file' = Now(Reached({e} \cap extents', op.start, op.end), Unsure)
    \/ /\ op.kind # "write" /\ op.tries < load.passes
       /\ op' = [op EXCEPT !.todo = ToReclaim(extents', op.start, op.end),
                           !.chunk = ChunkAfter(extents'), !.tries = @ + 1]
       /\ UNCHANGED file
    \/ /\ op.kind # "write" /\ op.tries = load.passes
       /\ op' = Idle
       /\ file' = Now(Bytes(op.start, op.end), Unsure)

\* reclaimCovered of the next extent: the rewrite is conditional on the record
\* being as it was read, and its blocks go back after it and only when it is
\* known to have been applied.
ReclaimNext(reply) ==
    LET e == FirstOf(op.todo)
        rewritten == (extents \ {e}) \cup Survivors(e, op.start, op.end, op.chunk)
    IN  /\ op.step = "reclaim"
        /\ op.todo # {}
        /\ Answered(reply)
        /\ \/ /\ NoPlan(op.node, e, op.start, op.end) /\ reply = "acked"
              /\ op' = [op EXCEPT !.todo = @ \ {e}]
              /\ UNCHANGED <<extents, rev, used, double, stray, file>>
           \/ /\ ~NoPlan(op.node, e, op.start, op.end) /\ reply = "acked"
              /\ e \in extents
              /\ extents' = rewritten /\ rev' = rev + 1
              /\ op' = [op EXCEPT !.todo = @ \ {e},
                            !.chunk = IF SplitsInTwo(e, op.start, op.end) THEN @ + 1 ELSE @]
              /\ Free(CoveredBlocks(e, op.start, op.end))
              /\ UNCHANGED <<stray, file>>
           \/ /\ ~NoPlan(op.node, e, op.start, op.end) /\ reply = "lost"
              /\ e \in extents
              /\ extents' = rewritten /\ rev' = rev + 1
              /\ stray' = stray \cup CoveredBlocks(e, op.start, op.end)
              /\ ReclaimFailed(e)
              /\ UNCHANGED <<used, double>>
           \/ /\ ~NoPlan(op.node, e, op.start, op.end)
              /\ reply = "refused" \/ (reply = "acked" /\ e \notin extents)
              /\ UNCHANGED <<extents, rev, used, double, stray>>
              /\ ReclaimFailed(e)
        /\ UNCHANGED <<disk, cached, scrub, held, ops, crashes, size>>

\* The truncate publishes its size, or is told that it could not; a punch leaves
\* the size alone, and a write has published its own.
Finish(reply) ==
    /\ op.step = "reclaim"
    /\ op.todo = {}
    /\ Answered(reply)
    /\ op' = Idle
    /\ \/ /\ op.kind = "truncate"
          /\ size' = IF reply = "refused" THEN size ELSE op.start
          /\ rev' = IF reply = "refused" THEN rev ELSE rev + 1
          /\ file' = Now(Bytes(op.start, op.end), IF reply = "acked" THEN Hole ELSE Unsure)
       \/ /\ op.kind # "truncate" /\ reply = "acked"
          /\ file' = IF op.kind = "write" THEN file ELSE Now(Bytes(op.start, op.end), Hole)
          /\ UNCHANGED <<size, rev>>
    /\ UNCHANGED <<extents, used, disk, cached, scrub, held, double, stray, ops, crashes>>

\* A read, or an operation on the inode that changes none of this, leaves an
\* entry in the lock cache of n.
Read(n) ==
    /\ op = Idle
    /\ cached' = cached \cup {n}
    /\ UNCHANGED <<etcd, used, disk, op, scrub, held, double, ops, crashes, file, mishaps>>

\* The cache is full and drops the entry, which no operation is using.
Evict(n) ==
    /\ op.node # n
    /\ cached' = cached \ {n}
    /\ UNCHANGED <<etcd, used, disk, op, scrub, held, double, ops, crashes, file, mishaps>>

-----------------------------------------------------------------------------
(* The scrubber of node n: RunScrubPass, restricted to dead extents. *)

\* deadReason: past the end of the file, or covered whole by a later write.
Dead(e, S) == e.log >= size \/ \E f \in S : Supersedes(f, e)

\* Ranges held back by an earlier pass are given another chance, and the extents
\* are read,
ScrubScan(n) ==
    /\ scrub[n].step = "idle"
    /\ scrub[n].todo = {}
    /\ scrub' = [scrub EXCEPT ![n].step = "scan", ![n].todo = extents]
    /\ IF Locked(n)
       THEN UNCHANGED <<used, double, held>>
       ELSE Free(held[n]) /\ held' = [held EXCEPT ![n] = {}]
    /\ UNCHANGED <<etcd, disk, op, cached, ops, crashes, file, mishaps>>

\* then the inodes: what is dead in this snapshot and this node's to reclaim.
ScrubInodes(n) ==
    /\ scrub[n].step = "scan"
    /\ scrub' = [scrub EXCEPT ![n].step = "idle", ![n].todo =
                    {e \in @ : Dead(e, scrub[n].todo) /\ Owner[e.blk] = n}]
    /\ UNCHANGED <<etcd, used, disk, op, cached, held, double, ops, crashes, file, mishaps>>

\* An inode that any node has locked is left for a later pass.
SkipIfLockedAnywhere(n) ==
    /\ scrub[n].step = "idle"
    /\ \E e \in scrub[n].todo :
           scrub' = [scrub EXCEPT ![n] = [step |-> IF cached # {} THEN "idle" ELSE "delete",
                                          todo |-> scrub[n].todo \ {e},
                                          cur  |-> IF cached # {} THEN None ELSE e]]
    /\ UNCHANGED <<etcd, used, disk, op, cached, held, double, ops, crashes, file, mishaps>>

\* An inode locked here is left for a later pass.
ScrubCheck(n) ==
    /\ scrub[n].step = "idle"
    /\ \E e \in scrub[n].todo :
           scrub' = [scrub EXCEPT ![n] = [step |-> IF Locked(n) THEN "idle" ELSE "delete",
                                          todo |-> scrub[n].todo \ {e},
                                          cur  |-> IF Locked(n) THEN None ELSE e]]
    /\ UNCHANGED <<etcd, used, disk, op, cached, held, double, ops, crashes, file, mishaps>>

\* The delete is conditional on the revision the scan read.  Unless it is known to
\* have been applied, the blocks are left as they are.
ScrubDelete(n, reply) ==
    LET cur == scrub[n].cur IN
    /\ scrub[n].step = "delete"
    /\ Answered(reply)
    /\ IF cur \in extents /\ reply # "refused"
       THEN extents' = extents \ {cur} /\ rev' = rev + 1
       ELSE UNCHANGED <<extents, rev>>
    /\ stray' = IF cur \in extents /\ reply = "lost" THEN stray \cup BlocksOf(cur) ELSE stray
    /\ scrub' = IF cur \in extents /\ reply = "acked"
                THEN [scrub EXCEPT ![n].step = "free"]
                ELSE [scrub EXCEPT ![n].step = "idle", ![n].cur = None]
    /\ UNCHANGED <<size, used, disk, op, cached, held, double, ops, crashes, file>>

\* A range that cannot be freed now is simply dropped.
FreeOrForget(n) ==
    /\ scrub[n].step = "free"
    /\ scrub' = [scrub EXCEPT ![n].step = "idle", ![n].cur = None]
    /\ IF Locked(n) THEN UNCHANGED <<used, double>> ELSE Free(BlocksOf(scrub[n].cur))
    /\ UNCHANGED <<etcd, disk, op, cached, held, ops, crashes, file, mishaps>>

\* freeOrHold: the lock is looked at again on the far side of the delete.
ScrubFree(n) ==
    /\ scrub[n].step = "free"
    /\ scrub' = [scrub EXCEPT ![n].step = "idle", ![n].cur = None]
    /\ IF Locked(n)
       THEN /\ held' = [held EXCEPT ![n] = @ \cup BlocksOf(scrub[n].cur)]
            /\ UNCHANGED <<used, double>>
       ELSE Free(BlocksOf(scrub[n].cur)) /\ UNCHANGED held
    /\ UNCHANGED <<etcd, disk, op, cached, ops, crashes, file, mishaps>>

-----------------------------------------------------------------------------
\* markLiveExtents, over the arenas of n.
Reconstructed(n) ==
    (used \ OwnBlocks(n))
    \cup (OwnBlocks(n) \cap UNION {BlocksOf(e) : e \in extents})

\* Node n dies and starts again; what it had under way stops where it was.  A
\* write leaves the extents it has not yet reclaimed, as after a failed reclaim.
Crash(n) ==
    /\ crashes < load.crashes
    /\ crashes' = crashes + 1
    /\ used' = Reconstructed(n)
    /\ stray' = stray \ OwnBlocks(n)
    /\ scrub' = [scrub EXCEPT ![n] = NoScrub]
    /\ held' = [held EXCEPT ![n] = {}]
    /\ cached' = cached \ {n}
    /\ IF op.node = n
       THEN /\ op' = Idle
            /\ file' = Now(IF op.kind = "write"
                           THEN Reached(op.todo \cap extents, op.start, op.end)
                           ELSE Bytes(op.start, op.end), Unsure)
       ELSE UNCHANGED <<op, file>>
    /\ UNCHANGED <<etcd, disk, double, ops, errors>>

-----------------------------------------------------------------------------
Init ==
    /\ extents = {} /\ size = 0 /\ rev = 0
    /\ used = {}
    /\ disk = [b \in Blocks |-> [write |-> Hole, log |-> 0]]
    /\ op = Idle
    /\ cached = {}
    /\ scrub = [n \in Nodes |-> NoScrub]
    /\ held = [n \in Nodes |-> {}]
    /\ double = FALSE /\ stray = {}
    /\ ops = 0 /\ crashes = 0 /\ errors = 0
    /\ load \in Workloads
    /\ file = [x \in Offsets |-> Hole]

ScrubStep(n) ==
    \/ ScrubInodes(n) \/ ScrubCheck(n) \/ ScrubFree(n)
    \/ \E reply \in Replies : ScrubDelete(n, reply)

Progress ==
    \/ \E outcome \in load.outcomes : Commit(outcome)
    \/ \E reply \in Replies : ReclaimNext(reply) \/ Finish(reply)
    \/ FreeReclaimed

Step ==
    \/ \E n \in load.nodes :
           \/ \E start \in load.starts, len \in load.lens, h \in load.hints :
                  WriteBegin(n, start, len, h)
           \/ \E s \in load.sizes : Truncate(n, s) \/ Grow(n, s)
           \/ \E start, end \in load.holes : PunchHole(n, start, end)
           \/ ScrubScan(n) \/ ScrubStep(n)
           \/ Read(n) \/ Evict(n)
           \/ Crash(n)
    \/ Progress

Next == Step /\ UNCHANGED load

Spec == Init /\ [][Next]_vars

\* An operation that has begun goes on, and so does each scrubber.
Fairness ==
    /\ WF_vars(Progress /\ UNCHANGED load)
    /\ \A n \in Nodes :
           /\ WF_vars(ScrubScan(n) /\ UNCHANGED load)
           /\ WF_vars(ScrubStep(n) /\ UNCHANGED load)

FairSpec == Spec /\ Fairness

-----------------------------------------------------------------------------
(* Properties. *)

\* Every variable holds the values the code's types allow; in particular no
\* split leaves an extent of no bytes or one that reaches past the device.
TypeOK ==
    /\ extents \subseteq Extent /\ IsFiniteSet(extents)
    /\ \A e \in extents : BlocksOf(e) \subseteq Blocks /\ EndOf(e) <= MaxSize
    /\ size \in 0 .. MaxSize
    /\ rev \in Nat
    /\ used \subseteq Blocks
    /\ disk \in [Blocks -> [write : Values, log : Nat]]
    /\ op.kind \in {"idle", "write", "truncate", "punch"}
    /\ op.step \in {"idle", "commit", "free", "reclaim"}
    /\ op.node \in Nodes \cup {None}
    /\ cached \subseteq Nodes
    /\ \A n \in Nodes : /\ scrub[n].step \in {"idle", "scan", "delete", "free"}
                        /\ held[n] \subseteq OwnBlocks(n)
    /\ double \in BOOLEAN /\ stray \subseteq Blocks
    /\ ops \in 0 .. load.ops /\ crashes \in 0 .. load.crashes /\ errors \in 0 .. load.errors
    /\ file \in [Offsets -> Values]

\* What handleRead returns for byte x: the first extent in list order that
\* reaches it, the device block behind it, zeroes where there is none.
ReadAt(x) ==
    IF ~\E e \in extents : Covers(e, x) THEN Hole
    ELSE LET e == FirstCovering(extents, x)
             d == disk[e.blk + (x - e.log) \div BlockSize]
         IN  IF d.log + ((x - e.log) % BlockSize) = x THEN d.write ELSE Unsure

\* A read returns at every byte the latest write that reached it, and zeroes
\* where none did or where the file was cut or punched since.  Reads hold the
\* shared lock, so they run between operations.
LatestEverywhere ==
    op = Idle => \A x \in Offsets : x < size /\ file[x] # Unsure => ReadAt(x) = file[x]

\* The same for a file that one node writes, through failed reclaims and crashes:
\* an overwrite of the middle or the back of an extent in a peer's arena is one
\* exception (planReclaim), what a write could not reclaim the other.
ReadsLatest == Cardinality(load.nodes) = 1 => LatestEverywhere

Named == UNION {BlocksOf(e) : e \in extents}

\* No block that an extent record names is free in its owner's bitmap, so no
\* allocation can hand it to another file.
NamedBlocksAllocated == Named \subseteq used

SpaceKept(S) ==
    op = Idle /\ (\A n \in Nodes : scrub[n].step # "free")
      => used \subseteq Named \cup S \cup UNION {held[n] : n \in Nodes}

\* A block is given back once.  None is freed twice (freeLocked's DoubleFrees stays
\* at zero), and between operations and scrub steps every allocated block is one
\* that an extent names, that freeOrHold is keeping back, or that a reclaim or
\* scrub whose reply was lost has left behind until its node restarts
\* (reclaimCovered, RunScrubPass, Reconstruct).
FreedOnce == ~double /\ SpaceKept(stray)

\* An extent that can no longer be read is reclaimed by its owner's scrubber,
\* unless an entry for the inode keeps coming back to the owner's lock cache.
DeadReclaimed ==
    \A b \in Blocks :
        (\E e \in extents : e.blk = b /\ Dead(e, extents))
            ~> (\/ ~\E e \in extents : e.blk = b /\ Dead(e, extents)
                \/ []<>(b \in DOMAIN Owner /\ Locked(Owner[b])))

-----------------------------------------------------------------------------
(* Claims of the source that the code does not keep. *)

\* "The write itself is published and correct by this point", when the extents its
\* transaction had no room for are still to be reclaimed (reclaimDeferred),
PublishedCorrect ==
    op.kind = "write" /\ op.step = "reclaim"
      => \A x \in Bytes(op.start, op.end) : ReadAt(x) = file[x]

\* and "failing here only leaks blocks the scrubber will find": an allocated block is
\* always one that an extent names or that is kept back.
LeaksAreNamed == SpaceKept({})
=============================================================================
