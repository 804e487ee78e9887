--------------------------- MODULE ArenaAllocator ---------------------------
(* Who may write where on the shared device: the block allocator of every node
   (pkg/arena/allocator.go), the ownership records, the free pool and the arena
   counter it keeps in etcd (pkg/metadata/arena.go, alloc.go), the write path that
   calls it (datapath.go) and fsck's check of the arenas (pkg/fsck/checker.go).

   A write of a node runs on its own connection, so several of them acquire arenas
   side by side, next to the reaper that hands emptied arenas back.  Every call to
   etcd is a step of its own and may fail, with or without having been applied; a
   node may stop between any two steps, and either starts again or is fenced and
   its arenas given to the pool by a peer.

   Left out: which free block of its arenas a node picks (the search hint), the
   contents of a write, and the extents of a file, of which only the blocks they
   name remain (Extents and FileExtents model them).  A fenced node starts again
   only when its arenas have been returned (NodeFencing shows what else can
   happen). *)
EXTENDS Naturals, FiniteSets

CONSTANTS
  Nodes,
  Writes,        \* concurrent writes
  Home,          \* the node each of them runs on
  Slots,         \* the blocks of an arena
  None,
  Loads          \* the workloads to try, each with its bounds

ASSUME ArenaAssumption ==
  /\ Home \in [Writes -> Nodes]
  /\ Loads \subseteq
       [writes : SUBSET Writes,      \* the writes that run, and what they ask for
        sizes : SUBSET (Nat \ {0}),
        device : Nat,                \* size of the device, in arenas, at the start
        grow : Nat,                  \* bound: how often it grows by one
        issued : Nat,                \* bound: arenas issued by the counter
        errors : Nat,                \* bound: failed calls to etcd
        crashes : Nat,               \* bound: crashes
        fsck : BOOLEAN]

ASSUME WritesFinite == IsFiniteSet(Writes)

VARIABLES
  load,      \* the workload of this run
  counter,   \* arena_alloc_log: the next arena to issue
  pool,      \* free_arena:<id>
  owner,     \* arena:<node>/<id>, as the arenas recorded for a node
  extents,   \* the blocks extent records name
  size,      \* the size of the device
  state,     \* of each node's process
  arenas,    \* Allocator.arenas
  marked,    \* the blocks set in their bitmaps
  known,     \* Allocator.deviceSize
  w,         \* the running writes
  reap,      \* ReleaseEmptyArenas: detached and not yet released
  freeing,   \* blocks whose record is deleted and which are to be freed
  fsck,      \* the running check of the arenas
  errors, crashes, refusals,  \* ghost: what went wrong so far
  doubtful,  \* ghost: blocks a node took for free although a record named them
  strayed    \* ghost: arenas a node listed again although it had released them

etcd == <<counter, pool, owner, extents>>
local == <<state, arenas, marked, known, reap, freeing>>
ghosts == <<load, errors, crashes, refusals>>
suspects == <<doubtful, strayed>>
vars == <<load, counter, pool, owner, extents, size, state, arenas, marked, known, w,
          reap, freeing, fsck, errors, crashes, refusals, doubtful, strayed>>

Block == Nat \X Slots
BlocksOf(as) == as \X Slots

Idle == [pc |-> "idle", want |-> 0, list |-> {}, arena |-> None, reused |-> FALSE,
         again |-> FALSE, blocks |-> {}]
NoCheck == [pc |-> "idle", blind |-> FALSE, high |-> 0, owned |-> {}, lost |-> {},
            free |-> {}]

WriteState ==
  [pc : {"idle", "list", "claim", "count", "drawn", "scan", "attach", "allocate", "reserved"},
   want : Nat, list : SUBSET Nat, arena : Nat \union {None}, reused : BOOLEAN,
   again : BOOLEAN, blocks : SUBSET Block]

ArenaTypes ==
  /\ load \in Loads
  /\ counter \in Nat /\ pool \subseteq Nat /\ owner \in [Nodes -> SUBSET Nat]
  /\ extents \subseteq Block
  /\ state \in [Nodes -> {"up", "down", "starting", "fenced"}]
  /\ arenas \in [Nodes -> SUBSET Nat] /\ marked \in [Nodes -> SUBSET Block]
  /\ w \in [Writes -> WriteState]
  /\ reap \in [Nodes -> SUBSET Nat] /\ freeing \in [Nodes -> SUBSET Block]

TypeOK ==
  /\ ArenaTypes
  /\ size \in Nat /\ known \in [Nodes -> Nat]
  /\ fsck \in [pc : {"idle", "counted", "listed", "done"}, blind : BOOLEAN, high : Nat,
               owned : SUBSET Nat, lost : SUBSET Nat, free : SUBSET Nat]
  /\ errors \in Nat /\ crashes \in Nat /\ refusals \in Nat
  /\ doubtful \subseteq Block /\ strayed \subseteq Nat

Init ==
  /\ load \in Loads
  /\ counter = 0 /\ pool = {} /\ extents = {} /\ size = load.device
  /\ owner = [n \in Nodes |-> {}]
  /\ state = [n \in Nodes |-> "up"]
  /\ arenas = [n \in Nodes |-> {}] /\ marked = [n \in Nodes |-> {}]
  /\ known = [n \in Nodes |-> load.device]
  /\ w = [p \in Writes |-> Idle]
  /\ reap = [n \in Nodes |-> {}] /\ freeing = [n \in Nodes |-> {}]
  /\ fsck = NoCheck
  /\ errors = 0 /\ crashes = 0 /\ refusals = 0
  /\ doubtful = {} /\ strayed = {}

-----------------------------------------------------------------------------
(* Allocate and Free. *)

FreeBlocks(n) == BlocksOf(arenas[n]) \ marked[n]

\* Runs are taken from one arena after the other until the request is covered.
Runs(n, k) == {bs \in SUBSET FreeBlocks(n) : Cardinality(bs) = k}

\* Allocate: all the blocks asked for, or none.
Allocate(p) ==
  LET n == Home[p] IN
  \E bs \in Runs(n, w[p].want) :
     /\ marked' = [marked EXCEPT ![n] = @ \union bs]
     /\ w' = [w EXCEPT ![p].pc = "reserved", ![p].blocks = bs]

\* freeLocked: only blocks of an arena this node has, and that are not yet free.
Freed(n, bs) == [marked EXCEPT ![n] = @ \ (bs \intersect BlocksOf(arenas[n]))]

Running(p) == state[Home[p]] = "up"

-----------------------------------------------------------------------------
(* The write path: allocateBlocks, and AcquireArena step by step. *)

\* A write fails: nothing it did is undone.
Abandon(p) == w' = [w EXCEPT ![p] = Idle]

\* One more call to etcd has failed.
Fails == errors < load.errors /\ errors' = errors + 1 /\ UNCHANGED <<load, crashes, refusals>>

\* allocateBlocks: from the arenas at hand, or else with one more.
Begin(p, k) ==
  /\ Running(p) /\ w[p] = Idle
  /\ IF Runs(Home[p], k) # {}
     THEN \E bs \in Runs(Home[p], k) :
            /\ marked' = [marked EXCEPT ![Home[p]] = @ \union bs]
            /\ w' = [w EXCEPT ![p] = [Idle EXCEPT !.pc = "reserved", !.want = k, !.blocks = bs]]
     ELSE /\ w' = [w EXCEPT ![p] = [Idle EXCEPT !.pc = "list", !.want = k]]
          /\ UNCHANGED marked
  /\ UNCHANGED <<etcd, size, state, arenas, known, reap, freeing, fsck, suspects, ghosts>>

\* ErrNoSpace: a write that finds the device grown asks once more, for another
\* arena, and any other fails.
NoSpace(p) ==
  LET n == Home[p] IN
  IF ~w[p].again /\ size > known[n]
  THEN /\ known' = [known EXCEPT ![n] = size]
       /\ w' = [w EXCEPT ![p] = [Idle EXCEPT !.pc = "list", !.want = w[p].want, !.again = TRUE]]
  ELSE Abandon(p) /\ UNCHANGED known

\* AcquireArena: a device smaller than one arena costs no number.
DeviceTooSmall(p) ==
  /\ Running(p) /\ w[p].pc = "list" /\ known[Home[p]] < 1
  /\ NoSpace(p)
  /\ UNCHANGED <<etcd, size, state, arenas, marked, reap, freeing, fsck, suspects, ghosts>>

\* ClaimFreeArena: the candidates.  Its failure leads to a new arena.
ListPool(p) ==
  /\ Running(p) /\ w[p].pc = "list" /\ known[Home[p]] >= 1
  /\ \/ w' = [w EXCEPT ![p].pc = "claim", ![p].list = pool] /\ UNCHANGED ghosts
     \/ w' = [w EXCEPT ![p].pc = "count"] /\ Fails
  /\ UNCHANGED <<etcd, size, local, fsck, suspects>>

\* The delete of a free_arena record is the claim, and only one delete wins.
ClaimFreeArena(p) ==
  /\ Running(p) /\ w[p].pc = "claim"
  /\ \E a \in w[p].list :
     /\ \A b \in w[p].list : a <= b
     /\ \/ /\ a \in pool /\ pool' = pool \ {a}
           /\ w' = [w EXCEPT ![p].pc = "drawn", ![p].arena = a, ![p].reused = TRUE, ![p].list = {}]
           /\ UNCHANGED ghosts
        \/ /\ a \notin pool
           /\ w' = [w EXCEPT ![p].list = @ \ {a}]
           /\ UNCHANGED <<pool, ghosts>>
        \/ /\ Fails
           /\ pool' \in {pool, pool \ {a}}
           /\ w' = [w EXCEPT ![p].pc = "count", ![p].list = {}]
  /\ UNCHANGED <<counter, owner, extents, size, local, fsck, suspects>>

\* allocateArenaID: no candidate left.
PoolExhausted(p) ==
  /\ Running(p) /\ w[p].pc = "claim" /\ w[p].list = {}
  /\ w' = [w EXCEPT ![p].pc = "count"]
  /\ UNCHANGED <<etcd, size, local, fsck, suspects, ghosts>>

\* ReserveCounter, whose compare-and-set is retried until it wins.
NextCounter(p) ==
  /\ Running(p) /\ w[p].pc = "count" /\ counter < load.issued
  /\ \/ /\ counter' = counter + 1
        /\ w' = [w EXCEPT ![p].pc = "drawn", ![p].arena = counter, ![p].reused = FALSE]
        /\ UNCHANGED ghosts
     \/ Fails /\ counter' \in {counter, counter + 1} /\ Abandon(p)
  /\ UNCHANGED <<pool, owner, extents, size, local, fsck, suspects>>

\* The arena ends past the device; its number is not handed back.
RefuseArena(p) ==
  /\ Running(p) /\ w[p].pc = "drawn" /\ w[p].arena >= known[Home[p]]
  /\ refusals' = refusals + 1
  /\ NoSpace(p)
  /\ UNCHANGED <<etcd, size, state, arenas, marked, reap, freeing, fsck, suspects, load, errors, crashes>>

RecordOwnershipForgetful(p) ==
  /\ Running(p) /\ w[p].pc = "drawn" /\ w[p].arena < known[Home[p]]
  /\ owner' = [owner EXCEPT ![Home[p]] = @ \union {w[p].arena}]
  /\ w' = [w EXCEPT ![p] = [Idle EXCEPT !.pc = "attach", !.want = w[p].want]]
  /\ UNCHANGED <<counter, pool, extents, size, local, fsck, suspects, ghosts>>
\* recordOwnership: only the node's own record of the arena is compared.
RecordOwnership(p) ==
  LET n == Home[p]
      a == w[p].arena
      recorded == [owner EXCEPT ![n] = @ \union {a}]
  IN
  /\ Running(p) /\ w[p].pc = "drawn" /\ a < known[n]
  /\ \/ /\ a \notin owner[n] /\ owner' = recorded
        /\ w' = [w EXCEPT ![p].pc = IF w[p].reused THEN "scan" ELSE "attach"]
        /\ UNCHANGED ghosts
     \/ a \in owner[n] /\ Abandon(p) /\ UNCHANGED <<owner, ghosts>>
     \/ Fails /\ owner' \in {owner, recorded} /\ Abandon(p)
  /\ UNCHANGED <<counter, pool, extents, size, local, fsck, suspects>>

\* AllExtents, for an arena somebody had before.
LiveIn(as) == extents \intersect BlocksOf(as)
ScanExtentsNever(p) ==
  /\ Running(p) /\ w[p].pc = "scan"
  /\ w' = [w EXCEPT ![p].pc = "attach"]
  /\ UNCHANGED <<etcd, size, local, fsck, suspects, ghosts>>
ScanExtents(p) ==
  /\ Running(p) /\ w[p].pc = "scan"
  /\ \/ w' = [w EXCEPT ![p].pc = "attach", ![p].blocks = LiveIn({w[p].arena})] /\ UNCHANGED ghosts
     \/ Abandon(p) /\ Fails
  /\ UNCHANGED <<etcd, size, local, fsck, suspects>>

\* The arena joins the list, with the blocks of the scan marked.
Attach(p) ==
  LET n == Home[p] IN
  /\ Running(p) /\ w[p].pc = "attach"
  /\ arenas' = [arenas EXCEPT ![n] = @ \union {w[p].arena}]
  /\ marked' = [marked EXCEPT ![n] = @ \union w[p].blocks]
  /\ w' = [w EXCEPT ![p] = [Idle EXCEPT !.pc = "allocate", !.want = w[p].want]]
  /\ UNCHANGED <<etcd, size, state, known, reap, freeing, fsck, suspects, ghosts>>

\* The second Allocate, after another write or the reaper may have come first.
AllocateAgain(p) ==
  /\ Running(p) /\ w[p].pc = "allocate"
  /\ \/ Allocate(p)
     \/ Runs(Home[p], w[p].want) = {} /\ Abandon(p) /\ UNCHANGED marked
  /\ UNCHANGED <<etcd, size, state, arenas, known, reap, freeing, fsck, suspects, ghosts>>

\* The extent records of the write are committed, or the write fails and frees its
\* blocks, also when the transaction was applied and only its answer was lost.
Commit(p) ==
  LET n == Home[p]
      bs == w[p].blocks
  IN
  /\ Running(p) /\ w[p].pc = "reserved"
  /\ \/ extents' = extents \union bs /\ UNCHANGED <<marked, doubtful, ghosts>>
     \/ marked' = Freed(n, bs) /\ UNCHANGED <<extents, doubtful, ghosts>>
     \/ /\ Fails
        /\ extents' = extents \union bs /\ marked' = Freed(n, bs)
        /\ doubtful' = doubtful \union bs
  /\ Abandon(p)
  /\ UNCHANGED <<counter, pool, owner, size, state, arenas, known, reap, freeing, fsck, strayed>>

-----------------------------------------------------------------------------
(* Reclaiming blocks and arenas. *)

\* A record of this node's own arenas is deleted, by an overwrite or the scrubber;
\* the block is freed afterwards.
DeleteExtent(n, b) ==
  /\ state[n] = "up" /\ b \in extents /\ b \in BlocksOf(arenas[n])
  /\ extents' = extents \ {b}
  /\ freeing' = [freeing EXCEPT ![n] = @ \union {b}]
  /\ UNCHANGED <<counter, pool, owner, size, state, arenas, marked, known, w, reap, fsck, suspects, ghosts>>

Free(n, b) ==
  /\ state[n] = "up" /\ b \in freeing[n]
  /\ freeing' = [freeing EXCEPT ![n] = @ \ {b}]
  /\ marked' = Freed(n, {b})
  /\ UNCHANGED <<etcd, size, state, arenas, known, w, reap, fsck, suspects, ghosts>>

\* isEmpty.
EmptyArenas(n) == {a \in arenas[n] : BlocksOf({a}) \intersect marked[n] = {}}

\* ReleaseEmptyArenas: the empty arenas are detached first,
DetachEmpty(n) ==
  /\ state[n] = "up" /\ reap[n] = {} /\ EmptyArenas(n) # {}
  /\ reap' = [reap EXCEPT ![n] = EmptyArenas(n)]
  /\ arenas' = [arenas EXCEPT ![n] = @ \ EmptyArenas(n)]
  /\ UNCHANGED <<etcd, size, state, marked, known, w, freeing, fsck, suspects, ghosts>>

\* ReleaseArenaID: the owner record becomes a pool record in one transaction.
ToPoolLost(n, a) == owner' = [owner EXCEPT ![n] = @ \ {a}] /\ UNCHANGED pool
ToPool(n, a) ==
  /\ owner' = [owner EXCEPT ![n] = @ \ {a}]
  /\ pool' = pool \union {a}

\* then released one by one.  A refusal reattaches the arena; an error too, whether
\* or not the release was applied, and ends the pass with the rest of the list
\* detached.
ReleaseEmptyKept(n, a) ==
  /\ state[n] = "up" /\ a \in reap[n]
  /\ reap' = [reap EXCEPT ![n] = @ \ {a}]
  /\ arenas' = [arenas EXCEPT ![n] = @ \union {a}]
  /\ UNCHANGED <<etcd, size, state, marked, known, w, freeing, fsck, suspects, ghosts>>
ReleaseEmpty(n, a) ==
  /\ state[n] = "up" /\ a \in reap[n]
  /\ \/ /\ a \in owner[n] /\ ToPool(n, a)
        /\ reap' = [reap EXCEPT ![n] = @ \ {a}]
        /\ UNCHANGED <<arenas, strayed, ghosts>>
     \/ /\ a \notin owner[n]
        /\ reap' = [reap EXCEPT ![n] = @ \ {a}]
        /\ arenas' = [arenas EXCEPT ![n] = @ \union {a}]
        /\ UNCHANGED <<owner, pool, strayed, ghosts>>
     \/ /\ Fails
        /\ reap' = [reap EXCEPT ![n] = {}]
        /\ arenas' = [arenas EXCEPT ![n] = @ \union {a}]
        /\ \/ UNCHANGED <<owner, pool, strayed>>
           \/ a \in owner[n] /\ ToPool(n, a) /\ strayed' = strayed \union {a}
  /\ UNCHANGED <<counter, extents, size, state, marked, known, w, freeing, fsck, doubtful>>

-----------------------------------------------------------------------------
(* Crashes, restarts and fencing. *)

Crash(n) ==
  /\ state[n] \in {"up", "starting"} /\ crashes < load.crashes
  /\ crashes' = crashes + 1
  /\ state' = [state EXCEPT ![n] = "down"]
  /\ arenas' = [arenas EXCEPT ![n] = {}] /\ marked' = [marked EXCEPT ![n] = {}]
  /\ reap' = [reap EXCEPT ![n] = {}] /\ freeing' = [freeing EXCEPT ![n] = {}]
  /\ w' = [p \in Writes |-> IF Home[p] = n THEN Idle ELSE w[p]]
  /\ UNCHANGED <<etcd, size, known, fsck, suspects, load, errors, refusals>>

\* Reconstruct: the arenas recorded for this node.  The daemon starts whether or
\* not they could be read.
ReadArenas(n) ==
  /\ state[n] = "down" \/ (state[n] = "fenced" /\ owner[n] = {})
  /\ known' = [known EXCEPT ![n] = size]
  /\ \/ /\ state' = [state EXCEPT ![n] = "starting"]
        /\ arenas' = [arenas EXCEPT ![n] = owner[n]]
        /\ UNCHANGED ghosts
     \/ state' = [state EXCEPT ![n] = "up"] /\ Fails /\ UNCHANGED arenas
  /\ UNCHANGED <<etcd, size, marked, w, reap, freeing, fsck, suspects>>

\* Then every extent in them is marked, unless they cannot be read: the daemon serves
\* its arenas all the same.
MarkLiveExtents(n) ==
  /\ state[n] = "starting"
  /\ state' = [state EXCEPT ![n] = "up"]
  /\ \/ marked' = [marked EXCEPT ![n] = LiveIn(arenas[n])] /\ UNCHANGED <<doubtful, ghosts>>
     \/ /\ Fails /\ UNCHANGED marked
        /\ doubtful' = doubtful \union LiveIn(arenas[n])
  /\ UNCHANGED <<etcd, size, arenas, known, w, reap, freeing, fsck, strayed>>

\* A node that is down is fenced, or has left, and its arenas go to the pool.
Fence(n) ==
  /\ state[n] = "down"
  /\ state' = [state EXCEPT ![n] = "fenced"]
  /\ UNCHANGED <<etcd, size, arenas, marked, known, w, reap, freeing, fsck, suspects, ghosts>>

ReleaseArena(n, a) ==
  /\ state[n] = "fenced" /\ a \in owner[n]
  /\ ToPool(n, a)
  /\ UNCHANGED <<counter, extents, size, local, w, fsck, suspects, ghosts>>

Grow ==
  /\ size < load.device + load.grow /\ size' = size + 1
  /\ UNCHANGED <<etcd, local, w, fsck, suspects, ghosts>>

-----------------------------------------------------------------------------
(* fsck: checkArenaOrphans reads the counter, the owners and the pool in turn.  It
   drops the error of a read that fails and goes on with what an empty answer says. *)

Issued == 0 .. counter - 1
Owned == UNION {owner[n] : n \in Nodes}
InHand == {w[p].arena : p \in {q \in Writes : w[q].pc = "drawn"}}

\* Arenas nobody will ever be given again.
Lost == {a \in Issued : a \notin Owned \union pool \union InHand}

FsckCounter ==
  /\ fsck.pc = "idle" /\ load.fsck
  /\ \/ fsck' = [NoCheck EXCEPT !.pc = "counted", !.high = counter, !.lost = Lost]
     \/ fsck' = [NoCheck EXCEPT !.pc = "counted", !.blind = TRUE, !.lost = Lost]
  /\ UNCHANGED <<etcd, size, local, w, ghosts, suspects>>

FsckOwners ==
  /\ fsck.pc = "counted"
  /\ \E ids \in {Owned, {}} : fsck' = [fsck EXCEPT !.pc = "listed", !.owned = ids]
  /\ UNCHANGED <<etcd, size, local, w, ghosts, suspects>>

FsckFree ==
  /\ fsck.pc = "listed"
  /\ \E ids \in {pool, {}} : fsck' = [fsck EXCEPT !.pc = "done", !.free = ids]
  /\ UNCHANGED <<etcd, size, local, w, ghosts, suspects>>

FsckExit ==
  /\ fsck.pc = "done"
  /\ fsck' = NoCheck
  /\ UNCHANGED <<etcd, size, local, w, ghosts, suspects>>

\* Its findings: arenas in neither place, and arenas in both.
OrphanFindingsShort == {a \in 0 .. fsck.high - 2 : a \notin fsck.owned \union fsck.free}
OrphanFindings == {a \in 0 .. fsck.high - 1 : a \notin fsck.owned \union fsck.free}
DoubleFindings == {a \in 0 .. fsck.high - 1 : a \in fsck.owned \intersect fsck.free}

-----------------------------------------------------------------------------
WriteStep(p) ==
  \/ \E k \in load.sizes : Begin(p, k)
  \/ DeviceTooSmall(p) \/ ListPool(p) \/ ClaimFreeArena(p) \/ PoolExhausted(p)
  \/ NextCounter(p) \/ RefuseArena(p) \/ RecordOwnership(p) \/ ScanExtents(p)
  \/ Attach(p) \/ AllocateAgain(p) \/ Commit(p)

NodeStep(n) ==
  \/ \E b \in extents : DeleteExtent(n, b)
  \/ \E b \in freeing[n] : Free(n, b)
  \/ DetachEmpty(n)
  \/ \E a \in reap[n] : ReleaseEmpty(n, a)
  \/ Crash(n) \/ ReadArenas(n) \/ MarkLiveExtents(n) \/ Fence(n)
  \/ \E a \in owner[n] : ReleaseArena(n, a)

Next ==
  \/ \E p \in load.writes : WriteStep(p)
  \/ \E n \in Nodes : NodeStep(n)
  \/ Grow \/ FsckCounter \/ FsckOwners \/ FsckFree \/ FsckExit

Spec == Init /\ [][Next]_vars

\* The reaper of a running node comes round every minute (ReapEmptyArenas) and ends
\* the pass it began.
Fairness ==
  /\ \A n \in Nodes : WF_vars(DetachEmpty(n))
  /\ \A n \in Nodes : WF_vars(\E a \in reap[n] : ReleaseEmpty(n, a))
FairSpec == Spec /\ Fairness

-----------------------------------------------------------------------------
(* What the arena scheme promises. *)

\* A block whose arena was never listed by a node that had released it, and which
\* no node has taken for free while a record named it.
Sure(b) == b \notin doubtful /\ b[1] \notin strayed

\* No block is handed out twice: what one running write has reserved, no other has
\* reserved and no extent record names, and no allocator that would hand it out
\* takes it for free (AcquireArena, Allocate, ReleaseEmptyArenas, Reconstruct).  The
\* exceptions are the blocks of a commit or a release whose answer was lost, and
\* those a node could not scan for when it started; they spoil no other block.
NoBlockHandedOutTwice ==
  /\ \A p, q \in Writes : w[p].pc = "reserved" => \A b \in w[p].blocks : Sure(b) =>
       /\ b \notin extents
       /\ w[q].pc = "reserved" /\ p # q => b \notin w[q].blocks
  /\ \A n \in Nodes : state[n] = "up" =>
       \A b \in FreeBlocks(n) : Sure(b) => b \notin extents

\* A failed call to etcd or a refused arena loses at most one arena, and a crash at
\* most one for every write it stops; nothing else loses any (AcquireArena's error
\* paths, ReleaseArenaID).
LossesAccounted ==
  Cardinality(Lost) <= errors + refusals + crashes * Cardinality(Writes)

\* fsck reports every arena that was lost when it began, however busy the cluster
\* is and whichever other read fails, provided it could read the counter; and it
\* reports no arena as owned and free when nothing moves (checkArenaOrphans).
FsckFindsLost ==
  fsck.pc = "done" =>
    /\ fsck.blind \/ fsck.lost \subseteq OrphanFindings
    /\ fsck.owned = Owned /\ fsck.free = pool => DoubleFindings = {}

\* An arena a node has emptied goes back to the pool, unless the node uses it again,
\* stops, or a call to etcd has failed (ReapEmptyArenas).
EmptyArenasReturned ==
  \A n \in Nodes : \A a \in UNION {0 .. l.issued - 1 : l \in Loads} :
    (a \in arenas[n] /\ BlocksOf({a}) \intersect marked[n] = {})
      ~> (a \in pool \/ BlocksOf({a}) \intersect marked[n] # {} \/ state[n] # "up" \/ errors > 0)

-----------------------------------------------------------------------------
(* Why no block is handed out twice, as an invariant that every step preserves,
   whatever fails.  A block is a pair, the first part of which is its arena. *)

\* In etcd an arena is unissued, in the pool, owned by one node, drawn by one
\* write, or lost.
OnePlace ==
  /\ \A a \in pool : a < counter
  /\ \A n \in Nodes : \A a \in owner[n] :
       a < counter /\ a \notin pool /\ \A m \in Nodes \ {n} : a \notin owner[m]
  /\ \A p \in Writes : w[p].pc = "drawn" =>
       /\ w[p].arena \in Nat /\ w[p].arena < counter /\ w[p].arena \notin pool
       /\ \A n \in Nodes : w[p].arena \notin owner[n]
       /\ \A q \in Writes \ {p} : w[q].pc = "drawn" => w[q].arena # w[p].arena

\* A node lists only arenas it owns, each of them once, unless they have strayed.
ListsOwned ==
  \A n \in Nodes :
    /\ \A a \in arenas[n] \ strayed : a \in owner[n] /\ a \notin reap[n]
    /\ \A a \in reap[n] \ strayed : a \in owner[n]

\* An arena about to be listed is owned, not yet listed, and awaited by one write.
JoinsOnce ==
  \A p \in Writes : w[p].pc \in {"scan", "attach"} /\ w[p].arena \notin strayed =>
    /\ w[p].arena \in owner[Home[p]]
    /\ w[p].arena \notin arenas[Home[p]] /\ w[p].arena \notin reap[Home[p]]
    /\ \A q \in Writes \ {p} : w[q].pc \in {"scan", "attach"} => w[q].arena # w[p].arena

\* A node that does not run does nothing.
StoppedIdle ==
  \A n \in Nodes : state[n] # "up" =>
    /\ reap[n] = {} /\ freeing[n] = {}
    /\ \A p \in Writes : Home[p] = n => w[p].pc = "idle"
    /\ state[n] # "starting" => arenas[n] = {}

\* A block with an extent record is marked wherever its arena is listed, and
\* will be where it is about to be.
ExtentsMarked ==
  \A b \in extents : Sure(b) =>
    /\ b[1] < counter
    /\ \A n \in Nodes : state[n] = "up" =>
         /\ b[1] \in arenas[n] => b \in marked[n]
         /\ b[1] \notin reap[n]
    /\ \A p \in Writes :
         /\ w[p].pc = "drawn" /\ ~w[p].reused => b[1] # w[p].arena
         /\ w[p].pc = "attach" /\ b[1] = w[p].arena => b \in w[p].blocks

\* So is a block on its way to be freed, or reserved by a write, and it has no
\* record and no other user.
FreeingMarked ==
  \A n \in Nodes : \A b \in freeing[n] : Sure(b) =>
    b \in marked[n] /\ b[1] \in arenas[n] /\ b \notin extents

ReservedMarked ==
  \A p \in Writes : w[p].pc = "reserved" => \A b \in w[p].blocks : Sure(b) =>
    /\ b \in marked[Home[p]] /\ b[1] \in arenas[Home[p]]
    /\ b \notin extents /\ b \notin freeing[Home[p]]
    /\ \A q \in Writes \ {p} : w[q].pc = "reserved" => b \notin w[q].blocks

ArenaInv ==
  /\ OnePlace /\ ListsOwned /\ JoinsOnce /\ StoppedIdle
  /\ ExtentsMarked /\ FreeingMarked /\ ReservedMarked

-----------------------------------------------------------------------------
(* Claims of the source that the code does not keep. *)

\* "for every path that gives up before anything in etcd refers to them": a block
\* that is free, freeRuns' blocks among them, is named by no record.
FreeIsUnnamed ==
  \A n \in Nodes : state[n] = "up" => FreeBlocks(n) \intersect extents = {}

\* "The arena is detached ... and reattached if the release does not go through":
\* what a pass over the empty arenas has detached ends in the pool or in the list.
ReleasedOrReattached ==
  [][\A n \in Nodes : state'[n] = "up" =>
       reap[n] \subseteq reap'[n] \union arenas'[n] \union pool']_vars

\* "is not silently lost: fsck.checkArenaOrphans ... reports any".
FsckReportsAll == fsck.pc = "done" => fsck.lost \subseteq OrphanFindings

=============================================================================
