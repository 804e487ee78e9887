----------------------------- MODULE InodeLock -----------------------------
(* The lock cache of one inode and the writes buffered under it.

   A node keeps the etcd lock key of an inode after the operation that took it,
   and with the key a metadata snapshot, a buffer of acknowledged but
   unpublished writes, and the kernel's pages.  A peer that wants the inode
   writes a want key; the holder then publishes, drops its caches and deletes
   the lock key.

   A write is named by its number, and the block it reserves by the same
   number: it stands for a write that replaces the file's content and changes
   its size.  ver counts the transactions that changed the inode's keys and
   plays the role of their ModRevisions.  Everything a node does under the
   entry's local lock is one activity at a time (act); the session watcher and
   the delivery of want events run beside it.  A lock key is identified by its
   holder token.

   Left out: the generation guard (NodeFencing), how a write cuts extents and a
   synchronous write whose reply is lost (FileExtents), how long a lock is held
   before a recall is served, the batching of several inodes in one
   transaction, and shared operations running side by side on one node. *)
EXTENDS Naturals, FiniteSets, FiniteSetsExt

CONSTANTS
  Nodes,
  None,
  Workloads,     \* what the nodes may be asked for, and what may fail
  MaxWrites,     \* bound: writes and size changes in a behaviour
  MaxSessions,   \* bound: lock sessions of one node
  BufferMax      \* writes one buffer takes (maxWriteTxnOps, flushMaxBytes)

\* What a FUSE request or a background goroutine does under the entry's lock.
Exclusive == {"write", "sync", "fsync", "setsize"}
Requests == Exclusive \union {"read"}
Yields == {"recall", "evict", "publish", "removed", "leave"}
Kinds == Requests \union Yields \union {"sweep"}
Faults == {"pages", "wedged", "flush", "reply", "release", "full"}

\* kinds: what is asked of the nodes; creator: the node that created the file;
\* seeded: it has just done so and holds the lock; fail: what may go wrong,
\* faults times at most; ops, losses, crashes: how many requests, lost sessions
\* and daemon crashes.
Workload ==
  [kinds : SUBSET Kinds, creator : Nodes, seeded : BOOLEAN, fail : SUBSET Faults,
   faults : Nat, ops : Nat, losses : Nat, crashes : Nat]

ASSUME InodeLockAssumption ==
  /\ None \notin Nat
  /\ MaxWrites \in Nat /\ MaxSessions \in Nat \ {0} /\ BufferMax \in Nat \ {0}
  /\ Workloads \subseteq Workload

VARIABLES
  keys,      \* lock keys of the inode in etcd
  live,      \* <<node, lease>>: the lock sessions etcd has not expired
  pub,       \* the inode in etcd: content, block, ver, and whether it exists
  sess,      \* Store.lockSession: the lease, and whether Done is closed
  watch,     \* the lease StartSessionWatch is waiting on, 0 for none
  ent,       \* the lockEntry: holder, meta (with metaFor), pending
  act,       \* what runs under the entry's rw, and how far it is
  recall,    \* recallSet: "none", "asked", or "ending" until end(ino)
  wants,     \* a want event of a peer not yet delivered to the node
  pages,     \* the content the kernel caches on a node
  deaf,      \* Service.pagesCached is off: "now", "before", or "never" was
  seq, by,   \* writes made so far, and the node that made each
  used,      \* blocks allocated in the arenas' bitmaps
  load,      \* the workload, and what is left of it
  acked,     \* ghost: last write acknowledged under a live lock or published
  mine,      \* ghost: last write a node has acknowledged
  durable,   \* ghost: last write a successful fsync covered
  expired,   \* ghost: some lock session was lost or a node crashed
  keyless    \* ghost: some write joined a buffer with no lock key behind it

etcd == <<keys, live, pub>>
session == <<sess, watch>>
kernel == <<pages, deaf>>
blocks == <<seq, by, used>>
ghosts == <<acked, mine, durable, expired, keyless>>
vars == <<keys, live, pub, sess, watch, ent, act, recall, wants, pages, deaf,
          seq, by, used, load, acked, mine, durable, expired, keyless>>

Leases == 0 .. MaxSessions
Modes == {"shared", "exclusive"}
Token == [node : Nodes, lease : Leases, id : 1 .. 4, mode : Modes]
Block == 0 .. MaxWrites
Content == [val : Block, blk : Block \union {None}, ver : Nat]
Meta == [val : Block, blk : Block \union {None}, ver : Nat, for : Token]
Buffer == [vals : SUBSET Block, buried : SUBSET Block, base : Nat]
Pcs == {"idle", "ensure", "drop", "acquire", "meta", "act", "commit",
        "flush", "settle", "inval", "force", "close", "down", "panic"}

TypeOK ==
  /\ keys \subseteq Token
  /\ live \subseteq Nodes \X Leases
  /\ pub \in [val : Block, blk : Block \union {None}, ver : Nat, exists : BOOLEAN]
  /\ sess \in [Nodes -> [lease : Leases, done : BOOLEAN]]
  /\ watch \in [Nodes -> Leases]
  /\ ent \in [Nodes -> [holder : Token \union {None}, meta : Meta \union {None},
                        buf : Buffer \union {None}]]
  /\ act \in [Nodes -> [kind : Kinds, pc : Pcs, m : Content \union {None},
                        tok : Token \union {None}]]
  /\ recall \in [Nodes -> {"none", "asked", "ending"}]
  /\ wants \in [Nodes -> BOOLEAN]
  /\ pages \in [Nodes -> Block \union {None}]
  /\ deaf \in [Nodes -> {"never", "now", "before"}]
  /\ seq \in Block /\ by \in [Block -> Nodes] /\ used \subseteq Block
  /\ load \in Workload
  /\ acked \in Block /\ mine \in [Nodes -> Block] /\ durable \in Block
  /\ expired \in BOOLEAN /\ keyless \in BOOLEAN

-----------------------------------------------------------------------------
(* The entry of a node. *)

Idle == [kind |-> "read", pc |-> "idle", m |-> None, tok |-> None]
NoEntry == [holder |-> None, meta |-> None, buf |-> None]
EmptyBuffer == [vals |-> {}, buried |-> {}, base |-> 0]

Pending(e) == e.buf # None /\ e.buf.vals # {}

\* What discardPending frees: the runs the buffered writes reserved, and the
\* blocks their plans were to give back.
Given(e) == IF e.buf = None THEN {} ELSE e.buf.vals \union e.buf.buried

Reset(e) == IF e.buf = None THEN None ELSE EmptyBuffer

\* forgetKeyLocked, and the fields keyLostLocked clears.
Forgotten(e) == [holder |-> None, meta |-> None, buf |-> Reset(e)]

\* The entry as Release leaves it: an exclusive operation that did not publish
\* its metadata drops the snapshot.
SnapshotKept(e, kind) == e
Released(e, kind) == IF kind \in Exclusive THEN [e EXCEPT !.meta = None] ELSE e

KeyMode(kind) == IF kind = "read" THEN "shared" ELSE "exclusive"
Covers(e, kind) ==
  e.holder # None /\ e.holder.mode \in {"exclusive", KeyMode(kind)}

KeyLive(n) == ent[n].holder # None /\ ent[n].holder \in keys
Own(n, b) == IF b # None /\ by[b] = n THEN {b} ELSE {}

\* A fault of kind f happens now.
Fault(f) ==
  /\ f \in load.fail /\ load.faults > 0
  /\ load' = [load EXCEPT !.faults = @ - 1]

\* The node is no longer a user of the inode's lock.
Gone(n) == act[n].pc \in {"down", "panic"}

Goto(n, pc) == act' = [act EXCEPT ![n].pc = pc] /\ UNCHANGED recall

\* The activity ends and gives the entry's lock back; a recall is over only
\* once its goroutine has also run recalls.end.
Finish(n) ==
  /\ act' = [act EXCEPT ![n] = Idle]
  /\ recall' = [recall EXCEPT ![n] = IF act[n].kind = "recall" THEN "ending" ELSE @]

PagesLeft(n, ok) ==
  UNCHANGED kernel /\ IF ok THEN UNCHANGED load ELSE Fault("pages")

\* invalidatePages, with ok for a nil error: the kernel drops its pages, or
\* reports that it could not.  A client that does not answer in time is taken
\* for gone, which is no error; until the next open nothing is told any more.
InvalidatePages(n, ok) ==
  \/ /\ ok /\ deaf[n] # "now"
     /\ pages' = [pages EXCEPT ![n] = None] /\ UNCHANGED <<deaf, load>>
  \/ /\ ok /\ deaf[n] = "now"
     /\ UNCHANGED <<kernel, load>>
  \/ /\ ok /\ deaf[n] # "now"
     /\ Fault("wedged")
     /\ deaf' = [deaf EXCEPT ![n] = "now"] /\ UNCHANGED pages
  \/ /\ ~ok /\ deaf[n] # "now"
     /\ Fault("pages") /\ UNCHANGED kernel

\* keyLostLocked: everything behind a key etcd has deleted is dropped, whether
\* or not the kernel could be told.
KeyLost(n) ==
  /\ \E ok \in BOOLEAN : InvalidatePages(n, ok)
  /\ ent' = [ent EXCEPT ![n] = Forgotten(@)]
  /\ used' = used \ Given(ent[n])
  /\ UNCHANGED <<seq, by>>

-----------------------------------------------------------------------------
(* Taking the lock. *)

\* LockSessionLease does not answer with the lease of the entry's key.
Stale(n) ==
  ent[n].holder # None /\ (sess[n].done \/ sess[n].lease # ent[n].holder.lease)

\* A FUSE request reaches the entry and takes its local lock.  flushInode
\* answers at once when nothing is pending.
Start(n, k) ==
  /\ act[n].pc = "idle" /\ load.ops > 0 /\ k \in load.kinds
  /\ k \in {"write", "sync", "setsize"} => seq + Cardinality({p \in Nodes :
        act[p].pc # "idle" /\ act[p].kind \in {"write", "sync", "setsize"}}) < MaxWrites
  /\ load' = [load EXCEPT !.ops = @ - 1]
  /\ IF k = "fsync" /\ ~Pending(ent[n])
       THEN durable' = Max({durable, mine[n]}) /\ UNCHANGED act
       ELSE act' = [act EXCEPT ![n] = [Idle EXCEPT !.kind = k, !.pc = "ensure"]]
            /\ UNCHANGED durable
  /\ UNCHANGED <<etcd, session, ent, recall, wants, kernel, blocks, acked, mine, expired, keyless>>

\* Where an operation goes once its key is held.
Locked(n, k) ==
  IF k \in {"fsync", "setsize"} \/ (k = "sync" /\ Pending(ent[n])) THEN "flush" ELSE "meta"

\* ensureLockKey: a key of a lost session is dropped, a covering key is used,
\* a shared key in the way of an exclusive request is given up first.
Ensure(n) ==
  LET k == act[n].kind IN
  /\ act[n].pc = "ensure"
  /\ \/ /\ Stale(n)
        /\ KeyLost(n)
        /\ UNCHANGED <<act, recall>>
     \/ /\ ~Stale(n) /\ Covers(ent[n], k)
        /\ Goto(n, Locked(n, k))
        /\ UNCHANGED <<ent, kernel, blocks, load>>
     \/ /\ ~Stale(n) /\ ent[n].holder = None
        /\ Goto(n, "acquire")
        /\ UNCHANGED <<ent, kernel, blocks, load>>
     \/ /\ ~Stale(n) /\ ent[n].holder # None /\ ~Covers(ent[n], k)
        /\ InvalidatePages(n, TRUE)
        /\ act' = [act EXCEPT ![n].pc = "drop", ![n].tok = ent[n].holder]
        /\ ent' = [ent EXCEPT ![n] = Forgotten(@)]
        /\ used' = used \ Given(ent[n])
        /\ UNCHANGED <<seq, by, recall>>
     \/ /\ ~Stale(n) /\ ent[n].holder # None /\ ~Covers(ent[n], k)
        /\ InvalidatePages(n, FALSE)
        /\ Finish(n)
        /\ UNCHANGED <<ent, blocks>>
  /\ UNCHANGED <<etcd, session, wants, ghosts>>

\* deleteKeys: the key is deleted by its token, or the delete fails for good
\* and the key stands until the session ends.
DropKey(n) ==
  /\ act[n].pc = "drop"
  /\ \/ keys' = keys \ {act[n].tok} /\ UNCHANGED load
     \/ Fault("release") /\ UNCHANGED keys
  /\ IF act[n].kind \in Requests
       THEN act' = [act EXCEPT ![n].pc = "acquire", ![n].tok = None] /\ UNCHANGED recall
       ELSE IF act[n].kind = "leave" THEN Goto(n, "close") ELSE Finish(n)
  /\ UNCHANGED <<live, pub, session, ent, wants, kernel, blocks, ghosts>>

\* lockSession: the session an attempt runs under; a lost one is replaced.
SessionFor(n) ==
  IF sess[n].lease = 0 \/ sess[n].done
    THEN [lease |-> sess[n].lease + 1, done |-> FALSE]
    ELSE sess[n]

\* A token that names no key and that no entry holds.
FreshToken(n, mode) ==
  LET lease == SessionFor(n).lease
      taken == {k.id : k \in {x \in keys : x.node = n}}
                 \union (IF ent[n].holder = None THEN {} ELSE {ent[n].holder.id})
                 \union (IF act[n].tok = None THEN {} ELSE {act[n].tok.id})
  IN [node |-> n, lease |-> lease, id |-> Min((1 .. 4) \ taken), mode |-> mode]

\* AcquireLock's comparison: an exclusive key finds no key at all, a shared one
\* finds no exclusive key.
Blocked(mode) == \E k \in keys : "exclusive" \in {mode, k.mode}

Take(n, tok) ==
  /\ ent' = [ent EXCEPT ![n].holder = tok]
  /\ act' = [act EXCEPT ![n].pc = Locked(n, act[n].kind), ![n].tok = None]

\* One attempt of acquireLockKey.  A key written by an earlier attempt whose
\* reply was lost is adopted.  A conflict is announced on every attempt.
Acquire(n) ==
  LET mode == KeyMode(act[n].kind)
      s == SessionFor(n)
      tok == FreshToken(n, mode)
  IN
  /\ act[n].pc = "acquire"
  /\ \/ /\ act[n].tok \in keys
        /\ Take(n, act[n].tok)
        /\ UNCHANGED <<keys, live, sess, wants, load>>
     \/ /\ act[n].tok \notin keys
        /\ s.lease \in Leases
        /\ s # sess[n] \/ <<n, s.lease>> \in live
        /\ sess' = [sess EXCEPT ![n] = s]
        /\ live' = live \union {<<n, s.lease>>}
        /\ \/ /\ Blocked(mode)
              /\ wants' = [p \in Nodes |-> wants[p] \/ (p # n /\ ~Gone(p))]
              /\ UNCHANGED <<keys, ent, act, load>>
           \/ /\ ~Blocked(mode)
              /\ keys' = keys \union {tok}
              /\ Take(n, tok)
              /\ UNCHANGED <<wants, load>>
           \/ /\ ~Blocked(mode)
              /\ keys' = keys \union {tok}
              /\ Fault("reply")
              /\ act' = [act EXCEPT ![n].tok = tok]
              /\ UNCHANGED <<wants, ent>>
  /\ UNCHANGED <<pub, watch, recall, kernel, blocks, ghosts>>

\* The request runs out of attempts or of time.
GiveUp(n) ==
  /\ act[n].pc = "acquire"
  /\ Finish(n)
  /\ UNCHANGED <<etcd, session, ent, wants, kernel, blocks, load, ghosts>>

-----------------------------------------------------------------------------
(* Operations under the lock. *)

\* heldLock.meta: the snapshot taken under this very key, else etcd.  A buffer
\* without a snapshot cannot be described, and the operation fails.
ReadMeta(n) ==
  LET e == ent[n]
      got == [val |-> pub.val, blk |-> pub.blk, ver |-> pub.ver]
      Continue(m) == act' = [act EXCEPT ![n].pc = "act", ![n].m = m]
  IN
  /\ act[n].pc = "meta"
  /\ \/ /\ e.holder # None /\ e.meta # None /\ e.meta.for = e.holder
        /\ Continue([val |-> e.meta.val, blk |-> e.meta.blk, ver |-> e.meta.ver])
        /\ UNCHANGED <<ent, recall>>
     \/ /\ ~(e.holder # None /\ e.meta # None /\ e.meta.for = e.holder)
        /\ ~Pending(e) /\ pub.exists
        /\ Continue(got)
        /\ ent' = IF e.holder = None THEN ent
                  ELSE [ent EXCEPT ![n].meta = [val |-> pub.val, blk |-> pub.blk,
                                                ver |-> pub.ver, for |-> e.holder]]
        /\ UNCHANGED recall
     \/ /\ ~(e.holder # None /\ e.meta # None /\ e.meta.for = e.holder)
        /\ Pending(e) \/ ~pub.exists
        /\ Finish(n)
        /\ ent' = [ent EXCEPT ![n] = Released(@, act[n].kind)]
  /\ UNCHANGED <<etcd, session, wants, kernel, blocks, load, ghosts>>

\* handleRead: the snapshot's content is answered and stays in the kernel.
Read(n) ==
  /\ act[n].pc = "act" /\ act[n].kind = "read"
  /\ pages' = [pages EXCEPT ![n] = act[n].m.val] /\ UNCHANGED deaf
  /\ Finish(n)
  /\ UNCHANGED <<etcd, session, ent, wants, blocks, load, ghosts>>

\* A new write takes the next number and reserves the block of that number.
NextNumberSkips == seq + 2
NextNumber == seq + 1

NewWrite(n) ==
  /\ seq' = NextNumber
  /\ by' = [by EXCEPT ![NextNumber] = n]
  /\ mine' = [mine EXCEPT ![n] = NextNumber]

\* The kernel's page, where it has one, takes the written content.
WritePage(n) ==
  pages' = [pages EXCEPT ![n] = IF @ = None THEN None ELSE NextNumber] /\ UNCHANGED deaf

\* No space, or the device refuses the payload: the write reserves nothing in
\* the end, and the snapshot goes with the exclusive lock.
WriteRefused(n) ==
  /\ act[n].pc = "act" /\ act[n].kind \in {"write", "sync"}
  /\ Fault("full")
  /\ ent' = [ent EXCEPT ![n] = Released(@, act[n].kind)]
  /\ Finish(n)
  /\ UNCHANGED <<etcd, session, wants, kernel, blocks, ghosts>>

\* bufferWriteOp: the write joins the buffer and is answered; nothing is
\* checked about the key at this point.  A full buffer is published first, and
\* the write planned again.
BufferWrite(n) ==
  LET e == ent[n]  m == act[n].m  w == NextNumber
      old == IF e.buf = None THEN EmptyBuffer ELSE e.buf
      new == [vals |-> old.vals \union {w}, buried |-> old.buried \union Own(n, m.blk),
              base |-> IF old.vals = {} THEN m.ver ELSE old.base]
  IN
  /\ act[n].pc = "act" /\ act[n].kind = "write"
  /\ \/ /\ Cardinality(old.vals) >= BufferMax
        /\ Goto(n, "flush")
        /\ UNCHANGED <<ent, kernel, blocks, ghosts>>
     \/ /\ Cardinality(old.vals) < BufferMax
        /\ NewWrite(n) /\ WritePage(n)
        /\ used' = used \union {w}
        /\ ent' = [ent EXCEPT ![n].buf = new,
                     ![n].meta = IF e.holder # None /\ @ # None
                                   THEN [val |-> w, blk |-> w, ver |-> @.ver, for |-> e.holder]
                                   ELSE @]
        /\ acked' = IF KeyLive(n) THEN w ELSE acked
        /\ keyless' = (keyless \/ e.holder = None)
        /\ Finish(n)
        /\ UNCHANGED <<durable, expired>>
  /\ UNCHANGED <<etcd, session, wants, load>>

\* The inode's keys move to content w with block b.
Publish(w, b) == [val |-> w, blk |-> b, ver |-> pub.ver + 1, exists |-> TRUE]

\* commitWriteOp: one guarded transaction, planned again over a fresh read when
\* it is rejected; it asserts nothing about the lock key.  The blocks it buried
\* are freed, and the snapshot published.
SyncWrite(n) ==
  LET w == NextNumber  h == ent[n].holder IN
  /\ act[n].pc = "act" /\ act[n].kind = "sync"
  /\ NewWrite(n) /\ WritePage(n)
  /\ pub' = Publish(w, w)
  /\ used' = (used \union {w}) \ Own(n, pub.blk)
  /\ ent' = IF h = None THEN ent
            ELSE [ent EXCEPT ![n].meta = [val |-> w, blk |-> w, ver |-> pub.ver + 1, for |-> h]]
  /\ acked' = w
  /\ Finish(n)
  /\ UNCHANGED <<keys, live, session, wants, load, durable, expired, keyless>>

\* A size change through setattr, fallocate or O_TRUNC, after the flush: own
\* blocks are freed, a foreign extent is left for its owner.  The snapshot is
\* not published, so Release drops it, and the kernel cuts its own pages.
SetSize(n) ==
  LET w == NextNumber  rest == IF Own(n, pub.blk) = {} THEN pub.blk ELSE None IN
  /\ act[n].pc = "commit"
  /\ ent' = [ent EXCEPT ![n] = Released(@, act[n].kind)]
  /\ Finish(n)
  /\ IF pub.exists
       THEN /\ NewWrite(n)
            /\ pub' = Publish(w, rest)
            /\ used' = used \ Own(n, pub.blk)
            /\ pages' = [pages EXCEPT ![n] = None] /\ UNCHANGED deaf
            /\ acked' = w
       ELSE UNCHANGED <<pub, blocks, kernel, acked, mine>>
  /\ UNCHANGED <<keys, live, session, wants, load, durable, expired, keyless>>

-----------------------------------------------------------------------------
(* Publishing the buffer. *)

\* An fsync answers success.
SyncedAnyway(n, ok) == IF act[n].kind = "fsync" THEN Max({durable, mine[n]}) ELSE durable
Synced(n, ok) == IF ok /\ act[n].kind = "fsync" THEN Max({durable, mine[n]}) ELSE durable

\* What follows a flush, by the activity that asked for it.  e is the entry
\* the flush left.
AfterFlush(n, e, ok) ==
  LET k == act[n].kind IN
  \/ /\ k \in Yields /\ (ok \/ ~Pending(e))
     /\ ent' = [ent EXCEPT ![n] = e]
     /\ Goto(n, "inval")
     /\ UNCHANGED durable
  \/ /\ k \in Yields /\ ~ok /\ Pending(e)
     /\ ent' = [ent EXCEPT ![n] = e]
     /\ IF k = "leave" THEN Goto(n, "force") ELSE Finish(n)
     /\ UNCHANGED durable
  \/ /\ ok /\ k \in {"write", "sync", "setsize"}
     /\ ent' = [ent EXCEPT ![n] = e]
     /\ Goto(n, IF k = "setsize" THEN "commit" ELSE "meta")
     /\ UNCHANGED durable
  \/ /\ k \in {"fsync", "sweep"}
     /\ ent' = [ent EXCEPT ![n] = e]
     /\ Finish(n)
     /\ durable' = Synced(n, ok)
  \/ /\ ~ok /\ k \in {"write", "sync", "setsize"}
     /\ ent' = [ent EXCEPT ![n] = Released(e, k)]
     /\ Finish(n)
     /\ UNCHANGED durable

\* flushCommitted: what the buffered writes buried is freed, and the snapshot
\* takes the revision of the commit.
Committed(e, ver) ==
  [e EXCEPT !.buf = EmptyBuffer, !.meta = IF @ = None THEN None ELSE [@ EXCEPT !.ver = ver]]

\* The blocks a commit frees are the buried ones, not the new runs.
Buried(e) == e.buf.buried

\* The flush's comparisons: the revisions the buffer was planned against, and
\* the lock key by its exact token.
FlushHolds(n) == ent[n].holder \in keys /\ ent[n].buf.base = pub.ver

\* flushLocked up to the answer of its transaction: the payload goes to the
\* device first, and the transaction also asserts that this very lock key
\* exists.  A buffer whose key is gone is discarded, which is no error.
Flush(n) ==
  LET e == ent[n]
      last == Max(e.buf.vals)
  IN
  /\ act[n].pc = "flush"
  /\ \/ /\ ~Pending(e)
        /\ AfterFlush(n, e, TRUE)
        /\ UNCHANGED <<pub, used, load, acked>>
     \/ /\ Pending(e) /\ e.holder = None
        /\ AfterFlush(n, [e EXCEPT !.buf = EmptyBuffer, !.meta = None], TRUE)
        /\ used' = used \ Given(e)
        /\ UNCHANGED <<pub, load, acked>>
     \/ /\ Pending(e) /\ e.holder # None
        /\ Fault("flush")
        /\ AfterFlush(n, e, FALSE)
        /\ UNCHANGED <<pub, used, acked>>
     \/ /\ Pending(e) /\ e.holder # None /\ FlushHolds(n)
        /\ pub' = Publish(last, last)
        /\ used' = used \ Buried(e)
        /\ acked' = Max({acked, last})
        /\ AfterFlush(n, Committed(e, pub.ver + 1), TRUE)
        /\ UNCHANGED load
     \/ /\ Pending(e) /\ e.holder # None /\ FlushHolds(n)
        /\ Fault("reply")
        /\ pub' = Publish(last, last)
        /\ acked' = Max({acked, last})
        /\ Goto(n, "settle")
        /\ UNCHANGED <<ent, used, durable>>
     \/ /\ Pending(e) /\ e.holder # None /\ ~FlushHolds(n)
        /\ Goto(n, "settle")
        /\ UNCHANGED <<pub, ent, used, load, acked, durable>>
  /\ UNCHANGED <<keys, live, session, wants, kernel, seq, by, mine, expired, keyless>>

\* A rejected flush: flushAlreadyLanded, then LockHeldBy, decide whether the
\* writes are published, lost with the key, or kept.
Settle(n) ==
  LET e == ent[n]  landed == pub.val = Max(e.buf.vals) IN
  /\ act[n].pc = "settle"
  /\ \/ /\ landed
        /\ AfterFlush(n, Committed(e, pub.ver), TRUE)
        /\ used' = used \ Buried(e)
        /\ UNCHANGED <<kernel, load>>
     \/ /\ ~landed /\ e.holder \notin keys
        /\ \E ok \in BOOLEAN : InvalidatePages(n, ok)
        /\ AfterFlush(n, Forgotten(e), FALSE)
        /\ used' = used \ Given(e)
     \/ /\ ~landed /\ e.holder \in keys
        /\ AfterFlush(n, e, FALSE)
        /\ UNCHANGED <<used, kernel, load>>
  /\ UNCHANGED <<etcd, session, wants, seq, by, acked, mine, expired, keyless>>

\* StartFlusher's tick finds an expired buffer and its entry free.
Sweep(n) ==
  /\ act[n].pc = "idle" /\ Pending(ent[n])
  /\ act' = [act EXCEPT ![n] = [Idle EXCEPT !.kind = "sweep", !.pc = "flush"]]
  /\ UNCHANGED <<etcd, session, ent, recall, wants, kernel, blocks, load, ghosts>>

-----------------------------------------------------------------------------
(* Giving the lock back. *)

\* dropCachedLock begins: the buffer first, then the pages.
BeginYield(n, k) ==
  act' = [act EXCEPT ![n] = [Idle EXCEPT !.kind = k,
                               !.pc = IF Pending(ent[n]) THEN "flush" ELSE "inval"]]

\* lockWanted: a peer's want event starts a recall unless one is running.
LockWanted(n) ==
  /\ wants[n] /\ ~Gone(n)
  /\ wants' = [wants EXCEPT ![n] = FALSE]
  /\ recall' = [recall EXCEPT ![n] = IF @ = "none" THEN "asked" ELSE @]
  /\ UNCHANGED <<etcd, session, ent, act, kernel, blocks, load, ghosts>>

\* recallLock, once the minimum hold is over and the entry's lock is free.
Recall(n) ==
  /\ recall[n] = "asked" /\ act[n].pc = "idle"
  /\ BeginYield(n, "recall")
  /\ UNCHANGED <<etcd, session, ent, recall, wants, kernel, blocks, load, ghosts>>

RecallNeverEnds(n) == recall[n] = "ending" /\ UNCHANGED vars
RecallEnd(n) ==
  /\ recall[n] = "ending"
  /\ recall' = [recall EXCEPT ![n] = "none"]
  /\ UNCHANGED <<etcd, session, ent, act, wants, kernel, blocks, load, ghosts>>

\* The lock is given up for another reason: the cache evicts the entry, an
\* extended attribute changes (publishInode), or the node shuts down.
Yield(n, k) ==
  /\ act[n].pc = "idle" /\ load.ops > 0
  /\ k \in load.kinds \intersect {"evict", "publish", "leave"}
  /\ load' = [load EXCEPT !.ops = @ - 1]
  /\ \/ ent[n] # NoEntry /\ BeginYield(n, k)
     \/ ent[n] = NoEntry /\ k = "leave"
        /\ act' = [act EXCEPT ![n] = [Idle EXCEPT !.kind = k, !.pc = "close"]]
  /\ UNCHANGED <<etcd, session, ent, recall, wants, kernel, blocks, ghosts>>

\* The last name of the inode is removed, with no lock on it; then
\* yieldQuietCachedLock drops this node's key unless writes are buffered.
Remove(n) ==
  /\ act[n].pc = "idle" /\ load.ops > 0 /\ "removed" \in load.kinds
  /\ pub.exists
  /\ pub' = [pub EXCEPT !.exists = FALSE]
  /\ load' = [load EXCEPT !.ops = @ - 1]
  /\ IF Pending(ent[n]) THEN UNCHANGED act ELSE BeginYield(n, "removed")
  /\ UNCHANGED <<keys, live, session, ent, recall, wants, kernel, blocks, ghosts>>

\* The rest of dropCachedLock: pages, then the local state, then the key.  A
\* kernel that keeps its pages keeps the key.
Invalidate(n) ==
  LET h == ent[n].holder IN
  /\ act[n].pc = "inval"
  /\ \/ /\ InvalidatePages(n, TRUE)
        /\ ent' = [ent EXCEPT ![n] = Forgotten(@)]
        /\ used' = used \ Given(ent[n])
        /\ IF h # None
             THEN act' = [act EXCEPT ![n].pc = "drop", ![n].tok = h] /\ UNCHANGED recall
             ELSE IF act[n].kind = "leave" THEN Goto(n, "close") ELSE Finish(n)
     \/ /\ InvalidatePages(n, FALSE)
        /\ IF act[n].kind = "leave" THEN Goto(n, "force") ELSE Finish(n)
        /\ UNCHANGED <<ent, used>>
  /\ UNCHANGED <<etcd, session, wants, seq, by, ghosts>>

\* ReleaseCachedLocks when the drop was refused: the buffer is discarded (there
\* may never have been one) and the key released if the kernel lets go.
ForceRelease(n) ==
  LET e == ent[n] IN
  /\ act[n].pc = "force"
  /\ \/ /\ e.buf = None
        /\ Goto(n, "panic")
        /\ UNCHANGED <<ent, used, kernel, load>>
     \/ /\ e.buf # None
        /\ used' = used \ Given(e)
        /\ \/ /\ InvalidatePages(n, TRUE)
              /\ ent' = [ent EXCEPT ![n] = Forgotten(@)]
              /\ act' = [act EXCEPT ![n].pc = IF e.holder = None THEN "close" ELSE "drop",
                                    ![n].tok = e.holder]
              /\ UNCHANGED recall
           \/ /\ InvalidatePages(n, FALSE)
              /\ ent' = [ent EXCEPT ![n].buf = EmptyBuffer, ![n].meta = None]
              /\ Goto(n, "close")
  /\ UNCHANGED <<etcd, session, wants, seq, by, ghosts>>

\* The keys of a lease go with it.
Revoke(n, l) ==
  /\ live' = live \ {<<n, l>>}
  /\ keys' = {k \in keys : k.node # n \/ k.lease # l}

\* CloseLockSession, the end of a shutdown.  The mount is another process: what
\* its kernel still has cached stays.
Close(n) ==
  /\ act[n].pc = "close"
  /\ Revoke(n, sess[n].lease)
  /\ sess' = [sess EXCEPT ![n].done = TRUE]
  /\ Goto(n, "down")
  /\ UNCHANGED <<pub, watch, ent, wants, kernel, blocks, load, ghosts>>

-----------------------------------------------------------------------------
(* The lock session. *)

\* No process keeps the lease alive any more.
Abandoned(n, l) == l # sess[n].lease \/ sess[n].done \/ act[n].pc = "panic"

\* etcd expires a lease and deletes the keys under it.  What its holder has
\* acknowledged and not published is lost from here on.
Expire(n, l) ==
  /\ <<n, l>> \in live
  /\ IF Abandoned(n, l) THEN UNCHANGED load
       ELSE load.losses > 0 /\ load' = [load EXCEPT !.losses = @ - 1]
  /\ Revoke(n, l)
  /\ acked' = IF \E k \in keys : k.node = n /\ k.lease = l /\ k.mode = "exclusive"
                THEN pub.val ELSE acked
  /\ expired' = TRUE
  /\ UNCHANGED <<pub, session, ent, act, recall, wants, kernel, blocks, mine, durable, keyless>>

\* The session's client learns that its lease is gone.
SessionDone(n) ==
  /\ sess[n].lease # 0 /\ ~sess[n].done /\ <<n, sess[n].lease>> \notin live
  /\ sess' = [sess EXCEPT ![n].done = TRUE]
  /\ UNCHANGED <<etcd, watch, ent, act, recall, wants, kernel, blocks, load, ghosts>>

\* No activity of the node holds the entry's keyMu.
KeyMuFree(n) == act[n].pc \in {"idle", "ensure", "meta", "act", "commit"}

\* StartSessionWatch: waits on the current session, and when that one ends
\* drops the entry if its key was written under it.
WatchSession(n) ==
  /\ ~Gone(n) /\ watch[n] = 0 /\ sess[n].lease # 0
  /\ watch' = [watch EXCEPT ![n] = sess[n].lease]
  /\ UNCHANGED <<etcd, sess, ent, act, recall, wants, kernel, blocks, load, ghosts>>

DropCaches(n) ==
  /\ ~Gone(n) /\ watch[n] # 0 /\ KeyMuFree(n)
  /\ sess[n].lease # watch[n] \/ sess[n].done
  /\ watch' = [watch EXCEPT ![n] = 0]
  /\ IF ent[n].holder # None /\ ent[n].holder.lease = watch[n]
       THEN KeyLost(n)
       ELSE UNCHANGED <<ent, kernel, blocks, load>>
  /\ UNCHANGED <<etcd, sess, act, recall, wants, ghosts>>

\* The daemon dies and starts again: its memory is gone, its lease is left to
\* expire, and its bitmap is rebuilt from the published extents.  The mount and
\* its pages stay.
Crash(n) ==
  /\ ~Gone(n) /\ load.crashes > 0
  /\ load' = [load EXCEPT !.crashes = @ - 1]
  /\ ent' = [ent EXCEPT ![n] = NoEntry]
  /\ act' = [act EXCEPT ![n] = Idle]
  /\ recall' = [recall EXCEPT ![n] = "none"]
  /\ wants' = [wants EXCEPT ![n] = FALSE]
  /\ deaf' = [deaf EXCEPT ![n] = "now"]
  /\ sess' = [sess EXCEPT ![n].done = TRUE]
  /\ watch' = [watch EXCEPT ![n] = 0]
  /\ used' = {b \in used : by[b] # n \/ b = pub.blk}
  /\ acked' = IF Pending(ent[n]) /\ KeyLive(n) THEN pub.val ELSE acked
  /\ expired' = TRUE
  /\ UNCHANGED <<etcd, pages, seq, by, mine, durable, keyless>>

\* An open is answered as cacheable: pages are invalidated again from here on.
Reopen(n) ==
  /\ ~Gone(n) /\ load.ops > 0 /\ deaf[n] = "now"
  /\ load' = [load EXCEPT !.ops = @ - 1]
  /\ deaf' = [deaf EXCEPT ![n] = "before"]
  /\ UNCHANGED <<etcd, session, ent, act, recall, wants, pages, blocks, ghosts>>

-----------------------------------------------------------------------------
\* The inode exists with a block of its creator and no lock on it, or was just
\* created empty and its creator holds its lock (seedCreatedLock).
Init ==
  \E w \in Workloads :
  LET c == w.creator
      tok == [node |-> c, lease |-> 1, id |-> 1, mode |-> "exclusive"]
      meta == [val |-> 0, blk |-> None, ver |-> 0, for |-> tok]
  IN
  /\ load = w
  /\ keys = IF w.seeded THEN {tok} ELSE {}
  /\ live = IF w.seeded THEN {<<c, 1>>} ELSE {}
  /\ pub = [val |-> 0, blk |-> IF w.seeded THEN None ELSE 0, ver |-> 0, exists |-> TRUE]
  /\ sess = [n \in Nodes |-> [lease |-> IF w.seeded /\ n = c THEN 1 ELSE 0, done |-> FALSE]]
  /\ ent = [n \in Nodes |-> IF w.seeded /\ n = c
                              THEN [holder |-> tok, meta |-> meta, buf |-> None] ELSE NoEntry]
  /\ watch = [n \in Nodes |-> 0]
  /\ act = [n \in Nodes |-> Idle]
  /\ recall = [n \in Nodes |-> "none"]
  /\ wants = [n \in Nodes |-> FALSE]
  /\ pages = [n \in Nodes |-> None] /\ deaf = [n \in Nodes |-> "never"]
  /\ seq = 0 /\ by = [b \in Block |-> c] /\ used = IF w.seeded THEN {} ELSE {0}
  /\ acked = 0 /\ mine = [n \in Nodes |-> 0] /\ durable = 0
  /\ expired = FALSE /\ keyless = FALSE

\* The next step of whatever runs under the entry's lock.
Activity(n) ==
  \/ Ensure(n) \/ DropKey(n) \/ Acquire(n) \/ ReadMeta(n) \/ Read(n)
  \/ BufferWrite(n) \/ SyncWrite(n) \/ SetSize(n) \/ Flush(n) \/ Settle(n)
  \/ Invalidate(n) \/ ForceRelease(n) \/ Close(n)

Next ==
  \E n \in Nodes :
    \/ \E k \in Requests : Start(n, k)
    \/ \E k \in Yields : Yield(n, k)
    \/ \E l \in Leases : Expire(n, l)
    \/ Activity(n) \/ GiveUp(n) \/ WriteRefused(n) \/ Sweep(n) \/ Remove(n)
    \/ LockWanted(n) \/ Recall(n) \/ RecallEnd(n)
    \/ SessionDone(n) \/ WatchSession(n) \/ DropCaches(n) \/ Crash(n) \/ Reopen(n)

Spec == Init /\ [][Next]_vars

\* The goroutine under the lock goes on, want events are delivered, and etcd
\* expires leases nobody renews.  No request has to arrive and nothing has to
\* fail.  A recall waits in Mutex.Lock, which later TryLocks cannot overtake for
\* ever.
Fairness ==
  \A n \in Nodes :
    /\ WF_vars(Activity(n)) /\ WF_vars(LockWanted(n))
    /\ SF_vars(Recall(n)) /\ WF_vars(RecallEnd(n))
    /\ WF_vars(\E l \in Leases : Abandoned(n, l) /\ Expire(n, l))

FairSpec == Spec /\ Fairness

-----------------------------------------------------------------------------
(* Properties. *)

\* A snapshot that heldLock.meta would trust, under a key etcd still has, is
\* what the node's own buffer makes of the inode, or exactly what etcd holds.
SnapshotsTrue ==
  \A n \in Nodes :
    LET e == ent[n] IN
    KeyLive(n) /\ e.meta # None /\ e.meta.for = e.holder =>
      IF Pending(e) THEN e.meta.val = Max(e.buf.vals)
      ELSE e.meta.val = pub.val /\ e.meta.ver = pub.ver

\* The same, unless a write was buffered after its lock key had been dropped.
CachedTruth == keyless \/ SnapshotsTrue

\* Until a session is lost, the kernel of a running node caches an inode only
\* while the node holds its lock, and then the last acknowledged content: a page
\* cache has no timeout, so a page left behind would hide a peer's writes for
\* good.  An invalidation the client did not answer in time is the exception.
PagesCurrent ==
  ~expired => \A n \in Nodes :
    pages[n] # None /\ deaf[n] = "never" /\ act[n].pc # "down" =>
      KeyLive(n) /\ pages[n] = acked

\* The same whether or not the client answered: "a client that is merely wedged
\* still has that session, and its pages may still hold what a peer is about to
\* overwrite -- so the release has to fail" (notify.go).
WedgedKeepsKey ==
  ~expired => \A n \in Nodes :
    pages[n] # None /\ act[n].pc # "down" => KeyLive(n)

\* The block the published extents name is allocated in its owner's bitmap:
\* the allocator cannot hand it to another write.
PublishedReserved == pub.blk # None => pub.blk \in used

\* What an operation in progress under a live lock works on.
View == [n \in Nodes |->
  IF ~keyless /\ act[n].pc = "act" /\ KeyLive(n) THEN act[n].m.val ELSE None]

\* What etcd holds, as long as the block it names is kept for it.
Stable == IF expired \/ PublishedReserved THEN pub.val ELSE None

File == INSTANCE SharedFile WITH
  latest <- acked, stable <- Stable, synced <- durable, lost <- expired, view <- View

\* The cached locks implement a shared file: the last acknowledged write is the
\* latest content, etcd's is the stable one (until a session is lost its blocks
\* stay reserved), and an operation under a live lock works on what it sees.
\* A write buffered after its key had been dropped ends what is promised to the
\* operations (but not what is promised of etcd).
ImplementsSharedFile == File!Spec

\* Every lock key in etcd is one its node still knows by its token, so that a
\* recall, an eviction or a shutdown can delete it.
KeysKnown ==
  \A k \in keys : <<k.node, sess[k.node].lease>> \in live =>
    k \in {ent[k.node].holder, act[k.node].tok}

\* Until a session is lost, a request that waits for the lock gets it in the
\* end: the want it announces again on every attempt reaches the holder, whose
\* recall publishes and yields.  The exception is a lock key that no node knows
\* any more (KeysKnown), which stands until its session ends.
LockGranted ==
  \A n \in Nodes :
    act[n].pc = "acquire" ~> act[n].pc # "acquire" \/ expired \/ ~KeysKnown
=============================================================================
