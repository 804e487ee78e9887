----------------------------- MODULE SharedFile -----------------------------
(* What the nodes of a cluster are promised of one file they share.

   Writes are numbered in the order they are answered.  The latest write is
   what every node sees; the stable one is what etcd holds and survives
   anything.  A write may be answered before it is stable, a successful fsync
   makes the caller's writes stable, and only the loss of a lock session or a
   daemon takes back a write that was answered. *)
EXTENDS Naturals

CONSTANTS Nodes, None

VARIABLES
  latest,   \* the last write answered and not taken back
  stable,   \* the last write published
  synced,   \* the last write a successful fsync answered for
  lost,     \* some session or daemon was lost
  view      \* the content an operation in progress on a node works on, if any

vars == <<latest, stable, synced, lost, view>>

TypeOK ==
  /\ latest \in Nat /\ stable \in Nat /\ synced \in Nat
  /\ lost \in BOOLEAN
  /\ view \in [Nodes -> Nat \union {None}]

Init ==
  /\ latest = 0 /\ stable = 0 /\ synced = 0 /\ lost = FALSE
  /\ view = [n \in Nodes |-> None]

\* Operations may end at any time.
ViewsEnd ==
  /\ view' \in [Nodes -> Nat \union {None}]
  /\ \A n \in Nodes : view'[n] \in {None, view[n]}

\* An fsync is answered only for what is stable, until something was lost.
Syncs ==
  synced' \in Nat /\ synced' >= synced /\ (synced' = synced \/ lost \/ synced' <= stable')

\* An operation of n starts, on the latest content.
Begin(n) ==
  /\ view[n] = None
  /\ view' = [view EXCEPT ![n] = latest]
  /\ UNCHANGED <<latest, stable, synced, lost>>

\* A write is answered, with no operation of another node in progress.
Write(n) ==
  /\ \A p \in Nodes \ {n} : view[p] = None
  /\ latest' \in Nat /\ latest' > latest
  /\ stable' \in {stable, latest'}
  /\ Syncs
  /\ view' = [p \in Nodes |-> None]
  /\ UNCHANGED lost

\* Writes that were answered become stable, or an fsync is answered.
Publish ==
  /\ stable' \in {stable, latest}
  /\ Syncs /\ ViewsEnd
  /\ UNCHANGED <<latest, lost>>

\* A session or a daemon is lost.  Unpublished writes may go with it; no
\* operation that saw them goes on.
Lose ==
  /\ lost' = TRUE
  /\ latest' \in {latest, stable}
  /\ ViewsEnd
  /\ latest' # latest => \A n \in Nodes : view'[n] = None
  /\ UNCHANGED <<stable, synced>>

Next == (\E n \in Nodes : Begin(n) \/ Write(n)) \/ Publish \/ Lose

Spec == Init /\ [][Next]_vars

-----------------------------------------------------------------------------
(* What follows from it. *)

\* An operation in progress works on the latest content, whichever node wrote
\* it and whether or not it is published (lockcache.go, delegate.go).
ViewsLatest == \A n \in Nodes : view[n] # None => view[n] = latest

\* Until something is lost, what fsync answered for is published (fsyncInode).
SyncedStable == ~lost => synced <= stable

\* Nothing is published that is newer than what was answered.
StableBehind == stable <= latest

\* etcd never goes back to an older write, losses or not (proposeFlushLocked).
StableForward == [][stable' >= stable]_vars
=============================================================================
