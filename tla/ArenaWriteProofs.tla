------------------------- MODULE ArenaWriteProofs --------------------------
(* The steps by which a write comes by an arena and its blocks keep the invariant of
   the allocator, for any number of nodes, writes, arenas and failures. *)
EXTENDS ArenaAllocator, TLAPS

\* The running write is a write of some node.
LEMMA Located ==
  ASSUME ArenaTypes, NEW p \in load.writes
  PROVE  p \in Writes /\ Home[p] \in Nodes /\ w[p] \in WriteState /\ load.sizes \subseteq Nat
BY ArenaAssumption DEF ArenaTypes

\* A step in which writes only move on with nothing in hand, or give up.
LEMMA Uneventful ==
  ASSUME ArenaTypes, ArenaInv, ArenaTypes',
         UNCHANGED <<owner, extents, state, arenas, marked, reap, freeing, suspects>>,
         pool' \subseteq pool, counter' >= counter,
         \A q \in Writes :
           \/ w'[q] = w[q]
           \/ Running(q) /\ w'[q].pc \in {"idle", "list", "claim", "count", "allocate"}
  PROVE  ArenaInv'
<1> USE DEF ArenaInv, Sure, suspects
<1>1. OnePlace'
    BY DEF OnePlace, ArenaTypes
<1>2. ListsOwned' /\ FreeingMarked'
    BY DEF ListsOwned, FreeingMarked
<1>3. JoinsOnce'
    BY DEF JoinsOnce
<1>4. StoppedIdle'
    BY DEF StoppedIdle, Running
<1>5. ExtentsMarked'
    BY DEF ExtentsMarked, ArenaTypes, Block
<1>6. ReservedMarked'
    BY DEF ReservedMarked
<1> QED
    BY <1>1, <1>2, <1>3, <1>4, <1>5, <1>6

\* What a block's arena is.
LEMMA ArenaOfBlock ==
  ASSUME NEW S \in SUBSET Nat, NEW b \in Block
  PROVE  b[1] \in Nat /\ (b \in BlocksOf(S) <=> b[1] \in S)
BY DEF Block, BlocksOf

\* Free blocks that are sure are in the node's arenas and nobody else's: no record
\* names them, none is on its way to be freed and no write has reserved them.
LEMMA FreeBlocksUnused ==
  ASSUME ArenaTypes, ArenaInv, NEW n \in Nodes, state[n] = "up", NEW b \in FreeBlocks(n),
         Sure(b)
  PROVE  /\ b \in Block /\ b[1] \in arenas[n] /\ b \notin extents /\ b \notin freeing[n]
         /\ \A q \in Writes : w[q].pc = "reserved" => b \notin w[q].blocks
<1>1. b \in Block /\ b[1] \in arenas[n] /\ b \notin marked[n]
    BY ArenaOfBlock DEF FreeBlocks, BlocksOf, Block, ArenaTypes
<1>2. b \notin extents /\ b \notin freeing[n]
    BY <1>1 DEF ArenaInv, ExtentsMarked, FreeingMarked, Sure
<1>3. ASSUME NEW q \in Writes, w[q].pc = "reserved", b \in w[q].blocks PROVE FALSE
  <2>1. Home[q] \in Nodes /\ b \in marked[Home[q]] /\ b[1] \in arenas[Home[q]]
    BY <1>3, ArenaAssumption DEF ArenaInv, ReservedMarked, Sure
  <2>2. b[1] \in owner[n] /\ b[1] \in owner[Home[q]]
    BY <1>1, <2>1 DEF ArenaInv, ListsOwned, Sure
  <2>3. Home[q] = n
    BY <2>1, <2>2 DEF ArenaInv, OnePlace
  <2> QED
    BY <1>1, <2>1, <2>3
<1> QED
    BY <1>1, <1>2, <1>3

\* Reserving free blocks.
LEMMA Reserving ==
  ASSUME ArenaTypes, ArenaInv, ArenaTypes', NEW p \in Writes, Running(p),
         NEW bs \in SUBSET FreeBlocks(Home[p]),
         marked' = [marked EXCEPT ![Home[p]] = @ \union bs],
         w'[p].pc = "reserved", w'[p].blocks = bs,
         \A q \in Writes \ {p} : w'[q] = w[q],
         UNCHANGED <<etcd, state, arenas, reap, freeing, suspects>>
  PROVE  ArenaInv'
<1> USE DEF ArenaInv, Sure, suspects
<1>0. Home[p] \in Nodes /\ state[Home[p]] = "up"
    BY ArenaAssumption DEF Running
<1>1. OnePlace'
    BY DEF OnePlace, etcd
<1>2. ListsOwned'
    BY DEF ListsOwned, etcd
<1>3. JoinsOnce'
    BY DEF JoinsOnce, etcd
<1>4. StoppedIdle'
    BY <1>0 DEF StoppedIdle
<1>5. \A n \in Nodes : marked[n] \subseteq marked'[n]
    BY <1>0 DEF ArenaTypes
<1>6. ExtentsMarked'
    BY <1>5 DEF ExtentsMarked, etcd
<1>7. FreeingMarked'
    BY <1>5 DEF FreeingMarked, etcd
<1>8. ReservedMarked'
  <2>1. ASSUME NEW b \in bs, Sure(b)
        PROVE  /\ b \in marked'[Home[p]] /\ b[1] \in arenas[Home[p]] /\ b \notin extents
               /\ b \notin freeing[Home[p]]
               /\ \A q \in Writes : w[q].pc = "reserved" => b \notin w[q].blocks
    BY <1>0, <2>1, FreeBlocksUnused DEF ArenaTypes
  <2>2. ASSUME NEW q \in Writes \ {p} PROVE Home[q] \in Nodes
    BY ArenaAssumption
  <2> QED
    BY <1>5, <2>1, <2>2 DEF ReservedMarked, etcd
<1> QED
    BY <1>1, <1>2, <1>3, <1>4, <1>6, <1>7, <1>8

\* Giving up, and asking once more, is uneventful.
LEMMA GivingUp ==
  ASSUME ArenaTypes, NEW p \in Writes, Running(p), Abandon(p) \/ NoSpace(p)
  PROVE  \A q \in Writes :
           \/ w'[q] = w[q]
           \/ Running(q) /\ w'[q].pc \in {"idle", "list", "claim", "count", "allocate"}
<1>1. [Idle EXCEPT !.pc = "list", !.want = w[p].want, !.again = TRUE].pc = "list"
      /\ Idle.pc = "idle"
    BY DEF Idle
<1>2. \/ w' = [w EXCEPT ![p] = Idle]
      \/ w' = [w EXCEPT ![p] = [Idle EXCEPT !.pc = "list", !.want = w[p].want, !.again = TRUE]]
    BY DEF Abandon, NoSpace
<1> QED
    BY Zenon, <1>1, <1>2 DEF ArenaTypes

\* A write draws an arena that is nowhere else.
LEMMA Drawing ==
  ASSUME ArenaTypes, ArenaInv, ArenaTypes', NEW p \in Writes, Running(p), NEW a \in Nat,
         w'[p].pc = "drawn", w'[p].arena = a,
         \A q \in Writes \ {p} : w'[q] = w[q],
         UNCHANGED <<owner, extents, state, arenas, marked, reap, freeing, suspects>>,
         pool' \subseteq pool, a \notin pool', counter' >= counter, a < counter',
         \A n \in Nodes : a \notin owner[n],
         \A q \in Writes : w[q].pc = "drawn" => w[q].arena # a,
         ~w'[p].reused => \A b \in extents : Sure(b) => b[1] # a
  PROVE  ArenaInv'
<1> USE DEF ArenaInv, Sure, suspects
<1>1. OnePlace'
  <2>1. \A q \in Writes : w'[q].pc = "drawn" => q = p \/ w'[q] = w[q]
    OBVIOUS
  <2>2. /\ \A c \in pool' : c < counter'
        /\ \A n \in Nodes : \A c \in owner'[n] :
             c < counter' /\ c \notin pool' /\ \A m \in Nodes \ {n} : c \notin owner'[m]
    BY DEF OnePlace, ArenaTypes
  <2>3. ASSUME NEW q \in Writes, w'[q].pc = "drawn"
        PROVE  /\ w'[q].arena \in Nat /\ w'[q].arena < counter' /\ w'[q].arena \notin pool'
               /\ \A n \in Nodes : w'[q].arena \notin owner'[n]
               /\ \A r \in Writes \ {q} : w'[r].pc = "drawn" => w'[r].arena # w'[q].arena
    BY <2>3 DEF OnePlace, ArenaTypes
  <2> QED
    BY <2>2, <2>3 DEF OnePlace
<1>2. ListsOwned' /\ FreeingMarked'
    BY DEF ListsOwned, FreeingMarked
<1>3. JoinsOnce'
    BY DEF JoinsOnce
<1>4. StoppedIdle'
    BY DEF StoppedIdle, Running
<1>5. ExtentsMarked'
    BY DEF ExtentsMarked, ArenaTypes, Block
<1>6. ReservedMarked'
    BY DEF ReservedMarked
<1> QED
    BY <1>1, <1>2, <1>3, <1>4, <1>5, <1>6

\* A write draws from the pool, or finds the candidate gone.
LEMMA ClaimInv ==
  ASSUME ArenaTypes, ArenaInv, ArenaTypes', NEW p \in Writes, ClaimFreeArena(p)
  PROVE  ArenaInv'
<1>0. PICK a \in w[p].list :
        \/ /\ a \in pool /\ pool' = pool \ {a}
           /\ w' = [w EXCEPT ![p].pc = "drawn", ![p].arena = a, ![p].reused = TRUE,
                             ![p].list = {}]
        \/ w' = [w EXCEPT ![p].list = @ \ {a}] /\ UNCHANGED pool
        \/ /\ pool' \in {pool, pool \ {a}}
           /\ w' = [w EXCEPT ![p].pc = "count", ![p].list = {}]
    BY Zenon DEF ClaimFreeArena
<1>1. /\ Running(p)
      /\ UNCHANGED <<counter, owner, extents, state, arenas, marked, reap, freeing, suspects>>
    BY DEF ClaimFreeArena, local
<1>2. CASE /\ a \in pool /\ pool' = pool \ {a}
           /\ w' = [w EXCEPT ![p].pc = "drawn", ![p].arena = a, ![p].reused = TRUE,
                             ![p].list = {}]
  <2>1. w'[p].pc = "drawn" /\ w'[p].arena = a /\ w'[p].reused
        /\ \A q \in Writes \ {p} : w'[q] = w[q]
    BY <1>2 DEF ArenaTypes, WriteState
  <2>2. /\ a \in Nat /\ a < counter /\ \A n \in Nodes : a \notin owner[n]
        /\ \A q \in Writes : w[q].pc = "drawn" => w[q].arena # a
    BY <1>2 DEF ArenaInv, OnePlace, ArenaTypes
  <2> QED
    BY <1>1, <1>2, <2>1, <2>2, Drawing DEF ArenaTypes
<1>3. CASE w' = [w EXCEPT ![p].list = @ \ {a}] /\ UNCHANGED pool
  <2>1. \A q \in Writes :
           \/ w'[q] = w[q]
           \/ Running(q) /\ w'[q].pc \in {"idle", "list", "claim", "count", "allocate"}
    BY <1>1, <1>3 DEF ArenaTypes, WriteState, ClaimFreeArena
  <2> QED
    BY <1>1, <1>3, <2>1, Uneventful DEF ArenaTypes
<1>4. CASE /\ pool' \in {pool, pool \ {a}}
           /\ w' = [w EXCEPT ![p].pc = "count", ![p].list = {}]
  <2>1. \A q \in Writes :
           \/ w'[q] = w[q]
           \/ Running(q) /\ w'[q].pc \in {"idle", "list", "claim", "count", "allocate"}
    BY <1>1, <1>4 DEF ArenaTypes, WriteState
  <2> QED
    BY <1>1, <1>4, <2>1, Uneventful DEF ArenaTypes
<1> QED
    BY <1>0, <1>2, <1>3, <1>4

\* A new arena has no extents in it.
LEMMA CounterInv ==
  ASSUME ArenaTypes, ArenaInv, ArenaTypes', NEW p \in Writes, NextCounter(p)
  PROVE  ArenaInv'
<1>1. /\ Running(p)
      /\ UNCHANGED <<pool, owner, extents, state, arenas, marked, reap, freeing, suspects>>
      /\ counter' \in {counter, counter + 1}
    BY DEF NextCounter, local
<1>2. CASE /\ counter' = counter + 1
           /\ w' = [w EXCEPT ![p].pc = "drawn", ![p].arena = counter, ![p].reused = FALSE]
  <2>1. /\ w'[p].pc = "drawn" /\ w'[p].arena = counter
        /\ \A q \in Writes \ {p} : w'[q] = w[q]
    BY <1>2 DEF ArenaTypes, WriteState
  <2>2. /\ counter \in Nat /\ counter < counter' /\ counter \notin pool
        /\ \A n \in Nodes : counter \notin owner[n]
        /\ \A q \in Writes : w[q].pc = "drawn" => w[q].arena # counter
    BY <1>2 DEF ArenaInv, OnePlace, ArenaTypes
  <2>3. \A b \in extents : Sure(b) => b[1] # counter
    BY DEF ArenaInv, ExtentsMarked, ArenaTypes, Block
  <2> QED
    BY <1>1, <2>1, <2>2, <2>3, Drawing
<1>3. CASE Abandon(p)
    BY <1>1, <1>3, GivingUp, Uneventful DEF ArenaTypes
<1> QED
    BY <1>2, <1>3 DEF NextCounter

\* The owner is recorded: the arena passes from the write to its node.
LEMMA RecordInv ==
  ASSUME ArenaTypes, ArenaInv, ArenaTypes', NEW p \in Writes, RecordOwnership(p)
  PROVE  ArenaInv'
<1> DEFINE a == w[p].arena
           h == Home[p]
<1> USE DEF ArenaInv, Sure, suspects
<1>1. /\ Running(p) /\ w[p].pc = "drawn" /\ h \in Nodes
      /\ UNCHANGED <<counter, pool, extents, state, arenas, marked, reap, freeing, suspects>>
      /\ a \in Nat /\ a < counter /\ a \notin pool /\ \A n \in Nodes : a \notin owner[n]
    BY ArenaAssumption DEF RecordOwnership, local, OnePlace
<1>2. \A q \in Writes \ {p} : w'[q] = w[q]
    BY DEF RecordOwnership, Abandon, ArenaTypes
<1>3. \/ owner' = owner
      \/ owner' = [owner EXCEPT ![h] = @ \union {a}]
    BY DEF RecordOwnership
<1>4. \/ w'[p].pc = "idle"
      \/ /\ owner' = [owner EXCEPT ![h] = @ \union {a}]
         /\ w'[p].arena = a /\ w'[p].reused = w[p].reused
         /\ w'[p].pc = IF w[p].reused THEN "scan" ELSE "attach"
    BY <1>1 DEF RecordOwnership, Abandon, Idle, ArenaTypes, WriteState
<1>5. \A n \in Nodes : \A c \in owner'[n] : c \in owner[n] \/ (n = h /\ c = a)
  <2>1. CASE owner' = [owner EXCEPT ![h] = @ \union {a}]
    BY <1>1, <2>1 DEF ArenaTypes
  <2> QED
    BY <1>3, <2>1
<1>6. \A n \in Nodes : owner[n] \subseteq owner'[n]
    BY <1>1, <1>3 DEF ArenaTypes
<1>7. OnePlace'
  <2>1. \A n \in Nodes : \A c \in owner'[n] :
             c < counter /\ c \notin pool /\ \A m \in Nodes \ {n} : c \notin owner'[m]
    <3>1. \A n \in Nodes : \A c \in owner'[n] : c < counter /\ c \notin pool
      BY <1>1, <1>5 DEF OnePlace
    <3>2. ASSUME NEW n \in Nodes, NEW m \in Nodes \ {n}, NEW c \in owner'[n], c \in owner'[m]
          PROVE  FALSE
      BY <1>1, <1>5, <3>2 DEF OnePlace
    <3> QED
      BY <3>1, <3>2
  <2>2. ASSUME NEW q \in Writes, w'[q].pc = "drawn"
        PROVE  /\ w'[q].arena \in Nat /\ w'[q].arena < counter /\ w'[q].arena \notin pool
               /\ \A n \in Nodes : w'[q].arena \notin owner'[n]
               /\ \A r \in Writes \ {q} : w'[r].pc = "drawn" => w'[r].arena # w'[q].arena
    <3>1. q # p /\ w'[q] = w[q]
      BY <2>2, <1>2, <1>4
    <3>2. \A r \in Writes : w'[r].pc = "drawn" => r # p /\ w'[r] = w[r]
      BY <1>2, <1>4
    <3> QED
      BY <2>2, <3>1, <3>2, <1>1, <1>5 DEF OnePlace
  <2> QED
    BY <1>1, <2>1, <2>2 DEF OnePlace
<1>8. ListsOwned' /\ FreeingMarked'
    BY <1>1, <1>6 DEF ListsOwned, FreeingMarked
<1>9. JoinsOnce'
  <2>1. ASSUME NEW q \in Writes, w'[q].pc \in {"scan", "attach"}, w'[q].arena \notin strayed
        PROVE  /\ w'[q].arena \in owner'[Home[q]]
               /\ w'[q].arena \notin arenas[Home[q]] /\ w'[q].arena \notin reap[Home[q]]
               /\ q = p \/ w'[q].arena # a
    <3>1. CASE q = p
      BY <3>1, <2>1, <1>1, <1>4 DEF ListsOwned, ArenaTypes
    <3>2. CASE q # p
      BY <3>2, <2>1, <1>1, <1>2, <1>6, ArenaAssumption DEF JoinsOnce
    <3> QED
      BY <3>1, <3>2
  <2>2. w'[p].pc \in {"scan", "attach"} => w'[p].arena = a
    BY <1>4
  <2> QED
    BY <1>1, <1>2, <2>1, <2>2 DEF JoinsOnce
<1>10. StoppedIdle'
    BY <1>1, <1>2 DEF StoppedIdle, Running
<1>11. ExtentsMarked'
  <2>1. \A q \in Writes : w'[q].pc \in {"drawn", "attach"} =>
          w'[q] = w[q] \/ (q = p /\ w'[q].pc = "attach" /\ w'[q].arena = a /\ ~w[p].reused)
    BY <1>2, <1>4
  <2> QED
    BY <1>1, <2>1 DEF ExtentsMarked
<1>12. ReservedMarked'
    BY <1>1, <1>2, <1>4 DEF ReservedMarked
<1> QED
    BY <1>7, <1>8, <1>9, <1>10, <1>11, <1>12

\* The scan finds the blocks in use before the arena is listed.
LEMMA ScanInv ==
  ASSUME ArenaTypes, ArenaInv, ArenaTypes', NEW p \in Writes, ScanExtents(p)
  PROVE  ArenaInv'
<1>1. /\ Running(p) /\ w[p].pc = "scan"
      /\ UNCHANGED <<counter, pool, owner, extents, state, arenas, marked, reap, freeing, suspects>>
    BY DEF ScanExtents, local, etcd
<1>2. CASE Abandon(p)
    BY <1>1, <1>2, GivingUp, Uneventful DEF ArenaTypes
<1>3. CASE w' = [w EXCEPT ![p].pc = "attach", ![p].blocks = LiveIn({w[p].arena})]
  <2> USE DEF ArenaInv, Sure, suspects
  <2>1. /\ w'[p].pc = "attach" /\ w'[p].arena = w[p].arena
        /\ w'[p].blocks = LiveIn({w[p].arena})
        /\ \A q \in Writes \ {p} : w'[q] = w[q]
    BY <1>3 DEF ArenaTypes, WriteState
  <2>2. OnePlace'
    BY <1>1, <2>1 DEF OnePlace
  <2>3. ListsOwned' /\ FreeingMarked'
    BY <1>1 DEF ListsOwned, FreeingMarked
  <2>4. JoinsOnce'
    <3>1. \A q \in Writes : /\ w'[q].pc \in {"scan", "attach"} => w[q].pc \in {"scan", "attach"}
                            /\ w'[q].arena = w[q].arena
      BY <1>1, <2>1
    <3> QED
      BY <1>1, <3>1 DEF JoinsOnce
  <2>5. StoppedIdle'
    BY <1>1, <2>1 DEF StoppedIdle, Running
  <2>6. ASSUME NEW b \in extents, b[1] = w[p].arena PROVE b \in LiveIn({w[p].arena})
    BY <2>6 DEF LiveIn, BlocksOf, Block, ArenaTypes
  <2>7. ExtentsMarked'
    <3>1. ASSUME NEW b \in extents, Sure(b), NEW q \in Writes
          PROVE  /\ w'[q].pc = "drawn" /\ ~w'[q].reused => b[1] # w'[q].arena
                 /\ w'[q].pc = "attach" /\ b[1] = w'[q].arena => b \in w'[q].blocks
      <4>1. CASE q = p
        BY <2>1, <2>6, <4>1
      <4>2. CASE q # p
        BY <2>1, <3>1, <4>2 DEF ExtentsMarked
      <4> QED
        BY <4>1, <4>2
    <3> QED
      BY <1>1, <3>1 DEF ExtentsMarked
  <2>8. ReservedMarked'
    <3>1. \A q \in Writes : w'[q].pc = "reserved" => w'[q] = w[q]
      BY <2>1
    <3> QED
      BY <1>1, <3>1 DEF ReservedMarked
  <2> QED
    BY <2>2, <2>3, <2>4, <2>5, <2>7, <2>8
<1> QED
    BY <1>2, <1>3 DEF ScanExtents

\* The arena is listed with every block in use marked.
LEMMA AttachInv ==
  ASSUME ArenaTypes, ArenaInv, ArenaTypes', NEW p \in Writes, Attach(p)
  PROVE  ArenaInv'
<1> DEFINE a == w[p].arena
           h == Home[p]
<1> USE DEF ArenaInv, Sure, suspects
<1>1. /\ Running(p) /\ w[p].pc = "attach" /\ h \in Nodes
      /\ UNCHANGED <<counter, pool, owner, extents, state, reap, freeing, suspects>>
    BY ArenaAssumption DEF Attach, etcd
<1>a. /\ arenas' = [arenas EXCEPT ![h] = @ \union {a}]
      /\ marked' = [marked EXCEPT ![h] = @ \union w[p].blocks]
    BY DEF Attach
<1>2. w'[p].pc = "allocate" /\ \A q \in Writes \ {p} : w'[q] = w[q]
  <2>1. [Idle EXCEPT !.pc = "allocate", !.want = w[p].want].pc = "allocate"
    BY DEF Idle
  <2> QED
    BY <2>1 DEF Attach, ArenaTypes
<1>3. a \notin strayed => a \in owner[h] /\ a \notin arenas[h] /\ a \notin reap[h]
    BY <1>1 DEF JoinsOnce
<1>4. \A n \in Nodes : \A c \in arenas'[n] : c \in arenas[n] \/ (n = h /\ c = a)
    BY <1>1, <1>a DEF ArenaTypes
<1>5. \A n \in Nodes : arenas[n] \subseteq arenas'[n] /\ marked[n] \subseteq marked'[n]
    BY <1>1, <1>a DEF ArenaTypes
<1>6. OnePlace'
    BY <1>1, <1>2 DEF OnePlace
<1>7. ListsOwned'
    BY <1>1, <1>3, <1>4 DEF ListsOwned
<1>8. JoinsOnce'
  <2>1. ASSUME NEW q \in Writes, w'[q].pc \in {"scan", "attach"}, w'[q].arena \notin strayed
        PROVE  /\ w'[q] = w[q] /\ q # p /\ w[q].arena # a
               /\ w[q].arena \in owner[Home[q]]
               /\ w[q].arena \notin arenas'[Home[q]] /\ w[q].arena \notin reap[Home[q]]
    BY <2>1, <1>1, <1>2, <1>4, ArenaAssumption DEF JoinsOnce
  <2>2. \A q \in Writes : w'[q].pc \in {"scan", "attach"} => w'[q] = w[q]
    BY <1>2
  <2>3. ASSUME NEW q \in Writes, NEW r \in Writes \ {q}, w'[q].pc \in {"scan", "attach"},
               w'[q].arena \notin strayed, w'[r].pc \in {"scan", "attach"}
        PROVE  w'[r].arena # w'[q].arena
    BY <2>2, <2>3 DEF JoinsOnce
  <2> QED
    BY <1>1, <2>1, <2>3 DEF JoinsOnce
<1>9. StoppedIdle'
  <2>1. \A n \in Nodes : state[n] # "up" => n # h /\ arenas'[n] = arenas[n]
    BY <1>1, <1>a DEF Running, ArenaTypes
  <2>2. \A q \in Writes : Home[q] # h => w'[q] = w[q]
    BY <1>2
  <2> QED
    BY <1>1, <2>1, <2>2 DEF StoppedIdle
<1>10. ExtentsMarked'
  <2>1. ASSUME NEW b \in extents, NEW n \in Nodes, state[n] = "up", b[1] \in arenas'[n], Sure(b)
        PROVE  b \in marked'[n]
    <3>1. CASE b[1] \in arenas[n]
      BY <3>1, <2>1, <1>5 DEF ExtentsMarked
    <3>2. CASE n = h /\ b[1] = a
      BY <3>2, <2>1, <1>1, <1>a DEF ExtentsMarked, ArenaTypes
    <3> QED
      BY <2>1, <1>4, <3>1, <3>2
  <2>2. \A q \in Writes : w'[q].pc \in {"drawn", "attach"} => w'[q] = w[q]
    BY <1>2
  <2>3. ASSUME NEW b \in extents, Sure(b), NEW q \in Writes
        PROVE  /\ w'[q].pc = "drawn" /\ ~w'[q].reused => b[1] # w'[q].arena
               /\ w'[q].pc = "attach" /\ b[1] = w'[q].arena => b \in w'[q].blocks
    <3>1. /\ w[q].pc = "drawn" /\ ~w[q].reused => b[1] # w[q].arena
          /\ w[q].pc = "attach" /\ b[1] = w[q].arena => b \in w[q].blocks
      BY <2>3 DEF ExtentsMarked
    <3> QED
      BY <2>2, <3>1
  <2> QED
    BY <1>1, <2>1, <2>3 DEF ExtentsMarked
<1>11. FreeingMarked'
    BY <1>1, <1>5 DEF FreeingMarked
<1>12. ReservedMarked'
    BY <1>1, <1>2, <1>5, ArenaAssumption DEF ReservedMarked
<1> QED
    BY <1>6, <1>7, <1>8, <1>9, <1>10, <1>11, <1>12
============================================================================
