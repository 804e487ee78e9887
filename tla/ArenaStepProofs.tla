-------------------------- MODULE ArenaStepProofs --------------------------
(* The steps that use blocks and give them and their arenas back keep the invariant
   too, and with them every step of a write and of a node. *)
EXTENDS ArenaWriteProofs

\* What a node lists is in no other node's lists, unless it has strayed.
LEMMA ListedOnce ==
  ASSUME ArenaTypes, ArenaInv, NEW n \in Nodes, NEW m \in Nodes, NEW a \in arenas[n] \ strayed
  PROVE  /\ a \in arenas[m] \/ a \in reap[m] => m = n /\ a \notin reap[m]
         /\ \A q \in Writes : w[q].pc \in {"drawn", "scan", "attach"} => w[q].arena # a
<1> USE DEF ArenaInv, Sure, suspects
<1>1. a \in owner[n] /\ a \notin reap[n]
    BY DEF ListsOwned
<1>2. a \in arenas[m] \/ a \in reap[m] => a \in owner[m]
    BY DEF ListsOwned
<1>3. ASSUME NEW q \in Writes, w[q].pc = "drawn" PROVE w[q].arena # a
    BY <1>1, <1>3 DEF OnePlace
<1>4. ASSUME NEW q \in Writes, w[q].pc \in {"scan", "attach"}, w[q].arena = a PROVE FALSE
  <2>1. Home[q] \in Nodes /\ a \in owner[Home[q]] /\ a \notin arenas[Home[q]]
    BY <1>4, ArenaAssumption DEF JoinsOnce
  <2> QED
    BY <2>1, <1>1 DEF OnePlace
<1> QED
    BY <1>1, <1>2, <1>3, <1>4 DEF OnePlace

\* The write's records are committed, or its blocks are freed.
LEMMA CommitInv ==
  ASSUME ArenaTypes, ArenaInv, ArenaTypes', NEW p \in Writes, Commit(p)
  PROVE  ArenaInv'
<1> DEFINE bs == w[p].blocks
           h == Home[p]
<1> USE DEF ArenaInv, Sure, suspects
<1>1. /\ Running(p) /\ w[p].pc = "reserved" /\ h \in Nodes
      /\ UNCHANGED <<counter, pool, owner, state, arenas, reap, freeing, strayed>>
    BY ArenaAssumption DEF Commit
<1>2. w'[p].pc = "idle" /\ \A q \in Writes \ {p} : w'[q] = w[q]
    BY DEF Commit, Abandon, Idle, ArenaTypes
<1>3. \A b \in bs : Sure(b) =>
        /\ b \in Block /\ b \in marked[h] /\ b[1] \in arenas[h]
        /\ b \notin extents /\ b \notin freeing[h]
        /\ \A q \in Writes \ {p} : w[q].pc = "reserved" => b \notin w[q].blocks
    BY <1>1 DEF ReservedMarked, ArenaTypes, WriteState
<1>4. OnePlace'
    BY <1>1, <1>2 DEF OnePlace
<1>5. ListsOwned'
    BY <1>1 DEF ListsOwned
<1>6. JoinsOnce'
  <2>1. \A q \in Writes : w'[q].pc \in {"scan", "attach"} => w'[q] = w[q]
    BY <1>2
  <2> QED
    BY Zenon, <1>1, <2>1 DEF JoinsOnce
<1>7. StoppedIdle'
    BY <1>1, <1>2 DEF StoppedIdle, Running
<1>8. CASE extents' = extents \union bs /\ UNCHANGED <<marked, doubtful>>
  <2>1. ASSUME NEW b \in bs, Sure(b)
        PROVE  /\ b[1] < counter
               /\ \A n \in Nodes : /\ b[1] \in arenas[n] => b \in marked[n]
                                   /\ b[1] \notin reap[n] /\ b \notin freeing[n]
               /\ \A q \in Writes : w[q].pc \in {"drawn", "scan", "attach"} => w[q].arena # b[1]
    <3>1. \A n \in Nodes : (b[1] \in arenas[n] \/ b[1] \in reap[n] => n = h /\ b[1] \notin reap[n])
      BY <1>1, <1>3, <2>1, ListedOnce
    <3>2. \A q \in Writes : w[q].pc \in {"drawn", "scan", "attach"} => w[q].arena # b[1]
      BY <1>1, <1>3, <2>1, ListedOnce
    <3>3. b[1] < counter
      BY <1>1, <1>3, <2>1 DEF ListsOwned, OnePlace
    <3>4. \A n \in Nodes : b \notin freeing[n]
      BY <1>3, <2>1, <3>1 DEF FreeingMarked
    <3> QED
      BY <1>3, <2>1, <3>1, <3>2, <3>3, <3>4
  <2>2. ExtentsMarked'
    <3>1. \A q \in Writes : w'[q].pc \in {"drawn", "attach"} => w'[q] = w[q]
      BY <1>2
    <3>2. \A b \in extents' : b \in extents \/ b \in bs
      BY <1>8
    <3> QED
      BY <1>1, <1>8, <2>1, <3>1, <3>2 DEF ExtentsMarked
  <2>3. FreeingMarked'
    BY <1>1, <1>8, <2>1 DEF FreeingMarked
  <2>4. ReservedMarked'
    BY <1>1, <1>2, <1>3, <1>8 DEF ReservedMarked
  <2> QED
    BY <1>4, <1>5, <1>6, <1>7, <2>2, <2>3, <2>4
<1>9. CASE /\ marked' = Freed(h, bs)
           /\ \/ UNCHANGED <<extents, doubtful>>
              \/ extents' = extents \union bs /\ doubtful' = doubtful \union bs
  <2>1. \A n \in Nodes : \A b \in marked[n] : b \in marked'[n] \/ (n = h /\ b \in bs)
    BY <1>1, <1>9 DEF Freed, ArenaTypes
  <2>2. \A b : Sure(b)' => Sure(b)
    BY <1>1, <1>9
  <2>3. \A b \in extents' : Sure(b)' => b \in extents /\ b \notin bs
    BY <1>3, <1>9, <2>2
  <2>4. ExtentsMarked'
    <3>1. \A q \in Writes : w'[q].pc \in {"drawn", "attach"} => w'[q] = w[q]
      BY <1>2
    <3>2. ASSUME NEW b \in extents', Sure(b)', NEW n \in Nodes, state[n] = "up"
          PROVE  /\ b[1] < counter /\ b[1] \notin reap[n]
                 /\ b[1] \in arenas[n] => b \in marked'[n]
      BY <2>1, <2>2, <2>3, <3>2 DEF ExtentsMarked
    <3>3. ASSUME NEW b \in extents', Sure(b)', NEW q \in Writes
          PROVE  /\ b[1] < counter
                 /\ w'[q].pc = "drawn" /\ ~w'[q].reused => b[1] # w'[q].arena
                 /\ w'[q].pc = "attach" /\ b[1] = w'[q].arena => b \in w'[q].blocks
      <4>1. /\ b[1] < counter
            /\ w[q].pc = "drawn" /\ ~w[q].reused => b[1] # w[q].arena
            /\ w[q].pc = "attach" /\ b[1] = w[q].arena => b \in w[q].blocks
        BY <2>2, <2>3, <3>3 DEF ExtentsMarked
      <4> QED
        BY <3>1, <4>1
    <3> QED
      BY <1>1, <3>2, <3>3 DEF ExtentsMarked
  <2>5. FreeingMarked'
    <3> SUFFICES ASSUME NEW n \in Nodes, NEW b \in freeing[n], Sure(b)'
                 PROVE  b \in marked'[n] /\ b[1] \in arenas[n] /\ b \notin extents'
      BY <1>1 DEF FreeingMarked
    <3>1. b \in marked[n] /\ b[1] \in arenas[n] /\ b \notin extents
      BY <2>2 DEF FreeingMarked
    <3> QED
      BY <1>3, <2>1, <2>2, <2>3, <3>1
  <2>6. ReservedMarked'
    <3> SUFFICES ASSUME NEW q \in Writes, w'[q].pc = "reserved", NEW b \in w'[q].blocks, Sure(b)'
                 PROVE  /\ b \in marked'[Home[q]] /\ b[1] \in arenas[Home[q]]
                        /\ b \notin extents' /\ b \notin freeing[Home[q]]
                        /\ \A r \in Writes \ {q} : w'[r].pc = "reserved" => b \notin w'[r].blocks
      BY <1>1 DEF ReservedMarked
    <3>1. q # p /\ w'[q] = w[q] /\ Home[q] \in Nodes
      BY <1>2, ArenaAssumption
    <3>2. /\ b \in marked[Home[q]] /\ b[1] \in arenas[Home[q]]
          /\ b \notin extents /\ b \notin freeing[Home[q]]
          /\ \A r \in Writes \ {q} : w[r].pc = "reserved" => b \notin w[r].blocks
      BY <2>2, <3>1 DEF ReservedMarked
    <3>3. b \notin bs
      BY <1>1, <3>1, <3>2
    <3> QED
      BY <1>2, <2>1, <2>3, <3>1, <3>2, <3>3
  <2> QED
    BY <1>4, <1>5, <1>6, <1>7, <2>4, <2>5, <2>6
<1> QED
    BY <1>8, <1>9 DEF Commit

\* A record is deleted: its block is marked until it is freed.
LEMMA DeleteInv ==
  ASSUME ArenaTypes, ArenaInv, ArenaTypes', NEW n \in Nodes, NEW b \in extents, DeleteExtent(n, b)
  PROVE  ArenaInv'
<1> USE DEF ArenaInv, Sure, suspects
<1>1. /\ state[n] = "up" /\ b \in BlocksOf(arenas[n])
      /\ extents' = extents \ {b} /\ freeing' = [freeing EXCEPT ![n] = @ \union {b}]
      /\ UNCHANGED <<counter, pool, owner, state, arenas, marked, w, reap, suspects>>
    BY Zenon DEF DeleteExtent
<1>2. Sure(b) => b[1] \in arenas[n] /\ b \in marked[n]
    BY <1>1, ArenaOfBlock DEF ExtentsMarked, ArenaTypes
<1>3. \A m \in Nodes : \A c \in freeing'[m] : c \in freeing[m] \/ (m = n /\ c = b)
    BY <1>1 DEF ArenaTypes
<1>4. OnePlace' /\ ListsOwned' /\ JoinsOnce'
    BY <1>1 DEF OnePlace, ListsOwned, JoinsOnce
<1>5. StoppedIdle'
    BY <1>1 DEF StoppedIdle, ArenaTypes
<1>6. ExtentsMarked'
    BY ZenonT(40), <1>1 DEF ExtentsMarked
<1>7. FreeingMarked'
    BY <1>1, <1>2, <1>3 DEF FreeingMarked
<1>8. ReservedMarked'
    BY <1>1, <1>3, ArenaAssumption DEF ReservedMarked
<1> QED
    BY <1>4, <1>5, <1>6, <1>7, <1>8

\* A block is freed that no record names and no write has reserved.
LEMMA FreeInv ==
  ASSUME ArenaTypes, ArenaInv, ArenaTypes', NEW n \in Nodes, NEW b \in freeing[n], Free(n, b)
  PROVE  ArenaInv'
<1> USE DEF ArenaInv, Sure, suspects
<1>1. /\ state[n] = "up"
      /\ freeing' = [freeing EXCEPT ![n] = @ \ {b}] /\ marked' = Freed(n, {b})
      /\ UNCHANGED <<counter, pool, owner, extents, state, arenas, w, reap, suspects>>
    BY DEF Free, etcd
<1>2. \A m \in Nodes : \A c \in marked[m] : c \in marked'[m] \/ (m = n /\ c = b)
    BY <1>1 DEF Freed, ArenaTypes
<1>3. \A m \in Nodes : \A c \in freeing'[m] : c \in freeing[m] /\ ~(m = n /\ c = b)
    BY <1>1 DEF ArenaTypes
<1>4. OnePlace' /\ ListsOwned' /\ JoinsOnce'
    BY <1>1 DEF OnePlace, ListsOwned, JoinsOnce
<1>5. StoppedIdle'
    BY <1>1 DEF StoppedIdle, ArenaTypes
<1>6. ExtentsMarked'
  <2>1. Sure(b) => b \notin extents
    BY DEF FreeingMarked
  <2> QED
    BY ZenonT(60), <1>1, <1>2, <2>1 DEF ExtentsMarked
<1>7. FreeingMarked'
    BY Zenon, <1>1, <1>2, <1>3 DEF FreeingMarked
<1>8. ReservedMarked'
  <2> SUFFICES ASSUME NEW p \in Writes, w[p].pc = "reserved", NEW c \in w[p].blocks,
                      Sure(c)
               PROVE  /\ c \in marked'[Home[p]] /\ c \in marked[Home[p]]
                      /\ c \notin freeing'[Home[p]]
    BY ZenonT(40), <1>1 DEF ReservedMarked
  <2>1. Home[p] \in Nodes
    BY ArenaAssumption
  <2>2. c \in marked[Home[p]] /\ c \notin freeing[Home[p]]
    BY DEF ReservedMarked
  <2> QED
    BY <1>2, <1>3, <2>1, <2>2
<1> QED
    BY <1>4, <1>5, <1>6, <1>7, <1>8

\* An arena is detached only when nothing in it is marked.
LEMMA DetachInv ==
  ASSUME ArenaTypes, ArenaInv, ArenaTypes', NEW n \in Nodes, DetachEmpty(n)
  PROVE  ArenaInv'
<1> USE DEF ArenaInv, Sure, suspects
<1>1. /\ state[n] = "up" /\ reap' = [reap EXCEPT ![n] = EmptyArenas(n)]
      /\ arenas' = [arenas EXCEPT ![n] = @ \ EmptyArenas(n)]
      /\ UNCHANGED <<counter, pool, owner, extents, state, marked, w, freeing, suspects>>
      /\ EmptyArenas(n) \subseteq arenas[n]
    BY DEF DetachEmpty, etcd, EmptyArenas
<1>2. ASSUME NEW b \in marked[n] PROVE b[1] \notin EmptyArenas(n)
  <2>1. b \in BlocksOf({b[1]})
    BY DEF ArenaTypes, Block, BlocksOf
  <2> QED
    BY <2>1 DEF EmptyArenas
<1>3. \A m \in Nodes : /\ m # n => arenas'[m] = arenas[m] /\ reap'[m] = reap[m]
                       /\ arenas'[m] \subseteq arenas[m]
                       /\ \A c \in arenas[m] : c \in arenas'[m] \/ (m = n /\ c \in EmptyArenas(n))
    BY <1>1 DEF ArenaTypes
<1>4. arenas'[n] = arenas[n] \ EmptyArenas(n) /\ reap'[n] = EmptyArenas(n)
    BY <1>1 DEF ArenaTypes
<1>5. OnePlace'
    BY <1>1 DEF OnePlace
<1>6. ListsOwned'
    BY <1>1, <1>3, <1>4 DEF ListsOwned
<1>7. JoinsOnce'
    BY <1>1, <1>3, <1>4, ArenaAssumption DEF JoinsOnce
<1>8. StoppedIdle'
    BY <1>1, <1>3 DEF StoppedIdle
<1>9. ExtentsMarked'
    BY <1>1, <1>2, <1>3, <1>4 DEF ExtentsMarked
<1>10. FreeingMarked'
    BY <1>1, <1>2, <1>3 DEF FreeingMarked
<1>11. ReservedMarked'
    BY <1>1, <1>2, <1>3, ArenaAssumption DEF ReservedMarked
<1> QED
    BY <1>5, <1>6, <1>7, <1>8, <1>9, <1>10, <1>11

\* An arena its owner does not list, or lists though it has strayed, goes to the pool.
LEMMA ToPoolInv ==
  ASSUME ArenaTypes, ArenaInv, ArenaTypes', NEW n \in Nodes, NEW a \in owner[n], ToPool(n, a),
         \/ a \in strayed'
         \/ /\ a \notin arenas[n] /\ a \notin reap'[n]
            /\ \A q \in Writes : Home[q] = n /\ w[q].pc \in {"scan", "attach"} => w[q].arena # a,
         strayed \subseteq strayed',
         \A m \in Nodes : /\ reap'[m] \subseteq reap[m]
                          /\ arenas[m] \subseteq arenas'[m]
                          /\ arenas'[m] \ strayed' \subseteq arenas[m]
                          /\ state[m] # "up" => arenas'[m] = arenas[m],
         UNCHANGED <<counter, extents, state, marked, w, freeing, doubtful>>
  PROVE  ArenaInv'
<1> USE DEF ArenaInv, Sure
<1>1. /\ pool' = pool \union {a} /\ owner'[n] = owner[n] \ {a}
      /\ \A m \in Nodes \ {n} : owner'[m] = owner[m]
    BY DEF ToPool, ArenaTypes
<1>2. OnePlace'
  <2>1. /\ \A c \in pool' : c < counter
        /\ \A m \in Nodes : \A c \in owner'[m] :
             c < counter /\ c \notin pool' /\ \A k \in Nodes \ {m} : c \notin owner'[k]
    BY <1>1 DEF OnePlace
  <2>2. \A p \in Writes : w[p].pc = "drawn" => w[p].arena \notin pool'
    BY <1>1 DEF OnePlace
  <2> QED
    BY <1>1, <2>1, <2>2 DEF OnePlace
<1>3. ListsOwned'
  <2> SUFFICES ASSUME NEW m \in Nodes, NEW c \in (arenas'[m] \union reap'[m]) \ strayed'
               PROVE  c \in owner'[m] /\ (c \in arenas'[m] => c \notin reap'[m])
    BY DEF ListsOwned
  <2>1. c \in owner[m] /\ (c \in arenas'[m] => c \in arenas[m] /\ c \notin reap'[m])
    BY DEF ListsOwned
  <2> QED
    BY <1>1, <2>1
<1>4. JoinsOnce'
  <2> SUFFICES ASSUME NEW p \in Writes, w[p].pc \in {"scan", "attach"}, w[p].arena \notin strayed'
               PROVE  /\ w[p].arena \in owner'[Home[p]]
                      /\ w[p].arena \notin arenas'[Home[p]] /\ w[p].arena \notin reap'[Home[p]]
                      /\ \A q \in Writes \ {p} :
                           w[q].pc \in {"scan", "attach"} => w[q].arena # w[p].arena
    BY DEF JoinsOnce
  <2>1. /\ Home[p] \in Nodes /\ w[p].arena \in owner[Home[p]]
        /\ w[p].arena \notin arenas[Home[p]] /\ w[p].arena \notin reap[Home[p]]
        /\ \A q \in Writes \ {p} : w[q].pc \in {"scan", "attach"} => w[q].arena # w[p].arena
    BY ArenaAssumption DEF JoinsOnce
  <2> QED
    BY <1>1, <2>1
<1>5. StoppedIdle'
    BY DEF StoppedIdle
<1>6. ExtentsMarked'
    BY DEF ExtentsMarked
<1>7. FreeingMarked'
    BY DEF FreeingMarked
<1>8. ReservedMarked'
    BY ArenaAssumption DEF ReservedMarked
<1> QED
    BY <1>2, <1>3, <1>4, <1>5, <1>6, <1>7, <1>8

\* A release passes the arena on, or lists it again as it was or as one that strayed.
LEMMA ReleaseInv ==
  ASSUME ArenaTypes, ArenaInv, ArenaTypes', NEW n \in Nodes, NEW a \in reap[n],
         ReleaseEmpty(n, a)
  PROVE  ArenaInv'
<1>1. /\ state[n] = "up"
      /\ UNCHANGED <<counter, extents, state, marked, w, freeing, doubtful>>
    BY DEF ReleaseEmpty
<1>2. a \in strayed \/ /\ a \in owner[n] /\ a \notin arenas[n]
                       /\ \A q \in Writes : Home[q] = n /\ w[q].pc \in {"scan", "attach"}
                                              => w[q].arena # a
    BY DEF ArenaInv, ListsOwned, JoinsOnce
<1>3. CASE a \in owner[n] /\ ToPool(n, a)
  <2>1. \/ reap' = [reap EXCEPT ![n] = @ \ {a}] /\ UNCHANGED <<arenas, strayed>>
        \/ /\ reap' = [reap EXCEPT ![n] = {}] /\ strayed' = strayed \union {a}
           /\ arenas' = [arenas EXCEPT ![n] = @ \union {a}]
    <3>1. owner[n] # owner'[n]
      BY <1>3 DEF ToPool, ArenaTypes
    <3> QED
      BY <1>3, <3>1 DEF ReleaseEmpty
  <2>2. /\ strayed \subseteq strayed' /\ (a \in strayed' \/ (a \notin reap'[n] /\ strayed' = strayed))
        /\ \A m \in Nodes : /\ reap'[m] \subseteq reap[m]
                            /\ arenas[m] \subseteq arenas'[m]
                            /\ arenas'[m] \ strayed' \subseteq arenas[m]
                            /\ state[m] # "up" => arenas'[m] = arenas[m]
    BY <1>1, <2>1 DEF ArenaTypes
  <2>3. \/ a \in strayed'
        \/ /\ a \notin arenas[n] /\ a \notin reap'[n]
           /\ \A q \in Writes : Home[q] = n /\ w[q].pc \in {"scan", "attach"} => w[q].arena # a
    BY <1>2, <2>2
  <2> QED
    BY <1>1, <1>3, <2>2, <2>3, ToPoolInv
<1>4. CASE UNCHANGED <<owner, pool, strayed>> /\ arenas' = [arenas EXCEPT ![n] = @ \union {a}]
  <2> USE DEF ArenaInv, Sure
  <2>1. /\ arenas'[n] = arenas[n] \union {a} /\ reap'[n] \subseteq reap[n] \ {a}
        /\ \A m \in Nodes \ {n} : arenas'[m] = arenas[m] /\ reap'[m] = reap[m]
    <3>1. reap' = [reap EXCEPT ![n] = {}] \/ reap' = [reap EXCEPT ![n] = @ \ {a}]
      BY DEF ReleaseEmpty
    <3> QED
      BY <1>4, <3>1 DEF ArenaTypes
  <2>2. OnePlace'
    BY <1>1, <1>4 DEF OnePlace
  <2>3. ListsOwned'
    <3> SUFFICES ASSUME NEW m \in Nodes, NEW c \in (arenas'[m] \union reap'[m]) \ strayed
                 PROVE  c \in owner[m] /\ (c \in arenas'[m] => c \notin reap'[m])
      BY <1>4 DEF ListsOwned
    <3>1. CASE m = n /\ c = a
      BY <1>2, <2>1, <3>1
    <3>2. CASE ~(m = n /\ c = a)
      BY <2>1, <3>2 DEF ListsOwned
    <3> QED
      BY <3>1, <3>2
  <2>4. JoinsOnce'
    <3> SUFFICES ASSUME NEW p \in Writes, w[p].pc \in {"scan", "attach"}, w[p].arena \notin strayed
                 PROVE  /\ w[p].arena \in owner[Home[p]]
                        /\ w[p].arena \notin arenas'[Home[p]] /\ w[p].arena \notin reap'[Home[p]]
                        /\ \A q \in Writes \ {p} :
                             w[q].pc \in {"scan", "attach"} => w[q].arena # w[p].arena
      BY <1>1, <1>4 DEF JoinsOnce
    <3>1. /\ Home[p] \in Nodes /\ w[p].arena \in owner[Home[p]]
          /\ w[p].arena \notin arenas[Home[p]] /\ w[p].arena \notin reap[Home[p]]
          /\ \A q \in Writes \ {p} : w[q].pc \in {"scan", "attach"} => w[q].arena # w[p].arena
      BY ArenaAssumption DEF JoinsOnce
    <3>2. Home[p] = n => w[p].arena # a
      BY <3>1
    <3> QED
      BY <2>1, <3>1, <3>2
  <2>5. StoppedIdle'
    BY <1>1, <2>1 DEF StoppedIdle
  <2>6. ExtentsMarked'
    <3>1. ASSUME NEW b \in extents, Sure(b), NEW m \in Nodes, state[m] = "up"
          PROVE  (b[1] \in arenas'[m] => b \in marked[m]) /\ b[1] \notin reap'[m]
      <4>1. (b[1] \in arenas[m] => b \in marked[m]) /\ b[1] \notin reap[m]
        BY <3>1 DEF ExtentsMarked
      <4> QED
        BY <2>1, <4>1
    <3> QED
      BY <1>1, <1>4, <3>1 DEF ExtentsMarked
  <2>7. FreeingMarked'
    BY <1>1, <1>4, <2>1 DEF FreeingMarked
  <2>8. ReservedMarked'
    BY <1>1, <1>4, <2>1, ArenaAssumption DEF ReservedMarked
  <2> QED
    BY <2>2, <2>3, <2>4, <2>5, <2>6, <2>7, <2>8
<1> QED
    BY <1>3, <1>4 DEF ReleaseEmpty

\* A daemon that dies takes its lists and its writes with it.
LEMMA CrashInv ==
  ASSUME ArenaTypes, ArenaInv, ArenaTypes', NEW n \in Nodes, Crash(n)
  PROVE  ArenaInv'
<1> USE DEF ArenaInv, Sure, suspects
<1>1. /\ UNCHANGED <<counter, pool, owner, extents, suspects>>
      /\ state'[n] = "down" /\ arenas'[n] = {} /\ reap'[n] = {} /\ freeing'[n] = {}
      /\ \A m \in Nodes \ {n} :
           /\ state'[m] = state[m] /\ arenas'[m] = arenas[m] /\ marked'[m] = marked[m]
           /\ reap'[m] = reap[m] /\ freeing'[m] = freeing[m]
    BY DEF Crash, etcd, ArenaTypes
<1>2. \A q \in Writes : w'[q].pc = "idle" \/ (Home[q] # n /\ w'[q] = w[q])
  <2>1. Idle.pc = "idle"
    BY DEF Idle
  <2>2. w' = [q \in Writes |-> IF Home[q] = n THEN Idle ELSE w[q]]
    BY Zenon DEF Crash
  <2>3. ASSUME NEW q \in Writes, Home[q] = n PROVE w'[q].pc = "idle"
    <3>1. w'[q] = Idle
      BY <2>2, <2>3
    <3> QED
      BY <2>1, <3>1
  <2>4. ASSUME NEW q \in Writes, Home[q] # n PROVE w'[q] = w[q]
    BY <2>2, <2>4
  <2> QED
    BY Zenon, <2>3, <2>4
<1>3. OnePlace'
  <2>1. \A q \in Writes : w'[q].pc = "drawn" => w'[q] = w[q]
    BY <1>2
  <2>2. \A p \in Writes : w'[p].pc = "drawn" =>
          /\ w'[p].arena \in Nat /\ w'[p].arena < counter /\ w'[p].arena \notin pool
          /\ \A m \in Nodes : w'[p].arena \notin owner[m]
    BY Zenon, <2>1 DEF OnePlace
  <2>3. ASSUME NEW p \in Writes, NEW q \in Writes \ {p}, w'[p].pc = "drawn", w'[q].pc = "drawn"
        PROVE  w'[q].arena # w'[p].arena
    BY Zenon, <2>1, <2>3 DEF OnePlace
  <2> QED
    BY <1>1, <2>2, <2>3 DEF OnePlace
<1>4. ListsOwned'
    BY <1>1 DEF ListsOwned
<1>5. JoinsOnce'
  <2>1. ASSUME NEW q \in Writes, w'[q].pc \in {"scan", "attach"}
        PROVE  /\ w'[q] = w[q]
               /\ arenas'[Home[q]] = arenas[Home[q]] /\ reap'[Home[q]] = reap[Home[q]]
    <3>1. Home[q] \in Nodes
      BY ArenaAssumption
    <3>2. Home[q] # n /\ w'[q] = w[q]
      BY <1>2, <2>1
    <3> QED
      BY Zenon, <1>1, <3>1, <3>2
  <2>2. ASSUME NEW p \in Writes, w'[p].pc \in {"scan", "attach"}, w'[p].arena \notin strayed
        PROVE  /\ w'[p].arena \in owner[Home[p]]
               /\ w'[p].arena \notin arenas'[Home[p]] /\ w'[p].arena \notin reap'[Home[p]]
    BY Zenon, <2>1, <2>2 DEF JoinsOnce
  <2>3. ASSUME NEW p \in Writes, NEW q \in Writes \ {p},
               w'[p].pc \in {"scan", "attach"}, w'[q].pc \in {"scan", "attach"},
               w'[p].arena \notin strayed
        PROVE  w'[q].arena # w'[p].arena
    <3>1. w'[p] = w[p] /\ w'[q] = w[q]
      BY Zenon, <2>1, <2>3
    <3>2. w[p].pc \in {"scan", "attach"} /\ w[q].pc \in {"scan", "attach"}
      BY Zenon, <2>3, <3>1
    <3> QED
      BY <2>3, <3>1, <3>2 DEF JoinsOnce
  <2> QED
    BY <1>1, <2>2, <2>3 DEF JoinsOnce
<1>6. StoppedIdle'
  <2>1. ASSUME NEW m \in Nodes, state'[m] # "up"
        PROVE  reap'[m] = {} /\ freeing'[m] = {} /\ (state'[m] # "starting" => arenas'[m] = {})
    <3>1. CASE m = n
      BY <1>1, <3>1
    <3>2. CASE m # n
      BY <1>1, <2>1, <3>2 DEF StoppedIdle
    <3> QED
      BY <3>1, <3>2
  <2>2. ASSUME NEW m \in Nodes, state'[m] # "up", NEW q \in Writes, Home[q] = m
        PROVE  w'[q].pc = "idle"
    <3>1. CASE m = n
      BY <1>2, <2>2, <3>1
    <3>2. CASE m # n
      <4>1. w[q].pc = "idle"
        BY <1>1, <2>2, <3>2 DEF StoppedIdle
      <4> QED
        BY <1>2, <4>1
    <3> QED
      BY <3>1, <3>2
  <2> QED
    BY <2>1, <2>2 DEF StoppedIdle
<1>7. ExtentsMarked'
  <2> SUFFICES ASSUME NEW b \in extents, Sure(b)
               PROVE  /\ b[1] < counter
                      /\ \A m \in Nodes : state'[m] = "up" =>
                           (b[1] \in arenas'[m] => b \in marked'[m]) /\ b[1] \notin reap'[m]
                      /\ \A q \in Writes :
                           /\ w'[q].pc = "drawn" /\ ~w'[q].reused => b[1] # w'[q].arena
                           /\ w'[q].pc = "attach" /\ b[1] = w'[q].arena => b \in w'[q].blocks
    BY <1>1 DEF ExtentsMarked
  <2>1. /\ b[1] < counter
        /\ \A m \in Nodes : state[m] = "up" =>
             (b[1] \in arenas[m] => b \in marked[m]) /\ b[1] \notin reap[m]
        /\ \A q \in Writes :
             /\ w[q].pc = "drawn" /\ ~w[q].reused => b[1] # w[q].arena
             /\ w[q].pc = "attach" /\ b[1] = w[q].arena => b \in w[q].blocks
    BY DEF ExtentsMarked
  <2>2. ASSUME NEW m \in Nodes, state'[m] = "up"
        PROVE  (b[1] \in arenas'[m] => b \in marked'[m]) /\ b[1] \notin reap'[m]
    BY <1>1, <2>1, <2>2
  <2>3. ASSUME NEW q \in Writes
        PROVE  /\ w'[q].pc = "drawn" /\ ~w'[q].reused => b[1] # w'[q].arena
               /\ w'[q].pc = "attach" /\ b[1] = w'[q].arena => b \in w'[q].blocks
    BY <1>2, <2>1
  <2> QED
    BY <2>1, <2>2, <2>3
<1>8. FreeingMarked'
    BY <1>1 DEF FreeingMarked
<1>9. ReservedMarked'
  <2>1. ASSUME NEW q \in Writes, w'[q].pc = "reserved"
        PROVE  /\ w'[q] = w[q] /\ marked'[Home[q]] = marked[Home[q]]
               /\ arenas'[Home[q]] = arenas[Home[q]] /\ freeing'[Home[q]] = freeing[Home[q]]
    <3>1. Home[q] \in Nodes
      BY ArenaAssumption
    <3>2. Home[q] # n /\ w'[q] = w[q]
      BY <1>2, <2>1
    <3> QED
      BY Zenon, <1>1, <3>1, <3>2
  <2>2. ASSUME NEW p \in Writes, w'[p].pc = "reserved", NEW b \in w'[p].blocks, Sure(b)
        PROVE  /\ b \in marked'[Home[p]] /\ b[1] \in arenas'[Home[p]]
               /\ b \notin extents /\ b \notin freeing'[Home[p]]
    BY Zenon, <2>1, <2>2 DEF ReservedMarked
  <2>3. ASSUME NEW p \in Writes, NEW q \in Writes \ {p}, NEW b \in w'[p].blocks,
               w'[p].pc = "reserved", w'[q].pc = "reserved", Sure(b)
        PROVE  b \notin w'[q].blocks
    <3>1. w'[p] = w[p] /\ w'[q] = w[q]
      BY Zenon, <2>1, <2>3
    <3>2. b \in w[p].blocks /\ w[p].pc = "reserved" /\ w[q].pc = "reserved"
      BY Zenon, <2>3, <3>1
    <3> QED
      BY <2>3, <3>1, <3>2 DEF ReservedMarked
  <2> QED
    BY <1>1, <2>2, <2>3 DEF ReservedMarked
<1> QED
    BY <1>3, <1>4, <1>5, <1>6, <1>7, <1>8, <1>9

\* A daemon that starts lists what it owns, and marks it before it serves.
LEMMA StartInv ==
  ASSUME ArenaTypes, ArenaInv, ArenaTypes', NEW n \in Nodes,
         ReadArenas(n) \/ MarkLiveExtents(n) \/ Fence(n)
  PROVE  ArenaInv'
<1> USE DEF ArenaInv, Sure, suspects
<1>1. /\ UNCHANGED <<counter, pool, owner, extents, w, reap, freeing, strayed>>
      /\ state[n] # "up" /\ reap[n] = {} /\ freeing[n] = {}
      /\ \A q \in Writes : Home[q] = n => w[q].pc = "idle"
    BY DEF ReadArenas, MarkLiveExtents, Fence, etcd, StoppedIdle
<1>2. \A m \in Nodes \ {n} :
        state'[m] = state[m] /\ arenas'[m] = arenas[m] /\ marked'[m] = marked[m]
    BY DEF ReadArenas, MarkLiveExtents, Fence, ArenaTypes
<1>3. \/ state'[n] = "starting" /\ arenas'[n] = owner[n]
      \/ arenas'[n] = {} /\ state'[n] \in {"up", "fenced"}
      \/ /\ arenas'[n] = arenas[n] /\ state'[n] = "up"
         /\ marked'[n] = LiveIn(arenas[n]) \/ LiveIn(arenas[n]) \subseteq doubtful'
    BY DEF ReadArenas, MarkLiveExtents, Fence, StoppedIdle, ArenaTypes
<1>a. \A b : Sure(b)' => Sure(b)
    BY DEF ReadArenas, MarkLiveExtents, Fence
<1>4. OnePlace'
    BY <1>1 DEF OnePlace
<1>5. ListsOwned'
    BY <1>1, <1>2, <1>3 DEF ListsOwned
<1>6. JoinsOnce'
  <2>1. ASSUME NEW q \in Writes, w[q].pc \in {"scan", "attach"}
        PROVE  arenas'[Home[q]] = arenas[Home[q]]
    <3>1. Home[q] \in Nodes /\ Home[q] # n
      BY <1>1, <2>1, ArenaAssumption
    <3> QED
      BY <1>2, <3>1
  <2> QED
    BY <1>1, <2>1 DEF JoinsOnce
<1>7. StoppedIdle'
  <2>1. ASSUME NEW m \in Nodes, state'[m] # "up"
        PROVE  reap[m] = {} /\ freeing[m] = {} /\ (state'[m] # "starting" => arenas'[m] = {})
    BY <1>1, <1>2, <1>3, <2>1 DEF StoppedIdle
  <2>2. ASSUME NEW m \in Nodes, state'[m] # "up", NEW p \in Writes, Home[p] = m
        PROVE  w[p].pc = "idle"
    BY <1>1, <1>2, <2>2 DEF StoppedIdle
  <2> QED
    BY <1>1, <2>1, <2>2 DEF StoppedIdle
<1>8. ExtentsMarked'
  <2>1. ASSUME NEW b \in extents, b[1] \in arenas[n] PROVE b \in LiveIn(arenas[n])
    BY <2>1, ArenaOfBlock DEF LiveIn, ArenaTypes
  <2>2. ASSUME NEW b \in extents, NEW m \in Nodes, state'[m] = "up", Sure(b)'
        PROVE  (b[1] \in arenas'[m] => b \in marked'[m]) /\ b[1] \notin reap[m]
    <3>1. CASE m # n
      BY <1>1, <1>2, <1>a, <2>2, <3>1 DEF ExtentsMarked
    <3>2. CASE m = n
      BY Zenon, <1>1, <1>3, <2>1, <2>2, <3>2
    <3> QED
      BY <3>1, <3>2
  <2> QED
    BY <1>1, <1>a, <2>2 DEF ExtentsMarked
<1>9. FreeingMarked'
    BY <1>1, <1>2, <1>a DEF FreeingMarked
<1>10. ReservedMarked'
    BY <1>1, <1>2, <1>a, ArenaAssumption DEF ReservedMarked
<1> QED
    BY <1>4, <1>5, <1>6, <1>7, <1>8, <1>9, <1>10

\* A peer returns the arenas of a node that is gone.
LEMMA PeerReleaseInv ==
  ASSUME ArenaTypes, ArenaInv, ArenaTypes', NEW n \in Nodes, NEW a \in owner[n],
         ReleaseArena(n, a)
  PROVE  ArenaInv'
<1>1. /\ state[n] = "fenced" /\ ToPool(n, a)
      /\ UNCHANGED <<counter, extents, state, arenas, marked, w, reap, freeing, doubtful, strayed>>
    BY Zenon DEF ReleaseArena, local, suspects
<1>2. /\ a \notin arenas[n] /\ reap[n] = {}
      /\ \A q \in Writes : Home[q] = n => w[q].pc = "idle"
    BY Zenon, <1>1 DEF ArenaInv, StoppedIdle
<1> QED
    BY <1>1, <1>2, ToPoolInv

\* Every step of a write keeps the invariant.
LEMMA WriteStepInv ==
  ASSUME ArenaTypes, ArenaInv, ArenaTypes', NEW p \in load.writes, WriteStep(p)
  PROVE  ArenaInv'
<1> DEFINE Neutral == \A q \in Writes :
             \/ w'[q] = w[q]
             \/ Running(q) /\ w'[q].pc \in {"idle", "list", "claim", "count", "allocate"}
<1>0. p \in Writes /\ Home[p] \in Nodes /\ w[p] \in WriteState
    BY Located
<1>a. ASSUME Running(p), Abandon(p) \/ NoSpace(p) PROVE Neutral
    BY <1>a, <1>0, GivingUp
<1>b. ASSUME Neutral, UNCHANGED <<etcd, state, arenas, marked, reap, freeing, suspects>> PROVE ArenaInv'
  <2>1. pool' \subseteq pool /\ counter' >= counter
    BY <1>b DEF etcd, ArenaTypes
  <2> QED
    BY <1>b, <2>1, Uneventful DEF etcd
<1>1. ASSUME NEW k \in load.sizes, Begin(p, k) PROVE ArenaInv'
  <2>1. CASE Runs(Home[p], k) # {}
    <3>1. PICK bs \in Runs(Home[p], k) :
            /\ marked' = [marked EXCEPT ![Home[p]] = @ \union bs]
            /\ w' = [w EXCEPT ![p] = [Idle EXCEPT !.pc = "reserved", !.want = k, !.blocks = bs]]
      BY <1>1, <2>1, Zenon DEF Begin
    <3>2. bs \in SUBSET FreeBlocks(Home[p])
      BY DEF Runs
    <3>3. /\ [Idle EXCEPT !.pc = "reserved", !.want = k, !.blocks = bs].pc = "reserved"
          /\ [Idle EXCEPT !.pc = "reserved", !.want = k, !.blocks = bs].blocks = bs
      BY DEF Idle
    <3>4. /\ w'[p].pc = "reserved" /\ w'[p].blocks = bs
          /\ \A q \in Writes \ {p} : w'[q] = w[q]
      BY <1>0, <3>1, <3>3 DEF ArenaTypes
    <3> QED
      BY Zenon, <1>0, <1>1, <3>1, <3>2, <3>4, Reserving DEF Begin
  <2>2. CASE Runs(Home[p], k) = {}
    <3>1. [Idle EXCEPT !.pc = "list", !.want = k].pc = "list"
      BY DEF Idle
    <3>2. Neutral
      BY ZenonT(40), <1>0, <1>1, <2>2, <3>1 DEF Begin, ArenaTypes
    <3> QED
      BY Zenon, <1>1, <1>b, <2>2, <3>2 DEF Begin
  <2> QED
    BY <2>1, <2>2
<1>2. ASSUME DeviceTooSmall(p) PROVE ArenaInv'
    BY Zenon, <1>2, <1>a, <1>b DEF DeviceTooSmall
<1>3. ASSUME ListPool(p) PROVE ArenaInv'
  <2>1. Neutral
    BY <1>0, <1>3 DEF ListPool, ArenaTypes, WriteState
  <2> QED
    BY Zenon, <1>3, <1>b, <2>1 DEF ListPool, local
<1>4. ASSUME PoolExhausted(p) PROVE ArenaInv'
  <2>1. Neutral
    BY <1>0, <1>4 DEF PoolExhausted, ArenaTypes, WriteState
  <2> QED
    BY Zenon, <1>4, <1>b, <2>1 DEF PoolExhausted, local
<1>5. ASSUME RefuseArena(p) PROVE ArenaInv'
    BY Zenon, <1>5, <1>a, <1>b DEF RefuseArena
<1>6. ASSUME AllocateAgain(p) PROVE ArenaInv'
  <2>1. CASE Allocate(p)
    <3>1. PICK bs \in Runs(Home[p], w[p].want) :
            /\ marked' = [marked EXCEPT ![Home[p]] = @ \union bs]
            /\ w' = [w EXCEPT ![p].pc = "reserved", ![p].blocks = bs]
      BY Zenon, <2>1 DEF Allocate
    <3>2. bs \in SUBSET FreeBlocks(Home[p])
      BY DEF Runs
    <3>3. /\ w'[p].pc = "reserved" /\ w'[p].blocks = bs
          /\ \A q \in Writes \ {p} : w'[q] = w[q]
      BY <1>0, <3>1 DEF ArenaTypes, WriteState
    <3> QED
      BY Zenon, <1>0, <1>6, <3>1, <3>2, <3>3, Reserving DEF AllocateAgain
  <2>2. CASE Abandon(p) /\ UNCHANGED marked
    BY Zenon, <1>6, <2>2, <1>a, <1>b DEF AllocateAgain
  <2> QED
    BY <1>6, <2>1, <2>2 DEF AllocateAgain
<1> QED
    BY <1>0, <1>1, <1>2, <1>3, <1>4, <1>5, <1>6, ClaimInv, CounterInv, RecordInv, ScanInv,
       AttachInv, CommitInv DEF WriteStep

\* Every step of a node keeps the invariant.
LEMMA NodeStepInv ==
  ASSUME ArenaTypes, ArenaInv, ArenaTypes', NEW n \in Nodes, NodeStep(n)
  PROVE  ArenaInv'
BY Zenon, DeleteInv, FreeInv, DetachInv, ReleaseInv, CrashInv, StartInv, PeerReleaseInv
   DEF NodeStep
============================================================================
