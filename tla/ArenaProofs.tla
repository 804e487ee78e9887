---------------------------- MODULE ArenaProofs ----------------------------
(* What holds of the arenas for any number of nodes, writes, arenas, failures and
   crashes: no block is handed out twice, every arena lost is accounted for, and
   fsck finds it. *)
EXTENDS ArenaStepProofs, FiniteSetTheorems

-----------------------------------------------------------------------------
(* Types. *)

\* A write that has drawn an arena knows its number.
HeldWrite == {x \in WriteState : x.pc \in {"drawn", "scan", "attach"} => x.arena \in Nat}

WritesTyped == ArenaTypes /\ w \in [Writes -> HeldWrite]

\* What the steps of a write may put in its place.
LEMMA WriteTyped ==
  ASSUME NEW x \in HeldWrite, NEW k \in Nat, NEW S \in SUBSET Nat, NEW a \in Nat,
         NEW r \in BOOLEAN, NEW bs \in SUBSET Block
  PROVE  /\ Idle \in HeldWrite
         /\ [Idle EXCEPT !.pc = "reserved", !.want = k, !.blocks = bs] \in HeldWrite
         /\ [Idle EXCEPT !.pc = "list", !.want = k] \in HeldWrite
         /\ [Idle EXCEPT !.pc = "list", !.want = k, !.again = TRUE] \in HeldWrite
         /\ [Idle EXCEPT !.pc = "allocate", !.want = k] \in HeldWrite
         /\ [x EXCEPT !.pc = "claim", !.list = S] \in HeldWrite
         /\ [x EXCEPT !.pc = "count"] \in HeldWrite
         /\ [x EXCEPT !.pc = "count", !.list = {}] \in HeldWrite
         /\ [x EXCEPT !.list = S] \in HeldWrite
         /\ [x EXCEPT !.pc = "drawn", !.arena = a, !.reused = TRUE, !.list = {}] \in HeldWrite
         /\ [x EXCEPT !.pc = "drawn", !.arena = a, !.reused = FALSE] \in HeldWrite
         /\ [x EXCEPT !.pc = "reserved", !.blocks = bs] \in HeldWrite
         /\ x.arena \in Nat => /\ [x EXCEPT !.pc = "scan"] \in HeldWrite
                               /\ [x EXCEPT !.pc = "attach"] \in HeldWrite
                               /\ [x EXCEPT !.pc = "attach", !.blocks = bs] \in HeldWrite
BY ZenonT(60) DEF Idle, WriteState, HeldWrite

\* Every step of a write leaves the writes typed,
LEMMA WriteStepHeld ==
  ASSUME WritesTyped, NEW p \in load.writes, WriteStep(p)
  PROVE  w' \in [Writes -> HeldWrite]
<1>0. /\ p \in Writes /\ Home[p] \in Nodes /\ load.sizes \subseteq Nat
      /\ w \in [Writes -> HeldWrite] /\ w[p] \in HeldWrite /\ w[p] \in WriteState
    BY Located DEF HeldWrite, WritesTyped
<1>1. /\ w[p].want \in Nat /\ w[p].list \in SUBSET Nat /\ w[p].blocks \in SUBSET Block
      /\ w[p].pc \in {"drawn", "scan", "attach"} => w[p].arena \in Nat
    BY <1>0 DEF HeldWrite, WriteState
<1>2. SUFFICES \E x \in HeldWrite : w' = [w EXCEPT ![p] = x]
    BY <1>0
<1>3. ASSUME Abandon(p) \/ NoSpace(p) PROVE \E x \in HeldWrite : w' = [w EXCEPT ![p] = x]
    BY Zenon, <1>0, <1>1, <1>3, WriteTyped DEF Abandon, NoSpace
<1>4. ASSUME NEW k \in Nat, NEW bs \in Runs(Home[p], k) PROVE bs \in SUBSET Block
    BY <1>0 DEF Runs, FreeBlocks, BlocksOf, Block, WritesTyped, ArenaTypes
<1>5. ASSUME NEW k \in load.sizes, Begin(p, k) PROVE \E x \in HeldWrite : w' = [w EXCEPT ![p] = x]
    BY Zenon, <1>0, <1>1, <1>4, <1>5, WriteTyped DEF Begin
<1>6. ASSUME ListPool(p) PROVE \E x \in HeldWrite : w' = [w EXCEPT ![p] = x]
  <2>1. pool \in SUBSET Nat
    BY DEF WritesTyped, ArenaTypes
  <2>2. \/ w' = [w EXCEPT ![p] = [w[p] EXCEPT !.pc = "claim", !.list = pool]]
        \/ w' = [w EXCEPT ![p] = [w[p] EXCEPT !.pc = "count"]]
    BY Zenon, <1>0, <1>6 DEF ListPool
  <2> QED
    BY Zenon, <1>0, <1>1, <2>1, <2>2, WriteTyped
<1>7. ASSUME ClaimFreeArena(p) PROVE \E x \in HeldWrite : w' = [w EXCEPT ![p] = x]
  <2>1. PICK a \in w[p].list :
          \/ w' = [w EXCEPT ![p].pc = "drawn", ![p].arena = a, ![p].reused = TRUE, ![p].list = {}]
          \/ w' = [w EXCEPT ![p].list = @ \ {a}]
          \/ w' = [w EXCEPT ![p].pc = "count", ![p].list = {}]
    BY Zenon, <1>7 DEF ClaimFreeArena
  <2>2. a \in Nat /\ w[p].list \ {a} \in SUBSET Nat
    BY <1>1
  <2>3. CASE w' = [w EXCEPT ![p].pc = "drawn", ![p].arena = a, ![p].reused = TRUE, ![p].list = {}]
    <3>1. w' = [w EXCEPT ![p] = [w[p] EXCEPT !.pc = "drawn", !.arena = a, !.reused = TRUE,
                                             !.list = {}]]
      BY Zenon, <1>0, <2>3
    <3> QED
      BY Zenon, <1>0, <2>2, <3>1, WriteTyped
  <2>4. CASE w' = [w EXCEPT ![p].list = @ \ {a}] \/ w' = [w EXCEPT ![p].pc = "count", ![p].list = {}]
    BY Zenon, <1>0, <2>2, <2>4, WriteTyped
  <2> QED
    BY <2>1, <2>3, <2>4
<1>8. ASSUME PoolExhausted(p) PROVE \E x \in HeldWrite : w' = [w EXCEPT ![p] = x]
    BY Zenon, <1>0, <1>8, WriteTyped DEF PoolExhausted
<1>9. ASSUME NextCounter(p) PROVE \E x \in HeldWrite : w' = [w EXCEPT ![p] = x]
  <2>1. counter \in Nat
    BY DEF WritesTyped, ArenaTypes
  <2>2. \/ w' = [w EXCEPT ![p] = [w[p] EXCEPT !.pc = "drawn", !.arena = counter, !.reused = FALSE]]
        \/ Abandon(p)
    BY Zenon, <1>0, <1>9 DEF NextCounter
  <2> QED
    BY Zenon, <1>0, <1>3, <2>1, <2>2, WriteTyped
<1>10. ASSUME RecordOwnership(p) PROVE \E x \in HeldWrite : w' = [w EXCEPT ![p] = x]
  <2>1. w[p].arena \in Nat
    BY <1>1, <1>10 DEF RecordOwnership
  <2>2. \/ w' = [w EXCEPT ![p] = [w[p] EXCEPT !.pc = "scan"]]
        \/ w' = [w EXCEPT ![p] = [w[p] EXCEPT !.pc = "attach"]]
        \/ Abandon(p)
    BY Zenon, <1>0, <1>10 DEF RecordOwnership
  <2> QED
    BY Zenon, <1>0, <1>3, <2>1, <2>2, WriteTyped
<1>11. ASSUME ScanExtents(p) PROVE \E x \in HeldWrite : w' = [w EXCEPT ![p] = x]
  <2>1. w[p].arena \in Nat /\ LiveIn({w[p].arena}) \in SUBSET Block
    BY <1>1, <1>11 DEF ScanExtents, LiveIn, WritesTyped, ArenaTypes
  <2>2. \/ w' = [w EXCEPT ![p] = [w[p] EXCEPT !.pc = "attach", !.blocks = LiveIn({w[p].arena})]]
        \/ Abandon(p)
    BY Zenon, <1>0, <1>11 DEF ScanExtents
  <2> QED
    BY Zenon, <1>0, <1>3, <2>1, <2>2, WriteTyped
<1>12. ASSUME Attach(p) PROVE \E x \in HeldWrite : w' = [w EXCEPT ![p] = x]
    BY Zenon, <1>0, <1>1, <1>12, WriteTyped DEF Attach
<1>13. ASSUME AllocateAgain(p) PROVE \E x \in HeldWrite : w' = [w EXCEPT ![p] = x]
  <2>1. \/ \E bs \in Runs(Home[p], w[p].want) :
             w' = [w EXCEPT ![p] = [w[p] EXCEPT !.pc = "reserved", !.blocks = bs]]
        \/ Abandon(p)
    BY Zenon, <1>0, <1>13 DEF AllocateAgain, Allocate
  <2> QED
    BY Zenon, <1>0, <1>1, <1>3, <1>4, <2>1, WriteTyped
<1> QED
    BY Zenon, <1>3, <1>5, <1>6, <1>7, <1>8, <1>9, <1>10, <1>11, <1>12, <1>13
       DEF WriteStep, DeviceTooSmall, RefuseArena, Commit

\* and everything else.
LEMMA WriteStepTyped ==
  ASSUME WritesTyped, NEW p \in load.writes, WriteStep(p)
  PROVE  WritesTyped'
<1>0. /\ p \in Writes /\ Home[p] \in Nodes /\ ArenaTypes
      /\ w[p].blocks \in SUBSET Block
      /\ w[p].pc \in {"drawn", "scan", "attach"} => w[p].arena \in Nat
    BY Located DEF HeldWrite, WriteState, WritesTyped
<1>1. load' = load
    BY Zenon DEF WriteStep, Begin, DeviceTooSmall, ListPool, ClaimFreeArena, PoolExhausted, NextCounter,
           RefuseArena, RecordOwnership, ScanExtents, Attach, AllocateAgain, Commit, Fails, ghosts
<1>2. UNCHANGED <<state, reap, freeing>>
    BY Zenon DEF WriteStep, Begin, DeviceTooSmall, ListPool, ClaimFreeArena, PoolExhausted, NextCounter,
           RefuseArena, RecordOwnership, ScanExtents, Attach, AllocateAgain, Commit, local
<1>3. counter' \in Nat /\ pool' \subseteq Nat
  <2>1. /\ counter' = counter \/ counter' = counter + 1
        /\ pool' = pool \/ \E a : pool' = pool \ {a}
    BY Zenon DEF WriteStep, Begin, DeviceTooSmall, ListPool, ClaimFreeArena,
           PoolExhausted, NextCounter, RefuseArena, RecordOwnership, ScanExtents, Attach,
           AllocateAgain, Commit, etcd
  <2>2. counter \in Nat /\ pool \subseteq Nat
    BY <1>0 DEF ArenaTypes
  <2>3. pool' \subseteq pool
    BY <2>1
  <2> QED
    BY <2>1, <2>2, <2>3
<1>4. owner' \in [Nodes -> SUBSET Nat] /\ arenas' \in [Nodes -> SUBSET Nat]
  <2>1. \/ UNCHANGED <<owner, arenas>>
        \/ /\ w[p].pc \in {"drawn", "attach"}
           /\ owner' \in {owner, [owner EXCEPT ![Home[p]] = @ \union {w[p].arena}]}
           /\ arenas' \in {arenas, [arenas EXCEPT ![Home[p]] = @ \union {w[p].arena}]}
    BY Zenon DEF WriteStep, Begin, DeviceTooSmall, ListPool, ClaimFreeArena, PoolExhausted, NextCounter,
           RefuseArena, RecordOwnership, ScanExtents, Attach, AllocateAgain, Commit, etcd, local
  <2> QED
    BY <1>0, <2>1 DEF ArenaTypes
<1>5. extents' \subseteq Block /\ marked' \in [Nodes -> SUBSET Block]
  <2>1. ASSUME NEW k, NEW bs \in Runs(Home[p], k) PROVE bs \in SUBSET Block
    BY <1>0 DEF Runs, FreeBlocks, BlocksOf, Block, ArenaTypes
  <2>2. \/ marked' = marked
        \/ \E k : \E bs \in Runs(Home[p], k) : marked' = [marked EXCEPT ![Home[p]] = @ \union bs]
        \/ marked' = [marked EXCEPT ![Home[p]] = @ \union w[p].blocks]
        \/ marked' = Freed(Home[p], w[p].blocks)
    BY Zenon DEF WriteStep, Begin, DeviceTooSmall, ListPool, ClaimFreeArena, PoolExhausted,
           NextCounter, RefuseArena, RecordOwnership, ScanExtents, Attach, AllocateAgain, Allocate,
           Commit, local
  <2>3. extents' \in {extents, extents \union w[p].blocks}
    BY Zenon DEF WriteStep, Begin, DeviceTooSmall, ListPool, ClaimFreeArena, PoolExhausted, NextCounter,
           RefuseArena, RecordOwnership, ScanExtents, Attach, AllocateAgain, Commit, etcd
  <2>4. marked \in [Nodes -> SUBSET Block] /\ extents \subseteq Block
    BY <1>0 DEF ArenaTypes
  <2> QED
    BY <1>0, <2>1, <2>2, <2>3, <2>4 DEF Freed
<1>6. w' \in [Writes -> HeldWrite] /\ w' \in [Writes -> WriteState]
    BY WriteStepHeld DEF HeldWrite
<1> QED
    BY <1>0, <1>1, <1>2, <1>3, <1>4, <1>5, <1>6 DEF WritesTyped, ArenaTypes

\* So does every step of a node.
LEMMA NodeStepTyped ==
  ASSUME WritesTyped, NEW n \in Nodes, NodeStep(n)
  PROVE  WritesTyped'
<1>0. ArenaTypes
    BY DEF WritesTyped
<1>1. /\ load' = load /\ counter' = counter
      /\ extents' = extents \/ \E b : extents' = extents \ {b}
    BY Zenon DEF NodeStep, DeleteExtent, Free, DetachEmpty, ReleaseEmpty, Crash, ReadArenas,
             MarkLiveExtents, Fence, ReleaseArena, Fails, etcd, ghosts
<1>2. state' \in [Nodes -> {"up", "down", "starting", "fenced"}]
  <2>1. state' = state \/ \E s \in {"up", "down", "starting", "fenced"} : state' = [state EXCEPT ![n] = s]
    BY Zenon DEF NodeStep, DeleteExtent, Free, DetachEmpty, ReleaseEmpty, Crash, ReadArenas,
             MarkLiveExtents, Fence, ReleaseArena, local
  <2> QED
    BY <1>0, <2>1 DEF ArenaTypes
<1>3. owner' \in [Nodes -> SUBSET Nat] /\ pool' \subseteq Nat
  <2>1. UNCHANGED <<owner, pool>> \/ \E a \in owner[n] : ToPool(n, a)
    BY Zenon DEF NodeStep, DeleteExtent, Free, DetachEmpty, ReleaseEmpty, Crash, ReadArenas,
             MarkLiveExtents, Fence, ReleaseArena, etcd
  <2>2. owner \in [Nodes -> SUBSET Nat] /\ pool \subseteq Nat
    BY <1>0 DEF ArenaTypes
  <2> QED
    BY Zenon, <2>1, <2>2 DEF ToPool
<1>4. arenas' \in [Nodes -> SUBSET Nat] /\ reap' \in [Nodes -> SUBSET Nat]
  <2>1. /\ arenas' = arenas \/ \E S \in SUBSET Nat : arenas' = [arenas EXCEPT ![n] = S]
        /\ reap' = reap \/ \E S \in SUBSET Nat : reap' = [reap EXCEPT ![n] = S]
    <3>1. /\ {} \in SUBSET Nat /\ owner[n] \in SUBSET Nat /\ EmptyArenas(n) \in SUBSET Nat
          /\ arenas[n] \ EmptyArenas(n) \in SUBSET Nat
          /\ \A a \in reap[n] : /\ arenas[n] \union {a} \in SUBSET Nat
                                /\ reap[n] \ {a} \in SUBSET Nat
      BY <1>0 DEF ArenaTypes, EmptyArenas
    <3> QED
      BY Zenon, <3>1 DEF NodeStep, DeleteExtent, Free, DetachEmpty, ReleaseEmpty, Crash, ReadArenas,
             MarkLiveExtents, Fence, ReleaseArena, local
  <2>2. arenas \in [Nodes -> SUBSET Nat] /\ reap \in [Nodes -> SUBSET Nat]
    BY <1>0 DEF ArenaTypes
  <2> QED
    BY Zenon, <2>1, <2>2
<1>5. marked' \in [Nodes -> SUBSET Block] /\ freeing' \in [Nodes -> SUBSET Block]
  <2>1. /\ marked' = marked \/ \E S \in SUBSET Block : marked' = [marked EXCEPT ![n] = S]
        /\ freeing' = freeing \/ \E S \in SUBSET Block : freeing' = [freeing EXCEPT ![n] = S]
    <3>1. /\ {} \in SUBSET Block /\ LiveIn(arenas[n]) \in SUBSET Block
          /\ \A b \in extents : freeing[n] \union {b} \in SUBSET Block
          /\ \A b \in freeing[n] : freeing[n] \ {b} \in SUBSET Block
          /\ \A b \in freeing[n] : marked[n] \ ({b} \intersect BlocksOf(arenas[n])) \in SUBSET Block
      BY <1>0 DEF ArenaTypes, LiveIn
    <3> QED
      BY Zenon, <3>1 DEF NodeStep, DeleteExtent, Free, Freed, DetachEmpty, ReleaseEmpty, Crash,
             ReadArenas, MarkLiveExtents, Fence, ReleaseArena, local
  <2>2. marked \in [Nodes -> SUBSET Block] /\ freeing \in [Nodes -> SUBSET Block]
    BY <1>0 DEF ArenaTypes
  <2> QED
    BY Zenon, <2>1, <2>2
<1>6. w' \in [Writes -> HeldWrite] /\ w' \in [Writes -> WriteState]
  <2>1. w' = w \/ w' = [q \in Writes |-> IF Home[q] = n THEN Idle ELSE w[q]]
    BY Zenon DEF NodeStep, DeleteExtent, Free, DetachEmpty, ReleaseEmpty, Crash, ReadArenas,
             MarkLiveExtents, Fence, ReleaseArena
  <2>2. Idle \in HeldWrite
    BY Zenon DEF Idle, HeldWrite, WriteState
  <2>3. HeldWrite \subseteq WriteState
    BY DEF HeldWrite
  <2> QED
    BY <2>1, <2>2, <2>3 DEF WritesTyped
<1>7. extents' \subseteq Block
    BY <1>0, <1>1 DEF ArenaTypes
<1> QED
    BY <1>0, <1>1, <1>2, <1>3, <1>4, <1>5, <1>6, <1>7 DEF WritesTyped, ArenaTypes

\* And so does the system.
LEMMA Typed == WritesTyped /\ [Next]_vars => WritesTyped'
<1> SUFFICES ASSUME WritesTyped, [Next]_vars PROVE WritesTyped'
    OBVIOUS
<1>1. ASSUME UNCHANGED <<etcd, local, w, load>> PROVE WritesTyped'
    BY <1>1 DEF WritesTyped, ArenaTypes, etcd, local
<1>2. Grow \/ FsckCounter \/ FsckOwners \/ FsckFree \/ FsckExit \/ UNCHANGED vars
        => UNCHANGED <<etcd, local, w, load>>
    BY Zenon DEF Grow, FsckCounter, FsckOwners, FsckFree, FsckExit, vars, ghosts, etcd, local
<1> QED
    BY Zenon, <1>1, <1>2, WriteStepTyped, NodeStepTyped DEF Next


\* The check of the arenas, and what its steps make of it.
CheckState ==
  [pc : {"idle", "counted", "listed", "done"}, blind : BOOLEAN, high : Nat,
   owned : SUBSET Nat, lost : SUBSET Nat, free : SUBSET Nat]

\* The steps of the check leave it typed.
LEMMA CheckTyped ==
  ASSUME NEW x \in CheckState, NEW h \in Nat, NEW S \in SUBSET Nat
  PROVE  /\ NoCheck \in CheckState
         /\ [NoCheck EXCEPT !.pc = "counted", !.high = h, !.lost = S] \in CheckState
         /\ [NoCheck EXCEPT !.pc = "counted", !.blind = TRUE, !.lost = S] \in CheckState
         /\ [x EXCEPT !.pc = "listed", !.owned = S] \in CheckState
         /\ [x EXCEPT !.pc = "done", !.free = S] \in CheckState
BY Zenon DEF NoCheck, CheckState

\* The variables keep their types, whatever fails (ArenaAllocator's state).
THEOREM ArenaTyping == Spec => []TypeOK
<1> DEFINE Rest == /\ size \in Nat /\ known \in [Nodes -> Nat] /\ fsck \in CheckState
                   /\ errors \in Nat /\ crashes \in Nat /\ refusals \in Nat
                   /\ doubtful \subseteq Block /\ strayed \subseteq Nat
<1>1. Init => WritesTyped /\ Rest
  <2> SUFFICES ASSUME Init PROVE WritesTyped /\ Rest
    OBVIOUS
  <2>1. Idle \in HeldWrite /\ HeldWrite \subseteq WriteState
    BY Zenon DEF Idle, WriteState, HeldWrite
  <2>2. WritesTyped
    BY <2>1 DEF Init, WritesTyped, ArenaTypes
  <2>3. load.device \in Nat
    BY ArenaAssumption DEF Init
  <2>4. NoCheck \in CheckState
    BY Zenon DEF NoCheck, CheckState
  <2> QED
    BY <2>2, <2>3, <2>4 DEF Init
<1>2. WritesTyped /\ Rest /\ [Next]_vars => Rest'
  <2> SUFFICES ASSUME WritesTyped, Rest, [Next]_vars PROVE Rest'
    OBVIOUS
  <2> DEFINE Ghosts == /\ errors' = errors \/ errors' = errors + 1
                       /\ crashes' = crashes \/ crashes' = crashes + 1
                       /\ refusals' = refusals \/ refusals' = refusals + 1
             Suspects == /\ doubtful' = doubtful \/ \E S \in SUBSET Block : doubtful' = doubtful \union S
                         /\ strayed' = strayed \/ \E a \in Nat : strayed' = strayed \union {a}
             Device == /\ size' = size \/ size' = size + 1
                       /\ known' = known \/ \E n \in Nodes : known' = [known EXCEPT ![n] = size]
  <2>1. ASSUME NEW p \in load.writes, WriteStep(p) PROVE Ghosts /\ Suspects /\ Device /\ fsck' = fsck
    <3>1. Ghosts
      BY Zenon, <2>1 DEF WriteStep, Begin, DeviceTooSmall, ListPool, ClaimFreeArena, PoolExhausted,
           NextCounter, RefuseArena, RecordOwnership, ScanExtents, Attach, AllocateAgain, Commit,
           Fails, ghosts
    <3>2. Home[p] \in Nodes
      BY Located DEF WritesTyped
    <3>3. Device
      BY Zenon, <2>1, <3>2 DEF WriteStep, Begin, DeviceTooSmall, NoSpace, ListPool, ClaimFreeArena,
           PoolExhausted, NextCounter, RefuseArena, RecordOwnership, ScanExtents, Attach,
           AllocateAgain, Commit, local
    <3>4. fsck' = fsck
      BY Zenon, <2>1 DEF WriteStep, Begin, DeviceTooSmall, ListPool, ClaimFreeArena, PoolExhausted,
           NextCounter, RefuseArena, RecordOwnership, ScanExtents, Attach, AllocateAgain, Commit
    <3>5. Suspects
      <4>1. w[p].blocks \in SUBSET Block
        BY Located DEF WritesTyped, ArenaTypes, WriteState
      <4> QED
        BY Zenon, <2>1, <4>1 DEF WriteStep, Begin, DeviceTooSmall, ListPool, ClaimFreeArena,
           PoolExhausted, NextCounter, RefuseArena, RecordOwnership, ScanExtents, Attach,
           AllocateAgain, Commit, suspects
    <3> QED
      BY <3>1, <3>3, <3>4, <3>5
  <2>2. ASSUME NEW n \in Nodes, NodeStep(n) PROVE Ghosts /\ Suspects /\ Device /\ fsck' = fsck
    <3>1. Ghosts
      BY Zenon, <2>2 DEF NodeStep, DeleteExtent, Free, DetachEmpty, ReleaseEmpty, Crash, ReadArenas,
           MarkLiveExtents, Fence, ReleaseArena, Fails, ghosts
    <3>2. Device /\ fsck' = fsck
      BY Zenon, <2>2 DEF NodeStep, DeleteExtent, Free, DetachEmpty, ReleaseEmpty, Crash, ReadArenas,
           MarkLiveExtents, Fence, ReleaseArena, local
    <3>3. Suspects
      <4>1. LiveIn(arenas[n]) \in SUBSET Block /\ \A a \in reap[n] : a \in Nat
        BY DEF WritesTyped, ArenaTypes, LiveIn
      <4> QED
        BY Zenon, <2>2, <4>1 DEF NodeStep, DeleteExtent, Free, DetachEmpty, ReleaseEmpty, Crash,
           ReadArenas, MarkLiveExtents, Fence, ReleaseArena, suspects
    <3> QED
      BY <3>1, <3>2, <3>3
  <2>3. CASE FsckCounter \/ FsckOwners \/ FsckFree \/ FsckExit
    <3>1. /\ counter \in Nat /\ Lost \in SUBSET Nat /\ Owned \in SUBSET Nat
          /\ pool \in SUBSET Nat /\ {} \in SUBSET Nat
      BY DEF WritesTyped, ArenaTypes, Lost, Issued, Owned
    <3>2. fsck' \in CheckState
      <4>1. \/ fsck' = [NoCheck EXCEPT !.pc = "counted", !.high = counter, !.lost = Lost]
            \/ fsck' = [NoCheck EXCEPT !.pc = "counted", !.blind = TRUE, !.lost = Lost]
            \/ \E S \in SUBSET Nat : fsck' = [fsck EXCEPT !.pc = "listed", !.owned = S]
            \/ \E S \in SUBSET Nat : fsck' = [fsck EXCEPT !.pc = "done", !.free = S]
            \/ fsck' = NoCheck
        BY Zenon, <2>3, <3>1 DEF FsckCounter, FsckOwners, FsckFree, FsckExit
      <4>2. /\ [NoCheck EXCEPT !.pc = "counted", !.high = counter, !.lost = Lost] \in CheckState
            /\ [NoCheck EXCEPT !.pc = "counted", !.blind = TRUE, !.lost = Lost] \in CheckState
            /\ NoCheck \in CheckState
        BY Zenon, <3>1, CheckTyped
      <4>3. \A S \in SUBSET Nat : /\ [fsck EXCEPT !.pc = "listed", !.owned = S] \in CheckState
                                  /\ [fsck EXCEPT !.pc = "done", !.free = S] \in CheckState
        BY Zenon, <3>1, CheckTyped
      <4> QED
        BY Zenon, <4>1, <4>2, <4>3
    <3>3. UNCHANGED <<size, known, errors, crashes, refusals, doubtful, strayed>>
      BY Zenon, <2>3 DEF FsckCounter, FsckOwners, FsckFree, FsckExit, local, ghosts, suspects
    <3> QED
      BY <3>2, <3>3
  <2>4. CASE Grow \/ UNCHANGED vars
    <3>1. /\ UNCHANGED <<known, fsck, errors, crashes, refusals, doubtful, strayed>>
          /\ size' = size \/ size' = size + 1
      BY Zenon, <2>4 DEF Grow, vars, local, ghosts, suspects
    <3>2. size' \in Nat
      BY <3>1
    <3> QED
      BY Zenon, <3>1, <3>2
  <2>5. ASSUME Ghosts, Suspects, Device, fsck' = fsck PROVE Rest'
    <3>1. size' \in Nat /\ errors' \in Nat /\ crashes' \in Nat /\ refusals' \in Nat
      BY <2>5
    <3>2. known' \in [Nodes -> Nat]
      BY Zenon, <2>5
    <3>3. doubtful' \subseteq Block /\ strayed' \subseteq Nat
      BY Zenon, <2>5
    <3> QED
      BY Zenon, <2>5, <3>1, <3>2, <3>3
  <2> QED
    BY Zenon, <2>1, <2>2, <2>3, <2>4, <2>5 DEF Next
<1>3. WritesTyped /\ Rest => TypeOK
    BY Zenon DEF WritesTyped, TypeOK, CheckState
<1> HIDE DEF Rest
<1> QED
    BY <1>1, <1>2, <1>3, Typed, PTL DEF Spec

-----------------------------------------------------------------------------
(* Where the arenas go.  In etcd an arena is in the pool or owned; between the two
   it is in the hand of a write that has drawn it, and then only the write knows
   of it. *)

Drawn(p) == w[p].pc = "drawn"

\* What a step of a write may do to the places of the arenas: nothing, draw one from
\* the pool or the counter, put the one it holds down as owned, or fail.
Passes(p) ==
  /\ ~Drawn(p) /\ ~Drawn(p)' /\ UNCHANGED <<counter, pool, owner, refusals>>
  /\ errors' = errors \/ errors' = errors + 1
Draws(p) ==
  /\ ~Drawn(p) /\ Drawn(p)' /\ UNCHANGED <<owner, errors, refusals>>
  /\ \/ w'[p].arena \in pool /\ pool' = pool \ {w'[p].arena} /\ counter' = counter
     \/ w'[p].arena = counter /\ counter' = counter + 1 /\ pool' = pool
Drops(p) ==
  /\ ~Drawn(p) /\ ~Drawn(p)' /\ UNCHANGED <<owner, refusals>> /\ errors' = errors + 1
  /\ \/ counter' = counter /\ \E a : pool' = pool \ {a}
     \/ counter' = counter + 1 /\ pool' = pool
Records(p) ==
  /\ Drawn(p) /\ ~Drawn(p)' /\ UNCHANGED <<counter, pool, refusals>>
  /\ \/ owner' = [owner EXCEPT ![Home[p]] = @ \union {w[p].arena}]
     \/ w[p].arena \in owner[Home[p]] /\ owner' = owner
  /\ errors' = errors \/ errors' = errors + 1
Forgets(p) ==
  /\ Drawn(p) /\ ~Drawn(p)' /\ UNCHANGED <<counter, pool, owner>>
  /\ \/ errors' = errors + 1 /\ refusals' = refusals
     \/ errors' = errors /\ refusals' = refusals + 1

\* Those are the things a step of a write may do, and it leaves other writes alone.
LEMMA WriteMoves ==
  ASSUME ArenaTypes, NEW p \in load.writes, WriteStep(p)
  PROVE  /\ \A q \in Writes \ {p} : w'[q] = w[q]
         /\ crashes' = crashes
         /\ Passes(p) \/ Draws(p) \/ Drops(p) \/ Records(p) \/ Forgets(p)
<1> DEFINE Others == \A q \in Writes \ {p} : w'[q] = w[q]
           Moves == Passes(p) \/ Draws(p) \/ Drops(p) \/ Records(p) \/ Forgets(p)
<1>0. /\ p \in Writes /\ Home[p] \in Nodes /\ w[p] \in WriteState
      /\ w \in [Writes -> WriteState] /\ counter \in Nat
    BY Located DEF ArenaTypes
<1>1. ASSUME NEW x, w' = [w EXCEPT ![p] = x] PROVE Others /\ w'[p] = x
    BY Zenon, <1>0, <1>1
<1>2. crashes' = crashes
    BY Zenon DEF WriteStep, Begin, DeviceTooSmall, ListPool, ClaimFreeArena, PoolExhausted,
           NextCounter, RefuseArena, RecordOwnership, ScanExtents, Attach, AllocateAgain, Commit,
           Fails, ghosts
<1>3. ASSUME Abandon(p) \/ NoSpace(p) PROVE Others /\ ~Drawn(p)'
  <2>1. Idle.pc # "drawn" /\ [Idle EXCEPT !.pc = "list", !.want = w[p].want, !.again = TRUE].pc # "drawn"
    BY DEF Idle
  <2> QED
    BY Zenon, <1>1, <1>3, <2>1 DEF Abandon, NoSpace, Drawn
<1>4. ASSUME ListPool(p) \/ PoolExhausted(p) PROVE Others /\ Moves
  <2>1. \/ w' = [w EXCEPT ![p] = [w[p] EXCEPT !.pc = "claim", !.list = pool]]
        \/ w' = [w EXCEPT ![p] = [w[p] EXCEPT !.pc = "count"]]
    BY Zenon, <1>0, <1>4 DEF ListPool, PoolExhausted
  <2>a. /\ [w[p] EXCEPT !.pc = "claim", !.list = pool].pc # "drawn"
        /\ [w[p] EXCEPT !.pc = "count"].pc # "drawn"
    BY <1>0 DEF WriteState
  <2>2. Others /\ ~Drawn(p)'
    BY Zenon, <1>1, <2>1, <2>a DEF Drawn
  <2>3. ~Drawn(p) /\ UNCHANGED <<counter, pool, owner, refusals>>
        /\ (errors' = errors \/ errors' = errors + 1)
    BY Zenon, <1>4 DEF ListPool, PoolExhausted, Fails, etcd, ghosts, Drawn
  <2> QED
    BY <2>2, <2>3 DEF Passes
<1>5. ASSUME ClaimFreeArena(p) PROVE Others /\ Moves
  <2>1. UNCHANGED <<counter, owner, refusals>> /\ ~Drawn(p) /\ w[p].pc = "claim"
    BY Zenon, <1>5 DEF ClaimFreeArena, Fails, ghosts, Drawn
  <2>2. PICK a \in w[p].list :
          \/ /\ w' = [w EXCEPT ![p].pc = "drawn", ![p].arena = a, ![p].reused = TRUE, ![p].list = {}]
             /\ a \in pool /\ pool' = pool \ {a} /\ errors' = errors
          \/ w' = [w EXCEPT ![p].list = @ \ {a}] /\ pool' = pool /\ errors' = errors
          \/ /\ w' = [w EXCEPT ![p].pc = "count", ![p].list = {}]
             /\ pool' = pool \/ pool' = pool \ {a}
             /\ errors' = errors + 1
    BY Zenon, <1>5 DEF ClaimFreeArena, Fails, ghosts
  <2>3. CASE /\ w' = [w EXCEPT ![p].pc = "drawn", ![p].arena = a, ![p].reused = TRUE, ![p].list = {}]
             /\ a \in pool /\ pool' = pool \ {a} /\ errors' = errors
    <3>1. Others /\ Drawn(p)' /\ w'[p].arena = a
      <4>1. \A q \in Writes \ {p} : w'[q] = w[q]
        BY <1>0, <2>3
      <4>2. w'[p] = [w[p] EXCEPT !.pc = "drawn", !.arena = a, !.reused = TRUE, !.list = {}]
        BY Zenon, <1>0, <2>3
      <4>3. LET x == [w[p] EXCEPT !.pc = "drawn", !.arena = a, !.reused = TRUE, !.list = {}]
            IN  x.pc = "drawn" /\ x.arena = a
        BY <1>0 DEF WriteState
      <4> QED
        BY Zenon, <4>1, <4>2, <4>3 DEF Drawn
    <3> QED
      <4>1. a \in pool /\ pool' = pool \ {a} /\ errors' = errors
        BY <2>3
      <4> QED
        BY Zenon, <2>1, <3>1, <4>1 DEF Draws
  <2>4. CASE w' = [w EXCEPT ![p].list = @ \ {a}] /\ pool' = pool /\ errors' = errors
    <3>1. Others /\ ~Drawn(p)'
      BY <1>0, <2>1, <2>4 DEF Drawn, WriteState
    <3> QED
      BY <2>1, <2>4, <3>1 DEF Passes
  <2>5. CASE /\ w' = [w EXCEPT ![p].pc = "count", ![p].list = {}]
             /\ pool' = pool \/ pool' = pool \ {a}
             /\ errors' = errors + 1
    <3>1. Others /\ ~Drawn(p)'
      BY <1>0, <2>5 DEF Drawn, WriteState
    <3> QED
      BY Zenon, <2>1, <2>5, <3>1 DEF Passes, Drops
  <2> QED
    BY <2>2, <2>3, <2>4, <2>5
<1>6. ASSUME NextCounter(p) PROVE Others /\ Moves
  <2>1. UNCHANGED <<pool, owner, refusals>> /\ ~Drawn(p)
    BY Zenon, <1>6 DEF NextCounter, Fails, ghosts, Drawn
  <2>2. \/ /\ w' = [w EXCEPT ![p] = [w[p] EXCEPT !.pc = "drawn", !.arena = counter, !.reused = FALSE]]
           /\ counter' = counter + 1 /\ errors' = errors
        \/ Abandon(p) /\ errors' = errors + 1 /\ (counter' = counter \/ counter' = counter + 1)
    BY Zenon, <1>0, <1>6 DEF NextCounter, Fails, ghosts
  <2>3. \/ /\ Others /\ Drawn(p)' /\ w'[p].arena = counter
           /\ counter' = counter + 1 /\ errors' = errors
        \/ /\ Others /\ ~Drawn(p)'
           /\ errors' = errors + 1 /\ (counter' = counter \/ counter' = counter + 1)
    <3>1. LET x == [w[p] EXCEPT !.pc = "drawn", !.arena = counter, !.reused = FALSE]
          IN  x.pc = "drawn" /\ x.arena = counter
      BY <1>0 DEF WriteState
    <3> QED
      BY Zenon, <1>1, <1>3, <2>2, <3>1 DEF Drawn
  <2> QED
    BY <2>1, <2>3 DEF Draws, Passes, Drops
<1>7. ASSUME RefuseArena(p) PROVE Others /\ Moves
  <2>1. /\ NoSpace(p) /\ Drawn(p) /\ refusals' = refusals + 1
        /\ UNCHANGED <<counter, pool, owner, errors>>
    BY Zenon, <1>7 DEF RefuseArena, etcd, Drawn
  <2> QED
    BY <1>3, <2>1 DEF Forgets
<1>8. ASSUME RecordOwnership(p) PROVE Others /\ Moves
  <2>1. UNCHANGED <<counter, pool, refusals>> /\ Drawn(p)
    BY Zenon, <1>8 DEF RecordOwnership, Fails, ghosts, Drawn
  <2>2. \/ w' = [w EXCEPT ![p] = [w[p] EXCEPT !.pc = "scan"]]
        \/ w' = [w EXCEPT ![p] = [w[p] EXCEPT !.pc = "attach"]]
        \/ Abandon(p)
    BY Zenon, <1>0, <1>8 DEF RecordOwnership
  <2>a. [w[p] EXCEPT !.pc = "scan"].pc # "drawn" /\ [w[p] EXCEPT !.pc = "attach"].pc # "drawn"
    BY <1>0 DEF WriteState
  <2>3. Others /\ ~Drawn(p)'
    BY Zenon, <1>1, <1>3, <2>2, <2>a DEF Drawn
  <2>4. \/ /\ owner' = [owner EXCEPT ![Home[p]] = @ \union {w[p].arena}]
           /\ errors' = errors \/ errors' = errors + 1
        \/ w[p].arena \in owner[Home[p]] /\ UNCHANGED <<owner, errors>>
        \/ owner' = owner /\ errors' = errors + 1
    BY Zenon, <1>8 DEF RecordOwnership, Fails, ghosts
  <2> QED
    BY Zenon, <2>1, <2>3, <2>4 DEF Records, Forgets
<1>9. ASSUME ScanExtents(p) PROVE Others /\ Moves
  <2>1. \/ w' = [w EXCEPT ![p] = [w[p] EXCEPT !.pc = "attach", !.blocks = LiveIn({w[p].arena})]]
        \/ Abandon(p)
    BY Zenon, <1>0, <1>9 DEF ScanExtents
  <2>a. [w[p] EXCEPT !.pc = "attach", !.blocks = LiveIn({w[p].arena})].pc # "drawn"
    BY <1>0 DEF WriteState
  <2>2. Others /\ ~Drawn(p)'
    BY Zenon, <1>1, <1>3, <2>1, <2>a DEF Drawn
  <2>3. ~Drawn(p) /\ UNCHANGED <<counter, pool, owner, refusals>>
        /\ (errors' = errors \/ errors' = errors + 1)
    BY Zenon, <1>9 DEF ScanExtents, Fails, etcd, ghosts, Drawn
  <2> QED
    BY <2>2, <2>3 DEF Passes
<1>10. ASSUME (\E k \in load.sizes : Begin(p, k)) \/ Attach(p) \/ AllocateAgain(p) \/ Commit(p)
              \/ DeviceTooSmall(p)
       PROVE Others /\ Moves
  <2>1. ASSUME NEW k \in load.sizes, Begin(p, k) PROVE Others /\ ~Drawn(p)' /\ ~Drawn(p)
    <3>1. /\ \A bs : [Idle EXCEPT !.pc = "reserved", !.want = k, !.blocks = bs].pc # "drawn"
          /\ [Idle EXCEPT !.pc = "list", !.want = k].pc # "drawn" /\ Idle.pc # "drawn"
      BY DEF Idle
    <3>2. w[p] = Idle /\ \/ \E bs : w' = [w EXCEPT ![p] = [Idle EXCEPT !.pc = "reserved", !.want = k,
                                                                     !.blocks = bs]]
                         \/ w' = [w EXCEPT ![p] = [Idle EXCEPT !.pc = "list", !.want = k]]
      BY Zenon, <2>1 DEF Begin
    <3>3. PICK x : w' = [w EXCEPT ![p] = x] /\ x.pc # "drawn"
      BY Zenon, <3>1, <3>2
    <3> QED
      BY Zenon, <1>1, <3>1, <3>2, <3>3 DEF Drawn
  <2>2. ASSUME AllocateAgain(p) PROVE Others /\ ~Drawn(p)'
    <3>1. \/ \E bs : w' = [w EXCEPT ![p] = [w[p] EXCEPT !.pc = "reserved", !.blocks = bs]]
          \/ Abandon(p)
      BY Zenon, <1>0, <2>2 DEF AllocateAgain, Allocate
    <3>2. \A bs : [w[p] EXCEPT !.pc = "reserved", !.blocks = bs].pc # "drawn"
      BY <1>0 DEF WriteState
    <3> QED
      BY Zenon, <1>1, <1>3, <3>1, <3>2 DEF Drawn
  <2>3. ASSUME Attach(p) PROVE Others /\ ~Drawn(p)'
    <3>1. [Idle EXCEPT !.pc = "allocate", !.want = w[p].want].pc # "drawn"
      BY DEF Idle
    <3> QED
      BY Zenon, <1>1, <2>3, <3>1 DEF Attach, Drawn
  <2>4. Others /\ ~Drawn(p)'
    BY Zenon, <1>3, <1>10, <2>1, <2>2, <2>3 DEF Commit, DeviceTooSmall
  <2>5. ~Drawn(p)
    BY Zenon, <1>10, <2>1 DEF Attach, AllocateAgain, Commit, DeviceTooSmall, Drawn
  <2>6. /\ UNCHANGED <<counter, pool, owner, refusals>>
        /\ errors' = errors \/ errors' = errors + 1
    BY Zenon, <1>10 DEF Begin, Attach, AllocateAgain, Commit, DeviceTooSmall, Fails, etcd, ghosts
  <2> QED
    BY <2>4, <2>5, <2>6 DEF Passes
<1> QED
    BY Zenon, <1>2, <1>4, <1>5, <1>6, <1>7, <1>8, <1>9, <1>10 DEF WriteStep

\* A step of a node gives an arena to the pool, or stops the node and its writes, or
\* leaves the arenas where they are.
LEMMA NodeMoves ==
  ASSUME NEW n \in Nodes, NodeStep(n)
  PROVE  /\ counter' = counter /\ refusals' = refusals
         /\ \/ /\ w' = w /\ crashes' = crashes
               /\ errors' = errors \/ errors' = errors + 1
               /\ UNCHANGED <<owner, pool>> \/ \E a \in owner[n] : ToPool(n, a)
            \/ /\ UNCHANGED <<owner, pool, errors>> /\ crashes' = crashes + 1
               /\ w' = [q \in Writes |-> IF Home[q] = n THEN Idle ELSE w[q]]
<1>1. counter' = counter /\ refusals' = refusals
    BY Zenon DEF NodeStep, DeleteExtent, Free, DetachEmpty, ReleaseEmpty, Crash, ReadArenas,
             MarkLiveExtents, Fence, ReleaseArena, Fails, etcd, ghosts
<1>2. CASE Crash(n)
    BY Zenon, <1>1, <1>2 DEF Crash, etcd
<1>3. CASE ~Crash(n)
  <2>1. w' = w /\ crashes' = crashes /\ (errors' = errors \/ errors' = errors + 1)
    BY Zenon, <1>3 DEF NodeStep, DeleteExtent, Free, DetachEmpty, ReleaseEmpty, ReadArenas,
             MarkLiveExtents, Fence, ReleaseArena, Fails, ghosts
  <2>2. UNCHANGED <<owner, pool>> \/ \E a \in owner[n] : ToPool(n, a)
    BY Zenon, <1>3 DEF NodeStep, DeleteExtent, Free, DetachEmpty, ReleaseEmpty, ReadArenas,
             MarkLiveExtents, Fence, ReleaseArena, etcd
  <2> QED
    BY <1>1, <2>1, <2>2
<1> QED
    BY <1>2, <1>3

\* Whatever fails, an arena is in one place only.
LEMMA OnePlaceKept ==
  ASSUME ArenaTypes, ArenaTypes', OnePlace, [Next]_vars
  PROVE  OnePlace'
<1>0. counter \in Nat /\ owner \in [Nodes -> SUBSET Nat] /\ pool \in SUBSET Nat
    BY DEF ArenaTypes
<1>1. ASSUME NEW p \in load.writes, WriteStep(p) PROVE OnePlace'
  <2>1. p \in Writes /\ Home[p] \in Nodes /\ \A q \in Writes \ {p} : w'[q] = w[q]
    BY <1>1, Located, WriteMoves
  <2>2. CASE Passes(p) \/ Drops(p) \/ Forgets(p)
    <3>1. owner' = owner /\ pool' \subseteq pool /\ (counter' = counter \/ counter' = counter + 1)
      BY <2>2 DEF Passes, Drops, Forgets
    <3>2. \A q \in Writes : w'[q].pc = "drawn" => w'[q] = w[q]
      BY <2>1, <2>2 DEF Passes, Drops, Forgets, Drawn
    <3> QED
      BY <1>0, <3>1, <3>2 DEF OnePlace
  <2>3. CASE Draws(p)
    <3> DEFINE a == w'[p].arena
    <3>1. /\ a \in Nat /\ a < counter' /\ a \notin pool' /\ \A n \in Nodes : a \notin owner[n]
          /\ \A q \in Writes : w[q].pc = "drawn" => w[q].arena # a
      <4>1. CASE a \in pool /\ pool' = pool \ {a} /\ counter' = counter
        BY <1>0, <4>1 DEF OnePlace
      <4>2. CASE a = counter /\ counter' = counter + 1 /\ pool' = pool
        BY <1>0, <4>2 DEF OnePlace
      <4> QED
        BY <2>3, <4>1, <4>2 DEF Draws
    <3>2. /\ owner' = owner /\ pool' \subseteq pool /\ w'[p].pc = "drawn"
          /\ counter' = counter \/ counter' = counter + 1
      BY <2>3 DEF Draws, Drawn
    <3> HIDE DEF a
    <3>3. /\ \A c \in pool' : c < counter'
          /\ \A n \in Nodes : \A c \in owner'[n] :
               c < counter' /\ c \notin pool' /\ \A m \in Nodes \ {n} : c \notin owner'[m]
      BY <1>0, <3>2 DEF OnePlace
    <3>4. ASSUME NEW q \in Writes, w'[q].pc = "drawn"
          PROVE  /\ w'[q].arena \in Nat /\ w'[q].arena < counter' /\ w'[q].arena \notin pool'
                 /\ \A n \in Nodes : w'[q].arena \notin owner'[n]
                 /\ \A r \in Writes \ {q} : w'[r].pc = "drawn" => w'[r].arena # w'[q].arena
      <4>1. CASE q = p
        BY <2>1, <3>1, <3>2, <4>1 DEF a
      <4>2. CASE q # p
        BY <1>0, <2>1, <3>1, <3>2, <3>4, <4>2 DEF a, OnePlace
      <4> QED
        BY <4>1, <4>2
    <3> QED
      BY <3>3, <3>4 DEF OnePlace
  <2>4. CASE Records(p)
    <3>1. \A q \in Writes : w'[q].pc = "drawn" => q # p /\ w'[q] = w[q]
      BY <2>1, <2>4 DEF Records, Drawn
    <3>2. w[p].pc = "drawn" /\ counter' = counter /\ pool' = pool
      BY <2>4 DEF Records, Drawn
    <3>3. \A n \in Nodes : \A c \in owner'[n] :
            c \in owner[n] \/ (n = Home[p] /\ c = w[p].arena)
      <4>1. CASE owner' = [owner EXCEPT ![Home[p]] = @ \union {w[p].arena}]
        BY <1>0, <2>1, <4>1
      <4> QED
        BY <2>4, <4>1 DEF Records
    <3>4. \A n \in Nodes : \A c \in owner'[n] :
               c < counter' /\ c \notin pool' /\ \A m \in Nodes \ {n} : c \notin owner'[m]
      BY <1>0, <2>1, <3>2, <3>3 DEF OnePlace
    <3>5. ASSUME NEW q \in Writes, w'[q].pc = "drawn"
          PROVE  /\ w'[q].arena \in Nat /\ w'[q].arena < counter' /\ w'[q].arena \notin pool'
                 /\ \A n \in Nodes : w'[q].arena \notin owner'[n]
                 /\ \A r \in Writes \ {q} : w'[r].pc = "drawn" => w'[r].arena # w'[q].arena
      BY <2>1, <3>1, <3>2, <3>3, <3>5 DEF OnePlace
    <3> QED
      BY <3>2, <3>4, <3>5 DEF OnePlace
  <2> QED
    BY <1>1, <2>2, <2>3, <2>4, WriteMoves
<1>2. ASSUME NEW n \in Nodes, NodeStep(n) PROVE OnePlace'
  <2>1. CASE UNCHANGED <<owner, pool>> /\ \A q \in Writes : w'[q].pc = "drawn" => w'[q] = w[q]
    <3>1. counter' = counter
      BY <1>2, NodeMoves
    <3> QED
      BY <2>1, <3>1 DEF OnePlace
  <2>2. ASSUME NEW a \in owner[n], ToPool(n, a), w' = w PROVE OnePlace'
    <3>1. counter' = counter /\ pool' = pool \union {a}
      BY <1>2, <2>2, NodeMoves DEF ToPool
    <3>2. /\ \A m \in Nodes : owner'[m] \subseteq owner[m]
          /\ a \notin owner'[n]
      BY <1>0, <2>2 DEF ToPool
    <3>3. a < counter /\ \A m \in Nodes : a \notin owner'[m]
      BY <3>2 DEF OnePlace
    <3>4. \A q \in Writes : w[q].pc = "drawn" => w[q].arena # a
      BY DEF OnePlace
    <3> QED
      BY <2>2, <3>1, <3>2, <3>3, <3>4 DEF OnePlace
  <2>3. w' = [q \in Writes |-> IF Home[q] = n THEN Idle ELSE w[q]]
          => \A q \in Writes : w'[q].pc = "drawn" => w'[q] = w[q]
    BY DEF Idle
  <2> QED
    BY Zenon, <1>2, <2>1, <2>2, <2>3, NodeMoves
<1>3. ASSUME UNCHANGED <<etcd, local, w>> PROVE OnePlace'
    BY <1>3 DEF OnePlace, etcd
<1>4. Grow \/ FsckCounter \/ FsckOwners \/ FsckFree \/ FsckExit \/ UNCHANGED vars
        => UNCHANGED <<etcd, local, w>>
    BY Zenon DEF Grow, FsckCounter, FsckOwners, FsckFree, FsckExit, vars, etcd, local
<1> QED
    BY Zenon, <1>1, <1>2, <1>3, <1>4 DEF Next

\* An arena somebody can still come by.
Kept(a) ==
  \/ a \in pool
  \/ \E n \in Nodes : a \in owner[n]
  \/ \E q \in Writes : Drawn(q) /\ w[q].arena = a

\* The arenas lost are the issued ones that are not kept.
LEMMA LostArenas ==
  ASSUME counter \in Nat, counter' \in Nat
  PROVE  /\ \A a : a \in Lost <=> a \in Nat /\ a < counter /\ ~Kept(a)
         /\ \A a : a \in Lost' <=> a \in Nat /\ a < counter' /\ ~Kept(a)'
<1>1. \A a : Kept(a) <=> a \in Owned \union pool \union InHand
    BY Zenon DEF Kept, Owned, InHand, Drawn
<1>2. \A a : Kept(a)' <=> a \in (Owned \union pool \union InHand)'
    BY Zenon DEF Kept, Owned, InHand, Drawn
<1>3. /\ \A a : a \in 0 .. counter - 1 <=> a \in Nat /\ a < counter
      /\ \A a : a \in 0 .. counter' - 1 <=> a \in Nat /\ a < counter'
    OBVIOUS
<1> QED
    BY <1>1, <1>2, <1>3 DEF Lost, Issued

\* What a step costs: nothing, or one arena that a failed call or a refusal
\* accounts for, or the arenas in the hands of the writes that a crash stops.
Costs ==
  \/ Lost' \subseteq Lost /\ crashes' = crashes /\ errors' + refusals' >= errors + refusals
  \/ /\ \E a : Lost' \subseteq Lost \union {a}
     /\ crashes' = crashes /\ errors' + refusals' = errors + refusals + 1
  \/ /\ Lost' \subseteq Lost \union {w[q].arena : q \in Writes}
     /\ crashes' = crashes + 1 /\ errors' + refusals' = errors + refusals

\* No step of a write brings a lost arena back, or loses one without a cost;
LEMMA WriteCosts ==
  ASSUME TypeOK, NEW p \in load.writes, WriteStep(p)
  PROVE  Lost \subseteq Lost' /\ Costs
<1>0. counter \in Nat /\ errors \in Nat /\ refusals \in Nat /\ owner \in [Nodes -> SUBSET Nat]
    BY DEF TypeOK, ArenaTypes
<1>1. p \in Writes /\ Home[p] \in Nodes /\ (\A q \in Writes \ {p} : w'[q] = w[q])
      /\ crashes' = crashes
    BY Located, WriteMoves DEF TypeOK
<1>2. \A q \in Writes \ {p} : Drawn(q)' = Drawn(q) /\ w'[q].arena = w[q].arena
    BY <1>1 DEF Drawn
<1>3. CASE Passes(p)
  <2>1. \A a : Kept(a)' <=> Kept(a)
    BY Zenon, <1>2, <1>3 DEF Kept, Passes
  <2>2. counter' = counter /\ errors' + refusals' >= errors + refusals
    BY <1>0, <1>3 DEF Passes
  <2> QED
    BY <1>0, <1>1, <2>1, <2>2, LostArenas DEF Costs
<1>4. CASE Draws(p)
  <2>1. \A a : Kept(a) => Kept(a)'
    BY Zenon, <1>1, <1>2, <1>4 DEF Kept, Draws
  <2>2. \A a : Kept(a)' => Kept(a) \/ (counter' = counter + 1 /\ a = counter)
    BY Zenon, <1>1, <1>2, <1>4 DEF Kept, Draws
  <2>3. counter' = counter \/ (counter' = counter + 1 /\ \A a : a = counter => Kept(a)')
    BY Zenon, <1>1, <1>4 DEF Kept, Draws
  <2>4. errors' = errors /\ refusals' = refusals
    BY <1>4 DEF Draws
  <2> QED
    <3>1. Lost \subseteq Lost' /\ Lost' \subseteq Lost
      BY <1>0, <2>1, <2>2, <2>3, LostArenas
    <3> QED
      BY <1>0, <1>1, <2>4, <3>1 DEF Costs
<1>5. CASE Drops(p)
  <2>1. \A a : Kept(a)' => Kept(a)
    BY Zenon, <1>2, <1>5 DEF Kept, Drops
  <2>2. \/ counter' = counter /\ \E b : \A a : Kept(a) => Kept(a)' \/ a = b
        \/ counter' = counter + 1 /\ \A a : Kept(a) => Kept(a)'
    <3>1. \A q \in Writes : Drawn(q) => Drawn(q)' /\ w'[q].arena = w[q].arena
      BY <1>2, <1>5 DEF Drops
    <3>2. ASSUME NEW b, pool' = pool \ {b} PROVE \A a : Kept(a) => Kept(a)' \/ a = b
      BY Zenon, <1>5, <3>1, <3>2 DEF Kept, Drops
    <3>3. ASSUME pool' = pool PROVE \A a : Kept(a) => Kept(a)'
      BY Zenon, <1>5, <3>1, <3>3 DEF Kept, Drops
    <3> QED
      BY Zenon, <1>5, <3>2, <3>3 DEF Drops
  <2>3. errors' + refusals' = errors + refusals + 1
    <3>1. errors' = errors + 1 /\ refusals' = refusals
      BY <1>5 DEF Drops
    <3> QED
      BY <1>0, <3>1
  <2>4. Lost \subseteq Lost'
    BY <1>0, <2>1, <2>2, LostArenas
  <2>5. \E b : Lost' \subseteq Lost \union {b}
    <3>1. CASE counter' = counter + 1 /\ \A a : Kept(a) => Kept(a)'
      BY <1>0, <3>1, LostArenas
    <3>2. ASSUME NEW b, counter' = counter, \A a : Kept(a) => Kept(a)' \/ a = b
          PROVE  Lost' \subseteq Lost \union {b}
      BY <1>0, <3>2, LostArenas
    <3> QED
      BY <2>2, <3>1, <3>2
  <2> QED
    BY <1>1, <2>3, <2>4, <2>5 DEF Costs
<1>6. CASE Records(p)
  <2>1. \A a : (\E n \in Nodes : a \in owner'[n]) <=> (\E n \in Nodes : a \in owner[n]) \/ a = w[p].arena
    <3>1. CASE owner' = [owner EXCEPT ![Home[p]] = @ \union {w[p].arena}]
      BY <1>0, <1>1, <3>1
    <3>2. CASE w[p].arena \in owner[Home[p]] /\ owner' = owner
      BY <1>1, <3>2
    <3> QED
      BY <1>6, <3>1, <3>2 DEF Records
  <2>2. \A a : Kept(a)' <=> Kept(a)
    BY Zenon, <1>1, <1>2, <1>6, <2>1 DEF Kept, Records
  <2>3. counter' = counter /\ errors' + refusals' >= errors + refusals
    BY <1>0, <1>6 DEF Records
  <2> QED
    BY <1>0, <1>1, <2>2, <2>3, LostArenas DEF Costs
<1>7. CASE Forgets(p)
  <2>1. \A a : Kept(a)' => Kept(a)
    BY Zenon, <1>2, <1>7 DEF Kept, Forgets
  <2>2. \A a : Kept(a) => Kept(a)' \/ a = w[p].arena
    BY Zenon, <1>2, <1>7 DEF Kept, Forgets
  <2>3. counter' = counter /\ errors' + refusals' = errors + refusals + 1
    BY <1>0, <1>7 DEF Forgets
  <2>4. Lost \subseteq Lost' /\ Lost' \subseteq Lost \union {w[p].arena}
    BY <1>0, <2>1, <2>2, <2>3, LostArenas
  <2> QED
    BY <1>1, <2>3, <2>4 DEF Costs
<1> QED
    BY <1>3, <1>4, <1>5, <1>6, <1>7, WriteMoves DEF TypeOK

\* nor does a step of a node.
LEMMA NodeCosts ==
  ASSUME TypeOK, NEW n \in Nodes, NodeStep(n)
  PROVE  Lost \subseteq Lost' /\ Costs
<1>0. /\ counter \in Nat /\ errors \in Nat /\ refusals \in Nat /\ crashes \in Nat
      /\ owner \in [Nodes -> SUBSET Nat]
      /\ counter' = counter /\ refusals' = refusals
    BY NodeMoves DEF TypeOK, ArenaTypes
<1>1. CASE /\ w' = w /\ crashes' = crashes
           /\ errors' = errors \/ errors' = errors + 1
           /\ UNCHANGED <<owner, pool>> \/ \E a \in owner[n] : ToPool(n, a)
  <2>1. \A a : Kept(a)' <=> Kept(a)
    <3>1. CASE UNCHANGED <<owner, pool>>
      BY <1>1, <3>1 DEF Kept, Drawn
    <3>2. ASSUME NEW b \in owner[n], ToPool(n, b) PROVE \A a : Kept(a)' <=> Kept(a)
      <4>1. /\ \A m \in Nodes : \A a : a \in owner'[m] => a \in owner[m]
            /\ \A m \in Nodes : \A a : a \in owner[m] => a \in owner'[m] \/ a = b
            /\ pool' = pool \union {b}
        BY <1>0, <3>2 DEF ToPool
      <4>2. \A q \in Writes : Drawn(q)' = Drawn(q) /\ w'[q].arena = w[q].arena
        BY <1>1 DEF Drawn
      <4> QED
        BY Zenon, <4>1, <4>2 DEF Kept
    <3> QED
      BY <1>1, <3>1, <3>2
  <2>2. errors' + refusals' >= errors + refusals
    BY <1>0, <1>1
  <2> QED
    BY <1>0, <1>1, <2>1, <2>2, LostArenas DEF Costs
<1>2. CASE /\ UNCHANGED <<owner, pool, errors>> /\ crashes' = crashes + 1
           /\ w' = [q \in Writes |-> IF Home[q] = n THEN Idle ELSE w[q]]
  <2>1. \A q \in Writes : Drawn(q)' => Drawn(q) /\ w'[q].arena = w[q].arena
    BY <1>2 DEF Drawn, Idle
  <2>2. \A a : Kept(a)' => Kept(a)
    BY Zenon, <1>2, <2>1 DEF Kept
  <2>3. \A a : Kept(a) => Kept(a)' \/ a \in {w[q].arena : q \in Writes}
    BY Zenon, <1>2 DEF Kept
  <2>4. Lost \subseteq Lost' /\ Lost' \subseteq Lost \union {w[q].arena : q \in Writes}
    BY <1>0, <2>2, <2>3, LostArenas
  <2> QED
    BY <1>0, <1>2, <2>4 DEF Costs
<1> QED
    BY Zenon, <1>1, <1>2, NodeMoves

\* A lost arena never comes back, and losses have their cost.
LEMMA StepCosts ==
  ASSUME TypeOK, [Next]_vars
  PROVE  Lost \subseteq Lost' /\ Costs
<1>1. ASSUME UNCHANGED <<etcd, w, errors, refusals, crashes>> PROVE Lost \subseteq Lost' /\ Costs
  <2>1. Lost' = Lost
    BY <1>1 DEF Lost, Issued, Owned, InHand, etcd
  <2>2. errors' + refusals' >= errors + refusals
    BY <1>1 DEF TypeOK
  <2> QED
    BY <1>1, <2>1, <2>2 DEF Costs
<1>2. Grow \/ FsckCounter \/ FsckOwners \/ FsckFree \/ FsckExit \/ UNCHANGED vars
        => UNCHANGED <<etcd, w, errors, refusals, crashes>>
    BY Zenon DEF Grow, FsckCounter, FsckOwners, FsckFree, FsckExit, vars, etcd, ghosts
<1> QED
    BY Zenon, <1>1, <1>2, WriteCosts, NodeCosts DEF Next

\* At the start there is no arena, and everything is of its type.
LEMMA Fresh ==
  ASSUME Init
  PROVE  WritesTyped /\ ArenaInv /\ Lost = {} /\ fsck.pc = "idle"
<1>1. Idle \in HeldWrite /\ Idle \in WriteState /\ Idle.pc = "idle"
    BY DEF Idle, WriteState, HeldWrite
<1>2. WritesTyped
    BY <1>1 DEF Init, WritesTyped, ArenaTypes
<1>3. ArenaInv
    BY Zenon, <1>1 DEF Init, ArenaInv, OnePlace, ListsOwned, JoinsOnce, StoppedIdle, ExtentsMarked,
                FreeingMarked, ReservedMarked
<1>4. Lost = {} /\ fsck.pc = "idle"
    BY DEF Init, Lost, Issued, NoCheck
<1> QED
    BY <1>2, <1>3, <1>4

\* The code hands no block out twice, whatever fails, apart from the blocks of a
\* commit or a release whose answer was lost and those a starting node could not scan
\* for: for all others the state the code keeps of an arena, in etcd, in the lists of
\* the nodes and in the writes under way, always agrees (AcquireArena, Allocate,
\* ReleaseEmptyArenas, Reconstruct).
THEOREM BlocksHandedOutOnce == Spec => []NoBlockHandedOutTwice
<1>1. Init => WritesTyped /\ ArenaInv
    BY Fresh
<1>2. WritesTyped /\ ArenaInv /\ [Next]_vars => (WritesTyped /\ ArenaInv)'
  <2> SUFFICES ASSUME WritesTyped, ArenaInv, [Next]_vars PROVE WritesTyped' /\ ArenaInv'
    OBVIOUS
  <2>1. WritesTyped' /\ ArenaTypes' /\ ArenaTypes
    BY Typed DEF WritesTyped
  <2>2. ASSUME NEW n \in Nodes, NodeStep(n) PROVE ArenaInv'
    BY <2>1, <2>2, NodeStepInv
  <2>3. ASSUME UNCHANGED <<etcd, local, w, suspects>> PROVE ArenaInv'
    BY <2>1, <2>3, Uneventful DEF etcd, local, ArenaTypes
  <2>4. Grow \/ FsckCounter \/ FsckOwners \/ FsckFree \/ FsckExit \/ UNCHANGED vars
          => UNCHANGED <<etcd, local, w, suspects>>
    BY Zenon DEF Grow, FsckCounter, FsckOwners, FsckFree, FsckExit, vars, etcd, local, suspects
  <2> QED
    BY <2>1, <2>2, <2>3, <2>4, WriteStepInv DEF Next
<1>3. WritesTyped /\ ArenaInv => NoBlockHandedOutTwice
  <2> SUFFICES ASSUME ArenaTypes, ArenaInv PROVE NoBlockHandedOutTwice
    BY DEF WritesTyped
  <2>1. \A n \in Nodes : state[n] = "up" => \A b \in FreeBlocks(n) : Sure(b) => b \notin extents
    BY FreeBlocksUnused
  <2> QED
    BY <2>1 DEF ArenaInv, ReservedMarked, NoBlockHandedOutTwice
<1> QED
    BY <1>1, <1>2, <1>3, PTL DEF Spec

\* Sums of naturals, and how many numbers are below one.
LEMMA Adding ==
  ASSUME NEW a \in Nat, NEW b \in Nat
  PROVE  a + b \in Nat /\ IsFiniteSet(0 .. a - 1)
<1>1. a + b \in Nat /\ 0 \in Int /\ a - 1 \in Int
    OBVIOUS
<1> QED
    BY <1>1, FS_Interval

\* Whatever fails, a failed call or a refused arena loses at most one arena, and a
\* crash at most one for every write it stops (AcquireArena, ReleaseArenaID).
THEOREM LossesAreAccounted == Spec => []LossesAccounted
<1> DEFINE Writers == Cardinality(Writes)
<1>0. Writers \in Nat
    BY WritesFinite, FS_CardinalityType
<1>1. Init => LossesAccounted
  <2> SUFFICES ASSUME Init PROVE LossesAccounted
    OBVIOUS
  <2>1. Cardinality(Lost) = 0
    BY Fresh, FS_EmptySet
  <2>2. errors = 0 /\ crashes = 0 /\ refusals = 0
    BY DEF Init
  <2> QED
    BY <1>0, <2>1, <2>2 DEF LossesAccounted
<1>2. TypeOK /\ LossesAccounted /\ [Next]_vars /\ TypeOK' => LossesAccounted'
  <2> SUFFICES ASSUME TypeOK, LossesAccounted, [Next]_vars, TypeOK' PROVE LossesAccounted'
    OBVIOUS
  <2>1. /\ errors + refusals \in Nat /\ crashes \in Nat
        /\ errors' + refusals' \in Nat /\ crashes' \in Nat
    <3>1. /\ errors \in Nat /\ refusals \in Nat /\ crashes \in Nat
          /\ errors' \in Nat /\ refusals' \in Nat /\ crashes' \in Nat
      BY Zenon DEF TypeOK
    <3> QED
      BY Zenon, <3>1, Adding
  <2>2. /\ IsFiniteSet(Lost) /\ Cardinality(Lost) \in Nat
        /\ IsFiniteSet(Lost') /\ Cardinality(Lost') \in Nat
    <3>1. counter \in Nat /\ counter' \in Nat
      BY Zenon DEF TypeOK, ArenaTypes
    <3>2. IsFiniteSet(0 .. counter - 1) /\ IsFiniteSet(0 .. counter' - 1)
      BY Zenon, <3>1, Adding
    <3>3. Lost \in SUBSET (0 .. counter - 1) /\ Lost' \in SUBSET (0 .. counter' - 1)
      BY DEF Lost, Issued
    <3>4. IsFiniteSet(Lost) /\ IsFiniteSet(Lost')
      BY Zenon, <3>2, <3>3, FS_Subset
    <3> QED
      BY Zenon, <3>4, FS_CardinalityType
  <2>3. Cardinality(Lost) <= errors + refusals + crashes * Writers
    BY DEF LossesAccounted
  <2>4. CASE Lost' \subseteq Lost /\ crashes' = crashes /\ errors' + refusals' >= errors + refusals
    <3>1. Cardinality(Lost') <= Cardinality(Lost)
      BY <2>2, <2>4, FS_Subset
    <3>2. crashes * Writers \in Nat
      BY <1>0, <2>1
    <3> QED
      BY <2>1, <2>2, <2>3, <2>4, <3>1, <3>2 DEF LossesAccounted
  <2>5. ASSUME NEW a, Lost' \subseteq Lost \union {a}, crashes' = crashes,
               errors' + refusals' = errors + refusals + 1
        PROVE  LossesAccounted'
    <3>1. /\ IsFiniteSet(Lost \union {a})
          /\ Cardinality(Lost \union {a}) <= Cardinality(Lost) + 1
      <4>1. /\ IsFiniteSet(Lost \union {a})
            /\ Cardinality(Lost \union {a})
                 = IF a \in Lost THEN Cardinality(Lost) ELSE Cardinality(Lost) + 1
        BY Zenon, <2>2, FS_AddElement
      <4> QED
        BY <2>2, <4>1
    <3>2. /\ Cardinality(Lost') <= Cardinality(Lost \union {a})
          /\ Cardinality(Lost \union {a}) \in Nat
      BY <2>5, <3>1, FS_Subset, FS_CardinalityType
    <3>3. crashes * Writers \in Nat
      BY <1>0, <2>1
    <3> QED
      BY <2>1, <2>2, <2>3, <2>5, <3>1, <3>2, <3>3 DEF LossesAccounted
  <2>6. CASE /\ Lost' \subseteq Lost \union {w[q].arena : q \in Writes}
             /\ crashes' = crashes + 1 /\ errors' + refusals' = errors + refusals
    <3> DEFINE Hands == {w[q].arena : q \in Writes}
               hand == [q \in Writes |-> w[q].arena]
    <3>1. IsFiniteSet(Hands) /\ Cardinality(Hands) <= Writers /\ Cardinality(Hands) \in Nat
      <4>1. hand \in Surjection(Writes, Hands)
        BY DEF Surjection
      <4> QED
        BY <4>1, WritesFinite, FS_Surjection, FS_CardinalityType
    <3> HIDE DEF Hands, Writers
    <3>2. /\ IsFiniteSet(Lost \union Hands)
          /\ Cardinality(Lost \union Hands) <= Cardinality(Lost) + Cardinality(Hands)
      <4>1. IsFiniteSet(Lost \cap Hands)
        BY <2>2, FS_Subset
      <4>2. Cardinality(Lost \cap Hands) \in Nat
        BY <4>1, FS_CardinalityType
      <4>3. /\ IsFiniteSet(Lost \union Hands)
            /\ Cardinality(Lost \union Hands)
                 = Cardinality(Lost) + Cardinality(Hands) - Cardinality(Lost \cap Hands)
        BY Zenon, <2>2, <3>1, FS_Union
      <4> QED
        BY <2>2, <3>1, <4>2, <4>3
    <3>3. /\ Cardinality(Lost') <= Cardinality(Lost \union Hands)
          /\ Cardinality(Lost \union Hands) \in Nat
      BY <2>6, <3>2, FS_Subset, FS_CardinalityType DEF Hands
    <3>4. (crashes + 1) * Writers = crashes * Writers + Writers /\ crashes * Writers \in Nat
      BY <1>0, <2>1
    <3> QED
      BY <1>0, <2>1, <2>2, <2>3, <2>6, <3>1, <3>2, <3>3, <3>4 DEF LossesAccounted, Writers
  <2> QED
    BY <2>4, <2>5, <2>6, StepCosts DEF Costs
<1> QED
    BY <1>1, <1>2, ArenaTyping, PTL DEF Spec

\* What a check of the arenas has read so far names none of the arenas that were
\* lost when it began, and they are below its mark if it could read the counter.
FsckInv ==
  /\ fsck.pc # "idle" => fsck.lost \subseteq Lost
  /\ fsck.pc # "idle" => fsck.blind \/ fsck.lost \subseteq 0 .. fsck.high - 1
  /\ fsck.pc \in {"listed", "done"} => fsck.owned \intersect fsck.lost = {}
  /\ fsck.pc = "done" => fsck.free \intersect fsck.lost = {}

\* Whatever fails and however busy the cluster is, an fsck that could read the counter
\* reports every arena that was lost when it began, whichever other read fails, and
\* reports none as owned and free when nothing moves (checkArenaOrphans).
THEOREM FsckFinds == Spec => []FsckFindsLost
<1>1. Init => FsckInv /\ OnePlace
    BY Fresh DEF FsckInv, ArenaInv
<1>2. TypeOK /\ FsckInv /\ OnePlace /\ [Next]_vars /\ TypeOK' => (FsckInv /\ OnePlace)'
  <2> SUFFICES ASSUME TypeOK, FsckInv, OnePlace, [Next]_vars, TypeOK' PROVE FsckInv' /\ OnePlace'
    OBVIOUS
  <2>1. OnePlace'
    BY OnePlaceKept DEF TypeOK
  <2>2. Lost \subseteq Lost'
    BY StepCosts
  <2>3. ASSUME fsck' = fsck PROVE FsckInv'
    BY <2>2, <2>3 DEF FsckInv
  <2>4. fsck.pc # "idle" => Lost \intersect Owned = {} /\ Lost \intersect pool = {}
    BY DEF Lost
  <2>5. CASE FsckCounter
    <3>1. fsck'.pc = "counted" /\ fsck'.lost = Lost /\ (fsck'.blind \/ fsck'.high = counter)
      BY <2>5 DEF FsckCounter, NoCheck
    <3>2. Lost \subseteq 0 .. counter - 1
      BY DEF Lost, Issued
    <3> QED
      BY <2>1, <2>2, <3>1, <3>2 DEF FsckInv
  <2>6. CASE FsckOwners
    <3>1. /\ fsck'.pc = "listed" /\ fsck'.lost = fsck.lost /\ fsck'.high = fsck.high
          /\ fsck'.owned \subseteq Owned /\ fsck'.blind = fsck.blind /\ fsck.pc = "counted"
      BY <2>6 DEF FsckOwners, TypeOK
    <3> QED
      BY <2>1, <2>2, <2>4, <3>1 DEF FsckInv
  <2>7. CASE FsckFree
    <3>1. /\ fsck'.pc = "done" /\ fsck'.lost = fsck.lost /\ fsck'.high = fsck.high
          /\ fsck'.owned = fsck.owned /\ fsck'.free \subseteq pool
          /\ fsck'.blind = fsck.blind /\ fsck.pc = "listed"
      BY <2>7 DEF FsckFree, TypeOK
    <3> QED
      BY <2>1, <2>2, <2>4, <3>1 DEF FsckInv
  <2>8. CASE FsckExit
    BY <2>1, <2>8 DEF FsckExit, NoCheck, FsckInv
  <2>9. (\E p \in load.writes : WriteStep(p)) \/ (\E n \in Nodes : NodeStep(n)) \/ Grow
          \/ UNCHANGED vars => fsck' = fsck
    <3>1. ASSUME NEW p \in load.writes, WriteStep(p) PROVE fsck' = fsck
      BY Zenon, <3>1 DEF WriteStep, Begin, DeviceTooSmall, ListPool, ClaimFreeArena, PoolExhausted,
           NextCounter, RefuseArena, RecordOwnership, ScanExtents, Attach, AllocateAgain, Commit
    <3>2. ASSUME NEW n \in Nodes, NodeStep(n) PROVE fsck' = fsck
      BY Zenon, <3>2 DEF NodeStep, DeleteExtent, Free, DetachEmpty, ReleaseEmpty, Crash, ReadArenas,
           MarkLiveExtents, Fence, ReleaseArena
    <3> QED
      BY Zenon, <3>1, <3>2 DEF Grow, vars
  <2> QED
    BY Zenon, <2>1, <2>3, <2>5, <2>6, <2>7, <2>8, <2>9 DEF Next
<1>3. TypeOK /\ FsckInv /\ OnePlace => FsckFindsLost
  <2> SUFFICES ASSUME FsckInv, OnePlace, fsck.pc = "done"
               PROVE  /\ fsck.blind \/ fsck.lost \subseteq OrphanFindings
                      /\ fsck.owned = Owned /\ fsck.free = pool => DoubleFindings = {}
    BY DEF FsckFindsLost
  <2>1. fsck.blind \/ fsck.lost \subseteq OrphanFindings
    BY DEF FsckInv, OrphanFindings
  <2>2. Owned \intersect pool = {}
    BY DEF OnePlace, Owned
  <2> QED
    BY <2>1, <2>2 DEF DoubleFindings
<1> QED
    BY <1>1, <1>2, <1>3, ArenaTyping, PTL DEF Spec
====
