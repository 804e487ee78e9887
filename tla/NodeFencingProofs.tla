-------------------------- MODULE NodeFencingProofs --------------------------
(***************************************************************************)
(* Type correctness and safety of NodeFencing, for any number of nodes,    *)
(* arenas, controller threads and any bounds.                              *)
(***************************************************************************)
EXTENDS NodeFencing, TLAPS

-----------------------------------------------------------------------------
(* Types.                                                                  *)

(* A thread at work has a node.                                            *)
BusyHasNode == \A t \in Threads : th[t].pc # "idle" => th[t].node \in Nodes

ThreadsOK == th \in [Threads -> ThreadType] /\ BusyHasNode

TInv == TypeOK /\ BusyHasNode

(* A thread may be given any well-typed state that has a node while it is  *)
(* at work.                                                                *)
LEMMA SetThreadType ==
  ASSUME TInv, NEW t \in Threads, NEW u \in ThreadType,
         u.pc # "idle" => u.node \in Nodes, SetThread(t, u)
  PROVE  ThreadsOK'
BY DEF TInv, TypeOK, BusyHasNode, ThreadsOK, SetThread

(* Goto keeps the threads well typed (a step of fenceNode or reconcile).   *)
LEMMA GotoType ==
  ASSUME TInv, NEW t \in Threads, NEW pc \in ThreadStates, th[t].pc # "idle",
         Goto(t, pc)
  PROVE  ThreadsOK'
<1> DEFINE u == [th[t] EXCEPT !.pc = pc]
<1>0. th[t] \in ThreadType
  BY DEF TInv, TypeOK
<1>1. u \in ThreadType /\ u.node = th[t].node
  BY <1>0 DEF ThreadType
<1>2. th[t].node \in Nodes
  BY DEF TInv, BusyHasNode
<1>3. SetThread(t, u)
  BY DEF Goto
<1> HIDE DEF u
<1> QED BY <1>1, <1>2, <1>3, SetThreadType

(* Finish keeps the threads well typed (a goroutine's return).             *)
LEMMA FinishType ==
  ASSUME TInv, NEW t \in Threads, Finish(t)
  PROVE  ThreadsOK'
<1>1. IdleThread \in ThreadType /\ IdleThread.pc = "idle"
  BY DEF IdleThread, ThreadType, ThreadStates
<1> QED BY <1>1, SetThreadType DEF Finish

(* The initial state is well typed.                                        *)
LEMMA InitTypes == Init => TInv
<1> SUFFICES ASSUME Init PROVE TInv
  OBVIOUS
<1>1. IdleThread \in ThreadType /\ IdleThread.pc = "idle"
  BY DEF IdleThread, ThreadType, ThreadStates
<1>2. th \in [Threads -> ThreadType] /\ \A t \in Threads : th[t].pc = "idle"
  BY <1>1 DEF Init
<1> QED BY <1>2, NodeFencingAssumption
        DEF Init, TInv, TypeOK, BusyHasNode, ProcStates, RegStates

(* Deleting a membership key keeps its types (the lease's end).            *)
LEMMA DeleteMemberType ==
  ASSUME TInv, NEW n \in Nodes, DeleteMember(n)
  PROVE  member' \in [Nodes -> BOOLEAN] /\ events' \in [Watchers -> [Nodes -> Nat]]
BY DEF TInv, TypeOK, DeleteMember

(* Releasing an arena keeps the types of the arena records.                *)
LEMMA ReleaseType ==
  ASSUME TInv, NEW n \in Nodes, NEW a \in Arenas, ReleaseArenaID(n, a)
  PROVE  owned' \in [Nodes -> SUBSET Arenas] /\ pool' \in SUBSET Arenas
         /\ fresh' \in SUBSET Arenas
BY DEF TInv, TypeOK, ReleaseArenaID, arenaVars

(* Every step of a daemon keeps the types.                                 *)
LEMMA DaemonTypes ==
  ASSUME TInv, NEW n \in Nodes, DaemonStep(n) \/ Fault(n) \/ ClaimExpiry(n)
  PROVE  TInv'
<1> USE NodeFencingAssumption DEF TInv, TypeOK, BusyHasNode, etcdVars, arenaVars, daemonVars,
      arenaStepUnchanged, regUnchanged
<1>1. CASE InitGeneration(n)
  BY <1>1 DEF InitGeneration, ProcStates
<1>2. CASE ReconstructArenas(n)
  BY <1>2 DEF ReconstructArenas, ProcStates
<1>3. CASE StartServing(n)
  BY <1>3 DEF StartServing, ProcStates
<1>4. CASE RegisterPut(n)
  <2>1. joins' \in [Nodes -> Nat]
    <3>1. joins' = joins \/ joins' = [joins EXCEPT ![n] = @ + 1]
      BY <1>4, Zenon DEF RegisterPut
    <3>2. joins \in [Nodes -> Nat]
      OBVIOUS
    <3> QED BY ONLY <3>1, <3>2, n \in Nodes
  <2>2. member' \in [Nodes -> BOOLEAN] /\ reg' \in [Nodes -> RegStates]
    <3>1. /\ member' = [member EXCEPT ![n] = TRUE] \/ member' = member
          /\ reg' = [reg EXCEPT ![n] = "put"] \/ reg' = [reg EXCEPT ![n] = "failed"]
      BY <1>4, ZenonT(30) DEF RegisterPut
    <3>2. member \in [Nodes -> BOOLEAN] /\ reg \in [Nodes -> RegStates]
      OBVIOUS
    <3>3. "put" \in RegStates /\ "failed" \in RegStates
      BY DEF RegStates
    <3> QED BY ONLY <3>1, <3>2, <3>3, n \in Nodes
  <2> QED BY <1>4, <2>1, <2>2, SMTT(60) DEF RegisterPut
<1>5. CASE RegisterDropIntent(n)
  <2>1. reg' \in [Nodes -> RegStates] /\ intent' \in [Nodes -> Nat]
    BY <1>5 DEF RegisterDropIntent, RegStates
  <2> QED BY <1>5, <2>1 DEF RegisterDropIntent
<1>6. CASE RegisterDropMark(n)
  BY <1>6 DEF RegisterDropMark, RegStates
<1>7. CASE RegisterDropDeparted(n)
  BY <1>7 DEF RegisterDropDeparted, RegStates
<1>8. CASE RunRevokesLease(n)
  BY <1>8, DeleteMemberType DEF RunRevokesLease, RegStates
<1>9. CASE DrawArena(n)
  <2>1. /\ drawn' \in [Nodes -> Arenas \cup {None}]
        /\ pool' \in SUBSET Arenas /\ fresh' \in SUBSET Arenas
    BY <1>9 DEF DrawArena
  <2> QED BY <1>9, <2>1 DEF DrawArena
<1>10. CASE RecordOwnership(n)
  BY <1>10, SMTT(60) DEF RecordOwnership
<1>11. CASE SelfFence(n)
  BY <1>11 DEF SelfFence, ProcStates
<1>12. CASE LeaveList(n)
  BY <1>12 DEF LeaveList, ProcStates
<1>13. CASE LeaveRelease(n)
  <2>0. proc' \in [Nodes -> ProcStates]
    BY <1>13 DEF LeaveRelease, ProcStates
  <2>1. todo' \in [Nodes -> SUBSET Arenas]
    BY <1>13 DEF LeaveRelease
  <2>2. CASE UNCHANGED arenaVars
    BY <1>13, <2>0, <2>1, <2>2 DEF LeaveRelease
  <2>3. CASE \E a \in todo[n] : ReleaseArenaID(n, a)
    BY <1>13, <2>0, <2>1, <2>3, ReleaseType DEF LeaveRelease
  <2> QED BY <1>13, <2>2, <2>3 DEF LeaveRelease
<1>14. CASE LeaveAnnounce(n)
  <2>1. proc' \in [Nodes -> ProcStates] /\ departed' \in [Nodes -> BOOLEAN]
    BY <1>14 DEF LeaveAnnounce, ProcStates
  <2>2. member' \in [Nodes -> BOOLEAN] /\ events' \in [Watchers -> [Nodes -> Nat]]
    BY <1>14, DeleteMemberType DEF LeaveAnnounce
  <2> QED BY <1>14, <2>1, <2>2 DEF LeaveAnnounce
<1>15. CASE LeaveRevoke(n)
  <2>1. /\ proc' \in [Nodes -> ProcStates] /\ reg' \in [Nodes -> RegStates]
        /\ startGen' \in [Nodes -> Nat] /\ held' \in [Nodes -> SUBSET Arenas]
        /\ drawn' \in [Nodes -> Arenas \cup {None}]
        /\ todo' \in [Nodes -> SUBSET Arenas] /\ joins' \in [Nodes -> Nat]
    BY <1>15 DEF LeaveRevoke, ProcessEnds, ProcStates, RegStates
  <2>2. member' \in [Nodes -> BOOLEAN] /\ events' \in [Watchers -> [Nodes -> Nat]]
    BY <1>15, DeleteMemberType DEF LeaveRevoke
  <2> QED BY <1>15, <2>1, <2>2 DEF LeaveRevoke
<1>16. CASE LeaseExpires(n)
  BY <1>16, DeleteMemberType DEF LeaseExpires
<1>17. CASE Stop(n)
  BY <1>17 DEF Stop, ProcStates
<1>18. CASE Crash(n)
  BY <1>18 DEF Crash, ProcessEnds, ProcStates, RegStates
<1>19. CASE ClaimExpiry(n)
  BY <1>19 DEF ClaimExpiry
<1> QED BY <1>1, <1>2, <1>3, <1>4, <1>5, <1>6, <1>7, <1>8, <1>9, <1>10, <1>11,
          <1>12, <1>13, <1>14, <1>15, <1>16, <1>17, <1>18, <1>19
       DEF DaemonStep, Fault

(* What a step of a thread leaves alone is well typed, so only the threads *)
(* and the variables it changes remain.                                    *)
LEMMA ReadTypes ==
  ASSUME TInv, ThreadsOK', UNCHANGED readUnchanged
  PROVE  TInv'
BY DEF TInv, TypeOK, ThreadsOK, readUnchanged, etcdVars, arenaVars, daemonVars

(* Every step of a controller thread keeps the types.                      *)
LEMMA ThreadTypes ==
  ASSUME TInv, NEW t \in Threads,
         \/ WatchEvent(t) \/ WatchCompacted(t) \/ ThreadStep(t)
         \/ CallFails(t) \/ ControllerCrash(t)
         \/ \E n \in Nodes : SweepIntents(t, n)
  PROVE  TInv'
<1> DEFINE n == th[t].node
<1>a. th[t] \in ThreadType /\ (th[t].pc # "idle" => n \in Nodes)
  BY DEF TInv, TypeOK, BusyHasNode
<1> HIDE DEF n
<1>w. CASE WatchEvent(t)
  <2> PICK m \in Nodes :
        /\ events' = [events EXCEPT ![t][m] = @ - 1] /\ events[t][m] > 0
        /\ SetThread(t, [IdleThread EXCEPT !.pc = "departed", !.node = m])
    BY <1>w DEF WatchEvent
  <2>1. [IdleThread EXCEPT !.pc = "departed", !.node = m] \in ThreadType
    BY DEF IdleThread, ThreadType, ThreadStates
  <2>2. [IdleThread EXCEPT !.pc = "departed", !.node = m].node = m
    BY DEF IdleThread
  <2>3. ThreadsOK'
    BY <2>1, <2>2, SetThreadType
  <2>4. events' \in [Watchers -> [Nodes -> Nat]]
    <3>1. t \in Watchers /\ events \in [Watchers -> [Nodes -> Nat]]
      BY <1>w DEF TInv, TypeOK, WatchEvent
    <3>2. events[t][m] - 1 \in Nat /\ events[t] \in [Nodes -> Nat]
      BY <3>1
    <3>3. [events[t] EXCEPT ![m] = @ - 1] \in [Nodes -> Nat]
      BY <3>2
    <3> QED BY <3>1, <3>3
  <2> QED BY <1>w, <2>3, <2>4
          DEF WatchEvent, TInv, TypeOK, ThreadsOK, etcdVars, arenaVars, daemonVars
<1>c. CASE WatchCompacted(t)
  BY <1>c DEF WatchCompacted, TInv, TypeOK, BusyHasNode, etcdVars, arenaVars, daemonVars
<1>s. CASE \E m \in Nodes : SweepIntents(t, m)
  <2> PICK m \in Nodes : SweepIntents(t, m)
    BY <1>s
  <2> DEFINE u == [IdleThread EXCEPT !.pc = "lists", !.node = m, !.owed = intent[m] # 0]
  <2>1. u \in ThreadType /\ u.node = m
    BY DEF IdleThread, ThreadType, ThreadStates
  <2>2. SetThread(t, u)
    BY DEF SweepIntents
  <2> HIDE DEF u
  <2>3. ThreadsOK'
    BY <2>1, <2>2, SetThreadType
  <2> QED BY <2>3, ReadTypes DEF SweepIntents
<1>k. CASE ControllerCrash(t)
  <2>1. ThreadsOK'
    BY <1>k, FinishType DEF ControllerCrash
  <2> QED BY <1>k, <2>1
          DEF ControllerCrash, TInv, TypeOK, ThreadsOK, etcdVars, arenaVars, daemonVars
<1>f. CASE CallFails(t)
  <2>1. ThreadsOK'
    BY <1>f, FinishType, GotoType DEF CallFails, ThreadStates
  <2> QED BY <1>f, <2>1, ReadTypes DEF CallFails
<1>1. CASE SweepMarks(t)
  <2> DEFINE u == [th[t] EXCEPT !.pc = "alive", !.fenced = marked[th[t].node]]
  <2>1. u \in ThreadType /\ u.node = n
    BY <1>1, <1>a DEF SweepMarks, ThreadType, ThreadStates, n, TInv, TypeOK
  <2>2. CASE SetThread(t, u)
    <3> HIDE DEF u
    <3>1. ThreadsOK'
      BY <1>1, <1>a, <2>1, <2>2, SetThreadType DEF SweepMarks
    <3> QED BY <1>1, <3>1, ReadTypes DEF SweepMarks
  <2> QED BY <1>1, <2>2, FinishType, GotoType, ReadTypes DEF SweepMarks, ThreadStates
<1>2. CASE SweepMember(t)
  <2>1. ThreadsOK'
    BY <1>2, FinishType, GotoType DEF SweepMember, ThreadStates
  <2> QED BY <1>2, <2>1, ReadTypes DEF SweepMember
<1>3. CASE SweepDropIntent(t)
  <2>1. ThreadsOK'
    BY <1>3, FinishType, GotoType DEF SweepDropIntent, ThreadStates
  <2> QED BY <1>3, <1>a, <2>1
          DEF SweepDropIntent, TInv, TypeOK, ThreadsOK, etcdVars, arenaVars, daemonVars, n
<1>4. CASE SweepDropMark(t)
  <2>1. ThreadsOK'
    BY <1>4, FinishType, GotoType DEF SweepDropMark, ThreadStates
  <2> QED BY <1>4, <1>a, <2>1
          DEF SweepDropMark, TInv, TypeOK, ThreadsOK, etcdVars, arenaVars, daemonVars, n
<1>5. CASE ReadDeparted(t)
  <2>1. ThreadsOK'
    BY <1>5, FinishType, GotoType DEF ReadDeparted, ThreadStates
  <2> QED BY <1>5, <2>1, ReadTypes DEF ReadDeparted
<1>6. CASE ReadOwns(t)
  <2>1. ThreadsOK'
    BY <1>6, FinishType, GotoType DEF ReadOwns, ThreadStates
  <2> QED BY <1>6, <2>1, ReadTypes DEF ReadOwns
<1>7. CASE RecordFenceIntent(t)
  <2>1. ThreadsOK'
    BY <1>7, FinishType, GotoType DEF RecordFenceIntent, ThreadStates
  <2>2. intent' \in [Nodes -> Nat] /\ intents' \in [Nodes -> Nat]
    <3>1. intent \in [Nodes -> Nat] /\ intents \in [Nodes -> Nat]
      BY DEF TInv, TypeOK
    <3>2. \/ UNCHANGED <<intent, intents>>
          \/ /\ intents' = [intents EXCEPT ![n] = @ + 1]
             /\ intent' = [intent EXCEPT ![n] = intents[n] + 1]
      BY <1>7 DEF RecordFenceIntent, n
    <3>3. CASE UNCHANGED <<intent, intents>>
      BY <3>1, <3>3
    <3>4. CASE /\ intents' = [intents EXCEPT ![n] = @ + 1]
               /\ intent' = [intent EXCEPT ![n] = intents[n] + 1]
      <4>1. th[t].pc = "record"
        BY <1>7 DEF RecordFenceIntent
      <4>2. intents[n] + 1 \in Nat
        BY <1>a, <3>1, <4>1
      <4> QED BY <3>1, <3>4, <4>2
    <3> QED BY <3>2, <3>3, <3>4
  <2> QED BY <1>7, <2>1, <2>2
          DEF RecordFenceIntent, TInv, TypeOK, ThreadsOK, arenaVars, daemonVars
<1>8. CASE ClaimFence(t)
  <2>1. ThreadsOK'
    BY <1>8, FinishType, GotoType DEF ClaimFence, ThreadStates
  <2> QED BY <1>8, <1>a, <2>1
          DEF ClaimFence, TInv, TypeOK, ThreadsOK, etcdVars, arenaVars, daemonVars, n
<1>9. CASE RelistIntents(t)
  <2>1. ThreadsOK'
    BY <1>9, FinishType, GotoType DEF RelistIntents, ThreadStates
  <2> QED BY <1>9, <2>1, ReadTypes DEF RelistIntents
<1>10. CASE CaptureRevision(t)
  <2> DEFINE u == [th[t] EXCEPT !.pc = "check1", !.rev = intent[th[t].node]]
  <2>1. u \in ThreadType /\ u.node = n
    BY <1>10, <1>a DEF CaptureRevision, ThreadType, ThreadStates, n, TInv, TypeOK
  <2>2. CASE SetThread(t, u)
    <3> HIDE DEF u
    <3>1. ThreadsOK'
      BY <1>10, <1>a, <2>1, <2>2, SetThreadType DEF CaptureRevision
    <3> QED BY <1>10, <3>1, ReadTypes DEF CaptureRevision
  <2> QED BY <1>10, <2>2, FinishType, GotoType, ReadTypes DEF CaptureRevision, ThreadStates
<1>11. CASE CheckBeforeSever(t)
  <2>1. ThreadsOK'
    BY <1>11, FinishType, GotoType DEF CheckBeforeSever, ThreadStates
  <2> QED BY <1>11, <2>1, ReadTypes DEF CheckBeforeSever
<1>12. CASE Preempt(t)
  <2>1. ThreadsOK'
    BY <1>12, FinishType, GotoType DEF Preempt, ThreadStates
  <2> QED BY <1>12, <1>a, <2>1
          DEF Preempt, TInv, TypeOK, ThreadsOK, etcdVars, arenaVars, daemonVars, n
<1>13. CASE ConfirmSevered(t)
  <2>1. ThreadsOK'
    BY <1>13, FinishType, GotoType DEF ConfirmSevered, ThreadStates
  <2> QED BY <1>13, <2>1, ReadTypes DEF ConfirmSevered
<1>14. CASE CheckBeforeBump(t)
  <2>1. ThreadsOK'
    BY <1>14, FinishType, GotoType DEF CheckBeforeBump, ThreadStates
  <2> QED BY <1>14, <2>1, ReadTypes DEF CheckBeforeBump
<1>15. CASE GetGeneration(t)
  <2> DEFINE u == [th[t] EXCEPT !.pc = "bump", !.gen = gen[th[t].node]]
  <2>1. u \in ThreadType /\ u.node = n
    BY <1>15, <1>a DEF GetGeneration, ThreadType, ThreadStates, n, TInv, TypeOK
  <2>2. CASE SetThread(t, u)
    <3> HIDE DEF u
    <3>1. ThreadsOK'
      BY <1>15, <1>a, <2>1, <2>2, SetThreadType DEF GetGeneration
    <3> QED BY <1>15, <3>1, ReadTypes DEF GetGeneration
  <2> QED BY <1>15, <2>2, FinishType, GotoType, ReadTypes DEF GetGeneration, ThreadStates
<1>16. CASE BumpGeneration(t)
  <2>1. ThreadsOK'
    BY <1>16, GotoType DEF BumpGeneration, ThreadStates
  <2>2. /\ gen' = gen \/ gen' = [gen EXCEPT ![n] = @ + 1]
        /\ known' = known \/ known' = [known EXCEPT ![n] = TRUE]
    BY <1>16 DEF BumpGeneration, n
  <2>3. gen' \in [Nodes -> Nat] /\ known' \in [Nodes -> BOOLEAN]
    <3>1. n \in Nodes
      BY <1>16, <1>a DEF BumpGeneration
    <3>2. gen \in [Nodes -> Nat] /\ known \in [Nodes -> BOOLEAN]
      BY DEF TInv, TypeOK
    <3>3. gen' \in [Nodes -> Nat]
      BY <2>2, <3>1, <3>2
    <3>4. known' \in [Nodes -> BOOLEAN]
      BY <2>2, <3>1, <3>2
    <3> QED BY <3>3, <3>4
  <2> QED BY <1>16, <2>1, <2>3
          DEF BumpGeneration, TInv, TypeOK, ThreadsOK, arenaVars, daemonVars
<1>17. CASE CheckBeforeReclaim(t)
  <2>1. ThreadsOK'
    BY <1>17, FinishType, GotoType DEF CheckBeforeReclaim, ThreadStates
  <2> QED BY <1>17, <2>1, ReadTypes DEF CheckBeforeReclaim
<1>18. CASE ListArenas(t)
  <2> DEFINE u == [th[t] EXCEPT !.pc = "free", !.todo = owned[th[t].node]]
  <2>1. u \in ThreadType /\ u.node = n
    BY <1>18, <1>a DEF ListArenas, ThreadType, ThreadStates, n, TInv, TypeOK
  <2>2. CASE SetThread(t, u)
    <3> HIDE DEF u
    <3>1. ThreadsOK'
      BY <1>18, <1>a, <2>1, <2>2, SetThreadType DEF ListArenas
    <3> QED BY <1>18, <3>1, ReadTypes DEF ListArenas
  <2> QED BY <1>18, <2>2, FinishType, GotoType, ReadTypes DEF ListArenas, ThreadStates
<1>19. CASE FreeArena(t)
  <2>1. ThreadsOK'
    <3>1. CASE \E a \in th[t].todo : SetThread(t, [th[t] EXCEPT !.todo = @ \ {a}])
      <4> PICK a \in th[t].todo : SetThread(t, [th[t] EXCEPT !.todo = @ \ {a}])
        BY <3>1
      <4> DEFINE u == [th[t] EXCEPT !.todo = @ \ {a}]
      <4>1. u \in ThreadType /\ u.node = n
        BY <1>a DEF ThreadType, n
      <4>2. SetThread(t, u)
        OBVIOUS
      <4> HIDE DEF u
      <4> QED BY <1>19, <1>a, <4>1, <4>2, SetThreadType DEF FreeArena
    <3> QED BY <1>19, <3>1, GotoType DEF FreeArena, ThreadStates
  <2>2. th[t].todo \subseteq Arenas
    BY <1>a DEF ThreadType
  <2>3. UNCHANGED arenaVars \/ \E a \in Arenas : ReleaseArenaID(n, a)
    BY <1>19, <2>2 DEF FreeArena, n
  <2>4. owned' \in [Nodes -> SUBSET Arenas] /\ pool' \in SUBSET Arenas
        /\ fresh' \in SUBSET Arenas
    BY <1>19, <1>a, <2>3, ReleaseType DEF FreeArena, arenaVars, TInv, TypeOK
  <2> QED BY <1>19, <2>1, <2>4
          DEF FreeArena, TInv, TypeOK, ThreadsOK, etcdVars, daemonVars
<1>20. CASE MarkFenceComplete(t)
  <2> DEFINE u == [th[t] EXCEPT !.pc = "clear", !.todo = {}]
  <2>1. u \in ThreadType /\ u.node = n
    BY <1>a DEF ThreadType, ThreadStates, n
  <2>2. SetThread(t, u)
    BY <1>20 DEF MarkFenceComplete
  <2> HIDE DEF u
  <2>3. ThreadsOK'
    BY <1>20, <1>a, <2>1, <2>2, SetThreadType DEF MarkFenceComplete
  <2> QED BY <1>20, <1>a, <2>3
          DEF MarkFenceComplete, TInv, TypeOK, ThreadsOK, arenaVars, daemonVars, n
<1>21. CASE ClearFenceIntent(t)
  <2>1. ThreadsOK'
    BY <1>21, FinishType, GotoType DEF ClearFenceIntent, ThreadStates
  <2> QED BY <1>21, <1>a, <2>1
          DEF ClearFenceIntent, TInv, TypeOK, ThreadsOK, etcdVars, arenaVars, daemonVars, n
<1>22. CASE ReleaseClaim(t)
  <2>1. ThreadsOK'
    BY <1>22, FinishType, GotoType DEF ReleaseClaim, ThreadStates
  <2> QED BY <1>22, <1>a, <2>1
          DEF ReleaseClaim, TInv, TypeOK, ThreadsOK, etcdVars, arenaVars, daemonVars, n
<1> QED BY <1>w, <1>c, <1>s, <1>k, <1>f, <1>1, <1>2, <1>3, <1>4, <1>5, <1>6,
          <1>7, <1>8, <1>9, <1>10, <1>11, <1>12, <1>13, <1>14, <1>15, <1>16,
          <1>17, <1>18, <1>19, <1>20, <1>21, <1>22
       DEF ThreadStep

(* Every variable keeps its type, for all constants (the model's state is  *)
(* the state the code keeps in etcd, on the device and in its processes).  *)
THEOREM Typing == Spec => [](TypeOK /\ BusyHasNode)
<1>1. TInv /\ [Next]_vars => TInv'
  <2> SUFFICES ASSUME TInv, [Next]_vars PROVE TInv'
    OBVIOUS
  <2>1. CASE UNCHANGED vars
    BY <2>1 DEF vars, TInv, TypeOK, BusyHasNode, etcdVars, arenaVars, daemonVars
  <2> QED BY <2>1, DaemonTypes, ThreadTypes DEF Next
<1> QED BY <1>1, InitTypes, PTL DEF Spec, TInv

-----------------------------------------------------------------------------
(* Arena records.                                                          *)

(* Moving a record to the pool keeps every arena in one place              *)
(* (Store.ReleaseArenaID).                                                 *)
LEMMA ReleaseKeepsExclusive ==
  ASSUME TypeOK, OwnershipExclusive, NEW n \in Nodes, NEW a \in Arenas,
         ReleaseArenaID(n, a), UNCHANGED drawn
  PROVE  OwnershipExclusive'
<1>1. owned \in [Nodes -> SUBSET Arenas]
  BY DEF TypeOK
<1>2. CASE a \notin owned[n]
  BY <1>2 DEF OwnershipExclusive, ReleaseArenaID, arenaVars
<1>3. CASE a \in owned[n]
  <2>1. /\ pool' = pool \cup {a} /\ fresh' = fresh /\ owned'[n] = owned[n] \ {a}
        /\ \A m \in Nodes \ {n} : owned'[m] = owned[m]
    BY <1>1, <1>3 DEF ReleaseArenaID
  <2> QED BY <1>3, <2>1 DEF OwnershipExclusive
<1> QED BY <1>2, <1>3

(* A node's own steps keep every arena in one place (AcquireArena's draw   *)
(* and record, Leave's release, the end of the process).                   *)
LEMMA DaemonExclusive ==
  ASSUME TypeOK, OwnershipExclusive, NEW n \in Nodes,
         DaemonStep(n) \/ Fault(n) \/ ClaimExpiry(n)
  PROVE  OwnershipExclusive'
<1>t. /\ owned \in [Nodes -> SUBSET Arenas] /\ drawn \in [Nodes -> Arenas \cup {None}]
      /\ pool \in SUBSET Arenas /\ fresh \in SUBSET Arenas /\ None \notin Arenas
  BY NodeFencingAssumption DEF TypeOK
<1>1. CASE DrawArena(n)
  <2>1. PICK a \in Arenas :
          /\ drawn' = [drawn EXCEPT ![n] = a] /\ owned' = owned
          /\ \/ a \in pool /\ pool' = pool \ {a} /\ fresh' = fresh
             \/ a \in fresh /\ fresh' = fresh \ {a} /\ pool' = pool
    BY <1>1 DEF DrawArena
  <2>2. drawn'[n] = a /\ \A m \in Nodes \ {n} : drawn'[m] = drawn[m]
    BY <1>t, <2>1
  <2>3. \A m \in Nodes : a \notin owned[m] /\ drawn[m] # a
    BY <2>1 DEF OwnershipExclusive
  <2> QED BY <2>1, <2>2, <2>3 DEF OwnershipExclusive
<1>2. CASE RecordOwnership(n)
  <2>1. /\ drawn'[n] = None /\ \A m \in Nodes \ {n} : drawn'[m] = drawn[m]
        /\ UNCHANGED <<pool, fresh>>
    BY <1>2, <1>t DEF RecordOwnership
  <2>2. /\ drawn[n] # None
        /\ owned'[n] = owned[n] \/ owned'[n] = owned[n] \cup {drawn[n]}
        /\ \A m \in Nodes \ {n} : owned'[m] = owned[m]
    BY <1>2, <1>t DEF RecordOwnership
  <2>3. \A m \in Nodes : None \notin owned'[m]
    BY <1>t, <2>2
  <2>4. \A m \in Nodes : /\ owned'[m] \cap (pool \cup fresh) = {}
                         /\ drawn'[m] \notin pool \cup fresh
    BY <1>t, <2>1, <2>2 DEF OwnershipExclusive
  <2>5. \A k, m \in Nodes : drawn'[k] \notin owned'[m]
    <3>1. /\ \A k, m \in Nodes : drawn[k] \notin owned[m]
          /\ \A m \in Nodes \ {n} : drawn[m] # drawn[n]
      BY <2>2 DEF OwnershipExclusive
    <3> QED BY ONLY <3>1, <2>1, <2>2, <2>3, n \in Nodes
  <2>6. \A k, m \in Nodes : m # k => owned'[k] \cap owned'[m] = {}
    <3>1. \A k, m \in Nodes : drawn[k] \notin owned[m] /\ (m # k => owned[k] \cap owned[m] = {})
      BY DEF OwnershipExclusive
    <3> QED BY ONLY <3>1, <2>2, n \in Nodes
  <2>7. \A k, m \in Nodes : m # k /\ drawn'[k] # None => drawn'[k] # drawn'[m]
    BY <1>t, <2>1 DEF OwnershipExclusive
  <2>8. pool \cap fresh = {}
    BY DEF OwnershipExclusive
  <2> QED BY <2>1, <2>4, <2>5, <2>6, <2>7, <2>8, Zenon DEF OwnershipExclusive
<1>3. CASE LeaveRelease(n)
  <2>1. CASE UNCHANGED <<arenaVars, drawn>>
    BY <2>1 DEF OwnershipExclusive, arenaVars
  <2>2. CASE \E a \in todo[n] : ReleaseArenaID(n, a)
    BY <1>3, <2>2, ReleaseKeepsExclusive DEF LeaveRelease, TypeOK
  <2> QED BY <1>3, <2>1, <2>2 DEF LeaveRelease
<1>4. CASE LeaveRevoke(n) \/ Crash(n)
  <2>1. UNCHANGED arenaVars /\ drawn' = [drawn EXCEPT ![n] = None]
    BY <1>4 DEF LeaveRevoke, Crash, ProcessEnds
  <2> QED BY <1>t, <2>1 DEF OwnershipExclusive, arenaVars
<1>5. CASE UNCHANGED <<arenaVars, drawn>>
  BY <1>5 DEF OwnershipExclusive, arenaVars
<1>6. DrawArena(n) \/ RecordOwnership(n) \/ LeaveRelease(n) \/ LeaveRevoke(n)
      \/ Crash(n) \/ UNCHANGED <<arenaVars, drawn>>
  BY DEF DaemonStep, Fault, InitGeneration, ReconstructArenas, StartServing,
         RegisterPut, RegisterDropIntent, RegisterDropMark,
         RegisterDropDeparted, RunRevokesLease, SelfFence, LeaveList,
         LeaveAnnounce, LeaseExpires, Stop, ClaimExpiry, regUnchanged,
         daemonVars
<1> QED BY <1>1, <1>2, <1>3, <1>4, <1>5, <1>6

(* A controller's steps keep every arena in one place (fenceNode's         *)
(* reclaim; nothing else of it touches arena records).                     *)
LEMMA ThreadExclusive ==
  ASSUME TInv, OwnershipExclusive, NEW t \in Threads,
         \/ WatchEvent(t) \/ WatchCompacted(t) \/ ThreadStep(t)
         \/ CallFails(t) \/ ControllerCrash(t)
         \/ \E n \in Nodes : SweepIntents(t, n)
  PROVE  OwnershipExclusive'
<1>1. CASE FreeArena(t)
  <2>1. th[t].node \in Nodes /\ th[t].todo \subseteq Arenas
    BY <1>1 DEF TInv, TypeOK, BusyHasNode, ThreadType, FreeArena
  <2>2. UNCHANGED drawn
    BY <1>1 DEF FreeArena, daemonVars
  <2>3. CASE UNCHANGED arenaVars
    BY <2>2, <2>3 DEF OwnershipExclusive, arenaVars
  <2>4. CASE \E a \in th[t].todo : ReleaseArenaID(th[t].node, a)
    BY <2>1, <2>2, <2>4, ReleaseKeepsExclusive DEF TInv
  <2> QED BY <1>1, <2>3, <2>4 DEF FreeArena
<1>2. CASE UNCHANGED <<arenaVars, drawn>>
  BY <1>2 DEF OwnershipExclusive, arenaVars
<1>3. FreeArena(t) \/ UNCHANGED <<arenaVars, drawn>>
  BY DEF WatchEvent, WatchCompacted, ThreadStep, CallFails, ControllerCrash,
         SweepIntents, SweepMarks, SweepMember, SweepDropIntent, SweepDropMark,
         ReadDeparted, ReadOwns, RecordFenceIntent, ClaimFence, RelistIntents,
         CaptureRevision, CheckBeforeSever, Preempt, ConfirmSevered,
         CheckBeforeBump, GetGeneration, BumpGeneration, CheckBeforeReclaim,
         ListArenas, MarkFenceComplete, ClearFenceIntent, ReleaseClaim,
         readUnchanged, daemonVars
<1> QED BY <1>1, <1>2, <1>3

(* In etcd an arena is never in two places, whatever crashes, expiries,    *)
(* errors, restarts and overlapping fences do: ReleaseArenaID moves a      *)
(* record only from its owner, ClaimFreeArena takes a pool entry once, and *)
(* recordOwnership records only what was drawn.                            *)
THEOREM ArenaInOnePlace == Spec => []OwnershipExclusive
<1>1. Init => OwnershipExclusive
  <2>1. Init => /\ owned = [n \in Nodes |-> {}] /\ drawn = [n \in Nodes |-> None]
                /\ pool = {} /\ fresh = Arenas
    BY Zenon DEF Init
  <2> QED BY <2>1, NodeFencingAssumption DEF OwnershipExclusive
<1>2. TInv /\ OwnershipExclusive /\ [Next]_vars => OwnershipExclusive'
  <2> SUFFICES ASSUME TInv, OwnershipExclusive, [Next]_vars PROVE OwnershipExclusive'
    OBVIOUS
  <2>1. CASE UNCHANGED vars
    BY <2>1 DEF vars, OwnershipExclusive, arenaVars, daemonVars
  <2> QED BY <2>1, DaemonExclusive, ThreadExclusive DEF Next, TInv
<1> QED BY <1>1, <1>2, Typing, PTL DEF Spec, TInv

-----------------------------------------------------------------------------
(* Writers.                                                                *)

(* What FencingInv talks about, besides the threads.                       *)
writerVars == <<proc, held, owned, attached>>

(* A thread's move keeps FencingInv when its new state does.               *)
LEMMA SetThreadInv ==
  ASSUME TInv, FencingInv, NEW t \in Threads, NEW u, SetThread(t, u),
         u.pc # "idle" /\ QuietStarts => proc[u.node] \notin {"gen", "arenas"},
         DeviceFenced /\ u.pc \in SeveredStates => ~attached[u.node],
         u.pc \in {"check3", "list", "free"} => DeviceFenced,
         UNCHANGED writerVars
  PROVE  FencingInv'
BY DEF TInv, TypeOK, FencingInv, SeveredUntilReclaimed, HeldIsOwned,
       StartsAlone, SetThread, writerVars

(* A step inside fenceNode or reconcile: only entering the severed states  *)
(* needs a reason.                                                         *)
LEMMA GotoInv ==
  ASSUME TInv, FencingInv, NEW t \in Threads, NEW pc \in ThreadStates,
         Goto(t, pc), th[t].pc # "idle",
         DeviceFenced /\ pc \in SeveredStates => ~attached[th[t].node],
         pc \in {"check3", "list", "free"} => DeviceFenced,
         UNCHANGED writerVars
  PROVE  FencingInv'
<1> DEFINE u == [th[t] EXCEPT !.pc = pc]
<1>1. u.pc = pc /\ u.node = th[t].node
  BY DEF TInv, TypeOK, ThreadType
<1>2. QuietStarts => proc[th[t].node] \notin {"gen", "arenas"}
  BY DEF FencingInv, StartsAlone
<1>3. SetThread(t, u)
  BY DEF Goto
<1> HIDE DEF u
<1> QED BY <1>1, <1>2, <1>3, SetThreadInv

(* A goroutine's return keeps FencingInv.                                  *)
LEMMA FinishInv ==
  ASSUME TInv, FencingInv, NEW t \in Threads, Finish(t), UNCHANGED writerVars
  PROVE  FencingInv'
<1>1. IdleThread.pc = "idle"
  BY DEF IdleThread
<1> QED BY <1>1, SetThreadInv DEF Finish, SeveredStates

(* A daemon's steps keep FencingInv, as long as its writes end before it   *)
(* leaves and its starts keep clear of fences.                             *)
LEMMA DaemonInv ==
  ASSUME TInv, FencingInv, DeviceFenced => QuietStarts, NEW n \in Nodes,
         DaemonStep(n) \/ Fault(n) \/ ClaimExpiry(n)
  PROVE  FencingInv'
<1>t. /\ th \in [Threads -> ThreadType] /\ BusyHasNode
      /\ attached \in [Nodes -> BOOLEAN] /\ proc \in [Nodes -> ProcStates]
      /\ held \in [Nodes -> SUBSET Arenas] /\ owned \in [Nodes -> SUBSET Arenas]
  BY DEF TInv, TypeOK
<1> USE <1>t DEF FencingInv, SeveredUntilReclaimed, HeldIsOwned, StartsAlone
<1>1. CASE InitGeneration(n)
  <2>1. UNCHANGED <<th, held, owned, attached>> /\ proc' = [proc EXCEPT ![n] = "gen"]
    BY <1>1 DEF InitGeneration, arenaVars
  <2>2. QuietStarts => \A t \in Threads : th[t].node # n
    BY <1>1 DEF InitGeneration, Settled, Engaged
  <2> QED BY <2>1, <2>2
<1>2. CASE ReconstructArenas(n)
  <2>1. UNCHANGED <<th, owned, attached>> /\ proc' = [proc EXCEPT ![n] = "arenas"]
        /\ held'[n] \subseteq owned[n] /\ \A m \in Nodes : m # n => held'[m] = held[m]
    BY <1>2 DEF ReconstructArenas, arenaVars
  <2>2. proc[n] = "gen"
    BY <1>2 DEF ReconstructArenas
  <2>3. SeveredUntilReclaimed'
    BY Zenon, <2>1
  <2>4. HeldIsOwned'
    BY <2>1
  <2>5. StartsAlone'
    BY <2>1, <2>2 DEF BusyHasNode
  <2> QED BY <2>3, <2>4, <2>5
<1>3. CASE StartServing(n)
  <2>1. /\ UNCHANGED <<th, held, owned>> /\ proc[n] = "arenas"
        /\ proc' = [proc EXCEPT ![n] = "serving"]
        /\ attached' = [attached EXCEPT ![n] = TRUE]
    BY <1>3 DEF StartServing, arenaVars
  <2>2. \A t \in Threads : DeviceFenced /\ th[t].pc \in SeveredStates => th[t].node # n
    BY <2>1 DEF SeveredStates
  <2> QED BY <2>1, <2>2
<1>4. CASE RecordOwnership(n)
  <2>1. UNCHANGED <<th, proc, attached>>
    BY <1>4 DEF RecordOwnership, arenaStepUnchanged
  <2>2. \A m \in Nodes : held[m] \subseteq owned[m] => held'[m] \subseteq owned'[m]
    BY <1>4 DEF RecordOwnership
  <2> QED BY <2>1, <2>2
<1>5. CASE LeaveRelease(n)
  <2>1. /\ UNCHANGED <<th, held, attached>> /\ proc[n] = "leaving"
        /\ \A m \in Nodes : m # n => proc'[m] = proc[m] /\ owned'[m] = owned[m]
        /\ proc'[n] \in {"leaving", "announce", "revoke"}
    BY <1>5 DEF LeaveRelease, ReleaseArenaID, arenaVars
  <2> QED BY <2>1 DEF BusyHasNode
<1>6. CASE LeaveRevoke(n) \/ Crash(n)
  <2>1. /\ UNCHANGED <<th, owned, attached>> /\ proc' = [proc EXCEPT ![n] = "down"]
        /\ held' = [held EXCEPT ![n] = {}]
    BY <1>6 DEF LeaveRevoke, Crash, ProcessEnds, arenaVars
  <2> QED BY <2>1
<1>7. CASE SelfFence(n) \/ Stop(n) \/ LeaveList(n) \/ LeaveAnnounce(n)
  <2>1. /\ UNCHANGED <<th, held, owned, attached>>
        /\ \/ proc[n] = "serving" /\ proc' = [proc EXCEPT ![n] = "stopping"]
           \/ proc' = [proc EXCEPT ![n] = "leaving"]
           \/ proc' = [proc EXCEPT ![n] = "revoke"]
    BY <1>7 DEF SelfFence, Stop, LeaveList, LeaveAnnounce, arenaVars
  <2>2. SeveredUntilReclaimed' /\ StartsAlone'
    <3>1. \A m \in Nodes : proc'[m] \in {"gen", "arenas"} => proc'[m] = proc[m]
      BY <2>1
    <3> QED BY <2>1, <3>1 DEF BusyHasNode
  <2>3. HeldIsOwned'
    BY <2>1
  <2> QED BY <2>2, <2>3
<1>8. CASE UNCHANGED <<th, writerVars>>
  BY <1>8 DEF writerVars
<1>9. \/ InitGeneration(n) \/ ReconstructArenas(n) \/ StartServing(n)
      \/ RecordOwnership(n) \/ LeaveRelease(n) \/ LeaveRevoke(n) \/ Crash(n)
      \/ SelfFence(n) \/ Stop(n) \/ LeaveList(n) \/ LeaveAnnounce(n)
      \/ UNCHANGED <<th, writerVars>>
  BY DEF DaemonStep, Fault, RegisterPut, RegisterDropIntent, RegisterDropMark,
         RegisterDropDeparted, RunRevokesLease, LeaseExpires, DrawArena,
         ClaimExpiry, regUnchanged, arenaStepUnchanged, arenaVars, daemonVars,
         writerVars
<1> QED BY <1>1, <1>2, <1>3, <1>4, <1>5, <1>6, <1>7, <1>8, <1>9

(* A controller's steps keep FencingInv: it enters the severed states only *)
(* through a confirmation, and frees arenas only in them.                  *)
LEMMA ThreadInv ==
  ASSUME TInv, FencingInv, DeviceFenced => QuietStarts, NEW t \in Threads,
         \/ WatchEvent(t) \/ WatchCompacted(t) \/ ThreadStep(t)
         \/ CallFails(t) \/ ControllerCrash(t)
         \/ \E n \in Nodes : SweepIntents(t, n)
  PROVE  FencingInv'
<1> DEFINE n == th[t].node
<1>a. /\ th[t] \in ThreadType /\ (th[t].pc # "idle" => n \in Nodes)
      /\ DeviceFenced /\ th[t].pc \in SeveredStates => ~attached[n]
      /\ th[t].pc \in {"check3", "list", "free"} => DeviceFenced
      /\ th[t].pc # "idle" /\ QuietStarts => proc[n] \notin {"gen", "arenas"}
  BY DEF TInv, TypeOK, BusyHasNode, FencingInv, SeveredUntilReclaimed, StartsAlone
<1>b. {"check2", "getGen", "bump", "check3", "list", "free"} = SeveredStates
  BY DEF SeveredStates
<1> USE DEF ThreadStates, SeveredStates, readUnchanged, etcdVars, arenaVars,
          daemonVars, writerVars
<1>1. CASE WatchEvent(t)
  <2> PICK m \in Nodes :
        /\ MayEngage(m)
        /\ SetThread(t, [IdleThread EXCEPT !.pc = "departed", !.node = m])
    BY <1>1 DEF WatchEvent
  <2> DEFINE u == [IdleThread EXCEPT !.pc = "departed", !.node = m]
  <2>1. u.pc = "departed" /\ u.node = m
    BY DEF IdleThread
  <2>2. SetThread(t, u)
    OBVIOUS
  <2> HIDE DEF u
  <2> QED BY <1>1, <2>1, <2>2, SetThreadInv DEF WatchEvent, MayEngage, Starting
<1>2. CASE \E m \in Nodes : SweepIntents(t, m)
  <2> PICK m \in Nodes : SweepIntents(t, m)
    BY <1>2
  <2> DEFINE u == [IdleThread EXCEPT !.pc = "lists", !.node = m, !.owed = intent[m] # 0]
  <2>1. u.pc = "lists" /\ u.node = m
    BY DEF IdleThread
  <2>2. SetThread(t, u)
    BY DEF SweepIntents
  <2> HIDE DEF u
  <2> QED BY <2>1, <2>2, SetThreadInv DEF SweepIntents, MayEngage, Starting
<1>3. CASE WatchCompacted(t)
  BY <1>3 DEF WatchCompacted, FencingInv, SeveredUntilReclaimed, HeldIsOwned, StartsAlone
<1>4. CASE CallFails(t) \/ ControllerCrash(t)
  BY <1>4, GotoInv, FinishInv DEF CallFails, ControllerCrash
<1>5. CASE SweepMarks(t)
  <2> DEFINE u == [th[t] EXCEPT !.pc = "alive", !.fenced = marked[th[t].node]]
  <2>1. u.pc = "alive" /\ u.node = n
    BY <1>a DEF ThreadType
  <2>2. Finish(t) \/ SetThread(t, u)
    BY <1>5 DEF SweepMarks
  <2> HIDE DEF u
  <2> QED BY <1>5, <1>a, <2>1, <2>2, SetThreadInv, FinishInv DEF SweepMarks
<1>6. CASE \/ SweepMember(t) \/ SweepDropIntent(t) \/ SweepDropMark(t)
           \/ ReadDeparted(t) \/ ReadOwns(t)
  BY <1>6, GotoInv, FinishInv
     DEF SweepMember, SweepDropIntent, SweepDropMark, ReadDeparted, ReadOwns
<1>7. CASE RecordFenceIntent(t) \/ ClaimFence(t) \/ RelistIntents(t) \/ ReleaseClaim(t)
  BY <1>7, GotoInv, FinishInv
     DEF RecordFenceIntent, ClaimFence, RelistIntents, ReleaseClaim
<1>8. CASE CaptureRevision(t)
  <2> DEFINE u == [th[t] EXCEPT !.pc = "check1", !.rev = intent[th[t].node]]
  <2>1. u.pc = "check1" /\ u.node = n
    BY <1>a DEF ThreadType
  <2>2. SetThread(t, u)
    BY <1>8 DEF CaptureRevision
  <2> HIDE DEF u
  <2> QED BY <1>8, <1>a, <2>1, <2>2, SetThreadInv DEF CaptureRevision
<1>9. CASE CheckBeforeSever(t) \/ ConfirmSevered(t)
  BY <1>9, GotoInv DEF CheckBeforeSever, ConfirmSevered
<1>10. CASE Preempt(t)
  <2> DEFINE u == [th[t] EXCEPT !.pc = "report"]
  <2>1. u.pc = "report" /\ u.node = n
    BY <1>a DEF ThreadType
  <2>2. th' = [th EXCEPT ![t] = u]
    BY <1>10 DEF Preempt, Goto, SetThread
  <2>3. /\ attached' = [attached EXCEPT ![n] = FALSE]
        /\ UNCHANGED <<proc, held, owned>> /\ th[t].pc = "preempt"
    BY <1>10 DEF Preempt
  <2> HIDE DEF u, n
  <2>4. /\ th \in [Threads -> ThreadType] /\ attached \in [Nodes -> BOOLEAN]
    BY DEF TInv, TypeOK
  <2>5. /\ th'[t] = u /\ (\A v \in Threads \ {t} : th'[v] = th[v])
        /\ attached'[n] = FALSE /\ (\A m \in Nodes : attached'[m] => attached[m])
    BY <1>a, <2>2, <2>3, <2>4
  <2>6. SeveredUntilReclaimed'
    BY <1>a, <2>1, <2>3, <2>4, <2>5 DEF FencingInv, SeveredUntilReclaimed, TInv, BusyHasNode
  <2>7. HeldIsOwned'
    BY <2>3, <2>5 DEF FencingInv, HeldIsOwned
  <2>8. StartsAlone'
    BY <1>a, <2>1, <2>3, <2>5 DEF FencingInv, StartsAlone
  <2> QED BY <2>6, <2>7, <2>8 DEF FencingInv
<1>11. CASE CheckBeforeBump(t) \/ CheckBeforeReclaim(t)
  BY <1>11, <1>a, GotoInv DEF CheckBeforeBump, CheckBeforeReclaim
<1>12. CASE GetGeneration(t)
  <2> DEFINE u == [th[t] EXCEPT !.pc = "bump", !.gen = gen[th[t].node]]
  <2>1. u.pc = "bump" /\ u.node = n
    BY <1>a DEF ThreadType
  <2>2. SetThread(t, u)
    BY <1>12 DEF GetGeneration
  <2> HIDE DEF u
  <2> QED BY <1>12, <1>a, <2>1, <2>2, SetThreadInv DEF GetGeneration
<1>13. CASE BumpGeneration(t)
  BY <1>13, <1>a, GotoInv DEF BumpGeneration
<1>14. CASE ListArenas(t)
  <2> DEFINE u == [th[t] EXCEPT !.pc = "free", !.todo = owned[th[t].node]]
  <2>1. u.pc = "free" /\ u.node = n
    BY <1>a DEF ThreadType
  <2>2. Goto(t, "mark") \/ SetThread(t, u)
    BY <1>14 DEF ListArenas
  <2> HIDE DEF u
  <2> QED BY <1>14, <1>a, <2>1, <2>2, SetThreadInv, GotoInv DEF ListArenas
<1>15. CASE FreeArena(t)
  <2>1. PICK u : SetThread(t, u) /\ u.node = n /\ u.pc \in {"free", "mark"}
    <3>1. \A a : [th[t] EXCEPT !.todo = @ \ {a}].node = n
                /\ [th[t] EXCEPT !.todo = @ \ {a}].pc = th[t].pc
      BY <1>a DEF ThreadType
    <3>2. [th[t] EXCEPT !.pc = "mark"].node = n /\ [th[t] EXCEPT !.pc = "mark"].pc = "mark"
      BY <1>a DEF ThreadType
    <3>3. th[t].pc = "free"
      BY <1>15 DEF FreeArena
    <3> QED BY <1>15, <3>1, <3>2, <3>3 DEF FreeArena, Goto
  <2>2. /\ UNCHANGED <<proc, held, attached>> /\ th[t].pc = "free"
        /\ \A m \in Nodes : m # n => owned'[m] = owned[m]
    BY <1>15, <1>a DEF FreeArena, ReleaseArenaID, TInv, TypeOK
  <2>3. n \in Nodes /\ ~attached[n] /\ proc[n] # "arenas" /\ DeviceFenced
    BY <1>a, <2>2
  <2> HIDE DEF n
  <2>4. HeldIsOwned'
    BY <2>2, <2>3 DEF FencingInv, HeldIsOwned
  <2>5. th' = [th EXCEPT ![t] = u] /\ th \in [Threads -> ThreadType]
    BY <2>1 DEF SetThread, TInv, TypeOK
  <2>6. SeveredUntilReclaimed'
    BY <2>1, <2>2, <2>3, <2>5 DEF FencingInv, SeveredUntilReclaimed
  <2>7. StartsAlone'
    BY <1>a, <2>1, <2>2, <2>5 DEF FencingInv, StartsAlone
  <2> QED BY <2>4, <2>6, <2>7 DEF FencingInv
<1>16. CASE MarkFenceComplete(t)
  <2> DEFINE u == [th[t] EXCEPT !.pc = "clear", !.todo = {}]
  <2>1. u.pc = "clear" /\ u.node = n
    BY <1>a DEF ThreadType
  <2>2. SetThread(t, u)
    BY <1>16 DEF MarkFenceComplete
  <2> HIDE DEF u
  <2> QED BY <1>16, <1>a, <2>1, <2>2, SetThreadInv DEF MarkFenceComplete
<1>17. CASE ClearFenceIntent(t)
  BY <1>17, GotoInv DEF ClearFenceIntent
<1> QED BY <1>1, <1>2, <1>3, <1>4, <1>5, <1>6, <1>7, <1>8, <1>9, <1>10, <1>11,
          <1>12, <1>13, <1>14, <1>15, <1>16, <1>17
       DEF ThreadStep

(* The fencing order: with quiet starts, or without a Fencer, and with     *)
(* clients that stop when the listener does, a node whose severing was     *)
(* confirmed stays cut off until its arenas are reclaimed, a process that  *)
(* may come to write lists only arenas it owns, and no fence overlaps a    *)
(* start (Controller.fenceNode, Service.initGenerationLocked).             *)
THEOREM FencingOrderKept ==
  ASSUME ~OpenConnections, DeviceFenced => QuietStarts
  PROVE  Spec => []FencingInv
<1>1. Init => FencingInv
  <2>1. Init => /\ proc = [n \in Nodes |-> "down"] /\ th = [t \in Threads |-> IdleThread]
    BY Zenon DEF Init
  <2>2. IdleThread.pc = "idle"
    BY DEF IdleThread
  <2>3. Init => /\ \A n \in Nodes : proc[n] = "down"
                /\ \A t \in Threads : th[t].pc = "idle"
    BY <2>1, <2>2
  <2> QED BY <2>3 DEF FencingInv, SeveredUntilReclaimed, HeldIsOwned, StartsAlone, SeveredStates
<1>2. TInv /\ FencingInv /\ [Next]_vars => FencingInv'
  <2> SUFFICES ASSUME TInv, FencingInv, [Next]_vars PROVE FencingInv'
    OBVIOUS
  <2>1. CASE UNCHANGED vars
    BY <2>1 DEF vars, FencingInv, SeveredUntilReclaimed, HeldIsOwned,
                StartsAlone, arenaVars, daemonVars
  <2> QED BY <2>1, DaemonInv, ThreadInv DEF Next
<1> QED BY <1>1, <1>2, Typing, PTL DEF Spec, TInv

(* Hence the fencing order is safe: whoever can put bytes into an arena    *)
(* owns it.                                                                *)
THEOREM WritersOwnArenas ==
  ASSUME ~OpenConnections, DeviceFenced => QuietStarts
  PROVE  Spec => []WriterOwnsArena
<1>1. FencingInv => WriterOwnsArena
  BY DEF FencingInv, HeldIsOwned, WriterOwnsArena, CanWrite, ServingStates
<1> QED BY <1>1, FencingOrderKept, PTL

-----------------------------------------------------------------------------
(* Generations.                                                            *)

(* No process guards with a generation the cluster has not reached.        *)
GuardBehind == \A n \in Nodes : startGen[n] <= gen[n]

(* What a step may do to the generation of m and to the guard of its       *)
(* process.                                                                *)
GenStep(m) ==
  /\ gen'[m] = gen[m] \/ gen'[m] = gen[m] + 1
  /\ \/ startGen'[m] = startGen[m]
     \/ proc[m] = "down" /\ startGen'[m] = gen[m]
     \/ proc'[m] = "down" /\ startGen'[m] = 0

(* Generations grow by single bumps, and only a start sets a guard         *)
(* (Store.BumpGeneration's CAS, Service.initGenerationLocked).             *)
LEMMA GenSteps ==
  ASSUME TInv, [Next]_vars, NEW m \in Nodes
  PROVE  GenStep(m)
<1>1. CASE UNCHANGED <<gen, startGen>>
  BY <1>1 DEF GenStep
<1>2. CASE \E n \in Nodes : InitGeneration(n)
  <2>1. gen \in [Nodes -> Nat] /\ startGen \in [Nodes -> Nat]
    BY DEF TInv, TypeOK
  <2> QED BY <1>2, <2>1 DEF InitGeneration, GenStep
<1>3. CASE \E n \in Nodes : LeaveRevoke(n) \/ Crash(n)
  <2> PICK n \in Nodes : LeaveRevoke(n) \/ Crash(n)
    BY <1>3
  <2>1. /\ UNCHANGED gen /\ proc' = [proc EXCEPT ![n] = "down"]
        /\ startGen' = [startGen EXCEPT ![n] = 0]
    BY DEF LeaveRevoke, Crash, ProcessEnds, etcdVars
  <2>2. startGen \in [Nodes -> Nat] /\ proc \in [Nodes -> ProcStates]
    BY DEF TInv, TypeOK
  <2> QED BY <2>1, <2>2 DEF GenStep
<1>4. CASE \E t \in Threads : BumpGeneration(t)
  <2>1. UNCHANGED startGen
        /\ \E n : gen' = gen \/ gen' = [gen EXCEPT ![n] = @ + 1]
    BY <1>4 DEF BumpGeneration, daemonVars
  <2>2. gen \in [Nodes -> Nat]
    BY DEF TInv, TypeOK
  <2> QED BY <2>1, <2>2 DEF GenStep
<1>5. CASE UNCHANGED vars
  BY <1>5, <1>1 DEF vars, etcdVars, daemonVars
<1>6. ASSUME NEW n \in Nodes, DaemonStep(n) \/ Fault(n) \/ ClaimExpiry(n)
      PROVE  \/ InitGeneration(n) \/ LeaveRevoke(n) \/ Crash(n)
             \/ UNCHANGED <<gen, startGen>>
  BY <1>6
     DEF DaemonStep, Fault, ReconstructArenas, StartServing, RegisterPut,
         RegisterDropIntent, RegisterDropMark, RegisterDropDeparted,
         RunRevokesLease, DrawArena, RecordOwnership, SelfFence, LeaveList,
         LeaveRelease, LeaveAnnounce, LeaseExpires, Stop, ClaimExpiry,
         regUnchanged, arenaStepUnchanged, etcdVars, daemonVars
<1>7. ASSUME NEW t \in Threads,
             \/ WatchEvent(t) \/ WatchCompacted(t) \/ CallFails(t)
             \/ ControllerCrash(t) \/ \E n \in Nodes : SweepIntents(t, n)
      PROVE  UNCHANGED <<gen, startGen>>
  BY <1>7
     DEF WatchEvent, WatchCompacted, CallFails, ControllerCrash, SweepIntents,
         readUnchanged, etcdVars, daemonVars
<1>8. ASSUME NEW t \in Threads, ThreadStep(t)
      PROVE  BumpGeneration(t) \/ UNCHANGED <<gen, startGen>>
  BY <1>8
     DEF ThreadStep, SweepMarks, SweepMember, SweepDropIntent, SweepDropMark,
         ReadDeparted, ReadOwns, RecordFenceIntent, ClaimFence, RelistIntents,
         CaptureRevision, CheckBeforeSever, Preempt, ConfirmSevered,
         CheckBeforeBump, GetGeneration, CheckBeforeReclaim, ListArenas,
         FreeArena, MarkFenceComplete, ClearFenceIntent, ReleaseClaim,
         readUnchanged, etcdVars, daemonVars
<1> QED BY <1>1, <1>2, <1>3, <1>4, <1>5, <1>6, <1>7, <1>8 DEF Next

(* A fenced process stays fenced: once its guard fails it fails for the    *)
(* rest of the process's life, under every interleaving of fences.         *)
THEOREM FencedForLife == Spec => FencedStaysFenced
<1>1. Init => GuardBehind
  BY DEF Init, GuardBehind
<1>2. TInv /\ GuardBehind /\ [Next]_vars => GuardBehind'
  <2> SUFFICES ASSUME TInv, GuardBehind, [Next]_vars, NEW m \in Nodes
               PROVE  startGen'[m] <= gen'[m]
    BY DEF GuardBehind
  <2>1. GenStep(m)
    BY GenSteps
  <2>2. startGen[m] \in Nat /\ gen[m] \in Nat /\ startGen[m] <= gen[m]
    BY DEF TInv, TypeOK, GuardBehind
  <2> QED BY <2>1, <2>2 DEF GenStep
<1>3. TInv /\ GuardBehind /\ [Next]_vars =>
        [\A n \in Nodes :
           proc[n] # "down" /\ proc'[n] # "down" /\ ~GuardPasses(n)
             => ~GuardPasses(n)']_vars
  <2> SUFFICES ASSUME TInv, GuardBehind, [Next]_vars, NEW m \in Nodes,
                      proc[m] # "down", proc'[m] # "down", startGen[m] # gen[m]
               PROVE  startGen'[m] # gen'[m]
    BY DEF GuardPasses
  <2>1. GenStep(m)
    BY GenSteps
  <2>2. startGen[m] \in Nat /\ gen[m] \in Nat /\ startGen[m] <= gen[m]
    BY DEF TInv, TypeOK, GuardBehind
  <2> QED BY <2>1, <2>2 DEF GenStep
<1> QED BY <1>1, <1>2, <1>3, Typing, PTL DEF Spec, TInv, FencedStaysFenced

=============================================================================
