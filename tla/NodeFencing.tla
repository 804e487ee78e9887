----------------------------- MODULE NodeFencing -----------------------------
(***************************************************************************)
(* Membership, fencing generations and arena reclamation of an EtcFS       *)
(* cluster: the daemon's life from start to departure                      *)
(* (cmd/etcfuse-meta/main.go, pkg/metadata/membership.go), the fencing     *)
(* controllers of its peers (pkg/fencing/controller.go) and the etcd keys  *)
(* both work on (pkg/metadata/fence.go, gen.go, arena.go).                 *)
(*                                                                         *)
(* Every etcd request and every device command is one step, because        *)
(* nothing else is atomic: a daemon and any number of controllers          *)
(* interleave between them.  A node is a daemon whose life is modelled; a  *)
(* thread is one controller goroutine of a peer, either a watch goroutine  *)
(* working on a DELETE event or a sweep working on one candidate.          *)
(***************************************************************************)
EXTENDS Naturals, FiniteSets

CONSTANTS
  Nodes,          \* daemons whose departure the controllers act on
  Arenas,         \* arena IDs that fit on the device
  Watchers,       \* watch goroutines of the peers' controllers
  Sweepers,       \* sweep goroutines of the peers' controllers
  None,           \* no thread, no arena
  DeviceFenced,   \* TRUE when the controllers have a Fencer (NVMe preempt)
  QuietStarts,    \* do a node's starts and its fences never overlap?
  LongLeases,     \* does a lease outlive the start that follows its grant?
  OpenConnections,\* may a client connection outlive the closed listener?
  ClaimExpires,   \* may a claim's lease run out under a live fence?
  EtcdErrors,     \* may etcd requests and device commands fail?
  Faulty,         \* nodes that may crash or lose their lease
  Stoppable,      \* nodes that may be stopped by a signal
  MaxJoins,       \* bound: daemon starts plus re-registrations of a node
  MaxIntents,     \* bound: fence intents created for a node
  MaxCrashes      \* bound: controller crashes

Threads == Watchers \cup Sweepers

ASSUME NodeFencingAssumption ==
  /\ Watchers \cap Sweepers = {}
  /\ None \notin Threads \cup Arenas \cup Nodes
  /\ {DeviceFenced, QuietStarts, LongLeases, OpenConnections,
      ClaimExpires, EtcdErrors} \subseteq BOOLEAN
  /\ Faulty \subseteq Nodes /\ Stoppable \subseteq Nodes
  /\ MaxJoins \in Nat /\ MaxIntents \in Nat /\ MaxCrashes \in Nat

VARIABLES
  (* etcd *)
  member,    \* membership:<node> exists (bound to the newest lease)
  gen,       \* gen:<node>, 0 while absent
  known,     \* gen:<node> exists
  intent,    \* fence_pending:<node>: its create-revision, 0 while absent
  intents,   \* create-revisions handed to that key so far
  marked,    \* fence_done:<node> exists
  departed,  \* departed:<node> exists
  claim,     \* fence_claim:<node>: the thread that created it, or None
  owned,     \* arena:<node>/<id> records
  pool,      \* free_arena:<id> records
  fresh,     \* arena IDs the shared counter has not handed out
  (* the device *)
  attached,  \* the node's reservation key is registered
  (* the daemons *)
  proc,      \* where the main goroutine is
  reg,       \* where Membership.Run is
  startGen,  \* the generation guarding this process's transactions
  held,      \* the allocator's arena list
  drawn,     \* the arena ID AcquireArena has drawn and not yet recorded
  todo,      \* arenas Leave has listed and not yet released
  joins,     \* starts and re-registrations so far
  (* the controllers *)
  events,    \* membership DELETE events a watcher has not handled
  th,        \* the threads
  crashes    \* controller crashes so far

etcdVars == <<member, gen, known, intent, intents, marked, departed>>
arenaVars == <<owned, pool, fresh>>
daemonVars == <<proc, reg, startGen, held, drawn, todo, joins>>
vars == <<etcdVars, claim, arenaVars, attached, daemonVars, events, th, crashes>>

-----------------------------------------------------------------------------
(* Types.                                                                  *)

ProcStates == {"down", "gen", "arenas", "serving", "stopping",
               "leaving", "announce", "revoke"}

RegStates == {"off", "put", "intentDropped", "markDropped", "on", "failed"}

ThreadStates == {"idle", "lists", "alive", "dropIntent", "dropMark",
                 "departed", "owns", "record", "claim", "relist", "revision",
                 "check1", "preempt", "report", "check2", "getGen", "bump",
                 "check3", "list", "free", "mark", "clear", "release"}

ThreadType == [pc : ThreadStates, node : Nodes \cup {None}, rev : Nat,
               owed : BOOLEAN, fenced : BOOLEAN, gen : Nat,
               todo : SUBSET Arenas]

IdleThread == [pc |-> "idle", node |-> None, rev |-> 0, owed |-> FALSE,
               fenced |-> FALSE, gen |-> 0, todo |-> {}]

(* Every variable has its type.                                            *)
TypeOK ==
  /\ member \in [Nodes -> BOOLEAN]
  /\ gen \in [Nodes -> Nat]
  /\ known \in [Nodes -> BOOLEAN]
  /\ intent \in [Nodes -> Nat]
  /\ intents \in [Nodes -> Nat]
  /\ marked \in [Nodes -> BOOLEAN]
  /\ departed \in [Nodes -> BOOLEAN]
  /\ claim \in [Nodes -> Threads \cup {None}]
  /\ owned \in [Nodes -> SUBSET Arenas]
  /\ pool \in SUBSET Arenas
  /\ fresh \in SUBSET Arenas
  /\ attached \in [Nodes -> BOOLEAN]
  /\ proc \in [Nodes -> ProcStates]
  /\ reg \in [Nodes -> RegStates]
  /\ startGen \in [Nodes -> Nat]
  /\ held \in [Nodes -> SUBSET Arenas]
  /\ drawn \in [Nodes -> Arenas \cup {None}]
  /\ todo \in [Nodes -> SUBSET Arenas]
  /\ joins \in [Nodes -> Nat]
  /\ events \in [Watchers -> [Nodes -> Nat]]
  /\ th \in [Threads -> ThreadType]
  /\ crashes \in Nat

Init ==
  /\ member = [n \in Nodes |-> FALSE]
  /\ gen = [n \in Nodes |-> 0]
  /\ known = [n \in Nodes |-> FALSE]
  /\ intent = [n \in Nodes |-> 0]
  /\ intents = [n \in Nodes |-> 0]
  /\ marked = [n \in Nodes |-> FALSE]
  /\ departed = [n \in Nodes |-> FALSE]
  /\ claim = [n \in Nodes |-> None]
  /\ owned = [n \in Nodes |-> {}]
  /\ pool = {}
  /\ fresh = Arenas
  /\ attached = [n \in Nodes |-> ~DeviceFenced]
  /\ proc = [n \in Nodes |-> "down"]
  /\ reg = [n \in Nodes |-> "off"]
  /\ startGen = [n \in Nodes |-> 0]
  /\ held = [n \in Nodes |-> {}]
  /\ drawn = [n \in Nodes |-> None]
  /\ todo = [n \in Nodes |-> {}]
  /\ joins = [n \in Nodes |-> 0]
  /\ events = [w \in Watchers |-> [n \in Nodes |-> 0]]
  /\ th = [t \in Threads |-> IdleThread]
  /\ crashes = 0

-----------------------------------------------------------------------------
(* Shared pieces.                                                          *)

(* The membership key of n goes away: every controller's watch gets a      *)
(* DELETE event, unless the key was already gone.                          *)
DeleteMember(n) ==
  /\ member' = [member EXCEPT ![n] = FALSE]
  /\ events' = IF member[n]
                 THEN [w \in Watchers |-> [events[w] EXCEPT ![n] = @ + 1]]
                 ELSE events

(* Mutant of ReleaseArenaID: the pool entry is written whether or not the  *)
(* record is still there.                                                  *)
ReleaseUnconditionally(n, a) ==
  /\ owned' = [owned EXCEPT ![n] = @ \ {a}]
  /\ pool' = pool \cup {a}
  /\ UNCHANGED fresh

(* Store.ReleaseArenaID(n, a): one transaction moves the record of an arena *)
(* n still owns to the pool, and does nothing otherwise.                   *)
ReleaseArenaID(n, a) ==
  IF a \in owned[n]
  THEN /\ owned' = [owned EXCEPT ![n] = @ \ {a}]
       /\ pool' = pool \cup {a}
       /\ UNCHANGED fresh
  ELSE UNCHANGED arenaVars

(* Some controller goroutine is working on n.                              *)
Engaged(n) == \E t \in Threads : th[t].node = n

(* Nothing is owed, pending or under way for n: the state an operator who  *)
(* waits for the fence before restarting the daemon would see.             *)
Settled(n) ==
  /\ ~Engaged(n) /\ intent[n] = 0 /\ ~member[n]
  /\ \A w \in Watchers : events[w][n] = 0
  /\ known[n] => marked[n] \/ departed[n]

(* The daemon of n is starting: it does not serve yet, or has not tried to *)
(* register.                                                               *)
Starting(n) == proc[n] \in {"gen", "arenas"} \/ (proc[n] = "serving" /\ reg[n] = "off")

(* A controller may take up n.                                             *)
MayEngage(n) == QuietStarts => ~Starting(n)

(* The connection goroutines that can still carry a client's write: the    *)
(* listener is closed at shutdown, accepted connections are not.           *)
ServingStates ==
  {"serving", "stopping"} \cup
    (IF OpenConnections THEN {"leaving", "announce", "revoke"} ELSE {})

(* The daemon's context is not cancelled.                                  *)
Running(n) == proc[n] \in {"arenas", "serving"}

(* A write of the allocator's arena a by n reaches the device.             *)
CanWrite(n, a) == proc[n] \in ServingStates /\ attached[n] /\ a \in held[n]

(* A guarded transaction of n passes Store.TxnResponse's generation guard. *)
GuardPasses(n) == startGen[n] = gen[n]

-----------------------------------------------------------------------------
(* The daemon: start.                                                      *)

(* Service.InitGeneration: gen:<node> is created at 0 when absent, and its *)
(* value becomes the guard of every transaction of this process.           *)
InitGeneration(n) ==
  /\ proc[n] = "down" /\ joins[n] < MaxJoins
  /\ QuietStarts => Settled(n)
  /\ known' = [known EXCEPT ![n] = TRUE]
  /\ startGen' = [startGen EXCEPT ![n] = gen[n]]
  /\ proc' = [proc EXCEPT ![n] = "gen"]
  /\ joins' = [joins EXCEPT ![n] = @ + 1]
  /\ UNCHANGED <<member, gen, intent, intents, marked, departed, claim,
                 arenaVars, attached, reg, held, drawn, todo, events, th, crashes>>

(* Allocator.Reconstruct: the arena list is rebuilt from this node's own   *)
(* records.  run ignores its error, and then serves without them.          *)
ReconstructArenas(n) ==
  /\ proc[n] = "gen"
  /\ proc' = [proc EXCEPT ![n] = "arenas"]
  /\ \/ held' = [held EXCEPT ![n] = owned[n]]
     \/ EtcdErrors /\ held' = [held EXCEPT ![n] = {}]
  /\ UNCHANGED <<etcdVars, claim, arenaVars, attached, reg, startGen, drawn,
                 todo, joins, events, th, crashes>>

(* newFencingController: NewNVMeFencer registers this node's reservation   *)
(* key, after which run goes on to open the IPC socket.                    *)
StartServing(n) ==
  /\ proc[n] = "arenas"
  /\ proc' = [proc EXCEPT ![n] = "serving"]
  /\ attached' = [attached EXCEPT ![n] = TRUE]
  /\ UNCHANGED <<etcdVars, claim, arenaVars, reg, startGen, held, drawn, todo,
                 joins, events, th, crashes>>

-----------------------------------------------------------------------------
(* The daemon: Membership.Run, a goroutine of its own.                     *)

regUnchanged == <<gen, known, intents, claim, arenaVars, attached, proc,
                  startGen, held, drawn, todo, th, crashes>>

(* Mutant of RegisterPut: re-registering reads the generation again, so a  *)
(* fenced process would serve on.                                          *)
RegisterRefreshesGuard(n) ==
  /\ Running(n)
  /\ \/ reg[n] = "off" /\ joins' = joins
     \/ /\ reg[n] = "on" /\ ~member[n] /\ joins[n] < MaxJoins
        /\ joins' = [joins EXCEPT ![n] = @ + 1]
  /\ member' = [member EXCEPT ![n] = TRUE]
  /\ reg' = [reg EXCEPT ![n] = "put"]
  /\ startGen' = [startGen EXCEPT ![n] = gen[n]]
  /\ UNCHANGED <<gen, known, intents, claim, arenaVars, attached, proc, held,
                 drawn, todo, th, crashes, intent, marked, departed, events>>

(* grantAndRegister, first half: a new lease and the membership key.  It   *)
(* runs at start, and again when the keepalive stream closes.  On failure  *)
(* Run returns and the watchdog will stop the daemon.                      *)
RegisterPut(n) ==
  /\ Running(n)
  /\ \/ reg[n] = "off" /\ joins' = joins
     \/ /\ reg[n] = "on" /\ ~member[n] /\ joins[n] < MaxJoins
        /\ joins' = [joins EXCEPT ![n] = @ + 1]
  /\ \/ /\ member' = [member EXCEPT ![n] = TRUE]
        /\ reg' = [reg EXCEPT ![n] = "put"]
     \/ /\ EtcdErrors
        /\ reg' = [reg EXCEPT ![n] = "failed"]
        /\ UNCHANGED member
  /\ UNCHANGED <<regUnchanged, intent, marked, departed, events>>

(* grantAndRegister, second half: three separate best-effort deletes, of   *)
(* the fence intent, the fence mark and the departure marker.  A failed    *)
(* one is only logged; once shutdown cancels the context each may fail.    *)
DeleteMayFail(n) == EtcdErrors \/ ~Running(n)

RegisterDropIntent(n) ==
  /\ reg[n] = "put"
  /\ reg' = [reg EXCEPT ![n] = "intentDropped"]
  /\ \/ intent' = [intent EXCEPT ![n] = 0]
     \/ DeleteMayFail(n) /\ UNCHANGED intent
  /\ UNCHANGED <<regUnchanged, member, marked, departed, joins, events>>

RegisterDropMark(n) ==
  /\ reg[n] = "intentDropped"
  /\ reg' = [reg EXCEPT ![n] = "markDropped"]
  /\ \/ marked' = [marked EXCEPT ![n] = FALSE]
     \/ DeleteMayFail(n) /\ UNCHANGED marked
  /\ UNCHANGED <<regUnchanged, member, intent, departed, joins, events>>

RegisterDropDeparted(n) ==
  /\ reg[n] = "markDropped"
  /\ reg' = [reg EXCEPT ![n] = "on"]
  /\ \/ departed' = [departed EXCEPT ![n] = FALSE]
     \/ DeleteMayFail(n) /\ UNCHANGED departed
  /\ UNCHANGED <<regUnchanged, member, intent, marked, joins, events>>

(* The lease behind the membership key runs out, because the daemon died,  *)
(* stalled or lost etcd.                                                   *)
LeaseExpires(n) ==
  /\ n \in Faulty /\ member[n]
  /\ LongLeases => proc[n] # "arenas" /\ (reg[n] = "on" \/ proc[n] = "down")
  /\ DeleteMember(n)
  /\ UNCHANGED <<regUnchanged, intent, marked, departed, reg, joins>>

(* Run's ctx.Done branch: revokeLease as soon as the context is cancelled, *)
(* concurrently with the rest of the shutdown.                             *)
RunRevokesLease(n) ==
  /\ proc[n] \in {"stopping", "leaving", "announce", "revoke"}
  /\ reg[n] = "on"
  /\ DeleteMember(n)
  /\ reg' = [reg EXCEPT ![n] = "off"]
  /\ UNCHANGED <<regUnchanged, intent, marked, departed, joins>>

-----------------------------------------------------------------------------
(* The daemon: arenas.                                                     *)

arenaStepUnchanged == <<etcdVars, claim, attached, proc, reg, startGen, todo,
                        joins, events, th, crashes>>

(* Mutant of DrawArena: an exhausted counter still yields an arena, one    *)
(* past the end of the device.                                             *)
DrawPastTheEnd(n) ==
  /\ proc[n] \in ServingStates /\ drawn[n] = None
  /\ drawn' = [drawn EXCEPT ![n] = Arenas]
  /\ UNCHANGED <<arenaStepUnchanged, arenaVars, held>>

(* Allocator.allocateArenaID: an arena is taken from the pool with an      *)
(* unguarded delete; only with an empty pool, or when the claim fails, is  *)
(* a new one drawn from the shared counter, under the guard.               *)
DrawArena(n) ==
  /\ proc[n] \in ServingStates /\ drawn[n] = None
  /\ \E a \in Arenas :
       /\ drawn' = [drawn EXCEPT ![n] = a]
       /\ \/ a \in pool /\ pool' = pool \ {a} /\ UNCHANGED fresh
          \/ /\ a \in fresh /\ GuardPasses(n)
             /\ pool = {} \/ EtcdErrors
             /\ fresh' = fresh \ {a} /\ UNCHANGED pool
  /\ UNCHANGED <<arenaStepUnchanged, owned, held>>

(* Mutant of RecordOwnership: the arena joins the list whether or not the  *)
(* record was written, which a process without arenas does not notice.     *)
ListUnrecorded(n) ==
  /\ proc[n] \in ServingStates /\ drawn[n] # None
  /\ drawn' = [drawn EXCEPT ![n] = None]
  /\ held' = [held EXCEPT ![n] = @ \cup {drawn[n]}]
  /\ UNCHANGED <<arenaStepUnchanged, arenaVars>>

(* Allocator.recordOwnership and the rest of AcquireArena: the record is   *)
(* written under the guard unless this node already has one, and then the  *)
(* arena joins the list.  A refusal drops the drawn arena; an error        *)
(* afterwards (a lost reply, an unreadable extent list) leaves a record    *)
(* without a list entry.                                                   *)
RecordOwnership(n) ==
  /\ proc[n] \in ServingStates /\ drawn[n] # None
  /\ drawn' = [drawn EXCEPT ![n] = None]
  /\ IF GuardPasses(n) /\ drawn[n] \notin owned[n]
     THEN /\ owned' = [owned EXCEPT ![n] = @ \cup {drawn[n]}]
          /\ \/ held' = [held EXCEPT ![n] = @ \cup {drawn[n]}]
             \/ EtcdErrors /\ UNCHANGED held
     ELSE UNCHANGED <<owned, held>>
  /\ UNCHANGED <<arenaStepUnchanged, pool, fresh>>

-----------------------------------------------------------------------------
(* The daemon: shutdown and death.                                         *)

(* SIGTERM: stopOnSignalOrFence cancels the context.                       *)
Stop(n) ==
  /\ n \in Stoppable /\ proc[n] = "serving"
  /\ proc' = [proc EXCEPT ![n] = "stopping"]
  /\ UNCHANGED <<etcdVars, claim, arenaVars, attached, reg, startGen, held,
                 drawn, todo, joins, events, th, crashes>>

(* Watchdog.Run: a process whose lease is dead, or was never established,  *)
(* stops itself through the same path.                                     *)
SelfFence(n) ==
  /\ proc[n] = "serving"
  /\ ~member[n] \/ reg[n] # "on"
  /\ proc' = [proc EXCEPT ![n] = "stopping"]
  /\ UNCHANGED <<etcdVars, claim, arenaVars, attached, reg, startGen, held,
                 drawn, todo, joins, events, th, crashes>>

(* StartSocketServer returns; Membership.Leave lists this node's records.  *)
LeaveList(n) ==
  /\ proc[n] = "stopping"
  /\ proc' = [proc EXCEPT ![n] = "leaving"]
  /\ todo' = [todo EXCEPT ![n] = owned[n]]
  /\ UNCHANGED <<etcdVars, claim, arenaVars, attached, reg, startGen, held,
                 drawn, joins, events, th, crashes>>

(* Store.ReleaseArena: one transaction per listed arena.  An error ends it *)
(* and the departure is then not announced; the failed transaction may     *)
(* have been applied all the same.                                         *)
LeaveRelease(n) ==
  /\ proc[n] = "leaving"
  /\ \/ /\ todo[n] = {}
        /\ proc' = [proc EXCEPT ![n] = "announce"]
        /\ UNCHANGED <<arenaVars, todo>>
     \/ \E a \in todo[n] :
          /\ ReleaseArenaID(n, a)
          /\ todo' = [todo EXCEPT ![n] = @ \ {a}]
          /\ \/ proc' = proc
             \/ EtcdErrors /\ proc' = [proc EXCEPT ![n] = "revoke"]
     \/ /\ EtcdErrors
        /\ proc' = [proc EXCEPT ![n] = "revoke"]
        /\ UNCHANGED <<arenaVars, todo>>
  /\ UNCHANGED <<etcdVars, claim, attached, reg, startGen, held, drawn, joins,
                 events, th, crashes>>

(* Store.MarkDeparted: marker and membership deletion in one transaction,  *)
(* conditioned on the membership key.                                      *)
LeaveAnnounce(n) ==
  /\ proc[n] = "announce"
  /\ proc' = [proc EXCEPT ![n] = "revoke"]
  /\ \/ /\ member[n]
        /\ departed' = [departed EXCEPT ![n] = TRUE]
        /\ DeleteMember(n)
     \/ /\ ~member[n] \/ EtcdErrors
        /\ UNCHANGED <<departed, member, events>>
  /\ UNCHANGED <<gen, known, intent, intents, marked, claim, arenaVars,
                 attached, reg, startGen, held, drawn, todo, joins, th, crashes>>

(* The process ends: everything it had in memory is gone.                  *)
ProcessEnds(n) ==
  /\ proc' = [proc EXCEPT ![n] = "down"]
  /\ reg' = [reg EXCEPT ![n] = "off"]
  /\ startGen' = [startGen EXCEPT ![n] = 0]
  /\ held' = [held EXCEPT ![n] = {}]
  /\ drawn' = [drawn EXCEPT ![n] = None]
  /\ todo' = [todo EXCEPT ![n] = {}]
  /\ UNCHANGED joins

(* Leave's last call, revokeLease, and main's exit.                        *)
LeaveRevoke(n) ==
  /\ proc[n] = "revoke"
  /\ IF reg[n] = "on" THEN DeleteMember(n) ELSE UNCHANGED <<member, events>>
  /\ ProcessEnds(n)
  /\ UNCHANGED <<gen, known, intent, intents, marked, departed, claim,
                 arenaVars, attached, th, crashes>>

(* SIGKILL, a panic, power loss, or a start that failed.                   *)
Crash(n) ==
  /\ n \in Faulty /\ proc[n] # "down"
  /\ ProcessEnds(n)
  /\ UNCHANGED <<etcdVars, claim, arenaVars, attached, events, th, crashes>>

DaemonStep(n) ==
  \/ InitGeneration(n) \/ ReconstructArenas(n) \/ StartServing(n)
  \/ RegisterPut(n) \/ RegisterDropIntent(n) \/ RegisterDropMark(n)
  \/ RegisterDropDeparted(n) \/ RunRevokesLease(n)
  \/ DrawArena(n) \/ RecordOwnership(n)
  \/ SelfFence(n) \/ LeaveList(n) \/ LeaveRelease(n) \/ LeaveAnnounce(n)
  \/ LeaveRevoke(n)

Fault(n) == LeaseExpires(n) \/ Stop(n) \/ Crash(n)

-----------------------------------------------------------------------------
(* The controllers: from a DELETE event or a sweep to fenceNode.           *)

SetThread(t, u) == th' = [th EXCEPT ![t] = u]
Goto(t, pc) == SetThread(t, [th[t] EXCEPT !.pc = pc])
Finish(t) == SetThread(t, IdleThread)

(* What a controller's reads leave alone: everything but the thread.       *)
readUnchanged == <<etcdVars, claim, arenaVars, attached, daemonVars, events, crashes>>

(* Controller.Run receives a DELETE event of the membership prefix.        *)
WatchEvent(t) ==
  /\ t \in Watchers /\ th[t].pc = "idle"
  /\ \E n \in Nodes :
       /\ events[t][n] > 0 /\ MayEngage(n)
       /\ events' = [events EXCEPT ![t][n] = @ - 1]
       /\ SetThread(t, [IdleThread EXCEPT !.pc = "departed", !.node = n])
  /\ UNCHANGED <<etcdVars, claim, arenaVars, attached, daemonVars, crashes>>

(* Controller.Run loses its place in the watch to a compaction and starts  *)
(* again from the current revision.                                        *)
WatchCompacted(t) ==
  /\ EtcdErrors /\ t \in Watchers
  /\ \E n \in Nodes : events[t][n] > 0
  /\ events' = [events EXCEPT ![t] = [n \in Nodes |-> 0]]
  /\ UNCHANGED <<etcdVars, claim, arenaVars, attached, daemonVars, th, crashes>>

(* Controller.reconcile, as it concerns one candidate: ListFenceIntents.   *)
SweepIntents(t, n) ==
  /\ t \in Sweepers /\ th[t].pc = "idle" /\ MayEngage(n)
  /\ SetThread(t, [IdleThread EXCEPT !.pc = "lists", !.node = n,
                                     !.owed = intent[n] # 0])
  /\ UNCHANGED readUnchanged

(* ListKnownNodes and ListFencedNodes.  gen: keys are never deleted, so    *)
(* reading them together with the marks loses no candidate.                *)
SweepMarks(t) ==
  /\ th[t].pc = "lists"
  /\ IF known[th[t].node] \/ th[t].owed
     THEN SetThread(t, [th[t] EXCEPT !.pc = "alive", !.fenced = marked[th[t].node]])
     ELSE Finish(t)
  /\ UNCHANGED readUnchanged

(* Mutant of SweepMember: the sweep only retries recorded intents.         *)
SweepRetriesOnly(t) ==
  /\ th[t].pc = "alive"
  /\ IF th[t].owed /\ ~member[th[t].node] THEN Goto(t, "claim") ELSE Finish(t)
  /\ UNCHANGED readUnchanged

(* The candidate's membership key, and the branches on it.                 *)
SweepMember(t) ==
  /\ th[t].pc = "alive"
  /\ LET s == th[t] IN
       CASE member[s.node] /\ s.owed -> Goto(t, "dropIntent")
         [] member[s.node] /\ ~s.owed /\ s.fenced -> Goto(t, "dropMark")
         [] member[s.node] /\ ~s.owed /\ ~s.fenced -> Finish(t)
         [] ~member[s.node] /\ s.owed -> Goto(t, "claim")
         [] ~member[s.node] /\ ~s.owed /\ s.fenced -> Finish(t)
         [] ~member[s.node] /\ ~s.owed /\ ~s.fenced -> Goto(t, "departed")
  /\ UNCHANGED readUnchanged

(* A candidate seen alive: its intent, then its mark, are dropped.         *)
SweepDropIntent(t) ==
  /\ th[t].pc = "dropIntent"
  /\ \/ intent' = [intent EXCEPT ![th[t].node] = 0]
     \/ EtcdErrors /\ UNCHANGED intent
  /\ IF th[t].fenced THEN Goto(t, "dropMark") ELSE Finish(t)
  /\ UNCHANGED <<member, gen, known, intents, marked, departed, claim,
                 arenaVars, attached, daemonVars, events, crashes>>

SweepDropMark(t) ==
  /\ th[t].pc = "dropMark"
  /\ \/ marked' = [marked EXCEPT ![th[t].node] = FALSE]
     \/ EtcdErrors /\ UNCHANGED marked
  /\ Finish(t)
  /\ UNCHANGED <<member, gen, known, intent, intents, departed, claim,
                 arenaVars, attached, daemonVars, events, crashes>>

(* Controller.departedCleanly: the marker, then the arena records; an      *)
(* unreadable one counts as a crash.                                       *)
ReadDeparted(t) ==
  /\ th[t].pc = "departed"
  /\ \/ Goto(t, IF departed[th[t].node] THEN "owns" ELSE "record")
     \/ EtcdErrors /\ Goto(t, "record")
  /\ UNCHANGED readUnchanged

ReadOwns(t) ==
  /\ th[t].pc = "owns"
  /\ \/ owned[th[t].node] = {} /\ Finish(t)
     \/ owned[th[t].node] # {} /\ Goto(t, "record")
     \/ EtcdErrors /\ Goto(t, "record")
  /\ UNCHANGED readUnchanged

(* Store.RecordFenceIntent: a put, which keeps the create-revision of an   *)
(* intent already there.  When it fails the watch goes on without one and  *)
(* the sweep gives up.                                                     *)
RecordFenceIntent(t) ==
  /\ th[t].pc = "record"
  /\ LET n == th[t].node IN
       \/ /\ intent[n] # 0
          /\ Goto(t, "claim")
          /\ UNCHANGED <<intent, intents>>
       \/ /\ intent[n] = 0 /\ intents[n] < MaxIntents
          /\ intents' = [intents EXCEPT ![n] = @ + 1]
          /\ intent' = [intent EXCEPT ![n] = intents[n] + 1]
          /\ Goto(t, "claim")
       \/ /\ EtcdErrors
          /\ IF t \in Watchers THEN Goto(t, "claim") ELSE Finish(t)
          /\ UNCHANGED <<intent, intents>>
  /\ UNCHANGED <<member, gen, known, marked, departed, claim, arenaVars,
                 attached, daemonVars, events, crashes>>

-----------------------------------------------------------------------------
(* The controllers: fenceNode.                                             *)

(* The states in which a thread has won the claim and not yet given it up. *)
HoldingStates == {"relist", "revision", "check1", "preempt", "report",
                  "check2", "getGen", "bump", "check3", "list", "free",
                  "mark", "clear", "release"}

(* Store.ClaimFence: a create-CAS; the loser leaves the fence to the winner. *)
ClaimFence(t) ==
  /\ th[t].pc = "claim"
  /\ IF claim[th[t].node] = None
     THEN /\ claim' = [claim EXCEPT ![th[t].node] = t]
          /\ Goto(t, IF t \in Sweepers THEN "relist" ELSE "revision")
     ELSE UNCHANGED claim /\ Finish(t)
  /\ UNCHANGED <<etcdVars, arenaVars, attached, daemonVars, events, crashes>>

(* The sweep lists the intents again, now under the claim.                 *)
RelistIntents(t) ==
  /\ th[t].pc = "relist"
  /\ Goto(t, IF intent[th[t].node] # 0 THEN "revision" ELSE "release")
  /\ UNCHANGED readUnchanged

(* Store.FenceIntentRevision: the incarnation this fence acts on.          *)
CaptureRevision(t) ==
  /\ th[t].pc = "revision"
  /\ SetThread(t, [th[t] EXCEPT !.pc = "check1", !.rev = intent[th[t].node]])
  /\ UNCHANGED readUnchanged

(* sameIncarnation: the intent still has the captured create-revision; or, *)
(* when there was no intent to capture, the node is not a member.          *)
SameIncarnation(t) ==
  IF th[t].rev = 0 THEN ~member[th[t].node]
                   ELSE intent[th[t].node] = th[t].rev

(* An unreadable intent ends the fence, an unreadable membership key does  *)
(* not.                                                                    *)
CheckPasses(t) == SameIncarnation(t) \/ (EtcdErrors /\ th[t].rev = 0)

CheckFails(t) == ~SameIncarnation(t) \/ (EtcdErrors /\ th[t].rev # 0)

(* Mutant of CheckBeforeSever: the device is not severed.                  *)
SkipTheDevice(t) ==
  /\ th[t].pc = "check1"
  /\ \/ CheckPasses(t) /\ Goto(t, "check2")
     \/ CheckFails(t) /\ Goto(t, "release")
  /\ UNCHANGED readUnchanged

CheckBeforeSever(t) ==
  /\ th[t].pc = "check1"
  /\ \/ CheckPasses(t) /\ Goto(t, IF DeviceFenced THEN "preempt" ELSE "check2")
     \/ CheckFails(t) /\ Goto(t, "release")
  /\ UNCHANGED readUnchanged

(* NVMeFencer.Fence: preempt the node's registration, then read it back.   *)
Preempt(t) ==
  /\ th[t].pc = "preempt"
  /\ attached' = [attached EXCEPT ![th[t].node] = FALSE]
  /\ Goto(t, "report")
  /\ UNCHANGED <<etcdVars, claim, arenaVars, daemonVars, events, crashes>>

ConfirmSevered(t) ==
  /\ th[t].pc = "report"
  /\ Goto(t, IF attached[th[t].node] THEN "release" ELSE "check2")
  /\ UNCHANGED readUnchanged

CheckBeforeBump(t) ==
  /\ th[t].pc = "check2"
  /\ \/ CheckPasses(t) /\ Goto(t, "getGen")
     \/ CheckFails(t) /\ Goto(t, "release")
  /\ UNCHANGED readUnchanged

(* Store.GetGeneration, then Store.BumpGeneration, a CAS on what was read. *)
GetGeneration(t) ==
  /\ th[t].pc = "getGen"
  /\ SetThread(t, [th[t] EXCEPT !.pc = "bump", !.gen = gen[th[t].node]])
  /\ UNCHANGED readUnchanged

BumpGeneration(t) ==
  /\ th[t].pc = "bump"
  /\ LET n == th[t].node IN
       IF gen[n] = th[t].gen
       THEN /\ gen' = [gen EXCEPT ![n] = @ + 1]
            /\ known' = [known EXCEPT ![n] = TRUE]
            /\ \/ Goto(t, IF DeviceFenced THEN "check3" ELSE "mark")
               \/ EtcdErrors /\ Goto(t, "release")
       ELSE UNCHANGED <<gen, known>> /\ Goto(t, "release")
  /\ UNCHANGED <<member, intent, intents, marked, departed, claim, arenaVars,
                 attached, daemonVars, events, crashes>>

CheckBeforeReclaim(t) ==
  /\ th[t].pc = "check3"
  /\ \/ CheckPasses(t) /\ Goto(t, "list")
     \/ CheckFails(t) /\ Goto(t, "mark")
  /\ UNCHANGED readUnchanged

(* Store.ReleaseArena: list the node's records, then one transaction each. *)
ListArenas(t) ==
  /\ th[t].pc = "list"
  /\ \/ SetThread(t, [th[t] EXCEPT !.pc = "free", !.todo = owned[th[t].node]])
     \/ EtcdErrors /\ Goto(t, "mark")
  /\ UNCHANGED readUnchanged

FreeArena(t) ==
  /\ th[t].pc = "free"
  /\ \/ th[t].todo = {} /\ Goto(t, "mark") /\ UNCHANGED arenaVars
     \/ \E a \in th[t].todo :
          /\ ReleaseArenaID(th[t].node, a)
          /\ \/ SetThread(t, [th[t] EXCEPT !.todo = @ \ {a}])
             \/ EtcdErrors /\ Goto(t, "mark")
     \/ EtcdErrors /\ Goto(t, "mark") /\ UNCHANGED arenaVars
  /\ UNCHANGED <<etcdVars, claim, attached, daemonVars, events, crashes>>

(* Store.MarkFenceComplete and Store.ClearFenceIntent: neither looks at    *)
(* the incarnation, neither failure stops the other.                       *)
MarkFenceComplete(t) ==
  /\ th[t].pc = "mark"
  /\ \/ marked' = [marked EXCEPT ![th[t].node] = TRUE]
     \/ EtcdErrors /\ UNCHANGED marked
  /\ SetThread(t, [th[t] EXCEPT !.pc = "clear", !.todo = {}])
  /\ UNCHANGED <<member, gen, known, intent, intents, departed, claim,
                 arenaVars, attached, daemonVars, events, crashes>>

ClearFenceIntent(t) ==
  /\ th[t].pc = "clear"
  /\ \/ intent' = [intent EXCEPT ![th[t].node] = 0]
     \/ EtcdErrors /\ UNCHANGED intent
  /\ Goto(t, "release")
  /\ UNCHANGED <<member, gen, known, intents, marked, departed, claim,
                 arenaVars, attached, daemonVars, events, crashes>>

(* The deferred Store.ReleaseFenceClaim: revoking the lease removes the    *)
(* key only if it is still this thread's.                                  *)
ReleaseClaim(t) ==
  /\ th[t].pc = "release"
  /\ LET n == th[t].node IN
       claim' = IF claim[n] = t THEN [claim EXCEPT ![n] = None] ELSE claim
  /\ Finish(t)
  /\ UNCHANGED <<etcdVars, arenaVars, attached, daemonVars, events, crashes>>

(* Any other failed request or command: reconcile moves on to its next     *)
(* candidate, fenceNode returns and releases its claim.                    *)
CallFails(t) ==
  /\ EtcdErrors
  /\ \/ th[t].pc \in {"lists", "alive", "claim"} /\ Finish(t)
     \/ /\ th[t].pc \in {"relist", "revision", "preempt", "report", "getGen", "bump"}
        /\ Goto(t, "release")
  /\ UNCHANGED readUnchanged

(* The controller's process dies; its restart watches from now on.         *)
ControllerCrash(t) ==
  /\ crashes < MaxCrashes /\ th[t].pc # "idle"
  /\ crashes' = crashes + 1
  /\ Finish(t)
  /\ events' = [w \in Watchers |-> IF w = t THEN [n \in Nodes |-> 0] ELSE events[w]]
  /\ UNCHANGED <<etcdVars, claim, arenaVars, attached, daemonVars>>

(* A claim's lease, never kept alive, runs out.                            *)
ClaimExpiry(n) ==
  /\ claim[n] # None
  /\ LET s == th[claim[n]] IN
       ClaimExpires \/ s.node # n \/ s.pc \notin HoldingStates
  /\ claim' = [claim EXCEPT ![n] = None]
  /\ UNCHANGED <<etcdVars, arenaVars, attached, daemonVars, events, th, crashes>>

(* What a thread does once it has taken up a node.                         *)
ThreadStep(t) ==
  \/ SweepMarks(t) \/ SweepMember(t) \/ SweepDropIntent(t) \/ SweepDropMark(t)
  \/ ReadDeparted(t) \/ ReadOwns(t) \/ RecordFenceIntent(t) \/ ClaimFence(t)
  \/ RelistIntents(t) \/ CaptureRevision(t) \/ CheckBeforeSever(t)
  \/ Preempt(t) \/ ConfirmSevered(t) \/ CheckBeforeBump(t)
  \/ GetGeneration(t) \/ BumpGeneration(t) \/ CheckBeforeReclaim(t)
  \/ ListArenas(t) \/ FreeArena(t) \/ MarkFenceComplete(t)
  \/ ClearFenceIntent(t) \/ ReleaseClaim(t)

Next ==
  \/ \E n \in Nodes : DaemonStep(n) \/ Fault(n) \/ ClaimExpiry(n)
  \/ \E t \in Threads :
       \/ WatchEvent(t) \/ WatchCompacted(t) \/ ThreadStep(t)
       \/ CallFails(t) \/ ControllerCrash(t)
       \/ \E n \in Nodes : SweepIntents(t, n)

Spec == Init /\ [][Next]_vars

(* What the program's scheduling gives: goroutines that can move do, a     *)
(* sweep comes to every candidate again and again, the lease of a dead     *)
(* process and of an abandoned claim runs out.  Starts, stops, crashes and *)
(* arena demand are nobody's obligation.                                   *)
Fairness ==
  /\ \A t \in Threads : WF_vars(ThreadStep(t)) /\ WF_vars(WatchEvent(t))
  /\ \A t \in Sweepers, n \in Nodes : SF_vars(SweepIntents(t, n))
  /\ \A n \in Nodes :
       /\ WF_vars(proc[n] = "down" /\ LeaseExpires(n))
       /\ WF_vars(ClaimExpiry(n))

FairSpec == Spec /\ Fairness

-----------------------------------------------------------------------------
(* Properties.                                                             *)

(* In the cluster's records an arena is in one place at most: unissued, in *)
(* the pool, drawn by one node, or owned by one node, whatever crashes,    *)
(* fences and departures interleave (Store.ReleaseArenaID,                 *)
(* Store.ClaimFreeArena, Allocator.recordOwnership).                       *)
OwnershipExclusive ==
  /\ pool \cap fresh = {}
  /\ \A n \in Nodes :
       /\ owned[n] \cap (pool \cup fresh) = {}
       /\ drawn[n] \notin pool \cup fresh
       /\ \A m \in Nodes :
            /\ drawn[n] \notin owned[m]
            /\ m # n => /\ owned[n] \cap owned[m] = {}
                        /\ drawn[n] # None => drawn[n] # drawn[m]

(* A node that can put bytes into an arena is the arena's recorded owner:  *)
(* the pool never holds, and no peer ever owns, a range somebody can still *)
(* write (Controller.fenceNode's order of severing, bumping and            *)
(* reclaiming; Membership.Leave after the IPC server has stopped).         *)
WriterOwnsArena == \A n \in Nodes, a \in Arenas : CanWrite(n, a) => a \in owned[n]

(* The states of a fence between the confirmation that the device rejects  *)
(* the node and the last release of its arenas.                            *)
SeveredStates == {"check2", "getGen", "bump", "check3", "list", "free"}

(* From the confirmed severing until its arenas are reclaimed a node stays *)
(* cut off; without a Fencer no arena is reclaimed at all                  *)
(* (Controller.fenceNode's "provably done with it").                       *)
SeveredUntilReclaimed ==
  \A t \in Threads :
    /\ DeviceFenced /\ th[t].pc \in SeveredStates => ~attached[th[t].node]
    /\ th[t].pc \in {"check3", "list", "free"} => DeviceFenced

(* What WriterOwnsArena rests on besides: a process that may come to write *)
(* lists only arenas it owns, and no fence of a node overlaps its start.   *)
HeldIsOwned ==
  \A n \in Nodes :
    proc[n] = "arenas" \/ (proc[n] \in {"serving", "stopping"} /\ attached[n])
      => held[n] \subseteq owned[n]

StartsAlone ==
  \A t \in Threads : QuietStarts /\ th[t].pc # "idle"
                       => proc[th[t].node] \notin {"gen", "arenas"}

FencingInv == SeveredUntilReclaimed /\ HeldIsOwned /\ StartsAlone

(* A process whose guard failed once never passes it again: generations    *)
(* only grow, and a process keeps the one it started with                  *)
(* (Store.BumpGeneration, Service.initGenerationLocked).                   *)
FencedStaysFenced ==
  [][\A n \in Nodes :
       proc[n] # "down" /\ proc'[n] # "down" /\ ~GuardPasses(n)
         => ~GuardPasses(n)']_vars

(* A member's device access is not severed: a node that has re-registered  *)
(* is not fenced on the strength of an expiry it has recovered from        *)
(* (Controller.reconcile's comment; fenceNode's check before severing).    *)
MemberNotSevered ==
  [][\A n \in Nodes : attached[n] /\ ~attached'[n] => ~member[n]]_vars

(* The space of a node that died comes back: its arenas do not stay        *)
(* recorded as its own while it is down, whether or not a watch event was  *)
(* seen for it (Controller.reconcile, Controller.fenceNode).               *)
DeadNodeReclaimed ==
  \A n \in Nodes : (proc[n] = "down" /\ owned[n] # {})
                     ~> (owned[n] = {} \/ proc[n] # "down")

=============================================================================
