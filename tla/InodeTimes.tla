----------------------------- MODULE InodeTimes -----------------------------
(* The timestamps one node owes the inode records (pkg/metadata/inodetimes.go) and
   the setattr handler that shares its queue (handlers.go).

   A directory that gains or loses an entry, and a setattr that changes nothing a
   peer enforces, leave an update in a queue.  A sweep, an fsync and the shutdown
   take updates out and commit them, all inodes in one transaction and then, when
   that is refused, one by one; a setattr that does change the mode takes the
   update of its inode and folds it into its own transaction.  Peers change the
   records at any time, under the same comparison with the revision they read.

   Here a transaction is refused when its inode is in the stale set of the step
   that read it, which every write of the record extends: no revision is counted.
   The clock stands still at its bound, as a coarse one does.

   Left out: the access time, which is assigned as the modification time is and
   never bumped; a ctime chosen by the caller; the size (InodeLock) and owner,
   which is treated as the mode is; more inodes than one transaction carries
   (timeBatchInodes); and write-behind being off. *)
EXTENDS Naturals, FiniteSetsExt

CONSTANTS
  Inodes,
  Flushes,       \* the sweep, and fsyncs that run beside it
  Sweep,         \* the one of them that takes every inode
  Setattrs,      \* setattr calls that run side by side
  Modes,
  None,
  CasAttempts,   \* attempts of a compare-and-set (retryCAS)
  SetattrRetries,
  Loads          \* the workloads to try, each with its bounds

ASSUME InodeTimesAssumption ==
  /\ Sweep \in Flushes /\ Modes # {}
  /\ Loads \subseteq
       [inodes : SUBSET Inodes,      \* inodes and callers in use
        busy : SUBSET Inodes,        \* inodes peers change
        flushes : SUBSET Flushes,
        setattrs : SUBSET Setattrs,
        clock : Nat \ {0},           \* bound: the clock
        calls : Nat,                 \* bound: setattrs and directory changes
        errors : Nat]                \* bound: failed calls to etcd
  /\ CasAttempts \in Nat \ {0} /\ SetattrRetries \in Nat

VARIABLES
  load,      \* the workload of this run
  now,       \* the clock, one for all nodes
  rec,       \* the inode records in etcd
  dirty,     \* dirTouch.dirty
  fl,        \* the running flushes
  sa,        \* the running setattr calls
  calls, errors,
  chmods,    \* ghost: the mode the last successful chmod of anyone gave each inode
  told,      \* ghost: the mtime this node last gave each inode, None once others have a say
  excused    \* ghost: inodes for which an update was lost or overtaken (see Excuses)

vars == <<load, now, rec, dirty, fl, sa, calls, errors, chmods, told, excused>>

Time == Nat
Record == [alive : BOOLEAN, mode : Modes, mtime : Time, ctime : Time]
Update == [bump : Time, set : SUBSET {"mtime", "ctime"}, mtime : Time, ctime : Time]
Ask == [mode : Modes \union {None}, mtime : Time]

NoUpdate == [bump |-> 0, set |-> {}, mtime |-> 0, ctime |-> 0]
NoFlush == [pc |-> "idle", due |-> [i \in Inodes |-> None], left |-> {}, failed |-> {},
            built |-> [i \in Inodes |-> None], stale |-> {}, one |-> None, tries |-> 0]
NoSetattr == [pc |-> "idle", ino |-> None, ask |-> None, base |-> None, taken |-> None,
              built |-> None, stale |-> FALSE, tries |-> 0, alone |-> TRUE]

TypeOK ==
  /\ load \in Loads /\ now \in Time /\ rec \in [Inodes -> Record]
  /\ dirty \in [Inodes -> Update \union {None}]
  /\ fl \in [Flushes -> [pc : {"idle", "read", "single", "end"},
                         due : [Inodes -> Update \union {None}], left : SUBSET Inodes,
                         failed : SUBSET Inodes, built : [Inodes -> Record \union {None}],
                         stale : SUBSET Inodes, one : Inodes \union {None},
                         tries : 0 .. CasAttempts]]
  /\ sa \in [Setattrs -> [pc : {"idle", "asked", "queue", "take", "read", "commit"},
                          ino : Inodes \union {None}, ask : Ask \union {None},
                          base : Record \union {None}, taken : Update \union {None},
                          built : Record \union {None}, stale : BOOLEAN, tries : 0 .. SetattrRetries,
                          alone : BOOLEAN]]
  /\ calls \in 0 .. load.calls /\ errors \in 0 .. load.errors
  /\ chmods \in [Inodes -> Modes] /\ told \in [Inodes -> Time \union {None}]
  /\ excused \subseteq Inodes

Init ==
  /\ load \in Loads /\ now = 1
  /\ chmods = [i \in Inodes |-> CHOOSE m \in Modes : TRUE]
  /\ rec = [i \in Inodes |-> [alive |-> TRUE, mode |-> chmods[i], mtime |-> 1, ctime |-> 1]]
  /\ dirty = [i \in Inodes |-> None]
  /\ fl = [f \in Flushes |-> NoFlush] /\ sa = [s \in Setattrs |-> NoSetattr]
  /\ calls = 0 /\ errors = 0
  /\ told = [i \in Inodes |-> None] /\ excused = {}

-----------------------------------------------------------------------------
(* timeUpdate. *)

\* mergeAssignment: the newer value of each named field, and no bump.
MergeAssignment(u, next) ==
  [bump |-> 0, set |-> u.set \union next.set,
   mtime |-> IF "mtime" \in next.set THEN next.mtime ELSE u.mtime,
   ctime |-> IF "ctime" \in next.set THEN next.ctime ELSE u.ctime]

\* apply: assignments first, ctime forward only, then the bump.
Assign(u, r) ==
  [r EXCEPT !.mtime = IF "mtime" \in u.set THEN u.mtime ELSE @,
            !.ctime = IF "ctime" \in u.set /\ @ < u.ctime THEN u.ctime ELSE @]
Apply(u, r) ==
  LET a == Assign(u, r) IN
  IF a.mtime < u.bump THEN [a EXCEPT !.mtime = u.bump, !.ctime = u.bump] ELSE a

\* queue, and QueueInodeTimes.
Queued(i) == IF dirty[i] = None THEN NoUpdate ELSE dirty[i]
Bumped(i, at) == [Queued(i) EXCEPT !.bump = Max({@, at})]

Requeued(u, newer) ==
  IF newer = None THEN u ELSE [MergeAssignment(u, newer) EXCEPT !.bump = newer.bump]

\* Excuses: a bump dropped for an assignment that does not set the mtime,
DropsBump(u, next) == u.bump # 0 /\ next.bump = 0 /\ next.set # {} /\ "mtime" \notin next.set
\* and an update taken while an older one of the same inode is still on its way.
OnItsWay(i) == (\E f \in Flushes : fl[f].due[i] # None)
               \/ (\E s \in Setattrs : sa[s].ino = i /\ sa[s].taken # None)

\* PendingInodeTimes: the record as this node answers a stat.
Pending(i, r) == IF dirty[i] = None THEN r ELSE Apply(dirty[i], r)

Tick == now' = Min({now + 1, load.clock})

\* A record is written: whoever has read it and not committed will be refused.
Built(f) == {i \in Inodes : fl[f].built[i] # None}
StaleFlush(f, is) == [fl[f] EXCEPT !.stale = @ \union (is \intersect Built(f))]
StaleSetattr(s, is) == [sa[s] EXCEPT !.stale = sa[s].pc = "commit" /\ (@ \/ sa[s].ino \in is)]
Overtaken(is) ==
  /\ fl' = [f \in Flushes |-> StaleFlush(f, is)]
  /\ sa' = [s \in Setattrs |-> StaleSetattr(s, is)]

\* This node gives inode i the mtime t.  Calls that overlap may end in any order.
Others(s, i) == {t \in Setattrs \ {s} : sa[t].ino = i}
Crowd(i) == [s \in Setattrs |-> [sa[s] EXCEPT !.alone = @ /\ sa[s].ino # i]]

-----------------------------------------------------------------------------
(* Directory changes of this node, and peers. *)

\* touchDir, after an entry of the directory has come or gone.
TouchDir(i) ==
  /\ calls < load.calls /\ calls' = calls + 1
  /\ Tick
  /\ dirty' = [dirty EXCEPT ![i] = Bumped(i, now')]
  /\ told' = [told EXCEPT ![i] = IF Others(None, i) = {} THEN now' ELSE None]
  /\ sa' = Crowd(i)
  /\ UNCHANGED <<load, rec, fl, errors, chmods, excused>>

\* A peer changes the mode, assigns a time, or removes the inode.
PeerChmod(i) ==
  /\ i \in load.busy /\ rec[i].alive
  /\ Tick
  /\ \E m \in Modes \ {rec[i].mode} :
        /\ rec' = [rec EXCEPT ![i].mode = m, ![i].ctime = now']
        /\ chmods' = [chmods EXCEPT ![i] = m]
  /\ Overtaken({i})
  /\ UNCHANGED <<load, dirty, calls, errors, told, excused>>

PeerUtimes(i) ==
  /\ i \in load.busy /\ rec[i].alive
  /\ Tick
  /\ rec' = [rec EXCEPT ![i].mtime = now', ![i].ctime = now']
  /\ told' = [told EXCEPT ![i] = None]
  /\ fl' = [f \in Flushes |-> StaleFlush(f, {i})]
  /\ sa' = [s \in Setattrs |-> [StaleSetattr(s, {i}) EXCEPT !.alone = @ /\ sa[s].ino # i]]
  /\ UNCHANGED <<load, dirty, calls, errors, chmods, excused>>

PeerRemove(i) ==
  /\ i \in load.busy /\ rec[i].alive
  /\ rec' = [rec EXCEPT ![i].alive = FALSE]
  /\ Overtaken({i})
  /\ UNCHANGED <<load, now, dirty, calls, errors, chmods, told, excused>>

-----------------------------------------------------------------------------
(* flush, commitInodeTimesBatch and commitInodeTimes. *)

Fails == errors < load.errors /\ errors' = errors + 1

\* The updates due are taken off the queue; an fsync names one inode.
FlushTake(f, is) ==
  /\ fl[f].pc = "idle" /\ is # {}
  /\ \A i \in is : dirty[i] # None
  /\ IF f = Sweep THEN is = {i \in Inodes : dirty[i] # None} ELSE Cardinality(is) = 1
  /\ fl' = [fl EXCEPT ![f] = [NoFlush EXCEPT !.pc = "read", !.left = is,
                               !.due = [i \in Inodes |-> IF i \in is THEN dirty[i] ELSE None]]]
  /\ dirty' = [i \in Inodes |-> IF i \in is THEN None ELSE dirty[i]]
  /\ excused' = excused \union {i \in is : OnItsWay(i)}
  /\ UNCHANGED <<load, now, rec, sa, calls, errors, chmods, told>>

\* One record of the batch is read; one that owes nothing is left out of it.
NewRecord(f, i) ==
  LET r == Apply(fl[f].due[i], rec[i]) IN IF rec[i].alive /\ r # rec[i] THEN r ELSE None
BatchRead(f, i) ==
  /\ fl[f].pc = "read" /\ i \in fl[f].left
  /\ \/ /\ fl' = [fl EXCEPT ![f].left = @ \ {i}, ![f].built[i] = NewRecord(f, i), ![f].stale = @ \ {i}]
        /\ UNCHANGED errors
     \/ Fails /\ fl' = [fl EXCEPT ![f].left = @ \ {i}, ![f].failed = @ \union {i}]
  /\ UNCHANGED <<load, now, rec, dirty, sa, calls, chmods, told, excused>>

FreshAlways(f, is) == TRUE
Fresh(f, is) == fl[f].stale \intersect is = {}

\* What a refused batch comes to: each inode is settled by itself.
AfterRefusalRequeue(g) == [g EXCEPT !.pc = "end", !.failed = {i \in Inodes : g.due[i] # None}]
AfterRefusal(g) ==
  [g EXCEPT !.pc = "single", !.left = {i \in Inodes : g.due[i] # None} \ g.failed,
            !.built = [i \in Inodes |-> None], !.stale = {}]

\* The records flush f built for some inodes are written, and others overtaken.
FlushWrites(f, is, next) ==
  /\ rec' = [i \in Inodes |-> IF i \in is THEN fl[f].built[i] ELSE rec[i]]
  /\ fl' = [g \in Flushes |-> IF g = f THEN next ELSE StaleFlush(g, is)]
  /\ sa' = [s \in Setattrs |-> StaleSetattr(s, is)]

BatchCommit(f) ==
  LET all == Built(f) IN
  /\ fl[f].pc = "read" /\ fl[f].left = {}
  /\ \/ Fresh(f, all) /\ FlushWrites(f, all, [fl[f] EXCEPT !.pc = "end"]) /\ UNCHANGED errors
     \/ ~Fresh(f, all) /\ FlushWrites(f, {}, AfterRefusal(fl[f])) /\ UNCHANGED errors
     \/ /\ all # {} /\ Fails
        /\ \E is \in {{}, all} :
             (is # {} => Fresh(f, all)) /\ FlushWrites(f, is, AfterRefusal(fl[f]))
  /\ UNCHANGED <<load, now, dirty, calls, chmods, told, excused>>

\* commitInodeTimes: read, then write under a comparison, again while that fails.
Settled(g, i) == [g EXCEPT !.left = @ \ {i}, !.built[i] = None, !.stale = {}, !.one = None, !.tries = 0]
GivenUp(g, i) == [Settled(g, i) EXCEPT !.failed = @ \union {i}]

SingleRead(f, i) ==
  LET r == NewRecord(f, i) IN
  /\ fl[f].pc = "single" /\ i \in fl[f].left /\ Built(f) = {}
  /\ fl[f].one \in {i, None}
  /\ \/ /\ fl' = [fl EXCEPT ![f] = IF r = None THEN Settled(@, i) ELSE [@ EXCEPT !.one = i, !.built[i] = r]]
        /\ UNCHANGED errors
     \/ Fails /\ fl' = [fl EXCEPT ![f] = GivenUp(@, i)]
  /\ UNCHANGED <<load, now, rec, dirty, sa, calls, chmods, told, excused>>

SingleCommit(f, i) ==
  /\ fl[f].pc = "single" /\ i \in Built(f)
  /\ \/ Fresh(f, {i}) /\ FlushWrites(f, {i}, Settled(fl[f], i)) /\ UNCHANGED errors
     \/ /\ ~Fresh(f, {i})
        /\ FlushWrites(f, {}, IF fl[f].tries + 1 = CasAttempts THEN GivenUp(fl[f], i)
                              ELSE [fl[f] EXCEPT !.built[i] = None, !.tries = @ + 1, !.stale = {}])
        /\ UNCHANGED errors
     \/ Fails /\ \E is \in {{}, {i}} :
                   (is # {} => Fresh(f, is)) /\ FlushWrites(f, is, GivenUp(fl[f], i))
  /\ UNCHANGED <<load, now, dirty, calls, chmods, told, excused>>

\* The updates that could not be published go back.
FlushEnd(f) ==
  /\ fl[f].pc = "end" \/ (fl[f].pc = "single" /\ fl[f].left = {})
  /\ dirty' = [i \in Inodes |-> IF i \in fl[f].failed THEN Requeued(fl[f].due[i], dirty[i]) ELSE dirty[i]]
  /\ excused' = excused \union {i \in fl[f].failed : dirty[i] # None /\ DropsBump(fl[f].due[i], dirty[i])}
  /\ fl' = [fl EXCEPT ![f] = NoFlush]
  /\ UNCHANGED <<load, now, rec, sa, calls, errors, chmods, told>>

-----------------------------------------------------------------------------
(* handleSetattr. *)

\* applySetattr: the fields asked for, and the status change owed to a mode.
SetFields(r, ask, at) ==
  [r EXCEPT !.mode = IF ask.mode # None THEN ask.mode ELSE @,
            !.mtime = IF ask.mtime # 0 THEN ask.mtime ELSE @,
            !.ctime = IF ask.mode # None THEN at ELSE @]

\* setattrEnforces.
Enforces(r, ask) == ask.mode # None /\ ask.mode # r.mode

\* The first read decides which way the call goes.
SetattrBegin(s, i, ask) ==
  /\ sa[s].pc = "idle" /\ calls < load.calls /\ rec[i].alive
  /\ calls' = calls + 1
  /\ sa' = [Crowd(i) EXCEPT ![s] = [NoSetattr EXCEPT !.ino = i, !.ask = ask, !.base = rec[i],
                               !.alone = Others(s, i) = {},
                               !.pc = IF Enforces(rec[i], ask) THEN "take" ELSE "asked"]]
  /\ UNCHANGED <<load, now, rec, dirty, fl, errors, chmods, told, excused>>

\* deferSetattrTimes: what this node believes of the record,
DeferBase(s) ==
  /\ sa[s].pc = "asked"
  /\ sa' = [sa EXCEPT ![s].pc = "queue", ![s].base = Pending(sa[s].ino, @)]
  /\ UNCHANGED <<load, now, rec, dirty, fl, calls, errors, chmods, told, excused>>

\* and the fields the call moves, which are queued.
Moved(old, new) ==
  [bump |-> 0,
   set |-> {x \in {"mtime"} : new.mtime # old.mtime} \union {x \in {"ctime"} : new.ctime # old.ctime},
   mtime |-> IF new.mtime # old.mtime THEN new.mtime ELSE 0,
   ctime |-> IF new.ctime # old.ctime THEN new.ctime ELSE 0]
\* A third excuse: the time asked for is taken for the one in the record, which an
\* update on its way is about to change, or has changed.
Mistaken(s, u) ==
  LET i == sa[s].ino IN
  /\ sa[s].ask.mtime # 0 /\ "mtime" \notin u.set
  /\ OnItsWay(i) \/ Pending(i, rec[i]).mtime # sa[s].ask.mtime
Told(s) ==
  [told EXCEPT ![sa[s].ino] = IF ~sa[s].alone THEN None
                              ELSE IF sa[s].ask.mtime # 0 THEN sa[s].ask.mtime ELSE @]
DeferQueue(s) ==
  LET i == sa[s].ino
      u == Moved(sa[s].base, SetFields(sa[s].base, sa[s].ask, now'))
  IN
  /\ sa[s].pc = "queue"
  /\ Tick
  /\ dirty' = IF u.set = {} THEN dirty ELSE [dirty EXCEPT ![i] = MergeAssignment(Queued(i), u)]
  /\ told' = Told(s)
  /\ excused' = excused \union {j \in {i} : DropsBump(Queued(i), u) \/ Mistaken(s, u)}
  /\ sa' = [sa EXCEPT ![s] = NoSetattr]
  /\ UNCHANGED <<load, rec, fl, calls, errors, chmods>>

\* The committing path: take what is queued for the inode,
SetattrTake(s) ==
  /\ sa[s].pc = "take"
  /\ sa' = [sa EXCEPT ![s].pc = "read", ![s].taken = dirty[sa[s].ino], ![s].base = None]
  /\ dirty' = [dirty EXCEPT ![sa[s].ino] = None]
  /\ excused' = excused \union {i \in {sa[s].ino} : OnItsWay(i)}
  /\ UNCHANGED <<load, now, rec, fl, calls, errors, chmods, told>>

\* RequeueInodeTimes.
GiveBack(s) ==
  LET i == sa[s].ino
      u == sa[s].taken
  IN
  /\ dirty' = IF u = None THEN dirty ELSE [dirty EXCEPT ![i] = Requeued(u, @)]
  /\ excused' = excused \union {j \in {i} : u # None /\ dirty[i] # None /\ DropsBump(u, dirty[i])}

\* read the record and build the new one, on top of what was taken,
SetattrRead(s) ==
  LET i == sa[s].ino IN
  /\ sa[s].pc = "read"
  /\ \/ /\ rec[i].alive
        /\ Tick
        /\ sa' = [sa EXCEPT ![s].pc = "commit", ![s].stale = FALSE, ![s].built =
                    SetFields(IF sa[s].taken = None THEN rec[i] ELSE Apply(sa[s].taken, rec[i]),
                              sa[s].ask, now')]
        /\ UNCHANGED <<dirty, errors, excused>>
     \/ /\ (~rec[i].alive /\ UNCHANGED errors) \/ Fails
        /\ GiveBack(s)
        /\ sa' = [sa EXCEPT ![s] = NoSetattr]
        /\ UNCHANGED now
  /\ UNCHANGED <<load, rec, fl, calls, chmods, told>>

\* commitSetattr: the record is written,
SetattrWrites(s) ==
  LET i == sa[s].ino IN
  /\ rec' = [rec EXCEPT ![i] = sa[s].built]
  /\ chmods' = [chmods EXCEPT ![i] = sa[s].built.mode]
  /\ fl' = [f \in Flushes |-> StaleFlush(f, {i})]
  /\ sa' = [t \in Setattrs |-> IF t = s THEN NoSetattr ELSE StaleSetattr(t, {i})]

SetattrCommit(s) ==
  /\ sa[s].pc = "commit" /\ ~sa[s].stale
  /\ SetattrWrites(s)
  /\ told' = Told(s)
  /\ UNCHANGED <<load, now, dirty, calls, errors, excused>>

\* or it has moved, and the call begins again with the update given back,
SetattrAgainOnceMore(s) ==
  /\ sa[s].pc = "commit" /\ sa[s].stale
  /\ GiveBack(s)
  /\ sa' = [sa EXCEPT ![s] = IF @.tries > SetattrRetries THEN NoSetattr
                             ELSE [sa[s] EXCEPT !.pc = "take", !.taken = None, !.built = None, !.tries = @ + 1]]
  /\ UNCHANGED <<load, now, rec, fl, calls, errors, chmods, told>>
SetattrAgain(s) ==
  /\ sa[s].pc = "commit" /\ sa[s].stale
  /\ GiveBack(s)
  /\ sa' = [sa EXCEPT ![s] = IF @.tries = SetattrRetries THEN NoSetattr
                             ELSE [sa[s] EXCEPT !.pc = "take", !.taken = None, !.built = None, !.tries = @ + 1]]
  /\ UNCHANGED <<load, now, rec, fl, calls, errors, chmods, told>>

\* or the transaction fails, and what was taken is not given back.
SetattrFails(s) ==
  LET i == sa[s].ino IN
  /\ sa[s].pc = "commit" /\ Fails
  /\ \/ ~sa[s].stale /\ SetattrWrites(s) /\ told' = [told EXCEPT ![i] = None]
     \/ /\ sa' = [sa EXCEPT ![s] = NoSetattr]
        /\ UNCHANGED <<rec, fl, chmods, told>>
  /\ excused' = IF sa[s].taken = None THEN excused ELSE excused \union {i}
  /\ UNCHANGED <<load, now, dirty, calls>>

-----------------------------------------------------------------------------
FlushStep(f) ==
  \/ \E i \in load.inodes : BatchRead(f, i) \/ SingleRead(f, i) \/ SingleCommit(f, i)
  \/ BatchCommit(f) \/ FlushEnd(f)

SetattrStep(s) ==
  \/ DeferBase(s) \/ DeferQueue(s) \/ SetattrTake(s) \/ SetattrRead(s)
  \/ SetattrCommit(s) \/ SetattrAgain(s) \/ SetattrFails(s)

\* A chmod, a utimes into the past or to the present, or both.
Asks == [mode : Modes \union {None}, mtime : {0, 1, now}] \ {[mode |-> None, mtime |-> 0]}

Next ==
  \/ \E i \in load.inodes : TouchDir(i) \/ PeerChmod(i) \/ PeerUtimes(i) \/ PeerRemove(i)
  \/ \E f \in load.flushes : FlushStep(f) \/ \E is \in SUBSET load.inodes : FlushTake(f, is)
  \/ \E s \in load.setattrs :
       SetattrStep(s) \/ \E i \in load.inodes, ask \in Asks : SetattrBegin(s, i, ask)

Spec == Init /\ [][Next]_vars

\* The sweep comes round every interval, and a flush or a call that runs goes on.
Fairness ==
  /\ WF_vars(\E is \in SUBSET Inodes : FlushTake(Sweep, is))
  /\ \A f \in Flushes : WF_vars(FlushStep(f))
  /\ \A s \in Setattrs : WF_vars(SetattrStep(s))
FairSpec == Spec /\ Fairness

-----------------------------------------------------------------------------
(* What deferring the timestamps must not change. *)

\* A timestamp is never published over a mode somebody else has set: the record
\* holds the mode of the last chmod that reached it (commitInodeTimes, commitSetattr).
ModeKept == \A i \in Inodes : rec[i].mode = chmods[i]

Owed(i) == dirty[i] # None \/ OnItsWay(i)
Quiet(i) == ~Owed(i) /\ \A s \in Setattrs : sa[s].ino # i


\* Queued times are published although a peer keeps rewriting another inode of the
\* same batch: "it must not become a way for one busy inode to starve the rest"
\* (commitInodeTimesBatch).
QueuedPublished ==
  \A i \in Inodes : (i \notin load.busy /\ Owed(i)) ~> ~Owed(i)

-----------------------------------------------------------------------------
(* Claims of the source that the code does not keep. *)

\* "The bump is a floor - it only ever moves a clock forward."
CtimeForward == [][\A i \in Inodes : rec'[i].ctime >= rec[i].ctime]_vars

=============================================================================
