---------------------------- MODULE DirentCache ----------------------------
(* The directory name sets of one node (direntcache.go) and the watch that keeps
   them up to date (watch.go).

   A set answers only that a name is absent.  It is filled by a range read after
   a lookup has missed, changed by this node's own mutations when they are
   acknowledged and by the dirent watch when an event is delivered, and dropped
   when the watch could not be resumed.  log is the history etcd keeps of the
   dirent keys, and an index into it a revision: events of one transaction are
   delivered one after the other, and the header revision of a response is that
   of its last event.

   Left out: the kernel's own dentries and their invalidation, and the size of a
   name.  The time to live of a set is a step that may come at any time. *)
EXTENDS Naturals, Sequences, FiniteSetsExt, SequencesExt

CONSTANTS
  Dirs, Names,
  None,
  Threads,       \* requests of this node that run side by side
  Loads          \* the workloads to try, each with its limits and its bounds

ASSUME DirentCacheAssumption ==
  Loads \subseteq
    [used : SUBSET Dirs,        \* directories and names touched, requests at a time
     names : SUBSET Names,
     threads : SUBSET Threads,
     maxDirs : Nat \ {0},       \* direntCacheMaxDirs
     maxDirNames : Nat,         \* direntCacheMaxDirNames
     maxNames : Nat,            \* direntCacheMaxNames
     events : Nat,              \* bound: changes of dirent keys
     ends : Nat,                \* bound: times the watch ends for no compaction
     compactions : BOOLEAN]

VARIABLES
  load,      \* the workload of this run
  log,       \* the dirent changes in etcd, oldest first
  gone,      \* revisions up to this one are compacted
  watch,     \* runWatch: open, resume, and pos, the next revision to deliver
  cache,     \* the direntCache
  req,       \* the running requests
  ends,      \* times the watch may still end
  excused    \* ghost: how a set was left behind for good, if one was

vars == <<load, log, gone, watch, cache, req, ends, excused>>

Event == [dir : Dirs, name : Names, put : BOOLEAN, own : BOOLEAN]
Set == [names : SUBSET Names, mine : SUBSET Names, big : BOOLEAN, fresh : BOOLEAN]
Request == [pc : {"idle", "found", "missed", "listing", "listed", "created", "deleted", "renamed"},
            dir : Dirs \union {None}, name : Names \union {None},
            into : Dirs \union {None}, to : Names \union {None}, list : SUBSET Names, old : BOOLEAN]

\* The names the sets of some directories hold.
Held(c, ds) == {p \in ds \X Names : c.sets[p[1]] # None /\ p[2] \in c.sets[p[1]].names}

TypeOK ==
  /\ load \in Loads
  /\ log \in Seq(Event) /\ Len(log) <= load.events /\ gone \in 0 .. Len(log)
  /\ watch \in [open : BOOLEAN, resume : Nat, pos : Nat]
  /\ cache \in [armed : BOOLEAN, sets : [Dirs -> Set \union {None}], order : Seq(Dirs),
                count : Nat, filling : [Dirs -> {"none", "clean", "dirty"}]]
  /\ cache.count = Cardinality(Held(cache, Dirs))
  /\ req \in [Threads -> Request]
  /\ ends \in 0 .. load.ends
  /\ excused \subseteq {"skipped", "crossed", "overtaken"}

-----------------------------------------------------------------------------
(* etcd. *)

Changes(d, x) == {i \in DOMAIN log : log[i].dir = d /\ log[i].name = x}
InEtcd(d, x) == Changes(d, x) # {} /\ log[Max(Changes(d, x))].put
ListDirents(d) == {x \in Names : InEtcd(d, x)}
Undelivered(d, x) == \E i \in Changes(d, x) : i >= watch.pos

Change(d, x, put, own) == [dir |-> d, name |-> x, put |-> put, own |-> own]

\* A mutation of a peer.
PeerChange(d, x) ==
  /\ Len(log) < load.events
  /\ log' = Append(log, Change(d, x, ~InEtcd(d, x), FALSE))
  /\ UNCHANGED <<load, gone, watch, cache, req, ends, excused>>

Compact(r) ==
  /\ load.compactions /\ r \in gone + 1 .. Len(log)
  /\ gone' = r
  /\ UNCHANGED <<load, log, watch, cache, req, ends, excused>>

-----------------------------------------------------------------------------
(* The cache: what each method makes of it. *)

Mutable(c, d) == c.sets[d] # None /\ ~c.sets[d].big

\* dropLocked, for several directories.
Drop(c, ds) ==
  [c EXCEPT !.sets = [d \in Dirs |-> IF d \in ds THEN None ELSE c.sets[d]],
            !.order = SelectSeq(c.order, LAMBDA d : d \notin ds),
            !.count = c.count - Cardinality(Held(c, ds))]

\* evictLocked: the least recently filled go until both caps hold.
Evict(c) ==
  LET Oldest(k) == Drop(c, Range(SubSeq(c.order, 1, k)))
      Holds(k) == Len(Oldest(k).order) <= load.maxDirs /\ Oldest(k).count <= load.maxNames
  IN IF Holds(0) THEN c
     ELSE Oldest(Min({k \in 1 .. Len(c.order) : Holds(k) \/ k = Len(c.order)}))

\* notedLocked: a change arrived while a fill is in flight.
NotedNever(c, d) == c
Noted(c, d) == [c EXCEPT !.filling[d] = IF @ = "none" THEN @ ELSE "dirty"]

WithName(c, d, x) ==
  [c EXCEPT !.sets[d].names = @ \union {x},
            !.count = IF x \in c.sets[d].names THEN @ ELSE @ + 1]
WithoutNameBlind(c, d, x) == [c EXCEPT !.sets[d].names = @ \ {x}, !.count = @ - 1]
WithoutName(c, d, x) ==
  [c EXCEPT !.sets[d].names = @ \ {x},
            !.count = IF x \in c.sets[d].names THEN @ - 1 ELSE @]

Created(c, d, x) ==
  LET n == Noted(c, d) IN
  IF Mutable(n, d) THEN [WithName(n, d, x) EXCEPT !.sets[d].mine = @ \union {x}] ELSE n

Deleted(c, d, x) ==
  LET n == Noted(c, d) IN
  IF Mutable(n, d) THEN [WithoutName(n, d, x) EXCEPT !.sets[d].mine = @ \ {x}] ELSE n

Observed(c, d, x, present) ==
  LET n == Noted(c, d) IN
  IF ~Mutable(n, d) THEN n
  ELSE IF present THEN [WithName(n, d, x) EXCEPT !.sets[d].mine = @ \ {x}]
  ELSE IF x \in n.sets[d].mine THEN n
  ELSE WithoutName(n, d, x)

\* reset: everything goes, and nothing is answered until the watch is back.
Reset(c) ==
  [armed |-> FALSE, sets |-> [d \in Dirs |-> None], order |-> <<>>, count |-> 0,
   filling |-> [d \in Dirs |-> "none"]]

\* absent, as an answer the cache would give now.
Absent(d, x) ==
  /\ cache.armed
  /\ Mutable(cache, d) /\ cache.sets[d].fresh
  /\ x \notin cache.sets[d].names

MayFill(d) ==
  /\ cache.armed /\ cache.filling[d] = "none"
  /\ cache.sets[d] # None => ~cache.sets[d].fresh

\* endFill after the claim is given back.
Install(c, d, list) ==
  LET dropped == Drop(c, {d})
      big == Cardinality(list) > load.maxDirNames
      set == [names |-> IF big THEN {} ELSE list, mine |-> {}, big |-> big, fresh |-> TRUE]
  IN Evict([dropped EXCEPT !.sets[d] = set, !.order = Append(@, d),
                           !.count = @ + Cardinality(set.names)])

EndFill(c, d, list) ==
  LET given == [c EXCEPT !.filling[d] = "none"] IN
  IF c.armed /\ c.filling[d] = "clean" THEN Install(given, d, list) ELSE given

\* The entry timeout passes for a set, and for all that were filled before it.
Expire(d) ==
  /\ cache.sets[d] # None /\ cache.sets[d].fresh
  /\ \A i \in DOMAIN cache.order :
       cache.order[i] = d \/ ~cache.sets[cache.order[i]].fresh
         \/ \E j \in 1 .. i : cache.order[j] = d
  /\ cache' = [cache EXCEPT !.sets[d].fresh = FALSE]
  /\ UNCHANGED <<load, log, gone, watch, req, ends, excused>>

-----------------------------------------------------------------------------
(* Requests of this node. *)

Idle == [pc |-> "idle", dir |-> None, name |-> None, into |-> None, to |-> None,
         list |-> {}, old |-> FALSE]
Done(t) == req' = [req EXCEPT ![t] = Idle]

\* handleLookup: a name the cache cannot call absent is read from etcd.
Lookup(t, d, x) ==
  /\ req[t].pc = "idle" /\ ~Absent(d, x)
  /\ req' = [req EXCEPT ![t].pc = IF InEtcd(d, x) THEN "found" ELSE "missed",
                        ![t].dir = d, ![t].name = x]
  /\ UNCHANGED <<load, log, gone, watch, cache, ends, excused>>

LookupFound(t) ==
  /\ req[t].pc = "found"
  /\ cache' = Observed(cache, req[t].dir, req[t].name, TRUE)
  /\ Done(t)
  /\ UNCHANGED <<load, log, gone, watch, ends, excused>>

\* prefetchDirents: claim the directory, read it, install what was read.
BeginFill(t) ==
  LET d == req[t].dir IN
  /\ req[t].pc = "missed"
  /\ \/ /\ MayFill(d)
        /\ cache' = [cache EXCEPT !.filling[d] = "clean"]
        /\ req' = [req EXCEPT ![t].pc = "listing"]
     \/ /\ ~MayFill(d)
        /\ Done(t)
        /\ UNCHANGED cache
  /\ UNCHANGED <<load, log, gone, watch, ends, excused>>

List(t) ==
  /\ req[t].pc = "listing"
  /\ req' = [req EXCEPT ![t].pc = "listed", ![t].list = ListDirents(req[t].dir)]
  /\ UNCHANGED <<load, log, gone, watch, cache, ends, excused>>

Abandoned(t) == [cache EXCEPT !.filling[req[t].dir] = "none"]

\* A fill that outlived a reset meets the claim of a later one, and gives it back.
Crossing(t) ==
  excused' = IF req[t].old /\ cache.filling[req[t].dir] # "none"
               THEN excused \union {"crossed"} ELSE excused

\* The range read fails.
AbandonFill(t) ==
  /\ req[t].pc = "listing"
  /\ cache' = Abandoned(t)
  /\ Crossing(t)
  /\ Done(t)
  /\ UNCHANGED <<load, log, gone, watch, ends>>

FinishFill(t) ==
  /\ req[t].pc = "listed"
  /\ cache' = EndFill(cache, req[t].dir, req[t].list)
  /\ Crossing(t)
  /\ Done(t)
  /\ UNCHANGED <<load, log, gone, watch, ends>>

\* The kernel holds a directory locked while it changes it, so this node has one
\* mutation of a directory at a time.
Mutating(d) == \E t \in Threads :
  d \in {req[t].dir, req[t].into} /\ req[t].pc \in {"created", "deleted", "renamed"}

\* The transactions of create, mkdir, mknod, symlink and link; of unlink and rmdir;
\* of rename.
Make(t, d, x) ==
  /\ req[t].pc = "idle" /\ ~Mutating(d)
  /\ ~InEtcd(d, x) /\ Len(log) < load.events
  /\ log' = Append(log, Change(d, x, TRUE, TRUE))
  /\ req' = [req EXCEPT ![t].pc = "created", ![t].into = d, ![t].to = x]
  /\ UNCHANGED <<load, gone, watch, cache, ends, excused>>

Unlink(t, d, x) ==
  /\ req[t].pc = "idle" /\ ~Mutating(d)
  /\ InEtcd(d, x) /\ Len(log) < load.events
  /\ log' = Append(log, Change(d, x, FALSE, TRUE))
  /\ req' = [req EXCEPT ![t].pc = "deleted", ![t].dir = d, ![t].name = x]
  /\ UNCHANGED <<load, gone, watch, cache, ends, excused>>

Rename(t, d, x, e, y) ==
  /\ req[t].pc = "idle" /\ ~Mutating(d) /\ ~Mutating(e)
  /\ <<d, x>> # <<e, y>> /\ InEtcd(d, x) /\ Len(log) + 1 < load.events
  /\ log' = log \o <<Change(d, x, FALSE, TRUE), Change(e, y, TRUE, TRUE)>>
  /\ req' = [req EXCEPT ![t].pc = "renamed", ![t].dir = d, ![t].name = x,
                        ![t].into = e, ![t].to = y]
  /\ UNCHANGED <<load, gone, watch, cache, ends, excused>>

\* The acknowledgement reaches the cache.  A peer may have made the name again
\* before, and the watch delivered that.
AckDeleted(t) ==
  LET d == req[t].dir  x == req[t].name IN
  /\ req[t].pc \in {"deleted", "renamed"}
  /\ cache' = Deleted(cache, d, x)
  /\ excused' = IF InEtcd(d, x) /\ ~Undelivered(d, x) THEN excused \union {"overtaken"} ELSE excused
  /\ IF req[t].pc = "renamed" THEN req' = [req EXCEPT ![t].pc = "created"] ELSE Done(t)
  /\ UNCHANGED <<load, log, gone, watch, ends>>

AckCreated(t) ==
  /\ req[t].pc = "created"
  /\ cache' = Created(cache, req[t].into, req[t].to)
  /\ Done(t)
  /\ UNCHANGED <<load, log, gone, watch, ends, excused>>

-----------------------------------------------------------------------------
(* The watch. *)

ResumePoint == IF watch.resume = 0 THEN Len(log) + 1 ELSE watch.resume

MayOpenOnce == ~watch.open /\ ~cache.armed
MayOpen == ~watch.open

\* runWatch opens the channel where it stopped, or at the current revision when
\* no response has been seen yet, and arms the cache.
OpenWatch ==
  /\ MayOpen
  /\ watch' = [watch EXCEPT !.open = TRUE, !.pos = ResumePoint]
  /\ cache' = [cache EXCEPT !.armed = TRUE]
  /\ excused' = IF cache.armed /\ watch.resume = 0 /\ watch.pos <= Len(log)
                  THEN excused \union {"skipped"} ELSE excused
  /\ UNCHANGED <<load, log, gone, req, ends>>

\* direntChanged, for the next event.
Deliver ==
  LET e == log[watch.pos] IN
  /\ watch.open /\ watch.pos \in gone + 1 .. Len(log)
  /\ cache' = Observed(cache, e.dir, e.name, e.put)
  /\ watch' = [watch EXCEPT !.pos = @ + 1, !.resume = watch.pos + 1]
  /\ UNCHANGED <<load, log, gone, req, ends, excused>>

\* etcd ends the watch.
EndWatch ==
  /\ watch.open /\ ends > 0
  /\ watch' = [watch EXCEPT !.open = FALSE]
  /\ ends' = ends - 1
  /\ UNCHANGED <<load, log, gone, cache, req, excused>>

\* The revision to deliver has been compacted: direntWatchGap.
WatchGap ==
  /\ watch.open /\ watch.pos <= gone
  /\ watch' = [watch EXCEPT !.open = FALSE, !.resume = 0]
  /\ cache' = Reset(cache)
  /\ req' = [t \in Threads |-> [req[t] EXCEPT !.old = req[t].pc \in {"listing", "listed"}]]
  /\ UNCHANGED <<load, log, gone, ends, excused>>

-----------------------------------------------------------------------------
Init ==
  /\ load \in Loads
  /\ log = <<>> /\ gone = 0
  /\ watch = [open |-> FALSE, resume |-> 0, pos |-> 0]
  /\ cache = Reset([armed |-> FALSE])
  /\ req = [t \in Threads |-> Idle]
  /\ ends = load.ends
  /\ excused = {}

Watching == OpenWatch \/ Deliver \/ WatchGap
Serving(t) ==
  \/ LookupFound(t) \/ BeginFill(t) \/ List(t) \/ AbandonFill(t) \/ FinishFill(t)
  \/ AckDeleted(t) \/ AckCreated(t)

Next ==
  \/ \E d \in load.used, x \in load.names :
       \/ PeerChange(d, x)
       \/ \E t \in load.threads : Lookup(t, d, x) \/ Make(t, d, x) \/ Unlink(t, d, x)
  \/ \E t \in load.threads, d, e \in load.used, x, y \in load.names : Rename(t, d, x, e, y)
  \/ \E t \in load.threads : Serving(t)
  \/ \E d \in load.used : Expire(d)
  \/ \E r \in 1 .. load.events : Compact(r)
  \/ Watching \/ EndWatch

Spec == Init /\ [][Next]_vars

\* The watch goroutine runs and etcd answers; requests that were started go on.
FairSpec == Spec /\ WF_vars(Watching) /\ \A t \in Threads : WF_vars(Serving(t))

-----------------------------------------------------------------------------
(* What the cache promises. *)

FalseAbsence(d, x) == Absent(d, x) /\ InEtcd(d, x)

\* No name that exists is called absent once its change has come through, unless
\* something happened that is not in excuses.
NeverLeftBehind(excuses) ==
  excused \subseteq excuses =>
    \A d \in Dirs, x \in Names : FalseAbsence(d, x) => Undelivered(d, x)

\* The node says that a name is not there while it is only as long as the change
\* that made it is still on its way through the watch: a fill that ran into a
\* change is not installed, an end of the watch loses nothing, a compaction empties
\* the cache.  Three interleavings the code does not handle are excused: a watch
\* that ends before its first event, a fill that straddles a reset and another
\* fill's claim, and an acknowledged removal that comes after a peer's new name.
AbsenceBehindWatch == NeverLeftBehind({})

\* The same without the first excuse: re-opened from the revision after the last
\* one delivered, a watch loses nothing at all (watch.go, lines 21 to 25).
ReopenLosesNothing == NeverLeftBehind({"skipped"})

\* The same without the second: a gap drops everything that describes a directory
\* as it was before (direntcache.go, lines 116 to 118).
GapDropsEverything == NeverLeftBehind({"crossed"})

\* No name that exists stays absent: again and again there is a moment when all the
\* absences the node would answer are true, because the watch catches up even if
\* no set ever expires.
NamesAppear ==
  []<>(excused # {} \/ \A d \in Dirs, x \in Names : ~FalseAbsence(d, x))
=============================================================================
