------------------------- MODULE DirentCacheProofs -------------------------
(* The directory name sets of a node are only ever behind the watch, for any
   directories, names, requests and workloads: a name that exists and that a set
   does not hold has a change the watch has still to deliver.

   The argument follows the list a fill reads.  It is complete when it is read;
   whatever is changed afterwards either has not come through the watch yet, or
   has marked the fill, which is then not installed.  What a set lacks stays behind
   the watch in the same way, because a delivered change is entered in the set.

   The order in which sets are evicted and the counter of names play no part: the
   proof lets an eviction drop any sets. *)
EXTENDS DirentCache, WellFoundedInduction, TLAPS

-----------------------------------------------------------------------------
(* The inductive invariant. *)

\* A direntCache, whatever its order and its counter are.
IsCache(c) ==
  /\ c = [armed |-> c.armed, sets |-> c.sets, order |-> c.order, count |-> c.count,
          filling |-> c.filling]
  /\ c.armed \in BOOLEAN
  /\ c.sets \in [Dirs -> Set \union {None}]
  /\ c.filling \in [Dirs -> {"none", "clean", "dirty"}]

\* A request that runs names what it works on.
Named(r) ==
  /\ r.pc \notin {"idle", "created"} => r.dir \in Dirs /\ r.name \in Names
  /\ r.pc \in {"created", "renamed"} => r.into \in Dirs /\ r.to \in Names

Types ==
  /\ load \in Loads /\ log \in Seq(Event) /\ gone \in Nat
  /\ watch \in [open : BOOLEAN, resume : Nat, pos : Nat]
  /\ IsCache(cache)
  /\ req \in [Threads -> Request]
  /\ \A t \in Threads : Named(req[t])

\* The watch is at most at the end of the log, and resumes where it stopped.
WatchOrder ==
  /\ watch.pos <= Len(log) + 1
  /\ watch.resume # 0 => watch.resume = watch.pos

\* If the name exists, the watch has still to deliver a change of it.
Behind(d, x) == InEtcd(d, x) => Undelivered(d, x)

\* A fill whose claim no reset has taken away.
Filler(t) == req[t].pc \in {"listing", "listed"} /\ ~req[t].old

SetsBehind ==
  \A d \in Dirs, x \in Names :
    Mutable(cache, d) /\ x \notin cache.sets[d].names => Behind(d, x)
ListsBehind ==
  \A t \in Threads, d \in Dirs, x \in Names :
    /\ Filler(t) /\ req[t].pc = "listed" /\ req[t].dir = d
    /\ cache.filling[d] = "clean" /\ x \notin req[t].list
    => Behind(d, x)
Claims == \A t \in Threads : Filler(t) => cache.filling[req[t].dir] # "none"
OneClaim ==
  \A t, u \in Threads : Filler(t) /\ Filler(u) /\ req[t].dir = req[u].dir => t = u
Unarmed ==
  ~cache.armed => \A d \in Dirs : cache.sets[d] = None /\ cache.filling[d] = "none"

\* What is known as long as none of the excused interleavings has happened.
Sure == SetsBehind /\ ListsBehind /\ Claims /\ OneClaim /\ Unarmed

SureInv == Types /\ WatchOrder /\ (excused = {} => Sure)

-----------------------------------------------------------------------------
(* The log. *)

\* A non-empty set of indices has a greatest one, which Max returns.
LEMMA MaxOfIndices ==
  ASSUME NEW n \in Nat, NEW S \in SUBSET (1 .. n), S # {}
  PROVE  Max(S) \in S /\ \A y \in S : y <= Max(S)
<1> DEFINE T == {n - y : y \in S}
<1>1. T \subseteq Nat /\ T # {}
  <2>1. \A y \in S : n - y \in Nat
    OBVIOUS
  <2>2. PICK y \in S : TRUE
    OBVIOUS
  <2> QED
    BY <2>1, <2>2
<1>2. PICK m \in T : \A y \in T : ~(<<y, m>> \in OpToRel(<, Nat))
  BY <1>1, NatLessThanWellFounded, WFMin, Zenon
<1>3. \A y \in T : ~(y < m)
  BY <1>1, <1>2 DEF OpToRel
<1>4. PICK x \in S : m = n - x
  BY <1>2
<1>5. \A y \in S : x >= y
  BY <1>3, <1>4
<1> QED
  BY <1>5 DEF Max

\* Changes are added at the end.
LEMMA Appended ==
  ASSUME log \in Seq(Event), NEW e \in Event, log' = Append(log, e)
  PROVE  /\ log' \in Seq(Event) /\ Len(log') >= Len(log)
         /\ \A i \in 1 .. Len(log) : log'[i] = log[i]
OBVIOUS

LEMMA Concatenated ==
  ASSUME log \in Seq(Event), NEW tail \in Seq(Event), log' = log \o tail
  PROVE  /\ log' \in Seq(Event) /\ Len(log') >= Len(log)
         /\ \A i \in 1 .. Len(log) : log'[i] = log[i]
OBVIOUS

\* A log that has grown: a name exists as it did before, or its change is new.
LEMMA GrownLog ==
  ASSUME Types, WatchOrder, UNCHANGED watch, log' \in Seq(Event), Len(log') >= Len(log),
         \A i \in 1 .. Len(log) : log'[i] = log[i]
  PROVE  /\ WatchOrder'
         /\ \A d \in Dirs, x \in Names : Behind(d, x) => Behind(d, x)'
<1> USE DEF Types
<1>1. WatchOrder'
  BY DEF WatchOrder
<1>2. ASSUME NEW d \in Dirs, NEW x \in Names, Behind(d, x), InEtcd(d, x)'
      PROVE  Undelivered(d, x)'
  <2>1. /\ Changes(d, x) \in SUBSET (1 .. Len(log))
        /\ Changes(d, x)' \in SUBSET (1 .. Len(log'))
        /\ Changes(d, x) = Changes(d, x)' \intersect (1 .. Len(log))
    BY DEF Changes
  <2>2. CASE Changes(d, x)' = Changes(d, x)
    <3>1. Changes(d, x) # {} /\ Len(log) \in Nat
      BY <1>2, <2>2 DEF InEtcd
    <3>2. Max(Changes(d, x)) \in Changes(d, x)
      BY <2>1, <3>1, MaxOfIndices
    <3>3. log'[Max(Changes(d, x))] = log[Max(Changes(d, x))]
      BY <2>1, <3>2
    <3>4. InEtcd(d, x)
      BY <1>2, <2>2, <3>1, <3>3 DEF InEtcd
    <3> QED
      BY <1>2, <2>2, <3>4 DEF Behind, Undelivered
  <2>3. CASE Changes(d, x)' # Changes(d, x)
    <3>1. PICK i \in Changes(d, x)' : i \notin 1 .. Len(log)
      BY <2>1, <2>3
    <3>2. i \in Nat /\ i > Len(log)
      BY <2>1, <3>1
    <3>3. i >= watch'.pos
      BY <3>2 DEF WatchOrder
    <3> QED
      BY <3>3 DEF Undelivered
  <2> QED
    BY <2>2, <2>3
<1> QED
  BY <1>1, <1>2 DEF Behind

\* An event that is delivered leaves every other name as far behind as it was, and
\* its own too unless it is what made the name.
LEMMA Delivered ==
  ASSUME Types, WatchOrder, UNCHANGED log, watch.pos \in 1 .. Len(log),
         watch'.pos = watch.pos + 1, NEW d \in Dirs, NEW x \in Names
  PROVE  IF log[watch.pos].dir = d /\ log[watch.pos].name = x
           THEN log[watch.pos].put \/ Behind(d, x)'
           ELSE Behind(d, x) => Behind(d, x)'
<1> USE DEF Types
<1>1. /\ Changes(d, x) \in SUBSET (1 .. Len(log)) /\ Changes(d, x)' = Changes(d, x)
      /\ InEtcd(d, x)' = InEtcd(d, x)
  BY DEF Changes, InEtcd
<1>2. CASE log[watch.pos].dir = d /\ log[watch.pos].name = x
  <2>1. watch.pos \in Changes(d, x)
    BY <1>2 DEF Changes
  <2>2. /\ Max(Changes(d, x)) \in Changes(d, x)
        /\ watch.pos <= Max(Changes(d, x))
    <3>1. Len(log) \in Nat /\ Changes(d, x) # {}
      BY <2>1
    <3> QED
      BY <1>1, <2>1, <3>1, MaxOfIndices
  <2>3. SUFFICES ASSUME ~log[watch.pos].put, InEtcd(d, x)
                 PROVE  Undelivered(d, x)'
    BY <1>1, <1>2 DEF Behind
  <2>4. Max(Changes(d, x)) # watch.pos
    BY <2>3 DEF InEtcd
  <2> QED
    BY <1>1, <2>2, <2>4 DEF Undelivered
<1>3. CASE ~(log[watch.pos].dir = d /\ log[watch.pos].name = x)
  <2>1. watch.pos \notin Changes(d, x)
    BY <1>3 DEF Changes
  <2>2. Undelivered(d, x) => Undelivered(d, x)'
    BY <1>1, <2>1 DEF Undelivered
  <2> QED
    BY <1>1, <1>3, <2>2 DEF Behind
<1> QED
  BY <1>2, <1>3

-----------------------------------------------------------------------------
(* What the methods make of the cache. *)

\* n is c after a change of name x in directory d was entered.
Touched(c, n, d, x) ==
  /\ IsCache(n) /\ n.armed = c.armed
  /\ n.filling = [c.filling EXCEPT ![d] = IF @ = "none" THEN @ ELSE "dirty"]
  /\ \A e \in Dirs \ {d} : n.sets[e] = c.sets[e]
  /\ c.sets[d] = None => n.sets[d] = None
  /\ Mutable(n, d) => Mutable(c, d) /\ c.sets[d].names \ {x} \subseteq n.sets[d].names

\* n is c after some sets were dropped.
Dropped(c, n) ==
  /\ IsCache(n) /\ n.armed = c.armed /\ n.filling = c.filling
  /\ \A d \in Dirs : n.sets[d] \in {None, c.sets[d]}

LEMMA NotedTouches ==
  ASSUME NEW c, IsCache(c), NEW d \in Dirs
  PROVE  /\ IsCache(Noted(c, d))
         /\ Noted(c, d).armed = c.armed /\ Noted(c, d).sets = c.sets
         /\ Noted(c, d).filling = [c.filling EXCEPT ![d] = IF @ = "none" THEN @ ELSE "dirty"]
<1> DEFINE f == [c.filling EXCEPT ![d] = IF @ = "none" THEN @ ELSE "dirty"]
<1>1. Noted(c, d) = [armed |-> c.armed, sets |-> c.sets, order |-> c.order,
                     count |-> c.count, filling |-> f]
  BY DEF Noted, IsCache
<1>2. f \in [Dirs -> {"none", "clean", "dirty"}]
  BY DEF IsCache
<1> HIDE DEF f
<1> QED
  BY <1>1, <1>2 DEF IsCache, f

\* n is c with another set of directory d, of these names and as big.
Replaced(c, n, d, names) ==
  /\ IsCache(n) /\ n.armed = c.armed /\ n.filling = c.filling
  /\ \A e \in Dirs \ {d} : n.sets[e] = c.sets[e]
  /\ n.sets[d] \in Set /\ n.sets[d].names = names /\ n.sets[d].big = c.sets[d].big

LEMMA SetReplaced ==
  ASSUME NEW c, IsCache(c), NEW d \in Dirs, NEW s \in Set, NEW k, s.big = c.sets[d].big
  PROVE  Replaced(c, [armed |-> c.armed, sets |-> [c.sets EXCEPT ![d] = s],
                      order |-> c.order, count |-> k, filling |-> c.filling], d, s.names)
<1> DEFINE f == [c.sets EXCEPT ![d] = s]
<1>1. /\ f \in [Dirs -> Set \union {None}]
      /\ f[d] = s /\ \A e \in Dirs \ {d} : f[e] = c.sets[e]
  BY DEF IsCache
<1> HIDE DEF f
<1>2. Replaced(c, [armed |-> c.armed, sets |-> f, order |-> c.order, count |-> k,
                   filling |-> c.filling], d, s.names)
  BY <1>1 DEF IsCache, Replaced
<1> QED
  BY <1>2 DEF f

LEMMA MutableSet ==
  ASSUME NEW c, IsCache(c), NEW d \in Dirs, Mutable(c, d)
  PROVE  c.sets[d] \in Set
BY DEF IsCache, Mutable

LEMMA NamesReplaced ==
  ASSUME NEW c, IsCache(c), NEW d \in Dirs, c.sets[d] \in Set,
         NEW names \in SUBSET Names, NEW k
  PROVE  Replaced(c, [c EXCEPT !.sets[d].names = names, !.count = k], d, names)
<1> DEFINE s == [c.sets[d] EXCEPT !.names = names]
           a == c.armed  f == c.sets  o == c.order  q == c.count  g == c.filling
<1>1. s \in Set /\ s.names = names /\ s.big = c.sets[d].big
  BY DEF Set
<1>2. c = [armed |-> a, sets |-> f, order |-> o, count |-> q, filling |-> g]
  BY DEF IsCache
<1>3. Replaced(c, [armed |-> a, sets |-> [f EXCEPT ![d] = s], order |-> o, count |-> k,
                   filling |-> g], d, s.names)
  BY <1>1, SetReplaced
<1> HIDE DEF a, f, o, q, g
<1>4. [c EXCEPT !.sets[d].names = names, !.count = k]
        = [armed |-> a, sets |-> [f EXCEPT ![d].names = names], order |-> o, count |-> k,
           filling |-> g]
  <2> DEFINE l == [armed |-> a, sets |-> [f EXCEPT ![d].names = names], order |-> o, count |-> q,
                   filling |-> g]
  <2>1. [c EXCEPT !.sets[d].names = names] = l
    BY <1>2
  <2>2. [l EXCEPT !.count = k]
          = [armed |-> a, sets |-> [f EXCEPT ![d].names = names], order |-> o, count |-> k,
             filling |-> g]
    OBVIOUS
  <2> HIDE DEF l
  <2> QED
    BY <2>1, <2>2, Zenon
<1>5. [f EXCEPT ![d].names = names] = [f EXCEPT ![d] = s]
  BY DEF f
<1> QED
  BY <1>1, <1>3, <1>4, <1>5, Zenon

LEMMA MineReplaced ==
  ASSUME NEW c, IsCache(c), NEW d \in Dirs, c.sets[d] \in Set, NEW mine \in SUBSET Names
  PROVE  Replaced(c, [c EXCEPT !.sets[d].mine = mine], d, c.sets[d].names)
<1> DEFINE s == [c.sets[d] EXCEPT !.mine = mine]
           a == c.armed  f == c.sets  o == c.order  q == c.count  g == c.filling
<1>1. s \in Set /\ s.names = c.sets[d].names /\ s.big = c.sets[d].big
  BY DEF Set
<1>2. c = [armed |-> a, sets |-> f, order |-> o, count |-> q, filling |-> g]
  BY DEF IsCache
<1>3. Replaced(c, [armed |-> a, sets |-> [f EXCEPT ![d] = s], order |-> o, count |-> q,
                   filling |-> g], d, s.names)
  BY <1>1, SetReplaced
<1> HIDE DEF a, f, o, q, g
<1>4. [c EXCEPT !.sets[d].mine = mine]
        = [armed |-> a, sets |-> [f EXCEPT ![d].mine = mine], order |-> o, count |-> q,
           filling |-> g]
  BY <1>2
<1>5. [f EXCEPT ![d].mine = mine] = [f EXCEPT ![d] = s]
  BY DEF f
<1> QED
  BY <1>1, <1>3, <1>4, <1>5, Zenon

LEMMA FreshReplaced ==
  ASSUME NEW c, IsCache(c), NEW d \in Dirs, c.sets[d] \in Set, NEW b \in BOOLEAN
  PROVE  Replaced(c, [c EXCEPT !.sets[d].fresh = b], d, c.sets[d].names)
<1> DEFINE s == [c.sets[d] EXCEPT !.fresh = b]
           a == c.armed  f == c.sets  o == c.order  q == c.count  g == c.filling
<1>1. s \in Set /\ s.names = c.sets[d].names /\ s.big = c.sets[d].big
  BY DEF Set
<1>2. c = [armed |-> a, sets |-> f, order |-> o, count |-> q, filling |-> g]
  BY DEF IsCache
<1>3. Replaced(c, [armed |-> a, sets |-> [f EXCEPT ![d] = s], order |-> o, count |-> q,
                   filling |-> g], d, s.names)
  BY <1>1, SetReplaced
<1> HIDE DEF a, f, o, q, g
<1>4. [c EXCEPT !.sets[d].fresh = b]
        = [armed |-> a, sets |-> [f EXCEPT ![d].fresh = b], order |-> o, count |-> q,
           filling |-> g]
  BY <1>2
<1>5. [f EXCEPT ![d].fresh = b] = [f EXCEPT ![d] = s]
  BY DEF f
<1> QED
  BY <1>1, <1>3, <1>4, <1>5, Zenon

LEMMA WithNameGives ==
  ASSUME NEW c, IsCache(c), NEW d \in Dirs, c.sets[d] \in Set, NEW x \in Names
  PROVE  /\ Replaced(c, WithName(c, d, x), d, c.sets[d].names \union {x})
         /\ Replaced(c, WithoutName(c, d, x), d, c.sets[d].names \ {x})
<1>1. /\ c.sets[d].names \union {x} \in SUBSET Names
      /\ c.sets[d].names \ {x} \in SUBSET Names
  BY DEF Set
<1> QED
  BY <1>1, NamesReplaced, Zenon DEF WithName, WithoutName

\* A replaced set, after the notice, is a change entered.
LEMMA ReplacedTouches ==
  ASSUME NEW c, IsCache(c), NEW d \in Dirs, NEW x, NEW n, NEW names,
         Replaced(Noted(c, d), n, d, names), Mutable(Noted(c, d), d),
         c.sets[d].names \ {x} \subseteq names
  PROVE  Touched(c, n, d, x) /\ n.sets[d].names = names
BY NotedTouches DEF Replaced, Touched, Mutable

\* created, deleted and observed.
LEMMA CreatedTouches ==
  ASSUME NEW c, IsCache(c), NEW d \in Dirs, NEW x \in Names
  PROVE  /\ Touched(c, Created(c, d, x), d, x)
         /\ Mutable(Created(c, d, x), d) => x \in Created(c, d, x).sets[d].names
<1> DEFINE n == Noted(c, d)
           w == WithName(n, d, x)
           m == w.sets[d].mine \union {x}
<1>1. /\ IsCache(n) /\ n.armed = c.armed /\ n.sets = c.sets
      /\ n.filling = [c.filling EXCEPT ![d] = IF @ = "none" THEN @ ELSE "dirty"]
  BY NotedTouches
<1>2. CASE ~Mutable(n, d)
  <2>1. Created(c, d, x) = n
    BY <1>2 DEF Created
  <2> HIDE DEF n
  <2> QED
    BY <1>1, <1>2, <2>1 DEF Touched, Mutable
<1>3. CASE Mutable(n, d)
  <2>1. Created(c, d, x) = [w EXCEPT !.sets[d].mine = m]
    BY <1>3, Zenon DEF Created
  <2>2. Replaced(n, w, d, n.sets[d].names \union {x})
    BY <1>1, <1>3, MutableSet, WithNameGives
  <2>3. IsCache(w) /\ w.sets[d] \in Set /\ m \in SUBSET Names
    BY <2>2 DEF Replaced, Set
  <2> HIDE DEF w, m, n
  <2>4. Replaced(w, Created(c, d, x), d, w.sets[d].names)
    BY <2>1, <2>3, MineReplaced
  <2>5. Replaced(n, Created(c, d, x), d, n.sets[d].names \union {x})
    BY <2>2, <2>4 DEF Replaced
  <2> QED
    BY <1>1, <1>3, <2>5, ReplacedTouches DEF n
<1> QED
  BY <1>2, <1>3

LEMMA DeletedTouches ==
  ASSUME NEW c, IsCache(c), NEW d \in Dirs, NEW x \in Names
  PROVE  Touched(c, Deleted(c, d, x), d, x)
<1> DEFINE n == Noted(c, d)
           w == WithoutName(n, d, x)
           m == w.sets[d].mine \ {x}
<1>1. /\ IsCache(n) /\ n.armed = c.armed /\ n.sets = c.sets
      /\ n.filling = [c.filling EXCEPT ![d] = IF @ = "none" THEN @ ELSE "dirty"]
  BY NotedTouches
<1>2. CASE ~Mutable(n, d)
  <2>1. Deleted(c, d, x) = n
    BY <1>2 DEF Deleted
  <2> HIDE DEF n
  <2> QED
    BY <1>1, <1>2, <2>1 DEF Touched, Mutable
<1>3. CASE Mutable(n, d)
  <2>1. Deleted(c, d, x) = [w EXCEPT !.sets[d].mine = m]
    BY <1>3, Zenon DEF Deleted
  <2>2. Replaced(n, w, d, n.sets[d].names \ {x})
    BY <1>1, <1>3, MutableSet, WithNameGives
  <2>3. IsCache(w) /\ w.sets[d] \in Set /\ m \in SUBSET Names
    BY <2>2 DEF Replaced, Set
  <2> HIDE DEF w, m, n
  <2>4. Replaced(w, Deleted(c, d, x), d, w.sets[d].names)
    BY <2>1, <2>3, MineReplaced
  <2>5. Replaced(n, Deleted(c, d, x), d, n.sets[d].names \ {x})
    BY <2>2, <2>4 DEF Replaced
  <2> QED
    BY <1>1, <1>3, <2>5, ReplacedTouches DEF n
<1> QED
  BY <1>2, <1>3

LEMMA ObservedTouches ==
  ASSUME NEW c, IsCache(c), NEW d \in Dirs, NEW x \in Names, NEW b \in BOOLEAN
  PROVE  /\ Touched(c, Observed(c, d, x, b), d, x)
         /\ b /\ Mutable(Observed(c, d, x, b), d) => x \in Observed(c, d, x, b).sets[d].names
<1> DEFINE n == Noted(c, d)
           o == Observed(c, d, x, b)
           w == WithName(n, d, x)
           m == w.sets[d].mine \ {x}
<1>1. /\ IsCache(n) /\ n.armed = c.armed /\ n.sets = c.sets
      /\ n.filling = [c.filling EXCEPT ![d] = IF @ = "none" THEN @ ELSE "dirty"]
  BY NotedTouches
<1>2. CASE ~Mutable(n, d) \/ (~b /\ x \in n.sets[d].mine)
  <2>1. o = n
    BY <1>2, Zenon DEF Observed
  <2> HIDE DEF n, o
  <2>2. Touched(c, o, d, x) /\ (b /\ Mutable(o, d) => x \in o.sets[d].names)
    BY <1>1, <1>2, <2>1 DEF Touched, Mutable
  <2> QED
    BY <2>2 DEF o
<1>3. CASE Mutable(n, d) /\ b
  <2>1. o = [w EXCEPT !.sets[d].mine = m]
    BY <1>3, Zenon DEF Observed
  <2>2. Replaced(n, w, d, n.sets[d].names \union {x})
    BY <1>1, <1>3, MutableSet, WithNameGives
  <2>3. IsCache(w) /\ w.sets[d] \in Set /\ m \in SUBSET Names
    BY <2>2 DEF Replaced, Set
  <2> HIDE DEF w, m, n, o
  <2>4. Replaced(w, o, d, w.sets[d].names)
    BY <2>1, <2>3, MineReplaced
  <2>5. Replaced(n, o, d, n.sets[d].names \union {x})
    BY <2>2, <2>4 DEF Replaced
  <2>6. Touched(c, o, d, x) /\ o.sets[d].names = n.sets[d].names \union {x}
    BY <1>1, <1>3, <2>5, ReplacedTouches DEF n
  <2> QED
    BY <2>6 DEF o
<1>4. CASE Mutable(n, d) /\ ~b /\ x \notin n.sets[d].mine
  <2>1. o = WithoutName(n, d, x)
    BY <1>4, Zenon DEF Observed
  <2>2. Replaced(n, o, d, n.sets[d].names \ {x})
    <3>1. n.sets[d] \in Set
      BY <1>1, <1>4, MutableSet
    <3>2. Replaced(n, WithoutName(n, d, x), d, n.sets[d].names \ {x})
      BY <1>1, <3>1, WithNameGives
    <3> QED
      BY <2>1, <3>2, Zenon
  <2> HIDE DEF n, o
  <2>3. Touched(c, o, d, x)
    BY <1>1, <1>4, <2>2, ReplacedTouches DEF n
  <2> QED
    BY <1>4, <2>3 DEF o
<1> QED
  BY <1>2, <1>3, <1>4

\* dropLocked and evictLocked.
LEMMA DropDrops ==
  ASSUME NEW c, IsCache(c), NEW ds
  PROVE  Dropped(c, Drop(c, ds)) /\ \A d \in Dirs \intersect ds : Drop(c, ds).sets[d] = None
<1> DEFINE o == SelectSeq(c.order, LAMBDA d : d \notin ds)
           k == c.count - Cardinality(Held(c, ds))
           f == [d \in Dirs |-> IF d \in ds THEN None ELSE c.sets[d]]
<1>1. Drop(c, ds) = [c EXCEPT !.sets = f, !.order = o, !.count = k]
  BY DEF Drop
<1> HIDE DEF o, k
<1>2. f \in [Dirs -> Set \union {None}] /\ \A d \in Dirs : f[d] = IF d \in ds THEN None ELSE c.sets[d]
  BY DEF IsCache
<1> HIDE DEF f
<1>3. Drop(c, ds) = [armed |-> c.armed, sets |-> f, order |-> o, count |-> k,
                     filling |-> c.filling]
  BY <1>1 DEF IsCache
<1> QED
  BY <1>2, <1>3 DEF IsCache, Dropped

LEMMA EvictDrops ==
  ASSUME NEW c, IsCache(c)
  PROVE  Dropped(c, Evict(c))
<1>1. Evict(c) = c \/ \E ds : Evict(c) = Drop(c, ds)
  BY Zenon DEF Evict
<1>2. Dropped(c, c)
  BY DEF Dropped
<1> QED
  BY <1>1, <1>2, DropDrops

\* endFill, when it installs the list: no other set has come, and a set of the
\* directory that is not too big holds the list.
LEMMA InstallGives ==
  ASSUME NEW c, IsCache(c), NEW d \in Dirs, NEW list \in SUBSET Names
  PROVE  LET n == Install(c, d, list) IN
         /\ IsCache(n) /\ n.armed = c.armed /\ n.filling = c.filling
         /\ \A e \in Dirs \ {d} : n.sets[e] \in {None, c.sets[e]}
         /\ Mutable(n, d) => n.sets[d].names = list
<1> DEFINE p == Drop(c, {d})
           big == Cardinality(list) > load.maxDirNames
           s == [names |-> IF big THEN {} ELSE list, mine |-> {}, big |-> big, fresh |-> TRUE]
           k == p.count + Cardinality(s.names)
           o == Append(p.order, d)
           q == [p EXCEPT !.sets[d] = s, !.order = o, !.count = k]
           a == p.armed  f == p.sets  h == p.order  z == p.count  g == p.filling
<1>1. Dropped(c, p)
  BY DropDrops
<1>2. Install(c, d, list) = Evict(q)
  BY Zenon DEF Install
<1>3. big \in BOOLEAN
  OBVIOUS
<1> HIDE DEF p, big
<1>4. s \in Set /\ (~s.big => s.names = list)
  BY <1>3 DEF Set
<1>5. IsCache(p) /\ p.armed = c.armed /\ p.filling = c.filling
      /\ \A e \in Dirs : p.sets[e] \in {None, c.sets[e]}
  BY <1>1 DEF Dropped
<1>6. p = [armed |-> a, sets |-> f, order |-> h, count |-> z, filling |-> g]
  BY <1>5 DEF IsCache
<1> HIDE DEF s, k, o, a, f, h, z, g
<1>7. q = [armed |-> a, sets |-> [f EXCEPT ![d] = s], order |-> o, count |-> k, filling |-> g]
  <2> DEFINE e == [f EXCEPT ![d] = s]
             l == [armed |-> a, sets |-> e, order |-> h, count |-> z, filling |-> g]
             m == [armed |-> a, sets |-> e, order |-> o, count |-> z, filling |-> g]
  <2>1. [p EXCEPT !.sets[d] = s] = l
    BY <1>6
  <2>2. [l EXCEPT !.order = o] = m
    OBVIOUS
  <2>3. [m EXCEPT !.count = k]
          = [armed |-> a, sets |-> e, order |-> o, count |-> k, filling |-> g]
    OBVIOUS
  <2> HIDE DEF l, m, e
  <2> QED
    BY <2>1, <2>2, <2>3, Zenon DEF e
<1>8. /\ [f EXCEPT ![d] = s] \in [Dirs -> Set \union {None}]
      /\ [f EXCEPT ![d] = s][d] = s
      /\ \A e \in Dirs \ {d} : [f EXCEPT ![d] = s][e] \in {None, c.sets[e]}
  BY <1>4, <1>5 DEF IsCache, f
<1>9. a \in BOOLEAN /\ a = c.armed /\ g \in [Dirs -> {"none", "clean", "dirty"}] /\ g = c.filling
  BY <1>5 DEF IsCache, a, g
<1> HIDE DEF q
<1>10. /\ IsCache(q) /\ q.armed = c.armed /\ q.filling = c.filling
       /\ q.sets[d] = s /\ \A e \in Dirs \ {d} : q.sets[e] \in {None, c.sets[e]}
  BY <1>7, <1>8, <1>9 DEF IsCache
<1>11. Dropped(q, Evict(q))
  BY <1>10, EvictDrops
<1> QED
  BY <1>2, <1>4, <1>10, <1>11 DEF Dropped, Mutable

-----------------------------------------------------------------------------
(* Steps that make the cache no surer. *)

\* The fills that are running ran before, and for the same directory and list.
FillersKept ==
  \A u \in Threads : Filler(u)' =>
    /\ Filler(u) /\ req'[u].dir = req[u].dir /\ req'[u].list = req[u].list
    /\ req'[u].pc = "listed" => req[u].pc = "listed"

\* But for the pairs P, the cache calls no name absent that it did not, and a fill
\* is no cleaner; a fill of a directory in P is not clean.
Weaker(P) ==
  /\ cache'.armed = cache.armed
  /\ \A e \in Dirs : cache.sets[e] = None => cache'.sets[e] = None
  /\ \A e \in Dirs : cache'.filling[e] = "none" <=> cache.filling[e] = "none"
  /\ \A e \in Dirs : cache'.filling[e] = "clean" =>
       cache.filling[e] = "clean" /\ \A y \in Names : <<e, y>> \notin P
  /\ \A e \in Dirs : Mutable(cache', e) =>
       /\ Mutable(cache, e)
       /\ \A y \in Names : y \in cache.sets[e].names /\ <<e, y>> \notin P =>
                             y \in cache'.sets[e].names

LEMMA WeakerKeeps ==
  ASSUME Types, Types', Sure, NEW P, Weaker(P), FillersKept,
         \A e \in Dirs, y \in Names : <<e, y>> \notin P /\ Behind(e, y) => Behind(e, y)',
         \A e \in Dirs, y \in Names :
           <<e, y>> \in P /\ Mutable(cache', e) /\ y \notin cache'.sets[e].names => Behind(e, y)'
  PROVE  Sure'
<1>1. SetsBehind'
  <2> SUFFICES ASSUME NEW d \in Dirs, NEW x \in Names,
                      Mutable(cache', d), x \notin cache'.sets[d].names
               PROVE  Behind(d, x)'
    BY DEF SetsBehind
  <2>1. CASE <<d, x>> \in P
    BY <2>1
  <2>2. CASE <<d, x>> \notin P
    <3>1. Mutable(cache, d) /\ x \notin cache.sets[d].names
      BY <2>2 DEF Weaker
    <3> QED
      BY <2>2, <3>1 DEF Sure, SetsBehind
  <2> QED
    BY <2>1, <2>2
<1>2. ASSUME NEW t \in Threads, Filler(t)'
      PROVE  req'[t].dir \in Dirs /\ req[t].dir = req'[t].dir
  BY <1>2 DEF Types, Named, Filler, FillersKept
<1>3. ListsBehind'
  <2> SUFFICES ASSUME NEW t \in Threads, NEW d \in Dirs, NEW x \in Names,
                      Filler(t)', req'[t].pc = "listed", req'[t].dir = d,
                      cache'.filling[d] = "clean", x \notin req'[t].list
               PROVE  Behind(d, x)'
    BY DEF ListsBehind
  <2>1. Filler(t) /\ req[t].dir = d /\ req[t].pc = "listed" /\ x \notin req[t].list
    BY DEF FillersKept
  <2>2. cache.filling[d] = "clean" /\ <<d, x>> \notin P
    BY DEF Weaker
  <2>3. Behind(d, x)
    BY <2>1, <2>2 DEF Sure, ListsBehind
  <2> QED
    BY <2>2, <2>3
<1>4. Claims'
  BY <1>2 DEF Sure, Claims, Weaker, FillersKept
<1>5. OneClaim'
  BY DEF Sure, OneClaim, FillersKept
<1>6. Unarmed'
  BY DEF Sure, Unarmed, Weaker
<1> QED
  BY <1>1, <1>3, <1>4, <1>5, <1>6 DEF Sure

\* A cache that stays as it is.
LEMMA SameCache ==
  ASSUME Types, UNCHANGED cache
  PROVE  Weaker({})
BY DEF Weaker

\* A change entered in the cache is weaker but for its name.
LEMMA TouchedWeaker ==
  ASSUME Types, NEW d \in Dirs, NEW x \in Names, Touched(cache, cache', d, x)
  PROVE  Weaker({<<d, x>>}) /\ IsCache(cache')
<1>1. \A e \in Dirs, y \in Names : <<e, y>> \in {<<d, x>>} <=> e = d /\ y = x
  OBVIOUS
<1>2. \A e \in Dirs : cache'.filling[e] = IF e = d /\ cache.filling[e] # "none"
                                            THEN "dirty" ELSE cache.filling[e]
  BY DEF Touched, Types, IsCache
<1> QED
  BY <1>1, <1>2 DEF Weaker, Touched, Mutable

\* A request that is no fill takes a step.
LEMMA RequestMoves ==
  ASSUME Types, NEW t \in Threads, NEW r \in Request, Named(r),
         r.pc \notin {"listing", "listed"}, req' = [req EXCEPT ![t] = r]
  PROVE  /\ req' \in [Threads -> Request] /\ \A u \in Threads : Named(req'[u])
         /\ FillersKept
<1>1. \A u \in Threads : req'[u] = IF u = t THEN r ELSE req[u]
  BY DEF Types
<1> QED
  BY <1>1 DEF Types, FillersKept, Filler

LEMMA RequestEnds ==
  ASSUME Types, NEW t \in Threads, Done(t)
  PROVE  /\ req' \in [Threads -> Request] /\ \A u \in Threads : Named(req'[u])
         /\ FillersKept
<1>1. Idle \in Request /\ Named(Idle) /\ Idle.pc = "idle"
  BY DEF Idle, Request, Named
<1> QED
  BY <1>1, RequestMoves DEF Done

LEMMA RequestsStay ==
  ASSUME Types, UNCHANGED req
  PROVE  /\ req' \in [Threads -> Request] /\ \A u \in Threads : Named(req'[u])
         /\ FillersKept
BY DEF Types, FillersKept, Filler

-----------------------------------------------------------------------------
(* Mutations of this node and of peers. *)

LEMMA LogGrows ==
  ASSUME SureInv, log' \in Seq(Event), Len(log') >= Len(log),
         \A i \in 1 .. Len(log) : log'[i] = log[i],
         UNCHANGED <<load, gone, watch, cache, excused>>,
         req' \in [Threads -> Request], \A u \in Threads : Named(req'[u]), FillersKept
  PROVE  SureInv'
<1>2. Types'
  BY DEF SureInv, Types
<1>3. WatchOrder' /\ \A d \in Dirs, x \in Names : Behind(d, x) => Behind(d, x)'
  BY GrownLog DEF SureInv
<1>4. ASSUME Sure PROVE Sure'
  BY <1>2, <1>3, <1>4, SameCache, WeakerKeeps DEF SureInv
<1> QED
  BY <1>2, <1>3, <1>4 DEF SureInv

LEMMA PeerChangeKeeps ==
  ASSUME SureInv, NEW d \in Dirs, NEW x \in Names, PeerChange(d, x)
  PROVE  SureInv'
<1>1. InEtcd(d, x) \in BOOLEAN
  BY DEF InEtcd
<1>2. Change(d, x, ~InEtcd(d, x), FALSE) \in Event
  BY <1>1 DEF Change, Event
<1>3. /\ log' \in Seq(Event) /\ Len(log') >= Len(log)
      /\ \A i \in 1 .. Len(log) : log'[i] = log[i]
  BY <1>2, Appended DEF PeerChange, SureInv, Types
<1> QED
  BY <1>3, LogGrows, RequestsStay DEF PeerChange, SureInv

LEMMA MakeKeeps ==
  ASSUME SureInv, NEW t \in Threads, NEW d \in Dirs, NEW x \in Names, Make(t, d, x)
  PROVE  SureInv'
<1> DEFINE r == [req[t] EXCEPT !.pc = "created", !.into = d, !.to = x]
<1>1. Change(d, x, TRUE, TRUE) \in Event
  BY DEF Change, Event
<1>2. /\ log' \in Seq(Event) /\ Len(log') >= Len(log)
      /\ \A i \in 1 .. Len(log) : log'[i] = log[i]
  BY <1>1, Appended DEF Make, SureInv, Types
<1>3. r \in Request /\ Named(r) /\ r.pc = "created" /\ req' = [req EXCEPT ![t] = r]
  <2>1. req[t] \in Request /\ req \in [Threads -> Request] /\ Named(req[t]) /\ req[t].pc = "idle"
    BY DEF Make, SureInv, Types
  <2>2. req' = [req EXCEPT ![t] = r]
    BY <2>1 DEF Make
  <2>3. r \in Request /\ r.pc = "created" /\ r.into = d /\ r.to = x
    BY <2>1 DEF Request
  <2> HIDE DEF r
  <2> QED
    BY <2>2, <2>3 DEF Named
<1> QED
  BY <1>2, <1>3, LogGrows, RequestMoves DEF Make, SureInv

LEMMA UnlinkKeeps ==
  ASSUME SureInv, NEW t \in Threads, NEW d \in Dirs, NEW x \in Names, Unlink(t, d, x)
  PROVE  SureInv'
<1> DEFINE r == [req[t] EXCEPT !.pc = "deleted", !.dir = d, !.name = x]
<1>1. Change(d, x, FALSE, TRUE) \in Event
  BY DEF Change, Event
<1>2. /\ log' \in Seq(Event) /\ Len(log') >= Len(log)
      /\ \A i \in 1 .. Len(log) : log'[i] = log[i]
  BY <1>1, Appended DEF Unlink, SureInv, Types
<1>3. r \in Request /\ Named(r) /\ r.pc = "deleted" /\ req' = [req EXCEPT ![t] = r]
  <2>1. req[t] \in Request /\ req \in [Threads -> Request] /\ Named(req[t]) /\ req[t].pc = "idle"
    BY DEF Unlink, SureInv, Types
  <2>2. req' = [req EXCEPT ![t] = r]
    BY <2>1 DEF Unlink
  <2>3. r \in Request /\ r.pc = "deleted" /\ r.dir = d /\ r.name = x
    BY <2>1 DEF Request
  <2> HIDE DEF r
  <2> QED
    BY <2>2, <2>3 DEF Named
<1> QED
  BY <1>2, <1>3, LogGrows, RequestMoves DEF Unlink, SureInv

LEMMA RenameKeeps ==
  ASSUME SureInv, NEW t \in Threads, NEW d \in Dirs, NEW e \in Dirs, NEW x \in Names,
         NEW y \in Names, Rename(t, d, x, e, y)
  PROVE  SureInv'
<1> DEFINE r == [req[t] EXCEPT !.pc = "renamed", !.dir = d, !.name = x, !.into = e, !.to = y]
<1>1. /\ log' \in Seq(Event) /\ Len(log') >= Len(log)
      /\ \A i \in 1 .. Len(log) : log'[i] = log[i]
  <2>1. <<Change(d, x, FALSE, TRUE), Change(e, y, TRUE, TRUE)>> \in Seq(Event)
    BY DEF Change, Event
  <2> QED
    BY <2>1, Concatenated DEF Rename, SureInv, Types
<1>2. r \in Request /\ Named(r) /\ r.pc = "renamed" /\ req' = [req EXCEPT ![t] = r]
  <2>1. req[t] \in Request /\ req \in [Threads -> Request] /\ Named(req[t]) /\ req[t].pc = "idle"
    BY DEF Rename, SureInv, Types
  <2>2. req' = [req EXCEPT ![t] = r]
    BY <2>1 DEF Rename
  <2>3. r \in Request /\ r.pc = "renamed" /\ r.dir = d /\ r.name = x /\ r.into = e /\ r.to = y
    BY <2>1 DEF Request
  <2> HIDE DEF r
  <2> QED
    BY <2>2, <2>3 DEF Named
<1> QED
  BY <1>1, <1>2, LogGrows, RequestMoves DEF Rename, SureInv

-----------------------------------------------------------------------------
(* Steps of the requests. *)

LEMMA SameLog ==
  ASSUME UNCHANGED <<log, watch>>
  PROVE  \A d \in Dirs, x \in Names : Behind(d, x)' = Behind(d, x)
BY DEF Behind, InEtcd, Undelivered, Changes

LEMMA LookupKeeps ==
  ASSUME SureInv, NEW t \in Threads, NEW d \in Dirs, NEW x \in Names, Lookup(t, d, x)
  PROVE  SureInv'
<1> DEFINE a == IF InEtcd(d, x) THEN "found" ELSE "missed"
           r == [req[t] EXCEPT !.pc = a, !.dir = d, !.name = x]
<1>1. req' = [req EXCEPT ![t] = r]
  BY DEF Lookup, SureInv, Types, Request
<1>2. a \in {"found", "missed"}
  OBVIOUS
<1> HIDE DEF a
<1>3. r \in Request /\ Named(r) /\ r.pc \notin {"listing", "listed"}
  <2>1. req[t] \in Request
    BY DEF SureInv, Types
  <2>2. r \in Request /\ r.pc = a /\ r.dir = d /\ r.name = x
    BY <1>2, <2>1 DEF Request
  <2> HIDE DEF r
  <2> QED
    BY <1>2, <2>2 DEF Named
<1> HIDE DEF r
<1>4. /\ log' \in Seq(Event) /\ Len(log') >= Len(log)
      /\ \A i \in 1 .. Len(log) : log'[i] = log[i]
  BY DEF Lookup, SureInv, Types
<1> QED
  BY <1>1, <1>3, <1>4, LogGrows, RequestMoves DEF Lookup, SureInv

LEMMA LookupFoundKeeps ==
  ASSUME SureInv, NEW t \in Threads, LookupFound(t)
  PROVE  SureInv'
<1> DEFINE d == req[t].dir  x == req[t].name
<1>1. d \in Dirs /\ x \in Names
  BY DEF LookupFound, SureInv, Types, Named
<1> HIDE DEF d, x
<1>2. /\ Touched(cache, cache', d, x) /\ (Mutable(cache', d) => x \in cache'.sets[d].names)
  BY <1>1, ObservedTouches DEF LookupFound, SureInv, Types, d, x
<1>3. Weaker({<<d, x>>}) /\ IsCache(cache')
  BY <1>1, <1>2, TouchedWeaker DEF SureInv
<1>4. Types' /\ FillersKept
  BY <1>3, RequestEnds DEF LookupFound, SureInv, Types
<1>5. WatchOrder'
  BY DEF LookupFound, SureInv, WatchOrder
<1>6. ASSUME Sure PROVE Sure'
  <2>1. \A e \in Dirs, y \in Names : Behind(e, y) => Behind(e, y)'
    BY SameLog DEF LookupFound
  <2>2. \A e \in Dirs, y \in Names : <<e, y>> \in {<<d, x>>} => e = d /\ y = x
    OBVIOUS
  <2> QED
    BY <1>2, <1>3, <1>4, <1>6, <2>1, <2>2, WeakerKeeps DEF SureInv
<1> QED
  BY <1>4, <1>5, <1>6 DEF LookupFound, SureInv

LEMMA AckCreatedKeeps ==
  ASSUME SureInv, NEW t \in Threads, AckCreated(t)
  PROVE  SureInv'
<1> DEFINE d == req[t].into  x == req[t].to
<1>1. d \in Dirs /\ x \in Names
  BY DEF AckCreated, SureInv, Types, Named
<1> HIDE DEF d, x
<1>2. /\ Touched(cache, cache', d, x) /\ (Mutable(cache', d) => x \in cache'.sets[d].names)
  BY <1>1, CreatedTouches DEF AckCreated, SureInv, Types, d, x
<1>3. Weaker({<<d, x>>}) /\ IsCache(cache')
  BY <1>1, <1>2, TouchedWeaker DEF SureInv
<1>4. Types' /\ FillersKept
  BY <1>3, RequestEnds DEF AckCreated, SureInv, Types
<1>5. WatchOrder'
  BY DEF AckCreated, SureInv, WatchOrder
<1>6. ASSUME Sure PROVE Sure'
  <2>1. \A e \in Dirs, y \in Names : Behind(e, y) => Behind(e, y)'
    BY SameLog DEF AckCreated
  <2>2. \A e \in Dirs, y \in Names : <<e, y>> \in {<<d, x>>} => e = d /\ y = x
    OBVIOUS
  <2> QED
    BY <1>2, <1>3, <1>4, <1>6, <2>1, <2>2, WeakerKeeps DEF SureInv
<1> QED
  BY <1>4, <1>5, <1>6 DEF AckCreated, SureInv

\* An acknowledged removal: the name is not there, or a change of it is still to
\* come, or the step is excused.
LEMMA AckDeletedKeeps ==
  ASSUME SureInv, NEW t \in Threads, AckDeleted(t)
  PROVE  SureInv'
<1> DEFINE d == req[t].dir  x == req[t].name
<1>1. d \in Dirs /\ x \in Names
  BY DEF AckDeleted, SureInv, Types, Named
<1>2. IF Behind(d, x) THEN excused' = excused ELSE excused' # {}
  BY DEF AckDeleted, Behind
<1> HIDE DEF d, x
<1>3. Touched(cache, cache', d, x)
  BY <1>1, DeletedTouches DEF AckDeleted, SureInv, Types, d, x
<1>4. Weaker({<<d, x>>}) /\ IsCache(cache')
  BY <1>1, <1>3, TouchedWeaker DEF SureInv
<1>5. /\ req' \in [Threads -> Request] /\ \A u \in Threads : Named(req'[u])
      /\ FillersKept
  <2>1. CASE req[t].pc = "renamed"
    <3> DEFINE r == [req[t] EXCEPT !.pc = "created"]
    <3>1. r \in Request /\ Named(r) /\ r.pc = "created" /\ req' = [req EXCEPT ![t] = r]
      BY <2>1 DEF AckDeleted, SureInv, Types, Request, Named
    <3> QED
      BY <3>1, RequestMoves DEF SureInv
  <2>2. CASE req[t].pc # "renamed"
    BY <2>2, RequestEnds DEF AckDeleted, SureInv
  <2> QED
    BY <2>1, <2>2
<1>6. Types'
  BY <1>4, <1>5 DEF AckDeleted, SureInv, Types
<1>7. WatchOrder'
  BY DEF AckDeleted, SureInv, WatchOrder
<1>8. ASSUME Sure, Behind(d, x) PROVE Sure'
  <2>1. \A e \in Dirs, y \in Names : Behind(e, y) => Behind(e, y)'
    BY SameLog DEF AckDeleted
  <2>2. \A e \in Dirs, y \in Names : <<e, y>> \in {<<d, x>>} => e = d /\ y = x
    OBVIOUS
  <2> QED
    BY <1>1, <1>4, <1>5, <1>6, <1>8, <2>1, <2>2, WeakerKeeps DEF SureInv
<1> QED
  BY <1>2, <1>6, <1>7, <1>8 DEF SureInv

-----------------------------------------------------------------------------
(* Steps of a fill. *)

\* A claim is taken or given back.
LEMMA ClaimChanged ==
  ASSUME NEW c, IsCache(c), NEW d \in Dirs, NEW f \in {"none", "clean", "dirty"}
  PROVE  LET n == [c EXCEPT !.filling[d] = f] IN
         /\ IsCache(n) /\ n.armed = c.armed /\ n.sets = c.sets
         /\ \A e \in Dirs : n.filling[e] = IF e = d THEN f ELSE c.filling[e]
<1> DEFINE g == [c.filling EXCEPT ![d] = f]
           n == [c EXCEPT !.filling[d] = f]
<1>1. n = [armed |-> c.armed, sets |-> c.sets, order |-> c.order, count |-> c.count,
           filling |-> g]
  BY DEF IsCache
<1>2. /\ g \in [Dirs -> {"none", "clean", "dirty"}]
      /\ \A e \in Dirs : g[e] = IF e = d THEN f ELSE c.filling[e]
  BY DEF IsCache
<1> HIDE DEF n, g
<1>3. /\ IsCache(n) /\ n.armed = c.armed /\ n.sets = c.sets
      /\ \A e \in Dirs : n.filling[e] = IF e = d THEN f ELSE c.filling[e]
  BY <1>1, <1>2 DEF IsCache
<1> QED
  BY <1>3 DEF n

\* The requests but one are as they were.
Others(t) == \A u \in Threads \ {t} : req'[u] = req[u]

LEMMA BeginFillKeeps ==
  ASSUME SureInv, NEW t \in Threads, BeginFill(t)
  PROVE  SureInv'
<1> DEFINE d == req[t].dir
<1>1. d \in Dirs
  BY DEF BeginFill, SureInv, Types, Named
<1>2. CASE ~MayFill(d)
  <2>1. /\ log' \in Seq(Event) /\ Len(log') >= Len(log)
        /\ \A i \in 1 .. Len(log) : log'[i] = log[i]
    BY DEF BeginFill, SureInv, Types
  <2> QED
    BY <1>2, <2>1, LogGrows, RequestEnds DEF BeginFill, SureInv
<1>3. CASE MayFill(d)
  <2> DEFINE r == [req[t] EXCEPT !.pc = "listing"]
  <2>1. /\ cache' = [cache EXCEPT !.filling[d] = "clean"]
        /\ req' = [req EXCEPT ![t] = r]
        /\ UNCHANGED <<load, log, gone, watch, excused>>
    BY <1>3 DEF BeginFill, SureInv, Types
  <2>2. r \in Request /\ Named(r) /\ r.pc = "listing" /\ r.dir = d
    BY DEF BeginFill, SureInv, Types, Request, Named
  <2> HIDE DEF r
  <2>3. /\ req' \in [Threads -> Request] /\ req'[t] = r /\ Others(t)
    BY <2>1, <2>2 DEF SureInv, Types, Others
  <2> HIDE DEF d
  <2>4. /\ IsCache(cache') /\ cache'.armed = cache.armed /\ cache'.sets = cache.sets
        /\ \A e \in Dirs : cache'.filling[e] = IF e = d THEN "clean" ELSE cache.filling[e]
    <3>1. IsCache(cache) /\ "clean" \in {"none", "clean", "dirty"}
      BY DEF SureInv, Types
    <3> QED
      BY <1>1, <2>1, <3>1, ClaimChanged, Zenon
  <2>5. Types' /\ WatchOrder'
    BY <2>1, <2>2, <2>3, <2>4 DEF SureInv, Types, WatchOrder, Others
  <2>6. ASSUME Sure PROVE Sure'
    <3>1. \A e \in Dirs, x \in Names : Behind(e, x)' = Behind(e, x)
      BY <2>1, SameLog, Zenon
    <3>2. \A u \in Threads : Filler(u)' => u = t \/ (Filler(u) /\ req[u].dir # d)
      BY <1>3, <2>3, <2>6 DEF Filler, Others, MayFill, Sure, Claims
    <3>3. SetsBehind'
      BY <2>4, <2>6, <3>1 DEF Sure, SetsBehind, Mutable
    <3>4. ListsBehind'
      BY <2>2, <2>3, <2>4, <2>6, <3>1, <3>2 DEF Sure, ListsBehind, Others
    <3>5. Claims'
      BY <2>2, <2>3, <2>4, <2>5, <2>6, <3>2 DEF Sure, Claims, Others, Types, Named, Filler
    <3>6. OneClaim'
      BY <2>2, <2>3, <2>6, <3>2 DEF Sure, OneClaim, Others
    <3>7. Unarmed'
      BY <1>3, <2>4 DEF Unarmed, MayFill
    <3> QED
      BY <3>3, <3>4, <3>5, <3>6, <3>7 DEF Sure
  <2> QED
    BY <2>1, <2>5, <2>6 DEF SureInv
<1> QED
  BY <1>2, <1>3

\* What the range read returns is complete.
LEMMA ListKeeps ==
  ASSUME SureInv, NEW t \in Threads, List(t)
  PROVE  SureInv'
<1> DEFINE d == req[t].dir
           l == ListDirents(d)
           r == [req[t] EXCEPT !.pc = "listed", !.list = l]
<1>1. d \in Dirs /\ req[t].pc = "listing" /\ UNCHANGED <<load, log, gone, watch, cache, excused>>
  BY DEF List, SureInv, Types, Named
<1>2. l \in SUBSET Names /\ \A x \in Names : InEtcd(d, x) => x \in l
  BY DEF ListDirents
<1>3. req' = [req EXCEPT ![t] = r]
  BY DEF List, SureInv, Types, Request
<1> HIDE DEF l
<1>4. r \in Request /\ Named(r) /\ r.dir = d /\ r.list = l /\ r.old = req[t].old
  <2>1. req[t] \in Request /\ d = req[t].dir /\ req[t].name \in Names
    BY <1>1 DEF SureInv, Types, Named
  <2>2. /\ r \in Request /\ r.dir = d /\ r.name = req[t].name /\ r.pc = "listed"
        /\ r.list = l /\ r.old = req[t].old
    BY <1>2, <2>1 DEF Request
  <2> HIDE DEF r, d
  <2> QED
    BY <1>1, <2>1, <2>2 DEF Named
<1> HIDE DEF r, d
<1>5. req' \in [Threads -> Request] /\ req'[t] = r /\ Others(t)
  BY <1>3, <1>4 DEF SureInv, Types, Others
<1>6. Types' /\ WatchOrder'
  BY <1>1, <1>4, <1>5 DEF SureInv, Types, WatchOrder, Others
<1>7. ASSUME Sure PROVE Sure'
  <2>1. \A e \in Dirs, x \in Names : Behind(e, x)' = Behind(e, x)
    BY <1>1, SameLog, Zenon
  <2>2. \A u \in Threads : Filler(u)' => Filler(u) /\ req'[u].dir = req[u].dir
    BY <1>1, <1>4, <1>5 DEF Filler, Others, d
  <2>3. SetsBehind' /\ Unarmed'
    BY <1>1, <1>7, <2>1 DEF Sure, SetsBehind, Unarmed
  <2>4. ListsBehind'
    <3> SUFFICES ASSUME NEW u \in Threads, NEW e \in Dirs, NEW x \in Names,
                        Filler(u)', req'[u].pc = "listed", req'[u].dir = e,
                        cache'.filling[e] = "clean", x \notin req'[u].list
                 PROVE  Behind(e, x)
      BY <2>1, Zenon DEF ListsBehind
    <3>1. CASE u = t
      BY <1>2, <1>4, <1>5, <3>1, Zenon DEF Behind
    <3>2. CASE u # t
      <4>1. req'[u] = req[u] /\ cache' = cache
        BY <1>1, <1>5, <3>2 DEF Others
      <4> QED
        BY <1>7, <2>2, <4>1 DEF Sure, ListsBehind
    <3> QED
      BY <3>1, <3>2
  <2>5. Claims' /\ OneClaim'
    BY <1>1, <1>7, <2>2 DEF Sure, Claims, OneClaim
  <2> QED
    BY <2>3, <2>4, <2>5 DEF Sure
<1> QED
  BY <1>1, <1>6, <1>7 DEF SureInv

\* A fill ends, and its claim with it: no other fill of the directory is running.
LEMMA FillEnds ==
  ASSUME SureInv, NEW t \in Threads, req[t].pc \in {"listing", "listed"},
         Crossing(t), Done(t), UNCHANGED <<load, log, gone, watch>>,
         IsCache(cache'), cache'.armed = cache.armed,
         \A e \in Dirs : cache'.filling[e] = IF e = req[t].dir THEN "none" ELSE cache.filling[e],
         \A e \in Dirs : e # req[t].dir => cache'.sets[e] \in {None, cache.sets[e]},
         \/ cache'.sets[req[t].dir] = cache.sets[req[t].dir]
         \/ /\ cache.armed /\ req[t].pc = "listed" /\ cache.filling[req[t].dir] = "clean"
            /\ Mutable(cache', req[t].dir) => cache'.sets[req[t].dir].names = req[t].list
  PROVE  SureInv'
<1> DEFINE d == req[t].dir
<1>1. d \in Dirs
  BY DEF SureInv, Types, Named
<1>2. /\ req' \in [Threads -> Request] /\ \A u \in Threads : Named(req'[u])
      /\ FillersKept
  BY RequestEnds DEF SureInv
<1>3. ~Filler(t)'
  BY DEF Done, Idle, Filler, SureInv, Types
<1>4. Types' /\ WatchOrder'
  BY <1>2 DEF SureInv, Types, WatchOrder
<1>5. ASSUME Sure, excused' = {} PROVE Sure'
  <2>1. \A e \in Dirs, x \in Names : Behind(e, x)' = Behind(e, x)
    <3>1. UNCHANGED <<log, watch>>
      OBVIOUS
    <3> QED
      BY <3>1, SameLog, Zenon
  <2>2. Filler(t) \/ cache.filling[d] = "none"
    BY <1>5 DEF Crossing, Filler, SureInv, Types, Request
  <2>3. ASSUME NEW u \in Threads, Filler(u)'
        PROVE  /\ Filler(u) /\ req'[u].dir = req[u].dir /\ req[u].dir # d
               /\ req[u].dir \in Dirs
    <3>1. Filler(u) /\ req'[u].dir = req[u].dir /\ u # t
      BY <1>2, <1>3, <2>3, Zenon DEF FillersKept
    <3>2. req[u].dir \in Dirs
      BY <3>1 DEF Filler, SureInv, Types, Named
    <3>3. cache.filling[req[u].dir] # "none" /\ (Filler(t) => req[u].dir # d)
      BY <1>5, <3>1, Zenon DEF Sure, Claims, OneClaim
    <3> QED
      BY <2>2, <3>1, <3>2, <3>3, Zenon
  <2>4. SetsBehind'
    <3> SUFFICES ASSUME NEW e \in Dirs, NEW x \in Names,
                        Mutable(cache', e), x \notin cache'.sets[e].names
                 PROVE  Behind(e, x)
      BY <2>1 DEF SetsBehind
    <3>1. CASE cache'.sets[e] = cache.sets[e]
      BY <1>5, <3>1 DEF Sure, SetsBehind, Mutable
    <3>2. CASE cache'.sets[e] # cache.sets[e]
      <4>1. /\ e = d /\ req[t].pc = "listed" /\ cache.filling[d] = "clean"
            /\ x \notin req[t].list
        BY <3>2 DEF Mutable
      <4>2. Filler(t)
        BY <2>2, <4>1
      <4> QED
        BY <1>5, <4>1, <4>2 DEF Sure, ListsBehind
    <3> QED
      BY <3>1, <3>2
  <2>5. ListsBehind'
    <3> SUFFICES ASSUME NEW u \in Threads, NEW e \in Dirs, NEW x \in Names,
                        Filler(u)', req'[u].pc = "listed", req'[u].dir = e,
                        cache'.filling[e] = "clean", x \notin req'[u].list
                 PROVE  Behind(e, x)
      BY <2>1, Zenon DEF ListsBehind
    <3>1. Filler(u) /\ req[u].dir = e /\ e # d /\ req[u].pc = "listed" /\ x \notin req[u].list
      BY <1>2, <2>3, Zenon DEF FillersKept
    <3>2. cache.filling[e] = "clean"
      BY <3>1
    <3> QED
      BY <1>5, <3>1, <3>2, Zenon DEF Sure, ListsBehind
  <2>6. Claims'
    <3> SUFFICES ASSUME NEW u \in Threads, Filler(u)'
                 PROVE  cache'.filling[req'[u].dir] # "none"
      BY Zenon DEF Claims
    <3>1. Filler(u) /\ req'[u].dir = req[u].dir /\ req[u].dir # d /\ req[u].dir \in Dirs
      BY <2>3
    <3>2. cache.filling[req[u].dir] # "none"
      BY <1>5, <3>1, Zenon DEF Sure, Claims
    <3> QED
      BY <3>1, <3>2
  <2>8. OneClaim'
    BY <1>5, <2>3, Zenon DEF Sure, OneClaim
  <2>7. Unarmed'
    BY <1>5 DEF Sure, Unarmed
  <2> QED
    BY <2>4, <2>5, <2>6, <2>7, <2>8 DEF Sure
<1>6. excused' = {} => excused = {}
  BY DEF Crossing
<1> QED
  BY <1>4, <1>5, <1>6 DEF SureInv

LEMMA AbandonFillKeeps ==
  ASSUME SureInv, NEW t \in Threads, AbandonFill(t)
  PROVE  SureInv'
<1>1. req[t].dir \in Dirs /\ IsCache(cache)
  BY DEF AbandonFill, SureInv, Types, Named
<1>2. /\ IsCache(cache') /\ cache'.armed = cache.armed /\ cache'.sets = cache.sets
      /\ \A e \in Dirs : cache'.filling[e] = IF e = req[t].dir THEN "none" ELSE cache.filling[e]
  BY <1>1, ClaimChanged DEF AbandonFill, Abandoned
<1>3. /\ req[t].pc \in {"listing", "listed"} /\ Crossing(t) /\ Done(t)
      /\ UNCHANGED <<load, log, gone, watch>>
  BY DEF AbandonFill
<1>4. \A e \in Dirs : cache'.sets[e] = cache.sets[e]
  BY <1>2
<1> QED
  BY <1>1, <1>2, <1>3, <1>4, FillEnds, Zenon

LEMMA FinishFillKeeps ==
  ASSUME SureInv, NEW t \in Threads, FinishFill(t)
  PROVE  SureInv'
<1> DEFINE d == req[t].dir
           given == [cache EXCEPT !.filling[d] = "none"]
<1>1. d \in Dirs /\ IsCache(cache) /\ req[t].list \in SUBSET Names
  BY DEF FinishFill, SureInv, Types, Named, Request
<1>2. /\ IsCache(given) /\ given.armed = cache.armed /\ given.sets = cache.sets
      /\ \A e \in Dirs : given.filling[e] = IF e = d THEN "none" ELSE cache.filling[e]
  BY <1>1, ClaimChanged
<1>3. cache' = IF cache.armed /\ cache.filling[d] = "clean"
                 THEN Install(given, d, req[t].list) ELSE given
  BY DEF FinishFill, EndFill
<1> HIDE DEF given
<1>4. CASE cache.armed /\ cache.filling[d] = "clean"
  <2>1. /\ IsCache(cache') /\ cache'.armed = given.armed /\ cache'.filling = given.filling
        /\ \A e \in Dirs \ {d} : cache'.sets[e] \in {None, given.sets[e]}
        /\ Mutable(cache', d) => cache'.sets[d].names = req[t].list
    BY <1>1, <1>2, <1>3, <1>4, InstallGives
  <2> QED
    <3>1. /\ IsCache(cache') /\ cache'.armed = cache.armed /\ req[t].pc = "listed"
          /\ \A e \in Dirs : cache'.filling[e] = IF e = req[t].dir THEN "none" ELSE cache.filling[e]
          /\ \A e \in Dirs : e # req[t].dir => cache'.sets[e] \in {None, cache.sets[e]}
      BY <1>2, <2>1 DEF FinishFill
    <3>2. Crossing(t) /\ Done(t) /\ UNCHANGED <<load, log, gone, watch>>
      BY DEF FinishFill
    <3> QED
      BY <1>4, <2>1, <3>1, <3>2, FillEnds
<1>5. CASE ~(cache.armed /\ cache.filling[d] = "clean")
  BY <1>2, <1>3, <1>5, FillEnds DEF FinishFill
<1> QED
  BY <1>4, <1>5

-----------------------------------------------------------------------------
(* Time, etcd and the watch. *)

LEMMA ExpireKeeps ==
  ASSUME SureInv, NEW d \in Dirs, Expire(d)
  PROVE  SureInv'
<1>1. IsCache(cache) /\ cache.sets[d] \in Set
  BY DEF Expire, SureInv, Types, IsCache
<1>2. Replaced(cache, cache', d, cache.sets[d].names)
  BY <1>1, FreshReplaced DEF Expire
<1>6. Weaker({})
  BY <1>2 DEF Replaced, Weaker, Mutable, Expire
<1>7. Types' /\ WatchOrder' /\ FillersKept
  BY <1>2, RequestsStay DEF Replaced, Expire, SureInv, Types, WatchOrder
<1>8. ASSUME Sure PROVE Sure'
  <2>1. \A e \in Dirs, y \in Names : Behind(e, y) => Behind(e, y)'
    BY SameLog DEF Expire
  <2> QED
    BY <1>6, <1>7, <1>8, <2>1, WeakerKeeps DEF SureInv
<1> QED
  BY <1>7, <1>8 DEF Expire, SureInv

LEMMA CompactKeeps ==
  ASSUME SureInv, NEW r, Compact(r)
  PROVE  SureInv'
<1>1. Types' /\ FillersKept
  BY RequestsStay DEF Compact, SureInv, Types
<1>2. WatchOrder'
  BY DEF Compact, SureInv, WatchOrder
<1>3. ASSUME Sure PROVE Sure'
  <2>1. \A e \in Dirs, y \in Names : Behind(e, y) => Behind(e, y)'
    BY SameLog DEF Compact
  <2> QED
    BY <1>1, <1>3, <2>1, SameCache, WeakerKeeps DEF SureInv, Compact
<1> QED
  BY <1>1, <1>2, <1>3 DEF Compact, SureInv

\* The position of the watch is all that matters of it.
LEMMA SamePosition ==
  ASSUME UNCHANGED log, watch'.pos = watch.pos, NEW d, NEW x
  PROVE  Behind(d, x)' = Behind(d, x)
BY DEF Behind, InEtcd, Undelivered, Changes

LEMMA EndWatchKeeps ==
  ASSUME SureInv, EndWatch
  PROVE  SureInv'
<1>1. /\ watch' \in [open : BOOLEAN, resume : Nat, pos : Nat]
      /\ watch'.pos = watch.pos /\ watch'.resume = watch.resume
  BY DEF EndWatch, SureInv, Types
<1>2. Types' /\ FillersKept
  BY <1>1, RequestsStay DEF EndWatch, SureInv, Types
<1>3. WatchOrder'
  BY <1>1 DEF EndWatch, SureInv, WatchOrder
<1>4. ASSUME Sure PROVE Sure'
  <2>1. \A e \in Dirs, y \in Names : Behind(e, y) => Behind(e, y)'
    BY <1>1, SamePosition DEF EndWatch
  <2> QED
    BY <1>2, <1>4, <2>1, SameCache, WeakerKeeps DEF SureInv, EndWatch
<1> QED
  BY <1>2, <1>3, <1>4 DEF EndWatch, SureInv

\* A watch opened on an armed cache goes on where it stopped, or had nothing to
\* deliver, or the step is excused.
LEMMA OpenWatchKeeps ==
  ASSUME SureInv, OpenWatch
  PROVE  SureInv'
<1>0. ResumePoint \in Nat /\ Len(log) \in Nat
  BY DEF ResumePoint, SureInv, Types
<1>1. /\ watch' \in [open : BOOLEAN, resume : Nat, pos : Nat]
      /\ watch'.pos = ResumePoint /\ watch'.resume = watch.resume
  BY <1>0 DEF OpenWatch, SureInv, Types
<1>2. cache' = [armed |-> TRUE, sets |-> cache.sets, order |-> cache.order,
                count |-> cache.count, filling |-> cache.filling]
  BY DEF OpenWatch, SureInv, Types, IsCache
<1>3. IsCache(cache') /\ cache'.armed /\ cache'.sets = cache.sets /\ cache'.filling = cache.filling
  BY <1>2 DEF SureInv, Types, IsCache
<1>4. Types' /\ FillersKept
  BY <1>1, <1>3, RequestsStay DEF OpenWatch, SureInv, Types
<1>5. WatchOrder'
  BY <1>1 DEF OpenWatch, ResumePoint, SureInv, WatchOrder, Types
<1>6. ASSUME Sure, excused' = {} PROVE Sure'
  <2>1. CASE ~cache.armed
    <3>1. \A t \in Threads : ~Filler(t)'
      <4>1. \A t \in Threads : Filler(t) => req[t].dir \in Dirs
        BY DEF Filler, SureInv, Types, Named
      <4> QED
        BY <1>4, <1>6, <2>1, <4>1, Zenon DEF FillersKept, Sure, Claims, Unarmed
    <3>2. \A d \in Dirs : ~Mutable(cache', d)
      BY <1>3, <1>6, <2>1 DEF Sure, Unarmed, Mutable
    <3> QED
      BY <1>3, <3>1, <3>2 DEF Sure, SetsBehind, ListsBehind, Claims, OneClaim, Unarmed
  <2>2. CASE cache.armed
    <3>1. watch'.pos = watch.pos
      <4>1. watch.resume # 0 \/ ~(watch.pos <= Len(log))
        BY <1>6, <2>2 DEF OpenWatch
      <4>2. watch.pos \in Nat
        BY DEF SureInv, Types
      <4> QED
        BY <1>0, <1>1, <4>1, <4>2 DEF ResumePoint, SureInv, WatchOrder
    <3>2. \A e \in Dirs, y \in Names : Behind(e, y) => Behind(e, y)'
      BY <3>1, SamePosition DEF OpenWatch
    <3>3. Weaker({})
      BY <1>3, <2>2 DEF Weaker, Mutable
    <3> QED
      BY <1>4, <1>6, <3>2, <3>3, WeakerKeeps DEF SureInv
  <2> QED
    BY <2>1, <2>2
<1>7. excused' = {} => excused = {}
  BY DEF OpenWatch
<1> QED
  BY <1>4, <1>5, <1>6, <1>7 DEF SureInv

LEMMA DeliverKeeps ==
  ASSUME SureInv, Deliver
  PROVE  SureInv'
<1> DEFINE d == log[watch.pos].dir  x == log[watch.pos].name  b == log[watch.pos].put
<1>1. /\ watch.pos \in 1 .. Len(log)
      /\ watch' \in [open : BOOLEAN, resume : Nat, pos : Nat]
      /\ watch'.pos = watch.pos + 1 /\ watch'.resume = watch.pos + 1
  <2>1. watch.pos \in Nat /\ gone \in Nat /\ Len(log) \in Nat
    BY DEF SureInv, Types
  <2>2. watch.pos \in 1 .. Len(log) /\ watch.pos + 1 \in Nat
    BY <2>1 DEF Deliver
  <2> QED
    BY <2>2 DEF Deliver, SureInv, Types
<1>2. d \in Dirs /\ x \in Names /\ b \in BOOLEAN
  <2>1. log[watch.pos] \in Event
    BY <1>1 DEF SureInv, Types
  <2> QED
    BY <2>1 DEF Event
<1>3. cache' = Observed(cache, d, x, b)
  BY DEF Deliver
<1>4. \A e \in Dirs, y \in Names : IF d = e /\ x = y THEN b \/ Behind(e, y)'
                                   ELSE Behind(e, y) => Behind(e, y)'
  BY <1>1, Delivered DEF Deliver, SureInv
<1> HIDE DEF d, x, b
<1>5. /\ Touched(cache, cache', d, x)
      /\ b /\ Mutable(cache', d) => x \in cache'.sets[d].names
  BY <1>2, <1>3, ObservedTouches DEF SureInv, Types
<1>6. Weaker({<<d, x>>}) /\ IsCache(cache')
  BY <1>2, <1>5, TouchedWeaker DEF SureInv
<1>7. Types' /\ FillersKept
  BY <1>1, <1>6, RequestsStay DEF Deliver, SureInv, Types
<1>8. WatchOrder'
  BY <1>1 DEF Deliver, SureInv, Types, WatchOrder
<1>9. ASSUME Sure PROVE Sure'
  <2>1. \A e \in Dirs, y \in Names : <<e, y>> \in {<<d, x>>} <=> e = d /\ y = x
    OBVIOUS
  <2> QED
    BY <1>4, <1>5, <1>6, <1>7, <1>9, <2>1, WeakerKeeps DEF SureInv
<1> QED
  BY <1>7, <1>8, <1>9 DEF Deliver, SureInv

LEMMA EmptyCache ==
  ASSUME NEW c
  PROVE  /\ IsCache(Reset(c))
         /\ \A d \in Dirs : Reset(c).sets[d] = None /\ Reset(c).filling[d] = "none"
BY DEF Reset, IsCache

\* A gap: nothing is kept, and every fill that runs is one of before.
LEMMA WatchGapKeeps ==
  ASSUME SureInv, WatchGap
  PROVE  SureInv'
<1>1. /\ watch' \in [open : BOOLEAN, resume : Nat, pos : Nat]
      /\ watch'.pos = watch.pos /\ watch'.resume = 0
  BY DEF WatchGap, SureInv, Types
<1>2. /\ IsCache(cache')
      /\ \A d \in Dirs : cache'.sets[d] = None /\ cache'.filling[d] = "none"
  BY EmptyCache DEF WatchGap
<1>3. \A t \in Threads : LET r == [req[t] EXCEPT !.old = req[t].pc \in {"listing", "listed"}] IN
        r \in Request /\ Named(r) /\ (r.pc \in {"listing", "listed"} => r.old)
  <2> TAKE t \in Threads
  <2> DEFINE b == req[t].pc \in {"listing", "listed"}
  <2>1. b \in BOOLEAN /\ (req[t].pc \in {"listing", "listed"} => b)
    OBVIOUS
  <2>2. req[t] \in Request /\ Named(req[t])
    BY DEF SureInv, Types
  <2> HIDE DEF b
  <2>3. LET r == [req[t] EXCEPT !.old = b] IN
          r \in Request /\ Named(r) /\ (r.pc \in {"listing", "listed"} => r.old)
    BY <2>1, <2>2 DEF Named, Request
  <2> QED
    BY <2>3 DEF b
<1>4. /\ req' \in [Threads -> Request] /\ \A t \in Threads : Named(req'[t]) /\ ~Filler(t)'
  BY <1>3 DEF WatchGap, Filler
<1>5. Types' /\ WatchOrder'
  BY <1>1, <1>2, <1>4 DEF WatchGap, SureInv, Types, WatchOrder
<1>6. Sure'
  BY <1>2, <1>4 DEF Sure, SetsBehind, ListsBehind, Claims, OneClaim, Unarmed, Mutable
<1> QED
  BY <1>5, <1>6 DEF SureInv

-----------------------------------------------------------------------------
LEMMA SureInvStarts == Init => SureInv
<1> SUFFICES ASSUME Init PROVE SureInv
  OBVIOUS
<1>1. IsCache(cache) /\ \A d \in Dirs : cache.sets[d] = None /\ cache.filling[d] = "none"
  BY EmptyCache DEF Init
<1>2. Idle \in Request /\ Named(Idle) /\ Idle.pc = "idle"
  BY DEF Idle, Request, Named
<1>3. req \in [Threads -> Request] /\ \A t \in Threads : req[t] = Idle
  BY <1>2 DEF Init
<1>4. Types /\ WatchOrder
  BY <1>1, <1>2, <1>3 DEF Init, Types, WatchOrder
<1>5. Sure
  BY <1>1, <1>2, <1>3 DEF Sure, SetsBehind, ListsBehind, Claims, OneClaim, Unarmed, Mutable, Filler
<1> QED
  BY <1>4, <1>5 DEF SureInv

LEMMA SureInvKept == SureInv /\ [Next]_vars => SureInv'
<1> SUFFICES ASSUME SureInv, [Next]_vars PROVE SureInv'
  OBVIOUS
<1>1. load.used \subseteq Dirs /\ load.names \subseteq Names /\ load.threads \subseteq Threads
  BY DirentCacheAssumption DEF SureInv, Types
<1>2. ASSUME NEW d \in load.used, NEW x \in load.names,
             PeerChange(d, x) \/ \E t \in load.threads : Lookup(t, d, x) \/ Make(t, d, x) \/ Unlink(t, d, x)
      PROVE  SureInv'
  BY <1>1, <1>2, PeerChangeKeeps, LookupKeeps, MakeKeeps, UnlinkKeeps
<1>3. ASSUME NEW t \in load.threads, NEW d \in load.used, NEW e \in load.used,
             NEW x \in load.names, NEW y \in load.names, Rename(t, d, x, e, y)
      PROVE  SureInv'
  BY <1>1, <1>3, RenameKeeps
<1>4. ASSUME NEW t \in load.threads, Serving(t)
      PROVE  SureInv'
  BY <1>1, <1>4, LookupFoundKeeps, BeginFillKeeps, ListKeeps, AbandonFillKeeps,
     FinishFillKeeps, AckDeletedKeeps, AckCreatedKeeps DEF Serving
<1>5. ASSUME NEW d \in load.used, Expire(d)
      PROVE  SureInv'
  BY <1>1, <1>5, ExpireKeeps
<1>6. ASSUME NEW r \in 1 .. load.events, Compact(r)
      PROVE  SureInv'
  BY <1>6, CompactKeeps
<1>7. CASE Watching \/ EndWatch
  BY <1>7, OpenWatchKeeps, DeliverKeeps, WatchGapKeeps, EndWatchKeeps DEF Watching
<1>8. CASE UNCHANGED vars
  <2>1. /\ log' \in Seq(Event) /\ Len(log') >= Len(log)
        /\ \A i \in 1 .. Len(log) : log'[i] = log[i]
    BY <1>8 DEF vars, SureInv, Types
  <2> QED
    BY <1>8, <2>1, LogGrows, RequestsStay DEF vars, SureInv
<1> QED
  BY <1>2, <1>3, <1>4, <1>5, <1>6, <1>7, <1>8, Zenon DEF Next

\* The node says that a name is not there while it is only as long as the change that
\* made it is still on its way through the watch (direntcache.go, watch.go), for any
\* directories, names, requests and limits, unless one of the three interleavings the
\* code does not handle has happened.
THEOREM AbsenceOnlyBehindWatch == Spec => []AbsenceBehindWatch
<1>1. SureInv => AbsenceBehindWatch
  BY DEF SureInv, Sure, SetsBehind, Behind, AbsenceBehindWatch, NeverLeftBehind, FalseAbsence, Absent
<1> QED
  BY <1>1, SureInvStarts, SureInvKept, PTL DEF Spec
=============================================================================
