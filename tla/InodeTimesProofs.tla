-------------------------- MODULE InodeTimesProofs --------------------------
(* Deferred timestamps never undo a chmod, for any inodes, flushes, setattr calls
   and workloads: what a flush has built and may still commit carries the mode of
   the record as it is, because every write of a record makes the copies others
   have built of it stale.  Type correctness comes with it. *)
EXTENDS InodeTimes, TLAPS

-----------------------------------------------------------------------------
(* The inductive invariant. *)

FlushType ==
  [pc : {"idle", "read", "single", "end"},
   due : [Inodes -> Update \union {None}], left : SUBSET Inodes,
   failed : SUBSET Inodes, built : [Inodes -> Record \union {None}],
   stale : SUBSET Inodes, one : Inodes \union {None},
   tries : 0 .. CasAttempts]
SetattrType ==
  [pc : {"idle", "asked", "queue", "take", "read", "commit"},
   ino : Inodes \union {None}, ask : Ask \union {None},
   base : Record \union {None}, taken : Update \union {None},
   built : Record \union {None}, stale : BOOLEAN, tries : 0 .. SetattrRetries,
   alone : BOOLEAN]

\* A flush works on inodes an update is due for, one at a time once its batch has been
\* refused, and gives up in time.
FlushOK(g) ==
  /\ \A i \in Inodes : i \in g.left \/ i \in g.failed \/ g.built[i] # None => g.due[i] # None
  /\ g.pc = "single" =>
       \A i, j \in Inodes : g.built[i] # None /\ g.built[j] # None => i = j
  /\ g.tries # CasAttempts

\* What a flush may still commit has the mode of the record.
Follows(g, r) ==
  \A i \in Inodes : g.built[i] # None /\ i \notin g.stale => g.built[i].mode = r[i].mode

FlushGood(g, r) == g \in FlushType /\ FlushOK(g) /\ Follows(g, r)

\* A setattr call has what its next step needs.
SetattrGood(c) ==
  /\ c \in SetattrType
  /\ c.pc # "idle" => c.ino \in Inodes /\ c.ask \in Ask
  /\ c.pc \in {"asked", "queue"} => c.base \in Record
  /\ c.pc = "commit" => c.built \in Record

QueueTypes ==
  /\ load \in Loads /\ now \in Time
  /\ dirty \in [Inodes -> Update \union {None}]
  /\ calls \in 0 .. load.calls /\ errors \in 0 .. load.errors
  /\ told \in [Inodes -> Time \union {None}] /\ excused \subseteq Inodes

RecordTypes == rec \in [Inodes -> Record] /\ chmods \in [Inodes -> Modes]
Flushing == fl \in [Flushes -> FlushType] /\ \A f \in Flushes : FlushGood(fl[f], rec)
Calling == sa \in [Setattrs -> SetattrType] /\ \A s \in Setattrs : SetattrGood(sa[s])

ModeInv == QueueTypes /\ RecordTypes /\ Flushing /\ Calling /\ ModeKept

-----------------------------------------------------------------------------
(* Updates and records. *)

LEMMA UpdatesTyped ==
  ASSUME NEW u \in Update, NEW v \in Update
  PROVE  MergeAssignment(u, v) \in Update /\ Requeued(u, v) \in Update
<1>1. MergeAssignment(u, v) \in Update
  BY DEF MergeAssignment, Update, Time
<1>2. [MergeAssignment(u, v) EXCEPT !.bump = v.bump] \in Update
  BY <1>1 DEF Update
<1> QED
  BY <1>1, <1>2 DEF Requeued

LEMMA RequeuedTyped ==
  ASSUME NEW u \in Update, NEW v \in Update \union {None}
  PROVE  Requeued(u, v) \in Update
BY UpdatesTyped DEF Requeued

LEMMA ApplyKeepsMode ==
  ASSUME NEW u \in Update, NEW r \in Record
  PROVE  Apply(u, r) \in Record /\ Apply(u, r).mode = r.mode /\ Apply(u, r).alive = r.alive
<1>1. Assign(u, r) \in Record /\ Assign(u, r).mode = r.mode /\ Assign(u, r).alive = r.alive
  BY DEF Assign, Update, Record, Time
<1> QED
  BY <1>1 DEF Apply, Update, Record, Time

LEMMA FieldsTyped ==
  ASSUME NEW r \in Record, NEW ask \in Ask, NEW at \in Time
  PROVE  SetFields(r, ask, at) \in Record
BY DEF SetFields, Record, Ask, Time

LEMMA MovedTyped ==
  ASSUME NEW r \in Record, NEW q \in Record
  PROVE  Moved(r, q) \in Update
BY DEF Moved, Record, Update, Time

LEMMA QueuedTyped ==
  ASSUME ModeInv, NEW i \in Inodes
  PROVE  Queued(i) \in Update
BY DEF ModeInv, QueueTypes, Queued, NoUpdate, Update, Time

LEMMA TickTyped ==
  ASSUME ModeInv, Tick
  PROVE  now' \in Time
<1>1. now + 1 \in Nat /\ load.clock \in Nat
  BY InodeTimesAssumption DEF ModeInv, QueueTypes, Time
<1>2. \A a, b \in Nat : Min({a, b}) \in Nat
  <2> TAKE a, b \in Nat
  <2>1. \E x \in {a, b} : \A y \in {a, b} : x <= y
    OBVIOUS
  <2> QED
    BY <2>1 DEF Min
<1> QED
  BY <1>1, <1>2 DEF Tick, Time

LEMMA BumpedTyped ==
  ASSUME ModeInv, NEW i \in Inodes, NEW at \in Time
  PROVE  Bumped(i, at) \in Update
<1>1. Queued(i) \in Update /\ Queued(i).bump \in Nat
  BY QueuedTyped DEF Update, Time
<1>2. \A a, b \in Nat : Max({a, b}) \in Nat
  <2> TAKE a, b \in Nat
  <2>1. \E x \in {a, b} : \A y \in {a, b} : x >= y
    OBVIOUS
  <2> QED
    BY <2>1 DEF Max
<1>3. Max({Queued(i).bump, at}) \in Time
  BY <1>1, <1>2 DEF Time
<1> QED
  BY <1>1, <1>3 DEF Bumped, Update

LEMMA FailsTyped ==
  ASSUME ModeInv, Fails \/ UNCHANGED errors
  PROVE  errors' \in 0 .. load.errors
BY InodeTimesAssumption DEF ModeInv, QueueTypes, Fails

-----------------------------------------------------------------------------
(* Flushes and calls that a step changes. *)

\* Records are written, of the inodes in is: a flush that has built one of them is
\* stale, and any other goes on as it is.
LEMMA FlushOvertaken ==
  ASSUME ModeInv, NEW f \in Flushes, NEW is \in SUBSET Inodes, NEW r,
         \A i \in Inodes \ is : r[i].mode = rec[i].mode
  PROVE  FlushGood(StaleFlush(f, is), r)
<1> DEFINE g == fl[f]
           st == g.stale \union (is \intersect Built(f))
           h == [g EXCEPT !.stale = st]
<1>1. g \in FlushType /\ FlushOK(g) /\ Follows(g, rec)
  BY DEF ModeInv, Flushing, FlushGood
<1>2. st \in SUBSET Inodes /\ \A i \in is : g.built[i] # None => i \in st
  BY <1>1 DEF FlushType, Built
<1>3. StaleFlush(f, is) = h
  BY DEF StaleFlush
<1>4. g.stale \subseteq st
  OBVIOUS
<1> HIDE DEF st, g
<1>5. h \in FlushType /\ h.built = g.built /\ h.stale = st /\ h.due = g.due
      /\ h.left = g.left /\ h.failed = g.failed /\ h.pc = g.pc /\ h.tries = g.tries
  BY <1>1, <1>2 DEF FlushType
<1> HIDE DEF h
<1>6. FlushOK(h)
  BY <1>1, <1>5, Zenon DEF FlushOK
<1>7. Follows(h, r)
  BY <1>1, <1>2, <1>4, <1>5 DEF Follows
<1> QED
  BY <1>3, <1>5, <1>6, <1>7 DEF FlushGood

LEMMA FlushesOvertaken ==
  ASSUME ModeInv, NEW is \in SUBSET Inodes, \A i \in Inodes \ is : rec'[i].mode = rec[i].mode,
         fl' = [f \in Flushes |-> StaleFlush(f, is)]
  PROVE  Flushing'
<1>1. \A f \in Flushes : FlushGood(StaleFlush(f, is), rec')
  BY FlushOvertaken
<1> QED
  BY <1>1 DEF Flushing, FlushGood

\* No mode changes, and one flush takes a step.
LEMMA FlushMoves ==
  ASSUME ModeInv, NEW f \in Flushes, NEW g, FlushGood(g, rec), UNCHANGED rec,
         fl' = [fl EXCEPT ![f] = g]
  PROVE  Flushing'
<1>1. \A h \in Flushes : fl'[h] = IF h = f THEN g ELSE fl[h]
  BY DEF ModeInv, Flushing
<1>2. \A h \in Flushes : FlushGood(fl'[h], rec')
  BY <1>1, Zenon DEF ModeInv, Flushing
<1>3. fl' \in [Flushes -> FlushType]
  BY DEF ModeInv, Flushing, FlushGood
<1> QED
  BY <1>2, <1>3 DEF Flushing

LEMMA FlushesStay ==
  ASSUME ModeInv, UNCHANGED fl, \A i \in Inodes : rec'[i].mode = rec[i].mode
  PROVE  Flushing'
BY DEF ModeInv, Flushing, FlushGood, Follows

LEMMA CallMarked ==
  ASSUME NEW c, SetattrGood(c), NEW b \in BOOLEAN
  PROVE  SetattrGood([c EXCEPT !.stale = b]) /\ SetattrGood([c EXCEPT !.alone = b])
<1> DEFINE h == [c EXCEPT !.stale = b]
           k == [c EXCEPT !.alone = b]
<1>1. /\ h \in SetattrType /\ h.pc = c.pc /\ h.ino = c.ino /\ h.ask = c.ask
      /\ h.base = c.base /\ h.built = c.built
  BY DEF SetattrGood, SetattrType
<1>2. /\ k \in SetattrType /\ k.pc = c.pc /\ k.ino = c.ino /\ k.ask = c.ask
      /\ k.base = c.base /\ k.built = c.built
  BY DEF SetattrGood, SetattrType
<1> HIDE DEF h, k
<1>3. SetattrGood(h) /\ SetattrGood(k)
  BY <1>1, <1>2, Zenon DEF SetattrGood
<1> QED
  BY <1>3, Zenon DEF h, k

LEMMA CallOvertaken ==
  ASSUME ModeInv, NEW s \in Setattrs, NEW is, NEW b \in BOOLEAN
  PROVE  /\ SetattrGood(StaleSetattr(s, is))
         /\ SetattrGood([StaleSetattr(s, is) EXCEPT !.alone = b])
         /\ SetattrGood([sa[s] EXCEPT !.alone = b])
<1> DEFINE c == sa[s]
           st == c.pc = "commit" /\ (c.stale \/ c.ino \in is)
<1>1. SetattrGood(c)
  BY DEF ModeInv, Calling
<1>2. StaleSetattr(s, is) = [c EXCEPT !.stale = st]
  BY DEF StaleSetattr
<1>3. st \in BOOLEAN
  OBVIOUS
<1> HIDE DEF st, c
<1>4. /\ SetattrGood([c EXCEPT !.stale = st])
      /\ SetattrGood([[c EXCEPT !.stale = st] EXCEPT !.alone = b])
      /\ SetattrGood([c EXCEPT !.alone = b])
  BY <1>1, <1>3, CallMarked, Zenon
<1> QED
  BY <1>2, <1>4, Zenon DEF c

LEMMA CallsOvertaken ==
  ASSUME ModeInv, NEW is, sa' = [s \in Setattrs |-> StaleSetattr(s, is)]
  PROVE  Calling'
BY CallOvertaken DEF Calling, SetattrGood

\* One call takes a step.
LEMMA CallMoves ==
  ASSUME ModeInv, NEW s \in Setattrs, NEW c, SetattrGood(c), sa' = [sa EXCEPT ![s] = c]
  PROVE  Calling'
<1>1. \A t \in Setattrs : sa'[t] = IF t = s THEN c ELSE sa[t]
  BY DEF ModeInv, Calling
<1>2. \A t \in Setattrs : SetattrGood(sa'[t])
  BY <1>1, Zenon DEF ModeInv, Calling
<1>3. sa' \in [Setattrs -> SetattrType]
  BY DEF ModeInv, Calling, SetattrGood
<1> QED
  BY <1>2, <1>3 DEF Calling

LEMMA CallsStay ==
  ASSUME ModeInv, UNCHANGED sa
  PROVE  Calling'
BY DEF ModeInv, Calling

LEMMA NoSetattrGood == SetattrGood(NoSetattr)
BY InodeTimesAssumption DEF NoSetattr, SetattrGood, SetattrType

LEMMA NoFlushGood ==
  ASSUME NEW r
  PROVE  FlushGood(NoFlush, r)
<1>1. NoFlush \in FlushType
  BY InodeTimesAssumption DEF NoFlush, FlushType
<1>2. \A i \in Inodes : NoFlush.built[i] = None
  BY DEF NoFlush
<1>3. FlushOK(NoFlush)
  BY <1>2, InodeTimesAssumption DEF NoFlush, FlushOK
<1> QED
  BY <1>1, <1>2, <1>3 DEF FlushGood, Follows

LEMMA RecordsStay ==
  ASSUME ModeInv, UNCHANGED <<rec, chmods>>
  PROVE  RecordTypes' /\ ModeKept'
BY DEF ModeInv, RecordTypes, ModeKept

\* The records flush f has built for inodes it is fresh for keep their modes.
LEMMA RecordsWritten ==
  ASSUME ModeInv, NEW f \in Flushes, NEW is \in SUBSET Built(f), Fresh(f, is),
         rec' = [i \in Inodes |-> IF i \in is THEN fl[f].built[i] ELSE rec[i]], UNCHANGED chmods
  PROVE  /\ RecordTypes' /\ ModeKept'
         /\ \A i \in Inodes : rec'[i].mode = rec[i].mode
<1>1. fl[f] \in FlushType /\ Follows(fl[f], rec)
  BY DEF ModeInv, Flushing, FlushGood
<1>2. \A i \in is : i \in Inodes /\ fl[f].built[i] \in Record /\ fl[f].built[i].mode = rec[i].mode
  BY <1>1 DEF FlushType, Built, Follows, Fresh
<1>3. \A i \in Inodes : rec'[i] \in Record /\ rec'[i].mode = rec[i].mode
  BY <1>2 DEF ModeInv, RecordTypes
<1>4. rec' \in [Inodes -> Record]
  BY <1>3
<1> QED
  BY <1>3, <1>4 DEF ModeInv, RecordTypes, ModeKept

\* A flush writes records and takes a step.
LEMMA FlushWritesKeeps ==
  ASSUME ModeInv, NEW f \in Flushes, NEW is \in SUBSET Built(f), is # {} => Fresh(f, is),
         NEW g, FlushGood(g, rec), FlushWrites(f, is, g), Fails \/ UNCHANGED errors,
         UNCHANGED <<load, now, dirty, calls, chmods, told, excused>>
  PROVE  ModeInv'
<1>1. Fresh(f, is)
  BY DEF Fresh
<1>2. /\ RecordTypes' /\ ModeKept'
      /\ \A i \in Inodes : rec'[i].mode = rec[i].mode
  BY <1>1, RecordsWritten DEF FlushWrites
<1>3. is \in SUBSET Inodes
  BY DEF Built
<1>4. \A h \in Flushes : FlushGood(StaleFlush(h, is), rec')
  BY <1>2, <1>3, FlushOvertaken
<1>5. FlushGood(g, rec')
  BY <1>2 DEF FlushGood, Follows
<1>6. Flushing'
  BY <1>4, <1>5 DEF FlushWrites, Flushing, FlushGood
<1>7. Calling'
  BY CallsOvertaken DEF FlushWrites
<1>8. QueueTypes'
  BY FailsTyped DEF ModeInv, QueueTypes
<1> QED
  BY <1>2, <1>6, <1>7, <1>8 DEF ModeInv

-----------------------------------------------------------------------------
(* Directory changes of this node, and peers. *)

LEMMA TouchDirKeeps ==
  ASSUME ModeInv, NEW i \in Inodes, TouchDir(i)
  PROVE  ModeInv'
<1>1. now' \in Time
  BY TickTyped DEF TouchDir
<1>2. Bumped(i, now') \in Update
  BY <1>1, BumpedTyped
<1>3. dirty' \in [Inodes -> Update \union {None}]
  BY <1>2 DEF TouchDir, ModeInv, QueueTypes
<1>4. told' \in [Inodes -> Time \union {None}]
  BY <1>1 DEF TouchDir, ModeInv, QueueTypes
<1>5. calls' \in 0 .. load.calls
  BY InodeTimesAssumption DEF TouchDir, ModeInv, QueueTypes
<1>6. QueueTypes'
  BY <1>1, <1>3, <1>4, <1>5 DEF TouchDir, ModeInv, QueueTypes
<1>7. RecordTypes' /\ ModeKept' /\ Flushing'
  BY RecordsStay, FlushesStay DEF TouchDir
<1>8. Calling'
  BY CallOvertaken DEF TouchDir, Crowd, Calling, SetattrGood
<1> QED
  BY <1>6, <1>7, <1>8 DEF ModeInv

LEMMA PeerChmodKeeps ==
  ASSUME ModeInv, NEW i \in Inodes, PeerChmod(i)
  PROVE  ModeInv'
<1>1. PICK m \in Modes : /\ rec' = [rec EXCEPT ![i].mode = m, ![i].ctime = now']
                         /\ chmods' = [chmods EXCEPT ![i] = m]
  BY DEF PeerChmod
<1>2. now' \in Time
  BY TickTyped DEF PeerChmod
<1>3. /\ rec' \in [Inodes -> Record] /\ rec'[i].mode = m
      /\ \A j \in Inodes \ {i} : rec'[j] = rec[j]
  BY <1>1, <1>2 DEF ModeInv, RecordTypes, Record
<1>4. RecordTypes' /\ ModeKept'
  BY <1>1, <1>3 DEF ModeInv, RecordTypes, ModeKept
<1>5. /\ {i} \in SUBSET Inodes /\ \A j \in Inodes \ {i} : rec'[j].mode = rec[j].mode
      /\ fl' = [f \in Flushes |-> StaleFlush(f, {i})]
  BY <1>3 DEF PeerChmod, Overtaken
<1>6. Flushing'
  BY <1>5, FlushesOvertaken, Zenon
<1>7. Calling'
  BY CallsOvertaken, Zenon DEF PeerChmod, Overtaken
<1>8. QueueTypes'
  BY <1>2 DEF PeerChmod, ModeInv, QueueTypes
<1> QED
  BY <1>4, <1>6, <1>7, <1>8 DEF ModeInv

LEMMA PeerUtimesKeeps ==
  ASSUME ModeInv, NEW i \in Inodes, PeerUtimes(i)
  PROVE  ModeInv'
<1>1. now' \in Time
  BY TickTyped DEF PeerUtimes
<1>2. rec' \in [Inodes -> Record] /\ \A j \in Inodes : rec'[j].mode = rec[j].mode
  BY <1>1 DEF PeerUtimes, ModeInv, RecordTypes, Record
<1>3. RecordTypes' /\ ModeKept'
  BY <1>2 DEF PeerUtimes, ModeInv, RecordTypes, ModeKept
<1>4. Flushing'
  <2>1. /\ {i} \in SUBSET Inodes /\ \A j \in Inodes \ {i} : rec'[j].mode = rec[j].mode
        /\ fl' = [f \in Flushes |-> StaleFlush(f, {i})]
    BY <1>2 DEF PeerUtimes
  <2> QED
    BY <2>1, FlushesOvertaken, Zenon
<1>5. ASSUME NEW s \in Setattrs
      PROVE  SetattrGood([StaleSetattr(s, {i}) EXCEPT !.alone = @ /\ sa[s].ino # i])
  <2> DEFINE b == (StaleSetattr(s, {i}).alone /\ sa[s].ino # i)
  <2>1. b \in BOOLEAN
    OBVIOUS
  <2> HIDE DEF b
  <2>2. SetattrGood([StaleSetattr(s, {i}) EXCEPT !.alone = b])
    BY <2>1, CallOvertaken, Zenon
  <2> QED
    BY <2>2, Zenon DEF b
<1>6. \A s \in Setattrs :
        sa'[s] = [StaleSetattr(s, {i}) EXCEPT !.alone = @ /\ sa[s].ino # i]
  BY Zenon DEF PeerUtimes
<1>7. Calling'
  <2>1. \A s \in Setattrs : SetattrGood(sa'[s])
    BY <1>5, <1>6, Zenon
  <2>2. sa' = [s \in Setattrs |-> sa'[s]]
    BY <1>6, Zenon DEF PeerUtimes
  <2> QED
    BY <2>1, <2>2, Zenon DEF Calling, SetattrGood
<1>8. QueueTypes'
  BY <1>1 DEF PeerUtimes, ModeInv, QueueTypes
<1> QED
  BY <1>3, <1>4, <1>7, <1>8 DEF ModeInv

LEMMA PeerRemoveKeeps ==
  ASSUME ModeInv, NEW i \in Inodes, PeerRemove(i)
  PROVE  ModeInv'
<1>1. rec' \in [Inodes -> Record] /\ \A j \in Inodes : rec'[j].mode = rec[j].mode
  BY DEF PeerRemove, ModeInv, RecordTypes, Record
<1>2. RecordTypes' /\ ModeKept'
  BY <1>1 DEF PeerRemove, ModeInv, RecordTypes, ModeKept
<1>3. /\ {i} \in SUBSET Inodes /\ \A j \in Inodes \ {i} : rec'[j].mode = rec[j].mode
      /\ fl' = [f \in Flushes |-> StaleFlush(f, {i})]
  BY <1>1 DEF PeerRemove, Overtaken
<1>4. Flushing'
  BY <1>3, FlushesOvertaken, Zenon
<1>5. Calling'
  BY CallsOvertaken, Zenon DEF PeerRemove, Overtaken
<1>6. QueueTypes'
  BY DEF PeerRemove, ModeInv, QueueTypes
<1> QED
  BY <1>2, <1>4, <1>5, <1>6 DEF ModeInv

-----------------------------------------------------------------------------
(* flush, commitInodeTimesBatch and commitInodeTimes. *)

LEMMA FlushTakeKeeps ==
  ASSUME ModeInv, NEW f \in Flushes, NEW is \in SUBSET Inodes, FlushTake(f, is)
  PROVE  ModeInv'
<1> DEFINE due == [i \in Inodes |-> IF i \in is THEN dirty[i] ELSE None]
           g == [NoFlush EXCEPT !.pc = "read", !.left = is, !.due = due]
<1>1. due \in [Inodes -> Update \union {None}] /\ \A i \in is : due[i] # None
  BY DEF FlushTake, ModeInv, QueueTypes
<1>2. fl' = [fl EXCEPT ![f] = g]
  BY DEF FlushTake
<1> HIDE DEF due
<1>3. /\ g \in FlushType /\ g.due = due /\ g.left = is /\ g.failed = {} /\ g.pc = "read"
      /\ g.built = NoFlush.built /\ g.tries = NoFlush.tries
  BY <1>1, NoFlushGood DEF FlushGood, FlushType, NoFlush
<1>4. (\A i \in Inodes : NoFlush.built[i] = None) /\ NoFlush.tries # CasAttempts
  BY InodeTimesAssumption DEF NoFlush
<1> HIDE DEF g
<1>5. FlushOK(g) /\ Follows(g, rec)
  BY <1>1, <1>3, <1>4 DEF FlushOK, Follows
<1>6. Flushing'
  BY <1>2, <1>3, <1>5, FlushMoves DEF FlushTake, FlushGood
<1>7. RecordTypes' /\ ModeKept' /\ Calling'
  BY RecordsStay, CallsStay DEF FlushTake
<1>8. QueueTypes'
  BY DEF FlushTake, ModeInv, QueueTypes
<1> QED
  BY <1>6, <1>7, <1>8 DEF ModeInv

\* What a flush builds of a record it has just read.
LEMMA NewRecordTyped ==
  ASSUME ModeInv, NEW f \in Flushes, NEW i \in fl[f].left
  PROVE  /\ i \in Inodes /\ fl[f].due[i] # None
         /\ NewRecord(f, i) \in Record \union {None}
         /\ NewRecord(f, i) # None => NewRecord(f, i).mode = rec[i].mode
<1>1. fl[f] \in FlushType /\ FlushOK(fl[f])
  BY DEF ModeInv, Flushing, FlushGood
<1>2. i \in Inodes /\ fl[f].due[i] # None
  BY <1>1 DEF FlushType, FlushOK
<1>3. fl[f].due[i] \in Update /\ rec[i] \in Record
  BY <1>1, <1>2 DEF FlushType, ModeInv, RecordTypes
<1>4. Apply(fl[f].due[i], rec[i]) \in Record /\ Apply(fl[f].due[i], rec[i]).mode = rec[i].mode
  BY <1>3, ApplyKeepsMode
<1> QED
  BY <1>2, <1>4 DEF NewRecord

LEMMA BatchReadKeeps ==
  ASSUME ModeInv, NEW f \in Flushes, NEW i \in Inodes, BatchRead(f, i)
  PROVE  ModeInv'
<1> DEFINE g == fl[f]
           b == [g.built EXCEPT ![i] = NewRecord(f, i)]
           h == [g EXCEPT !.left = g.left \ {i}, !.built = b, !.stale = g.stale \ {i}]
           k == [g EXCEPT !.left = g.left \ {i}, !.failed = g.failed \union {i}]
<1>1. g \in FlushType /\ FlushOK(g) /\ Follows(g, rec) /\ g.pc = "read"
  BY DEF ModeInv, Flushing, FlushGood, BatchRead
<1>2. /\ g.due[i] # None /\ NewRecord(f, i) \in Record \union {None}
      /\ NewRecord(f, i) # None => NewRecord(f, i).mode = rec[i].mode
  BY NewRecordTyped DEF BatchRead
<1>3. /\ b \in [Inodes -> Record \union {None}]
      /\ \A j \in Inodes : b[j] = IF j = i THEN NewRecord(f, i) ELSE g.built[j]
  BY <1>1, <1>2 DEF FlushType
<1>4. (fl' = [fl EXCEPT ![f] = h] /\ UNCHANGED errors) \/ (fl' = [fl EXCEPT ![f] = k] /\ Fails)
  BY <1>1 DEF BatchRead, FlushType, ModeInv, Flushing
<1> HIDE DEF g, b
<1>5. /\ h \in FlushType /\ h.left = g.left \ {i} /\ h.built = b /\ h.stale = g.stale \ {i}
      /\ h.pc = g.pc /\ h.due = g.due /\ h.failed = g.failed /\ h.tries = g.tries
  BY <1>1, <1>3 DEF FlushType
<1>6. /\ k \in FlushType /\ k.left = g.left \ {i} /\ k.built = g.built /\ k.stale = g.stale
      /\ k.pc = g.pc /\ k.due = g.due /\ k.failed = g.failed \union {i} /\ k.tries = g.tries
  BY <1>1 DEF FlushType
<1> HIDE DEF h, k
<1>7. FlushOK(h) /\ Follows(h, rec)
  BY <1>1, <1>2, <1>3, <1>5 DEF FlushOK, Follows
<1>8. FlushOK(k) /\ Follows(k, rec)
  BY <1>1, <1>2, <1>6 DEF FlushOK, Follows
<1>9. Flushing'
  BY <1>4, <1>5, <1>6, <1>7, <1>8, FlushMoves DEF FlushGood, BatchRead
<1>10. RecordTypes' /\ ModeKept' /\ Calling'
  BY RecordsStay, CallsStay DEF BatchRead
<1>11. QueueTypes'
  BY <1>4, FailsTyped DEF BatchRead, ModeInv, QueueTypes
<1> QED
  BY <1>9, <1>10, <1>11 DEF ModeInv

LEMMA BatchCommitKeeps ==
  ASSUME ModeInv, NEW f \in Flushes, BatchCommit(f)
  PROVE  ModeInv'
<1> DEFINE g == fl[f]
           none == [i \in Inodes |-> None]
           rest == {i \in Inodes : g.due[i] # None} \ g.failed
           h == [g EXCEPT !.pc = "end"]
           k == [g EXCEPT !.pc = "single", !.left = rest, !.built = none, !.stale = {}]
<1>1. g \in FlushType /\ FlushOK(g) /\ Follows(g, rec)
  BY DEF ModeInv, Flushing, FlushGood
<1>2. AfterRefusal(g) = k
  BY DEF AfterRefusal
<1>3. /\ none \in [Inodes -> Record \union {None}] /\ (\A i \in Inodes : none[i] = None)
      /\ rest \in SUBSET Inodes /\ \A i \in rest : g.due[i] # None
  OBVIOUS
<1> HIDE DEF g, none, rest
<1>4. FlushGood(h, rec)
  <2>1. /\ h \in FlushType /\ h.left = g.left /\ h.built = g.built /\ h.stale = g.stale
        /\ h.pc = "end" /\ h.due = g.due /\ h.failed = g.failed /\ h.tries = g.tries
    BY <1>1 DEF FlushType
  <2> HIDE DEF h
  <2> QED
    BY <1>1, <2>1 DEF FlushGood, FlushOK, Follows
<1>5. FlushGood(k, rec)
  <2>1. /\ k \in FlushType /\ k.left = rest /\ k.built = none
        /\ k.due = g.due /\ k.failed = g.failed /\ k.tries = g.tries
    BY <1>1, <1>3 DEF FlushType
  <2> HIDE DEF k
  <2> QED
    BY <1>1, <1>3, <2>1 DEF FlushGood, FlushOK, Follows
<1> HIDE DEF h, k
<1>6. PICK is \in {{}, Built(f)}, n \in {h, k} :
        /\ FlushWrites(f, is, n) /\ (is # {} => Fresh(f, is)) /\ (Fails \/ UNCHANGED errors)
  BY <1>2, Zenon DEF BatchCommit, g, h
<1> QED
  BY <1>4, <1>5, <1>6, FlushWritesKeeps DEF BatchCommit

\* An inode is done with, or given up, and nothing is built any more.
LEMMA SettledGood ==
  ASSUME ModeInv, NEW f \in Flushes, NEW i \in Inodes, fl[f].due[i] # None,
         \A j \in Inodes \ {i} : fl[f].built[j] = None
  PROVE  /\ FlushGood(Settled(fl[f], i), rec)
         /\ FlushGood(GivenUp(fl[f], i), rec)
         /\ fl[f].tries + 1 # CasAttempts =>
              FlushGood([fl[f] EXCEPT !.built[i] = None, !.tries = @ + 1, !.stale = {}], rec)
<1> DEFINE g == fl[f]
           b == [g.built EXCEPT ![i] = None]
           h == [g EXCEPT !.left = g.left \ {i}, !.built = b, !.stale = {}, !.one = None, !.tries = 0]
           k == [h EXCEPT !.failed = g.failed \union {i}]
           m == [g EXCEPT !.built = b, !.tries = g.tries + 1, !.stale = {}]
<1>1. g \in FlushType /\ FlushOK(g)
  BY DEF ModeInv, Flushing, FlushGood
<1>2. b \in [Inodes -> Record \union {None}] /\ \A j \in Inodes : b[j] = None
  BY <1>1 DEF FlushType
<1>3. Settled(g, i) = h
  BY <1>1 DEF Settled, FlushType
<1>4. GivenUp(g, i) = k
  BY <1>1, <1>3 DEF GivenUp, FlushType
<1>5. [g EXCEPT !.built[i] = None, !.tries = @ + 1, !.stale = {}] = m
  BY <1>1 DEF FlushType
<1> HIDE DEF b, g
<1>9. 0 \in 0 .. CasAttempts /\ 0 # CasAttempts
  BY InodeTimesAssumption
<1>6. FlushGood(h, rec)
  <2>1. /\ h \in FlushType /\ h.left = g.left \ {i} /\ h.built = b
        /\ h.due = g.due /\ h.failed = g.failed /\ h.tries = 0
    BY <1>1, <1>2, <1>9 DEF FlushType
  <2> HIDE DEF h
  <2> QED
    BY <1>1, <1>2, <1>9, <2>1 DEF FlushGood, FlushOK, Follows
<1>7. FlushGood(k, rec)
  <2>1. /\ k \in FlushType /\ k.left = g.left \ {i} /\ k.built = b
        /\ k.due = g.due /\ k.failed = g.failed \union {i} /\ k.tries = 0
    BY <1>1, <1>2, <1>9 DEF FlushType
  <2> HIDE DEF k
  <2> QED
    BY <1>1, <1>2, <1>9, <2>1 DEF FlushGood, FlushOK, Follows, g
<1>8. ASSUME g.tries + 1 # CasAttempts PROVE FlushGood(m, rec)
  <2>1. g.tries + 1 \in 0 .. CasAttempts
    BY <1>1, InodeTimesAssumption DEF FlushOK, FlushType
  <2>2. /\ m \in FlushType /\ m.left = g.left /\ m.built = b
        /\ m.due = g.due /\ m.failed = g.failed /\ m.tries = g.tries + 1
    BY <1>1, <1>2, <2>1 DEF FlushType
  <2> HIDE DEF m
  <2> QED
    BY <1>1, <1>2, <1>8, <2>2 DEF FlushGood, FlushOK, Follows
<1> HIDE DEF h, k, m
<1> QED
  BY <1>3, <1>4, <1>5, <1>6, <1>7, <1>8 DEF g

LEMMA SingleReadKeeps ==
  ASSUME ModeInv, NEW f \in Flushes, NEW i \in Inodes, SingleRead(f, i)
  PROVE  ModeInv'
<1> DEFINE g == fl[f]
           r == NewRecord(f, i)
           b == [g.built EXCEPT ![i] = r]
           h == [g EXCEPT !.one = i, !.built = b]
<1>1. g \in FlushType /\ FlushOK(g) /\ g.pc = "single" /\ \A j \in Inodes : g.built[j] = None
  BY DEF ModeInv, Flushing, FlushGood, SingleRead, Built
<1>2. /\ g.due[i] # None /\ r \in Record \union {None} /\ (r # None => r.mode = rec[i].mode)
  BY NewRecordTyped DEF SingleRead
<1>3. FlushGood(Settled(g, i), rec) /\ FlushGood(GivenUp(g, i), rec)
  BY <1>1, <1>2, SettledGood
<1>4. /\ b \in [Inodes -> Record \union {None}]
      /\ \A j \in Inodes : b[j] = IF j = i THEN r ELSE None
  BY <1>1, <1>2 DEF FlushType
<1>5. \/ /\ fl' = [fl EXCEPT ![f] = IF r = None THEN Settled(g, i) ELSE h] /\ UNCHANGED errors
      \/ fl' = [fl EXCEPT ![f] = GivenUp(g, i)] /\ Fails
  BY <1>1 DEF SingleRead, FlushType, ModeInv, Flushing
<1> HIDE DEF g, b, r
<1>6. FlushGood(h, rec)
  <2>1. /\ h \in FlushType /\ h.left = g.left /\ h.built = b /\ h.stale = g.stale
        /\ h.due = g.due /\ h.failed = g.failed /\ h.tries = g.tries
    BY <1>1, <1>4 DEF FlushType
  <2> HIDE DEF h
  <2> QED
    BY <1>1, <1>2, <1>4, <2>1 DEF FlushGood, FlushOK, Follows
<1> HIDE DEF h
<1>7. Flushing'
  BY <1>3, <1>5, <1>6, FlushMoves DEF SingleRead
<1>8. RecordTypes' /\ ModeKept' /\ Calling'
  BY RecordsStay, CallsStay DEF SingleRead
<1>9. QueueTypes'
  BY <1>5, FailsTyped DEF SingleRead, ModeInv, QueueTypes
<1> QED
  BY <1>7, <1>8, <1>9 DEF ModeInv

LEMMA SingleCommitKeeps ==
  ASSUME ModeInv, NEW f \in Flushes, NEW i \in Inodes, SingleCommit(f, i)
  PROVE  ModeInv'
<1> DEFINE m == [fl[f] EXCEPT !.built[i] = None, !.tries = @ + 1, !.stale = {}]
<1>1. fl[f] \in FlushType /\ FlushOK(fl[f]) /\ fl[f].pc = "single" /\ i \in Built(f)
  BY DEF ModeInv, Flushing, FlushGood, SingleCommit
<1>2. fl[f].due[i] # None /\ \A j \in Inodes \ {i} : fl[f].built[j] = None
  BY <1>1 DEF FlushOK, Built
<1>3. /\ FlushGood(Settled(fl[f], i), rec) /\ FlushGood(GivenUp(fl[f], i), rec)
      /\ fl[f].tries + 1 # CasAttempts => FlushGood(m, rec)
  BY <1>2, SettledGood
<1>4. PICK is \in {{}, {i}}, n \in {Settled(fl[f], i), GivenUp(fl[f], i), m} :
        /\ FlushWrites(f, is, n) /\ (is # {} => Fresh(f, is)) /\ (Fails \/ UNCHANGED errors)
        /\ n = m => FlushGood(m, rec)
  BY <1>3 DEF SingleCommit
<1>5. is \in SUBSET Built(f)
  BY <1>1
<1> QED
  BY <1>3, <1>4, <1>5, FlushWritesKeeps DEF SingleCommit

LEMMA FlushEndKeeps ==
  ASSUME ModeInv, NEW f \in Flushes, FlushEnd(f)
  PROVE  ModeInv'
<1>1. fl[f] \in FlushType /\ FlushOK(fl[f])
  BY DEF ModeInv, Flushing, FlushGood
<1>2. \A i \in fl[f].failed : fl[f].due[i] \in Update
  BY <1>1 DEF FlushType, FlushOK
<1>3. \A i \in Inodes : dirty[i] \in Update \union {None}
  BY DEF ModeInv, QueueTypes
<1>4. \A i \in Inodes : i \in fl[f].failed => Requeued(fl[f].due[i], dirty[i]) \in Update
  BY <1>2, <1>3, RequeuedTyped
<1>5. dirty' \in [Inodes -> Update \union {None}]
  BY <1>3, <1>4 DEF FlushEnd
<1>6. excused' \subseteq Inodes
  BY <1>1 DEF FlushEnd, FlushType, ModeInv, QueueTypes
<1>7. Flushing'
  BY NoFlushGood, FlushMoves DEF FlushEnd
<1>8. RecordTypes' /\ ModeKept' /\ Calling'
  BY RecordsStay, CallsStay DEF FlushEnd
<1>9. QueueTypes'
  BY <1>5, <1>6 DEF FlushEnd, ModeInv, QueueTypes
<1> QED
  BY <1>7, <1>8, <1>9 DEF ModeInv

-----------------------------------------------------------------------------
(* handleSetattr. *)

LEMMA SetattrBeginKeeps ==
  ASSUME ModeInv, NEW s \in Setattrs, NEW i \in Inodes, NEW ask \in Ask, SetattrBegin(s, i, ask)
  PROVE  ModeInv'
<1> DEFINE a == IF Enforces(rec[i], ask) THEN "take" ELSE "asked"
           b == (Others(s, i) = {})
           c == [NoSetattr EXCEPT !.ino = i, !.ask = ask, !.base = rec[i], !.alone = b, !.pc = a]
<1>1. a \in {"take", "asked"} /\ b \in BOOLEAN /\ rec[i] \in Record
  BY DEF ModeInv, RecordTypes
<1>2. sa' = [Crowd(i) EXCEPT ![s] = c]
  BY DEF SetattrBegin
<1> HIDE DEF a, b
<1>3. SetattrGood(c)
  BY <1>1, NoSetattrGood DEF SetattrGood, SetattrType, NoSetattr
<1> HIDE DEF c
<1>4. \A t \in Setattrs : SetattrGood([sa[t] EXCEPT !.alone = sa[t].alone /\ sa[t].ino # i])
  BY CallOvertaken
<1>5. \A t \in Setattrs : sa'[t] = IF t = s THEN c ELSE [sa[t] EXCEPT !.alone = sa[t].alone /\ sa[t].ino # i]
  BY <1>2 DEF Crowd
<1>6. \A t \in Setattrs : SetattrGood(sa'[t])
  BY <1>3, <1>4, <1>5, Zenon
<1>7. sa' = [t \in Setattrs |-> sa'[t]]
  BY <1>2 DEF Crowd
<1>8. sa' \in [Setattrs -> SetattrType]
  BY <1>6, <1>7 DEF SetattrGood
<1>9. calls' \in 0 .. load.calls
  BY InodeTimesAssumption DEF SetattrBegin, ModeInv, QueueTypes
<1>10. QueueTypes'
  BY <1>9 DEF SetattrBegin, ModeInv, QueueTypes
<1>11. RecordTypes' /\ ModeKept' /\ Flushing'
  BY RecordsStay, FlushesStay DEF SetattrBegin
<1> QED
  BY <1>6, <1>8, <1>10, <1>11 DEF ModeInv, Calling

LEMMA DeferBaseKeeps ==
  ASSUME ModeInv, NEW s \in Setattrs, DeferBase(s)
  PROVE  ModeInv'
<1> DEFINE p == Pending(sa[s].ino, sa[s].base)
           c == [sa[s] EXCEPT !.pc = "queue", !.base = p]
<1>1. SetattrGood(sa[s]) /\ sa[s].pc = "asked"
  BY DEF ModeInv, Calling, DeferBase
<1>2. sa[s].ino \in Inodes /\ sa[s].base \in Record
  BY <1>1 DEF SetattrGood
<1>3. p \in Record
  BY <1>2, ApplyKeepsMode DEF Pending, ModeInv, QueueTypes
<1>4. sa' = [sa EXCEPT ![s] = c]
  BY DEF DeferBase, ModeInv, Calling, SetattrType
<1> HIDE DEF p
<1>5. SetattrGood(c)
  BY <1>1, <1>3 DEF SetattrGood, SetattrType
<1> HIDE DEF c
<1>6. Calling'
  BY <1>4, <1>5, CallMoves
<1>7. RecordTypes' /\ ModeKept' /\ Flushing'
  BY RecordsStay, FlushesStay DEF DeferBase
<1>8. QueueTypes'
  BY DEF DeferBase, ModeInv, QueueTypes
<1> QED
  BY <1>6, <1>7, <1>8 DEF ModeInv

\* What a call that ends tells, and gives back.
LEMMA ToldTyped ==
  ASSUME ModeInv, NEW s \in Setattrs, sa[s].pc # "idle"
  PROVE  Told(s) \in [Inodes -> Time \union {None}]
BY DEF Told, ModeInv, QueueTypes, Calling, SetattrGood, Ask

LEMMA GiveBackTyped ==
  ASSUME ModeInv, NEW s \in Setattrs, sa[s].pc # "idle", GiveBack(s)
  PROVE  dirty' \in [Inodes -> Update \union {None}] /\ excused' \subseteq Inodes
<1>1. sa[s].ino \in Inodes /\ sa[s].taken \in Update \union {None}
  BY DEF ModeInv, Calling, SetattrGood, SetattrType
<1>2. sa[s].taken # None => Requeued(sa[s].taken, dirty[sa[s].ino]) \in Update
  BY <1>1, RequeuedTyped DEF ModeInv, QueueTypes
<1> QED
  BY <1>1, <1>2 DEF GiveBack, ModeInv, QueueTypes

LEMMA DeferQueueKeeps ==
  ASSUME ModeInv, NEW s \in Setattrs, DeferQueue(s)
  PROVE  ModeInv'
<1> DEFINE i == sa[s].ino
           u == Moved(sa[s].base, SetFields(sa[s].base, sa[s].ask, now'))
<1>1. now' \in Time
  BY TickTyped DEF DeferQueue
<1>2. i \in Inodes /\ sa[s].ask \in Ask /\ sa[s].base \in Record /\ sa[s].pc = "queue"
  BY DEF DeferQueue, ModeInv, Calling, SetattrGood
<1>3. u \in Update
  BY <1>1, <1>2, FieldsTyped, MovedTyped
<1>4. /\ dirty' = IF u.set = {} THEN dirty ELSE [dirty EXCEPT ![i] = MergeAssignment(Queued(i), u)]
      /\ excused' = excused \union {j \in {i} : DropsBump(Queued(i), u) \/ Mistaken(s, u)}
  BY DEF DeferQueue
<1> HIDE DEF u, i
<1>5. MergeAssignment(Queued(i), u) \in Update
  BY <1>2, <1>3, QueuedTyped, UpdatesTyped
<1>6. dirty' \in [Inodes -> Update \union {None}] /\ excused' \subseteq Inodes
  BY <1>2, <1>4, <1>5 DEF ModeInv, QueueTypes
<1>7. told' \in [Inodes -> Time \union {None}]
  BY <1>2, ToldTyped DEF DeferQueue
<1>8. Calling'
  BY NoSetattrGood, CallMoves DEF DeferQueue
<1>9. RecordTypes' /\ ModeKept' /\ Flushing'
  BY RecordsStay, FlushesStay DEF DeferQueue
<1>10. QueueTypes'
  BY <1>1, <1>6, <1>7 DEF DeferQueue, ModeInv, QueueTypes
<1> QED
  BY <1>8, <1>9, <1>10 DEF ModeInv

LEMMA SetattrTakeKeeps ==
  ASSUME ModeInv, NEW s \in Setattrs, SetattrTake(s)
  PROVE  ModeInv'
<1> DEFINE u == dirty[sa[s].ino]
           c == [sa[s] EXCEPT !.pc = "read", !.taken = u, !.base = None]
<1>1. SetattrGood(sa[s]) /\ sa[s].pc = "take" /\ sa[s].ino \in Inodes
  BY DEF ModeInv, Calling, SetattrGood, SetattrTake
<1>2. u \in Update \union {None}
  BY <1>1 DEF ModeInv, QueueTypes
<1>3. sa' = [sa EXCEPT ![s] = c]
  BY DEF SetattrTake, ModeInv, Calling, SetattrType
<1> HIDE DEF u
<1>4. SetattrGood(c)
  BY <1>1, <1>2 DEF SetattrGood, SetattrType
<1> HIDE DEF c
<1>5. Calling'
  BY <1>3, <1>4, CallMoves
<1>6. RecordTypes' /\ ModeKept' /\ Flushing'
  BY RecordsStay, FlushesStay DEF SetattrTake
<1>7. QueueTypes'
  BY <1>1 DEF SetattrTake, ModeInv, QueueTypes
<1> QED
  BY <1>5, <1>6, <1>7 DEF ModeInv

LEMMA SetattrReadKeeps ==
  ASSUME ModeInv, NEW s \in Setattrs, SetattrRead(s)
  PROVE  ModeInv'
<1> DEFINE i == sa[s].ino
           q == IF sa[s].taken = None THEN rec[i] ELSE Apply(sa[s].taken, rec[i])
           n == SetFields(q, sa[s].ask, now')
           c == [sa[s] EXCEPT !.pc = "commit", !.stale = FALSE, !.built = n]
<1>1. SetattrGood(sa[s]) /\ sa[s].pc = "read" /\ i \in Inodes /\ sa[s].ask \in Ask
  BY DEF ModeInv, Calling, SetattrGood, SetattrRead
<1>2. RecordTypes' /\ ModeKept' /\ Flushing'
  BY RecordsStay, FlushesStay DEF SetattrRead
<1>3. CASE /\ Tick /\ UNCHANGED <<dirty, errors, excused>>
           /\ sa' = [sa EXCEPT ![s].pc = "commit", ![s].stale = FALSE, ![s].built = n]
  <2>1. q \in Record
    BY <1>1, ApplyKeepsMode DEF ModeInv, RecordTypes, SetattrGood, SetattrType
  <2>2. now' \in Time
    BY <1>3, TickTyped
  <2>3. sa' = [sa EXCEPT ![s] = c]
    BY <1>3 DEF ModeInv, Calling, SetattrType
  <2> HIDE DEF q
  <2>4. n \in Record
    BY <1>1, <2>1, <2>2, FieldsTyped
  <2> HIDE DEF n
  <2>5. SetattrGood(c)
    BY <1>1, <2>4 DEF SetattrGood, SetattrType
  <2> HIDE DEF c
  <2>6. Calling'
    BY <2>3, <2>5, CallMoves
  <2>7. QueueTypes'
    BY <1>3, <2>2 DEF SetattrRead, ModeInv, QueueTypes
  <2> QED
    BY <1>2, <2>6, <2>7 DEF ModeInv
<1>4. CASE /\ Fails \/ UNCHANGED errors
           /\ GiveBack(s) /\ sa' = [sa EXCEPT ![s] = NoSetattr] /\ UNCHANGED now
  <2>1. Calling'
    BY <1>4, NoSetattrGood, CallMoves
  <2>2. dirty' \in [Inodes -> Update \union {None}] /\ excused' \subseteq Inodes
    BY <1>1, <1>4, GiveBackTyped
  <2>3. QueueTypes'
    BY <1>4, <2>2, FailsTyped DEF SetattrRead, ModeInv, QueueTypes
  <2> QED
    BY <1>2, <2>1, <2>3 DEF ModeInv
<1> QED
  BY <1>3, <1>4, Zenon DEF SetattrRead

\* commitSetattr writes a record: the copies others have built of it are stale.
LEMMA SetattrWritesKeeps ==
  ASSUME ModeInv, NEW s \in Setattrs, sa[s].pc = "commit", SetattrWrites(s)
  PROVE  RecordTypes' /\ ModeKept' /\ Flushing' /\ Calling'
<1> DEFINE i == sa[s].ino
           n == sa[s].built
<1>1. i \in Inodes /\ n \in Record
  BY DEF ModeInv, Calling, SetattrGood
<1>2. /\ rec' = [rec EXCEPT ![i] = n] /\ chmods' = [chmods EXCEPT ![i] = n.mode]
      /\ fl' = [f \in Flushes |-> StaleFlush(f, {i})]
  BY DEF SetattrWrites
<1>3. sa' = [t \in Setattrs |-> IF t = s THEN NoSetattr ELSE StaleSetattr(t, {i})]
  BY DEF SetattrWrites
<1> HIDE DEF i, n
<1>4. /\ rec' \in [Inodes -> Record] /\ chmods' \in [Inodes -> Modes]
      /\ \A j \in Inodes : rec'[j] = IF j = i THEN n ELSE rec[j]
      /\ \A j \in Inodes : chmods'[j] = IF j = i THEN n.mode ELSE chmods[j]
  BY <1>1, <1>2 DEF ModeInv, RecordTypes, Record
<1>5. RecordTypes' /\ ModeKept'
  BY <1>4 DEF RecordTypes, ModeInv, ModeKept
<1>6. Flushing'
  BY <1>1, <1>2, <1>4, FlushesOvertaken
<1>7. \A t \in Setattrs : SetattrGood(IF t = s THEN NoSetattr ELSE StaleSetattr(t, {i}))
  BY CallOvertaken, NoSetattrGood
<1>8. Calling'
  BY <1>3, <1>7 DEF Calling, SetattrGood
<1> QED
  BY <1>5, <1>6, <1>8

LEMMA SetattrCommitKeeps ==
  ASSUME ModeInv, NEW s \in Setattrs, SetattrCommit(s)
  PROVE  ModeInv'
<1>1. RecordTypes' /\ ModeKept' /\ Flushing' /\ Calling'
  BY SetattrWritesKeeps DEF SetattrCommit
<1>2. told' \in [Inodes -> Time \union {None}]
  BY ToldTyped DEF SetattrCommit
<1>3. QueueTypes'
  BY <1>2 DEF SetattrCommit, ModeInv, QueueTypes
<1> QED
  BY <1>1, <1>3 DEF ModeInv

LEMMA SetattrAgainKeeps ==
  ASSUME ModeInv, NEW s \in Setattrs, SetattrAgain(s)
  PROVE  ModeInv'
<1> DEFINE c == [sa[s] EXCEPT !.pc = "take", !.taken = None, !.built = None, !.tries = @ + 1]
<1>1. SetattrGood(sa[s]) /\ sa[s].pc = "commit"
  BY DEF ModeInv, Calling, SetattrAgain
<1>2. sa' = [sa EXCEPT ![s] = IF sa[s].tries = SetattrRetries THEN NoSetattr ELSE c]
  BY Zenon DEF SetattrAgain
<1>3. ASSUME sa[s].tries # SetattrRetries PROVE SetattrGood(c)
  <2>1. sa[s].tries + 1 \in 0 .. SetattrRetries
    BY <1>1, <1>3, InodeTimesAssumption DEF SetattrGood, SetattrType
  <2> QED
    BY <1>1, <2>1 DEF SetattrGood, SetattrType
<1> HIDE DEF c
<1>4. Calling'
  BY <1>2, <1>3, NoSetattrGood, CallMoves
<1>5. dirty' \in [Inodes -> Update \union {None}] /\ excused' \subseteq Inodes
  BY <1>1, GiveBackTyped DEF SetattrAgain
<1>6. RecordTypes' /\ ModeKept' /\ Flushing'
  BY RecordsStay, FlushesStay DEF SetattrAgain
<1>7. QueueTypes'
  BY <1>5 DEF SetattrAgain, ModeInv, QueueTypes
<1> QED
  BY <1>4, <1>6, <1>7 DEF ModeInv

LEMMA SetattrFailsKeeps ==
  ASSUME ModeInv, NEW s \in Setattrs, SetattrFails(s)
  PROVE  ModeInv'
<1>1. sa[s].ino \in Inodes /\ sa[s].pc = "commit"
  BY DEF ModeInv, Calling, SetattrGood, SetattrFails
<1>2. told' \in [Inodes -> Time \union {None}] /\ excused' \subseteq Inodes
  BY <1>1 DEF SetattrFails, ModeInv, QueueTypes
<1>3. errors' \in 0 .. load.errors
  BY FailsTyped DEF SetattrFails
<1>4. QueueTypes'
  BY <1>2, <1>3 DEF SetattrFails, ModeInv, QueueTypes
<1>5. CASE SetattrWrites(s)
  BY <1>1, <1>4, <1>5, SetattrWritesKeeps DEF ModeInv
<1>6. CASE sa' = [sa EXCEPT ![s] = NoSetattr] /\ UNCHANGED <<rec, fl, chmods, told>>
  <2>1. RecordTypes' /\ ModeKept' /\ Flushing' /\ Calling'
    BY <1>6, NoSetattrGood, CallMoves, RecordsStay, FlushesStay
  <2> QED
    BY <1>4, <2>1 DEF ModeInv
<1> QED
  BY <1>5, <1>6 DEF SetattrFails

-----------------------------------------------------------------------------
LEMMA ModeInvStarts == Init => ModeInv
<1> SUFFICES ASSUME Init PROVE ModeInv
  OBVIOUS
<1>1. (CHOOSE m \in Modes : TRUE) \in Modes
  BY InodeTimesAssumption
<1>2. chmods \in [Inodes -> Modes]
  BY <1>1 DEF Init
<1>3. RecordTypes /\ ModeKept
  <2>1. \A m \in Modes : [alive |-> TRUE, mode |-> m, mtime |-> 1, ctime |-> 1] \in Record
    BY DEF Record, Time
  <2>2. \A i \in Inodes : rec[i] = [alive |-> TRUE, mode |-> chmods[i], mtime |-> 1, ctime |-> 1]
    BY DEF Init
  <2>3. rec \in [Inodes -> Record]
    BY <1>2, <2>1, Zenon DEF Init
  <2> QED
    BY <1>2, <2>2, <2>3 DEF RecordTypes, ModeKept
<1>4. QueueTypes
  BY InodeTimesAssumption DEF Init, QueueTypes, Time
<1>5. Flushing
  BY NoFlushGood DEF Init, Flushing, FlushGood
<1>6. Calling
  BY NoSetattrGood DEF Init, Calling, SetattrGood
<1> QED
  BY <1>3, <1>4, <1>5, <1>6 DEF ModeInv

LEMMA ModeInvKept == ModeInv /\ [Next]_vars => ModeInv'
<1> SUFFICES ASSUME ModeInv, [Next]_vars PROVE ModeInv'
  OBVIOUS
<1>1. load.inodes \subseteq Inodes /\ load.flushes \subseteq Flushes /\ load.setattrs \subseteq Setattrs
  BY InodeTimesAssumption DEF ModeInv, QueueTypes
<1>2. ASSUME NEW i \in load.inodes, TouchDir(i) \/ PeerChmod(i) \/ PeerUtimes(i) \/ PeerRemove(i)
      PROVE  ModeInv'
  BY <1>1, <1>2, TouchDirKeeps, PeerChmodKeeps, PeerUtimesKeeps, PeerRemoveKeeps
<1>3. ASSUME NEW f \in load.flushes, FlushStep(f)
      PROVE  ModeInv'
  <2>1. f \in Flushes
    BY <1>1
  <2>2. ASSUME NEW i \in load.inodes, BatchRead(f, i) \/ SingleRead(f, i) \/ SingleCommit(f, i)
        PROVE  ModeInv'
    BY <1>1, <2>1, <2>2, BatchReadKeeps, SingleReadKeeps, SingleCommitKeeps
  <2> QED
    BY <1>3, <2>1, <2>2, BatchCommitKeeps, FlushEndKeeps DEF FlushStep
<1>4. ASSUME NEW f \in load.flushes, NEW is \in SUBSET load.inodes, FlushTake(f, is)
      PROVE  ModeInv'
  BY <1>1, <1>4, FlushTakeKeeps
<1>5. ASSUME NEW s \in load.setattrs, SetattrStep(s)
      PROVE  ModeInv'
  BY <1>1, <1>5, DeferBaseKeeps, DeferQueueKeeps, SetattrTakeKeeps, SetattrReadKeeps,
     SetattrCommitKeeps, SetattrAgainKeeps, SetattrFailsKeeps DEF SetattrStep
<1>6. ASSUME NEW s \in load.setattrs, NEW i \in load.inodes, NEW ask \in Asks, SetattrBegin(s, i, ask)
      PROVE  ModeInv'
  <2>1. ask \in Ask
    BY DEF Asks, Ask, Time, ModeInv, QueueTypes
  <2> QED
    BY <1>1, <1>6, <2>1, SetattrBeginKeeps
<1>7. CASE UNCHANGED vars
  <2>1. RecordTypes' /\ ModeKept' /\ Flushing' /\ Calling'
    BY <1>7, RecordsStay, FlushesStay, CallsStay DEF vars
  <2> QED
    BY <1>7, <2>1 DEF vars, ModeInv, QueueTypes
<1> QED
  BY <1>2, <1>3, <1>4, <1>5, <1>6, <1>7, Zenon DEF Next

\* The state is what the code's types say: an update that is requeued was taken, a
\* record that is committed was built, a retry comes to an end (inodetimes.go).
THEOREM TimesTyping == Spec => []TypeOK
<1>1. ModeInv => TypeOK
  BY DEF ModeInv, QueueTypes, RecordTypes, Flushing, Calling, FlushType, SetattrType, TypeOK
<1> QED
  BY <1>1, ModeInvStarts, ModeInvKept, PTL DEF Spec

\* A timestamp is never published over a mode somebody else has set
\* (commitInodeTimesBatch, commitInodeTimes, commitSetattr), for any inodes, flushes,
\* setattr calls and peers.
THEOREM ModeIsKept == Spec => []ModeKept
<1>1. ModeInv => ModeKept
  BY DEF ModeInv
<1> QED
  BY <1>1, ModeInvStarts, ModeInvKept, PTL DEF Spec
=============================================================================
