-------------------------- MODULE DirectoryListing --------------------------
(* Walks of directories by READDIR, and the cursors that let a page resume.

   A READDIR asks for a position.  The daemon keeps one cursor per directory,
   the position the last reply ended at and the name it ended on: a request for
   that very position is answered by a range read from the name, any other by
   reading the directory and skipping.  Walks of one directory by several
   processes share its cursor, and names come and go meanwhile.

   A name is its place in the order of the dirent keys.  How many entries fit a
   reply (truncateToBuffer) is a choice, and so is how many of them the kernel
   hands on before it asks again.  Left out: the attributes of READDIRPLUS, and
   the listings the kernel caches itself. *)
EXTENDS Naturals, Sequences, FiniteSets, FiniteSetsExt, SequencesExt

CONSTANTS
  Dirs, Walks,
  Names,          \* of entries, ordered as their keys
  None,
  CursorMax,      \* dirCursorMax
  PageSizes,      \* entries that fit a reply
  MaxChanges,     \* bounds: names added or removed, failed requests
  MaxErrors

ASSUME DirectoryListingAssumption ==
  /\ Names \subseteq Nat \ {0} /\ IsFiniteSet(Names)
  /\ CursorMax \in Nat \ {0}
  /\ PageSizes \subseteq Nat \ {0}
  /\ MaxChanges \in Nat /\ MaxErrors \in Nat

VARIABLES
  content,   \* dirent:<dir>/ in etcd
  cursor,    \* dirCursors.m
  recent,    \* the directories with a cursor, least recently used first
  walk,      \* per process: its listing, and the request it has in flight
  changes, errors

vars == <<content, cursor, recent, walk, changes, errors>>

Cursor == [offset : Nat, name : Names]

\* got: what the process was handed; kept: names there since it began; old: it
\* began before the last change of the directory; crossed: such a walk was under
\* way beside it; resumed: every page of it was read after the name it had last.
NoWalk == [pc |-> "idle", dir |-> None, off |-> 0, after |-> None, page |-> <<>>,
           got |-> <<>>, kept |-> {}, old |-> FALSE, crossed |-> FALSE, resumed |-> TRUE]

TypeOK ==
  /\ content \in [Dirs -> SUBSET Names]
  /\ cursor \in [Dirs -> Cursor \union {None}]
  /\ ToSet(recent) = {d \in Dirs : cursor[d] # None} /\ IsInjective(recent)
  /\ Len(recent) <= CursorMax
  /\ \A w \in Walks :
       /\ walk[w].pc \in {"idle", "ask", "read", "send", "done"}
       /\ walk[w].dir \in Dirs \union {None}
       /\ walk[w].off = Len(walk[w].got)
       /\ walk[w].after \in Names \union {None}
       /\ walk[w].page \in Seq(Names)
  /\ changes \in 0 .. MaxChanges /\ errors \in 0 .. MaxErrors

-----------------------------------------------------------------------------
(* The cursors. *)

Used(d) == Append(SelectSeq(recent, LAMBDA e : e # d), d)

\* resumeAt finds a cursor for the request.
ResumesAnywhere(w) == walk[w].off # 0 /\ cursor[walk[w].dir] # None
Resumes(w) ==
  LET c == cursor[walk[w].dir] IN
  walk[w].off # 0 /\ c # None /\ c.offset = walk[w].off

\* The directory whose cursor makes room for one of d.
EvictNone(d) == {}
Evicted(d) ==
  IF Len(recent) >= CursorMax /\ cursor[d] = None THEN {Head(recent)} ELSE {}

\* record
Record(d, offset, name) ==
  /\ cursor' = [e \in Dirs |->
       IF e = d THEN [offset |-> offset, name |-> name]
       ELSE IF e \in Evicted(d) THEN None ELSE cursor[e]]
  /\ recent' = SelectSeq(Used(d), LAMBDA e : e \notin Evicted(d))

-----------------------------------------------------------------------------
(* One page: readdirResp, direntPage. *)

\* A process opens the directory.
Open(w, d) ==
  /\ walk[w].pc = "idle"
  /\ walk' = [walk EXCEPT ![w] = [NoWalk EXCEPT !.pc = "ask", !.dir = d, !.kept = content[d],
       !.crossed = \E v \in Walks : walk[v].dir = d /\ walk[v].old /\ walk[v].pc # "done"]]
  /\ UNCHANGED <<content, cursor, recent, changes, errors>>

\* The cursor is looked up.  One that has not been used for a minute is passed
\* over, which a request may meet at any time.
Ask(w) ==
  LET d == walk[w].dir IN
  /\ walk[w].pc = "ask"
  /\ \/ /\ Resumes(w)
        /\ walk' = [walk EXCEPT ![w].pc = "read", ![w].after = cursor[d].name,
                                ![w].resumed = @ /\ cursor[d].name = Last(walk[w].got)]
        /\ recent' = Used(d)
     \/ /\ walk' = [walk EXCEPT ![w].pc = "read", ![w].after = None,
                                ![w].resumed = @ /\ walk[w].off = 0]
        /\ UNCHANGED recent
  /\ UNCHANGED <<content, cursor, changes, errors>>

InOrder(S) == SetToSortSeq(S, <)

Skip(s, n) == SubSeq(s, n + 1, Len(s))

\* ListDirentsAfter, or ListDirents and the skipping of what was returned.
Entries(w) ==
  LET there == content[walk[w].dir] IN
  IF walk[w].after # None
    THEN InOrder({x \in there : x > walk[w].after})
    ELSE Skip(InOrder(there), walk[w].off)

\* The range is read and cut to the reply's buffer.
Read(w, size) ==
  LET all  == Entries(w)
      page == SubSeq(all, 1, Min({size, Len(all)}))
  IN
  /\ walk[w].pc = "read"
  /\ walk' = [walk EXCEPT ![w].pc = "send", ![w].page = page]
  /\ UNCHANGED <<content, cursor, recent, changes, errors>>

\* Where the page ends is recorded, before anything else can fail.
RecordEnd(w) ==
  LET page == walk[w].page IN
  IF page = <<>> THEN UNCHANGED <<cursor, recent>>
    ELSE Record(walk[w].dir, walk[w].off + Len(page), Last(page))

\* The inode records are read and the page is sent; the kernel hands on the
\* first n entries and asks again from there.  An empty page ends the listing.
Reply(w, n) ==
  LET page == walk[w].page IN
  /\ walk[w].pc = "send"
  /\ n \in (IF page = <<>> THEN {0} ELSE 1 .. Len(page))
  /\ walk' = [walk EXCEPT ![w].pc = IF page = <<>> THEN "done" ELSE "ask",
                          ![w].off = @ + n, ![w].page = <<>>,
                          ![w].got = @ \o SubSeq(page, 1, n)]
  /\ RecordEnd(w)
  /\ UNCHANGED <<content, changes, errors>>

\* The records cannot be read: EIO, with the cursor already moved on.  The
\* process asks for the same position again.
ReplyFails(w) ==
  /\ walk[w].pc = "send" /\ errors < MaxErrors
  /\ errors' = errors + 1
  /\ walk' = [walk EXCEPT ![w].pc = "ask", ![w].page = <<>>]
  /\ RecordEnd(w)
  /\ UNCHANGED <<content, changes>>

\* A name is added to or removed from the directory, on any node.
Change(d, x) ==
  /\ changes < MaxChanges
  /\ changes' = changes + 1
  /\ content' = [content EXCEPT ![d] = (@ \union {x}) \ (@ \intersect {x})]
  /\ walk' = [w \in Walks |->
       IF walk[w].dir # d \/ walk[w].pc = "done" THEN walk[w]
       ELSE [walk[w] EXCEPT !.kept = @ \ {x}, !.old = TRUE]]
  /\ UNCHANGED <<cursor, recent, errors>>

Init ==
  /\ content \in [Dirs -> SUBSET Names]
  /\ cursor = [d \in Dirs |-> None] /\ recent = <<>>
  /\ walk = [w \in Walks |-> NoWalk]
  /\ changes = 0 /\ errors = 0

Next ==
  \/ \E w \in Walks :
       \/ \E d \in Dirs : Open(w, d)
       \/ Ask(w) \/ ReplyFails(w)
       \/ \E size \in PageSizes : Read(w, size)
       \/ \E n \in 0 .. Max(PageSizes) : Reply(w, n)
  \/ \E d \in Dirs, x \in Names : Change(d, x)

Spec == Init /\ [][Next]_vars

-----------------------------------------------------------------------------
(* Properties. *)

Once(w) ==
  /\ IsInjective(walk[w].got)
  /\ walk[w].pc = "done" => walk[w].kept \subseteq ToSet(walk[w].got)

\* A walk of a directory that does not change hands out every name once,
\* whatever other walks do to the cursor: "the worst a wrong cursor can do is
\* start the page in the wrong place, and it can only be wrong in the way a
\* position already is" (readdircursor.go).
PositionsSuffice == \A w \in Walks : ~walk[w].old => Once(w)

\* The same unless a walk begun before the last change runs beside it; and a
\* walk that only ever resumed after the name it was handed last misses none of
\* the names that stay and repeats none, even while the directory changes.
ListedOnce ==
  \A w \in Walks :
    walk[w].resumed \/ ~(walk[w].old \/ walk[w].crossed) => Once(w)
=============================================================================
