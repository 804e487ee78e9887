------------------------------ MODULE Extents ------------------------------
(***************************************************************************)
(* The extent arithmetic of pkg/metadata/extent.go: which extent a read    *)
(* resolves a byte to, what a write, a truncate or a punched hole leaves   *)
(* of an extent it covers, and which device blocks that gives up.          *)
(*                                                                         *)
(* An extent record maps the logical bytes log .. log+len-1 of one file to *)
(* the device blocks from blk on.  Device offsets are always whole blocks  *)
(* (an allocator's run starts on one and a split advances by whole ones),  *)
(* so DiskOff is kept here as a block number.                              *)
(***************************************************************************)
EXTENDS Integers

CONSTANT BlockSize   \* bytes per device block

ASSUME BlockSizeAssumption == BlockSize \in Nat \ {0}

\* Besides the ranges: the key's chunk number, the write's sequence number and
\* the revision the record was last written at.
Extent == [chunk : Nat, seq : Nat, log : Nat, blk : Nat, len : Nat \ {0}, rev : Nat]

EndOf(e) == e.log + e.len

Covers(e, x) == e.log <= x /\ x < EndOf(e)

\* The whole blocks needed for n bytes.
BlocksFor(n) == (n + BlockSize - 1) \div BlockSize

\* The device blocks that hold an extent's bytes.
BlocksOf(e) == e.blk .. (e.blk + BlocksFor(e.len) - 1)

\* A list ordered by offset and key only, with no regard to recency.
BeforeByKey(a, b) ==
    \/ a.log < b.log
    \/ a.log = b.log /\ a.chunk < b.chunk

\* extentOrder: by logical offset, then the newest first, then the highest key.
Before(a, b) ==
    \/ a.log < b.log
    \/ a.log = b.log /\ a.seq > b.seq
    \/ a.log = b.log /\ a.seq = b.seq /\ a.chunk > b.chunk

\* The extent that serves byte x of a read: the walk of handleRead takes the
\* first extent, in that order, that reaches the cursor.
FirstCovering(exts, x) ==
    CHOOSE e \in exts : /\ Covers(e, x)
                        /\ \A f \in exts : Covers(f, x) /\ f # e => Before(e, f)

Supersedes(e, other) ==
    e.seq > other.seq /\ e.log <= other.log /\ EndOf(e) >= EndOf(other)

Intersects(e, start, end) == e.log < end /\ start < EndOf(e)

-----------------------------------------------------------------------------
(* SplitAround and CoveredBlocks. *)

HasHead(old, start) == start > old.log

HasTail(old, end) == end < EndOf(old)

HeadOf(old, start) == [old EXCEPT !.len = start - old.log]

\* The tail starts at the last block boundary of old that is not past the end
\* of the write: the distance is rounded down.
Skipped(old, end) == (end - old.log) \div BlockSize

TailOf(old, end) ==
    LET k == Skipped(old, end)
    IN  [old EXCEPT !.log = @ + k * BlockSize,
                    !.blk = @ + k,
                    !.len = @ - k * BlockSize]

\* Freeing from the start of the head's last block, shared or not.
CoveredFromTheCut(old, start, end) ==
    LET first == IF HasHead(old, start) THEN (start - old.log) \div BlockSize ELSE 0
        last  == IF HasTail(old, end) THEN Skipped(old, end) ELSE BlocksFor(old.len)
    IN  (old.blk + first) .. (old.blk + last - 1)

CoveredBlocks(old, start, end) ==
    LET first == IF HasHead(old, start) THEN BlocksFor(start - old.log) ELSE 0
        last  == IF HasTail(old, end) THEN Skipped(old, end) ELSE BlocksFor(old.len)
    IN  (old.blk + first) .. (old.blk + last - 1)

=============================================================================
