----------------------------- MODULE FileProofs -----------------------------
(* What the extents of a file and the file that nodes share promise: cutting an
   extent keeps every byte and frees only dead blocks, for every length and block
   size, and every implementation of SharedFile gives its users what SharedFile
   says follows from it. *)
EXTENDS Extents, SharedFile, TLAPS

-----------------------------------------------------------------------------
(* Extents. *)

\* Rounding down to whole blocks.
LEMMA DivBounds ==
    ASSUME NEW n \in Nat
    PROVE  /\ n \div BlockSize \in Nat
           /\ (n \div BlockSize) * BlockSize <= n
           /\ n < (n \div BlockSize) * BlockSize + BlockSize
  BY BlockSizeAssumption, SMTT(30)

LEMMA RestOfDiv ==
    ASSUME NEW n \in Nat
    PROVE  n % BlockSize = n - BlockSize * (n \div BlockSize)
  BY BlockSizeAssumption, SMTT(30)

\* Rounding up to whole blocks.
LEMMA BlocksForBounds ==
    ASSUME NEW n \in Nat
    PROVE  /\ BlocksFor(n) \in Nat
           /\ n <= BlocksFor(n) * BlockSize
           /\ BlocksFor(n) * BlockSize < n + BlockSize
  <1>1. n + BlockSize - 1 \in Nat
    BY BlockSizeAssumption
  <1> QED BY <1>1, DivBounds, BlockSizeAssumption DEF BlocksFor

LEMMA Monotone ==
    ASSUME NEW i \in Int, NEW j \in Int, i < j
    PROVE  i * BlockSize + BlockSize <= j * BlockSize
  BY BlockSizeAssumption, SMTT(30)

\* More bytes need no fewer blocks.
LEMMA BlocksForMonotone ==
    ASSUME NEW m \in Nat, NEW n \in Nat, m <= n
    PROVE  BlocksFor(m) <= BlocksFor(n)
  <1> DEFINE i == BlocksFor(m)
             j == BlocksFor(n)
  <1>1. i \in Nat /\ j \in Nat /\ i * BlockSize < m + BlockSize /\ n <= j * BlockSize
    BY BlocksForBounds
  <1> HIDE DEF i, j
  <1>2. i * BlockSize \in Nat /\ j * BlockSize \in Nat
    BY <1>1, BlockSizeAssumption
  <1>3. ~(j < i)
    <2> SUFFICES ASSUME j < i PROVE FALSE
      OBVIOUS
    <2>1. j * BlockSize + BlockSize <= i * BlockSize
      BY <1>1, Monotone
    <2> QED BY <1>1, <1>2, <2>1, BlockSizeAssumption
  <1> QED BY <1>1, <1>3 DEF i, j

\* Dropping k whole blocks from the front leaves k fewer.
LEMMA BlocksForRest ==
    ASSUME NEW n \in Nat, NEW k \in Nat, k * BlockSize <= n
    PROVE  BlocksFor(n - k * BlockSize) = BlocksFor(n) - k
  <1> DEFINE m == n - k * BlockSize
             i == BlocksFor(m)
             j == BlocksFor(n)
  <1>1. k * BlockSize \in Nat /\ m \in Nat
    BY BlockSizeAssumption
  <1>2. /\ i \in Nat /\ m <= i * BlockSize /\ i * BlockSize < m + BlockSize
        /\ j \in Nat /\ n <= j * BlockSize /\ j * BlockSize < n + BlockSize
    BY <1>1, BlocksForBounds
  <1>3. m + k * BlockSize = n
    BY <1>1
  <1> HIDE DEF i, j, m
  <1>4. (i + k) * BlockSize = i * BlockSize + k * BlockSize
    BY <1>2, BlockSizeAssumption
  <1>5. i * BlockSize \in Nat /\ j * BlockSize \in Nat
    BY <1>2, BlockSizeAssumption
  <1>6. ~(i + k < j)
    <2> SUFFICES ASSUME i + k < j PROVE FALSE
      OBVIOUS
    <2>1. (i + k) * BlockSize + BlockSize <= j * BlockSize
      BY <1>2, Monotone
    <2> QED BY <1>1, <1>2, <1>3, <1>4, <1>5, <2>1, BlockSizeAssumption
  <1>7. ~(j < i + k)
    <2> SUFFICES ASSUME j < i + k PROVE FALSE
      OBVIOUS
    <2>1. j * BlockSize + BlockSize <= (i + k) * BlockSize
      BY <1>2, Monotone
    <2> QED BY <1>1, <1>2, <1>3, <1>4, <1>5, <2>1, BlockSizeAssumption
  <1> QED BY <1>2, <1>6, <1>7 DEF i, j, m

LEMMA HeadFacts ==
    ASSUME NEW old \in Extent, NEW start \in Nat, HasHead(old, start), start < EndOf(old)
    PROVE  /\ HeadOf(old, start) \in Extent
           /\ HeadOf(old, start).log = old.log
           /\ HeadOf(old, start).blk = old.blk
           /\ HeadOf(old, start).len = start - old.log
           /\ HeadOf(old, start).seq = old.seq
  BY DEF HeadOf, HasHead, EndOf, Extent

LEMMA TailFacts ==
    ASSUME NEW old \in Extent, NEW end \in Nat, HasTail(old, end), old.log < end
    PROVE  /\ Skipped(old, end) \in Nat
           /\ Skipped(old, end) * BlockSize <= end - old.log
           /\ end - old.log < Skipped(old, end) * BlockSize + BlockSize
           /\ TailOf(old, end) \in Extent
           /\ TailOf(old, end).log = old.log + Skipped(old, end) * BlockSize
           /\ TailOf(old, end).blk = old.blk + Skipped(old, end)
           /\ TailOf(old, end).len = old.len - Skipped(old, end) * BlockSize
           /\ TailOf(old, end).seq = old.seq
  <1> DEFINE k == Skipped(old, end)
  <1>1. old.log \in Nat /\ old.blk \in Nat /\ old.len \in Nat /\ old.len > 0
    BY DEF Extent
  <1>2. end - old.log \in Nat
    BY <1>1
  <1>3. k \in Nat /\ k * BlockSize <= end - old.log /\ end - old.log < k * BlockSize + BlockSize
    BY <1>2, DivBounds DEF Skipped
  <1>4. k * BlockSize \in Nat
    BY <1>3, BlockSizeAssumption
  <1>5. end < old.log + old.len
    BY DEF HasTail, EndOf
  <1> HIDE DEF k
  <1>6. TailOf(old, end) = [old EXCEPT !.log = old.log + k * BlockSize,
                                       !.blk = old.blk + k,
                                       !.len = old.len - k * BlockSize]
    BY DEF TailOf, k
  <1>7. old.len - k * BlockSize \in Nat \ {0}
    BY <1>1, <1>3, <1>4, <1>5
  <1>8. /\ old.log + k * BlockSize \in Nat
        /\ old.blk + k \in Nat
    BY <1>1, <1>3, <1>4
  <1> QED BY <1>3, <1>6, <1>7, <1>8 DEF Extent, k

\* A write, truncate or punch over [start, end) leaves every other byte of the
\* extent it cuts readable through one of the pieces: rounding the tail down
\* never loses one.
THEOREM SplitKeepsEveryByte ==
    ASSUME NEW old \in Extent, NEW start \in Nat, NEW end \in Nat,
           start < end, Intersects(old, start, end),
           NEW x \in Nat, Covers(old, x), ~(start <= x /\ x < end)
    PROVE  \/ HasHead(old, start) /\ Covers(HeadOf(old, start), x)
           \/ HasTail(old, end) /\ Covers(TailOf(old, end), x)
  <1>1. old.log \in Nat /\ old.len \in Nat /\ old.log <= x /\ x < old.log + old.len
    BY DEF Extent, Covers, EndOf
  <1>2. CASE x < start
    <2>1. HasHead(old, start) /\ start < EndOf(old)
      BY <1>1, <1>2 DEF HasHead, Intersects, EndOf
    <2> QED BY <1>1, <1>2, <2>1, HeadFacts DEF Covers, EndOf
  <1>3. CASE end <= x
    <2>1. HasTail(old, end) /\ old.log < end
      BY <1>1, <1>3 DEF HasTail, EndOf, Intersects
    <2>2. Skipped(old, end) * BlockSize \in Nat
      BY <2>1, TailFacts, BlockSizeAssumption
    <2> QED BY <1>1, <1>3, <2>1, <2>2, TailFacts DEF Covers, EndOf
  <1> QED BY <1>2, <1>3

\* And it finds them in the device block they were in.
THEOREM SplitKeepsPlaces ==
    ASSUME NEW old \in Extent, NEW end \in Nat, HasTail(old, end), old.log < end,
           NEW x \in Nat, Covers(TailOf(old, end), x)
    PROVE  /\ Covers(old, x)
           /\ TailOf(old, end).blk + (x - TailOf(old, end).log) \div BlockSize
                = old.blk + (x - old.log) \div BlockSize
           /\ (x - TailOf(old, end).log) % BlockSize = (x - old.log) % BlockSize
  <1> DEFINE k == Skipped(old, end)
             y == x - (old.log + k * BlockSize)
  <1>1. old.log \in Nat /\ old.blk \in Nat /\ old.len \in Nat
    BY DEF Extent
  <1>2. k \in Nat /\ k * BlockSize \in Nat
    BY TailFacts, BlockSizeAssumption
  <1>3. y \in Nat /\ x < old.log + old.len
    BY <1>1, <1>2, TailFacts DEF Covers, EndOf
  <1>4. x - old.log = y + k * BlockSize
    BY <1>1, <1>2
  <1> HIDE DEF k, y
  <1>5. (y + k * BlockSize) \div BlockSize = (y \div BlockSize) + k
    BY <1>2, <1>3, BlockSizeAssumption, SMTT(30)
  <1>6. (y + k * BlockSize) % BlockSize = y % BlockSize
    <2> DEFINE z == y + k * BlockSize
    <2>1. z \in Nat
      BY <1>2, <1>3
    <2>2. z % BlockSize = z - BlockSize * (z \div BlockSize)
      BY <2>1, RestOfDiv
    <2>3. y % BlockSize = y - BlockSize * (y \div BlockSize)
      BY <1>3, RestOfDiv
    <2>4. y \div BlockSize \in Nat
      BY <1>3, DivBounds
    <2>5. BlockSize * ((y \div BlockSize) + k) = BlockSize * (y \div BlockSize) + k * BlockSize
      BY <1>2, <2>4, BlockSizeAssumption
    <2>6. BlockSize * (y \div BlockSize) \in Nat
      BY <2>4, BlockSizeAssumption
    <2> HIDE DEF z
    <2>7. z - BlockSize * (z \div BlockSize) = y - BlockSize * (y \div BlockSize)
      BY <1>2, <1>3, <1>5, <2>5, <2>6 DEF z
    <2> QED BY <2>2, <2>3, <2>7 DEF z
  <1>7. TailOf(old, end).log = old.log + k * BlockSize /\ TailOf(old, end).blk = old.blk + k
    BY TailFacts DEF k
  <1>8. x - TailOf(old, end).log = y
    BY <1>7 DEF y
  <1>9. y \div BlockSize \in Int
    BY <1>3, DivBounds
  <1>10. Covers(old, x)
    BY <1>1, <1>2, <1>3, <1>4 DEF Covers, EndOf
  <1> QED BY <1>1, <1>2, <1>4, <1>5, <1>6, <1>7, <1>8, <1>9, <1>10

LEMMA HeadBlocks ==
    ASSUME NEW old \in Extent, NEW start \in Nat, HasHead(old, start), start < EndOf(old)
    PROVE  /\ BlocksFor(start - old.log) \in Nat
           /\ BlocksFor(start - old.log) <= BlocksFor(old.len)
           /\ BlocksOf(HeadOf(old, start))
                = old.blk .. (old.blk + BlocksFor(start - old.log) - 1)
  <1>1. start - old.log \in Nat /\ old.len \in Nat /\ start - old.log <= old.len
    BY DEF Extent, HasHead, EndOf
  <1> QED BY <1>1, HeadFacts, BlocksForBounds, BlocksForMonotone DEF BlocksOf

LEMMA TailBlocks ==
    ASSUME NEW old \in Extent, NEW end \in Nat, HasTail(old, end), old.log < end
    PROVE  /\ Skipped(old, end) \in Nat
           /\ Skipped(old, end) <= BlocksFor(old.len)
           /\ BlocksOf(TailOf(old, end))
                = (old.blk + Skipped(old, end)) .. (old.blk + BlocksFor(old.len) - 1)
  <1> DEFINE k == Skipped(old, end)
             t == TailOf(old, end)
  <1>1. old.log \in Nat /\ old.blk \in Nat /\ old.len \in Nat
    BY DEF Extent
  <1>2. k \in Nat /\ k * BlockSize <= end - old.log /\ t.blk = old.blk + k
           /\ t.len = old.len - k * BlockSize
    BY TailFacts
  <1>3. end < old.log + old.len
    BY DEF HasTail, EndOf
  <1> HIDE DEF k, t
  <1>4. k * BlockSize \in Nat
    BY <1>2, BlockSizeAssumption
  <1>5. k * BlockSize <= old.len
    BY <1>1, <1>2, <1>3, <1>4
  <1>6. BlocksFor(t.len) = BlocksFor(old.len) - k
    BY <1>1, <1>2, <1>5, BlocksForRest
  <1>7. BlocksFor(old.len) \in Nat /\ old.len - k * BlockSize \in Nat
    BY <1>1, <1>4, <1>5, BlocksForBounds
  <1>8. BlocksFor(old.len) - k \in Nat
    BY <1>2, <1>6, <1>7, BlocksForBounds
  <1>9. t.blk + BlocksFor(t.len) - 1 = old.blk + BlocksFor(old.len) - 1
    BY <1>1, <1>2, <1>6, <1>7
  <1> QED BY <1>2, <1>7, <1>8, <1>9 DEF BlocksOf, k, t

\* A run that ends before another begins shares no block with it.
LEMMA RunsApart ==
    ASSUME NEW a \in Int, NEW m \in Int, NEW c \in Int, NEW d \in Int, m < c
    PROVE  (a .. m) \cap (c .. d) = {}
  <1>1. ASSUME NEW x \in a .. m, x \in c .. d PROVE FALSE
    BY <1>1
  <1> QED BY <1>1, Zenon

\* No block that CoveredBlocks gives back holds a byte of a surviving piece:
\* what a reclaim frees is named by nothing it leaves behind.
THEOREM SplitFreesOnlyDeadBlocks ==
    ASSUME NEW old \in Extent, NEW start \in Nat, NEW end \in Nat,
           start < end, Intersects(old, start, end)
    PROVE  /\ HasHead(old, start) => BlocksOf(HeadOf(old, start))
                                       \cap CoveredBlocks(old, start, end) = {}
           /\ HasTail(old, end) => BlocksOf(TailOf(old, end))
                                       \cap CoveredBlocks(old, start, end) = {}
  <1>1. old.blk \in Nat /\ old.log \in Nat /\ old.len \in Nat
    BY DEF Extent
  <1>2. start < EndOf(old) /\ old.log < end
    BY DEF Intersects
  <1>3. BlocksFor(old.len) \in Nat
    BY <1>1, BlocksForBounds
  <1> DEFINE b == old.blk
             N == BlocksFor(old.len)
             h == BlocksFor(start - old.log)
             k == Skipped(old, end)
             first == IF HasHead(old, start) THEN h ELSE 0
             last == IF HasTail(old, end) THEN k ELSE N
  <1>6. CoveredBlocks(old, start, end) = (b + first) .. (b + last - 1)
    BY DEF CoveredBlocks
  <1>7. HasHead(old, start) =>
            h \in Nat /\ BlocksOf(HeadOf(old, start)) = b .. (b + h - 1)
    BY <1>2, HeadBlocks
  <1>8. HasTail(old, end) =>
            k \in Nat /\ BlocksOf(TailOf(old, end)) = (b + k) .. (b + N - 1)
    BY <1>2, TailBlocks
  <1>9. b \in Nat /\ N \in Nat
    BY <1>1, <1>3
  <1> HIDE DEF b, N, h, k
  <1>10. first \in Nat /\ last \in Nat
    BY <1>7, <1>8, <1>9
  <1>4. ASSUME HasHead(old, start)
        PROVE  BlocksOf(HeadOf(old, start)) \cap CoveredBlocks(old, start, end) = {}
    <2>1. first = h /\ h \in Nat
      BY <1>4, <1>7
    <2> HIDE DEF first, last
    <2>2. (b .. (b + h - 1)) \cap ((b + first) .. (b + last - 1)) = {}
      <3>1. b + h - 1 < b + first /\ b + h - 1 \in Int /\ b + first \in Int
              /\ b + last - 1 \in Int /\ b \in Int
        BY <1>9, <1>10, <2>1
      <3> QED BY <3>1, RunsApart
    <2> QED BY <1>4, <1>6, <1>7, <2>2, Zenon
  <1>5. ASSUME HasTail(old, end)
        PROVE  BlocksOf(TailOf(old, end)) \cap CoveredBlocks(old, start, end) = {}
    <2>1. last = k /\ k \in Nat
      BY <1>5, <1>8
    <2> HIDE DEF first, last
    <2>2. ((b + first) .. (b + last - 1)) \cap ((b + k) .. (b + N - 1)) = {}
      <3>1. b + last - 1 < b + k /\ b + first \in Int /\ b + last - 1 \in Int
              /\ b + k \in Int /\ b + N - 1 \in Int
        BY <1>9, <1>10, <2>1
      <3> QED BY <3>1, RunsApart
    <2> QED BY <1>5, <1>6, <1>8, <2>2, Zenon
  <1> QED BY <1>4, <1>5

\* Three runs that begin at b, at b + h and at b + k cover the run of N at b.
LEMMA RunsCover ==
    ASSUME NEW b \in Nat, NEW N \in Nat, NEW h \in 0 .. N, NEW k \in 0 .. N
    PROVE  b .. (b + N - 1) = ((b + h) .. (b + k - 1))
              \cup (b .. (b + h - 1)) \cup ((b + k) .. (b + N - 1))
  <1>1. ASSUME NEW x \in b .. (b + N - 1)
        PROVE  \/ x \in (b + h) .. (b + k - 1)
               \/ x \in b .. (b + h - 1)
               \/ x \in (b + k) .. (b + N - 1)
    OBVIOUS
  <1>2. ASSUME NEW x \in (b + h) .. (b + k - 1) PROVE x \in b .. (b + N - 1)
    OBVIOUS
  <1>3. ASSUME NEW x \in b .. (b + h - 1) PROVE x \in b .. (b + N - 1)
    OBVIOUS
  <1>4. ASSUME NEW x \in (b + k) .. (b + N - 1) PROVE x \in b .. (b + N - 1)
    OBVIOUS
  <1> QED BY <1>1, <1>2, <1>3, <1>4, Zenon

\* Two runs that meet at b + h cover the run of N at b.
LEMMA RunsJoin ==
    ASSUME NEW b \in Nat, NEW N \in Nat, NEW h \in 0 .. N
    PROVE  b .. (b + N - 1) = (b .. (b + h - 1)) \cup ((b + h) .. (b + N - 1))
  <1>1. ASSUME NEW x \in b .. (b + N - 1)
        PROVE  x \in b .. (b + h - 1) \/ x \in (b + h) .. (b + N - 1)
    OBVIOUS
  <1>2. ASSUME NEW x \in b .. (b + h - 1) PROVE x \in b .. (b + N - 1)
    OBVIOUS
  <1>3. ASSUME NEW x \in (b + h) .. (b + N - 1) PROVE x \in b .. (b + N - 1)
    OBVIOUS
  <1> QED BY <1>1, <1>2, <1>3, Zenon

\* Every block of an extent that is cut is given back or stays with one of its
\* pieces, and none comes from elsewhere.
THEOREM SplitAccountsForBlocks ==
    ASSUME NEW old \in Extent, NEW start \in Nat, NEW end \in Nat,
           start < end, Intersects(old, start, end)
    PROVE  BlocksOf(old) = CoveredBlocks(old, start, end)
              \cup (IF HasHead(old, start) THEN BlocksOf(HeadOf(old, start)) ELSE {})
              \cup (IF HasTail(old, end) THEN BlocksOf(TailOf(old, end)) ELSE {})
  <1>1. old.blk \in Nat /\ old.log \in Nat /\ old.len \in Nat
    BY DEF Extent
  <1>2. start < EndOf(old) /\ old.log < end
    BY DEF Intersects
  <1>3. BlocksFor(old.len) \in Nat
    BY <1>1, BlocksForBounds
  <1> DEFINE N == BlocksFor(old.len)
             h == BlocksFor(start - old.log)
             k == Skipped(old, end)
             covered == CoveredBlocks(old, start, end)
             head == BlocksOf(HeadOf(old, start))
             tail == BlocksOf(TailOf(old, end))
             all == BlocksOf(old)
  <1>4. all = old.blk .. (old.blk + N - 1)
    BY DEF BlocksOf
  <1>5. HasHead(old, start) => h \in Nat /\ h <= N /\ head = old.blk .. (old.blk + h - 1)
    BY <1>2, HeadBlocks
  <1>6. HasTail(old, end) =>
            k \in Nat /\ k <= N /\ tail = (old.blk + k) .. (old.blk + N - 1)
    BY <1>2, TailBlocks
  <1>7. covered = (old.blk + (IF HasHead(old, start) THEN h ELSE 0))
                    .. (old.blk + (IF HasTail(old, end) THEN k ELSE N) - 1)
    BY DEF CoveredBlocks
  <1> HIDE DEF N, h, k, covered, head, tail, all
  <1>8. N \in Nat
    BY <1>3 DEF N
  <1>9. all = covered \cup (IF HasHead(old, start) THEN head ELSE {})
                      \cup (IF HasTail(old, end) THEN tail ELSE {})
    <2>1. CASE HasHead(old, start) /\ HasTail(old, end)
      <3> DEFINE b == old.blk
      <3>1. /\ covered = (b + h) .. (b + k - 1)
            /\ head = b .. (b + h - 1)
            /\ tail = (b + k) .. (b + N - 1)
            /\ all = b .. (b + N - 1)
        BY <1>4, <1>5, <1>6, <1>7, <2>1
      <3>2. b \in Nat /\ h \in 0 .. N /\ k \in 0 .. N
        BY <1>1, <1>5, <1>6, <1>8, <2>1
      <3> HIDE DEF b
      <3>3. all = covered \cup head \cup tail
        <4>1. b .. (b + N - 1) = ((b + h) .. (b + k - 1))
                \cup (b .. (b + h - 1)) \cup ((b + k) .. (b + N - 1))
          BY <1>8, <3>2, RunsCover
        <4> QED BY <3>1, <4>1, Zenon
      <3> QED BY <2>1, <3>3, Zenon
    <2>2. CASE HasHead(old, start) /\ ~HasTail(old, end)
      <3>1. covered = (old.blk + h) .. (old.blk + N - 1)
        BY <1>7, <2>2
      <3>2. h \in 0 .. N
        BY <1>5, <1>8, <2>2
      <3>3. all = (old.blk .. (old.blk + h - 1)) \cup covered
        <4>1. old.blk .. (old.blk + N - 1)
                = (old.blk .. (old.blk + h - 1)) \cup ((old.blk + h) .. (old.blk + N - 1))
          BY <1>1, <1>8, <3>2, RunsJoin
        <4> QED BY <1>4, <3>1, <4>1, Zenon
      <3>4. head = old.blk .. (old.blk + h - 1)
        BY <1>5, <2>2
      <3> QED BY <2>2, <3>3, <3>4, Zenon
    <2>3. CASE ~HasHead(old, start) /\ HasTail(old, end)
      <3>1. covered = (old.blk + 0) .. (old.blk + k - 1)
        BY <1>7, <2>3
      <3>2. k \in 0 .. N /\ old.blk + 0 = old.blk
        BY <1>1, <1>6, <1>8, <2>3
      <3>3. all = covered \cup ((old.blk + k) .. (old.blk + N - 1))
        <4>1. old.blk .. (old.blk + N - 1)
                = (old.blk .. (old.blk + k - 1)) \cup ((old.blk + k) .. (old.blk + N - 1))
          BY <1>1, <1>8, <3>2, RunsJoin
        <4>2. covered = old.blk .. (old.blk + k - 1)
          BY <3>1, <3>2, Zenon
        <4> QED BY <1>4, <4>1, <4>2, Zenon
      <3>4. tail = (old.blk + k) .. (old.blk + N - 1)
        BY <1>6, <2>3
      <3> QED BY <2>3, <3>3, <3>4, Zenon
    <2>4. CASE ~HasHead(old, start) /\ ~HasTail(old, end)
      <3>1. covered = (old.blk + 0) .. (old.blk + N - 1)
        BY <1>7, <2>4
      <3>2. old.blk + 0 = old.blk
        BY <1>1
      <3>3. all = covered
        BY <1>4, <3>1, <3>2, Zenon
      <3> QED BY <2>4, <3>3, Zenon
    <2> QED BY <2>1, <2>2, <2>3, <2>4
  <1> QED BY <1>9 DEF covered, head, tail, all

\* When the cut starts on a block boundary of the extent, the two pieces share
\* no block: neither can be reclaimed from under the other.
THEOREM AlignedPiecesApart ==
    ASSUME NEW old \in Extent, NEW start \in Nat, NEW end \in Nat,
           start < end, Intersects(old, start, end),
           HasHead(old, start), HasTail(old, end),
           (start - old.log) % BlockSize = 0
    PROVE  BlocksOf(HeadOf(old, start)) \cap BlocksOf(TailOf(old, end)) = {}
  <1> DEFINE d == start - old.log
             h == BlocksFor(d)
             k == Skipped(old, end)
  <1>1. old.blk \in Nat /\ old.log \in Nat /\ old.len \in Nat /\ d \in Nat
    BY DEF Extent, HasHead
  <1>2. start < EndOf(old) /\ old.log < end
    BY DEF Intersects
  <1>3. d = BlockSize * (d \div BlockSize) /\ d \div BlockSize \in Nat
    <2>1. d \div BlockSize \in Nat /\ d % BlockSize = d - BlockSize * (d \div BlockSize)
      BY <1>1, DivBounds, RestOfDiv
    <2>2. d % BlockSize = 0
      OBVIOUS
    <2>3. BlockSize * (d \div BlockSize) \in Nat
      BY <2>1, BlockSizeAssumption
    <2> HIDE DEF d
    <2> QED BY <1>1, <2>1, <2>2, <2>3
  <1>4. k \in Nat /\ end - old.log < k * BlockSize + BlockSize
    BY <1>2, TailFacts
  <1>5. h \in Nat /\ h * BlockSize < d + BlockSize
    BY <1>1, BlocksForBounds
  <1>6. d < k * BlockSize + BlockSize
    BY <1>1, <1>4, BlockSizeAssumption
  <1> HIDE DEF d, h, k
  <1>7. h <= k
    <2> DEFINE q == d \div BlockSize
    <2>1. q \in Nat /\ d = q * BlockSize
      BY <1>3, BlockSizeAssumption
    <2> HIDE DEF q
    <2>2. q * BlockSize \in Nat /\ h * BlockSize \in Nat /\ k * BlockSize \in Nat
      BY <1>4, <1>5, <2>1, BlockSizeAssumption
    <2>3. h <= q
      <3> SUFFICES ASSUME q < h PROVE FALSE
        BY <1>5, <2>1
      <3>1. q * BlockSize + BlockSize <= h * BlockSize
        BY <1>5, <2>1, Monotone
      <3> QED BY <1>5, <2>1, <2>2, <3>1, BlockSizeAssumption
    <2>4. q <= k
      <3> SUFFICES ASSUME k < q PROVE FALSE
        BY <1>4, <2>1
      <3>1. k * BlockSize + BlockSize <= q * BlockSize
        BY <1>4, <2>1, Monotone
      <3> QED BY <1>6, <2>1, <2>2, <3>1, BlockSizeAssumption
    <2> QED BY <1>4, <1>5, <2>1, <2>3, <2>4
  <1>8. BlocksFor(old.len) \in Nat
    BY <1>1, BlocksForBounds
  <1>9. /\ BlocksOf(HeadOf(old, start)) = old.blk .. (old.blk + h - 1)
        /\ BlocksOf(TailOf(old, end)) = (old.blk + k) .. (old.blk + BlocksFor(old.len) - 1)
    BY <1>2, HeadBlocks, TailBlocks DEF d, h, k
  <1>10. old.blk + h - 1 < old.blk + k /\ old.blk + h - 1 \in Int /\ old.blk \in Int
           /\ old.blk + k \in Int /\ old.blk + BlocksFor(old.len) - 1 \in Int
    BY <1>1, <1>4, <1>5, <1>7, <1>8
  <1>11. (old.blk .. (old.blk + h - 1))
           \cap ((old.blk + k) .. (old.blk + BlocksFor(old.len) - 1)) = {}
    BY <1>10, RunsApart
  <1> QED BY <1>9, <1>11, Zenon

-----------------------------------------------------------------------------
(* The shared file. *)

\* The promises together, with the types that the comparisons need.
FileTypes ==
  /\ latest \in Nat /\ stable \in Nat /\ synced \in Nat
  /\ view \in [Nodes -> Nat \union {None}]

FileInv == FileTypes /\ ViewsLatest /\ SyncedStable /\ StableBehind

\* A step of the shared file keeps the promises: a write or a loss changes the
\* latest content only when no operation goes on with the old one, and fsync
\* answers only for what is published.
LEMMA FileStep == FileInv /\ [Next]_vars => FileInv'
<1> SUFFICES ASSUME FileInv, [Next]_vars
             PROVE  FileInv'
  OBVIOUS
<1> USE DEF FileInv, FileTypes, ViewsLatest, SyncedStable, StableBehind
<1>1. ASSUME NEW n \in Nodes, Begin(n)
      PROVE  FileInv'
  BY <1>1 DEF Begin
<1>2. ASSUME NEW n \in Nodes, Write(n)
      PROVE  FileInv'
  BY <1>2 DEF Write, Syncs
<1>3. CASE Publish
  BY <1>3 DEF Publish, Syncs, ViewsEnd
<1>4. CASE Lose
  BY <1>4 DEF Lose, ViewsEnd
<1>5. CASE UNCHANGED vars
  BY <1>5 DEF vars
<1> QED
  BY <1>1, <1>2, <1>3, <1>4, <1>5 DEF Next

\* The variables keep their types.
THEOREM FileTyped == Spec => []TypeOK
<1> DEFINE LostTyped == lost \in BOOLEAN
<1>1. Init => FileInv /\ LostTyped
  <2>1. Init => FileInv
    BY DEF Init, FileInv, FileTypes, ViewsLatest, SyncedStable, StableBehind
  <2>2. Init => LostTyped
    BY Zenon DEF Init
  <2> QED
    BY <2>1, <2>2
<1>2. LostTyped /\ [Next]_vars => LostTyped'
  BY Zenon DEF Next, Begin, Write, Publish, Lose, vars
<1>3. FileInv /\ LostTyped => TypeOK
  BY Zenon DEF FileInv, FileTypes, TypeOK
<1> HIDE DEF LostTyped
<1> QED
  BY <1>1, <1>2, <1>3, FileStep, PTL DEF Spec

\* Every operation in progress works on the latest content, what fsync answered
\* for is published until something is lost, and nothing is published that was
\* not answered.
THEOREM FilePromises == Spec => [](ViewsLatest /\ SyncedStable /\ StableBehind)
<1>1. Init => FileInv
  BY DEF Init, FileInv, FileTypes, ViewsLatest, SyncedStable, StableBehind
<1>2. FileInv => ViewsLatest /\ SyncedStable /\ StableBehind
  BY DEF FileInv
<1> QED
  BY <1>1, <1>2, FileStep, PTL DEF Spec

\* The published content never goes back, whatever is lost.
THEOREM FileNeverGoesBack == Spec => StableForward
<1>1. Init => FileInv
  BY DEF Init, FileInv, FileTypes, ViewsLatest, SyncedStable, StableBehind
<1>2. FileInv /\ [Next]_vars => [stable' >= stable]_vars
  BY DEF FileInv, FileTypes, StableBehind, Next, Begin, Write, Publish, Lose, vars
<1> QED
  BY <1>1, <1>2, FileStep, PTL DEF Spec, StableForward
=============================================================================
