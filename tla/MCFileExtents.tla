--------------------------- MODULE MCFileExtents ---------------------------
(* Instances of FileExtents: one node that owns every block, and two nodes
   with the blocks divided between them. *)
EXTENDS FileExtents, TLC

CONSTANTS n1, n2

Alone(blocks) ==
  [nodes |-> {n1}, owner |-> [k \in blocks |-> n1], hints |-> {0}, starts |-> {0, 2},
   lens |-> {2, 4}, holes |-> {}, sizes |-> {}, outcomes |-> {"acked"}, ops |-> 3,
   crashes |-> 0, errors |-> 0, passes |-> 1, folded |-> 2]

Halves(blocks) ==
  [Alone(blocks) EXCEPT !.nodes = {n1, n2}, !.hints = {0, Cardinality(blocks) \div 2},
     !.owner = [k \in blocks |-> IF 2 * k < Cardinality(blocks) THEN n1 ELSE n2]]

\* One node does everything, at block boundaries and past them; its searches
\* resume at block 1, so that an allocation may wrap and come in two runs.
OneNode ==
  [Alone(0 .. 3) EXCEPT !.hints = {1}, !.lens = {1, 3}, !.holes = {0, 2, 4}, !.sizes = {1, 3},
     !.outcomes = {"acked", "refused"}, !.crashes = 1, !.folded = 4]

\* The same with a transaction that fails, and room for one rewrite in a write.
Failing == [OneNode EXCEPT !.crashes = 0, !.errors = 1, !.folded = 1]

\* Overwrites that leave two pieces, with more to reclaim than the write has room for.
Splitting ==
  [Alone(0 .. 5) EXCEPT !.lens = {2, 5}, !.ops = 4, !.crashes = 1, !.errors = 1, !.folded = 1]

\* Two nodes write and cut one file while both scrub.
TwoNodes == [Halves(0 .. 5) EXCEPT !.lens = {3}, !.sizes = {1}, !.crashes = 1, !.folded = 1]

Mixed == {OneNode, Failing, Splitting, TwoNodes}

----------------------------------------------------------------------------
(* Workloads that reach the counterexamples the README describes *)

Middle == {[Alone(0 .. 3) EXCEPT !.starts = {0, 1}, !.lens = {1, 3}, !.ops = 4]}

Foreign == {[Halves(0 .. 3) EXCEPT !.ops = 2]}

Deferring == {[Splitting EXCEPT !.folded = 0, !.crashes = 0, !.errors = 0]}

Losing == {Failing}

Retrying == {[Alone(0 .. 2) EXCEPT !.outcomes = {"acked", "retried"}, !.ops = 1]}
=============================================================================
