---------------------------- MODULE MCInodeLock ----------------------------
(* Instances of InodeLock for TLC. *)
EXTENDS InodeLock, TLC

CONSTANTS a, b

Plain == [kinds |-> {"read", "write"}, creator |-> a, seeded |-> FALSE,
          fail |-> {}, faults |-> 0, ops |-> 3, losses |-> 0, crashes |-> 0]

\* Sessions last, calls fail.
Buffered == [Plain EXCEPT !.kinds = {"read", "write", "fsync"},
                          !.fail = {"reply", "pages", "flush"}, !.faults = 1]
Direct == [Plain EXCEPT !.kinds = {"sync", "setsize", "write"},
                        !.fail = {"full"}, !.faults = 1]
Yielding == [Plain EXCEPT !.kinds = {"read", "write", "evict", "publish", "leave", "removed"},
                          !.seeded = TRUE, !.fail = {"pages", "release"}, !.faults = 2, !.ops = 2]

\* A session is lost, or a daemon dies, with buffered writes.
Lossy == [Plain EXCEPT !.losses = 1, !.kinds = {"write", "fsync"}, !.ops = 2]
Dying == [Plain EXCEPT !.kinds = {"write"}, !.crashes = 1, !.seeded = TRUE, !.ops = 2]

\* The cache-invalidation client does not answer once.
Wedged == [Plain EXCEPT !.fail = {"wedged"}, !.faults = 1, !.ops = 2]

Mixed == {Buffered, Direct, Yielding, Lossy, Dying, Wedged}

\* One behaviour each.
SessionLoss == {[Lossy EXCEPT !.ops = 3]}
ReadersToo == {[Plain EXCEPT !.losses = 1]}
StaleCommit == {[Plain EXCEPT !.losses = 1, !.kinds = {"read", "sync"}]}
Unanswered == {Wedged}
=============================================================================
