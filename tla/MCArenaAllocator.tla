-------------------------- MODULE MCArenaAllocator --------------------------
(* ArenaAllocator for TLC.  Each behaviour runs one of the workloads. *)
EXTENDS ArenaAllocator, TLC

CONSTANTS n1, n2, p1, p2, p3

\* Two writes of one node, one of another.
Homes == p1 :> n1 @@ p2 :> n1 @@ p3 :> n2

Load(ps, ks, dev, growth, ids, errs, crs, check) ==
  [writes |-> ps, sizes |-> ks, device |-> dev, grow |-> growth, issued |-> ids,
   errors |-> errs, crashes |-> crs, fsck |-> check]

\* Two nodes and a call that fails; a node on which two fail; a node with two arenas;
\* a node that stops and may fail to start; two writes of one node.
Failing == Load({p1, p3}, {1}, 1, 0, 2, 1, 0, FALSE)
Repeating == Load({p1}, {1}, 1, 0, 2, 2, 0, FALSE)
Emptying == Load({p1}, {2}, 2, 0, 2, 1, 0, FALSE)
Restarting == Load({p1}, {1}, 1, 0, 2, 1, 1, FALSE)
Stopping == Load({p1, p3}, {1}, 2, 0, 2, 0, 1, FALSE)
Sharing == Load({p1, p2}, {1, 2}, 2, 0, 2, 0, 0, FALSE)
\* A full device that grows.
Growing == Load({p1}, {2}, 0, 2, 3, 0, 0, FALSE)
\* fsck beside a write, a call that fails and a crash.
Checking == Load({p1}, {1}, 1, 0, 2, 1, 0, TRUE)
Auditing == Load({p1}, {1}, 1, 0, 2, 0, 1, TRUE)

Mixed == {Failing, Repeating, Emptying, Restarting, Stopping, Sharing, Growing, Checking,
          Auditing}

\* The workloads of the claims.
Disputed == {Restarting, Emptying, Auditing}
=============================================================================
