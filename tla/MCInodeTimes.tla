---------------------------- MODULE MCInodeTimes ----------------------------
(* InodeTimes for TLC.  Each behaviour runs one of the workloads. *)
EXTENDS InodeTimes

CONSTANTS i1, i2, sweep, fsync, s1, s2, m1, m2

Load(is, peers, fs, ss, hours, ops, errs) ==
  [inodes |-> is, busy |-> peers, flushes |-> fs, setattrs |-> ss, clock |-> hours,
   calls |-> ops, errors |-> errs]

\* One inode: a sweep and an fsync, setattrs and directory changes; peers.
Overlapping == Load({i1}, {}, {sweep, fsync}, {s1}, 3, 3, 0)
Failing == Load({i1}, {}, {sweep}, {s1}, 3, 3, 1)
Shared == Load({i1}, {i1}, {sweep}, {s1}, 2, 2, 0)
Calling == Load({i1}, {}, {sweep}, {s1, s2}, 2, 3, 0)
\* Two inodes in one batch, one of them rewritten again and again by a peer.
Busy == Load({i1, i2}, {i1}, {sweep}, {}, 2, 2, 0)

Mixed == {Overlapping, Failing, Shared, Calling, Busy}
OneShared == {[Shared EXCEPT !.clock = 3]}
=============================================================================
