--------------------------- MODULE MCDirentCache ---------------------------
(* DirentCache for TLC.  Each behaviour runs one of the workloads. *)
EXTENDS DirentCache

CONSTANTS d1, d2, x1, x2, t1, t2

Load(ds, ns, ts, caps, evs, breaks, compacts) ==
  [used |-> ds, names |-> ns, threads |-> ts,
   maxDirs |-> caps[1], maxDirNames |-> caps[2], maxNames |-> caps[3],
   events |-> evs, ends |-> breaks, compactions |-> compacts]

\* One name, changed again and again, and two requests that race.
Racing == Load({d1}, {x1}, {t1, t2}, <<1, 1, 1>>, 3, 0, TRUE)
\* A watch that ends twice or is compacted, and one request.
Ending == Load({d1}, {x1}, {t1}, <<1, 1, 1>>, 3, 2, TRUE)
\* Two names: a directory grows past its limit, names are renamed.
Growing == Load({d1}, {x1, x2}, {t1}, <<1, 1, 1>>, 3, 0, FALSE)
\* Two directories, where the limit on names or the one on directories decides.
ManyNames == Load({d1, d2}, {x1}, {t1}, <<2, 1, 1>>, 2, 0, FALSE)
ManyDirs == Load({d1, d2}, {x1}, {t1}, <<1, 1, 2>>, 2, 0, FALSE)

Mixed == {Racing, Ending, Growing, ManyNames, ManyDirs}
OneRacing == {[Racing EXCEPT !.events = 4]}
OneEnding == {Ending}
=============================================================================
