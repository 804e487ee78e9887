---------------------------- MODULE MCNamespace ----------------------------
(* Instances of Namespace.  A run explores several workloads, each from its own
   initial state: what one mount does alone and what two do to shared names. *)
EXTENDS Namespace, TLC

CONSTANTS n1, n2

Everybody(names) == [n \in Nodes |-> names]

Quiet(nodes, kinds, names, count) ==
  [nodes |-> nodes, kinds |-> kinds, puts |-> Everybody(names),
   from |-> Everybody(names), removes |-> Everybody(names), overlap |-> FALSE,
   errors |-> FALSE, ops |-> count, crashes |-> 0]

\* One mount does everything to a file name and two directory names.
OneMount ==
  Quiet({n1}, {"mknod", "mkdir", "link", "unlink", "rmdir", "rename"},
        {"f", "d", "e"}, 5)

\* Two mounts work on the same names while requests fail.
SharedTree ==
  [Quiet({n1, n2}, {"mknod", "mkdir", "link", "unlink", "rmdir"},
         {"f", "g", "d"}, 4) EXCEPT !.errors = TRUE]

\* Each mount creates under a name of its own and renames it to a shared one.
Own(n) == IF n = n1 THEN "f" ELSE "g"

Publishing ==
  [Quiet({n1, n2}, {"create", "unlink", "rename"}, {"h"}, 5) EXCEPT
     !.puts = [n \in Nodes |-> {Own(n), "h"}],
     !.from = [n \in Nodes |-> {Own(n)}]]

\* A name is unlinked, or removed, and made again while the other mount renames it.
Recreating ==
  [Quiet({n1, n2}, {"mknod", "unlink", "rename"}, {"f"}, 4) EXCEPT
     !.puts = [n \in Nodes |-> IF n = n1 THEN {"g"} ELSE {"f"}]]

Rebuilding ==
  [Quiet({n1, n2}, {"mkdir", "rmdir", "rename"}, {"d"}, 4) EXCEPT
     !.puts = [n \in Nodes |-> IF n = n1 THEN {"e"} ELSE {"d"}]]

\* Each mount makes a directory and moves it somewhere.
Crossing ==
  [Quiet({n1, n2}, {"mkdir", "rename"}, {}, 4) EXCEPT
     !.puts = [n \in Nodes |-> IF n = n1 THEN {"d"} ELSE {"e"}],
     !.from = [n \in Nodes |-> IF n = n1 THEN {"d"} ELSE {"e"}]]

\* One mount unlinks a file it has open while the other links it.
Relinking ==
  [Quiet({n1, n2}, {"create", "link", "unlink"}, {"f"}, 3) EXCEPT
     !.puts = [n \in Nodes |-> IF n = n1 THEN {"f"} ELSE {"g"}]]

\* Descriptors on one mount, which a crash closes, and on two.
OpenFiles ==
  [Quiet({n1}, {"create", "link", "unlink", "open", "xattr"}, {"f", "g"}, 4)
     EXCEPT !.crashes = 1]

Overlapping ==
  [Quiet({n1}, {"create", "unlink", "open"}, {"f", "g"}, 4)
     EXCEPT !.overlap = TRUE, !.crashes = 1]

SharedFiles ==
  [Quiet({n1, n2}, {"create", "unlink", "open"}, {"f"}, 3)
     EXCEPT !.overlap = TRUE]

\* Requests that fail, and writes to a file that is linked and unlinked.
FailingCalls ==
  [Quiet({n1}, {"create", "unlink", "open", "write"}, {"f", "g"}, 4)
     EXCEPT !.errors = TRUE, !.crashes = 1]

Appending == Quiet({n1, n2}, {"create", "link", "unlink", "write"}, {"f", "g"}, 4)

Mixed ==
  {OneMount, SharedTree, Publishing, Recreating, Rebuilding, Crossing, Relinking,
   OpenFiles, Overlapping, SharedFiles, FailingCalls, Appending}

\* The workloads in which a claim of the source fails.
Disputed ==
  {Recreating, Crossing, Relinking, Appending,
   Quiet({n1}, {"create", "rename"}, {"f", "g"}, 3),
   [Quiet({n1}, {"create", "unlink"}, {"f"}, 2) EXCEPT !.overlap = TRUE]}
=============================================================================
