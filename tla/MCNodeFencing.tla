---------------------------- MODULE MCNodeFencing ----------------------------
(* Small instances of NodeFencing: a node that fails, a peer that takes    *)
(* over freed arenas, and controller threads of further peers.             *)
EXTENDS NodeFencing, TLC

=============================================================================
