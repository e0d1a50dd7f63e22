------------------------------ MODULE Traversal ------------------------------
(***************************************************************************)
(* What a recursive iteration promises, whatever happens to the tree: it   *)
(* stands at each node at most once, at a node only after the directory    *)
(* the node is an entry of, and once it has ended it stays ended.          *)
(* (Class comment of recursive_directory_iterator, fs_dir.h.)              *)
(***************************************************************************)
CONSTANTS Nodes, Root, Parent

VARIABLES
  visited,   \* nodes the iteration has stood at
  at,        \* the node it stands at, Root when it stands at none
  ended      \* it is equal to the end iterator for good

Init == visited = {} /\ at = Root /\ ended = FALSE

Visit(n) ==
  /\ ~ended
  /\ n \in Nodes \ visited
  /\ Parent[n] \in visited \cup {Root}
  /\ visited' = visited \cup {n}
  /\ at' = n
  /\ UNCHANGED ended

End == ended' = TRUE /\ at' = Root /\ UNCHANGED visited

Next == End \/ \E n \in Nodes : Visit(n)

Spec == Init /\ [][Next]_<<visited, at, ended>>
=============================================================================
