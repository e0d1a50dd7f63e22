---------------------------- MODULE MCRemoveAll ----------------------------
(* A finite instance of RemoveAll on the tree                              *)
(*     root / d / f        root / k -> a directory with x                  *)
(*     d may become a link to a directory that has an f or not             *)
(*     root / n            created late, by another program                *)
EXTENDS RemoveAll, TLC

CONSTANTS c1, c2

Tree == {"root", "d", "f", "k", "x", "n"}
TreeParent ==
  [n \in Tree \ {"root"} |-> CASE n = "f" -> "d" [] n = "x" -> "k" [] OTHER -> "root"]
TreeKind ==
  [n \in Tree |-> CASE n \in {"root", "d"} -> "directory" [] n = "k" -> "link"
                  [] OTHER -> "file"]
TreeInside == Tree \ {"x"}

SomeLocks == {{}, {"f"}, {"root"}}
SomeClosures == {{}, {"d"}}
=============================================================================
