------------------------ MODULE MCRecursiveIteration ------------------------
(* Finite instances of RecursiveIteration.  The tree has a file three      *)
(* levels deep and something beside the directories that lead there:       *)
(*     root / a / b / c                                                    *)
(*     root / d                                                            *)
EXTENDS RecursiveIteration

Tree == {"a", "b", "c", "d"}
TreeParent == [n \in Tree |-> CASE n \in {"a", "d"} -> "root"
                                [] n = "b" -> "a"
                                [] n = "c" -> "b"]

World(a, d) ==
  [n \in Tree |-> CASE n = "a" -> a [] n = "d" -> d [] n = "b" -> "directory"
                   [] OTHER -> "regular"]

PlainWorlds == {World("directory", "directory")}

(* One of the two at the top is a link.                                    *)
LinkWorlds == {World("directory", "dirlink"), World("dirlink", "directory"),
               World("directory", "filelink")}
SomeWorlds == PlainWorlds \cup LinkWorlds

AllOpen == {{}}
SomeClosed == {{}, {"root"}, {"b"}}

NoOptions == {{}}
SomeOptions == {{}, {"skip_permission_denied"}, {"follow_directory_symlink"}}
=============================================================================
