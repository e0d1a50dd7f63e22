-------------------------- MODULE MCDirectoryEntry --------------------------
(* Finite instances of DirectoryEntry.                                     *)
EXTENDS DirectoryEntry, TLC

CONSTANTS p1, p2

Kind(l, s) == [lstat |-> l, stat |-> s]

(* A file, a directory, nothing, links to each of them, a failing stat.    *)
MixedObjects ==
  {Kind("regular", "regular"), Kind("directory", "directory"),
   Kind("not_found", "not_found"), Kind("symlink", "regular"),
   Kind("symlink", "not_found"), Kind("none", "none")}

PathSymmetry == Permutations(Paths)
=============================================================================
