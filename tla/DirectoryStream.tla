-------------------------- MODULE DirectoryStream --------------------------
(***************************************************************************)
(* The file tree and detail::DirectoryStream, what both iterators are made *)
(* of (src/fs_dir_iterator.cpp, POSIX branch).                             *)
(*                                                                         *)
(* A node is a path below the Root the iteration starts at.  The children  *)
(* of a symlink are the entries its target shows through it.  Nodes are    *)
(* removed while iterators run; a stream that is open may or may not still *)
(* return a removed node, as POSIX leaves it.  A read or an open has a set *)
(* of possible results.                                                    *)
(***************************************************************************)
EXTENDS EntryCache, Naturals, Sequences

CONSTANTS
  Nodes,      \* every path below the root
  Root,       \* the path iteration starts at
  Parent,     \* the directory (or link) each node is an entry of
  DTypes,     \* whether readdir() knows the types of the entries
  ReadsFail   \* whether readdir() may fail

Directories == Nodes \cup {Root}

ASSUME TreeAssumption ==
  /\ Root \notin Nodes
  /\ Parent \in [Nodes -> Directories]
ASSUME SwitchAssumption == DTypes \in BOOLEAN /\ ReadsFail \in BOOLEAN

VARIABLES
  kind,      \* what each node is
  present,   \* nodes that have not been removed
  denied,    \* directories that may not be opened
  options    \* the directory_options of the iterator

world == <<kind, present, denied, options>>

Kinds == {"regular", "directory", "dirlink", "filelink"}
Options == {"follow_directory_symlink", "skip_permission_denied"}

Skips == "skip_permission_denied" \in options
Follows == "follow_directory_symlink" \in options

WorldTypeOK ==
  /\ kind \in [Nodes -> Kinds]
  /\ present \subseteq Nodes
  /\ denied \subseteq Directories
  /\ options \subseteq Options

Children(d) == {n \in Nodes : Parent[n] = d}
IsLink(n) == kind[n] \in {"dirlink", "filelink"}
Opens(d) == d = Root \/ (d \in present /\ kind[d] \in {"directory", "dirlink"})

(* stat() of a node.                                                       *)
Stat(n) ==
  FileStatus(IF n \notin present THEN "not_found"
             ELSE IF kind[n] \in {"directory", "dirlink"} THEN "directory"
             ELSE "regular", <<n>>)

Stamps == {Unset} \cup {<<n>> : n \in Nodes}

-----------------------------------------------------------------------------
get_file_type(n) ==
  IF ~DTypes THEN "none" ELSE IF IsLink(n) THEN "symlink" ELSE kind[n]

Streams == [root : Directories, left : SUBSET Nodes, entry : Directories,
            cache : CachedData(Stamps)]

(* Mistake: the stream does not move past the entry it has returned.       *)
EntriesAgain(s) ==
  {[s EXCEPT !.entry = n,
             !.cache = AssignDirent(@, get_file_type(n))] : n \in s.left}

(* advance() that returns true: another entry, in whatever order.          *)
NextEntries(s) ==
  {[s EXCEPT !.left = @ \ {n}, !.entry = n,
             !.cache = AssignDirent(@, get_file_type(n))] : n \in s.left}

(* advance() that returns false without an error: nothing left but nodes   *)
(* that are gone.                                                          *)
MayEnd(s) == s.left \cap present = {}

(* advance() that returns false with an error.                             *)
ReadErrors == IF ReadsFail THEN {"EIO"} ELSE {}

NewStream(d) ==
  [root |-> d, left |-> Children(d) \cap present, entry |-> d, cache |-> Reset]

(* The constructor: the streams it may leave good() ...                    *)
OpenStreams(d) ==
  IF Opens(d) /\ d \notin denied THEN NextEntries(NewStream(d)) ELSE {}

(* ... and the error codes it may set, "ok" included, when it does not.    *)
OpenErrors(d) ==
  IF d # Root /\ d \notin present THEN {"ENOENT"}
  ELSE IF ~Opens(d) THEN {"ENOTDIR"}
  ELSE IF d \in denied THEN {IF Skips THEN "ok" ELSE "EACCES"}
  ELSE ReadErrors \cup (IF MayEnd(NewStream(d)) THEN {"ok"} ELSE {})

-----------------------------------------------------------------------------
(* The rest of the system.                                                 *)

WorldInit(Worlds, Denials, Choices) ==
  /\ kind \in Worlds
  /\ present = Nodes
  /\ denied \in Denials
  /\ options \in Choices

(* unlink, or rmdir of what is empty, by another program.                  *)
Remove(n) ==
  /\ n \in present
  /\ Children(n) \cap present = {}
  /\ present' = present \ {n}
  /\ UNCHANGED <<kind, denied, options>>

(* chmod by another program.                                               *)
Deny(d) ==
  /\ d \in present /\ kind[d] = "directory"
  /\ d \notin denied
  /\ denied' = denied \cup {d}
  /\ UNCHANGED <<kind, present, options>>
=============================================================================
