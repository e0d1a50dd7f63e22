----------------------------- MODULE RemoveAll -----------------------------
(***************************************************************************)
(* remove_all (src/fs_ops.cpp): the recursion of do_remove_all_impl as a   *)
(* stack of frames, one system call a step, by any number of calls on the  *)
(* same tree at once, with other programs that create, unlink and replace  *)
(* a directory by a link.  A node is a path: what it names may change.     *)
(***************************************************************************)
EXTENDS Naturals, Sequences, FiniteSets

CONSTANTS
  Calls,      \* concurrent calls of remove_all(Root)
  Nodes,      \* every path, Root included
  Root,
  Parent,     \* what each other node is an entry of
  Kind,       \* "directory", "file" or "link" (to a directory, seen through)
  Inside,     \* the nodes of the tree at Root, links not followed
  Late,       \* nodes another program creates while the calls run
  Vanishing,  \* nodes another program unlinks while the calls run
  Replaceable, \* directories another program replaces by a link
  Locks,      \* the sets of nodes that may be undeletable
  Closures,   \* the sets of directories that may be unreadable
  ReadsFail,  \* whether readdir() may fail
  Modulus     \* 2^64: how many values uintmax_t has

ASSUME TreeAssumption ==
  /\ Root \in Nodes
  /\ Parent \in [Nodes \ {Root} -> Nodes]
  /\ Kind \in [Nodes -> {"directory", "file", "link"}]
ASSUME InsideAssumption ==
  /\ Root \in Inside
  /\ Inside \subseteq Nodes
  /\ \A n \in Nodes \ {Root} :
       n \in Inside <=> Parent[n] \in Inside /\ Kind[Parent[n]] = "directory"
(* Above every node of the tree is the root: directories form no cycle.    *)
ASSUME ClimbAssumption ==
  \A S \in SUBSET Inside :
    S # {} /\ (\A n \in S \ {Root} : Parent[n] \in S) => Root \in S
ASSUME OthersAssumption ==
  /\ Late \subseteq Nodes \ {Root} /\ Vanishing \subseteq Nodes
  /\ Replaceable \subseteq {n \in Nodes : Kind[n] = "directory"}
  /\ Locks \subseteq SUBSET Nodes /\ Closures \subseteq SUBSET Nodes
  /\ \A n \in Inside \ {Root} : Parent[n] \in Late => n \in Late
  /\ ReadsFail \in BOOLEAN
ASSUME ModulusAssumption == Modulus \in Nat /\ Modulus > 1
(* The nodes that exist can be counted in a uintmax_t.                     *)
ASSUME WidthAssumption == IsFiniteSet(Nodes) /\ Cardinality(Nodes) < Modulus

npos == Modulus - 1
Plus(a, b) == (a + b) % Modulus

VARIABLES
  present,   \* the nodes that exist
  created,   \* the Late nodes that have been created; each is, once
  locked, closed,
  swapped,   \* the directories that have become a link to a directory
  caught,    \* history: those c was about to read, or was reading, by then
  frames,    \* frames[c]: the recursion of call c, innermost last
  result,    \* result[c]: what c returned
  removed    \* history: the nodes c itself removed

others == <<created, locked, closed, swapped, caught>>
vars == <<present, others, frames, result, removed>>

Errors == {"ok", "ENOENT", "EACCES", "EIO", "ENOTEMPTY"}

Frames ==
  [path : Nodes, at : {"stat", "open", "scan", "unlink"},
   left : SUBSET Nodes, count : 0..npos]

TypeOK ==
  /\ present \subseteq Nodes
  /\ created \subseteq Late
  /\ locked \subseteq Nodes /\ closed \subseteq Nodes
  /\ swapped \subseteq Replaceable
  /\ caught \in [Calls -> SUBSET swapped]
  /\ frames \in [Calls -> Seq(Frames)]
  /\ result \in [Calls -> [done : BOOLEAN, count : 0..npos, err : Errors]]
  /\ removed \in [Calls -> SUBSET Nodes]

Children(n) == {m \in Nodes \ {Root} : Parent[m] = n}

(* Every path that goes through d: the least set that has its children and *)
(* the children of each of its members.                                    *)
Behind ==
  [d \in Nodes |->
     {n \in Nodes : \A S \in SUBSET Nodes :
        Children(d) \subseteq S /\ (\A m \in S : Children(m) \subseteq S) => n \in S}]

(* What lstat() takes for a directory.                                     *)
IsDirectory(n) == Kind[n] = "directory" /\ n \notin swapped

(* The paths that name nothing any more when the node n is unlinked.       *)
Lost(n) == {n} \cup (IF n \in swapped THEN Behind[n] ELSE {})

(* Mistake: the directory itself is not counted.                           *)
FrameFromZero(n) == [path |-> n, at |-> "stat", left |-> {}, count |-> 0]

Frame(n) == [path |-> n, at |-> "stat", left |-> {}, count |-> 1]

Init ==
  /\ present = Nodes \ Late
  /\ created = {}
  /\ locked \in Locks
  /\ closed \in Closures
  /\ swapped = {}
  /\ caught = [c \in Calls |-> {}]
  /\ frames = [c \in Calls |-> <<Frame(Root)>>]
  /\ result = [c \in Calls |-> [done |-> FALSE, count |-> 0, err |-> "ok"]]
  /\ removed = [c \in Calls |-> {}]

-----------------------------------------------------------------------------
Depth(c) == Len(frames[c])
Top(c) == frames[c][Depth(c)]
At(c, step) == frames[c] # << >> /\ Top(c).at = step

GoTo(c, step) == frames' = [frames EXCEPT ![c][Depth(c)].at = step]

Finish(c, count, err) ==
  /\ frames' = [frames EXCEPT ![c] = << >>]
  /\ result' = [result EXCEPT ![c] = [done |-> TRUE, count |-> count, err |-> err]]

(* Mistake: ENOENT is an error like any other.                             *)
FailAlways(c, err) == Finish(c, npos, err)

(* Mistake: the -1 of a failure is not converted to uintmax_t.             *)
FailSigned(c, err) ==
  IF err = "ENOENT" THEN Finish(c, 0, "ok") ELSE Finish(c, 0 - 1, err)

(* An error leaves every level at once; remove_all_impl makes "nothing     *)
(* removed, no error" of ENOENT, wherever in the tree it came from.        *)
Fail(c, err) ==
  IF err = "ENOENT" THEN Finish(c, 0, "ok") ELSE Finish(c, npos, err)

(* do_remove_all_impl returns without an error: the loop of the caller     *)
(* adds the count, npos included, to its own.                              *)
Return(c, count) ==
  IF Depth(c) = 1 THEN Finish(c, count, "ok")
  ELSE LET outer == SubSeq(frames[c], 1, Depth(c) - 1) IN
       /\ frames' = [frames EXCEPT ![c] =
            [outer EXCEPT ![Len(outer)].count = Plus(@, count)]]
       /\ UNCHANGED result

(* Mistake: status_impl, which follows links, is asked.                    *)
StatusThroughLinks(c) ==
  /\ At(c, "stat")
  /\ IF Top(c).path \notin present THEN Fail(c, "ENOENT")
     ELSE /\ GoTo(c, IF Kind[Top(c).path] = "file" THEN "unlink" ELSE "open")
          /\ UNCHANGED result
  /\ UNCHANGED <<present, others, removed>>

(* symlink_status_impl(p, &ec).                                            *)
SymLinkStatus(c) ==
  /\ At(c, "stat")
  /\ IF Top(c).path \notin present THEN Fail(c, "ENOENT")
     ELSE /\ GoTo(c, IF IsDirectory(Top(c).path) THEN "open" ELSE "unlink")
          /\ UNCHANGED result
  /\ UNCHANGED <<present, others, removed>>

(* Entries that exist now are returned; one that is created later, before  *)
(* the end is reached, may be or not.                                      *)
Scan(c) ==
  \E later \in SUBSET (Children(Top(c).path) \cap (Late \ created)) :
    frames' = [frames EXCEPT ![c][Depth(c)] =
      [Top(c) EXCEPT !.at = "scan",
                     !.left = (Children(Top(c).path) \cap present) \cup later]]

(* Mistake: why opendir() failed is not asked.                             *)
OpenOrDenied(c) ==
  /\ At(c, "open")
  /\ IF Top(c).path \notin present \ closed THEN Fail(c, "EACCES")
     ELSE Scan(c) /\ UNCHANGED result
  /\ UNCHANGED <<present, others, removed>>

(* directory_iterator it(p, ec).  opendir() follows a link, also one that  *)
(* has taken the place of the directory since it was looked at.            *)
OpenDirectory(c) ==
  /\ At(c, "open")
  /\ IF Top(c).path \notin present THEN Fail(c, "ENOENT")
     ELSE IF Top(c).path \in closed THEN Fail(c, "EACCES")
     ELSE Scan(c) /\ UNCHANGED result
  /\ UNCHANGED <<present, others, removed>>

(* The iterator stands at an entry, which may be gone by now: recurse.     *)
NextEntry(c) ==
  /\ At(c, "scan")
  /\ \E n \in Top(c).left \ (Late \ created) :
       frames' = [frames EXCEPT ![c] =
         Append([frames[c] EXCEPT ![Depth(c)].left = @ \ {n}], Frame(n))]
  /\ UNCHANGED <<present, others, result, removed>>

(* Mistake: a directory that has been emptied is read once more.           *)
ReadOnceMore(c) ==
  /\ At(c, "scan")
  /\ \/ Top(c).left \cap present = {} /\ GoTo(c, "open") /\ UNCHANGED result
     \/ ReadsFail /\ Fail(c, "EIO")
  /\ UNCHANGED <<present, others, removed>>

(* The iterator is the end iterator, after an error or not.  The stream of *)
(* a directory that has been moved away since returns what is left there,  *)
(* whatever its path shows by now.                                         *)
EndOfDirectory(c) ==
  /\ At(c, "scan")
  /\ \/ /\ Top(c).left \cap present = {} \/ Top(c).path \in caught[c]
        /\ GoTo(c, "unlink")
        /\ UNCHANGED result
     \/ ReadsFail /\ Fail(c, "EIO")
  /\ UNCHANGED <<present, others, removed>>

(* remove_impl(p, &ec): false without an error when p does not exist.      *)
Unlink(c) ==
  LET p == Top(c).path IN
  /\ At(c, "unlink")
  /\ IF p \notin present THEN Return(c, npos) /\ UNCHANGED <<present, removed>>
     ELSE IF p \in locked THEN Fail(c, "EACCES") /\ UNCHANGED <<present, removed>>
     ELSE IF IsDirectory(p) /\ Children(p) \cap present # {}
     THEN Fail(c, "ENOTEMPTY") /\ UNCHANGED <<present, removed>>
     ELSE /\ Return(c, Top(c).count)
          /\ present' = present \ Lost(p)
          /\ removed' = [removed EXCEPT ![c] = @ \cup {p}]
  /\ UNCHANGED others

(* Other programs.                                                         *)
Create(n) ==
  /\ n \in Late \ created
  /\ Parent[n] \in present
  /\ present' = present \cup {n}
  /\ created' = created \cup {n}
  /\ UNCHANGED <<locked, closed, swapped, caught, frames, result, removed>>

Vanish(n) ==
  /\ n \in Vanishing \cap present
  /\ IsDirectory(n) => Children(n) \cap present = {}
  /\ present' = present \ Lost(n)
  /\ UNCHANGED <<others, frames, result, removed>>

(* The directory is moved away and a link to another one, which shows any  *)
(* of the same names, takes its place.                                     *)
Relink(d) ==
  /\ d \in (Replaceable \cap present) \ swapped
  /\ \E shown \in SUBSET (Behind[d] \ (Late \ created)) :
       /\ \A n \in shown : Parent[n] \in shown \cup {d}
       /\ present' = (present \ Behind[d]) \cup shown
  /\ swapped' = swapped \cup {d}
  /\ caught' = [c \in Calls |->
       IF \E i \in 1..Len(frames[c]) :
            frames[c][i].path = d /\ frames[c][i].at \in {"open", "scan"}
       THEN caught[c] \cup {d} ELSE caught[c]]
  /\ UNCHANGED <<created, locked, closed, frames, result, removed>>

Step(c) ==
  \/ SymLinkStatus(c) \/ OpenDirectory(c) \/ NextEntry(c)
  \/ EndOfDirectory(c) \/ Unlink(c)

Next ==
  \/ \E c \in Calls : Step(c)
  \/ \E n \in Nodes : Create(n) \/ Vanish(n) \/ Relink(n)

Spec == Init /\ [][Next]_vars

(* Every call runs on its own thread, which the system schedules.          *)
FairSpec == Spec /\ \A c \in Calls : WF_vars(Step(c))

-----------------------------------------------------------------------------
Done(c) == result[c].done
Succeeded(c) == Done(c) /\ result[c].err = "ok"
Failed(c) == Done(c) /\ result[c].err # "ok"

(* Every path a call removes is one of the tree, links not followed, and   *)
(* none leads through a link that was there when the call looked at it: a  *)
(* link goes, its target and what is seen through it stay.  Only behind a  *)
(* directory that becomes a link after the call has taken it for a         *)
(* directory, and before it has read it to the end, is anything removed    *)
(* that may not be of the tree; the code does not notice that.             *)
OnlyInside ==
  [][\A c \in Calls : LET gone == removed'[c] \ removed[c] IN
       /\ gone \subseteq Inside
       /\ \A d \in swapped : gone \cap Behind[d] # {} => d \in caught[c]]_vars

(* Nobody but the calls has created, unlinked or replaced anything.        *)
Undisturbed ==
  /\ created = {} /\ swapped = {}
  /\ present \cup UNION {removed[c] : c \in Calls} = Nodes \ Late

(* A call nothing interferes with, the others not having begun, removes    *)
(* the whole tree and says how many nodes there were, or reports an error  *)
(* and the root is still there.                                            *)
AloneIsExact ==
  \A c \in Calls :
    (Undisturbed /\ \A other \in Calls \ {c} : frames[other] = <<Frame(Root)>>) =>
      /\ Succeeded(c) => /\ present \cap Inside = {}
                         /\ removed[c] = Inside \ Late
                         /\ result[c].count = Cardinality(removed[c])
      /\ Failed(c) => Root \in present /\ result[c].count = npos

(* Calls on one tree may outrun each other, but an error is only reported  *)
(* when it kept the root from being removed by anyone: when the disk could *)
(* be read and nobody else interfered.                                     *)
ErrorMeansItRemains ==
  \A c \in Calls :
    (Failed(c) /\ result[c].err # "EIO" /\ Undisturbed) => Root \in present

(* In a tree without obstacles, and with no others than such that unlink,  *)
(* calls racing each other report no error but that of a disk that cannot  *)
(* be read.                                                                *)
RacesAreSilent ==
  (locked = {} /\ closed = {} /\ created = {} /\ swapped = {}) =>
    \A c \in Calls : Failed(c) => result[c].err = "EIO"

(* Every call returns, also while others create, remove and replace.       *)
Terminates == <>(\A c \in Calls : Done(c))
=============================================================================
