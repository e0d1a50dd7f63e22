------------------------- MODULE RecursiveIteration -------------------------
(***************************************************************************)
(* A recursive_directory_iterator and the program that drives it           *)
(* (include/filesystem/fs_dir.h, src/fs_dir_iterator.cpp): construction,   *)
(* increment, pop, disable_recursion_pending and queries on the entry the  *)
(* iterator stands at, in a tree other programs change.                    *)
(*                                                                         *)
(* The throwing and the error_code forms of an operation leave the same    *)
(* state; "err" is the error either of them reports.                       *)
(***************************************************************************)
EXTENDS DirectoryStream

CONSTANTS
  Worlds,     \* the kinds of trees to start from
  Denials,    \* the sets of closed directories to start from
  Choices     \* the options an iterator may be given

ASSUME StartAssumption ==
  /\ Worlds \subseteq [Nodes -> Kinds]
  /\ Denials \subseteq SUBSET Directories
  /\ Choices \subseteq SUBSET Options

VARIABLES
  stack,      \* impl_->dir_stack; << >> when impl_ is null
  recursion,  \* recursion_
  pc,         \* "new" before the constructor, then "live" or "end"
  err,        \* the error the last operation reported
  visited,    \* history: the nodes the iterator has stood at
  pruned      \* history: the program skipped entries (pop, disable)

iterator == <<stack, recursion, pc, err, visited>>
vars == <<world, iterator, pruned>>

Top == stack[Len(stack)]
Current == Top.entry
depth == Len(stack) - 1

IterationErrors ==
  {"ok", "ENOENT", "ENOTDIR", "EACCES", "EIO", "EINVAL"}

TypeOK ==
  /\ WorldTypeOK
  /\ stack \in Seq(Streams)
  /\ recursion \in BOOLEAN
  /\ pc \in {"new", "live", "end"}
  /\ err \in IterationErrors
  /\ visited \subseteq Nodes
  /\ pruned \in BOOLEAN

Init ==
  /\ WorldInit(Worlds, Denials, Choices)
  /\ stack = << >>
  /\ recursion = TRUE
  /\ pc = "new"
  /\ err = "ok"
  /\ visited = {}
  /\ pruned = FALSE

-----------------------------------------------------------------------------
(* Where an operation leaves the iterator.                                 *)
StandAt(s) ==
  /\ stack' = s
  /\ pc' = "live"
  /\ err' = "ok"
  /\ visited' = visited \cup {s[Len(s)].entry}

(* impl_.reset().                                                          *)
Finish(e) ==
  /\ stack' = << >>
  /\ pc' = "end"
  /\ err' = e
  /\ UNCHANGED visited

(* The constructor; an error and a directory with no entry both leave the  *)
(* end iterator.                                                           *)
Construct ==
  /\ pc = "new"
  /\ \/ \E s \in OpenStreams(Root) : StandAt(<<s>>)
     \/ \E e \in OpenErrors(Root) : Finish(e)
  /\ UNCHANGED <<world, recursion, pruned>>

(* Mistake: streams that are at their end are not popped.                  *)
AdvanceKeepsStreams(s) ==
  \/ /\ \A i \in 1..Len(s) : MayEnd(s[i])
     /\ Finish("ok")
  \/ \E k \in 1..Len(s) :
       /\ \A i \in k+1..Len(s) : MayEnd(s[i])
       /\ \/ \E t \in NextEntries(s[k]) : StandAt([s EXCEPT ![k] = t])
          \/ \E e \in ReadErrors : Finish(e)

(* Mistake: the iteration is over when the innermost stream is.            *)
AdvanceInnermost(s) ==
  \/ MayEnd(s[Len(s)]) /\ Finish("ok")
  \/ \E t \in NextEntries(s[Len(s)]) : StandAt([s EXCEPT ![Len(s)] = t])
  \/ \E e \in ReadErrors : Finish(e)

(* Mistake: errno is not cleared before readdir(), so the end of the last  *)
(* directory reports what an earlier call left there.                      *)
AdvanceStaleErrno(s) ==
  \/ /\ \A i \in 1..Len(s) : MayEnd(s[i])
     /\ Finish("ENOENT")
  \/ \E k \in 1..Len(s) :
       /\ \A i \in k+1..Len(s) : MayEnd(s[i])
       /\ \/ \E t \in NextEntries(s[k]) : StandAt(Append(SubSeq(s, 1, k-1), t))
          \/ \E e \in ReadErrors : Finish(e)

(* Advance(): pop every stream that is at its end, then the next entry of  *)
(* the first that is not, or an error reading it.                          *)
Advance(s) ==
  \/ /\ \A i \in 1..Len(s) : MayEnd(s[i])
     /\ Finish("ok")
  \/ \E k \in 1..Len(s) :
       /\ \A i \in k+1..Len(s) : MayEnd(s[i])
       /\ \/ \E t \in NextEntries(s[k]) : StandAt(Append(SubSeq(s, 1, k-1), t))
          \/ \E e \in ReadErrors : Finish(e)

(* TryRecursion(): what the entry's own cache says it is.                  *)
Classify ==
  LET asked == Call(Top.cache, "ec") IN
  IF Follows THEN GetFileType(asked, Stat(Current))
             ELSE GetSymLinkFileType(asked, Stat(Current))

Remembering(cache) == [stack EXCEPT ![Len(stack)].cache = cache]

(* m_ec after "if (m_ec && status_known(st)) m_ec.clear()".                *)
ClassifyError(c) == IF StatusKnown(c.type) THEN "ok" ELSE c.err

Descends(c) == ClassifyError(c) = "ok" /\ c.type = "directory"

RecursionErrors(c) ==
  IF Descends(c) THEN OpenErrors(Current) ELSE {ClassifyError(c)}

Tolerated(e) == e = "ok" \/ (e = "EACCES" /\ Skips)

(* do_increment().                                                         *)
Increment ==
  /\ pc = "live"
  /\ IF recursion
     THEN LET c == Classify
              s == Remembering(c.cache)
          IN \/ /\ Descends(c)
                /\ \E t \in OpenStreams(Current) : StandAt(Append(s, t))
             \/ \E e \in RecursionErrors(c) :
                  IF Tolerated(e) THEN Advance(s) ELSE Finish(e)
     ELSE Advance(stack)
  /\ recursion' = TRUE
  /\ UNCHANGED <<world, pruned>>

(* pop_impl().                                                             *)
Pop ==
  /\ pc = "live"
  /\ LET s == SubSeq(stack, 1, Len(stack) - 1) IN
     IF s = << >> THEN Finish("ok") ELSE Advance(s)
  /\ pruned' = TRUE
  /\ UNCHANGED <<world, recursion>>

DisableRecursionPending ==
  /\ pc = "live"
  /\ recursion' = FALSE
  /\ pruned' = TRUE
  /\ UNCHANGED <<world, stack, pc, err, visited>>

(* do_increment() and pop() of an iterator that has no impl_.              *)
IncrementAtEnd ==
  /\ pc = "end"
  /\ err' = "EINVAL"
  /\ recursion' \in {recursion, TRUE}
  /\ UNCHANGED <<world, stack, pc, visited, pruned>>

(* A throwing query on the entry the iterator stands at; it fills the      *)
(* cache inside the stream.                                                *)
Ask(done) ==
  /\ stack' = Remembering(done.cache)
  /\ UNCHANGED <<world, recursion, pc, err, visited, pruned>>

EntryIsDirectory ==
  pc = "live" /\ Ask(GetFileType(Call(Top.cache, "throw"), Stat(Current)))
EntryFileSize ==
  pc = "live" /\ Ask(GetSize(Call(Top.cache, "throw"), Stat(Current)))
EntryStatus ==
  pc = "live" /\ Ask(GetStatus(Call(Top.cache, "throw"), Stat(Current)))

Environment ==
  /\ \E n \in Nodes : Remove(n) \/ Deny(n)
  /\ UNCHANGED <<iterator, pruned>>

Drive == Construct \/ Increment

Next ==
  \/ Drive
  \/ Pop \/ DisableRecursionPending \/ IncrementAtEnd
  \/ EntryIsDirectory \/ EntryFileSize \/ EntryStatus
  \/ Environment

Spec == Init /\ [][Next]_vars

(* The program's loop calls increment until the iterator is the end.       *)
FairSpec == Spec /\ WF_vars(Drive)

-----------------------------------------------------------------------------
(* Standing at a node happens once per node and parents first, the end is  *)
(* for good: whatever the program prunes and others remove or close.       *)
Promise == INSTANCE Traversal WITH
             at <- IF stack = << >> THEN Root ELSE Current,
             ended <- pc = "end"
ImplementsTraversal == Promise!Spec

(* The stack is the path to the current entry: each stream was opened on   *)
(* the entry the one below stands at, the first on the root, every stream  *)
(* stands at one of its own entries, and without follow_directory_symlink  *)
(* none is opened on a link; an iterator without a stack has ended.        *)
StackIsTrail ==
  /\ TypeOK
  /\ (pc = "live") <=> (stack # << >>)
  /\ ~Follows => \A i \in 2..Len(stack) : kind[stack[i].root] = "directory"
  /\ \A i \in 1..Len(stack) :
       /\ stack[i].root = (IF i = 1 THEN Root ELSE stack[i-1].entry)
       /\ stack[i].entry \in Children(stack[i].root)

(* An iteration the program did not prune and that ended without an error  *)
(* stood at everything that is still there below directories it could      *)
(* open, although other programs removed nodes and closed directories      *)
(* meanwhile.  Links count as directories when they are to be followed.    *)
Listable(d) ==
  /\ d \notin denied
  /\ \/ d = Root
     \/ d \in visited /\ kind[d] = "directory"
     \/ d \in visited /\ kind[d] = "dirlink" /\ Follows

Complete ==
  (pc = "end" /\ err = "ok" /\ ~pruned)
  => \A n \in present : Listable(Parent[n]) => n \in visited

(* The same of a tree without links, by an iterator that is not to follow  *)
(* any.                                                                    *)
CompleteWithoutLinks ==
  (~Follows /\ \A n \in Nodes : ~IsLink(n)) => Complete

(* No error without a cause: when nothing was removed and no directory is  *)
(* closed the iteration ends without one, but for a disk that cannot be    *)
(* read.  A closed directory is no cause when skip_permission_denied is    *)
(* given, wherever it is met, and an error ends the iteration.             *)
QuietSucceeds ==
  /\ present = Nodes /\ denied = {} => err \in {"ok", "EINVAL"} \cup ReadErrors
  /\ Skips => err # "EACCES"
  /\ err # "ok" => pc = "end"

(* A program that keeps incrementing reaches the end: the tree is finite   *)
(* and no directory is entered twice.                                      *)
Terminates == <>(pc = "end")
=============================================================================
