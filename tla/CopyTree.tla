------------------------------ MODULE CopyTree ------------------------------
(***************************************************************************)
(* copy (fs_ops.cpp, POSIX branch): the decision on the two files, the     *)
(* call it leads to, and for a directory the iteration over its entries,   *)
(* each copied by a call of its own.  Other programs add and remove files  *)
(* meanwhile, and readdir() may fail.  copy_file is two steps here, the    *)
(* look at its files and the rest; all its system calls are in CopyFile.   *)
(*                                                                         *)
(* A text is the sequence of the names of a path.  A place is a text that  *)
(* leads through no symlink.                                               *)
(***************************************************************************)
EXTENDS Integers, Sequences, SequencesExt

CONSTANTS Names,
          Places,     \* where there may be something
          Source,
          Starts,     \* what may be at the places at first, and where a copy goes
          OptionSets, \* the copy_options calls are made with
          MaxLen,     \* PATH_MAX, in names
          MaxOthers   \* bound on the steps of other programs

Root == <<>>
Void == <<"a name in something that is no directory">>

\* Files and hard links to them have the id in common, a symlink leads to "to".
Kinds == {"none", "dir", "file", "link", "other"}
Node(kind, id, to) == [kind |-> kind, id |-> id, to |-> to]
Nothing == Node("none", Root, Root)
Nodes == [kind : Kinds, id : Places, to : Places]

ASSUME PlaceAssumption ==
    /\ Root \in Places /\ Void \notin Places /\ Places \subseteq Seq(Names)
    /\ \A p \in Places \ {Root} : Front(p) \in Places
    /\ Source \in Places \ {Root}
    /\ MaxLen \in Nat /\ MaxOthers \in Nat
\* Everything is in a directory, a file has its id from one of its places, and
\* no symlink leads to another: a chain of them is one that leads to its end.
ASSUME TreeAssumption ==
    \A s \in Starts :
        /\ s.tree \in [Places -> Nodes] /\ s.tree[Root].kind = "dir"
        /\ \A p \in Places \ {Root} :
              s.tree[p].kind # "none" => s.tree[Front(p)].kind = "dir"
        /\ \A p \in Places :
              /\ s.tree[p].kind = "file" => s.tree[s.tree[p].id] = s.tree[p]
              /\ s.tree[p].kind = "link" => s.tree[s.tree[p].to].kind # "link"
        /\ s.target \in Seq(Names) \ {Root}

VARIABLES node,     \* what is at each place
          data,     \* whose content each file was written with, its own at first
          was,      \* history: node, at first
          Target, options,
          calls,    \* the stack of copy_impl calls, the innermost last
          looked,   \* the files copy_file saw, while it opens the target
          answer,
          unread,   \* history: has readdir() failed?
          others    \* how many steps other programs have taken

disk == <<node, data>>
given == <<was, Target, options>>
vars == <<disk, given, calls, looked, answer, unread, others>>

\* The id of the source, and that of the target, if there was one.
NotLooked == [source |-> Root, target |-> Void]

Call(from, to) == [from |-> from, to |-> to, pc |-> "look", entries |-> {}, read |-> {}]

Init ==
    /\ \E s \in Starts : node = s.tree /\ Target = s.target
    /\ data = [p \in Places |-> p]
    /\ was = node
    /\ options \in OptionSets
    /\ calls = <<Call(Source, Target)>>
    /\ looked = NotLooked
    /\ answer = "none"
    /\ unread = FALSE
    /\ others = 0

-----------------------------------------------------------------------------
(* Lookup.                                                                 *)

\* Where the last name of a text leads, through a link only if "follow".
Reached(tree, text, follow) ==
    LET next == [i \in 1..Len(text) |-> [up \in Places \cup {Void} |->
            IF up = Void THEN Void
            ELSE LET p == Append(up, text[i])
                 IN  IF tree[up].kind # "dir" \/ p \notin Places THEN Void
                     ELSE IF tree[p].kind = "link" /\ (i < Len(text) \/ follow)
                     THEN tree[p].to
                     ELSE p]]
        at[i \in 0..Len(text)] == IF i = 0 THEN Root ELSE next[i][at[i - 1]]
    IN  at[Len(text)]

\* The place a text leads to.
Walk(tree, text, follow) ==
    LET p == Reached(tree, text, follow) IN IF p \in Places THEN p ELSE Void

Found(tree, text, follow) ==
    LET p == Walk(tree, text, follow) IN IF p = Void THEN Nothing ELSE tree[p]

Stat(text, follow) == Found(node, text, follow)
TooLong(text) == Len(text) > MaxLen
Exists(n) == n.kind # "none"
Equivalent(n1, n2) == Exists(n1) /\ Exists(n2) /\ n1.id = n2.id

\* The names in the directory a text leads to.
Listed(text) ==
    {n \in Names : Exists(Stat(Append(text, n), FALSE))}

Has(option) == option \in options
Recursive == Has("recursive") \/ options = {}

-----------------------------------------------------------------------------
(* The innermost call.                                                     *)

Current == Last(calls)
Goto(pc) == calls' = [calls EXCEPT ![Len(calls)].pc = pc] /\ UNCHANGED answer

Return == /\ calls' = Front(calls)
          /\ answer' = IF Len(calls) = 1 THEN "ok" ELSE answer

\* Every caller returns when *ec is set.
Fail == calls' = <<>> /\ answer' = "error"

\* The system call a copy of f goes on with.
Chosen(f, t) ==
    CASE f.kind = "link" ->
            IF Has("skip_symlinks") THEN "return"
            ELSE IF Exists(t) THEN "fail" ELSE "copy_symlink"
      [] f.kind = "file" ->
            IF Has("directories_only") THEN "return"
            ELSE IF Has("create_symlinks") THEN "create_symlink"
            ELSE IF Has("create_hard_links") THEN "create_hard_link"
            ELSE IF t.kind = "dir" THEN "copy_file_into" ELSE "copy_file"
      [] OTHER ->
            IF Has("create_symlinks") THEN "fail"
            ELSE IF ~Recursive THEN "return"
            ELSE IF Exists(t) THEN "open" ELSE "create_directory"

\* The two stat() or lstat() calls, and what follows from them.
Look ==
    /\ Current.pc = "look"
    /\ LET f == Stat(Current.from,
                     ~(Has("create_symlinks") \/ Has("skip_symlinks") \/ Has("copy_symlinks")))
           t == Stat(Current.to, ~(Has("create_symlinks") \/ Has("skip_symlinks")))
       IN  IF \/ TooLong(Current.from) \/ TooLong(Current.to)
              \/ ~Exists(f) \/ f.kind = "other" \/ t.kind = "other"
              \/ f.kind = "dir" /\ t.kind = "file"
              \/ Equivalent(f, t)
              \/ Chosen(f, t) = "fail"
           THEN Fail
           ELSE IF Chosen(f, t) = "return" THEN Return
           ELSE Goto(Chosen(f, t))
    /\ UNCHANGED <<disk, unread>>

\* Whether symlink(), link() or mkdir() can make something at a text.
CanMake(text) == /\ ~TooLong(text)
                 /\ Walk(node, text, FALSE) # Void
                 /\ ~Exists(Stat(text, FALSE))

Put(p, n) == node' = [node EXCEPT ![p] = n]

\* Whether there is something at a place, or can be.
Offered(p) == Exists(node[p]) \/ node[Front(p)].kind = "dir"

Make(text, n) ==
    IF CanMake(text) THEN Put(Walk(node, text, FALSE), n) /\ Return
                     ELSE Fail /\ UNCHANGED node

CopySymlink ==
    /\ Current.pc = "copy_symlink"
    /\ LET link == Stat(Current.from, FALSE)
       IN  IF link.kind # "link" THEN Fail /\ UNCHANGED node
           ELSE Make(Current.to, Node("link", Walk(node, Current.to, FALSE), link.to))
    /\ UNCHANGED <<data, unread>>

CreateSymlink ==
    /\ Current.pc = "create_symlink"
    /\ Make(Current.to, Node("link", Walk(node, Current.to, FALSE), Current.from))
    /\ UNCHANGED <<data, unread>>

\* link() does not follow a symlink.
CreateHardLink ==
    /\ Current.pc = "create_hard_link"
    /\ LET n == Stat(Current.from, FALSE)
       IN  IF n.kind \in {"none", "dir"} THEN Fail /\ UNCHANGED node
           ELSE Make(Current.to, n)
    /\ UNCHANGED <<data, unread>>

\* Where copy_file writes to.
FileTarget == IF Current.pc \in {"copy_file_into", "write_file_into"}
              THEN Append(Current.to, Last(Current.from))
              ELSE Current.to

\* The look at f and t has come to the end: t is opened next.
Opens(f, t) ==
    /\ Goto(IF Current.pc = "copy_file" THEN "write_file" ELSE "write_file_into")
    /\ looked' = [source |-> f.id, target |-> IF Exists(t) THEN t.id ELSE Void]

\* Mistake: what is there is overwritten.
LookAtFilesBlindly ==
    /\ Current.pc \in {"copy_file", "copy_file_into"}
    /\ LET f == Stat(Current.from, FALSE)
           t == Stat(FileTarget, TRUE)
       IN  IF f.kind # "file" \/ TooLong(FileTarget) \/ t.kind \notin {"none", "file"}
           THEN Fail /\ UNCHANGED looked
           ELSE Opens(f, t)
    /\ UNCHANGED <<disk, unread>>

\* copy_file: it opens the source, looks at its name with lstat(), at the
\* target with stat(), and decides.
LookAtFiles ==
    /\ Current.pc \in {"copy_file", "copy_file_into"}
    /\ LET f == Stat(Current.from, FALSE)
           t == Stat(FileTarget, TRUE)
       IN  IF \/ f.kind # "file" \/ TooLong(FileTarget)
              \/ Exists(t) /\ (t.kind # "file" \/ t.id = f.id)
           THEN Fail /\ UNCHANGED looked
           ELSE IF Exists(t) /\ Has("skip_existing") THEN Return /\ UNCHANGED looked
           ELSE IF Exists(t) /\ ~Has("overwrite_existing") THEN Fail /\ UNCHANGED looked
           ELSE Opens(f, t)
    /\ UNCHANGED <<disk, unread>>

\* copy_file goes on: it opens the target, with O_CREAT if nothing was there
\* and without O_EXCL, looks at its name with lstat() if something was, and
\* writes.  A file that came between is written over, one that is not the one
\* that was there, or behind a symlink, is not.  (What a longer file keeps
\* behind the end of the source is left to CopyFile.)
WriteFile ==
    /\ Current.pc \in {"write_file", "write_file_into"}
    /\ LET p == Walk(node, FileTarget, TRUE)
           t == Stat(FileTarget, TRUE)
           n == Stat(FileTarget, FALSE)
       IN  IF \/ p = Void \/ ~Offered(p) \/ t.kind \notin {"none", "file"}
              \/ looked.target # Void /\ (n.kind # "file" \/ n.id # looked.target)
           THEN Fail /\ UNCHANGED disk
           ELSE IF ~Exists(t)
           THEN /\ Put(p, Node("file", p, Root))
                /\ data' = [data EXCEPT ![p] = data[looked.source]]
                /\ Return
           ELSE /\ data' = [data EXCEPT ![t.id] = data[looked.source]]
                /\ Return /\ UNCHANGED node
    /\ looked' = NotLooked
    /\ UNCHANGED unread

\* Mistake: the names of the new directory and of its model are swapped.
CreateDirectorySwapped ==
    /\ Current.pc = "create_directory"
    /\ IF Stat(Current.to, TRUE).kind # "dir" THEN Fail /\ UNCHANGED node
       ELSE Goto("open") /\ UNCHANGED node
    /\ UNCHANGED <<data, unread>>

\* create_directory(to, from): it is no error that there is something.
CreateDirectory ==
    /\ Current.pc = "create_directory"
    /\ IF Stat(Current.from, TRUE).kind # "dir" THEN Fail /\ UNCHANGED node
       ELSE IF CanMake(Current.to)
       THEN LET p == Walk(node, Current.to, FALSE)
            IN  Put(p, Node("dir", p, Root)) /\ Goto("open")
       ELSE IF Exists(Stat(Current.to, FALSE)) THEN Goto("open") /\ UNCHANGED node
       ELSE Fail /\ UNCHANGED node
    /\ UNCHANGED <<data, unread>>

Opened(pc) ==
    /\ calls' = [calls EXCEPT ![Len(calls)].pc = pc,
                              ![Len(calls)].entries = Listed(Current.from)]
    /\ UNCHANGED answer

\* The constructor of the directory_iterator: opendir().
OpenDirectory ==
    /\ Current.pc = "open"
    /\ IF Stat(Current.from, TRUE).kind # "dir" THEN Fail ELSE Opened("first")
    /\ UNCHANGED <<disk, unread>>

\* The names readdir() may answer with: those of the beginning, and those
\* that came later.
Unread == (Current.entries \cup Listed(Current.from)) \ Current.read

\* The end of the directory comes when all of the beginning that are still
\* there have come.
AtEnd == Current.entries \cap Listed(Current.from) \subseteq Current.read

\* Mistake: an entry is copied to the directory's own name.
CopyEntryFlat(n) ==
    /\ calls' = Append([calls EXCEPT ![Len(calls)].pc = "next",
                                     ![Len(calls)].read = @ \cup {n}],
                       Call(Append(Current.from, n), Current.to))
    /\ UNCHANGED <<answer, unread>>

\* Mistake: after each entry the directory is read from the beginning.
CopyEntryAgain(n) ==
    /\ calls' = Append([calls EXCEPT ![Len(calls)].pc = "next"],
                       Call(Append(Current.from, n), Append(Current.to, n)))
    /\ UNCHANGED <<answer, unread>>

CopyEntry(n) ==
    /\ calls' = Append([calls EXCEPT ![Len(calls)].pc = "next",
                                     ![Len(calls)].read = @ \cup {n}],
                       Call(Append(Current.from, n), Append(Current.to, n)))
    /\ UNCHANGED <<answer, unread>>

\* Mistake: the iterator is advanced before the entry is copied, and the last
\* entry is lost.
ReadNextEarly ==
    /\ Current.pc \in {"first", "next"}
    /\ \/ \E n \in Unread : Unread # {n} /\ CopyEntry(n)
       \/ Cardinality(Unread) <= 1 /\ Return /\ UNCHANGED unread
    /\ UNCHANGED disk

\* The first entry is read by the constructor and its error is reported.  The
\* others are read by increment(m_ec2): an error leaves the end iterator,
\* and the loop ends before it looks at m_ec2.
ReadNext ==
    /\ Current.pc \in {"first", "next"}
    /\ \/ \E n \in Unread : CopyEntry(n)
       \/ AtEnd /\ Return /\ UNCHANGED unread
       \/ /\ unread' = TRUE
          /\ IF Current.pc = "first" THEN Fail ELSE Return
    /\ UNCHANGED disk

Step ==
    /\ calls # <<>>
    /\ \/ /\ \/ Look \/ CopySymlink \/ CreateSymlink \/ CreateHardLink
             \/ CreateDirectory \/ OpenDirectory \/ ReadNext
          /\ UNCHANGED looked
       \/ LookAtFiles \/ WriteFile
    /\ UNCHANGED <<given, others>>

-----------------------------------------------------------------------------
(* Other programs, while the copy runs.                                    *)

Disturb == /\ calls # <<>>
           /\ others < MaxOthers
           /\ others' = others + 1
           /\ UNCHANGED <<given, data, calls, looked, answer, unread>>

OtherRemoves(p) ==
    /\ Disturb
    /\ p # Root /\ Exists(node[p])
    /\ \A q \in Places : q # Root /\ Front(q) = p => ~Exists(node[q])
    /\ Put(p, Nothing)

OtherMakes(p) ==
    /\ Disturb
    /\ p # Root /\ ~Exists(node[p]) /\ node[Front(p)].kind = "dir"
    /\ \A q \in Places : node[q].id # p
    /\ \E k \in {"dir", "file"} : Put(p, Node(k, p, Root))

Next == Step \/ \E p \in Places : OtherRemoves(p) \/ OtherMakes(p)

Spec == Init /\ [][Next]_vars /\ WF_vars(Step)

-----------------------------------------------------------------------------
(* Properties.                                                             *)

Steps == {"look", "copy_symlink", "create_symlink", "create_hard_link", "copy_file",
          "copy_file_into", "write_file", "write_file_into", "create_directory", "open",
          "first", "next"}
TypeOK ==
    /\ node \in [Places -> Nodes]
    /\ data \in [Places -> Places]
    /\ looked \in [source : Places, target : Places \cup {Void}]
    /\ unread \in BOOLEAN
    /\ others \in 0..MaxOthers
    /\ answer \in {"none", "ok", "error"}
    /\ answer = "none" <=> calls # <<>>
    /\ \A i \in 1..Len(calls) :
          /\ calls[i].pc \in Steps
          /\ calls[i].entries \cup calls[i].read \subseteq Names
          /\ i < Len(calls) => calls[i].pc = "next"

\* The innermost call copies the place of the source to the same place below
\* the target: the names on the way are those the calls around it have read.
CallsMirror ==
    /\ TypeOK
    /\ \A i \in 1..Len(calls) :
        /\ Len(calls[i].from) = Len(Source) + i - 1
        /\ calls[i].to = Target \o SubSeq(calls[i].from, Len(Source) + 1, Len(calls[i].from))
        /\ i > 1 => /\ Front(calls[i].from) = calls[i - 1].from
                    /\ Last(calls[i].from) \in calls[i - 1].read

IsWithin(text, dir) == IsPrefix(dir, text)

\* No symlink is on the way to a place at or below the target.
Near(p) == IsWithin(p, Target) \/ IsWithin(Target, p)
Direct == \A p \in Places : Near(p) => was[p].kind # "link"

\* A copy looks behind the symlinks in the source.
Follows == options \cap {"create_symlinks", "skip_symlinks", "copy_symlinks"} = {}

\* A look at the source comes through the place before it comes to the source.
OnTheWay(p) == \E i \in 1..Len(Source) - 1 : p = Walk(was, SubSeq(Source, 1, i), FALSE)

\* Neither of source and target is in the other, no symlink that is followed
\* leads from the one to the other, and what is overwritten has no other name.
Apart ==
    /\ ~IsWithin(Target, Source) /\ ~IsWithin(Source, Target) /\ Direct
    /\ \A p \in Places :
          was[p].kind = "link" /\ (Follows \/ OnTheWay(p)) => ~Near(was[p].to)
    /\ \A p, q \in Places :
          Has("overwrite_existing") /\ IsWithin(p, Target) /\ was[p].kind = "file"
              /\ was[q] = was[p] => q = p

\* What a copy of a file sees of it, and where it leaves a regular one:
\* at any depth that is in the directory that has the name already.
Seen(x) == Found(was, x, Follows)

Image(w) ==
    LET y == Target \o w
        x == Source \o w
        copies == options \cap {"create_symlinks", "create_hard_links"} = {}
    IN  IF Seen(x).kind = "file" /\ copies /\ Found(was, y, FALSE).kind = "dir"
        THEN Append(y, Last(x)) ELSE y

\* What a copy of x to y without an error means.
IsCopied(x, y) ==
    LET f == Seen(x)
        t == Stat(y, FALSE)
    IN  CASE f.kind = "link" -> Has("skip_symlinks") \/ (t.kind = "link" /\ t.to = f.to)
          [] f.kind = "file" ->
                \/ Has("directories_only")
                \/ Has("create_symlinks") /\ t.kind = "link" /\ t.to = x
                \/ Has("create_hard_links") /\ t = Found(was, x, FALSE)
                \/ /\ t.kind = "file"
                   /\ \/ data[t.id] = data[f.id]
                      \/ Has("skip_existing") /\ t = Found(was, y, FALSE)
          [] f.kind = "dir" -> ~Recursive \/ t.kind = "dir"
          [] OTHER -> FALSE

\* The texts below the source that a recursive copy comes to.
Below ==
    {w \in UNION {[1..n -> Names] : n \in 1..MaxLen - Len(Source)} :
        /\ Recursive
        /\ Exists(Found(was, Source \o w, FALSE))
        /\ \A i \in 0..Len(w) - 1 : Seen(Source \o SubSeq(w, 1, i)).kind = "dir"}

EverythingIsCopied == \A w \in {<<>>} \cup Below : IsCopied(Source \o w, Image(w))

\* The source is a directory that is to be copied into itself, or to itself.
IntoItself == /\ IsWithin(Target, Source) /\ Direct
              /\ was[Source].kind = "dir" /\ Recursive

\* copy answers without an error only when the target has become the image of
\* the source that the options ask for, unless readdir() failed or other
\* programs interfered; a directory that is copied into itself, whose image
\* has no end, is an error.
SuccessMeansCopied ==
    answer = "ok" /\ others = 0 /\ ~unread => (Apart => EverythingIsCopied) /\ ~IntoItself

\* Where the image of each thing in the source would be there is a directory,
\* or will be, and no name is too long.
HasRoom ==
    /\ Target \in Places /\ was[Front(Target)].kind = "dir"
    /\ \A p \in Places : IsWithin(p, Source) /\ Exists(was[p]) =>
          LET w == SubSeq(p, Len(Source) + 1, Len(p))
          IN  Target \o w \in Places /\ Len(p) <= MaxLen /\ Len(Target \o w) <= MaxLen

\* A copy of files and directories to a name that is free ...
PlainStart ==
    /\ ~IsWithin(Target, Source) /\ HasRoom
    /\ ~Exists(was[Target]) /\ Exists(was[Source]) /\ ~Has("create_symlinks")
    /\ \A p \in Places : IsWithin(p, Source) => was[p].kind \notin {"link", "other"}

\* ... that nothing has interfered with.
Plain == PlainStart /\ others = 0 /\ ~unread

\* Such a copy reports no error.
PlainCopySucceeds == Plain => answer # "error"

\* No step of a copy replaces or removes what is there, and none changes the
\* content of a file but where copy_file has found that very file and
\* overwrite_existing is set, or has found nothing: between its look and its
\* open() another program may have made a file there, and under any option it
\* is written over.
NothingIsReplaced ==
    [][UNCHANGED others =>
       /\ \A p \in Places : Exists(node[p]) => node'[p] = node[p]
       /\ \A p \in Places :
             (data'[p] # data[p] /\ \E q \in Places : node[q].kind = "file" /\ node[q].id = p) =>
                 \/ Has("overwrite_existing") /\ looked.target = p
                 \/ looked.target = Void]_vars

\* Also a copy of a directory into itself ends, and one of a directory with a
\* symlink to itself.
Terminates == <>(answer # "none")

\* The tests (ops_copy_test.cpp) take the absence of an error as a sign that
\* the whole tree is there.
NoErrorMeansCopied ==
    answer = "ok" /\ others = 0 /\ Apart => EverythingIsCopied
=============================================================================
