------------------------------ MODULE CopyFile ------------------------------
(***************************************************************************)
(* copy_file (src/fs_ops.cpp, POSIX branch with sendfile), one system call *)
(* a step, while other programs rename, unlink and create under the two    *)
(* names and shorten the source.                                           *)
(*                                                                         *)
(* A name leads to an inode or to none; a name that is a symlink leads     *)
(* there through a link inode of its own, which only lstat() sees.  The    *)
(* content of a file is a sequence of blocks.                              *)
(***************************************************************************)
EXTENDS Integers, Sequences, FiniteSets

CONSTANTS
  Inodes,      \* what the names may lead to, New excluded
  New,         \* the inode O_CREAT makes
  None,        \* a name that leads nowhere
  Kind,        \* what each inode is: "regular" or "directory"
  Contents,    \* the contents the files may have at first
  Starts,      \* what the two names may lead to at first
  LinkSets,    \* the sets of names that may be symlinks
  SendMax,     \* SENDFILE_MAX_BYTES in blocks
  BufSize,     \* BUFSIZ in blocks
  IOFails,     \* the values io_fails may have
  MaxDisturbances  \* bound: how often other programs interfere

Names == {"from", "to"}
Files == Inodes \cup {New}
Links == {"link_from", "link_to"}
Blocks == 0..9

ASSUME InodeAssumption ==
  /\ New \notin Inodes /\ None \notin Files /\ Links \cap Files = {}
  /\ Kind \in [Files -> {"regular", "directory"}] /\ Kind[New] = "regular"
ASSUME StartAssumption ==
  /\ Contents \subseteq [Files -> Seq(Blocks)]
  /\ \A c \in Contents : c[New] = << >>
  /\ Starts \subseteq [Names -> Inodes \cup {None}]
  /\ LinkSets \subseteq SUBSET Names
ASSUME SizeAssumption ==
  /\ SendMax \in Nat /\ BufSize \in Nat \ {0} /\ MaxDisturbances \in Nat
  /\ IOFails \subseteq BOOLEAN

Options == {"none", "skip_existing", "overwrite_existing", "update_existing"}

VARIABLES
  dir,       \* the inode each name leads to
  links,     \* the names that are symlinks
  data,      \* the content of each file
  io_fails,  \* whether fchmod, ftruncate, sendfile, read, write may fail
  newer,     \* whether the source's mtime is later than that of other files
  disturbances,  \* history: how often others have interfered ...
  swaps,     \* ... of these, by moving the target's name after the look at it
  option,    \* the copy_options
  pc,        \* the system call that is next, or "done"
  fd,        \* the file each descriptor is open on
  pos,       \* the offset of each descriptor
  st,        \* from_stat and to_stat_path
  buf,       \* what read() left in it
  result,    \* the returned value and error
  changed,   \* history: the files the call changed the mode or content of
  truncated, \* history: the files the call truncated
  short      \* history: whether a write() took less than it was given

disk == <<dir, data>>
given == <<links, io_fails, newer, option>>
meddling == <<disturbances, swaps>>
vars == <<disk, given, meddling, pc, fd, pos, st, buf, result, changed,
          truncated, short>>

Errors == {"ok", "ENOENT", "ENOTSUP", "EEXIST", "EISDIR", "EBADF", "EIO"}
Steps == {"open_from", "lstat_from", "stat_to", "open_to", "lstat_to", "chmod",
          "truncate", "send", "read", "write", "done"}
Stats == [ino : Files \cup Links \cup {None}, size : Nat]

TypeOK ==
  /\ dir \in [Names -> Files \cup {None}]
  /\ links \subseteq Names
  /\ data \in [Files -> Seq(Blocks)]
  /\ newer \in BOOLEAN /\ io_fails \in BOOLEAN
  /\ disturbances \in 0..MaxDisturbances /\ swaps \in 0..disturbances
  /\ option \in Options
  /\ pc \in Steps
  /\ fd \in [Names -> Files \cup {None}]
  /\ pos \in [Names -> Nat]
  /\ st \in [Names -> Stats]
  /\ buf \in Seq(Blocks)
  /\ result \in [copied : BOOLEAN, err : Errors]
  /\ changed \subseteq Files /\ truncated \subseteq Files
  /\ short \in BOOLEAN

NoStat == [ino |-> None, size |-> 0]

Init ==
  /\ dir \in Starts
  /\ links \in LinkSets
  /\ data \in Contents
  /\ newer \in BOOLEAN
  /\ io_fails \in IOFails
  /\ disturbances = 0 /\ swaps = 0
  /\ option \in Options
  /\ pc = "open_from"
  /\ fd = [n \in Names |-> None]
  /\ pos = [n \in Names |-> 0]
  /\ st = [n \in Names |-> NoStat]
  /\ buf = << >>
  /\ result = [copied |-> FALSE, err |-> "ok"]
  /\ changed = {} /\ truncated = {} /\ short = FALSE

-----------------------------------------------------------------------------
Return(copied, err) ==
  /\ pc' = "done"
  /\ result' = [copied |-> copied, err |-> err]

Goto(step) == pc' = step /\ UNCHANGED result

stat(name) ==
  IF dir[name] = None THEN NoStat
  ELSE [ino |-> dir[name], size |-> Len(data[dir[name]])]

(* A link is there also when it leads nowhere.                             *)
lstat(name) ==
  IF name \in links
  THEN [ino |-> IF name = "from" THEN "link_from" ELSE "link_to", size |-> 1]
  ELSE stat(name)

IsRegular(ino) == ino \in Files /\ Kind[ino] = "regular"

to_exists == st["to"].ino # None

(* FileDescriptor::Create(&from, m_ec, O_RDONLY | O_NONBLOCK).             *)
OpenFrom ==
  /\ pc = "open_from"
  /\ IF dir["from"] = None THEN Return(FALSE, "ENOENT") /\ UNCHANGED fd
     ELSE fd' = [fd EXCEPT !["from"] = dir["from"]] /\ Goto("lstat_from")
  /\ UNCHANGED <<disk, given, meddling, pos, st, buf, changed, truncated, short>>

(* from_fd.RefreshStatus(false): lstat() of the name, not fstat().         *)
LstatFrom ==
  /\ pc = "lstat_from"
  /\ LET s == lstat("from") IN
     /\ st' = [st EXCEPT !["from"] = s]
     /\ IF s.ino = None THEN Return(FALSE, "ENOENT")
        ELSE IF ~IsRegular(s.ino) THEN Return(FALSE, "ENOTSUP")
        ELSE Goto("stat_to")
  /\ UNCHANGED <<disk, given, meddling, fd, pos, buf, changed, truncated, short>>

(* ShouldCopy.                                                             *)
ShouldCopy(exists) ==
  IF exists /\ option = "update_existing" THEN newer
  ELSE ~exists \/ option = "overwrite_existing"

(* GetFileStatus(to) and every decision taken on the two stat() results.   *)
StatTo ==
  /\ pc = "stat_to"
  /\ LET s == stat("to")
         exists == s.ino # None
     IN /\ st' = [st EXCEPT !["to"] = s]
        /\ IF exists /\ ~IsRegular(s.ino) THEN Return(FALSE, "ENOTSUP")
           ELSE IF exists /\ s.ino = st["from"].ino THEN Return(FALSE, "EEXIST")
           ELSE IF exists /\ option = "skip_existing" THEN Return(FALSE, "ok")
           ELSE IF ShouldCopy(exists) THEN Goto("open_to")
           ELSE Return(FALSE, IF option = "update_existing" THEN "ok" ELSE "EEXIST")
  /\ UNCHANGED <<disk, given, meddling, fd, pos, buf, changed, truncated, short>>

(* Mistake: the target is opened with O_TRUNC.                             *)
OpenToTruncating ==
  /\ pc = "open_to"
  /\ IF dir["to"] # None
     THEN IF IsRegular(dir["to"])
          THEN /\ fd' = [fd EXCEPT !["to"] = dir["to"]]
               /\ data' = [data EXCEPT ![dir["to"]] = << >>]
               /\ truncated' = truncated \cup {dir["to"]}
               /\ Goto("lstat_to")
               /\ UNCHANGED dir
          ELSE Return(FALSE, "EISDIR") /\ UNCHANGED <<fd, disk, truncated>>
     ELSE IF to_exists
     THEN Return(FALSE, "ENOENT") /\ UNCHANGED <<fd, disk, truncated>>
     ELSE /\ fd' = [fd EXCEPT !["to"] = New]
          /\ dir' = [dir EXCEPT !["to"] = New]
          /\ Goto("lstat_to")
          /\ UNCHANGED <<data, truncated>>
  /\ UNCHANGED <<given, meddling, pos, st, buf, changed, short>>

(* FileDescriptor::Create(&to, m_ec, O_WRONLY, or O_WRONLY | O_CREAT when  *)
(* nothing was there).                                                     *)
OpenTo ==
  /\ pc = "open_to"
  /\ IF dir["to"] # None
     THEN /\ IF IsRegular(dir["to"])
             THEN fd' = [fd EXCEPT !["to"] = dir["to"]] /\ Goto("lstat_to")
             ELSE Return(FALSE, "EISDIR") /\ UNCHANGED fd
          /\ UNCHANGED disk
     ELSE IF to_exists THEN Return(FALSE, "ENOENT") /\ UNCHANGED <<fd, disk>>
     ELSE /\ fd' = [fd EXCEPT !["to"] = New]
          /\ dir' = [dir EXCEPT !["to"] = New]
          /\ Goto("lstat_to")
          /\ UNCHANGED data
  /\ UNCHANGED <<given, meddling, pos, st, buf, changed, truncated, short>>

(* Mistake: nobody checks that it is still the file that was looked at.    *)
LstatToUnchecked ==
  /\ pc = "lstat_to"
  /\ IF lstat("to").ino = None THEN Return(FALSE, "ENOENT")
     ELSE Goto(IF to_exists THEN "chmod" ELSE "send")
  /\ UNCHANGED <<disk, given, meddling, fd, pos, st, buf, changed, truncated, short>>

(* to_fd.RefreshStatus(false), again by name, and the comparison with what *)
(* StatTo saw.                                                             *)
LstatTo ==
  /\ pc = "lstat_to"
  /\ LET s == lstat("to") IN
     IF s.ino = None THEN Return(FALSE, "ENOENT")
     ELSE IF ~to_exists THEN Goto("send")
     ELSE IF s.ino # st["to"].ino THEN Return(FALSE, "EBADF")
     ELSE Goto("chmod")
  /\ UNCHANGED <<disk, given, meddling, fd, pos, st, buf, changed, truncated, short>>

Fchmod ==
  /\ pc = "chmod"
  /\ \/ Goto("truncate") /\ changed' = changed \cup {fd["to"]}
     \/ io_fails /\ Return(FALSE, "EIO") /\ UNCHANGED changed
  /\ UNCHANGED <<disk, given, meddling, fd, pos, st, buf, truncated, short>>

(* Mistake: the old content stays.                                         *)
FtruncateForgotten ==
  /\ pc = "truncate"
  /\ Goto("send")
  /\ UNCHANGED <<disk, given, meddling, fd, pos, st, buf, changed, truncated, short>>

Ftruncate ==
  /\ pc = "truncate"
  /\ \/ /\ Goto("send")
        /\ data' = [data EXCEPT ![fd["to"]] = << >>]
        /\ truncated' = truncated \cup {fd["to"]}
     \/ io_fails /\ Return(FALSE, "EIO") /\ UNCHANGED <<data, truncated>>
  /\ UNCHANGED <<dir, given, meddling, fd, pos, st, buf, changed, short>>

-----------------------------------------------------------------------------
(* What write() does to a file, a gap before the offset filled with zeros. *)
Overwrite(content, at, blocks) ==
  LET end == at + Len(blocks) IN
  IF blocks = << >> THEN content ELSE
  [i \in 1..(IF Len(content) > end THEN Len(content) ELSE end) |->
     IF i \in at+1..end THEN blocks[i - at]
     ELSE IF i <= Len(content) THEN content[i] ELSE 0]

Put(blocks) ==
  /\ data' = [data EXCEPT ![fd["to"]] = Overwrite(@, pos["to"], blocks)]
  /\ changed' = changed \cup {fd["to"]}

Source == data[fd["from"]]
Available == IF Len(Source) > pos["from"] THEN Len(Source) - pos["from"] ELSE 0
Ahead(n) == SubSeq(Source, pos["from"] + 1, pos["from"] + n)

(* Mistake: count is not decreased by what has gone.                       *)
SendfileForgetsCount ==
  /\ pc = "send"
  /\ LET size == st["from"].size IN
     IF size > SendMax THEN Goto("read") /\ UNCHANGED <<data, changed, pos>>
     ELSE \/ \E n \in 0..(IF size < Available THEN size ELSE Available) :
               /\ n > 0 \/ Available = 0 \/ size = 0
               /\ Put(Ahead(n))
               /\ pos' = [name \in Names |-> pos[name] + n]
               /\ IF size > n THEN Goto("send") ELSE Return(TRUE, "ok")
          \/ io_fails /\ Goto("read") /\ UNCHANGED <<data, changed, pos>>
  /\ UNCHANGED <<dir, given, meddling, fd, st, buf, truncated, short>>

(* do_copy_file_sendfile: the first call is made also when count is 0, and *)
(* one that transfers nothing is repeated.  pos["from"] blocks have gone.  *)
Sendfile ==
  /\ pc = "send"
  /\ LET size == st["from"].size
         wanted == size - pos["from"]
     IN IF size > SendMax
        THEN Goto("read") /\ UNCHANGED <<data, changed, pos>>
        ELSE \/ \E n \in 0..(IF wanted < Available THEN wanted ELSE Available) :
                  /\ n > 0 \/ Available = 0 \/ wanted = 0
                  /\ Put(Ahead(n))
                  /\ pos' = [name \in Names |-> pos[name] + n]
                  /\ IF wanted > n THEN Goto("send") ELSE Return(TRUE, "ok")
             \/ io_fails /\ Goto("read") /\ UNCHANGED <<data, changed, pos>>
  /\ UNCHANGED <<dir, given, meddling, fd, st, buf, truncated, short>>

(* do_copy_file_default: the loop's read() ...                             *)
Read ==
  /\ pc = "read"
  /\ \/ /\ buf' = Ahead(IF Available < BufSize THEN Available ELSE BufSize)
        /\ pos' = [pos EXCEPT !["from"] = @ + Len(buf')]
        /\ IF Available = 0 THEN Return(TRUE, "ok") ELSE Goto("write")
     \/ io_fails /\ Return(FALSE, "EIO") /\ UNCHANGED <<buf, pos>>
  /\ UNCHANGED <<disk, given, meddling, fd, st, changed, truncated, short>>

(* ... and its write(), whose result is only compared with 0.              *)
Write ==
  /\ pc = "write"
  /\ \/ \E n \in 1..Len(buf) :
          /\ Put(SubSeq(buf, 1, n))
          /\ pos' = [pos EXCEPT !["to"] = @ + n]
          /\ short' = (short \/ n < Len(buf))
          /\ Goto("read")
     \/ io_fails /\ Return(FALSE, "EIO") /\ UNCHANGED <<data, changed, pos, short>>
  /\ UNCHANGED <<dir, given, meddling, fd, st, buf, truncated>>

Step ==
  \/ OpenFrom \/ LstatFrom \/ StatTo \/ OpenTo \/ LstatTo
  \/ Fchmod \/ Ftruncate \/ Sendfile \/ Read \/ Write

-----------------------------------------------------------------------------
(* Other programs, while the call runs.                                    *)
Disturb ==
  /\ pc # "done"
  /\ disturbances < MaxDisturbances
  /\ disturbances' = disturbances + 1
  /\ UNCHANGED <<given, pc, fd, pos, st, buf, result, changed, truncated, short>>

(* rename() of another file to the name, link() or unlink().               *)
Rename(name) ==
  /\ Disturb
  /\ \E ino \in (Inodes \cup {None}) \ {dir[name]} :
       dir' = [dir EXCEPT ![name] = ino]
  /\ swaps' = IF name = "to" /\ pc \in {"open_to", "lstat_to"} THEN swaps + 1 ELSE swaps
  /\ UNCHANGED data

Shorten ==
  /\ Disturb
  /\ fd["from"] # None /\ Source # << >>
  /\ data' = [data EXCEPT ![fd["from"]] = SubSeq(@, 1, Len(@) - 1)]
  /\ UNCHANGED <<dir, swaps>>

Next == Step \/ Shorten \/ \E name \in Names : Rename(name)

Spec == Init /\ [][Next]_vars

(* The calling thread is scheduled.                                        *)
FairSpec == Spec /\ WF_vars(Step)

-----------------------------------------------------------------------------
Done == pc = "done"

(* The target names a file with the content of the source.                 *)
Exact == dir["to"] # None /\ data[dir["to"]] = data[dir["from"]]

(* A copy that is reported as done, that nobody disturbed and all of whose *)
(* write()s took what they were given is exact, whichever way it was made: *)
(* over a longer file, by sendfile, however little each call of it sends,  *)
(* by the loop or by the loop after sendfile failed half way.              *)
SuccessMeansCopied ==
  (Done /\ result.copied /\ disturbances = 0 /\ ~short) => Exact

(* What test/ops_copy_file_test.cpp takes for granted: where copy_file     *)
(* answers true and nobody interferes, the files are equal. It does not    *)
(* hold: after a short write() they are not.                               *)
TrueMeansCopied == (Done /\ result.copied /\ disturbances = 0) => Exact

(* A call that skips, is not newer or refuses because of what it found at  *)
(* the names leaves the mode and content of every file alone, whatever the *)
(* names lead to by then.                                                  *)
RefusalsChangeNothing ==
  (Done /\ ~result.copied /\ result.err # "EIO") => changed = {} /\ truncated = {}

(* Only the file that was looked at and found fit to be overwritten is     *)
(* truncated, never one that has taken its name since, if the name was     *)
(* moved at most once between the first look and the last: the last one    *)
(* is at the name again, and sees that it was moved, but not that it was   *)
(* moved and moved back around open().                                     *)
OneSwapIsCaught == swaps < 2 => truncated \subseteq {st["to"].ino}

(* What the comments in copy_file_impl say of the two looks: the file that *)
(* was opened is checked to be the one that was looked at.                 *)
OnlyStattedIsTruncated == truncated \subseteq {st["to"].ino}

(* A call whose files nobody touches returns.                              *)
Terminates == <>(Done \/ disturbances > 0)
=============================================================================
