----------------------------- MODULE Attributes -----------------------------
(***************************************************************************)
(* The operations of fs_ops.cpp that read and write attributes of a file,  *)
(* POSIX branch: permissions, last_write_time, resize_file, file_size,     *)
(* hard_link_count, is_empty, equivalent, rename and space.  Calls run at  *)
(* the same time on files they own; each system call is a step.            *)
(*                                                                         *)
(* Integers have the width of this module: a uintmax_t is below Modulus,   *)
(* an off_t and a file_time_type, which counts Ticks a second, are signed. *)
(***************************************************************************)
EXTENDS Integers, FiniteSets

CONSTANTS Callers,
          Operations,  \* what they may do
          Names, Inodes,
          Directories, \* the inodes that are directories
          Bits,        \* the permissions
          Modes,       \* what the permissions may be at first
          Starts,      \* what the names may be at first
          Sizes,       \* what the sizes may be at first
          Times,       \* the timespecs the files may have at first
          Ticks, Modulus

Limit == Modulus \div 2
FileTimes == -Limit..(Limit - 1)
Timespecs == [sec : Int, nsec : 0..(Ticks - 1)]
NoInode == {"nothing", "loop", "ENOENT", "ELOOP", "EINVAL", "EISDIR"}
Entries == Inodes \cup Names \cup {"nothing"}

ASSUME NameAssumption ==
    /\ Inodes \cap Names = {} /\ NoInode \cap (Inodes \cup Names) = {}
    /\ IsFiniteSet(Names)
    /\ Directories \subseteq Inodes
    /\ Starts \subseteq [Names -> Entries]
    /\ Modes \subseteq [Inodes -> SUBSET Bits]
ASSUME WidthAssumption ==
    /\ Modulus \in Nat \ {0} /\ Ticks \in Nat \ {0}
    /\ Times \subseteq Timespecs
    /\ Sizes \subseteq [Inodes -> 0..(Limit - 1)]
ASSUME OperationAssumption ==
    \A o \in Operations :
      /\ o.op = "permissions" => o.bits \subseteq Bits /\ o.how \in {"add", "remove", "replace"}
      /\ o.op = "write_time" => o.value \in FileTimes
      /\ o.op = "resize_file" => o.value \in 0..(Modulus - 1)
      /\ o.op = "rename" => {o.at, o.to} \subseteq Names
      /\ o.op = "space" => /\ o.frsize \in Nat
                           /\ \A part \in DOMAIN o.blocks : o.blocks[part] \in Nat

VARIABLES
    entry,  \* what a name is: an inode, a symlink to a name, or nothing
    mode, time,
    size,   \* of a file its bytes, of a directory its entries
    asked, pc,
    seen,   \* what a call has learnt from its first system call
    answer,
    renamed, began, wrote \* history: has a name changed; the permissions at
                          \* first; the times each file was given

files == <<mode, time, size>>
names == <<entry, renamed>>
vars == <<files, names, asked, pc, seen, answer, began, wrote>>

Init ==
    /\ entry \in Starts /\ mode \in Modes /\ size \in Sizes
    /\ \E t \in Times :
         /\ time = [i \in Inodes |-> t]
         /\ wrote = [i \in Inodes |-> {Ticks * t.sec + t.nsec}]
    /\ asked \in [Callers -> Operations]
    /\ pc = [c \in Callers |-> "start"]
    /\ seen = [c \in Callers |-> "nothing"]
    /\ answer = [c \in Callers |-> [err |-> "none"]]
    /\ renamed = FALSE
    /\ began = mode

\* What the links of a name end in.
End(entries, name) ==
    LET follow[k \in 0..Cardinality(Names), e \in Entries] ==
          IF e \notin Names THEN e
          ELSE IF k = 0 THEN "loop" ELSE follow[k - 1, entries[e]]
    IN  follow[Cardinality(Names), name]

\* The inode a name leads to, or why there is none.
LookupIn(entries, name) ==
    CASE End(entries, name) \in Inodes -> End(entries, name)
      [] End(entries, name) = "loop" -> "ELOOP"
      [] OTHER -> "ENOENT"
Lookup(name) == LookupIn(entry, name)
IsLink(name) == entry[name] \in Names

Do(c, op) == pc[c] = "start" /\ asked[c].op = op
Second(c, op) == pc[c] = "second" /\ asked[c].op = op
At(c) == Lookup(asked[c].at)
Found(c) == At(c) \in Inodes

Finish(c, a) == /\ pc' = [pc EXCEPT ![c] = "done"]
                /\ answer' = [answer EXCEPT ![c] = a]
                /\ UNCHANGED <<seen, asked, began>>
Fail(c, e) == Finish(c, [err |-> e])
Answer(c, v) == Finish(c, [err |-> "ok", value |-> v])
GoOn(c, v) == /\ pc' = [pc EXCEPT ![c] = "second"]
              /\ seen' = [seen EXCEPT ![c] = v]
              /\ UNCHANGED <<answer, asked, began>>

-----------------------------------------------------------------------------
\* Permissions: status or symlink_status, unless the permissions are replaced
\* and links followed; then fchmodat().

ReadsFirst(c) == asked[c].nofollow \/ asked[c].how # "replace"

\* The permissions that are written.
Wanted(c, has) ==
    CASE asked[c].how = "add"     -> has \cup asked[c].bits
      [] asked[c].how = "remove"  -> has \ asked[c].bits
      [] asked[c].how = "replace" -> asked[c].bits

\* Mistake: whether it is a link is forgotten once its status is known.
StatForgetsLink(c) ==
    /\ Do(c, "permissions")
    /\ LET link == asked[c].nofollow /\ IsLink(asked[c].at)
       IN  IF ReadsFirst(c) /\ ~link /\ ~Found(c) THEN Fail(c, At(c))
           ELSE GoOn(c, [type |-> "none",
                         bits |-> IF link THEN Bits
                                  ELSE IF ReadsFirst(c) THEN mode[At(c)] ELSE {}])
    /\ UNCHANGED <<files, names, wrote>>

\* A link has all permissions, and a status also when it leads nowhere.
StatForPermissions(c) ==
    /\ Do(c, "permissions")
    /\ LET link == asked[c].nofollow /\ IsLink(asked[c].at)
       IN  IF ReadsFirst(c) /\ ~link /\ ~Found(c) THEN Fail(c, At(c))
           ELSE GoOn(c, [type |-> IF link THEN "symlink" ELSE "none",
                         bits |-> IF link THEN Bits
                                  ELSE IF ReadsFirst(c) THEN mode[At(c)] ELSE {}])
    /\ UNCHANGED <<files, names, wrote>>

\* With AT_SYMLINK_NOFOLLOW the permissions of a link are not changed, those
\* of a file that has taken its place are.
Chmod(c) ==
    /\ Second(c, "permissions")
    /\ IF seen[c].type = "symlink" /\ IsLink(asked[c].at)
       THEN Fail(c, "EOPNOTSUPP") /\ UNCHANGED mode
       ELSE IF ~Found(c) THEN Fail(c, At(c)) /\ UNCHANGED mode
       ELSE /\ mode' = [mode EXCEPT ![At(c)] = Wanted(c, seen[c].bits)]
            /\ Answer(c, "done")
    /\ UNCHANGED <<names, time, size, wrote>>

-----------------------------------------------------------------------------
\* Last_write_time.

\* A duration_cast to a coarser unit truncates towards zero.
Seconds(t) == IF t >= 0 THEN t \div Ticks ELSE -((-t) \div Ticks)

\* Mistake: the subsecond part of a time before the epoch is dropped.
TimespecTruncated(t) ==
    [sec |-> Seconds(t), nsec |-> IF t < 0 THEN 0 ELSE t - Ticks * Seconds(t)]

\* The conversion to a timespec, whose subsecond part is not negative.
Timespec(t) ==
    LET s == Seconds(t)
        ns == t - Ticks * s
    IN  IF ns < 0 THEN [sec |-> s - 1, nsec |-> ns + Ticks] ELSE [sec |-> s, nsec |-> ns]

WriteTime(c) ==
    /\ Do(c, "write_time")
    /\ LET ts == Timespec(asked[c].value)
           e == IF ts.sec < 0 THEN "EINVAL" ELSE At(c)
       IN  IF e \in Inodes
           THEN /\ time' = [time EXCEPT ![e] = ts]
                /\ wrote' = [wrote EXCEPT ![e] = @ \cup {asked[c].value}]
                /\ Answer(c, "done")
           ELSE Fail(c, e) /\ UNCHANGED <<time, wrote>>
    /\ UNCHANGED <<names, mode, size>>

\* FileTimeTypeFromPosixTimeSpec.
FileTime(ts) ==
    IF ts.sec >= 0 \/ ts.nsec = 0 THEN Ticks * ts.sec + ts.nsec
    ELSE Ticks * (ts.sec + 1) - (Ticks - ts.nsec)

\* FileTimeIsRepresentable lets every time_t pass; one that is out of the
\* range of file_time_type overflows and anything comes out.
ReadTime(c) ==
    /\ Do(c, "read_time")
    /\ IF ~Found(c) THEN Fail(c, At(c))
       ELSE LET t == FileTime(time[At(c)])
            IN  \E v \in IF t \in FileTimes THEN {t} ELSE FileTimes : Answer(c, v)
    /\ UNCHANGED <<files, names, wrote>>

-----------------------------------------------------------------------------
\* Resize_file: truncate() refuses what has become negative as off_t.
Resize(c) ==
    /\ Do(c, "resize_file")
    /\ LET e == IF asked[c].value >= Limit THEN "EINVAL"
                ELSE IF At(c) \in Directories THEN "EISDIR" ELSE At(c)
       IN  IF e \in Inodes
           THEN size' = [size EXCEPT ![e] = asked[c].value] /\ Answer(c, "done")
           ELSE Fail(c, e) /\ UNCHANGED size
    /\ UNCHANGED <<names, mode, time, wrote>>

FileSize(c) ==
    /\ Do(c, "file_size")
    /\ IF ~Found(c) THEN Fail(c, At(c))
       ELSE IF At(c) \in Directories THEN Fail(c, "EISDIR")
       ELSE Answer(c, size[At(c)])
    /\ UNCHANGED <<files, names, wrote>>

HardLinkCount(c) ==
    /\ Do(c, "hard_link_count")
    /\ IF Found(c) THEN Answer(c, Cardinality({n \in Names : entry[n] = At(c)}))
       ELSE Fail(c, At(c))
    /\ UNCHANGED <<files, names, wrote>>

\* Is_empty: stat(), and for a directory an iterator on it.
StatForEmpty(c) ==
    /\ Do(c, "is_empty")
    /\ IF ~Found(c) THEN Fail(c, At(c))
       ELSE IF At(c) \in Directories THEN GoOn(c, At(c))
       ELSE Answer(c, size[At(c)] = 0)
    /\ UNCHANGED <<files, names, wrote>>

\* Mistake: an iterator that could not be opened is at the end, too.
OpenOrEmpty(c) ==
    /\ Second(c, "is_empty")
    /\ Answer(c, At(c) \notin Directories \/ size[At(c)] = 0)
    /\ UNCHANGED <<files, names, wrote>>

OpenForEmpty(c) ==
    /\ Second(c, "is_empty")
    /\ IF ~Found(c) THEN Fail(c, At(c))
       ELSE IF At(c) \notin Directories THEN Fail(c, "ENOTDIR")
       ELSE Answer(c, size[At(c)] = 0)
    /\ UNCHANGED <<files, names, wrote>>

\* Equivalent: two stat().
StatFirst(c) ==
    /\ Do(c, "equivalent")
    /\ IF Found(c) THEN GoOn(c, At(c)) ELSE Fail(c, "ENOTSUP")
    /\ UNCHANGED <<files, names, wrote>>

\* Mistake: lstat(), which does not follow a link.
LstatOther(c) ==
    /\ Second(c, "equivalent")
    /\ IF entry[asked[c].other] # "nothing" THEN Answer(c, entry[asked[c].other] = seen[c])
       ELSE Fail(c, "ENOTSUP")
    /\ UNCHANGED <<files, names, wrote>>

StatOther(c) ==
    /\ Second(c, "equivalent")
    /\ LET i == Lookup(asked[c].other)
       IN  IF i \in Inodes THEN Answer(c, i = seen[c]) ELSE Fail(c, "ENOTSUP")
    /\ UNCHANGED <<files, names, wrote>>

\* Rename: what rename() makes of the names, links not followed.
Rename(c) ==
    LET from == entry[asked[c].at]
        to == entry[asked[c].to]
        e == CASE from = "nothing" -> "ENOENT"
               [] from \notin Directories /\ to \in Directories -> "EISDIR"
               [] from \in Directories /\ to \notin Directories \cup {"nothing"} -> "ENOTDIR"
               [] from # to /\ to \in Directories /\ size[to] > 0 -> "ENOTEMPTY"
               [] OTHER -> "ok"
        same == asked[c].at = asked[c].to \/ (from = to /\ from \in Inodes)
    IN  /\ Do(c, "rename")
        /\ IF e # "ok" THEN Fail(c, e) /\ UNCHANGED names
           ELSE /\ entry' = IF same THEN entry
                            ELSE [entry EXCEPT ![asked[c].at] = "nothing", ![asked[c].to] = from]
                /\ renamed' = (renamed \/ ~same)
                /\ Answer(c, "done")
        /\ UNCHANGED <<files, wrote>>

-----------------------------------------------------------------------------
\* Mistake: an overflow is taken to make the product smaller.
MultIfSmaller(frsize, blocks) ==
    LET out == (blocks * frsize) % Modulus
    IN  IF blocks = 0 \/ out < blocks THEN Modulus - 1 ELSE out

\* Multiply with overflow checking.
Mult(frsize, blocks) ==
    LET out == (blocks * frsize) % Modulus
    IN  IF blocks = 0 \/ out \div blocks # frsize THEN Modulus - 1 ELSE out

Space(c) ==
    /\ Do(c, "space")
    /\ IF ~Found(c) THEN Fail(c, At(c))
       ELSE Answer(c, [part \in DOMAIN asked[c].blocks |->
                         Mult(asked[c].frsize, asked[c].blocks[part])])
    /\ UNCHANGED <<files, names, wrote>>

Step(c) ==
    \/ StatForPermissions(c) \/ Chmod(c)
    \/ WriteTime(c) \/ ReadTime(c)
    \/ Resize(c) \/ FileSize(c) \/ HardLinkCount(c)
    \/ StatForEmpty(c) \/ OpenForEmpty(c)
    \/ StatFirst(c) \/ StatOther(c)
    \/ Rename(c) \/ Space(c)

Next == \E c \in Callers : Step(c)
Spec == Init /\ [][Next]_vars

-----------------------------------------------------------------------------
TypeOK ==
    /\ entry \in [Names -> Entries]
    /\ mode \in [Inodes -> SUBSET Bits]
    /\ time \in [Inodes -> Timespecs]
    /\ size \in [Inodes -> 0..(Limit - 1)]
    /\ pc \in [Callers -> {"start", "second", "done"}]
    /\ \A c \in Callers : pc[c] # "done" => answer[c].err = "none"
    /\ renamed \in BOOLEAN

Answered(c, op) == asked[c].op = op /\ answer[c].err = "ok"

\* The file whose permissions a call may change: the one behind a link only
\* if it was to follow links.
Reaches(c, i) == At(c) = i /\ (asked[c].nofollow => ~IsLink(asked[c].at))

\* The calls that have changed, or may have, the permissions of a file.
Blamed(i, hows) ==
    {c \in Callers : Answered(c, "permissions") /\ asked[c].how \in hows /\ Reaches(c, i)}

Explained(bits, i) ==
    /\ bits \ began[i] \subseteq UNION {asked[c].bits : c \in Blamed(i, {"add", "replace"})}
    /\ \A b \in began[i] \ bits : \E c \in Blamed(i, {"remove", "replace"}) :
         b \in asked[c].bits <=> asked[c].how = "remove"

\* While no name changes, permissions a file gains or loses were asked for by
\* a call on that file that succeeded, however many calls race: never those
\* of a link, and never of the target of a link that was not to be followed.
ChangesHaveACause == ~renamed => \A i \in Inodes : Explained(mode[i], i)

\* While no name changes, the time that is read is one the file was given,
\* unless that is out of the range of file_time_type, and two names are
\* equivalent when they lead to one file, whatever happens between the looks.
QuietAnswers ==
    ~renamed => \A c \in Callers :
      /\ Answered(c, "read_time") =>
           (wrote[At(c)] \subseteq FileTimes => answer[c].value \in wrote[At(c)])
      /\ Answered(c, "equivalent") =>
           (answer[c].value <=> At(c) = Lookup(asked[c].other))

\* The time of a file, converted back, is one it was given, to the tick and on
\* either side of the epoch; last_write_time refuses what it cannot write.
TimesReadBack == \A i \in Inodes : FileTime(time[i]) \in wrote[i]

\* When is_empty answers, it tells the truth about what has the name at that
\* moment, though its two looks may be at different things.
EmptyIsTrueThen ==
    [][\A c \in Callers :
         (pc[c] # "done" /\ Answered(c, "is_empty")') =>
           (answer'[c].value <=> Found(c) /\ size[At(c)] = 0)]_vars

\* The size that space reports for a count of blocks other than 0 is exact
\* whenever it fits into uintmax_t, and otherwise the value that says it is
\* unknown.  Of a count of 0, which divides nothing, see the next property.
SpaceIsExactOrUnknown ==
    \A c \in Callers : Answered(c, "space") =>
      \A part \in DOMAIN asked[c].blocks :
        LET exact == asked[c].blocks[part] * asked[c].frsize
        IN  asked[c].blocks[part] # 0 =>
              answer[c].value[part] = IF exact < Modulus THEN exact ELSE Modulus - 1

\* Claimed by a test (ops_space_test.cpp:43, 56): what is free is not more
\* than there is, where the file system does not say so itself.  It does not
\* hold: a count of 0 free blocks is reported as the largest number there is.
FreeIsWithinCapacity ==
    \A c \in Callers :
      Answered(c, "space") /\ asked[c].blocks.free <= asked[c].blocks.capacity =>
        answer[c].value.free <= answer[c].value.capacity
=============================================================================
