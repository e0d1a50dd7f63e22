--------------------------- MODULE CopyFileProofs ---------------------------
(***************************************************************************)
(* Proofs about CopyFile for any files, any sizes of the file and of the   *)
(* transfers, and as many interferences as other programs care to make.    *)
(***************************************************************************)
EXTENDS CopyFile, TLAPS

(* The steps before the first one that changes a file.                     *)
Untouched == {"open_from", "lstat_from", "stat_to", "open_to", "lstat_to", "chmod"}

(* What has been changed, and the answer, go together: before fchmod()     *)
(* nothing has changed, and after it only EIO ends the call without a      *)
(* copy.                                                                   *)
RefusalInv ==
  /\ RefusalsChangeNothing
  /\ pc \in Untouched => changed = {} /\ truncated = {}

(* Nothing has changed when the call begins.                               *)
LEMMA RefusalInit == Init => RefusalInv
BY DEF Init, RefusalInv, RefusalsChangeNothing, Done

(* Every system call keeps the two together, and other programs change     *)
(* neither.                                                                *)
LEMMA RefusalStep == RefusalInv /\ [Next]_vars => RefusalInv'
<1> SUFFICES ASSUME RefusalInv, [Next]_vars
             PROVE  RefusalInv'
  OBVIOUS
<1> USE DEF RefusalInv, RefusalsChangeNothing, Done, Untouched, Return, Goto
<1>1. CASE OpenFrom
  BY <1>1 DEF OpenFrom
<1>2. CASE LstatFrom
  BY <1>2 DEF LstatFrom
<1>3. CASE StatTo
  BY <1>3 DEF StatTo
<1>4. CASE OpenTo
  BY <1>4 DEF OpenTo
<1>5. CASE LstatTo
  BY <1>5 DEF LstatTo
<1>6. CASE Fchmod
  BY <1>6 DEF Fchmod
<1>7. CASE Ftruncate
  BY <1>7 DEF Ftruncate
<1>8. CASE Sendfile
  BY <1>8 DEF Sendfile
<1>9. CASE Read
  BY <1>9 DEF Read
<1>10. CASE Write
  BY <1>10 DEF Write
<1>11. CASE Shorten
  BY <1>11 DEF Shorten, Disturb
<1>12. CASE \E name \in Names : Rename(name)
  BY <1>12 DEF Rename, Disturb
<1>13. CASE UNCHANGED vars
  BY <1>13 DEF vars
<1> QED
  BY <1>1, <1>2, <1>3, <1>4, <1>5, <1>6, <1>7, <1>8, <1>9, <1>10, <1>11, <1>12, <1>13
  DEF Next, Step

(* A copy_file that refuses or skips leaves every file alone, however the  *)
(* names move meanwhile: only an error of a transfer leaves part of a copy *)
(* behind.                                                                 *)
THEOREM RefusalsAreClean == Spec => []RefusalsChangeNothing
<1>1. RefusalInv => RefusalsChangeNothing
  BY DEF RefusalInv
<1> QED BY <1>1, RefusalInit, RefusalStep, PTL DEF Spec

-----------------------------------------------------------------------------
(* The file that is truncated.                                             *)

(* What moving the name between the looks at the target can have done: if  *)
(* open() found another file than stat(), the name has been moved, and has *)
(* not been moved back unless it has been moved twice.                     *)
TargetInv ==
  /\ swaps \in Nat
  /\ OneSwapIsCaught
  /\ pc \in {"open_to", "lstat_to", "chmod", "truncate"} =>
       st["to"].ino \in Files \cup {None}
  /\ pc = "open_to" /\ to_exists /\ swaps = 0 => dir["to"] = st["to"].ino
  /\ pc = "lstat_to" /\ to_exists /\ fd["to"] # st["to"].ino =>
       swaps > 0 /\ (swaps < 2 => dir["to"] = fd["to"])
  /\ pc \in {"chmod", "truncate"} /\ swaps < 2 => fd["to"] = st["to"].ino
  /\ DOMAIN fd = Names /\ DOMAIN st = Names /\ dir \in [Names -> Files \cup {None}]
  /\ pc \in Untouched \cup {"truncate"} => truncated = {}

(* At first nothing has been looked at.                                    *)
LEMMA TargetInit == Init => TargetInv
<1> SUFFICES ASSUME Init PROVE TargetInv
  OBVIOUS
<1>1. dir \in [Names -> Files \cup {None}]
  BY StartAssumption DEF Init, Files
<1> QED BY <1>1 DEF Init, TargetInv, OneSwapIsCaught, Untouched

(* The three looks at the target: stat(), open() and lstat().              *)
LEMMA TargetStep == TargetInv /\ [Next]_vars => TargetInv'
<1> SUFFICES ASSUME TargetInv, [Next]_vars
             PROVE  TargetInv'
  OBVIOUS
<1> USE DEF TargetInv, OneSwapIsCaught, Untouched, Return, Goto, to_exists, meddling
<1>0. Links \cap Files = {} /\ None \notin Files
  BY InodeAssumption
<1>1. CASE OpenFrom
  BY <1>1 DEF OpenFrom, disk, Names
<1>2. CASE LstatFrom
  BY <1>2 DEF LstatFrom, disk, Names
<1>3. CASE StatTo
  <2>1. stat("to").ino = dir["to"]
    BY DEF stat, NoStat
  <2>2. st' = [st EXCEPT !["to"] = stat("to")]
    BY <1>3 DEF StatTo
  <2>3. st'["to"] = stat("to")
    BY <2>2 DEF Names
  <2>4. dir["to"] \in Files \cup {None}
    BY DEF Names
  <2> QED BY <1>3, <2>1, <2>2, <2>3, <2>4 DEF StatTo, disk
<1>4. CASE OpenTo
  BY <1>0, <1>4 DEF OpenTo, disk, Names, Files
<1>5. CASE LstatTo
  <2>1. CASE pc' = "chmod"
    <3>1. lstat("to").ino = st["to"].ino /\ st["to"].ino # None
      BY <1>5, <2>1 DEF LstatTo
    <3>2. st["to"].ino \in Files
      BY <1>5, <3>1 DEF LstatTo
    <3>3. "to" \notin links
      BY <1>0, <3>1, <3>2 DEF lstat, Links
    <3>4. lstat("to").ino = dir["to"]
      BY <3>3 DEF lstat, stat, NoStat
    <3>5. swaps < 2 => fd["to"] = st["to"].ino
      BY <1>5, <3>1, <3>4 DEF LstatTo
    <3> QED BY <1>5, <2>1, <3>2, <3>5 DEF LstatTo, disk
  <2>2. CASE pc' # "chmod"
    BY <1>5, <2>2 DEF LstatTo, disk
  <2> QED BY <2>1, <2>2
<1>6. CASE Fchmod
  BY <1>6 DEF Fchmod, disk
<1>7. CASE Ftruncate
  BY <1>7 DEF Ftruncate
<1>8. CASE Sendfile
  BY <1>8 DEF Sendfile
<1>9. CASE Read
  BY <1>9 DEF Read, disk
<1>10. CASE Write
  BY <1>10 DEF Write
<1>11. CASE Shorten
  BY <1>0, <1>11 DEF Shorten, Disturb
<1>12. CASE \E name \in Names : Rename(name)
  BY <1>0, <1>12 DEF Rename, Disturb, Names, Files
<1>13. CASE UNCHANGED vars
  BY <1>13 DEF vars, disk
<1> QED
  BY <1>1, <1>2, <1>3, <1>4, <1>5, <1>6, <1>7, <1>8, <1>9, <1>10, <1>11, <1>12, <1>13
  DEF Next, Step

(* One move of the target's name is always noticed: no file is truncated   *)
(* but the one that was looked at, unless the name was moved at least      *)
(* twice between the looks; for any files, sizes and options, and whatever *)
(* else other programs do, however often.                                  *)
THEOREM OneSwapIsNoticed == Spec => []OneSwapIsCaught
<1>1. TargetInv => OneSwapIsCaught
  BY DEF TargetInv
<1> QED BY <1>1, TargetInit, TargetStep, PTL DEF Spec

-----------------------------------------------------------------------------
(* Types.                                                                  *)

(* A step that uses a descriptor has one.                                  *)
FromIsOpen == pc \notin {"open_from", "done"}
ToIsOpen == pc \in {"lstat_to", "chmod", "truncate", "send", "read", "write"}

GivenOK ==
  /\ links \subseteq Names /\ option \in Options
  /\ newer \in BOOLEAN /\ io_fails \in BOOLEAN

AnswerOK == pc \in Steps /\ result \in [copied : BOOLEAN, err : Errors]

WorkOK ==
  /\ dir \in [Names -> Files \cup {None}]
  /\ data \in [Files -> Seq(Blocks)]
  /\ disturbances \in 0..MaxDisturbances /\ swaps \in 0..disturbances
  /\ short \in BOOLEAN
  /\ fd \in [Names -> Files \cup {None}]
  /\ pos \in [Names -> Nat]
  /\ st \in [Names -> Stats]
  /\ buf \in Seq(Blocks)
  /\ changed \subseteq Files /\ truncated \subseteq Files
  /\ FromIsOpen => fd["from"] \in Files
  /\ ToIsOpen => fd["to"] \in Files

(* What write() leaves in a file is a sequence of blocks.                  *)
LEMMA OverwriteType ==
  ASSUME NEW content \in Seq(Blocks), NEW at \in Nat, NEW blocks \in Seq(Blocks)
  PROVE  Overwrite(content, at, blocks) \in Seq(Blocks)
<1> DEFINE end == at + Len(blocks)
           n == IF Len(content) > end THEN Len(content) ELSE end
<1>1. CASE blocks = << >>
  BY <1>1 DEF Overwrite
<1>2. CASE blocks # << >>
  <2>1. n \in Nat
    OBVIOUS
  <2>2. Overwrite(content, at, blocks) =
          [i \in 1..n |-> IF i \in at+1..end THEN blocks[i - at]
                          ELSE IF i <= Len(content) THEN content[i] ELSE 0]
    BY <1>2 DEF Overwrite
  <2>3. \A i \in 1..n : Overwrite(content, at, blocks)[i] \in Blocks
    BY <2>2 DEF Blocks
  <2>4. Overwrite(content, at, blocks) \in [1..n -> Blocks]
    BY <2>2, <2>3
  <2> QED BY <2>1, <2>4
<1> QED BY <1>1, <1>2

(* What is ahead of the offset are blocks, none when the source has become *)
(* shorter than what has gone.                                             *)
LEMMA AheadType ==
  ASSUME WorkOK, FromIsOpen, NEW n \in 0..Available
  PROVE  Ahead(n) \in Seq(Blocks) /\ Len(Ahead(n)) = n
<1>1. Source \in Seq(Blocks) /\ pos["from"] \in Nat
  BY DEF WorkOK, Source, Names
<1>2. CASE n = 0
  BY <1>1, <1>2 DEF Ahead
<1>3. CASE n > 0
  BY <1>1, <1>3 DEF Ahead, Available
<1> QED BY <1>2, <1>3 DEF Available

(* The variables have their types at first.                                *)
LEMMA TypesInit == Init => GivenOK /\ AnswerOK /\ WorkOK
<1> SUFFICES ASSUME Init PROVE GivenOK /\ AnswerOK /\ WorkOK
  OBVIOUS
<1>1. GivenOK
  <2>1. links \subseteq Names
    BY StartAssumption DEF Init
  <2>2. io_fails \in BOOLEAN
    BY SizeAssumption DEF Init
  <2> QED BY <2>1, <2>2 DEF Init, GivenOK
<1>2. AnswerOK
  <2>1. FALSE \in BOOLEAN /\ "ok" \in Errors
    BY DEF Errors
  <2>2. \A c \in BOOLEAN, e \in Errors :
          [copied |-> c, err |-> e] \in [copied : BOOLEAN, err : Errors]
    OBVIOUS
  <2> QED BY <2>1, <2>2 DEF Init, AnswerOK, Steps
<1>3. WorkOK
  <2>1. dir \in [Names -> Files \cup {None}] /\ data \in [Files -> Seq(Blocks)]
    BY StartAssumption DEF Init, Files
  <2>2. st \in [Names -> Stats] /\ buf \in Seq(Blocks)
    BY DEF Init, NoStat, Stats
  <2>3. disturbances \in 0..MaxDisturbances /\ swaps \in 0..disturbances
    BY SizeAssumption DEF Init
  <2>4. fd \in [Names -> Files \cup {None}] /\ pos \in [Names -> Nat] /\ short \in BOOLEAN
    BY DEF Init
  <2> QED BY <2>1, <2>2, <2>3, <2>4 DEF Init, WorkOK, FromIsOpen, ToIsOpen
<1> QED BY <1>1, <1>2, <1>3

(* Nobody changes what the call was given.                                 *)
LEMMA GivenStep == GivenOK /\ [Next]_vars => GivenOK'
<1>1. [Next]_vars => UNCHANGED given
  BY DEF Next, Step, OpenFrom, LstatFrom, StatTo, OpenTo, LstatTo, Fchmod, Ftruncate,
         Sendfile, Read, Write, Shorten, Rename, Disturb, vars
<1> QED BY <1>1 DEF GivenOK, given

(* Every system call leads to another one or to an answer.                 *)
GoesOn == \E s \in Steps : Goto(s)
Answers == \E c \in BOOLEAN, e \in Errors : Return(c, e)

(* What a call answers with has its type.                                  *)
LEMMA AnswerStep == AnswerOK /\ [Next]_vars => AnswerOK'
<1> SUFFICES ASSUME AnswerOK, [Next]_vars
             PROVE  AnswerOK'
  OBVIOUS
<1>1. CASE Step
  <2>1. GoesOn \/ Answers
    BY <1>1 DEF Step, OpenFrom, LstatFrom, StatTo, OpenTo, LstatTo, Fchmod, Ftruncate,
                Sendfile, Read, Write, GoesOn, Answers, Steps, Errors
  <2>2. CASE GoesOn
    BY <2>2 DEF GoesOn, Goto, AnswerOK
  <2>3. CASE Answers
    <3>1. PICK c \in BOOLEAN, e \in Errors : Return(c, e)
      BY <2>3 DEF Answers
    <3> QED BY <3>1 DEF Return, AnswerOK, Steps
  <2> QED BY <2>1, <2>2, <2>3
<1>2. CASE Shorten \/ (\E name \in Names : Rename(name)) \/ UNCHANGED vars
  BY <1>2 DEF Shorten, Rename, Disturb, vars, AnswerOK
<1> QED BY <1>1, <1>2 DEF Next

(* A stat() of any name has its type.                                      *)
LEMMA StatType ==
  ASSUME WorkOK, NEW name \in Names
  PROVE  stat(name) \in Stats /\ lstat(name) \in Stats
<1>1. stat(name) \in Stats
  <2>1. CASE dir[name] = None
    BY <2>1 DEF stat, NoStat, Stats
  <2>2. CASE dir[name] # None
    <3>1. dir[name] \in Files
      BY <2>2 DEF WorkOK
    <3>2. Len(data[dir[name]]) \in Nat
      BY <3>1 DEF WorkOK
    <3> QED BY <2>2, <3>1, <3>2 DEF stat, Stats
  <2> QED BY <2>1, <2>2
<1>2. CASE name \in links
  <2> DEFINE ino == IF name = "from" THEN "link_from" ELSE "link_to"
  <2>1. lstat(name) = [ino |-> ino, size |-> 1]
    BY <1>2 DEF lstat
  <2>2. ino \in Links /\ 1 \in Nat
    BY DEF Links
  <2> HIDE DEF ino
  <2>3. ino \in Files \cup Links \cup {None}
    BY <2>2
  <2>4. [ino |-> ino, size |-> 1] \in Stats
    BY <2>2, <2>3 DEF Stats
  <2>5. lstat(name) \in Stats
    BY <2>1, <2>4
  <2> QED BY <1>1, <2>5
<1>3. CASE name \notin links
  BY <1>1, <1>3 DEF lstat
<1> QED BY <1>1, <1>2, <1>3

(* No system call and no other program leaves the types.                   *)
LEMMA WorkStep == WorkOK /\ [Next]_vars => WorkOK'
<1> SUFFICES ASSUME WorkOK, [Next]_vars
             PROVE  WorkOK'
  OBVIOUS
<1> USE DEF WorkOK, FromIsOpen, ToIsOpen, meddling
<1>0. "from" \in Names /\ "to" \in Names /\ New \in Files /\ None \notin Files
  BY InodeAssumption DEF Names, Files
<1>1. CASE OpenFrom
  BY <1>0, <1>1 DEF OpenFrom, disk, Return, Goto
<1>2. CASE LstatFrom
  <2>1. st' \in [Names -> Stats]
    BY <1>0, <1>2, StatType DEF LstatFrom
  <2> QED BY <1>2, <2>1 DEF LstatFrom, disk, Return, Goto
<1>3. CASE StatTo
  <2>1. st' \in [Names -> Stats]
    BY <1>0, <1>3, StatType DEF StatTo
  <2> QED BY <1>3, <2>1 DEF StatTo, disk, Return, Goto
<1>4. CASE OpenTo
  BY <1>0, <1>4 DEF OpenTo, disk, Return, Goto, Names
<1>5. CASE LstatTo
  BY <1>5 DEF LstatTo, disk, Return, Goto
<1>6. CASE Fchmod
  BY <1>6 DEF Fchmod, disk, Return, Goto
<1>7. CASE Ftruncate
  <2>1. data' \in [Files -> Seq(Blocks)]
    <3>1. << >> \in Seq(Blocks)
      OBVIOUS
    <3> QED BY <1>7, <3>1 DEF Ftruncate
  <2> QED BY <1>7, <2>1 DEF Ftruncate, Return, Goto
<1>8. CASE Sendfile
  <2>0. /\ pc = "send" /\ pc' \in {"send", "read", "done"}
        /\ UNCHANGED <<dir, disturbances, swaps, fd, st, buf, truncated, short>>
    BY <1>8 DEF Sendfile, Return, Goto
  <2>1. CASE UNCHANGED <<data, changed, pos>>
    BY <2>0, <2>1
  <2>2. CASE \E n \in 0..Available : /\ Put(Ahead(n))
                                   /\ pos' = [name \in Names |-> pos[name] + n]
    <3>1. PICK n \in 0..Available : /\ Put(Ahead(n))
                                    /\ pos' = [name \in Names |-> pos[name] + n]
      BY <2>2
    <3>2. pos' \in [Names -> Nat]
      BY <3>1
    <3>3. pos["to"] \in Nat /\ fd["to"] \in Files
      BY <1>0, <1>8 DEF Sendfile
    <3>4. Ahead(n) \in Seq(Blocks)
      BY <1>8, AheadType DEF Sendfile
    <3>5. data' \in [Files -> Seq(Blocks)] /\ changed' \subseteq Files
      BY <3>1, <3>3, <3>4, OverwriteType DEF Put
    <3> QED BY <2>0, <3>2, <3>5
  <2>3. Available \in Nat
    BY <1>0, <1>8 DEF Sendfile, Available, Source
  <2>4. UNCHANGED <<data, changed, pos>> \/ \E n \in 0..Available :
          Put(Ahead(n)) /\ pos' = [name \in Names |-> pos[name] + n]
    <3> DEFINE wanted == st["from"].size - pos["from"]
               most == IF wanted < Available THEN wanted ELSE Available
    <3>1. wanted \in Int
      BY <1>0 DEF Stats
    <3>2. 0..most \subseteq 0..Available
      BY <2>3, <3>1
    <3>3. UNCHANGED <<data, changed, pos>> \/ \E n \in 0..most :
            Put(Ahead(n)) /\ pos' = [name \in Names |-> pos[name] + n]
      BY <1>8 DEF Sendfile
    <3> HIDE DEF most
    <3> QED BY <3>2, <3>3
  <2> QED BY <2>1, <2>2, <2>4
<1>9. CASE Read
  <2>0. /\ pc = "read" /\ pc' \in {"write", "done"}
        /\ UNCHANGED <<dir, data, disturbances, swaps, fd, st, changed, truncated, short>>
    BY <1>9 DEF Read, Return, Goto, disk
  <2>1. CASE UNCHANGED <<buf, pos>>
    BY <2>0, <2>1
  <2>2. CASE ~UNCHANGED <<buf, pos>>
    <3> DEFINE n == IF Available < BufSize THEN Available ELSE BufSize
    <3>1. Available \in Nat
      BY <1>0, <1>9 DEF Read, Available, Source
    <3>2. n \in 0..Available
      BY <3>1, SizeAssumption
    <3>3. buf' = Ahead(n) /\ pos' = [pos EXCEPT !["from"] = @ + Len(buf')]
      BY <1>9, <2>2 DEF Read
    <3>4. Ahead(n) \in Seq(Blocks) /\ Len(Ahead(n)) = n
      BY <1>9, <3>2, AheadType DEF Read
    <3>5. pos' \in [Names -> Nat]
      <4>1. pos["from"] + Len(buf') \in Nat
        BY <1>0, <3>1, <3>2, <3>3, <3>4
      <4> QED BY <3>3, <4>1
    <3> QED BY <2>0, <3>3, <3>4, <3>5
  <2> QED BY <2>1, <2>2
<1>10. CASE Write
  <2>0. /\ pc = "write" /\ pc' \in {"read", "done"}
        /\ UNCHANGED <<dir, disturbances, swaps, fd, st, buf, truncated>>
        /\ short' \in BOOLEAN
    BY <1>10 DEF Write, Return, Goto
  <2>1. CASE UNCHANGED <<data, changed, pos>>
    BY <2>0, <2>1
  <2>2. CASE \E n \in 0..Len(buf) : /\ Put(SubSeq(buf, 1, n))
                                  /\ pos' = [pos EXCEPT !["to"] = @ + n]
    <3>1. PICK n \in 0..Len(buf) : /\ Put(SubSeq(buf, 1, n))
                                   /\ pos' = [pos EXCEPT !["to"] = @ + n]
      BY <2>2
    <3>2. pos["to"] \in Nat /\ fd["to"] \in Files /\ buf \in Seq(Blocks)
      BY <1>0, <2>0
    <3>3. pos' \in [Names -> Nat]
      <4>1. pos["to"] + n \in Nat
        BY <3>2
      <4> QED BY <3>1, <4>1
    <3>4. SubSeq(buf, 1, n) \in Seq(Blocks)
      BY <3>2
    <3>5. data' \in [Files -> Seq(Blocks)] /\ changed' \subseteq Files
      BY <3>1, <3>2, <3>4, OverwriteType DEF Put
    <3> QED BY <2>0, <3>3, <3>5
  <2>3. Len(buf) \in Nat
    OBVIOUS
  <2>4. UNCHANGED <<data, changed, pos>> \/ \E n \in 0..Len(buf) :
          Put(SubSeq(buf, 1, n)) /\ pos' = [pos EXCEPT !["to"] = @ + n]
    <3>1. 1..Len(buf) \subseteq 0..Len(buf)
      BY <2>3
    <3>2. UNCHANGED <<data, changed, pos>> \/ \E n \in 1..Len(buf) :
            Put(SubSeq(buf, 1, n)) /\ pos' = [pos EXCEPT !["to"] = @ + n]
      BY <1>10 DEF Write
    <3> QED BY <3>1, <3>2
  <2> QED BY <2>1, <2>2, <2>4
<1>11. CASE Shorten
  <2>1. fd["from"] \in Files
    BY <1>0, <1>11 DEF Shorten
  <2>2. Source \in Seq(Blocks) /\ Source # << >>
    BY <1>11, <2>1 DEF Shorten, Source
  <2>3. SubSeq(Source, 1, Len(Source) - 1) \in Seq(Blocks)
    BY <2>2
  <2>4. data' \in [Files -> Seq(Blocks)]
    BY <1>11, <2>1, <2>3 DEF Shorten, Source
  <2>5. disturbances' \in 0..MaxDisturbances /\ swaps' \in 0..disturbances'
    BY <1>11, SizeAssumption DEF Shorten, Disturb
  <2> QED BY <1>11, <2>4, <2>5 DEF Shorten, Disturb
<1>12. CASE \E name \in Names : Rename(name)
  <2>1. disturbances' \in 0..MaxDisturbances /\ swaps' \in 0..disturbances'
    BY <1>12, SizeAssumption DEF Rename, Disturb
  <2>2. dir' \in [Names -> Files \cup {None}]
    BY <1>12 DEF Rename, Files
  <2> QED BY <1>12, <2>1, <2>2 DEF Rename, Disturb
<1>13. CASE UNCHANGED vars
  BY <1>13 DEF vars, disk
<1> QED
  BY <1>1, <1>2, <1>3, <1>4, <1>5, <1>6, <1>7, <1>8, <1>9, <1>10, <1>11, <1>12, <1>13
  DEF Next, Step

(* Type correctness, for files and transfers of any size: in particular no *)
(* system call is made on a descriptor that is not open, and an offset     *)
(* beyond the end of a source that was shortened reads nothing.            *)
THEOREM TypeCorrect == Spec => []TypeOK
<1>1. GivenOK /\ AnswerOK /\ WorkOK => TypeOK
  BY DEF GivenOK, AnswerOK, WorkOK, TypeOK
<1> QED BY <1>1, TypesInit, GivenStep, AnswerStep, WorkStep, PTL DEF Spec

-----------------------------------------------------------------------------
(* The copy.                                                               *)

(* The first n blocks of a source are the content of a target.             *)
Copied(target, source, n) ==
  Len(target) = n /\ \A i \in 1..n : target[i] = source[i]

Working == {"stat_to", "open_to", "lstat_to", "chmod", "truncate", "send", "read", "write"}
Opened == {"lstat_to", "chmod", "truncate", "send", "read", "write"}
Target == data[fd["to"]]

(* While nobody interferes and write() takes what it is given: what the    *)
(* call has looked at is what it has opened, two different files, and the  *)
(* target holds what has gone.                                             *)
CopyInv ==
  disturbances = 0 /\ ~short =>
    /\ pc \in {"open_from", "lstat_from", "stat_to", "open_to"} =>
         dir["from"] # New /\ dir["to"] # New
    /\ pc = "lstat_from" => fd["from"] = dir["from"]
    /\ pc \in Working =>
         /\ fd["from"] = dir["from"]
         /\ st["from"] = [ino |-> fd["from"], size |-> Len(Source)]
    /\ pc \in {"open_from", "lstat_from", "stat_to", "open_to", "lstat_to"} =>
         data[New] = << >>
    /\ pc = "open_to" =>
         st["to"].ino = dir["to"] /\ dir["to"] # fd["from"]
    /\ pc \in Opened => fd["to"] = dir["to"] /\ fd["to"] # fd["from"]
    /\ pc = "lstat_to" /\ ~to_exists => fd["to"] = New
    /\ pc \notin {"send", "read", "write", "done"} => pos = [n \in Names |-> 0]
    /\ pc \in {"send", "read"} =>
         /\ pos["from"] = pos["to"] /\ pos["to"] <= Len(Source)
         /\ Copied(Target, Source, pos["to"])
    /\ pc = "write" =>
         /\ pos["to"] + Len(buf) = pos["from"] /\ pos["from"] <= Len(Source)
         /\ Copied(Target, Source, pos["to"])
         /\ \A i \in 1..Len(buf) : buf[i] = Source[pos["to"] + i]
    /\ pc = "done" /\ result.copied => Exact

(* A content with blocks after it.                                         *)
Appended(r, content, at, blocks) ==
  /\ Len(r) = at + Len(blocks)
  /\ \A i \in 1..at : r[i] = content[i]
  /\ \A i \in at+1..at+Len(blocks) : r[i] = blocks[i - at]

(* A write() at the end of a file appends.                                 *)
LEMMA OverwriteAppends ==
  ASSUME NEW content \in Seq(Blocks), NEW at \in Nat, Len(content) = at,
         NEW blocks \in Seq(Blocks)
  PROVE  Appended(Overwrite(content, at, blocks), content, at, blocks)
<1> DEFINE r == Overwrite(content, at, blocks)
           n == at + Len(blocks)
<1>1. r \in Seq(Blocks)
  BY OverwriteType
<1>2. CASE blocks = << >>
  BY <1>2 DEF Overwrite, Appended
<1>3. CASE blocks # << >>
  <2>1. n \in Nat /\ Len(blocks) > 0
    BY <1>3
  <2>2. r = [i \in 1..n |-> IF i \in at+1..n THEN blocks[i - at]
                            ELSE IF i <= Len(content) THEN content[i] ELSE 0]
    BY <1>3, <2>1 DEF Overwrite
  <2>3. Len(r) = n
    BY <1>1, <2>1, <2>2
  <2>4. \A i \in 1..at : i \in 1..n /\ i \notin at+1..n
    BY <2>1
  <2>5. \A i \in 1..at : r[i] = content[i]
    BY <2>2, <2>4
  <2>6. \A i \in at+1..n : r[i] = blocks[i - at]
    BY <2>1, <2>2
  <2> HIDE DEF r
  <2> QED BY <2>3, <2>5, <2>6 DEF Appended, r
<1> QED BY <1>2, <1>3

(* Appending the next blocks of the source to what has been copied.        *)
LEMMA AppendCopies ==
  ASSUME NEW target \in Seq(Blocks), NEW source \in Seq(Blocks), NEW at \in Nat,
         Copied(target, source, at), NEW blocks \in Seq(Blocks),
         \A i \in 1..Len(blocks) : blocks[i] = source[at + i]
  PROVE  Copied(Overwrite(target, at, blocks), source, at + Len(blocks))
<1> DEFINE r == Overwrite(target, at, blocks)
<1>1. /\ Len(r) = at + Len(blocks)
      /\ \A i \in 1..at : r[i] = target[i]
      /\ \A i \in at+1..at+Len(blocks) : r[i] = blocks[i - at]
  <2>1. Appended(r, target, at, blocks)
    BY OverwriteAppends DEF Copied
  <2> HIDE DEF r
  <2> QED BY <2>1 DEF Appended
<1> HIDE DEF r
<1>2. ASSUME NEW i \in 1..at + Len(blocks)
      PROVE  r[i] = source[i]
  <2>1. CASE i <= at
    BY <1>1, <2>1 DEF Copied
  <2>2. CASE i > at
    <3>1. i \in at+1..at+Len(blocks) /\ i - at \in 1..Len(blocks) /\ at + (i - at) = i
      BY <2>2
    <3> QED BY <1>1, <3>1
  <2> QED BY <2>1, <2>2
<1>3. Copied(r, source, at + Len(blocks))
  BY <1>1, <1>2 DEF Copied
<1> QED BY <1>3 DEF r

(* A copy of all blocks is the source.                                     *)
LEMMA CopiedAll ==
  ASSUME NEW target \in Seq(Blocks), NEW source \in Seq(Blocks),
         Copied(target, source, Len(source))
  PROVE  target = source
BY DEF Copied

(* The blocks ahead of the offset.                                         *)
LEMMA AheadBlocks ==
  ASSUME WorkOK, FromIsOpen, NEW n \in 0..Available
  PROVE  \A i \in 1..n : Ahead(n)[i] = Source[pos["from"] + i]
<1>1. Source \in Seq(Blocks) /\ pos["from"] \in Nat
  BY DEF WorkOK, Source, Names
<1>2. CASE n = 0
  BY <1>2
<1>3. CASE n > 0
  BY <1>1, <1>3 DEF Ahead, Available
<1> QED BY <1>2, <1>3 DEF Available

(* A transfer of the blocks ahead, to the end of what has been copied.     *)
LEMMA Transfer ==
  ASSUME WorkOK, pc \in {"send", "read", "write"}, fd["to"] # fd["from"],
         Copied(Target, Source, pos["to"]), NEW blocks \in Seq(Blocks),
         \A i \in 1..Len(blocks) : blocks[i] = Source[pos["to"] + i],
         Put(blocks), UNCHANGED fd
  PROVE  /\ Source' = Source
         /\ Copied(Target', Source, pos["to"] + Len(blocks))
         /\ Target' \in Seq(Blocks)
         /\ \A f \in Files : f # fd["to"] => data'[f] = data[f]
<1>1. /\ fd["to"] \in Files /\ fd["from"] \in Files /\ pos["to"] \in Nat
      /\ data \in [Files -> Seq(Blocks)]
  BY DEF WorkOK, FromIsOpen, ToIsOpen, Names
<1>2. Source \in Seq(Blocks) /\ Target \in Seq(Blocks)
  BY <1>1 DEF Source, Target
<1>3. Target' = Overwrite(Target, pos["to"], blocks) /\ Source' = Source
      /\ \A f \in Files : f # fd["to"] => data'[f] = data[f]
  BY <1>1 DEF Put, Target, Source
<1>4. Copied(Overwrite(Target, pos["to"], blocks), Source, pos["to"] + Len(blocks))
  BY <1>1, <1>2, AppendCopies
<1>5. Overwrite(Target, pos["to"], blocks) \in Seq(Blocks)
  BY <1>1, <1>2, OverwriteType
<1> QED BY <1>3, <1>4, <1>5

(* The steps up to the first transfer: what they look at they open.        *)
LEMMA LooksAgree ==
  ASSUME WorkOK, CopyInv, disturbances = 0, ~short,
         OpenFrom \/ LstatFrom \/ StatTo \/ OpenTo \/ LstatTo \/ Fchmod \/ Ftruncate
  PROVE  CopyInv'
<1> USE DEF CopyInv, Working, Opened, Return, Goto, meddling, Exact
<1>0. /\ "from" \in Names /\ "to" \in Names /\ New \in Files /\ None \notin Files
      /\ data \in [Files -> Seq(Blocks)] /\ fd \in [Names -> Files \cup {None}]
      /\ dir \in [Names -> Files \cup {None}] /\ st \in [Names -> Stats]
  BY InodeAssumption DEF Names, Files, WorkOK
<1>1. CASE OpenFrom
  BY <1>0, <1>1 DEF OpenFrom, disk, Names
<1>2. CASE LstatFrom
  <2>1. CASE pc' = "done"
    BY <1>2, <2>1 DEF LstatFrom, disk
  <2>2. CASE pc' # "done"
    <3>1. /\ pc = "lstat_from" /\ pc' = "stat_to" /\ IsRegular(lstat("from").ino)
          /\ st' = [st EXCEPT !["from"] = lstat("from")]
          /\ UNCHANGED <<disk, fd, pos, buf, disturbances>>
      BY <1>2, <2>2 DEF LstatFrom
    <3>2. "from" \notin links
      BY <3>1, InodeAssumption DEF lstat, IsRegular, Links
    <3>3. dir["from"] # None
      BY <1>0, <3>1, <3>2 DEF lstat, stat, IsRegular, NoStat
    <3>4. st'["from"] = [ino |-> dir["from"], size |-> Len(data[dir["from"]])]
      BY <1>0, <3>1, <3>2, <3>3 DEF lstat, stat
    <3> QED BY <3>1, <3>4 DEF Source, disk
  <2> QED BY <2>1, <2>2
<1>3. CASE StatTo
  <2>1. st'["to"] = stat("to") /\ st'["from"] = st["from"]
    BY <1>0, <1>3 DEF StatTo
  <2>2. st'["to"].ino = dir["to"]
    BY <2>1 DEF stat, NoStat
  <2>3. CASE pc' = "done"
    BY <1>3, <2>3 DEF StatTo, disk
  <2>4. CASE pc' # "done"
    <3>1. /\ pc = "stat_to" /\ pc' = "open_to"
          /\ stat("to").ino # None => stat("to").ino # st["from"].ino
          /\ UNCHANGED <<disk, fd, pos, buf, disturbances>>
      BY <1>3, <2>4 DEF StatTo
    <3>2. dir["to"] # fd["from"]
      BY <1>0, <2>1, <2>2, <3>1 DEF WorkOK, FromIsOpen
    <3> QED BY <2>1, <2>2, <3>1, <3>2 DEF Source, disk
  <2> QED BY <2>3, <2>4
<1>4. CASE OpenTo
  <2>1. CASE pc' = "done"
    BY <1>4, <2>1 DEF OpenTo, disk
  <2>2. CASE pc' # "done"
    <3>1. /\ pc = "open_to" /\ pc' = "lstat_to" /\ UNCHANGED <<data, pos, st, buf, disturbances>>
          /\ fd'["from"] = fd["from"] /\ dir'["from"] = dir["from"]
          /\ fd'["to"] = dir'["to"]
      BY <1>0, <1>4, <2>2 DEF OpenTo, disk
    <3>2. fd'["to"] # fd["from"] /\ (~to_exists => fd'["to"] = New)
      BY <1>0, <1>4, <2>2 DEF OpenTo, disk, to_exists
    <3>3. data[New] = << >>
      BY <3>1
    <3> QED BY <3>1, <3>2, <3>3 DEF Source, to_exists
  <2> QED BY <2>1, <2>2
<1>5. CASE LstatTo
  <2>1. UNCHANGED <<disk, fd, pos, st, buf, disturbances>> /\ pc = "lstat_to"
    BY <1>5 DEF LstatTo
  <2>2. CASE pc' = "send"
    <3>1. ~to_exists
      BY <1>5, <2>2 DEF LstatTo
    <3>2. Target = << >> /\ pos["from"] = 0 /\ pos["to"] = 0
      BY <1>0, <2>1, <3>1 DEF Target
    <3>3. Copied(Target, Source, 0) /\ Len(Source) \in Nat
      BY <1>0, <2>1, <3>2 DEF Copied, Source, WorkOK, FromIsOpen
    <3> QED BY <2>1, <2>2, <3>2, <3>3 DEF Source, Target, disk, Copied
  <2>3. CASE pc' = "chmod"
    BY <2>1, <2>3 DEF Source, disk
  <2>4. CASE pc' = "done"
    BY <1>5, <2>4 DEF LstatTo
  <2> QED BY <1>5, <2>2, <2>3, <2>4 DEF LstatTo
<1>6. CASE Fchmod
  <2>1. UNCHANGED <<disk, fd, pos, st, buf, disturbances>> /\ pc = "chmod"
    BY <1>6 DEF Fchmod
  <2>2. pc' = "truncate" \/ (pc' = "done" /\ ~result'.copied)
    BY <1>6 DEF Fchmod
  <2> QED BY <2>1, <2>2 DEF Source, disk
<1>7. CASE Ftruncate
  <2>1. UNCHANGED <<dir, fd, pos, st, buf, disturbances>> /\ pc = "truncate"
    BY <1>7 DEF Ftruncate
  <2>2. CASE pc' = "done"
    BY <1>7, <2>2 DEF Ftruncate
  <2>3. CASE pc' # "done"
    <3>1. pc' = "send" /\ data' = [data EXCEPT ![fd["to"]] = << >>]
      BY <1>7, <2>3 DEF Ftruncate
    <3>2. fd["to"] \in Files /\ fd["from"] \in Files
      BY <2>1 DEF WorkOK, ToIsOpen, FromIsOpen
    <3>3. Target' = << >> /\ Source' = Source /\ pos["from"] = 0 /\ pos["to"] = 0
      BY <1>0, <2>1, <3>1, <3>2 DEF Target, Source
    <3>4. Copied(Target', Source, 0) /\ Len(Source) \in Nat
      BY <1>0, <3>2, <3>3 DEF Copied, Source
    <3> QED BY <2>1, <3>1, <3>3, <3>4 DEF Copied
  <2> QED BY <2>2, <2>3
<1> QED BY <1>1, <1>2, <1>3, <1>4, <1>5, <1>6, <1>7

(* The transfers, by sendfile, by the loop, or by one after the other.     *)
LEMMA TransfersCopy ==
  ASSUME WorkOK, CopyInv, disturbances = 0, ~short, ~short',
         Sendfile \/ Read \/ Write
  PROVE  CopyInv'
<1>0. /\ pc \in {"send", "read", "write"} /\ UNCHANGED <<dir, fd, st, disturbances>>
  BY DEF Sendfile, Read, Write, disk, meddling
<1>1. /\ fd["from"] = dir["from"] /\ fd["to"] = dir["to"] /\ fd["to"] # fd["from"]
      /\ st["from"] = [ino |-> fd["from"], size |-> Len(Source)]
      /\ Copied(Target, Source, pos["to"])
      /\ fd["from"] \in Files /\ fd["to"] \in Files /\ fd["to"] # None
      /\ Source \in Seq(Blocks) /\ Target \in Seq(Blocks) /\ Len(Source) \in Nat
      /\ pos["from"] \in Nat /\ pos["to"] \in Nat /\ pos["from"] <= Len(Source)
      /\ buf \in Seq(Blocks) /\ FromIsOpen
  BY <1>0, InodeAssumption DEF CopyInv, Working, Opened, WorkOK, FromIsOpen, ToIsOpen,
     Names, Source, Target
<1>2. Available = Len(Source) - pos["from"]
  BY <1>1 DEF Available
<1>3. CASE Sendfile
  <2>1. pc = "send" /\ pos["from"] = pos["to"]
    BY <1>0, <1>3 DEF Sendfile, CopyInv
  <2>2. CASE UNCHANGED <<data, pos>> /\ pc' = "read"
    BY <1>0, <1>1, <2>1, <2>2 DEF CopyInv, Working, Opened, Source, Target
  <2>3. ASSUME NEW n \in 0..Available, Put(Ahead(n)),
               pos' = [name \in Names |-> pos[name] + n],
               IF Len(Source) - pos["from"] > n THEN Goto("send") ELSE Return(TRUE, "ok")
        PROVE  CopyInv'
    <3>1. /\ Ahead(n) \in Seq(Blocks) /\ Len(Ahead(n)) = n
          /\ \A i \in 1..n : Ahead(n)[i] = Source[pos["to"] + i]
      BY <1>1, <2>1, AheadType, AheadBlocks
    <3>2. /\ Source' = Source
          /\ Copied(Target', Source, pos["to"] + n)
          /\ Target' \in Seq(Blocks)
      BY <1>0, <1>1, <2>3, <3>1, Transfer
    <3>3. pos'["from"] = pos["from"] + n /\ pos'["to"] = pos["to"] + n
      BY <2>3 DEF Names
    <3>4. CASE Len(Source) - pos["from"] > n
      <4>1. pc' = "send"
        BY <2>3, <3>4 DEF Goto
      <4> QED BY <1>0, <1>1, <1>2, <2>1, <3>2, <3>3, <4>1 DEF CopyInv, Working, Opened
    <3>5. CASE ~(Len(Source) - pos["from"] > n)
      <4>1. pc' = "done"
        BY <2>3, <3>5 DEF Return
      <4>2. pos["to"] + n = Len(Source)
        BY <1>1, <1>2, <2>1, <3>5
      <4>3. Target' = Source'
        BY <1>1, <3>2, <4>2, CopiedAll
      <4>4. data'[dir'["to"]] = data'[dir'["from"]]
        BY <1>0, <1>1, <4>3 DEF Target, Source
      <4> QED BY <1>0, <1>1, <4>1, <4>4 DEF CopyInv, Working, Opened, Exact
    <3> QED BY <3>4, <3>5
  <2>4. \/ UNCHANGED <<data, pos>> /\ pc' = "read"
        \/ \E n \in 0..Available :
             /\ Put(Ahead(n)) /\ pos' = [name \in Names |-> pos[name] + n]
             /\ IF Len(Source) - pos["from"] > n THEN Goto("send") ELSE Return(TRUE, "ok")
    <3>1. st["from"].size = Len(Source)
      BY <1>1
    <3>2. (IF Len(Source) - pos["from"] < Available THEN Len(Source) - pos["from"]
           ELSE Available) = Available
      BY <1>1, <1>2
    <3> QED BY <1>3, <3>1, <3>2 DEF Sendfile, Goto
  <2> QED BY <2>2, <2>3, <2>4
<1>4. CASE Read
  <2>1. pc = "read" /\ pos["from"] = pos["to"] /\ UNCHANGED data
    BY <1>0, <1>4 DEF Read, CopyInv, disk
  <2>2. CASE pc' = "done" /\ ~result'.copied
    BY <1>0, <2>2 DEF CopyInv, Working, Opened
  <2>3. CASE pc' = "done" /\ Available = 0
    <3>1. Copied(Target, Source, Len(Source))
      BY <1>1, <1>2, <2>1, <2>3
    <3>2. data[fd["to"]] = data[fd["from"]]
      BY <1>1, <3>1, CopiedAll DEF Target, Source
    <3> QED BY <1>0, <1>1, <2>1, <2>3, <3>2 DEF CopyInv, Working, Opened, Exact
  <2>4. CASE pc' = "write"
    <3> DEFINE n == IF Available < BufSize THEN Available ELSE BufSize
    <3>1. n \in 0..Available /\ buf' = Ahead(n) /\ pos' = [pos EXCEPT !["from"] = @ + Len(buf')]
      BY <1>1, <1>2, <1>4, <2>4, SizeAssumption DEF Read, Return
    <3> HIDE DEF n
    <3>2. /\ Len(Ahead(n)) = n
          /\ \A i \in 1..n : Ahead(n)[i] = Source[pos["to"] + i]
      BY <1>1, <2>1, <3>1, AheadType, AheadBlocks
    <3>3. pos'["from"] = pos["from"] + n /\ pos'["to"] = pos["to"]
      BY <3>1, <3>2 DEF WorkOK, Names
    <3>4. Source' = Source /\ Target' = Target
      BY <1>0, <2>1 DEF Source, Target
    <3>5. pos["to"] + Len(buf') = pos'["from"] /\ pos'["from"] <= Len(Source)
          /\ \A i \in 1..Len(buf') : buf'[i] = Source[pos["to"] + i]
      BY <1>1, <1>2, <2>1, <3>1, <3>2, <3>3
    <3> QED BY <1>0, <1>1, <2>4, <3>3, <3>4, <3>5 DEF CopyInv, Working, Opened
  <2> QED BY <1>4, <2>2, <2>3, <2>4 DEF Read, Goto, Return
<1>5. CASE Write
  <2>1. /\ pc = "write" /\ pos["to"] + Len(buf) = pos["from"]
        /\ \A i \in 1..Len(buf) : buf[i] = Source[pos["to"] + i]
    BY <1>0, <1>5 DEF Write, CopyInv
  <2>2. CASE pc' = "done" /\ ~result'.copied
    BY <1>0, <2>2 DEF CopyInv, Working, Opened
  <2>3. CASE pc' = "read"
    <3>1. Put(SubSeq(buf, 1, Len(buf))) /\ pos' = [pos EXCEPT !["to"] = @ + Len(buf)]
      <4>1. PICK n \in 1..Len(buf) :
              /\ Put(SubSeq(buf, 1, n)) /\ pos' = [pos EXCEPT !["to"] = @ + n]
              /\ short' = (short \/ n < Len(buf))
        BY <1>5, <2>3 DEF Write, Return
      <4>2. ~(n < Len(buf))
        BY <4>1, Zenon
      <4>3. n = Len(buf)
        BY <1>1, <4>2
      <4> QED BY <4>1, <4>3
    <3>2. SubSeq(buf, 1, Len(buf)) = buf
      BY <1>1
    <3>3. /\ Source' = Source
          /\ Copied(Target', Source, pos["to"] + Len(buf))
      BY <1>0, <1>1, <2>1, <3>1, <3>2, Transfer
    <3>4. pos'["from"] = pos["from"] /\ pos'["to"] = pos["to"] + Len(buf)
      BY <3>1 DEF WorkOK, Names
    <3> QED BY <1>0, <1>1, <2>1, <2>3, <3>3, <3>4 DEF CopyInv, Working, Opened
  <2> QED BY <1>5, <2>2, <2>3 DEF Write, Goto, Return
<1> QED BY <1>3, <1>4, <1>5

(* A copy that was not disturbed and whose write()s took what they were    *)
(* given is exact, for files, buffers and limits of any size, and also     *)
(* when sendfile sends little or fails half way.                           *)
THEOREM CopiesAreExact == Spec => []SuccessMeansCopied
<1>1. Init => CopyInv
  <2> SUFFICES ASSUME Init PROVE CopyInv
    OBVIOUS
  <2>1. data[New] = << >> /\ dir["from"] # New /\ dir["to"] # New
    BY StartAssumption, InodeAssumption DEF Init, Names, Files
  <2> QED BY <2>1 DEF Init, CopyInv, Working, Opened
<1>2. WorkOK /\ CopyInv /\ [Next]_vars => CopyInv'
  <2> SUFFICES ASSUME WorkOK, CopyInv, [Next]_vars, disturbances' = 0, ~short'
               PROVE  CopyInv'
    BY DEF CopyInv
  <2>1. CASE Step
    <3>1. disturbances = 0
      BY <2>1 DEF Step, OpenFrom, LstatFrom, StatTo, OpenTo, LstatTo, Fchmod, Ftruncate,
         Sendfile, Read, Write, meddling
    <3>2. UNCHANGED short \/ \E n \in 1..Len(buf) : short' = (short \/ n < Len(buf))
      BY <2>1, Zenon DEF Step, OpenFrom, LstatFrom, StatTo, OpenTo, LstatTo, Fchmod,
         Ftruncate, Sendfile, Read, Write
    <3>3. ~short
      BY <3>2, Zenon
    <3> QED BY <2>1, <3>1, <3>3, LooksAgree, TransfersCopy DEF Step
  <2>2. CASE Disturb
    BY <2>2 DEF Disturb, WorkOK
  <2>3. CASE UNCHANGED vars
    BY <2>3 DEF vars, disk, meddling, CopyInv, Working, Opened, Source, Target, to_exists,
                Exact
  <2> QED BY <2>1, <2>2, <2>3 DEF Next, Shorten, Rename
<1>3. CopyInv => SuccessMeansCopied
  BY DEF CopyInv, SuccessMeansCopied, Done
<1>4. Spec => []WorkOK
  BY TypesInit, WorkStep, PTL DEF Spec
<1> QED BY <1>1, <1>2, <1>3, <1>4, PTL DEF Spec
=============================================================================
