-------------------------- MODULE AttributesProofs --------------------------
(***************************************************************************)
(* What the operations of Attributes do for every width of the integers,   *)
(* every resolution of the clock and any number of calls and files.        *)
(***************************************************************************)
EXTENDS Attributes, TLAPS

-----------------------------------------------------------------------------
(* Space.                                                                  *)

\* A quotient that is right leaves no room for a product that has wrapped:
\* the remainder reaches the product, which it cannot pass.
LEMMA DivisionIsExact ==
    ASSUME NEW M \in Nat \ {0}, NEW f \in Nat, NEW b \in Nat \ {0},
           NEW out \in Nat, out = (b * f) % M, out \div b = f
    PROVE  out = b * f
<1> DEFINE p == b * f
           q == out \div b
<1>1. p \in Nat
  OBVIOUS
<1>2. out <= p
  <2>1. \A x \in Nat : x % M <= x
    BY Z3
  <2> QED BY <1>1, <2>1
<1>3. b * q <= out
  <2>1. \A x \in Nat, y \in Nat \ {0} : y * (x \div y) <= x
    BY Z3
  <2> QED BY <2>1
<1> QED BY <1>1, <1>2, <1>3

\* A product divided by one of its factors is the other.
LEMMA ProductDivides ==
    ASSUME NEW b \in Nat \ {0}, NEW f \in Nat
    PROVE  (b * f) \div b = f
  BY Z3

\* The multiplication with overflow checking gives the product if there is
\* something to divide by and the product fits, whatever the width, and the
\* value that says it is unknown in every other case.
THEOREM MultIsExactOrUnknown ==
    ASSUME NEW frsize \in Nat, NEW blocks \in Nat
    PROVE  Mult(frsize, blocks) =
             IF blocks # 0 /\ blocks * frsize < Modulus THEN blocks * frsize ELSE Modulus - 1
<1> DEFINE out == (blocks * frsize) % Modulus
<1>0. CASE blocks = 0
  BY <1>0 DEF Mult
<1>1. CASE blocks # 0 /\ out \div blocks # frsize
  <2>1. ~(blocks * frsize < Modulus)
    <3>1. blocks * frsize \in Nat
      OBVIOUS
    <3>2. \A x \in Nat : x < Modulus => x % Modulus = x
      BY WidthAssumption
    <3>3. (blocks * frsize) \div blocks = frsize
      BY <1>1, ProductDivides
    <3> QED BY <1>1, <3>1, <3>2, <3>3
  <2> QED BY <1>1, <2>1 DEF Mult
<1>2. CASE ~(blocks = 0 \/ out \div blocks # frsize)
  <2>1. out \in Nat
    <3>1. blocks * frsize \in Nat
      OBVIOUS
    <3>2. \A x \in Nat : x % Modulus \in Nat
      BY WidthAssumption
    <3> QED BY <3>1, <3>2
  <2>2. out = blocks * frsize
    <3> HIDE DEF out
    <3>1. out = (blocks * frsize) % Modulus
      BY DEF out
    <3> QED BY <1>2, <2>1, <3>1, WidthAssumption, DivisionIsExact
  <2>3. out < Modulus
    <3>1. blocks * frsize \in Nat
      OBVIOUS
    <3>2. \A x \in Nat : x % Modulus < Modulus
      BY WidthAssumption
    <3> QED BY <3>1, <3>2
  <2> HIDE DEF out
  <2>4. blocks * frsize < Modulus
    BY <2>2, <2>3
  <2>5. Mult(frsize, blocks) = out
    BY <1>2 DEF Mult, out
  <2> QED BY <1>2, <2>2, <2>4, <2>5
<1> QED BY <1>0, <1>1, <1>2

-----------------------------------------------------------------------------
(* Times.                                                                  *)

\* What a timespec stands for is what the conversion back makes of it.
LEMMA FileTimeIsExact ==
    ASSUME NEW ts \in Timespecs
    PROVE  FileTime(ts) = Ticks * ts.sec + ts.nsec
<1> DEFINE s == ts.sec
<1>1. s \in Int /\ ts.nsec \in Int /\ Ticks \in Int
  BY WidthAssumption DEF Timespecs
<1>2. Ticks * (s + 1) = Ticks * s + Ticks
  BY <1>1
<1>3. Ticks * s \in Int
  BY <1>1
<1> QED BY <1>1, <1>2, <1>3 DEF FileTime

\* The whole seconds of a time are within a second of it, on the side of 0.
LEMMA SecondsTruncate ==
    ASSUME NEW t \in Int
    PROVE  /\ Seconds(t) \in Int
           /\ t - Ticks * Seconds(t) \in Int
           /\ t - Ticks * Seconds(t) < Ticks
           /\ t - Ticks * Seconds(t) > -Ticks
<1>1. \A x \in Nat, k \in Nat \ {0} :
        /\ x \div k \in Nat
        /\ 0 <= x - k * (x \div k)
        /\ x - k * (x \div k) < k
  BY Z3
<1>2. Ticks \in Nat \ {0}
  BY WidthAssumption
<1>3. CASE t >= 0
  <2>1. t \in Nat
    BY <1>3
  <2> QED BY <1>1, <1>2, <1>3, <2>1 DEF Seconds
<1>4. CASE ~(t >= 0)
  <2> DEFINE q == (-t) \div Ticks
  <2>1. -t \in Nat
    BY <1>4
  <2>2. /\ q \in Nat /\ 0 <= (-t) - Ticks * q /\ (-t) - Ticks * q < Ticks
    BY <1>1, <1>2, <2>1
  <2>3. Seconds(t) = -q
    BY <1>4 DEF Seconds
  <2> HIDE DEF q
  <2>4. Ticks * (-q) = -(Ticks * q)
    BY <1>2, <2>2
  <2>5. Ticks * q \in Nat
    BY <1>2, <2>2
  <2> QED BY <1>2, <2>2, <2>3, <2>4, <2>5
<1> QED BY <1>3, <1>4

\* The conversions are inverse, to the tick, on either side of the epoch.
THEOREM TimesRoundTrip ==
    ASSUME NEW t \in Int
    PROVE  Timespec(t) \in Timespecs /\ FileTime(Timespec(t)) = t
<1> DEFINE s == Seconds(t)
           ns == t - Ticks * s
<1>1. s \in Int /\ ns \in Int /\ ns < Ticks /\ ns > -Ticks
  BY SecondsTruncate
<1>2. Ticks \in Nat \ {0}
  BY WidthAssumption
<1>3. Timespec(t) = IF ns < 0 THEN [sec |-> s - 1, nsec |-> ns + Ticks]
                    ELSE [sec |-> s, nsec |-> ns]
  BY DEF Timespec
<1>4. Ticks * s \in Int /\ Ticks * s + ns = t
  BY <1>1, <1>2
<1> HIDE DEF s, ns
<1>5. Timespec(t) \in Timespecs
  BY <1>1, <1>2, <1>3 DEF Timespecs
<1>6. Ticks * Timespec(t).sec + Timespec(t).nsec = t
  <2>1. CASE ns < 0
    <3>1. Ticks * (s - 1) = Ticks * s - Ticks
      BY <1>1, <1>2
    <3>2. Timespec(t).sec = s - 1 /\ Timespec(t).nsec = ns + Ticks
      BY <1>3, <2>1
    <3>3. (Ticks * s - Ticks) + (ns + Ticks) = t
      BY <1>1, <1>2, <1>4
    <3> QED BY <3>1, <3>2, <3>3
  <2>2. CASE ~(ns < 0)
    BY <1>3, <1>4, <2>2
  <2> QED BY <2>1, <2>2
<1> QED BY <1>5, <1>6, FileTimeIsExact

-----------------------------------------------------------------------------
(* Lookup.                                                                 *)

\* A name leads to an inode or to one of the errors, through any links.
LEMMA LookupType ==
    ASSUME NEW name PROVE Lookup(name) \in Inodes \cup {"ENOENT", "ELOOP"}
BY NameAssumption DEF Lookup, LookupIn, NoInode

-----------------------------------------------------------------------------
(* Type correctness.                                                       *)

\* The types of TypeOK and the domains of the other functions.
Shape ==
    /\ TypeOK
    /\ asked \in [Callers -> Operations]
    /\ DOMAIN seen = Callers /\ DOMAIN answer = Callers
    /\ \A c \in Callers :
         Second(c, "permissions") => seen[c].bits \subseteq Bits

\* Every call finishes or goes on to its second system call.
LEMMA MovesKeepShape ==
    ASSUME Shape, NEW c \in Callers,
           pc' \in [Callers -> {"start", "second", "done"}],
           \/ \E a : Finish(c, a)
           \/ \E v : GoOn(c, v) /\ (asked[c].op = "permissions" => v.bits \subseteq Bits),
           pc[c] # "done"
    PROVE  /\ asked' \in [Callers -> Operations]
           /\ DOMAIN seen' = Callers /\ DOMAIN answer' = Callers
           /\ \A d \in Callers : pc'[d] # "done" => answer'[d].err = "none"
           /\ \A d \in Callers : Second(d, "permissions")' => seen'[d].bits \subseteq Bits
<1>1. CASE \E a : Finish(c, a)
  BY <1>1 DEF Shape, TypeOK, Finish, Second
<1>2. CASE \E v : GoOn(c, v) /\ (asked[c].op = "permissions" => v.bits \subseteq Bits)
  BY <1>2 DEF Shape, TypeOK, GoOn, Second
<1> QED BY <1>1, <1>2

\* The variables have their shape at first.
LEMMA ShapeInit == Init => Shape
<1> SUFFICES ASSUME Init PROVE Shape
  OBVIOUS
<1>1. TypeOK
  <2>1. Limit \in Int
    BY WidthAssumption DEF Limit
  <2>2. entry \in [Names -> Entries] /\ mode \in [Inodes -> SUBSET Bits]
    BY NameAssumption DEF Init
  <2>3. time \in [Inodes -> Timespecs] /\ size \in [Inodes -> 0..(Limit - 1)]
    BY WidthAssumption DEF Init
  <2> QED BY <2>2, <2>3 DEF Init, TypeOK
<1> QED BY <1>1 DEF Init, Shape, Second

\* No operation writes outside the width of the file system.
LEMMA ShapeStep == Shape /\ [Next]_vars => Shape'
<1> SUFFICES ASSUME Shape, [Next]_vars PROVE Shape'
  OBVIOUS
<1>0. CASE UNCHANGED vars
  BY <1>0 DEF vars, files, names, Shape, TypeOK, Second
<1>1. ASSUME NEW c \in Callers, Step(c) PROVE Shape'
  <2> USE <1>1
  <2>t. /\ asked[c] \in Operations
        /\ entry \in [Names -> Entries] /\ mode \in [Inodes -> SUBSET Bits]
        /\ time \in [Inodes -> Timespecs] /\ size \in [Inodes -> 0..(Limit - 1)]
        /\ pc \in [Callers -> {"start", "second", "done"}] /\ renamed \in BOOLEAN
    BY DEF Shape, TypeOK
  <2>p. ASSUME \/ \E a : Finish(c, a)
               \/ \E v : GoOn(c, v) /\ (asked[c].op = "permissions" => v.bits \subseteq Bits),
               pc[c] # "done",
               entry' \in [Names -> Entries], mode' \in [Inodes -> SUBSET Bits],
               time' \in [Inodes -> Timespecs], size' \in [Inodes -> 0..(Limit - 1)],
               renamed' \in BOOLEAN
        PROVE  Shape'
    <3>1. pc' \in [Callers -> {"start", "second", "done"}]
      BY <2>p, <2>t DEF Finish, GoOn
    <3>2. /\ asked' \in [Callers -> Operations]
          /\ DOMAIN seen' = Callers /\ DOMAIN answer' = Callers
          /\ \A d \in Callers : pc'[d] # "done" => answer'[d].err = "none"
          /\ \A d \in Callers : Second(d, "permissions")' => seen'[d].bits \subseteq Bits
      BY <2>p, <3>1, MovesKeepShape
    <3> QED BY <2>p, <3>1, <3>2 DEF Shape, TypeOK
  <2>1. CASE StatForPermissions(c)
    <3> DEFINE link == asked[c].nofollow /\ IsLink(asked[c].at)
               v == [type |-> IF link THEN "symlink" ELSE "none",
                     bits |-> IF link THEN Bits
                              ELSE IF ReadsFirst(c) THEN mode[At(c)] ELSE {}]
    <3>1. (ReadsFirst(c) /\ ~link /\ ~Found(c)) \/ v.bits \subseteq Bits
      BY <2>t DEF Found
    <3>2. \/ \E a : Finish(c, a)
          \/ \E w : GoOn(c, w) /\ (asked[c].op = "permissions" => w.bits \subseteq Bits)
      BY <2>1, <3>1 DEF StatForPermissions, Fail
    <3>3. pc[c] # "done" /\ UNCHANGED <<files, names>>
      BY <2>1 DEF StatForPermissions, Do
    <3> QED BY <3>2, <3>3, <2>t, <2>p DEF files, names
  <2>2. CASE Chmod(c)
    <3>1. Wanted(c, seen[c].bits) \subseteq Bits
      BY <2>2, <2>t, OperationAssumption DEF Chmod, Shape, Wanted, Second
    <3>2. mode' \in [Inodes -> SUBSET Bits]
      BY <2>2, <2>t, <3>1 DEF Chmod, Found
    <3>3. pc[c] # "done" /\ \E a : Finish(c, a)
      BY <2>2 DEF Chmod, Second, Fail, Answer
    <3> QED BY <2>2, <2>t, <2>p, <3>2, <3>3 DEF Chmod, names
  <2>3. CASE WriteTime(c)
    <3>1. asked[c].value \in Int
      BY <2>3, <2>t, OperationAssumption, WidthAssumption DEF WriteTime, Do, FileTimes, Limit
    <3>2. Timespec(asked[c].value) \in Timespecs
      BY <3>1, TimesRoundTrip
    <3>3. time' \in [Inodes -> Timespecs]
      BY <2>3, <2>t, <3>2 DEF WriteTime
    <3>4. pc[c] # "done" /\ \E a : Finish(c, a)
      BY <2>3 DEF WriteTime, Do, Fail, Answer
    <3> QED BY <2>3, <2>t, <2>p, <3>3, <3>4 DEF WriteTime, names
  <2>4. CASE ReadTime(c)
    <3>1. pc[c] # "done" /\ \E a : Finish(c, a)
      BY <2>4 DEF ReadTime, Do, Fail, Answer
    <3> QED BY <2>4, <2>t, <2>p, <3>1 DEF ReadTime, files, names
  <2>5. CASE Resize(c)
    <3>1. asked[c].value < Limit => asked[c].value \in 0..(Limit - 1)
      BY <2>5, <2>t, OperationAssumption, WidthAssumption DEF Resize, Do, Limit
    <3>2. size' \in [Inodes -> 0..(Limit - 1)]
      <4>1. CASE UNCHANGED size
        BY <4>1, <2>t
      <4>2. CASE ~UNCHANGED size
        <5>1. ~(asked[c].value >= Limit) /\ size' = [size EXCEPT ![At(c)] = asked[c].value]
          BY <2>5, <4>2, NameAssumption DEF Resize, NoInode
        <5>2. asked[c].value < Limit
          BY <2>5, <2>t, <5>1, OperationAssumption, WidthAssumption DEF Resize, Do, Limit
        <5> QED BY <2>t, <3>1, <5>1, <5>2
      <4> QED BY <4>1, <4>2
    <3>3. pc[c] # "done" /\ \E a : Finish(c, a)
      BY <2>5 DEF Resize, Do, Fail, Answer
    <3> QED BY <2>5, <2>t, <2>p, <3>2, <3>3 DEF Resize, names
  <2>6. CASE FileSize(c) \/ HardLinkCount(c) \/ Space(c)
    <3>1. pc[c] # "done" /\ \E a : Finish(c, a)
      BY <2>6 DEF FileSize, HardLinkCount, Space, Do, Fail, Answer
    <3> QED BY <2>6, <2>t, <2>p, <3>1 DEF FileSize, HardLinkCount, Space, files, names
  <2>7. CASE StatForEmpty(c) \/ StatFirst(c)
    <3>1. /\ pc[c] # "done"
          /\ \/ \E a : Finish(c, a)
             \/ \E v : GoOn(c, v) /\ (asked[c].op = "permissions" => v.bits \subseteq Bits)
      BY <2>7 DEF StatForEmpty, StatFirst, Do, Fail, Answer
    <3> QED BY <2>7, <2>t, <2>p, <3>1 DEF StatForEmpty, StatFirst, files, names
  <2>8. CASE OpenForEmpty(c) \/ StatOther(c)
    <3>1. pc[c] # "done" /\ \E a : Finish(c, a)
      BY <2>8 DEF OpenForEmpty, StatOther, Second, Fail, Answer
    <3> QED BY <2>8, <2>t, <2>p, <3>1 DEF OpenForEmpty, StatOther, files, names
  <2>9. CASE Rename(c)
    <3>1. asked[c].at \in Names /\ asked[c].to \in Names
      BY <2>9, <2>t, OperationAssumption DEF Rename, Do
    <3>2. entry' \in [Names -> Entries] /\ renamed' \in BOOLEAN
      BY <2>9, <2>t, <3>1 DEF Rename, names, Entries
    <3>3. pc[c] # "done" /\ \E a : Finish(c, a)
      BY <2>9 DEF Rename, Do, Fail, Answer
    <3> QED BY <2>9, <2>t, <2>p, <3>2, <3>3 DEF Rename, files
  <2> QED BY <2>1, <2>2, <2>3, <2>4, <2>5, <2>6, <2>7, <2>8, <2>9 DEF Step
<1> QED BY <1>0, <1>1 DEF Next

\* Type correctness: what the operations write stays within the width and the
\* resolution of the file system, for every width and any number of calls.
THEOREM TypeCorrect == Spec => []TypeOK
<1>1. Shape => TypeOK
  BY DEF Shape
<1> QED BY <1>1, ShapeInit, ShapeStep, PTL DEF Spec

-----------------------------------------------------------------------------
(* Answers.                                                                *)

TimesKept == DOMAIN wrote = Inodes /\ TimesReadBack

\* The time a file has at first is one it was given.
LEMMA TimesInit == Init => TimesKept
<1> SUFFICES ASSUME Init PROVE TimesKept
  OBVIOUS
<1>1. PICK t \in Times : /\ time = [i \in Inodes |-> t]
                         /\ wrote = [i \in Inodes |-> {Ticks * t.sec + t.nsec}]
  BY DEF Init
<1>2. t \in Timespecs
  BY WidthAssumption
<1>3. FileTime(t) = Ticks * t.sec + t.nsec
  BY <1>2, FileTimeIsExact
<1> QED BY <1>1, <1>3 DEF TimesKept, TimesReadBack

\* A time that is written is the one that was asked for.
LEMMA TimesStep == Shape /\ TimesKept /\ [Next]_vars => TimesKept'
<1> SUFFICES ASSUME Shape, TimesKept, [Next]_vars PROVE TimesKept'
  OBVIOUS
<1>0. CASE UNCHANGED <<time, wrote>>
  BY <1>0 DEF TimesKept, TimesReadBack
<1>1. ASSUME NEW c \in Callers, WriteTime(c), ~UNCHANGED <<time, wrote>> PROVE TimesKept'
  <2> DEFINE t == asked[c].value
  <2>1. t \in Int
    BY <1>1, OperationAssumption, WidthAssumption
    DEF WriteTime, Do, FileTimes, Limit, Shape
  <2>2. FileTime(Timespec(t)) = t
    BY <2>1, TimesRoundTrip
  <2>3. PICK e \in Inodes : /\ time' = [time EXCEPT ![e] = Timespec(t)]
                            /\ wrote' = [wrote EXCEPT ![e] = @ \cup {t}]
    BY <1>1 DEF WriteTime
  <2>4. \A i \in Inodes : FileTime(time'[i]) \in wrote'[i]
    <3> SUFFICES ASSUME NEW i \in Inodes PROVE FileTime(time'[i]) \in wrote'[i]
      OBVIOUS
    <3>1. CASE i = e
      BY <2>2, <2>3, <3>1 DEF Shape, TypeOK, TimesKept
    <3>2. CASE i # e
      BY <2>3, <3>2 DEF Shape, TypeOK, TimesKept, TimesReadBack
    <3> QED BY <3>1, <3>2
  <2> QED BY <2>3, <2>4 DEF TimesKept, TimesReadBack
<1>2. ASSUME NEW c \in Callers, Step(c), ~WriteTime(c) PROVE UNCHANGED <<time, wrote>>
  BY <1>2 DEF Step, StatForPermissions, Chmod, ReadTime, Resize, FileSize, HardLinkCount,
              StatForEmpty, OpenForEmpty, StatFirst, StatOther, Rename, Space, files
<1>3. UNCHANGED vars => UNCHANGED <<time, wrote>>
  BY DEF vars, files
<1> QED BY <1>0, <1>1, <1>2, <1>3 DEF Next

\* However many calls write times, a file's time converts to one it was given,
\* for every clock and every time, before the epoch too.
THEOREM TimesAlwaysReadBack == Spec => []TimesReadBack
<1>1. TimesKept => TimesReadBack
  BY DEF TimesKept
<1> QED BY <1>1, ShapeInit, ShapeStep, TimesInit, TimesStep, PTL DEF Spec

\* Only space answers for space, and it answers with products.
LEMMA SpaceStep ==
    Shape /\ SpaceIsExactOrUnknown /\ [Next]_vars => SpaceIsExactOrUnknown'
<1> SUFFICES ASSUME Shape, SpaceIsExactOrUnknown, [Next]_vars,
                    NEW c \in Callers, Answered(c, "space")',
                    NEW part \in DOMAIN asked'[c].blocks,
                    asked'[c].blocks[part] # 0
             PROVE  answer'[c].value[part] =
                      IF asked'[c].blocks[part] * asked'[c].frsize < Modulus
                      THEN asked'[c].blocks[part] * asked'[c].frsize ELSE Modulus - 1
  BY DEF SpaceIsExactOrUnknown
<1>1. asked' = asked
  BY DEF Next, Step, vars, StatForPermissions, Chmod, WriteTime, ReadTime, Resize, FileSize,
         HardLinkCount, StatForEmpty, OpenForEmpty, StatFirst, StatOther, Rename, Space,
         Fail, Answer, Finish, GoOn
<1>2. CASE answer'[c] = answer[c]
  BY <1>1, <1>2 DEF Answered, SpaceIsExactOrUnknown
<1>3. CASE Space(c)
  <2>1. asked[c].frsize \in Nat /\ asked[c].blocks[part] \in Nat
    BY <1>1, <1>3, OperationAssumption DEF Space, Do, Shape
  <2>2. answer'[c].value[part] = Mult(asked[c].frsize, asked[c].blocks[part])
    <3>1. At(c) # "ok" \/ Found(c)
      BY LookupType DEF At, Found
    <3>3. Found(c)
      BY <1>3, <3>1 DEF Space, Fail, Finish, Answered, Shape
    <3>4. answer'[c] = [err |-> "ok", value |-> [x \in DOMAIN asked[c].blocks |->
                                Mult(asked[c].frsize, asked[c].blocks[x])]]
      BY <1>3, <3>3 DEF Space, Answer, Finish, Shape
    <3> QED BY <1>1, <3>4
  <2> QED BY <1>1, <2>1, <2>2, MultIsExactOrUnknown
<1>4. ~Space(c) => answer'[c] = answer[c]
  <2>1. CASE UNCHANGED vars
    BY <2>1 DEF vars
  <2>2. ASSUME NEW d \in Callers, Step(d), ~Space(c) PROVE answer'[c] = answer[c]
    <3>1. CASE d = c
      <4>1. asked[c].op = "space"
        BY <1>1 DEF Answered
      <4> QED BY <2>2, <3>1, <4>1
          DEF Step, StatForPermissions, Chmod, WriteTime, ReadTime, Resize, FileSize,
              HardLinkCount, StatForEmpty, OpenForEmpty, StatFirst, StatOther, Rename,
              Do, Second
    <3>2. CASE d # c
      BY <2>2, <3>2
      DEF Step, StatForPermissions, Chmod, WriteTime, ReadTime, Resize, FileSize,
          HardLinkCount, StatForEmpty, OpenForEmpty, StatFirst, StatOther, Rename, Space,
          Fail, Answer, Finish, GoOn, Shape
    <3> QED BY <3>1, <3>2
  <2> QED BY <2>1, <2>2 DEF Next
<1> QED BY <1>2, <1>3, <1>4

\* Every number space reports for a count of blocks other than 0 is exact if
\* it fits and the one that says it is unknown if not, for every width of
\* uintmax_t and every file system.
THEOREM SpaceNeverWraps == Spec => []SpaceIsExactOrUnknown
<1>1. Init => SpaceIsExactOrUnknown
  BY DEF Init, SpaceIsExactOrUnknown, Answered
<1> QED BY <1>1, ShapeInit, ShapeStep, SpaceStep, PTL DEF Spec

-----------------------------------------------------------------------------
(* Permissions.                                                            *)

\* What a call has seen is explained as well as what it will be merged into:
\* the invariant that makes ChangesHaveACause inductive.
LooksExplained ==
    ~renamed => \A c \in Callers : Second(c, "permissions") =>
      /\ seen[c].type = "symlink" <=> asked[c].nofollow /\ IsLink(asked[c].at)
      /\ ReadsFirst(c) /\ seen[c].type # "symlink" =>
           Found(c) /\ Explained(seen[c].bits, At(c))

CauseInv == ChangesHaveACause /\ LooksExplained

\* What explains permissions goes on doing so.
LEMMA ExplainedStays ==
    ASSUME NEW bits, NEW i \in Inodes,
           UNCHANGED <<asked, began, entry>>,
           \A c \in Callers : Answered(c, "permissions") => Answered(c, "permissions")',
           Explained(bits, i)
    PROVE  Explained(bits, i)'
<1>1. \A c \in Callers : Reaches(c, i) => Reaches(c, i)'
  BY DEF Reaches, At, Lookup, IsLink
<1>2. Blamed(i, {"add", "replace"}) \subseteq Blamed(i, {"add", "replace"})'
  BY <1>1 DEF Blamed
<1>3. Blamed(i, {"remove", "replace"}) \subseteq Blamed(i, {"remove", "replace"})'
  BY <1>1 DEF Blamed
<1> QED BY <1>2, <1>3 DEF Explained

\* A step after which no call has a new status.
LEMMA LooksStay ==
    ASSUME CauseInv, Shape, UNCHANGED <<asked, began, entry, renamed>>,
           \A c \in Callers : Answered(c, "permissions") => Answered(c, "permissions")',
           \A c \in Callers : Second(c, "permissions")' =>
             Second(c, "permissions") /\ seen'[c] = seen[c]
    PROVE  LooksExplained'
<1> SUFFICES ASSUME ~renamed, NEW c \in Callers, Second(c, "permissions")'
             PROVE  (/\ seen[c].type = "symlink" <=> asked[c].nofollow /\ IsLink(asked[c].at)
                     /\ ReadsFirst(c) /\ seen[c].type # "symlink" =>
                          Found(c) /\ Explained(seen[c].bits, At(c)))'
  BY DEF LooksExplained
<1>1. /\ seen[c].type = "symlink" <=> asked[c].nofollow /\ IsLink(asked[c].at)
      /\ ReadsFirst(c) /\ seen[c].type # "symlink" =>
           Found(c) /\ Explained(seen[c].bits, At(c))
  BY DEF CauseInv, LooksExplained
<1>2. seen'[c] = seen[c] /\ At(c)' = At(c) /\ (IsLink(asked[c].at)' <=> IsLink(asked[c].at))
  BY DEF At, Lookup, IsLink
<1>3. ASSUME Found(c), Explained(seen[c].bits, At(c))
      PROVE  Explained(seen[c].bits, At(c))'
  <2>1. ASSUME NEW bits, NEW i \in Inodes, Explained(bits, i) PROVE Explained(bits, i)'
    BY <2>1, ExplainedStays
  <2>2. At(c) \in Inodes
    BY <1>3 DEF Found
  <2>3. PICK bits : bits = seen[c].bits
    OBVIOUS
  <2>4. PICK i \in Inodes : i = At(c)
    BY <2>2
  <2>5. Explained(bits, i)'
    BY <1>3, <2>1, <2>3, <2>4
  <2>6. seen'[c].bits = bits /\ At(c)' = i
    BY <1>2, <2>3, <2>4
  <2> QED BY <2>5, <2>6 DEF Explained, Blamed, Reaches
<1> QED BY <1>1, <1>2, <1>3 DEF ReadsFirst, Found

\* A step that changes no permissions either.
LEMMA QuietStep ==
    ASSUME CauseInv, Shape, UNCHANGED <<asked, began, entry, mode, renamed>>,
           \A c \in Callers : Answered(c, "permissions") => Answered(c, "permissions")',
           \A c \in Callers : Second(c, "permissions")' =>
             Second(c, "permissions") /\ seen'[c] = seen[c]
    PROVE  CauseInv'
<1>1. ChangesHaveACause'
  <2> SUFFICES ASSUME ~renamed, NEW i \in Inodes PROVE Explained(mode[i], i)'
    BY DEF ChangesHaveACause
  <2>1. Explained(mode[i], i)
    BY DEF CauseInv, ChangesHaveACause
  <2>2. ASSUME NEW bits, Explained(bits, i), bits = mode[i] PROVE Explained(bits, i)'
    BY <2>2, ExplainedStays
  <2> QED BY <2>1, <2>2
<1>2. LooksExplained'
  BY LooksStay
<1> QED BY <1>1, <1>2 DEF CauseInv

\* Only a call that has not answered takes a step: answers stay.
LEMMA AnswersStay ==
    ASSUME Shape, NEW c \in Callers, Step(c)
    PROVE  /\ pc[c] # "done" /\ UNCHANGED <<asked, began>>
           /\ \A d \in Callers \ {c} : /\ answer'[d] = answer[d] /\ seen'[d] = seen[d]
                                       /\ pc'[d] = pc[d]
           /\ \A d \in Callers : Answered(d, "permissions") => Answered(d, "permissions")'
<1>1. pc[c] # "done"
  BY DEF Step, StatForPermissions, Chmod, WriteTime, ReadTime, Resize, FileSize,
         HardLinkCount, StatForEmpty, OpenForEmpty, StatFirst, StatOther, Rename, Space,
         Do, Second
<1>2. (\E a : Finish(c, a)) \/ (\E v : GoOn(c, v))
  BY DEF Step, StatForPermissions, Chmod, WriteTime, ReadTime, Resize, FileSize,
         HardLinkCount, StatForEmpty, OpenForEmpty, StatFirst, StatOther, Rename, Space,
         Fail, Answer
<1>3. /\ UNCHANGED <<asked, began>>
      /\ \A d \in Callers \ {c} : /\ answer'[d] = answer[d] /\ seen'[d] = seen[d]
                                  /\ pc'[d] = pc[d]
  BY <1>2 DEF Finish, GoOn, Shape, TypeOK
<1>4. answer[c].err = "none"
  BY <1>1 DEF Shape, TypeOK
<1> QED BY <1>1, <1>3, <1>4 DEF Answered

\* A status: what it saw is a file's permissions, which are explained.
LEMMA StatusStep ==
    ASSUME Shape, CauseInv, NEW c \in Callers, StatForPermissions(c)
    PROVE  CauseInv'
<1>1. Step(c) /\ UNCHANGED <<mode, entry, renamed>> /\ asked[c].op = "permissions"
  BY DEF Step, StatForPermissions, files, names, Do
<1>2. /\ pc[c] # "done" /\ UNCHANGED <<asked, began>>
      /\ \A d \in Callers \ {c} : seen'[d] = seen[d] /\ pc'[d] = pc[d]
      /\ \A d \in Callers : Answered(d, "permissions") => Answered(d, "permissions")'
  BY <1>1, AnswersStay
<1>3. ASSUME NEW bits, NEW i \in Inodes, Explained(bits, i) PROVE Explained(bits, i)'
  BY <1>1, <1>2, <1>3, ExplainedStays
<1>4. CASE \E e : Fail(c, e)
  <2>1. pc'[c] = "done"
    BY <1>4 DEF Fail, Finish, Shape, TypeOK
  <2> QED BY <1>1, <1>2, <2>1, QuietStep DEF Second
<1>5. CASE ~\E e : Fail(c, e)
  <2> DEFINE link == asked[c].nofollow /\ IsLink(asked[c].at)
  <2>1. /\ ~(ReadsFirst(c) /\ ~link /\ ~Found(c))
        /\ GoOn(c, [type |-> IF link THEN "symlink" ELSE "none",
                    bits |-> IF link THEN Bits
                             ELSE IF ReadsFirst(c) THEN mode[At(c)] ELSE {}])
    BY <1>5 DEF StatForPermissions
  <2>2. /\ seen'[c].type = (IF link THEN "symlink" ELSE "none")
        /\ seen'[c].bits = (IF link THEN Bits
                            ELSE IF ReadsFirst(c) THEN mode[At(c)] ELSE {})
    BY <2>1 DEF GoOn, Shape
  <2>3. ChangesHaveACause'
    <3> SUFFICES ASSUME ~renamed, NEW i \in Inodes PROVE Explained(mode[i], i)'
      BY <1>1 DEF ChangesHaveACause
    <3>1. PICK bits : bits = mode[i]
      OBVIOUS
    <3>2. Explained(bits, i)
      BY <3>1 DEF CauseInv, ChangesHaveACause
    <3>3. Explained(bits, i)'
      BY <1>3, <3>2
    <3> QED BY <1>1, <3>1, <3>3 DEF Explained
  <2>4. LooksExplained'
    <3> SUFFICES ASSUME ~renamed, NEW d \in Callers, Second(d, "permissions")'
                 PROVE  (/\ seen[d].type = "symlink" <=> asked[d].nofollow /\ IsLink(asked[d].at)
                         /\ ReadsFirst(d) /\ seen[d].type # "symlink" =>
                              Found(d) /\ Explained(seen[d].bits, At(d)))'
      BY <1>1 DEF LooksExplained
    <3>0. At(d)' = At(d) /\ (IsLink(asked[d].at)' <=> IsLink(asked[d].at))
      BY <1>1, <1>2 DEF At, Lookup, IsLink
    <3>1. ASSUME NEW bits, bits = seen'[d].bits, Found(d), Explained(bits, At(d))
          PROVE  Explained(seen[d].bits, At(d))'
      <4>1. PICK i \in Inodes : i = At(d)
        BY <3>1 DEF Found
      <4>2. Explained(bits, i)'
        BY <1>3, <3>1, <4>1
      <4> QED BY <3>0, <3>1, <4>1, <4>2 DEF Explained, Blamed, Reaches
    <3>2. CASE d = c
      <4>1. seen'[c].type = "symlink" <=> link
        BY <2>2
      <4>2. ASSUME ReadsFirst(c), ~link PROVE Found(c) /\ Explained(seen[c].bits, At(c))'
        <5>1. Found(c)
          BY <2>1, <4>2
        <5>2. seen'[c].bits = mode[At(c)]
          BY <2>2, <4>2
        <5>3. Explained(mode[At(c)], At(c))
          BY <5>1 DEF CauseInv, ChangesHaveACause, Found
        <5>4. Explained(seen'[c].bits, At(c))
          BY <5>2, <5>3
        <5> QED BY <3>1, <3>2, <5>1, <5>4
      <4>3. ReadsFirst(c)' <=> ReadsFirst(c)
        BY <1>2 DEF ReadsFirst
      <4>4. Found(c)' <=> Found(c)
        BY <3>0, <3>2 DEF Found
      <4> QED BY <1>2, <3>0, <3>2, <4>1, <4>2, <4>3, <4>4
    <3>3. CASE d # c
      <4>1. Second(d, "permissions") /\ seen'[d] = seen[d]
        BY <1>2, <3>3 DEF Second
      <4>2. /\ seen[d].type = "symlink" <=> asked[d].nofollow /\ IsLink(asked[d].at)
            /\ ReadsFirst(d) /\ seen[d].type # "symlink" =>
                 Found(d) /\ Explained(seen[d].bits, At(d))
        BY <4>1 DEF CauseInv, LooksExplained
      <4>3. Found(d) /\ Explained(seen[d].bits, At(d)) => Explained(seen[d].bits, At(d))'
        BY <3>1, <4>1
      <4>4. (ReadsFirst(d)' <=> ReadsFirst(d)) /\ (Found(d)' <=> Found(d))
        BY <1>2, <3>0 DEF ReadsFirst, Found
      <4> QED BY <1>2, <3>0, <4>1, <4>2, <4>3, <4>4
    <3> QED BY <3>2, <3>3
  <2> QED BY <2>3, <2>4 DEF CauseInv
<1> QED BY <1>4, <1>5

\* A chmod that succeeds: what it adds to, or takes from, what it saw is its
\* own wish, and it is the file's own name or a link that was to be followed.
LEMMA ChmodStep ==
    ASSUME Shape, CauseInv, NEW c \in Callers, Chmod(c)
    PROVE  CauseInv'
<1>1. /\ Step(c) /\ UNCHANGED <<entry, renamed>>
      /\ Second(c, "permissions") /\ asked[c].op = "permissions"
  BY DEF Step, Chmod, names, Second
<1>2. /\ pc[c] # "done" /\ UNCHANGED <<asked, began>>
      /\ \A d \in Callers \ {c} : seen'[d] = seen[d] /\ pc'[d] = pc[d]
      /\ \A d \in Callers : Answered(d, "permissions") => Answered(d, "permissions")'
  BY <1>1, AnswersStay
<1>3. pc'[c] = "done"
  BY DEF Chmod, Fail, Answer, Finish, Shape, TypeOK
<1>4. \A d \in Callers : Second(d, "permissions")' =>
        Second(d, "permissions") /\ seen'[d] = seen[d]
  BY <1>2, <1>3 DEF Second
<1>5. CASE mode' = mode
  BY <1>1, <1>2, <1>4, <1>5, QuietStep
<1>6. CASE mode' # mode
  <2> DEFINE at == At(c)
             has == seen[c].bits
  <2>1. /\ at \in Inodes /\ ~(seen[c].type = "symlink" /\ IsLink(asked[c].at))
        /\ mode' = [mode EXCEPT ![at] = Wanted(c, has)]
        /\ answer'[c].err = "ok"
    BY <1>6 DEF Chmod, Found, Answer, Finish, Shape
  <2>2. ASSUME NEW bits, NEW i \in Inodes, Explained(bits, i) PROVE Explained(bits, i)'
    BY <1>1, <1>2, <2>2, ExplainedStays
  <2>3. ASSUME ~renamed, NEW i \in Inodes, i = at, NEW bits, bits = Wanted(c, has)
        PROVE  Explained(bits, i)'
    <3>1. seen[c].type # "symlink" /\ ~(asked[c].nofollow /\ IsLink(asked[c].at))
      BY <1>1, <2>1, <2>3 DEF CauseInv, LooksExplained
    <3>4. at' = i /\ (IsLink(asked[c].at)' <=> IsLink(asked[c].at))
      BY <1>1, <1>2, <2>3 DEF At, Lookup, IsLink
    <3>5. c \in Blamed(i, {asked[c].how})'
      BY <1>1, <1>2, <2>1, <2>3, <3>1, <3>4 DEF Blamed, Answered, Reaches
    <3>6. asked[c].how \in {"add", "remove", "replace"}
      BY <1>1, OperationAssumption DEF Shape
    <3>7. ASSUME asked[c].how # "replace"
          PROVE  /\ has \ began'[i] \subseteq
                      UNION {asked'[d].bits : d \in Blamed(i, {"add", "replace"})'}
                 /\ \A b \in began'[i] \ has : \E d \in Blamed(i, {"remove", "replace"})' :
                      b \in asked'[d].bits <=> asked'[d].how = "remove"
      <4>1. Explained(has, i)
        BY <1>1, <2>3, <3>1, <3>7 DEF CauseInv, LooksExplained, ReadsFirst
      <4>2. PICK h : h = has
        OBVIOUS
      <4>3. Explained(h, i)'
        BY <2>2, <4>1, <4>2
      <4> QED BY <4>2, <4>3 DEF Explained
    <3>8. CASE asked[c].how = "add"
      <4>1. bits = has \cup asked'[c].bits /\ c \in Blamed(i, {"add", "replace"})'
        BY <1>2, <2>3, <3>5, <3>8 DEF Wanted, Blamed
      <4> QED BY <3>7, <3>8, <4>1 DEF Explained
    <3>9. CASE asked[c].how = "remove"
      <4>1. /\ bits = has \ asked'[c].bits /\ asked'[c].how = "remove"
            /\ c \in Blamed(i, {"remove", "replace"})'
        BY <1>2, <2>3, <3>5, <3>9 DEF Wanted, Blamed
      <4> QED BY <3>7, <3>9, <4>1 DEF Explained
    <3>10. CASE asked[c].how = "replace"
      <4>1. /\ bits = asked'[c].bits /\ asked'[c].how = "replace"
            /\ c \in Blamed(i, {"add", "replace"})'
            /\ c \in Blamed(i, {"remove", "replace"})'
        BY <1>2, <2>3, <3>5, <3>10 DEF Wanted, Blamed
      <4> QED BY <4>1 DEF Explained
    <3> QED BY <3>6, <3>8, <3>9, <3>10
  <2>4. ChangesHaveACause'
    <3> SUFFICES ASSUME ~renamed, NEW i \in Inodes PROVE Explained(mode[i], i)'
      BY <1>1 DEF ChangesHaveACause
    <3>1. CASE i = at
      <4>1. PICK bits : bits = Wanted(c, has)
        OBVIOUS
      <4>2. Explained(bits, i)'
        BY <2>3, <3>1, <4>1
      <4>3. mode'[i] = bits
        BY <2>1, <3>1, <4>1 DEF Shape, TypeOK
      <4> QED BY <4>2, <4>3 DEF Explained
    <3>2. CASE i # at
      <4>1. PICK bits : bits = mode[i]
        OBVIOUS
      <4>2. Explained(bits, i)'
        BY <2>2, <4>1 DEF CauseInv, ChangesHaveACause
      <4>3. mode'[i] = bits
        BY <2>1, <3>2, <4>1 DEF Shape, TypeOK
      <4> QED BY <4>2, <4>3 DEF Explained
    <3> QED BY <3>1, <3>2
  <2>5. LooksExplained'
    BY <1>1, <1>2, <1>4, LooksStay
  <2> QED BY <2>4, <2>5 DEF CauseInv
<1> QED BY <1>5, <1>6

\* At first nothing has changed and no call has looked.
LEMMA CauseInit == Init => CauseInv
BY DEF Init, CauseInv, ChangesHaveACause, LooksExplained, Explained, Second

\* Each operation keeps the changes explained.
LEMMA CauseStep == Shape /\ CauseInv /\ [Next]_vars => CauseInv'
<1> SUFFICES ASSUME Shape, CauseInv, [Next]_vars PROVE CauseInv'
  OBVIOUS
<1>0. CASE UNCHANGED vars
  <2>1. UNCHANGED <<asked, began, entry, mode, renamed, pc, seen, answer>>
    BY <1>0 DEF vars, files, names
  <2> QED BY <2>1, QuietStep DEF Answered, Second
<1>1. ASSUME NEW c \in Callers, Step(c) PROVE CauseInv'
  <2>0. /\ pc[c] # "done" /\ UNCHANGED <<asked, began>>
        /\ \A d \in Callers \ {c} : seen'[d] = seen[d] /\ pc'[d] = pc[d]
        /\ \A d \in Callers : Answered(d, "permissions") => Answered(d, "permissions")'
    BY <1>1, AnswersStay
  <2>1. CASE StatForPermissions(c)
    BY <2>1, StatusStep
  <2>2. CASE Chmod(c)
    BY <2>2, ChmodStep
  <2>3. CASE ~StatForPermissions(c) /\ ~Chmod(c)
    <3>1. asked[c].op # "permissions" /\ UNCHANGED mode
      BY <1>1, <2>3 DEF Step, WriteTime, ReadTime, Resize, FileSize, HardLinkCount,
         StatForEmpty, OpenForEmpty, StatFirst, StatOther, Rename, Space, Do, Second, files
    <3>2. \A d \in Callers : Second(d, "permissions")' =>
            Second(d, "permissions") /\ seen'[d] = seen[d]
      BY <2>0, <3>1 DEF Second
    <3>3. CASE UNCHANGED <<entry, renamed>>
      BY <2>0, <3>1, <3>2, <3>3, QuietStep
    <3>4. CASE ~UNCHANGED <<entry, renamed>>
      <4>1. Rename(c)
        BY <1>1, <2>3, <3>4 DEF Step, WriteTime, ReadTime, Resize, FileSize, HardLinkCount,
           StatForEmpty, OpenForEmpty, StatFirst, StatOther, Space, names
      <4>2. renamed'
        BY <3>4, <4>1 DEF Rename, names, Shape, TypeOK
      <4> QED BY <4>2 DEF CauseInv, ChangesHaveACause, LooksExplained
    <3> QED BY <3>3, <3>4
  <2> QED BY <2>1, <2>2, <2>3
<1> QED BY <1>0, <1>1 DEF Next

\* However many calls of permissions race on however many names, no file
\* gains or loses a permission nobody asked for, and the target of a link
\* that was not to be followed keeps its own.
THEOREM ChangesAlwaysHaveACause == Spec => []ChangesHaveACause
<1>1. CauseInv => ChangesHaveACause
  BY DEF CauseInv
<1> QED BY <1>1, ShapeInit, ShapeStep, CauseInit, CauseStep, PTL DEF Spec

-----------------------------------------------------------------------------
(* Answers of the queries that look twice.                                 *)

\* A step answers only for the call that takes it, and with its own operation.
LEMMA OneAnswers ==
    ASSUME Shape, [Next]_vars, NEW c \in Callers, answer'[c] # answer[c]
    PROVE  Step(c) /\ pc[c] # "done" /\ answer[c].err = "none"
<1>1. CASE UNCHANGED vars
  BY <1>1 DEF vars
<1>2. ASSUME NEW d \in Callers, Step(d) PROVE Step(c) /\ pc[c] # "done"
  BY <1>2, AnswersStay
<1> QED BY <1>1, <1>2 DEF Next, Shape, TypeOK

\* No operation changes what is asked.
LEMMA AskedStays ==
    ASSUME Shape, [Next]_vars
    PROVE  UNCHANGED asked
<1>1. CASE UNCHANGED vars
  BY <1>1 DEF vars
<1>2. ASSUME NEW d \in Callers, Step(d) PROVE UNCHANGED asked
  BY <1>2, AnswersStay
<1> QED BY <1>1, <1>2 DEF Next

\* The call that answers whether something is empty looks at it in that step,
\* or finds that it is no longer a directory and fails.
LEMMA EmptyAnswer ==
    ASSUME Shape, NEW c \in Callers, Step(c), asked[c].op = "is_empty",
           pc[c] # "done", answer'[c].err = "ok"
    PROVE  answer'[c].value <=> Found(c) /\ size[At(c)] = 0
<1>1. StatForEmpty(c) \/ OpenForEmpty(c)
  BY DEF Step, StatForPermissions, Chmod, WriteTime, ReadTime, Resize, FileSize,
         HardLinkCount, StatFirst, StatOther, Rename, Space, Do, Second
<1>2. ASSUME NEW e, Fail(c, e) PROVE e = "ok"
  BY <1>2 DEF Fail, Finish, Shape
<1>3. ASSUME NEW v, Answer(c, v) PROVE answer'[c].value = v
  BY <1>3 DEF Answer, Finish, Shape
<1>4. answer[c].err # "ok"
  BY DEF Shape, TypeOK
<1>5. ASSUME NEW v, GoOn(c, v) PROVE FALSE
  BY <1>4, <1>5 DEF GoOn
<1>6. Found(c) \/ At(c) # "ok"
  BY LookupType DEF At, Found
<1>7. CASE StatForEmpty(c)
  BY <1>2, <1>3, <1>5, <1>6, <1>7 DEF StatForEmpty
<1>8. CASE OpenForEmpty(c)
  BY <1>2, <1>3, <1>6, <1>8 DEF OpenForEmpty
<1> QED BY <1>1, <1>7, <1>8

\* When is_empty answers it is true of what has the name at that moment, for
\* any number of calls that rename and resize between its two looks.
THEOREM EmptyAnswersAreTrue == Spec => EmptyIsTrueThen
<1> DEFINE True == \A c \in Callers :
                     (pc[c] # "done" /\ Answered(c, "is_empty")') =>
                       (answer'[c].value <=> Found(c) /\ size[At(c)] = 0)
<1>1. Shape /\ [Next]_vars => [True]_vars
  <2> SUFFICES ASSUME Shape, [Next]_vars, NEW c \in Callers,
                      pc[c] # "done", Answered(c, "is_empty")'
               PROVE  answer'[c].value <=> Found(c) /\ size[At(c)] = 0
    OBVIOUS
  <2>1. answer'[c] # answer[c]
    BY DEF Answered, Shape, TypeOK
  <2>2. Step(c) /\ asked[c].op = "is_empty" /\ answer'[c].err = "ok"
    BY <2>1, OneAnswers, AskedStays DEF Answered
  <2> QED BY <2>2, EmptyAnswer
<1> QED BY <1>1, ShapeInit, ShapeStep, PTL DEF Spec, EmptyIsTrueThen

\* What the first look of equivalent has noted is still what the name leads
\* to.
FirstLook == ~renamed => \A c \in Callers : Second(c, "equivalent") => seen[c] = At(c)

\* A name that is changed is noted: else the lookups are the same.
LEMMA NamesStay ==
    ASSUME Shape, [Next]_vars, ~renamed'
    PROVE  ~renamed /\ UNCHANGED entry /\ \A name : Lookup(name)' = Lookup(name)
<1>1. UNCHANGED <<entry, renamed>>
  <2>1. CASE UNCHANGED vars
    BY <2>1 DEF vars, names
  <2>2. ASSUME NEW c \in Callers, Rename(c) PROVE UNCHANGED <<entry, renamed>>
    BY <2>2 DEF Rename, names, Shape, TypeOK
  <2>3. ASSUME NEW c \in Callers, Step(c), ~Rename(c) PROVE UNCHANGED <<entry, renamed>>
    BY <2>3 DEF Step, StatForPermissions, Chmod, WriteTime, ReadTime, Resize, FileSize,
           HardLinkCount, StatForEmpty, OpenForEmpty, StatFirst, StatOther, Space, names
  <2> QED BY <2>1, <2>2, <2>3 DEF Next
<1> QED BY <1>1 DEF Lookup

LEMMA LookStep == Shape /\ FirstLook /\ [Next]_vars => FirstLook'
<1> SUFFICES ASSUME Shape, FirstLook, [Next]_vars, ~renamed',
                    NEW c \in Callers, Second(c, "equivalent")'
             PROVE  seen'[c] = At(c)'
  BY DEF FirstLook
<1>1. ~renamed /\ UNCHANGED asked /\ At(c)' = At(c)
  BY NamesStay, AskedStays DEF At
<1>2. CASE seen'[c] = seen[c] /\ pc'[c] = pc[c]
  BY <1>1, <1>2 DEF FirstLook, Second
<1>3. CASE ~(seen'[c] = seen[c] /\ pc'[c] = pc[c])
  <2>1. Step(c)
    <3>1. CASE UNCHANGED vars
      BY <1>3, <3>1 DEF vars
    <3>2. ASSUME NEW d \in Callers, Step(d) PROVE d = c
      BY <1>3, <3>2, AnswersStay
    <3> QED BY <3>1, <3>2 DEF Next
  <2>2. asked[c].op = "equivalent" /\ pc'[c] = "second"
    BY <1>1 DEF Second
  <2>3. \A a : ~Finish(c, a)
    BY <2>2 DEF Finish, Shape, TypeOK
  <2>4. StatFirst(c)
    BY <2>1, <2>2, <2>3 DEF Step, StatForPermissions, Chmod, WriteTime, ReadTime, Resize,
       FileSize, HardLinkCount, StatForEmpty, OpenForEmpty, StatOther, Rename, Space,
       Do, Second, Fail, Answer
  <2>5. GoOn(c, At(c))
    BY <2>3, <2>4 DEF StatFirst, Fail
  <2> QED BY <1>1, <2>5 DEF GoOn, Shape
<1> QED BY <1>2, <1>3

\* The time that is read is one the file was given.
LEMMA ReadAnswer ==
    ASSUME Shape, TimesKept, NEW c \in Callers, Step(c), asked[c].op = "read_time",
           answer'[c].err = "ok", pc[c] # "done"
    PROVE  /\ UNCHANGED wrote
           /\ wrote[At(c)] \subseteq FileTimes => answer'[c].value \in wrote[At(c)]
<1>1. ReadTime(c)
  BY DEF Step, StatForPermissions, Chmod, WriteTime, Resize, FileSize, HardLinkCount,
         StatForEmpty, OpenForEmpty, StatFirst, StatOther, Rename, Space, Do, Second
<1>2. Found(c)
  <2>1. At(c) # "ok" \/ Found(c)
    BY LookupType DEF At, Found
  <2> QED BY <1>1, <2>1 DEF ReadTime, Fail, Finish, Shape
<1>3. FileTime(time[At(c)]) \in wrote[At(c)]
  BY <1>2 DEF Found, TimesKept, TimesReadBack
<1>4. PICK v \in IF FileTime(time[At(c)]) \in FileTimes
                 THEN {FileTime(time[At(c)])} ELSE FileTimes : Answer(c, v)
  BY <1>1, <1>2 DEF ReadTime
<1>5. answer'[c].value = v
  BY <1>4 DEF Answer, Finish, Shape
<1> QED BY <1>1, <1>3, <1>4, <1>5 DEF ReadTime

\* Times that were given stay given.
LEMMA WroteGrows ==
    ASSUME Shape, TimesKept, [Next]_vars, NEW i \in Inodes
    PROVE  wrote[i] \subseteq wrote'[i]
<1>1. CASE UNCHANGED vars
  BY <1>1 DEF vars
<1>2. ASSUME NEW d \in Callers, WriteTime(d) PROVE wrote[i] \subseteq wrote'[i]
  BY <1>2 DEF WriteTime, TimesKept
<1>3. ASSUME NEW d \in Callers, Step(d), ~WriteTime(d) PROVE UNCHANGED wrote
  BY <1>3 DEF Step, StatForPermissions, Chmod, ReadTime, Resize, FileSize, HardLinkCount,
              StatForEmpty, OpenForEmpty, StatFirst, StatOther, Rename, Space
<1> QED BY <1>1, <1>2, <1>3 DEF Next

\* A call that read a time found a file.
Read == ~renamed => \A c \in Callers : Answered(c, "read_time") => Found(c)
QuietInv == FirstLook /\ Read /\ QuietAnswers

LEMMA QuietAnswersStep ==
    Shape /\ TimesKept /\ QuietInv /\ [Next]_vars => QuietInv'
<1> SUFFICES ASSUME Shape, TimesKept, QuietInv, [Next]_vars PROVE QuietInv'
  OBVIOUS
<1>1. FirstLook'
  BY LookStep DEF QuietInv
<1>2. ASSUME ~renamed', NEW c \in Callers, Answered(c, "read_time")'
      PROVE  /\ Found(c)'
             /\ (wrote[At(c)] \subseteq FileTimes => answer[c].value \in wrote[At(c)])'
  <2>1. ~renamed /\ UNCHANGED asked /\ At(c)' = At(c)
    BY <1>2, NamesStay, AskedStays DEF At
  <2>2. CASE answer'[c] = answer[c]
    <3>1. /\ Found(c)
          /\ wrote[At(c)] \subseteq FileTimes => answer[c].value \in wrote[At(c)]
      BY <1>2, <2>1, <2>2 DEF QuietInv, QuietAnswers, Read, Answered
    <3>2. wrote[At(c)] \subseteq wrote'[At(c)]
      BY <3>1, WroteGrows DEF Found
    <3> QED BY <2>1, <2>2, <3>1, <3>2 DEF Found
  <2>3. CASE answer'[c] # answer[c]
    <3>1. Step(c) /\ pc[c] # "done" /\ asked[c].op = "read_time" /\ answer'[c].err = "ok"
      BY <1>2, <2>1, <2>3, OneAnswers DEF Answered
    <3>2. /\ UNCHANGED wrote
          /\ wrote[At(c)] \subseteq FileTimes => answer'[c].value \in wrote[At(c)]
      BY <3>1, ReadAnswer
    <3>3. Found(c)
      <4>1. ReadTime(c)
        BY <3>1 DEF Step, StatForPermissions, Chmod, WriteTime, Resize, FileSize,
           HardLinkCount, StatForEmpty, OpenForEmpty, StatFirst, StatOther, Rename, Space,
           Do, Second
      <4>2. At(c) # "ok" \/ Found(c)
        BY LookupType DEF At, Found
      <4> QED BY <3>1, <4>1, <4>2 DEF ReadTime, Fail, Finish, Shape
    <3> QED BY <2>1, <3>2, <3>3 DEF Found
  <2> QED BY <2>2, <2>3
<1>3. ASSUME ~renamed', NEW c \in Callers, Answered(c, "equivalent")'
      PROVE  (answer[c].value <=> At(c) = Lookup(asked[c].other))'
  <2>1. /\ ~renamed /\ UNCHANGED asked /\ At(c)' = At(c)
        /\ Lookup(asked[c].other)' = Lookup(asked[c].other)
    <3>1. ~renamed /\ UNCHANGED <<asked, entry>>
      BY <1>3, NamesStay, AskedStays
    <3> QED BY <3>1 DEF At, Lookup
  <2>2. CASE answer'[c] = answer[c]
    BY <1>3, <2>1, <2>2 DEF QuietInv, QuietAnswers, Answered
  <2>3. CASE answer'[c] # answer[c]
    <3>1. Step(c) /\ pc[c] # "done" /\ asked[c].op = "equivalent" /\ answer'[c].err = "ok"
          /\ answer[c].err = "none"
      BY <1>3, <2>1, <2>3, OneAnswers DEF Answered
    <3>2. StatFirst(c) \/ StatOther(c)
      BY <3>1 DEF Step, StatForPermissions, Chmod, WriteTime, ReadTime, Resize, FileSize,
         HardLinkCount, StatForEmpty, OpenForEmpty, Rename, Space, Do, Second
    <3>3. ~StatFirst(c)
      BY <3>1 DEF StatFirst, GoOn, Fail, Finish, Shape
    <3>4. StatOther(c) /\ Second(c, "equivalent")
      BY <3>2, <3>3 DEF StatOther
    <3>5. /\ Lookup(asked[c].other) \in Inodes
          /\ Answer(c, Lookup(asked[c].other) = seen[c])
      BY <3>1, <3>4 DEF StatOther, Fail, Finish, Shape
    <3>6. answer'[c].value = (Lookup(asked[c].other) = seen[c])
      BY <3>5 DEF Answer, Finish, Shape
    <3>7. seen[c] = At(c)
      BY <2>1, <3>4 DEF QuietInv, FirstLook
    <3> QED BY <2>1, <3>6, <3>7
  <2> QED BY <2>2, <2>3
<1> QED BY <1>1, <1>2, <1>3 DEF QuietInv, QuietAnswers, Read

\* While no name changes, a time that is read is one the file was given, and
\* two names are equivalent when they lead to one file, for any links, clock
\* and number of calls.
THEOREM QuietAnswersAreRight == Spec => []QuietAnswers
<1>1. Init => QuietInv
  BY DEF Init, QuietInv, QuietAnswers, FirstLook, Read, Answered, Second
<1>2. QuietInv => QuietAnswers
  BY DEF QuietInv
<1> QED BY <1>1, <1>2, ShapeInit, ShapeStep, TimesInit, TimesStep, QuietAnswersStep, PTL
    DEF Spec
=============================================================================
