--------------------------- MODULE RemoveAllProofs ---------------------------
(***************************************************************************)
(* Proofs about RemoveAll for every tree, any number of calls and whatever *)
(* other programs do, in five parts with an invariant each:                *)
(*   - types, and that no path outside the tree is removed: every frame of *)
(*     every call works on a node of the tree and has only entries of that *)
(*     node left to recurse into;                                          *)
(*   - nor one behind a link, but one the call took for a directory and    *)
(*     reads: a stack leads down through what it reads;                    *)
(*   - calls that race report no error: the entries that are still there   *)
(*     are known to the stack, so it never meets a directory that is not   *)
(*     empty;                                                              *)
(*   - an error means that the root remains;                               *)
(*   - a call that is alone removes everything and counts it exactly: the  *)
(*     counts of its frames are shares, disjoint, of what it has removed.  *)
(***************************************************************************)
EXTENDS RemoveAll, SequenceTheorems, FiniteSetTheorems, TLAPS

(* The bounds of uintmax_t.                                                *)
LEMMA Counts ==
  /\ 0 \in 0..npos /\ 1 \in 0..npos /\ npos \in 0..npos
  /\ \A a, b \in 0..npos : Plus(a, b) \in 0..npos
BY ModulusAssumption DEF npos, Plus

(* A frame works inside the tree and on the entries of its own directory.  *)
SafeFrame(f) ==
  /\ f \in Frames
  /\ f.path \in Inside
  /\ f.left \subseteq Children(f.path)
  /\ f.at \in {"open", "scan"} => Kind[f.path] = "directory"

SafeStack(s) ==
  /\ s \in Seq(Frames)
  /\ \A i \in 1..Len(s) : SafeFrame(s[i])

(* A new frame is safe for a node of the tree.                             *)
LEMMA NewFrame ==
  ASSUME NEW n \in Inside
  PROVE  SafeFrame(Frame(n))
BY InsideAssumption, Counts DEF SafeFrame, Frame, Frames

(* The entries of a directory of the tree are in the tree.                 *)
LEMMA ChildrenInside ==
  ASSUME NEW n \in Inside, Kind[n] = "directory"
  PROVE  Children(n) \subseteq Inside
BY InsideAssumption DEF Children

(* The four things that happen to a stack keep it safe.                    *)
LEMMA Replace ==
  ASSUME NEW s, SafeStack(s), s # << >>, NEW g, SafeFrame(g)
  PROVE  LET t == [s EXCEPT ![Len(s)] = g] IN
         /\ SafeStack(t) /\ Len(t) = Len(s) /\ t[Len(s)] = g
         /\ \A i \in 1..Len(s) : i # Len(s) => t[i] = s[i]
BY DEF SafeStack, SafeFrame

(* A recursive call appends a frame and leaves the others alone.           *)
LEMMA Push ==
  ASSUME NEW s, SafeStack(s), NEW g, SafeFrame(g)
  PROVE  LET t == Append(s, g) IN
         /\ SafeStack(t) /\ Len(t) = Len(s) + 1 /\ t[Len(t)] = g
         /\ \A i \in 1..Len(s) : t[i] = s[i]
BY DEF SafeStack, SafeFrame

(* The innermost call returns: the next frame takes the count.             *)
LEMMA PopInner ==
  ASSUME NEW s, SafeStack(s), Len(s) > 1, NEW k \in 0..npos
  PROVE  LET outer == SubSeq(s, 1, Len(s) - 1)
             t == [outer EXCEPT ![Len(outer)].count = k]
         IN /\ SafeStack(t) /\ Len(t) = Len(s) - 1
            /\ t[Len(t)] = [s[Len(t)] EXCEPT !.count = k]
            /\ \A i \in 1..Len(t) : i # Len(t) => t[i] = s[i]
<1> DEFINE n == Len(s) - 1
           outer == SubSeq(s, 1, n)
           g == [s[n] EXCEPT !.count = k]
<1>1. s \in Seq(Frames) /\ Len(s) \in Nat /\ n \in 1..Len(s) /\ SafeFrame(s[n])
  BY DEF SafeStack
<1>2. SafeFrame(g)
  BY <1>1 DEF SafeFrame, Frames
<1>3. outer \in Seq(Frames) /\ Len(outer) = n /\ \A i \in 1..n : outer[i] = s[i]
  <2>1. 1 \in 1..Len(s) + 1 /\ n \in 0..Len(s)
    BY <1>1
  <2>2. \A i \in 1..n : i \in 1..n - 1 + 1 /\ 1 + i - 1 = i
    BY <1>1
  <2>3. n - 1 + 1 = n /\ 1 <= n + 1
    BY <1>1
  <2> HIDE DEF n
  <2> QED BY <1>1, <2>1, <2>2, <2>3, SubSeqProperties
<1>4. SafeStack(outer) /\ outer # << >>
  <2>1. \A i \in 1..n : SafeFrame(s[i])
    BY <1>1 DEF SafeStack
  <2>2. \A i \in 1..n : SafeFrame(outer[i])
    BY <1>3, <2>1
  <2>3. n > 0
    BY <1>1
  <2> HIDE DEF n, outer
  <2> QED BY <1>3, <2>2, <2>3 DEF SafeStack
<1>5. [outer EXCEPT ![Len(outer)].count = k] = [outer EXCEPT ![Len(outer)] = g]
  <2>1. outer[Len(outer)] = s[n]
    BY <1>1, <1>3
  <2> QED BY <2>1
<1> HIDE DEF outer, g
<1>6. LET t == [outer EXCEPT ![Len(outer)] = g] IN
      /\ SafeStack(t) /\ Len(t) = Len(outer) /\ t[Len(outer)] = g
      /\ \A i \in 1..Len(outer) : i # Len(outer) => t[i] = outer[i]
  BY <1>2, <1>4, Replace
<1> QED BY <1>3, <1>5, <1>6, <1>1 DEF outer, g

-----------------------------------------------------------------------------
(* No call has removed anything but paths of the tree.                     *)
RemovedInside == \A c \in Calls : removed[c] \subseteq Inside

(* Where nothing has become a link, paths are what Kind says.              *)
LEMMA Unswapped ==
  ASSUME TypeOK, swapped = {}
  PROVE  /\ \A n : IsDirectory(n) <=> Kind[n] = "directory"
         /\ \A n : Lost(n) = {n}
         /\ \A c \in Calls : caught[c] = {}
BY DEF TypeOK, IsDirectory, Lost

(* The inductive invariant.                                                *)
Safe ==
  /\ TypeOK
  /\ \A c \in Calls : SafeStack(frames[c])
  /\ RemovedInside

(* Calls that have just begun are safe.                                    *)
LEMMA InitSafe == Init => Safe
<1> SUFFICES ASSUME Init PROVE Safe
  OBVIOUS
<1>1. SafeFrame(Frame(Root))
  BY NewFrame, InsideAssumption
<1>2. \A c \in Calls : SafeStack(frames[c])
  BY <1>1 DEF Init, SafeStack, SafeFrame
<1>3. TypeOK
  <2>1. frames \in [Calls -> Seq(Frames)]
    BY <1>1 DEF Init, SafeFrame
  <2>2. result \in [Calls -> [done : BOOLEAN, count : 0..npos, err : Errors]]
    BY Counts DEF Init, Errors
  <2>3. removed \in [Calls -> SUBSET Nodes]
    BY DEF Init
  <2>4. /\ present \subseteq Nodes /\ created \subseteq Late
        /\ locked \subseteq Nodes /\ closed \subseteq Nodes
        /\ swapped \subseteq Replaceable /\ caught \in [Calls -> SUBSET swapped]
    BY OthersAssumption DEF Init
  <2> QED BY <2>1, <2>2, <2>3, <2>4 DEF TypeOK
<1>4. RemovedInside
  BY DEF Init, RemovedInside
<1> QED BY <1>2, <1>3, <1>4 DEF Safe

(* What a step of a call may do to the frames and the result.              *)
LEMMA FinishSafe ==
  ASSUME Safe, NEW c \in Calls, NEW k \in 0..npos, NEW e \in Errors,
         Finish(c, k, e)
  PROVE  /\ frames' \in [Calls -> Seq(Frames)]
         /\ result' \in [Calls -> [done : BOOLEAN, count : 0..npos, err : Errors]]
         /\ \A d \in Calls : SafeStack(frames'[d])
         /\ frames'[c] = << >>
         /\ \A d \in Calls : d # c => frames'[d] = frames[d] /\ result'[d] = result[d]
         /\ result'[c].err = e
<1>1. SafeStack(<< >>)
  BY DEF SafeStack
<1>2. << >> \in Seq(Frames)
  OBVIOUS
<1> QED BY <1>1, <1>2 DEF Safe, TypeOK, Finish

(* An error, ENOENT or another, leaves every level.                        *)
LEMMA FailSafe ==
  ASSUME Safe, NEW c \in Calls, NEW e \in Errors, Fail(c, e)
  PROVE  /\ frames' \in [Calls -> Seq(Frames)]
         /\ result' \in [Calls -> [done : BOOLEAN, count : 0..npos, err : Errors]]
         /\ \A d \in Calls : SafeStack(frames'[d])
         /\ frames'[c] = << >>
         /\ \A d \in Calls : d # c => frames'[d] = frames[d] /\ result'[d] = result[d]
         /\ result'[c].err = (IF e = "ENOENT" THEN "ok" ELSE e)
<1>1. "ok" \in Errors
  BY DEF Errors
<1> QED BY <1>1, Counts, FinishSafe DEF Fail

(* The top frame becomes g.                                                *)
LEMMA TopBecomes ==
  ASSUME Safe, NEW c \in Calls, frames[c] # << >>, NEW g, SafeFrame(g),
         frames' = [frames EXCEPT ![c] = [@ EXCEPT ![Depth(c)] = g]]
  PROVE  /\ frames' \in [Calls -> Seq(Frames)]
         /\ \A d \in Calls : SafeStack(frames'[d])
         /\ Len(frames'[c]) = Depth(c)
         /\ frames'[c][Depth(c)] = g
         /\ \A i \in 1..Depth(c) : i # Depth(c) => frames'[c][i] = frames[c][i]
         /\ \A d \in Calls : d # c => frames'[d] = frames[d]
<1> DEFINE t == [frames[c] EXCEPT ![Len(frames[c])] = g]
<1>1. frames' = [frames EXCEPT ![c] = t] /\ frames \in [Calls -> Seq(Frames)]
  BY DEF Depth, Safe, TypeOK
<1>2. SafeStack(frames[c])
  BY DEF Safe
<1>3. /\ SafeStack(t) /\ Len(t) = Len(frames[c]) /\ t[Len(frames[c])] = g
      /\ \A i \in 1..Len(frames[c]) : i # Len(frames[c]) => t[i] = frames[c][i]
  BY <1>2, Replace
<1>4. frames'[c] = t /\ \A d \in Calls : d # c => frames'[d] = frames[d]
  BY <1>1
<1>5. t \in Seq(Frames)
  BY <1>3 DEF SafeStack
<1>6. frames' \in [Calls -> Seq(Frames)]
  BY <1>1, <1>5
<1> HIDE DEF t
<1> QED BY <1>3, <1>4, <1>6 DEF Safe, Depth

(* A call whose top frame is at one of the steps.                          *)
LEMMA TopIsSafe ==
  ASSUME Safe, NEW c \in Calls, frames[c] # << >>
  PROVE  /\ SafeFrame(Top(c)) /\ SafeStack(frames[c])
         /\ Depth(c) \in Nat /\ Depth(c) > 0
<1>1. SafeStack(frames[c])
  BY DEF Safe
<1> QED BY <1>1 DEF SafeStack, Top, Depth

(* A top frame that only moves on to another step.                         *)
LEMMA GoToSafe ==
  ASSUME Safe, NEW c \in Calls, frames[c] # << >>,
         NEW step \in {"stat", "open", "scan", "unlink"},
         step \in {"open", "scan"} => Kind[Top(c).path] = "directory",
         GoTo(c, step)
  PROVE  /\ frames' \in [Calls -> Seq(Frames)]
         /\ \A d \in Calls : SafeStack(frames'[d])
<1> DEFINE g == [Top(c) EXCEPT !.at = step]
<1>1. SafeFrame(Top(c))
  BY TopIsSafe
<1>2. SafeFrame(g)
  BY <1>1 DEF SafeFrame, Frames
<1>3. frames \in [Calls -> Seq(Frames)]
  BY DEF Safe, TypeOK
<1>4. frames' = [frames EXCEPT ![c] = [@ EXCEPT ![Depth(c)] = g]]
  BY <1>3 DEF GoTo, Top, Depth
<1> HIDE DEF g
<1> QED BY <1>2, <1>4, TopBecomes

(* A link is never opened, so what it points to is not read.               *)
LEMMA SymLinkStatusSafe ==
  ASSUME Safe, NEW c \in Calls, SymLinkStatus(c)
  PROVE  Safe'
<1>1. SafeFrame(Top(c)) /\ frames[c] # << >>
  BY TopIsSafe DEF SymLinkStatus, At
<1>2. CASE Top(c).path \notin present
  <2>1. Fail(c, "ENOENT") /\ "ENOENT" \in Errors
    BY <1>2 DEF SymLinkStatus, Errors
  <2> QED BY <2>1, FailSafe DEF SymLinkStatus, Safe, TypeOK, RemovedInside, others
<1>3. CASE Top(c).path \in present
  <2> DEFINE step == IF IsDirectory(Top(c).path) THEN "open" ELSE "unlink"
  <2>1. GoTo(c, step) /\ UNCHANGED result
    BY <1>3 DEF SymLinkStatus
  <2>2. /\ step \in {"stat", "open", "scan", "unlink"}
        /\ step \in {"open", "scan"} => Kind[Top(c).path] = "directory"
    BY DEF IsDirectory
  <2> HIDE DEF step
  <2>3. /\ frames' \in [Calls -> Seq(Frames)]
        /\ \A d \in Calls : SafeStack(frames'[d])
    BY <1>1, <2>1, <2>2, GoToSafe
  <2> QED BY <2>1, <2>3 DEF SymLinkStatus, Safe, TypeOK, RemovedInside, others
<1> QED BY <1>2, <1>3

(* What a directory is read to have is its own entries.                    *)
LEMMA OpenDirectorySafe ==
  ASSUME Safe, NEW c \in Calls, OpenDirectory(c)
  PROVE  Safe'
<1>1. SafeFrame(Top(c)) /\ frames[c] # << >> /\ Top(c).at = "open"
  BY TopIsSafe DEF OpenDirectory, At
<1>2. CASE \E e \in {"ENOENT", "EACCES"} : Fail(c, e)
  <2>1. PICK e \in {"ENOENT", "EACCES"} : Fail(c, e)
    BY <1>2
  <2>2. e \in Errors
    BY DEF Errors
  <2> QED BY <2>1, <2>2, FailSafe
          DEF OpenDirectory, Safe, TypeOK, RemovedInside, others
<1>3. CASE ~\E e \in {"ENOENT", "EACCES"} : Fail(c, e)
  <2>0. PICK later \in SUBSET (Children(Top(c).path) \cap (Late \ created)) :
          frames' = [frames EXCEPT ![c][Depth(c)] =
            [Top(c) EXCEPT !.at = "scan",
                           !.left = (Children(Top(c).path) \cap present)
                                      \cup later]]
    BY <1>3 DEF OpenDirectory, Scan
  <2> DEFINE g == [Top(c) EXCEPT !.at = "scan",
                                 !.left = (Children(Top(c).path) \cap present)
                                            \cup later]
  <2>1. /\ frames' = [frames EXCEPT ![c][Depth(c)] = g]
        /\ UNCHANGED result
    BY <1>3, <2>0 DEF OpenDirectory
  <2>2. SafeFrame(g)
    BY <1>1 DEF SafeFrame, Frames, Children
  <2>3. frames' = [frames EXCEPT ![c] = [@ EXCEPT ![Depth(c)] = g]]
    BY <2>1
  <2> HIDE DEF g
  <2>4. /\ frames' \in [Calls -> Seq(Frames)]
        /\ \A d \in Calls : SafeStack(frames'[d])
    BY <1>1, <2>2, <2>3, TopBecomes
  <2> QED BY <2>1, <2>4 DEF OpenDirectory, Safe, TypeOK, RemovedInside, others
<1> QED BY <1>2, <1>3

(* The recursion goes to an entry of the directory, in the tree with it.   *)
LEMMA NextEntrySafe ==
  ASSUME Safe, NEW c \in Calls, NextEntry(c)
  PROVE  Safe'
<1>1. /\ SafeFrame(Top(c)) /\ SafeStack(frames[c])
      /\ frames[c] # << >> /\ Top(c).at = "scan"
  BY TopIsSafe DEF NextEntry, At
<1>2. PICK n \in Top(c).left \ (Late \ created) :
        frames' = [frames EXCEPT ![c] =
          Append([frames[c] EXCEPT ![Depth(c)].left = @ \ {n}], Frame(n))]
  BY DEF NextEntry
<1>3. n \in Inside
  BY <1>1, ChildrenInside DEF SafeFrame
<1> DEFINE g == [Top(c) EXCEPT !.left = @ \ {n}]
           s == [frames[c] EXCEPT ![Len(frames[c])] = g]
           t == Append(s, Frame(n))
<1>4. SafeFrame(g)
  BY <1>1 DEF SafeFrame, Frames
<1>5. frames' = [frames EXCEPT ![c] = t]
  BY <1>2 DEF Top, Depth
<1> HIDE DEF g
<1>6. SafeStack(s)
  BY <1>1, <1>4, Replace
<1> HIDE DEF s
<1>7. SafeStack(t)
  BY <1>3, <1>6, NewFrame, Push
<1>8. t \in Seq(Frames)
  BY <1>7 DEF SafeStack
<1> HIDE DEF t
<1>9. /\ frames' \in [Calls -> Seq(Frames)]
      /\ \A d \in Calls : SafeStack(frames'[d])
  BY <1>5, <1>7, <1>8 DEF Safe, TypeOK
<1> QED BY <1>9 DEF NextEntry, Safe, TypeOK, RemovedInside, others

(* A directory that has been read is unlinked, or its reading has failed.  *)
LEMMA EndOfDirectorySafe ==
  ASSUME Safe, NEW c \in Calls, EndOfDirectory(c)
  PROVE  Safe'
<1>1. frames[c] # << >>
  BY DEF EndOfDirectory, At
<1>2. CASE GoTo(c, "unlink") /\ UNCHANGED result
  <2>1. /\ frames' \in [Calls -> Seq(Frames)]
        /\ \A d \in Calls : SafeStack(frames'[d])
    BY <1>1, <1>2, GoToSafe
  <2> QED BY <1>2, <2>1 DEF EndOfDirectory, Safe, TypeOK, RemovedInside, others
<1>3. CASE Fail(c, "EIO")
  <2>1. "EIO" \in Errors
    BY DEF Errors
  <2> QED BY <1>3, <2>1, FailSafe
          DEF EndOfDirectory, Safe, TypeOK, RemovedInside, others
<1> QED BY <1>2, <1>3 DEF EndOfDirectory

(* do_remove_all_impl returns to its caller or to the user.                *)
LEMMA ReturnSafe ==
  ASSUME Safe, NEW c \in Calls, frames[c] # << >>, NEW k \in 0..npos,
         Return(c, k)
  PROVE  /\ frames' \in [Calls -> Seq(Frames)]
         /\ result' \in [Calls -> [done : BOOLEAN, count : 0..npos, err : Errors]]
         /\ \A d \in Calls : SafeStack(frames'[d])
<1>1. SafeStack(frames[c]) /\ Depth(c) \in Nat /\ Depth(c) > 0
  BY TopIsSafe
<1>2. CASE Depth(c) = 1
  <2>1. Finish(c, k, "ok") /\ "ok" \in Errors
    BY <1>2 DEF Return, Errors
  <2> QED BY <2>1, FinishSafe
<1>3. CASE Depth(c) # 1
  <2> DEFINE s == frames[c]
             outer == SubSeq(s, 1, Len(s) - 1)
             sum == Plus(outer[Len(outer)].count, k)
             t == [outer EXCEPT ![Len(outer)].count = sum]
  <2>1. /\ frames' = [frames EXCEPT ![c] = t]
        /\ UNCHANGED result
    BY <1>3 DEF Return, Depth
  <2>2. Len(s) \in Nat /\ Len(s) > 1
    <3>1. Len(s) = Depth(c)
      BY DEF Depth
    <3> HIDE DEF s
    <3> QED BY <1>1, <1>3, <3>1
  <2>3. SafeStack(s)
    BY <1>1
  <2>4. sum \in 0..npos
    <3>1. /\ Len(s) \in Nat /\ Len(s) - 1 \in 1..Len(s)
          /\ \A i \in 1..Len(s) : s[i] \in Frames
      <4>1. Len(s) \in Nat /\ Len(s) - 1 \in 1..Len(s)
        BY <2>2
      <4>2. \A i \in 1..Len(s) : s[i] \in Frames
        BY <2>3 DEF SafeStack, SafeFrame
      <4> QED BY <4>1, <4>2
    <3>2. /\ Len(outer) = Len(s) - 1
          /\ outer[Len(s) - 1] = s[Len(s) - 1]
      <4>1. \A i \in 1..Len(s) - 1 : s[i] \in Frames
        BY <3>1
      <4> QED BY <3>1, <4>1, SubSeqProperties
    <3>3. outer[Len(outer)].count \in 0..npos
      BY <3>1, <3>2 DEF Frames
    <3> QED BY <3>3, Counts
  <2> HIDE DEF sum, s
  <2>5. SafeStack(t)
    BY <2>2, <2>3, <2>4, PopInner
  <2>6. t \in Seq(Frames)
    BY <2>5 DEF SafeStack
  <2> HIDE DEF t
  <2> QED BY <2>1, <2>6, <2>5 DEF Safe, TypeOK
<1> QED BY <1>2, <1>3

(* What is unlinked is the path of a frame, in the tree.                   *)
LEMMA UnlinkSafe ==
  ASSUME Safe, NEW c \in Calls, Unlink(c)
  PROVE  Safe'
<1>1. SafeFrame(Top(c)) /\ frames[c] # << >>
  BY TopIsSafe DEF Unlink, At
<1>2. CASE Return(c, npos) /\ UNCHANGED <<present, removed>>
  <2>1. /\ frames' \in [Calls -> Seq(Frames)]
        /\ result' \in [Calls -> [done : BOOLEAN, count : 0..npos, err : Errors]]
        /\ \A d \in Calls : SafeStack(frames'[d])
    BY <1>1, <1>2, Counts, ReturnSafe
  <2> QED BY <1>2, <2>1 DEF Unlink, Safe, TypeOK, RemovedInside, others
<1>3. CASE \E e \in {"EACCES", "ENOTEMPTY"} :
             Fail(c, e) /\ UNCHANGED <<present, removed>>
  <2>1. PICK e \in {"EACCES", "ENOTEMPTY"} :
           Fail(c, e) /\ UNCHANGED <<present, removed>>
    BY <1>3
  <2>2. e \in Errors
    BY DEF Errors
  <2> QED BY <2>1, <2>2, FailSafe
          DEF Unlink, Safe, TypeOK, RemovedInside, others
<1>4. CASE /\ Return(c, Top(c).count)
           /\ present' = present \ Lost(Top(c).path)
           /\ removed' = [removed EXCEPT ![c] = @ \cup {Top(c).path}]
  <2>1. Top(c).count \in 0..npos /\ Top(c).path \in Inside
    BY <1>1 DEF SafeFrame, Frames
  <2>2. /\ frames' \in [Calls -> Seq(Frames)]
        /\ result' \in [Calls -> [done : BOOLEAN, count : 0..npos, err : Errors]]
        /\ \A d \in Calls : SafeStack(frames'[d])
    BY <1>1, <1>4, <2>1, ReturnSafe
  <2>3. removed' \in [Calls -> SUBSET Nodes] /\ RemovedInside'
    BY <1>4, <2>1, InsideAssumption DEF Safe, TypeOK, RemovedInside
  <2> QED BY <1>4, <2>2, <2>3 DEF Unlink, Safe, TypeOK, others
<1> QED BY <1>2, <1>3, <1>4 DEF Unlink

(* What other programs do.                                                 *)
LEMMA OthersSafe ==
  ASSUME Safe, NEW n \in Nodes, Create(n) \/ Vanish(n) \/ Relink(n)
  PROVE  Safe'
<1>1. CASE Create(n) \/ Vanish(n)
  BY <1>1 DEF Create, Vanish, Safe, TypeOK, RemovedInside, others
<1>2. CASE Relink(n)
  <2>1. PICK shown \in SUBSET (Behind[n] \ (Late \ created)) :
          present' = (present \ Behind[n]) \cup shown
    BY <1>2 DEF Relink
  <2>2. Behind[n] \subseteq Nodes
    BY DEF Behind
  <2>3. n \in Replaceable /\ swapped' = swapped \cup {n}
    BY <1>2 DEF Relink
  <2>4. caught' \in [Calls -> SUBSET swapped']
    BY <1>2, <2>3 DEF Relink, Safe, TypeOK
  <2>5. TypeOK'
    BY <1>2, <2>1, <2>2, <2>3, <2>4 DEF Relink, Safe, TypeOK
  <2> QED BY <1>2, <2>5 DEF Relink, Safe, RemovedInside
<1> QED BY <1>1, <1>2

(* The invariant holds in every reachable state.                           *)
THEOREM AlwaysSafe == Spec => []Safe
<1>1. Init => Safe
  BY InitSafe
<1>2. Safe /\ [Next]_vars => Safe'
  <2> SUFFICES ASSUME Safe, [Next]_vars PROVE Safe'
    OBVIOUS
  <2>1. CASE \E c \in Calls : Step(c)
    BY <2>1, SymLinkStatusSafe, OpenDirectorySafe, NextEntrySafe,
       EndOfDirectorySafe, UnlinkSafe DEF Step
  <2>2. CASE \E n \in Nodes : Create(n) \/ Vanish(n) \/ Relink(n)
    BY <2>2, OthersSafe
  <2>3. CASE UNCHANGED vars
    BY <2>3 DEF vars, others, Safe, TypeOK, RemovedInside
  <2> QED BY <2>1, <2>2, <2>3 DEF Next
<1> QED BY <1>1, <1>2, PTL DEF Spec

(* Type correctness, for every tree and any number of calls.               *)
THEOREM TypeCorrect == Spec => []TypeOK
<1>1. Safe => TypeOK
  BY DEF Safe
<1> QED BY <1>1, AlwaysSafe, PTL

-----------------------------------------------------------------------------
(* Directories that become links.                                          *)

(* A stack leads down from the root, each frame but the last in the middle *)
(* of reading the directory that the next one is an entry of; a directory  *)
(* it is about to read, or is reading, and that is a link by now became    *)
(* one after the call had looked at it.                                    *)
LeadsDown(s) ==
  /\ s # << >> => s[1].path = Root
  /\ \A i \in 1..Len(s) : i # Len(s) =>
       s[i].at = "scan" /\ s[i + 1].path \in Children(s[i].path)

Surprised(s, links, known) ==
  \A i \in 1..Len(s) :
    s[i].at \in {"open", "scan"} /\ s[i].path \in links => s[i].path \in known

LinkInv ==
  \A c \in Calls : LeadsDown(frames[c]) /\ Surprised(frames[c], swapped, caught[c])

LEMMA LinkInit == Init => LinkInv
BY DEF Init, LinkInv, LeadsDown, Surprised, Frame

(* What is behind a link, for a stack that leads there, is worked on only  *)
(* while the link is being read as a directory.                            *)
LEMMA BehindIsRead ==
  ASSUME NEW s, SafeStack(s), s # << >>, LeadsDown(s), NEW d \in Nodes,
         s[Len(s)].path \in Behind[d]
  PROVE  \E i \in 1..Len(s) : s[i].path = d /\ s[i].at = "scan"
<1> SUFFICES ASSUME \A i \in 1..Len(s) : ~(s[i].path = d /\ s[i].at = "scan")
             PROVE  FALSE
  OBVIOUS
<1> DEFINE S == Nodes \ {s[i].path : i \in 1..Len(s)}
<1>1. Len(s) \in Nat \ {0}
  BY DEF SafeStack
<1>2. ASSUME NEW n, NEW m \in Children(n), m \notin S
      PROVE  \E i \in 1..Len(s) : s[i].path = n /\ s[i].at = "scan"
  <2>1. PICK j \in 1..Len(s) : s[j].path = m
    BY <1>2 DEF Children
  <2>2. m # Root /\ Parent[m] = n
    BY DEF Children
  <2>3. j # 1
    BY <2>1, <2>2 DEF LeadsDown
  <2>4. j - 1 \in 1..Len(s) /\ j - 1 # Len(s) /\ j - 1 + 1 = j
    BY <1>1, <2>3
  <2>5. s[j - 1].at = "scan" /\ s[j].path \in Children(s[j - 1].path)
    BY <2>4 DEF LeadsDown
  <2>6. s[j - 1].path = n
    BY <2>1, <2>2, <2>5 DEF Children
  <2> QED BY <2>4, <2>5, <2>6
<1>3. Children(d) \subseteq S
  BY <1>2 DEF Children
<1>4. \A m \in S : Children(m) \subseteq S
  BY <1>2 DEF Children
<1>5. s[Len(s)].path \notin S /\ S \in SUBSET Nodes
  BY <1>1
<1> HIDE DEF S
<1> QED BY <1>3, <1>4, <1>5 DEF Behind

(* A stack that goes on in one of its frames, those above it returned.     *)
LEMMA LeadsOn ==
  ASSUME NEW s, SafeStack(s), s # << >>, LeadsDown(s), NEW links, NEW known,
         Surprised(s, links, known), NEW t, SafeStack(t), Len(t) \in 1..Len(s),
         \A i \in 1..Len(t) : t[i].path = s[i].path,
         \A i \in 1..Len(t) : i # Len(t) => t[i].at = s[i].at,
         t[Len(t)].at \in {"open", "scan"} /\ t[Len(t)].path \in links =>
           t[Len(t)].path \in known
  PROVE  LeadsDown(t) /\ Surprised(t, links, known)
<1>1. Len(s) \in Nat \ {0} /\ Len(t) \in Nat \ {0} /\ Len(t) <= Len(s)
  BY DEF SafeStack
<1>2. LeadsDown(t)
  <2>1. t[1].path = Root
    BY <1>1 DEF LeadsDown
  <2>2. ASSUME NEW i \in 1..Len(t), i # Len(t)
        PROVE  t[i].at = "scan" /\ t[i + 1].path \in Children(t[i].path)
    <3>1. i + 1 \in 1..Len(t) /\ i \in 1..Len(s) /\ i # Len(s)
      BY <1>1, <2>2
    <3> QED BY <2>2, <3>1 DEF LeadsDown
  <2> QED BY <2>1, <2>2 DEF LeadsDown
<1>3. ASSUME NEW i \in 1..Len(t), t[i].at \in {"open", "scan"}, t[i].path \in links
      PROVE  t[i].path \in known
  <2>1. i \in 1..Len(s)
    BY <1>1
  <2> QED BY <1>3, <2>1 DEF Surprised
<1> QED BY <1>2, <1>3 DEF Surprised

(* The recursion goes to an entry of the directory that is being read.     *)
LEMMA LeadsPush ==
  ASSUME NEW s, SafeStack(s), s # << >>, LeadsDown(s), NEW links, NEW known,
         Surprised(s, links, known), s[Len(s)].at = "scan",
         NEW n \in Children(s[Len(s)].path),
         NEW t, SafeStack(t), Len(t) = Len(s) + 1, t[Len(s) + 1] = Frame(n),
         \A i \in 1..Len(s) : t[i].path = s[i].path /\ t[i].at = s[i].at
  PROVE  LeadsDown(t) /\ Surprised(t, links, known)
<1>1. Len(s) \in Nat \ {0}
  BY DEF SafeStack
<1>2. t[Len(s) + 1].path = n /\ t[Len(s) + 1].at = "stat"
  BY DEF Frame
<1>3. LeadsDown(t)
  <2>1. t[1].path = Root
    BY <1>1 DEF LeadsDown
  <2>2. ASSUME NEW i \in 1..Len(s)
        PROVE  t[i].at = "scan" /\ t[i + 1].path \in Children(t[i].path)
    <3>1. CASE i = Len(s)
      BY <1>2, <3>1
    <3>2. CASE i # Len(s)
      <4>1. i + 1 \in 1..Len(s)
        BY <1>1, <3>2
      <4> QED BY <3>2, <4>1 DEF LeadsDown
    <3> QED BY <3>1, <3>2
  <2> QED BY <1>1, <2>1, <2>2 DEF LeadsDown
<1>4. Surprised(t, links, known)
  <2>1. \A i \in 1..Len(t) : i \in 1..Len(s) \/ i = Len(s) + 1
    BY <1>1
  <2> QED BY <1>2, <2>1 DEF Surprised
<1> QED BY <1>3, <1>4

(* A frame that returns to another leaves the others what they are, but    *)
(* for a count.                                                            *)
LEMMA ReturnShape ==
  ASSUME Safe, Safe', NEW c \in Calls, frames[c] # << >>, NEW k, Return(c, k),
         Depth(c) # 1
  PROVE  /\ Len(frames'[c]) = Len(frames[c]) - 1 /\ Len(frames[c]) > 1
         /\ \A i \in 1..Len(frames'[c]) :
              frames'[c][i].path = frames[c][i].path /\ frames'[c][i].at = frames[c][i].at
<1> DEFINE s == frames[c]
           t == frames'[c]
           outer == SubSeq(s, 1, Len(s) - 1)
           sum == Plus(outer[Len(outer)].count, k)
<1>1. SafeStack(s) /\ SafeStack(t) /\ Len(s) \in Nat \ {0}
  <2>1. SafeStack(s) /\ SafeStack(t)
    BY DEF Safe
  <2>2. Len(s) \in Nat /\ Len(s) > 0
    BY TopIsSafe DEF Depth
  <2> QED BY <2>1, <2>2
<1>2. t = [outer EXCEPT ![Len(outer)].count = sum] /\ Len(s) # 1
  BY DEF Return, Depth, Safe, TypeOK
<1> HIDE DEF s, t, sum
<1>3. /\ outer \in Seq(Frames) /\ Len(outer) = Len(s) - 1
      /\ \A i \in 1..Len(outer) : outer[i] = s[i]
  <2>1. s \in Seq(Frames) /\ Len(s) - 1 \in 1..Len(s)
    BY <1>1, <1>2 DEF SafeStack
  <2> QED BY <2>1
<1> HIDE DEF outer
<1>4. /\ Len(t) = Len(outer)
      /\ \A i \in 1..Len(outer) : t[i].path = outer[i].path /\ t[i].at = outer[i].at
  <2>1. Len(outer) \in 1..Len(outer)
    BY <1>1, <1>2, <1>3
  <2>2. outer[Len(outer)] \in Frames
    BY <1>3, <2>1
  <2>3. /\ Len(t) = Len(outer) /\ t[Len(outer)] = [outer[Len(outer)] EXCEPT !.count = sum]
        /\ \A i \in 1..Len(outer) : i # Len(outer) => t[i] = outer[i]
    BY <1>2, <1>3, <2>1
  <2>4. /\ t[Len(outer)].path = outer[Len(outer)].path
        /\ t[Len(outer)].at = outer[Len(outer)].at
    BY <2>2, <2>3 DEF Frames
  <2> QED BY <2>3, <2>4
<1>5. /\ Len(t) = Len(s) - 1 /\ Len(s) > 1
      /\ \A i \in 1..Len(t) : t[i].path = s[i].path /\ t[i].at = s[i].at
  BY <1>1, <1>2, <1>3, <1>4
<1> QED BY <1>5 DEF s, t

(* Each step of a call: only what is not a link is taken for a directory.  *)
LEMMA StepLinks ==
  ASSUME Safe, Safe', NEW c \in Calls, LeadsDown(frames[c]),
         Surprised(frames[c], swapped, caught[c]), Step(c)
  PROVE  LeadsDown(frames'[c]) /\ Surprised(frames'[c], swapped, caught[c])
<1> DEFINE s == frames[c]
           t == frames'[c]
<1>1. /\ s # << >> /\ SafeFrame(Top(c)) /\ SafeStack(s) /\ SafeStack(t)
      /\ Len(s) \in Nat /\ Len(s) > 0 /\ Len(s) \in 1..Len(s)
      /\ Top(c) = s[Len(s)] /\ Top(c) \in Frames /\ frames \in [Calls -> Seq(Frames)]
  <2>1. s # << >>
    BY DEF Step, SymLinkStatus, OpenDirectory, NextEntry, EndOfDirectory, Unlink, At
  <2> QED BY <2>1, TopIsSafe DEF Depth, Top, Safe, TypeOK, SafeFrame
<1>2. ASSUME NEW k, NEW e, Finish(c, k, e)
      PROVE  LeadsDown(t) /\ Surprised(t, swapped, caught[c])
  <2>1. t = << >>
    BY <1>1, <1>2 DEF Finish
  <2> QED BY <2>1 DEF LeadsDown, Surprised
<1>3. ASSUME NEW g, g.path = Top(c).path, t = [s EXCEPT ![Len(s)] = g],
             g.at \in {"open", "scan"} /\ g.path \in swapped => g.path \in caught[c]
      PROVE  LeadsDown(t) /\ Surprised(t, swapped, caught[c])
  <2> HIDE DEF s, t
  <2>1. /\ Len(t) = Len(s) /\ t[Len(s)] = g
        /\ \A i \in 1..Len(s) : i # Len(s) => t[i] = s[i]
    BY <1>1, <1>3 DEF SafeStack
  <2>2. \A i \in 1..Len(t) : t[i].path = s[i].path
    BY <1>1, <1>3, <2>1
  <2>3. SafeStack(s) /\ s # << >> /\ LeadsDown(s) /\ Surprised(s, swapped, caught[c])
    BY <1>1 DEF s
  <2>4. SafeStack(t) /\ Len(t) \in 1..Len(s)
    BY <1>1, <2>1
  <2>5. \A i \in 1..Len(t) : i # Len(t) => t[i].at = s[i].at
    BY <2>1
  <2>6. t[Len(t)].at \in {"open", "scan"} /\ t[Len(t)].path \in swapped =>
          t[Len(t)].path \in caught[c]
    BY <1>3, <2>1
  <2> QED BY <2>2, <2>3, <2>4, <2>5, <2>6, LeadsOn
<1>4. ASSUME NEW step \in {"open", "unlink"}, GoTo(c, step),
             step = "open" => Top(c).path \notin swapped
      PROVE  LeadsDown(t) /\ Surprised(t, swapped, caught[c])
  <2> DEFINE g == [Top(c) EXCEPT !.at = step]
  <2>1. g.path = Top(c).path /\ g.at = step
    BY <1>1 DEF Frames
  <2>2. t = [s EXCEPT ![Len(s)] = g]
    BY <1>1, <1>4 DEF GoTo, Top, Depth
  <2> HIDE DEF g, t, s
  <2> QED BY <1>3, <1>4, <2>1, <2>2
<1>5. CASE \E k, e : Finish(c, k, e)
  BY <1>2, <1>5
<1>6. CASE ~\E k, e : Finish(c, k, e)
  <2>0. \A e : ~Fail(c, e)
    BY <1>6 DEF Fail
  <2>1. CASE SymLinkStatus(c)
    <3>1. GoTo(c, IF IsDirectory(Top(c).path) THEN "open" ELSE "unlink")
      BY <2>0, <2>1 DEF SymLinkStatus
    <3> QED BY <1>4, <3>1 DEF IsDirectory
  <2>2. CASE OpenDirectory(c)
    <3>1. PICK later :
          frames' = [frames EXCEPT ![c][Depth(c)] =
            [Top(c) EXCEPT !.at = "scan",
                           !.left = (Children(Top(c).path) \cap present) \cup later]]
      BY <2>0, <2>2 DEF OpenDirectory, Scan
    <3> DEFINE g == [Top(c) EXCEPT !.at = "scan",
                                   !.left = (Children(Top(c).path) \cap present) \cup later]
    <3>2. g.path = Top(c).path
      BY <1>1 DEF Frames
    <3>3. t = [s EXCEPT ![Len(s)] = g]
      BY <1>1, <3>1 DEF Depth
    <3>4. g.path \in swapped => g.path \in caught[c]
      BY <1>1, <2>2, <3>2 DEF Surprised, OpenDirectory, At
    <3> HIDE DEF g, t, s
    <3>5. LeadsDown(t) /\ Surprised(t, swapped, caught[c])
      BY <1>3, <3>2, <3>3, <3>4
    <3> QED BY <3>5 DEF t
  <2>3. CASE NextEntry(c)
    <3>1. PICK n \in Top(c).left :
            frames' = [frames EXCEPT ![c] =
              Append([frames[c] EXCEPT ![Depth(c)].left = @ \ {n}], Frame(n))]
      BY <2>3 DEF NextEntry
    <3> DEFINE g == [Top(c) EXCEPT !.left = @ \ {n}]
               r == [s EXCEPT ![Len(s)] = g]
    <3>2. t = Append(r, Frame(n))
      BY <1>1, <3>1 DEF Top, Depth
    <3>3. n \in Children(s[Len(s)].path) /\ s[Len(s)].at = "scan" /\ n \in Inside
      BY <1>1, <2>3, ChildrenInside DEF SafeFrame, NextEntry, At
    <3>4. SafeFrame(g) /\ g.path = s[Len(s)].path /\ g.at = s[Len(s)].at
      BY <1>1 DEF SafeFrame, Frames
    <3>5. LeadsDown(s) /\ Surprised(s, swapped, caught[c])
      OBVIOUS
    <3> HIDE DEF s, g, t
    <3>6. SafeStack(r) /\ Len(r) = Len(s) /\ r[Len(s)] = g
          /\ \A i \in 1..Len(s) : i # Len(s) => r[i] = s[i]
      BY <1>1, <3>4, Replace
    <3> HIDE DEF r
    <3>7. /\ Len(t) = Len(s) + 1 /\ t[Len(s) + 1] = Frame(n)
          /\ \A i \in 1..Len(s) : t[i] = r[i]
      BY <3>2, <3>3, <3>6, NewFrame, Push
    <3>8. \A i \in 1..Len(s) : t[i].path = s[i].path /\ t[i].at = s[i].at
      BY <3>4, <3>6, <3>7
    <3>9. SafeStack(s) /\ s # << >> /\ SafeStack(t)
      BY <1>1
    <3>10. LeadsDown(t) /\ Surprised(t, swapped, caught[c])
      BY <3>3, <3>5, <3>7, <3>8, <3>9, LeadsPush
    <3> QED BY <3>10 DEF t
  <2>4. CASE EndOfDirectory(c)
    BY <1>4, <2>0, <2>4 DEF EndOfDirectory
  <2>5. CASE Unlink(c)
    <3>1. PICK k : Return(c, k)
      BY <2>0, <2>5 DEF Unlink
    <3>2. Depth(c) # 1
      BY <1>6, <3>1 DEF Return
    <3>3. /\ Len(t) = Len(s) - 1 /\ Len(s) > 1
          /\ \A i \in 1..Len(t) : t[i].path = s[i].path /\ t[i].at = s[i].at
      BY <1>1, <3>1, <3>2, ReturnShape
    <3>4. LeadsDown(s) /\ Surprised(s, swapped, caught[c])
      OBVIOUS
    <3> HIDE DEF s, t
    <3>5. Len(t) \in 1..Len(s) /\ Len(t) \in 1..Len(t)
      BY <1>1, <3>3
    <3>6. t[Len(t)].at \in {"open", "scan"} /\ t[Len(t)].path \in swapped =>
            t[Len(t)].path \in caught[c]
      BY <3>3, <3>4, <3>5 DEF Surprised
    <3>7. SafeStack(s) /\ s # << >> /\ SafeStack(t)
      BY <1>1
    <3>8. \A i \in 1..Len(t) : i # Len(t) => t[i].at = s[i].at
      BY <3>3
    <3>9. LeadsDown(t) /\ Surprised(t, swapped, caught[c])
      BY <3>3, <3>4, <3>5, <3>6, <3>7, <3>8, LeadsOn
    <3> QED BY <3>9 DEF t
  <2> QED BY <2>1, <2>2, <2>3, <2>4, <2>5 DEF Step
<1> QED BY <1>5, <1>6

(* A directory that becomes a link is entered with every call that reads   *)
(* it, and nothing else is.                                                *)
LEMMA RelinkLinks ==
  ASSUME Safe, LinkInv, NEW d \in Nodes, Relink(d)
  PROVE  LinkInv'
<1> SUFFICES ASSUME NEW c \in Calls
             PROVE  LeadsDown(frames'[c]) /\ Surprised(frames'[c], swapped', caught'[c])
  BY DEF LinkInv
<1>1. frames' = frames /\ swapped' = swapped \cup {d}
  BY DEF Relink
<1>2. caught'[c] = IF \E i \in 1..Len(frames[c]) :
                        frames[c][i].path = d /\ frames[c][i].at \in {"open", "scan"}
                   THEN caught[c] \cup {d} ELSE caught[c]
  BY DEF Relink
<1>3. LeadsDown(frames[c]) /\ Surprised(frames[c], swapped, caught[c])
  BY DEF LinkInv
<1>4. ASSUME NEW i \in 1..Len(frames[c]), frames[c][i].at \in {"open", "scan"},
             frames[c][i].path \in swapped'
      PROVE  frames[c][i].path \in caught'[c]
  <2>1. CASE frames[c][i].path = d
    BY <1>2, <1>4, <2>1
  <2>2. CASE frames[c][i].path # d
    BY <1>1, <1>2, <1>3, <1>4, <2>2 DEF Surprised
  <2> QED BY <2>1, <2>2
<1> QED BY <1>1, <1>3, <1>4 DEF Surprised

LEMMA LinkStep == Safe /\ Safe' /\ LinkInv /\ [Next]_vars => LinkInv'
<1> SUFFICES ASSUME Safe, Safe', LinkInv, [Next]_vars PROVE LinkInv'
  OBVIOUS
<1>1. ASSUME NEW c \in Calls, Step(c) PROVE LinkInv'
  <2>1. UNCHANGED others
    BY <1>1 DEF Step, SymLinkStatus, OpenDirectory, NextEntry, EndOfDirectory, Unlink
  <2>2. \A d \in Calls : d # c => frames'[d] = frames[d]
    BY <1>1 DEF Safe, TypeOK, Step, SymLinkStatus, OpenDirectory, NextEntry, EndOfDirectory,
                Unlink, Fail, Finish, GoTo, Scan, Return
  <2>3. LeadsDown(frames'[c]) /\ Surprised(frames'[c], swapped, caught[c])
    BY <1>1, StepLinks DEF LinkInv
  <2> QED BY <2>1, <2>2, <2>3 DEF LinkInv, others
<1>2. ASSUME NEW n \in Nodes, Create(n) \/ Vanish(n) PROVE LinkInv'
  BY <1>2 DEF Create, Vanish, others, LinkInv
<1>3. ASSUME NEW n \in Nodes, Relink(n) PROVE LinkInv'
  BY <1>3, RelinkLinks
<1>4. CASE UNCHANGED vars
  BY <1>4 DEF vars, others, LinkInv
<1> QED BY <1>1, <1>2, <1>3, <1>4 DEF Next

(* However many calls run on a tree, and whatever other programs create,   *)
(* unlink or replace by links, a path that a call removes is one of the    *)
(* tree, and it leads through no link but one that took the place of a     *)
(* directory the call had already looked at and not yet read to the end.   *)
THEOREM StaysInside == Spec => OnlyInside
<1> DEFINE Stays ==
      \A c \in Calls : LET gone == removed'[c] \ removed[c] IN
        /\ gone \subseteq Inside
        /\ \A d \in swapped : gone \cap Behind[d] # {} => d \in caught[c]
<1>1. Safe /\ Safe' /\ LinkInv /\ [Next]_vars => [Stays]_vars
  <2> SUFFICES ASSUME Safe, Safe', LinkInv, Next, NEW c \in Calls,
                      NEW p \in removed'[c] \ removed[c]
               PROVE  /\ p \in Inside
                      /\ \A d \in swapped : p \in Behind[d] => d \in caught[c]
    OBVIOUS
  <2>1. p \in Inside
    BY DEF Safe, RemovedInside
  <2>2. Unlink(c) /\ p = Top(c).path
    <3>1. PICK b \in Calls : Unlink(b) /\ removed' # removed
      BY DEF Next, Step, SymLinkStatus, OpenDirectory, NextEntry, EndOfDirectory, Unlink,
             Create, Vanish, Relink
    <3>2. removed' = [removed EXCEPT ![b] = @ \cup {Top(b).path}]
      BY <3>1 DEF Unlink
    <3> QED BY <3>1, <3>2 DEF Safe, TypeOK
  <2>3. /\ frames[c] # << >> /\ SafeStack(frames[c])
        /\ p = frames[c][Len(frames[c])].path
    BY <2>2, TopIsSafe DEF Unlink, At, Top, Depth
  <2>4. ASSUME NEW d \in swapped, p \in Behind[d] PROVE d \in caught[c]
    <3>1. d \in Nodes /\ LeadsDown(frames[c]) /\ Surprised(frames[c], swapped, caught[c])
      BY OthersAssumption DEF Safe, TypeOK, LinkInv
    <3>2. \E i \in 1..Len(frames[c]) : frames[c][i].path = d /\ frames[c][i].at = "scan"
      BY <2>3, <2>4, <3>1, BehindIsRead
    <3> QED BY <3>1, <3>2 DEF Surprised
  <2> QED BY <2>1, <2>4
<1>2. Spec => []LinkInv
  BY LinkInit, LinkStep, AlwaysSafe, PTL DEF Spec
<1> QED BY <1>1, <1>2, AlwaysSafe, PTL DEF Spec, OnlyInside

-----------------------------------------------------------------------------
(* Calls that race.                                                        *)

(* Of what is here, the entries of a directory that is being read are left *)
(* in its frame or worked on by the frame above it, and a directory that   *)
(* is to be unlinked has none.                                             *)
KnownFrame(s, i, here) ==
  /\ i # Len(s) => s[i].at = "scan"
  /\ s[i].at = "scan" =>
       \A n \in Children(s[i].path) \cap here :
         n \in s[i].left \/ (i # Len(s) /\ n = s[i + 1].path)
  /\ s[i].at = "unlink" /\ Kind[s[i].path] = "directory" =>
       Children(s[i].path) \cap here = {}

Known(s, here) == \A i \in 1..Len(s) : KnownFrame(s, i, here)

-----------------------------------------------------------------------------
(* What is gone need not be known.                                         *)
LEMMA KnownShrinks ==
  ASSUME NEW s, NEW here, NEW less, less \subseteq here, Known(s, here)
  PROVE  Known(s, less)
<1> SUFFICES ASSUME NEW i \in 1..Len(s) PROVE KnownFrame(s, i, less)
  BY DEF Known
<1>1. KnownFrame(s, i, here)
  BY DEF Known
<1> QED BY <1>1 DEF KnownFrame

(* The innermost frame goes on.                                            *)
LEMMA KnownReplace ==
  ASSUME NEW s, SafeStack(s), s # << >>, NEW here, Known(s, here),
         NEW g, SafeFrame(g), g.path = s[Len(s)].path,
         g.at = "scan" => Children(g.path) \cap here \subseteq g.left,
         g.at = "unlink" /\ Kind[g.path] = "directory" => Children(g.path) \cap here = {}
  PROVE  Known([s EXCEPT ![Len(s)] = g], here)
<1> DEFINE t == [s EXCEPT ![Len(s)] = g]
<1>1. /\ Len(t) = Len(s) /\ t[Len(s)] = g /\ Len(s) \in Nat
      /\ \A i \in 1..Len(s) : i # Len(s) => t[i] = s[i]
  BY Replace DEF SafeStack
<1> SUFFICES ASSUME NEW i \in 1..Len(s) PROVE KnownFrame(t, i, here)
  BY <1>1 DEF Known
<1> HIDE DEF t
<1>2. CASE i = Len(s)
  BY <1>1, <1>2 DEF KnownFrame
<1>3. CASE i # Len(s)
  <2>1. KnownFrame(s, i, here) /\ t[i] = s[i]
    BY <1>1, <1>3 DEF Known
  <2>2. t[i + 1].path = s[i + 1].path
    <3>1. i + 1 \in 1..Len(s)
      BY <1>1, <1>3
    <3> QED BY <1>1, <3>1
  <2> QED BY <1>1, <1>3, <2>1, <2>2 DEF KnownFrame
<1> QED BY <1>2, <1>3

(* The recursion takes an entry from the frame: it is in the next one.     *)
LEMMA KnownPush ==
  ASSUME NEW s, SafeStack(s), s # << >>, NEW here, Known(s, here),
         s[Len(s)].at = "scan", NEW n \in Inside, NEW g, SafeFrame(g),
         g.at = "scan", g.path = s[Len(s)].path, g.left = s[Len(s)].left \ {n}
  PROVE  Known(Append([s EXCEPT ![Len(s)] = g], Frame(n)), here)
<1> DEFINE r == [s EXCEPT ![Len(s)] = g]
           t == Append(r, Frame(n))
<1>1. /\ Len(r) = Len(s) /\ r[Len(s)] = g /\ Len(s) \in Nat \ {0} /\ SafeStack(r)
      /\ \A i \in 1..Len(s) : i # Len(s) => r[i] = s[i]
  <2>1. Len(s) \in Nat \ {0}
    BY DEF SafeStack
  <2>2. /\ Len(r) = Len(s) /\ r[Len(s)] = g /\ SafeStack(r)
        /\ \A i \in 1..Len(s) : i # Len(s) => r[i] = s[i]
    BY Replace
  <2> QED BY <2>1, <2>2
<1>2. SafeFrame(Frame(n))
  BY NewFrame
<1> HIDE DEF r
<1>3. /\ Len(t) = Len(s) + 1 /\ t[Len(s) + 1] = Frame(n)
      /\ \A i \in 1..Len(s) : t[i] = r[i]
  BY <1>1, <1>2, Push
<1> HIDE DEF t
<1> SUFFICES ASSUME NEW i \in 1..(Len(s) + 1) PROVE KnownFrame(t, i, here)
  BY <1>3 DEF Known, t, r
<1>4. CASE i = Len(s) + 1
  BY <1>1, <1>3, <1>4 DEF KnownFrame, Frame
<1>5. CASE i = Len(s)
  <2>1. KnownFrame(s, i, here)
    BY <1>1, <1>5 DEF Known
  <2>2. t[i] = g /\ t[i + 1].path = n /\ i # Len(t)
    BY <1>1, <1>3, <1>5 DEF Frame
  <2> QED BY <1>5, <2>1, <2>2 DEF KnownFrame
<1>6. CASE i \in 1..(Len(s) - 1)
  <2>1. KnownFrame(s, i, here) /\ t[i] = s[i] /\ i # Len(t) /\ i # Len(s)
    BY <1>1, <1>3, <1>6 DEF Known
  <2>2. t[i + 1].path = s[i + 1].path
    <3>1. i + 1 \in 1..Len(s)
      BY <1>1, <1>6
    <3> QED BY <1>1, <1>3, <3>1
  <2> QED BY <2>1, <2>2 DEF KnownFrame
<1>7. i = Len(s) + 1 \/ i = Len(s) \/ i \in 1..(Len(s) - 1)
  BY <1>1
<1> QED BY <1>4, <1>5, <1>6, <1>7

(* A frame returns when its node is gone.                                  *)
LEMMA KnownPop ==
  ASSUME NEW s, SafeStack(s), Len(s) > 1, NEW here, Known(s, here),
         NEW less, less \subseteq here, s[Len(s)].path \notin less, NEW k \in 0..npos
  PROVE  LET outer == SubSeq(s, 1, Len(s) - 1)
         IN  Known([outer EXCEPT ![Len(outer)].count = k], less)
<1> DEFINE outer == SubSeq(s, 1, Len(s) - 1)
           t == [outer EXCEPT ![Len(outer)].count = k]
<1>1. /\ Len(s) \in Nat /\ Len(t) = Len(s) - 1
      /\ t[Len(t)] = [s[Len(t)] EXCEPT !.count = k]
      /\ \A i \in 1..Len(t) : i # Len(t) => t[i] = s[i]
  BY PopInner DEF SafeStack
<1> HIDE DEF outer, t
<1> SUFFICES ASSUME NEW i \in 1..(Len(s) - 1) PROVE KnownFrame(t, i, less)
  BY <1>1 DEF Known, t, outer
<1>2. KnownFrame(s, i, here) /\ i # Len(s)
  BY <1>1 DEF Known
<1>3. CASE i = Len(s) - 1
  <2>1. s[i] \in Frames
    BY <1>1 DEF SafeStack, SafeFrame
  <2>2. t[i].at = s[i].at /\ t[i].path = s[i].path /\ t[i].left = s[i].left
    BY <1>1, <1>3, <2>1 DEF Frames
  <2>3. s[i].at = "scan" /\ s[i + 1].path \notin less
    BY <1>1, <1>2, <1>3 DEF KnownFrame
  <2> QED BY <1>1, <1>2, <1>3, <2>2, <2>3 DEF KnownFrame
<1>4. CASE i # Len(s) - 1
  <2>1. t[i] = s[i] /\ i # Len(t) /\ i + 1 \in 1..Len(t)
    BY <1>1, <1>4
  <2>2. t[i + 1].path = s[i + 1].path
    <3>1. s[Len(t)] \in Frames
      BY <1>1, <2>1 DEF SafeStack, SafeFrame
    <3>2. t[Len(t)].path = s[Len(t)].path
      BY <1>1, <3>1 DEF Frames
    <3> QED BY <1>1, <2>1, <3>2
  <2> QED BY <1>2, <2>1, <2>2 DEF KnownFrame
<1> QED BY <1>3, <1>4

-----------------------------------------------------------------------------
(* A call stops where something is locked or closed, and nowhere else.     *)
Stopped(c) ==
  /\ frames[c] # << >> /\ frames'[c] = << >> /\ present' = present
  /\ Top(c).path \in present
  /\ \/ Top(c).path \in locked
     \/ Kind[Top(c).path] = "directory" /\ Top(c).path \in closed

(* What a call does to its own stack.                                      *)
OwnStack(c) ==
  /\ Known(frames'[c], present') /\ present' \subseteq present
  /\ UNCHANGED others
  /\ \A d \in Calls : d # c => frames'[d] = frames[d] /\ result'[d] = result[d]
  /\ result'[c] = result[c] \/ result'[c].err \in {"ok", "EIO"} \/ Stopped(c)

(* A call that stops has no stack, either.                                 *)
LEMMA StopKnown ==
  ASSUME Safe, NEW c \in Calls, frames[c] # << >>, Fail(c, "EACCES"),
         UNCHANGED <<present, others>>, Top(c).path \in present,
         \/ Top(c).path \in locked
         \/ Kind[Top(c).path] = "directory" /\ Top(c).path \in closed
  PROVE  OwnStack(c)
<1>1. Finish(c, npos, "EACCES")
  BY DEF Fail
<1>2. frames'[c] = << >> /\ Known(frames'[c], present')
  BY <1>1 DEF Finish, Known, Safe, TypeOK
<1>3. \A d \in Calls : d # c => frames'[d] = frames[d] /\ result'[d] = result[d]
  BY <1>1 DEF Finish
<1> QED BY <1>2, <1>3 DEF OwnStack, Stopped, others

(* A call that returns has no stack.                                       *)
LEMMA FinishKnown ==
  ASSUME Safe, NEW c \in Calls, NEW k, NEW e, Finish(c, k, e), NEW here
  PROVE  /\ Known(frames'[c], here) /\ result'[c].err = e
         /\ \A d \in Calls : d # c => frames'[d] = frames[d] /\ result'[d] = result[d]
BY DEF Finish, Known, Safe, TypeOK

(* And neither has one that stops where something is gone or unreadable.   *)
LEMMA FailKnown ==
  ASSUME Safe, NEW c \in Calls, NEW e \in {"ENOENT", "EIO"}, Fail(c, e), NEW here
  PROVE  /\ Known(frames'[c], here) /\ result'[c].err \in {"ok", "EIO"}
         /\ \A d \in Calls : d # c => frames'[d] = frames[d] /\ result'[d] = result[d]
BY FinishKnown DEF Fail

(* A call that goes on in its innermost frame.                             *)
LEMMA TopKnown ==
  ASSUME Safe, NEW c \in Calls, frames[c] # << >>, Known(frames[c], present),
         NEW g, SafeFrame(g), g.path = Top(c).path,
         g.at = "scan" => Children(g.path) \cap present \subseteq g.left,
         g.at = "unlink" /\ Kind[g.path] = "directory" => Children(g.path) \cap present = {},
         frames' = [frames EXCEPT ![c] = [@ EXCEPT ![Depth(c)] = g]],
         UNCHANGED <<present, others, result>>
  PROVE  OwnStack(c)
<1>1. SafeStack(frames[c]) /\ Top(c) = frames[c][Len(frames[c])]
  BY TopIsSafe DEF Top, Depth
<1>2. Known([frames[c] EXCEPT ![Len(frames[c])] = g], present)
  BY <1>1, KnownReplace
<1>3. frames \in [Calls -> Seq(Frames)]
  BY DEF Safe, TypeOK
<1> QED BY <1>2, <1>3 DEF OwnStack, others, Depth

(* A step of a call that is in its frame and only moves on.                *)
LEMMA GoToKnown ==
  ASSUME Safe, NEW c \in Calls, frames[c] # << >>, Known(frames[c], present),
         NEW step \in {"open", "unlink"}, GoTo(c, step),
         step = "open" => Kind[Top(c).path] = "directory",
         step = "unlink" /\ Kind[Top(c).path] = "directory" =>
            Children(Top(c).path) \cap present = {},
         UNCHANGED <<present, others, result>>
  PROVE  OwnStack(c)
<1> DEFINE g == [Top(c) EXCEPT !.at = step]
<1>1. SafeFrame(Top(c)) /\ frames \in [Calls -> Seq(Frames)]
  BY TopIsSafe DEF Safe, TypeOK
<1>2. SafeFrame(g) /\ g.at = step /\ g.path = Top(c).path
  BY <1>1 DEF SafeFrame, Frames
<1>3. frames' = [frames EXCEPT ![c] = [@ EXCEPT ![Depth(c)] = g]]
  BY <1>1 DEF GoTo, Top, Depth
<1> HIDE DEF g
<1> QED BY <1>2, <1>3, TopKnown

(* What is gone ends the call, a link is unlinked without being read.      *)
LEMMA SymLinkStatusKnown ==
  ASSUME Safe, swapped = {}, NEW c \in Calls, Known(frames[c], present),
         SymLinkStatus(c)
  PROVE  OwnStack(c)
<1>1. frames[c] # << >>
  BY DEF SymLinkStatus, At
<1>2. CASE Top(c).path \notin present
  BY <1>2, FailKnown DEF SymLinkStatus, OwnStack, others
<1>3. CASE Top(c).path \in present /\ Kind[Top(c).path] = "directory"
  <2>1. GoTo(c, "open") /\ UNCHANGED <<present, others, result>>
    BY <1>3, Unswapped DEF SymLinkStatus, Safe
  <2> QED BY <1>1, <1>3, <2>1, GoToKnown
<1>4. CASE Top(c).path \in present /\ Kind[Top(c).path] # "directory"
  <2>1. GoTo(c, "unlink") /\ UNCHANGED <<present, others, result>>
    BY <1>4, Unswapped DEF SymLinkStatus, Safe
  <2> QED BY <1>1, <1>4, <2>1, GoToKnown
<1> QED BY <1>2, <1>3, <1>4

(* All entries that are there when a directory is opened are left to it.   *)
LEMMA OpenDirectoryKnown ==
  ASSUME Safe, NEW c \in Calls, Known(frames[c], present), OpenDirectory(c)
  PROVE  OwnStack(c)
<1>1. frames[c] # << >> /\ SafeFrame(Top(c)) /\ Top(c).at = "open"
  BY TopIsSafe DEF OpenDirectory, At
<1>2. CASE Top(c).path \notin present
  BY <1>2, FailKnown DEF OpenDirectory, OwnStack, others
<1>3. CASE Top(c).path \in present /\ Top(c).path \in closed
  BY <1>1, <1>3, StopKnown DEF OpenDirectory, SafeFrame
<1>4. CASE Top(c).path \in present /\ Top(c).path \notin closed
  <2>1. Scan(c) /\ UNCHANGED <<present, others, result>>
    BY <1>4 DEF OpenDirectory
  <2>2. PICK later \in SUBSET (Children(Top(c).path) \cap (Late \ created)) :
          frames' = [frames EXCEPT ![c][Depth(c)] =
            [Top(c) EXCEPT !.at = "scan",
                           !.left = (Children(Top(c).path) \cap present) \cup later]]
    BY <2>1 DEF Scan
  <2> DEFINE g == [Top(c) EXCEPT !.at = "scan",
                                 !.left = (Children(Top(c).path) \cap present) \cup later]
  <2>3. /\ SafeFrame(g) /\ g.path = Top(c).path /\ g.at = "scan"
        /\ Children(g.path) \cap present \subseteq g.left
    BY <1>1 DEF SafeFrame, Frames, Children
  <2>4. frames' = [frames EXCEPT ![c] = [@ EXCEPT ![Depth(c)] = g]]
    BY <2>2
  <2> HIDE DEF g
  <2> QED BY <1>1, <2>1, <2>3, <2>4, TopKnown
<1> QED BY <1>2, <1>3, <1>4

(* The loop body recurses into one of the entries that are left.           *)
LEMMA NextEntryKnown ==
  ASSUME Safe, NEW c \in Calls, Known(frames[c], present), NextEntry(c)
  PROVE  OwnStack(c)
<1>1. /\ frames[c] # << >> /\ SafeFrame(Top(c)) /\ SafeStack(frames[c])
      /\ Top(c).at = "scan" /\ Top(c) = frames[c][Len(frames[c])]
      /\ frames \in [Calls -> Seq(Frames)]
  BY TopIsSafe DEF NextEntry, At, Top, Depth, Safe, TypeOK
<1>2. PICK n \in Top(c).left \ (Late \ created) :
        frames' = [frames EXCEPT ![c] =
          Append([frames[c] EXCEPT ![Depth(c)].left = @ \ {n}], Frame(n))]
  BY DEF NextEntry
<1>3. n \in Inside
  BY <1>1, ChildrenInside DEF SafeFrame
<1> DEFINE g == [Top(c) EXCEPT !.left = @ \ {n}]
<1>4. /\ SafeFrame(g) /\ g.at = "scan" /\ g.path = Top(c).path
      /\ g.left = Top(c).left \ {n}
  BY <1>1 DEF SafeFrame, Frames
<1>5. frames' = [frames EXCEPT ![c] =
                   Append([frames[c] EXCEPT ![Len(frames[c])] = g], Frame(n))]
  BY <1>2 DEF Top, Depth
<1>6. Known(Append([frames[c] EXCEPT ![Len(frames[c])] = g], Frame(n)), present)
  BY <1>1, <1>3, <1>4, KnownPush
<1> HIDE DEF g
<1> QED BY <1>1, <1>5, <1>6 DEF NextEntry, OwnStack, others

(* What is left of a directory at its end is gone; there is no frame above *)
(* its own that works on an entry.                                         *)
LEMMA EndOfDirectoryKnown ==
  ASSUME Safe, swapped = {}, NEW c \in Calls, Known(frames[c], present),
         EndOfDirectory(c)
  PROVE  OwnStack(c)
<1>1. /\ frames[c] # << >> /\ Top(c).at = "scan" /\ SafeStack(frames[c])
      /\ Top(c) = frames[c][Len(frames[c])]
  BY TopIsSafe DEF EndOfDirectory, At, Top, Depth
<1>2. CASE Top(c).left \cap present = {} /\ GoTo(c, "unlink") /\ UNCHANGED result
  <2>1. Len(frames[c]) \in 1..Len(frames[c])
    BY <1>1 DEF SafeStack
  <2>2. KnownFrame(frames[c], Len(frames[c]), present)
    BY <2>1 DEF Known
  <2>3. Children(Top(c).path) \cap present = {}
    BY <1>1, <1>2, <2>2 DEF KnownFrame
  <2> QED BY <1>1, <1>2, <2>3, GoToKnown DEF EndOfDirectory
<1>3. CASE Fail(c, "EIO")
  BY <1>3, FailKnown DEF EndOfDirectory, OwnStack, others
<1>4. caught[c] = {}
  BY Unswapped DEF Safe
<1> QED BY <1>2, <1>3, <1>4 DEF EndOfDirectory

(* A frame whose node is gone returns.                                     *)
LEMMA ReturnKnown ==
  ASSUME Safe, NEW c \in Calls, frames[c] # << >>, Known(frames[c], present),
         NEW k \in 0..npos, Return(c, k), present' \subseteq present,
         Top(c).path \notin present', UNCHANGED others
  PROVE  OwnStack(c)
<1>1. /\ SafeStack(frames[c]) /\ Depth(c) \in Nat /\ Depth(c) > 0
      /\ Depth(c) = Len(frames[c]) /\ Top(c) = frames[c][Len(frames[c])]
      /\ frames \in [Calls -> Seq(Frames)]
  BY TopIsSafe DEF Depth, Top, Safe, TypeOK
<1>2. CASE Depth(c) = 1
  BY <1>2, FinishKnown DEF Return, OwnStack, others
<1>3. CASE Depth(c) # 1
  <2> DEFINE s == frames[c]
             outer == SubSeq(s, 1, Len(s) - 1)
             sum == Plus(outer[Len(outer)].count, k)
  <2>1. frames' = [frames EXCEPT ![c] = [outer EXCEPT ![Len(outer)].count = sum]]
        /\ UNCHANGED result
    BY <1>3 DEF Return, Depth
  <2>2. sum \in 0..npos
    <3>1. Len(s) \in Nat /\ Len(s) - 1 \in 1..Len(s) /\ s \in Seq(Frames)
      BY <1>1, <1>3 DEF SafeStack
    <3> HIDE DEF s
    <3>2. Len(outer) = Len(s) - 1 /\ outer[Len(s) - 1] = s[Len(s) - 1]
      <4>1. \A i \in 1..Len(s) - 1 : s[i] \in Frames
        BY <3>1
      <4> QED BY <3>1, <4>1, SubSeqProperties
    <3>3. outer[Len(outer)] \in Frames
      <4>1. s[Len(s) - 1] \in Frames
        BY <3>1
      <4> HIDE DEF outer
      <4> QED BY <3>2, <4>1
    <3>4. outer[Len(outer)].count \in 0..npos
      <4> HIDE DEF outer
      <4> QED BY <3>3 DEF Frames
    <3> QED BY <3>4, Counts
  <2>3. Known([outer EXCEPT ![Len(outer)].count = sum], present')
    <3>1. SafeStack(s) /\ Len(s) > 1 /\ s[Len(s)].path \notin present' /\ Known(s, present)
      BY <1>1, <1>3
    <3> HIDE DEF s, sum
    <3> QED BY <2>2, <3>1, KnownPop
  <2> HIDE DEF outer, sum
  <2> QED BY <1>1, <2>1, <2>3 DEF OwnStack, others
<1> QED BY <1>2, <1>3

(* A directory that is unlinked is empty.                                  *)
LEMMA UnlinkKnown ==
  ASSUME Safe, swapped = {}, NEW c \in Calls, Known(frames[c], present),
         Unlink(c)
  PROVE  OwnStack(c)
<1>1. /\ frames[c] # << >> /\ SafeFrame(Top(c)) /\ Top(c).at = "unlink"
      /\ SafeStack(frames[c]) /\ Top(c) = frames[c][Len(frames[c])]
  BY TopIsSafe DEF Unlink, At, Top, Depth
<1>2. CASE Top(c).path \notin present
  <2>1. Return(c, npos) /\ UNCHANGED <<present, others>>
    BY <1>2 DEF Unlink
  <2> QED BY <1>1, <1>2, <2>1, Counts, ReturnKnown
<1>3. CASE Top(c).path \in present /\ Top(c).path \in locked
  <2>1. Fail(c, "EACCES") /\ UNCHANGED <<present, others>>
    BY <1>3 DEF Unlink
  <2> QED BY <1>1, <1>3, <2>1, StopKnown
<1>4. CASE Top(c).path \in present /\ Top(c).path \notin locked
  <2>1. Len(frames[c]) \in 1..Len(frames[c])
    BY <1>1 DEF SafeStack
  <2>2. Kind[Top(c).path] = "directory" => Children(Top(c).path) \cap present = {}
    BY <1>1, <2>1 DEF Known, KnownFrame
  <2>3. Return(c, Top(c).count) /\ present' = present \ {Top(c).path} /\ UNCHANGED others
    BY <1>4, <2>2, Unswapped DEF Unlink, Safe
  <2>4. Top(c).count \in 0..npos
    BY <1>1 DEF SafeFrame, Frames
  <2> QED BY <1>1, <2>3, <2>4, ReturnKnown
<1> QED BY <1>2, <1>3, <1>4

-----------------------------------------------------------------------------
(* A tree without obstacles, and everything that was read of it is known.  *)
Clear == locked = {} /\ closed = {} /\ created = {} /\ swapped = {}

RaceInv ==
  Clear => /\ \A c \in Calls : Known(frames[c], present)
           /\ RacesAreSilent

(* Calls that have just begun know everything: they have read nothing yet. *)
LEMMA RaceInit == Init => RaceInv
<1> SUFFICES ASSUME Init PROVE RaceInv
  OBVIOUS
<1>1. ASSUME NEW c \in Calls PROVE Known(frames[c], present)
  BY DEF Init, Known, KnownFrame, Frame
<1>2. \A c \in Calls : ~result[c].done
  BY DEF Init
<1> QED BY <1>1, <1>2 DEF RaceInv, RacesAreSilent, Failed, Done

(* What other programs have made stays made, and nobody changes what may   *)
(* be read or unlinked.                                                    *)
LEMMA OthersGrow ==
  ASSUME [Next]_vars
  PROVE  /\ created \subseteq created' /\ swapped \subseteq swapped'
         /\ UNCHANGED <<locked, closed>>
BY DEF Next, Step, SymLinkStatus, OpenDirectory, NextEntry, EndOfDirectory, Unlink,
       Create, Vanish, Relink, vars, others

(* The stack of a call knows of everything that is still there, whatever   *)
(* the other calls and programs unlink.                                    *)
LEMMA RaceStep == Safe /\ RaceInv /\ [Next]_vars => RaceInv'
<1> SUFFICES ASSUME Safe, RaceInv, [Next]_vars, Clear'
             PROVE  (\A c \in Calls : Known(frames'[c], present')) /\ RacesAreSilent'
  BY DEF RaceInv
<1>1. Clear
  BY OthersGrow DEF Clear
<1>2. \A c \in Calls : Known(frames[c], present)
  BY <1>1 DEF RaceInv
<1>3. \A c \in Calls : Failed(c) => result[c].err = "EIO"
  BY <1>1 DEF RaceInv, RacesAreSilent, Clear
<1>4. ASSUME NEW c \in Calls, Step(c)
      PROVE  (\A d \in Calls : Known(frames'[d], present')) /\ RacesAreSilent'
  <2>1. OwnStack(c)
    BY <1>1, <1>2, <1>4, SymLinkStatusKnown, OpenDirectoryKnown, NextEntryKnown,
       EndOfDirectoryKnown, UnlinkKnown DEF Step, Clear
  <2>2. \A d \in Calls : Known(frames'[d], present')
    BY <1>2, <2>1, KnownShrinks DEF OwnStack
  <2>3. \A d \in Calls : Failed(d)' => result'[d].err = "EIO"
    BY <1>1, <1>3, <2>1 DEF OwnStack, Stopped, Clear, Failed, Done
  <2> QED BY <2>2, <2>3 DEF RacesAreSilent
<1>5. ASSUME NEW n \in Nodes, Vanish(n)
      PROVE  (\A d \in Calls : Known(frames'[d], present')) /\ RacesAreSilent'
  <2>1. present' \subseteq present /\ UNCHANGED <<frames, result>>
    BY <1>5 DEF Vanish
  <2> QED BY <1>2, <1>3, <2>1, KnownShrinks DEF RacesAreSilent, Failed, Done
<1>6. ASSUME NEW n \in Nodes, Create(n) \/ Relink(n) PROVE FALSE
  BY <1>6 DEF Create, Relink, Clear
<1>7. CASE UNCHANGED vars
  BY <1>2, <1>3, <1>7 DEF vars, RacesAreSilent, Failed, Done
<1> QED BY <1>4, <1>5, <1>6, <1>7 DEF Next

(* In a tree without obstacles, and as long as nobody creates anything in  *)
(* it or makes a link of a directory, any number of calls that race each   *)
(* other and other programs that unlink report no error but that of a disk *)
(* that cannot be read: a directory a call comes to unlink is always empty *)
(* by then.                                                                *)
THEOREM RacesStaySilent == Spec => []RacesAreSilent
<1>1. RaceInv => RacesAreSilent
  BY DEF RaceInv, Clear, RacesAreSilent
<1> QED BY <1>1, RaceInit, RaceStep, AlwaysSafe, PTL DEF Spec

-----------------------------------------------------------------------------
(* A stack goes down from the root through directories that were open, and *)
(* what it works on is only there as long as what it is in is there.       *)
UprightFrame(s, i, here) ==
  /\ s[i].at \in {"scan", "unlink"} /\ Kind[s[i].path] = "directory" =>
       s[i].path \notin closed
  /\ s[i].at = "scan" => s[i].path \in here \/ Children(s[i].path) \cap here = {}
  /\ i # Len(s) => s[i].at = "scan" /\ s[i + 1].path \in Children(s[i].path)
  /\ \A j \in 1..Len(s) : j > i /\ s[j].path \in here => s[i].path \in here

Upright(s, here) ==
  /\ s # << >> => s[1].path = Root
  /\ \A i \in 1..Len(s) : UprightFrame(s, i, here)

(* A step of the innermost frame.                                          *)
LEMMA UprightMoves ==
  ASSUME NEW s, SafeStack(s), s # << >>, NEW here, Upright(s, here),
         NEW t, SafeStack(t), Len(t) = Len(s),
         \A i \in 1..Len(s) : t[i].path = s[i].path,
         \A i \in 1..Len(s) : i # Len(s) => t[i].at = s[i].at,
         t[Len(s)].at \in {"scan", "unlink"} /\ Kind[s[Len(s)].path] = "directory" =>
           s[Len(s)].path \notin closed,
         t[Len(s)].at = "scan" =>
           s[Len(s)].path \in here \/ Children(s[Len(s)].path) \cap here = {}
  PROVE  Upright(t, here)
<1>1. Len(s) \in Nat \ {0}
  BY DEF SafeStack
<1>2. t[1].path = Root
  BY <1>1 DEF Upright
<1>3. ASSUME NEW i \in 1..Len(s) PROVE UprightFrame(t, i, here)
  <2>1. UprightFrame(s, i, here)
    BY DEF Upright
  <2>2. i # Len(s) => t[i + 1].path = s[i + 1].path
    BY <1>1
  <2>3. CASE i = Len(s)
    BY <1>1, <2>1, <2>3 DEF UprightFrame
  <2>4. CASE i # Len(s)
    BY <2>1, <2>2, <2>4 DEF UprightFrame
  <2> QED BY <2>3, <2>4
<1> QED BY <1>2, <1>3 DEF Upright

(* The recursion goes to an entry of the directory that is being read.     *)
LEMMA UprightPush ==
  ASSUME NEW s, SafeStack(s), s # << >>, NEW here, Upright(s, here),
         s[Len(s)].at = "scan", NEW n \in Children(s[Len(s)].path),
         NEW t, SafeStack(t), Len(t) = Len(s) + 1, t[Len(s) + 1] = Frame(n),
         \A i \in 1..Len(s) : t[i].path = s[i].path /\ t[i].at = s[i].at
  PROVE  Upright(t, here)
<1>1. Len(s) \in Nat \ {0}
  BY DEF SafeStack
<1>2. t[1].path = Root
  BY <1>1 DEF Upright
<1>3. t[Len(s) + 1].path = n /\ t[Len(s) + 1].at = "stat"
  BY DEF Frame
<1>4. n \in here => s[Len(s)].path \in here
  <2>1. UprightFrame(s, Len(s), here)
    BY <1>1 DEF Upright
  <2> QED BY <2>1 DEF UprightFrame
<1>5. ASSUME NEW i \in 1..Len(s) PROVE UprightFrame(t, i, here)
  <2>1. UprightFrame(s, i, here)
    BY DEF Upright
  <2>2. t[i].at = "scan"
    BY <1>1, <2>1 DEF UprightFrame
  <2>3. t[i + 1].path \in Children(t[i].path)
    <3>1. CASE i = Len(s)
      BY <1>3, <3>1
    <3>2. CASE i # Len(s)
      <4>1. i + 1 \in 1..Len(s)
        BY <1>1, <3>2
      <4> QED BY <2>1, <3>2, <4>1 DEF UprightFrame
    <3> QED BY <3>1, <3>2
  <2>4. ASSUME NEW j \in 1..Len(t), j > i, t[j].path \in here
        PROVE  t[i].path \in here
    <3>1. CASE j = Len(s) + 1
      <4>1. s[Len(s)].path \in here
        BY <1>3, <1>4, <2>4, <3>1
      <4> QED BY <1>1, <2>1, <4>1 DEF UprightFrame
    <3>2. CASE j # Len(s) + 1
      <4>1. j \in 1..Len(s)
        BY <1>1, <3>2
      <4> QED BY <2>1, <2>4, <4>1 DEF UprightFrame
    <3> QED BY <3>1, <3>2
  <2> QED BY <2>1, <2>2, <2>3, <2>4 DEF UprightFrame
<1>6. UprightFrame(t, Len(s) + 1, here)
  BY <1>1, <1>3 DEF UprightFrame
<1>7. \A i \in 1..Len(t) : i \in 1..Len(s) \/ i = Len(s) + 1
  BY <1>1
<1> QED BY <1>2, <1>5, <1>6, <1>7 DEF Upright

(* A frame returns to the one below.                                       *)
LEMMA UprightPop ==
  ASSUME NEW s, SafeStack(s), Len(s) > 1, NEW here, Upright(s, here),
         NEW t, SafeStack(t), Len(t) = Len(s) - 1,
         \A i \in 1..Len(t) : t[i].path = s[i].path /\ t[i].at = s[i].at
  PROVE  Upright(t, here)
<1>1. Len(s) \in Nat \ {0}
  BY DEF SafeStack
<1>2. t[1].path = Root
  BY <1>1 DEF Upright
<1>3. ASSUME NEW i \in 1..Len(t) PROVE UprightFrame(t, i, here)
  <2>1. i \in 1..Len(s) /\ UprightFrame(s, i, here)
    BY <1>1 DEF Upright
  <2>2. i # Len(t) => t[i + 1].path = s[i + 1].path
    BY <1>1
  <2>3. \A j \in 1..Len(t) : j \in 1..Len(s)
    BY <1>1
  <2>4. i # Len(s)
    BY <1>1
  <2> QED BY <2>1, <2>2, <2>3, <2>4 DEF UprightFrame
<1> QED BY <1>2, <1>3 DEF Upright

(* A node that is unlinked has no entries: a frame on it has nothing above *)
(* that is still there.                                                    *)
LEMMA UprightShrinks ==
  ASSUME NEW s, SafeStack(s), NEW here, Upright(s, here), NEW p,
         Kind[p] = "directory" => Children(p) \cap here = {}
  PROVE  Upright(s, here \ {p})
<1>1. Len(s) \in Nat
  BY DEF SafeStack
<1> SUFFICES ASSUME NEW i \in 1..Len(s) PROVE UprightFrame(s, i, here \ {p})
  BY DEF Upright
<1>2. UprightFrame(s, i, here) /\ SafeFrame(s[i])
  BY DEF Upright, SafeStack
<1>3. s[i].at = "scan" /\ s[i].path = p => Children(p) \cap here = {}
  BY <1>2 DEF SafeFrame
<1>4. ASSUME NEW j \in 1..Len(s), j > i, s[j].path \in here \ {p}
      PROVE  s[i].path \in here \ {p}
  <2>1. s[i].path \in here /\ i # Len(s) /\ i + 1 \in 1..Len(s)
    BY <1>1, <1>2, <1>4 DEF UprightFrame
  <2>2. s[i + 1].path \in here
    <3>1. UprightFrame(s, i + 1, here)
      BY <2>1 DEF Upright
    <3>2. j = i + 1 \/ j > i + 1
      BY <1>4
    <3> QED BY <1>4, <3>1, <3>2 DEF UprightFrame
  <2>3. s[i].path # p
    BY <1>2, <1>3, <2>1, <2>2 DEF UprightFrame
  <2> QED BY <2>1, <2>3
<1> QED BY <1>2, <1>3, <1>4 DEF UprightFrame

(* A call that has finished has an empty stack.                            *)
LEMMA FinishUpright ==
  ASSUME Safe, NEW c \in Calls, NEW k, NEW e, Finish(c, k, e), NEW here
  PROVE  Upright(frames'[c], here)
<1>1. frames'[c] = << >>
  BY DEF Finish, Safe, TypeOK
<1> QED BY <1>1 DEF Upright

LEMMA FailUpright ==
  ASSUME Safe, NEW c \in Calls, NEW e, Fail(c, e), NEW here
  PROVE  Upright(frames'[c], here)
BY FinishUpright DEF Fail

(* A call whose innermost frame goes on.                                   *)
LEMMA TopUpright ==
  ASSUME Safe, Safe', NEW c \in Calls, frames[c] # << >>, NEW here, Upright(frames[c], here),
         NEW g, g.path = Top(c).path,
         g.at \in {"scan", "unlink"} /\ Kind[g.path] = "directory" => g.path \notin closed,
         g.at = "scan" => g.path \in here,
         frames' = [frames EXCEPT ![c] = [@ EXCEPT ![Depth(c)] = g]]
  PROVE  Upright(frames'[c], here)
<1> DEFINE s == frames[c]
           t == frames'[c]
<1>1. SafeStack(s) /\ SafeStack(t) /\ Len(s) \in Nat \ {0}
  <2>1. SafeStack(s) /\ SafeStack(t)
    BY DEF Safe
  <2>2. Len(s) \in Nat /\ Len(s) > 0
    BY TopIsSafe DEF Depth
  <2> QED BY <2>1, <2>2
<1>2. t = [s EXCEPT ![Len(s)] = g] /\ g.path = s[Len(s)].path
  BY DEF Safe, TypeOK, Depth, Top
<1> HIDE DEF s, t
<1>3. /\ Len(t) = Len(s) /\ t[Len(s)] = g
      /\ \A i \in 1..Len(s) : i # Len(s) => t[i] = s[i]
  BY <1>1, <1>2 DEF SafeStack
<1>4. Upright(s, here) /\ s # << >>
  BY DEF s
<1>5. \A i \in 1..Len(s) : t[i].path = s[i].path
  BY <1>2, <1>3
<1>6. /\ g.at \in {"scan", "unlink"} /\ Kind[s[Len(s)].path] = "directory" =>
             s[Len(s)].path \notin closed
      /\ g.at = "scan" => s[Len(s)].path \in here
  BY <1>2
<1>7. \A i \in 1..Len(s) : i # Len(s) => t[i].at = s[i].at
  BY <1>3
<1>8. Upright(t, here)
  BY <1>1, <1>3, <1>4, <1>5, <1>6, <1>7, UprightMoves
<1> QED BY <1>8 DEF t

LEMMA ReturnUpright ==
  ASSUME Safe, Safe', NEW c \in Calls, frames[c] # << >>, NEW here,
         Upright(frames[c], here), NEW k, Return(c, k)
  PROVE  Upright(frames'[c], here)
<1>1. CASE Depth(c) = 1
  BY <1>1, FinishUpright DEF Return
<1>2. CASE Depth(c) # 1
  <2>1. SafeStack(frames[c]) /\ SafeStack(frames'[c])
    BY DEF Safe
  <2> QED BY <1>2, <2>1, ReturnShape, UprightPop
<1> QED BY <1>1, <1>2

(* Each step of a call keeps its stack upright, before anything is gone.   *)
LEMMA StepUpright ==
  ASSUME Safe, Safe', swapped = {}, NEW c \in Calls, Upright(frames[c], present),
         Step(c)
  PROVE  Upright(frames'[c], present)
<1>1. /\ frames[c] # << >> /\ SafeFrame(Top(c)) /\ SafeStack(frames[c])
      /\ Depth(c) \in Nat /\ Depth(c) > 0 /\ Depth(c) = Len(frames[c])
      /\ Top(c) = frames[c][Len(frames[c])] /\ frames \in [Calls -> Seq(Frames)]
      /\ Top(c) \in Frames
  <2>1. frames[c] # << >>
    BY DEF Step, SymLinkStatus, OpenDirectory, NextEntry, EndOfDirectory, Unlink, At
  <2> QED BY <2>1, TopIsSafe DEF Depth, Top, Safe, TypeOK, SafeFrame
<1>2. UprightFrame(frames[c], Len(frames[c]), present)
  <2>1. Len(frames[c]) \in 1..Len(frames[c])
    BY <1>1
  <2> QED BY <2>1 DEF Upright
<1>3. ASSUME NEW step \in {"open", "unlink"}, GoTo(c, step),
             step = "unlink" /\ Kind[Top(c).path] = "directory" => Top(c).at = "scan"
      PROVE  Upright(frames'[c], present)
  <2> DEFINE g == [Top(c) EXCEPT !.at = step]
  <2>1. g.path = Top(c).path /\ g.at = step
    BY <1>1 DEF Frames
  <2>2. frames' = [frames EXCEPT ![c] = [@ EXCEPT ![Depth(c)] = g]]
    BY <1>1, <1>3 DEF GoTo, Top, Depth
  <2>3. step = "unlink" /\ Kind[Top(c).path] = "directory" => Top(c).path \notin closed
    BY <1>1, <1>2, <1>3 DEF UprightFrame
  <2> HIDE DEF g
  <2> QED BY <1>1, <2>1, <2>2, <2>3, TopUpright
<1>4. CASE SymLinkStatus(c)
  <2>1. CASE \E e : Fail(c, e)
    BY <2>1, FailUpright
  <2>2. CASE ~\E e : Fail(c, e)
    <3>1. GoTo(c, IF Kind[Top(c).path] = "directory" THEN "open" ELSE "unlink")
      BY <1>4, <2>2, Unswapped DEF SymLinkStatus, Safe
    <3> QED BY <1>3, <3>1
  <2> QED BY <2>1, <2>2
<1>5. CASE OpenDirectory(c)
  <2>1. CASE \E e : Fail(c, e)
    BY <2>1, FailUpright
  <2>2. CASE ~\E e : Fail(c, e)
    <3>1. Scan(c) /\ Top(c).path \in present /\ Top(c).path \notin closed
      BY <1>5, <2>2 DEF OpenDirectory
    <3>2. PICK later \in SUBSET (Children(Top(c).path) \cap (Late \ created)) :
          frames' = [frames EXCEPT ![c][Depth(c)] =
            [Top(c) EXCEPT !.at = "scan",
                           !.left = (Children(Top(c).path) \cap present) \cup later]]
      BY <3>1 DEF Scan
    <3> DEFINE g == [Top(c) EXCEPT !.at = "scan",
                                   !.left = (Children(Top(c).path) \cap present) \cup later]
    <3>3. g.path = Top(c).path /\ g.at = "scan"
      BY <1>1 DEF Frames
    <3>4. frames' = [frames EXCEPT ![c] = [@ EXCEPT ![Depth(c)] = g]]
      BY <3>2
    <3> HIDE DEF g
    <3> QED BY <1>1, <3>1, <3>3, <3>4, TopUpright
  <2> QED BY <2>1, <2>2
<1>6. CASE NextEntry(c)
  <2>1. PICK n \in Top(c).left :
          frames' = [frames EXCEPT ![c] =
            Append([frames[c] EXCEPT ![Depth(c)].left = @ \ {n}], Frame(n))]
    BY <1>6 DEF NextEntry
  <2> DEFINE s == frames[c]
             g == [Top(c) EXCEPT !.left = @ \ {n}]
             r == [s EXCEPT ![Len(s)] = g]
             t == frames'[c]
  <2>2. t = Append(r, Frame(n))
    BY <1>1, <2>1 DEF Top, Depth
  <2>3. SafeStack(t) /\ n \in Children(s[Len(s)].path) /\ s[Len(s)].at = "scan"
    BY <1>1, <1>6 DEF Safe, SafeFrame, NextEntry, At
  <2>4. SafeFrame(g) /\ g.path = s[Len(s)].path /\ g.at = s[Len(s)].at
    BY <1>1 DEF SafeFrame, Frames
  <2>5. SafeStack(s) /\ s # << >> /\ Upright(s, present)
    BY <1>1
  <2>6. SafeFrame(Frame(n))
    <3>1. n \in Inside
      BY <1>1, <1>6, ChildrenInside DEF SafeFrame, NextEntry, At
    <3> QED BY <3>1, NewFrame
  <2> HIDE DEF s, g, t
  <2>7. SafeStack(r) /\ Len(r) = Len(s) /\ r[Len(s)] = g
        /\ \A i \in 1..Len(s) : i # Len(s) => r[i] = s[i]
    BY <2>4, <2>5, Replace
  <2> HIDE DEF r
  <2>8. /\ Len(t) = Len(s) + 1 /\ t[Len(s) + 1] = Frame(n)
        /\ \A i \in 1..Len(s) : t[i] = r[i]
    BY <2>2, <2>6, <2>7, Push
  <2>9. \A i \in 1..Len(s) : t[i].path = s[i].path /\ t[i].at = s[i].at
    BY <2>4, <2>7, <2>8
  <2>10. Upright(t, present)
    BY <2>3, <2>5, <2>8, <2>9, UprightPush
  <2> QED BY <2>10 DEF t
<1>7. CASE EndOfDirectory(c)
  <2>1. CASE \E e : Fail(c, e)
    BY <2>1, FailUpright
  <2>2. CASE ~\E e : Fail(c, e)
    <3>1. GoTo(c, "unlink") /\ Top(c).at = "scan"
      BY <1>7, <2>2 DEF EndOfDirectory, At
    <3> QED BY <1>3, <3>1
  <2> QED BY <2>1, <2>2
<1>8. CASE Unlink(c)
  <2>1. CASE \E e : Fail(c, e)
    BY <2>1, FailUpright
  <2>2. CASE ~\E e : Fail(c, e)
    <3>1. \E k : Return(c, k)
      BY <1>8, <2>2 DEF Unlink
    <3> QED BY <1>1, <3>1, ReturnUpright
  <2> QED BY <2>1, <2>2
<1> QED BY <1>4, <1>5, <1>6, <1>7, <1>8 DEF Step

-----------------------------------------------------------------------------
(* What keeps the root: nodes from it down to one that cannot be unlinked  *)
(* or not be read, each of which is not empty while the next is there.     *)
Stuck(A) ==
  /\ Root \in A /\ A \subseteq present
  /\ \A a \in A : \/ a \in locked
                  \/ Kind[a] = "directory" /\ (a \in closed \/ Children(a) \cap A # {})

Blocked == \E A \in SUBSET Nodes : Stuck(A)

(* A call stops because something keeps the root: the nodes on its stack.  *)
LEMMA StoppedBlocks ==
  ASSUME Safe, NEW c \in Calls, Upright(frames[c], present), Stopped(c)
  PROVE  Blocked
<1> DEFINE s == frames[c]
           A == {s[i].path : i \in 1..Len(s)}
<1>1. SafeStack(s) /\ Len(s) \in Nat \ {0} /\ Upright(s, present)
  BY TopIsSafe DEF Stopped, Depth
<1>2. /\ s[Len(s)].path \in present
      /\ \/ s[Len(s)].path \in locked
         \/ Kind[s[Len(s)].path] = "directory" /\ s[Len(s)].path \in closed
  BY DEF Stopped, Top, Depth
<1> HIDE DEF s
<1>3. ASSUME NEW i \in 1..Len(s)
      PROVE  /\ s[i].path \in present
             /\ \/ s[i].path \in locked
                \/ /\ Kind[s[i].path] = "directory"
                   /\ s[i].path \in closed \/ Children(s[i].path) \cap A # {}
  <2>1. CASE i = Len(s)
    BY <1>2, <2>1
  <2>2. CASE i # Len(s)
    <3>1. UprightFrame(s, i, present) /\ SafeFrame(s[i])
      BY <1>1 DEF Upright, SafeStack
    <3>2. Len(s) \in 1..Len(s) /\ Len(s) > i /\ i + 1 \in 1..Len(s)
      BY <1>1, <2>2
    <3>3. s[i].path \in present /\ s[i].at = "scan" /\ s[i + 1].path \in Children(s[i].path)
      BY <1>2, <2>2, <3>1, <3>2 DEF UprightFrame
    <3>4. Kind[s[i].path] = "directory"
      BY <3>1, <3>3 DEF SafeFrame
    <3> QED BY <3>2, <3>3, <3>4
  <2> QED BY <2>1, <2>2
<1>4. Root \in A
  <2>1. 1 \in 1..Len(s) /\ s # << >>
    BY <1>1
  <2> QED BY <1>1, <2>1 DEF Upright
<1>5. A \subseteq Nodes
  BY <1>3 DEF Safe, TypeOK
<1>6. Stuck(A)
  BY <1>3, <1>4 DEF Stuck
<1> QED BY <1>5, <1>6 DEF Blocked

(* No call unlinks what is in the way: it is locked, not empty, or it is a *)
(* directory that no call ever opened.                                     *)
LEMMA BlockedStays ==
  ASSUME Safe, Blocked, swapped = {}, NEW c \in Calls, Upright(frames[c], present),
         Step(c)
  PROVE  Blocked'
<1>1. PICK A \in SUBSET Nodes : Stuck(A)
  BY DEF Blocked
<1>2. UNCHANGED <<locked, closed>>
  BY DEF Step, SymLinkStatus, OpenDirectory, NextEntry, EndOfDirectory, Unlink, others
<1>3. A \subseteq present'
  <2>1. CASE UNCHANGED present
    BY <1>1, <2>1 DEF Stuck
  <2>2. CASE ~UNCHANGED present
    <3> DEFINE p == Top(c).path
    <3>1. /\ Unlink(c) /\ present' = present \ {p} /\ p \notin locked
          /\ Kind[p] = "directory" => Children(p) \cap present = {}
      BY <2>2, Unswapped
         DEF Step, SymLinkStatus, OpenDirectory, NextEntry, EndOfDirectory, Unlink, Safe
    <3>2. Kind[p] = "directory" => p \notin closed
      <4>1. frames[c] # << >> /\ Top(c).at = "unlink"
        BY <3>1 DEF Unlink, At
      <4>2. Len(frames[c]) \in 1..Len(frames[c])
        BY <4>1, TopIsSafe DEF Depth
      <4>3. UprightFrame(frames[c], Len(frames[c]), present)
        BY <4>2 DEF Upright
      <4> QED BY <4>1, <4>3 DEF UprightFrame, Top, Depth
    <3>3. p \notin A
      BY <1>1, <3>1, <3>2 DEF Stuck
    <3> QED BY <1>1, <3>1, <3>3 DEF Stuck
  <2> QED BY <2>1, <2>2
<1>4. Stuck(A)'
  BY <1>1, <1>2, <1>3 DEF Stuck
<1> QED BY <1>4 DEF Blocked

-----------------------------------------------------------------------------
(* Nobody else interferes.                                                 *)

(* What a call has removed does not come back, as each late node is        *)
(* created once, unless a link shows it again.                             *)
Gone ==
  created = {} /\ swapped = {} => /\ present \cap Late = {}
                                  /\ \A c \in Calls : removed[c] \cap present = {}

RemainsInv ==
  /\ Gone
  /\ Undisturbed =>
       /\ \A c \in Calls : Known(frames[c], present) /\ Upright(frames[c], present)
       /\ \A c \in Calls : Failed(c) /\ result[c].err # "EIO" => Blocked

LEMMA RemainsInit == Init => RemainsInv
<1> SUFFICES ASSUME Init PROVE RemainsInv
  OBVIOUS
<1>1. ASSUME NEW c \in Calls
      PROVE  Known(frames[c], present) /\ Upright(frames[c], present)
  <2>1. frames[c] = <<Frame(Root)>> /\ Len(frames[c]) = 1 /\ frames[c] # << >>
        /\ frames[c][1].path = Root /\ frames[c][1].at = "stat"
    BY DEF Init, Frame
  <2>2. UprightFrame(frames[c], 1, present)
    BY <2>1 DEF UprightFrame
  <2> QED BY <2>1, <2>2 DEF Known, KnownFrame, Upright
<1>2. /\ \A c \in Calls : ~result[c].done /\ removed[c] = {}
      /\ present \cap Late = {}
  BY DEF Init
<1> QED BY <1>1, <1>2 DEF RemainsInv, Gone, Failed, Done

(* A step of a call adds to what calls have removed what it takes away.    *)
LEMMA StepRemoves ==
  ASSUME Safe, NEW c \in Calls, Step(c)
  PROVE  /\ UNCHANGED others
         /\ \/ UNCHANGED <<present, removed>>
            \/ /\ present' = present \ Lost(Top(c).path) /\ Top(c).path \in present
               /\ removed' = [removed EXCEPT ![c] = @ \cup {Top(c).path}]
               /\ IsDirectory(Top(c).path) => Children(Top(c).path) \cap present = {}
BY DEF Step, SymLinkStatus, OpenDirectory, NextEntry, EndOfDirectory, Unlink

(* Where nothing has become a link, it takes away one node.                *)
LEMMA StepRemovesOne ==
  ASSUME Safe, swapped = {}, NEW c \in Calls, Step(c)
  PROVE  /\ UNCHANGED others
         /\ \/ UNCHANGED <<present, removed>>
            \/ /\ present' = present \ {Top(c).path} /\ Top(c).path \in present
               /\ removed' = [removed EXCEPT ![c] = @ \cup {Top(c).path}]
               /\ Kind[Top(c).path] = "directory" => Children(Top(c).path) \cap present = {}
BY StepRemoves, Unswapped DEF Safe

LEMMA GoneStep == Safe /\ Gone /\ [Next]_vars => Gone'
<1> SUFFICES ASSUME Safe, Gone, [Next]_vars, created' = {}, swapped' = {}
             PROVE  /\ present' \cap Late = {}
                    /\ \A d \in Calls : removed'[d] \cap present' = {}
  BY DEF Gone
<1>0. /\ created = {} /\ swapped = {} /\ present \cap Late = {}
      /\ \A d \in Calls : removed[d] \cap present = {}
  BY OthersGrow DEF Gone
<1>1. CASE UNCHANGED vars
  BY <1>0, <1>1 DEF vars
<1>2. ASSUME NEW c \in Calls, Step(c)
      PROVE  present' \subseteq present /\ \A d \in Calls : removed'[d] \cap present' = {}
  <2>1. removed \in [Calls -> SUBSET Nodes]
    BY DEF Safe, TypeOK
  <2> QED BY <1>0, <1>2, <2>1, StepRemovesOne
<1>3. ASSUME NEW n \in Nodes, Vanish(n)
      PROVE  present' \subseteq present /\ \A d \in Calls : removed'[d] \cap present' = {}
  BY <1>0, <1>3 DEF Vanish, others
<1>4. ASSUME NEW n \in Nodes, Create(n) \/ Relink(n) PROVE FALSE
  BY <1>4 DEF Create, Relink
<1> QED BY <1>0, <1>1, <1>2, <1>3, <1>4 DEF Next

(* Once disturbed, always disturbed.                                       *)
LEMMA UndisturbedBefore ==
  ASSUME Safe, Gone, [Next]_vars, Undisturbed'
  PROVE  Undisturbed /\ (UNCHANGED vars \/ \E c \in Calls : Step(c))
<1> DEFINE R == UNION {removed[c] : c \in Calls}
           S == UNION {removed'[c] : c \in Calls}
<1>0. created = {} /\ swapped = {}
  BY OthersGrow DEF Undisturbed
<1>1. CASE UNCHANGED vars
  BY <1>1 DEF vars, others, Undisturbed
<1>2. ASSUME NEW c \in Calls, Step(c) PROVE Undisturbed
  <2>1. present' \cup S = Nodes \ Late
    BY DEF Undisturbed
  <2>2. CASE UNCHANGED <<present, removed>>
    BY <1>0, <2>1, <2>2 DEF Undisturbed
  <2>3. CASE /\ present' = present \ {Top(c).path} /\ Top(c).path \in present
             /\ removed' = [removed EXCEPT ![c] = @ \cup {Top(c).path}]
    <3> DEFINE p == Top(c).path
    <3>1. removed \in [Calls -> SUBSET Nodes]
      BY DEF Safe, TypeOK
    <3>2. \A d \in Calls : removed'[d] = (IF d = c THEN removed[d] \cup {p} ELSE removed[d])
      BY <2>3, <3>1
    <3>3. S = R \cup {p}
      BY <3>2
    <3> HIDE DEF p, R, S
    <3>4. present' \cup S = present \cup R
      BY <2>3, <3>3 DEF p
    <3> QED BY <1>0, <2>1, <3>4 DEF Undisturbed, R
  <2> QED BY <1>0, <1>2, <2>2, <2>3, StepRemovesOne
<1>3. ASSUME NEW n \in Nodes, Vanish(n) PROVE FALSE
  <2>1. n \in present /\ present' = present \ {n} /\ UNCHANGED removed
    BY <1>0, <1>3, Unswapped DEF Vanish, Safe
  <2>2. \A c \in Calls : n \notin removed'[c]
    BY <1>0, <2>1 DEF Gone
  <2>3. n \in Nodes \ Late
    BY <1>0, <2>1 DEF Gone
  <2> QED BY <2>1, <2>2, <2>3 DEF Undisturbed
<1>4. ASSUME NEW n \in Nodes, Create(n) \/ Relink(n) PROVE FALSE
  BY <1>4 DEF Create, Relink, Undisturbed
<1> QED BY <1>1, <1>2, <1>3, <1>4 DEF Next

(* Calls keep knowing what is there and stay upright, and one that stops   *)
(* leaves what stopped it.                                                 *)
LEMMA RemainsStep == Safe /\ Safe' /\ RemainsInv /\ [Next]_vars => RemainsInv'
<1> SUFFICES ASSUME Safe, Safe', RemainsInv, [Next]_vars PROVE RemainsInv'
  OBVIOUS
<1>1. Gone'
  BY GoneStep DEF RemainsInv
<1>2. ASSUME Undisturbed'
      PROVE  /\ \A d \in Calls : Known(frames'[d], present') /\ Upright(frames[d], present)'
             /\ \A d \in Calls : Failed(d)' /\ result'[d].err # "EIO" => Blocked'
  <2>1. /\ Undisturbed /\ (UNCHANGED vars \/ \E c \in Calls : Step(c))
        /\ \A d \in Calls : Known(frames[d], present) /\ Upright(frames[d], present)
        /\ \A d \in Calls : Failed(d) /\ result[d].err # "EIO" => Blocked
        /\ swapped = {}
    BY <1>2, UndisturbedBefore DEF RemainsInv, Undisturbed
  <2>2. CASE UNCHANGED vars
    BY <2>1, <2>2 DEF vars, others, Known, KnownFrame, Upright, UprightFrame, Failed, Done,
                      Blocked, Stuck
  <2>3. ASSUME NEW c \in Calls, Step(c)
        PROVE  /\ \A d \in Calls : Known(frames'[d], present') /\ Upright(frames[d], present)'
               /\ \A d \in Calls : Failed(d)' /\ result'[d].err # "EIO" => Blocked'
    <3>1. OwnStack(c)
      BY <2>1, <2>3, SymLinkStatusKnown, OpenDirectoryKnown, NextEntryKnown,
         EndOfDirectoryKnown, UnlinkKnown DEF Step
    <3>2. \A d \in Calls : Known(frames'[d], present')
      BY <2>1, <3>1, KnownShrinks DEF OwnStack
    <3>3. ASSUME NEW d \in Calls PROVE Upright(frames[d], present)'
      <4>1. Upright(frames'[d], present)
        BY <2>1, <2>3, <3>1, StepUpright DEF OwnStack
      <4>2. SafeStack(frames'[d])
        BY DEF Safe
      <4>3. Upright(frames'[d], present')
        BY <2>1, <2>3, <4>1, <4>2, StepRemovesOne, UprightShrinks
      <4>4. closed' = closed
        BY <3>1 DEF OwnStack, others
      <4> QED BY <4>3, <4>4 DEF Upright, UprightFrame
    <3>4. Blocked => Blocked'
      BY <2>1, <2>3, BlockedStays
    <3>5. Stopped(c) => Blocked'
      BY <2>1, <3>4, StoppedBlocks
    <3>6. ASSUME NEW d \in Calls, Failed(d)', result'[d].err # "EIO" PROVE Blocked'
      <4>1. CASE result'[d] = result[d]
        BY <2>1, <3>4, <3>6, <4>1 DEF Failed, Done
      <4>2. CASE result'[d] # result[d]
        BY <3>1, <3>5, <3>6, <4>2 DEF OwnStack, Failed
      <4> QED BY <4>1, <4>2
    <3> QED BY <3>2, <3>3, <3>6
  <2> QED BY <2>1, <2>2, <2>3
<1> QED BY <1>1, <1>2 DEF RemainsInv

(* As long as only calls of remove_all are at work, and the disk can be    *)
(* read, a call that reports an error has met something that keeps the     *)
(* root from being removed by any of them, however they race.              *)
THEOREM ErrorsMeanItRemains == Spec => []ErrorMeansItRemains
<1>1. RemainsInv => ErrorMeansItRemains
  BY DEF RemainsInv, ErrorMeansItRemains, Blocked, Stuck
<1> QED BY <1>1, RemainsInit, RemainsStep, AlwaysSafe, PTL DEF Spec

-----------------------------------------------------------------------------
(* A call that is alone.                                                   *)

Alone(c) ==
  Undisturbed /\ \A other \in Calls \ {c} : frames[other] = <<Frame(Root)>>

(* Each frame has counted itself and its share of what the call removed.   *)
Shares(s, R, got) ==
  /\ \A n \in R : \E i \in 1..Len(s) : n \in got[i]
  /\ \A i, j \in 1..Len(s) : i # j => got[i] \cap got[j] = {}
  /\ \A i \in 1..Len(s) : s[i].count = 1 + Cardinality(got[i])

Counted(s, R) == \E got \in [1..Len(s) -> SUBSET R] : Shares(s, R, got)

(* Everything the call works on, or will, is there.                        *)
Here(s, here) ==
  \A i \in 1..Len(s) :
    /\ s[i].path \in here /\ s[i].left \ Late \subseteq here
    /\ i # Len(s) => s[i + 1].path \notin s[i].left

(* The frames below the innermost are those of the stack before.           *)
Below(s, t, k) ==
  \A i \in 1..k : /\ t[i].path = s[i].path /\ t[i].left = s[i].left
                  /\ t[i].count = s[i].count

LEMMA CountedMoves ==
  ASSUME NEW s, NEW t, Len(t) = Len(s), \A i \in 1..Len(s) : t[i].count = s[i].count,
         NEW R, Counted(s, R)
  PROVE  Counted(t, R)
BY DEF Counted, Shares

LEMMA CountedPush ==
  ASSUME NEW s, SafeStack(s), NEW t, Len(t) = Len(s) + 1,
         \A i \in 1..Len(s) : t[i].count = s[i].count, t[Len(t)].count = 1,
         NEW R, Counted(s, R)
  PROVE  Counted(t, R)
<1> DEFINE n == Len(s)
<1>1. n \in Nat
  BY DEF SafeStack
<1>2. PICK got \in [1..n -> SUBSET R] : Shares(s, R, got)
  BY DEF Counted
<1> DEFINE more == [i \in 1..(n + 1) |-> IF i = n + 1 THEN {} ELSE got[i]]
<1>3. more \in [1..(n + 1) -> SUBSET R]
  BY <1>1
<1>4. /\ more[n + 1] = {} /\ \A i \in 1..n : more[i] = got[i] /\ i \in 1..(n + 1)
      /\ \A i \in 1..(n + 1) : i \in 1..n \/ i = n + 1
  BY <1>1
<1> HIDE DEF n, more
<1>5. Cardinality({}) = 0
  BY FS_EmptySet
<1>6. Shares(t, R, more)
  <2>1. Len(t) = n + 1 /\ t[n + 1].count = 1 /\ \A i \in 1..n : t[i].count = s[i].count
    BY DEF n
  <2>2. \A i, j \in 1..(n + 1) : i # j => more[i] \cap more[j] = {}
    BY <1>2, <1>4 DEF Shares, n
  <2>3. \A i \in 1..(n + 1) : t[i].count = 1 + Cardinality(more[i])
    <3> SUFFICES ASSUME NEW i \in 1..(n + 1) PROVE t[i].count = 1 + Cardinality(more[i])
      OBVIOUS
    <3>0. \A k \in 1..n : s[k].count = 1 + Cardinality(got[k])
      BY <1>2 DEF Shares, n
    <3>1. CASE i \in 1..n
      <4>1. s[i].count = 1 + Cardinality(got[i])
        BY <3>0, <3>1
      <4>2. t[i].count = s[i].count /\ more[i] = got[i]
        BY <1>4, <2>1, <3>1
      <4> QED BY <4>1, <4>2
    <3>2. CASE i = n + 1
      <4>1. more[i] = {} /\ t[i].count = 1
        BY <1>4, <2>1, <3>2
      <4> QED BY <1>5, <4>1
    <3> QED BY <1>4, <3>1, <3>2
  <2>4. \A m \in R : \E i \in 1..(n + 1) : m \in more[i]
    BY <1>2, <1>4 DEF Shares, n
  <2> QED BY <2>1, <2>2, <2>3, <2>4 DEF Shares
<1> QED BY <1>3, <1>6 DEF Counted, n

(* A sum below the width of the counter is not reduced.                    *)
LEMMA NoWrap ==
  ASSUME NEW m \in Nat \ {0}, NEW k \in Nat, k < m
  PROVE  k % m = k
OBVIOUS

(* The innermost frame returns: its share and its node go to the next.     *)
LEMMA CountedPop ==
  ASSUME NEW s, SafeStack(s), Len(s) > 1, NEW t, Len(t) = Len(s) - 1,
         NEW R \in SUBSET Nodes, Counted(s, R), NEW p \in Nodes \ R,
         NEW q \in Nodes \ (R \cup {p}),
         \A i \in 1..Len(t) : i # Len(t) => t[i].count = s[i].count,
         t[Len(t)].count = Plus(s[Len(t)].count, s[Len(s)].count)
  PROVE  Counted(t, R \cup {p})
<1> DEFINE n == Len(s) - 1
<1>1. n \in Nat \ {0} /\ Len(s) = n + 1 /\ Len(t) = n /\ n \in 1..n
      /\ n \in 1..(n + 1) /\ n + 1 \in 1..(n + 1)
  BY DEF SafeStack
<1>2. PICK got \in [1..(n + 1) -> SUBSET R] : Shares(s, R, got)
  BY <1>1 DEF Counted
<1> HIDE DEF n
<1> DEFINE both == got[n] \cup got[n + 1] \cup {p}
           less == [i \in 1..n |-> IF i = n THEN both ELSE got[i]]
<1>3. less \in [1..n -> SUBSET (R \cup {p})]
  <2>1. \A i \in 1..n : got[i] \in SUBSET R
    BY <1>1
  <2>2. both \in SUBSET (R \cup {p})
    BY <1>1
  <2> HIDE DEF both
  <2> QED BY <2>1, <2>2
<1>4. less[n] = both /\ \A i \in 1..n : i # n => less[i] = got[i]
  BY <1>1
<1>5. IsFiniteSet(R) /\ IsFiniteSet(got[n]) /\ IsFiniteSet(got[n + 1]) /\ IsFiniteSet(both)
  <2>1. got[n] \in SUBSET Nodes /\ got[n + 1] \in SUBSET Nodes /\ both \in SUBSET Nodes
    BY <1>1
  <2> HIDE DEF both
  <2> QED BY <2>1, FS_Subset, WidthAssumption
<1>6. Cardinality(both) = Cardinality(got[n]) + Cardinality(got[n + 1]) + 1
  <2> DEFINE g == got[n] \cup got[n + 1]
  <2>1. got[n] \cap got[n + 1] = {}
    BY <1>1, <1>2 DEF Shares
  <2>2. /\ IsFiniteSet(g)
        /\ Cardinality(g) = Cardinality(got[n]) + Cardinality(got[n + 1]) - Cardinality({})
    <3>1. /\ IsFiniteSet(g)
          /\ Cardinality(g) = Cardinality(got[n]) + Cardinality(got[n + 1])
                               - Cardinality(got[n] \cap got[n + 1])
      BY <1>5, FS_Union
    <3> QED BY <2>1, <3>1
  <2>3. Cardinality({}) = 0 /\ Cardinality(got[n]) \in Nat /\ Cardinality(got[n + 1]) \in Nat
    BY <1>5, FS_EmptySet, FS_CardinalityType
  <2>4. p \notin g
    BY <1>1
  <2>5. Cardinality(g \cup {p}) = Cardinality(g) + 1
    BY <2>2, <2>4, FS_AddElement
  <2> HIDE DEF g
  <2>6. Cardinality(g \cup {p}) = Cardinality(got[n]) + Cardinality(got[n + 1]) + 1
    BY <2>2, <2>3, <2>5
  <2> QED BY <2>6 DEF g
<1>7. 1 + Cardinality(both) < Modulus /\ Cardinality(both) \in Nat
  <2>1. q \notin both /\ both \cup {q} \in SUBSET Nodes
    BY <1>1
  <2> HIDE DEF both
  <2>2. Cardinality(both \cup {q}) = Cardinality(both) + 1
    BY <1>5, <2>1, FS_AddElement
  <2>3. Cardinality(both \cup {q}) <= Cardinality(Nodes)
    BY <2>1, FS_Subset, WidthAssumption
  <2>4. Cardinality(both) \in Nat /\ Cardinality(Nodes) \in Nat
    BY <1>5, FS_CardinalityType, WidthAssumption
  <2> QED BY <2>2, <2>3, <2>4, ModulusAssumption, WidthAssumption
<1>8. t[n].count = 1 + Cardinality(both)
  <2>1. s[n].count = 1 + Cardinality(got[n]) /\ s[n + 1].count = 1 + Cardinality(got[n + 1])
    BY <1>1, <1>2 DEF Shares
  <2>2. Cardinality(got[n]) \in Nat /\ Cardinality(got[n + 1]) \in Nat
    BY <1>5, FS_CardinalityType
  <2> HIDE DEF both
  <2>3. s[n].count + s[n + 1].count = 1 + Cardinality(both)
    BY <1>6, <2>1, <2>2
  <2>4. t[n].count = (1 + Cardinality(both)) % Modulus
    BY <1>1, <2>3 DEF Plus
  <2> DEFINE k == 1 + Cardinality(both)
  <2>5. k \in Nat /\ k < Modulus /\ t[n].count = k % Modulus
    BY <1>7, <2>4
  <2> HIDE DEF k
  <2>6. k % Modulus = k
    <3>1. Modulus \in Nat \ {0}
      BY ModulusAssumption
    <3> QED BY <2>5, <3>1, NoWrap
  <2>7. t[n].count = k
    BY <2>5, <2>6
  <2> QED BY <2>7 DEF k
<1>9. Shares(t, R \cup {p}, less)
  <2>1. \A i, j \in 1..n : i # j => less[i] \cap less[j] = {}
    <3> SUFFICES ASSUME NEW i \in 1..n, NEW j \in 1..n, i # j, NEW x \in less[i], x \in less[j]
                 PROVE FALSE
      OBVIOUS
    <3>1. \A k \in 1..n : k \in 1..(n + 1) /\ k # n + 1
      BY <1>1
    <3>2. \A k \in 1..n : got[k] \subseteq R
      BY <3>1
    <3>0. \A k, m \in 1..n : k # m => got[k] \cap got[m] = {}
      BY <1>1, <1>2, <3>1 DEF Shares
    <3>3. CASE i # n /\ j # n
      BY <1>4, <3>0, <3>3
    <3>4. CASE i = n
      BY <1>1, <1>2, <1>4, <3>1, <3>2, <3>4 DEF Shares
    <3>5. CASE j = n
      BY <1>1, <1>2, <1>4, <3>1, <3>2, <3>5 DEF Shares
    <3> QED BY <3>3, <3>4, <3>5
  <2>2. ASSUME NEW m \in R \cup {p} PROVE \E i \in 1..n : m \in less[i]
    <3>1. CASE m \in R
      <4>1. PICK i \in 1..(n + 1) : m \in got[i]
        BY <1>2, <1>1, <3>1 DEF Shares
      <4>2. (i \in 1..n /\ i # n) \/ i = n \/ i = n + 1
        BY <1>1
      <4> QED BY <1>1, <1>4, <4>1, <4>2
    <3>2. CASE m = p
      BY <1>1, <1>4, <3>2
    <3> QED BY <3>1, <3>2
  <2>3. \A i \in 1..n : t[i].count = 1 + Cardinality(less[i])
    <3>1. \A i \in 1..n : i # n => t[i].count = s[i].count /\ i \in 1..(n + 1)
      BY <1>1
    <3> HIDE DEF less, both
    <3> QED BY <1>1, <1>2, <1>4, <1>8, <3>1 DEF Shares
  <2> QED BY <1>1, <2>1, <2>2, <2>3 DEF Shares
<1> QED BY <1>1, <1>3, <1>9 DEF Counted

-----------------------------------------------------------------------------
(* No node is twice on a stack: the nodes between would be a cycle that    *)
(* does not lead to the root.                                              *)
LEMMA Distinct ==
  ASSUME NEW s, SafeStack(s), NEW here, Upright(s, here),
         NEW i \in 1..Len(s), NEW j \in 1..Len(s), i < j
  PROVE  s[i].path # s[j].path
<1> SUFFICES ASSUME s[i].path = s[j].path PROVE FALSE
  OBVIOUS
<1> DEFINE S == {s[k].path : k \in (i + 1)..j}
<1>0. Len(s) \in Nat
  BY DEF SafeStack
<1>1. ASSUME NEW k \in (i + 1)..j
      PROVE  /\ k - 1 \in i..j /\ s[k].path \in Nodes \ {Root}
             /\ Parent[s[k].path] = s[k - 1].path /\ s[k].path \in Inside
  <2>1. k - 1 \in 1..Len(s) /\ k \in 1..Len(s) /\ k - 1 # Len(s) /\ k - 1 + 1 = k
    BY <1>0
  <2>2. s[k].path \in Children(s[k - 1].path)
    BY <2>1 DEF Upright, UprightFrame
  <2>3. s[k].path \in Inside
    BY <2>1 DEF SafeStack, SafeFrame
  <2> QED BY <2>1, <2>2, <2>3 DEF Children
<1>2. S \in SUBSET Inside /\ S # {}
  <2>1. j \in (i + 1)..j
    BY <1>0
  <2> QED BY <1>1, <2>1
<1>3. ASSUME NEW n \in S PROVE Parent[n] \in S
  <2>1. PICK k \in (i + 1)..j : n = s[k].path
    OBVIOUS
  <2>2. Parent[n] = s[k - 1].path
    BY <1>1, <2>1
  <2>3. k - 1 \in (i + 1)..j \/ k - 1 = i
    BY <1>0
  <2>4. j \in (i + 1)..j
    BY <1>0
  <2> QED BY <2>2, <2>3, <2>4
<1>4. Root \in S
  <2> HIDE DEF S
  <2> QED BY <1>2, <1>3, ClimbAssumption
<1> QED BY <1>1, <1>4

(* A call that goes on with its innermost frame.                           *)
LEMMA HereMoves ==
  ASSUME NEW s, SafeStack(s), s # << >>, NEW here, Here(s, here),
         NEW g, g.path = s[Len(s)].path, g.left \ Late \subseteq here
  PROVE  Here([s EXCEPT ![Len(s)] = g], here)
<1> DEFINE t == [s EXCEPT ![Len(s)] = g]
<1>1. Len(s) \in Nat \ {0} /\ Len(t) = Len(s) /\ t[Len(s)] = g
      /\ \A i \in 1..Len(s) : i # Len(s) => t[i] = s[i]
  BY DEF SafeStack
<1> HIDE DEF t
<1> SUFFICES ASSUME NEW i \in 1..Len(s)
             PROVE  /\ t[i].path \in here /\ t[i].left \ Late \subseteq here
                    /\ i # Len(s) => t[i + 1].path \notin t[i].left
  BY <1>1 DEF Here, t
<1>2. \A k \in 1..Len(s) : t[k].path = s[k].path
  BY <1>1
<1>3. i # Len(s) => i + 1 \in 1..Len(s)
  BY <1>1
<1> QED BY <1>1, <1>2, <1>3 DEF Here

(* A node is taken from those that are left, and worked on.                *)
LEMMA HerePush ==
  ASSUME NEW s, SafeStack(s), s # << >>, NEW here, Here(s, here),
         NEW n \in here, NEW t, Len(t) = Len(s) + 1, t[Len(s) + 1] = Frame(n),
         \A i \in 1..Len(s) : t[i].path = s[i].path,
         \A i \in 1..Len(s) : i # Len(s) => t[i].left = s[i].left,
         t[Len(s)].left = s[Len(s)].left \ {n}
  PROVE  Here(t, here)
<1>1. Len(s) \in Nat \ {0} /\ Len(s) \in 1..Len(s)
  BY DEF SafeStack
<1>2. t[Len(s) + 1].path = n /\ t[Len(s) + 1].left = {}
  BY DEF Frame
<1> SUFFICES ASSUME NEW i \in 1..(Len(s) + 1)
             PROVE  /\ t[i].path \in here /\ t[i].left \ Late \subseteq here
                    /\ i # Len(s) + 1 => t[i + 1].path \notin t[i].left
  BY DEF Here
<1>3. CASE i = Len(s) + 1
  BY <1>2, <1>3
<1>4. CASE i = Len(s)
  BY <1>1, <1>2, <1>4 DEF Here
<1>5. CASE i \in 1..(Len(s) - 1)
  <2>1. i \in 1..Len(s) /\ i + 1 \in 1..Len(s) /\ i # Len(s)
    BY <1>1, <1>5
  <2> QED BY <2>1 DEF Here
<1>6. i = Len(s) + 1 \/ i = Len(s) \/ i \in 1..(Len(s) - 1)
  BY <1>1
<1> QED BY <1>3, <1>4, <1>5, <1>6

(* The innermost node is gone, and was left to no frame below.             *)
LEMMA HerePop ==
  ASSUME NEW s, SafeStack(s), Len(s) > 1, NEW here, Here(s, here),
         Upright(s, here), NEW t, Len(t) = Len(s) - 1,
         \A i \in 1..Len(t) : t[i].path = s[i].path /\ t[i].left = s[i].left
  PROVE  Here(t, here \ {s[Len(s)].path})
<1> DEFINE p == s[Len(s)].path
<1>1. Len(s) \in Nat \ {0}
  BY DEF SafeStack
<1> SUFFICES ASSUME NEW i \in 1..(Len(s) - 1)
             PROVE  /\ t[i].path \in here \ {p} /\ t[i].left \ Late \subseteq here \ {p}
                    /\ i # Len(s) - 1 => t[i + 1].path \notin t[i].left
  BY DEF Here
<1>2. /\ i \in 1..Len(s) /\ i + 1 \in 1..Len(s) /\ i < Len(s) /\ Len(s) \in 1..Len(s)
      /\ Len(s) - 1 \in 1..Len(s) /\ Len(s) - 1 # Len(s) /\ (Len(s) - 1) + 1 = Len(s)
      /\ i # Len(s) /\ (i # Len(s) - 1 => i < Len(s) - 1)
  BY <1>1
<1>3. s[i].path # p
  BY <1>2, Distinct
<1>4. p \notin s[i].left
  <2>1. CASE i = Len(s) - 1
    BY <1>2, <2>1 DEF Here
  <2>2. CASE i # Len(s) - 1
    <3>1. p \in Children(s[Len(s) - 1].path)
      BY <1>2 DEF Upright, UprightFrame
    <3>2. s[i].path # s[Len(s) - 1].path
      BY <1>2, <2>2, Distinct
    <3>3. s[i].left \subseteq Children(s[i].path)
      BY <1>2 DEF SafeStack, SafeFrame
    <3> QED BY <3>1, <3>2, <3>3 DEF Children
  <2> QED BY <2>1, <2>2
<1>5. /\ s[i].path \in here /\ s[i].left \ Late \subseteq here
      /\ s[i + 1].path \notin s[i].left
  BY <1>2 DEF Here
<1>6. /\ t[i].path = s[i].path /\ t[i].left = s[i].left
      /\ i # Len(s) - 1 => t[i + 1].path = s[i + 1].path
  BY <1>1
<1> QED BY <1>3, <1>4, <1>5, <1>6

-----------------------------------------------------------------------------
(* While a call is alone its stack accounts for what it has removed, and   *)
(* once it has returned its answer is exact.                               *)
Exact(c) ==
  /\ ~Done(c) => Counted(frames[c], removed[c]) /\ Here(frames[c], present)
  /\ Succeeded(c) => Root \notin present /\ result[c].count = Cardinality(removed[c])
  /\ Failed(c) => Root \in present /\ result[c].count = npos

(* What a call that is alone relies on.                                    *)
Poised(c) ==
  /\ Safe /\ ~Done(c) /\ frames[c] # << >> /\ swapped = {}
  /\ Known(frames[c], present) /\ Upright(frames[c], present)
  /\ Counted(frames[c], removed[c]) /\ Here(frames[c], present)
  /\ removed[c] \cap present = {}

(* The root is there as long as the call works, and so is the innermost.   *)
LEMMA RootIsHere ==
  ASSUME NEW c \in Calls, Poised(c)
  PROVE  Root \in present /\ Top(c).path \in present
<1>1. SafeStack(frames[c]) /\ Len(frames[c]) \in Nat /\ Len(frames[c]) > 0
  BY TopIsSafe DEF Poised, Depth
<1>2. 1 \in 1..Len(frames[c]) /\ Len(frames[c]) \in 1..Len(frames[c])
  BY <1>1
<1> QED BY <1>2 DEF Poised, Upright, Here, Top, Depth

(* An error that is not that of a node that is gone.                       *)
LEMMA FailExact ==
  ASSUME NEW c \in Calls, Poised(c), NEW e \in {"EACCES", "EIO", "ENOTEMPTY"},
         Fail(c, e), UNCHANGED present
  PROVE  Exact(c)'
<1>1. result' = [result EXCEPT ![c] = [done |-> TRUE, count |-> npos, err |-> e]]
  BY DEF Fail, Finish
<1>2. result'[c] = [done |-> TRUE, count |-> npos, err |-> e]
  BY <1>1 DEF Poised, Safe, TypeOK
<1> QED BY <1>2, RootIsHere DEF Exact, Done, Succeeded, Failed

(* The innermost frame goes on.                                            *)
LEMMA TopExact ==
  ASSUME NEW c \in Calls, Poised(c), NEW g, SafeFrame(g), g.path = Top(c).path,
         g.count = Top(c).count, g.left \ Late \subseteq present,
         frames' = [frames EXCEPT ![c] = [@ EXCEPT ![Depth(c)] = g]],
         UNCHANGED <<present, removed, result>>
  PROVE  Exact(c)'
<1> DEFINE s == frames[c]
           t == [s EXCEPT ![Len(s)] = g]
<1>1. SafeStack(s) /\ s # << >> /\ g.path = s[Len(s)].path /\ g.count = s[Len(s)].count
      /\ Here(s, present) /\ Counted(s, removed[c])
  BY DEF Poised, Safe, Top, Depth
<1>2. frames'[c] = t
  BY DEF Poised, Safe, TypeOK, Depth
<1> HIDE DEF s
<1>3. Here(t, present)
  BY <1>1, HereMoves
<1>4. Len(t) = Len(s) /\ \A i \in 1..Len(s) : t[i].count = s[i].count
  BY <1>1, Replace
<1> HIDE DEF t
<1>5. Counted(t, removed[c])
  BY <1>1, <1>4, CountedMoves
<1> QED BY <1>2, <1>3, <1>5 DEF Exact, Poised, Done, Succeeded, Failed

(* ... to another step.                                                    *)
LEMMA GoToExact ==
  ASSUME NEW c \in Calls, Poised(c), NEW step \in {"open", "unlink"}, GoTo(c, step),
         step = "open" => Kind[Top(c).path] = "directory",
         UNCHANGED <<present, removed, result>>
  PROVE  Exact(c)'
<1> DEFINE g == [Top(c) EXCEPT !.at = step]
<1>1. SafeFrame(Top(c)) /\ frames \in [Calls -> Seq(Frames)]
  BY TopIsSafe DEF Poised, Safe, TypeOK
<1>2. SafeFrame(g) /\ g.path = Top(c).path /\ g.count = Top(c).count /\ g.left = Top(c).left
  BY <1>1 DEF SafeFrame, Frames
<1>3. frames' = [frames EXCEPT ![c] = [@ EXCEPT ![Depth(c)] = g]]
  BY <1>1 DEF GoTo, Top, Depth
<1>4. Top(c).left \ Late \subseteq present
  <2>1. Len(frames[c]) \in 1..Len(frames[c])
    BY TopIsSafe DEF Poised, Depth
  <2> QED BY <2>1 DEF Poised, Here, Top, Depth
<1> HIDE DEF g
<1> QED BY <1>2, <1>3, <1>4, TopExact

LEMMA SymLinkStatusExact ==
  ASSUME NEW c \in Calls, Poised(c), SymLinkStatus(c)
  PROVE  Exact(c)'
<1> DEFINE step == IF Kind[Top(c).path] = "directory" THEN "open" ELSE "unlink"
<1>1. GoTo(c, step) /\ UNCHANGED <<present, removed, result>>
  BY RootIsHere, Unswapped DEF SymLinkStatus, Poised, Safe
<1>2. step \in {"open", "unlink"} /\ (step = "open" => Kind[Top(c).path] = "directory")
  OBVIOUS
<1> HIDE DEF step
<1> QED BY <1>1, <1>2, GoToExact

(* What the directory has is there.                                        *)
LEMMA OpenDirectoryExact ==
  ASSUME NEW c \in Calls, Poised(c), OpenDirectory(c)
  PROVE  Exact(c)'
<1>1. CASE Top(c).path \in closed
  BY <1>1, RootIsHere, FailExact DEF OpenDirectory
<1>2. CASE Top(c).path \notin closed
  <2>1. Scan(c) /\ UNCHANGED <<present, removed, result>>
    BY <1>2, RootIsHere DEF OpenDirectory
  <2>2. PICK later \in SUBSET (Children(Top(c).path) \cap (Late \ created)) :
          frames' = [frames EXCEPT ![c][Depth(c)] =
            [Top(c) EXCEPT !.at = "scan",
                           !.left = (Children(Top(c).path) \cap present) \cup later]]
    BY <2>1 DEF Scan
  <2> DEFINE g == [Top(c) EXCEPT !.at = "scan",
                                 !.left = (Children(Top(c).path) \cap present) \cup later]
  <2>3. SafeFrame(Top(c)) /\ Top(c).at = "open"
    BY TopIsSafe DEF Poised, OpenDirectory, At
  <2>4. /\ SafeFrame(g) /\ g.path = Top(c).path /\ g.count = Top(c).count
        /\ g.left \ Late \subseteq present
    BY <2>3 DEF SafeFrame, Frames, Children
  <2>5. frames' = [frames EXCEPT ![c] = [@ EXCEPT ![Depth(c)] = g]]
    BY <2>2
  <2> HIDE DEF g
  <2> QED BY <2>1, <2>4, <2>5, TopExact
<1> QED BY <1>1, <1>2

(* Only late nodes are left besides those that are there.                  *)
LEMMA NextEntryExact ==
  ASSUME NEW c \in Calls, Poised(c), created = {}, NextEntry(c)
  PROVE  Exact(c)'
<1>1. /\ SafeFrame(Top(c)) /\ SafeStack(frames[c]) /\ Top(c).at = "scan"
      /\ Top(c) = frames[c][Len(frames[c])] /\ frames \in [Calls -> Seq(Frames)]
      /\ Len(frames[c]) \in 1..Len(frames[c])
  BY TopIsSafe DEF NextEntry, At, Top, Depth, Poised, Safe, TypeOK
<1>2. PICK n \in Top(c).left \ Late :
        frames' = [frames EXCEPT ![c] =
          Append([frames[c] EXCEPT ![Depth(c)].left = @ \ {n}], Frame(n))]
  BY DEF NextEntry
<1>3. n \in Inside /\ n \in present
  BY <1>1, <1>2, ChildrenInside DEF SafeFrame, Poised, Here
<1> DEFINE g == [Top(c) EXCEPT !.left = @ \ {n}]
           s == frames[c]
           r == [s EXCEPT ![Len(s)] = g]
           t == frames'[c]
<1>4. /\ SafeFrame(g) /\ g.path = s[Len(s)].path /\ g.count = s[Len(s)].count
      /\ g.left = s[Len(s)].left \ {n}
  BY <1>1 DEF SafeFrame, Frames
<1>5. t = Append(r, Frame(n))
  BY <1>1, <1>2 DEF Top, Depth
<1>6. SafeStack(s) /\ s # << >> /\ Here(s, present) /\ Counted(s, removed[c])
  BY <1>1 DEF Poised
<1>7. SafeFrame(Frame(n))
  BY <1>3, NewFrame
<1> HIDE DEF g, s, t
<1>8. /\ SafeStack(r) /\ Len(r) = Len(s) /\ r[Len(s)] = g
      /\ \A i \in 1..Len(s) : i # Len(s) => r[i] = s[i]
  BY <1>4, <1>6, Replace
<1> HIDE DEF r
<1>9. /\ Len(t) = Len(s) + 1 /\ t[Len(s) + 1] = Frame(n)
      /\ \A i \in 1..Len(s) : t[i] = r[i]
  BY <1>5, <1>7, <1>8, Push
<1>10. /\ \A i \in 1..Len(s) : t[i].path = s[i].path /\ t[i].count = s[i].count
       /\ \A i \in 1..Len(s) : i # Len(s) => t[i].left = s[i].left
       /\ t[Len(s)].left = s[Len(s)].left \ {n} /\ t[Len(t)].count = 1
  <2>1. Len(s) \in 1..Len(s)
    BY <1>1 DEF s
  <2> QED BY <1>4, <1>8, <1>9, <2>1 DEF Frame
<1>11. Here(t, present)
  BY <1>3, <1>6, <1>9, <1>10, HerePush
<1>12. Counted(t, removed[c])
  BY <1>6, <1>9, <1>10, CountedPush
<1> QED BY <1>11, <1>12 DEF NextEntry, t, Exact, Poised, Done, Succeeded, Failed

LEMMA EndOfDirectoryExact ==
  ASSUME NEW c \in Calls, Poised(c), EndOfDirectory(c)
  PROVE  Exact(c)'
BY GoToExact, FailExact, Unswapped DEF EndOfDirectory, Poised, Safe

(* The last frame returns: it has counted everything.                      *)
LEMMA LastExact ==
  ASSUME NEW c \in Calls, Poised(c), Depth(c) = 1, Finish(c, Top(c).count, "ok"),
         present' = present \ {Top(c).path},
         removed' = [removed EXCEPT ![c] = @ \cup {Top(c).path}]
  PROVE  Exact(c)'
<1> DEFINE s == frames[c]
           R == removed[c]
<1>1. /\ result'[c] = [done |-> TRUE, count |-> s[1].count, err |-> "ok"]
      /\ removed'[c] = R \cup {s[1].path} /\ R \subseteq Nodes
  BY DEF Poised, Safe, TypeOK, Finish, Depth, Top
<1>2. Len(s) = 1 /\ s[1].path = Root /\ Root \in present /\ Root \notin R
  BY RootIsHere DEF Poised, Depth, Upright
<1>3. PICK got \in [1..Len(s) -> SUBSET R] : Shares(s, R, got)
  BY DEF Poised, Counted
<1>4. got[1] = R /\ s[1].count = 1 + Cardinality(got[1])
  <2> HIDE DEF R, s
  <2>1. 1 \in 1..Len(s) /\ \A i \in 1..Len(s) : i = 1
    BY <1>2
  <2>2. got[1] \subseteq R /\ \A n \in R : n \in got[1]
    BY <1>3, <2>1 DEF Shares
  <2>3. s[1].count = 1 + Cardinality(got[1])
    BY <1>3, <2>1 DEF Shares
  <2> QED BY <2>2, <2>3
<1>5. IsFiniteSet(R) /\ Cardinality(R) \in Nat /\ Cardinality(R \cup {Root}) = Cardinality(R) + 1
  <2>1. IsFiniteSet(R)
    BY <1>1, FS_Subset, WidthAssumption
  <2> QED BY <1>2, <2>1, FS_AddElement, FS_CardinalityType
<1>6. s[1].count = Cardinality(removed'[c])
  <2> DEFINE S == R \cup {Root}
  <2>1. removed'[c] = S
    BY <1>1, <1>2
  <2>2. s[1].count = 1 + Cardinality(R)
    BY <1>4
  <2>3. Cardinality(S) = 1 + Cardinality(R)
    <3> HIDE DEF R
    <3> QED BY <1>5
  <2> HIDE DEF R, s, S
  <2> QED BY <2>1, <2>2, <2>3
<1>7. Root \notin present'
  <2>1. Top(c).path = s[1].path
    BY <1>2 DEF Top, Depth
  <2> HIDE DEF s
  <2> QED BY <1>2, <2>1
<1>8. result'[c].done /\ result'[c].err = "ok" /\ result'[c].count = s[1].count
  BY <1>1
<1> HIDE DEF s, R
<1> QED BY <1>6, <1>7, <1>8 DEF Exact, Done, Succeeded, Failed

(* A frame returns to the one below, with what it has counted.             *)
LEMMA ReturnExact ==
  ASSUME NEW c \in Calls, Poised(c), Depth(c) # 1, Return(c, Top(c).count),
         present' = present \ {Top(c).path},
         removed' = [removed EXCEPT ![c] = @ \cup {Top(c).path}]
  PROVE  Exact(c)'
<1> DEFINE s == frames[c]
           t == frames'[c]
           R == removed[c]
           p == Top(c).path
           outer == SubSeq(s, 1, Len(s) - 1)
           sum == Plus(outer[Len(outer)].count, s[Len(s)].count)
<1>1. /\ SafeStack(s) /\ Len(s) \in Nat /\ Len(s) > 1 /\ p = s[Len(s)].path
      /\ Upright(s, present) /\ Here(s, present) /\ Counted(s, R)
      /\ R \in SUBSET Nodes /\ R \cap present = {} /\ present \subseteq Nodes
      /\ p \in present /\ Root \in present
  <2>1. /\ Upright(s, present) /\ Here(s, present) /\ Counted(s, R)
        /\ R \cap present = {} /\ Safe /\ s # << >>
    BY DEF Poised
  <2>2. SafeStack(s) /\ Len(s) \in Nat /\ Len(s) > 1 /\ p = s[Len(s)].path
    <3>1. SafeStack(s) /\ Depth(c) \in Nat /\ Depth(c) > 0
      BY <2>1, TopIsSafe
    <3>2. p = s[Len(s)].path
      BY DEF Depth, Top
    <3>3. Depth(c) = Len(s)
      BY DEF Depth
    <3> HIDE DEF s, p
    <3> QED BY <3>1, <3>2, <3>3
  <2>3. R \in SUBSET Nodes /\ present \subseteq Nodes
    BY <2>1 DEF Safe, TypeOK
  <2>4. p \in present /\ Root \in present
    BY RootIsHere
  <2> HIDE DEF s, R, p
  <2> QED BY <2>1, <2>2, <2>3, <2>4
<1>2. t = [outer EXCEPT ![Len(outer)].count = sum] /\ UNCHANGED result
  BY DEF Return, Depth, Top, Poised, Safe, TypeOK
<1>3. removed'[c] = R \cup {p} /\ present' = present \ {p}
  BY DEF Poised, Safe, TypeOK
<1> HIDE DEF s, R, p, t
<1>4. /\ Len(s) - 1 \in 1..Len(s) /\ Len(s) \in 1..Len(s) /\ 1 \in 1..Len(s)
      /\ s \in Seq(Frames)
  BY <1>1 DEF SafeStack
<1>5. Len(outer) = Len(s) - 1 /\ outer[Len(outer)] = s[Len(s) - 1]
  BY <1>4
<1>6. s[Len(s) - 1] \in Frames /\ s[Len(s)] \in Frames
  BY <1>4, <1>1 DEF SafeStack, SafeFrame
<1>7. sum = Plus(s[Len(s) - 1].count, s[Len(s)].count) /\ sum \in 0..npos
  BY <1>5, <1>6, Counts DEF Frames
<1> HIDE DEF sum
<1>8. /\ Len(t) = Len(s) - 1
      /\ t[Len(t)] = [s[Len(t)] EXCEPT !.count = sum]
      /\ \A i \in 1..Len(t) : i # Len(t) => t[i] = s[i]
  <2> DEFINE u == [outer EXCEPT ![Len(outer)].count = sum]
  <2>1. /\ Len(u) = Len(s) - 1
        /\ u[Len(u)] = [s[Len(u)] EXCEPT !.count = sum]
        /\ \A i \in 1..Len(u) : i # Len(u) => u[i] = s[i]
    <3>1. SafeStack(s) /\ Len(s) > 1 /\ sum \in 0..npos
      BY <1>1, <1>7
    <3> QED BY <3>1, PopInner, ZenonT(40)
  <2> HIDE DEF u
  <2>2. t = u
    BY <1>2 DEF u
  <2> QED BY <2>1, <2>2
<1>9. /\ \A i \in 1..Len(t) : t[i].path = s[i].path /\ t[i].left = s[i].left
      /\ \A i \in 1..Len(t) : i # Len(t) => t[i].count = s[i].count
      /\ t[Len(t)].count = Plus(s[Len(t)].count, s[Len(s)].count)
  BY <1>6, <1>7, <1>8 DEF Frames
<1>10. Here(t, present')
  BY <1>1, <1>3, <1>8, <1>9, HerePop
<1>11. Root # p
  <2>1. 1 < Len(s) /\ s[1].path = Root
    BY <1>1, <1>4 DEF Upright
  <2> QED BY <1>1, <1>4, <2>1, Distinct
<1>12. Counted(t, R \cup {p})
  <2>1. p \in Nodes \ R /\ Root \in Nodes \ (R \cup {p})
    BY <1>1, <1>11
  <2> QED BY <1>1, <1>8, <1>9, <2>1, CountedPop
<1> QED BY <1>2, <1>3, <1>10, <1>12 DEF t, Exact, Poised, Done, Succeeded, Failed

LEMMA UnlinkExact ==
  ASSUME NEW c \in Calls, Poised(c), Unlink(c)
  PROVE  Exact(c)'
<1>1. Top(c).path \in present
  BY RootIsHere
<1>2. CASE \E e \in {"EACCES", "ENOTEMPTY"} : Fail(c, e) /\ UNCHANGED present
  BY <1>2, FailExact
<1>3. CASE ~\E e \in {"EACCES", "ENOTEMPTY"} : Fail(c, e) /\ UNCHANGED present
  <2>1. /\ Return(c, Top(c).count) /\ present' = present \ {Top(c).path}
        /\ removed' = [removed EXCEPT ![c] = @ \cup {Top(c).path}]
    BY <1>1, <1>3, Unswapped DEF Unlink, Poised, Safe
  <2>2. CASE Depth(c) = 1
    BY <2>1, <2>2, LastExact DEF Return
  <2>3. CASE Depth(c) # 1
    BY <2>1, <2>3, ReturnExact
  <2> QED BY <2>2, <2>3
<1> QED BY <1>2, <1>3

-----------------------------------------------------------------------------
(* A call that takes a step has begun.                                     *)
LEMMA StepBegins ==
  ASSUME Safe, NEW c \in Calls, Known(frames[c], present), Step(c)
  PROVE  frames'[c] # <<Frame(Root)>>
<1> DEFINE s == frames[c]
<1>1. /\ SafeStack(s) /\ Len(s) \in Nat /\ Len(s) > 0 /\ s \in Seq(Frames)
      /\ frames \in [Calls -> Seq(Frames)]
  <2>1. s # << >>
    BY DEF Step, SymLinkStatus, OpenDirectory, NextEntry, EndOfDirectory, Unlink, At
  <2> QED BY <2>1, TopIsSafe DEF Depth, SafeStack, Safe, TypeOK
<1>2. Len(<<Frame(Root)>>) = 1 /\ <<Frame(Root)>>[1].at = "stat"
  BY DEF Frame
<1>3. ASSUME NEW k, NEW e, Finish(c, k, e) PROVE frames'[c] = << >>
  BY <1>1, <1>3 DEF Finish
<1>4. ASSUME NEW g, g.at # "stat", frames'[c] = [s EXCEPT ![Len(s)] = g]
      PROVE  frames'[c] # <<Frame(Root)>>
  <2>1. Len(s) = 1 => frames'[c][1] = g
    BY <1>1, <1>4
  <2>2. Len(frames'[c]) = Len(s)
    BY <1>1, <1>4
  <2> QED BY <1>2, <1>4, <2>1, <2>2
<1>5. ASSUME NEW step \in {"open", "unlink"}, GoTo(c, step)
      PROVE  frames'[c] # <<Frame(Root)>>
  <2> DEFINE g == [s[Len(s)] EXCEPT !.at = step]
  <2>1. s[Len(s)] \in Frames
    BY <1>1
  <2>2. g.at # "stat"
    BY <2>1 DEF Frames
  <2>3. frames'[c] = [s EXCEPT ![Len(s)] = g]
    BY <1>1, <1>5 DEF GoTo, Depth
  <2> HIDE DEF g
  <2> QED BY <1>4, <2>2, <2>3
<1>6. CASE \E k, e : Finish(c, k, e)
  BY <1>3, <1>6
<1>7. CASE ~\E k, e : Finish(c, k, e)
  <2>0. \A e : ~Fail(c, e)
    BY <1>7 DEF Fail
  <2>1. CASE SymLinkStatus(c)
    <3>1. \E step \in {"open", "unlink"} : GoTo(c, step)
      BY <2>0, <2>1 DEF SymLinkStatus
    <3> QED BY <1>5, <3>1
  <2>2. CASE OpenDirectory(c)
    <3>1. PICK later :
          frames' = [frames EXCEPT ![c][Depth(c)] =
            [Top(c) EXCEPT !.at = "scan",
                           !.left = (Children(Top(c).path) \cap present) \cup later]]
      BY <2>0, <2>2 DEF OpenDirectory, Scan
    <3> DEFINE g == [Top(c) EXCEPT !.at = "scan",
                                   !.left = (Children(Top(c).path) \cap present) \cup later]
    <3>2. Top(c) \in Frames
      BY <1>1 DEF Top, Depth
    <3>3. g.at # "stat"
      BY <3>2 DEF Frames
    <3>4. frames'[c] = [s EXCEPT ![Len(s)] = g]
      BY <1>1, <3>1 DEF Depth
    <3> HIDE DEF g
    <3> QED BY <1>4, <3>3, <3>4
  <2>3. CASE NextEntry(c)
    <3>1. PICK n \in Top(c).left :
            frames'[c] = Append([s EXCEPT ![Len(s)].left = @ \ {n}], Frame(n))
      BY <1>1, <2>3 DEF NextEntry, Depth
    <3> DEFINE r == [s EXCEPT ![Len(s)].left = @ \ {n}]
    <3>2. Len(r) = Len(s) /\ r \in Seq(Frames)
      <4>1. s[Len(s)] \in Frames
        BY <1>1
      <4>2. [s[Len(s)] EXCEPT !.left = @ \ {n}] \in Frames
        BY <4>1 DEF Frames
      <4> QED BY <1>1, <4>2
    <3> HIDE DEF r, s
    <3>3. Len(frames'[c]) = Len(s) + 1
      BY <3>1, <3>2 DEF r
    <3>4. Len(frames'[c]) # 1
      BY <1>1, <3>3
    <3> QED BY <1>2, <3>4
  <2>4. CASE EndOfDirectory(c)
    BY <1>5, <2>0, <2>4 DEF EndOfDirectory
  <2>5. CASE Unlink(c)
    <3> DEFINE outer == SubSeq(s, 1, Len(s) - 1)
    <3>1. PICK k : Return(c, k)
      BY <2>0, <2>5 DEF Unlink
    <3> DEFINE sum == Plus(outer[Len(outer)].count, k)
    <3>2. Len(s) # 1 /\ frames'[c] = [outer EXCEPT ![Len(outer)].count = sum]
      BY <1>1, <1>7, <3>1 DEF Return, Depth
    <3>3. Len(s) - 1 \in 1..Len(s) /\ s[Len(s) - 1] \in Frames
      <4>1. Len(s) # 1 /\ Len(s) \in Nat /\ Len(s) > 0 /\ s \in Seq(Frames)
        BY <1>1, <3>2
      <4> HIDE DEF s
      <4>2. ASSUME NEW j \in Nat, j > 0, j # 1 PROVE j - 1 \in 1..j
        BY <4>2
      <4>3. Len(s) - 1 \in 1..Len(s)
        BY <4>1, <4>2
      <4> QED BY <4>1, <4>3
    <3>4. outer \in Seq(Frames) /\ Len(outer) = Len(s) - 1 /\ outer[Len(outer)] = s[Len(s) - 1]
      BY <1>1, <3>3
    <3>5. s[Len(s) - 1].at = "scan"
      <4>1. KnownFrame(s, Len(s) - 1, present) /\ Len(s) - 1 # Len(s)
        BY <1>1, <3>3 DEF Known
      <4> QED BY <4>1 DEF KnownFrame
    <3> DEFINE g == [s[Len(s) - 1] EXCEPT !.count = sum]
    <3>6. g.at = "scan"
      BY <3>3, <3>5 DEF Frames
    <3> HIDE DEF sum
    <3>7. frames'[c][Len(s) - 1] = g /\ Len(frames'[c]) = Len(s) - 1
      <4> HIDE DEF outer
      <4> QED BY <1>1, <3>2, <3>3, <3>4
    <3> HIDE DEF g, outer, s
    <3> QED BY <1>2, <3>6, <3>7
  <2> QED BY <2>1, <2>2, <2>3, <2>4, <2>5 DEF Step
<1> QED BY <1>6, <1>7

(* A call has not removed anything before it has begun, and has returned   *)
(* when nothing is left on its stack.                                      *)
Paced(c) ==
  /\ frames[c] = <<Frame(Root)>> => removed[c] = {} /\ ~Done(c)
  /\ Done(c) => frames[c] = << >>

(* Where only calls are at work, what is there is in a directory that is.  *)
Rooted == \A n \in (present \cap Inside) \ {Root} : Parent[n] \in present

AloneInv ==
  Undisturbed => /\ Rooted
                 /\ \A c \in Calls : Paced(c) /\ (Alone(c) => Exact(c))

LEMMA AloneInit == Init => AloneInv
<1> SUFFICES ASSUME Init PROVE AloneInv
  OBVIOUS
<1>1. Rooted
  BY TreeAssumption, InsideAssumption, OthersAssumption DEF Init, Rooted
<1>2. ASSUME NEW c \in Calls PROVE Paced(c) /\ Exact(c)
  <2> DEFINE s == frames[c]
  <2>1. s = <<Frame(Root)>> /\ removed[c] = {} /\ ~Done(c)
    BY DEF Init, Done
  <2>2. Len(s) = 1 /\ s[1].path = Root /\ s[1].left = {} /\ s[1].count = 1
    BY <2>1 DEF Frame
  <2>3. Root \in present
    BY TreeAssumption, OthersAssumption DEF Init
  <2> HIDE DEF s
  <2>4. Here(s, present)
    BY <2>2, <2>3 DEF Here
  <2>5. Counted(s, removed[c])
    <3> DEFINE got == [i \in 1..Len(s) |-> {}]
    <3>1. got \in [1..Len(s) -> SUBSET removed[c]]
      OBVIOUS
    <3>2. \A i \in 1..Len(s) : got[i] = {} /\ i = 1
      BY <2>2
    <3> HIDE DEF got
    <3>3. \A i \in 1..Len(s) : s[i].count = 1 + Cardinality(got[i])
      BY <2>2, <3>2, FS_EmptySet
    <3>4. Shares(s, removed[c], got)
      BY <2>1, <3>2, <3>3 DEF Shares
    <3> QED BY <3>1, <3>4 DEF Counted
  <2> QED BY <2>1, <2>4, <2>5 DEF Paced, Exact, Succeeded, Failed, s
<1> QED BY <1>1, <1>2 DEF AloneInv

(* What a step of one call is to it, and to the others.                    *)
LEMMA StepIsOwn ==
  ASSUME Safe, NEW c \in Calls, Step(c)
  PROVE  /\ \A d \in Calls : d # c => /\ frames'[d] = frames[d] /\ result'[d] = result[d]
                                       /\ removed'[d] = removed[d]
         /\ frames[c] # << >>
         /\ result'[c] = result[c] \/ frames'[c] = << >>
<1>1. frames \in [Calls -> Seq(Frames)] /\ removed \in [Calls -> SUBSET Nodes]
  BY DEF Safe, TypeOK
<1>2. frames[c] # << >>
  BY DEF Step, SymLinkStatus, OpenDirectory, NextEntry, EndOfDirectory, Unlink, At
<1>3. ASSUME NEW k, NEW e, Finish(c, k, e)
      PROVE  /\ \A d \in Calls : d # c => frames'[d] = frames[d] /\ result'[d] = result[d]
             /\ frames'[c] = << >>
  BY <1>1, <1>3 DEF Finish
<1>4. ASSUME \/ \E step : GoTo(c, step)
             \/ Scan(c)
             \/ NextEntry(c)
      PROVE  \A d \in Calls : d # c => frames'[d] = frames[d]
  BY <1>1, <1>4 DEF GoTo, Scan, NextEntry
<1>5. ASSUME NEW k, Return(c, k)
      PROVE  \/ \E n, e : Finish(c, n, e)
             \/ UNCHANGED result /\ \A d \in Calls : d # c => frames'[d] = frames[d]
  BY <1>1, <1>5 DEF Return
<1>6. \/ \E n, e : Finish(c, n, e)
      \/ UNCHANGED result /\ \A d \in Calls : d # c => frames'[d] = frames[d]
  <2>1. \A e : Fail(c, e) => \E n, x : Finish(c, n, x)
    BY DEF Fail
  <2>2. CASE SymLinkStatus(c)
    BY <1>4, <2>1, <2>2 DEF SymLinkStatus
  <2>3. CASE OpenDirectory(c)
    BY <1>4, <2>1, <2>3 DEF OpenDirectory
  <2>4. CASE NextEntry(c)
    BY <1>4, <2>4 DEF NextEntry
  <2>5. CASE EndOfDirectory(c)
    BY <1>4, <2>1, <2>5 DEF EndOfDirectory
  <2>6. CASE Unlink(c)
    BY <1>5, <2>1, <2>6 DEF Unlink
  <2> QED BY <2>2, <2>3, <2>4, <2>5, <2>6 DEF Step
<1>7. \A d \in Calls : d # c => removed'[d] = removed[d]
  BY <1>1, StepRemoves
<1> QED BY <1>2, <1>3, <1>6, <1>7

(* The inductive step. A call is not alone once another has begun.         *)
LEMMA AloneStep == Safe /\ Safe' /\ RemainsInv /\ AloneInv /\ [Next]_vars => AloneInv'
<1> SUFFICES ASSUME Safe, Safe', RemainsInv, AloneInv, [Next]_vars, Undisturbed'
             PROVE  /\ Rooted'
                    /\ \A d \in Calls : Paced(d)' /\ (Alone(d)' => Exact(d)')
  BY DEF AloneInv
<1>1. /\ Undisturbed /\ Gone /\ created = {} /\ swapped = {} /\ Rooted
      /\ UNCHANGED vars \/ \E c \in Calls : Step(c)
      /\ \A d \in Calls : /\ Known(frames[d], present) /\ Upright(frames[d], present)
                          /\ removed[d] \cap present = {}
                          /\ Paced(d) /\ (Alone(d) => Exact(d))
  BY UndisturbedBefore DEF RemainsInv, AloneInv, Undisturbed, Gone
<1>2. CASE UNCHANGED vars
  BY <1>1, <1>2 DEF vars, others, Rooted, Paced, Alone, Undisturbed, Exact, Done, Succeeded,
                    Failed
<1>3. ASSUME NEW c \in Calls, Step(c)
      PROVE  /\ Rooted'
             /\ \A d \in Calls : Paced(d)' /\ (Alone(d)' => Exact(d)')
  <2>1. frames'[c] # <<Frame(Root)>>
    BY <1>1, <1>3, StepBegins
  <2>2. /\ \A d \in Calls : d # c => /\ frames'[d] = frames[d] /\ result'[d] = result[d]
                                     /\ removed'[d] = removed[d]
        /\ frames[c] # << >>
        /\ result'[c] = result[c] \/ frames'[c] = << >>
    BY <1>3, StepIsOwn
  <2>3. ~Done(c)
    BY <1>1, <2>2 DEF Paced
  <2>4. \A d \in Calls : Paced(d)'
    BY <1>1, <2>1, <2>2, <2>3 DEF Paced, Done
  <2>5. Rooted'
    <3> SUFFICES ASSUME NEW n \in (present' \cap Inside) \ {Root}
                 PROVE  Parent[n] \in present'
      BY DEF Rooted
    <3> DEFINE p == Top(c).path
    <3>1. /\ present' \subseteq present
          /\ \A m \in present \ present' :
               m = p /\ (Kind[p] = "directory" => Children(p) \cap present = {})
      <4>1. CASE UNCHANGED <<present, removed>>
        BY <4>1
      <4>2. CASE present' = present \ {p} /\ (Kind[p] = "directory" => Children(p) \cap present = {})
        <5> HIDE DEF p
        <5> QED BY <4>2
      <4> QED BY <1>1, <1>3, <4>1, <4>2, StepRemovesOne
    <3> HIDE DEF p
    <3>2. n \in present /\ Parent[n] \in present
      BY <1>1, <3>1 DEF Rooted
    <3>3. Kind[Parent[n]] = "directory" /\ n \in Children(Parent[n])
      BY InsideAssumption DEF Children
    <3> QED BY <3>1, <3>2, <3>3
  <2>6. ASSUME NEW d \in Calls, Alone(d)' PROVE Exact(d)'
    <3>1. d = c
      BY <2>1, <2>6 DEF Alone
    <3>2. Alone(c)
      BY <1>1, <2>2, <2>6, <3>1 DEF Alone
    <3>3. Poised(c)
      BY <1>1, <2>2, <2>3, <3>2 DEF Poised, Exact
    <3> QED BY <1>1, <1>3, <3>1, <3>3, SymLinkStatusExact, OpenDirectoryExact, NextEntryExact,
               EndOfDirectoryExact, UnlinkExact DEF Step
  <2> QED BY <2>4, <2>5, <2>6
<1> QED BY <1>1, <1>2, <1>3

(* A call of remove_all that nothing interferes with removes all of the    *)
(* tree, links not followed, and says how many nodes those were, or it     *)
(* reports an error, answers npos and leaves the root: the counts of the   *)
(* frames are disjoint shares of what it has removed.                      *)
THEOREM AloneStaysExact == Spec => []AloneIsExact
<1>1. Safe /\ AloneInv => AloneIsExact
  <2> SUFFICES ASSUME Safe, AloneInv, NEW c \in Calls, Alone(c)
               PROVE  /\ Succeeded(c) => /\ present \cap Inside = {}
                                         /\ removed[c] = Inside \ Late
                                         /\ result[c].count = Cardinality(removed[c])
                      /\ Failed(c) => Root \in present /\ result[c].count = npos
    BY DEF AloneIsExact, Alone
  <2>1. /\ Undisturbed /\ Rooted /\ Exact(c) /\ removed[c] \subseteq Inside
        /\ \A d \in Calls \ {c} : removed[d] = {}
    BY DEF Alone, AloneInv, Paced, Safe, RemovedInside
  <2>2. ASSUME Root \notin present PROVE present \cap Inside = {}
    <3> DEFINE S == present \cap Inside
    <3>1. \A n \in S \ {Root} : Parent[n] \in S
      BY <2>1, InsideAssumption DEF Rooted
    <3>2. S \in SUBSET Inside /\ Root \notin S
      BY <2>2
    <3> HIDE DEF S
    <3>3. S = {}
      BY <3>1, <3>2, ClimbAssumption
    <3> QED BY <3>3 DEF S
  <2>3. ASSUME present \cap Inside = {} PROVE removed[c] = Inside \ Late
    <3>1. UNION {removed[d] : d \in Calls} = removed[c]
      BY <2>1
    <3>2. present \cup removed[c] = Nodes \ Late
      BY <2>1, <3>1 DEF Undisturbed
    <3> QED BY <2>1, <2>3, <3>2, InsideAssumption
  <2> QED BY <2>1, <2>2, <2>3 DEF Exact
<1> QED BY <1>1, RemainsInit, RemainsStep, AloneInit, AloneStep, AlwaysSafe, PTL DEF Spec
=============================================================================
