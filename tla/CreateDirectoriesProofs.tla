---------------------- MODULE CreateDirectoriesProofs ----------------------
(***************************************************************************)
(* Proofs about CreateDirectories for any number of calls, any paths, any  *)
(* tree and as many steps of other programs as they care to take.  The     *)
(* invariant is that the levels a call has taken off its stack are there,  *)
(* so that nothing but a trouble in the tree can stop it at the next one.  *)
(***************************************************************************)
EXTENDS CreateDirectories, TLAPS

(* What ChainAssumption says of the levels of one path.                    *)
GoodTrails(trails) ==
    /\ trails \in Seq(Seq(Nodes))
    /\ \A k \in 1..Len(trails) :
          /\ Len(trails[k]) > 1
          /\ \A i \in 1..(Len(trails[k]) - 1) :
                \/ trails[k][i] = Root
                \/ \E j \in 1..(k - 1) : trails[k][i] = trails[j][Len(trails[j])]

PCs == {"start", "look", "make", "check", "endless", "done"}
AnswerValues == {"none", "true", "false", "error", "throws"}

WorldOK ==
    /\ kind \in [Nodes -> Kinds] /\ kind[Root] = "dir"
    /\ mode \in Modes

CallsOK ==
    /\ pc \in [Callers -> PCs]
    /\ popped \in [Callers -> Nat]
    /\ answer \in [Callers -> AnswerValues]
    /\ \A c \in Callers :
          /\ GoodTrails(Trails(c))
          /\ popped[c] <= Len(Trails(c))
          /\ pc[c] = "start" => popped[c] = 0
          /\ pc[c] \in {"look", "make", "check"} => popped[c] < Len(Trails(c))
          /\ pc[c] = "done" <=> answer[c] # "none"

(* The levels taken off the stack are there, unless something was removed, *)
(* and a call that has answered without an error has taken all of them.    *)
LevelsThere ==
    \A c \in Callers :
        /\ ~removed => \A k \in 1..popped[c] : kind[PlaceOf(Trails(c)[k])] # "none"
        /\ answer[c] \in {"true", "false"} => popped[c] = Len(Trails(c))

(* A call that has met an error has met it for a reason.                   *)
CheckHasCause == \A c \in Callers : pc[c] = "check" => Troubled

Inv == WorldOK /\ CallsOK /\ LevelsThere /\ CheckHasCause /\ ErrorHasCause

-----------------------------------------------------------------------------
(* The invariant holds at first.                                           *)
LEMMA InvInit == Init => Inv
<1> SUFFICES ASSUME Init PROVE Inv
  OBVIOUS
<1>1. WorldOK
  BY TreeAssumption DEF Init, WorldOK
<1>2. ASSUME NEW c \in Callers PROVE GoodTrails(Trails(c))
  <2>1. asked[c] \in Asked /\ elided \in BOOLEAN
    BY DEF Init
  <2>2. Trails(c) = Plan[asked[c]][elided].trails
    BY DEF Init, Trails
  <2>3. \A t \in Asked, e \in BOOLEAN : GoodTrails(Plan[t][e].trails)
    BY ChainAssumption DEF GoodTrails
  <2>4. GoodTrails(Plan[asked[c]][elided].trails)
    BY <2>1, <2>3
  <2> QED BY <2>2, <2>4
<1>3. CallsOK
  <2>1. ASSUME NEW c \in Callers PROVE 0 <= Len(Trails(c))
    BY <1>2 DEF GoodTrails
  <2> QED BY <1>2, <2>1 DEF Init, CallsOK, PCs, AnswerValues
<1>4. LevelsThere /\ CheckHasCause /\ ErrorHasCause
  BY DEF Init, LevelsThere, CheckHasCause, ErrorHasCause
<1> QED BY <1>1, <1>3, <1>4 DEF Inv

-----------------------------------------------------------------------------
(* A level of a path is a location, and not the root.                      *)
LEMMA LevelType ==
    ASSUME NEW trails, GoodTrails(trails), NEW k \in 1..Len(trails)
    PROVE  trails[k] \in Seq(Nodes) /\ Len(trails[k]) > 1 /\ PlaceOf(trails[k]) \in Nodes
<1>1. trails[k] \in Seq(Nodes)
  BY DEF GoodTrails
<1>2. Len(trails[k]) > 1
  BY DEF GoodTrails
<1> QED BY <1>1, <1>2 DEF PlaceOf

(* Where the next level is.                                                *)
LEMMA TopType ==
    ASSUME CallsOK, NEW c \in Callers, popped[c] < Len(Trails(c))
    PROVE  /\ Top(c) \in Seq(Nodes) /\ Len(Top(c)) > 1
           /\ PlaceOf(Top(c)) \in Nodes /\ DirOf(Top(c)) \in Nodes
           /\ \A i \in 1..(Len(Top(c)) - 1) :
                \/ Top(c)[i] = Root
                \/ \E j \in 1..popped[c] : Top(c)[i] = PlaceOf(Trails(c)[j])
<1>1. popped[c] \in Nat /\ GoodTrails(Trails(c))
  BY DEF CallsOK
<1>2. popped[c] + 1 \in 1..Len(Trails(c))
  BY <1>1 DEF GoodTrails
<1>3. Top(c) \in Seq(Nodes) /\ Len(Top(c)) > 1
  BY <1>1, <1>2 DEF GoodTrails, Top
<1>4. PlaceOf(Top(c)) \in Nodes /\ DirOf(Top(c)) \in Nodes
  BY <1>3 DEF PlaceOf, DirOf
<1>5. ASSUME NEW i \in 1..(Len(Top(c)) - 1)
      PROVE  \/ Top(c)[i] = Root
             \/ \E j \in 1..popped[c] : Top(c)[i] = PlaceOf(Trails(c)[j])
  <2>1. 1..((popped[c] + 1) - 1) = 1..popped[c]
    BY <1>1
  <2> QED BY <1>1, <1>2, <2>1 DEF GoodTrails, Top, PlaceOf
<1> QED BY <1>3, <1>4, <1>5

(* Without a trouble in the tree the lookup of the next level goes through *)
(* the root and levels that are there: it comes to its end.                *)
LEMMA NoTroubleNoError ==
    ASSUME WorldOK, CallsOK, LevelsThere, ~Troubled,
           NEW c \in Callers, popped[c] < Len(Trails(c))
    PROVE  LookupError(Top(c)) = "none" /\ mode[DirOf(Top(c))] = "open"
<1>1. \A n \in Nodes : mode[n] = "open" /\ kind[n] \in {"dir", "none"} /\ ~removed
  BY DEF Troubled, WorldOK, Kinds
<1>2. ASSUME NEW i \in 1..(Len(Top(c)) - 1)
      PROVE  kind[Top(c)[i]] = "dir" /\ mode[Top(c)[i]] = "open"
  <2>1. Top(c)[i] \in Nodes
    BY TopType
  <2>2. kind[Top(c)[i]] # "none"
    <3>1. CASE Top(c)[i] = Root
      BY <3>1 DEF WorldOK
    <3>2. CASE \E j \in 1..popped[c] : Top(c)[i] = PlaceOf(Trails(c)[j])
      BY <1>1, <2>1, <3>2 DEF LevelsThere
    <3> QED BY <3>1, <3>2, TopType
  <2> QED BY <1>1, <2>1, <2>2
<1>3. Blocked(Top(c)) = {}
  BY <1>2 DEF Blocked
<1> QED BY <1>1, <1>3, TopType DEF LookupError

(* A lookup that fails has a reason.                                       *)
LEMMA Reasons ==
    ASSUME NEW trail
    PROVE  /\ LookupError(trail) \in {"none", "ENOTDIR", "ENOENT", "EACCES"}
           /\ Status(trail) \notin {"unknown", "none"} => Status(trail) = kind[PlaceOf(trail)]
           /\ MkdirError(trail) = "none" => kind[PlaceOf(trail)] = "none"
           /\ MkdirError(trail) = "EEXIST" => kind[PlaceOf(trail)] # "none"
<1>1. LookupError(trail) \in {"none", "ENOTDIR", "ENOENT", "EACCES"}
  BY DEF LookupError
<1> QED BY <1>1 DEF Status, MkdirError

-----------------------------------------------------------------------------
(* Nothing but a removal takes anything away, and troubles last.           *)
LEMMA WorldStep ==
    ASSUME WorldOK, CallsOK, [Next]_vars
    PROVE  /\ WorldOK'
           /\ removed => removed'
           /\ ~removed' => \A n \in Nodes : kind[n] # "none" => kind'[n] = kind[n]
           /\ Troubled => Troubled'
<1> DEFINE Goal == /\ WorldOK'
                   /\ removed => removed'
                   /\ ~removed' => \A n \in Nodes : kind[n] # "none" => kind'[n] = kind[n]
<1>0. Root \in Nodes
  BY TreeAssumption
<1>1. UNCHANGED mode
  BY DEF Next, Step, OtherCreates, OtherRemoves, Others, vars
<1>2. ASSUME NEW c \in Callers, Make(c) PROVE Goal
  <2>1. popped[c] < Len(Trails(c))
    BY <1>2 DEF Make, CallsOK
  <2>2. PlaceOf(Top(c)) \in Nodes
    BY <2>1, TopType
  <2>3. Made(c, MkdirError(Top(c))) /\ UNCHANGED removed
    BY <1>2 DEF Make
  <2>4. CASE MkdirError(Top(c)) = "none"
    <3>1. kind[PlaceOf(Top(c))] = "none"
      BY <2>4, Reasons
    <3> HIDE DEF Root
    <3> QED BY <1>0, <1>1, <2>2, <2>3, <2>4, <3>1 DEF Made, WorldOK, Kinds
  <2>5. CASE MkdirError(Top(c)) # "none"
    BY <1>1, <2>3, <2>5 DEF Made, WorldOK
  <2> QED BY <2>4, <2>5
<1>3. ASSUME NEW n \in Nodes, OtherCreates(n) PROVE Goal
  BY <1>0, <1>1, <1>3 DEF OtherCreates, WorldOK, Kinds
<1>4. ASSUME NEW n \in Nodes, OtherRemoves(n) PROVE Goal
  <2>1. removed' /\ n # Root /\ kind' = [kind EXCEPT ![n] = "none"]
    BY <1>4 DEF OtherRemoves
  <2> HIDE DEF Root
  <2>2. WorldOK'
    BY <1>0, <1>1, <2>1 DEF WorldOK, Kinds
  <2> QED BY <2>1, <2>2
<1>5. ASSUME UNCHANGED world PROVE Goal
  <2>1. UNCHANGED kind /\ UNCHANGED removed
    BY <1>5 DEF world
  <2>2. WorldOK'
    BY <1>1, <2>1 DEF WorldOK
  <2>3. removed => removed'
    BY <2>1
  <2>4. \A n \in Nodes : kind[n] # "none" => kind'[n] = kind[n]
    BY <2>1
  <2> QED BY <2>2, <2>3, <2>4
<1>6. Goal
  BY <1>2, <1>3, <1>4, <1>5 DEF Next, Step, vars, world
<1>7. Troubled => Troubled'
  BY <1>1, <1>6 DEF Troubled
<1> QED BY <1>6, <1>7

-----------------------------------------------------------------------------
(* The ways a call goes on: with another system call, after an error only  *)
(* if there is a trouble; with the next level, when something is at this   *)
(* one; or with an answer, an error only for a cause.                      *)
GoesTo(c, s) ==
    /\ pc[c] # "done" /\ pc' = [pc EXCEPT ![c] = s]
    /\ UNCHANGED <<popped, answer>>
    /\ s # "endless" => popped[c] < Len(Trails(c))
    /\ s = "check" => Troubled

TakesLevel(c) ==
    /\ pc[c] # "done" /\ popped[c] < Len(Trails(c))
    /\ kind'[PlaceOf(Top(c))] # "none"
    /\ popped' = [popped EXCEPT ![c] = @ + 1]
    /\ IF popped[c] + 1 = Len(Trails(c))
       THEN \E a \in {"true", "false"} : Finish(c, a)
       ELSE pc' = [pc EXCEPT ![c] = "look"] /\ UNCHANGED answer

GivesUp(c) ==
    /\ \E a \in {"error", "throws"} : Finish(c, a)
    /\ asked[c] = <<>> \/ climb[c].outcome = "throws" \/ Troubled
    /\ UNCHANGED popped

HasNoLevels(c) == Trails(c) = <<>> /\ Finish(c, "false") /\ UNCHANGED popped

Ways(c) ==
    \/ \E s \in {"endless", "look", "make", "check"} : GoesTo(c, s)
    \/ TakesLevel(c) \/ GivesUp(c) \/ HasNoLevels(c)

(* The body of the loop ends at a level where something is.                *)
LEMMA PopTakes ==
    ASSUME NEW c \in Callers, NEW new, Pop(c, new), popped[c] < Len(Trails(c)),
           kind'[PlaceOf(Top(c))] # "none", pc[c] # "done"
    PROVE  TakesLevel(c)
BY DEF Pop, TakesLevel

(* Every step of a call is one of these.                                   *)
LEMMA StepWays ==
    ASSUME WorldOK, CallsOK, LevelsThere, CheckHasCause, NEW c \in Callers, Step(c)
    PROVE  Ways(c)
<1>1. CASE Start(c)
  <2>1. Trails(c) \in Seq(Seq(Nodes)) /\ popped[c] \in Nat /\ popped[c] <= Len(Trails(c))
    BY DEF CallsOK, GoodTrails
  <2>2. pc[c] = "start" /\ UNCHANGED popped
    BY <1>1 DEF Start
  <2>3. CASE asked[c] = <<>> \/ climb[c].outcome = "throws"
    BY <1>1, <2>2, <2>3 DEF Start, Ways, GivesUp
  <2>4. CASE ~(asked[c] = <<>> \/ climb[c].outcome = "throws")
    <3>1. CASE climb[c].outcome = "climbs"
      BY <1>1, <2>2, <2>4, <3>1 DEF Start, Ways, GoesTo
    <3>2. CASE climb[c].outcome # "climbs" /\ Trails(c) = <<>>
      BY <1>1, <2>2, <2>4, <3>2 DEF Start, Ways, HasNoLevels
    <3>3. CASE climb[c].outcome # "climbs" /\ Trails(c) # <<>>
      <4>1. popped[c] < Len(Trails(c))
        BY <2>1, <2>2, <3>3 DEF CallsOK
      <4> QED BY <1>1, <2>2, <2>4, <3>3, <4>1 DEF Start, Ways, GoesTo
    <3> QED BY <3>1, <3>2, <3>3
  <2> QED BY <2>3, <2>4
<1>2. CASE Look(c) /\ UNCHANGED world
  <2>1. popped[c] < Len(Trails(c)) /\ UNCHANGED kind
    BY <1>2 DEF Look, CallsOK, world
  <2>2. CASE Status(Top(c)) = "unknown"
    <3>1. LookupError(Top(c)) = "EACCES"
      <4>1. kind[PlaceOf(Top(c))] \in Kinds
        BY <2>1, TopType DEF WorldOK
      <4> QED BY <2>2, <4>1 DEF Status, Kinds
    <3>2. Troubled
      BY <2>1, <3>1, NoTroubleNoError
    <3> QED BY <1>2, <2>1, <2>2, <3>2 DEF Look, Ways, GoesTo
  <2>3. CASE Status(Top(c)) = "none"
    BY <1>2, <2>1, <2>3 DEF Look, Ways, GoesTo
  <2>4. CASE Status(Top(c)) \notin {"unknown", "none"}
    <3>1. kind'[PlaceOf(Top(c))] # "none"
      BY <2>1, <2>4, Reasons
    <3>2. Pop(c, created[c]) /\ pc[c] # "done"
      BY <1>2, <2>4 DEF Look
    <3> QED BY <2>1, <3>1, <3>2, PopTakes DEF Ways
  <2> QED BY <2>2, <2>3, <2>4
<1>3. CASE Make(c)
  <2> DEFINE e == MkdirError(Top(c))
  <2>1. popped[c] < Len(Trails(c)) /\ PlaceOf(Top(c)) \in Nodes
    BY <1>3, TopType DEF Make, CallsOK
  <2>2. CASE e \in {"none", "EEXIST"}
    <3>1. kind'[PlaceOf(Top(c))] # "none"
      BY <1>3, <2>1, <2>2, Reasons DEF Make, Made, WorldOK
    <3>2. Pop(c, created[c]) /\ pc[c] # "done"
      BY <1>3, <2>2 DEF Make
    <3> QED BY <2>1, <3>1, <3>2, PopTakes DEF Ways
  <2>3. CASE e \notin {"none", "EEXIST"}
    <3>1. Troubled
      BY <2>1, <2>3, NoTroubleNoError DEF MkdirError
    <3> QED BY <1>3, <2>1, <2>3, <3>1 DEF Make, Ways, GoesTo
  <2> QED BY <2>2, <2>3
<1>4. CASE Check(c) /\ UNCHANGED world
  <2>1. popped[c] < Len(Trails(c)) /\ UNCHANGED kind /\ Troubled
    BY <1>4 DEF Check, CallsOK, CheckHasCause, world
  <2>2. CASE Status(Top(c)) = "dir"
    <3>1. kind'[PlaceOf(Top(c))] # "none"
      BY <2>1, <2>2, Reasons
    <3>2. Pop(c, created[c]) /\ pc[c] # "done"
      BY <1>4, <2>2 DEF Check
    <3> QED BY <2>1, <3>1, <3>2, PopTakes DEF Ways
  <2>3. CASE Status(Top(c)) # "dir"
    BY <1>4, <2>1, <2>3 DEF Check, Ways, GivesUp
  <2> QED BY <2>2, <2>3
<1> QED BY <1>1, <1>2, <1>3, <1>4 DEF Step

-----------------------------------------------------------------------------
(* What is true of a call that takes no step stays true.                   *)
LEMMA CallsStep ==
    ASSUME CallsOK, NEW c \in Callers, Ways(c), UNCHANGED climb
    PROVE  CallsOK'
<1>1. \A d \in Callers : Trails(d)' = Trails(d) /\ Trails(d) \in Seq(Seq(Nodes))
  BY DEF Trails, CallsOK, GoodTrails
<1>2. \A d \in Callers : GoodTrails(Trails(d)')
  BY <1>1 DEF CallsOK
<1>3. CASE \E s \in {"endless", "look", "make", "check"} : GoesTo(c, s)
  <2>1. PICK s \in {"endless", "look", "make", "check"} : GoesTo(c, s)
    BY <1>3
  <2>2. pc' \in [Callers -> PCs] /\ pc'[c] = s /\ UNCHANGED <<popped, answer>>
        /\ \A d \in Callers : d # c => pc'[d] = pc[d]
    BY <2>1 DEF GoesTo, CallsOK, PCs
  <2>3. answer[c] = "none"
    BY <2>1 DEF GoesTo, CallsOK
  <2>4. s # "endless" => popped[c] < Len(Trails(c))
    BY <2>1 DEF GoesTo
  <2> QED BY <1>1, <1>2, <2>2, <2>3, <2>4 DEF CallsOK
<1>4. CASE TakesLevel(c)
  <2>1. popped' = [popped EXCEPT ![c] = popped[c] + 1] /\ popped[c] < Len(Trails(c))
        /\ popped[c] \in Nat /\ popped[c] + 1 \in Nat
    BY <1>4 DEF TakesLevel, CallsOK
  <2>2. popped' \in [Callers -> Nat] /\ popped'[c] = popped[c] + 1
        /\ \A d \in Callers : d # c => popped'[d] = popped[d]
    BY <2>1 DEF CallsOK
  <2>3. CASE popped[c] + 1 = Len(Trails(c))
    <3>1. PICK a \in {"true", "false"} : Finish(c, a)
      BY <1>4, <2>3 DEF TakesLevel
    <3>2. pc' \in [Callers -> PCs] /\ pc'[c] = "done"
          /\ \A d \in Callers : d # c => pc'[d] = pc[d]
      BY <3>1 DEF Finish, CallsOK, PCs
    <3>3. answer' \in [Callers -> AnswerValues] /\ answer'[c] = a
          /\ \A d \in Callers : d # c => answer'[d] = answer[d]
      BY <3>1 DEF Finish, CallsOK, AnswerValues
    <3> QED BY <1>1, <1>2, <2>1, <2>2, <2>3, <3>2, <3>3 DEF CallsOK
  <2>4. CASE popped[c] + 1 # Len(Trails(c))
    BY <1>1, <1>2, <1>4, <2>1, <2>2, <2>4 DEF CallsOK, TakesLevel, PCs, AnswerValues
  <2> QED BY <2>3, <2>4
<1>5. CASE GivesUp(c)
  BY <1>1, <1>2, <1>5 DEF CallsOK, GivesUp, Finish, PCs, AnswerValues
<1>6. CASE HasNoLevels(c)
  BY <1>1, <1>2, <1>6 DEF CallsOK, HasNoLevels, Finish, PCs, AnswerValues
<1> QED BY <1>3, <1>4, <1>5, <1>6 DEF Ways

(* What has answered stays as it is, and so do the levels that were taken. *)
LEMMA LevelsStep ==
    ASSUME WorldOK, CallsOK, LevelsThere, NEW c \in Callers, Ways(c), UNCHANGED climb,
           removed => removed',
           ~removed' => \A n \in Nodes : kind[n] # "none" => kind'[n] = kind[n]
    PROVE  LevelsThere'
<1> SUFFICES ASSUME NEW d \in Callers
             PROVE  /\ ~removed' => \A k \in 1..popped'[d] : kind'[PlaceOf(Trails(d)[k])] # "none"
                    /\ answer'[d] \in {"true", "false"} => popped'[d] = Len(Trails(d))
  BY DEF LevelsThere, Trails
<1>1. Trails(d) \in Seq(Seq(Nodes)) /\ popped[d] \in Nat /\ popped[d] <= Len(Trails(d))
  BY DEF CallsOK, GoodTrails
<1>2. ~removed' => \A k \in 1..popped[d] : kind'[PlaceOf(Trails(d)[k])] # "none"
  <2> SUFFICES ASSUME ~removed', NEW k \in 1..popped[d]
               PROVE  kind'[PlaceOf(Trails(d)[k])] # "none"
    OBVIOUS
  <2>1. PlaceOf(Trails(d)[k]) \in Nodes
    <3>1. k \in 1..Len(Trails(d))
      BY <1>1
    <3> QED BY <3>1, LevelType DEF CallsOK
  <2>2. kind[PlaceOf(Trails(d)[k])] # "none"
    BY DEF LevelsThere
  <2> QED BY <2>1, <2>2
<1>3. CASE d # c \/ UNCHANGED <<popped, answer>>
  <2>1. popped'[d] = popped[d] /\ answer'[d] = answer[d]
    BY <1>3 DEF Ways, GoesTo, TakesLevel, GivesUp, HasNoLevels, Finish, CallsOK
  <2> QED BY <1>2, <2>1 DEF LevelsThere
<1>4. CASE d = c /\ TakesLevel(c)
  <2>1. popped'[c] = popped[c] + 1 /\ answer[c] = "none"
    BY <1>4 DEF TakesLevel, CallsOK
  <2>2. kind'[PlaceOf(Trails(c)[popped[c] + 1])] # "none"
    BY <1>4 DEF TakesLevel, Top
  <2>3. \A k \in 1..popped'[c] : k \in 1..popped[c] \/ k = popped[c] + 1
    BY <1>1, <1>4, <2>1
  <2>4. answer'[c] \in {"true", "false"} => popped'[c] = Len(Trails(c))
    BY <1>4, <2>1 DEF TakesLevel
  <2> QED BY <1>2, <1>4, <2>2, <2>3, <2>4
<1>5. CASE d = c /\ GivesUp(c)
  BY <1>2, <1>5 DEF GivesUp, Finish, CallsOK
<1>6. CASE d = c /\ HasNoLevels(c)
  BY <1>1, <1>2, <1>6 DEF HasNoLevels
<1> QED BY <1>3, <1>4, <1>5, <1>6 DEF Ways, GoesTo

(* Errors keep their cause: the path of a call does not change, and        *)
(* troubles last.                                                          *)
LEMMA CauseStep ==
    ASSUME CallsOK, CheckHasCause, ErrorHasCause, NEW c \in Callers, Ways(c),
           UNCHANGED <<asked, climb>>, Troubled => Troubled'
    PROVE  CheckHasCause' /\ ErrorHasCause'
<1>1. ASSUME NEW d \in Callers, pc'[d] = "check" PROVE Troubled'
  <2>1. pc[d] = "check" \/ Troubled
    BY <1>1 DEF Ways, GoesTo, TakesLevel, GivesUp, HasNoLevels, Finish, CallsOK
  <2> QED BY <2>1 DEF CheckHasCause
<1>2. ASSUME NEW d \in Callers, answer'[d] \in {"error", "throws"}
      PROVE  asked[d] = <<>> \/ climb[d].outcome = "throws" \/ Troubled'
  <2>1. answer[d] \in {"error", "throws"} \/ (d = c /\ GivesUp(c))
    BY <1>2 DEF Ways, GoesTo, TakesLevel, GivesUp, HasNoLevels, Finish, CallsOK
  <2>2. asked[d] = <<>> \/ climb[d].outcome = "throws" \/ Troubled
    BY <2>1 DEF ErrorHasCause, GivesUp
  <2> QED BY <2>2
<1> QED BY <1>1, <1>2 DEF CheckHasCause, ErrorHasCause

(* Every step of a call and of another program keeps the invariant.        *)
LEMMA InvStep == Inv /\ [Next]_vars => Inv'
<1> SUFFICES ASSUME Inv, [Next]_vars PROVE Inv'
  OBVIOUS
<1> USE DEF Inv
<1>1. /\ WorldOK' /\ (Troubled => Troubled') /\ (removed => removed')
      /\ ~removed' => \A n \in Nodes : kind[n] # "none" => kind'[n] = kind[n]
  BY WorldStep
<1>2. ASSUME NEW c \in Callers, Step(c) PROVE Inv'
  <2>1. UNCHANGED <<asked, climb>>
    BY <1>2 DEF Step
  <2>2. Ways(c)
    BY <1>2, StepWays
  <2> QED BY <1>1, <2>1, <2>2, CallsStep, LevelsStep, CauseStep
<1>3. CASE UNCHANGED <<call, asked, climb>>
  <2>1. CallsOK'
    BY <1>3 DEF call, CallsOK, Trails
  <2>2. LevelsThere'
    <3> SUFFICES ASSUME NEW c \in Callers, ~removed', NEW k \in 1..popped[c]
                 PROVE  kind'[PlaceOf(Trails(c)[k])] # "none"
      BY <1>3 DEF call, LevelsThere, Trails
    <3>1. k \in 1..Len(Trails(c)) /\ Trails(c) \in Seq(Seq(Nodes))
      BY DEF CallsOK, GoodTrails
    <3>3. PlaceOf(Trails(c)[k]) \in Nodes
      BY <3>1, LevelType DEF CallsOK
    <3>4. kind[PlaceOf(Trails(c)[k])] # "none"
      BY <1>1 DEF LevelsThere
    <3> QED BY <1>1, <3>3, <3>4
  <2>3. CheckHasCause' /\ ErrorHasCause'
    BY <1>1, <1>3 DEF call, CheckHasCause, ErrorHasCause
  <2> QED BY <1>1, <2>1, <2>2, <2>3
<1>4. CASE (\E n \in Nodes : OtherCreates(n) \/ OtherRemoves(n)) \/ UNCHANGED vars
  BY <1>3, <1>4 DEF OtherCreates, OtherRemoves, Others, vars, call
<1> QED BY <1>2, <1>4 DEF Next

(* However many calls and programs make the same directories at the same   *)
(* time, a call fails only for a trouble in the tree or a path that is     *)
(* empty or cannot be climbed.                                             *)
THEOREM ErrorsHaveCauses == Spec => []ErrorHasCause
<1>1. Inv => ErrorHasCause
  BY DEF Inv
<1> QED BY <1>1, InvInit, InvStep, PTL DEF Spec

(* A call that answers without an error has left something at every level  *)
(* of its path, whoever made it and whoever else is at work, as long as    *)
(* nothing is removed.                                                     *)
THEOREM SuccessIsMade == Spec => []SuccessMeansMade
<1>1. Inv => SuccessMeansMade
  <2> SUFFICES ASSUME Inv, NEW c \in Callers, answer[c] \in {"true", "false"}, ~removed,
                      NEW k \in 1..Len(Trails(c))
               PROVE  kind[PlaceOf(Trails(c)[k])] # "none"
    BY DEF SuccessMeansMade
  <2> QED BY DEF Inv, LevelsThere
<1> QED BY <1>1, InvInit, InvStep, PTL DEF Spec
-----------------------------------------------------------------------------
(* What the invariant says nothing of, because no call ever stumbles over  *)
(* it: the ghosts and the local variable.                                  *)
RestOK ==
    /\ elided \in BOOLEAN
    /\ removed \in BOOLEAN
    /\ others \in 0..MaxOthers
    /\ asked \in [Callers -> Asked]
    /\ DOMAIN climb = Callers
    /\ created \in [Callers -> BOOLEAN]
    /\ made \in [Callers -> SUBSET Nodes]

(* It holds at first.                                                      *)
LEMMA RestInit == Init => RestOK
<1> SUFFICES ASSUME Init PROVE RestOK
  OBVIOUS
<1>1. others \in 0..MaxOthers
  BY TreeAssumption DEF Init
<1>2. DOMAIN climb = Callers
  BY DEF Init
<1>3. created \in [Callers -> BOOLEAN] /\ made \in [Callers -> SUBSET Nodes]
  BY DEF Init
<1>4. elided \in BOOLEAN /\ removed \in BOOLEAN /\ asked \in [Callers -> Asked]
  BY DEF Init
<1> QED BY <1>1, <1>2, <1>3, <1>4 DEF RestOK

(* A call sets its local variable to what it was or to TRUE, and enters    *)
(* what it has made.                                                       *)
LEMMA RestStep == Inv /\ RestOK /\ [Next]_vars => RestOK'
<1> SUFFICES ASSUME Inv, RestOK, [Next]_vars PROVE RestOK'
  OBVIOUS
<1>1. ASSUME NEW c \in Callers, Step(c) PROVE RestOK'
  <2>1. UNCHANGED <<asked, climb, elided, removed, others>>
    BY <1>1 DEF Step, Make, world
  <2>2. created' \in [Callers -> BOOLEAN]
    <3>1. UNCHANGED created \/ \E new \in BOOLEAN : created' = [created EXCEPT ![c] = new]
      BY <1>1 DEF Step, Start, Look, Make, Check, Pop, RestOK
    <3> QED BY <3>1 DEF RestOK
  <2>3. made' \in [Callers -> SUBSET Nodes]
    <3>1. CASE UNCHANGED made
      BY <3>1 DEF RestOK
    <3>2. CASE Make(c)
      <4>1. popped[c] < Len(Trails(c)) /\ CallsOK
        BY <3>2 DEF Make, Inv, CallsOK
      <4>2. PlaceOf(Top(c)) \in Nodes
        BY <4>1, TopType
      <4> QED BY <3>2, <4>2 DEF Make, Made, RestOK
    <3> QED BY <1>1, <3>1, <3>2 DEF Step, Start, Look, Check
  <2> QED BY <2>1, <2>2, <2>3 DEF RestOK
<1>2. ASSUME NEW n \in Nodes, OtherCreates(n) \/ OtherRemoves(n) PROVE RestOK'
  <2>1. others' \in 0..MaxOthers
    <3>1. others \in 0..MaxOthers /\ others < MaxOthers /\ others' = others + 1
      BY <1>2 DEF OtherCreates, OtherRemoves, Others, RestOK
    <3> QED BY <3>1, TreeAssumption
  <2>2. removed' \in BOOLEAN
    BY <1>2 DEF OtherCreates, OtherRemoves, RestOK
  <2>3. UNCHANGED <<elided, asked, climb, created, made>>
    BY <1>2 DEF OtherCreates, OtherRemoves, Others, call
  <2> QED BY <2>1, <2>2, <2>3 DEF RestOK
<1>3. CASE UNCHANGED vars
  BY <1>3 DEF vars, RestOK
<1> QED BY <1>1, <1>2, <1>3 DEF Next

(* The variables keep their types: no call takes more levels off its stack *)
(* than there are, and one has answered exactly when it is done.           *)
THEOREM TypeCorrect == Spec => []TypeOK
<1>1. Inv /\ RestOK => TypeOK
  BY DEF Inv, WorldOK, CallsOK, PCs, AnswerValues, RestOK, TypeOK
<1> QED BY <1>1, InvInit, InvStep, RestInit, RestStep, PTL DEF Spec

-----------------------------------------------------------------------------
(* A call that is alone: nobody else has made anything.                    *)
Alone(c) == others = 0 /\ \A d \in Callers \ {c} : made[d] = {}

(* For such a call the local variable runs ahead of the making only while  *)
(* the level is missing, so that it never stays set for nothing.           *)
Exact(c) ==
    /\ pc[c] = "start" => ~created[c]
    /\ pc[c] = "make" => created[c]
    /\ made[c] # {} => created[c]
    /\ created[c] /\ made[c] = {} =>
          \/ pc[c] = "make" /\ Status(Top(c)) = "none"
          \/ pc[c] = "check" /\ Status(Top(c)) \in {"none", "unknown"}
          \/ answer[c] \in {"error", "throws"}
    /\ answer[c] \in {"true", "false"} => (answer[c] = "true" <=> created[c])

ExactOK == \A c \in Callers : Alone(c) => Exact(c)

(* A level looks the same as long as nothing changes.                      *)
LEMMA SameStatus ==
    ASSUME NEW c \in Callers, UNCHANGED <<kind, mode, climb>>, popped'[c] = popped[c]
    PROVE  Status(Top(c))' = Status(Top(c))
BY DEF Status, LookupError, Blocked, Top, Trails, PlaceOf

(* A step of the call itself.                                              *)
LEMMA OwnStep ==
    ASSUME Inv, RestOK, NEW c \in Callers, Step(c), Exact(c)
    PROVE  Exact(c)'
<1> USE DEF Inv
<1>0. /\ pc \in [Callers -> PCs] /\ answer \in [Callers -> AnswerValues]
      /\ created \in [Callers -> BOOLEAN] /\ made \in [Callers -> SUBSET Nodes]
      /\ pc[c] # "done" => answer[c] = "none"
      /\ popped \in [Callers -> Nat] /\ UNCHANGED <<climb, mode>>
  BY DEF CallsOK, RestOK, Step
<1>1. CASE Start(c) /\ UNCHANGED world
  BY <1>0, <1>1 DEF Start, Finish, Exact
<1>2. CASE Look(c) /\ UNCHANGED world
  <2>1. pc[c] = "look" /\ UNCHANGED <<kind, made>> /\ (created[c] => made[c] # {})
    BY <1>0, <1>2 DEF Look, Exact, world
  <2>2. CASE Status(Top(c)) = "unknown"
    BY <1>0, <1>2, <2>1, <2>2 DEF Look, Exact
  <2>3. CASE Status(Top(c)) = "none"
    <3>1. popped' = popped /\ pc'[c] = "make" /\ created'[c] = TRUE /\ answer' = answer
      BY <1>0, <1>2, <2>3 DEF Look
    <3>2. Status(Top(c))' = "none"
      BY <1>0, <2>1, <2>3, <3>1, SameStatus
    <3> QED BY <1>0, <2>1, <3>1, <3>2 DEF Exact
  <2>4. CASE Status(Top(c)) \notin {"unknown", "none"}
    BY <1>0, <1>2, <2>1, <2>4 DEF Look, Pop, Finish, Exact
  <2> QED BY <2>2, <2>3, <2>4
<1>3. CASE Make(c)
  <2>1. pc[c] = "make" /\ Made(c, MkdirError(Top(c)))
    BY <1>3 DEF Make
  <2>2. CASE MkdirError(Top(c)) = "none"
    <3>1. made'[c] # {} /\ Pop(c, created[c]) /\ created[c] \in BOOLEAN
      BY <1>0, <1>3, <2>1, <2>2 DEF Make, Made
    <3>2. created[c]
      BY <2>1 DEF Exact
    <3> QED BY <1>0, <2>1, <3>1, <3>2 DEF Pop, Finish, Exact
  <2>3. CASE MkdirError(Top(c)) = "EEXIST"
    <3>1. Status(Top(c)) # "none"
      <4>1. LookupError(Top(c)) \in {"none", "ENOTDIR", "ENOENT", "EACCES"}
        BY Reasons
      <4> QED BY <2>3, <4>1 DEF MkdirError, Status
    <3>2. UNCHANGED made /\ Pop(c, created[c]) /\ (created[c] => made[c] # {})
      BY <1>0, <1>3, <2>1, <2>3, <3>1 DEF Make, Made, Exact
    <3> QED BY <1>0, <2>1, <3>2 DEF Pop, Finish, Exact
  <2>4. CASE MkdirError(Top(c)) \notin {"none", "EEXIST"}
    <3>1. /\ UNCHANGED <<made, kind, popped, created, answer>> /\ pc'[c] = "check"
          /\ created[c] /\ made[c] = {} => Status(Top(c)) = "none"
      BY <1>0, <1>3, <2>1, <2>4 DEF Make, Made, Exact
    <3>2. Status(Top(c))' = Status(Top(c))
      BY <1>0, <3>1, SameStatus
    <3> QED BY <1>0, <2>1, <3>1, <3>2 DEF Exact
  <2> QED BY <2>2, <2>3, <2>4
<1>4. CASE Check(c) /\ UNCHANGED world
  <2>1. pc[c] = "check" /\ UNCHANGED made
    BY <1>4 DEF Check
  <2>2. CASE Status(Top(c)) = "dir"
    <3>1. Pop(c, created[c]) /\ (created[c] => made[c] # {})
      BY <1>0, <1>4, <2>1, <2>2 DEF Check, Exact
    <3> QED BY <1>0, <2>1, <3>1 DEF Pop, Finish, Exact
  <2>3. CASE Status(Top(c)) # "dir"
    BY <1>0, <1>4, <2>1, <2>3 DEF Check, Finish, Exact
  <2> QED BY <2>2, <2>3
<1> QED BY <1>1, <1>2, <1>3, <1>4 DEF Step

(* Everything else leaves an alone call, and what it sees, as they were.   *)
LEMMA ExactStep == Inv /\ RestOK /\ ExactOK /\ [Next]_vars => ExactOK'
<1> SUFFICES ASSUME Inv, RestOK, ExactOK, [Next]_vars, NEW c \in Callers, Alone(c)'
             PROVE  Exact(c)'
  BY DEF ExactOK
<1>1. ASSUME NEW d \in Callers, Step(d) PROVE Exact(c)'
  <2>1. UNCHANGED <<others, climb, mode>> /\ \A e \in Callers : e # d => made'[e] = made[e]
    BY <1>1 DEF Step, Make, Made, Start, Look, Check, world, RestOK
  <2>2. made[d] \subseteq made'[d]
    BY <1>1 DEF Step, Make, Made, Start, Look, Check, RestOK
  <2>3. Exact(c)
    BY <2>1, <2>2 DEF Alone, ExactOK
  <2>4. CASE d = c
    BY <1>1, <2>3, <2>4, OwnStep
  <2>5. CASE d # c
    <3>1. made'[d] = {}
      BY <2>5 DEF Alone
    <3>2. UNCHANGED kind
      BY <1>1, <3>1 DEF Step, Make, Made, world, RestOK
    <3>3. /\ pc'[c] = pc[c] /\ answer'[c] = answer[c] /\ popped'[c] = popped[c]
          /\ created'[c] = created[c] /\ made'[c] = made[c]
      BY <1>1, <2>1, <2>5 DEF Step, Start, Look, Make, Check, Pop, Finish, Inv, CallsOK, RestOK
    <3>4. Status(Top(c))' = Status(Top(c))
      BY <2>1, <3>2, <3>3, SameStatus
    <3> QED BY <2>3, <3>3, <3>4 DEF Exact
  <2> QED BY <2>4, <2>5
<1>2. ASSUME NEW n \in Nodes, OtherCreates(n) \/ OtherRemoves(n) PROVE FALSE
  BY <1>2 DEF OtherCreates, OtherRemoves, Others, Alone, RestOK
<1>3. CASE UNCHANGED vars
  <2>1. Exact(c)
    BY <1>3 DEF vars, Alone, ExactOK
  <2>2. Status(Top(c))' = Status(Top(c))
    BY <1>3, SameStatus DEF vars
  <2> QED BY <1>3, <2>1, <2>2 DEF vars, Exact
<1> QED BY <1>1, <1>2, <1>3 DEF Next

(* A call that met no other maker says exactly whether it made a directory *)
(* although it sets its answer before it calls mkdir().                    *)
THEOREM AnswersAreExactAlone == Spec => []AnswerIsExactAlone
<1>1. Init => ExactOK
  <2> SUFFICES ASSUME Init, NEW c \in Callers PROVE Exact(c)
    BY DEF ExactOK
  <2>1. pc[c] = "start" /\ ~created[c] /\ made[c] = {} /\ answer[c] = "none"
    BY DEF Init
  <2> QED BY <2>1 DEF Exact
<1>2. Inv /\ RestOK /\ ExactOK => AnswerIsExactAlone
  <2> SUFFICES ASSUME Inv, ExactOK, NEW c \in Callers, answer[c] \in {"true", "false"}, Alone(c)
               PROVE  answer[c] = "true" <=> made[c] # {}
    BY DEF AnswerIsExactAlone, Alone
  <2>1. Exact(c)
    BY DEF ExactOK
  <2>2. CASE answer[c] = "true"
    <3>1. pc[c] = "done"
      BY <2>2 DEF Inv, CallsOK
    <3> QED BY <2>1, <2>2, <3>1 DEF Exact
  <2>3. CASE answer[c] = "false"
    BY <2>1, <2>3 DEF Exact
  <2> QED BY <2>2, <2>3
<1> QED BY <1>1, <1>2, InvInit, InvStep, RestInit, RestStep, ExactStep, PTL DEF Spec
=============================================================================
