------------------------- MODULE CreateDirectories -------------------------
(***************************************************************************)
(* Calls of create_directories (fs_ops.cpp) that run at the same time on   *)
(* one tree, while other programs create and remove.  A call climbs its    *)
(* path (Levels), then goes down again: stat() of each level, mkdir() of   *)
(* one that was not found, and after an error another stat().  Each system *)
(* call is a step of its own.                                              *)
(***************************************************************************)
EXTENDS Levels

CONSTANTS Callers,
          Asked,      \* the texts of the paths that calls are made with
          Nodes,      \* the locations of the tree
          Trees,      \* what may be there at the beginning
          Modes,      \* which directories may be searched and written
          MaxOthers   \* bound on the steps of other programs

Root == <<>>
Kinds == {"dir", "file", "none"}

\* The climb of a path: how it comes out, and if it ends, for each level,
\* topmost of the stack first, the locations it leads through, the last one its own.
Plan == [t \in Asked |-> [inplace \in BOOLEAN |->
            LET w == Climb(t, inplace)
            IN  [outcome |-> w.outcome,
                 trails |-> IF w.outcome # "ends" THEN <<>>
                            ELSE [k \in DOMAIN w.levels |-> Trail(w.levels[k])]]]]

ASSUME TreeAssumption ==
    /\ Root \in Nodes
    /\ \A k \in Trees : k \in [Nodes -> Kinds] /\ k[Root] = "dir"
    /\ Modes \subseteq [Nodes -> {"open", "readonly", "closed"}]
    /\ MaxOthers \in Nat

\* The levels are in the tree, and each leads only through the root and
\* levels before it.
ASSUME ChainAssumption ==
    \A t \in Asked, inplace \in BOOLEAN :
        LET trails == Plan[t][inplace].trails
        IN  /\ trails \in Seq(Seq(Nodes))
            /\ \A k \in 1..Len(trails) :
                  /\ Len(trails[k]) > 1
                  /\ \A i \in 1..(Len(trails[k]) - 1) :
                        \/ trails[k][i] = Root
                        \/ \E j \in 1..(k - 1) : trails[k][i] = trails[j][Len(trails[j])]

VARIABLES kind,      \* what is at each location
          mode,      \* its permissions, which nobody changes
          elided,    \* how the library was compiled (Path!Returned)
          removed,   \* has anything been removed?
          others,    \* how many steps other programs have taken
          asked, pc,
          climb,     \* what a call made of its path before its first system call
          popped,    \* how many levels a call has taken off its stack
          created,   \* the local variable
          answer,
          made       \* the directories that mkdir() made for a call

world == <<kind, removed, others>>
call == <<pc, popped, created, answer, made>>
vars == <<kind, mode, elided, removed, others, asked, climb, pc, popped, created, answer, made>>

Trails(c) == climb[c].trails
Top(c) == Trails(c)[popped[c] + 1]
PlaceOf(trail) == trail[Len(trail)]
DirOf(trail) == trail[Len(trail) - 1]

Init ==
    /\ kind \in Trees
    /\ mode \in Modes
    /\ elided \in BOOLEAN
    /\ removed = FALSE
    /\ others = 0
    /\ asked \in [Callers -> Asked]
    /\ climb = [c \in Callers |-> Plan[asked[c]][elided]]
    /\ pc = [c \in Callers |-> "start"]
    /\ popped = [c \in Callers |-> 0]
    /\ created = [c \in Callers |-> FALSE]
    /\ answer = [c \in Callers |-> "none"]
    /\ made = [c \in Callers |-> {}]

-----------------------------------------------------------------------------
(* Lookup of a name.                                                       *)

\* Where a lookup stops before it comes to the last location.
Blocked(trail) == {i \in 1..(Len(trail) - 1) : \/ kind[trail[i]] # "dir"
                                               \/ mode[trail[i]] = "closed"}

LookupError(trail) ==
    IF Blocked(trail) = {} THEN "none"
    ELSE LET at == trail[CHOOSE i \in Blocked(trail) : \A j \in Blocked(trail) : i <= j]
         IN  CASE kind[at] = "file" -> "ENOTDIR"
               [] kind[at] = "none" -> "ENOENT"
               [] OTHER             -> "EACCES"

\* CreateFileStatus takes ENOENT and ENOTDIR for an answer.
Status(trail) ==
    IF LookupError(trail) = "EACCES" THEN "unknown"
    ELSE IF LookupError(trail) # "none" THEN "none"
    ELSE kind[PlaceOf(trail)]

MkdirError(trail) ==
    IF LookupError(trail) # "none" THEN LookupError(trail)
    ELSE IF kind[PlaceOf(trail)] # "none" THEN "EEXIST"
    ELSE IF mode[DirOf(trail)] # "open" THEN "EACCES"
    ELSE "none"

-----------------------------------------------------------------------------
(* The steps of a call.                                                    *)

Finish(c, a) == /\ pc' = [pc EXCEPT ![c] = "done"]
                /\ answer' = [answer EXCEPT ![c] = a]

\* Mistake: the last level is left on the stack.
PopEarly(c, new) ==
    /\ popped' = [popped EXCEPT ![c] = @ + 1]
    /\ created' = [created EXCEPT ![c] = new]
    /\ IF popped[c] + 2 >= Len(Trails(c))
       THEN Finish(c, IF new THEN "true" ELSE "false")
       ELSE pc' = [pc EXCEPT ![c] = "look"] /\ UNCHANGED answer

\* The end of the loop's body without an error.
Pop(c, new) ==
    /\ popped' = [popped EXCEPT ![c] = @ + 1]
    /\ created' = [created EXCEPT ![c] = new]
    /\ IF popped[c] + 1 = Len(Trails(c))
       THEN Finish(c, IF new THEN "true" ELSE "false")
       ELSE pc' = [pc EXCEPT ![c] = "look"] /\ UNCHANGED answer

Start(c) ==
    /\ pc[c] = "start"
    /\ UNCHANGED <<popped, created, made>>
    /\ IF asked[c] = <<>> THEN Finish(c, "error")
       ELSE IF climb[c].outcome = "throws" THEN Finish(c, "throws")
       ELSE IF climb[c].outcome = "climbs"
       THEN pc' = [pc EXCEPT ![c] = "endless"] /\ UNCHANGED answer
       ELSE IF Trails(c) = <<>> THEN Finish(c, "false")
       ELSE pc' = [pc EXCEPT ![c] = "look"] /\ UNCHANGED answer

\* Mistake: a level is made without a look.
LookForgets(c) ==
    /\ pc[c] = "look"
    /\ pc' = [pc EXCEPT ![c] = "make"]
    /\ created' = [created EXCEPT ![c] = TRUE]
    /\ UNCHANGED <<popped, answer, made>>

\* status(top, m_ec)
Look(c) ==
    /\ pc[c] = "look"
    /\ UNCHANGED made
    /\ CASE Status(Top(c)) = "unknown" ->
              pc' = [pc EXCEPT ![c] = "check"] /\ UNCHANGED <<popped, created, answer>>
         [] Status(Top(c)) = "none" ->
              /\ pc' = [pc EXCEPT ![c] = "make"]
              /\ created' = [created EXCEPT ![c] = TRUE]
              /\ UNCHANGED <<popped, answer>>
         [] OTHER -> Pop(c, created[c])

Made(c, e) ==
    IF e = "none"
    THEN /\ kind' = [kind EXCEPT ![PlaceOf(Top(c))] = "dir"]
         /\ made' = [made EXCEPT ![c] = @ \cup {PlaceOf(Top(c))}]
    ELSE UNCHANGED <<kind, made>>

\* Mistake: EEXIST is an error.
MakeStrictly(c) ==
    /\ pc[c] = "make"
    /\ UNCHANGED <<removed, others>>
    /\ LET e == MkdirError(Top(c))
       IN  /\ Made(c, e)
           /\ IF e = "none" THEN Pop(c, created[c])
              ELSE Finish(c, "error") /\ UNCHANGED <<popped, created>>

\* create_directory(top, m_ec): it is no error that the level exists.
Make(c) ==
    /\ pc[c] = "make"
    /\ UNCHANGED <<removed, others>>
    /\ LET e == MkdirError(Top(c))
       IN  /\ Made(c, e)
           /\ IF e \in {"none", "EEXIST"} THEN Pop(c, created[c])
              ELSE pc' = [pc EXCEPT ![c] = "check"] /\ UNCHANGED <<popped, created, answer>>

\* Mistake: after an error the level is tried again.
CheckAgain(c) ==
    /\ pc[c] = "check"
    /\ pc' = [pc EXCEPT ![c] = "look"]
    /\ UNCHANGED <<popped, created, answer, made>>

\* is_directory(top), the overload that throws, forgives the error.
Check(c) ==
    /\ pc[c] = "check"
    /\ UNCHANGED made
    /\ CASE Status(Top(c)) = "unknown" -> Finish(c, "throws") /\ UNCHANGED <<popped, created>>
         [] Status(Top(c)) = "dir"     -> Pop(c, created[c])
         [] OTHER                      -> Finish(c, "error") /\ UNCHANGED <<popped, created>>

Step(c) ==
    /\ \/ (Start(c) \/ Look(c) \/ Check(c)) /\ UNCHANGED world
       \/ Make(c)
    /\ UNCHANGED <<asked, climb, mode, elided>>

-----------------------------------------------------------------------------
(* Other programs.                                                         *)

Others ==
    /\ others < MaxOthers
    /\ others' = others + 1
    /\ UNCHANGED <<call, asked, climb, mode, elided>>

OtherCreates(n) ==
    /\ Others
    /\ n # Root /\ kind[n] = "none" /\ kind[Front(n)] = "dir"
    /\ \E k \in {"dir", "file"} : kind' = [kind EXCEPT ![n] = k]
    /\ UNCHANGED removed

OtherRemoves(n) ==
    /\ Others
    /\ n # Root /\ kind[n] # "none"
    /\ \A m \in Nodes : m # Root /\ Front(m) = n => kind[m] = "none"
    /\ kind' = [kind EXCEPT ![n] = "none"]
    /\ removed' = TRUE

Next == \/ \E c \in Callers : Step(c)
        \/ \E n \in Nodes : OtherCreates(n) \/ OtherRemoves(n)

Fairness == \A c \in Callers : WF_vars(Step(c))

Spec == Init /\ [][Next]_vars /\ Fairness

-----------------------------------------------------------------------------
(* Properties.                                                             *)

TypeOK ==
    /\ kind \in [Nodes -> Kinds]
    /\ mode \in Modes
    /\ elided \in BOOLEAN
    /\ removed \in BOOLEAN
    /\ others \in 0..MaxOthers
    /\ asked \in [Callers -> Asked]
    /\ DOMAIN climb = Callers
    /\ pc \in [Callers -> {"start", "look", "make", "check", "endless", "done"}]
    /\ popped \in [Callers -> Nat]
    /\ created \in [Callers -> BOOLEAN]
    /\ answer \in [Callers -> {"none", "true", "false", "error", "throws"}]
    /\ made \in [Callers -> SUBSET Nodes]
    /\ \A c \in Callers :
          /\ popped[c] <= Len(Trails(c))
          /\ pc[c] \in {"look", "make", "check"} => popped[c] < Len(Trails(c))
          /\ pc[c] = "done" <=> answer[c] # "none"

\* Something that mkdir() and stat() may stumble over.
Troubled == \/ removed
            \/ \E n \in Nodes : mode[n] # "open" \/ kind[n] = "file"

\* Any number of calls on overlapping paths, and programs that make the same
\* directories, never make a call fail: an error has a cause in the tree, or
\* in the path itself.
ErrorHasCause ==
    \A c \in Callers :
        answer[c] \in {"error", "throws"} =>
            \/ asked[c] = <<>>
            \/ climb[c].outcome = "throws"
            \/ Troubled

\* A call that answers without an error leaves something at every level,
\* whoever made it, unless things are removed.
SuccessMeansMade ==
    \A c \in Callers :
        answer[c] \in {"true", "false"} /\ ~removed =>
            \A k \in 1..Len(Trails(c)) : kind[PlaceOf(Trails(c)[k])] # "none"

\* A call that met no other maker says whether it made anything.
AnswerIsExactAlone ==
    \A c \in Callers :
        /\ answer[c] \in {"true", "false"}
        /\ others = 0
        /\ \A d \in Callers \ {c} : made[d] = {}
        => (answer[c] = "true" <=> made[c] # {})

\* Every call comes to an answer, unless its climb never ends.
Terminates ==
    \A c \in Callers : <>(\/ pc[c] = "done"
                          \/ pc[c] = "endless" /\ climb[c].outcome = "climbs")
=============================================================================
