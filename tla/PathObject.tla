----------------------------- MODULE PathObject -----------------------------
(***************************************************************************)
(* One path object under any sequence of calls of its members, each result *)
(* stored back into the object, and what must hold of the object and of    *)
(* the answers it gives after any such history.                            *)
(***************************************************************************)
EXTENDS Levels

CONSTANTS MaxLen,   \* bound on the length of the text of the object
          MaxArg    \* bound on the length of a text given as an argument

ASSUME BoundsAssumption == MaxLen \in Nat /\ MaxArg \in 0..MaxLen

VARIABLES p,        \* the object
          fault     \* how the last call ended

vars == <<p, fault>>

Args == {Split(t) : t \in Texts(MaxArg)}

Init == /\ p \in {Empty} \cup {Split(t) : t \in Texts(MaxLen)}
        /\ fault = "none"

Becomes(q) == /\ Len(q.str) <= MaxLen
              /\ p' = q
              /\ fault' = "none"

Throws == p' = p /\ fault' = "out_of_range"

Assign == \E r \in Args : Becomes(r)
MoveConstruct == Becomes(Split(p.str))
CallAppend == \E r \in Args : Becomes(AppendPath(p, r))
CallConcat == \E r \in Args : Becomes(Concat(p, r.str))
Clear == Becomes(Split(<<>>))

\* p = p.parent_path()
ToParentPath ==
    IF RelativePathThrows(p) THEN Throws
    ELSE \E elided \in BOOLEAN : Becomes(ParentPath(p, elided))

\* p = p.relative_path()
ToRelativePath == IF RelativePathThrows(p) THEN Throws ELSE Becomes(RelativePath(p))

\* p = p.lexically_normal()
ToLexicallyNormal == \E elided \in BOOLEAN : Becomes(LexicallyNormal(p, elided))

\* p = p.lexically_relative(r)
ToLexicallyRelative == \E r \in Args : Becomes(LexicallyRelative(p, r))

\* remove_filename, and replace_filename, which appends to what that leaves.
CallRemoveFilename ==
    IF RemoveThrows(p) THEN Throws
    ELSE \E q \in Removed(p) : \E r \in {q} \cup {AppendPath(q, s) : s \in Args} :
            /\ Len(r.str) <= MaxLen
            /\ p' = r
            /\ fault' = IF RemoveIsUndefined(p) THEN "undefined" ELSE "none"

CallReplaceExtension ==
    IF ReplaceThrows(p) THEN Throws
    ELSE \E r \in {Empty} \cup Args : Becomes(ReplaceExtension(p, r))

Next ==
    \/ Assign
    \/ MoveConstruct
    \/ CallAppend
    \/ CallConcat
    \/ Clear
    \/ ToParentPath
    \/ ToRelativePath
    \/ ToLexicallyNormal
    \/ ToLexicallyRelative
    \/ CallRemoveFilename
    \/ CallReplaceExtension

Spec == Init /\ [][Next]_vars

-----------------------------------------------------------------------------
(* The standard's normal form, as the comment of lexically_normal states   *)
(* it: rewriting of a list of names and separators.                        *)

Tokens(q) ==
    LET e == Elements(q)
        before(i) == IF i > 1 /\ e[i - 1] # <<Sep>> THEN <<<<Sep>>>> ELSE <<>>
        shown(i) == before(i) \o (IF e[i] = <<>> THEN <<>> ELSE <<e[i]>>)
    IN  FlattenSeq([i \in DOMAIN e |-> shown(i)])

\* ts without its items i to j.
Cut(ts, i, j) == SubSeq(ts, 1, i - 1) \o SubSeq(ts, j + 1, Len(ts))

Token == Seq(Alphabet)
LeastOf(S) == CHOOSE i \in S : \A j \in S : i <= j

\* A rule takes something off a list, so it is used up after as many turns as
\* the list has items.
Rewritten(ts, rule) ==
    LET after[k \in 0..Len(ts)] == IF k = 0 THEN ts ELSE rule[after[k - 1]]
    IN  after[Len(ts)]

\* Each dot goes with the separator that follows it.
Dots(ts) == {i \in DOMAIN ts : ts[i] = DotName}
WithoutDot ==
    [ts \in Seq(Token) |->
        IF Dots(ts) = {} THEN ts ELSE Cut(ts, LeastOf(Dots(ts)), LeastOf(Dots(ts)) + 1)]

\* A name goes with a parent reference that follows it.
Detours(ts) == {i \in DOMAIN ts : /\ i + 2 <= Len(ts)
                                  /\ ts[i] \notin {<<Sep>>, DotDot}
                                  /\ ts[i + 2] = DotDot}
WithoutDetour ==
    [ts \in Seq(Token) |->
        IF Detours(ts) = {} THEN ts ELSE Cut(ts, LeastOf(Detours(ts)), LeastOf(Detours(ts)) + 3)]

\* The root directory is its own parent.
WithoutRootParent ==
    [ts \in Seq(Token) |->
        IF Len(ts) > 1 /\ ts[1] = <<Sep>> /\ ts[2] = DotDot THEN Cut(ts, 2, 3) ELSE ts]

NormalForm(q) ==
    LET ts == Rewritten(Rewritten(Rewritten(Tokens(q), WithoutDot), WithoutDetour), WithoutRootParent)
        n == Len(ts)
        bare == IF n > 1 /\ ts[n] = <<Sep>> /\ ts[n - 1] = DotDot
                THEN SubSeq(ts, 1, n - 1) ELSE ts
    IN  IF q.str = <<>> THEN <<>>
        ELSE IF bare = <<>> THEN DotName ELSE FlattenSeq(bare)

-----------------------------------------------------------------------------
(* Properties.                                                             *)

\* The stored decomposition describes the text: the same elements, each at
\* the position that is remembered for it.
Described(q) ==
    /\ Elements(q) = Elements(Split(q.str))
    /\ \A i \in DOMAIN q.cmpts :
          LET c == q.cmpts[i]
          IN  c.text # <<>> => /\ c.pos + Len(c.text) <= Len(q.str)
                               /\ SubSeq(q.str, c.pos + 1, c.pos + Len(c.text)) = c.text

\* No call is exposed to an edit that reads before the first component.
Sound(q) == Described(q) /\ ~RemoveIsUndefined(q)

\* An object whose decomposition describes its text keeps that through every
\* call except parent_path and the undefined edit: in particular the edits
\* in place of remove_filename and lexically_normal keep text, elements and
\* positions in step.
OnlyParentPathMisplaces ==
    [][Described(p) => \/ Described(p')
                       \/ fault' = "undefined"
                       \/ \E elided \in BOOLEAN : p' = ParentPath(p, elided)]_vars

\* lexically_normal, which edits its result in place while it goes through
\* the elements once, yields the normal form the standard defines by
\* rewriting.
NormalIsTheNormalForm ==
    \A elided \in BOOLEAN :
        LET n == LexicallyNormal(p, elided)
        IN  /\ n.str = NormalForm(p)
            /\ Elements(n) = Elements(Split(n.str))

\* Paths that compare equal, such as a//b and a/b, hash alike and give the
\* same answers, whatever calls the one has been through.
EqualPathsAnswerAlike ==
    Sound(p) =>
        \A q \in {r \in Args : Equal(p, r)} :
            /\ HashValue(p) = HashValue(q)
            /\ \A elided \in BOOLEAN :
                  /\ Equal(ParentPath(p, elided), ParentPath(q, elided))
                  /\ Equal(LexicallyNormal(p, elided), LexicallyNormal(q, elided))
            /\ Equal(RelativePath(p), RelativePath(q))
            /\ Equal(Filename(p), Filename(q))
            /\ Equal(Extension(p), Extension(q))
            /\ Equal(RemoveFilename(p), RemoveFilename(q))

\* The laws the tests state for constructed paths hold for every object in
\* order: what remove_filename takes, operator/= puts back, and the
\* extension can be replaced by itself; stem and extension make the name,
\* and the generic format names the same elements.
EditsUndo ==
    Sound(p) =>
        /\ Equal(AppendPath(RemoveFilename(p), Filename(p)), p)
        /\ ReplaceExtension(p, Extension(p)).str = p.str
        /\ Stem(p).str \o Extension(p).str = Filename(p).str
        /\ Elements(Split(GenericString(p))) = Elements(p)

\* A path without dots and trailing separators is reached from a base like it
\* by the relative path between the two, if there is one.
RelativeLeadsBack ==
    LET plain(q) == /\ q.str # <<>>
                    /\ \A i \in DOMAIN Elements(q) :
                          Elements(q)[i] \notin {<<>>, DotName, DotDot}
        place(q) == LET e == Elements(Split(NormalForm(q)))
                    IN  IF e # <<>> /\ Last(e) = <<>> THEN Front(e) ELSE e
    IN  Sound(p) /\ plain(p) =>
            \A base \in {b \in Args : plain(b)} :
                LET r == LexicallyRelative(p, base)
                IN  r.str # <<>> => place(AppendPath(base, r)) = place(p)

\* The loop of create_directories ends, if parent_path returns an object
\* that was split again (a copy that is not elided) or no two separators of
\* the text are next to each other, and its levels, in the order they come
\* off the stack, need nothing but the levels before them; the last one is
\* the path, if that ends in a name.  Of the other texts, on which the loop
\* of an elided copy may not end, nothing is said.
ClimbEndsInAChain ==
    \A elided \in BOOLEAN :
        LET w == Climb(p.str, elided)
            tight == \A i \in 1..(Len(p.str) - 1) : <<p.str[i], p.str[i + 1]>> # <<Sep, Sep>>
        IN  ~elided \/ tight =>
                /\ w.outcome = "ends"
                /\ IsChain(w.levels)
                /\ Sound(p) /\ HasFilename(p) /\ Filename(p).str \notin {DotName, DotDot} =>
                      Place(Last(w.levels)) = Place(p.str)

\* Claimed by a test (path_decompose_test.cpp:124-139) of every path: the
\* relative path consists of the elements after the root.
RelativePathIsTheRest ==
    LET rest == SubSeq(Elements(p), IF HasRootDirectory(p) THEN 2 ELSE 1, Len(Elements(p)))
    IN  /\ ~RelativePathThrows(p)
        /\ Elements(RelativePath(p)) = rest
=============================================================================
