-------------------------------- MODULE Path --------------------------------
(***************************************************************************)
(* A path object (fs_path.h, fs_path.cpp) on a POSIX system: its text and  *)
(* a decomposition of it that is stored beside the text.  Most operations  *)
(* build the text and split it again; parent_path, remove_filename and     *)
(* lexically_normal edit the stored decomposition in place, and            *)
(* relative_path, remove_filename and replace_extension cut the text at    *)
(* positions that the decomposition remembers.                             *)
(*                                                                         *)
(* A text is a sequence over three characters: the separator, the dot and  *)
(* one character that is neither.  Positions count from 0, as in the code. *)
(***************************************************************************)
EXTENDS Naturals, FiniteSets, SequencesExt

Sep == "/"
Dot == "."
Alphabet == {Sep, Dot, "a"}
DotName == <<Dot>>
DotDot == <<Dot, Dot>>

Texts(n) == UNION {[1..k -> Alphabet] : k \in 0..n}

-----------------------------------------------------------------------------
(* Decomposition of a text.                                                *)

Component(text, type, pos) == [text |-> text, type |-> type, pos |-> pos]

\* What the loop makes of character i of s: the root directory, a separator
\* to pass over, the beginning of a name or one more character of it.
Scanned(cs, s, i) ==
    IF s[i] = Sep
    THEN IF i = 1 THEN <<Component(<<Sep>>, "ROOT_DIR", 0)>> ELSE cs
    ELSE IF i = 1 \/ s[i - 1] = Sep
    THEN Append(cs, Component(<<s[i]>>, "FILENAME", i - 1))
    ELSE [cs EXCEPT ![Len(cs)].text = Append(@, s[i])]

Scan(s) ==
    LET scan[i \in 0..Len(s)] == IF i = 0 THEN <<>> ELSE Scanned(scan[i - 1], s, i)
    IN  scan[Len(s)]

\* An empty name follows a trailing separator that is not the root directory.
Components(s) ==
    Scan(s) \o (IF Last(s) = Sep /\ Last(Scan(s)).type = "FILENAME"
                THEN <<Component(<<>>, "FILENAME", Len(s))>> ELSE <<>>)

\* A path object with one component holds it in its own text and type.
Trim(text, cs, type) ==
    IF Len(cs) = 1
    THEN [str |-> cs[1].text, cmpts |-> <<>>, type |-> cs[1].type]
    ELSE [str |-> text, cmpts |-> cs, type |-> type]

\* The object the constructors and SplitComponents make of a text.
Split(s) == IF s = <<>> THEN [str |-> s, cmpts |-> <<>>, type |-> "FILENAME"]
                        ELSE Trim(s, Components(s), "MULTI")

\* path(): the default member values, which SplitComponents has not seen.
Empty == [str |-> <<>>, cmpts |-> <<>>, type |-> "MULTI"]

\* A local variable returned by name: the compiler may construct it in place
\* (the decomposition survives) or call the move constructor, which splits.
Returned(q, elided) == IF elided THEN q ELSE Split(q.str)

-----------------------------------------------------------------------------
(* Iteration, comparison, hashing.                                         *)

TextsOf(cs) == [i \in DOMAIN cs |-> cs[i].text]

\* What begin() .. end() goes through.
Elements(q) == IF q.type = "MULTI" THEN TextsOf(q.cmpts)
               ELSE IF q.str = <<>> THEN <<>> ELSE <<q.str>>

\* compare() = 0.
Equal(q, r) ==
    LET listed(x) == IF x.type = "MULTI" THEN TextsOf(x.cmpts) ELSE <<x.str>>
    IN  \/ q.str = <<>> /\ r.str = <<>>
        \/ listed(q) = listed(r)

\* Mistake: hashes the text.
HashOfText(q) == q.str

\* hash_value folds the hashes of the elements; two lists are taken to have
\* the same hash exactly if they are the same list.
HashValue(q) == Elements(q)

\* make_generic: the elements, one separator between names.
GenericString(q) ==
    LET types == IF q.type = "MULTI" THEN [i \in DOMAIN q.cmpts |-> q.cmpts[i].type]
                                     ELSE <<q.type>>
        shown(i) == IF i > 1 /\ types[i] = "FILENAME" /\ types[i - 1] = "FILENAME"
                    THEN <<Sep>> \o Elements(q)[i] ELSE Elements(q)[i]
    IN  FlattenSeq([i \in DOMAIN Elements(q) |-> shown(i)])

-----------------------------------------------------------------------------
(* Queries.                                                                *)

HasRootDirectory(q) ==
    \/ q.type = "ROOT_DIR"
    \/ q.cmpts # <<>> /\ q.cmpts[1].type = "ROOT_DIR"

IsAbsolute(q) == HasRootDirectory(q)

\* The first component after the root directory, or one past the end.
FirstRelative(q) == IF q.cmpts # <<>> /\ q.cmpts[1].type = "ROOT_DIR" THEN 2 ELSE 1

\* substr() at a position behind the end of the text throws out_of_range.
RelativePathThrows(q) ==
    /\ FirstRelative(q) \in DOMAIN q.cmpts
    /\ q.cmpts[FirstRelative(q)].pos > Len(q.str)

RelativePath(q) ==
    IF q.type = "FILENAME" THEN q
    ELSE IF FirstRelative(q) \notin DOMAIN q.cmpts THEN Empty
    ELSE Split(SubSeq(q.str, q.cmpts[FirstRelative(q)].pos + 1, Len(q.str)))

HasRelativePath(q) == RelativePath(q).str # <<>>

Filename(q) ==
    IF q.str = <<>> THEN Empty
    ELSE IF q.type = "FILENAME" THEN q
    ELSE IF q.type = "MULTI" /\ Last(q.str) # Sep /\ Last(q.cmpts).type = "FILENAME"
    THEN [str |-> Last(q.cmpts).text, cmpts |-> <<>>, type |-> "FILENAME"]
    ELSE Empty

HasFilename(q) == Filename(q).str # <<>>

\* The name FindExtension looks at, and the index of its last dot; 0 when
\* there is none, or only a leading one.
ExtensionName(q) ==
    IF q.type = "FILENAME" THEN q.str
    ELSE IF q.type = "MULTI" /\ q.cmpts # <<>> /\ Last(q.cmpts).type = "FILENAME"
    THEN Last(q.cmpts).text ELSE <<>>

FindExtension(q) ==
    LET s == ExtensionName(q)
        dots == {i \in DOMAIN s : s[i] = Dot}
    IN  IF dots = {} \/ (Len(s) <= 2 /\ s[1] = Dot) THEN 0
        ELSE LET i == CHOOSE i \in dots : \A j \in dots : j <= i
             IN  IF i = 1 THEN 0 ELSE i

Stem(q) == IF ExtensionName(q) = <<>> THEN Empty
           ELSE IF FindExtension(q) = 0 THEN Split(ExtensionName(q))
           ELSE Split(SubSeq(ExtensionName(q), 1, FindExtension(q) - 1))

Extension(q) ==
    IF FindExtension(q) = 0 THEN Empty
    ELSE Split(SubSeq(ExtensionName(q), FindExtension(q), Len(ExtensionName(q))))

\* The text of the components, one separator after all but the last.
Joined(cs) ==
    LET joined[i \in 0..Len(cs)] ==
            IF i = 0 THEN <<>>
            ELSE LET all == joined[i - 1] \o cs[i].text
                 IN  IF i < Len(cs) /\ all # <<>> /\ Last(all) # Sep
                     THEN Append(all, Sep) ELSE all
    IN  joined[Len(cs)]

\* Mistake: a path of one name is its own parent.
ParentPathOfName(q, elided) ==
    IF ~HasRelativePath(q) \/ q.type # "MULTI" THEN q
    ELSE LET dropped == IF Last(q.cmpts).text = <<>> THEN 2 ELSE 1
             cs == SubSeq(q.cmpts, 1, Len(q.cmpts) - dropped)
         IN  Returned([str |-> Joined(cs), cmpts |-> cs, type |-> "MULTI"], elided)

ParentPath(q, elided) ==
    IF ~HasRelativePath(q) THEN q
    ELSE IF q.type # "MULTI" THEN Empty
    ELSE LET dropped == IF Last(q.cmpts).text = <<>> THEN 2 ELSE 1
             cs == SubSeq(q.cmpts, 1, Len(q.cmpts) - dropped)
         IN  Returned([str |-> Joined(cs), cmpts |-> cs, type |-> "MULTI"], elided)

-----------------------------------------------------------------------------
(* Modifiers.                                                              *)

\* operator/=: an absolute argument replaces the object.
AppendPath(q, r) ==
    IF IsAbsolute(r) THEN r
    ELSE Split(q.str \o (IF HasFilename(q) THEN <<Sep>> ELSE <<>>) \o r.str)

\* operator+=
Concat(q, text) == Split(q.str \o text)

\* remove_filename edits the text at the position of the last component.
RemovesComponent(q) ==
    /\ q.type = "MULTI"
    /\ q.cmpts # <<>>
    /\ Last(q.cmpts).type = "FILENAME"
    /\ Last(q.cmpts).text # <<>>

RemoveThrows(q) == RemovesComponent(q) /\ Last(q.cmpts).pos > Len(q.str)

\* std::prev of the only component: what is before it decides the branch.
RemoveIsUndefined(q) == RemovesComponent(q) /\ ~RemoveThrows(q) /\ Len(q.cmpts) = 1

\* Mistake: the text is cut and the component stays.
RemoveAfterText(q, before) == [q EXCEPT !.str = SubSeq(@, 1, Last(q.cmpts).pos)]

\* The two branches of the edit, by what the component before the last is.
RemoveAfter(q, before) ==
    LET n == Len(q.cmpts)
        text == SubSeq(q.str, 1, q.cmpts[n].pos)
    IN  IF before = "ROOT_DIR"
        THEN Trim(text, Front(q.cmpts), "MULTI")
        ELSE [q EXCEPT !.str = text, !.cmpts[n].text = <<>>]

RemoveFilename(q) ==
    IF RemovesComponent(q) THEN RemoveAfter(q, q.cmpts[Len(q.cmpts) - 1].type)
    ELSE IF q.type = "FILENAME" THEN Split(<<>>) ELSE q

\* The objects remove_filename may leave.
Removed(q) == IF RemoveIsUndefined(q)
              THEN {RemoveAfter(q, before) : before \in {"ROOT_DIR", "FILENAME"}}
              ELSE {RemoveFilename(q)}

\* replace_extension cuts the text at the position of the extension.
ExtensionAt(q) == FindExtension(q) - 1 +
                  (IF q.type = "FILENAME" THEN 0 ELSE Last(q.cmpts).pos)

ReplaceThrows(q) == FindExtension(q) # 0 /\ ExtensionAt(q) > Len(q.str)

\* Mistake: a dot is always added.
ReplaceExtensionDotted(q, r) ==
    LET bare == IF FindExtension(q) = 0 THEN q.str ELSE SubSeq(q.str, 1, ExtensionAt(q))
    IN  Split(bare \o (IF r.str # <<>> THEN DotName ELSE <<>>) \o r.str)

ReplaceExtension(q, r) ==
    LET bare == IF FindExtension(q) = 0 THEN q.str ELSE SubSeq(q.str, 1, ExtensionAt(q))
        dotted == IF r.str # <<>> /\ r.str[1] # Dot THEN bare \o DotName ELSE bare
    IN  Split(dotted \o r.str)

-----------------------------------------------------------------------------
(* Generation.                                                             *)

\* The case of lexically_normal that edits its result in place: the name
\* before a trailing separator goes, and the separator before it stays.
DropDirectory(ret) ==
    LET n == Len(ret.cmpts)
        dir == ret.cmpts[n - 1]
    IN  IF n = 2 THEN Split(<<>>)
        ELSE [ret EXCEPT
                !.str = SubSeq(ret.str, 1, dir.pos),
                !.cmpts = IF ret.cmpts[n - 2].type = "FILENAME"
                          THEN SubSeq(ret.cmpts, 1, n - 2) \o <<ret.cmpts[n]>>
                          ELSE SubSeq(ret.cmpts, 1, n - 2)]

\* Mistake: the parent of the root directory is kept.
NormalDotDotAtRoot(ret) ==
    IF HasFilename(ret) /\ Filename(ret).str # DotDot THEN RemoveFilename(ret)
    ELSE IF ~HasFilename(ret) /\ HasRelativePath(ret)
            /\ ret.cmpts[Len(ret.cmpts) - 1].text # DotDot THEN DropDirectory(ret)
    ELSE AppendPath(ret, Split(DotDot))

NormalDotDot(ret) ==
    IF HasFilename(ret)
    THEN IF Filename(ret).str # DotDot THEN RemoveFilename(ret)
                                       ELSE AppendPath(ret, Split(DotDot))
    ELSE IF ~HasRelativePath(ret)
    THEN IF HasRootDirectory(ret) THEN ret ELSE AppendPath(ret, Split(DotDot))
    ELSE IF ret.cmpts[Len(ret.cmpts) - 1].text # DotDot THEN DropDirectory(ret)
    ELSE AppendPath(ret, Split(DotDot))

\* The loop: what it has made of its result when it comes to the element e.
NormalStep(ret, e) == IF e = DotDot THEN NormalDotDot(ret)
                      ELSE IF e = DotName THEN AppendPath(ret, Empty)
                      ELSE AppendPath(ret, Split(e))

Normalized(es) ==
    LET normal[i \in 0..Len(es)] ==
            IF i = 0 THEN Empty ELSE NormalStep(normal[i - 1], es[i])
    IN  normal[Len(es)]

LexicallyNormal(q, elided) ==
    LET ret == Normalized(Elements(q))
        n == Len(ret.cmpts)
    IN  IF q.str = <<>> THEN Empty
        ELSE IF n >= 2
        THEN IF ret.cmpts[n].text = <<>> /\ ret.cmpts[n - 1].text = DotDot
             THEN Returned([ret EXCEPT !.str = Front(@), !.cmpts = Front(@)], elided)
             ELSE Returned(ret, elided)
        ELSE IF ret.str = <<>> THEN Split(DotName)
        ELSE Returned(ret, elided)

\* A path made of elements by operator/=.
Appended(es) ==
    LET made[i \in 0..Len(es)] ==
            IF i = 0 THEN Empty ELSE AppendPath(made[i - 1], Split(es[i]))
    IN  made[Len(es)]

\* Mistake: the names in common are not skipped in the base.
LexicallyRelativeFromRoot(q, base) ==
    LET a == Elements(q)
        b == Elements(base)
        common == LongestCommonPrefix({a, b})
        restA == SubSeq(a, Len(common) + 1, Len(a))
    IN  IF IsAbsolute(q) # IsAbsolute(base) THEN Empty
        ELSE Appended([i \in DOMAIN b |-> DotDot] \o restA)

LexicallyRelative(q, base) ==
    LET a == Elements(q)
        b == Elements(base)
        common == LongestCommonPrefix({a, b})
        restA == SubSeq(a, Len(common) + 1, Len(a))
        restB == SubSeq(b, Len(common) + 1, Len(b))
        ups == Cardinality({i \in DOMAIN restB : restB[i] \notin {DotName, DotDot}})
        downs == Cardinality({i \in DOMAIN restB : restB[i] = DotDot})
        steps == [i \in 1..(ups - downs) |-> DotDot] \o restA
    IN  IF IsAbsolute(q) # IsAbsolute(base) THEN Empty
        ELSE IF restA = <<>> /\ restB = <<>> THEN Split(DotName)
        ELSE IF ups < downs THEN Empty
        ELSE Appended(steps)
=============================================================================
