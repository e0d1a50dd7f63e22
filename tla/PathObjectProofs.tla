-------------------------- MODULE PathObjectProofs --------------------------
(***************************************************************************)
(* Proofs about PathObject on top of PathProofs: what the members of an    *)
(* object answer depends on its elements only, edits undo each other,      *)
(* lexically_normal yields the normal form, and the relative path between  *)
(* two paths leads from one to the other.                                  *)
(*   - From its elements the members of an exact object answer (Shows):    *)
(*     what each of them returns has elements that are a function of the   *)
(*     elements of the object (LeavesElements, RelativeElements, ParentIs).*)
(*   - Every call also leaves an object of which the root directory is all *)
(*     with the text of the root directory (Tidy), so that an object whose *)
(*     edits are defined is split to the same text again (TextStays); what *)
(*     is taken from it and put back, or written in the generic format and *)
(*     read again, has its elements (FilenameGoesBack, GenericSame).       *)
(*   - lexically_normal takes the elements one by one (Passed, Run), and   *)
(*     so may the list of names and separators that the normal form is     *)
(*     defined on: no rule that rewrites the list changes what becomes of  *)
(*     it (DotTurn, DetourTurn, RootTurn), and of a list that no rule      *)
(*     applies to nothing is taken (Reduced, ReadsAll).  Both results have *)
(*     the same elements and no redundant separator, and only one text     *)
(*     does (OneText).                                                     *)
(*   - The same run over a base and a relative path goes back to what the  *)
(*     two paths have in common and on to the other (Backward, Onward).    *)
(***************************************************************************)
EXTENDS PathProofs

-----------------------------------------------------------------------------
(* The answers of an exact object are made of its elements.                *)

\* Names are split to objects that hold nothing else.
LEMMA FilenameIs ==
    ASSUME NEW q, Exact(q)
    PROVE  LET es == Elements(q)
               n == Len(es)
           IN  /\ n # 0 /\ IsName(es[n]) => Filename(q) = Split(es[n])
               /\ ~(n # 0 /\ IsName(es[n])) => Filename(q).str = <<>>
<1>1. PICK es, n, cs : es = Elements(q) /\ n = Len(es) /\ cs = q.cmpts
  OBVIOUS
<1>2. Shows(q, es) /\ Listing(es) /\ n \in Nat
  <2>1. Shows(q, es) /\ Listing(es)
    BY <1>1, ExactShows DEF Shows
  <2> QED BY <1>1, <2>1, LenProperties DEF Listing
<1>3. HasFilename(q) <=> n # 0 /\ IsName(es[n])
  <2>1. HasFilename(q) <=> q.str # <<>> /\ Last(q.str) # Sep
    BY ExactFilename
  <2> QED BY <1>1, <1>2, <2>1 DEF Shows
<1>4. ASSUME n # 0, IsName(es[n]) PROVE Filename(q) = Split(es[n])
  <2>1. /\ q.str # <<>> /\ Last(q.str) # Sep
        /\ es[n] # <<Sep>> /\ es[n] # <<>> /\ n \in 1..n
    BY <1>1, <1>2, <1>4, NameIsNoSep DEF Shows
  <2>2. CASE q.type = "MULTI"
    <3>1. /\ Len(cs) = n /\ cs[n].text = es[n] /\ cs[n].type = "FILENAME"
      BY <1>1, <1>2, <2>1, <2>2 DEF Shows
    <3>2. Last(cs) = cs[n]
      BY <3>1 DEF Last
    <3>3. Filename(q) = [str |-> es[n], cmpts |-> <<>>, type |-> "FILENAME"]
      BY <1>1, <2>1, <2>2, <3>1, <3>2 DEF Filename
    <3> QED BY <1>4, <3>3, SplitSingle
  <2>3. CASE q.type # "MULTI"
    <3>1. n = 1 /\ q.str = es[n] /\ q.type = "FILENAME"
      BY <1>1, <1>2, <1>4, <2>1, <2>3 DEF Shows
    <3>2. q = Split(q.str)
      BY <2>3 DEF Exact
    <3>3. Filename(q) = q
      BY <2>1, <3>1 DEF Filename
    <3> QED BY <3>1, <3>2, <3>3
  <2> QED BY <2>2, <2>3
<1>5. ~(n # 0 /\ IsName(es[n])) => Filename(q).str = <<>>
  BY <1>3 DEF HasFilename
<1> QED BY <1>1, <1>4, <1>5

\* What FindExtension looks at.
LEMMA ExtensionNameIs ==
    ASSUME NEW q, Exact(q)
    PROVE  LET es == Elements(q)
               n == Len(es)
           IN  ExtensionName(q) = IF n = 0 \/ es[n] = <<Sep>> THEN <<>> ELSE es[n]
<1>1. PICK es, n, cs : es = Elements(q) /\ n = Len(es) /\ cs = q.cmpts
  OBVIOUS
<1>2. Shows(q, es) /\ Listing(es) /\ n \in Nat
  <2>1. Shows(q, es) /\ Listing(es)
    BY <1>1, ExactShows DEF Shows
  <2> QED BY <1>1, <2>1, LenProperties DEF Listing
<1>3. q \in Objects
  BY DEF Exact
<1>4. <<Sep>> # <<>>
  OBVIOUS
<1>5. CASE n = 0
  <2>1. q.str = <<>> /\ (q.type = "MULTI" => cs = <<>>) /\ (q.type # "MULTI" => q.type = "FILENAME")
    <3>1. q.type = "MULTI" => Len(cs) = 0
      BY <1>1, <1>2, <1>5 DEF Shows
    <3> QED BY <1>1, <1>2, <1>3, <1>5, <3>1, ObjectIs DEF Shows
  <2>2. ExtensionName(q) = <<>>
    BY <1>1, <2>1 DEF ExtensionName
  <2> QED BY <1>1, <1>5, <2>2
<1>6. CASE n # 0 /\ q.type = "MULTI"
  <2>1. n \in 1..n
    BY <1>2, <1>6
  <2>2. /\ Len(cs) = n /\ cs[n].text = es[n] /\ cs # <<>> /\ Last(cs) = cs[n]
        /\ cs[n].type = IF es[n] = <<Sep>> THEN "ROOT_DIR" ELSE "FILENAME"
    <3>1. /\ Len(cs) = n /\ cs[n].text = es[n]
          /\ cs[n].type = IF es[n] = <<Sep>> THEN "ROOT_DIR" ELSE "FILENAME"
      BY <1>1, <1>2, <1>6, <2>1 DEF Shows
    <3>2. cs # <<>>
      BY <1>1, <1>3, <1>6, <3>1, ObjectIs
    <3> QED BY <3>1, <3>2 DEF Last
  <2>3. ExtensionName(q) = IF es[n] = <<Sep>> THEN <<>> ELSE es[n]
    BY <1>1, <1>6, <2>2 DEF ExtensionName
  <2> QED BY <1>1, <1>6, <2>3
<1>7. CASE n # 0 /\ q.type # "MULTI"
  <2>1. n = 1 /\ q.str = es[n] /\ q.type = IF es[n] = <<Sep>> THEN "ROOT_DIR" ELSE "FILENAME"
    BY <1>1, <1>2, <1>7 DEF Shows
  <2>2. ExtensionName(q) = IF es[n] = <<Sep>> THEN <<>> ELSE es[n]
    BY <1>7, <2>1 DEF ExtensionName
  <2> QED BY <1>1, <1>7, <2>2
<1> QED BY <1>5, <1>6, <1>7

\* Where the extension of a name begins.
DotOf(s) ==
    LET dots == {i \in DOMAIN s : s[i] = Dot}
    IN  IF dots = {} \/ (Len(s) <= 2 /\ s[1] = Dot) THEN 0
        ELSE LET i == CHOOSE i \in dots : \A j \in dots : j <= i
             IN  IF i = 1 THEN 0 ELSE i

\* Paths with the same elements have the same name and extension.
LEMMA SameNames ==
    ASSUME NEW q, Exact(q), NEW r, Exact(r), Elements(q) = Elements(r)
    PROVE  Equal(Filename(q), Filename(r)) /\ Equal(Extension(q), Extension(r))
<1>1. Equal(Filename(q), Filename(r))
  <2>1. PICK es, n : es = Elements(q) /\ es = Elements(r) /\ n = Len(es)
    OBVIOUS
  <2>2. CASE n # 0 /\ IsName(es[n])
    <3>1. Filename(q) = Filename(r)
      BY <2>1, <2>2, FilenameIs
    <3> QED BY <3>1, EqualToo
  <2>3. CASE ~(n # 0 /\ IsName(es[n]))
    <3>1. Filename(q).str = <<>> /\ Filename(r).str = <<>>
      BY <2>1, <2>3, FilenameIs
    <3> QED BY <3>1, EqualToo
  <2> QED BY <2>2, <2>3
<1>2. Equal(Extension(q), Extension(r))
  <2>1. ExtensionName(q) = ExtensionName(r)
    BY ExtensionNameIs
  <2>2. FindExtension(q) = DotOf(ExtensionName(q)) /\ FindExtension(r) = DotOf(ExtensionName(r))
    BY DEF FindExtension, DotOf
  <2>3. Extension(q) = Extension(r)
    BY <2>1, <2>2 DEF Extension
  <2> QED BY <2>3, EqualToo
<1> QED BY <1>1, <1>2

\* So they have the same normal form.
LEMMA SameNormal ==
    ASSUME NEW q, NEW r, Elements(q) = Elements(r), q.str = <<>> <=> r.str = <<>>,
           NEW elided \in BOOLEAN
    PROVE  Equal(LexicallyNormal(q, elided), LexicallyNormal(r, elided))
<1>1. Normalized(Elements(q)) = Normalized(Elements(r))
  OBVIOUS
<1>2. LexicallyNormal(q, elided) = LexicallyNormal(r, elided)
  BY <1>1 DEF LexicallyNormal
<1> QED BY <1>2, EqualToo

\* What remove_filename leaves of the elements.
Left(es) ==
    LET n == Len(es)
    IN  IF n = 0 \/ ~IsName(es[n]) THEN es
        ELSE IF n = 1 THEN <<>>
        ELSE IF es[n - 1] = <<Sep>> THEN <<<<Sep>>>>
        ELSE [es EXCEPT ![n] = <<>>]

\* remove_filename leaves an exact object with those elements.
LEMMA LeavesElements ==
    ASSUME NEW q, Exact(q), ~RemoveIsUndefined(q)
    PROVE  Exact(RemoveFilename(q)) /\ Elements(RemoveFilename(q)) = Left(Elements(q))
<1>1. PICK es, n, cs, r : es = Elements(q) /\ n = Len(es) /\ cs = q.cmpts /\ r = RemoveFilename(q)
  OBVIOUS
<1>2. Shows(q, es) /\ Listing(es) /\ n \in Nat /\ es \in Seq(Text)
  <2>1. Shows(q, es) /\ Listing(es)
    BY <1>1, ExactShows DEF Shows
  <2> QED BY <1>1, <2>1, LenProperties DEF Listing
<1>3. q \in Objects /\ Formed(q) /\ cs \in Seq(Comps)
  BY <1>1, ExactFormed, ObjectIs DEF Exact
<1>4. RemovesComponent(q) <=> q.type = "MULTI" /\ n # 0 /\ IsName(es[n])
  <2>1. CASE q.type = "MULTI" /\ n # 0
    <3>1. n \in 1..n
      BY <1>2, <2>1
    <3>2. /\ Len(cs) = n /\ cs[n].text = es[n]
          /\ es[n] = <<Sep>> \/ es[n] = <<>> \/ IsName(es[n])
          /\ cs[n].type = IF es[n] = <<Sep>> THEN "ROOT_DIR" ELSE "FILENAME"
      BY <1>1, <1>2, <2>1, <3>1 DEF Shows, Listing
    <3>3. cs # <<>> /\ Last(cs) = cs[n]
      <4>1. Len(cs) = n /\ n # 0
        BY <2>1, <3>2
      <4>2. cs # <<>>
        BY <4>1
      <4> QED BY <4>1, <4>2 DEF Last
    <3>4. RemovesComponent(q) <=> es[n] # <<Sep>> /\ es[n] # <<>>
      <4>1. RemovesComponent(q) <=> cs[n].type = "FILENAME" /\ cs[n].text # <<>>
        BY <1>1, <2>1, <3>3 DEF RemovesComponent
      <4>2. cs[n].type = "FILENAME" <=> es[n] # <<Sep>>
        BY <3>2
      <4> QED BY <3>2, <4>1, <4>2
    <3> QED BY <2>1, <3>2, <3>4, NameIsNoSep
  <2>2. CASE q.type = "MULTI" /\ n = 0
    <3>1. Len(cs) = 0
      BY <1>1, <1>2, <2>2 DEF Shows
    <3> QED BY <1>1, <1>3, <2>2, <3>1, ObjectIs DEF RemovesComponent
  <2>3. CASE q.type # "MULTI"
    BY <2>3 DEF RemovesComponent
  <2> QED BY <2>1, <2>2, <2>3
<1>5. CASE ~(n # 0 /\ IsName(es[n]))
  <2>1. Left(es) = es /\ ~RemovesComponent(q)
    BY <1>1, <1>4, <1>5 DEF Left
  <2>2. CASE q.type = "FILENAME"
    <3>1. n = 0
      <4> SUFFICES ASSUME n # 0 PROVE FALSE
        OBVIOUS
      <4>1. n = 1 /\ n \in 1..n /\ es[1] # <<>> /\ es[1] # <<Sep>>
        <5>1. /\ n = 1 /\ es[1] # <<>>
              /\ q.type = IF es[1] = <<Sep>> THEN "ROOT_DIR" ELSE "FILENAME"
          <6>1. q.type # "MULTI"
            BY <2>2
          <6> QED BY <1>1, <1>2, <6>1 DEF Shows
        <5> QED BY <2>2, <5>1
      <4> QED BY <1>1, <1>2, <1>5, <4>1 DEF Listing
    <3>2. r = Split(<<>>) /\ <<>> \in Text
      BY <1>1, <2>1, <2>2, Characters DEF RemoveFilename
    <3>3. Exact(r) /\ Elements(r) = <<>>
      BY <3>2, SplitExact, SplitElements
    <3>4. es = <<>>
      BY <1>1, <1>2, <3>1, EmptySeq
    <3> QED BY <1>1, <2>1, <3>3, <3>4
  <2>3. CASE q.type # "FILENAME"
    <3>1. r = q
      BY <1>1, <2>1, <2>3 DEF RemoveFilename
    <3> QED BY <1>1, <2>1, <3>1
  <2> QED BY <2>2, <2>3
<1>6. CASE n # 0 /\ IsName(es[n]) /\ q.type # "MULTI"
  <2>1. n = 1 /\ es[1] # <<Sep>> /\ q.type = "FILENAME"
    BY <1>1, <1>2, <1>6, NameIsNoSep DEF Shows
  <2>2. r = Split(<<>>) /\ <<>> \in Text
    BY <1>1, <1>4, <1>6, <2>1, Characters DEF RemoveFilename
  <2>3. Exact(r) /\ Elements(r) = <<>>
    BY <2>2, SplitExact, SplitElements
  <2>4. Left(es) = <<>>
    BY <1>1, <1>6, <2>1 DEF Left
  <2> QED BY <1>1, <2>3, <2>4
<1>7. CASE n # 0 /\ IsName(es[n]) /\ q.type = "MULTI"
  <2>1. RemovesComponent(q) /\ n \in 1..n /\ es[n] # <<>> /\ es[n] # <<Sep>>
    BY <1>2, <1>4, <1>7, NameIsNoSep
  <2>2. /\ Len(cs) = n /\ cs[n].pos <= Len(q.str) /\ cs # <<>> /\ Last(cs) = cs[n]
        /\ cs[n].pos \in 0..Len(q.str)
    <3>1. Len(cs) = n /\ cs[n].pos <= Len(q.str)
      BY <1>1, <1>2, <1>7, <2>1 DEF Shows
    <3>2. cs # <<>> /\ cs[n].pos \in Nat /\ Len(q.str) \in Nat
      BY <1>1, <1>3, <1>7, <2>1, <3>1, ObjectIs
    <3>3. cs[n].pos \in 0..Len(q.str)
      BY <3>1, <3>2
    <3> QED BY <3>1, <3>2, <3>3 DEF Last
  <2>3. ~RemoveThrows(q) /\ n # 1
    <3>1. ~RemoveThrows(q)
      <4>1. ~(cs[n].pos > Len(q.str))
        BY <2>2
      <4> QED BY <1>1, <2>2, <4>1 DEF RemoveThrows
    <3> QED BY <1>1, <2>1, <2>2, <3>1 DEF RemoveIsUndefined
  <2>4. Exact(r)
    <3>1. r \in Removed(q)
      BY <1>1 DEF Removed
    <3> QED BY <1>3, <2>3, <3>1, RemovedFormed
  <2>5. PICK t : t = SubSeq(q.str, 1, cs[n].pos)
    OBVIOUS
  <2>6. t \in Text
    BY <1>3, <2>2, <2>5, ObjectIs, PrefixIs DEF Text
  <2>7. n - 1 \in 1..n /\ n - 1 # n /\ n - 1 \in 0..n
    BY <1>2, <1>7, <2>3
  <2>8. /\ cs[n - 1].text = es[n - 1]
        /\ cs[n - 1].type = IF es[n - 1] = <<Sep>> THEN "ROOT_DIR" ELSE "FILENAME"
        /\ es[n - 1] = <<Sep>> => n - 1 = 1
    BY <1>1, <1>2, <1>7, <2>7 DEF Shows, Listing
  <2>9. r = IF es[n - 1] = <<Sep>> THEN Trim(t, Front(cs), "MULTI") ELSE Emptied(q, t)
    <3>1. r = RemoveAfter(q, cs[n - 1].type)
      BY <1>1, <2>1, <2>2 DEF RemoveFilename
    <3>2. RemoveAfter(q, "ROOT_DIR") = Trim(t, Front(cs), "MULTI")
      BY <1>1, <2>2, <2>5 DEF RemoveAfter
    <3>3. RemoveAfter(q, "FILENAME") = Emptied(q, t)
      BY <1>1, <2>2, <2>5 DEF RemoveAfter, Emptied
    <3> QED BY <2>8, <3>1, <3>2, <3>3
  <2>10. CASE es[n - 1] = <<Sep>>
    <3>1. PICK fs : fs = SubSeq(cs, 1, n - 1)
      OBVIOUS
    <3>2. Front(cs) = fs /\ Len(fs) = 1 /\ fs[1] = cs[1] /\ n - 1 = 1
      <4>1. Len(fs) = n - 1 /\ \A i \in 1..(n - 1) : fs[i] = cs[i]
        BY <1>3, <2>2, <2>7, <3>1, PrefixIs
      <4> QED BY <2>2, <2>7, <2>8, <2>10, <3>1, <4>1 DEF Front
    <3>3. r.str = <<Sep>> /\ r.type = "ROOT_DIR"
      <4>1. r = [str |-> cs[1].text, cmpts |-> <<>>, type |-> cs[1].type]
        BY <2>9, <2>10, <3>2 DEF Trim
      <4> QED BY <2>8, <2>10, <3>2, <4>1
    <3>4. Elements(r) = <<<<Sep>>>>
      BY <3>3 DEF Elements
    <3>5. Left(es) = <<<<Sep>>>>
      BY <1>1, <1>7, <2>3, <2>10 DEF Left
    <3> QED BY <1>1, <2>4, <3>4, <3>5
  <2>11. CASE es[n - 1] # <<Sep>>
    <3>1. r = Emptied(q, t)
      BY <2>9, <2>11
    <3>2. PICK d \in Comps, ds \in Seq(Comps) :
             /\ d.text = <<>> /\ Emptied(q, t) = [q EXCEPT !.str = t, !.cmpts = ds]
             /\ Len(ds) = n /\ ds[n] = d /\ \A i \in 1..n : i # n => ds[i] = cs[i]
      <4>1. Empties(q, t, cs, n)
        BY <1>1, <1>3, <2>2, <2>6, EmptiedIs
      <4> QED BY <4>1 DEF Empties
    <3>3. r.type = "MULTI" /\ r.cmpts = ds
      BY <1>3, <1>7, <3>1, <3>2 DEF Objects
    <3>4. PICK fs : fs = [es EXCEPT ![n] = <<>>]
      OBVIOUS
    <3>5. TextsOf(ds) = fs
      <4>1. DOMAIN ds = 1..n /\ DOMAIN es = 1..n
        BY <1>1, <1>2, <3>2, LenProperties
      <4>2. \A i \in 1..n : ds[i].text = fs[i]
        <5>1. ASSUME NEW i \in 1..n PROVE ds[i].text = fs[i]
          <6>1. CASE i = n
            BY <3>2, <3>4, <4>1, <6>1
          <6>2. CASE i # n
            <7>1. cs[i].text = es[i]
              BY <1>1, <1>2, <1>7 DEF Shows
            <7> QED BY <3>2, <3>4, <4>1, <6>2, <7>1
          <6> QED BY <6>1, <6>2
        <5> QED BY <5>1
      <4>3. TextsOf(ds) = [i \in 1..n |-> fs[i]] /\ fs = [i \in 1..n |-> fs[i]]
        BY <3>4, <4>1, <4>2 DEF TextsOf
      <4> QED BY <4>3
    <3>6. Elements(r) = fs
      BY <3>3, <3>5 DEF Elements
    <3>7. Left(es) = fs
      BY <1>1, <1>7, <2>3, <2>11, <3>4 DEF Left
    <3> QED BY <1>1, <2>4, <3>6, <3>7
  <2> QED BY <2>10, <2>11
<1> QED BY <1>5, <1>6, <1>7

\* What is left of the elements without the root directory.
Behind(es) == IF es # <<>> /\ es[1] = <<Sep>> THEN SubSeq(es, 2, Len(es)) ELSE es

\* The part from the second component on is split to the elements behind the
\* first.
LEMMA RestElements ==
    ASSUME NEW s \in Text, s # <<>>, NEW cs, Matches(s, cs), Len(Scan(s)) >= 2
    PROVE  /\ Rest(s) \in Text /\ Elements(Split(Rest(s))) = SubSeq(TextsOf(cs), 2, Len(TextsOf(cs)))
           /\ cs[2] = Scan(s)[2] /\ Scan(s)[2].pos \in 0..Len(s) /\ Len(cs) >= 2
<1>1. PICK t, a, b, ds, n, m, es : /\ t = Rest(s) /\ a = Scan(s) /\ b = Scan(t) /\ ds = Components(t)
                                   /\ n = Len(a) /\ m = Len(b) /\ es = TextsOf(cs)
  OBVIOUS
<1>2. /\ a[2].pos \in 0..Len(s) /\ t \in Text /\ t # <<>> /\ Last(t) = Last(s)
      /\ Skips(a, b) /\ n >= 2
  BY <1>1, ScanContinues DEF Continues
<1>3. a \in Seq(Comps) /\ b \in Seq(Comps) /\ n \in Nat /\ m \in Nat /\ m + 1 = n
  BY <1>1, <1>2, ScanType, LenProperties DEF Skips
<1>4. Matches(t, ds)
  BY <1>1, <1>2, ComponentsMatch
<1>5. /\ cs \in Seq(Comps) /\ ds \in Seq(Comps)
      /\ n <= Len(cs) /\ Len(cs) <= n + 1 /\ m <= Len(ds) /\ Len(ds) <= m + 1
      /\ \A i \in 1..n : cs[i] = a[i]
      /\ \A i \in 1..m : ds[i] = b[i]
      /\ \A i \in 1..Len(cs) : i \notin 1..n => cs[i].text = <<>>
      /\ \A i \in 1..Len(ds) : i \notin 1..m => ds[i].text = <<>>
  BY <1>1, <1>2, <1>4, MatchesTexts
<1>6. PICK k, l : k = Len(cs) /\ l = Len(ds) /\ k \in Nat /\ l \in Nat
  BY <1>5, LenProperties
<1>7. EndsInSep(s) <=> EndsInSep(t)
  <2>1. LastName(s) = a[n] /\ LastName(t) = b[m]
    BY <1>1 DEF LastName
  <2>2. b[m].type = a[n].type
    <3>1. m \in 1..m
      BY <1>2, <1>3
    <3> QED BY <1>1, <1>2, <1>3, <3>1 DEF Skips
  <2> QED BY <1>2, <2>1, <2>2 DEF EndsInSep
<1>8. l + 1 = k
  <2>1. CASE EndsInSep(s)
    <3>1. PICK e \in Comps : cs = Append(a, e)
      BY <1>1, <2>1 DEF Matches
    <3>2. PICK f \in Comps : ds = Append(b, f)
      BY <1>1, <1>2, <1>4, <1>7, <2>1 DEF Matches
    <3>3. k = n + 1 /\ l = m + 1
      BY <1>1, <1>3, <1>6, <3>1, <3>2, AppendProperties
    <3> QED BY <1>3, <3>3
  <2>2. CASE ~EndsInSep(s)
    <3>1. cs = a /\ ds = b
      BY <1>1, <1>2, <1>4, <1>7, <2>2 DEF Matches
    <3> QED BY <1>1, <1>3, <1>6, <3>1
  <2> QED BY <2>1, <2>2
<1>9. es = [i \in 1..k |-> cs[i].text] /\ es \in Seq(Text) /\ Len(es) = k
  <2>1. \A i \in 1..k : cs[i] \in Comps /\ cs[i].text \in Text
    BY <1>5, <1>6, CompType, ElementOfSeq
  <2>2. es = [i \in 1..k |-> cs[i].text]
    BY <1>1, <1>5, <1>6, LenProperties DEF TextsOf
  <2> QED BY <1>6, <2>1, <2>2
<1>10. PICK fs : fs = SubSeq(es, 1 + 1, k)
  OBVIOUS
<1>11. fs \in Seq(Text) /\ Len(fs) = l /\ \A i \in 1..l : fs[i] = es[1 + i] /\ 1 + i \in 1..k
  <2>1. 1 \in 0..Len(es) /\ k - 1 = l
    BY <1>6, <1>8, <1>9
  <2>2. fs = SubSeq(es, 1 + 1, Len(es))
    BY <1>9, <1>10
  <2>3. /\ fs \in Seq(Text) /\ Len(fs) = Len(es) - 1 /\ Len(fs) \in Nat
        /\ \A i \in 1..Len(fs) : fs[i] = es[1 + i] /\ 1 + i \in 1..Len(es)
    BY <1>9, <2>1, <2>2, SuffixIs
  <2> QED BY <1>9, <2>1, <2>3
<1>12. ASSUME NEW i \in 1..l PROVE ds[i].text = fs[i]
  <2>1. fs[i] = cs[i + 1].text /\ i + 1 \in 1..k /\ i \in Nat
    BY <1>9, <1>11
  <2>2. CASE i \in 1..m
    <3>1. i + 1 \in 1..n
      BY <1>3, <2>2
    <3> QED BY <1>1, <1>2, <1>5, <2>1, <2>2, <3>1 DEF Skips
  <2>3. CASE i \notin 1..m
    <3>1. i + 1 \notin 1..n
      BY <1>3, <1>12, <2>1, <2>3
    <3> QED BY <1>5, <1>6, <2>1, <2>3, <3>1
  <2> QED BY <2>2, <2>3
<1>13. TextsOf(ds) = fs
  <2>1. DOMAIN ds = 1..l /\ DOMAIN fs = 1..l
    BY <1>5, <1>6, <1>11, LenProperties
  <2>2. fs = [i \in 1..l |-> fs[i]]
    BY <1>11, <2>1
  <2> QED BY <1>12, <2>1, <2>2 DEF TextsOf
<1>14. Elements(Split(t)) = fs
  BY <1>1, <1>2, <1>13, SplitElements
<1>15. cs[2] = a[2] /\ k >= 2
  BY <1>2, <1>3, <1>5, <1>6
<1> QED BY <1>1, <1>2, <1>6, <1>9, <1>10, <1>14, <1>15

\* relative_path yields an exact object with those elements.
LEMMA RelativeElements ==
    ASSUME NEW q, Exact(q)
    PROVE  Exact(RelativePath(q)) /\ Elements(RelativePath(q)) = Behind(Elements(q))
<1>1. PICK es, n, cs, r, s : /\ es = Elements(q) /\ n = Len(es) /\ cs = q.cmpts
                             /\ r = RelativePath(q) /\ s = q.str
  OBVIOUS
<1>2. Shows(q, es) /\ Listing(es) /\ n \in Nat /\ es \in Seq(Text) /\ (es = <<>> <=> n = 0)
  <2>1. Shows(q, es) /\ Listing(es)
    BY <1>1, ExactShows DEF Shows
  <2> QED BY <1>1, <2>1, LenProperties, EmptySeq DEF Listing
<1>3. /\ q \in Objects /\ cs \in Seq(Comps) /\ s \in Text /\ (cs = <<>> <=> Len(cs) = 0)
      /\ DOMAIN cs = 1..Len(cs)
  BY <1>1, ObjectIs DEF Exact
<1>4. Exact(Empty) /\ Elements(Empty) = <<>>
  <2>1. TextsOf(<<>>) = <<>>
    BY DEF TextsOf
  <2> QED BY <2>1, EmptyNeat DEF Neat, Elements, Empty
<1>5. n = 1 /\ es[1] = <<Sep>> => Behind(es) = <<>>
  <2> SUFFICES ASSUME n = 1, es[1] = <<Sep>> PROVE Behind(es) = <<>>
    OBVIOUS
  <2>1. es # <<>> /\ SubSeq(es, 1 + 1, Len(es)) = <<>>
    <3>1. es # <<>> /\ 1 \in 0..Len(es)
      BY <1>1, <1>2
    <3>2. Len(SubSeq(es, 1 + 1, Len(es))) = Len(es) - 1 /\ SubSeq(es, 1 + 1, Len(es)) \in Seq(Text)
      BY <1>2, <3>1, SuffixIs
    <3>3. PICK u : u = SubSeq(es, 1 + 1, Len(es))
      OBVIOUS
    <3>4. Len(u) = 0 /\ u \in Seq(Text)
      BY <1>1, <3>2, <3>3
    <3>5. u = <<>>
      BY <3>4, EmptySeq
    <3> QED BY <3>1, <3>3, <3>5
  <2>2. 1 + 1 = 2
    OBVIOUS
  <2> QED BY <2>1, <2>2 DEF Behind
<1>6. n = 0 => Behind(es) = <<>>
  BY <1>2 DEF Behind
<1>7. CASE q.type = "FILENAME"
  <2>1. r = q
    BY <1>1, <1>7 DEF RelativePath
  <2>2. es = <<>> \/ es[1] # <<Sep>>
    <3>1. n # 0 => q.type = IF es[1] = <<Sep>> THEN "ROOT_DIR" ELSE "FILENAME"
      <4>1. q.type # "MULTI"
        BY <1>7
      <4> QED BY <1>1, <1>2, <4>1 DEF Shows
    <3> QED BY <1>2, <1>7, <3>1
  <2> QED BY <1>1, <2>1, <2>2 DEF Behind
<1>8. CASE q.type # "FILENAME" /\ q.type # "MULTI"
  <2>1. n # 0
    BY <1>1, <1>2, <1>8 DEF Shows
  <2>2. n = 1 /\ cs = <<>> /\ q.type = IF es[1] = <<Sep>> THEN "ROOT_DIR" ELSE "FILENAME"
    BY <1>1, <1>2, <1>8, <2>1 DEF Shows
  <2>3. es[1] = <<Sep>>
    BY <1>8, <2>2
  <2>4. r = Empty
    BY <1>1, <1>8, <2>2 DEF RelativePath, FirstRelative
  <2> QED BY <1>1, <1>4, <1>5, <2>2, <2>3, <2>4
<1>9. CASE q.type = "MULTI" /\ n = 0
  <2>1. cs = <<>>
    BY <1>1, <1>2, <1>3, <1>9 DEF Shows
  <2>2. r = Empty
    BY <1>1, <1>9, <2>1 DEF RelativePath, FirstRelative
  <2> QED BY <1>1, <1>4, <1>6, <1>9, <2>2
<1>10. ASSUME q.type = "MULTI", n # 0
       PROVE  /\ Matches(s, cs) /\ s # <<>> /\ es = TextsOf(cs) /\ Len(cs) = n /\ cs # <<>>
              /\ cs[1].type = IF es[1] = <<Sep>> THEN "ROOT_DIR" ELSE "FILENAME"
              /\ Len(Scan(s)) >= 1 /\ cs[1] = Scan(s)[1] /\ n <= Len(Scan(s)) + 1
              /\ n >= 2 /\ es[1] = <<Sep>> => Len(Scan(s)) >= 2
  <2>1. Matches(s, cs) /\ s # <<>> /\ es = TextsOf(cs) /\ Len(cs) = n /\ cs # <<>>
    BY <1>1, <1>2, <1>3, <1>10 DEF Exact, Shows, Elements
  <2>2. cs[1].type = IF es[1] = <<Sep>> THEN "ROOT_DIR" ELSE "FILENAME"
    <3>1. 1 \in 1..n
      BY <1>2, <1>10
    <3> QED BY <1>1, <1>2, <1>10, <3>1 DEF Shows
  <2>3. PICK a, m : a = Scan(s) /\ m = Len(a)
    OBVIOUS
  <2>4. m \in Nat /\ m >= 1 /\ a \in Seq(Comps)
    BY <1>3, <2>1, <2>3, ComponentsAre
  <2>5. cs[1] = a[1] /\ n <= m + 1
    <3>1. 1 \in 1..m
      BY <2>4
    <3> QED BY <1>3, <2>1, <2>3, <3>1, MatchesTexts
  <2>6. n >= 2 /\ es[1] = <<Sep>> => m >= 2
    <3> SUFFICES ASSUME n >= 2, es[1] = <<Sep>>, m = 1 PROVE FALSE
      BY <2>4
    <3>1. LastName(s) = a[1] /\ a[1].type = "ROOT_DIR"
      BY <2>2, <2>3, <2>5 DEF LastName
    <3>2. ~EndsInSep(s)
      BY <3>1 DEF EndsInSep
    <3>3. cs = a
      BY <2>1, <2>3, <3>2 DEF Matches
    <3>4. n = m
      BY <2>1, <2>3, <3>3
    <3> QED BY <1>2, <3>4
  <2> QED BY <2>1, <2>2, <2>3, <2>4, <2>5, <2>6
<1>11. CASE q.type = "MULTI" /\ n # 0 /\ es[1] = <<Sep>>
  <2>1. FirstRelative(q) = 2
    BY <1>1, <1>10, <1>11 DEF FirstRelative
  <2>2. CASE n = 1
    <3>1. 2 \notin DOMAIN cs
      <4>1. Len(cs) = 1
        BY <1>10, <1>11, <2>2
      <4>2. DOMAIN cs = 1..1
        BY <1>3, <4>1
      <4> QED BY <4>2
    <3>2. r = Empty
      BY <1>1, <1>11, <2>1, <3>1 DEF RelativePath
    <3> QED BY <1>1, <1>4, <1>5, <1>11, <2>2, <3>2
  <2>3. CASE n # 1
    <3>1. n >= 2 /\ 2 \in DOMAIN cs
      BY <1>2, <1>3, <1>10, <1>11, <2>3
    <3>2. /\ Rest(s) \in Text /\ Elements(Split(Rest(s))) = SubSeq(es, 2, Len(es))
          /\ cs[2] = Scan(s)[2]
      BY <1>3, <1>10, <1>11, <3>1, RestElements
    <3>3. r = Split(Rest(s))
      BY <1>1, <1>11, <2>1, <3>1, <3>2 DEF RelativePath, Rest
    <3>4. Behind(es) = SubSeq(es, 2, Len(es))
      BY <1>2, <1>11 DEF Behind
    <3> QED BY <1>1, <3>2, <3>3, <3>4, SplitExact
  <2> QED BY <2>2, <2>3
<1>12. CASE q.type = "MULTI" /\ n # 0 /\ es[1] # <<Sep>>
  <2>1. FirstRelative(q) = 1 /\ 1 \in DOMAIN cs
    BY <1>1, <1>2, <1>3, <1>10, <1>12 DEF FirstRelative
  <2>2. cs[1].pos = 0
    <3>1. Scan(s) # <<>>
      BY <1>3, <1>10, <1>12, ScanShape
    <3> QED BY <1>3, <1>10, <1>12, <3>1, ScanStarts
  <2>3. SubSeq(s, cs[1].pos + 1, Len(s)) = s
    <3>1. 0 \in 0..Len(s) /\ s \in Seq(Alphabet)
      BY <1>3, LenProperties DEF Text
    <3>2. PICK u : u = SubSeq(s, 0 + 1, Len(s))
      OBVIOUS
    <3>3. /\ u \in Seq(Alphabet) /\ Len(u) = Len(s) - 0 /\ Len(u) \in Nat
          /\ \A i \in 1..Len(u) : u[i] = s[0 + i]
      BY <3>1, <3>2, SuffixIs
    <3>4. Len(u) = Len(s) /\ \A i \in 1..Len(u) : u[i] = s[i]
      BY <3>1, <3>3
    <3>5. u = s
      BY <3>1, <3>3, <3>4, SeqEqual
    <3> QED BY <2>2, <3>2, <3>5
  <2>4. r = Split(s)
    BY <1>1, <1>12, <2>1, <2>3 DEF RelativePath
  <2>5. Elements(r) = es
    BY <1>3, <1>10, <1>12, <2>4, SplitElements, MatchesTexts
  <2>6. Behind(es) = es
    BY <1>12 DEF Behind
  <2> QED BY <1>1, <1>3, <2>4, <2>5, <2>6, SplitExact
<1> QED BY <1>7, <1>8, <1>9, <1>11, <1>12

\* Paths with the same elements have the same relative path.
LEMMA SameRelativePaths ==
    ASSUME NEW q, Exact(q), NEW r, Exact(r), Elements(q) = Elements(r)
    PROVE  /\ Equal(RelativePath(q), RelativePath(r))
           /\ HasRelativePath(q) <=> Behind(Elements(q)) # <<>>
           /\ HasRelativePath(r) <=> Behind(Elements(q)) # <<>>
<1>1. ASSUME NEW x, Exact(x)
      PROVE  HasRelativePath(x) <=> Behind(Elements(x)) # <<>>
  <2>1. PICK y, es : y = RelativePath(x) /\ es = Behind(Elements(x)) /\ Exact(y) /\ es = Elements(y)
    BY <1>1, RelativeElements
  <2>2. /\ Shows(y, es)
        /\ es \in Seq(Text)
    <3>1. Shows(y, es)
      BY <2>1, ExactShows
    <3>2. Listing(es)
      BY <3>1 DEF Shows
    <3> QED BY <3>1, <3>2 DEF Listing
  <2>3. y.str = <<>> <=> es = <<>>
    BY <2>2, EmptySeq DEF Shows
  <2> QED BY <2>1, <2>3 DEF HasRelativePath
<1>2. Equal(RelativePath(q), RelativePath(r))
  BY RelativeElements, EqualMeans
<1> QED BY <1>1, <1>2

\* The object parent_path makes of components.
Made(cs, elided) == Returned([str |-> Joined(cs), cmpts |-> cs, type |-> "MULTI"], elided)

\* parent_path joins the components before the last name, and yields nothing
\* where there is one component at most.
LEMMA ParentIs ==
    ASSUME NEW q, Exact(q), HasRelativePath(q), NEW elided \in BOOLEAN
    PROVE  LET es == Elements(q)
               n == Len(es)
               m == n - (IF es[n] = <<>> THEN 2 ELSE 1)
           IN  /\ n <= 1 => ParentPath(q, elided).str = <<>>
               /\ n > 1 => /\ q.type = "MULTI" /\ Len(q.cmpts) = n /\ m \in 0..n
                           /\ ParentPath(q, elided) = Made(SubSeq(q.cmpts, 1, m), elided)
<1>1. PICK es, n, m, cs : /\ es = Elements(q) /\ n = Len(es) /\ cs = q.cmpts
                          /\ m = n - (IF es[n] = <<>> THEN 2 ELSE 1)
  OBVIOUS
<1>2. Shows(q, es) /\ Listing(es) /\ n \in Nat /\ es \in Seq(Text)
  <2>1. Shows(q, es) /\ Listing(es)
    BY <1>1, ExactShows DEF Shows
  <2> QED BY <1>1, <2>1, LenProperties DEF Listing
<1>3. q \in Objects /\ cs \in Seq(Comps)
  BY <1>1, ObjectIs DEF Exact
<1>4. CASE q.type # "MULTI"
  <2>1. ParentPath(q, elided) = Empty
    BY <1>4 DEF ParentPath
  <2>2. n <= 1
    BY <1>1, <1>2, <1>4 DEF Shows
  <2> QED BY <1>1, <1>2, <2>1, <2>2, EmptyIs
<1>5. CASE q.type = "MULTI"
  <2>1. n # 0
    <3> SUFFICES ASSUME n = 0 PROVE FALSE
      OBVIOUS
    <3>1. es = <<>>
      BY <1>1, <1>2, EmptySeq
    <3>2. Behind(es) = <<>>
      BY <3>1 DEF Behind
    <3> QED BY <1>1, <3>2, SameRelativePaths
  <2>2. n \in 1..n
    BY <1>2, <2>1
  <2>3. Len(cs) = n /\ cs[n].text = es[n] /\ (es[n] = <<>> => n > 1)
    BY <1>1, <1>2, <1>5, <2>2 DEF Shows, Listing
  <2>4. Last(cs) = cs[n]
    BY <2>3 DEF Last
  <2>5. m \in 0..n /\ (n = 1 => m = 0)
    <3>1. CASE es[n] = <<>>
      BY <1>1, <1>2, <2>3, <3>1
    <3>2. CASE es[n] # <<>>
      BY <1>1, <1>2, <2>1, <3>2
    <3> QED BY <3>1, <3>2
  <2>6. ParentPath(q, elided) = Made(SubSeq(cs, 1, m), elided)
    <3>1. PICK d : d = IF es[n] = <<>> THEN 2 ELSE 1
      OBVIOUS
    <3>2. m = Len(cs) - d /\ d = IF Last(cs).text = <<>> THEN 2 ELSE 1
      BY <1>1, <2>3, <2>4, <3>1
    <3> QED BY <1>1, <1>5, <3>2 DEF ParentPath, Made
  <2>7. n = 1 => ParentPath(q, elided).str = <<>>
    <3> SUFFICES ASSUME n = 1 PROVE ParentPath(q, elided).str = <<>>
      OBVIOUS
    <3>1. SubSeq(cs, 1, m) = <<>>
      <4>1. 0 \in 0..Len(cs) /\ m = 0
        BY <2>3, <2>5
      <4>2. SubSeq(cs, 1, 0) \in Seq(Comps) /\ Len(SubSeq(cs, 1, 0)) = 0
        BY <1>3, <4>1, PrefixIs
      <4> QED BY <4>1, <4>2, EmptySeq
    <3>2. Joined(<<>>) = <<>>
      <4>1. Proper(<<>>)
        BY DEF Proper
      <4> QED BY <4>1, Rejoined
    <3>3. Made(<<>>, elided).str = <<>>
      BY <3>2, EmptyIs DEF Made, Returned
    <3> QED BY <2>6, <3>1, <3>3
  <2> QED BY <1>1, <1>2, <1>5, <2>1, <2>3, <2>5, <2>6, <2>7
<1> QED BY <1>4, <1>5

\* Paths with the same elements have the same parent.
LEMMA SameParents ==
    ASSUME NEW q, Exact(q), NEW r, Exact(r), Elements(q) = Elements(r), NEW elided \in BOOLEAN
    PROVE  Equal(ParentPath(q, elided), ParentPath(r, elided))
<1>1. PICK es, n, m : /\ es = Elements(q) /\ es = Elements(r) /\ n = Len(es)
                      /\ m = n - (IF es[n] = <<>> THEN 2 ELSE 1)
  OBVIOUS
<1>2. n \in Nat /\ Shows(q, es) /\ Shows(r, es)
  <2>1. Shows(q, es) /\ Shows(r, es) /\ es \in Seq(Text)
    BY <1>1, ExactShows DEF Shows, Listing
  <2> QED BY <1>1, <2>1, LenProperties
<1>3. HasRelativePath(q) <=> HasRelativePath(r)
  BY SameRelativePaths
<1>4. CASE ~HasRelativePath(q)
  <2>1. ParentPath(q, elided) = q /\ ParentPath(r, elided) = r
    BY <1>3, <1>4 DEF ParentPath
  <2> QED BY <2>1, EqualMeans
<1>5. CASE HasRelativePath(q) /\ n <= 1
  <2>1. ParentPath(q, elided).str = <<>> /\ ParentPath(r, elided).str = <<>>
    BY <1>1, <1>3, <1>5, ParentIs
  <2> QED BY <2>1, EqualToo
<1>6. CASE HasRelativePath(q) /\ n > 1
  <2>1. PICK cs, ds : cs = SubSeq(q.cmpts, 1, m) /\ ds = SubSeq(r.cmpts, 1, m)
    OBVIOUS
  <2>2. /\ q.type = "MULTI" /\ Len(q.cmpts) = n /\ m \in 0..n
        /\ ParentPath(q, elided) = Made(cs, elided)
    BY <1>1, <1>6, <2>1, ParentIs
  <2>3. /\ r.type = "MULTI" /\ Len(r.cmpts) = n
        /\ ParentPath(r, elided) = Made(ds, elided)
    BY <1>1, <1>3, <1>6, <2>1, ParentIs
  <2>4. q.cmpts \in Seq(Comps) /\ r.cmpts \in Seq(Comps)
    BY ObjectIs DEF Exact
  <2>5. /\ cs \in Seq(Comps) /\ Len(cs) = m /\ \A i \in 1..m : cs[i] = q.cmpts[i]
        /\ ds \in Seq(Comps) /\ Len(ds) = m /\ \A i \in 1..m : ds[i] = r.cmpts[i]
    BY <2>1, <2>2, <2>3, <2>4, PrefixIs
  <2>6. \A i \in 1..m : cs[i].text = ds[i].text
    <3>1. ASSUME NEW i \in 1..m PROVE cs[i].text = ds[i].text
      <4>1. i \in 1..n
        BY <1>2, <2>2
      <4>2. q.cmpts[i].text = es[i] /\ r.cmpts[i].text = es[i]
        BY <1>1, <1>2, <2>2, <2>3, <4>1 DEF Shows
      <4> QED BY <2>5, <4>2
    <3> QED BY <3>1
  <2>7. Joined(cs) = Joined(ds) /\ TextsOf(cs) = TextsOf(ds)
    BY <2>5, <2>6, SameJoined, SameTexts
  <2>8. CASE elided = TRUE
    <3>1. PICK x, y : x = Made(cs, elided) /\ y = Made(ds, elided)
      OBVIOUS
    <3>2. /\ x.type = "MULTI" /\ x.cmpts = cs
          /\ y.type = "MULTI" /\ y.cmpts = ds
      BY <2>8, <3>1 DEF Made, Returned
    <3>3. Equal(x, y)
      BY <2>7, <3>2, EqualToo
    <3> QED BY <2>2, <2>3, <3>1, <3>3
  <2>9. CASE elided = FALSE
    <3>1. Made(cs, elided) = Split(Joined(cs)) /\ Made(ds, elided) = Split(Joined(ds))
      BY <2>9 DEF Made, Returned
    <3>2. ParentPath(q, elided) = ParentPath(r, elided)
      BY <2>2, <2>3, <2>7, <3>1
    <3> QED BY <3>2, EqualToo
  <2> QED BY <2>8, <2>9
<1> QED BY <1>2, <1>4, <1>5, <1>6

\* Objects made by a constructor are exact, and remove_filename is defined.
LEMMA SplitDefined ==
    ASSUME NEW s \in Text
    PROVE  ~RemoveIsUndefined(Split(s))
<1>1. CASE s = <<>>
  BY <1>1, EmptyIs DEF RemoveIsUndefined, RemovesComponent
<1>2. CASE s # <<>>
  <2>1. CASE Split(s).type # "MULTI"
    BY <2>1 DEF RemoveIsUndefined, RemovesComponent
  <2>2. CASE Split(s).type = "MULTI"
    <3>1. \A w : IsName(w) \/ w = <<Sep>> => Split(w).type # "MULTI"
      BY SplitSingle
    <3>2. Split(s).cmpts = Components(s) /\ Len(Components(s)) # 1
      BY <1>2, <2>2, <3>1, SplitIs
    <3> QED BY <3>2 DEF RemoveIsUndefined
  <2> QED BY <2>1, <2>2
<1> QED BY <1>1, <1>2

\* Whatever calls an object has been through, if its decomposition is in order
\* it gives the answers of every path constructed from a text, of any length,
\* that it compares equal to.
THEOREM EqualPathsDoAnswerAlike ==
    Spec => []EqualPathsAnswerAlike
<1>1. Init => InForm
  <2>1. ASSUME NEW n \in Nat, NEW t \in Texts(n) PROVE t \in Text
    BY DEF Texts, Text
  <2>2. \A t \in Texts(MaxLen) : Exact(Split(t))
    BY <2>1, BoundsAssumption, SplitExact
  <2>3. Exact(Empty)
    BY EmptyNeat DEF Neat
  <2>4. Init => Exact(p)
    BY <2>2, <2>3 DEF Init
  <2> QED BY <2>4, ExactFormed DEF InForm
<1>2. InForm /\ [Next]_vars => InForm'
  BY CallKeeps
<1>3. InForm => EqualPathsAnswerAlike
  <2> SUFFICES ASSUME InForm, Sound(p), NEW q \in Args, Equal(p, q)
               PROVE  /\ HashValue(p) = HashValue(q)
                      /\ \A elided \in BOOLEAN :
                            /\ Equal(ParentPath(p, elided), ParentPath(q, elided))
                            /\ Equal(LexicallyNormal(p, elided), LexicallyNormal(q, elided))
                      /\ Equal(RelativePath(p), RelativePath(q))
                      /\ Equal(Filename(p), Filename(q))
                      /\ Equal(Extension(p), Extension(q))
                      /\ Equal(RemoveFilename(p), RemoveFilename(q))
    BY DEF EqualPathsAnswerAlike
  <2>1. Exact(p) /\ ~RemoveIsUndefined(p)
    BY FormedExact DEF InForm, Sound
  <2>2. Exact(q) /\ ~RemoveIsUndefined(q)
    <3>1. PICK t \in Texts(MaxArg) : q = Split(t)
      BY DEF Args
    <3>2. t \in Text
      BY <3>1, BoundsAssumption DEF Texts, Text
    <3> QED BY <3>1, <3>2, SplitExact, SplitDefined
  <2>3. Elements(p) = Elements(q) /\ (p.str = <<>> <=> q.str = <<>>)
    BY <2>1, <2>2, EqualMeans
  <2>4. HashValue(p) = HashValue(q)
    BY <2>3 DEF HashValue
  <2>5. Equal(RemoveFilename(p), RemoveFilename(q))
    BY <2>1, <2>2, <2>3, LeavesElements, EqualMeans
  <2> QED BY <2>1, <2>2, <2>3, <2>4, <2>5, SameParents, SameNormal, SameRelativePaths, SameNames
<1> QED BY <1>1, <1>2, <1>3, PTL DEF Spec

-----------------------------------------------------------------------------
(* The text of an object is the one it is split to again.                  *)

\* An object with nothing but the root directory has its text.
Tidy(q) == q.type = "MULTI" /\ Len(q.cmpts) = 1 /\ q.cmpts[1].type = "ROOT_DIR" => q.str = <<Sep>>

\* Objects that are not made of a list that was edited.
LEMMA TidySplit ==
    /\ \A s \in Text : Tidy(Split(s))
    /\ Tidy(Empty)
    /\ \A t, cs : Tidy(Trim(t, cs, "MULTI"))
<1>1. Len(<<>>) = 0
  OBVIOUS
<1>2. ASSUME NEW t, NEW cs PROVE Tidy(Trim(t, cs, "MULTI"))
  BY <1>1 DEF Tidy, Trim
<1>3. Split(<<>>).type # "MULTI" /\ Empty.cmpts = <<>>
  BY EmptyIs
<1>4. ASSUME NEW s \in Text PROVE Tidy(Split(s))
  <2>1. CASE s = <<>>
    BY <1>3, <2>1 DEF Tidy
  <2>2. CASE s # <<>>
    BY <1>2, <2>2 DEF Split
  <2> QED BY <2>1, <2>2
<1>5. Tidy(Empty)
  BY <1>1, <1>3 DEF Tidy
<1> QED BY <1>2, <1>4, <1>5

\* A text without redundant separators that is all root directory is one.
LEMMA TidyExact ==
    ASSUME NEW q, Exact(q), Tight(q.str)
    PROVE  Tidy(q)
<1> SUFFICES ASSUME q.type = "MULTI", Len(q.cmpts) = 1, q.cmpts[1].type = "ROOT_DIR"
             PROVE  q.str = <<Sep>>
  BY DEF Tidy
<1>1. PICK s, cs, l : s = q.str /\ cs = q.cmpts /\ l = Len(s)
  OBVIOUS
<1>2. Matches(s, cs) /\ s \in Text /\ cs \in Seq(Comps) /\ Len(cs) = 1 /\ cs[1].type = "ROOT_DIR"
  BY <1>1, ObjectIs DEF Exact
<1>3. s # <<>> /\ l \in Nat /\ l > 0
  <2>1. s # <<>>
    <3> SUFFICES ASSUME s = <<>> PROVE FALSE
      OBVIOUS
    <3>1. cs = <<>> /\ Len(<<>>) = 0
      BY <1>2 DEF Matches
    <3> QED BY <1>2, <3>1
  <2> QED BY <1>1, <1>2, <2>1, LenProperties, EmptySeq DEF Text
<1>4. cs = Scan(s) /\ cs[1].text = <<Sep>>
  <2>1. PICK a, m : a = Scan(s) /\ m = Len(a)
    OBVIOUS
  <2>2. a \in Seq(Comps) /\ m \in Nat /\ m > 0 /\ Proper(a)
    BY <1>2, <1>3, <2>1, ComponentsAre
  <2>3. ~EndsInSep(s)
    <3> SUFFICES ASSUME EndsInSep(s) PROVE FALSE
      OBVIOUS
    <3>1. PICK e \in Comps : cs = Append(a, e)
      BY <1>2, <1>3, <2>1 DEF Matches
    <3>2. Len(cs) = m + 1
      BY <2>1, <2>2, <3>1, AppendProperties
    <3> QED BY <1>2, <2>2, <3>2
  <2>4. cs = a
    BY <1>2, <1>3, <2>1, <2>3 DEF Matches
  <2>5. 1 \in 1..Len(a)
    BY <1>2, <2>4
  <2> QED BY <1>2, <2>1, <2>2, <2>4, <2>5 DEF Proper
<1>5. cs[1].pos = 0 /\ End(cs[1]) = 1 /\ Placed(s, cs)
  <2>1. Placed(s, cs)
    BY <1>2, <1>4, ScanPlaces
  <2>2. cs[1].pos = 0
    <3>1. 1 \in 1..Len(cs)
      BY <1>2
    <3> QED BY <1>2, <2>1, <3>1 DEF Placed, Rooted
  <2>3. Len(<<Sep>>) = 1
    OBVIOUS
  <2> QED BY <1>4, <2>1, <2>2, <2>3 DEF End
<1>6. ASSUME NEW j \in 1..l PROVE s[j] = Sep
  <2> SUFFICES ASSUME s[j] # Sep PROVE FALSE
    OBVIOUS
  <2>1. PICK k \in 1..Len(cs) : cs[k].pos < j /\ j <= End(cs[k])
    BY <1>1, <1>5 DEF Placed, Covers
  <2>2. k = 1 /\ j = 1
    BY <1>2, <1>3, <1>5, <2>1
  <2>3. s[cs[1].pos + 1] = cs[1].text[1]
    <3>1. 1 \in 1..Len(cs) /\ 1 \in 1..Len(cs[1].text)
      BY <1>2, <1>4
    <3> QED BY <1>5, <3>1 DEF Placed, Located
  <2>4. cs[1].pos + 1 = 1 /\ cs[1].text[1] = Sep
    BY <1>4, <1>5
  <2> QED BY <2>2, <2>3, <2>4
<1>7. l = 1
  <2> SUFFICES ASSUME l # 1 PROVE FALSE
    OBVIOUS
  <2>1. 1 \in 1..(l - 1) /\ 1 \in 1..l /\ 1 + 1 \in 1..l
    BY <1>3
  <2>2. <<s[1], s[1 + 1]>> # <<Sep, Sep>>
    BY <1>1, <2>1 DEF Tight
  <2> QED BY <1>6, <2>1, <2>2
<1>8. s = <<Sep>>
  <2>1. s \in Seq(Alphabet) /\ <<Sep>> \in Seq(Alphabet) /\ Len(<<Sep>>) = 1 /\ <<Sep>>[1] = Sep
    BY <1>2, Characters DEF Text
  <2>2. \A i \in 1..Len(s) : s[i] = <<Sep>>[i]
    BY <1>1, <1>6, <1>7, <2>1
  <2> QED BY <1>1, <1>7, <2>1, <2>2, SeqEqual
<1> QED BY <1>1, <1>8

\* lexically_normal leaves no redundant separators.
LEMMA NormalTight ==
    ASSUME NEW q, Formed(q), NEW elided \in BOOLEAN
    PROVE  Tight(LexicallyNormal(q, elided).str)
<1>1. PICK ret, n, v : /\ ret = Normalized(Elements(q)) /\ n = Len(ret.cmpts)
                       /\ v = [ret EXCEPT !.str = Front(@), !.cmpts = Front(@)]
  OBVIOUS
<1>2. ret \in Neat /\ ret \in Objects /\ ret.str \in Text /\ Tight(ret.str)
  BY <1>1, NormalizedNeat, ObjectIs DEF Neat, Exact
<1>3. \A s \in Text : Tight(s) => Tight(Split(s).str)
  BY SplitNeat DEF Neat
<1>4. Tight(Empty.str) /\ Tight(Split(DotName).str)
  <2>1. DotName \in Text /\ Tight(DotName)
    <3>1. DotName \in Text /\ IsName(DotName)
      BY Characters DEF IsName, DotName
    <3> QED BY <3>1, TightName
  <2> QED BY <1>3, <2>1, TightName, EmptyIs
<1>5. Tight(Returned(ret, elided).str)
  BY <1>2, <1>3 DEF Returned
<1>6. ret.cmpts # <<>> /\ ret.str # <<>> => Tight(Returned(v, elided).str)
  <2> SUFFICES ASSUME ret.str # <<>> PROVE Tight(Returned(v, elided).str)
    OBVIOUS
  <2>1. v.str = Front(ret.str)
    BY <1>1, <1>2 DEF Objects
  <2>2. Front(ret.str) \in Text /\ Tight(Front(ret.str))
    <3>1. Len(ret.str) \in Nat /\ Len(ret.str) > 0
      BY <1>2, FrontIs
    <3>2. Len(ret.str) - 1 \in 0..Len(ret.str)
      BY <3>1
    <3> QED BY <1>2, <3>2, FrontIs, TightPrefix DEF Front
  <2> QED BY <1>3, <2>1, <2>2 DEF Returned
<1>7. n >= 2 => ret.cmpts # <<>> /\ ret.str # <<>>
  <2> SUFFICES ASSUME n >= 2 PROVE ret.cmpts # <<>> /\ ret.str # <<>>
    OBVIOUS
  <2>1. ret.cmpts # <<>>
    BY <1>1, <1>2, ObjectIs
  <2>2. ret.str # <<>>
    <3> SUFFICES ASSUME ret.str = <<>> PROVE FALSE
      OBVIOUS
    <3>1. ret.cmpts = <<>>
      <4>1. ret.type = "MULTI" => ret.cmpts = <<>>
        BY <1>2 DEF Neat, Exact, Matches
      <4>2. ret.type # "MULTI" => ret.cmpts = <<>>
        BY <1>2, ExactShows DEF Neat, Shows
      <4> QED BY <4>1, <4>2
    <3> QED BY <2>1, <3>1
  <2> QED BY <2>1, <2>2
<1>8. LexicallyNormal(q, elided) \in {Empty, Split(DotName), Returned(ret, elided)}
      \/ (n >= 2 /\ LexicallyNormal(q, elided) = Returned(v, elided))
  BY <1>1 DEF LexicallyNormal
<1> QED BY <1>4, <1>5, <1>6, <1>7, <1>8

\* parent_path joins the root directory to its own text.
LEMMA ParentTidy ==
    ASSUME NEW q, Formed(q), Tidy(q), NEW elided \in BOOLEAN
    PROVE  Tidy(ParentPath(q, elided))
<1>1. PICK d, qs, n, m, cs, r :
         /\ d = (IF Last(q.cmpts).text = <<>> THEN 2 ELSE 1) /\ qs = q.cmpts /\ n = Len(qs)
         /\ m = n - d /\ cs = SubSeq(qs, 1, m)
         /\ r = [str |-> Joined(cs), cmpts |-> cs, type |-> "MULTI"]
  OBVIOUS
<1>2. q \in Objects /\ qs \in Seq(Comps) /\ n \in Nat /\ d \in {1, 2}
  BY <1>1, ObjectIs DEF Formed
<1>3. ParentPath(q, elided) \in {q, Empty} \/ (q.type = "MULTI" /\ ParentPath(q, elided) = Returned(r, elided))
  BY <1>1 DEF ParentPath
<1>4. ASSUME q.type = "MULTI" PROVE Tidy(Returned(r, elided))
  <2>1. CASE Len(cs) = 1 /\ cs[1].type = "ROOT_DIR"
    <3>1. m \in 0..n /\ Len(cs) = m /\ cs \in Seq(Comps) /\ \A i \in 1..m : cs[i] = qs[i]
      <4>1. m \in Int /\ m <= n
        <5>1. m = n - d
          BY <1>1
        <5> QED BY <1>2, <5>1
      <4>2. CASE m >= 0
        <5>1. m \in 0..n /\ m \in 0..Len(qs)
          <6>1. m \in 0..n
            BY <1>2, <4>1, <4>2
          <6>2. n = Len(qs)
            BY <1>1
          <6> QED BY <6>1, <6>2
        <5>2. cs = SubSeq(qs, 1, m)
          BY <1>1
        <5> QED BY <1>2, <5>1, <5>2, PrefixIs
      <4>3. CASE m < 0
        <5>1. Len(SubSeq(qs, 1, m)) = 0
          BY <1>2, <4>1, <4>3
        <5> QED BY <1>1, <2>1, <5>1
      <4> QED BY <4>1, <4>2, <4>3
    <3>2. m = 1 /\ cs[1] = qs[1] /\ 1 \in 1..n
      BY <1>2, <2>1, <3>1
    <3>3. cs[1].text = <<Sep>>
      BY <1>1, <1>4, <2>1, <3>2 DEF Formed, Listed
    <3>4. Joined(cs) = <<Sep>>
      <4>1. PICK at : Joins(at, cs, Len(cs))
        BY <3>1, JoinedIs DEF Joins
      <4>2. at[0] = <<>> /\ Joined(cs) = at[1] /\ at[1] = Linked(at[1 - 1], cs[1].text, 1 < 1)
        BY <2>1, <4>1 DEF Joins
      <4>3. Joined(cs) = Linked(<<>>, <<Sep>>, 1 < 1)
        BY <3>3, <4>2
      <4> QED BY <4>3, LinkRoot
    <3>5. Tidy(r) /\ Tidy(Split(r.str))
      <4>1. r.str = <<Sep>> /\ <<Sep>> \in Text
        BY <1>1, <3>4, Characters
      <4> QED BY <4>1, TidySplit DEF Tidy
    <3> QED BY <3>5 DEF Returned
  <2>2. CASE ~(Len(cs) = 1 /\ cs[1].type = "ROOT_DIR")
    <3>1. Tidy(r)
      BY <1>1, <2>2 DEF Tidy
    <3>2. Joined(cs) \in Text
      <4>1. cs \in Seq(Comps)
        BY <1>1, <1>2
      <4>2. PICK at : Joins(at, cs, Len(cs))
        BY <4>1, JoinedIs DEF Joins
      <4>3. Len(cs) \in 0..Len(cs)
        BY <4>1, LenProperties
      <4> QED BY <4>2, <4>3 DEF Joins
    <3>3. Tidy(Split(r.str))
      BY <1>1, <3>2, TidySplit
    <3> QED BY <3>1, <3>3 DEF Returned
  <2> QED BY <2>1, <2>2
<1> QED BY <1>3, <1>4, TidySplit

\* remove_filename empties a name, or leaves no list.
LEMMA RemovedTidy ==
    ASSUME NEW q, Formed(q), Tidy(q), ~RemoveThrows(q), NEW r \in Removed(q)
    PROVE  Tidy(r)
<1>1. q \in Objects /\ q.str \in Text
  BY ObjectIs DEF Formed
<1>2. ASSUME RemovesComponent(q), NEW before PROVE Tidy(RemoveAfter(q, before))
  <2>1. PICK cs, n, t : cs = q.cmpts /\ n = Len(cs) /\ t = SubSeq(q.str, 1, cs[n].pos)
    OBVIOUS
  <2>2. cs # <<>> /\ n \in Nat /\ n > 0 /\ cs[n].type = "FILENAME" /\ cs[n].pos \in Nat
    <3>1. cs # <<>> /\ Last(cs).type = "FILENAME" /\ Last(cs) = cs[n]
      BY <1>2, <2>1 DEF RemovesComponent, Last
    <3>2. n \in Nat /\ n # 0
      BY <1>1, <2>1, <3>1, ObjectIs
    <3>3. n \in 1..n
      BY <3>2
    <3> QED BY <1>1, <2>1, <3>1, <3>2, <3>3, ObjectIs
  <2>3. t \in Text
    <3>1. cs[n].pos <= Len(q.str)
      <4>1. ~(Last(cs).pos > Len(q.str)) /\ Last(cs) = cs[n]
        BY <1>2, <2>1 DEF RemoveThrows, Last
      <4> QED BY <1>1, <2>2, <4>1, ObjectIs
    <3>2. cs[n].pos \in 0..Len(q.str)
      BY <1>1, <2>2, <3>1, ObjectIs
    <3> QED BY <1>1, <2>1, <3>2, PrefixIs DEF Text
  <2>4. Tidy(Trim(t, Front(cs), "MULTI"))
    BY TidySplit
  <2>5. Tidy(Emptied(q, t))
    <3>1. PICK d \in Comps, ds \in Seq(Comps) :
             /\ d.type = cs[n].type /\ Emptied(q, t) = [q EXCEPT !.str = t, !.cmpts = ds]
             /\ Len(ds) = n /\ ds[n] = d
      <4>1. Empties(q, t, cs, n)
        BY <1>1, <2>1, <2>2, <2>3, EmptiedIs
      <4> QED BY <4>1 DEF Empties
    <3>2. Emptied(q, t).cmpts = ds
      BY <1>1, <3>1 DEF Objects
    <3>3. n = 1 => ds[1].type # "ROOT_DIR"
      BY <2>2, <3>1
    <3> QED BY <3>1, <3>2, <3>3 DEF Tidy
  <2>6. before = "ROOT_DIR" => RemoveAfter(q, before) = Trim(t, Front(cs), "MULTI")
    BY <2>1 DEF RemoveAfter
  <2>7. before # "ROOT_DIR" => RemoveAfter(q, before) = Emptied(q, t)
    BY <2>1 DEF RemoveAfter, Emptied
  <2> QED BY <2>4, <2>5, <2>6, <2>7
<1>3. CASE RemovesComponent(q)
  <2>1. \E before : r = RemoveAfter(q, before)
    BY <1>3 DEF Removed, RemoveFilename
  <2> QED BY <1>2, <1>3, <2>1
<1>4. CASE ~RemovesComponent(q)
  <2>1. r \in {q, Split(<<>>)}
    BY <1>4 DEF Removed, RemoveFilename, RemoveIsUndefined
  <2> QED BY <2>1, Characters, TidySplit
<1> QED BY <1>3, <1>4

\* Whatever is called, the object is in form and has its text.
InShape == Formed(p) /\ Tidy(p)

\* Every call leaves that so.
LEMMA CallLeavesTidy ==
    ASSUME InShape, [Next]_vars
    PROVE  InShape'
<1>1. Formed(p) /\ Tidy(p) /\ p \in Objects /\ p.str \in Text
  BY ObjectIs DEF InShape, Formed
<1>2. SUFFICES Tidy(p')
  <2>1. Formed(p')
    BY CallKeeps DEF InShape, InForm
  <2> QED BY <2>1 DEF InShape
<1>3. \A r \in Args : Tidy(r) /\ Exact(r) /\ r \in Objects /\ r.str \in Text
  <2>1. ASSUME NEW n \in Nat, NEW t \in Texts(n) PROVE t \in Text
    BY DEF Texts, Text
  <2>2. \A t \in Texts(MaxArg) : t \in Text
    BY <2>1, BoundsAssumption
  <2>3. \A t \in Text : Exact(Split(t)) /\ Split(t) \in Objects /\ Split(t).str \in Text /\ Tidy(Split(t))
    BY SplitExact, ObjectIs, TidySplit DEF Exact
  <2> QED BY <2>2, <2>3 DEF Args
<1>4. ASSUME NEW q \in Objects, NEW r \in Args PROVE Tidy(AppendPath(q, r))
  BY <1>3, AppendPathType, TidySplit
<1>5. CASE Assign
  BY <1>3, <1>5 DEF Assign, Becomes
<1>6. CASE MoveConstruct
  BY <1>1, <1>6, TidySplit DEF MoveConstruct, Becomes
<1>7. CASE CallAppend
  BY <1>1, <1>4, <1>7 DEF CallAppend, Becomes
<1>8. CASE CallConcat
  <2>1. PICK r \in Args : p' = Split(p.str \o r.str)
    BY <1>8 DEF CallConcat, Becomes, Concat
  <2>2. p.str \o r.str \in Text
    BY <1>1, <1>3, ConcatProperties DEF Text
  <2> QED BY <2>1, <2>2, TidySplit
<1>9. CASE Clear
  BY <1>9, Characters, TidySplit DEF Clear, Becomes
<1>10. CASE ToParentPath
  BY <1>1, <1>10, ParentTidy DEF ToParentPath, Becomes, Throws
<1>11. CASE ToRelativePath
  BY <1>1, <1>11, RelativePathType, TidySplit DEF ToRelativePath, Becomes, Throws
<1>12. CASE ToLexicallyNormal
  <2>1. PICK elided \in BOOLEAN : p' = LexicallyNormal(p, elided)
    BY <1>12 DEF ToLexicallyNormal, Becomes
  <2> QED BY <1>1, <2>1, LexicallyNormalExact, NormalTight, TidyExact
<1>13. CASE ToLexicallyRelative
  <2>1. PICK r \in Args : p' = LexicallyRelative(p, r)
    BY <1>13 DEF ToLexicallyRelative, Becomes
  <2>2. ASSUME NEW es \in Seq(Text) PROVE Tidy(Appended(es))
    <3>1. PICK D : D = {x \in Objects : Tidy(x)}
      OBVIOUS
    <3>2. Empty \in D
      BY <3>1, EmptyIs, TidySplit
    <3>3. \A x \in D, w \in Text : AppendPath(x, Split(w)) \in D
      <4>1. \A w \in Text : Split(w) \in Objects /\ Tidy(Split(w))
        BY SplitExact, TidySplit DEF Exact
      <4> QED BY <3>1, <4>1, AppendPathType, TidySplit
    <3>4. Appended(es) \in D
      BY <3>2, <3>3, AppendedIn
    <3> QED BY <3>1, <3>4
  <2>3. p' \in {Empty, Split(DotName)} \/ \E es \in Seq(Text) : p' = Appended(es)
    BY <1>1, <1>3, <2>1, LexicallyRelativeType
  <2> QED BY <2>2, <2>3, Characters, TidySplit
<1>14. CASE CallRemoveFilename
  <2>1. CASE RemoveThrows(p)
    BY <1>1, <1>14, <2>1 DEF CallRemoveFilename, Throws
  <2>2. CASE ~RemoveThrows(p)
    <3>1. PICK q \in Removed(p) : p' = q \/ \E s \in Args : p' = AppendPath(q, s)
      BY <1>14, <2>2 DEF CallRemoveFilename
    <3>2. Tidy(q) /\ q \in Objects
      BY <1>1, <2>2, RemovedTidy, RemovedFormed DEF Formed
    <3> QED BY <1>4, <3>1, <3>2
  <2> QED BY <2>1, <2>2
<1>15. CASE CallReplaceExtension
  <2>1. CASE ReplaceThrows(p)
    BY <1>1, <1>15, <2>1 DEF CallReplaceExtension, Throws
  <2>2. CASE ~ReplaceThrows(p)
    <3>1. PICK r \in {Empty} \cup Args : p' = ReplaceExtension(p, r)
      BY <1>15, <2>2 DEF CallReplaceExtension, Becomes
    <3>2. \E x \in Text : p' = Split(x)
      BY <1>1, <1>3, <2>2, <3>1, EmptyIs, ReplaceExtensionType
    <3> QED BY <3>2, TidySplit
  <2> QED BY <2>1, <2>2
<1>16. CASE UNCHANGED vars
  BY <1>1, <1>16 DEF vars
<1> QED BY <1>5, <1>6, <1>7, <1>8, <1>9, <1>10, <1>11, <1>12, <1>13, <1>14, <1>15, <1>16 DEF Next

\* So an object whose edits are defined is split to the same text again.
LEMMA TextStays ==
    ASSUME NEW q, Exact(q), ~RemoveIsUndefined(q), Tidy(q)
    PROVE  Split(q.str).str = q.str
<1>1. PICK s, cs : s = q.str /\ cs = q.cmpts
  OBVIOUS
<1>2. q \in Objects /\ s \in Text
  BY <1>1, ObjectIs DEF Exact
<1>3. CASE q.type # "MULTI"
  BY <1>1, <1>3 DEF Exact
<1>4. CASE q.type = "MULTI" /\ s = <<>>
  BY <1>1, <1>4, EmptyIs
<1>5. CASE q.type = "MULTI" /\ s # <<>>
  <2>1. CASE Split(s) = [str |-> s, cmpts |-> Components(s), type |-> "MULTI"]
    BY <1>1, <2>1
  <2>2. CASE Split(s) # [str |-> s, cmpts |-> Components(s), type |-> "MULTI"]
    <3>1. PICK w : /\ IsName(w) \/ w = <<Sep>>
                   /\ Split(s) = Split(w) /\ Len(Scan(s)) = 1
                   /\ Scan(s)[1].text = w /\ ~EndsInSep(s)
      BY <1>2, <1>5, <2>2, SplitIs
    <3>2. cs = Scan(s)
      BY <1>1, <1>5, <3>1 DEF Exact, Matches
    <3>3. /\ Len(cs) = 1 /\ cs[1].text = w /\ cs # <<>> /\ Last(cs) = cs[1]
          /\ cs[1].type \in {"ROOT_DIR", "FILENAME"}
      <4>1. Len(cs) = 1 /\ cs # <<>>
        BY <3>1, <3>2
      <4>2. 1 \in 1..Len(cs)
        BY <4>1
      <4> QED BY <1>1, <1>2, <3>1, <3>2, <4>1, <4>2, ObjectIs DEF Last
    <3>4. CASE cs[1].type = "ROOT_DIR"
      <4>1. s = <<Sep>>
        BY <1>1, <1>5, <3>3, <3>4 DEF Tidy
      <4> QED BY <1>1, <4>1, SplitSingle
    <3>5. CASE cs[1].type = "FILENAME"
      <4>1. w # <<>>
        BY <3>1, NameIsNoSep
      <4>2. RemovesComponent(q)
        BY <1>1, <1>5, <3>3, <3>5, <4>1 DEF RemovesComponent
      <4>3. ~(cs[1].pos > Len(s))
        <5>1. Shows(q, Elements(q)) /\ Len(cs) = 1
          BY <3>3, ExactShows
        <5>2. cs[1].pos <= Len(s)
          <6>1. Len(Elements(q)) = 1 /\ Elements(q)[1] = w
            BY <1>1, <1>5, <3>3, <5>1 DEF Shows
          <6>2. 1 \in 1..Len(Elements(q))
            BY <6>1
          <6> QED BY <1>1, <1>5, <4>1, <5>1, <6>1, <6>2 DEF Shows
        <5>3. cs[1].pos \in Nat /\ Len(s) \in Nat
          <6>1. 1 \in 1..Len(cs)
            BY <3>3
          <6> QED BY <1>1, <1>2, <6>1, ObjectIs
        <5> QED BY <5>2, <5>3
      <4>4. RemoveIsUndefined(q)
        BY <1>1, <3>3, <4>2, <4>3 DEF RemoveIsUndefined, RemoveThrows
      <4> QED BY <4>4
    <3> QED BY <3>3, <3>4, <3>5
  <2> QED BY <2>1, <2>2
<1> QED BY <1>3, <1>4, <1>5

-----------------------------------------------------------------------------
(* What an edit takes, another one puts back.                              *)

\* A list is its two parts.
LEMMA HalvesOf ==
    ASSUME NEW C, NEW s \in Seq(C), NEW b \in 0..Len(s)
    PROVE  SubSeq(s, 1, b) \o SubSeq(s, b + 1, Len(s)) = s
<1>1. PICK u, v, w, l : /\ u = SubSeq(s, 1, b) /\ v = SubSeq(s, b + 1, Len(s)) /\ w = u \o v
                        /\ l = Len(s)
  OBVIOUS
<1>2. s \in Seq(C) /\ l \in Nat /\ b \in Nat /\ b <= l
  BY <1>1, LenProperties
<1>3. u \in Seq(C) /\ Len(u) = b /\ \A i \in 1..b : u[i] = s[i]
  BY <1>1, <1>2, PrefixIs
<1>4. v \in Seq(C) /\ Len(v) = l - b /\ \A i \in 1..Len(v) : v[i] = s[b + i]
  BY <1>1, <1>2, SuffixIs
<1>5. /\ w \in Seq(C) /\ Len(w) = Len(u) + Len(v)
      /\ \A i \in 1..Len(u) + Len(v) : w[i] = IF i <= Len(u) THEN u[i] ELSE v[i - Len(u)]
  <2>1. /\ u \o v \in Seq(C) /\ Len(u \o v) = Len(u) + Len(v)
        /\ \A i \in 1..Len(u) + Len(v) :
              (u \o v)[i] = IF i <= Len(u) THEN u[i] ELSE v[i - Len(u)]
    BY <1>3, <1>4, ConcatProperties
  <2>2. w = u \o v
    BY <1>1
  <2> QED BY <2>1, <2>2
<1>6. Len(w) = l
  BY <1>2, <1>3, <1>4, <1>5
<1>7. ASSUME NEW i \in 1..l PROVE w[i] = s[i]
  <2>1. w[i] = IF i <= b THEN u[i] ELSE v[i - b]
    BY <1>2, <1>3, <1>4, <1>5
  <2>2. CASE i <= b
    BY <1>3, <2>1, <2>2
  <2>3. CASE i > b
    <3>1. i - b \in 1..Len(v) /\ b + (i - b) = i
      BY <1>2, <1>4, <2>3
    <3> QED BY <1>2, <1>4, <2>1, <2>3, <3>1
  <2> QED BY <1>2, <2>2, <2>3
<1>8. w = s
  BY <1>1, <1>2, <1>5, <1>6, <1>7, SeqEqual
<1> QED BY <1>1, <1>8

\* A text is, too.
LEMMA Halves ==
    ASSUME NEW s \in Text, NEW b \in 0..Len(s)
    PROVE  SubSeq(s, 1, b) \o SubSeq(s, b + 1, Len(s)) = s
<1>1. PICK C : C = Alphabet /\ s \in Seq(C)
  BY DEF Text
<1> QED BY <1>1, HalvesOf

\* Parts of a name are names.
LEMMA NameParts ==
    ASSUME NEW e, IsName(e), NEW i \in 2..Len(e)
    PROVE  /\ IsName(SubSeq(e, 1, i - 1)) /\ IsName(SubSeq(e, i, Len(e)))
           /\ SubSeq(e, i, Len(e))[1] = e[i]
           /\ Len(SubSeq(e, i, Len(e))) = Len(e) - i + 1
           /\ \A j \in 1..(Len(e) - i + 1) : SubSeq(e, i, Len(e))[j] = e[i - 1 + j]
           /\ SubSeq(e, 1, i - 1) \o SubSeq(e, i, Len(e)) = e
<1>1. PICK u, v, l, b : /\ b = i - 1 /\ u = SubSeq(e, 1, b) /\ v = SubSeq(e, b + 1, Len(e))
                        /\ l = Len(e)
  OBVIOUS
<1>2. /\ e \in Seq(Alphabet) /\ e \in Text /\ l \in Nat /\ b \in Nat /\ b + 1 = i /\ b >= 1 /\ b < l
      /\ i - 1 = b /\ b \in 0..Len(e) /\ \A k \in 1..l : e[k] # Sep
  BY <1>1, LenProperties DEF IsName, Text
<1>3. u \in Seq(Alphabet) /\ Len(u) = b /\ \A k \in 1..b : u[k] = e[k]
  BY <1>1, <1>2, PrefixIs
<1>4. v \in Seq(Alphabet) /\ Len(v) = l - b /\ \A k \in 1..Len(v) : v[k] = e[b + k] /\ b + k \in 1..l
  BY <1>1, <1>2, SuffixIs
<1>5. IsName(u)
  <2>1. u # <<>> /\ \A k \in 1..Len(u) : u[k] # Sep
    BY <1>2, <1>3
  <2> QED BY <1>3, <2>1 DEF IsName, Text
<1>6. IsName(v)
  <2>1. v # <<>> /\ \A k \in 1..Len(v) : v[k] # Sep
    BY <1>2, <1>4
  <2> QED BY <1>4, <2>1 DEF IsName, Text
<1>7. v[1] = e[i] /\ l - b = l - i + 1
  <2>1. 1 \in 1..Len(v)
    BY <1>2, <1>4
  <2> QED BY <1>2, <1>4, <2>1
<1>8. u \o v = e
  BY <1>1, <1>2, Halves
<1>9. v = SubSeq(e, i, Len(e)) /\ u = SubSeq(e, 1, i - 1)
  BY <1>1, <1>2
<1> QED BY <1>1, <1>2, <1>4, <1>5, <1>6, <1>7, <1>8, <1>9

\* The extension begins with a dot that is not the first character.
LEMMA ExtensionBegins ==
    ASSUME NEW q \in Objects
    PROVE  FindExtension(q) # 0 =>
               /\ FindExtension(q) \in 2..Len(ExtensionName(q))
               /\ ExtensionName(q)[FindExtension(q)] = Dot
<1>1. PICK s : s = ExtensionName(q)
  OBVIOUS
<1>2. s \in Text
  BY <1>1, FindExtensionType
<1>3. PICK dots : dots = {i \in DOMAIN s : s[i] = Dot}
  OBVIOUS
<1>4. Len(s) \in Nat /\ DOMAIN s = 1..Len(s)
  BY <1>2, LenProperties DEF Text
<1>5. PICK m : m = CHOOSE i \in dots : \A j \in dots : j <= i
  OBVIOUS
<1>6. dots # {} => m \in dots
  <2>1. dots \in SUBSET Nat /\ \A j \in dots : j <= Len(s)
    BY <1>3, <1>4
  <2>2. dots # {} => \E i \in dots : \A j \in dots : j <= i
    BY <1>4, <2>1, NatMax
  <2> QED BY <1>5, <2>2
<1>7. FindExtension(q) = 0 \/ (dots # {} /\ m # 1 /\ FindExtension(q) = m)
  BY <1>1, <1>3, <1>5 DEF FindExtension
<1> QED BY <1>1, <1>3, <1>4, <1>6, <1>7

\* stem and extension make the name.
LEMMA StemAndExtension ==
    ASSUME NEW q, Exact(q)
    PROVE  /\ Stem(q).str \o Extension(q).str = Filename(q).str
           /\ ExtensionName(q) # <<>> => IsName(ExtensionName(q))
<1>1. PICK es, n, e, i : /\ es = Elements(q) /\ n = Len(es) /\ e = ExtensionName(q)
                         /\ i = FindExtension(q)
  OBVIOUS
<1>2. Listing(es) /\ n \in Nat /\ q \in Objects
  <2>1. Listing(es)
    BY <1>1, ExactShows DEF Shows
  <2> QED BY <1>1, <2>1, LenProperties DEF Listing, Exact
<1>3. e = IF n = 0 \/ es[n] = <<Sep>> THEN <<>> ELSE es[n]
  BY <1>1, ExtensionNameIs
<1>4. n # 0 => es[n] = <<Sep>> \/ es[n] = <<>> \/ IsName(es[n])
  <2>1. n # 0 => n \in 1..n
    BY <1>2
  <2> QED BY <1>1, <1>2, <2>1 DEF Listing
<1>5. CASE e = <<>>
  <2>1. i = 0
    <3>1. DOMAIN <<>> = {}
      OBVIOUS
    <3>2. {k \in DOMAIN e : e[k] = Dot} = {}
      BY <1>5, <3>1
    <3> QED BY <1>1, <3>2 DEF FindExtension
  <2>2. Stem(q) = Empty /\ Extension(q) = Empty
    BY <1>1, <1>5, <2>1 DEF Stem, Extension
  <2>3. ~(n # 0 /\ IsName(es[n]))
    BY <1>3, <1>5, NameIsNoSep
  <2>4. Filename(q).str = <<>>
    BY <1>1, <2>3, FilenameIs
  <2>5. <<>> \o <<>> = <<>>
    OBVIOUS
  <2> QED BY <1>1, <1>5, <2>2, <2>4, <2>5, EmptyIs
<1>6. CASE e # <<>>
  <2>1. n # 0 /\ e = es[n] /\ IsName(e)
    BY <1>3, <1>4, <1>6
  <2>2. Filename(q).str = e /\ Split(e).str = e
    <3>1. Filename(q) = Split(e)
      BY <1>1, <2>1, FilenameIs
    <3> QED BY <2>1, <3>1, SplitSingle
  <2>3. CASE i = 0
    <3>1. Stem(q) = Split(e) /\ Extension(q) = Empty
      BY <1>1, <1>6, <2>3 DEF Stem, Extension
    <3>2. e \o <<>> = e
      <4>1. e \in Seq(Alphabet)
        BY <2>1 DEF IsName, Text
      <4> QED BY <4>1
    <3> QED BY <1>1, <2>1, <2>2, <3>1, <3>2, EmptyIs
  <2>4. CASE i # 0
    <3>1. i \in 2..Len(e)
      BY <1>1, <1>2, <2>4, ExtensionBegins
    <3>2. PICK u, v : u = SubSeq(e, 1, i - 1) /\ v = SubSeq(e, i, Len(e))
      OBVIOUS
    <3>3. IsName(u) /\ IsName(v) /\ u \o v = e
      BY <2>1, <3>1, <3>2, NameParts
    <3>4. Stem(q) = Split(u) /\ Extension(q) = Split(v)
      BY <1>1, <1>6, <2>4, <3>2 DEF Stem, Extension
    <3>5. Split(u).str = u /\ Split(v).str = v
      BY <3>3, SplitSingle
    <3> QED BY <1>1, <2>1, <2>2, <3>3, <3>4, <3>5
  <2> QED BY <2>3, <2>4
<1> QED BY <1>5, <1>6

\* The name with an extension ends the text.
NameAt(q) == IF q.type = "FILENAME" THEN 0 ELSE Last(q.cmpts).pos

\* It does, and lies in the text character by character.
LEMMA NameLies ==
    ASSUME NEW q, Exact(q), ExtensionName(q) # <<>>
    PROVE  /\ NameAt(q) \in Nat /\ NameAt(q) + Len(ExtensionName(q)) = Len(q.str)
           /\ \A j \in 1..Len(ExtensionName(q)) : q.str[NameAt(q) + j] = ExtensionName(q)[j]
<1>1. PICK s, cs, e, b, n : s = q.str /\ cs = q.cmpts /\ e = ExtensionName(q) /\ b = NameAt(q) /\ n = Len(cs)
  OBVIOUS
<1>2. /\ q \in Objects /\ s \in Text /\ cs \in Seq(Comps) /\ IsName(e) /\ e # <<>> /\ n \in Nat
      /\ Len(s) \in Nat /\ Len(e) \in Nat
  <2>1. q \in Objects /\ s \in Text /\ cs \in Seq(Comps) /\ n \in Nat /\ Len(s) \in Nat
    BY <1>1, ObjectIs DEF Exact
  <2>2. IsName(e) /\ e # <<>>
    BY <1>1, StemAndExtension
  <2> QED BY <2>1, <2>2, LenProperties DEF IsName, Text
<1>3. CASE q.type = "FILENAME"
  <2>1. e = s /\ b = 0
    BY <1>1, <1>3 DEF ExtensionName, NameAt
  <2>2. 0 + Len(s) = Len(s) /\ \A j \in 1..Len(s) : 0 + j = j
    BY <1>2
  <2> QED BY <1>1, <2>1, <2>2
<1>4. CASE q.type # "FILENAME"
  <2>1. /\ q.type = "MULTI" /\ cs # <<>> /\ Last(cs).type = "FILENAME" /\ e = Last(cs).text
        /\ b = Last(cs).pos /\ Last(cs) = cs[n]
    BY <1>1, <1>2, <1>4 DEF ExtensionName, NameAt, Last
  <2>2. n \in 1..n
    BY <1>1, <1>2, <2>1, EmptySeq
  <2>3. Matches(s, cs) /\ s # <<>>
    BY <1>1, <2>1 DEF Exact, Matches
  <2>4. ~EndsInSep(s)
    <3> SUFFICES ASSUME EndsInSep(s) PROVE FALSE
      OBVIOUS
    <3>1. PICK d \in Comps : d.text = <<>> /\ cs = Append(Scan(s), d)
      BY <2>3 DEF Matches
    <3>2. Scan(s) \in Seq(Comps)
      BY <1>2, ScanType
    <3>3. cs[n] = d
      BY <1>1, <3>1, <3>2, AppendProperties
    <3> QED BY <1>2, <2>1, <3>1, <3>3
  <2>5. cs = Scan(s)
    BY <2>3, <2>4 DEF Matches
  <2>6. Last(s) # Sep
    BY <1>1, <2>1, <2>4, <2>5 DEF EndsInSep, LastName
  <2>7. End(cs[n]) = Len(s)
    BY <1>1, <1>2, <2>3, <2>5, <2>6, ScanShape DEF Lies
  <2>8. \A j \in 1..Len(cs[n].text) : s[cs[n].pos + j] = cs[n].text[j]
    BY <1>1, <1>2, <2>2, <2>5, ScanPlaces DEF Placed, Located
  <2>9. b \in Nat
    <3>1. cs[n] \in Comps
      BY <1>2, <2>2, <1>1, ElementOfSeq
    <3> QED BY <2>1, <3>1, CompType
  <2>10. b + Len(e) = Len(s)
    BY <2>1, <2>7 DEF End
  <2>11. \A j \in 1..Len(e) : s[b + j] = e[j]
    BY <2>1, <2>8
  <2> QED BY <1>1, <2>9, <2>10, <2>11
<1> QED BY <1>3, <1>4

\* The extension can be replaced by itself.
LEMMA ExtensionStays ==
    ASSUME NEW q, Exact(q), Split(q.str).str = q.str
    PROVE  ReplaceExtension(q, Extension(q)).str = q.str
<1>1. PICK s, e, i : s = q.str /\ e = ExtensionName(q) /\ i = FindExtension(q)
  OBVIOUS
<1>2. q \in Objects /\ s \in Text /\ s \in Seq(Alphabet) /\ Len(s) \in Nat
  BY <1>1, ObjectIs DEF Exact, Text
<1>3. s \o <<>> = s
  BY <1>2
<1>4. CASE i = 0
  <2>1. Extension(q).str = <<>>
    BY <1>1, <1>4, EmptyIs DEF Extension
  <2>2. ReplaceExtension(q, Extension(q)) = Split(s \o <<>>)
    BY <1>1, <1>4, <2>1 DEF ReplaceExtension
  <2> QED BY <1>1, <1>3, <2>2
<1>5. CASE i # 0
  <2>1. i \in 2..Len(e) /\ e[i] = Dot
    BY <1>1, <1>2, <1>5, ExtensionBegins
  <2>2. e # <<>>
    BY <2>1
  <2>3. IsName(e)
    BY <1>1, <2>2, StemAndExtension
  <2>4. PICK v, b : v = SubSeq(e, i, Len(e)) /\ b = NameAt(q)
    OBVIOUS
  <2>5. /\ IsName(v) /\ v[1] = Dot /\ Len(v) = Len(e) - i + 1
        /\ \A j \in 1..(Len(e) - i + 1) : v[j] = e[i - 1 + j]
    BY <2>1, <2>3, <2>4, NameParts
  <2>6. Extension(q).str = v
    <3>1. Extension(q) = Split(v)
      BY <1>1, <1>5, <2>4 DEF Extension
    <3> QED BY <2>5, <3>1, SplitSingle
  <2>7. b \in Nat /\ b + Len(e) = Len(s) /\ \A j \in 1..Len(e) : s[b + j] = e[j]
    BY <1>1, <2>2, <2>4, NameLies
  <2>8. PICK a, u, w : a = i - 1 + b /\ u = SubSeq(s, 1, a) /\ w = SubSeq(s, a + 1, Len(s))
    OBVIOUS
  <2>9. Len(e) \in Nat /\ i \in Nat /\ a \in 0..Len(s) /\ a \in Nat /\ Len(s) - a = Len(e) - i + 1
    <3>1. Len(e) \in Nat
      BY <2>3, LenProperties DEF IsName, Text
    <3>2. i \in Nat /\ i >= 2 /\ i <= Len(e)
      BY <2>1, <3>1
    <3>3. a = i - 1 + b /\ b \in Nat /\ b + Len(e) = Len(s)
      BY <2>7, <2>8
    <3>4. a \in Nat /\ a <= Len(s)
      BY <1>2, <3>1, <3>2, <3>3
    <3> QED BY <1>2, <3>1, <3>2, <3>3, <3>4
  <2>10. w = v
    <3>1. w \in Seq(Alphabet) /\ Len(w) = Len(s) - a /\ \A j \in 1..Len(w) : w[j] = s[a + j]
      BY <1>2, <2>8, <2>9, SuffixIs
    <3>2. v \in Seq(Alphabet)
      BY <2>5 DEF IsName, Text
    <3>3. ASSUME NEW j \in 1..Len(w) PROVE w[j] = v[j]
      <4>1. j \in 1..(Len(e) - i + 1) /\ i - 1 + j \in 1..Len(e) /\ a + j = b + (i - 1 + j)
        BY <2>1, <2>7, <2>8, <2>9, <3>1
      <4> QED BY <2>5, <2>7, <3>1, <4>1
    <3> QED BY <2>5, <2>9, <3>1, <3>2, <3>3, SeqEqual
  <2>11. u \o v = s
    BY <1>2, <2>8, <2>9, <2>10, Halves
  <2>12. ExtensionAt(q) = a
    BY <1>1, <2>4, <2>8 DEF ExtensionAt, NameAt
  <2>13. ReplaceExtension(q, Extension(q)) = Split(u \o v)
    BY <1>1, <1>5, <2>5, <2>6, <2>8, <2>12 DEF ReplaceExtension
  <2> QED BY <1>1, <2>11, <2>13
<1> QED BY <1>4, <1>5

\* The components of a text with an empty name more, if one follows, are what
\* it is split to.
LEMMA ElementsAre ==
    ASSUME NEW s \in Text, s # <<>>, NEW es \in Seq(Text),
           Len(es) = Len(Scan(s)) + (IF EndsInSep(s) THEN 1 ELSE 0),
           \A i \in 1..Len(Scan(s)) : es[i] = Scan(s)[i].text,
           EndsInSep(s) => es[Len(Scan(s)) + 1] = <<>>
    PROVE  Elements(Split(s)) = es
<1>1. PICK cs, n, m : cs = Components(s) /\ n = Len(cs) /\ m = Len(Scan(s))
  OBVIOUS
<1>2. /\ cs \in Seq(Comps) /\ Matches(s, cs) /\ m \in Nat /\ Scan(s) \in Seq(Comps)
  BY <1>1, ComponentsMatch, ComponentsAre
<1>3. n = Len(es) /\ n \in Nat
  <2>1. CASE EndsInSep(s)
    <3>1. PICK d \in Comps : cs = Append(Scan(s), d)
      BY <1>2, <2>1 DEF Matches
    <3>2. n = m + 1
      BY <1>1, <1>2, <3>1, AppendProperties
    <3> QED BY <1>1, <1>2, <2>1, <3>2
  <2>2. CASE ~EndsInSep(s)
    <3>1. cs = Scan(s)
      BY <1>2, <2>2 DEF Matches
    <3> QED BY <1>1, <1>2, <2>2, <3>1
  <2> QED BY <2>1, <2>2
<1>4. ASSUME NEW i \in 1..n PROVE cs[i].text = es[i]
  <2>1. CASE i \in 1..m
    <3>1. cs[i] = Scan(s)[i]
      BY <1>1, <1>2, <2>1, MatchesTexts
    <3> QED BY <1>1, <2>1, <3>1
  <2>2. CASE i \notin 1..m
    <3>1. i = n /\ i = m + 1 /\ cs[i].text = <<>>
      BY <1>1, <1>2, <2>2, MatchesTexts
    <3>2. EndsInSep(s)
      <4> SUFFICES ASSUME ~EndsInSep(s) PROVE FALSE
        OBVIOUS
      <4>1. n = m
        <5>1. n = Len(Scan(s))
          BY <1>3
        <5> QED BY <1>1, <5>1
      <4>2. n = m + 1
        BY <3>1
      <4> QED BY <1>2, <4>1, <4>2
    <3> QED BY <1>1, <3>1, <3>2
  <2> QED BY <2>1, <2>2
<1>5. TextsOf(cs) = es
  <2>1. DOMAIN cs = 1..n
    BY <1>1, <1>2, LenProperties
  <2>2. es = [i \in 1..n |-> es[i]]
    BY <1>3, LenProperties
  <2> QED BY <1>4, <2>1, <2>2 DEF TextsOf
<1> QED BY <1>1, <1>5, SplitElements

\* And what the components of an exact object are, but for such a name.
LEMMA ScanShows ==
    ASSUME NEW q, Exact(q)
    PROVE  LET es == Elements(q)
               n == Len(es)
               m == IF n # 0 /\ es[n] = <<>> THEN n - 1 ELSE n
           IN  Len(Scan(q.str)) = m /\ \A i \in 1..m : Scan(q.str)[i].text = es[i]
<1>1. PICK s, es, n, m, k, cs :
         /\ s = q.str /\ es = Elements(q) /\ n = Len(es) /\ k = Len(Scan(s)) /\ cs = Components(s)
         /\ m = IF n # 0 /\ es[n] = <<>> THEN n - 1 ELSE n
  OBVIOUS
<1>2. s \in Text /\ es \in Seq(Text) /\ n \in Nat /\ Shows(q, es)
  <2>1. Shows(q, es) /\ es \in Seq(Text)
    BY <1>1, ExactShows DEF Shows, Listing
  <2> QED BY <1>1, <2>1, LenProperties, ObjectIs DEF Exact
<1>3. es = Elements(Split(s))
  BY <1>1, ExactDescribed DEF Described
<1>4. CASE s = <<>>
  <2>1. n = 0 /\ m = 0
    BY <1>1, <1>2, <1>4 DEF Shows
  <2>2. k = 0
    <3>1. Scan(<<>>) = <<>> /\ Len(<<>>) = 0
      BY ScanType
    <3> QED BY <1>1, <1>4, <3>1
  <2> QED BY <1>1, <2>1, <2>2
<1>5. CASE s # <<>>
  <2>1. es = TextsOf(cs) /\ Matches(s, cs) /\ cs \in Seq(Comps)
    BY <1>1, <1>2, <1>3, <1>5, SplitElements, ComponentsMatch
  <2>2. n = Len(cs) /\ \A i \in 1..n : es[i] = cs[i].text
    <3>1. es = [i \in 1..Len(cs) |-> cs[i].text] /\ Len(cs) \in Nat
      BY <2>1, LenProperties DEF TextsOf
    <3> QED BY <1>1, <1>2, <3>1, LenProperties
  <2>3. /\ k \in Nat /\ k > 0 /\ Proper(Scan(s)) /\ k <= n /\ n <= k + 1
        /\ \A i \in 1..k : cs[i] = Scan(s)[i]
        /\ \A i \in 1..n : i \notin 1..k => cs[i].text = <<>>
    BY <1>1, <1>2, <1>5, <2>1, <2>2, ComponentsAre, MatchesTexts
  <2>4. \A i \in 1..k : es[i] = Scan(s)[i].text /\ es[i] # <<>>
    <3>1. ASSUME NEW i \in 1..k PROVE es[i] = Scan(s)[i].text /\ es[i] # <<>>
      <4>1. i \in 1..n
        BY <1>2, <2>3
      <4>2. Scan(s)[i].text # <<>>
        <5>1. <<Sep>> # <<>>
          OBVIOUS
        <5> QED BY <1>1, <2>3, <5>1, NameIsNoSep DEF Proper
      <4> QED BY <2>2, <2>3, <4>1, <4>2
    <3> QED BY <3>1
  <2>5. m = k
    <3>1. CASE n = k
      <4>1. n # 0 /\ n \in 1..k
        BY <2>3, <3>1
      <4> QED BY <1>1, <2>4, <3>1, <4>1
    <3>2. CASE n = k + 1
      <4>1. n # 0 /\ n \in 1..n /\ n \notin 1..k /\ n - 1 = k
        BY <2>3, <3>2
      <4>2. es[n] = <<>>
        BY <2>2, <2>3, <4>1
      <4> QED BY <1>1, <4>1, <4>2
    <3> QED BY <1>2, <2>3, <3>1, <3>2
  <2> QED BY <1>1, <2>4, <2>5
<1> QED BY <1>4, <1>5

\* A name behind a separator becomes the last element.
LEMMA AddsName ==
    ASSUME NEW t \in Text, t = <<>> \/ Last(t) = Sep, NEW es \in Seq(Text),
           Len(es) = Len(Scan(t)) + 1, IsName(es[Len(es)]),
           \A i \in 1..Len(Scan(t)) : es[i] = Scan(t)[i].text
    PROVE  /\ t \o es[Len(es)] \in Text /\ t \o es[Len(es)] # <<>>
           /\ Last(t \o es[Len(es)]) # Sep
           /\ Scan(t \o es[Len(es)]) = Append(Scan(t), Component(es[Len(es)], "FILENAME", Len(t)))
           /\ Elements(Split(t \o es[Len(es)])) = es
<1>1. PICK n, m, w, u, d : /\ n = Len(es) /\ m = Len(Scan(t)) /\ w = es[n] /\ u = t \o w
                           /\ d = Component(w, "FILENAME", Len(t))
  OBVIOUS
<1>2. /\ IsName(w) /\ w \in Text /\ w # <<>> /\ Last(w) # Sep /\ n = m + 1
      /\ Scan(t) \in Seq(Comps) /\ m \in Nat /\ Len(t) \in Nat /\ Len(w) \in Nat /\ Len(w) > 0
  <2>1. IsName(w) /\ w \in Text /\ w # <<>> /\ Last(w) # Sep /\ n = m + 1
    BY <1>1, NameIsNoSep
  <2>2. Scan(t) \in Seq(Comps) /\ m \in Nat
    BY <1>1, ScanType, LenProperties
  <2>3. Len(t) \in Nat /\ Len(w) \in Nat /\ Len(w) > 0
    BY <2>1, LenProperties, EmptySeq DEF Text
  <2> QED BY <2>1, <2>2, <2>3
<1>3. u \in Text /\ u # <<>> /\ Last(u) # Sep
  <2>1. /\ t \o w \in Seq(Alphabet) /\ Len(t \o w) = Len(t) + Len(w)
        /\ \A i \in 1..Len(t) + Len(w) : (t \o w)[i] = IF i <= Len(t) THEN t[i] ELSE w[i - Len(t)]
    BY <1>2, ConcatProperties DEF Text
  <2>2. Len(u) = Len(t) + Len(w) /\ u \in Text
    BY <1>1, <2>1 DEF Text
  <2>3. u[Len(t) + Len(w)] = w[Len(w)]
    <3>1. /\ Len(t) + Len(w) \in 1..Len(t) + Len(w) /\ ~(Len(t) + Len(w) <= Len(t))
          /\ Len(t) + Len(w) - Len(t) = Len(w)
      BY <1>2
    <3> QED BY <1>1, <2>1, <3>1
  <2>4. u # <<>>
    <3>1. Len(u) > 0
      BY <1>2, <2>2
    <3> QED BY <3>1
  <2> QED BY <1>2, <2>2, <2>3, <2>4 DEF Last
<1>4. Scan(u) = Append(Scan(t), d)
  BY <1>1, <1>2, ScanName
<1>5. d \in Comps /\ d.text = w
  BY <1>1, <1>2 DEF Component, Comps
<1>6. Len(Scan(u)) = n /\ \A i \in 1..n : es[i] = Scan(u)[i].text
  <2>1. /\ Len(Scan(u)) = m + 1 /\ Scan(u)[m + 1] = d
        /\ \A i \in 1..m : Scan(u)[i] = Scan(t)[i]
    BY <1>1, <1>2, <1>4, <1>5, AppendProperties
  <2>2. ASSUME NEW i \in 1..n PROVE es[i] = Scan(u)[i].text
    <3>1. CASE i \in 1..m
      BY <1>1, <2>1, <3>1
    <3>2. CASE i \notin 1..m
      <4>1. i = m + 1 /\ i = n
        BY <1>2, <3>2
      <4> QED BY <1>1, <1>5, <2>1, <4>1
    <3> QED BY <3>1, <3>2
  <2> QED BY <1>2, <2>1, <2>2
<1>7. Elements(Split(u)) = es
  <2>1. ~EndsInSep(u)
    BY <1>3 DEF EndsInSep
  <2>2. Len(es) = Len(Scan(u)) + (IF EndsInSep(u) THEN 1 ELSE 0)
    BY <1>1, <1>2, <1>6, <2>1
  <2> QED BY <1>3, <1>6, <2>1, <2>2, ElementsAre
<1> QED BY <1>1, <1>3, <1>4, <1>7

\* What remove_filename takes, operator/= puts back.
LEMMA FilenameGoesBack ==
    ASSUME NEW q, Exact(q), ~RemoveIsUndefined(q)
    PROVE  Equal(AppendPath(RemoveFilename(q), Filename(q)), q)
<1>1. PICK es, n, r, t, f, ls : /\ es = Elements(q) /\ n = Len(es) /\ r = RemoveFilename(q) /\ t = r.str
                                /\ f = Filename(q) /\ ls = Left(es)
  OBVIOUS
<1>2. /\ Listing(es) /\ n \in Nat /\ es \in Seq(Text)
      /\ Exact(r) /\ Elements(r) = ls /\ Shows(r, ls) /\ Listing(ls) /\ t \in Text
  <2>1. Listing(es) /\ es \in Seq(Text)
    BY <1>1, ExactShows DEF Shows, Listing
  <2>2. Exact(r) /\ Elements(r) = ls
    BY <1>1, LeavesElements
  <2>3. Shows(r, ls) /\ Listing(ls)
    BY <2>2, ExactShows DEF Shows
  <2> QED BY <1>1, <2>1, <2>2, <2>3, LenProperties, ObjectIs DEF Exact
<1>3. Exact(q)
  OBVIOUS
<1>4. t \o <<>> = t
  BY <1>2 DEF Text
<1>5. ASSUME ~IsAbsolute(f), ~HasFilename(r) PROVE AppendPath(r, f) = Split(t \o f.str)
  <2>1. AppendPath(r, f) = Split(t \o <<>> \o f.str)
    BY <1>1, <1>5 DEF AppendPath
  <2> QED BY <1>4, <2>1
<1>6. CASE ~(n # 0 /\ IsName(es[n]))
  <2>1. ls = es
    BY <1>1, <1>6 DEF Left
  <2>2. f.str = <<>> /\ ~HasFilename(r)
    BY <1>1, <1>2, <1>6, <2>1, FilenameIs DEF HasFilename
  <2>3. ~IsAbsolute(f)
    <3>1. f.cmpts = <<>> /\ f.type # "ROOT_DIR"
      <4>1. f = Empty \/ (q.type = "FILENAME" /\ q.str # <<>> /\ f = q)
            \/ (f = [str |-> Last(q.cmpts).text, cmpts |-> <<>>, type |-> "FILENAME"])
        BY <1>1 DEF Filename
      <4>2. ~(q.type = "FILENAME" /\ q.str # <<>> /\ f = q)
        BY <2>2
      <4> QED BY <4>1, <4>2, EmptyIs
    <3> QED BY <3>1 DEF IsAbsolute, HasRootDirectory
  <2>4. AppendPath(r, f) = Split(t)
    BY <1>4, <1>5, <2>2, <2>3
  <2>5. Elements(Split(t)) = es
    BY <1>1, <1>2, <2>1, ExactDescribed DEF Described
  <2> QED BY <1>1, <1>2, <1>3, <2>4, <2>5, SplitExact, EqualMeans
<1>7. CASE n # 0 /\ IsName(es[n])
  <2>1. PICK w : w = es[n] /\ IsName(w)
    BY <1>7
  <2>2. f = Split(w) /\ f.str = w /\ ~IsAbsolute(f)
    <3>1. f = Split(w)
      BY <1>1, <1>7, <2>1, FilenameIs
    <3>2. Split(w) = [str |-> w, cmpts |-> <<>>, type |-> "FILENAME"]
      BY <2>1, SplitSingle
    <3> QED BY <3>1, <3>2 DEF IsAbsolute, HasRootDirectory
  <2>3. PICK k, m : k = Len(ls) /\ m = IF k # 0 /\ ls[k] = <<>> THEN k - 1 ELSE k
    OBVIOUS
  <2>4. Len(Scan(t)) = m /\ \A i \in 1..m : Scan(t)[i].text = ls[i]
    BY <1>1, <1>2, <2>3, ScanShows
  <2>5. /\ m + 1 = n /\ \A i \in 1..m : ls[i] = es[i]
        /\ k # 0 => ~IsName(ls[k])
    <3>1. ~IsName(<<>>) /\ ~IsName(<<Sep>>) /\ <<Sep>> # <<>>
      BY NameIsNoSep
    <3>2. CASE n = 1
      <4>1. ls = <<>> /\ Len(<<>>) = 0
        BY <1>1, <1>7, <3>2 DEF Left
      <4> QED BY <2>3, <3>2, <4>1
    <3>3. CASE n # 1 /\ es[n - 1] = <<Sep>>
      <4>1. ls = <<<<Sep>>>>
        BY <1>1, <1>7, <3>3 DEF Left
      <4>2. n = 2
        <5>1. n - 1 \in 1..n
          BY <1>2, <1>7, <3>3
        <5>2. n - 1 = 1
          BY <1>1, <1>2, <3>3, <5>1 DEF Listing
        <5> QED BY <1>2, <5>2
      <4>3. k = 1 /\ ls[1] = <<Sep>>
        BY <2>3, <4>1
      <4>4. m = 1
        BY <2>3, <3>1, <4>3
      <4>5. \A i \in 1..1 : i = 1
        OBVIOUS
      <4> QED BY <3>1, <3>3, <4>2, <4>3, <4>4, <4>5
    <3>4. CASE n # 1 /\ es[n - 1] # <<Sep>>
      <4>1. ls = [es EXCEPT ![n] = <<>>]
        BY <1>1, <1>7, <3>4 DEF Left
      <4>2. DOMAIN es = 1..n /\ n \in 1..n
        BY <1>1, <1>2, <1>7, LenProperties
      <4>3. ls[n] = <<>> /\ \A i \in 1..n : i # n => ls[i] = es[i]
        BY <4>1, <4>2
      <4>4. k = n
        <5>1. DOMAIN ls = 1..n
          BY <4>1, <4>2
        <5> QED BY <1>2, <2>3, <5>1, LenProperties DEF Listing
      <4>5. m = n - 1
        BY <1>7, <2>3, <4>3, <4>4
      <4>6. m + 1 = n /\ \A i \in 1..m : i \in 1..n /\ i # n
        BY <1>2, <1>7, <4>5
      <4> QED BY <3>1, <4>3, <4>4, <4>6
    <3> QED BY <3>2, <3>3, <3>4
  <2>6. ~HasFilename(r)
    BY <1>1, <1>2, <2>3, <2>5, FilenameIs DEF HasFilename
  <2>7. t = <<>> \/ Last(t) = Sep
    BY <1>1, <1>2, <2>6, ExactFilename
  <2>8. Elements(Split(t \o w)) = es /\ t \o w \in Text
    <3>1. Len(es) = Len(Scan(t)) + 1 /\ w = es[Len(es)]
      BY <1>1, <2>1, <2>4, <2>5
    <3>2. \A i \in 1..Len(Scan(t)) : es[i] = Scan(t)[i].text
      BY <2>4, <2>5
    <3> QED BY <1>2, <2>1, <2>7, <3>1, <3>2, AddsName
  <2>9. AppendPath(r, f) = Split(t \o w)
    BY <1>5, <2>2, <2>6
  <2> QED BY <1>1, <1>3, <2>8, <2>9, SplitExact, EqualMeans
<1> QED BY <1>6, <1>7

-----------------------------------------------------------------------------
(* The generic format.                                                     *)

\* at computes what FlattenSeq makes of a list, in lists of D.
Flattens(at, seqs, n, D) ==
    /\ at[1] = seqs[1] /\ FlattenSeq(seqs) = at[n]
    /\ \A i \in 1..n : at[i] \in D /\ (i # 1 => at[i] = at[i - 1] \o seqs[i])

\* The recursion of FlattenSeq, as a function there is.
LEMMA FlattenTurns ==
    ASSUME NEW C, NEW seqs \in Seq(Seq(C)), NEW n \in Nat, n = Len(seqs), n # 0
    PROVE  \E at : Flattens(at, seqs, n, Seq(C))
<1> DEFINE Is(at) == at = [i \in 1..Len(seqs) |-> IF i = 1 THEN seqs[i] ELSE at[i - 1] \o seqs[i]]
           f == CHOOSE at : Is(at)
           next == [i \in 1..n |-> [t \in Seq(C) |-> IF i = 1 THEN seqs[i] ELSE t \o seqs[i]]]
<1>0. <<>> \in Seq(C) /\ \A i \in 1..n : seqs[i] \in Seq(C)
  OBVIOUS
<1>1. Keeps(next, n, Seq(C))
  <2>1. ASSUME NEW i \in 1..n, NEW t \in Seq(C)
        PROVE  (IF i = 1 THEN seqs[i] ELSE t \o seqs[i]) \in Seq(C)
    BY <1>0
  <2> QED BY <2>1 DEF Keeps
<1>2. PICK at : Computes(at, n, Seq(C), <<>>, next)
  <2> HIDE DEF next
  <2> QED BY <1>0, <1>1, RecursionIn
<1>3. at \in [0..n -> Seq(C)]
  BY <1>2 DEF Computes
<1>4. ASSUME NEW i \in 1..n PROVE at[i] = IF i = 1 THEN seqs[i] ELSE at[i - 1] \o seqs[i]
  <2>1. i - 1 \in 0..n
    OBVIOUS
  <2>2. at[i - 1] \in Seq(C)
    BY <1>3, <2>1
  <2> QED BY <1>2, <2>2 DEF Computes
<1>5. PICK g : g = [i \in 1..n |-> at[i]]
  OBVIOUS
<1>6. Is(g)
  <2>1. ASSUME NEW i \in 1..n PROVE g[i] = IF i = 1 THEN seqs[i] ELSE g[i - 1] \o seqs[i]
    <3>1. CASE i = 1
      BY <1>4, <1>5, <3>1
    <3>2. CASE i # 1
      <4>1. i - 1 \in 1..n
        BY <3>2
      <4> QED BY <1>4, <1>5, <3>2, <4>1
    <3> QED BY <3>1, <3>2
  <2> QED BY <1>5, <2>1
<1>7. Is(f)
  BY <1>6
<1>8. FlattenSeq(seqs) = f[Len(seqs)]
  BY DEF FlattenSeq
<1> HIDE DEF f
<1>9. \A i \in 1..n : f[i] = IF i = 1 THEN seqs[i] ELSE f[i - 1] \o seqs[i]
  BY <1>7
<1>10. 1 \in 1..n
  OBVIOUS
<1>11. \A i \in 1..n : f[i] \in Seq(C)
  <2> DEFINE T == {i \in Nat : i + 1 <= n => f[i + 1] \in Seq(C)}
  <2>1. 0 \in T
    BY <1>0, <1>9, <1>10
  <2>2. ASSUME NEW i \in Nat, i \in T PROVE i + 1 \in T
    <3> SUFFICES ASSUME i + 1 + 1 <= n PROVE f[i + 1 + 1] \in Seq(C)
      OBVIOUS
    <3>1. PICK k, m : k = i + 1 /\ m = k + 1
      OBVIOUS
    <3>2. m \in 1..n /\ m # 1 /\ m - 1 = k /\ f[k] \in Seq(C)
      BY <2>2, <3>1
    <3>3. f[m] = f[k] \o seqs[m] /\ seqs[m] \in Seq(C)
      BY <1>0, <1>9, <3>2
    <3>4. f[m] \in Seq(C)
      BY <3>2, <3>3
    <3> QED BY <3>1, <3>4
  <2> HIDE DEF T
  <2>3. Nat \subseteq T
    BY <2>1, <2>2, Induction
  <2>4. ASSUME NEW i \in 1..n PROVE f[i] \in Seq(C)
    <3>1. i - 1 \in Nat /\ i - 1 + 1 = i /\ i <= n
      OBVIOUS
    <3>2. i - 1 \in T
      BY <2>3, <3>1
    <3> QED BY <3>1, <3>2 DEF T
  <2> QED BY <2>4
<1> QED BY <1>8, <1>9, <1>10, <1>11 DEF Flattens

\* So it is for texts.
LEMMA FlattenIs ==
    ASSUME NEW seqs \in Seq(Text), NEW n \in Nat, n = Len(seqs), n # 0
    PROVE  \E at : /\ at[1] = seqs[1] /\ FlattenSeq(seqs) = at[n]
                   /\ \A i \in 1..n : i # 1 => at[i] = at[i - 1] \o seqs[i]
<1>1. PICK C : C = Alphabet /\ seqs \in Seq(Seq(C))
  BY DEF Text
<1>2. PICK at : Flattens(at, seqs, n, Seq(C))
  BY <1>1, FlattenTurns
<1> QED BY <1>2 DEF Flattens

\* What stands for an element in the generic format.
Part(es, i) ==
    IF i > 1 /\ es[i] # <<Sep>> /\ es[i - 1] # <<Sep>> THEN <<Sep>> \o es[i] ELSE es[i]

\* The text up to an element is at[i].
Follows(at, es) ==
    /\ at[1] = Part(es, 1)
    /\ \A i \in 1..Len(es) : i # 1 => at[i] = at[i - 1] \o Part(es, i)

\* t is a text with the first i elements.
Told(t, es, i) ==
    /\ t \in Text /\ t # <<>> /\ Len(Scan(t)) = i
    /\ \A j \in 1..i : Scan(t)[j].text = es[j]
    /\ Last(t) = Sep <=> es[i] = <<Sep>>
    /\ es[i] # <<Sep>> => LastName(t).type = "FILENAME"

\* The generic format is written element by element.
LEMMA GenericIs ==
    ASSUME NEW q, NEW es, es = Elements(q), Shows(q, es), Len(es) # 0
    PROVE  \E at : Follows(at, es) /\ GenericString(q) = at[Len(es)]
<1>1. PICK n : n = Len(es)
  OBVIOUS
<1>2. es \in Seq(Text) /\ n \in Nat /\ DOMAIN es = 1..n
  BY <1>1, LenProperties DEF Shows, Listing
<1>3. PICK seqs : seqs = [i \in 1..n |-> Part(es, i)]
  OBVIOUS
<1>4. seqs \in Seq(Text) /\ Len(seqs) = n
  <2>1. ASSUME NEW i \in 1..n PROVE Part(es, i) \in Text
    <3>1. es[i] \in Text /\ <<Sep>> \in Text
      BY <1>2, Characters, ElementOfSeq
    <3>2. <<Sep>> \o es[i] \in Text
      BY <3>1, ConcatProperties DEF Text
    <3> QED BY <3>1, <3>2 DEF Part
  <2> QED BY <1>2, <1>3, <2>1, IsASeq
<1>5. GenericString(q) = FlattenSeq(seqs)
  <2>1. PICK types : types = IF q.type = "MULTI" THEN [i \in DOMAIN q.cmpts |-> q.cmpts[i].type]
                                                 ELSE <<q.type>>
    OBVIOUS
  <2>2. ASSUME NEW i \in 1..n PROVE types[i] = IF es[i] = <<Sep>> THEN "ROOT_DIR" ELSE "FILENAME"
    <3>1. CASE q.type = "MULTI"
      <4>1. Len(q.cmpts) = n /\ q.cmpts[i].type = IF es[i] = <<Sep>> THEN "ROOT_DIR" ELSE "FILENAME"
        BY <1>1, <3>1 DEF Shows
      <4> QED BY <2>1, <3>1, <4>1
    <3>2. CASE q.type # "MULTI"
      <4>1. n = 1 /\ q.type = IF es[1] = <<Sep>> THEN "ROOT_DIR" ELSE "FILENAME"
        BY <1>1, <3>2 DEF Shows
      <4>2. types[1] = q.type /\ i = 1
        BY <2>1, <3>2, <4>1
      <4> QED BY <4>1, <4>2
    <3> QED BY <3>1, <3>2
  <2>3. ASSUME NEW i \in 1..n
        PROVE  (IF i > 1 /\ types[i] = "FILENAME" /\ types[i - 1] = "FILENAME"
                THEN <<Sep>> \o es[i] ELSE es[i]) = Part(es, i)
    <3>1. i > 1 => i - 1 \in 1..n
      BY <1>2
    <3>2. types[i] = "FILENAME" <=> es[i] # <<Sep>>
      BY <2>2
    <3>3. i > 1 => (types[i - 1] = "FILENAME" <=> es[i - 1] # <<Sep>>)
      BY <2>2, <3>1
    <3> QED BY <3>2, <3>3 DEF Part
  <2>4. GenericString(q) =
           FlattenSeq([i \in 1..n |-> IF i > 1 /\ types[i] = "FILENAME" /\ types[i - 1] = "FILENAME"
                                      THEN <<Sep>> \o es[i] ELSE es[i]])
    BY <1>2, <2>1 DEF GenericString
  <2>5. [i \in 1..n |-> IF i > 1 /\ types[i] = "FILENAME" /\ types[i - 1] = "FILENAME"
                        THEN <<Sep>> \o es[i] ELSE es[i]] = seqs
    BY <1>3, <2>3
  <2> QED BY <2>4, <2>5
<1>6. PICK at : /\ at[1] = seqs[1] /\ FlattenSeq(seqs) = at[n]
                /\ \A i \in 1..n : i # 1 => at[i] = at[i - 1] \o seqs[i]
  BY <1>1, <1>2, <1>4, FlattenIs
<1>7. 1 \in 1..n /\ \A i \in 1..n : seqs[i] = Part(es, i)
  BY <1>1, <1>2, <1>3
<1> QED BY <1>1, <1>5, <1>6, <1>7 DEF Follows

\* A name behind a separator is told.
LEMMA TellsName ==
    ASSUME NEW t \in Text, t = <<>> \/ Last(t) = Sep, NEW es \in Seq(Text), NEW i \in 1..Len(es),
           Len(Scan(t)) = i - 1, \A j \in 1..(i - 1) : Scan(t)[j].text = es[j], IsName(es[i])
    PROVE  Told(t \o es[i], es, i)
<1>1. PICK w, u, d, m : w = es[i] /\ u = t \o w /\ d = Component(w, "FILENAME", Len(t)) /\ m = i - 1
  OBVIOUS
<1>2. /\ i \in Nat /\ m \in Nat /\ m + 1 = i /\ IsName(w) /\ w \in Text /\ w # <<Sep>>
      /\ Scan(t) \in Seq(Comps) /\ Len(Scan(t)) = m /\ d \in Comps /\ d.text = w /\ d.type = "FILENAME"
  <2>1. i \in Nat /\ m \in Nat /\ m + 1 = i
    BY <1>1, LenProperties
  <2>2. IsName(w) /\ w \in Text /\ w # <<Sep>>
    BY <1>1, NameIsNoSep
  <2>3. d \in Comps /\ d.text = w /\ d.type = "FILENAME"
    <3>1. Len(t) \in Nat
      BY LenProperties DEF Text
    <3> QED BY <1>1, <2>2, <3>1 DEF Component, Comps
  <2>4. Scan(t) \in Seq(Comps) /\ Len(Scan(t)) = m
    BY <1>1, ScanType
  <2> QED BY <2>1, <2>2, <2>3, <2>4
<1>3. PICK ls : ls = [j \in 1..i |-> es[j]]
  OBVIOUS
<1>4. ls \in Seq(Text) /\ Len(ls) = i /\ ls[i] = w /\ \A j \in 1..m : Scan(t)[j].text = ls[j]
  <2>1. \A j \in 1..i : j \in 1..Len(es)
    BY LenProperties
  <2>2. \A j \in 1..i : es[j] \in Text
    BY <2>1, ElementOfSeq
  <2>3. ls \in Seq(Text) /\ Len(ls) = i
    BY <1>2, <1>3, <2>2, IsASeq
  <2>4. i \in 1..i /\ \A j \in 1..m : j \in 1..i
    BY <1>2
  <2> QED BY <1>1, <1>3, <2>3, <2>4
<1>5. /\ u \in Text /\ u # <<>> /\ Last(u) # Sep /\ Scan(u) = Append(Scan(t), d)
  <2>1. Len(ls) = Len(Scan(t)) + 1 /\ IsName(ls[Len(ls)])
    BY <1>2, <1>4
  <2>2. \A j \in 1..Len(Scan(t)) : ls[j] = Scan(t)[j].text
    BY <1>2, <1>4
  <2>3. ls[Len(ls)] = w
    BY <1>4
  <2> HIDE <1>3
  <2> QED BY <1>1, <1>4, <2>1, <2>2, <2>3, AddsName
<1>6. Len(Scan(u)) = i /\ Scan(u)[i] = d /\ \A j \in 1..m : Scan(u)[j] = Scan(t)[j]
  BY <1>2, <1>5, AppendProperties
<1>7. \A j \in 1..i : Scan(u)[j].text = es[j]
  <2>1. \A j \in 1..i : j \in 1..m \/ j = i
    BY <1>2
  <2> QED BY <1>1, <1>2, <1>6, <2>1
<1>8. LastName(u).type = "FILENAME"
  BY <1>2, <1>6 DEF LastName
<1> QED BY <1>1, <1>2, <1>5, <1>6, <1>7, <1>8 DEF Told

\* The first element is told, and the root directory is a text of its own.
LEMMA TellsFirst ==
    ASSUME NEW es, Listing(es), Len(es) # 0
    PROVE  Told(Part(es, 1), es, 1)
<1>1. es \in Seq(Text) /\ 1 \in 1..Len(es) /\ Part(es, 1) = es[1]
  <2>1. es \in Seq(Text) /\ Len(es) \in Nat
    BY LenProperties DEF Listing
  <2>2. ~(1 > 1)
    OBVIOUS
  <2> QED BY <2>1, <2>2 DEF Part
<1>2. CASE es[1] = <<Sep>>
  <2>1. PICK t : t = <<Sep>>
    OBVIOUS
  <2>2. t \in Text /\ t # <<>> /\ Last(t) = Sep /\ Scan(t) = <<RootDir>>
    <3>1. t \in Text
      BY <2>1, Characters
    <3>2. t # <<>>
      BY <2>1
    <3>3. Last(t) = Sep
      BY <2>1 DEF Last
    <3> QED BY <2>1, <3>1, <3>2, <3>3, LinkRoot
  <2>3. RootDir.text = <<Sep>>
    BY DEF RootDir, Component
  <2>4. Len(Scan(t)) = 1 /\ \A j \in 1..1 : Scan(t)[j].text = es[j]
    BY <1>2, <2>2, <2>3
  <2> QED BY <1>1, <1>2, <2>1, <2>2, <2>4 DEF Told
<1>3. CASE es[1] # <<Sep>>
  <2>1. IsName(es[1])
    <3>1. es[1] # <<>>
      BY <1>1 DEF Listing
    <3> QED BY <1>1, <1>3, <3>1 DEF Listing
  <2>2. PICK t : t = <<>>
    OBVIOUS
  <2>3. t \in Text /\ Len(Scan(t)) = 1 - 1 /\ t \o es[1] = es[1]
    <3>1. Scan(<<>>) = <<>> /\ Len(<<>>) = 0 /\ <<>> \in Text
      BY ScanType, Characters
    <3>2. es[1] \in Text
      BY <2>1, NameIsNoSep
    <3>3. <<>> \o es[1] = es[1]
      BY <3>2, ConcatEmptySeq DEF Text
    <3> QED BY <2>2, <3>1, <3>3
  <2>4. \A j \in 1..(1 - 1) : Scan(t)[j].text = es[j]
    OBVIOUS
  <2>5. Told(t \o es[1], es, 1)
    BY <1>1, <2>1, <2>2, <2>3, <2>4, TellsName
  <2> QED BY <1>1, <2>3, <2>5
<1> QED BY <1>2, <1>3

\* A separator before a name is part of neither.
LEMMA SepBetween ==
    ASSUME NEW t \in Text, NEW w \in Text
    PROVE  /\ Append(t, Sep) \in Text /\ Append(t, Sep) # <<>> /\ Last(Append(t, Sep)) = Sep
           /\ t \o (<<Sep>> \o w) = Append(t, Sep) \o w
<1>1. t \in Seq(Alphabet) /\ w \in Seq(Alphabet) /\ <<Sep>> \in Seq(Alphabet) /\ Sep \in Alphabet
  BY Characters DEF Text
<1>2. t \o (<<Sep>> \o w) = (t \o <<Sep>>) \o w
  BY <1>1, ConcatAssociative
<1>3. t \o <<Sep>> = Append(t, Sep)
  BY <1>1
<1>4. PICK u : u = Append(t, Sep)
  OBVIOUS
<1>5. u \in Seq(Alphabet) /\ Len(u) = Len(t) + 1 /\ u[Len(t) + 1] = Sep /\ Len(t) \in Nat
  BY <1>1, <1>4, AppendProperties, LenProperties
<1>6. u # <<>>
  BY <1>5
<1> QED BY <1>2, <1>3, <1>4, <1>5, <1>6 DEF Last, Text

\* A name after what is told is told.
LEMMA TellsNext ==
    ASSUME NEW es, Listing(es), NEW i \in 1..Len(es), i # 1, es[i] # <<>>,
           NEW t, Told(t, es, i - 1)
    PROVE  Told(t \o Part(es, i), es, i)
<1>1. /\ es \in Seq(Text) /\ i \in Nat /\ i > 1 /\ i - 1 \in 1..(i - 1) /\ t \in Text /\ t # <<>>
      /\ IsName(es[i]) /\ es[i] # <<Sep>> /\ es[i] \in Text
  <2>1. es \in Seq(Text) /\ i \in Nat /\ i > 1 /\ i - 1 \in 1..(i - 1)
    BY LenProperties DEF Listing
  <2>2. IsName(es[i]) /\ es[i] # <<Sep>>
    BY DEF Listing
  <2> QED BY <2>1, <2>2, NameIsNoSep DEF Told
<1>2. CASE es[i - 1] = <<Sep>>
  <2>1. Last(t) = Sep /\ Part(es, i) = es[i]
    BY <1>2 DEF Told, Part
  <2>2. Len(Scan(t)) = i - 1 /\ \A j \in 1..(i - 1) : Scan(t)[j].text = es[j]
    BY DEF Told
  <2> QED BY <1>1, <2>1, <2>2, TellsName
<1>3. CASE es[i - 1] # <<Sep>>
  <2>1. PICK u : u = Append(t, Sep)
    OBVIOUS
  <2>2. u \in Text /\ Last(u) = Sep /\ t \o Part(es, i) = u \o es[i] /\ Scan(u) = Scan(t)
    <3>1. Part(es, i) = <<Sep>> \o es[i]
      BY <1>1, <1>3 DEF Part
    <3> QED BY <1>1, <2>1, <3>1, SepBetween, ScanSep
  <2>3. Len(Scan(u)) = i - 1 /\ \A j \in 1..(i - 1) : Scan(u)[j].text = es[j]
    BY <2>2 DEF Told
  <2> QED BY <1>1, <2>2, <2>3, TellsName
<1> QED BY <1>2, <1>3

\* So all the elements are, but for an empty name at the end.
LEMMA TellsAll ==
    ASSUME NEW es, Listing(es), Len(es) # 0, NEW at, Follows(at, es)
    PROVE  \A i \in 1..Len(es) : es[i] # <<>> => Told(at[i], es, i)
<1> DEFINE S == {i \in Nat : i + 1 <= Len(es) /\ es[i + 1] # <<>> => Told(at[i + 1], es, i + 1)}
<1>1. Len(es) \in Nat
  BY LenProperties DEF Listing
<1>2. 0 \in S
  BY TellsFirst DEF Follows
<1>3. ASSUME NEW i \in Nat, i \in S PROVE i + 1 \in S
  <2> SUFFICES ASSUME i + 2 <= Len(es), es[i + 2] # <<>> PROVE Told(at[i + 2], es, i + 2)
    BY <1>3
  <2>1. i + 2 \in 1..Len(es) /\ i + 2 # 1 /\ i + 2 - 1 = i + 1 /\ i + 1 \in 1..Len(es) /\ i + 1 # Len(es)
    BY <1>1
  <2>2. es[i + 1] # <<>>
    BY <2>1 DEF Listing
  <2>3. Told(at[i + 1], es, i + 1)
    BY <1>3, <2>1, <2>2
  <2>4. at[i + 2] = at[i + 1] \o Part(es, i + 2)
    <3>1. PICK k : k = i + 2
      OBVIOUS
    <3>2. k \in 1..Len(es) /\ k # 1 /\ k - 1 = i + 1
      BY <2>1, <3>1
    <3>3. at[k] = at[k - 1] \o Part(es, k)
      BY <3>2 DEF Follows
    <3> QED BY <3>1, <3>2, <3>3
  <2>5. Told(at[i + 1] \o Part(es, i + 2), es, i + 2)
    BY <2>1, <2>3, TellsNext
  <2> QED BY <2>4, <2>5
<1> HIDE DEF S
<1>4. Nat \subseteq S
  BY <1>2, <1>3, Induction
<1>5. ASSUME NEW i \in 1..Len(es), es[i] # <<>> PROVE Told(at[i], es, i)
  <2>1. i - 1 \in Nat /\ i - 1 + 1 = i /\ i <= Len(es)
    BY <1>1
  <2>2. i - 1 \in S
    BY <1>4, <2>1
  <2> QED BY <1>5, <2>1, <2>2 DEF S
<1> QED BY <1>5

\* The generic format of an object names the elements of the object.
LEMMA GenericSame ==
    ASSUME NEW q, NEW es, es = Elements(q), Shows(q, es)
    PROVE  Elements(Split(GenericString(q))) = es
<1>1. Listing(es) /\ es \in Seq(Text) /\ Len(es) \in Nat /\ <<Sep>> # <<>>
  <2>1. <<Sep>> # <<>>
    OBVIOUS
  <2> QED BY <2>1, LenProperties DEF Shows, Listing
<1>2. PICK n : n = Len(es) /\ n \in Nat
  BY <1>1
<1>3. CASE n = 0
  <2>1. es = <<>>
    BY <1>1, <1>2, <1>3, EmptySeq
  <2>2. PICK seqs : seqs = <<>>
    OBVIOUS
  <2>3. GenericString(q) = <<>>
    <3>1. DOMAIN Elements(q) = {}
      BY <2>1
    <3>2. GenericString(q) = FlattenSeq(seqs)
      BY <2>1, <2>2, <3>1 DEF GenericString
    <3>3. FlattenSeq(seqs) = seqs
      BY <2>2 DEF FlattenSeq
    <3> QED BY <2>2, <3>2, <3>3
  <2>4. Elements(Split(<<>>)) = <<>>
    BY EmptyIs DEF Elements, Empty
  <2> QED BY <2>1, <2>3, <2>4
<1>4. CASE n # 0
  <2>1. PICK at : Follows(at, es) /\ GenericString(q) = at[n]
    BY <1>2, <1>4, GenericIs
  <2>2. \A i \in 1..n : es[i] # <<>> => Told(at[i], es, i)
    BY <1>1, <1>2, <1>4, <2>1, TellsAll
  <2>3. n \in 1..n
    BY <1>2, <1>4
  <2>4. PICK t : t = at[n]
    OBVIOUS
  <2>5. CASE es[n] = <<Sep>>
    <3>1. n = 1 /\ at[1] = <<Sep>>
      <4>1. n = 1
        BY <1>1, <1>2, <2>3, <2>5 DEF Listing
      <4>2. Part(es, 1) = es[1]
        BY DEF Part
      <4> QED BY <2>1, <2>5, <4>1, <4>2 DEF Follows
    <3>2. Elements(Split(<<Sep>>)) = <<<<Sep>>>>
      BY <1>1, SplitSingle DEF Elements
    <3>3. es = <<<<Sep>>>>
      <4>1. Len(es) = 1 /\ es[1] = <<Sep>>
        BY <1>2, <2>5, <3>1
      <4> QED BY <1>1, <4>1
    <3> QED BY <2>1, <3>1, <3>2, <3>3
  <2>6. CASE es[n] # <<Sep>> /\ es[n] # <<>>
    <3>1. Told(t, es, n)
      BY <2>2, <2>3, <2>4, <2>6
    <3>2. t \in Text /\ t # <<>> /\ Len(Scan(t)) = n /\ ~EndsInSep(t)
      BY <2>6, <3>1 DEF Told, EndsInSep
    <3>3. Len(es) = Len(Scan(t)) + (IF EndsInSep(t) THEN 1 ELSE 0)
      BY <1>2, <3>2
    <3>4. \A i \in 1..Len(Scan(t)) : es[i] = Scan(t)[i].text
      BY <3>1, <3>2 DEF Told
    <3>5. Elements(Split(t)) = es
      BY <1>1, <3>2, <3>3, <3>4, ElementsAre
    <3> QED BY <2>1, <2>4, <3>5
  <2>7. CASE es[n] = <<>>
    <3>1. PICK m, u : m = n - 1 /\ u = at[m]
      OBVIOUS
    <3>2. n > 1 /\ m \in 1..n /\ m + 1 = n /\ IsName(es[m])
      <4>1. n > 1 /\ IsName(es[n - 1])
        BY <1>1, <1>2, <2>3, <2>7 DEF Listing
      <4> QED BY <1>2, <3>1, <4>1
    <3>3. es[m] # <<>> /\ es[m] # <<Sep>> /\ Told(u, es, m)
      <4>1. es[m] # <<>> /\ es[m] # <<Sep>>
        BY <3>2, NameIsNoSep
      <4> QED BY <2>2, <3>1, <3>2, <4>1
    <3>4. t = Append(u, Sep)
      <4>1. Part(es, n) = <<Sep>> \o <<>>
        <5>1. es[n - 1] # <<Sep>> /\ es[n] # <<Sep>>
          BY <1>1, <2>7, <3>1, <3>3
        <5> QED BY <2>7, <3>2, <5>1 DEF Part
      <4>2. t = u \o Part(es, n)
        <5>1. n \in 1..Len(es) /\ n # 1 /\ n - 1 = m
          BY <1>2, <3>1, <3>2
        <5>2. at[n] = at[n - 1] \o Part(es, n)
          BY <2>1, <5>1 DEF Follows
        <5> QED BY <2>4, <3>1, <5>2
      <4>3. u \in Text /\ <<>> \in Text
        BY <3>3, Characters DEF Told
      <4>4. u \o (<<Sep>> \o <<>>) = Append(u, Sep) \o <<>> /\ Append(u, Sep) \in Text
        BY <4>3, SepBetween
      <4>5. Append(u, Sep) \o <<>> = Append(u, Sep)
        BY <4>4, ConcatEmptySeq DEF Text
      <4> QED BY <4>1, <4>2, <4>4, <4>5
    <3>5. /\ t \in Text /\ t # <<>> /\ Last(t) = Sep /\ Scan(t) = Scan(u) /\ Len(Scan(t)) = m
      <4>1. u \in Text /\ u # <<>> /\ Len(Scan(u)) = m
        BY <3>3 DEF Told
      <4> QED BY <3>4, <4>1, SepBetween, ScanSep, Characters
    <3>6. EndsInSep(t)
      <4>1. LastName(u).type = "FILENAME"
        BY <3>3 DEF Told
      <4>2. LastName(t) = LastName(u)
        BY <3>5 DEF LastName
      <4> QED BY <3>5, <4>1, <4>2 DEF EndsInSep
    <3>7. Len(es) = Len(Scan(t)) + (IF EndsInSep(t) THEN 1 ELSE 0) /\ es[Len(Scan(t)) + 1] = <<>>
      BY <1>2, <2>7, <3>2, <3>5, <3>6
    <3>8. \A i \in 1..Len(Scan(t)) : es[i] = Scan(t)[i].text
      <4>1. \A i \in 1..m : Scan(u)[i].text = es[i]
        BY <3>3 DEF Told
      <4> QED BY <3>5, <4>1
    <3>9. Elements(Split(t)) = es
      BY <1>1, <3>5, <3>7, <3>8, ElementsAre
    <3> QED BY <2>1, <2>4, <3>9
  <2> QED BY <2>5, <2>6, <2>7
<1> QED BY <1>3, <1>4

\* What remove_filename takes from an object in order operator/= puts back,
\* its extension can be replaced by itself, stem and extension make its name,
\* and its generic format names its elements, after any calls: an object whose
\* remove_filename is defined is split to the same text again, because what
\* the members leave as a list with nothing but the root directory has the
\* root directory as its text (Tidy).
THEOREM EditsDoUndo ==
    Spec => []EditsUndo
<1>1. Init => InShape
  <2>1. ASSUME NEW n \in Nat, NEW t \in Texts(n) PROVE t \in Text
    BY DEF Texts, Text
  <2>2. \A t \in Texts(MaxLen) : Exact(Split(t)) /\ Tidy(Split(t))
    BY <2>1, BoundsAssumption, SplitExact, TidySplit
  <2>3. Exact(Empty) /\ Tidy(Empty)
    BY EmptyNeat, TidySplit DEF Neat
  <2>4. Init => Exact(p) /\ Tidy(p)
    BY <2>2, <2>3 DEF Init
  <2> QED BY <2>4, ExactFormed DEF InShape
<1>2. InShape /\ [Next]_vars => InShape'
  BY CallLeavesTidy
<1>3. InShape => EditsUndo
  <2> SUFFICES ASSUME InShape, Sound(p)
               PROVE  /\ Equal(AppendPath(RemoveFilename(p), Filename(p)), p)
                      /\ ReplaceExtension(p, Extension(p)).str = p.str
                      /\ Stem(p).str \o Extension(p).str = Filename(p).str
                      /\ Elements(Split(GenericString(p))) = Elements(p)
    BY DEF EditsUndo
  <2>1. Exact(p) /\ ~RemoveIsUndefined(p) /\ Tidy(p)
    BY FormedExact DEF InShape, Sound
  <2>2. Equal(AppendPath(RemoveFilename(p), Filename(p)), p)
    BY <2>1, FilenameGoesBack
  <2>3. ReplaceExtension(p, Extension(p)).str = p.str
    BY <2>1, TextStays, ExtensionStays
  <2>4. Stem(p).str \o Extension(p).str = Filename(p).str
    BY <2>1, StemAndExtension
  <2>5. Elements(Split(GenericString(p))) = Elements(p)
    BY <2>1, ExactShows, GenericSame
  <2> QED BY <2>2, <2>3, <2>4, <2>5
<1> QED BY <1>1, <1>2, <1>3, PTL DEF Spec

-----------------------------------------------------------------------------
(* What is left of a list of elements.                                     *)

\* No empty name is at the end.
Solid(es) == Listing(es) /\ (es = <<>> \/ es[Len(es)] # <<>>)

\* es without an empty name at the end, and with one behind a name.
Bare(es) == IF es # <<>> /\ es[Len(es)] = <<>> THEN Front(es) ELSE es
Shut(es) == IF es # <<>> /\ IsName(es[Len(es)]) THEN Append(es, <<>>) ELSE es

\* What lexically_normal makes of the elements it has when the next is w; a
\* separator of the rewritten list closes what is before it.
Passed(es, w) ==
    LET bare == Bare(es)
    IN  IF w = DotDot
        THEN IF bare = <<>> \/ bare[Len(bare)] = DotDot THEN Append(bare, DotDot)
             ELSE IF bare[Len(bare)] = <<Sep>> THEN bare
             ELSE Shut(Front(bare))
        ELSE IF w \in {<<>>, <<Sep>>, DotName} THEN Shut(bare)
        ELSE Append(bare, w)

\* Names and separators are different, and the dots are names.
LEMMA ItemsAre ==
    /\ IsName(DotName) /\ IsName(DotDot) /\ ~IsName(<<>>) /\ ~IsName(<<Sep>>)
    /\ <<Sep>> # <<>> /\ DotDot # DotName /\ DotDot # <<Sep>> /\ DotName # <<Sep>>
    /\ DotDot # <<>> /\ DotName # <<>> /\ <<Sep>> \in Text /\ <<>> \in Text
    /\ \A w : Plain(w) => w \in Text
<1>1. DotName \in Text /\ DotDot \in Text /\ <<>> \in Text /\ <<Sep>> \in Text /\ Dot # Sep
  BY Characters
<1>2. Len(DotName) = 1 /\ DotName[1] = Dot
  BY DEF DotName
<1>3. Len(DotDot) = 2 /\ DotDot[1] = Dot /\ DotDot[2] = Dot
  BY DEF DotDot
<1>4. \A k \in 1..2 : k = 1 \/ k = 2
  OBVIOUS
<1>5. \A k \in 1..1 : k = 1
  OBVIOUS
<1>6. IsName(DotName)
  BY <1>1, <1>2, <1>5 DEF IsName
<1>7. IsName(DotDot)
  BY <1>1, <1>3, <1>4 DEF IsName
<1>8. ~IsName(<<>>)
  BY DEF IsName
<1>9. ~IsName(<<Sep>>)
  BY NameIsNoSep
<1>10. \A w : Plain(w) => w \in Text
  BY <1>1 DEF Plain, IsName
<1>11. DotDot # DotName
  BY <1>2, <1>3
<1>12. <<Sep>> # <<>>
  OBVIOUS
<1> QED BY <1>1, <1>6, <1>7, <1>8, <1>9, <1>10, <1>11, <1>12

\* A list of elements with one name more.
LEMMA WithName ==
    ASSUME NEW b, Solid(b), NEW w, IsName(w)
    PROVE  LET u == Append(b, w)
           IN  /\ Solid(u) /\ u # <<>> /\ u[Len(u)] = w /\ Front(u) = b /\ Bare(u) = u
               /\ u \in Seq(Text) /\ b \in Seq(Text) /\ Len(u) = Len(b) + 1 /\ Len(b) \in Nat
               /\ \A i \in 1..Len(b) : u[i] = b[i]
<1>1. PICK u, n : u = Append(b, w) /\ n = Len(b)
  OBVIOUS
<1>2. b \in Seq(Text) /\ w \in Text /\ n \in Nat /\ w # <<>> /\ w # <<Sep>>
  BY <1>1, ItemsAre, NameIsNoSep, LenProperties DEF Solid, Listing
<1>3. u \in Seq(Text) /\ Len(u) = n + 1 /\ u[n + 1] = w /\ \A i \in 1..n : u[i] = b[i]
  BY <1>1, <1>2, AppendProperties
<1>4. Listing(u)
  <2>1. ASSUME NEW i \in 1..(n + 1)
        PROVE  /\ u[i] = <<Sep>> \/ u[i] = <<>> \/ IsName(u[i])
               /\ u[i] = <<Sep>> => i = 1
               /\ u[i] = <<>> => i = n + 1 /\ i > 1 /\ IsName(u[i - 1])
    <3>1. CASE i = n + 1
      BY <1>2, <1>3, <3>1
    <3>2. CASE i # n + 1
      <4>1. i \in 1..n /\ u[i] = b[i]
        BY <1>2, <1>3, <3>2
      <4>2. b[i] # <<>>
        <5>1. b # <<>> => b[n] # <<>>
          BY <1>1 DEF Solid
        <5>2. b # <<>>
          BY <1>1, <4>1
        <5>3. b[i] = <<>> => i = n
          BY <1>1, <4>1 DEF Solid, Listing
        <5> QED BY <5>1, <5>2, <5>3
      <4>3. (b[i] = <<Sep>> \/ b[i] = <<>> \/ IsName(b[i])) /\ (b[i] = <<Sep>> => i = 1)
        BY <1>1, <4>1 DEF Solid, Listing
      <4> QED BY <4>1, <4>2, <4>3
    <3> QED BY <3>1, <3>2
  <2> QED BY <1>3, <2>1 DEF Listing
<1>5. u # <<>>
  BY <1>2, <1>3
<1>6. Front(u) = b
  <2>1. Front(u) = SubSeq(u, 1, n)
    BY <1>2, <1>3 DEF Front
  <2>2. SubSeq(u, 1, n) \in Seq(Text) /\ Len(SubSeq(u, 1, n)) = n /\ \A i \in 1..n : SubSeq(u, 1, n)[i] = u[i]
    <3>1. n \in 0..Len(u)
      BY <1>2, <1>3
    <3> QED BY <1>2, <1>3, <3>1, SubSeqProperties
  <2> QED BY <1>1, <1>2, <1>3, <2>1, <2>2, SeqEqual
<1> QED BY <1>1, <1>2, <1>3, <1>4, <1>5, <1>6 DEF Solid, Bare

\* A list of elements is one without an empty name at the end, as it is or shut.
LEMMA ShutName ==
    ASSUME NEW b, Solid(b), NEW w, IsName(w)
    PROVE  LET u == Append(b, w)
               v == Append(u, <<>>)
           IN  /\ Shut(u) = v /\ Listing(v) /\ Bare(v) = u /\ v # <<>> /\ v[Len(v)] = <<>>
               /\ v \in Seq(Text) /\ Len(v) = Len(u) + 1 /\ \A i \in 1..Len(u) : v[i] = u[i]
<1>1. PICK u, v, n : u = Append(b, w) /\ v = Append(u, <<>>) /\ n = Len(u)
  OBVIOUS
<1>2. /\ Solid(u) /\ u \in Seq(Text) /\ u # <<>> /\ u[n] = w /\ n \in Nat /\ n > 0 /\ <<>> \in Text
      /\ \A i \in 1..n : u[i] # <<>>
  <2>1. Solid(u) /\ u \in Seq(Text) /\ u # <<>> /\ u[n] = w /\ n \in Nat /\ n > 0 /\ <<>> \in Text
    <3>1. Solid(u) /\ u \in Seq(Text) /\ u # <<>> /\ u[n] = w
      BY <1>1, WithName
    <3>2. n = Len(b) + 1 /\ Len(b) \in Nat
      BY <1>1, WithName
    <3> QED BY <3>1, <3>2, ItemsAre
  <2>2. \A i \in 1..n : u[i] # <<>>
    BY <1>1, <2>1, NameIsNoSep DEF Solid, Listing
  <2> QED BY <2>1, <2>2
<1>3. v \in Seq(Text) /\ Len(v) = n + 1 /\ v[n + 1] = <<>> /\ \A i \in 1..n : v[i] = u[i]
  BY <1>1, <1>2, AppendProperties
<1>4. Listing(v)
  <2>1. ASSUME NEW i \in 1..(n + 1)
        PROVE  /\ v[i] = <<Sep>> \/ v[i] = <<>> \/ IsName(v[i])
               /\ v[i] = <<Sep>> => i = 1
               /\ v[i] = <<>> => i = n + 1 /\ i > 1 /\ IsName(v[i - 1])
    <3>1. CASE i = n + 1
      <4>1. v[i] = <<>> /\ i - 1 = n /\ v[n] = w /\ i > 1
        BY <1>2, <1>3, <3>1
      <4> QED BY <3>1, <4>1, ItemsAre
    <3>2. CASE i # n + 1
      <4>1. i \in 1..n /\ v[i] = u[i]
        BY <1>2, <1>3, <3>2
      <4> QED BY <1>1, <1>2, <4>1 DEF Solid, Listing
    <3> QED BY <3>1, <3>2
  <2> QED BY <1>3, <2>1 DEF Listing
<1>5. v # <<>>
  BY <1>2, <1>3
<1>6. Front(v) = u
  <2>1. Front(v) = SubSeq(v, 1, n)
    BY <1>2, <1>3 DEF Front
  <2>2. SubSeq(v, 1, n) \in Seq(Text) /\ Len(SubSeq(v, 1, n)) = n /\ \A i \in 1..n : SubSeq(v, 1, n)[i] = v[i]
    <3>1. n \in 0..Len(v)
      BY <1>2, <1>3
    <3> QED BY <1>2, <1>3, <3>1, SubSeqProperties
  <2> QED BY <1>1, <1>2, <1>3, <2>1, <2>2, SeqEqual
<1>7. Shut(u) = v
  BY <1>1, <1>2 DEF Shut
<1> QED BY <1>1, <1>3, <1>4, <1>5, <1>6, <1>7 DEF Bare

\* A list without an empty name at the end is empty, the root directory, or
\* has a name at the end.
LEMMA SolidIs ==
    ASSUME NEW b, Solid(b)
    PROVE  \/ b = <<>>
           \/ b = <<<<Sep>>>>
           \/ \E a, w : Solid(a) /\ IsName(w) /\ b = Append(a, w) /\ a = Front(b) /\ w = b[Len(b)]
<1>1. PICK n : n = Len(b)
  OBVIOUS
<1>2. b \in Seq(Text) /\ n \in Nat
  BY <1>1, LenProperties DEF Solid, Listing
<1> SUFFICES ASSUME b # <<>>, b # <<<<Sep>>>>
             PROVE  \E a, w : /\ Solid(a) /\ IsName(w) /\ b = Append(a, w)
                              /\ a = Front(b) /\ w = b[Len(b)]
  OBVIOUS
<1>3. n > 0 /\ n \in 1..n
  <2>1. n # 0
    BY <1>1, <1>2, EmptySeq
  <2> QED BY <1>2, <2>1
<1>4. IsName(b[n])
  <2>1. b[n] # <<>>
    BY <1>1 DEF Solid
  <2>2. b[n] # <<Sep>>
    <3> SUFFICES ASSUME b[n] = <<Sep>> PROVE FALSE
      OBVIOUS
    <3>1. n = 1
      BY <1>1, <1>3 DEF Solid, Listing
    <3>2. b = <<<<Sep>>>>
      <4>1. PICK c : c = <<<<Sep>>>>
        OBVIOUS
      <4>2. c \in Seq(Text) /\ Len(c) = 1 /\ c[1] = <<Sep>>
        BY <4>1, ItemsAre
      <4>3. \A i \in 1..1 : i = 1
        OBVIOUS
      <4> QED BY <1>1, <1>2, <3>1, <4>1, <4>2, <4>3, SeqEqual
    <3> QED BY <3>2
  <2> QED BY <1>1, <1>3, <2>1, <2>2 DEF Solid, Listing
<1>5. PICK a, m : a = Front(b) /\ m = n - 1
  OBVIOUS
<1>6. a \in Seq(Text) /\ Len(a) = m /\ m \in Nat /\ \A i \in 1..m : a[i] = b[i]
  <2>1. a = SubSeq(b, 1, m) /\ m \in Nat /\ m \in 0..n
    BY <1>1, <1>2, <1>3, <1>5 DEF Front
  <2> QED BY <1>1, <1>2, <2>1, SubSeqProperties
<1>7. b = Append(a, b[n])
  <2>1. PICK c : c = Append(a, b[n])
    OBVIOUS
  <2>2. b[n] \in Text
    BY <1>4, NameIsNoSep
  <2>3. c \in Seq(Text) /\ Len(c) = m + 1 /\ c[m + 1] = b[n] /\ \A i \in 1..m : c[i] = a[i]
    BY <1>6, <2>1, <2>2, AppendProperties
  <2>4. m + 1 = n
    BY <1>2, <1>5
  <2>5. ASSUME NEW i \in 1..n PROVE c[i] = b[i]
    <3>1. i \in 1..m \/ i = n
      BY <1>6, <2>4
    <3> QED BY <1>6, <2>3, <2>4, <3>1
  <2> QED BY <1>1, <1>2, <2>1, <2>3, <2>4, <2>5, SeqEqual
<1>8. Solid(a)
  <2>1. ASSUME NEW i \in 1..m
        PROVE  a[i] # <<>> /\ (a[i] = <<Sep>> \/ IsName(a[i])) /\ (a[i] = <<Sep>> => i = 1)
    <3>1. i \in 1..n /\ i # n
      BY <1>2, <1>5, <1>6
    <3> QED BY <1>1, <1>6, <3>1 DEF Solid, Listing
  <2>2. m # 0 => a[m] # <<>>
    <3>1. m # 0 => m \in 1..m
      BY <1>6
    <3> QED BY <2>1, <3>1
  <2>3. a # <<>> => m # 0
    BY <1>6, EmptySeq
  <2> QED BY <1>6, <2>1, <2>2, <2>3 DEF Solid, Listing
<1> QED BY <1>1, <1>4, <1>5, <1>7, <1>8

\* The empty list and the root directory.
LEMMA SmallLists ==
    /\ Solid(<<>>) /\ Solid(<<<<Sep>>>>) /\ <<<<Sep>>>> # <<>>
    /\ Len(<<<<Sep>>>>) = 1 /\ <<<<Sep>>>>[1] = <<Sep>>
    /\ Bare(<<>>) = <<>> /\ Bare(<<<<Sep>>>>) = <<<<Sep>>>>
    /\ Shut(<<>>) = <<>> /\ Shut(<<<<Sep>>>>) = <<<<Sep>>>>
<1>1. PICK c : c = <<<<Sep>>>>
  OBVIOUS
<1>2. c \in Seq(Text) /\ Len(c) = 1 /\ c[1] = <<Sep>> /\ c # <<>>
  <2>1. c \in Seq(Text) /\ Len(c) = 1 /\ c[1] = <<Sep>>
    BY <1>1, ItemsAre
  <2> QED BY <1>1, <2>1
<1>3. <<>> \in Seq(Text) /\ Len(<<>>) = 0
  OBVIOUS
<1>4. \A i \in 1..1 : i = 1
  OBVIOUS
<1>5. Listing(c)
  BY <1>2, <1>4, ItemsAre DEF Listing
<1>6. Listing(<<>>)
  BY <1>3 DEF Listing
<1> QED BY <1>1, <1>2, <1>5, <1>6, ItemsAre DEF Solid, Bare, Shut

\* Shutting a list and taking the empty name off again.
LEMMA ShutIs ==
    ASSUME NEW b, Solid(b)
    PROVE  /\ Listing(b) /\ Listing(Shut(b)) /\ Bare(Shut(b)) = b /\ Bare(b) = b
           /\ Shut(b) # b => Shut(b) = Append(b, <<>>) /\ b # <<>> /\ IsName(b[Len(b)])
<1>1. CASE b = <<>> \/ b = <<<<Sep>>>>
  BY <1>1, SmallLists DEF Solid
<1>2. CASE ~(b = <<>> \/ b = <<<<Sep>>>>)
  <2>1. PICK a, w : Solid(a) /\ IsName(w) /\ b = Append(a, w) /\ w = b[Len(b)]
    BY <1>2, SolidIs
  <2>2. b # <<>> /\ Bare(b) = b
    BY <2>1, WithName
  <2>3. Shut(b) = Append(b, <<>>) /\ Listing(Shut(b)) /\ Bare(Shut(b)) = b
    <3>1. PICK v : v = Append(b, <<>>)
      OBVIOUS
    <3>2. Shut(b) = v /\ Listing(v) /\ Bare(v) = b
      BY <2>1, <3>1, ShutName
    <3> QED BY <3>1, <3>2
  <2> QED BY <2>1, <2>2, <2>3 DEF Solid
<1> QED BY <1>1, <1>2

\* Every list is one or the other.
LEMMA ListingIs ==
    ASSUME NEW es, Listing(es)
    PROVE  /\ Solid(Bare(es)) /\ (es = Bare(es) \/ es = Shut(Bare(es)))
           /\ es # Bare(es) => /\ es = Append(Bare(es), <<>>) /\ Bare(es) # <<>>
                               /\ IsName(Bare(es)[Len(Bare(es))])
<1>1. CASE Solid(es)
  <2>1. Bare(es) = es
    BY <1>1, ShutIs
  <2> QED BY <1>1, <2>1
<1>2. CASE ~Solid(es)
  <2>1. PICK n, m, b : n = Len(es) /\ m = n - 1 /\ b = Front(es)
    OBVIOUS
  <2>2. /\ es \in Seq(Text) /\ n \in Nat /\ n > 0 /\ es # <<>> /\ es[n] = <<>>
        /\ m \in Nat /\ m > 0 /\ IsName(es[m])
    <3>1. es \in Seq(Text) /\ n \in Nat /\ es # <<>> /\ es[n] = <<>>
      BY <1>2, <2>1, LenProperties DEF Solid, Listing
    <3>2. n # 0
      BY <2>1, <3>1, EmptySeq
    <3>3. n \in 1..n
      BY <3>1, <3>2
    <3>4. n > 1 /\ IsName(es[n - 1])
      BY <2>1, <3>1, <3>3 DEF Listing
    <3> QED BY <2>1, <3>1, <3>2, <3>4
  <2>3. b \in Seq(Text) /\ Len(b) = m /\ \A i \in 1..m : b[i] = es[i]
    <3>1. b = SubSeq(es, 1, m) /\ m \in 0..n
      BY <2>1, <2>2 DEF Front
    <3> QED BY <2>1, <2>2, <3>1, SubSeqProperties
  <2>4. b[m] = es[m] /\ b # <<>>
    <3>1. m \in 1..m
      BY <2>2
    <3> QED BY <2>2, <2>3, <3>1
  <2>5. Solid(b)
    <3>1. ASSUME NEW i \in 1..m
          PROVE  b[i] # <<>> /\ (b[i] = <<Sep>> \/ IsName(b[i])) /\ (b[i] = <<Sep>> => i = 1)
      <4>1. i \in 1..n /\ i # n
        BY <2>1, <2>2
      <4> QED BY <2>1, <2>3, <4>1 DEF Listing
    <3>2. b[m] # <<>>
      BY <2>2, <2>4, ItemsAre
    <3> QED BY <2>3, <3>1, <3>2 DEF Solid, Listing
  <2>6. es = Append(b, <<>>)
    <3>1. PICK c : c = Append(b, <<>>)
      OBVIOUS
    <3>2. c \in Seq(Text) /\ Len(c) = m + 1 /\ c[m + 1] = <<>> /\ \A i \in 1..m : c[i] = b[i]
      BY <2>3, <3>1, AppendProperties, ItemsAre
    <3>3. m + 1 = n
      BY <2>1, <2>2
    <3>4. ASSUME NEW i \in 1..n PROVE c[i] = es[i]
      <4>1. i \in 1..m \/ i = n
        BY <2>2, <3>3
      <4> QED BY <2>2, <2>3, <3>2, <3>3, <4>1
    <3> QED BY <2>1, <2>2, <3>1, <3>2, <3>3, <3>4, SeqEqual
  <2>7. Bare(es) = b
    BY <2>1, <2>2 DEF Bare
  <2>8. Shut(b) = Append(b, <<>>) /\ IsName(b[Len(b)])
    BY <2>2, <2>3, <2>4 DEF Shut
  <2> QED BY <2>4, <2>5, <2>6, <2>7, <2>8
<1> QED BY <1>1, <1>2

\* What a list becomes, case by case.
LEMMA PassedIs ==
    ASSUME NEW es, NEW b, Solid(b), Bare(es) = b
    PROVE  /\ \A w : w \in {<<>>, <<Sep>>, DotName} => Passed(es, w) = Shut(b)
           /\ \A w : IsName(w) /\ w \notin {DotDot, DotName} => Passed(es, w) = Append(b, w)
           /\ b = <<>> \/ b[Len(b)] = DotDot => Passed(es, DotDot) = Append(b, DotDot)
           /\ b = <<<<Sep>>>> => Passed(es, DotDot) = b
           /\ \A a, w : Solid(a) /\ IsName(w) /\ w # DotDot /\ b = Append(a, w) =>
                 Passed(es, DotDot) = Shut(a)
<1>1. \A w : w \in {<<>>, <<Sep>>, DotName} => Passed(es, w) = Shut(b)
  BY ItemsAre DEF Passed
<1>2. \A w : IsName(w) /\ w \notin {DotDot, DotName} => Passed(es, w) = Append(b, w)
  BY ItemsAre DEF Passed
<1>3. b = <<>> \/ b[Len(b)] = DotDot => Passed(es, DotDot) = Append(b, DotDot)
  BY DEF Passed
<1>4. b = <<<<Sep>>>> => Passed(es, DotDot) = b
  <2> SUFFICES ASSUME b = <<<<Sep>>>> PROVE Passed(es, DotDot) = b
    OBVIOUS
  <2>1. b # <<>> /\ b[Len(b)] = <<Sep>>
    BY SmallLists
  <2> QED BY <2>1, ItemsAre DEF Passed
<1>5. ASSUME NEW a, NEW w, Solid(a), IsName(w), w # DotDot, b = Append(a, w)
      PROVE  Passed(es, DotDot) = Shut(a)
  <2>1. b # <<>> /\ b[Len(b)] = w /\ Front(b) = a /\ w # <<Sep>>
    BY <1>5, WithName, NameIsNoSep
  <2> QED BY <1>5, <2>1 DEF Passed
<1> QED BY <1>1, <1>2, <1>3, <1>4, <1>5

\* It stays a list of elements.
LEMMA PassedType ==
    ASSUME NEW es, Listing(es), NEW w, Plain(w)
    PROVE  Listing(Passed(es, w))
<1>1. PICK b : b = Bare(es) /\ Solid(b)
  BY ListingIs
<1>2. Listing(Shut(b))
  BY <1>1, ShutIs
<1>3. ASSUME NEW v, IsName(v) PROVE Listing(Append(b, v))
  BY <1>1, <1>3, WithName DEF Solid
<1>4. CASE w \in {<<>>, <<Sep>>, DotName}
  BY <1>1, <1>2, <1>4, PassedIs
<1>5. CASE IsName(w) /\ w \notin {DotDot, DotName}
  <2>1. Passed(es, w) = Append(b, w)
    BY <1>1, <1>5, PassedIs
  <2> QED BY <1>3, <1>5, <2>1
<1>6. CASE w = DotDot
  <2>1. CASE b = <<>> \/ b[Len(b)] = DotDot
    BY <1>1, <1>3, <1>6, <2>1, PassedIs, ItemsAre
  <2>2. CASE b = <<<<Sep>>>>
    BY <1>1, <1>6, <2>2, PassedIs, SmallLists DEF Solid
  <2>3. CASE ~(b = <<>> \/ b[Len(b)] = DotDot) /\ b # <<<<Sep>>>>
    <3>1. PICK a, v : Solid(a) /\ IsName(v) /\ b = Append(a, v) /\ v = b[Len(b)]
      BY <1>1, <2>3, SolidIs
    <3>2. Passed(es, DotDot) = Shut(a)
      BY <1>1, <2>3, <3>1, PassedIs
    <3> QED BY <1>6, <3>1, <3>2, ShutIs
  <2> QED BY <2>1, <2>2, <2>3
<1> QED BY <1>4, <1>5, <1>6 DEF Plain

\* The elements a text is split to, by what is before a separator at its end.
LEMMA ReadsText ==
    ASSUME NEW t \in Text, NEW b, b = TextsOf(Scan(t))
    PROVE  /\ Solid(b) /\ Len(b) = Len(Scan(t)) /\ \A i \in 1..Len(b) : b[i] = Scan(t)[i].text
           /\ b = <<>> <=> t = <<>>
           /\ Elements(Split(t)) = IF t # <<>> /\ Last(t) = Sep THEN Shut(b) ELSE b
           /\ t # <<>> /\ Last(t) # Sep => IsName(b[Len(b)])
<1>1. PICK cs, n : cs = Scan(t) /\ n = Len(cs)
  OBVIOUS
<1>2. cs \in Seq(Comps) /\ n \in Nat /\ DOMAIN cs = 1..n
  BY <1>1, ScanType, LenProperties
<1>3. b \in Seq(Text) /\ Len(b) = n /\ \A i \in 1..n : b[i] = cs[i].text
  <2>1. b = [i \in 1..n |-> cs[i].text]
    BY <1>1, <1>2 DEF TextsOf
  <2>2. \A i \in 1..n : cs[i].text \in Text
    BY <1>1, <1>2, CompType
  <2> QED BY <1>2, <2>1, <2>2, IsASeq
<1>4. CASE t = <<>>
  <2>1. cs = <<>> /\ n = 0
    BY <1>1, <1>4, ScanType
  <2>2. b = <<>>
    BY <1>3, <2>1, EmptySeq
  <2>3. Elements(Split(t)) = <<>>
    BY <1>4, SplitElements
  <2> QED BY <1>1, <1>3, <1>4, <2>1, <2>2, <2>3, SmallLists
<1>5. CASE t # <<>>
  <2>1. PICK ms, none : ms = Components(t) /\ none = Component(<<>>, "FILENAME", Len(t))
    OBVIOUS
  <2>2. /\ n > 0 /\ none \in Comps
        /\ Last(t) # Sep => ms = cs /\ cs[n].type = "FILENAME"
        /\ Last(t) = Sep /\ cs[n].type = "FILENAME" => ms = Append(cs, none)
        /\ cs[n].type = "ROOT_DIR" => ms = cs /\ n = 1
    BY <1>1, <1>5, <2>1, ComponentsAre
  <2>3. Proper(cs) /\ \A i \in 1..n : cs[i].type \in {"ROOT_DIR", "FILENAME"}
    <3>1. Proper(cs)
      BY <1>1, ScanShape
    <3> QED BY <1>1, <1>2, <3>1, CompType
  <2>4. /\ \A i \in 1..n : b[i] = <<Sep>> \/ IsName(b[i])
        /\ \A i \in 1..n : cs[i].type = "ROOT_DIR" => i = 1 /\ b[i] = <<Sep>>
        /\ \A i \in 1..n : cs[i].type = "FILENAME" => IsName(b[i])
    BY <1>1, <1>3, <2>3 DEF Proper
  <2>5. Solid(b) /\ b # <<>>
    <3>1. ASSUME NEW i \in 1..n
          PROVE  (b[i] = <<Sep>> \/ IsName(b[i])) /\ b[i] # <<>> /\ (b[i] = <<Sep>> => i = 1)
      BY <2>3, <2>4, ItemsAre
    <3>2. n \in 1..n
      BY <1>2, <2>2
    <3>3. b # <<>>
      BY <1>3, <2>2
    <3> QED BY <1>3, <3>1, <3>2, <3>3 DEF Solid, Listing
  <2>6. n \in 1..n
    BY <1>2, <2>2
  <2>7. Elements(Split(t)) = TextsOf(ms)
    BY <1>5, <2>1, SplitElements
  <2>8. CASE Last(t) # Sep
    <3>1. IsName(b[n]) /\ ms = cs
      BY <2>2, <2>4, <2>6, <2>8
    <3> QED BY <1>1, <1>3, <1>5, <2>5, <2>7, <2>8, <3>1
  <2>9. CASE Last(t) = Sep /\ cs[n].type = "ROOT_DIR"
    <3>1. ms = cs /\ b[n] = <<Sep>>
      BY <2>2, <2>4, <2>6, <2>9
    <3>2. Shut(b) = b
      BY <1>3, <3>1, ItemsAre DEF Shut
    <3> QED BY <1>1, <1>3, <1>5, <2>5, <2>7, <2>9, <3>1, <3>2
  <2>10. CASE Last(t) = Sep /\ cs[n].type = "FILENAME"
    <3>1. ms = Append(cs, none) /\ IsName(b[n])
      BY <2>2, <2>4, <2>6, <2>10
    <3>2. ms \in Seq(Comps) /\ Len(ms) = n + 1 /\ ms[n + 1] = none /\ \A i \in 1..n : ms[i] = cs[i]
      BY <1>1, <1>2, <2>2, <3>1, AppendProperties
    <3>3. Shut(b) = Append(b, <<>>)
      BY <1>3, <2>5, <3>1 DEF Shut
    <3>4. PICK v : v = Append(b, <<>>)
      OBVIOUS
    <3>5. v \in Seq(Text) /\ Len(v) = n + 1 /\ v[n + 1] = <<>> /\ \A i \in 1..n : v[i] = b[i]
      BY <1>3, <3>4, AppendProperties, ItemsAre
    <3>6. TextsOf(ms) = v
      <4>1. DOMAIN ms = 1..(n + 1) /\ none.text = <<>>
        BY <2>1, <3>2, LenProperties DEF Component
      <4>2. ASSUME NEW i \in 1..(n + 1) PROVE ms[i].text = v[i]
        <5>1. i \in 1..n \/ i = n + 1
          BY <1>2
        <5> QED BY <1>3, <3>2, <3>5, <4>1, <5>1
      <4>3. v = [i \in 1..(n + 1) |-> v[i]]
        BY <3>5, LenProperties
      <4> QED BY <4>1, <4>2, <4>3 DEF TextsOf
    <3> QED BY <1>1, <1>3, <1>5, <2>5, <2>7, <2>10, <3>3, <3>4, <3>6
  <2> QED BY <2>3, <2>6, <2>8, <2>9, <2>10
<1> QED BY <1>4, <1>5

\* One name more, and one separator more.
LEMMA ReadsMore ==
    ASSUME NEW t \in Text, NEW b, b = TextsOf(Scan(t))
    PROVE  /\ \A w : IsName(w) /\ (t = <<>> \/ Last(t) = Sep) =>
                 /\ t \o w \in Text /\ t \o w # <<>> /\ Last(t \o w) # Sep
                 /\ TextsOf(Scan(t \o w)) = Append(b, w) /\ Elements(Split(t \o w)) = Append(b, w)
           /\ t # <<>> =>
                 /\ Append(t, Sep) \in Text /\ Append(t, Sep) # <<>> /\ Last(Append(t, Sep)) = Sep
                 /\ TextsOf(Scan(Append(t, Sep))) = b /\ Elements(Split(Append(t, Sep))) = Shut(b)
<1>1. Solid(b) /\ b \in Seq(Text) /\ Len(b) = Len(Scan(t)) /\ \A i \in 1..Len(b) : b[i] = Scan(t)[i].text
  <2>1. Solid(b) /\ Len(b) = Len(Scan(t)) /\ \A i \in 1..Len(b) : b[i] = Scan(t)[i].text
    BY ReadsText
  <2>2. b \in Seq(Text)
    BY <2>1 DEF Solid, Listing
  <2> QED BY <2>1, <2>2
<1>2. ASSUME NEW w, IsName(w), t = <<>> \/ Last(t) = Sep
      PROVE  /\ t \o w \in Text /\ t \o w # <<>> /\ Last(t \o w) # Sep
             /\ TextsOf(Scan(t \o w)) = Append(b, w) /\ Elements(Split(t \o w)) = Append(b, w)
  <2>1. PICK es, n, u : es = Append(b, w) /\ n = Len(es) /\ u = t \o w
    OBVIOUS
  <2>2. /\ es \in Seq(Text) /\ n = Len(b) + 1 /\ es[n] = w /\ Len(b) \in Nat
        /\ \A i \in 1..Len(b) : es[i] = b[i]
    BY <1>1, <1>2, <2>1, WithName
  <2>3. /\ u \in Text /\ u # <<>> /\ Last(u) # Sep /\ Elements(Split(u)) = es
    <3>1. es[Len(es)] = w /\ Len(es) = Len(Scan(t)) + 1
      BY <1>1, <2>1, <2>2
    <3>2. \A i \in 1..Len(Scan(t)) : es[i] = Scan(t)[i].text
      BY <1>1, <2>2
    <3>3. IsName(es[Len(es)])
      BY <1>2, <3>1
    <3>4. PICK v : v = es[Len(es)]
      OBVIOUS
    <3>5. /\ t \o v \in Text /\ t \o v # <<>> /\ Last(t \o v) # Sep
          /\ Elements(Split(t \o v)) = es
      BY <1>2, <2>2, <3>1, <3>2, <3>3, <3>4, AddsName
    <3> QED BY <2>1, <3>1, <3>4, <3>5
  <2>4. Elements(Split(u)) = TextsOf(Scan(u))
    BY <2>3, ReadsText
  <2> QED BY <2>1, <2>3, <2>4
<1>3. ASSUME t # <<>>
      PROVE  /\ Append(t, Sep) \in Text /\ Append(t, Sep) # <<>> /\ Last(Append(t, Sep)) = Sep
             /\ TextsOf(Scan(Append(t, Sep))) = b /\ Elements(Split(Append(t, Sep))) = Shut(b)
  <2>1. PICK u : u = Append(t, Sep)
    OBVIOUS
  <2>2. u \in Text /\ u # <<>> /\ Last(u) = Sep
    BY <2>1, SepBetween, Characters
  <2>3. Scan(u) = Scan(t)
    BY <1>3, <2>1, ScanSep
  <2>4. Elements(Split(u)) = Shut(b)
    BY <2>2, <2>3, ReadsText
  <2> QED BY <2>1, <2>2, <2>3, <2>4
<1> QED BY <1>2, <1>3

\* What a list of elements shows of an object whose places are in order.
ShowsText(q, b) ==
    /\ q.str \in Text /\ Exact(q) /\ ~RemoveIsUndefined(q) /\ q \in Ordered
    /\ Solid(b) /\ b = TextsOf(Scan(q.str)) /\ Bare(Elements(q)) = b
    /\ Elements(q) = Elements(Split(q.str)) /\ Listing(Elements(q))
    /\ Elements(q) = IF q.str # <<>> /\ Last(q.str) = Sep THEN Shut(b) ELSE b
    /\ b = <<>> <=> q.str = <<>>
    /\ HasFilename(q) <=> q.str # <<>> /\ Last(q.str) # Sep
    /\ HasFilename(q) => IsName(b[Len(b)]) /\ Elements(q) = b
    /\ IsAbsolute(q) <=> Elements(q) # <<>> /\ Elements(q)[1] = <<Sep>>
    /\ HasRelativePath(q) <=> Behind(Elements(q)) # <<>>

\* A path is absolute if its first element is the root directory.
LEMMA AbsoluteIs ==
    ASSUME NEW q, Exact(q), NEW es, es = Elements(q)
    PROVE  IsAbsolute(q) <=> es # <<>> /\ es[1] = <<Sep>>
<1>1. Shows(q, es) /\ q \in Objects
  BY ExactShows DEF Exact
<1>2. Len(es) \in Nat /\ (es = <<>> <=> Len(es) = 0)
  BY <1>1, LenProperties, EmptySeq DEF Shows, Listing
<1>3. CASE Len(es) = 0
  <2>1. q.type # "ROOT_DIR"
    BY <1>1, <1>3 DEF Shows
  <2>2. q.cmpts = <<>>
    <3>1. q.type = "MULTI" => Len(q.cmpts) = 0
      BY <1>1, <1>3 DEF Shows
    <3>2. q.type # "MULTI" => q.cmpts = <<>>
      BY <1>1 DEF Shows
    <3> QED BY <1>1, <3>1, <3>2, ObjectIs
  <2> QED BY <1>2, <1>3, <2>1, <2>2 DEF IsAbsolute, HasRootDirectory
<1>4. CASE Len(es) # 0
  <2>1. 1 \in 1..Len(es)
    BY <1>2, <1>4
  <2>2. q.type = "MULTI" => Len(q.cmpts) = Len(es) /\ (q.cmpts[1].type = "ROOT_DIR" <=> es[1] = <<Sep>>)
    BY <1>1, <2>1 DEF Shows
  <2>3. q.type # "MULTI" => q.cmpts = <<>> /\ (q.type = "ROOT_DIR" <=> es[1] = <<Sep>>)
    BY <1>1, <1>4 DEF Shows
  <2>4. q.type = "MULTI" => q.cmpts # <<>>
    BY <1>1, <1>4, <2>2, ObjectIs
  <2> QED BY <1>2, <1>4, <2>2, <2>3, <2>4 DEF IsAbsolute, HasRootDirectory
<1> QED BY <1>3, <1>4

\* An exact object in order shows its text.
LEMMA OrderedShows ==
    ASSUME NEW q \in Ordered, Exact(q)
    PROVE  \E b : ShowsText(q, b)
<1>1. PICK s, b, es : s = q.str /\ b = TextsOf(Scan(s)) /\ es = Elements(q)
  OBVIOUS
<1>2. q \in Ordered /\ Exact(q) /\ q \in Objects
  BY DEF Exact
<1>3. s \in Text
  BY <1>1, <1>2, ObjectIs
<1>4. ~RemoveIsUndefined(q)
  <2> SUFFICES ASSUME RemoveIsUndefined(q) PROVE FALSE
    OBVIOUS
  <2>1. Len(q.cmpts) = 1 /\ Last(q.cmpts).type = "FILENAME"
    BY DEF RemoveIsUndefined, RemovesComponent
  <2>2. q.cmpts[1].type = "ROOT_DIR"
    BY <1>2, <2>1 DEF Ordered
  <2>3. Last(q.cmpts) = q.cmpts[1]
    BY <2>1 DEF Last
  <2> QED BY <2>1, <2>2, <2>3
<1>5. es = Elements(Split(s))
  BY <1>1, <1>2, ExactDescribed DEF Described
<1>6. /\ Solid(b) /\ (b = <<>> <=> s = <<>>)
      /\ es = IF s # <<>> /\ Last(s) = Sep THEN Shut(b) ELSE b
      /\ s # <<>> /\ Last(s) # Sep => IsName(b[Len(b)])
  BY <1>1, <1>3, <1>5, ReadsText
<1>7. Bare(es) = b /\ Listing(es)
  <2>1. Bare(Shut(b)) = b /\ Bare(b) = b /\ Listing(b) /\ Listing(Shut(b))
    BY <1>6, ShutIs
  <2> QED BY <1>6, <2>1
<1>8. HasFilename(q) <=> s # <<>> /\ Last(s) # Sep
  BY <1>1, <1>2, ExactFilename
<1>9. HasRelativePath(q) <=> Behind(es) # <<>>
  BY <1>1, <1>2, SameRelativePaths
<1>10. IsAbsolute(q) <=> es # <<>> /\ es[1] = <<Sep>>
  BY <1>1, <1>2, AbsoluteIs
<1> QED BY <1>1, <1>2, <1>3, <1>4, <1>5, <1>6, <1>7, <1>8, <1>9, <1>10 DEF ShowsText

\* So do the objects lexically_normal goes through.
LEMMA NeatShows ==
    ASSUME NEW q \in Neat
    PROVE  \E b : ShowsText(q, b)
BY OrderedShows DEF Neat

\* operator/= with a name or nothing.
LEMMA AppendShows ==
    ASSUME NEW q, NEW b, ShowsText(q, b)
    PROVE  /\ \A w : IsName(w) => Elements(AppendPath(q, Split(w))) = Append(b, w)
           /\ Elements(AppendPath(q, Empty)) = Shut(b)
           /\ Elements(AppendPath(q, Split(<<>>))) = Shut(b)
<1>1. PICK s, t : s = q.str /\ t = s \o (IF HasFilename(q) THEN <<Sep>> ELSE <<>>)
  OBVIOUS
<1>2. /\ s \in Text /\ b = TextsOf(Scan(s)) /\ (HasFilename(q) <=> s # <<>> /\ Last(s) # Sep)
      /\ Solid(b) /\ (b = <<>> <=> s = <<>>)
      /\ Elements(Split(s)) = IF s # <<>> /\ Last(s) = Sep THEN Shut(b) ELSE b
  BY <1>1 DEF ShowsText
<1>3. /\ t \in Text /\ (t = <<>> \/ Last(t) = Sep)
      /\ TextsOf(Scan(t)) = b /\ Elements(Split(t)) = Shut(b)
  <2>1. CASE HasFilename(q)
    <3>1. t = Append(s, Sep)
      <4>1. t = s \o <<Sep>>
        BY <1>1, <2>1
      <4> QED BY <1>2, <4>1, Characters DEF Text
    <3> QED BY <1>2, <2>1, <3>1, ReadsMore
  <2>2. CASE ~HasFilename(q)
    <3>1. t = s
      <4>1. t = s \o <<>>
        BY <1>1, <2>2
      <4> QED BY <1>2, <4>1 DEF Text
    <3>2. s = <<>> => b = Shut(b)
      <4>1. Shut(<<>>) = <<>>
        BY SmallLists
      <4> QED BY <1>2, <4>1
    <3> QED BY <1>2, <2>2, <3>1, <3>2
  <2> QED BY <2>1, <2>2
<1>4. ASSUME NEW w, IsName(w) PROVE Elements(AppendPath(q, Split(w))) = Append(b, w)
  <2>1. Split(w) = [str |-> w, cmpts |-> <<>>, type |-> "FILENAME"]
    BY <1>4, SplitSingle
  <2>2. ~IsAbsolute(Split(w)) /\ Split(w).str = w
    BY <2>1 DEF IsAbsolute, HasRootDirectory
  <2>3. AppendPath(q, Split(w)) = Split(t \o w)
    BY <1>1, <2>2 DEF AppendPath
  <2>4. Elements(Split(t \o w)) = Append(b, w)
    BY <1>3, <1>4, ReadsMore
  <2> QED BY <2>3, <2>4
<1>5. ASSUME NEW r, r = Empty \/ r = Split(<<>>) PROVE Elements(AppendPath(q, r)) = Shut(b)
  <2>1. r.str = <<>> /\ r.cmpts = <<>> /\ r.type # "ROOT_DIR"
    BY <1>5 DEF Empty, Split
  <2>2. ~IsAbsolute(r)
    BY <2>1 DEF IsAbsolute, HasRootDirectory
  <2>3. AppendPath(q, r) = Split(t \o <<>>)
    BY <1>1, <2>1, <2>2 DEF AppendPath
  <2>4. t \o <<>> = t
    BY <1>3 DEF Text
  <2> QED BY <1>3, <2>3, <2>4
<1> QED BY <1>4, <1>5

\* Without its last name a list is shut.
LEMMA LeftIs ==
    ASSUME NEW a, Solid(a), NEW w, IsName(w)
    PROVE  Left(Append(a, w)) = Shut(a)
<1>1. PICK es, n : es = Append(a, w) /\ n = Len(es)
  OBVIOUS
<1>2. /\ es \in Seq(Text) /\ a \in Seq(Text) /\ n = Len(a) + 1 /\ Len(a) \in Nat /\ n \in Nat
      /\ IsName(es[n]) /\ \A i \in 1..Len(a) : es[i] = a[i]
  <2>1. /\ es \in Seq(Text) /\ a \in Seq(Text) /\ n = Len(a) + 1 /\ Len(a) \in Nat
        /\ es[n] = w /\ \A i \in 1..Len(a) : es[i] = a[i]
    BY <1>1, WithName
  <2> QED BY <2>1
<1>3. CASE a = <<>>
  <2>1. n = 1
    BY <1>2, <1>3
  <2>2. Left(es) = <<>>
    BY <1>1, <1>2, <2>1 DEF Left
  <2> QED BY <1>1, <1>3, <2>2, SmallLists
<1>4. CASE a = <<<<Sep>>>>
  <2>1. n = 2 /\ es[n - 1] = <<Sep>>
    BY <1>2, <1>4, SmallLists
  <2>2. Left(es) = <<<<Sep>>>>
    BY <1>1, <1>2, <2>1 DEF Left
  <2> QED BY <1>1, <1>4, <2>2, SmallLists
<1>5. CASE a # <<>> /\ a # <<<<Sep>>>>
  <2>1. PICK b, v : Solid(b) /\ IsName(v) /\ a = Append(b, v)
    BY <1>5, SolidIs
  <2>2. PICK m, u : m = Len(a) /\ u = Append(a, <<>>)
    OBVIOUS
  <2>3. a[m] = v /\ m \in Nat /\ m > 0
    <3>1. a[m] = v /\ m = Len(b) + 1 /\ Len(b) \in Nat
      BY <2>1, <2>2, WithName
    <3> QED BY <3>1
  <2>4. Shut(a) = u /\ u \in Seq(Text) /\ Len(u) = m + 1 /\ u[Len(u)] = <<>> /\ \A i \in 1..m : u[i] = a[i]
    BY <2>1, <2>2, ShutName
  <2>5. n = m + 1 /\ es[n - 1] = v /\ v # <<Sep>>
    <3>1. n = m + 1 /\ n - 1 = m /\ m \in 1..m
      BY <1>2, <2>2, <2>3
    <3>2. v # <<Sep>>
      BY <2>1, NameIsNoSep
    <3> QED BY <1>2, <2>2, <2>3, <3>1, <3>2
  <2>6. Left(es) = [es EXCEPT ![n] = <<>>]
    BY <1>1, <1>2, <2>3, <2>5 DEF Left
  <2>7. [es EXCEPT ![n] = <<>>] = u
    <3>1. PICK d : d = [es EXCEPT ![n] = <<>>]
      OBVIOUS
    <3>2. n \in 1..n /\ <<>> \in Text
      BY <2>3, <2>5, ItemsAre
    <3>3. d \in Seq(Text) /\ Len(d) = n /\ d[n] = <<>> /\ \A i \in 1..n : i # n => d[i] = es[i]
      <4>1. DOMAIN es = 1..n
        BY <1>1, <1>2, LenProperties
      <4>2. DOMAIN d = 1..n /\ d[n] = <<>> /\ \A i \in 1..n : i # n => d[i] = es[i]
        BY <3>1, <3>2, <4>1
      <4>3. \A i \in 1..n : d[i] \in Text
        BY <1>1, <1>2, <3>2, <4>2
      <4>4. d = [i \in 1..n |-> d[i]]
        BY <3>1, <4>1
      <4> QED BY <1>2, <4>2, <4>3, <4>4, IsASeq
    <3>4. ASSUME NEW i \in 1..n PROVE d[i] = u[i]
      <4>1. CASE i = n
        BY <2>4, <2>5, <3>3, <4>1
      <4>2. CASE i # n
        <5>1. i \in 1..m
          BY <2>3, <2>5, <4>2
        <5> QED BY <1>2, <2>2, <2>4, <3>3, <4>2, <5>1
      <4> QED BY <4>1, <4>2
    <3> QED BY <2>4, <2>5, <3>1, <3>3, <3>4, SeqEqual
  <2> QED BY <1>1, <2>4, <2>6, <2>7
<1> QED BY <1>3, <1>4, <1>5

\* A closed list has a name before its end exactly if there is something
\* behind the root directory.
LEMMA BehindShut ==
    ASSUME NEW b, Solid(b)
    PROVE  /\ Behind(Shut(<<>>)) = <<>>
           /\ Behind(Shut(<<<<Sep>>>>)) = <<>>
           /\ b # <<>> /\ b # <<<<Sep>>>> => Behind(Shut(b)) # <<>>
<1>1. Behind(<<>>) = <<>>
  BY DEF Behind
<1>2. Behind(<<<<Sep>>>>) = <<>>
  <2>1. PICK c : c = <<<<Sep>>>>
    OBVIOUS
  <2>2. c \in Seq(Text) /\ Len(c) = 1 /\ c[1] = <<Sep>> /\ c # <<>>
    BY <2>1, SmallLists, ItemsAre
  <2>3. SubSeq(c, 2, 1) = <<>>
    BY <2>2
  <2>4. Behind(c) = SubSeq(c, 2, 1)
    BY <2>2 DEF Behind
  <2> QED BY <2>1, <2>3, <2>4
<1>3. ASSUME b # <<>>, b # <<<<Sep>>>> PROVE Behind(Shut(b)) # <<>>
  <2>1. PICK a, w : Solid(a) /\ IsName(w) /\ b = Append(a, w)
    BY <1>3, SolidIs
  <2>2. PICK v, n : v = Shut(b) /\ n = Len(v)
    OBVIOUS
  <2>3. v \in Seq(Text) /\ n \in Nat /\ n > 1 /\ v # <<>>
    <3>1. Shut(b) = Append(b, <<>>) /\ Append(b, <<>>) \in Seq(Text) /\ Len(Append(b, <<>>)) = Len(b) + 1
          /\ Append(b, <<>>) # <<>>
      BY <2>1, ShutName
    <3>2. Len(b) = Len(a) + 1 /\ Len(a) \in Nat
      BY <2>1, WithName
    <3> QED BY <2>2, <3>1, <3>2
  <2>4. SubSeq(v, 2, n) # <<>>
    <3>1. 1 \in 0..Len(v)
      BY <2>2, <2>3
    <3>2. PICK d : d = SubSeq(v, 1 + 1, Len(v))
      OBVIOUS
    <3>3. Len(d) = Len(v) - 1
      BY <2>3, <3>1, <3>2, SuffixIs
    <3>4. Len(d) # 0
      BY <2>2, <2>3, <3>3
    <3> QED BY <2>2, <3>2, <3>4
  <2> QED BY <2>2, <2>3, <2>4 DEF Behind
<1> QED BY <1>1, <1>2, <1>3, SmallLists

\* The edit in place: the name before a trailing separator goes.
LEMMA DropShows ==
    ASSUME NEW q, NEW b, ShowsText(q, b), ~HasFilename(q), HasRelativePath(q),
           NEW a, Solid(a), NEW w, IsName(w), b = Append(a, w)
    PROVE  /\ q.cmpts[Len(q.cmpts) - 1].text = w
           /\ Elements(DropDirectory(q)) = Shut(a)
<1>1. PICK cs, n, es, m : cs = q.cmpts /\ n = Len(cs) /\ es = Elements(q) /\ m = Len(b)
  OBVIOUS
<1>2. q \in Ordered /\ q \in Objects /\ Exact(q) /\ Shows(q, es)
  <2>1. q \in Ordered /\ q \in Objects /\ Exact(q)
    BY DEF ShowsText, Exact
  <2> QED BY <1>1, <2>1, ExactShows
<1>3. n \in Nat /\ n > 1 /\ q.type = "MULTI" /\ cs \in Seq(Comps)
  <2>1. n \in Nat /\ n > 1 /\ q.type = "MULTI"
    BY <1>1, <1>2, DropsName
  <2> QED BY <1>1, <1>2, <2>1, ObjectIs
<1>4. /\ Len(es) = n
      /\ \A i \in 1..n : cs[i].text = es[i] /\ (cs[i].type = "ROOT_DIR" <=> es[i] = <<Sep>>)
  <2>1. Len(es) = n
    BY <1>1, <1>2, <1>3 DEF Shows
  <2>2. \A i \in 1..n : cs[i].text = es[i] /\ (cs[i].type = "ROOT_DIR" <=> es[i] = <<Sep>>)
    BY <1>1, <1>2, <1>3, <2>1 DEF Shows
  <2> QED BY <2>1, <2>2
<1>5. es = Shut(b)
  <2>1. q.str = <<>> => FALSE
    <3>1. b # <<>>
      BY WithName
    <3> QED BY <3>1 DEF ShowsText
  <2> QED BY <1>1, <2>1 DEF ShowsText
<1>6. /\ es = Append(b, <<>>) /\ m \in Nat /\ n = m + 1 /\ es[n] = <<>> /\ es[m] = w
      /\ Len(a) = m - 1 /\ Len(a) \in Nat /\ m > 0 /\ a \in Seq(Text)
      /\ \A i \in 1..(m - 1) : es[i] = a[i]
  <2>1. es = Append(b, <<>>) /\ Len(es) = Len(b) + 1 /\ es[Len(es)] = <<>> /\ \A i \in 1..Len(b) : es[i] = b[i]
    BY <1>5, ShutName
  <2>2. b[Len(b)] = w /\ Len(b) = Len(a) + 1 /\ Len(a) \in Nat /\ a \in Seq(Text) /\ \A i \in 1..Len(a) : b[i] = a[i]
    BY WithName
  <2>3. m \in Nat /\ m > 0 /\ Len(a) = m - 1 /\ m \in 1..m /\ n = m + 1
    BY <1>1, <1>4, <2>1, <2>2
  <2>4. es[m] = w
    BY <1>1, <2>1, <2>2, <2>3
  <2>5. ASSUME NEW i \in 1..(m - 1) PROVE es[i] = a[i]
    <3>1. i \in 1..m /\ i \in 1..Len(a)
      BY <2>3
    <3> QED BY <1>1, <2>1, <2>2, <3>1
  <2> QED BY <1>1, <1>4, <2>1, <2>2, <2>3, <2>4, <2>5
<1>7. cs[n - 1].text = w
  <2>1. n - 1 = m /\ m \in 1..n
    BY <1>6
  <2> QED BY <1>4, <1>6, <2>1
<1>8. CASE n = 2
  <2>1. a = <<>>
    <3>1. Len(a) = 0
      BY <1>6, <1>8
    <3> QED BY <1>6, <3>1, EmptySeq
  <2>2. DropDirectory(q) = Split(<<>>)
    BY <1>1, <1>8 DEF DropDirectory
  <2>3. Elements(Split(<<>>)) = <<>>
    BY Characters, SplitElements
  <2> QED BY <1>1, <1>7, <2>1, <2>2, <2>3, SmallLists
<1>9. CASE n # 2
  <2>1. PICK k, ds, ms, fin : /\ k = n - 2 /\ ds = SubSeq(cs, 1, k) /\ fin = cs[n]
                           /\ ms = IF cs[n - 2].type = "FILENAME" THEN ds \o <<cs[n]>> ELSE ds
    OBVIOUS
  <2>2. k \in Nat /\ k > 0 /\ k = m - 1 /\ k \in 0..n /\ k \in 1..n /\ k \in 1..k /\ n \in 1..n
    BY <1>3, <1>6, <1>9, <2>1
  <2>3. ds \in Seq(Comps) /\ Len(ds) = k /\ \A i \in 1..k : ds[i] = cs[i]
    BY <1>1, <1>3, <2>1, <2>2, PrefixIs
  <2>4. \A i \in 1..k : ds[i].text = a[i]
    <3>1. \A i \in 1..k : i \in 1..n /\ i \in 1..(m - 1)
      BY <2>2
    <3> QED BY <1>4, <1>6, <2>3, <3>1
  <2>5. DropDirectory(q) = [q EXCEPT !.str = SubSeq(q.str, 1, cs[n - 1].pos), !.cmpts = ms]
    BY <1>1, <1>9, <2>1 DEF DropDirectory
  <2>6. Elements(DropDirectory(q)) = TextsOf(ms)
    <3>1. PICK d : d = [q EXCEPT !.str = SubSeq(q.str, 1, cs[n - 1].pos), !.cmpts = ms]
      OBVIOUS
    <3>2. d.type = "MULTI" /\ d.cmpts = ms
      BY <1>2, <1>3, <3>1 DEF Objects
    <3> QED BY <2>5, <3>1, <3>2 DEF Elements
  <2>7. cs[k].type \in {"ROOT_DIR", "FILENAME"} /\ fin \in Comps /\ fin.text = <<>>
    <3>1. cs[k] \in Comps /\ fin \in Comps
      BY <1>1, <1>3, <2>1, <2>2
    <3>2. fin.text = <<>>
      BY <1>4, <1>6, <2>1, <2>2
    <3> QED BY <3>1, <3>2 DEF Comps
  <2>8. a[k] = <<Sep>> <=> cs[k].type = "ROOT_DIR"
    BY <1>4, <1>6, <2>2
  <2>9. Len(a) = k /\ a # <<>>
    BY <1>6, <2>2
  <2>10. a[k] = <<Sep>> \/ IsName(a[k])
    <3>1. a[k] # <<>>
      BY <2>9 DEF Solid
    <3> QED BY <2>2, <2>9, <3>1 DEF Solid, Listing
  <2>11. CASE cs[k].type = "FILENAME"
    <3>1. ms = ds \o <<fin>>
      BY <2>1, <2>11
    <3>2. PICK u : u = Append(a, <<>>)
      OBVIOUS
    <3>3. Shut(a) = u
      BY <2>8, <2>9, <2>10, <2>11, <3>2 DEF Shut
    <3>4. u \in Seq(Text) /\ Len(u) = k + 1 /\ u[k + 1] = <<>> /\ \A i \in 1..k : u[i] = a[i]
      BY <1>6, <2>9, <3>2, AppendProperties, ItemsAre
    <3>5. ms \in Seq(Comps) /\ Len(ms) = k + 1 /\ ms[k + 1] = fin /\ \A i \in 1..k : ms[i] = ds[i]
      <4>1. ms = Append(ds, fin)
        BY <2>3, <2>7, <3>1
      <4> QED BY <2>3, <2>7, <4>1, AppendProperties
    <3>6. TextsOf(ms) = u
      <4>1. DOMAIN ms = 1..(k + 1) /\ DOMAIN u = 1..(k + 1)
        BY <2>2, <3>4, <3>5, LenProperties
      <4>2. ASSUME NEW i \in 1..(k + 1) PROVE ms[i].text = u[i]
        <5>1. i \in 1..k \/ i = k + 1
          BY <2>2
        <5> QED BY <2>4, <2>7, <3>4, <3>5, <5>1
      <4>3. u = [i \in 1..(k + 1) |-> u[i]]
        BY <3>4, <4>1
      <4> QED BY <4>1, <4>2, <4>3 DEF TextsOf
    <3> QED BY <1>1, <1>7, <2>6, <3>3, <3>6
  <2>12. CASE cs[k].type = "ROOT_DIR"
    <3>1. ms = ds
      BY <2>1, <2>12
    <3>2. Shut(a) = a
      BY <2>8, <2>9, <2>12, ItemsAre DEF Shut
    <3>3. TextsOf(ds) = a
      <4>1. DOMAIN ds = 1..k /\ a = [i \in 1..k |-> a[i]]
        BY <1>6, <2>3, <2>9, LenProperties
      <4> QED BY <2>4, <4>1 DEF TextsOf
    <3> QED BY <1>1, <1>7, <2>6, <3>1, <3>2, <3>3
  <2> QED BY <2>7, <2>11, <2>12
<1> QED BY <1>8, <1>9

\* lexically_normal at a parent reference.
LEMMA DotDotShows ==
    ASSUME NEW q, NEW b, ShowsText(q, b)
    PROVE  Elements(NormalDotDot(q)) = Passed(Elements(q), DotDot)
<1>1. PICK es : es = Elements(q)
  OBVIOUS
<1>2. Exact(q) /\ ~RemoveIsUndefined(q) /\ Solid(b) /\ Bare(es) = b /\ q \in Objects
  BY <1>1 DEF ShowsText, Exact
<1>3. Elements(AppendPath(q, Split(DotDot))) = Append(b, DotDot)
  BY AppendShows, ItemsAre
<1>4. CASE HasFilename(q)
  <2>1. es = b /\ IsName(b[Len(b)])
    BY <1>1, <1>4 DEF ShowsText
  <2>2. b # <<>> /\ b # <<<<Sep>>>>
    <3>1. b # <<>>
      BY <1>4 DEF ShowsText
    <3>2. b # <<<<Sep>>>>
      BY <2>1, SmallLists, ItemsAre
    <3> QED BY <3>1, <3>2
  <2>3. PICK a, w : Solid(a) /\ IsName(w) /\ b = Append(a, w) /\ w = b[Len(b)]
    BY <1>2, <2>2, SolidIs
  <2>4. Filename(q).str = w
    <3>1. Len(b) # 0
      <4>1. Len(b) = Len(a) + 1 /\ Len(a) \in Nat
        BY <2>3, WithName
      <4> QED BY <4>1
    <3>2. Filename(q) = Split(w)
      BY <1>1, <1>2, <2>1, <2>3, <3>1, FilenameIs
    <3>3. Split(w) = [str |-> w, cmpts |-> <<>>, type |-> "FILENAME"]
      BY <2>3, SplitSingle
    <3> QED BY <3>2, <3>3
  <2>5. CASE w = DotDot
    <3>1. NormalDotDot(q) = AppendPath(q, Split(DotDot))
      BY <1>4, <2>4, <2>5 DEF NormalDotDot
    <3>2. Passed(es, DotDot) = Append(b, DotDot)
      BY <1>2, <2>3, <2>5, PassedIs
    <3> QED BY <1>1, <1>3, <3>1, <3>2
  <2>6. CASE w # DotDot
    <3>1. NormalDotDot(q) = RemoveFilename(q)
      BY <1>4, <2>4, <2>6 DEF NormalDotDot
    <3>2. Elements(RemoveFilename(q)) = Left(b)
      BY <1>1, <1>2, <2>1, LeavesElements
    <3>3. Left(b) = Shut(a)
      BY <2>3, LeftIs
    <3>4. \A c, v : Solid(c) /\ IsName(v) /\ v # DotDot /\ b = Append(c, v) => Passed(es, DotDot) = Shut(c)
      BY <1>2, PassedIs
    <3>5. Passed(es, DotDot) = Shut(a)
      BY <2>3, <2>6, <3>4
    <3> QED BY <1>1, <3>1, <3>2, <3>3, <3>5
  <2> QED BY <2>5, <2>6
<1>5. CASE ~HasFilename(q)
  <2>1. es = Shut(b)
    <3>1. q.str = <<>> => b = <<>> /\ es = b
      BY <1>1 DEF ShowsText
    <3>2. q.str # <<>> => Last(q.str) = Sep
      BY <1>5 DEF ShowsText
    <3>3. q.str # <<>> /\ Last(q.str) = Sep => es = Shut(b)
      BY <1>1 DEF ShowsText
    <3> QED BY <3>1, <3>2, <3>3, SmallLists
  <2>2. HasRelativePath(q) <=> Behind(es) # <<>>
    BY <1>1 DEF ShowsText
  <2>3. HasRootDirectory(q) <=> es # <<>> /\ es[1] = <<Sep>>
    BY <1>1 DEF ShowsText, IsAbsolute
  <2>4. CASE b = <<>>
    <3>1. ~HasRelativePath(q)
      <4>1. Behind(Shut(<<>>)) = <<>>
        BY SmallLists, BehindShut
      <4> QED BY <2>1, <2>2, <2>4, <4>1
    <3>2. ~HasRootDirectory(q)
      BY <2>1, <2>3, <2>4, SmallLists
    <3>3. NormalDotDot(q) = AppendPath(q, Split(DotDot))
      BY <1>5, <3>1, <3>2 DEF NormalDotDot
    <3>4. Passed(es, DotDot) = Append(b, DotDot)
      BY <1>2, <2>4, PassedIs
    <3> QED BY <1>1, <1>3, <3>3, <3>4
  <2>5. CASE b = <<<<Sep>>>>
    <3>1. es = b
      BY <2>1, <2>5, SmallLists
    <3>2. ~HasRelativePath(q)
      <4>1. Behind(Shut(<<<<Sep>>>>)) = <<>>
        BY SmallLists, BehindShut
      <4> QED BY <2>1, <2>2, <2>5, <4>1
    <3>3. HasRootDirectory(q)
      BY <2>3, <2>5, <3>1, SmallLists
    <3>4. NormalDotDot(q) = q
      BY <1>5, <3>2, <3>3 DEF NormalDotDot
    <3>5. Passed(es, DotDot) = b
      BY <1>2, <2>5, PassedIs
    <3> QED BY <1>1, <3>1, <3>4, <3>5
  <2>6. CASE b # <<>> /\ b # <<<<Sep>>>>
    <3>1. PICK a, w : Solid(a) /\ IsName(w) /\ b = Append(a, w) /\ w = b[Len(b)]
      BY <1>2, <2>6, SolidIs
    <3>2. HasRelativePath(q)
      BY <1>2, <2>1, <2>2, <2>6, BehindShut
    <3>3. q.cmpts[Len(q.cmpts) - 1].text = w /\ Elements(DropDirectory(q)) = Shut(a)
      BY <1>5, <3>1, <3>2, DropShows
    <3>4. CASE w = DotDot
      <4>1. NormalDotDot(q) = AppendPath(q, Split(DotDot))
        BY <1>5, <3>2, <3>3, <3>4 DEF NormalDotDot
      <4>2. Passed(es, DotDot) = Append(b, DotDot)
        BY <1>2, <3>1, <3>4, PassedIs
      <4> QED BY <1>1, <1>3, <4>1, <4>2
    <3>5. CASE w # DotDot
      <4>1. NormalDotDot(q) = DropDirectory(q)
        BY <1>5, <3>2, <3>3, <3>5 DEF NormalDotDot
      <4>2. \A c, v : Solid(c) /\ IsName(v) /\ v # DotDot /\ b = Append(c, v) => Passed(es, DotDot) = Shut(c)
        BY <1>2, PassedIs
      <4>3. Passed(es, DotDot) = Shut(a)
        BY <3>1, <3>5, <4>2
      <4> QED BY <1>1, <3>3, <4>1, <4>3
    <3> QED BY <3>4, <3>5
  <2> QED BY <2>4, <2>5, <2>6
<1> QED BY <1>4, <1>5

\* A step of lexically_normal, seen on the elements of what it has made.
LEMMA NormalStepIs ==
    ASSUME NEW q \in Neat, NEW e, Plain(e)
    PROVE  /\ e # <<Sep>> => Elements(NormalStep(q, e)) = Passed(Elements(q), e)
           /\ e = <<Sep>> => Elements(NormalStep(q, e)) = <<<<Sep>>>>
<1>1. PICK b : ShowsText(q, b)
  BY NeatShows
<1>2. PICK es : es = Elements(q)
  OBVIOUS
<1>3. Solid(b) /\ Bare(es) = b
  BY <1>1, <1>2 DEF ShowsText
<1>4. CASE e = DotDot
  <2>1. NormalStep(q, e) = NormalDotDot(q)
    BY <1>4 DEF NormalStep
  <2>2. e # <<Sep>>
    BY <1>4, ItemsAre
  <2> QED BY <1>1, <1>4, <2>1, <2>2, DotDotShows
<1>5. CASE e = DotName
  <2>1. NormalStep(q, e) = AppendPath(q, Empty)
    BY <1>5, ItemsAre DEF NormalStep
  <2>2. e # <<Sep>>
    BY <1>5, ItemsAre
  <2>3. Elements(AppendPath(q, Empty)) = Shut(b)
    BY <1>1, AppendShows
  <2>4. Passed(es, e) = Shut(b)
    BY <1>3, <1>5, PassedIs
  <2> QED BY <1>2, <2>1, <2>2, <2>3, <2>4
<1>6. CASE e = <<>>
  <2>1. NormalStep(q, e) = AppendPath(q, Split(<<>>))
    BY <1>6, ItemsAre DEF NormalStep
  <2>2. e # <<Sep>>
    BY <1>6, ItemsAre
  <2>3. Elements(AppendPath(q, Split(<<>>))) = Shut(b)
    BY <1>1, AppendShows
  <2>4. Passed(es, e) = Shut(b)
    BY <1>3, <1>6, PassedIs
  <2> QED BY <1>2, <2>1, <2>2, <2>3, <2>4
<1>7. CASE e = <<Sep>>
  <2>1. NormalStep(q, e) = AppendPath(q, Split(<<Sep>>))
    BY <1>7, ItemsAre DEF NormalStep
  <2>2. Split(<<Sep>>) = [str |-> <<Sep>>, cmpts |-> <<>>, type |-> "ROOT_DIR"]
    BY SplitSingle
  <2>3. IsAbsolute(Split(<<Sep>>))
    BY <2>2 DEF IsAbsolute, HasRootDirectory
  <2>4. AppendPath(q, Split(<<Sep>>)) = Split(<<Sep>>)
    BY <2>3 DEF AppendPath
  <2>5. Elements(Split(<<Sep>>)) = <<<<Sep>>>>
    <3>1. PICK r : r = Split(<<Sep>>)
      OBVIOUS
    <3>2. r.type = "ROOT_DIR" /\ r.str = <<Sep>>
      BY <2>2, <3>1
    <3>3. <<Sep>> # <<>>
      OBVIOUS
    <3>4. Elements(r) = <<r.str>>
      BY <3>2, <3>3 DEF Elements
    <3> QED BY <3>1, <3>2, <3>4
  <2> QED BY <1>7, <2>1, <2>4, <2>5
<1>8. CASE IsName(e) /\ e # DotDot /\ e # DotName
  <2>1. NormalStep(q, e) = AppendPath(q, Split(e))
    BY <1>8 DEF NormalStep
  <2>2. e # <<Sep>>
    BY <1>8, NameIsNoSep
  <2>3. Elements(AppendPath(q, Split(e))) = Append(b, e)
    BY <1>1, <1>8, AppendShows
  <2>4. Passed(es, e) = Append(b, e)
    BY <1>3, <1>8, PassedIs
  <2> QED BY <1>2, <2>1, <2>2, <2>3, <2>4
<1> QED BY <1>4, <1>5, <1>6, <1>7, <1>8 DEF Plain

-----------------------------------------------------------------------------
(* The lists lexically_normal goes through, one item after the other.      *)

\* Induction over lists.
LEMMA ListInduction ==
    ASSUME NEW C, NEW S, <<>> \in S,
           \A s \in Seq(C), c \in C : s \in S => Append(s, c) \in S
    PROVE  Seq(C) \subseteq S
<1> DEFINE T == {n \in Nat : \A s \in Seq(C) : Len(s) = n => s \in S}
<1>1. 0 \in T
  <2>1. \A s \in Seq(C) : Len(s) = 0 => s = <<>>
    OBVIOUS
  <2> QED BY <2>1
<1>2. ASSUME NEW n \in Nat, n \in T PROVE n + 1 \in T
  <2> SUFFICES ASSUME NEW s \in Seq(C), Len(s) = n + 1 PROVE s \in S
    OBVIOUS
  <2>1. PICK u \in Seq(C), c \in C : s = Append(u, c)
    <3>1. s # <<>>
      OBVIOUS
    <3> QED BY <3>1, SequenceEmptyOrAppend
  <2>2. Len(u) = n
    BY <2>1
  <2> QED BY <1>2, <2>1, <2>2
<1> HIDE DEF T
<1>3. Nat \subseteq T
  BY <1>1, <1>2, Induction
<1>4. \A s \in Seq(C) : Len(s) \in Nat
  OBVIOUS
<1> QED BY <1>3, <1>4 DEF T

\* A list with one item more, up to the items it had.
LEMMA OneMoreItem ==
    ASSUME NEW C, NEW s \in Seq(C), NEW c \in C
    PROVE  LET t == Append(s, c)
           IN  /\ t \in Seq(C) /\ Len(t) = Len(s) + 1 /\ Len(s) \in Nat /\ t[Len(s) + 1] = c
               /\ \A i \in 1..Len(s) : t[i] = s[i]
               /\ t # <<>> /\ Last(t) = c
<1>1. PICK t, n : t = Append(s, c) /\ n = Len(s)
  OBVIOUS
<1>2. t \in Seq(C) /\ Len(t) = n + 1 /\ n \in Nat /\ t[n + 1] = c /\ \A i \in 1..n : t[i] = s[i]
  BY <1>1, AppendProperties
<1>3. t # <<>> /\ Last(t) = c
  BY <1>2 DEF Last
<1> QED BY <1>1, <1>2, <1>3

Items == {w \in Text : Plain(w)}
Lists == {es \in Seq(Text) : Listing(es)}

\* What becomes of the list es over the items of ws.
Run(es, ws) ==
    LET run[i \in 0..Len(ws)] == IF i = 0 THEN es ELSE Passed(run[i - 1], ws[i])
    IN  run[Len(ws)]

\* A run goes through one list after the other.
LEMMA RunIs ==
    ASSUME NEW es \in Lists, NEW ws \in Seq(Items)
    PROVE  \E at \in [0..Len(ws) -> Lists] :
              /\ at[0] = es /\ Run(es, ws) = at[Len(ws)]
              /\ \A i \in 1..Len(ws) : at[i] = Passed(at[i - 1], ws[i])
<1> DEFINE Is(at) == at = [i \in 0..Len(ws) |-> IF i = 0 THEN es ELSE Passed(at[i - 1], ws[i])]
           f == CHOOSE at : Is(at)
           next == [i \in 1..Len(ws) |-> [l \in Lists |-> Passed(l, ws[i])]]
<1>1. PICK n : n = Len(ws) /\ n \in Nat /\ \A i \in 1..n : ws[i] \in Items
  BY LenProperties, ElementOfSeq
<1>2. ASSUME NEW l \in Lists, NEW i \in 1..n PROVE Passed(l, ws[i]) \in Lists
  <2>1. Listing(l) /\ Plain(ws[i])
    BY <1>1 DEF Lists, Items
  <2>2. Listing(Passed(l, ws[i]))
    BY <2>1, PassedType
  <2> QED BY <2>2 DEF Lists, Listing
<1>3. PICK at : Computes(at, n, Lists, es, next)
  <2>1. Keeps(next, n, Lists)
    BY <1>1, <1>2 DEF Keeps
  <2>2. PICK nx : nx = next
    OBVIOUS
  <2> HIDE DEF next
  <2> QED BY <1>1, <2>1, <2>2, RecursionIn
<1>4. at \in [0..n -> Lists] /\ at[0] = es
  BY <1>3 DEF Computes
<1>5. ASSUME NEW i \in 1..n PROVE at[i] = Passed(at[i - 1], ws[i])
  <2>1. i - 1 \in 0..n
    BY <1>1
  <2>2. at[i - 1] \in Lists
    BY <1>4, <2>1
  <2> QED BY <1>1, <1>3, <2>2 DEF Computes
<1>6. Is(at)
  BY <1>1, <1>4, <1>5
<1>7. Is(f)
  BY <1>6
<1>8. Run(es, ws) = f[n]
  BY <1>1 DEF Run
<1> HIDE DEF f
<1>9. f[0] = es /\ \A i \in 1..n : f[i] = Passed(f[i - 1], ws[i])
  BY <1>1, <1>7
<1>10. \A i \in 0..n : f[i] \in Lists
  <2>1. \A i \in 1..n : f[i - 1] \in Lists => f[i] \in Lists
    BY <1>2, <1>9
  <2> QED BY <1>1, <1>9, <2>1, StaysIn
<1>11. f = [i \in 0..n |-> f[i]]
  BY <1>1, <1>7
<1>12. f \in [0..n -> Lists]
  BY <1>10, <1>11
<1> QED BY <1>1, <1>8, <1>9, <1>12

\* The first items come first.
LEMMA RunTurns ==
    ASSUME NEW es \in Lists
    PROVE  /\ Run(es, <<>>) = es
           /\ \A ws \in Seq(Items) : Run(es, ws) \in Lists
           /\ \A ws \in Seq(Items), w \in Items : Run(es, Append(ws, w)) = Passed(Run(es, ws), w)
<1>1. Run(es, <<>>) = es
  <2>1. PICK ws : ws = <<>>
    OBVIOUS
  <2>2. ws \in Seq(Items) /\ Len(ws) = 0
    BY <2>1
  <2>3. PICK at \in [0..Len(ws) -> Lists] : at[0] = es /\ Run(es, ws) = at[Len(ws)]
    BY <2>2, RunIs
  <2> QED BY <2>1, <2>2, <2>3
<1>2. ASSUME NEW ws \in Seq(Items) PROVE Run(es, ws) \in Lists
  <2>1. PICK at \in [0..Len(ws) -> Lists] : at[0] = es /\ Run(es, ws) = at[Len(ws)]
    BY RunIs
  <2>2. Len(ws) \in 0..Len(ws)
    BY LenProperties
  <2> QED BY <2>1, <2>2
<1>3. ASSUME NEW ws \in Seq(Items), NEW w \in Items
      PROVE  Run(es, Append(ws, w)) = Passed(Run(es, ws), w)
  <2>1. PICK t, n : t = Append(ws, w) /\ n = Len(ws)
    OBVIOUS
  <2>2. t \in Seq(Items) /\ Len(t) = n + 1 /\ n \in Nat /\ t[n + 1] = w /\ \A i \in 1..n : t[i] = ws[i]
    BY <2>1, OneMoreItem
  <2>3. PICK f \in [0..n -> Lists] :
              /\ f[0] = es /\ Run(es, ws) = f[n]
              /\ \A i \in 1..n : f[i] = Passed(f[i - 1], ws[i])
    BY <2>1, RunIs
  <2>4. PICK m, g : /\ m = n + 1 /\ g[0] = es /\ Run(es, t) = g[m]
                    /\ \A i \in 1..m : g[i] = Passed(g[i - 1], t[i])
    <3>1. PICK g \in [0..Len(t) -> Lists] :
              /\ g[0] = es /\ Run(es, t) = g[Len(t)]
              /\ \A i \in 1..Len(t) : g[i] = Passed(g[i - 1], t[i])
      BY <2>2, RunIs
    <3> QED BY <2>2, <3>1
  <2> DEFINE T == {i \in Nat : i <= n => g[i] = f[i]}
  <2>5. 0 \in T
    BY <2>3, <2>4
  <2>6. ASSUME NEW i \in Nat, i \in T PROVE i + 1 \in T
    <3> SUFFICES ASSUME i + 1 <= n PROVE g[i + 1] = f[i + 1]
      OBVIOUS
    <3>1. i + 1 \in 1..n /\ i + 1 \in 1..m /\ i + 1 - 1 = i /\ g[i] = f[i]
      BY <2>2, <2>4, <2>6
    <3> QED BY <2>2, <2>3, <2>4, <3>1
  <2> HIDE DEF T
  <2>7. Nat \subseteq T
    BY <2>5, <2>6, Induction
  <2>8. g[n] = f[n]
    BY <2>2, <2>7 DEF T
  <2>9. m \in 1..m /\ m - 1 = n /\ t[m] = w
    BY <2>2, <2>4
  <2>10. g[m] = Passed(g[n], w)
    BY <2>4, <2>9
  <2> QED BY <2>1, <2>2, <2>3, <2>4, <2>8, <2>10
<1> QED BY <1>1, <1>2, <1>3

\* Two lists of items one after the other.
LEMMA RunMore ==
    ASSUME NEW es \in Lists, NEW u \in Seq(Items), NEW v \in Seq(Items)
    PROVE  u \o v \in Seq(Items) /\ Run(es, u \o v) = Run(Run(es, u), v)
<1> DEFINE S == {x \in Seq(Items) : u \o x \in Seq(Items) /\ Run(es, u \o x) = Run(Run(es, u), x)}
<1>1. <<>> \in S
  <2>1. u \o <<>> = u /\ <<>> \in Seq(Items)
    OBVIOUS
  <2>2. Run(es, u) \in Lists
    BY RunTurns
  <2>3. Run(Run(es, u), <<>>) = Run(es, u)
    BY <2>2, RunTurns
  <2> QED BY <2>1, <2>3
<1>2. ASSUME NEW x \in Seq(Items), NEW w \in Items, x \in S PROVE Append(x, w) \in S
  <2>1. PICK y, l : y = u \o x /\ l = Run(es, u)
    OBVIOUS
  <2>2. u \o Append(x, w) = Append(y, w) /\ y \in Seq(Items) /\ Append(y, w) \in Seq(Items)
        /\ Append(x, w) \in Seq(Items)
    BY <2>1
  <2>3. l \in Lists /\ Run(es, y) = Run(l, x)
    BY <1>2, <2>1, RunTurns
  <2>4. Run(es, Append(y, w)) = Passed(Run(es, y), w)
    BY <2>2, RunTurns
  <2>5. Run(l, Append(x, w)) = Passed(Run(l, x), w)
    BY <2>3, RunTurns
  <2> QED BY <2>1, <2>2, <2>3, <2>4, <2>5
<1> HIDE DEF S
<1>3. Seq(Items) \subseteq S
  BY <1>1, <1>2, ListInduction
<1>4. v \in S
  BY <1>3
<1> QED BY <1>4 DEF S

\* The first items of a list, one after the other.
LEMMA PrefixMore ==
    ASSUME NEW C, NEW s \in Seq(C)
    PROVE  /\ SubSeq(s, 1, 0) = <<>> /\ SubSeq(s, 1, Len(s)) = s
           /\ \A i \in Nat : i + 1 <= Len(s) =>
                 SubSeq(s, 1, i + 1) = Append(SubSeq(s, 1, i), s[i + 1])
           /\ Len(s) # 0 => SubSeq(s, 1, 1) = Append(<<>>, s[1])
<1>1. PICK n : n = Len(s) /\ n \in Nat
  BY LenProperties
<1>2. SubSeq(s, 1, 0) = <<>> /\ SubSeq(s, 1, n) = s
  BY <1>1
<1>3. ASSUME NEW i \in Nat, i + 1 <= n
      PROVE  SubSeq(s, 1, i + 1) = Append(SubSeq(s, 1, i), s[i + 1])
  <2>1. PICK u, v, c, t : u = SubSeq(s, 1, i) /\ v = SubSeq(s, 1, i + 1) /\ c = s[i + 1] /\ t = Append(u, c)
    OBVIOUS
  <2>2. i \in 0..n /\ i + 1 \in 0..n /\ c \in C
    BY <1>1, <1>3, <2>1, ElementOfSeq
  <2>3. /\ u \in Seq(C) /\ Len(u) = i /\ \A j \in 1..i : u[j] = s[j]
        /\ v \in Seq(C) /\ Len(v) = i + 1 /\ \A j \in 1..(i + 1) : v[j] = s[j]
    BY <1>1, <2>1, <2>2, PrefixIs
  <2>4. t \in Seq(C) /\ Len(t) = i + 1 /\ t[i + 1] = c /\ \A j \in 1..i : t[j] = u[j]
    BY <2>1, <2>2, <2>3, OneMoreItem
  <2>5. ASSUME NEW j \in 1..(i + 1) PROVE t[j] = v[j]
    <3>1. j \in 1..i \/ j = i + 1
      BY <2>2
    <3> QED BY <2>1, <2>3, <2>4, <3>1
  <2> QED BY <2>1, <2>3, <2>4, <2>5, SeqEqual
<1>4. n # 0 => SubSeq(s, 1, 1) = Append(<<>>, s[1])
  <2> SUFFICES ASSUME n # 0 PROVE SubSeq(s, 1, 1) = Append(<<>>, s[1])
    OBVIOUS
  <2>1. PICK k, m : k = 0 /\ m = 1
    OBVIOUS
  <2>2. k \in Nat /\ k + 1 <= n /\ k + 1 = m
    BY <1>1, <2>1
  <2>3. SubSeq(s, 1, m) = Append(SubSeq(s, 1, k), s[m])
    BY <1>3, <2>2
  <2> QED BY <1>2, <2>1, <2>3
<1> QED BY <1>1, <1>2, <1>3, <1>4

\* What a list begins with.
Start(ws) == IF ws # <<>> /\ ws[1] = <<Sep>> THEN <<<<Sep>>>> ELSE <<>>

\* The elements of a formed object: the root directory first, an empty name
\* last.
Spelled(es) ==
    /\ es \in Seq(Items)
    /\ \A i \in 1..Len(es) : /\ es[i] = <<Sep>> => i = 1
                             /\ es[i] = <<>> => i = Len(es)

\* The elements of a formed object are spelled like that.
LEMMA FormedSpelled ==
    ASSUME NEW q, Formed(q)
    PROVE  Spelled(Elements(q))
<1>1. PICK s, cs, n, es : s = q.str /\ cs = q.cmpts /\ n = Len(cs) /\ es = Elements(q)
  OBVIOUS
<1>2. q \in Objects /\ s \in Text /\ cs \in Seq(Comps) /\ n \in Nat
  BY <1>1, ObjectIs DEF Formed
<1>3. es \in Seq(Text) /\ \A i \in 1..Len(es) : Plain(es[i])
  BY <1>1, <1>2, ElementsType, ElementsPlain
<1>4. es \in Seq(Items)
  <2>1. \A i \in 1..Len(es) : es[i] \in Items
    BY <1>3, ElementOfSeq DEF Items
  <2>2. es = [i \in 1..Len(es) |-> es[i]] /\ Len(es) \in Nat
    BY <1>3, LenProperties
  <2> QED BY <2>1, <2>2, IsASeq
<1>5. CASE q.type = "MULTI"
  <2>1. es = [i \in 1..n |-> cs[i].text]
    BY <1>1, <1>2, <1>5, LenProperties DEF Elements, TextsOf
  <2>2. Len(es) = n /\ \A i \in 1..n : es[i] = cs[i].text
    BY <1>2, <2>1
  <2>3. ASSUME NEW i \in 1..n
        PROVE  (cs[i].text = <<Sep>> => i = 1) /\ (cs[i].text = <<>> => i = n)
    <3>1. cs[i].type = "ROOT_DIR" => i = 1 /\ cs[i].text = <<Sep>>
      BY <1>1, <1>5 DEF Formed, Listed
    <3>2. cs[i].type # "ROOT_DIR" => IsName(cs[i].text) \/ (cs[i].text = <<>> /\ i = n)
      BY <1>1, <1>5 DEF Formed, Listed
    <3> QED BY <3>1, <3>2, ItemsAre
  <2> QED BY <1>1, <1>4, <2>2, <2>3 DEF Spelled
<1>6. CASE q.type # "MULTI"
  <2>1. Len(es) <= 1
    <3>1. PICK w : es = <<>> \/ es = <<w>>
      BY <1>1, <1>6 DEF Elements
    <3>2. Len(<<>>) = 0 /\ Len(<<w>>) = 1
      OBVIOUS
    <3> QED BY <3>1, <3>2
  <2>2. Len(es) \in Nat
    BY <1>3, LenProperties
  <2>3. \A i \in 1..Len(es) : i = 1 /\ i = Len(es)
    BY <2>1, <2>2
  <2> QED BY <1>1, <1>4, <2>3 DEF Spelled
<1> QED BY <1>5, <1>6

\* The beginning of a run.
LEMMA Starts ==
    /\ <<>> \in Lists /\ <<<<Sep>>>> \in Lists /\ \A ws : Start(ws) \in Lists
    /\ Passed(<<<<Sep>>>>, <<Sep>>) = <<<<Sep>>>>
    /\ \A w : w \in Items => w \in Text /\ Plain(w)
<1>1. <<>> \in Lists /\ <<<<Sep>>>> \in Lists
  BY SmallLists DEF Lists, Solid, Listing
<1>2. Passed(<<<<Sep>>>>, <<Sep>>) = <<<<Sep>>>>
  <2>1. PICK c : c = <<<<Sep>>>>
    OBVIOUS
  <2>2. Solid(c) /\ Bare(c) = c /\ Shut(c) = c
    BY <2>1, SmallLists
  <2>3. \A w : w \in {<<>>, <<Sep>>, DotName} => Passed(c, w) = Shut(c)
    BY <2>2, PassedIs
  <2> QED BY <2>1, <2>2, <2>3
<1>3. \A ws : Start(ws) \in Lists
  BY <1>1 DEF Start
<1> QED BY <1>1, <1>2, <1>3 DEF Items

\* The elements of what the loop of lexically_normal makes.
LEMMA NormalizedShows ==
    ASSUME NEW q, Formed(q), NEW es, es = Elements(q)
    PROVE  /\ Spelled(es) /\ Normalized(es) \in Neat
           /\ Elements(Normalized(es)) = Run(Start(es), es)
<1>1. Spelled(es) /\ Normalized(es) \in Neat
  BY FormedSpelled, NormalizedNeat
<1>2. es \in Seq(Text) /\ \A i \in 1..Len(es) : Plain(es[i])
  BY ElementsType, ElementsPlain DEF Formed
<1>3. PICK n, l : n = Len(es) /\ n \in Nat /\ l = Start(es)
  BY <1>2, LenProperties
<1>4. es \in Seq(Items) /\ l \in Lists
  BY <1>1, <1>3, Starts DEF Spelled
<1>5. PICK f : /\ f[0] = Empty /\ Normalized(es) = f[n]
               /\ \A i \in 1..n : f[i] = NormalStep(f[i - 1], es[i])
               /\ \A i \in 0..n : f[i] \in Neat
  <2>1. \A ret \in Neat, i \in 1..Len(es) : NormalStep(ret, es[i]) \in Neat
    BY <1>2, NormalStepNeat
  <2> QED BY <1>2, <1>3, <2>1, EmptyNeat, NormalizedTurns
<1> DEFINE T == {i \in Nat : i <= n => Elements(f[i]) = IF i = 0 THEN <<>> ELSE Run(l, SubSeq(es, 1, i))}
<1>6. Elements(Empty) = <<>>
  <2>1. Empty.type = "MULTI" /\ Empty.cmpts = <<>>
    BY EmptyIs
  <2>2. TextsOf(<<>>) = <<>>
    <3>1. DOMAIN <<>> = {}
      OBVIOUS
    <3> QED BY <3>1 DEF TextsOf
  <2> QED BY <2>1, <2>2 DEF Elements
<1>7. 0 \in T
  BY <1>5, <1>6
<1>8. ASSUME NEW i \in Nat, i \in T PROVE i + 1 \in T
  <2> SUFFICES ASSUME i + 1 <= n PROVE Elements(f[i + 1]) = Run(l, SubSeq(es, 1, i + 1))
    OBVIOUS
  <2>1. PICK w, u, m, x : w = es[i + 1] /\ u = SubSeq(es, 1, i) /\ m = i + 1 /\ x = f[i]
    OBVIOUS
  <2>2. m \in 1..n /\ m - 1 = i /\ i \in 0..n
    BY <1>3, <2>1
  <2>3. w \in Items /\ Plain(w) /\ x \in Neat /\ f[m] = NormalStep(x, w) /\ u \in Seq(Items)
    <3>1. w \in Items /\ Plain(w)
      BY <1>2, <1>3, <1>4, <2>1, <2>2, ElementOfSeq
    <3>2. f[m] = NormalStep(f[m - 1], es[m])
      BY <1>5, <2>2
    <3>3. u \in Seq(Items)
      BY <1>3, <1>4, <2>1, <2>2, PrefixIs
    <3> QED BY <1>5, <2>1, <2>2, <3>1, <3>2, <3>3
  <2>4. Run(l, SubSeq(es, 1, m)) = Passed(Run(l, u), w)
    <3>1. SubSeq(es, 1, m) = Append(u, w)
      BY <1>3, <1>4, <2>1, PrefixMore
    <3>2. Run(l, Append(u, w)) = Passed(Run(l, u), w)
      BY <1>4, <2>3, RunTurns
    <3> QED BY <3>1, <3>2
  <2>5. w # <<Sep>> => Elements(f[m]) = Passed(Elements(x), w)
    BY <2>3, NormalStepIs
  <2>6. w = <<Sep>> => Elements(f[m]) = <<<<Sep>>>>
    BY <2>3, NormalStepIs
  <2>7. CASE i = 0
    <3>1. u = <<>>
      BY <1>4, <2>1, <2>7, PrefixMore
    <3>2. Run(l, u) = l /\ Elements(x) = <<>>
      BY <1>4, <1>5, <1>6, <2>1, <2>7, <3>1, RunTurns
    <3>3. es # <<>> /\ es[1] = w
      <4>1. es # <<>>
        BY <1>3, <2>2
      <4> QED BY <2>1, <2>7, <4>1
    <3>4. CASE w = <<Sep>>
      <4>1. l = <<<<Sep>>>>
        BY <1>3, <3>3, <3>4 DEF Start
      <4> QED BY <2>1, <2>4, <2>6, <3>2, <3>4, <4>1, Starts
    <3>5. CASE w # <<Sep>>
      <4>1. l = <<>>
        BY <1>3, <3>3, <3>5 DEF Start
      <4> QED BY <2>1, <2>4, <2>5, <3>2, <3>5, <4>1
    <3> QED BY <3>4, <3>5
  <2>8. CASE i # 0
    <3>1. Elements(x) = Run(l, u)
      BY <1>8, <2>1, <2>2, <2>8
    <3>2. w # <<Sep>>
      <4>1. w = <<Sep>> => m = 1
        BY <1>1, <1>3, <2>1, <2>2 DEF Spelled
      <4> QED BY <2>1, <2>8, <4>1
    <3> QED BY <2>1, <2>4, <2>5, <3>1, <3>2
  <2> QED BY <2>7, <2>8
<1> HIDE DEF T
<1>9. Nat \subseteq T
  BY <1>7, <1>8, Induction
<1>10. Elements(f[n]) = IF n = 0 THEN <<>> ELSE Run(l, SubSeq(es, 1, n))
  BY <1>3, <1>9 DEF T
<1>11. CASE n = 0
  <2>1. es = <<>>
    BY <1>2, <1>3, <1>11, EmptySeq
  <2>2. l = <<>> /\ Run(l, es) = l
    BY <1>3, <1>4, <2>1, RunTurns DEF Start
  <2> QED BY <1>1, <1>3, <1>5, <1>10, <1>11, <2>2
<1>12. CASE n # 0
  BY <1>1, <1>3, <1>4, <1>5, <1>10, <1>12, PrefixMore
<1> QED BY <1>11, <1>12

-----------------------------------------------------------------------------
(* The list of names and separators.                                       *)

\* A separator after every name, a name after every separator.
Mixed(ts) ==
    /\ ts \in Seq(Items)
    /\ \A i \in 1..Len(ts) : ts[i] # <<>>
    /\ \A i \in 1..Len(ts) : i # 1 => (ts[i] = <<Sep>> <=> ts[i - 1] # <<Sep>>)

\* A list is closed if it is as a separator leaves it.
Closed(es) == es \in Lists /\ Shut(Bare(es)) = es

\* What a separator closes.
LEMMA ClosedIs ==
    ASSUME NEW es \in Lists
    PROVE  /\ Solid(Bare(es)) /\ Passed(es, <<Sep>>) = Shut(Bare(es))
           /\ Closed(Passed(es, <<Sep>>))
           /\ \A w : Passed(Passed(es, <<Sep>>), w) = Passed(es, w)
           /\ Passed(es, <<>>) = Passed(es, <<Sep>>)
           /\ \A w : w \in {<<>>, <<Sep>>, DotName} /\ Closed(es) => Passed(es, w) = es
<1>1. PICK b : b = Bare(es)
  OBVIOUS
<1>2. Solid(b)
  BY <1>1, ListingIs DEF Lists
<1>3. \A w : w \in {<<>>, <<Sep>>, DotName} => Passed(es, w) = Shut(b)
  BY <1>1, <1>2, PassedIs
<1>4. PICK c : c = Passed(es, <<Sep>>)
  OBVIOUS
<1>5. c = Shut(b) /\ Bare(c) = b /\ Listing(c)
  BY <1>2, <1>3, <1>4, ShutIs
<1>6. c \in Lists
  BY <1>5 DEF Lists, Listing
<1>7. \A w : Passed(c, w) = Passed(es, w)
  BY <1>1, <1>5 DEF Passed
<1> QED BY <1>1, <1>2, <1>3, <1>4, <1>5, <1>6, <1>7 DEF Closed

\* Nothing, the root directory and a list that begins are closed.
LEMMA StartsClosed ==
    /\ Closed(<<>>) /\ Closed(<<<<Sep>>>>) /\ \A ws : Closed(Start(ws))
<1>1. Closed(<<>>)
  <2>1. PICK c : c = <<>>
    OBVIOUS
  <2>2. c \in Lists /\ Bare(c) = c /\ Shut(c) = c
    BY <2>1, Starts, SmallLists
  <2> QED BY <2>1, <2>2 DEF Closed
<1>2. Closed(<<<<Sep>>>>)
  <2>1. PICK c : c = <<<<Sep>>>>
    OBVIOUS
  <2>2. c \in Lists /\ Bare(c) = c /\ Shut(c) = c
    BY <2>1, Starts, SmallLists
  <2> QED BY <2>1, <2>2 DEF Closed
<1> QED BY <1>1, <1>2 DEF Start

\* A list of names and separators with one item more.
LEMMA MixedMore ==
    ASSUME NEW ts, Mixed(ts), NEW w \in Items, w # <<>>,
           ts = <<>> \/ (w = <<Sep>> <=> Last(ts) # <<Sep>>)
    PROVE  /\ Mixed(Append(ts, w)) /\ Append(ts, w) # <<>> /\ Last(Append(ts, w)) = w
           /\ ts # <<>> => Start(Append(ts, w)) = Start(ts)
           /\ ts = <<>> => Start(Append(ts, w)) = IF w = <<Sep>> THEN <<<<Sep>>>> ELSE <<>>
<1>1. PICK t, n : t = Append(ts, w) /\ n = Len(ts)
  OBVIOUS
<1>2. /\ t \in Seq(Items) /\ Len(t) = n + 1 /\ n \in Nat /\ t[n + 1] = w /\ t # <<>> /\ Last(t) = w
      /\ \A i \in 1..n : t[i] = ts[i]
  BY <1>1, OneMoreItem DEF Mixed
<1>3. (ts = <<>> <=> n = 0) /\ Last(ts) = ts[n]
  BY <1>1, EmptySeq DEF Mixed, Last
<1>4. ASSUME NEW i \in 1..(n + 1)
      PROVE  t[i] # <<>> /\ (i # 1 => (t[i] = <<Sep>> <=> t[i - 1] # <<Sep>>))
  <2>1. CASE i = n + 1
    <3>1. i # 1 => n \in 1..n /\ i - 1 = n
      BY <1>2, <2>1
    <3>2. i # 1 => t[i - 1] = Last(ts) /\ ts # <<>>
      BY <1>2, <1>3, <3>1
    <3>3. t[i] = w
      BY <1>2, <2>1
    <3> QED BY <3>2, <3>3
  <2>2. CASE i # n + 1
    <3>1. i \in 1..n /\ (i # 1 => i - 1 \in 1..n)
      BY <1>2, <2>2
    <3> QED BY <1>1, <1>2, <3>1 DEF Mixed
  <2> QED BY <2>1, <2>2
<1>5. Mixed(t)
  BY <1>2, <1>4 DEF Mixed
<1>6. t[1] = IF n = 0 THEN w ELSE ts[1]
  BY <1>2
<1> QED BY <1>1, <1>2, <1>3, <1>5, <1>6 DEF Start

\* The tokens that stand for an element.
Shown(es, i) ==
    (IF i > 1 /\ es[i - 1] # <<Sep>> THEN <<<<Sep>>>> ELSE <<>>)
        \o (IF es[i] = <<>> THEN <<>> ELSE <<es[i]>>)

\* t is the list of names and separators for the first i elements.
Tokened(t, es, i) ==
    /\ Mixed(t) /\ Run(Start(es), t) = Run(Start(es), SubSeq(es, 1, i))
    /\ es[i] # <<>> => t # <<>> /\ Last(t) = es[i]
    /\ t # <<>> => Start(t) = Start(es)
    /\ t = <<>> => Start(es) = <<>>

\* Nothing is such a list of names and separators.
LEMMA EmptyMixed ==
    Mixed(<<>>) /\ Start(<<>>) = <<>> /\ <<>> \in Seq(Items)
<1>1. PICK c : c = <<>>
  OBVIOUS
<1>2. c \in Seq(Items) /\ Len(c) = 0
  BY <1>1
<1>3. \A i \in 1..Len(c) : FALSE
  BY <1>2
<1> QED BY <1>1, <1>2, <1>3 DEF Mixed, Start

\* The items of the lists.
LEMMA ItemsIn ==
    /\ <<Sep>> \in Items /\ <<>> \in Items /\ DotDot \in Items /\ DotName \in Items
    /\ \A w : IsName(w) => w \in Items
    /\ \A w \in Items : w = <<>> \/ w = <<Sep>> \/ IsName(w)
BY ItemsAre DEF Items, Plain

\* The first element.
LEMMA TokensFirst ==
    ASSUME NEW es, Spelled(es), Len(es) # 0
    PROVE  Tokened(Shown(es, 1), es, 1) /\ Shown(es, 1) \in Seq(Items)
<1>1. PICK w, l, n : w = es[1] /\ l = Start(es) /\ n = Len(es)
  OBVIOUS
<1>2. es \in Seq(Items) /\ n \in Nat /\ 1 \in 1..n /\ w \in Items /\ es # <<>> /\ l \in Lists
  <2>1. es \in Seq(Items) /\ n \in Nat
    BY <1>1, LenProperties DEF Spelled
  <2>2. 1 \in 1..n /\ es # <<>>
    BY <1>1, <2>1
  <2> QED BY <1>1, <2>1, <2>2, ElementOfSeq, Starts
<1>3. l = IF w = <<Sep>> THEN <<<<Sep>>>> ELSE <<>>
  BY <1>1, <1>2 DEF Start
<1>4. SubSeq(es, 1, 1) = Append(<<>>, w)
  BY <1>1, <1>2, PrefixMore
<1>5. CASE w = <<>>
  <2>1. Shown(es, 1) = <<>>
    <3>1. Shown(es, 1) = <<>> \o <<>>
      BY <1>1, <1>5 DEF Shown
    <3> QED BY <3>1
  <2>2. l = <<>> /\ w # <<Sep>>
    BY <1>3, <1>5, ItemsAre
  <2>3. Run(l, <<>>) = l
    BY <1>2, RunTurns
  <2>4. Run(l, Append(<<>>, w)) = Passed(l, w)
    <3>1. Run(l, Append(<<>>, w)) = Passed(Run(l, <<>>), w)
      BY <1>2, EmptyMixed, RunTurns
    <3> QED BY <2>3, <3>1
  <2>5. Passed(l, <<>>) = l
    BY <1>2, <2>2, StartsClosed, ClosedIs
  <2> QED BY <1>1, <1>4, <1>5, <2>1, <2>2, <2>3, <2>4, <2>5, EmptyMixed DEF Tokened
<1>6. CASE w # <<>>
  <2>1. PICK t : t = Append(<<>>, w)
    OBVIOUS
  <2>2. Shown(es, 1) = t
    <3>1. Shown(es, 1) = <<>> \o <<w>>
      BY <1>1, <1>6 DEF Shown
    <3> QED BY <2>1, <3>1
  <2>3. Mixed(t) /\ t # <<>> /\ Last(t) = w /\ Start(t) = l
    BY <1>2, <1>3, <1>6, <2>1, EmptyMixed, MixedMore
  <2>4. t \in Seq(Items)
    BY <2>3 DEF Mixed
  <2> QED BY <1>1, <1>4, <2>1, <2>2, <2>3, <2>4 DEF Tokened
<1> QED BY <1>5, <1>6

\* One element more.
LEMMA TokensNext ==
    ASSUME NEW es, Spelled(es), NEW i \in 1..Len(es), i # 1,
           NEW t, Tokened(t, es, i - 1)
    PROVE  Tokened(t \o Shown(es, i), es, i) /\ Shown(es, i) \in Seq(Items)
<1>1. PICK w, v, l, n, j, r, u : /\ w = es[i] /\ l = Start(es) /\ n = Len(es) /\ j = i - 1 /\ v = es[j]
                        /\ r = Run(l, t) /\ u = SubSeq(es, 1, j)
  OBVIOUS
<1>2. /\ es \in Seq(Items) /\ n \in Nat /\ j \in Nat /\ j + 1 = i /\ j \in 1..n /\ j < n
      /\ w \in Items /\ v \in Items /\ l \in Lists /\ i > 1
  <2>1. es \in Seq(Items) /\ n \in Nat
    BY <1>1, LenProperties DEF Spelled
  <2>2. j \in Nat /\ j + 1 = i /\ j \in 1..n /\ j < n /\ i > 1
    BY <1>1, <2>1
  <2> QED BY <1>1, <2>1, <2>2, ElementOfSeq, Starts
<1>3. v # <<>> /\ w # <<Sep>>
  <2>1. (v = <<>> => j = n) /\ (w = <<Sep>> => i = 1)
    BY <1>1, <1>2 DEF Spelled
  <2> QED BY <1>2, <2>1
<1>4. Mixed(t) /\ t # <<>> /\ Last(t) = v /\ Start(t) = l /\ r = Run(l, u) /\ t \in Seq(Items)
  <2>1. Mixed(t) /\ t # <<>> /\ Last(t) = v /\ Start(t) = l /\ r = Run(l, u)
    BY <1>1, <1>3 DEF Tokened
  <2> QED BY <2>1 DEF Mixed
<1>5. r \in Lists
  BY <1>1, <1>2, <1>4, RunTurns
<1>6. Run(l, SubSeq(es, 1, i)) = Passed(r, w)
  <2>1. SubSeq(es, 1, j + 1) = Append(u, es[j + 1])
    BY <1>1, <1>2, PrefixMore
  <2>2. SubSeq(es, 1, i) = Append(u, w)
    BY <1>1, <1>2, <2>1
  <2>3. u \in Seq(Items)
    <3>1. j \in 0..n
      BY <1>2
    <3> QED BY <1>1, <1>2, <3>1, PrefixIs
  <2>4. Run(l, Append(u, w)) = Passed(Run(l, u), w)
    BY <1>2, <2>3, RunTurns
  <2> QED BY <1>4, <2>2, <2>4
<1>7. PICK c, s : s = Append(t, <<Sep>>) /\ c = Passed(r, <<Sep>>)
  OBVIOUS
<1>8. v # <<Sep>> =>
        /\ Mixed(s) /\ s # <<>> /\ Last(s) = <<Sep>> /\ Start(s) = l /\ s \in Seq(Items)
        /\ Run(l, s) = c /\ c \in Lists /\ Passed(c, w) = Passed(r, w) /\ Passed(r, <<>>) = c
  <2> SUFFICES ASSUME v # <<Sep>>
               PROVE  /\ Mixed(s) /\ s # <<>> /\ Last(s) = <<Sep>> /\ Start(s) = l /\ s \in Seq(Items)
                      /\ Run(l, s) = c /\ c \in Lists /\ Passed(c, w) = Passed(r, w) /\ Passed(r, <<>>) = c
    OBVIOUS
  <2>1. Mixed(s) /\ s # <<>> /\ Last(s) = <<Sep>> /\ Start(s) = l
    BY <1>4, <1>7, ItemsIn, ItemsAre, MixedMore
  <2>2. Run(l, s) = c
    <3>1. Run(l, Append(t, <<Sep>>)) = Passed(Run(l, t), <<Sep>>)
      BY <1>2, <1>4, ItemsIn, RunTurns
    <3> QED BY <1>1, <1>7, <3>1
  <2>3. Closed(c) /\ Passed(c, w) = Passed(r, w) /\ Passed(r, <<>>) = c
    BY <1>5, <1>7, ClosedIs
  <2> QED BY <2>1, <2>2, <2>3 DEF Mixed, Closed
<1>9. CASE v # <<Sep>> /\ w = <<>>
  <2>1. t \o Shown(es, i) = s /\ Shown(es, i) \in Seq(Items)
    <3>1. Shown(es, i) = <<<<Sep>>>> \o <<>>
      BY <1>1, <1>2, <1>9 DEF Shown
    <3>2. PICK e : e = <<Sep>>
      OBVIOUS
    <3>3. e \in Items /\ Shown(es, i) = <<e>>
      BY <3>1, <3>2, ItemsIn
    <3> QED BY <1>4, <1>7, <3>2, <3>3
  <2> QED BY <1>1, <1>6, <1>8, <1>9, <2>1 DEF Tokened
<1>10. CASE v # <<Sep>> /\ w # <<>>
  <2>1. t \o Shown(es, i) = Append(s, w) /\ Shown(es, i) \in Seq(Items)
    <3>1. Shown(es, i) = <<<<Sep>>>> \o <<w>>
      BY <1>1, <1>2, <1>10 DEF Shown
    <3>2. PICK e : e = <<Sep>>
      OBVIOUS
    <3>3. e \in Items /\ Shown(es, i) = <<e, w>>
      <4>1. e \in Items
        BY <3>2, ItemsIn
      <4>2. PICK a, b, g : a = <<e>> /\ b = <<w>> /\ g = <<e, w>>
        OBVIOUS
      <4>3. a \in Seq(Items) /\ b \in Seq(Items) /\ g \in Seq(Items)
        BY <1>2, <4>1, <4>2
      <4>4. PICK f : f = a \o b
        OBVIOUS
      <4>5. Len(a) = 1 /\ a[1] = e /\ Len(b) = 1 /\ b[1] = w /\ Len(g) = 2 /\ g[1] = e /\ g[2] = w
        BY <4>2
      <4>6. f \in Seq(Items) /\ Len(f) = 2 /\ f[1] = e /\ f[2] = w
        <5>1. /\ f \in Seq(Items) /\ Len(f) = Len(a) + Len(b)
              /\ \A k \in 1..(Len(a) + Len(b)) :
                    f[k] = IF k <= Len(a) THEN a[k] ELSE b[k - Len(a)]
          BY <4>3, <4>4, ConcatProperties
        <5>2. f \in Seq(Items) /\ Len(f) = 2 /\ f[1] = a[1] /\ f[2] = b[1]
          BY <4>5, <5>1
        <5> QED BY <4>5, <5>2
      <4>7. \A k \in 1..2 : k = 1 \/ k = 2
        OBVIOUS
      <4>8. g = f
        BY <4>3, <4>5, <4>6, <4>7, SeqEqual
      <4> QED BY <3>1, <3>2, <4>1, <4>2, <4>4, <4>8
    <3>4. t \o <<e, w>> = Append(Append(t, e), w)
      BY <1>2, <1>4, <3>3
    <3> QED BY <1>2, <1>7, <3>2, <3>3, <3>4
  <2>2. Mixed(Append(s, w)) /\ Append(s, w) # <<>> /\ Last(Append(s, w)) = w /\ Start(Append(s, w)) = l
    BY <1>2, <1>3, <1>8, <1>10, MixedMore
  <2>3. Run(l, Append(s, w)) = Passed(Run(l, s), w)
    BY <1>2, <1>8, <1>10, RunTurns
  <2> QED BY <1>1, <1>6, <1>8, <1>10, <2>1, <2>2, <2>3 DEF Tokened
<1>11. CASE v = <<Sep>> /\ w # <<>>
  <2>1. t \o Shown(es, i) = Append(t, w) /\ Shown(es, i) \in Seq(Items)
    <3>1. Shown(es, i) = <<>> \o <<w>>
      BY <1>1, <1>2, <1>11 DEF Shown
    <3>2. Shown(es, i) = <<w>>
      BY <3>1
    <3> QED BY <1>2, <1>4, <3>2
  <2>2. Mixed(Append(t, w)) /\ Append(t, w) # <<>> /\ Last(Append(t, w)) = w /\ Start(Append(t, w)) = l
    BY <1>2, <1>3, <1>4, <1>11, MixedMore
  <2>3. Run(l, Append(t, w)) = Passed(r, w)
    <3>1. Run(l, Append(t, w)) = Passed(Run(l, t), w)
      BY <1>2, <1>4, RunTurns
    <3> QED BY <1>1, <3>1
  <2> QED BY <1>1, <1>6, <1>11, <2>1, <2>2, <2>3 DEF Tokened
<1>12. CASE v = <<Sep>> /\ w = <<>>
  <2>1. t \o Shown(es, i) = t /\ Shown(es, i) \in Seq(Items)
    <3>1. Shown(es, i) = <<>> \o <<>>
      BY <1>1, <1>2, <1>12 DEF Shown
    <3>2. Shown(es, i) = <<>>
      BY <3>1
    <3> QED BY <1>4, <3>2
  <2>2. Passed(r, <<>>) = r
    <3>1. j = 1
      BY <1>1, <1>2, <1>12 DEF Spelled
    <3>2. l = <<<<Sep>>>>
      <4>1. es # <<>> /\ es[1] = <<Sep>>
        <5>1. es # <<>>
          BY <1>1, <1>2
        <5> QED BY <1>1, <1>12, <3>1, <5>1
      <4> QED BY <1>1, <4>1 DEF Start
    <3>3. u = Append(<<>>, v)
      <4>1. SubSeq(es, 1, 1) = Append(<<>>, es[1])
        <5>1. Len(es) # 0
          BY <1>1, <1>2
        <5> QED BY <1>2, <5>1, PrefixMore
      <4> QED BY <1>1, <3>1, <4>1
    <3>4. Run(l, Append(<<>>, v)) = Passed(Run(l, <<>>), v) /\ Run(l, <<>>) = l
      BY <1>2, EmptyMixed, RunTurns
    <3>5. r = l
      BY <1>4, <1>12, <3>2, <3>3, <3>4, Starts
    <3> QED BY <1>5, <3>2, <3>5, StartsClosed, ClosedIs
  <2> QED BY <1>1, <1>4, <1>6, <1>12, <2>1, <2>2 DEF Tokened
<1> QED BY <1>9, <1>10, <1>11, <1>12

\* The tokens of an object are passed as its elements are.
LEMMA TokensAre ==
    ASSUME NEW q, Formed(q), NEW es, es = Elements(q)
    PROVE  /\ Mixed(Tokens(q)) /\ Start(Tokens(q)) = Start(es)
           /\ Run(Start(es), Tokens(q)) = Run(Start(es), es)
<1>1. PICK n, seqs : n = Len(es) /\ seqs = [i \in DOMAIN es |-> Shown(es, i)]
  OBVIOUS
<1>2. Spelled(es) /\ es \in Seq(Items) /\ n \in Nat /\ DOMAIN es = 1..n /\ Start(es) \in Lists
  <2>1. Spelled(es)
    BY FormedSpelled
  <2>2. es \in Seq(Items)
    BY <2>1 DEF Spelled
  <2> QED BY <1>1, <2>1, <2>2, LenProperties, Starts
<1>3. Tokens(q) = FlattenSeq(seqs)
  BY <1>1 DEF Tokens, Shown
<1>4. CASE n = 0
  <2>1. es = <<>>
    BY <1>1, <1>2, <1>4, EmptySeq
  <2>2. seqs = <<>>
    <3>1. seqs = [i \in 1..0 |-> Shown(es, i)]
      BY <1>1, <1>2, <1>4
    <3> QED BY <3>1
  <2>3. FlattenSeq(<<>>) = <<>>
    <3>1. Len(<<>>) = 0
      OBVIOUS
    <3> QED BY <3>1 DEF FlattenSeq
  <2> QED BY <1>3, <2>1, <2>2, <2>3, EmptyMixed
<1>5. CASE n # 0
  <2>1. 1 \in 1..n /\ n \in 1..n
    BY <1>2, <1>5
  <2>2. Tokened(Shown(es, 1), es, 1) /\ Shown(es, 1) \in Seq(Items)
    BY <1>1, <1>2, <1>5, TokensFirst
  <2>3. \A i \in 1..n : Shown(es, i) \in Seq(Items)
    <3> SUFFICES ASSUME NEW i \in 1..n PROVE Shown(es, i) \in Seq(Items)
      OBVIOUS
    <3>1. PICK a, b : /\ a = (IF i > 1 /\ es[i - 1] # <<Sep>> THEN <<<<Sep>>>> ELSE <<>>)
                      /\ b = (IF es[i] = <<>> THEN <<>> ELSE <<es[i]>>)
      OBVIOUS
    <3>2. es[i] \in Items
      BY <1>1, <1>2, ElementOfSeq
    <3>3. a \in Seq(Items)
      <4>1. <<>> \in Seq(Items)
        BY EmptyMixed
      <4>2. PICK e : e = <<Sep>> /\ e \in Items
        BY ItemsIn
      <4>3. <<e>> \in Seq(Items)
        BY <4>2
      <4> QED BY <3>1, <4>1, <4>2, <4>3
    <3>4. b \in Seq(Items)
      BY <3>1, <3>2
    <3>5. Shown(es, i) = a \o b
      BY <3>1 DEF Shown
    <3> QED BY <3>3, <3>4, <3>5
  <2>4. seqs \in Seq(Seq(Items)) /\ Len(seqs) = n /\ \A i \in 1..n : seqs[i] = Shown(es, i)
    <3>1. seqs = [i \in 1..n |-> Shown(es, i)]
      BY <1>1, <1>2
    <3> QED BY <1>2, <2>3, <3>1, IsASeq
  <2>5. PICK at : Flattens(at, seqs, n, Seq(Items))
    BY <1>2, <1>5, <2>4, FlattenTurns
  <2>6. at[1] = Shown(es, 1) /\ FlattenSeq(seqs) = at[n]
    BY <2>1, <2>4, <2>5 DEF Flattens
  <2>7. \A i \in 1..n : i # 1 => at[i] = at[i - 1] \o Shown(es, i)
    BY <2>4, <2>5 DEF Flattens
  <2> DEFINE T == {i \in Nat : i + 1 <= n => Tokened(at[i + 1], es, i + 1)}
  <2>8. 0 \in T
    BY <2>2, <2>6
  <2>9. ASSUME NEW i \in Nat, i \in T PROVE i + 1 \in T
    <3> SUFFICES ASSUME i + 1 + 1 <= n PROVE Tokened(at[i + 1 + 1], es, i + 1 + 1)
      OBVIOUS
    <3>1. PICK k, m : k = i + 1 /\ m = k + 1
      OBVIOUS
    <3>2. m \in 1..n /\ m # 1 /\ m - 1 = k /\ Tokened(at[k], es, k)
      BY <1>2, <2>9, <3>1
    <3>3. at[m] = at[k] \o Shown(es, m)
      BY <2>7, <3>2
    <3>4. Tokened(at[k] \o Shown(es, m), es, m)
      BY <1>1, <1>2, <3>2, TokensNext
    <3> QED BY <3>1, <3>3, <3>4
  <2> HIDE DEF T
  <2>10. Nat \subseteq T
    BY <2>8, <2>9, Induction
  <2>11. Tokened(at[n], es, n)
    <3>1. n - 1 \in Nat /\ n - 1 + 1 = n
      BY <1>2, <1>5
    <3>2. n - 1 \in T
      BY <2>10, <3>1
    <3> QED BY <1>2, <3>1, <3>2 DEF T
  <2>12. SubSeq(es, 1, n) = es
    BY <1>1, <1>2, PrefixMore
  <2>13. at[n] = <<>> => Start(at[n]) = <<>>
    BY EmptyMixed
  <2> QED BY <1>3, <2>6, <2>11, <2>12, <2>13 DEF Tokened
<1> QED BY <1>4, <1>5

-----------------------------------------------------------------------------
(* Rewriting the list of names and separators.                             *)

\* What a turn keeps, and a turn that changes something shortens, is used up
\* by the turns.
LEMMA RewrittenIs ==
    ASSUME NEW C, NEW W \in SUBSET Seq(C), NEW ts \in W, NEW rule,
           \A x \in W : rule[x] \in W /\ (rule[x] = x \/ Len(rule[x]) < Len(x))
    PROVE  Rewritten(ts, rule) \in W /\ rule[Rewritten(ts, rule)] = Rewritten(ts, rule)
<1>1. PICK n : n = Len(ts) /\ n \in Nat
  BY LenProperties
<1> DEFINE Is(f) == f = [k \in 0..n |-> IF k = 0 THEN ts ELSE rule[f[k - 1]]]
           f == CHOOSE f : Is(f)
           next == [i \in 1..n |-> [x \in W |-> rule[x]]]
<1>2. PICK at : Computes(at, n, W, ts, next)
  <2>1. Keeps(next, n, W)
    BY DEF Keeps
  <2>2. PICK nx : nx = next
    OBVIOUS
  <2> HIDE DEF next
  <2> QED BY <1>1, <2>1, <2>2, RecursionIn
<1>3. at \in [0..n -> W] /\ at[0] = ts
  BY <1>2 DEF Computes
<1>4. ASSUME NEW i \in 1..n PROVE at[i] = rule[at[i - 1]]
  <2>1. i - 1 \in 0..n
    BY <1>1
  <2>2. at[i - 1] \in W
    BY <1>3, <2>1
  <2> QED BY <1>1, <1>2, <2>2 DEF Computes
<1>5. Is(at)
  BY <1>1, <1>3, <1>4
<1>6. Is(f)
  BY <1>5
<1>7. Rewritten(ts, rule) = f[n]
  BY <1>1 DEF Rewritten
<1> HIDE DEF f
<1>8. f[0] = ts /\ \A i \in 1..n : f[i] = rule[f[i - 1]]
  BY <1>1, <1>6
<1> DEFINE T == {k \in Nat : k <= n => f[k] \in W /\ (rule[f[k]] = f[k] \/ Len(f[k]) + k <= n)}
<1>9. 0 \in T
  BY <1>1, <1>8
<1>10. ASSUME NEW k \in Nat, k \in T PROVE k + 1 \in T
  <2> SUFFICES ASSUME k + 1 <= n
               PROVE  f[k + 1] \in W /\ (rule[f[k + 1]] = f[k + 1] \/ Len(f[k + 1]) + (k + 1) <= n)
    OBVIOUS
  <2>1. PICK x, y, m : x = f[k] /\ y = f[k + 1] /\ m = k + 1
    OBVIOUS
  <2>2. m \in 1..n /\ m - 1 = k /\ x \in W /\ (rule[x] = x \/ Len(x) + k <= n)
    BY <1>1, <1>10, <2>1
  <2>3. y = rule[x]
    BY <1>8, <2>1, <2>2
  <2>4. y \in W /\ (y = x \/ Len(y) < Len(x)) /\ Len(x) \in Nat /\ Len(y) \in Nat
    <3>1. y \in W /\ (y = x \/ Len(y) < Len(x))
      BY <2>2, <2>3
    <3> QED BY <2>2, <3>1, LenProperties
  <2>5. rule[y] = y \/ Len(y) + m <= n
    <3>1. CASE y = x
      BY <2>3, <3>1
    <3>2. CASE Len(y) < Len(x) /\ rule[x] # x
      <4>1. Len(x) + k <= n
        BY <2>2, <3>2
      <4>2. PICK a, b : a = Len(x) /\ b = Len(y)
        OBVIOUS
      <4>3. a \in Nat /\ b \in Nat /\ n \in Nat /\ b < a /\ a + k <= n /\ m = k + 1
        BY <1>1, <2>1, <2>4, <3>2, <4>1, <4>2
      <4>4. b + m <= n
        BY <4>3
      <4> QED BY <4>2, <4>4
    <3> QED BY <2>3, <2>4, <3>1, <3>2
  <2> QED BY <2>1, <2>4, <2>5
<1> HIDE DEF T
<1>11. Nat \subseteq T
  BY <1>9, <1>10, Induction
<1>12. PICK x : x = f[n]
  OBVIOUS
<1>13. x \in W /\ (rule[x] = x \/ Len(x) + n <= n)
  BY <1>1, <1>11, <1>12 DEF T
<1>14. rule[x] = x
  <2> SUFFICES ASSUME rule[x] # x PROVE FALSE
    OBVIOUS
  <2>1. Len(x) \in Nat /\ Len(rule[x]) \in Nat
    BY <1>13, LenProperties
  <2>2. Len(rule[x]) < Len(x)
    BY <1>13
  <2> QED BY <1>1, <1>13, <2>1, <2>2
<1> QED BY <1>7, <1>12, <1>13, <1>14

\* The least of some numbers is one of them.
LEMMA LeastIs ==
    ASSUME NEW S \in SUBSET Nat, S # {}
    PROVE  LeastOf(S) \in S
<1>1. \E m \in S : \A k \in S : m <= k
  BY NatMin
<1> QED BY <1>1 DEF LeastOf

\* The first items of a list of names and separators, and the others.
LEMMA MixedParts ==
    ASSUME NEW ts, Mixed(ts), NEW k \in 0..Len(ts)
    PROVE  LET u == SubSeq(ts, 1, k)
               v == SubSeq(ts, k + 1, Len(ts))
           IN  /\ Mixed(u) /\ Mixed(v) /\ u \o v = ts /\ u \in Seq(Items) /\ v \in Seq(Items)
               /\ Len(u) = k /\ \A i \in 1..k : u[i] = ts[i]
               /\ Len(v) = Len(ts) - k /\ \A i \in 1..Len(v) : v[i] = ts[k + i]
<1>1. PICK u, v, n : u = SubSeq(ts, 1, k) /\ v = SubSeq(ts, k + 1, Len(ts)) /\ n = Len(ts)
  OBVIOUS
<1>2. ts \in Seq(Items) /\ n \in Nat /\ k \in Nat /\ k <= n
  BY <1>1, LenProperties DEF Mixed
<1>3. u \in Seq(Items) /\ Len(u) = k /\ \A i \in 1..k : u[i] = ts[i]
  BY <1>1, <1>2, PrefixIs
<1>4. v \in Seq(Items) /\ Len(v) = n - k /\ \A i \in 1..Len(v) : v[i] = ts[k + i]
  BY <1>1, <1>2, SuffixIs
<1>5. u \o v = ts
  BY <1>1, <1>2, HalvesOf
<1>6. Mixed(u)
  <2>1. ASSUME NEW i \in 1..k
        PROVE  u[i] # <<>> /\ (i # 1 => (u[i] = <<Sep>> <=> u[i - 1] # <<Sep>>))
    <3>1. i \in 1..n /\ (i # 1 => i - 1 \in 1..k)
      BY <1>2
    <3>2. u[i] = ts[i] /\ (i # 1 => u[i - 1] = ts[i - 1])
      BY <1>3, <3>1
    <3>3. ts[i] # <<>> /\ (i # 1 => (ts[i] = <<Sep>> <=> ts[i - 1] # <<Sep>>))
      BY <1>1, <3>1 DEF Mixed
    <3> QED BY <3>2, <3>3
  <2> QED BY <1>3, <2>1 DEF Mixed
<1>7. Mixed(v)
  <2>1. ASSUME NEW i \in 1..(n - k)
        PROVE  v[i] # <<>> /\ (i # 1 => (v[i] = <<Sep>> <=> v[i - 1] # <<Sep>>))
    <3>1. k + i \in 1..n /\ (i # 1 => i - 1 \in 1..(n - k) /\ k + i # 1 /\ k + (i - 1) = (k + i) - 1)
      BY <1>2
    <3>2. v[i] = ts[k + i] /\ (i # 1 => v[i - 1] = ts[(k + i) - 1])
      BY <1>4, <3>1
    <3>3. ts[k + i] # <<>> /\ (k + i # 1 => (ts[k + i] = <<Sep>> <=> ts[(k + i) - 1] # <<Sep>>))
      BY <1>1, <3>1 DEF Mixed
    <3> QED BY <3>1, <3>2, <3>3
  <2> QED BY <1>4, <2>1 DEF Mixed
<1> QED BY <1>1, <1>3, <1>4, <1>5, <1>6, <1>7

\* Two such lists, one of which ends or begins with a separator.
Meets(u, v) == u = <<>> \/ v = <<>> \/ (v[1] = <<Sep>> <=> u[Len(u)] # <<Sep>>)

\* Their list, w.
OneList(w, u, v) ==
    /\ Mixed(w) /\ Len(w) = Len(u) + Len(v)
    /\ \A i \in 1..Len(w) : w[i] = IF i <= Len(u) THEN u[i] ELSE v[i - Len(u)]

\* They make one such list.
LEMMA MixedJoin ==
    ASSUME NEW u, Mixed(u), NEW v, Mixed(v), Meets(u, v)
    PROVE  OneList(u \o v, u, v)
<1>1. PICK k, m, w : k = Len(u) /\ m = Len(v) /\ w = u \o v
  OBVIOUS
<1>2. u \in Seq(Items) /\ v \in Seq(Items) /\ k \in Nat /\ m \in Nat
  BY <1>1, LenProperties DEF Mixed
<1>3. /\ w \in Seq(Items) /\ Len(w) = k + m
      /\ \A i \in 1..(k + m) : w[i] = IF i <= k THEN u[i] ELSE v[i - k]
  <2>1. /\ u \o v \in Seq(Items) /\ Len(u \o v) = Len(u) + Len(v)
        /\ \A i \in 1..Len(u) + Len(v) : (u \o v)[i] = IF i <= Len(u) THEN u[i] ELSE v[i - Len(u)]
    BY <1>2, ConcatProperties
  <2> QED BY <1>1, <2>1
<1>4. (u = <<>> => k = 0) /\ (v = <<>> => m = 0)
  BY <1>1
<1>5. ASSUME NEW i \in 1..(k + m)
      PROVE  w[i] # <<>> /\ (i # 1 => (w[i] = <<Sep>> <=> w[i - 1] # <<Sep>>))
  <2>1. CASE i <= k
    <3>1. i \in 1..k /\ (i # 1 => i - 1 \in 1..(k + m) /\ i - 1 <= k)
      BY <1>2, <2>1
    <3>2. w[i] = u[i] /\ (i # 1 => w[i - 1] = u[i - 1])
      BY <1>3, <2>1, <3>1
    <3>3. u[i] # <<>> /\ (i # 1 => (u[i] = <<Sep>> <=> u[i - 1] # <<Sep>>))
      BY <1>1, <3>1 DEF Mixed
    <3> QED BY <3>2, <3>3
  <2>2. CASE i > k + 1
    <3>1. /\ i - k \in 1..m /\ i - k # 1 /\ ~(i <= k)
          /\ i - 1 \in 1..(k + m) /\ ~(i - 1 <= k) /\ i - 1 - k = i - k - 1
      BY <1>2, <2>2
    <3>2. w[i] = v[i - k] /\ w[i - 1] = v[i - k - 1]
      BY <1>3, <3>1
    <3>3. v[i - k] # <<>> /\ (v[i - k] = <<Sep>> <=> v[i - k - 1] # <<Sep>>)
      BY <1>1, <3>1 DEF Mixed
    <3> QED BY <3>2, <3>3
  <2>3. CASE i = k + 1
    <3>1. i - k = 1 /\ 1 \in 1..m /\ ~(i <= k) /\ m # 0
      BY <1>2, <2>3
    <3>2. w[i] = v[1]
      BY <1>3, <3>1
    <3>3. v[1] # <<>>
      BY <1>1, <3>1 DEF Mixed
    <3>4. i # 1 => w[i - 1] = u[k] /\ k # 0
      <4>1. i # 1 => i - 1 = k /\ k # 0 /\ i - 1 \in 1..(k + m) /\ i - 1 <= k
        BY <1>2, <2>3
      <4> QED BY <1>3, <4>1
    <3>5. k # 0 => (v[1] = <<Sep>> <=> u[k] # <<Sep>>)
      BY <1>1, <1>4, <3>1 DEF Meets
    <3> QED BY <3>2, <3>3, <3>4, <3>5
  <2>4. i <= k \/ i > k + 1 \/ i = k + 1
    BY <1>2
  <2> QED BY <2>1, <2>2, <2>3, <2>4
<1>6. Mixed(w)
  BY <1>3, <1>5 DEF Mixed
<1> QED BY <1>1, <1>3, <1>6 DEF OneList

\* What is left when g numbers from h + 1 on are taken from n.
LEMMA CutCount ==
    ASSUME NEW n \in Nat, NEW h \in Nat, NEW k \in Nat, NEW i \in Nat, h + 1 = i, i <= k, k <= n,
           NEW d, d = h + (n - k), NEW g, g = k - i + 1
    PROVE  d \in Nat /\ d + g = n /\ g \in Nat /\ g > 0
OBVIOUS

\* y is ts without the g items from item i on, and the run does not notice.
Trimmed(y, ts, i, g) ==
    /\ Mixed(y) /\ Start(y) = Start(ts) /\ Run(Start(ts), y) = Run(Start(ts), ts)
    /\ Len(y) \in Nat /\ Len(y) + g = Len(ts) /\ g \in Nat /\ g > 0
    /\ \A m \in 1..Len(y) : y[m] = IF m < i THEN ts[m] ELSE ts[m + g]

\* What goes with its separators, and is passed without a trace, may be cut.
LEMMA CutIs ==
    ASSUME NEW ts, Mixed(ts), NEW l, l = Start(ts),
           NEW i \in 1..Len(ts), ts[i] # <<Sep>>, NEW j \in Nat, i <= j, j < Len(ts) => ts[j] = <<Sep>>,
           NEW k, (j > Len(ts) /\ k = Len(ts)) \/ (~(j > Len(ts)) /\ k = j),
           Run(l, SubSeq(ts, 1, k)) = Run(l, SubSeq(ts, 1, i - 1))
    PROVE  Trimmed(Cut(ts, i, j), ts, i, k - i + 1)
<1>1. PICK n, h, u, v, w, y : /\ n = Len(ts) /\ h = i - 1 /\ u = SubSeq(ts, 1, h)
                              /\ v = SubSeq(ts, k + 1, n) /\ w = SubSeq(ts, 1, k) /\ y = u \o v
  OBVIOUS
<1>2. /\ ts \in Seq(Items) /\ n \in Nat /\ i \in 1..n /\ h \in Nat /\ h + 1 = i /\ h \in 0..n
      /\ k \in Nat /\ k \in 0..n /\ i <= k /\ l \in Lists
  <2>1. ts \in Seq(Items) /\ n \in Nat
    BY <1>1, LenProperties DEF Mixed
  <2>2. k \in Nat /\ k \in 0..n /\ i <= k
    BY <1>1, <2>1
  <2> QED BY <1>1, <2>1, <2>2, Starts
<1>3. Cut(ts, i, j) = y
  <2>1. SubSeq(ts, j + 1, n) = v
    <3>1. CASE j > n
      <4>1. k = n
        BY <1>1, <3>1
      <4>2. PICK a, b : a = j + 1 /\ b = k + 1
        OBVIOUS
      <4>3. a \in Int /\ b \in Int /\ n \in Int /\ n < a /\ n < b
        BY <1>2, <3>1, <4>1, <4>2
      <4>4. SubSeq(ts, a, n) = <<>> /\ SubSeq(ts, b, n) = <<>>
        BY <4>3, SubSeqEmpty
      <4> QED BY <1>1, <4>2, <4>4
    <3>2. CASE ~(j > n)
      <4>1. k = j
        BY <1>1, <3>2
      <4> QED BY <1>1, <4>1
    <3> QED BY <3>1, <3>2
  <2> QED BY <1>1, <2>1 DEF Cut
<1>4. Mixed(u) /\ u \in Seq(Items) /\ Len(u) = h /\ \A m \in 1..h : u[m] = ts[m]
  BY <1>1, <1>2, MixedParts
<1>5. /\ Mixed(v) /\ v \in Seq(Items) /\ Len(v) = n - k /\ \A m \in 1..Len(v) : v[m] = ts[k + m]
      /\ w \o v = ts /\ w \in Seq(Items)
  BY <1>1, <1>2, MixedParts
<1>6. v # <<>> => v[1] # <<Sep>> /\ k = j /\ k < n
  <2> SUFFICES ASSUME v # <<>> PROVE v[1] # <<Sep>> /\ k = j /\ k < n
    OBVIOUS
  <2>1. Len(v) # 0
    BY <1>5, EmptySeq
  <2>2. k < n /\ k = j /\ 1 \in 1..Len(v) /\ k + 1 \in 1..n /\ k + 1 # 1 /\ (k + 1) - 1 = k
    BY <1>1, <1>2, <1>5, <2>1
  <2>3. v[1] = ts[k + 1] /\ ts[k] = <<Sep>>
    BY <1>1, <1>5, <2>2
  <2>4. ts[k + 1] = <<Sep>> <=> ts[(k + 1) - 1] # <<Sep>>
    BY <1>1, <2>2 DEF Mixed
  <2>5. ts[(k + 1) - 1] = ts[k]
    BY <2>2
  <2> QED BY <2>2, <2>3, <2>4, <2>5
<1>7. u # <<>> => u[Len(u)] = <<Sep>> /\ h # 0
  <2> SUFFICES ASSUME u # <<>> PROVE u[Len(u)] = <<Sep>> /\ h # 0
    OBVIOUS
  <2>1. h # 0
    BY <1>4, EmptySeq
  <2>2. h \in 1..h /\ i # 1 /\ i - 1 = h
    BY <1>1, <1>2, <2>1
  <2>3. ts[i] = <<Sep>> <=> ts[i - 1] # <<Sep>>
    BY <1>1, <1>2, <2>2 DEF Mixed
  <2> QED BY <1>4, <2>1, <2>2, <2>3
<1>8. /\ Mixed(y) /\ Len(y) = h + (n - k)
      /\ \A m \in 1..Len(y) : y[m] = IF m <= h THEN u[m] ELSE v[m - h]
  <2>1. Meets(u, v)
    BY <1>6, <1>7 DEF Meets
  <2>2. /\ Mixed(y) /\ Len(y) = Len(u) + Len(v)
        /\ \A m \in 1..Len(y) : y[m] = IF m <= Len(u) THEN u[m] ELSE v[m - Len(u)]
    <3>1. y = u \o v
      BY <1>1
    <3>2. Mixed(u) /\ Mixed(v)
      BY <1>4, <1>5
    <3>3. OneList(u \o v, u, v)
      BY <2>1, <3>2, MixedJoin
    <3> QED BY <3>1, <3>3 DEF OneList
  <2> QED BY <1>4, <1>5, <2>2
<1>9. PICK d, g : d = Len(y) /\ g = k - i + 1
  OBVIOUS
<1>10. d = h + (n - k)
  BY <1>8, <1>9
<1>11. d \in Nat /\ d + g = n /\ g \in Nat /\ g > 0 /\ d = h + (n - k)
  <2>1. h \in Nat /\ n \in Nat /\ k \in Nat /\ i \in Nat /\ h + 1 = i /\ i <= k /\ k <= n
    BY <1>2
  <2>2. g = k - i + 1 /\ d = h + (n - k)
    BY <1>9, <1>10
  <2> QED BY <2>1, <2>2, CutCount
<1>12. Run(l, y) = Run(l, ts)
  <2>1. Run(l, u \o v) = Run(Run(l, u), v) /\ Run(l, w \o v) = Run(Run(l, w), v)
    BY <1>2, <1>4, <1>5, RunMore
  <2>2. Run(l, w) = Run(l, u)
    BY <1>1
  <2> QED BY <1>1, <1>5, <2>1, <2>2
<1>13. ASSUME NEW m \in 1..Len(y) PROVE y[m] = IF m < i THEN ts[m] ELSE ts[m + (k - i + 1)]
  <2>1. CASE m < i
    <3>1. m <= h /\ m \in 1..h
      BY <1>2, <2>1
    <3> QED BY <1>4, <1>8, <2>1, <3>1
  <2>2. CASE ~(m < i)
    <3>0. m \in 1..d
      BY <1>9
    <3>1. ~(m <= h) /\ m - h \in 1..(n - k) /\ k + (m - h) = m + (k - i + 1)
      <4>1. h \in Nat /\ n \in Nat /\ k \in Nat /\ i \in Nat /\ h + 1 = i /\ k <= n
        BY <1>2
      <4>2. m \in Nat /\ 1 <= m /\ m <= d /\ d = h + (n - k) /\ ~(m < i)
        BY <1>11, <2>2, <3>0
      <4> QED BY <4>1, <4>2
    <3>2. y[m] = v[m - h]
      BY <1>8, <3>1
    <3>3. v[m - h] = ts[k + (m - h)]
      BY <1>5, <3>1
    <3> QED BY <2>2, <3>1, <3>2, <3>3
  <2> QED BY <2>1, <2>2
<1>14. Len(y) \in Nat /\ Len(y) + (k - i + 1) = n /\ k - i + 1 \in Nat /\ k - i + 1 > 0
  BY <1>9, <1>11
<1>15. Start(y) = l
  <2>1. l = IF ts[1] = <<Sep>> THEN <<<<Sep>>>> ELSE <<>>
    <3>1. ts # <<>>
      BY <1>1, <1>2
    <3> QED BY <1>1, <3>1 DEF Start
  <2>2. CASE i = 1
    <3>1. l = <<>>
      BY <2>1, <2>2
    <3>2. y # <<>> => y[1] # <<Sep>>
      <4>1. h = 0
        BY <1>2, <2>2
      <4>2. u = <<>>
        BY <1>4, <4>1, EmptySeq
      <4>3. y = v
        <5>1. <<>> \o v = v
          BY <1>5
        <5> QED BY <1>1, <4>2, <5>1
      <4> QED BY <1>6, <4>3
    <3> QED BY <3>1, <3>2 DEF Start
  <2>3. CASE i # 1
    <3>1. 1 \in 1..Len(y) /\ 1 < i
      BY <1>2, <1>8, <2>3
    <3>2. y[1] = ts[1]
      BY <1>13, <3>1
    <3>3. y # <<>>
      BY <3>1
    <3> QED BY <2>1, <3>2, <3>3 DEF Start
  <2> QED BY <2>2, <2>3
<1> QED BY <1>1, <1>3, <1>8, <1>12, <1>13, <1>14, <1>15 DEF Trimmed

\* The states of a run over such a list.
LEMMA MixedRun ==
    ASSUME NEW ts, Mixed(ts), NEW l, l = Start(ts)
    PROVE  /\ \A k \in 0..Len(ts) : Run(l, SubSeq(ts, 1, k)) \in Lists
           /\ \A k \in 1..Len(ts) :
                 Run(l, SubSeq(ts, 1, k)) = Passed(Run(l, SubSeq(ts, 1, k - 1)), ts[k])
           /\ \A k \in 1..Len(ts) : ts[k] # <<Sep>> => Closed(Run(l, SubSeq(ts, 1, k - 1)))
           /\ Run(l, SubSeq(ts, 1, 0)) = l /\ SubSeq(ts, 1, Len(ts)) = ts
<1>1. PICK n : n = Len(ts)
  OBVIOUS
<1>2. ts \in Seq(Items) /\ n \in Nat /\ l \in Lists /\ Closed(l)
  BY <1>1, LenProperties, Starts, StartsClosed DEF Mixed
<1>3. ASSUME NEW k \in 0..n PROVE SubSeq(ts, 1, k) \in Seq(Items) /\ Run(l, SubSeq(ts, 1, k)) \in Lists
  <2>1. SubSeq(ts, 1, k) \in Seq(Items)
    BY <1>1, <1>2, PrefixIs
  <2> QED BY <1>2, <2>1, RunTurns
<1>4. ASSUME NEW k \in 1..n
      PROVE  Run(l, SubSeq(ts, 1, k)) = Passed(Run(l, SubSeq(ts, 1, k - 1)), ts[k])
  <2>1. PICK h, u, w : h = k - 1 /\ u = SubSeq(ts, 1, h) /\ w = ts[k]
    OBVIOUS
  <2>2. h \in Nat /\ h + 1 = k /\ h + 1 <= n /\ h \in 0..n /\ w \in Items
    BY <1>1, <1>2, <2>1, ElementOfSeq
  <2>3. SubSeq(ts, 1, h + 1) = Append(SubSeq(ts, 1, h), ts[h + 1])
    BY <1>1, <1>2, <2>2, PrefixMore
  <2>4. SubSeq(ts, 1, k) = Append(u, w)
    BY <2>1, <2>2, <2>3
  <2>5. Run(l, Append(u, w)) = Passed(Run(l, u), w)
    BY <1>2, <1>3, <2>1, <2>2, RunTurns
  <2> QED BY <2>1, <2>4, <2>5
<1>5. Run(l, SubSeq(ts, 1, 0)) = l /\ SubSeq(ts, 1, n) = ts
  BY <1>1, <1>2, PrefixMore, RunTurns
<1>6. ASSUME NEW k \in 1..n, ts[k] # <<Sep>> PROVE Closed(Run(l, SubSeq(ts, 1, k - 1)))
  <2>1. PICK h, r : h = k - 1 /\ r = Run(l, SubSeq(ts, 1, h))
    OBVIOUS
  <2>2. CASE h = 0
    BY <1>2, <1>5, <2>1, <2>2
  <2>3. CASE h # 0
    <3>1. h \in 1..n /\ k # 1 /\ h - 1 \in 0..n
      BY <1>2, <2>1, <2>3
    <3>2. ts[h] = <<Sep>>
      BY <1>1, <1>6, <2>1, <3>1 DEF Mixed
    <3>3. PICK x : x = Run(l, SubSeq(ts, 1, h - 1))
      OBVIOUS
    <3>4. x \in Lists /\ r = Passed(x, <<Sep>>)
      BY <1>3, <1>4, <2>1, <3>1, <3>2, <3>3
    <3>5. Closed(Passed(x, <<Sep>>))
      BY <3>4, ClosedIs
    <3> QED BY <2>1, <3>4, <3>5
  <2> QED BY <2>2, <2>3
<1> QED BY <1>1, <1>3, <1>4, <1>5, <1>6

\* The lists of names and separators that begin with l and leave o, those of
\* them without dots, and without detours.
Lasting(l, o) == {ts \in Seq(Items) : Mixed(ts) /\ Start(ts) = l /\ Run(l, ts) = o}
Dotless(l, o) == {ts \in Lasting(l, o) : Dots(ts) = {}}
Straight(l, o) == {ts \in Dotless(l, o) : Detours(ts) = {}}

\* Items are tokens, so the rules apply to every list of them.
LEMMA ItemsTokens ==
    ASSUME NEW ts \in Seq(Items)
    PROVE  ts \in Seq(Token)
<1>1. PICK n : n = Len(ts) /\ n \in Nat
  BY LenProperties
<1>2. ASSUME NEW i \in 1..n PROVE ts[i] \in Token
  <2>1. ts[i] \in Items
    BY <1>1, ElementOfSeq
  <2> QED BY <2>1 DEF Items, Text, Token
<1>3. PICK f : f = [i \in 1..n |-> ts[i]]
  OBVIOUS
<1>4. f \in Seq(Token)
  BY <1>1, <1>2, <1>3
<1>5. f = ts
  BY <1>1, <1>3, LenProperties
<1> QED BY <1>4, <1>5

\* The neighbours of a name and of a separator.
LEMMA Neighbours ==
    ASSUME NEW ts, Mixed(ts), NEW i \in 1..Len(ts), NEW j, j = i + 1, j <= Len(ts)
    PROVE  j \in 1..Len(ts) /\ ts[i] \in Items /\ ts[j] \in Items
           /\ (ts[i] # <<Sep>> <=> ts[j] = <<Sep>>) /\ (ts[i] # <<Sep>> => IsName(ts[i]))
<1>1. PICK n : n = Len(ts) /\ n \in Nat /\ ts \in Seq(Items)
  BY LenProperties DEF Mixed
<1>2. i \in 1..n /\ j \in 1..n /\ j # 1 /\ j - 1 = i
  BY <1>1
<1>3. ts[i] \in Items /\ ts[j] \in Items
  BY <1>1, <1>2, ElementOfSeq
<1>4. ts[i] # <<>> /\ (ts[j] = <<Sep>> <=> ts[j - 1] # <<Sep>>)
  BY <1>1, <1>2 DEF Mixed
<1> QED BY <1>1, <1>2, <1>3, <1>4, ItemsIn

\* What a run over the first k items leaves.
At(ts, k) == Run(Start(ts), SubSeq(ts, 1, k))

\* One item after the other.
LEMMA AtIs ==
    ASSUME NEW ts, Mixed(ts)
    PROVE  /\ \A k \in 0..Len(ts) : At(ts, k) \in Lists
           /\ \A k \in 1..Len(ts) : At(ts, k) = Passed(At(ts, k - 1), ts[k])
           /\ \A k \in 1..Len(ts) : ts[k] # <<Sep>> => Closed(At(ts, k - 1))
           /\ At(ts, 0) = Start(ts) /\ At(ts, Len(ts)) = Run(Start(ts), ts)
<1>1. PICK l : l = Start(ts)
  OBVIOUS
<1>2. /\ \A k \in 0..Len(ts) : Run(l, SubSeq(ts, 1, k)) \in Lists
      /\ \A k \in 1..Len(ts) :
            Run(l, SubSeq(ts, 1, k)) = Passed(Run(l, SubSeq(ts, 1, k - 1)), ts[k])
      /\ \A k \in 1..Len(ts) : ts[k] # <<Sep>> => Closed(Run(l, SubSeq(ts, 1, k - 1)))
      /\ Run(l, SubSeq(ts, 1, 0)) = l /\ SubSeq(ts, 1, Len(ts)) = ts
  BY <1>1, MixedRun
<1> QED BY <1>1, <1>2 DEF At

\* y is ts without some items from item i on.
Shorter(y, ts, i) ==
    \E g \in Nat : /\ Len(y) + g = Len(ts)
                   /\ \A m \in 1..Len(y) : y[m] = IF m < i THEN ts[m] ELSE ts[m + g]

\* A cut that the run does not notice.
LEMMA CutLasts ==
    ASSUME NEW l, NEW o, NEW ts \in Lasting(l, o),
           NEW i \in 1..Len(ts), ts[i] # <<Sep>>, NEW j \in Nat, i <= j, j < Len(ts) => ts[j] = <<Sep>>,
           NEW k, (j > Len(ts) /\ k = Len(ts)) \/ (~(j > Len(ts)) /\ k = j),
           At(ts, k) = At(ts, i - 1)
    PROVE  LET y == Cut(ts, i, j)
           IN  /\ y \in Lasting(l, o) /\ Len(y) < Len(ts)
               /\ Dots(ts) = {} => Dots(y) = {}
               /\ Shorter(y, ts, i)
<1>1. Mixed(ts) /\ l = Start(ts) /\ o = Run(l, ts) /\ ts \in Seq(Items) /\ Len(ts) \in Nat
  BY LenProperties DEF Lasting
<1>2. PICK y, g, n : y = Cut(ts, i, j) /\ g = k - i + 1 /\ n = Len(ts)
  OBVIOUS
<1>3. /\ Mixed(y) /\ Start(y) = l /\ Run(l, y) = Run(l, ts)
      /\ Len(y) \in Nat /\ Len(y) + g = n /\ g \in Nat /\ g > 0
      /\ \A m \in 1..Len(y) : y[m] = IF m < i THEN ts[m] ELSE ts[m + g]
  <2>1. Run(l, SubSeq(ts, 1, k)) = Run(l, SubSeq(ts, 1, i - 1))
    BY <1>1 DEF At
  <2>2. Trimmed(Cut(ts, i, j), ts, i, k - i + 1)
    BY <1>1, <2>1, CutIs
  <2>3. Trimmed(y, ts, i, g)
    BY <1>2, <2>2
  <2> QED BY <1>1, <1>2, <2>3 DEF Trimmed
<1>4. y \in Lasting(l, o)
  BY <1>1, <1>3 DEF Lasting, Mixed
<1>5. Len(y) < n
  BY <1>1, <1>2, <1>3
<1>6. DOMAIN ts = 1..n /\ DOMAIN y = 1..Len(y)
  BY <1>1, <1>2, <1>3, LenProperties DEF Mixed
<1>7. ASSUME Dots(ts) = {} PROVE Dots(y) = {}
  <2> SUFFICES ASSUME NEW m \in 1..Len(y), y[m] = DotName PROVE FALSE
    BY <1>6 DEF Dots
  <2>1. m \in 1..n /\ m + g \in 1..n
    BY <1>1, <1>2, <1>3
  <2>2. ts[m] = DotName \/ ts[m + g] = DotName
    BY <1>3
  <2> QED BY <1>6, <1>7, <2>1, <2>2 DEF Dots
<1>8. Shorter(y, ts, i)
  BY <1>2, <1>3 DEF Shorter
<1> QED BY <1>2, <1>4, <1>5, <1>7, <1>8

\* A dot is passed without a trace, with the separator that follows it.
LEMMA DotTurn ==
    ASSUME NEW l, NEW o, NEW ts \in Lasting(l, o), NEW i \in Dots(ts)
    PROVE  Cut(ts, i, i + 1) \in Lasting(l, o) /\ Len(Cut(ts, i, i + 1)) < Len(ts)
<1>1. Mixed(ts) /\ l = Start(ts) /\ ts \in Seq(Items) /\ Len(ts) \in Nat
  BY LenProperties DEF Lasting
<1>2. PICK n, j, h : n = Len(ts) /\ j = i + 1 /\ h = i - 1
  OBVIOUS
<1>3. i \in 1..n /\ ts[i] = DotName /\ ts[i] # <<Sep>> /\ DOMAIN ts = 1..n /\ n \in Nat
  BY <1>1, <1>2, LenProperties, ItemsAre DEF Dots
<1>4. /\ h \in 0..n /\ i \in 0..n /\ j \in Nat /\ i <= j /\ (j <= n => j \in 1..n /\ j - 1 = i)
      /\ (~(j <= n) => i = n) /\ i - 1 = h
  BY <1>2, <1>3
<1>5. At(ts, h) \in Lists /\ Closed(At(ts, h)) /\ At(ts, i) = Passed(At(ts, h), DotName)
  BY <1>1, <1>2, <1>3, <1>4, AtIs
<1>6. At(ts, i) = At(ts, h)
  BY <1>5, ClosedIs
<1>7. j <= n => ts[j] = <<Sep>> /\ At(ts, j) = At(ts, h)
  <2> SUFFICES ASSUME j <= n PROVE ts[j] = <<Sep>> /\ At(ts, j) = At(ts, h)
    OBVIOUS
  <2>1. ts[j] = <<Sep>>
    BY <1>1, <1>2, <1>3, Neighbours
  <2>2. At(ts, j) = Passed(At(ts, i), <<Sep>>)
    BY <1>1, <1>2, <1>4, <2>1, AtIs
  <2> QED BY <1>5, <1>6, <2>1, <2>2, ClosedIs
<1>8. PICK k : (j > n /\ k = n) \/ (~(j > n) /\ k = j)
  OBVIOUS
<1>9. At(ts, k) = At(ts, h)
  <2>1. (j > n /\ k = i) \/ (j <= n /\ k = j)
    BY <1>3, <1>4, <1>8
  <2> QED BY <1>6, <1>7, <2>1
<1>10. j < n => ts[j] = <<Sep>>
  BY <1>4, <1>7
<1>11. i \in 1..Len(ts) /\ (j < Len(ts) => ts[j] = <<Sep>>) /\ At(ts, k) = At(ts, i - 1)
       /\ ((j > Len(ts) /\ k = Len(ts)) \/ (~(j > Len(ts)) /\ k = j))
  BY <1>2, <1>3, <1>4, <1>8, <1>9, <1>10
<1>12. Cut(ts, i, j) \in Lasting(l, o) /\ Len(Cut(ts, i, j)) < Len(ts)
  BY <1>3, <1>4, <1>11, CutLasts
<1> QED BY <1>2, <1>12

\* A parent reference takes the name before it.
LEMMA BackStep ==
    ASSUME NEW es, NEW a, Solid(a), NEW w, IsName(w), w # DotDot, Bare(es) = Append(a, w)
    PROVE  Passed(es, DotDot) = Shut(a)
<1>1. PICK b : b = Append(a, w)
  OBVIOUS
<1>2. Solid(b) /\ Bare(es) = b
  BY <1>1, WithName
<1>3. b # <<>> /\ b[Len(b)] = w /\ Front(b) = a /\ w # <<Sep>>
  BY <1>1, WithName, NameIsNoSep
<1> QED BY <1>2, <1>3 DEF Passed

\* A name followed by a parent reference is passed without a trace.
LEMMA DetourRun ==
    ASSUME NEW es, Closed(es), NEW w, IsName(w), w \notin {DotName, DotDot}
    PROVE  /\ Passed(Passed(Passed(es, w), <<Sep>>), DotDot) = es
           /\ Passed(es, <<Sep>>) = es
<1>1. es \in Lists /\ Solid(Bare(es)) /\ Shut(Bare(es)) = es
  BY ClosedIs DEF Closed
<1>2. PICK b, c : b = Bare(es) /\ c = Append(b, w)
  OBVIOUS
<1>3. Passed(es, w) = c
  <2>1. \A v : IsName(v) /\ v \notin {DotDot, DotName} => Passed(es, v) = Append(b, v)
    BY <1>1, <1>2, PassedIs
  <2> QED BY <1>2, <2>1
<1>4. Solid(c) /\ Bare(c) = c /\ Bare(Shut(c)) = c
  <2>1. Solid(c) /\ Bare(c) = c
    BY <1>1, <1>2, WithName
  <2> QED BY <2>1, ShutIs
<1>5. Passed(c, <<Sep>>) = Shut(c)
  <2>1. \A v : v \in {<<>>, <<Sep>>, DotName} => Passed(c, v) = Shut(c)
    BY <1>4, PassedIs
  <2> QED BY <2>1
<1>6. Passed(Shut(c), DotDot) = Shut(b)
  <2>1. PICK d : d = Shut(c)
    OBVIOUS
  <2>2. Bare(d) = Append(b, w)
    BY <1>2, <1>4, <2>1
  <2>3. Solid(b)
    BY <1>1, <1>2
  <2>4. Passed(d, DotDot) = Shut(b)
    BY <2>2, <2>3, BackStep
  <2> QED BY <2>1, <2>4
<1> QED BY <1>1, <1>2, <1>3, <1>5, <1>6, ClosedIs

\* A name goes with the parent reference that follows it, and their separators.
LEMMA DetourTurn ==
    ASSUME NEW l, NEW o, NEW ts \in Dotless(l, o), NEW i \in Detours(ts)
    PROVE  Cut(ts, i, i + 3) \in Dotless(l, o) /\ Len(Cut(ts, i, i + 3)) < Len(ts)
<1>1. Mixed(ts) /\ l = Start(ts) /\ ts \in Seq(Items) /\ Len(ts) \in Nat /\ ts \in Lasting(l, o) /\ Dots(ts) = {}
  BY LenProperties DEF Lasting, Dotless
<1>2. PICK n, j, h, a, b : n = Len(ts) /\ j = i + 3 /\ h = i - 1 /\ a = i + 1 /\ b = i + 2
  OBVIOUS
<1>3. /\ i \in 1..n /\ b <= n /\ ts[i] # <<Sep>> /\ ts[i] # DotDot /\ ts[b] = DotDot
      /\ DOMAIN ts = 1..n /\ n \in Nat
  BY <1>1, <1>2, LenProperties DEF Detours
<1>4. ts[i] # DotName
  BY <1>1, <1>3 DEF Dots
<1>5. /\ h \in 0..n /\ a \in 1..n /\ b \in 1..n /\ j \in Nat /\ i <= j /\ (j <= n => j \in 1..n)
      /\ (~(j <= n) => b = n) /\ i - 1 = h /\ a - 1 = i /\ b - 1 = a /\ j - 1 = b /\ j = b + 1
  BY <1>2, <1>3
<1>6. ts[a] = <<Sep>> /\ IsName(ts[i])
  BY <1>1, <1>2, <1>3, <1>5, Neighbours
<1>7. Closed(At(ts, h))
  BY <1>1, <1>2, <1>3, <1>5, AtIs
<1>8. /\ At(ts, i) = Passed(At(ts, h), ts[i]) /\ At(ts, a) = Passed(At(ts, i), <<Sep>>)
      /\ At(ts, b) = Passed(At(ts, a), DotDot)
  BY <1>1, <1>2, <1>3, <1>5, <1>6, AtIs
<1>9. At(ts, b) = At(ts, h) /\ Passed(At(ts, h), <<Sep>>) = At(ts, h)
  BY <1>3, <1>4, <1>6, <1>7, <1>8, DetourRun
<1>10. j <= n => ts[j] = <<Sep>> /\ At(ts, j) = At(ts, h)
  <2> SUFFICES ASSUME j <= n PROVE ts[j] = <<Sep>> /\ At(ts, j) = At(ts, h)
    OBVIOUS
  <2>1. ts[j] = <<Sep>>
    BY <1>1, <1>2, <1>3, <1>5, Neighbours, ItemsAre
  <2>2. At(ts, j) = Passed(At(ts, b), <<Sep>>)
    BY <1>1, <1>2, <1>5, <2>1, AtIs
  <2> QED BY <1>9, <2>1, <2>2
<1>11. PICK k : (j > n /\ k = n) \/ (~(j > n) /\ k = j)
  OBVIOUS
<1>12. At(ts, k) = At(ts, h)
  <2>1. (j > n /\ k = b) \/ (j <= n /\ k = j)
    BY <1>3, <1>5, <1>11
  <2> QED BY <1>9, <1>10, <2>1
<1>13. j < n => ts[j] = <<Sep>>
  BY <1>5, <1>10
<1>14. /\ i \in 1..Len(ts) /\ (j < Len(ts) => ts[j] = <<Sep>>) /\ At(ts, k) = At(ts, i - 1)
       /\ ((j > Len(ts) /\ k = Len(ts)) \/ (~(j > Len(ts)) /\ k = j))
  BY <1>2, <1>3, <1>5, <1>11, <1>12, <1>13
<1>15. /\ Cut(ts, i, j) \in Lasting(l, o) /\ Len(Cut(ts, i, j)) < Len(ts)
       /\ Dots(ts) = {} => Dots(Cut(ts, i, j)) = {}
  BY <1>1, <1>3, <1>5, <1>14, CutLasts
<1> QED BY <1>1, <1>2, <1>15 DEF Dotless

\* A parent reference in the root directory goes with its separator.
LEMMA RootTurn ==
    ASSUME NEW l, NEW o, NEW ts \in Straight(l, o), Len(ts) > 1, ts[1] = <<Sep>>, ts[2] = DotDot
    PROVE  Cut(ts, 2, 3) \in Straight(l, o) /\ Len(Cut(ts, 2, 3)) < Len(ts)
<1>1. /\ Mixed(ts) /\ l = Start(ts) /\ ts \in Seq(Items) /\ Len(ts) \in Nat /\ ts \in Lasting(l, o)
      /\ Dots(ts) = {} /\ Detours(ts) = {}
  BY LenProperties DEF Lasting, Dotless, Straight
<1>2. PICK n : n = Len(ts)
  OBVIOUS
<1>3. n \in Nat /\ n > 1 /\ 1 \in 1..n /\ 2 \in 1..n /\ (3 <= n => 3 \in 1..n) /\ 0 \in 0..n
  BY <1>1, <1>2
<1>4. l = <<<<Sep>>>>
  <2>1. ts # <<>>
    BY <1>1, <1>2, <1>3
  <2> QED BY <1>1, <2>1 DEF Start
<1>5. At(ts, 0) = l /\ At(ts, 1) = Passed(At(ts, 0), <<Sep>>) /\ At(ts, 2) = Passed(At(ts, 1), DotDot)
  BY <1>1, <1>2, <1>3, AtIs
<1>6. At(ts, 1) = l /\ At(ts, 2) = l
  <2>1. Passed(<<<<Sep>>>>, <<Sep>>) = <<<<Sep>>>>
    BY Starts
  <2>2. Passed(<<<<Sep>>>>, DotDot) = <<<<Sep>>>>
    <3>1. PICK c : c = <<<<Sep>>>>
      OBVIOUS
    <3>2. Solid(c) /\ Bare(c) = c
      BY <3>1, SmallLists
    <3>3. c = <<<<Sep>>>> => Passed(c, DotDot) = c
      BY <3>2, PassedIs
    <3> QED BY <3>1, <3>3
  <2> QED BY <1>4, <1>5, <2>1, <2>2
<1>7. 3 <= n => ts[3] = <<Sep>> /\ At(ts, 3) = l
  <2> SUFFICES ASSUME 3 <= n PROVE ts[3] = <<Sep>> /\ At(ts, 3) = l
    OBVIOUS
  <2>1. PICK i, j : i = 2 /\ j = 3
    OBVIOUS
  <2>2. j = i + 1 /\ i \in 1..n /\ j <= n /\ j \in 1..n /\ j - 1 = i /\ ts[i] # <<Sep>>
    BY <1>3, <2>1, ItemsAre
  <2>3. ts[j] = <<Sep>>
    BY <1>1, <1>2, <2>2, Neighbours
  <2>4. At(ts, j) = Passed(At(ts, i), <<Sep>>)
    BY <1>1, <1>2, <2>2, <2>3, AtIs
  <2>5. Passed(<<<<Sep>>>>, <<Sep>>) = <<<<Sep>>>>
    BY Starts
  <2> QED BY <1>4, <1>6, <2>1, <2>3, <2>4, <2>5
<1>8. PICK i, j, k, y : /\ i = 2 /\ j = 3 /\ y = Cut(ts, i, j)
                        /\ (j > n /\ k = n) \/ (~(j > n) /\ k = j)
  OBVIOUS
<1>9. At(ts, k) = At(ts, i - 1)
  <2>1. (~(3 <= n) /\ k = 2) \/ (3 <= n /\ k = 3)
    BY <1>3, <1>8
  <2>2. i - 1 = 1
    BY <1>8
  <2> QED BY <1>6, <1>7, <2>1, <2>2
<1>10. /\ i \in 1..n /\ ts[i] # <<Sep>> /\ j \in Nat /\ i <= j /\ (j < n => ts[j] = <<Sep>>)
       /\ ((j > n /\ k = n) \/ (~(j > n) /\ k = j))
  BY <1>3, <1>7, <1>8, ItemsAre
<1>11. /\ y \in Lasting(l, o) /\ Len(y) < n /\ Dots(y) = {}
       /\ Shorter(y, ts, i)
  <2>1. /\ Cut(ts, i, j) \in Lasting(l, o) /\ Len(Cut(ts, i, j)) < Len(ts)
        /\ Dots(ts) = {} => Dots(Cut(ts, i, j)) = {}
        /\ Shorter(Cut(ts, i, j), ts, i)
    BY <1>1, <1>2, <1>9, <1>10, CutLasts
  <2> QED BY <1>1, <1>2, <1>8, <2>1
<1>12. PICK g \in Nat : /\ Len(y) + g = n
                        /\ \A m \in 1..Len(y) : y[m] = IF m < 2 THEN ts[m] ELSE ts[m + g]
  BY <1>2, <1>8, <1>11 DEF Shorter
<1>13. DOMAIN ts = 1..n /\ DOMAIN y = 1..Len(y) /\ Len(y) \in Nat
  BY <1>1, <1>2, <1>11, LenProperties DEF Lasting
<1>14. Detours(y) = {}
  <2> SUFFICES ASSUME NEW m \in 1..Len(y), m + 2 <= Len(y), y[m] \notin {<<Sep>>, DotDot}, y[m + 2] = DotDot
               PROVE  FALSE
    BY <1>13 DEF Detours
  <2>1. PICK c, d, e : c = m + g /\ d = m + 2 /\ e = c + 2
    OBVIOUS
  <2>2. /\ d \in 1..Len(y) /\ d + g = e /\ c \in 1..n /\ e <= n /\ ~(d < 2)
        /\ (m < 2 <=> m = 1)
    <3>1. PICK s : s = Len(y)
      OBVIOUS
    <3>2. s \in Nat /\ s + g = n /\ g \in Nat /\ n \in Nat /\ m \in 1..s /\ m + 2 <= s
      BY <1>3, <1>12, <1>13, <3>1
    <3>3. d \in 1..s /\ d + g = e /\ c \in 1..n /\ e <= n /\ ~(d < 2) /\ (m < 2 <=> m = 1)
      BY <2>1, <3>2
    <3> QED BY <3>1, <3>3
  <2>3. m # 1
    <3>1. m = 1 => y[m] = ts[1]
      BY <1>12
    <3> QED BY <3>1
  <2>4. y[m] = ts[c] /\ y[d] = ts[e]
    BY <1>8, <1>12, <2>1, <2>2, <2>3
  <2>5. c \in Detours(ts)
    BY <1>2, <1>13, <2>1, <2>2, <2>4 DEF Detours
  <2> QED BY <1>1, <2>5
<1> QED BY <1>2, <1>8, <1>11, <1>14 DEF Dotless, Straight

\* A list as long as a rule leaves it is one the rule does not change.
LEMMA DotRule ==
    ASSUME NEW l, NEW o, NEW ts \in Lasting(l, o)
    PROVE  LET x == Rewritten(ts, WithoutDot) IN x \in Dotless(l, o)
<1>1. PICK W : W = Lasting(l, o)
  OBVIOUS
<1>2. W \in SUBSET Seq(Items)
  BY <1>1 DEF Lasting
<1>3. ASSUME NEW x \in W
      PROVE  /\ WithoutDot[x] \in W /\ (WithoutDot[x] = x \/ Len(WithoutDot[x]) < Len(x))
             /\ WithoutDot[x] = x => Dots(x) = {}
  <2>1. x \in Seq(Token) /\ x \in Seq(Items)
    BY <1>2, ItemsTokens
  <2>2. CASE Dots(x) = {}
    BY <2>1, <2>2 DEF WithoutDot
  <2>3. CASE Dots(x) # {}
    <3>1. PICK i : i = LeastOf(Dots(x))
      OBVIOUS
    <3>2. Dots(x) \in SUBSET Nat
      <4>1. DOMAIN x = 1..Len(x) /\ Len(x) \in Nat
        BY <2>1, LenProperties
      <4> QED BY <4>1 DEF Dots
    <3>3. i \in Dots(x)
      BY <2>3, <3>1, <3>2, LeastIs
    <3>4. WithoutDot[x] = Cut(x, i, i + 1)
      BY <2>1, <2>3, <3>1 DEF WithoutDot
    <3>5. Cut(x, i, i + 1) \in W /\ Len(Cut(x, i, i + 1)) < Len(x)
      BY <1>1, <3>3, DotTurn
    <3>6. Len(x) \in Nat
      BY <2>1, LenProperties
    <3>7. WithoutDot[x] # x
      BY <3>4, <3>5, <3>6
    <3> QED BY <3>4, <3>5, <3>7
  <2> QED BY <2>2, <2>3
<1>4. PICK x : x = Rewritten(ts, WithoutDot)
  OBVIOUS
<1>5. x \in W /\ WithoutDot[x] = x
  <2>1. \A z \in W : WithoutDot[z] \in W /\ (WithoutDot[z] = z \/ Len(WithoutDot[z]) < Len(z))
    BY <1>3
  <2>2. ts \in W
    BY <1>1
  <2> QED BY <1>2, <1>4, <2>1, <2>2, RewrittenIs
<1>6. Dots(x) = {}
  BY <1>3, <1>5
<1> QED BY <1>1, <1>4, <1>5, <1>6 DEF Dotless

\* The same of the detours.
LEMMA DetourRule ==
    ASSUME NEW l, NEW o, NEW ts \in Dotless(l, o)
    PROVE  LET x == Rewritten(ts, WithoutDetour) IN x \in Straight(l, o)
<1>1. PICK W : W = Dotless(l, o)
  OBVIOUS
<1>2. W \in SUBSET Seq(Items)
  BY <1>1 DEF Lasting, Dotless
<1>3. ASSUME NEW x \in W
      PROVE  /\ WithoutDetour[x] \in W /\ (WithoutDetour[x] = x \/ Len(WithoutDetour[x]) < Len(x))
             /\ WithoutDetour[x] = x => Detours(x) = {}
  <2>1. x \in Seq(Token) /\ x \in Seq(Items)
    BY <1>2, ItemsTokens
  <2>2. CASE Detours(x) = {}
    BY <2>1, <2>2 DEF WithoutDetour
  <2>3. CASE Detours(x) # {}
    <3>1. PICK i : i = LeastOf(Detours(x))
      OBVIOUS
    <3>2. Detours(x) \in SUBSET Nat
      <4>1. DOMAIN x = 1..Len(x) /\ Len(x) \in Nat
        BY <2>1, LenProperties
      <4> QED BY <4>1 DEF Detours
    <3>3. i \in Detours(x)
      BY <2>3, <3>1, <3>2, LeastIs
    <3>4. WithoutDetour[x] = Cut(x, i, i + 3)
      BY <2>1, <2>3, <3>1 DEF WithoutDetour
    <3>5. Cut(x, i, i + 3) \in W /\ Len(Cut(x, i, i + 3)) < Len(x)
      BY <1>1, <3>3, DetourTurn
    <3>6. Len(x) \in Nat
      BY <2>1, LenProperties
    <3>7. WithoutDetour[x] # x
      BY <3>4, <3>5, <3>6
    <3> QED BY <3>4, <3>5, <3>7
  <2> QED BY <2>2, <2>3
<1>4. PICK x : x = Rewritten(ts, WithoutDetour)
  OBVIOUS
<1>5. x \in W /\ WithoutDetour[x] = x
  <2>1. \A z \in W : WithoutDetour[z] \in W /\ (WithoutDetour[z] = z \/ Len(WithoutDetour[z]) < Len(z))
    BY <1>3
  <2>2. ts \in W
    BY <1>1
  <2> QED BY <1>2, <1>4, <2>1, <2>2, RewrittenIs
<1>6. Detours(x) = {}
  BY <1>3, <1>5
<1> QED BY <1>1, <1>4, <1>5, <1>6 DEF Straight

\* The same of the parents of the root directory.
LEMMA RootRule ==
    ASSUME NEW l, NEW o, NEW ts \in Straight(l, o)
    PROVE  LET x == Rewritten(ts, WithoutRootParent)
           IN  x \in Straight(l, o) /\ ~(Len(x) > 1 /\ x[1] = <<Sep>> /\ x[2] = DotDot)
<1>1. PICK W : W = Straight(l, o)
  OBVIOUS
<1>2. W \in SUBSET Seq(Items)
  BY <1>1 DEF Lasting, Dotless, Straight
<1>3. ASSUME NEW x \in W
      PROVE  /\ WithoutRootParent[x] \in W
             /\ (WithoutRootParent[x] = x \/ Len(WithoutRootParent[x]) < Len(x))
             /\ WithoutRootParent[x] = x => ~(Len(x) > 1 /\ x[1] = <<Sep>> /\ x[2] = DotDot)
  <2>1. x \in Seq(Token) /\ x \in Seq(Items)
    BY <1>2, ItemsTokens
  <2>2. CASE ~(Len(x) > 1 /\ x[1] = <<Sep>> /\ x[2] = DotDot)
    BY <2>1, <2>2 DEF WithoutRootParent
  <2>3. CASE Len(x) > 1 /\ x[1] = <<Sep>> /\ x[2] = DotDot
    <3>1. WithoutRootParent[x] = Cut(x, 2, 3)
      BY <2>1, <2>3 DEF WithoutRootParent
    <3>2. Cut(x, 2, 3) \in W /\ Len(Cut(x, 2, 3)) < Len(x)
      BY <1>1, <2>3, RootTurn
    <3>3. Len(x) \in Nat
      BY <2>1, LenProperties
    <3>4. WithoutRootParent[x] # x
      BY <3>1, <3>2, <3>3
    <3> QED BY <3>1, <3>2, <3>4
  <2> QED BY <2>2, <2>3
<1>4. PICK x : x = Rewritten(ts, WithoutRootParent)
  OBVIOUS
<1>5. x \in W /\ WithoutRootParent[x] = x
  <2>1. \A z \in W : /\ WithoutRootParent[z] \in W
                     /\ (WithoutRootParent[z] = z \/ Len(WithoutRootParent[z]) < Len(z))
    BY <1>3
  <2>2. ts \in W
    BY <1>1
  <2> QED BY <1>2, <1>4, <2>1, <2>2, RewrittenIs
<1>6. ~(Len(x) > 1 /\ x[1] = <<Sep>> /\ x[2] = DotDot)
  BY <1>3, <1>5
<1> QED BY <1>1, <1>4, <1>5, <1>6

\* What the standard's rules leave of the tokens of an object.
Final(q) == Rewritten(Rewritten(Rewritten(Tokens(q), WithoutDot), WithoutDetour), WithoutRootParent)

\* It leaves what lexically_normal makes of the elements, and no rule applies.
Reduced(ts) ==
    /\ Mixed(ts) /\ Dots(ts) = {} /\ Detours(ts) = {}
    /\ ~(Len(ts) > 1 /\ ts[1] = <<Sep>> /\ ts[2] = DotDot)

\* The rules lead to such a list, without a change of what is left.
LEMMA FinalIs ==
    ASSUME NEW q, Formed(q), NEW es, es = Elements(q)
    PROVE  Reduced(Final(q)) /\ Start(Final(q)) = Start(es) /\ Run(Start(es), Final(q)) = Run(Start(es), es)
<1>1. PICK l, o, t : l = Start(es) /\ o = Run(l, es) /\ t = Tokens(q)
  OBVIOUS
<1>2. t \in Lasting(l, o)
  BY <1>1, TokensAre DEF Lasting, Mixed
<1>3. PICK x : x = Rewritten(t, WithoutDot)
  OBVIOUS
<1>4. x \in Dotless(l, o)
  BY <1>2, <1>3, DotRule
<1>5. PICK y : y = Rewritten(x, WithoutDetour)
  OBVIOUS
<1>6. y \in Straight(l, o)
  BY <1>4, <1>5, DetourRule
<1>7. PICK z : z = Rewritten(y, WithoutRootParent)
  OBVIOUS
<1>8. z \in Straight(l, o) /\ ~(Len(z) > 1 /\ z[1] = <<Sep>> /\ z[2] = DotDot)
  BY <1>6, <1>7, RootRule
<1>9. z = Final(q)
  BY <1>1, <1>3, <1>5, <1>7 DEF Final
<1>10. Reduced(z) /\ Start(z) = l /\ Run(l, z) = o
  BY <1>8 DEF Reduced, Straight, Dotless, Lasting
<1> QED BY <1>1, <1>9, <1>10

\* An item of such a list adds a name or a separator, nothing else.
Adds(ts, i) ==
    IF ts[i] = <<Sep>> THEN At(ts, i) = Shut(Bare(At(ts, i - 1)))
    ELSE At(ts, i) = Append(Bare(At(ts, i - 1)), ts[i])

\* What it adds is there.
LEMMA AddsIs ==
    ASSUME NEW ts, Mixed(ts), NEW i \in 1..Len(ts), Adds(ts, i)
    PROVE  /\ Solid(Bare(At(ts, i - 1))) /\ Solid(Bare(At(ts, i)))
           /\ ts[i] = <<Sep>> => Bare(At(ts, i)) = Bare(At(ts, i - 1))
           /\ ts[i] # <<Sep>> => /\ IsName(ts[i]) /\ Bare(At(ts, i)) = At(ts, i) /\ At(ts, i) # <<>>
                                 /\ At(ts, i)[Len(At(ts, i))] = ts[i]
                                 /\ Front(At(ts, i)) = Bare(At(ts, i - 1))
<1>1. PICK n, h, x, y, b, w : /\ n = Len(ts) /\ h = i - 1 /\ x = At(ts, h) /\ y = At(ts, i)
                              /\ b = Bare(x) /\ w = ts[i]
  OBVIOUS
<1>2. n \in Nat /\ i \in 1..n /\ h \in 0..n /\ i \in 0..n /\ i - 1 = h /\ ts \in Seq(Items)
  <2>1. n \in Nat /\ ts \in Seq(Items)
    BY <1>1, LenProperties DEF Mixed
  <2> QED BY <1>1, <2>1
<1>3. x \in Lists /\ y \in Lists /\ w \in Items /\ w # <<>>
  <2>1. x \in Lists /\ y \in Lists
    BY <1>1, <1>2, AtIs
  <2>2. w \in Items
    BY <1>1, <1>2, ElementOfSeq
  <2>3. w # <<>>
    BY <1>1, <1>2 DEF Mixed
  <2> QED BY <2>1, <2>2, <2>3
<1>4. Solid(b) /\ Solid(Bare(y))
  BY <1>1, <1>3, ClosedIs
<1>5. CASE w = <<Sep>>
  <2>1. y = Shut(b)
    BY <1>1, <1>5 DEF Adds
  <2>2. Bare(y) = b
    BY <1>4, <2>1, ShutIs
  <2> QED BY <1>1, <1>4, <1>5, <2>2
<1>6. CASE w # <<Sep>>
  <2>1. y = Append(b, w)
    BY <1>1, <1>6 DEF Adds
  <2>2. IsName(w)
    BY <1>3, <1>6, ItemsIn
  <2>3. Bare(y) = y /\ y # <<>> /\ y[Len(y)] = w /\ Front(y) = b
    BY <1>4, <2>1, <2>2, WithName
  <2> QED BY <1>1, <1>4, <1>6, <2>2, <2>3
<1> QED BY <1>5, <1>6

\* Where no rule applies every item adds something.
LEMMA ReducedAdds ==
    ASSUME NEW ts, Reduced(ts), NEW i \in 1..Len(ts), \A j \in 1..Len(ts) : j < i => Adds(ts, j)
    PROVE  Adds(ts, i)
<1>1. PICK n, h, x, y, b, w : /\ n = Len(ts) /\ h = i - 1 /\ x = At(ts, h) /\ y = At(ts, i)
                              /\ b = Bare(x) /\ w = ts[i]
  OBVIOUS
<1>2. Mixed(ts) /\ n \in Nat /\ i \in 1..n /\ h \in 0..n /\ i \in 0..n /\ i - 1 = h /\ ts \in Seq(Items) /\ DOMAIN ts = 1..n
  <2>1. Mixed(ts) /\ n \in Nat /\ ts \in Seq(Items) /\ DOMAIN ts = 1..n
    BY <1>1, LenProperties DEF Mixed, Reduced
  <2> QED BY <1>1, <2>1
<1>3. x \in Lists /\ w \in Items /\ w # <<>> /\ w # DotName /\ y = Passed(x, w)
  <2>1. x \in Lists /\ y = Passed(x, w)
    BY <1>1, <1>2, AtIs
  <2>2. w \in Items
    BY <1>1, <1>2, ElementOfSeq
  <2>3. w # <<>>
    BY <1>1, <1>2 DEF Mixed
  <2>4. w # DotName
    BY <1>1, <1>2 DEF Reduced, Dots
  <2> QED BY <2>1, <2>2, <2>3, <2>4
<1>4. Solid(b) /\ (w = <<Sep>> => y = Shut(b))
  BY <1>1, <1>3, ClosedIs
<1>5. CASE w = <<Sep>>
  BY <1>1, <1>4, <1>5 DEF Adds
<1>6. CASE w # <<Sep>> /\ w # DotDot
  <2>1. IsName(w) /\ w \notin {DotDot, DotName}
    BY <1>3, <1>6, ItemsIn
  <2>2. Passed(x, w) = Append(b, w)
    BY <1>1, <1>4, <2>1, PassedIs
  <2> QED BY <1>1, <1>3, <1>6, <2>2 DEF Adds
<1>7. CASE w = DotDot
  <2>1. b = <<>> \/ b[Len(b)] = DotDot
    <3>1. CASE i = 1
      <4>1. x = Start(ts)
        <5>1. h = 0
          BY <1>1, <3>1
        <5> QED BY <1>1, <1>2, <5>1, AtIs
      <4>2. ts[1] # <<Sep>>
        BY <1>1, <1>7, <3>1, ItemsAre
      <4>3. x = <<>>
        BY <4>1, <4>2 DEF Start
      <4> QED BY <1>1, <4>3, SmallLists
    <3>2. CASE i = 2
      <4>1. h = 1 /\ n > 1 /\ 1 \in 1..n
        BY <1>1, <1>2, <3>2
      <4>2. ts[1] = <<Sep>>
        <5>1. h \in 1..n /\ i = h + 1 /\ i <= n
          BY <1>2, <3>2, <4>1
        <5>2. ts[h] # <<Sep>> <=> ts[i] = <<Sep>>
          BY <1>1, <1>2, <5>1, Neighbours
        <5> QED BY <1>1, <1>7, <4>1, <5>2, ItemsAre
      <4>3. ts[2] = DotDot
        BY <1>1, <1>7, <3>2
      <4> QED BY <1>1, <4>1, <4>2, <4>3 DEF Reduced
    <3>3. CASE i # 1 /\ i # 2
      <4>1. PICK k : k = i - 2
        OBVIOUS
      <4>2. /\ k \in 1..n /\ h \in 1..n /\ h = k + 1 /\ i = h + 1 /\ i = k + 2 /\ k + 2 <= n /\ h <= n /\ i <= n
            /\ k < i /\ h < i /\ h - 1 = k
        BY <1>1, <1>2, <3>3, <4>1
      <4>3. ts[h] = <<Sep>>
        <5>1. ts[h] # <<Sep>> <=> ts[i] = <<Sep>>
          BY <1>1, <1>2, <4>2, Neighbours
        <5> QED BY <1>1, <1>7, <5>1, ItemsAre
      <4>4. ts[k] # <<Sep>>
        <5>1. ts[k] # <<Sep>> <=> ts[h] = <<Sep>>
          BY <1>1, <1>2, <4>2, Neighbours
        <5> QED BY <4>3, <5>1
      <4>5. ts[k] = DotDot
        BY <1>1, <1>2, <1>7, <4>2, <4>4 DEF Reduced, Detours
      <4>6. Adds(ts, k) /\ Adds(ts, h)
        BY <1>1, <4>2
      <4>7. Bare(At(ts, h)) = Bare(At(ts, k))
        BY <1>1, <1>2, <4>2, <4>3, <4>6, AddsIs
      <4>8. Bare(At(ts, k)) = At(ts, k) /\ At(ts, k)[Len(At(ts, k))] = DotDot
        BY <1>1, <1>2, <4>2, <4>4, <4>5, <4>6, AddsIs
      <4> QED BY <1>1, <4>7, <4>8
    <3> QED BY <3>1, <3>2, <3>3
  <2>2. Passed(x, DotDot) = Append(b, DotDot)
    BY <1>1, <1>4, <2>1, PassedIs
  <2> QED BY <1>1, <1>3, <1>7, <2>2, ItemsAre DEF Adds
<1> QED BY <1>5, <1>6, <1>7

\* So does every item.
LEMMA AllAdd ==
    ASSUME NEW ts, Reduced(ts)
    PROVE  \A i \in 1..Len(ts) : Adds(ts, i)
<1>1. PICK n : n = Len(ts) /\ n \in Nat
  BY LenProperties DEF Reduced, Mixed
<1> DEFINE T == {k \in Nat : \A j \in 1..n : j <= k => Adds(ts, j)}
<1>2. 0 \in T
  BY <1>1
<1>3. ASSUME NEW k \in Nat, k \in T PROVE k + 1 \in T
  <2> SUFFICES ASSUME NEW j \in 1..n, j <= k + 1 PROVE Adds(ts, j)
    OBVIOUS
  <2>1. \A m \in 1..n : m < j => Adds(ts, m)
    BY <1>1, <1>3
  <2> QED BY <1>1, <2>1, ReducedAdds
<1> HIDE DEF T
<1>4. Nat \subseteq T
  BY <1>2, <1>3, Induction
<1>5. n \in T
  BY <1>1, <1>4
<1> QED BY <1>1, <1>5 DEF T

-----------------------------------------------------------------------------
(* What the text of a rewritten list shows.                                *)

\* The text t shows the list es, the last item of which is x.
Reads(t, es, x) ==
    /\ t \in Text /\ t # <<>> /\ Tight(t) /\ (Last(t) = Sep <=> x = <<Sep>>)
    /\ TextsOf(Scan(t)) = Bare(es) /\ Elements(Split(t)) = es

\* A name alone, and the root directory.
LEMMA ReadsFirst ==
    /\ \A w : IsName(w) => Reads(w, Append(<<>>, w), w)
    /\ Reads(<<Sep>>, <<<<Sep>>>>, <<Sep>>)
<1>1. PICK none : none = <<>> /\ none \in Text
  BY Characters
<1>2. TextsOf(Scan(none)) = <<>>
  BY <1>1, ReadsText
<1>3. ASSUME NEW w, IsName(w) PROVE Reads(w, Append(<<>>, w), w)
  <2>1. PICK es : es = Append(<<>>, w)
    OBVIOUS
  <2>2. none \o w = w
    BY <1>1, <1>3, NameIsNoSep, ConcatEmptySeq DEF Text
  <2>3. /\ none \o w \in Text /\ none \o w # <<>> /\ Last(none \o w) # Sep
        /\ TextsOf(Scan(none \o w)) = Append(<<>>, w) /\ Elements(Split(none \o w)) = Append(<<>>, w)
    <3>1. none \in Text /\ (none = <<>> \/ Last(none) = Sep)
      BY <1>1
    <3>2. PICK b : b = TextsOf(Scan(none))
      OBVIOUS
    <3>3. /\ none \o w \in Text /\ none \o w # <<>> /\ Last(none \o w) # Sep
          /\ TextsOf(Scan(none \o w)) = Append(b, w) /\ Elements(Split(none \o w)) = Append(b, w)
      BY <1>3, <3>1, <3>2, ReadsMore
    <3> QED BY <1>2, <3>2, <3>3
  <2>4. Bare(es) = es /\ w # <<Sep>>
    BY <1>3, <2>1, WithName, SmallLists, NameIsNoSep
  <2>5. Tight(w)
    BY <1>3, TightName
  <2> QED BY <2>1, <2>2, <2>3, <2>4, <2>5 DEF Reads
<1>4. Reads(<<Sep>>, <<<<Sep>>>>, <<Sep>>)
  <2>1. PICK t : t = <<Sep>>
    OBVIOUS
  <2>2. t \in Text /\ t # <<>> /\ Tight(t) /\ Last(t) = Sep
    <3>1. Last(t) = Sep
      <4>1. Len(t) = 1 /\ t[1] = Sep
        BY <2>1
      <4> QED BY <4>1 DEF Last
    <3> QED BY <2>1, <3>1, ItemsAre, TightName
  <2>3. Elements(Split(t)) = <<<<Sep>>>>
    <3>1. PICK r : r = Split(t)
      OBVIOUS
    <3>2. r.type = "ROOT_DIR" /\ r.str = <<Sep>>
      BY <2>1, <3>1, SplitSingle
    <3>3. Elements(r) = <<r.str>>
      BY <3>2, ItemsAre DEF Elements
    <3> QED BY <3>1, <3>2, <3>3
  <2>4. TextsOf(Scan(t)) = <<<<Sep>>>>
    <3>1. PICK b : b = TextsOf(Scan(t))
      OBVIOUS
    <3>2. Solid(b) /\ Elements(Split(t)) = Shut(b)
      BY <2>2, <3>1, ReadsText
    <3>3. Bare(Shut(b)) = b
      BY <3>2, ShutIs
    <3> QED BY <2>3, <3>1, <3>2, <3>3, SmallLists
  <2> QED BY <2>1, <2>2, <2>3, <2>4, SmallLists DEF Reads
<1> QED BY <1>3, <1>4

\* A name behind a separator, and a separator behind a name.
LEMMA ReadsNext ==
    ASSUME NEW t, NEW es, NEW x, Reads(t, es, x), Solid(Bare(es))
    PROVE  /\ \A w : IsName(w) /\ x = <<Sep>> => Reads(t \o w, Append(Bare(es), w), w)
           /\ x # <<Sep>> => Reads(t \o <<Sep>>, Shut(Bare(es)), <<Sep>>)
<1>1. PICK b : b = Bare(es) /\ Solid(b) /\ b = TextsOf(Scan(t))
  BY DEF Reads
<1>2. t \in Text /\ t # <<>> /\ Tight(t) /\ (Last(t) = Sep <=> x = <<Sep>>)
  BY DEF Reads
<1>3. ASSUME NEW w, IsName(w), x = <<Sep>> PROVE Reads(t \o w, Append(b, w), w)
  <2>1. PICK u, c : u = t \o w /\ c = Append(b, w)
    OBVIOUS
  <2>2. u \in Text /\ u # <<>> /\ Last(u) # Sep /\ TextsOf(Scan(u)) = c /\ Elements(Split(u)) = c
    <3>1. /\ t \o w \in Text /\ t \o w # <<>> /\ Last(t \o w) # Sep
          /\ TextsOf(Scan(t \o w)) = Append(b, w) /\ Elements(Split(t \o w)) = Append(b, w)
        BY <1>1, <1>2, <1>3, ReadsMore
    <3> QED BY <2>1, <3>1
  <2>3. w \in Text /\ w # <<Sep>> /\ Tight(w) /\ w[1] # Sep
    <3>1. w \in Text /\ w # <<Sep>> /\ Tight(w)
      BY <1>3, NameIsNoSep, TightName
    <3>2. w[1] # Sep
      <4>1. 1 \in 1..Len(w)
        BY <1>3, LenProperties, EmptySeq DEF IsName, Text
      <4> QED BY <1>3, <4>1 DEF IsName
    <3> QED BY <3>1, <3>2
  <2>4. Tight(u)
    BY <1>2, <2>1, <2>3, TightJoin
  <2>5. Bare(c) = c
    BY <1>1, <1>3, <2>1, WithName
  <2> QED BY <2>1, <2>2, <2>3, <2>4, <2>5 DEF Reads
<1>4. ASSUME x # <<Sep>> PROVE Reads(t \o <<Sep>>, Shut(b), <<Sep>>)
  <2>1. PICK u, c, sep : u = t \o <<Sep>> /\ c = Shut(b) /\ sep = <<Sep>>
    OBVIOUS
  <2>2. u = Append(t, Sep)
    BY <1>2, <2>1 DEF Text
  <2>3. u \in Text /\ u # <<>> /\ Last(u) = Sep /\ TextsOf(Scan(u)) = b /\ Elements(Split(u)) = c
    <3>1. /\ Append(t, Sep) \in Text /\ Append(t, Sep) # <<>> /\ Last(Append(t, Sep)) = Sep
          /\ TextsOf(Scan(Append(t, Sep))) = b /\ Elements(Split(Append(t, Sep))) = Shut(b)
      BY <1>1, <1>2, ReadsMore
    <3> QED BY <2>1, <2>2, <3>1
  <2>4. Tight(u)
    <3>1. sep \in Text /\ Tight(sep) /\ Last(t) # Sep
      BY <1>2, <1>4, <2>1, ItemsAre, TightName
    <3> QED BY <1>2, <2>1, <3>1, TightJoin
  <2>5. Bare(c) = b
    BY <1>1, <2>1, ShutIs
  <2> QED BY <2>1, <2>3, <2>4, <2>5 DEF Reads
<1> QED BY <1>1, <1>3, <1>4

\* The text of the first items shows what the run over them leaves.
LEMMA ReadsTurn ==
    ASSUME NEW ts, Reduced(ts), NEW at, NEW i \in 1..Len(ts),
           i = 1 => at[1] = ts[1],
           i # 1 => /\ at[i] = at[i - 1] \o ts[i]
                    /\ Reads(at[i - 1], At(ts, i - 1), ts[i - 1])
    PROVE  Reads(at[i], At(ts, i), ts[i])
<1>1. PICK n, h, w, x, b : n = Len(ts) /\ h = i - 1 /\ w = ts[i] /\ x = At(ts, h) /\ b = Bare(x)
  OBVIOUS
<1>2. /\ Mixed(ts) /\ n \in Nat /\ h \in Nat /\ i \in 1..n /\ (i # 1 => h \in 1..n /\ i = h + 1 /\ i <= n)
      /\ (i = 1 => h = 0)
  <2>1. Mixed(ts) /\ n \in Nat
    BY <1>1, LenProperties DEF Reduced, Mixed
  <2> QED BY <1>1, <2>1
<1>3. Adds(ts, i)
  BY AllAdd
<1>4. Solid(b) /\ (w # <<Sep>> => IsName(w))
  BY <1>1, <1>2, <1>3, AddsIs
<1>5. CASE i = 1
  <2>1. x = Start(ts)
    BY <1>1, <1>2, <1>5, AtIs
  <2>2. ts # <<>>
    BY <1>1, <1>2
  <2>3. CASE w = <<Sep>>
    <3>1. x = <<<<Sep>>>>
      BY <1>1, <1>5, <2>1, <2>2, <2>3 DEF Start
    <3>2. At(ts, i) = <<<<Sep>>>>
      BY <1>1, <1>3, <2>3, <3>1, SmallLists DEF Adds
    <3>3. at[i] = <<Sep>>
      BY <1>1, <1>5, <2>3
    <3> QED BY <1>1, <2>3, <3>2, <3>3, ReadsFirst
  <2>4. CASE w # <<Sep>>
    <3>1. x = <<>>
      BY <1>1, <1>5, <2>1, <2>4 DEF Start
    <3>2. At(ts, i) = Append(<<>>, w)
      BY <1>1, <1>3, <2>4, <3>1, SmallLists DEF Adds
    <3>3. at[i] = w
      BY <1>1, <1>5
    <3> QED BY <1>1, <1>4, <2>4, <3>2, <3>3, ReadsFirst
  <2> QED BY <2>3, <2>4
<1>6. CASE i # 1
  <2>1. PICK t, v : t = at[h] /\ v = ts[h]
    OBVIOUS
  <2>2. Reads(t, x, v) /\ at[i] = t \o w
    BY <1>1, <1>6, <2>1
  <2>3. v # <<Sep>> <=> w = <<Sep>>
    BY <1>1, <1>2, <1>6, <2>1, Neighbours
  <2>4. /\ \A c : IsName(c) /\ v = <<Sep>> => Reads(t \o c, Append(Bare(x), c), c)
        /\ v # <<Sep>> => Reads(t \o <<Sep>>, Shut(Bare(x)), <<Sep>>)
    BY <1>1, <1>4, <2>2, ReadsNext
  <2>5. CASE w = <<Sep>>
    <3>1. At(ts, i) = Shut(b)
      BY <1>1, <1>3, <2>5 DEF Adds
    <3> QED BY <1>1, <2>2, <2>3, <2>4, <2>5, <3>1
  <2>6. CASE w # <<Sep>>
    <3>1. At(ts, i) = Append(b, w)
      BY <1>1, <1>3, <2>6 DEF Adds
    <3> QED BY <1>1, <1>4, <2>2, <2>3, <2>4, <2>6, <3>1
  <2> QED BY <2>5, <2>6
<1> QED BY <1>5, <1>6

\* The text of such a list is one that shows what the run leaves.
LEMMA ReadsAll ==
    ASSUME NEW ts, Reduced(ts), Len(ts) # 0
    PROVE  Reads(FlattenSeq(ts), At(ts, Len(ts)), ts[Len(ts)])
<1>1. PICK n : n = Len(ts) /\ n \in Nat /\ ts \in Seq(Items)
  BY LenProperties DEF Reduced, Mixed
<1>2. ts \in Seq(Seq(Alphabet))
  BY <1>1, ItemsTokens DEF Token
<1>3. PICK at : Flattens(at, ts, n, Seq(Alphabet))
  BY <1>1, <1>2, FlattenTurns
<1>4. /\ at[1] = ts[1] /\ FlattenSeq(ts) = at[n]
      /\ \A i \in 1..n : i # 1 => at[i] = at[i - 1] \o ts[i]
  BY <1>3 DEF Flattens
<1> DEFINE T == {k \in Nat : k \in 1..n => Reads(at[k], At(ts, k), ts[k])}
<1>5. 0 \in T
  BY <1>1
<1>6. ASSUME NEW k \in Nat, k \in T PROVE k + 1 \in T
  <2> SUFFICES ASSUME k + 1 \in 1..n PROVE Reads(at[k + 1], At(ts, k + 1), ts[k + 1])
    OBVIOUS
  <2>1. PICK i : i = k + 1
    OBVIOUS
  <2>2. i \in 1..n /\ i - 1 = k /\ (i # 1 => k \in 1..n)
    BY <1>1, <2>1
  <2>3. i # 1 => at[i] = at[i - 1] \o ts[i] /\ Reads(at[i - 1], At(ts, i - 1), ts[i - 1])
    BY <1>4, <1>6, <2>2
  <2>4. Reads(at[i], At(ts, i), ts[i])
    BY <1>1, <1>4, <2>2, <2>3, ReadsTurn
  <2> QED BY <2>1, <2>4
<1> HIDE DEF T
<1>7. Nat \subseteq T
  BY <1>5, <1>6, Induction
<1>8. n \in T /\ n \in 1..n
  BY <1>1, <1>7
<1> QED BY <1>1, <1>4, <1>8 DEF T

\* A text without redundant separators has the same components as another
\* one with the same elements.
LEMMA SameScan ==
    ASSUME NEW s \in Text, NEW t \in Text, Tight(s), Tight(t),
           Elements(Split(s)) = Elements(Split(t))
    PROVE  /\ Scan(s) = Scan(t) /\ (s = <<>> <=> t = <<>>)
           /\ s # <<>> => (Last(s) = Sep <=> Last(t) = Sep)
<1>1. PICK b, c, es : b = TextsOf(Scan(s)) /\ c = TextsOf(Scan(t)) /\ es = Elements(Split(s))
  OBVIOUS
<1>2. /\ Solid(b) /\ Len(b) = Len(Scan(s)) /\ \A i \in 1..Len(b) : b[i] = Scan(s)[i].text
      /\ b = <<>> <=> s = <<>>
      /\ es = IF s # <<>> /\ Last(s) = Sep THEN Shut(b) ELSE b
      /\ s # <<>> /\ Last(s) # Sep => IsName(b[Len(b)])
  BY <1>1, ReadsText
<1>3. /\ Solid(c) /\ Len(c) = Len(Scan(t)) /\ \A i \in 1..Len(c) : c[i] = Scan(t)[i].text
      /\ c = <<>> <=> t = <<>>
      /\ es = IF t # <<>> /\ Last(t) = Sep THEN Shut(c) ELSE c
      /\ t # <<>> /\ Last(t) # Sep => IsName(c[Len(c)])
  BY <1>1, ReadsText
<1>4. b = c
  <2>1. Bare(es) = b
    BY <1>2, ShutIs
  <2>2. Bare(es) = c
    BY <1>3, ShutIs
  <2> QED BY <2>1, <2>2
<1>5. PICK cs, ds, n : cs = Scan(s) /\ ds = Scan(t) /\ n = Len(b)
  OBVIOUS
<1>6. cs \in Seq(Comps) /\ ds \in Seq(Comps) /\ Proper(cs) /\ Proper(ds) /\ Packed(cs) /\ Packed(ds)
  BY <1>5, ScanShape, TightPacked DEF Proper
<1>7. Len(cs) = n /\ Len(ds) = n /\ \A i \in 1..n : cs[i].text = ds[i].text
  BY <1>2, <1>3, <1>4, <1>5
<1>8. ASSUME NEW i \in 1..n PROVE cs[i].type = ds[i].type
  <2>1. cs[i] \in Comps /\ ds[i] \in Comps
    BY <1>6, <1>7, ElementOfSeq
  <2>2. cs[i].type \in {"ROOT_DIR", "FILENAME"} /\ ds[i].type \in {"ROOT_DIR", "FILENAME"}
    BY <2>1, CompType
  <2>3. /\ cs[i].type = "ROOT_DIR" => cs[i].text = <<Sep>>
        /\ cs[i].type # "ROOT_DIR" => IsName(cs[i].text)
    BY <1>6, <1>7 DEF Proper
  <2>4. /\ ds[i].type = "ROOT_DIR" => ds[i].text = <<Sep>>
        /\ ds[i].type # "ROOT_DIR" => IsName(ds[i].text)
    BY <1>6, <1>7 DEF Proper
  <2> QED BY <1>7, <2>2, <2>3, <2>4, ItemsAre
<1>9. cs = ds
  <2>1. Alike(cs, ds)
    BY <1>7, <1>8 DEF Alike
  <2> QED BY <1>6, <2>1, PackedSame
<1>10. (s = <<>> <=> t = <<>>)
  BY <1>2, <1>3, <1>4
<1>11. ASSUME s # <<>> PROVE Last(s) = Sep <=> Last(t) = Sep
  <2>1. ASSUME IsName(b[Len(b)]), b # <<>> PROVE Shut(b) # b
    <3>1. PICK v : v = Append(b, <<>>)
      OBVIOUS
    <3>2. b \in Seq(Text) /\ <<>> \in Text /\ Len(b) \in Nat
      BY <1>2, ItemsAre, LenProperties DEF Solid, Listing
    <3>3. Len(v) = Len(b) + 1
      BY <3>1, <3>2, AppendProperties
    <3>4. Shut(b) = v
      BY <2>1, <3>1 DEF Shut
    <3> QED BY <3>2, <3>3, <3>4
  <2>2. b # <<>> /\ t # <<>>
    BY <1>2, <1>10, <1>11
  <2>3. CASE Last(s) = Sep /\ Last(t) # Sep
    <3>1. es = Shut(b) /\ es = b /\ IsName(b[Len(b)])
      BY <1>2, <1>3, <1>4, <1>11, <2>2, <2>3
    <3> QED BY <2>1, <2>2, <3>1
  <2>4. CASE Last(s) # Sep /\ Last(t) = Sep
    <3>1. es = Shut(b) /\ es = b /\ IsName(b[Len(b)])
      BY <1>2, <1>3, <1>4, <1>11, <2>2, <2>4
    <3> QED BY <2>1, <2>2, <3>1
  <2> QED BY <2>3, <2>4
<1> QED BY <1>5, <1>9, <1>10, <1>11

\* What is no separator is the same in two texts with the same components.
LEMMA SamePlaces ==
    ASSUME NEW s \in Text, NEW t \in Text, Scan(s) = Scan(t), NEW j \in 1..Len(s), s[j] # Sep
    PROVE  s[j] = t[j]
<1>1. PICK cs, n : cs = Scan(s) /\ n = Len(cs)
  OBVIOUS
<1>2. Placed(s, cs) /\ Placed(t, cs) /\ cs \in Seq(Comps)
  BY <1>1, ScanPlaces, ScanType
<1>3. PICK k \in 1..n : cs[k].pos < j /\ j <= End(cs[k])
  BY <1>1, <1>2 DEF Placed, Covers
<1>4. PICK x, m, a, w : x = cs[k] /\ a = x.pos /\ m = j - a /\ w = x.text
  OBVIOUS
<1>5. a \in Nat /\ Len(w) \in Nat /\ a < j /\ j <= a + Len(w) /\ j \in Nat
  <2>1. x \in Comps
    BY <1>1, <1>2, <1>3, <1>4, ElementOfSeq
  <2>2. a \in Nat /\ Len(w) \in Nat
    BY <1>4, <2>1, CompType
  <2>3. j \in Nat
    BY LenProperties DEF Text
  <2> QED BY <1>3, <1>4, <2>2, <2>3 DEF End
<1>6. m \in 1..Len(w) /\ a + m = j
  BY <1>4, <1>5
<1>7. s[a + m] = w[m] /\ t[a + m] = w[m]
  BY <1>1, <1>2, <1>3, <1>4, <1>6 DEF Placed, Located
<1> QED BY <1>6, <1>7

\* There is one text without redundant separators for a list of elements.
LEMMA OneText ==
    ASSUME NEW s \in Text, NEW t \in Text, Tight(s), Tight(t),
           Elements(Split(s)) = Elements(Split(t))
    PROVE  s = t
<1>1. /\ Scan(s) = Scan(t) /\ (s = <<>> <=> t = <<>>)
      /\ s # <<>> => (Last(s) = Sep <=> Last(t) = Sep)
  BY SameScan
<1>2. CASE s = <<>>
  BY <1>1, <1>2
<1>3. CASE s # <<>>
  <2>1. Len(s) = Len(t)
    <3>1. PICK cs, n : cs = Scan(s) /\ n = Len(cs)
      OBVIOUS
    <3>2. CASE Last(s) = Sep
      <4>1. Len(s) = After(cs[n])
        BY <1>3, <3>1, <3>2, TightPacked
      <4>2. Len(t) = After(cs[n])
        BY <1>1, <1>3, <3>1, <3>2, TightPacked
      <4> QED BY <4>1, <4>2
    <3>3. CASE Last(s) # Sep
      <4>1. Len(s) = End(cs[n])
        BY <1>3, <3>1, <3>3, ScanShape DEF Lies
      <4>2. Len(t) = End(cs[n])
        BY <1>1, <1>3, <3>1, <3>3, ScanShape DEF Lies
      <4> QED BY <4>1, <4>2
    <3> QED BY <3>2, <3>3
  <2>2. ASSUME NEW j \in 1..Len(s) PROVE s[j] = t[j]
    <3>1. s[j] # Sep => s[j] = t[j]
      BY <1>1, SamePlaces
    <3>2. t[j] # Sep => s[j] = t[j]
      BY <1>1, <2>1, SamePlaces
    <3> QED BY <3>1, <3>2
  <2> QED BY <2>1, <2>2, SeqEqual DEF Text
<1> QED BY <1>2, <1>3

-----------------------------------------------------------------------------
(* The normal form.                                                        *)

\* A list that ends in a parent reference and an empty name.
EndsUp(es) == Len(es) >= 2 /\ es[Len(es)] = <<>> /\ es[Len(es) - 1] = DotDot

\* What lexically_normal makes of the list its loop leaves.
Finished(es) == IF es = <<>> THEN <<DotName>> ELSE IF EndsUp(es) THEN Front(es) ELSE es

\* The object the loop leaves, without its last element.
LEMMA LessIs ==
    ASSUME NEW ret \in Objects, NEW o, o = Elements(ret), Shows(ret, o), ret.type = "MULTI", Len(o) >= 2,
           NEW last, last = [ret EXCEPT !.str = Front(@), !.cmpts = Front(@)]
    PROVE  Elements(last) = Front(o)
<1>1. PICK cs, n, k : cs = ret.cmpts /\ n = Len(o) /\ k = n - 1
  OBVIOUS
<1>2. /\ cs \in Seq(Comps) /\ o \in Seq(Text) /\ n \in Nat /\ k \in Nat /\ k \in 0..n /\ Len(cs) = n
      /\ \A i \in 1..n : cs[i].text = o[i]
  <2>1. cs \in Seq(Comps) /\ o \in Seq(Text)
    BY <1>1, ObjectIs, ElementsType
  <2>2. Len(cs) = n /\ \A i \in 1..n : cs[i].text = o[i]
    BY <1>1 DEF Shows
  <2>3. n \in Nat /\ k \in Nat /\ k \in 0..n
    BY <1>1, <2>1, LenProperties
  <2> QED BY <2>1, <2>2, <2>3
<1>3. PICK ds, u : ds = Front(cs) /\ u = Front(o)
  OBVIOUS
<1>4. ds \in Seq(Comps) /\ Len(ds) = k /\ \A i \in 1..k : ds[i] = cs[i]
  <2>1. ds = SubSeq(cs, 1, k)
    BY <1>1, <1>2, <1>3 DEF Front
  <2> QED BY <1>2, <2>1, PrefixIs
<1>5. u \in Seq(Text) /\ Len(u) = k /\ \A i \in 1..k : u[i] = o[i]
  <2>1. u = SubSeq(o, 1, k)
    BY <1>1, <1>2, <1>3 DEF Front
  <2> QED BY <1>1, <1>2, <2>1, PrefixIs
<1>6. last.cmpts = ds /\ last.type = "MULTI"
  BY <1>1, <1>3 DEF Objects
<1>7. Elements(last) = TextsOf(ds)
  BY <1>6 DEF Elements
<1>8. PICK x : x = TextsOf(ds)
  OBVIOUS
<1>9. x = [i \in 1..k |-> ds[i].text]
  BY <1>4, <1>8, LenProperties DEF TextsOf
<1>10. \A i \in 1..k : ds[i].text = u[i]
  BY <1>2, <1>4, <1>5
<1>11. x = [i \in 1..k |-> u[i]]
  BY <1>9, <1>10
<1>12. u = [i \in 1..k |-> u[i]]
  BY <1>5, LenProperties
<1> QED BY <1>3, <1>7, <1>8, <1>11, <1>12

\* The elements of what lexically_normal returns.
LEMMA NormalElements ==
    ASSUME NEW q, Formed(q), q.str # <<>>, NEW o, o = Elements(Normalized(Elements(q))), NEW elided \in BOOLEAN
    PROVE  Elements(LexicallyNormal(q, elided)) = Finished(o)
<1>1. PICK ret, last, n : /\ ret = Normalized(Elements(q)) /\ n = Len(ret.cmpts)
                          /\ last = [ret EXCEPT !.str = Front(@), !.cmpts = Front(@)]
  OBVIOUS
<1>2. ret \in Objects /\ Exact(ret) /\ o = Elements(ret)
  BY <1>1, NormalizedNeat DEF Neat, Exact
<1>3. Shows(ret, o) /\ o \in Seq(Text) /\ n \in Nat /\ Len(o) \in Nat
  <2>1. Shows(ret, o)
    BY <1>2, ExactShows
  <2>2. o \in Seq(Text) /\ ret.cmpts \in Seq(Comps)
    BY <1>2, ElementsType, ObjectIs
  <2> QED BY <1>1, <2>1, <2>2, LenProperties
<1>4. ASSUME NEW r, Exact(r) PROVE Elements(Returned(r, elided)) = Elements(r)
  <2>1. Elements(r) = Elements(Split(r.str))
    BY <1>4, ExactDescribed DEF Described
  <2> QED BY <2>1 DEF Returned
<1>5. ret.type # "MULTI" => n = 0
  <2> SUFFICES ASSUME ret.type # "MULTI" PROVE n = 0
    OBVIOUS
  <2>1. ret.cmpts = <<>>
    BY <1>3 DEF Shows
  <2> QED BY <1>1, <2>1
<1>6. ret.type = "MULTI" => /\ n = Len(o)
                            /\ \A i \in 1..n : ret.cmpts[i].text = o[i]
  BY <1>1, <1>3 DEF Shows
<1>7. ret.type # "MULTI" => Len(o) < 2
  <2> SUFFICES ASSUME ret.type # "MULTI" PROVE Len(o) < 2
    OBVIOUS
  <2>1. Len(o) # 0 => Len(o) = 1
    BY <1>3 DEF Shows
  <2>2. Len(o) = 0 \/ Len(o) = 1
    BY <2>1
  <2> QED BY <2>2
<1>8. CASE n >= 2 /\ EndsUp(o)
  <2>1. ret.type = "MULTI" /\ n = Len(o) /\ n - 1 \in 1..n /\ n \in 1..n
    BY <1>3, <1>5, <1>6, <1>8
  <2>2. ret.cmpts[n].text = <<>> /\ ret.cmpts[n - 1].text = DotDot
    BY <1>6, <1>8, <2>1 DEF EndsUp
  <2>3. \A e \in BOOLEAN : LexicallyNormal(q, e) = Returned(last, e)
    BY <1>1, <1>8, <2>2 DEF LexicallyNormal
  <2>4. Exact(last)
    <3>1. LexicallyNormal(q, TRUE) = last
      BY <2>3 DEF Returned
    <3>2. Exact(LexicallyNormal(q, TRUE))
      BY LexicallyNormalExact
    <3> QED BY <3>1, <3>2
  <2>5. Elements(last) = Front(o)
    BY <1>1, <1>2, <1>3, <1>8, <2>1, LessIs
  <2>6. o # <<>>
    BY <1>8 DEF EndsUp
  <2> QED BY <1>4, <1>8, <2>3, <2>4, <2>5, <2>6 DEF Finished
<1>9. CASE n >= 2 /\ ~EndsUp(o)
  <2>1. ret.type = "MULTI" /\ n = Len(o) /\ n - 1 \in 1..n /\ n \in 1..n
    BY <1>3, <1>5, <1>6, <1>9
  <2>2. ~(ret.cmpts[n].text = <<>> /\ ret.cmpts[n - 1].text = DotDot)
    BY <1>6, <1>9, <2>1 DEF EndsUp
  <2>3. LexicallyNormal(q, elided) = Returned(ret, elided)
    BY <1>1, <1>9, <2>2 DEF LexicallyNormal
  <2>4. o # <<>>
    BY <1>9, <2>1
  <2> QED BY <1>2, <1>4, <1>9, <2>3, <2>4 DEF Finished
<1>10. CASE ~(n >= 2) /\ ret.str = <<>>
  <2>1. LexicallyNormal(q, elided) = Split(DotName)
    BY <1>1, <1>10 DEF LexicallyNormal
  <2>2. o = <<>>
    BY <1>3, <1>10, EmptySeq DEF Shows
  <2>3. Elements(Split(DotName)) = <<DotName>>
    <3>1. PICK r : r = Split(DotName)
      OBVIOUS
    <3>2. r.type = "FILENAME" /\ r.str = DotName
      BY <3>1, SplitSingle, ItemsAre
    <3>3. Elements(r) = <<r.str>>
      BY <3>2, ItemsAre DEF Elements
    <3> QED BY <3>1, <3>2, <3>3
  <2> QED BY <2>1, <2>2, <2>3 DEF Finished
<1>11. CASE ~(n >= 2) /\ ret.str # <<>>
  <2>1. LexicallyNormal(q, elided) = Returned(ret, elided)
    BY <1>1, <1>11 DEF LexicallyNormal
  <2>2. o # <<>> /\ ~EndsUp(o)
    <3>1. Len(o) # 0
      BY <1>3, <1>11 DEF Shows
    <3>2. ~(Len(o) >= 2)
      BY <1>3, <1>6, <1>7, <1>11
    <3> QED BY <3>1, <3>2 DEF EndsUp
  <2> QED BY <1>2, <1>4, <2>1, <2>2 DEF Finished
<1> QED BY <1>8, <1>9, <1>10, <1>11

\* A text that shows es as it is.
Spells(t, es) == t \in Text /\ Tight(t) /\ Elements(Split(t)) = es

\* The end of the list that such items leave.
LEMMA ReducedEnds ==
    ASSUME NEW ts, Reduced(ts), NEW n, n = Len(ts), n # 0, NEW o, o = At(ts, n)
    PROVE  /\ o # <<>>
           /\ EndsUp(o) <=> n > 1 /\ ts[n] = <<Sep>> /\ ts[n - 1] = DotDot
           /\ EndsUp(o) => Front(o) = At(ts, n - 1) /\ At(ts, n - 1) # <<>>
<1>1. /\ Mixed(ts) /\ n \in Nat /\ n \in 1..n /\ n \in 1..Len(ts)
      /\ (n > 1 => n - 1 \in 1..Len(ts) /\ n - 1 < n)
  <2>1. Mixed(ts) /\ Len(ts) \in Nat
    BY LenProperties DEF Reduced, Mixed
  <2> QED BY <2>1
<1>2. \A i \in 1..Len(ts) : Adds(ts, i)
  BY AllAdd
<1>3. CASE ts[n] # <<Sep>>
  <2>1. IsName(ts[n]) /\ o # <<>> /\ o[Len(o)] = ts[n]
    BY <1>1, <1>2, <1>3, AddsIs
  <2>2. ~EndsUp(o)
    BY <2>1, ItemsAre DEF EndsUp
  <2> QED BY <1>3, <2>1, <2>2
<1>4. CASE ts[n] = <<Sep>> /\ n = 1
  <2>1. At(ts, 0) = Start(ts)
    BY <1>1, AtIs
  <2>2. Start(ts) = <<<<Sep>>>>
    <3>1. ts # <<>>
      BY <1>4
    <3> QED BY <1>4, <3>1 DEF Start
  <2>3. o = Shut(Bare(At(ts, 0)))
    <3>1. Adds(ts, 1) /\ n - 1 = 0
      BY <1>1, <1>2, <1>4
    <3> QED BY <1>4, <3>1 DEF Adds
  <2>4. o = <<<<Sep>>>>
    BY <2>1, <2>2, <2>3, SmallLists
  <2>5. ~EndsUp(o)
    BY <2>4, SmallLists DEF EndsUp
  <2> QED BY <1>4, <2>4, <2>5, SmallLists
<1>5. CASE ts[n] = <<Sep>> /\ n # 1
  <2>1. PICK h, w, b, a : h = n - 1 /\ w = ts[h] /\ b = At(ts, h) /\ a = Bare(At(ts, h - 1))
    OBVIOUS
  <2>2. h \in 1..Len(ts) /\ n = h + 1 /\ n <= Len(ts) /\ n > 1 /\ n - 1 = h
    BY <1>1, <1>5, <2>1
  <2>3. w # <<Sep>>
    BY <1>1, <1>5, <2>1, <2>2, Neighbours
  <2>4. Solid(a) /\ IsName(w) /\ Bare(b) = b /\ b # <<>> /\ b = Append(a, w)
    <3>1. Adds(ts, h)
      BY <1>2, <2>2
    <3>2. Solid(a) /\ IsName(w) /\ Bare(b) = b /\ b # <<>>
      BY <1>1, <2>1, <2>2, <2>3, <3>1, AddsIs
    <3>3. b = Append(a, w)
      BY <2>1, <2>3, <3>1 DEF Adds
    <3> QED BY <3>2, <3>3
  <2>5. o = Shut(b)
    <3>1. Adds(ts, n)
      BY <1>1, <1>2
    <3> QED BY <1>5, <2>1, <2>4, <3>1 DEF Adds
  <2>6. /\ o = Append(b, <<>>) /\ o # <<>> /\ o[Len(o)] = <<>> /\ Len(o) = Len(b) + 1
        /\ \A i \in 1..Len(b) : o[i] = b[i]
    <3>1. /\ Shut(Append(a, w)) = Append(Append(a, w), <<>>) /\ Append(Append(a, w), <<>>) # <<>>
          /\ Append(Append(a, w), <<>>)[Len(Append(Append(a, w), <<>>))] = <<>>
          /\ Len(Append(Append(a, w), <<>>)) = Len(Append(a, w)) + 1
          /\ \A i \in 1..Len(Append(a, w)) : Append(Append(a, w), <<>>)[i] = Append(a, w)[i]
      BY <2>4, ShutName
    <3> QED BY <2>4, <2>5, <3>1
  <2>7. Bare(o) = b
    <3>1. Solid(b)
      BY <2>4, WithName
    <3> QED BY <2>5, <3>1, ShutIs
  <2>8. Front(o) = b
    BY <2>6, <2>7 DEF Bare
  <2>9. Len(b) \in Nat /\ Len(b) > 0 /\ b[Len(b)] = w
    <3>1. Append(a, w)[Len(Append(a, w))] = w /\ Len(Append(a, w)) = Len(a) + 1 /\ Len(a) \in Nat
      BY <2>4, WithName
    <3> QED BY <2>4, <3>1
  <2>10. EndsUp(o) <=> w = DotDot
    <3>1. Len(o) - 1 = Len(b) /\ Len(o) >= 2 /\ Len(b) \in 1..Len(b)
      BY <2>6, <2>9
    <3>2. o[Len(o) - 1] = w
      BY <2>6, <2>9, <3>1
    <3> QED BY <2>6, <3>1, <3>2 DEF EndsUp
  <2> QED BY <1>5, <2>1, <2>2, <2>4, <2>6, <2>8, <2>10
<1> QED BY <1>3, <1>4, <1>5

\* The first items of such a list are one.
LEMMA ReducedPrefix ==
    ASSUME NEW ts, Reduced(ts), NEW k \in 1..Len(ts)
    PROVE  LET u == SubSeq(ts, 1, k)
           IN  Reduced(u) /\ Len(u) = k /\ u # <<>> /\ u[k] = ts[k] /\ At(u, k) = At(ts, k)
<1>1. PICK u, n : u = SubSeq(ts, 1, k) /\ n = Len(ts)
  OBVIOUS
<1>2. Mixed(ts) /\ n \in Nat /\ k \in 0..n /\ k \in Nat /\ k <= n /\ ts \in Seq(Items) /\ DOMAIN ts = 1..n /\ k \in 1..k /\ 1 \in 1..k
  <2>1. Mixed(ts) /\ n \in Nat /\ ts \in Seq(Items) /\ DOMAIN ts = 1..n
    BY <1>1, LenProperties DEF Reduced, Mixed
  <2> QED BY <1>1, <2>1
<1>3. Mixed(u) /\ u \in Seq(Items) /\ Len(u) = k /\ \A i \in 1..k : u[i] = ts[i]
  BY <1>1, <1>2, MixedParts
<1>4. DOMAIN u = 1..k /\ u # <<>>
  BY <1>2, <1>3, LenProperties
<1>5. Dots(u) = {}
  <2>1. \A i \in 1..k : i \in 1..n /\ ts[i] # DotName
    BY <1>2 DEF Reduced, Dots
  <2> QED BY <1>3, <1>4, <2>1 DEF Dots
<1>6. Detours(u) = {}
  <2> SUFFICES ASSUME NEW i \in 1..k, i + 2 <= k, u[i] \notin {<<Sep>>, DotDot}, u[i + 2] = DotDot
               PROVE  FALSE
    BY <1>3, <1>4 DEF Detours
  <2>1. PICK j : j = i + 2
    OBVIOUS
  <2>2. j \in 1..k /\ i \in 1..n /\ j <= n
    BY <1>2, <2>1
  <2>3. ts[i] \notin {<<Sep>>, DotDot} /\ ts[j] = DotDot
    BY <1>3, <2>1, <2>2
  <2>4. i \in Detours(ts)
    BY <1>1, <1>2, <2>1, <2>2, <2>3 DEF Detours
  <2> QED BY <2>4 DEF Reduced
<1>7. ~(Len(u) > 1 /\ u[1] = <<Sep>> /\ u[2] = DotDot)
  <2> SUFFICES ASSUME k > 1, u[1] = <<Sep>>, u[2] = DotDot PROVE FALSE
    BY <1>3
  <2>1. 1 \in 1..k /\ 2 \in 1..k /\ n > 1
    BY <1>2
  <2>2. ts[1] = <<Sep>> /\ ts[2] = DotDot
    BY <1>3, <2>1
  <2> QED BY <1>1, <2>1, <2>2 DEF Reduced
<1>8. At(u, k) = At(ts, k)
  <2>1. Start(u) = Start(ts)
    <3>1. ts # <<>> /\ u[1] = ts[1]
      BY <1>1, <1>2, <1>3
    <3> QED BY <1>4, <3>1 DEF Start
  <2>2. SubSeq(u, 1, k) = u
    BY <1>3, PrefixMore
  <2> QED BY <1>1, <2>1, <2>2 DEF At
<1>9. Reduced(u)
  BY <1>3, <1>5, <1>6, <1>7 DEF Reduced
<1> QED BY <1>1, <1>2, <1>3, <1>4, <1>8, <1>9

\* The standard's normal form shows the elements lexically_normal returns.
LEMMA NormalFormIs ==
    ASSUME NEW q, Formed(q), q.str # <<>>, NEW o, o = Elements(Normalized(Elements(q)))
    PROVE  Spells(NormalForm(q), Finished(o))
<1>1. PICK ts, n, es : ts = Final(q) /\ n = Len(ts) /\ es = Elements(q)
  OBVIOUS
<1>2. Reduced(ts) /\ Start(ts) = Start(es) /\ Run(Start(ts), ts) = o /\ Mixed(ts) /\ n \in Nat
  <2>1. Reduced(ts) /\ Start(ts) = Start(es) /\ Run(Start(es), ts) = Run(Start(es), es)
    BY <1>1, FinalIs
  <2>2. o = Run(Start(es), es)
    BY <1>1, NormalizedShows
  <2>3. Mixed(ts) /\ Len(ts) \in Nat
    BY <2>1, LenProperties DEF Reduced, Mixed
  <2> QED BY <1>1, <2>1, <2>2, <2>3
<1>3. At(ts, n) = o
  BY <1>1, <1>2, AtIs
<1>4. PICK bare : bare = IF n > 1 /\ ts[n] = <<Sep>> /\ ts[n - 1] = DotDot
                         THEN SubSeq(ts, 1, n - 1) ELSE ts
  OBVIOUS
<1>5. NormalForm(q) = IF bare = <<>> THEN DotName ELSE FlattenSeq(bare)
  BY <1>1, <1>4 DEF NormalForm, Final
<1>6. CASE n = 0
  <2>1. ts = <<>> /\ bare = <<>>
    <3>1. ts = <<>>
      BY <1>1, <1>2, <1>6, EmptySeq DEF Mixed
    <3> QED BY <1>4, <1>6, <3>1
  <2>2. o = <<>>
    <3>1. At(ts, 0) = Start(ts)
      BY <1>2, AtIs
    <3>2. Start(ts) = <<>>
      BY <2>1 DEF Start
    <3> QED BY <1>3, <1>6, <3>1, <3>2
  <2>3. Elements(Split(DotName)) = <<DotName>>
    <3>1. PICK r : r = Split(DotName)
      OBVIOUS
    <3>2. r.type = "FILENAME" /\ r.str = DotName
      BY <3>1, SplitSingle, ItemsAre
    <3>3. Elements(r) = <<r.str>>
      BY <3>2, ItemsAre DEF Elements
    <3> QED BY <3>1, <3>2, <3>3
  <2>4. DotName \in Text /\ Tight(DotName)
    BY ItemsAre, TightName, Characters
  <2> QED BY <1>5, <2>1, <2>2, <2>3, <2>4 DEF Spells, Finished
<1>7. CASE n # 0
  <2>1. /\ o # <<>>
        /\ EndsUp(o) <=> n > 1 /\ ts[n] = <<Sep>> /\ ts[n - 1] = DotDot
        /\ EndsUp(o) => Front(o) = At(ts, n - 1) /\ At(ts, n - 1) # <<>>
    BY <1>1, <1>2, <1>3, <1>7, ReducedEnds
  <2>2. CASE ~EndsUp(o)
    <3>1. bare = ts /\ bare # <<>>
      BY <1>1, <1>4, <1>7, <2>1, <2>2
    <3>2. Reads(FlattenSeq(ts), o, ts[n])
      BY <1>1, <1>2, <1>3, <1>7, ReadsAll
    <3> QED BY <1>5, <2>1, <2>2, <3>1, <3>2 DEF Spells, Finished, Reads
  <2>3. CASE EndsUp(o)
    <3>1. PICK k, u : k = n - 1 /\ u = SubSeq(ts, 1, k)
      OBVIOUS
    <3>2. k \in 1..Len(ts) /\ k # 0
      BY <1>1, <1>2, <2>1, <2>3, <3>1
    <3>3. Reduced(u) /\ Len(u) = k /\ u # <<>> /\ At(u, k) = At(ts, k)
      BY <1>2, <3>1, <3>2, ReducedPrefix
    <3>4. bare = u
      BY <1>4, <2>1, <2>3, <3>1
    <3>5. Reads(FlattenSeq(u), At(u, Len(u)), u[Len(u)])
      BY <3>2, <3>3, ReadsAll
    <3>6. At(u, Len(u)) = Front(o)
      BY <2>1, <2>3, <3>1, <3>3
    <3> QED BY <1>5, <2>1, <2>3, <3>3, <3>4, <3>5, <3>6 DEF Spells, Finished, Reads
  <2> QED BY <2>2, <2>3
<1> QED BY <1>6, <1>7

\* lexically_normal yields that form.
LEMMA NormalMeetsForm ==
    ASSUME NEW q, Formed(q), NEW elided \in BOOLEAN
    PROVE  LET n == LexicallyNormal(q, elided)
           IN  n.str = NormalForm(q) /\ Elements(n) = Elements(Split(n.str))
<1>1. PICK n, s : n = LexicallyNormal(q, elided) /\ s = n.str
  OBVIOUS
<1>2. Exact(n) /\ Tight(s) /\ s \in Text /\ Elements(n) = Elements(Split(s))
  <2>1. Exact(n) /\ Tight(s)
    BY <1>1, LexicallyNormalExact, NormalTight
  <2>2. s \in Text
    BY <1>1, <2>1, ObjectIs DEF Exact
  <2>3. Elements(n) = Elements(Split(s))
    BY <1>1, <2>1, ExactDescribed DEF Described
  <2> QED BY <2>1, <2>2, <2>3
<1>3. CASE q.str = <<>>
  <2>1. n = Empty
    BY <1>1, <1>3 DEF LexicallyNormal
  <2>2. s = <<>>
    BY <1>1, <2>1, EmptyIs
  <2>3. NormalForm(q) = <<>>
    BY <1>3 DEF NormalForm
  <2> QED BY <1>1, <1>2, <2>2, <2>3
<1>4. CASE q.str # <<>>
  <2>1. PICK o, t : o = Elements(Normalized(Elements(q))) /\ t = NormalForm(q)
    OBVIOUS
  <2>2. Elements(n) = Finished(o)
    BY <1>1, <1>4, <2>1, NormalElements
  <2>3. Spells(t, Finished(o))
    BY <1>4, <2>1, NormalFormIs
  <2>4. t \in Text /\ Tight(t) /\ Elements(Split(t)) = Finished(o)
    BY <2>3 DEF Spells
  <2>5. Elements(Split(s)) = Elements(Split(t))
    BY <1>2, <2>2, <2>4
  <2>6. s = t
    BY <1>2, <2>4, <2>5, OneText
  <2> QED BY <1>1, <1>2, <2>1, <2>6
<1> QED BY <1>3, <1>4

\* lexically_normal, which edits its result in place while it goes through
\* the elements once, yields the normal form the standard defines by
\* rewriting, whatever calls the object has been through.
THEOREM NormalFormIsReached ==
    Spec => []NormalIsTheNormalForm
<1>1. Init => InForm
  <2>1. ASSUME NEW n \in Nat, NEW t \in Texts(n) PROVE t \in Text
    BY DEF Texts, Text
  <2>2. \A t \in Texts(MaxLen) : Exact(Split(t))
    BY <2>1, BoundsAssumption, SplitExact
  <2>3. Exact(Empty)
    BY EmptyNeat DEF Neat
  <2>4. Init => Exact(p)
    BY <2>2, <2>3 DEF Init
  <2> QED BY <2>4, ExactFormed DEF InForm
<1>2. InForm /\ [Next]_vars => InForm'
  BY CallKeeps
<1>3. InForm => NormalIsTheNormalForm
  BY NormalMeetsForm DEF InForm, NormalIsTheNormalForm
<1> QED BY <1>1, <1>2, <1>3, PTL DEF Spec

-----------------------------------------------------------------------------
(* The relative path between two paths.                                    *)

\* Names, and those that are no references.
Words == {w \in Text : IsName(w)}
Steps == {w \in Words : w \notin {DotName, DotDot}}

\* Names are items.
LEMMA WordsAre ==
    /\ Steps \subseteq Words /\ Words \subseteq Items /\ Words \subseteq Text
    /\ DotDot \in Words /\ DotName \in Words
    /\ \A w \in Words : IsName(w)
    /\ \A w \in Steps : IsName(w) /\ w # DotName /\ w # DotDot
    /\ Seq(Steps) \subseteq Seq(Words) /\ Seq(Words) \subseteq Seq(Items) /\ Seq(Words) \subseteq Seq(Text)
<1>1. DotDot \in Words /\ DotName \in Words
  BY ItemsAre DEF Words, IsName
<1>2. Words \subseteq Items
  BY DEF Words, Items, Plain
<1>3. Steps \subseteq Words /\ Words \subseteq Text
  BY DEF Words, Steps
<1>4. ASSUME NEW A, NEW B, A \subseteq B PROVE Seq(A) \subseteq Seq(B)
  BY <1>4
<1> QED BY <1>1, <1>2, <1>3, <1>4 DEF Words, Steps

\* Names are appended one after the other.
LEMMA AppendedTurns ==
    /\ Appended(<<>>) = Empty
    /\ \A ws \in Seq(Words) : Appended(ws) \in Neat
    /\ \A ws \in Seq(Words), w \in Words : Appended(Append(ws, w)) = AppendPath(Appended(ws), Split(w))
<1> DEFINE Is(f, es) == f = [i \in 0..Len(es) |-> IF i = 0 THEN Empty ELSE AppendPath(f[i - 1], Split(es[i]))]
           Makes(f, es) == /\ f[0] = Empty /\ Appended(es) = f[Len(es)]
                          /\ \A i \in 1..Len(es) : f[i] = AppendPath(f[i - 1], Split(es[i]))
<1>1. ASSUME NEW q \in Neat, NEW w \in Words PROVE AppendPath(q, Split(w)) \in Neat
  <2>1. IsName(w) /\ w \in Text /\ Tight(w)
    BY TightName DEF Words
  <2>2. Split(w).str = w
    BY <2>1, SplitSingle
  <2>3. Split(w) \in Neat
    BY <2>1, SplitNeat
  <2> QED BY <2>1, <2>2, <2>3, AppendNeat
<1>2. ASSUME NEW es \in Seq(Words) PROVE \E f : Makes(f, es) /\ \A i \in 0..Len(es) : f[i] \in Neat
  <2>1. PICK n : n = Len(es) /\ n \in Nat /\ \A i \in 1..n : es[i] \in Words
    BY LenProperties, ElementOfSeq
  <2> DEFINE next == [i \in 1..n |-> [q \in Neat |-> AppendPath(q, Split(es[i]))]]
             f == CHOOSE g : Is(g, es)
  <2>2. \A q \in Neat, i \in 1..n : AppendPath(q, Split(es[i])) \in Neat
    BY <1>1, <2>1
  <2>3. PICK at : Computes(at, n, Neat, Empty, next)
    <3>1. Keeps(next, n, Neat)
      BY <2>2 DEF Keeps
    <3>2. PICK r, nx : r = Empty /\ nx = next /\ r \in Neat
      BY EmptyNeat
    <3> HIDE DEF next
    <3> QED BY <2>1, <3>1, <3>2, RecursionIn
  <2>4. at \in [0..n -> Neat] /\ at[0] = Empty
    BY <2>3 DEF Computes
  <2>5. ASSUME NEW i \in 1..n PROVE at[i] = AppendPath(at[i - 1], Split(es[i]))
    <3>1. i - 1 \in 0..n
      BY <2>1
    <3>2. at[i - 1] \in Neat
      BY <2>4, <3>1
    <3> QED BY <2>3, <3>2 DEF Computes
  <2>6. Is(at, es)
    BY <2>1, <2>4, <2>5
  <2>7. Is(f, es)
    BY <2>6
  <2>8. Appended(es) = f[n]
    BY <2>1 DEF Appended
  <2> HIDE DEF f
  <2>9. f[0] = Empty /\ \A i \in 1..n : f[i] = AppendPath(f[i - 1], Split(es[i]))
    BY <2>1, <2>7
  <2>10. \A i \in 0..n : f[i] \in Neat
    <3>1. \A i \in 1..n : f[i - 1] \in Neat => f[i] \in Neat
      BY <2>2, <2>9
    <3> QED BY <2>1, <2>9, <3>1, EmptyNeat, StaysIn
  <2> QED BY <2>1, <2>8, <2>9, <2>10
<1>3. Appended(<<>>) = Empty
  <2>0. <<>> \in Seq(Words) /\ Len(<<>>) = 0
    OBVIOUS
  <2>1. PICK es : es = <<>> /\ es \in Seq(Words) /\ Len(es) = 0
    BY <2>0
  <2>2. PICK f : Makes(f, es) /\ \A i \in 0..Len(es) : f[i] \in Neat
    BY <1>2, <2>1
  <2> QED BY <2>1, <2>2
<1>4. ASSUME NEW ws \in Seq(Words) PROVE Appended(ws) \in Neat
  <2>1. PICK f : Makes(f, ws) /\ \A i \in 0..Len(ws) : f[i] \in Neat
    BY <1>2
  <2>2. Len(ws) \in 0..Len(ws)
    BY LenProperties
  <2> QED BY <2>1, <2>2
<1>5. ASSUME NEW ws \in Seq(Words), NEW w \in Words
      PROVE  Appended(Append(ws, w)) = AppendPath(Appended(ws), Split(w))
  <2>1. PICK t, n : t = Append(ws, w) /\ n = Len(ws)
    OBVIOUS
  <2>2. t \in Seq(Words) /\ Len(t) = n + 1 /\ n \in Nat /\ t[n + 1] = w /\ \A i \in 1..n : t[i] = ws[i]
    BY <2>1, OneMoreItem
  <2>3. PICK f : f[0] = Empty /\ Appended(ws) = f[n] /\ \A i \in 1..n : f[i] = AppendPath(f[i - 1], Split(ws[i]))
    BY <1>2, <2>1
  <2>4. PICK m, g : /\ m = n + 1 /\ g[0] = Empty /\ Appended(t) = g[m]
                    /\ \A i \in 1..m : g[i] = AppendPath(g[i - 1], Split(t[i]))
    <3>1. PICK g : Makes(g, t)
      BY <1>2, <2>2
    <3> QED BY <2>2, <3>1
  <2> DEFINE T == {i \in Nat : i <= n => g[i] = f[i]}
  <2>5. 0 \in T
    BY <2>3, <2>4
  <2>6. ASSUME NEW i \in Nat, i \in T PROVE i + 1 \in T
    <3> SUFFICES ASSUME i + 1 <= n PROVE g[i + 1] = f[i + 1]
      OBVIOUS
    <3>1. i + 1 \in 1..n /\ i + 1 \in 1..m /\ i + 1 - 1 = i /\ g[i] = f[i]
      BY <2>2, <2>4, <2>6
    <3> QED BY <2>2, <2>3, <2>4, <3>1
  <2> HIDE DEF T
  <2>7. Nat \subseteq T
    BY <2>5, <2>6, Induction
  <2>8. g[n] = f[n]
    BY <2>2, <2>7 DEF T
  <2>9. m \in 1..m /\ m - 1 = n /\ t[m] = w
    BY <2>2, <2>4
  <2>10. g[m] = AppendPath(g[n], Split(w))
    BY <2>4, <2>9
  <2> QED BY <2>1, <2>3, <2>4, <2>8, <2>10
<1> QED BY <1>3, <1>4, <1>5

\* What begins as text t shows with names appended to it, and what these alone
\* show.
Extends(t, b, ws) ==
    LET r == Appended(ws)
    IN  /\ r.str \in Text /\ t \o r.str \in Text
        /\ ws = <<>> => r.str = <<>>
        /\ ws # <<>> => /\ r.str # <<>> /\ Last(r.str) # Sep
                        /\ t \o r.str # <<>> /\ Last(t \o r.str) # Sep
        /\ TextsOf(Scan(t \o r.str)) = b \o ws

\* The text of a path with a name appended to it.
LEMMA LongerText ==
    ASSUME NEW q \in Neat, NEW w \in Words
    PROVE  LET s == IF HasFilename(q) THEN Append(q.str, Sep) ELSE q.str
           IN  s \in Text /\ AppendPath(q, Split(w)).str = s \o w
<1>1. PICK x, s, t : /\ x = q.str /\ s = x \o (IF HasFilename(q) THEN <<Sep>> ELSE <<>>)
                     /\ t = IF HasFilename(q) THEN Append(x, Sep) ELSE x
  OBVIOUS
<1>2. x \in Text /\ Tight(x) /\ (HasFilename(q) <=> x # <<>> /\ Last(x) # Sep)
  BY <1>1, ObjectIs, ExactFilename DEF Neat, Ordered
<1>3. s = t /\ s \in Text
  <2>1. x \o <<>> = x /\ x \o <<Sep>> = Append(x, Sep) /\ Append(x, Sep) \in Text
    BY <1>2, Characters DEF Text
  <2> QED BY <1>1, <1>2, <2>1
<1>4. IsName(w) /\ w \in Text /\ Tight(w) /\ Tight(<<Sep>>) /\ Tight(<<>>) /\ w[1] # Sep
  <2>1. IsName(w) /\ w \in Text
    BY DEF Words
  <2>2. w[1] # Sep
    <3>1. 1 \in 1..Len(w)
      BY <2>1 DEF IsName, Text
    <3> QED BY <2>1, <3>1 DEF IsName
  <2> QED BY <2>1, <2>2, TightName
<1>5. Tight(s)
  BY <1>1, <1>2, <1>4, TightJoin, Characters
<1>6. s \o w \in Text /\ Tight(s \o w)
  BY <1>3, <1>4, <1>5, TightJoin
<1>7. AppendPath(q, Split(w)) = Split(s \o w)
  <2>1. Split(w) = [str |-> w, cmpts |-> <<>>, type |-> "FILENAME"]
    BY <1>4, SplitSingle
  <2>2. ~IsAbsolute(Split(w)) /\ Split(w).str = w
    BY <2>1 DEF IsAbsolute, HasRootDirectory
  <2> QED BY <1>1, <2>2 DEF AppendPath
<1>8. PICK r, y : r = Split(s \o w) /\ y = r.str
  OBVIOUS
<1>9. r \in Neat /\ y \in Text /\ Tight(y) /\ Elements(r) = Elements(Split(y))
  <2>1. r \in Neat
    BY <1>6, <1>8, SplitNeat
  <2>2. Elements(r) = Elements(Split(y))
    BY <1>8, <2>1, ExactDescribed DEF Neat, Described
  <2> QED BY <1>8, <2>1, <2>2, ObjectIs DEF Neat, Ordered
<1>10. y = s \o w
  BY <1>6, <1>8, <1>9, OneText
<1> QED BY <1>1, <1>3, <1>7, <1>8, <1>10

\* It does not matter which two of three texts are joined first.
LEMMA ThreeTexts ==
    ASSUME NEW t \in Text, NEW s \in Text, NEW w \in Text
    PROVE  t \o (s \o w) = (t \o s) \o w
BY ConcatAssociative DEF Text

\* A name behind a text that ends in a separator.
LEMMA NameBehind ==
    ASSUME NEW y \in Text, y = <<>> \/ Last(y) = Sep, NEW c, c = TextsOf(Scan(y)), NEW w, IsName(w)
    PROVE  /\ y \o w \in Text /\ y \o w # <<>> /\ Last(y \o w) # Sep
           /\ TextsOf(Scan(y \o w)) = Append(c, w)
BY ReadsMore

\* What names appended to nothing show behind a text that ends in a separator.
LEMMA AppendedShows ==
    ASSUME NEW t \in Text, t = <<>> \/ Last(t) = Sep, NEW b, b = TextsOf(Scan(t))
    PROVE  \A ws \in Seq(Words) : Extends(t, b, ws)
<1> DEFINE S == {ws \in Seq(Words) : Extends(t, b, ws)}
<1>1. <<>> \in S
  <2>1. PICK ws, r : ws = <<>> /\ r = Appended(ws)
    OBVIOUS
  <2>2. ws \in Seq(Words) /\ r.str = <<>>
    BY <2>1, AppendedTurns, EmptyIs
  <2>3. t \o r.str = t /\ b \o ws = b
    <3>1. b \in Seq(Text)
      BY ReadsText DEF Solid, Listing
    <3>2. t \o <<>> = t /\ b \o <<>> = b
      BY <3>1 DEF Text
    <3> QED BY <2>1, <2>2, <3>2
  <2>4. <<>> \in Text
    BY Characters
  <2> QED BY <2>1, <2>2, <2>3, <2>4 DEF Extends
<1>2. ASSUME NEW ws \in Seq(Words), NEW w \in Words, ws \in S PROVE Append(ws, w) \in S
  <2>1. PICK u, q, r, x : u = Append(ws, w) /\ q = Appended(ws) /\ r = Appended(u) /\ x = q.str
    OBVIOUS
  <2>2. u \in Seq(Words) /\ u # <<>> /\ q \in Neat /\ r = AppendPath(q, Split(w)) /\ IsName(w)
    BY <2>1, OneMoreItem, AppendedTurns DEF Words
  <2>3. /\ x \in Text /\ t \o x \in Text
        /\ ws = <<>> => x = <<>>
        /\ ws # <<>> => x # <<>> /\ Last(x) # Sep /\ t \o x # <<>> /\ Last(t \o x) # Sep
        /\ TextsOf(Scan(t \o x)) = b \o ws
    BY <1>2, <2>1 DEF Extends
  <2>4. HasFilename(q) <=> ws # <<>>
    <3>1. HasFilename(q) <=> x # <<>> /\ Last(x) # Sep
      BY <2>1, <2>2, ExactFilename DEF Neat
    <3> QED BY <2>3, <3>1
  <2>5. PICK s : s = (IF HasFilename(q) THEN Append(x, Sep) ELSE x) /\ s \in Text /\ r.str = s \o w
    BY <2>1, <2>2, LongerText
  <2>6. PICK y : y = t \o s /\ y \in Text /\ (y = <<>> \/ Last(y) = Sep) /\ TextsOf(Scan(y)) = b \o ws
    <3>1. CASE ws = <<>>
      <4>1. s = x /\ t \o s = t
        BY <2>3, <2>4, <2>5, <3>1 DEF Text
      <4> QED BY <2>3, <2>5, <3>1, <4>1
    <3>2. CASE ws # <<>>
      <4>1. s = Append(x, Sep)
        BY <2>4, <2>5, <3>2
      <4>2. t \o s = Append(t \o x, Sep)
        BY <2>3, <4>1, Characters DEF Text
      <4> QED BY <2>3, <3>2, <4>2, ReadsMore
    <3> QED BY <3>1, <3>2
  <2>7. /\ y \o w \in Text /\ y \o w # <<>> /\ Last(y \o w) # Sep
        /\ TextsOf(Scan(y \o w)) = Append(b \o ws, w)
    <3>1. PICK c : c = b \o ws /\ c = TextsOf(Scan(y))
      BY <2>6
    <3>0. c = TextsOf(Scan(y)) /\ y \in Text /\ (y = <<>> \/ Last(y) = Sep) /\ IsName(w)
      BY <2>2, <2>6, <3>1
    <3>2. /\ y \o w \in Text /\ y \o w # <<>> /\ Last(y \o w) # Sep
          /\ TextsOf(Scan(y \o w)) = Append(c, w)
      BY <3>0, NameBehind
    <3> QED BY <3>1, <3>2
  <2>8. s \o w # <<>> /\ Last(s \o w) # Sep /\ s \o w \in Text
    <3>1. s = <<>> \/ Last(s) = Sep
      <4>1. CASE ws = <<>>
        BY <2>3, <2>4, <2>5, <4>1
      <4>2. CASE ws # <<>>
        BY <2>3, <2>4, <2>5, <4>2, ReadsMore
      <4> QED BY <4>1, <4>2
    <3> QED BY <2>2, <2>5, <3>1, ReadsMore
  <2>9. t \o r.str = y \o w
    <3>1. t \in Seq(Alphabet) /\ s \in Seq(Alphabet) /\ w \in Seq(Alphabet)
      BY <2>2, <2>5 DEF Text, IsName
    <3>2. t \o (s \o w) = (t \o s) \o w
      BY <3>1, ThreeTexts DEF Text
    <3> QED BY <2>5, <2>6, <3>2
  <2>10. b \o u = Append(b \o ws, w)
    <3>1. b \in Seq(Text) /\ ws \in Seq(Text) /\ w \in Text
      BY <2>2, ReadsText, WordsAre DEF Solid, Listing
    <3> QED BY <2>1, <3>1
  <2> QED BY <2>1, <2>2, <2>5, <2>7, <2>8, <2>9, <2>10 DEF Extends
<1> HIDE DEF S
<1>3. Seq(Words) \subseteq S
  BY <1>1, <1>2, ListInduction
<1> QED BY <1>3 DEF S

\* What a path shows when such names are appended to it.
LEMMA ReachesFrom ==
    ASSUME NEW q, NEW b, ShowsText(q, b), NEW ws \in Seq(Words), ws # <<>>
    PROVE  /\ Elements(AppendPath(q, Appended(ws))) = b \o ws
           /\ Elements(Appended(ws)) = ws /\ Appended(ws).str # <<>>
<1>1. PICK s, t, r, x : /\ s = q.str /\ t = s \o (IF HasFilename(q) THEN <<Sep>> ELSE <<>>)
                        /\ r = Appended(ws) /\ x = r.str
  OBVIOUS
<1>2. /\ s \in Text /\ b = TextsOf(Scan(s)) /\ (HasFilename(q) <=> s # <<>> /\ Last(s) # Sep)
      /\ (b = <<>> <=> s = <<>>)
  BY <1>1 DEF ShowsText
<1>3. t \in Text /\ (t = <<>> \/ Last(t) = Sep) /\ TextsOf(Scan(t)) = b
  <2>1. CASE HasFilename(q)
    <3>1. t = Append(s, Sep)
      <4>1. t = s \o <<Sep>>
        BY <1>1, <2>1
      <4> QED BY <1>2, <4>1, Characters DEF Text
    <3> QED BY <1>2, <2>1, <3>1, ReadsMore
  <2>2. CASE ~HasFilename(q)
    <3>1. t = s
      <4>1. t = s \o <<>>
        BY <1>1, <2>2
      <4> QED BY <1>2, <4>1 DEF Text
    <3> QED BY <1>2, <2>2, <3>1
  <2> QED BY <2>1, <2>2
<1>4. /\ t \o x \in Text /\ t \o x # <<>> /\ Last(t \o x) # Sep /\ TextsOf(Scan(t \o x)) = b \o ws
      /\ x # <<>> /\ Last(x) # Sep /\ x \in Text
  <2>1. Extends(t, b, ws)
    BY <1>3, AppendedShows
  <2> QED BY <1>1, <2>1 DEF Extends
<1>5. Elements(Split(t \o x)) = b \o ws
  BY <1>4, ReadsText
<1>6. r \in Neat /\ Exact(r) /\ Elements(r) = Elements(Split(x))
  <2>1. r \in Neat /\ Exact(r)
    BY <1>1, AppendedTurns DEF Neat
  <2> QED BY <1>1, <2>1, ExactDescribed DEF Described
<1>7. Elements(r) = ws
  <2>1. PICK e : e = <<>> /\ e \in Text /\ TextsOf(Scan(e)) = <<>>
    <3>1. <<>> \in Text
      BY Characters
    <3> QED BY <3>1, ReadsText
  <2>2. Extends(e, TextsOf(Scan(e)), ws)
    BY <2>1, AppendedShows
  <2>3. TextsOf(Scan(e \o x)) = TextsOf(Scan(e)) \o ws
    BY <1>1, <2>2 DEF Extends
  <2>4. e \o x = x /\ <<>> \o ws = ws
    BY <1>4, <2>1 DEF Text
  <2>5. TextsOf(Scan(x)) = ws
    BY <2>1, <2>3, <2>4
  <2> QED BY <1>4, <1>6, <2>5, ReadsText
<1>8. ~IsAbsolute(r)
  <2>1. ws[1] # <<Sep>>
    <3>1. 1 \in 1..Len(ws)
      BY LenProperties, EmptySeq
    <3>2. ws[1] \in Words
      BY <3>1, ElementOfSeq
    <3> QED BY <3>2, NameIsNoSep, WordsAre
  <2> QED BY <1>6, <1>7, <2>1, AbsoluteIs
<1>9. AppendPath(q, r) = Split(t \o x)
  BY <1>1, <1>8 DEF AppendPath
<1> QED BY <1>1, <1>4, <1>5, <1>7, <1>9

\* The elements two lists have in common.
LEMMA CommonIs ==
    ASSUME NEW a \in Seq(Text), NEW b \in Seq(Text), NEW c, c = Len(LongestCommonPrefix({a, b}))
    PROVE  /\ c \in 0..Len(a) /\ c \in 0..Len(b)
           /\ SubSeq(a, 1, c) = SubSeq(b, 1, c)
           /\ a # <<>> /\ b # <<>> /\ a[1] = b[1] => c # 0
<1>1. PICK l, C : l = LongestCommonPrefix({a, b}) /\ C = CommonPrefixes({a, b})
  OBVIOUS
<1>2. l \in C /\ l \in Seq(Text) /\ c \in 0..Len(a) /\ c = Len(l) /\ \A x \in C : Len(x) <= c
  BY <1>1, LongestIs
<1>3. IsPrefix(l, a) /\ IsPrefix(l, b)
  BY <1>1, <1>2 DEF CommonPrefixes
<1>4. c <= Len(b) /\ SubSeq(l, 1, c) = SubSeq(a, 1, c) /\ SubSeq(l, 1, c) = SubSeq(b, 1, c)
  BY <1>2, <1>3 DEF IsPrefix
<1>5. c \in 0..Len(b)
  <2>1. Len(a) \in Nat /\ Len(b) \in Nat
    BY LenProperties
  <2> QED BY <1>2, <1>4, <2>1
<1>6. ASSUME a # <<>>, b # <<>>, a[1] = b[1] PROVE c # 0
  <2>1. Len(a) \in Nat /\ Len(b) \in Nat /\ Len(a) # 0 /\ Len(b) # 0
    BY <1>6, LenProperties, EmptySeq
  <2>2. 1 \in 0..Len(a) /\ 1 \in 1..Len(a) /\ 1 <= Len(a) /\ 1 <= Len(b)
    BY <2>1
  <2>3. PICK w, x : w = a[1] /\ x = <<w>>
    OBVIOUS
  <2>4. x \in Seq(Text) /\ Len(x) = 1 /\ x[1] = w
    <3>1. w \in Text
      BY <2>2, <2>3, ElementOfSeq
    <3> QED BY <2>3, <3>1, SingleIs
  <2>5. \A s \in Seq(Text) : Len(s) # 0 => SubSeq(s, 1, 1) = Append(<<>>, s[1])
    BY PrefixMore
  <2>6. SubSeq(x, 1, 1) = SubSeq(a, 1, 1) /\ SubSeq(x, 1, 1) = SubSeq(b, 1, 1) /\ SubSeq(x, 1, 1) = x
    <3>1. Len(x) # 0 /\ x[1] = a[1] /\ x[1] = b[1] /\ x = Append(<<>>, w)
      BY <1>6, <2>3, <2>4
    <3> QED BY <2>1, <2>4, <2>5, <3>1
  <2>7. IsPrefix(x, a) /\ IsPrefix(x, b)
    BY <2>2, <2>4, <2>6 DEF IsPrefix
  <2>8. x \in Prefixes(a)
    BY <2>2, <2>6 DEF Prefixes
  <2>9. x \in C
    BY <1>1, <2>7, <2>8 DEF CommonPrefixes
  <2>10. 1 <= c
    BY <1>2, <2>4, <2>9
  <2> QED BY <2>10
<1> QED BY <1>2, <1>4, <1>5, <1>6

\* Elements without an empty name and without references.
Clean(es) ==
    /\ Listing(es) /\ es # <<>>
    /\ \A i \in 1..Len(es) : es[i] \notin {<<>>, DotName, DotDot}

\* A list is one of what its items are.
LEMMA ListOf ==
    ASSUME NEW D, NEW s \in Seq(D), NEW C, \A i \in 1..Len(s) : s[i] \in C
    PROVE  s \in Seq(C)
<1>1. s = [i \in 1..Len(s) |-> s[i]] /\ Len(s) \in Nat
  BY LenProperties
<1> QED BY <1>1, IsASeq

\* A first part that ends in an element, and names.
Divided(a, c, u, v) ==
    Solid(u) /\ u \in Lists /\ Bare(u) = u /\ v \in Seq(Steps) /\ a = u \o v /\ Len(v) = Len(a) - c

\* They can be divided anywhere behind the root directory.
LEMMA Divides ==
    ASSUME NEW a, Clean(a), NEW c \in 0..Len(a), c # 0 \/ a[1] # <<Sep>>
    PROVE  Divided(a, c, SubSeq(a, 1, c), SubSeq(a, c + 1, Len(a)))
<1>0. PICK u, v : u = SubSeq(a, 1, c) /\ v = SubSeq(a, c + 1, Len(a))
  OBVIOUS
<1>1. a \in Seq(Text) /\ Len(a) \in Nat
  BY LenProperties DEF Clean, Listing
<1>2. \A i \in 1..Len(a) : /\ a[i] = <<Sep>> \/ IsName(a[i])
                           /\ a[i] = <<Sep>> => i = 1
                           /\ a[i] \notin {<<>>, DotName, DotDot}
  BY DEF Clean, Listing
<1>3. u \in Seq(Text) /\ Len(u) = c /\ \A i \in 1..c : u[i] = a[i]
  BY <1>0, <1>1, PrefixIs
<1>4. v \in Seq(Text) /\ Len(v) = Len(a) - c /\ Len(v) \in Nat /\ \A i \in 1..Len(v) : v[i] = a[c + i] /\ c + i \in 1..Len(a)
  BY <1>0, <1>1, SuffixIs
<1>5. a = u \o v
  BY <1>0, <1>1, HalvesOf
<1>6. Solid(u)
  <2>1. \A i \in 1..Len(u) : i \in 1..Len(a) /\ u[i] = a[i]
    BY <1>1, <1>3
  <2>2. Listing(u)
    BY <1>2, <1>3, <2>1 DEF Listing
  <2>3. u = <<>> \/ u[Len(u)] # <<>>
    <3>1. u # <<>> => Len(u) \in 1..Len(u)
      BY <1>3, LenProperties, EmptySeq
    <3> QED BY <1>2, <2>1, <3>1
  <2> QED BY <2>2, <2>3 DEF Solid
<1>7. v \in Seq(Steps)
  <2>1. ASSUME NEW i \in 1..Len(v) PROVE v[i] \in Steps
    <3>1. c + i \in 1..Len(a) /\ v[i] = a[c + i]
      BY <1>4
    <3>2. a[c + i] # <<Sep>>
      <4>1. c + i = 1 => c = 0
        BY <1>1
      <4> QED BY <1>2, <3>1, <4>1
    <3>3. IsName(v[i]) /\ v[i] \notin {DotName, DotDot} /\ v[i] \in Text
      BY <1>2, <3>1, <3>2 DEF IsName
    <3> QED BY <3>3 DEF Steps, Words
  <2> QED BY <1>4, <2>1, ListOf
<1>8. Bare(u) = u /\ u \in Lists
  BY <1>6, ShutIs DEF Lists, Solid, Listing
<1> QED BY <1>0, <1>4, <1>5, <1>6, <1>7, <1>8 DEF Divided

\* Names are passed one after the other.
LEMMA Onward ==
    ASSUME NEW es \in Lists, NEW x, x = Bare(es), NEW ws \in Seq(Steps)
    PROVE  Bare(Run(es, ws)) = x \o ws /\ Solid(x \o ws) /\ Run(es, ws) \in Lists
<1> DEFINE S == {y \in Seq(Steps) : Bare(Run(es, y)) = x \o y /\ Solid(x \o y)}
<1>1. Solid(x) /\ x \in Seq(Text)
  BY ListingIs DEF Lists, Solid, Listing
<1>2. <<>> \in S
  <2>1. x \o <<>> = x /\ <<>> \in Seq(Steps)
    BY <1>1
  <2>2. Run(es, <<>>) = es
    BY RunTurns
  <2> QED BY <1>1, <2>1, <2>2
<1>3. ASSUME NEW y \in Seq(Steps), NEW w \in Steps, y \in S PROVE Append(y, w) \in S
  <2>1. PICK l, b, z : l = Run(es, y) /\ b = x \o y /\ z = Append(y, w)
    OBVIOUS
  <2>2. Bare(l) = b /\ Solid(b) /\ y \in Seq(Items) /\ w \in Items /\ y \in Seq(Text) /\ w \in Text
    BY <1>3, <2>1, WordsAre
  <2>3. Run(es, z) = Passed(l, w)
    BY <2>1, <2>2, RunTurns
  <2>4. Passed(l, w) = Append(b, w)
    BY <2>2, WordsAre, PassedIs
  <2>5. Solid(Append(b, w)) /\ Bare(Append(b, w)) = Append(b, w)
    <3>1. IsName(w)
      BY WordsAre
    <3> QED BY <2>2, <3>1, WithName
  <2>6. x \o z = Append(b, w)
    BY <1>1, <2>1, <2>2
  <2>7. z \in Seq(Steps)
    BY <2>1
  <2> QED BY <2>1, <2>3, <2>4, <2>5, <2>6, <2>7
<1> HIDE DEF S
<1>4. Seq(Steps) \subseteq S
  BY <1>2, <1>3, ListInduction
<1>5. Run(es, ws) \in Lists
  BY WordsAre, RunTurns
<1> QED BY <1>4, <1>5 DEF S

\* As many parent references as there are names.
Ups(n) == [i \in 1..n |-> DotDot]

LEMMA UpsAre ==
    ASSUME NEW n \in Nat
    PROVE  /\ Ups(n) \in Seq(Words) /\ Ups(0) = <<>> /\ Len(Ups(n)) = n
           /\ Ups(n + 1) = <<DotDot>> \o Ups(n) /\ <<DotDot>> \in Seq(Words)
<1>1. DotDot \in Words /\ \A m \in Nat : Ups(m) \in Seq(Words) /\ Len(Ups(m)) = m
  BY WordsAre DEF Ups
<1>2. Ups(0) = <<>>
  BY <1>1, EmptySeq
<1>3. PICK d : d = <<DotDot>> /\ d \in Seq(Words) /\ Len(d) = 1 /\ d[1] = DotDot
  BY <1>1, SingleIs
<1>4. PICK u, v, m : u = Ups(n) /\ v = d \o u /\ m = n + 1
  OBVIOUS
<1>5. m \in Nat /\ v \in Seq(Words) /\ Len(v) = m /\ \A i \in 1..m : v[i] = IF i <= 1 THEN d[i] ELSE u[i - 1]
  BY <1>1, <1>3, <1>4, ConcatProperties
<1>6. ASSUME NEW i \in 1..m PROVE v[i] = DotDot
  <2>1. CASE i = 1
    BY <1>3, <1>5, <2>1
  <2>2. CASE i # 1
    <3>1. i - 1 \in 1..n /\ ~(i <= 1)
      BY <1>4, <2>2
    <3>2. u[i - 1] = DotDot
      BY <1>4, <3>1 DEF Ups
    <3> QED BY <1>5, <3>1, <3>2
  <2> QED BY <2>1, <2>2
<1>7. \A i \in 1..m : Ups(m)[i] = DotDot
  BY DEF Ups
<1>8. Ups(m) = v
  <2>1. Ups(m) \in Seq(Words) /\ Len(Ups(m)) = m
    BY <1>1, <1>4
  <2> QED BY <1>5, <1>6, <1>7, <2>1, SeqEqual
<1> QED BY <1>1, <1>2, <1>3, <1>4, <1>8

\* They lead back to what is before these names.
Returns(x, ws) ==
    \A es \in Lists : Bare(es) = x \o ws => Bare(Run(es, Ups(Len(ws)))) = x

LEMMA Backward ==
    ASSUME NEW x \in Lists, Solid(x), NEW ws \in Seq(Steps)
    PROVE  Returns(x, ws)
<1> DEFINE S == {y \in Seq(Steps) : Returns(x, y)}
<1>1. Bare(x) = x /\ x \in Seq(Text)
  BY ShutIs DEF Lists
<1>2. <<>> \in S
  <2>1. x \o <<>> = x /\ <<>> \in Seq(Steps) /\ Len(<<>>) = 0
    BY <1>1
  <2>2. \A es \in Lists : Run(es, Ups(0)) = es
    BY UpsAre, RunTurns
  <2> QED BY <2>1, <2>2 DEF Returns
<1>3. ASSUME NEW y \in Seq(Steps), NEW w \in Steps, y \in S PROVE Append(y, w) \in S
  <2>1. PICK b, z, n : b = x \o y /\ z = Append(y, w) /\ n = Len(y)
    OBVIOUS
  <2>2. z \in Seq(Steps) /\ Len(z) = n + 1 /\ n \in Nat
    BY <2>1, OneMoreItem
  <2>3. Solid(b) /\ x \o z = Append(b, w) /\ IsName(w) /\ w # DotDot
    <3>1. Solid(b)
      BY <1>1, <2>1, Onward
    <3>2. y \in Seq(Text) /\ w \in Text /\ IsName(w) /\ w # DotDot
      BY WordsAre
    <3>3. x \o z = Append(b, w)
      BY <1>1, <2>1, <3>2
    <3> QED BY <3>1, <3>2, <3>3
  <2>4. ASSUME NEW es \in Lists, Bare(es) = x \o z PROVE Bare(Run(es, Ups(n + 1))) = x
    <3>1. PICK l : l = Passed(es, DotDot)
      OBVIOUS
    <3>2. l = Shut(b) /\ Bare(l) = b /\ Listing(l)
      <4>1. l = Shut(b)
        BY <2>3, <2>4, <3>1, BackStep
      <4>2. Bare(Shut(b)) = b /\ Listing(Shut(b))
        BY <2>3, ShutIs
      <4> QED BY <4>1, <4>2
    <3>3. l \in Lists
      BY <3>2 DEF Lists, Listing
    <3>4. PICK d : d = <<DotDot>> /\ d \in Seq(Items) /\ Ups(n + 1) = d \o Ups(n) /\ Ups(n) \in Seq(Items)
      BY <2>2, UpsAre, WordsAre
    <3>5. Run(es, d) = l
      <4>1. <<>> \in Seq(Items) /\ DotDot \in Items /\ d = Append(<<>>, DotDot)
        BY <3>4, WordsAre
      <4>2. Run(es, <<>>) = es
        BY RunTurns
      <4>3. Run(es, d) = Passed(Run(es, <<>>), DotDot)
        BY <4>1, RunTurns
      <4> QED BY <3>1, <4>2, <4>3
    <3>6. Run(es, Ups(n + 1)) = Run(l, Ups(n))
      <4>1. PICK u : u = Ups(n) /\ u \in Seq(Items)
        BY <3>4
      <4>2. Run(es, d \o u) = Run(Run(es, d), u)
        BY <3>4, <4>1, RunMore
      <4> QED BY <3>4, <3>5, <4>1, <4>2
    <3>7. Bare(Run(l, Ups(n))) = x
      BY <1>3, <2>1, <3>2, <3>3 DEF Returns
    <3> QED BY <3>6, <3>7
  <2> QED BY <2>1, <2>2, <2>4 DEF Returns
<1> HIDE DEF S
<1>4. Seq(Steps) \subseteq S
  BY <1>2, <1>3, ListInduction
<1> QED BY <1>4 DEF S

\* Such elements are what lexically_normal makes of them.
LEMMA Settles ==
    ASSUME NEW a, Clean(a)
    PROVE  /\ a \in Seq(Items) /\ a \in Lists /\ Bare(a) = a /\ Solid(a)
           /\ Run(Start(a), a) \in Lists /\ Bare(Run(Start(a), a)) = a
<1>1. PICK l, n : l = Start(a) /\ n = Len(a) /\ n \in Nat /\ n # 0 /\ 1 \in 0..n /\ n \in 0..n
  <2>1. Len(a) \in Nat /\ Len(a) # 0
    BY LenProperties, EmptySeq DEF Clean, Listing
  <2>2. 1 \in 0..Len(a) /\ Len(a) \in 0..Len(a)
    BY <2>1
  <2> QED BY <2>1, <2>2
<1>2. a \in Lists
  BY DEF Clean, Lists, Listing
<1>3. SubSeq(a, 1, n) = a
  BY <1>1, <1>2, PrefixMore DEF Lists
<1>4. Solid(a) /\ Bare(a) = a
  BY <1>1, <1>3, Divides DEF Divided
<1>5. a \in Seq(Items)
  <2>1. \A i \in 1..Len(a) : a[i] \in Items
    BY <1>2, ElementOfSeq DEF Lists, Listing, Items, Plain
  <2> QED BY <1>2, <2>1, ListOf DEF Lists
<1>6. l \in Lists
  BY <1>1, Starts
<1>7. CASE a[1] = <<Sep>>
  <2>1. l = <<<<Sep>>>>
    BY <1>1, <1>7 DEF Start, Clean
  <2>2. PICK k, u, v : k = 1 /\ u = SubSeq(a, 1, k) /\ v = SubSeq(a, k + 1, Len(a))
    OBVIOUS
  <2>3. v \in Seq(Steps) /\ a = u \o v
    <3>1. k \in 0..Len(a) /\ k # 0
      BY <1>1, <2>2
    <3>2. Divided(a, k, u, v)
      BY <2>2, <3>1, Divides
    <3> QED BY <3>2 DEF Divided
  <2>4. u = l
    <3>1. u = Append(<<>>, a[1])
      BY <1>1, <1>2, <2>2, PrefixMore DEF Lists
    <3> QED BY <1>7, <2>1, <3>1
  <2>5. u \in Seq(Items) /\ v \in Seq(Items) /\ Run(l, u) = l
    <3>1. PICK w, e : w = <<Sep>> /\ e = <<>> /\ w \in Items /\ e \in Seq(Items)
      <4>1. <<Sep>> \in Items
        BY ItemsAre DEF Items, Plain
      <4>2. <<>> \in Seq(Items)
        OBVIOUS
      <4> QED BY <4>1, <4>2
    <3>2. u = Append(e, w) /\ u \in Seq(Items)
      BY <2>1, <2>4, <3>1
    <3>3. Run(l, e) = l /\ Run(l, u) = Passed(Run(l, e), w)
      BY <1>6, <3>1, <3>2, RunTurns
    <3>4. Passed(l, w) = l
      BY <2>1, <3>1, Starts
    <3> QED BY <2>3, <3>2, <3>3, <3>4, WordsAre
  <2>6. Run(l, a) = Run(l, v)
    BY <1>6, <2>3, <2>5, RunMore
  <2>7. Bare(l) = l
    BY <2>1, SmallLists
  <2>8. Bare(Run(l, v)) = l \o v /\ Run(l, v) \in Lists
    BY <1>6, <2>3, <2>7, Onward
  <2> QED BY <1>1, <1>2, <1>4, <1>5, <2>3, <2>4, <2>6, <2>8
<1>8. CASE a[1] # <<Sep>>
  <2>1. l = <<>>
    BY <1>1, <1>8 DEF Start
  <2>2. PICK k, u, v : k = 0 /\ u = SubSeq(a, 1, k) /\ v = SubSeq(a, k + 1, Len(a))
    OBVIOUS
  <2>3. v \in Seq(Steps) /\ a = u \o v
    <3>1. k \in 0..Len(a)
      BY <1>1, <2>2
    <3>2. Divided(a, k, u, v)
      BY <1>8, <2>2, <3>1, Divides
    <3> QED BY <3>2 DEF Divided
  <2>4. u = l
    BY <1>2, <2>1, <2>2, PrefixMore DEF Lists
  <2>5. Bare(l) = l
    BY <2>1, SmallLists
  <2>6. Bare(Run(l, v)) = l \o v /\ Run(l, v) \in Lists
    BY <1>6, <2>3, <2>5, Onward
  <2>7. v \in Seq(Text)
    BY <2>3, WordsAre
  <2>8. l \o v = v
    BY <2>1, <2>7
  <2> QED BY <1>1, <1>2, <1>4, <1>5, <2>3, <2>4, <2>6, <2>8
<1> QED BY <1>7, <1>8

\* What comes behind them is passed from there.
LEMMA GoesOnFrom ==
    ASSUME NEW b, Clean(b), NEW ws \in Seq(Items), NEW x, x = b \o ws
    PROVE  x \in Seq(Items) /\ Run(Start(x), x) = Run(Run(Start(b), b), ws)
<1>1. b \in Seq(Items) /\ Start(b) \in Lists /\ b # <<>>
  BY Settles, Starts DEF Clean
<1>2. Start(x) = Start(b)
  <2>1. x # <<>> /\ x[1] = b[1]
    BY <1>1
  <2> QED BY <1>1, <2>1 DEF Start
<1>3. x \in Seq(Items) /\ Run(Start(b), x) = Run(Run(Start(b), b), ws)
  BY <1>1, RunMore
<1> QED BY <1>2, <1>3

\* The elements of the normal form, without an empty name at the end.
LEMMA NormalPlace ==
    ASSUME NEW q, Formed(q), q.str # <<>>, NEW es, es = Elements(q),
           NEW a, Clean(a), Bare(Run(Start(es), es)) = a
    PROVE  Bare(Elements(Split(NormalForm(q)))) = a
<1>1. PICK o, e : o = Run(Start(es), es) /\ e = Elements(Split(NormalForm(q)))
  OBVIOUS
<1>2. Elements(Normalized(es)) = o /\ o \in Lists
  <2>1. Spelled(es) /\ Elements(Normalized(es)) = o
    BY <1>1, NormalizedShows
  <2>2. o \in Lists
    BY <1>1, <2>1, Starts, RunTurns DEF Spelled
  <2> QED BY <2>1, <2>2
<1>3. e = Finished(o)
  BY <1>1, <1>2, NormalFormIs DEF Spells
<1>4. Len(a) \in Nat /\ Len(a) # 0 /\ Len(a) \in 1..Len(a) /\ a \in Seq(Text) /\ a[Len(a)] # DotDot
  <2>1. Len(a) \in Nat /\ Len(a) # 0 /\ a \in Seq(Text)
    BY LenProperties, EmptySeq DEF Clean, Listing
  <2>2. Len(a) \in 1..Len(a)
    BY <2>1
  <2> QED BY <2>1, <2>2 DEF Clean
<1>5. o = a \/ o = Append(a, <<>>)
  BY <1>1, <1>2, ListingIs DEF Lists
<1>6. o # <<>> /\ ~EndsUp(o)
  <2>1. CASE o = a
    <3>1. o[Len(o)] # <<>>
      BY <1>4, <2>1 DEF Clean
    <3> QED BY <2>1, <3>1 DEF EndsUp, Clean
  <2>2. CASE o = Append(a, <<>>)
    <3>1. <<>> \in Text
      BY Characters
    <3>2. Len(o) = Len(a) + 1 /\ o[Len(a)] = a[Len(a)] /\ o # <<>>
      BY <1>4, <2>2, <3>1, OneMoreItem
    <3>3. Len(o) - 1 = Len(a)
      BY <1>4, <3>2
    <3> QED BY <1>4, <3>2, <3>3 DEF EndsUp
  <2> QED BY <1>5, <2>1, <2>2
<1>7. e = o
  BY <1>3, <1>6 DEF Finished
<1> QED BY <1>1, <1>7

\* What is counted of names behind what two paths have in common.
LEMMA CountIs ==
    ASSUME NEW v \in Seq(Steps)
    PROVE  /\ Cardinality({i \in DOMAIN v : v[i] \notin {DotName, DotDot}}) = Len(v)
           /\ Cardinality({i \in DOMAIN v : v[i] = DotDot}) = 0
<1>1. DOMAIN v = 1..Len(v) /\ Len(v) \in Nat
  BY LenProperties
<1>2. \A i \in 1..Len(v) : v[i] \notin {DotName, DotDot}
  BY WordsAre, ElementOfSeq
<1>3. PICK S, T : S = {i \in DOMAIN v : v[i] \notin {DotName, DotDot}} /\ T = {i \in DOMAIN v : v[i] = DotDot}
  OBVIOUS
<1>4. S = 1..Len(v) /\ T = {}
  BY <1>1, <1>2, <1>3
<1>5. Cardinality(1..Len(v)) = Len(v)
  BY <1>1, FS_Interval
<1>6. Cardinality({}) = 0
  BY FS_EmptySet
<1> QED BY <1>3, <1>4, <1>5, <1>6

\* A path with the relative path to another one appended is passed to the
\* elements of that one.
LEMMA RelativeArrives ==
    ASSUME NEW q, Exact(q), NEW a, a = Elements(q), Clean(a),
           NEW base \in Ordered, Exact(base), NEW b, b = Elements(base), Clean(b),
           NEW r, r = LexicallyRelative(q, base), r.str # <<>>,
           NEW x, x = Elements(AppendPath(base, r))
    PROVE  x # <<>> /\ Bare(Run(Start(x), x)) = a
<1>1. PICK c, u, v, w : /\ c = Len(LongestCommonPrefix({a, b}))
                        /\ u = SubSeq(a, 1, c) /\ v = SubSeq(a, c + 1, Len(a)) /\ w = SubSeq(b, c + 1, Len(b))
  OBVIOUS
<1>2. a \in Seq(Text) /\ b \in Seq(Text) /\ a # <<>> /\ b # <<>>
  BY DEF Clean, Listing
<1>3. IsAbsolute(q) = IsAbsolute(base)
  <2>1. IsAbsolute(q) # IsAbsolute(base) => r = Empty
    BY DEF LexicallyRelative
  <2> QED BY <2>1, EmptyIs
<1>4. a[1] = <<Sep>> <=> b[1] = <<Sep>>
  BY <1>2, <1>3, AbsoluteIs
<1>5. /\ c \in 0..Len(a) /\ c \in 0..Len(b) /\ u = SubSeq(b, 1, c)
      /\ a[1] = b[1] => c # 0
  BY <1>1, <1>2, CommonIs
<1>6. Solid(u) /\ u \in Lists /\ Bare(u) = u /\ v \in Seq(Steps) /\ a = u \o v
  <2>1. Divided(a, c, u, v)
    BY <1>1, <1>4, <1>5, Divides
  <2> QED BY <2>1 DEF Divided
<1>7. w \in Seq(Steps) /\ b = u \o w
  <2>1. Divided(b, c, u, w)
    BY <1>1, <1>4, <1>5, Divides
  <2> QED BY <2>1 DEF Divided
<1>8. r = IF v = <<>> /\ w = <<>> THEN Split(DotName) ELSE Appended(Ups(Len(w)) \o v)
  <2>1. PICK ups, downs : /\ ups = Cardinality({i \in DOMAIN w : w[i] \notin {DotName, DotDot}})
                          /\ downs = Cardinality({i \in DOMAIN w : w[i] = DotDot})
    OBVIOUS
  <2>2. ups = Len(w) /\ downs = 0 /\ Len(w) \in Nat
    BY <1>7, <2>1, CountIs, LenProperties
  <2>3. ups - downs = Len(w) /\ ~(ups < downs)
    BY <2>2
  <2>4. r = IF v = <<>> /\ w = <<>> THEN Split(DotName)
            ELSE IF ups < downs THEN Empty
            ELSE Appended([i \in 1..(ups - downs) |-> DotDot] \o v)
    BY <1>1, <1>3, <2>1 DEF LexicallyRelative
  <2> QED BY <2>3, <2>4 DEF Ups
<1>9. ShowsText(base, b)
  <2>1. PICK z : ShowsText(base, z)
    BY OrderedShows
  <2>2. z = Bare(b)
    BY <2>1 DEF ShowsText
  <2> QED BY <2>1, <2>2, Settles
<1>10. PICK l : l = Run(Start(b), b) /\ l \in Lists /\ Bare(l) = b /\ Solid(b)
  BY Settles
<1>11. CASE v = <<>> /\ w = <<>>
  <2>1. a = b
    <3>1. u \in Seq(Text)
      BY <1>6 DEF Lists
    <3>2. u \o <<>> = u
      BY <3>1
    <3> QED BY <1>6, <1>7, <1>11, <3>2
  <2>2. r = Split(DotName)
    BY <1>8, <1>11
  <2>3. x = Append(b, DotName)
    BY <1>9, <2>2, ItemsAre, AppendShows
  <2>4. PICK d : d = <<DotName>> /\ d \in Seq(Words) /\ d = Append(<<>>, DotName)
    <3>1. PICK e : e = DotName /\ e \in Words
      BY WordsAre
    <3>2. <<e>> \in Seq(Words) /\ <<e>> = Append(<<>>, e)
      BY <3>1
    <3> QED BY <3>1, <3>2
  <2>5. x = b \o d /\ x # <<>>
    <3>1. PICK e : e = DotName /\ e \in Text
      BY ItemsAre DEF IsName
    <3>2. b \o <<e>> = Append(b, e) /\ Append(b, e) # <<>>
      BY <1>2, <3>1
    <3> QED BY <2>3, <2>4, <3>1, <3>2
  <2>6. Run(Start(x), x) = Run(l, d)
    <3>1. d \in Seq(Items)
      BY <2>4, WordsAre
    <3> QED BY <1>10, <2>5, <3>1, GoesOnFrom
  <2>7. Run(l, d) = Passed(l, DotName)
    <3>1. <<>> \in Seq(Items) /\ DotName \in Items
      BY WordsAre
    <3>2. Run(l, <<>>) = l /\ Run(l, Append(<<>>, DotName)) = Passed(Run(l, <<>>), DotName)
      BY <1>10, <3>1, RunTurns
    <3> QED BY <2>4, <3>2
  <2>8. Bare(Passed(l, DotName)) = b
    <3>1. Passed(l, DotName) = Shut(b)
      BY <1>10, PassedIs
    <3>2. Bare(Shut(b)) = b
      BY <1>10, ShutIs
    <3> QED BY <3>1, <3>2
  <2> QED BY <2>1, <2>5, <2>6, <2>7, <2>8
<1>12. CASE ~(v = <<>> /\ w = <<>>)
  <2>1. PICK n, m, ws : n = Len(w) /\ m = Ups(n) /\ ws = m \o v
    OBVIOUS
  <2>2. /\ n \in Nat /\ m \in Seq(Words) /\ v \in Seq(Words) /\ ws \in Seq(Words)
        /\ m \in Seq(Items) /\ v \in Seq(Items) /\ ws \in Seq(Items) /\ ws # <<>>
    <3>1. n \in Nat /\ (w = <<>> <=> n = 0)
      BY <1>7, <2>1, LenProperties, EmptySeq
    <3>2. m \in Seq(Words) /\ Len(m) = n
      BY <2>1, <3>1, UpsAre
    <3>3. v \in Seq(Words) /\ (v = <<>> <=> Len(v) = 0) /\ Len(v) \in Nat
      BY <1>6, WordsAre, LenProperties, EmptySeq
    <3>4. ws \in Seq(Words) /\ Len(ws) = n + Len(v)
      <4>1. m \o v \in Seq(Words) /\ Len(m \o v) = Len(m) + Len(v)
        BY <3>2, <3>3, ConcatProperties
      <4> QED BY <2>1, <3>2, <4>1
    <3>5. Len(ws) # 0
      BY <1>12, <3>1, <3>3, <3>4
    <3>6. ws # <<>>
      BY <3>4, <3>5, EmptySeq
    <3> QED BY <3>1, <3>2, <3>3, <3>4, <3>6, WordsAre
  <2>3. r = Appended(ws)
    BY <1>8, <1>12, <2>1
  <2>4. x = b \o ws
    <3>1. ws \in Seq(Words) /\ ws # <<>>
      BY <2>2
    <3>2. Elements(AppendPath(base, Appended(ws))) = b \o ws
      BY <1>9, <3>1, ReachesFrom
    <3> QED BY <2>3, <3>2
  <2>5. x # <<>>
    BY <1>2, <2>2, <2>4, WordsAre
  <2>6. Run(Start(x), x) = Run(l, ws)
    BY <1>10, <2>2, <2>4, GoesOnFrom
  <2>7. Run(l, ws) = Run(Run(l, m), v)
    BY <1>10, <2>1, <2>2, RunMore
  <2>8. Bare(Run(l, m)) = u
    <3>1. Returns(u, w)
      BY <1>6, <1>7, Backward
    <3> QED BY <1>7, <1>10, <2>1, <3>1 DEF Returns
  <2>9. Run(l, m) \in Lists
    BY <1>10, <2>2, RunTurns
  <2>10. Bare(Run(Run(l, m), v)) = u \o v
    BY <1>6, <2>8, <2>9, Onward
  <2> QED BY <1>6, <2>5, <2>6, <2>7, <2>10
<1> QED BY <1>11, <1>12

\* The normal form of that path.
LEMMA RelativeReaches ==
    ASSUME NEW q, Exact(q), Clean(Elements(q)),
           NEW base \in Ordered, Exact(base), Clean(Elements(base)),
           NEW r, r = LexicallyRelative(q, base), r.str # <<>>
    PROVE  Bare(Elements(Split(NormalForm(AppendPath(base, r))))) = Bare(Elements(Split(NormalForm(q))))
<1>1. PICK a, y, x : a = Elements(q) /\ y = AppendPath(base, r) /\ x = Elements(y)
  OBVIOUS
<1>2. x # <<>> /\ Bare(Run(Start(x), x)) = a /\ Clean(a)
  BY <1>1, RelativeArrives
<1>3. Exact(y)
  <2>1. Exact(r)
    BY LexicallyRelativeExact DEF Exact
  <2> QED BY <1>1, <2>1, AppendExact DEF Exact
<1>4. y.str # <<>> /\ q.str # <<>>
  <2>1. \A z : Exact(z) /\ Elements(z) # <<>> => z.str # <<>>
    <3> SUFFICES ASSUME NEW z, Exact(z), Elements(z) # <<>> PROVE z.str # <<>>
      OBVIOUS
    <3>1. Shows(z, Elements(z))
      BY ExactShows
    <3>2. Len(Elements(z)) # 0
      BY <3>1, EmptySeq DEF Shows, Listing
    <3> QED BY <3>1, <3>2 DEF Shows
  <2> QED BY <1>1, <1>2, <1>3, <2>1 DEF Clean
<1>5. Formed(y) /\ Formed(q)
  BY <1>3, ExactFormed
<1>6. Bare(Elements(Split(NormalForm(y)))) = a
  BY <1>1, <1>2, <1>4, <1>5, NormalPlace
<1>7. Bare(Run(Start(a), a)) = a
  BY <1>2, Settles
<1>8. Bare(Elements(Split(NormalForm(q)))) = a
  BY <1>1, <1>2, <1>4, <1>5, <1>7, NormalPlace
<1> QED BY <1>1, <1>6, <1>8

\* A path without dots and trailing separators is reached from a base like it
\* by the relative path between the two, whatever calls the object has been
\* through, as long as its decomposition describes its text.
THEOREM RelativePathsLeadBack ==
    Spec => []RelativeLeadsBack
<1>1. Init => InForm
  <2>1. ASSUME NEW n \in Nat, NEW t \in Texts(n) PROVE t \in Text
    BY DEF Texts, Text
  <2>2. \A t \in Texts(MaxLen) : Exact(Split(t))
    BY <2>1, BoundsAssumption, SplitExact
  <2>3. Exact(Empty)
    BY EmptyNeat DEF Neat
  <2>4. Init => Exact(p)
    BY <2>2, <2>3 DEF Init
  <2> QED BY <2>4, ExactFormed DEF InForm
<1>2. InForm /\ [Next]_vars => InForm'
  BY CallKeeps
<1>3. InForm => RelativeLeadsBack
  <2> DEFINE plain(q) == /\ q.str # <<>>
                         /\ \A i \in DOMAIN Elements(q) : Elements(q)[i] \notin {<<>>, DotName, DotDot}
             place(q) == LET e == Elements(Split(NormalForm(q)))
                         IN  IF e # <<>> /\ Last(e) = <<>> THEN Front(e) ELSE e
  <2> SUFFICES ASSUME InForm, Sound(p), plain(p), NEW base \in Args, plain(base),
                      NEW r, r = LexicallyRelative(p, base), r.str # <<>>
               PROVE  place(AppendPath(base, r)) = place(p)
    BY DEF RelativeLeadsBack
  <2>1. Exact(p)
    BY FormedExact DEF InForm, Sound
  <2>2. Exact(base) /\ base \in Ordered
    <3>1. PICK t \in Texts(MaxArg) : base = Split(t)
      BY DEF Args
    <3>2. t \in Text
      BY <3>1 DEF Texts, Text
    <3> QED BY <3>1, <3>2, SplitExact, SplitOrdered
  <2>3. \A q : Exact(q) /\ plain(q) => Clean(Elements(q))
    <3> SUFFICES ASSUME NEW q, Exact(q), plain(q) PROVE Clean(Elements(q))
      OBVIOUS
    <3>1. Listing(Elements(q)) /\ Len(Elements(q)) # 0
      BY ExactShows DEF Shows
    <3>2. DOMAIN Elements(q) = 1..Len(Elements(q)) /\ Elements(q) # <<>>
      BY <3>1, LenProperties, EmptySeq DEF Listing
    <3> QED BY <3>1, <3>2 DEF Clean
  <2>4. \A q : place(q) = Bare(Elements(Split(NormalForm(q))))
    BY DEF Bare, Last
  <2> HIDE DEF place, plain
  <2>5. Clean(Elements(p)) /\ Clean(Elements(base))
    BY <2>1, <2>2, <2>3
  <2>6. Bare(Elements(Split(NormalForm(AppendPath(base, r))))) = Bare(Elements(Split(NormalForm(p))))
    BY <2>1, <2>2, <2>5, RelativeReaches
  <2> QED BY <2>4, <2>6
<1> QED BY <1>1, <1>2, <1>3, PTL DEF Spec
=============================================================================
