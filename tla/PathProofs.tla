----------------------------- MODULE PathProofs -----------------------------
(***************************************************************************)
(* Proofs about Path, Levels and PathObject for texts of any length: the   *)
(* climb of create_directories ends, with a chain of levels, on the text   *)
(* of every object that any sequence of calls leaves; and every edit but   *)
(* parent_path keeps the decomposition of an object that of its text.      *)
(*   - SplitComponents goes through a text once, so that a text with one   *)
(*     more character is split by one more turn (ScanAppend); from this,   *)
(*     by induction over the text, what components look like and where     *)
(*     they lie in it (ScanShape).                                         *)
(*   - Components are packed if nothing but one separator is between any   *)
(*     two.  The text that parent_path joins is split into packed          *)
(*     components again (Rejoined), so that every path of a climb but the  *)
(*     first is known by a prefix of the components of the first (Form).   *)
(*   - A turn of the climb drops one component (OneTurn).  The invariant   *)
(*     of its loop (Climbed) is that the locations still to come are those *)
(*     the kept components go through, and that each location on the stack *)
(*     rests on one above it on the stack or still to come.                *)
(*   - Every member leaves an object (Types).  The edit that               *)
(*     lexically_normal makes in place needs that its components are in    *)
(*     order, which parent_path need not keep (Ordered).                   *)
(*   - A component lies where its characters are, and those of all         *)
(*     components are all but the separators (Placed); so one text has one *)
(*     list of components in order (OnePlacement).  An object is exact if  *)
(*     it holds the components of its text (Exact), formed if it holds     *)
(*     names in order (Formed); parent_path leaves it formed, every other  *)
(*     defined edit leaves an exact object exact, and of the objects that  *)
(*     are formed the exact ones are those that describe their text        *)
(*     (FormedExact, ExactDescribed).                                      *)
(*   - The elements of an exact object determine its components (Shows).   *)
(***************************************************************************)
EXTENDS PathObject, SequenceTheorems, FiniteSetTheorems, TLAPS

-----------------------------------------------------------------------------
(* Induction and recursion.                                                *)

\* Every set of natural numbers has a least element.
LEMMA NatMin ==
    ASSUME NEW T \in SUBSET Nat, T # {}
    PROVE  \E m \in T : \A k \in T : m <= k
<1> DEFINE UpTo(n) == 1..n
           TT == {X \in FiniteSubsetsOf(Nat) : \E n \in T : X = UpTo(n)}
           R == StrictSubsetOrdering(Nat)
<1>1. \A n \in T : UpTo(n) \in TT
  <2>1. \A n \in T : UpTo(n) \in SUBSET Nat /\ IsFiniteSet(UpTo(n))
    BY FS_Interval
  <2> QED BY <2>1 DEF FiniteSubsetsOf
<1>2. PICK X \in TT : \A Y \in TT : <<Y, X>> \notin R
  <2>1. IsWellFoundedOn(R, FiniteSubsetsOf(Nat))
    BY FS_StrictSubsetOrderingWellFounded
  <2>2. TT # {} /\ TT \subseteq FiniteSubsetsOf(Nat)
    BY <1>1
  <2> HIDE DEF TT, R
  <2> QED BY <2>1, <2>2, WFMin
<1>3. PICK m \in T : X = UpTo(m)
  OBVIOUS
<1>4. ASSUME NEW k \in T, ~(m <= k) PROVE FALSE
  <2>1. UpTo(k) \in TT /\ UpTo(k) \subseteq UpTo(m)
    BY <1>1, <1>4
  <2>2. m \in UpTo(m) /\ m \notin UpTo(k)
    BY <1>4
  <2>3. UpTo(k) \in SUBSET Nat /\ UpTo(m) \in SUBSET Nat
    OBVIOUS
  <2>4. <<UpTo(k), UpTo(m)>> \in R
    BY <2>1, <2>2, <2>3 DEF StrictSubsetOrdering
  <2> QED BY <1>2, <1>3, <2>1, <2>4
<1> QED BY <1>4

\* A set with 0, and with the successor of each of its members, has them all.
LEMMA Induction ==
    ASSUME NEW S, 0 \in S, \A n \in Nat : n \in S => n + 1 \in S
    PROVE  Nat \subseteq S
<1> SUFFICES ASSUME Nat \ S # {} PROVE FALSE
  OBVIOUS
<1>1. PICK m \in Nat \ S : \A k \in Nat \ S : m <= k
  BY NatMin
<1>2. m # 0 /\ m - 1 \in Nat /\ m - 1 \in S
  BY <1>1
<1> QED BY <1>1, <1>2

\* What is computed in n steps: r at first, and next[i] makes the i-th of the one before.
Computes(at, n, D, r, next) ==
    /\ at \in [0..n -> D] /\ at[0] = r
    /\ \A i \in 1..n : at[i] = next[i][at[i - 1]]

Keeps(next, n, D) == \A i \in 1..n, x \in D : next[i][x] \in D

\* There is such a function, of the type that every step keeps.
LEMMA RecursionIn ==
    ASSUME NEW n \in Nat, NEW D, NEW r \in D,
           NEW next, Keeps(next, n, D)
    PROVE  \E at : Computes(at, n, D, r, next)
<1> DEFINE Is(at, m) == at[0] = r /\ \A i \in 1..m : at[i] = next[i][at[i - 1]]
           S == {m \in Nat : m <= n => \E at \in [0..m -> D] : Is(at, m)}
<1>1. 0 \in S
  <2> DEFINE at == [i \in 0..0 |-> r]
  <2>1. at \in [0..0 -> D] /\ Is(at, 0)
    OBVIOUS
  <2> QED BY <2>1
<1>2. ASSUME NEW m \in Nat, m \in S PROVE m + 1 \in S
  <2> SUFFICES ASSUME m + 1 <= n PROVE \E on \in [0..m + 1 -> D] : Is(on, m + 1)
    OBVIOUS
  <2>1. PICK at \in [0..m -> D] : Is(at, m)
    BY <1>2
  <2> DEFINE on == [i \in 0..m + 1 |-> IF i = m + 1 THEN next[m + 1][at[m]] ELSE at[i]]
  <2>2. m + 1 \in 1..n /\ at[m] \in D /\ next[m + 1][at[m]] \in D
    BY DEF Keeps
  <2>3. on \in [0..m + 1 -> D]
    BY <2>2
  <2>4. on[m + 1] = next[m + 1][at[m]] /\ \A i \in 0..m : on[i] = at[i]
    OBVIOUS
  <2> HIDE DEF on
  <2>5. Is(on, m + 1)
    <3>1. on[0] = r
      BY <2>1, <2>4
    <3>2. ASSUME NEW i \in 1..m + 1 PROVE on[i] = next[i][on[i - 1]]
      <4>1. CASE i = m + 1
        BY <2>4, <4>1
      <4>2. CASE i \in 1..m
        <5>1. i \in 0..m /\ i - 1 \in 0..m
          BY <4>2
        <5> QED BY <2>1, <2>4, <4>2, <5>1
      <4> QED BY <4>1, <4>2
    <3> QED BY <3>1, <3>2
  <2> QED BY <2>3, <2>5
<1> HIDE DEF S
<1>3. n \in S
  BY <1>1, <1>2, Induction
<1>4. PICK at \in [0..n -> D] : Is(at, n)
  BY <1>3 DEF S
<1> QED BY <1>4 DEF Computes

Text == Seq(Alphabet)

\* A set with the empty text, and with each text that is one character longer
\* than one of its own, has them all.
LEMMA TextInduction ==
    ASSUME NEW S, <<>> \in S,
           \A s \in Text, c \in Alphabet : s \in S => Append(s, c) \in S
    PROVE  Text \subseteq S
<1> DEFINE T == {n \in Nat : \A s \in Text : Len(s) = n => s \in S}
<1>1. 0 \in T
  <2>1. \A s \in Text : Len(s) = 0 => s = <<>>
    BY DEF Text
  <2> QED BY <2>1
<1>2. ASSUME NEW n \in Nat, n \in T PROVE n + 1 \in T
  <2> SUFFICES ASSUME NEW s \in Text, Len(s) = n + 1 PROVE s \in S
    OBVIOUS
  <2>1. PICK u \in Text, c \in Alphabet : s = Append(u, c)
    <3>1. s # <<>>
      BY DEF Text
    <3> QED BY <3>1, SequenceEmptyOrAppend DEF Text
  <2>2. Len(u) = n
    BY <2>1 DEF Text
  <2> QED BY <1>2, <2>1, <2>2
<1> HIDE DEF T
<1>3. Nat \subseteq T
  BY <1>1, <1>2, Induction
<1>4. \A s \in Text : Len(s) \in Nat
  BY DEF Text
<1> QED BY <1>3, <1>4 DEF T

-----------------------------------------------------------------------------
(* What the loop of SplitComponents makes of a text.                       *)

Comps == [text : Text, type : {"ROOT_DIR", "FILENAME"}, pos : Nat]

RootDir == Component(<<Sep>>, "ROOT_DIR", 0)

\* The characters of a text are of the alphabet.
LEMMA Characters ==
    /\ Sep \in Alphabet /\ Dot \in Alphabet /\ Dot # Sep
    /\ <<>> \in Text /\ DotName \in Text /\ DotDot \in Text
    /\ \A c \in Alphabet : <<c>> \in Text /\ Len(<<c>>) = 1 /\ <<c>>[1] = c
    /\ RootDir \in Comps
BY DEF Sep, Dot, Alphabet, Text, DotName, DotDot, RootDir, Component, Comps

\* A turn of the scan makes components.
LEMMA ScannedType ==
    ASSUME NEW s \in Text, NEW i \in 1..Len(s), NEW cs \in Seq(Comps)
    PROVE  Scanned(cs, s, i) \in Seq(Comps)
<1>1. s[i] \in Alphabet
  BY DEF Text
<1>2. CASE s[i] = Sep
  BY <1>2, Characters DEF Scanned, RootDir
<1>3. CASE s[i] # Sep /\ (i = 1 \/ s[i - 1] = Sep)
  <2>1. Component(<<s[i]>>, "FILENAME", i - 1) \in Comps
    BY <1>1, Characters DEF Component, Comps
  <2> QED BY <1>3, <2>1 DEF Scanned
<1>4. CASE s[i] # Sep /\ ~(i = 1 \/ s[i - 1] = Sep)
  <2>1. Scanned(cs, s, i) = [cs EXCEPT ![Len(cs)].text = Append(@, s[i])]
    BY <1>4 DEF Scanned
  <2>2. CASE cs = <<>>
    <3>1. \A f, k, e : DOMAIN f = {} => [f EXCEPT ![k] = e] = [x \in {} |-> e]
      OBVIOUS
    <3>2. DOMAIN cs = {}
      BY <2>2
    <3>3. Scanned(cs, s, i) = [x \in {} |-> Append(cs[Len(cs)].text, s[i])]
      BY <2>1, <3>1, <3>2
    <3> QED BY <3>3
  <2>3. CASE cs # <<>>
    <3>1. Len(cs) \in 1..Len(cs) /\ cs[Len(cs)] \in Comps
      BY <2>3
    <3>2. [cs[Len(cs)] EXCEPT !.text = Append(@, s[i])] \in Comps
      <4>1. PICK r \in Comps : r = cs[Len(cs)]
        BY <3>1
      <4>2. r.text \in Text /\ Append(r.text, s[i]) \in Text
        BY <1>1, AppendProperties DEF Comps, Text
      <4> QED BY <4>1, <4>2 DEF Comps
    <3> QED BY <2>1, <3>1, <3>2
  <2> QED BY <2>2, <2>3
<1> QED BY <1>2, <1>3, <1>4

\* The recursion of Scan, as a function there is.
LEMMA ScanIs ==
    ASSUME NEW s \in Text
    PROVE  \E at \in [0..Len(s) -> Seq(Comps)] :
              /\ at[0] = <<>> /\ Scan(s) = at[Len(s)]
              /\ \A i \in 1..Len(s) : at[i] = Scanned(at[i - 1], s, i)
<1> DEFINE Is(at) == at = [i \in 0..Len(s) |-> IF i = 0 THEN <<>> ELSE Scanned(at[i - 1], s, i)]
           f == CHOOSE at : Is(at)
           next == [i \in 1..Len(s) |-> [cs \in Seq(Comps) |-> Scanned(cs, s, i)]]
<1>0. Len(s) \in Nat /\ <<>> \in Seq(Comps)
  BY DEF Text
<1>1. \A i \in 1..Len(s), cs \in Seq(Comps) : next[i][cs] \in Seq(Comps)
  BY ScannedType
<1>2. PICK at \in [0..Len(s) -> Seq(Comps)] :
          at[0] = <<>> /\ \A i \in 1..Len(s) : at[i] = next[i][at[i - 1]]
  <2>1. PICK n, D, r, nx : n = Len(s) /\ D = Seq(Comps) /\ r = <<>> /\ nx = next
    OBVIOUS
  <2> HIDE DEF next
  <2>2. n \in Nat /\ r \in D /\ Keeps(nx, n, D)
    BY <1>0, <1>1, <2>1 DEF Keeps
  <2>3. \E at : Computes(at, n, D, r, nx)
    BY <2>2, RecursionIn
  <2> QED BY <2>1, <2>3 DEF Computes
<1>3. ASSUME NEW i \in 1..Len(s) PROVE at[i] = Scanned(at[i - 1], s, i)
  <2>1. i - 1 \in 0..Len(s)
    BY <1>0
  <2>2. at[i - 1] \in Seq(Comps)
    BY <2>1
  <2> QED BY <1>2, <2>2
<1>4. Is(at)
  BY <1>2, <1>3
<1>5. Is(f)
  BY <1>4
<1>6. Scan(s) = f[Len(s)]
  BY DEF Scan
<1> HIDE DEF f
<1>7. f[0] = <<>> /\ \A i \in 1..Len(s) : f[i] = Scanned(f[i - 1], s, i)
  BY <1>0, <1>5
<1>8. f \in [0..Len(s) -> Seq(Comps)]
  <2> DEFINE T == {i \in Nat : i <= Len(s) => f[i] \in Seq(Comps)}
  <2>1. 0 \in T
    BY <1>0, <1>7
  <2>2. ASSUME NEW i \in Nat, i \in T PROVE i + 1 \in T
    <3> SUFFICES ASSUME i + 1 <= Len(s) PROVE f[i + 1] \in Seq(Comps)
      OBVIOUS
    <3>1. i + 1 \in 1..Len(s) /\ i + 1 - 1 = i /\ f[i] \in Seq(Comps)
      BY <1>0, <2>2
    <3>2. f[i + 1] = Scanned(f[i], s, i + 1)
      BY <1>7, <3>1
    <3> QED BY <3>1, <3>2, ScannedType
  <2> HIDE DEF T
  <2>3. Nat \subseteq T
    BY <2>1, <2>2, Induction
  <2>4. \A i \in 0..Len(s) : f[i] \in Seq(Comps)
    BY <1>0, <2>3 DEF T
  <2> QED BY <1>5, <2>4
<1> QED BY <1>6, <1>7, <1>8

\* The scan makes components of any text.
LEMMA ScanType ==
    /\ Scan(<<>>) = <<>>
    /\ \A s \in Text : Scan(s) \in Seq(Comps)
<1>1. ASSUME NEW s \in Text PROVE Scan(s) \in Seq(Comps)
  <2>1. Len(s) \in 0..Len(s)
    BY DEF Text
  <2> QED BY <2>1, ScanIs
<1>2. Scan(<<>>) = <<>>
  BY ScanIs, Characters
<1> QED BY <1>1, <1>2

\* A text is split from the front: one more character is one more turn.
LEMMA ScanAppend ==
    ASSUME NEW s \in Text, NEW c \in Alphabet
    PROVE  Scan(Append(s, c)) = Scanned(Scan(s), Append(s, c), Len(s) + 1)
<1> DEFINE t == Append(s, c)
<1>1. /\ t \in Text /\ Len(t) = Len(s) + 1 /\ Len(s) \in Nat
      /\ \A i \in 1..Len(s) : t[i] = s[i]
  BY AppendProperties DEF Text
<1> HIDE DEF t
<1>2. PICK f \in [0..Len(s) -> Seq(Comps)] :
              /\ f[0] = <<>> /\ Scan(s) = f[Len(s)]
              /\ \A i \in 1..Len(s) : f[i] = Scanned(f[i - 1], s, i)
  BY ScanIs
<1>3. PICK g \in [0..Len(t) -> Seq(Comps)] :
              /\ g[0] = <<>> /\ Scan(t) = g[Len(t)]
              /\ \A i \in 1..Len(t) : g[i] = Scanned(g[i - 1], t, i)
  BY <1>1, ScanIs
<1> DEFINE T == {i \in Nat : i <= Len(s) => g[i] = f[i]}
<1>4. 0 \in T
  BY <1>2, <1>3
<1>5. ASSUME NEW i \in Nat, i \in T PROVE i + 1 \in T
  <2> SUFFICES ASSUME i + 1 <= Len(s) PROVE g[i + 1] = f[i + 1]
    OBVIOUS
  <2>1. /\ i + 1 \in 1..Len(s) /\ i + 1 \in 1..Len(t) /\ i + 1 - 1 = i /\ g[i] = f[i]
        /\ (i + 1 > 1 /\ i \in 1..Len(s)) \/ i + 1 = 1
    BY <1>1, <1>5
  <2>2. f[i + 1] = Scanned(f[i], s, i + 1) /\ g[i + 1] = Scanned(f[i], t, i + 1)
    BY <1>2, <1>3, <2>1
  <2>3. t[i + 1] = s[i + 1] /\ (i + 1 = 1 \/ t[i] = s[i])
    BY <1>1, <2>1
  <2> QED BY <2>1, <2>2, <2>3 DEF Scanned
<1> HIDE DEF T
<1>6. Nat \subseteq T
  BY <1>4, <1>5, Induction
<1>7. g[Len(s)] = f[Len(s)]
  BY <1>1, <1>6 DEF T
<1>8. Len(s) + 1 \in 1..Len(t) /\ Len(s) + 1 - 1 = Len(s)
  BY <1>1
<1>9. g[Len(s) + 1] = Scanned(g[Len(s)], t, Len(s) + 1)
  BY <1>3, <1>8
<1> QED BY <1>1, <1>2, <1>3, <1>7, <1>9 DEF t

\* The four things a turn does.
LEMMA ScanTurns ==
    ASSUME NEW s \in Text, NEW c \in Alphabet
    PROVE  /\ s = <<>> /\ c = Sep => Scan(Append(s, c)) = <<RootDir>>
           /\ s # <<>> /\ c = Sep => Scan(Append(s, c)) = Scan(s)
           /\ c # Sep /\ (s = <<>> \/ Last(s) = Sep) =>
                 Scan(Append(s, c)) =
                     Append(Scan(s), Component(<<c>>, "FILENAME", Len(s)))
           /\ c # Sep /\ s # <<>> /\ Last(s) # Sep =>
                 Scan(Append(s, c)) =
                     [Scan(s) EXCEPT ![Len(Scan(s))].text = Append(@, c)]
<1> DEFINE t == Append(s, c)
           n == Len(s)
<1>1. /\ n \in Nat /\ t[n + 1] = c /\ n + 1 - 1 = n /\ (n + 1 = 1 <=> s = <<>>)
      /\ s # <<>> => t[n] = s[n]
  BY DEF Text
<1>2. Scan(t) = Scanned(Scan(s), t, n + 1)
  BY ScanAppend
<1>3. Last(s) = s[n]
  BY DEF Last
<1> HIDE DEF t, n
<1>4. n + 1 > 1 <=> s # <<>>
  BY <1>1
<1>5. s = <<>> /\ c = Sep => Scan(t) = <<RootDir>>
  BY <1>1, <1>2 DEF Scanned, RootDir
<1>6. s # <<>> /\ c = Sep => Scan(t) = Scan(s)
  BY <1>1, <1>2 DEF Scanned
<1>7. c # Sep /\ (s = <<>> \/ t[n] = Sep) =>
          Scan(t) = Append(Scan(s), Component(<<c>>, "FILENAME", n))
  BY <1>1, <1>2 DEF Scanned
<1>8. c # Sep /\ s # <<>> /\ t[n] # Sep =>
          Scan(t) = [Scan(s) EXCEPT ![Len(Scan(s))].text = Append(@, c)]
  BY <1>1, <1>2 DEF Scanned
<1>9. s # <<>> => t[n] = Last(s)
  BY <1>1, <1>3
<1> QED BY <1>5, <1>6, <1>7, <1>8, <1>9 DEF t, n

IsName(w) == w \in Text /\ w # <<>> /\ \A k \in 1..Len(w) : w[k] # Sep

\* The root directory at most at the beginning, and names.
Proper(cs) ==
    /\ cs \in Seq(Comps)
    /\ \A i \in 1..Len(cs) :
          /\ cs[i].type = "ROOT_DIR" => i = 1 /\ cs[i].text = <<Sep>>
          /\ cs[i].type # "ROOT_DIR" => IsName(cs[i].text)

End(c) == c.pos + Len(c.text)

\* The components lie in the text one behind the other, and the last one ends
\* with it if no separator follows.
Lies(s, cs) ==
    /\ \A i \in 1..Len(cs) : End(cs[i]) <= Len(s)
    /\ \A i, j \in 1..Len(cs) : i < j => End(cs[i]) <= cs[j].pos
    /\ s # <<>> /\ Last(s) # Sep =>
          /\ cs # <<>> /\ cs[Len(cs)].type = "FILENAME"
          /\ End(cs[Len(cs)]) = Len(s)

\* A component is one whose parts are.
LEMMA CompType ==
    ASSUME NEW c \in Comps
    PROVE  /\ c.pos \in Nat /\ c.text \in Text /\ Len(c.text) \in Nat /\ End(c) \in Nat
           /\ c.type \in {"ROOT_DIR", "FILENAME"} /\ c.pos <= End(c)
           /\ c.text # <<>> => c.pos < End(c) /\ Len(c.text) > 0
BY DEF Comps, Text, End

\* A name in front, or behind a separator, begins with its first character.
LEMMA NameBegins ==
    ASSUME NEW c \in Alphabet, c # Sep, NEW n \in Nat
    PROVE  LET d == Component(<<c>>, "FILENAME", n)
           IN  /\ d \in Comps /\ IsName(d.text) /\ End(d) = n + 1
               /\ d.pos = n /\ d.type = "FILENAME"
BY Characters DEF Component, Comps, IsName, End

\* The last component grows by one character, the others stay.
LEMMA NameGoesOn ==
    ASSUME NEW c \in Alphabet, c # Sep, NEW e \in Comps, IsName(e.text)
    PROVE  LET d == [e EXCEPT !.text = Append(@, c)]
           IN  /\ d \in Comps /\ IsName(d.text) /\ End(d) = End(e) + 1
               /\ d.pos = e.pos /\ d.type = e.type
<1> DEFINE w == e.text
           v == Append(w, c)
<1>1. w \in Text /\ w # <<>> /\ \A k \in 1..Len(w) : w[k] # Sep
  BY DEF IsName
<1>2. /\ v \in Text /\ v # <<>> /\ Len(v) = Len(w) + 1 /\ Len(w) \in Nat
      /\ v[Len(w) + 1] = c /\ \A k \in 1..Len(w) : v[k] = w[k]
  BY <1>1, AppendProperties DEF Text
<1> HIDE DEF v
<1>3. \A k \in 1..Len(v) : v[k] # Sep
  BY <1>1, <1>2
<1> DEFINE d == [e EXCEPT !.text = v]
<1>4. d \in Comps /\ d.text = v /\ d.pos = e.pos /\ d.type = e.type
  BY <1>2 DEF Comps
<1> HIDE DEF d
<1>5. End(d) = End(e) + 1
  BY <1>2, <1>4, CompType DEF End
<1>6. IsName(d.text)
  BY <1>2, <1>3, <1>4 DEF IsName
<1> QED BY <1>4, <1>5, <1>6 DEF d, v

\* What the scan makes: the root directory at most in front, then names.
LEMMA ScanShape ==
    ASSUME NEW s \in Text
    PROVE  /\ Proper(Scan(s)) /\ Lies(s, Scan(s))
           /\ Len(Scan(s)) <= Len(s) /\ (s # <<>> => Scan(s) # <<>>)
<1> DEFINE Shape(u) == /\ Proper(Scan(u)) /\ Lies(u, Scan(u))
                       /\ Len(Scan(u)) <= Len(u) /\ (u # <<>> => Scan(u) # <<>>)
           S == {u \in Text : Shape(u)}
<1>1. <<>> \in S
  BY ScanType, Characters DEF Proper, Lies
<1>2. ASSUME NEW u \in Text, NEW c \in Alphabet, Shape(u) PROVE Shape(Append(u, c))
  <2> DEFINE t == Append(u, c)
             cs == Scan(u)
             ds == Scan(t)
             n == Len(cs)
  <2>1. /\ t \in Text /\ Len(t) = Len(u) + 1 /\ Len(u) \in Nat /\ Last(t) = c /\ t # <<>>
    BY AppendProperties DEF Text, Last
  <2>2. cs \in Seq(Comps) /\ n \in Nat /\ n <= Len(u) /\ Proper(cs) /\ Lies(u, cs)
        /\ (u # <<>> => cs # <<>>) /\ ds \in Seq(Comps)
    BY <1>2, <2>1, ScanType
  <2>3. \A i \in 1..n : cs[i] \in Comps /\ End(cs[i]) \in Nat /\ cs[i].pos \in Nat
    BY <2>2, CompType
  <2> HIDE DEF cs, ds, t
  <2>4. CASE c = Sep /\ u = <<>>
    <3>1. ds = <<RootDir>>
      BY <2>4, ScanTurns DEF t, ds
    <3>2. Len(ds) = 1 /\ ds[1] = RootDir /\ RootDir.type = "ROOT_DIR" /\ RootDir.text = <<Sep>>
          /\ RootDir.pos = 0 /\ End(RootDir) = 1 /\ Len(t) >= 1
      BY <3>1, <2>1, Characters DEF RootDir, Component, End
    <3>3. Proper(ds)
      BY <3>2, <2>2 DEF Proper
    <3>4. Lies(t, ds)
      BY <3>2, <2>1, <2>4 DEF Lies
    <3> QED BY <2>1, <3>1, <3>2, <3>3, <3>4 DEF ds, t
  <2>5. CASE c = Sep /\ u # <<>>
    <3>1. ds = cs
      BY <2>5, ScanTurns DEF t, ds, cs
    <3>2. Lies(t, ds)
      BY <2>1, <2>2, <2>3, <2>5, <3>1 DEF Lies
    <3> QED BY <2>1, <2>2, <2>5, <3>1, <3>2 DEF ds, t, cs
  <2>6. CASE c # Sep /\ (u = <<>> \/ Last(u) = Sep)
    <3> DEFINE d == Component(<<c>>, "FILENAME", Len(u))
    <3>1. ds = Append(cs, d)
      BY <2>6, ScanTurns DEF t, ds, cs
    <3>2. /\ d \in Comps /\ IsName(d.text) /\ End(d) = Len(u) + 1
          /\ d.pos = Len(u) /\ d.type = "FILENAME"
      BY <2>1, <2>6, NameBegins
    <3> HIDE DEF d
    <3>3. /\ Len(ds) = n + 1 /\ ds[n + 1] = d /\ (\A i \in 1..n : ds[i] = cs[i]) /\ ds # <<>>
      BY <2>2, <3>1, <3>2, AppendProperties
    <3>4. Proper(ds)
      BY <2>2, <3>2, <3>3 DEF Proper
    <3>5. Lies(t, ds)
      <4>1. \A i \in 1..n : End(cs[i]) <= Len(u)
        BY <2>2 DEF Lies
      <4>2. \A i \in 1..n + 1 : End(ds[i]) <= Len(t)
        BY <2>1, <2>2, <2>3, <3>2, <3>3, <4>1
      <4>3. ASSUME NEW i \in 1..n + 1, NEW j \in 1..n + 1, i < j PROVE End(ds[i]) <= ds[j].pos
        <5>1. i \in 1..n /\ ds[i] = cs[i]
          BY <2>2, <3>3, <4>3
        <5>2. CASE j = n + 1
          BY <3>2, <3>3, <4>1, <5>1, <5>2
        <5>3. CASE j \in 1..n
          BY <2>2, <3>3, <4>3, <5>1, <5>3 DEF Lies
        <5> QED BY <5>2, <5>3
      <4> QED BY <2>1, <3>2, <3>3, <4>2, <4>3 DEF Lies
    <3> QED BY <2>1, <2>2, <3>3, <3>4, <3>5 DEF t, ds
  <2>7. CASE c # Sep /\ u # <<>> /\ Last(u) # Sep
    <3>1. /\ n \in 1..n /\ cs[n].type = "FILENAME" /\ End(cs[n]) = Len(u)
          /\ cs[n] \in Comps
      BY <2>2, <2>7 DEF Lies
    <3> DEFINE d == [cs[n] EXCEPT !.text = Append(@, c)]
    <3>2. /\ ds = [cs EXCEPT ![n] = d]
      BY <2>7, ScanTurns DEF t, ds, cs
    <3>3. IsName(cs[n].text)
      BY <2>2, <3>1 DEF Proper
    <3>4. /\ d \in Comps /\ IsName(d.text) /\ End(d) = Len(u) + 1
          /\ d.pos = cs[n].pos /\ d.type = "FILENAME"
      BY <2>7, <3>1, <3>3, NameGoesOn
    <3> HIDE DEF d
    <3>5. /\ Len(ds) = n /\ ds[n] = d /\ (\A i \in 1..n : i # n => ds[i] = cs[i]) /\ ds # <<>>
      BY <2>2, <3>1, <3>2, <3>4
    <3>6. Proper(ds)
      BY <2>2, <3>4, <3>5 DEF Proper
    <3>7. Lies(t, ds)
      <4>1. \A i \in 1..n : End(cs[i]) <= Len(u)
        BY <2>2 DEF Lies
      <4>2. \A i \in 1..n : End(ds[i]) <= Len(t) /\ ds[i].pos = cs[i].pos
        BY <2>1, <2>3, <3>4, <3>5, <4>1
      <4>3. ASSUME NEW i \in 1..n, NEW j \in 1..n, i < j PROVE End(ds[i]) <= ds[j].pos
        <5>1. ds[i] = cs[i]
          BY <2>2, <3>5, <4>3
        <5> QED BY <2>2, <4>2, <4>3, <5>1 DEF Lies
      <4> QED BY <2>1, <3>4, <3>5, <4>2, <4>3 DEF Lies
    <3> QED BY <2>1, <2>2, <3>5, <3>6, <3>7 DEF t, ds
  <2> QED BY <2>4, <2>5, <2>6, <2>7
<1> HIDE DEF Shape
<1>3. \A u \in Text, c \in Alphabet : u \in S => Append(u, c) \in S
  BY <1>2, AppendProperties DEF Text
<1> HIDE DEF S
<1>4. s \in S
  BY <1>1, <1>3, TextInduction
<1> QED BY <1>4 DEF S, Shape

\* Replacing the last item of a list.
LEMMA ReplaceLast ==
    ASSUME NEW C, NEW r \in Seq(C), NEW e \in C, NEW f \in C
    PROVE  [Append(r, e) EXCEPT ![Len(r) + 1] = f] = Append(r, f)
<1> DEFINE a == [Append(r, e) EXCEPT ![Len(r) + 1] = f]
           b == Append(r, f)
<1>1. /\ Append(r, e) \in Seq(C) /\ Len(Append(r, e)) = Len(r) + 1 /\ Len(r) \in Nat
      /\ \A i \in 1..Len(r) : Append(r, e)[i] = r[i]
  BY AppendProperties
<1>2. /\ b \in Seq(C) /\ Len(b) = Len(r) + 1 /\ b[Len(r) + 1] = f
      /\ \A i \in 1..Len(r) : b[i] = r[i]
  BY AppendProperties
<1>3. Len(r) + 1 \in 1..Len(Append(r, e))
  BY <1>1
<1>4. /\ a \in Seq(C) /\ Len(a) = Len(r) + 1
      /\ \A i \in 1..Len(r) + 1 : a[i] = IF i = Len(r) + 1 THEN f ELSE Append(r, e)[i]
  <2>1. PICK t, k : t = Append(r, e) /\ k = Len(r) + 1 /\ t \in Seq(C) /\ k \in 1..Len(t)
    BY <1>1, <1>3
  <2>2. /\ [t EXCEPT ![k] = f] \in Seq(C) /\ Len([t EXCEPT ![k] = f]) = Len(t)
        /\ \A i \in 1..Len(t) : [t EXCEPT ![k] = f][i] = IF i = k THEN f ELSE t[i]
    <3>1. PICK d : d = [t EXCEPT ![k] = f]
      OBVIOUS
    <3>2. Len(t) \in Nat /\ t \in [1..Len(t) -> C]
      BY <2>1, LenProperties
    <3>3. d \in [1..Len(t) -> C]
      BY <2>1, <3>1, <3>2
    <3>4. \A i \in 1..Len(t) : d[i] = IF i = k THEN f ELSE t[i]
      BY <2>1, <3>1, <3>2
    <3>5. d \in Seq(C) /\ Len(d) = Len(t)
      BY <3>2, <3>3
    <3> QED BY <3>1, <3>4, <3>5
  <2> QED BY <1>1, <2>1, <2>2
<1> HIDE DEF a, b
<1>5. \A i \in 1..Len(a) : a[i] = b[i]
  BY <1>1, <1>2, <1>4
<1>6. a = b
  BY <1>2, <1>4, <1>5, SeqEqual
<1> QED BY <1>6 DEF a, b

\* A name behind a separator, or in front, is split off as one component.
LEMMA ScanName ==
    ASSUME NEW s \in Text, s = <<>> \/ Last(s) = Sep, NEW w, IsName(w)
    PROVE  Scan(s \o w) = Append(Scan(s), Component(w, "FILENAME", Len(s)))
<1> DEFINE Split1(v) == Scan(s \o v) = Append(Scan(s), Component(v, "FILENAME", Len(s)))
           S == {v \in Text : IsName(v) => Split1(v)}
<1>1. <<>> \in S
  BY Characters DEF IsName
<1>2. ASSUME NEW v \in Text, NEW c \in Alphabet, v \in S, IsName(Append(v, c))
      PROVE  Split1(Append(v, c))
  <2> DEFINE u == Append(v, c)
             n == Len(Scan(s))
             e == Component(v, "FILENAME", Len(s))
  <2>1. /\ Len(u) = Len(v) + 1 /\ Len(v) \in Nat /\ u[Len(v) + 1] = c
        /\ \A k \in 1..Len(v) : u[k] = v[k]
    BY AppendProperties DEF Text
  <2>2. c # Sep /\ \A k \in 1..Len(v) : v[k] # Sep
    BY <1>2, <2>1 DEF IsName
  <2>3. s \o u = Append(s \o v, c) /\ s \o v \in Text
    BY DEF Text
  <2>4. CASE v = <<>>
    <3>1. s \o v = s /\ u = <<c>>
      BY <2>4 DEF Text
    <3> QED BY <2>2, <2>3, <3>1, ScanTurns
  <2>5. CASE v # <<>>
    <3>1. IsName(v) /\ Scan(s \o v) = Append(Scan(s), e)
      BY <1>2, <2>2, <2>5 DEF IsName
    <3>2. Len(v) \in 1..Len(v) /\ s \o v # <<>> /\ Last(s \o v) = v[Len(v)]
      BY <2>1, <2>5 DEF Text, Last
    <3>3. Last(s \o v) # Sep
      BY <2>2, <3>2
    <3>4. Scan(s \o u) = [Append(Scan(s), e) EXCEPT ![Len(Append(Scan(s), e))].text = Append(@, c)]
      <4>1. PICK t \in Text : t = s \o v
        BY <2>3
      <4>2. Scan(Append(t, c)) = [Scan(t) EXCEPT ![Len(Scan(t))].text = Append(@, c)]
        BY <2>2, <3>2, <3>3, <4>1, ScanTurns
      <4>3. PICK a : a = Scan(t) /\ a = Append(Scan(s), e)
        BY <3>1, <4>1
      <4> HIDE DEF e, u
      <4> QED BY <2>3, <4>1, <4>2, <4>3
    <3>5. Scan(s) \in Seq(Comps) /\ Len(s) \in Nat
      BY ScanType DEF Text
    <3>6. e \in Comps /\ [e EXCEPT !.text = Append(@, c)] = Component(u, "FILENAME", Len(s))
      <4>1. e \in Comps
        BY <3>5 DEF Comps, Component
      <4>2. [e EXCEPT !.text = Append(@, c)] = Component(u, "FILENAME", Len(s))
        BY DEF Component
      <4> QED BY <4>1, <4>2
    <3>7. Component(u, "FILENAME", Len(s)) \in Comps
      BY <2>1, <3>5, AppendProperties DEF Comps, Component, Text
    <3> DEFINE f == Component(u, "FILENAME", Len(s))
    <3> HIDE DEF e, f
    <3>8. Scan(s \o u) = [Append(Scan(s), e) EXCEPT ![n + 1] = f]
      <4>1. Append(Scan(s), e)[n + 1] = e /\ Len(Append(Scan(s), e)) = n + 1
        BY <3>5, <3>6
      <4> QED BY <3>4, <3>6, <4>1 DEF f
    <3>9. [Append(Scan(s), e) EXCEPT ![n + 1] = f] = Append(Scan(s), f)
      <4>1. f \in Comps /\ e \in Comps
        BY <3>6, <3>7 DEF f
      <4> QED BY <3>5, <4>1, ReplaceLast
    <3> QED BY <3>8, <3>9 DEF f
  <2> QED BY <2>4, <2>5
<1> HIDE DEF Split1
<1>3. \A v \in Text, c \in Alphabet : v \in S => Append(v, c) \in S
  BY <1>2, AppendProperties DEF Text
<1>4. w \in S
  <2>1. w \in Text
    BY DEF IsName
  <2> HIDE DEF S
  <2> QED BY <1>1, <1>3, <2>1, TextInduction
<1> QED BY <1>4 DEF Split1

\* One turn of the loop that joins components.
Linked(text, w, more) ==
    LET all == text \o w
    IN  IF more /\ all # <<>> /\ Last(all) # Sep THEN Append(all, Sep) ELSE all

\* Linking texts makes a text.
LEMMA LinkedType ==
    ASSUME NEW text \in Text, NEW w \in Text, NEW more
    PROVE  Linked(text, w, more) \in Text
BY Characters DEF Linked, Text

\* The recursion of Joined, as a function there is.
LEMMA JoinedIs ==
    ASSUME NEW cs \in Seq(Comps)
    PROVE  \E at \in [0..Len(cs) -> Text] :
              /\ at[0] = <<>> /\ Joined(cs) = at[Len(cs)]
              /\ \A i \in 1..Len(cs) : at[i] = Linked(at[i - 1], cs[i].text, i < Len(cs))
<1> DEFINE Is(at) == at = [i \in 0..Len(cs) |->
                              IF i = 0 THEN <<>>
                              ELSE Linked(at[i - 1], cs[i].text, i < Len(cs))]
           f == CHOOSE at : Is(at)
           next == [i \in 1..Len(cs) |-> [t \in Text |-> Linked(t, cs[i].text, i < Len(cs))]]
<1>0. Len(cs) \in Nat /\ <<>> \in Text /\ \A i \in 1..Len(cs) : cs[i].text \in Text
  BY Characters, CompType
<1>1. Keeps(next, Len(cs), Text)
  BY <1>0, LinkedType DEF Keeps
<1>2. PICK at : Computes(at, Len(cs), Text, <<>>, next)
  <2> HIDE DEF next
  <2> QED BY <1>0, <1>1, RecursionIn
<1>3. at \in [0..Len(cs) -> Text] /\ at[0] = <<>>
  BY <1>2 DEF Computes
<1>4. ASSUME NEW i \in 1..Len(cs) PROVE at[i] = Linked(at[i - 1], cs[i].text, i < Len(cs))
  <2>1. i - 1 \in 0..Len(cs)
    BY <1>0
  <2>2. at[i - 1] \in Text
    BY <1>3, <2>1
  <2> QED BY <1>2, <2>2 DEF Computes
<1>5. Is(at)
  BY <1>3, <1>4
<1>6. Is(f)
  BY <1>5
<1>7. Joined(cs) = f[Len(cs)]
  BY DEF Joined, Linked
<1> HIDE DEF f
<1>8. f[0] = <<>> /\ \A i \in 1..Len(cs) : f[i] = Linked(f[i - 1], cs[i].text, i < Len(cs))
  BY <1>0, <1>6
<1>9. f \in [0..Len(cs) -> Text]
  <2> DEFINE T == {i \in Nat : i <= Len(cs) => f[i] \in Text}
  <2>1. 0 \in T
    BY <1>0, <1>8
  <2>2. ASSUME NEW i \in Nat, i \in T PROVE i + 1 \in T
    <3> SUFFICES ASSUME i + 1 <= Len(cs) PROVE f[i + 1] \in Text
      OBVIOUS
    <3>1. i + 1 \in 1..Len(cs) /\ i + 1 - 1 = i /\ f[i] \in Text
      BY <1>0, <2>2
    <3>2. f[i + 1] = Linked(f[i], cs[i + 1].text, i + 1 < Len(cs))
      BY <1>8, <3>1
    <3> QED BY <1>0, <3>1, <3>2, LinkedType
  <2> HIDE DEF T
  <2>3. Nat \subseteq T
    BY <2>1, <2>2, Induction
  <2>4. \A i \in 0..Len(cs) : f[i] \in Text
    BY <1>0, <2>3 DEF T
  <2> QED BY <1>6, <2>4
<1> QED BY <1>7, <1>8, <1>9

\* A name is linked to what is before it by one separator at most.
LEMMA LinkName ==
    ASSUME NEW t \in Text, t = <<>> \/ Last(t) = Sep, NEW w, IsName(w), NEW more \in BOOLEAN
    PROVE  LET u == Linked(t, w, more)
           IN  /\ Scan(u) = Append(Scan(t), Component(w, "FILENAME", Len(t)))
               /\ Len(u) = Len(t) + Len(w) + (IF more THEN 1 ELSE 0)
               /\ u # <<>> /\ (more <=> Last(u) = Sep) /\ u \in Text
<1>1. /\ w \in Text /\ w # <<>> /\ Len(w) \in Nat /\ Len(t) \in Nat /\ Len(w) > 0
      /\ w[Len(w)] # Sep /\ t \o w \in Text
  BY DEF IsName, Text
<1>2. Scan(t \o w) = Append(Scan(t), Component(w, "FILENAME", Len(t)))
  BY ScanName
<1> DEFINE all == t \o w
<1>3. all \in Text /\ all # <<>> /\ Len(all) = Len(t) + Len(w) /\ Last(all) = w[Len(w)]
  BY <1>1 DEF Text, Last
<1> HIDE DEF all
<1>4. Linked(t, w, more) = IF more THEN Append(all, Sep) ELSE all
  BY <1>1, <1>3 DEF Linked, all
<1>5. CASE more
  <2> DEFINE u == Append(all, Sep)
  <2>1. /\ Scan(u) = Scan(all) /\ Len(u) = Len(all) + 1 /\ u # <<>> /\ Last(u) = Sep
        /\ u \in Text
    <3>1. Scan(u) = Scan(all)
      BY <1>3, Characters, ScanTurns
    <3>2. /\ u \in Seq(Alphabet) /\ Len(u) = Len(all) + 1 /\ u # <<>> /\ u[Len(all) + 1] = Sep
      BY <1>3, Characters, AppendProperties DEF Text
    <3> HIDE DEF u
    <3> QED BY <3>1, <3>2 DEF Last, Text
  <2> HIDE DEF u
  <2> QED BY <1>1, <1>2, <1>3, <1>4, <1>5, <2>1 DEF all, u
<1>6. CASE ~more
  BY <1>1, <1>2, <1>3, <1>4, <1>6 DEF all
<1> QED BY <1>5, <1>6

\* The root directory in front is linked by nothing.
LEMMA LinkRoot ==
    ASSUME NEW more
    PROVE  Linked(<<>>, <<Sep>>, more) = <<Sep>> /\ Scan(<<Sep>>) = <<RootDir>>
<1>1. <<>> \o <<Sep>> = <<Sep>> /\ Last(<<Sep>>) = Sep
  BY DEF Last
<1>2. Append(<<>>, Sep) = <<Sep>>
  OBVIOUS
<1> QED BY <1>1, <1>2, Characters, ScanTurns DEF Linked

\* The same components, wherever they are.
Alike(cs, ds) ==
    /\ Len(cs) = Len(ds)
    /\ \A i \in 1..Len(cs) : cs[i].text = ds[i].text /\ cs[i].type = ds[i].type

\* No separator is redundant.
After(c) == End(c) + (IF c.type = "ROOT_DIR" THEN 0 ELSE 1)
Packed(cs) ==
    \A i \in 1..Len(cs) : cs[i].pos = IF i = 1 THEN 0 ELSE After(cs[i - 1])

\* The components of a text that was joined are those that were joined.
LEMMA Rejoined ==
    ASSUME NEW cs, Proper(cs)
    PROVE  LET t == Joined(cs)
           IN  /\ t \in Text /\ Alike(Scan(t), cs) /\ Packed(Scan(t))
               /\ (t = <<>> <=> cs = <<>>)
               /\ cs # <<>> /\ cs[Len(cs)].type = "FILENAME" => Last(t) # Sep
<1> DEFINE n == Len(cs)
<1>0. cs \in Seq(Comps) /\ n \in Nat
  BY DEF Proper
<1>1. PICK at \in [0..n -> Text] :
              /\ at[0] = <<>> /\ Joined(cs) = at[n]
              /\ \A i \in 1..n : at[i] = Linked(at[i - 1], cs[i].text, i < n)
  BY <1>0, JoinedIs
<1> HIDE DEF n
<1> DEFINE ds(m) == Scan(at[m])
           R(m) == /\ Len(ds(m)) = m
                   /\ \A i \in 1..m : ds(m)[i].text = cs[i].text /\ ds(m)[i].type = cs[i].type
                   /\ \A i \in 1..m : ds(m)[i].pos = IF i = 1 THEN 0 ELSE After(ds(m)[i - 1])
                   /\ m = 0 <=> at[m] = <<>>
                   /\ 0 < m /\ m < n => Last(at[m]) = Sep /\ Len(at[m]) = After(ds(m)[m])
                   /\ 0 < m /\ m = n /\ cs[m].type = "FILENAME" => Last(at[m]) # Sep
           S == {m \in Nat : m <= n => R(m)}
<1>2. 0 \in S
  BY <1>0, <1>1, ScanType
<1>3. ASSUME NEW m \in Nat, R(m), m + 1 <= n PROVE R(m + 1)
  <2> DEFINE t == at[m]
             u == at[m + 1]
             c == cs[m + 1]
             w == c.text
             ks == Scan(t)
             bs == Scan(u)
  <2>1. /\ m + 1 \in 1..n /\ m + 1 - 1 = m /\ t \in Text /\ u \in Text /\ c \in Comps
        /\ u = Linked(t, w, m + 1 < n) /\ ks \in Seq(Comps) /\ (m + 1 < n) \in BOOLEAN
    BY <1>0, <1>1, <1>3, ScanType DEF n
  <2>2. CASE c.type = "ROOT_DIR"
    <3>1. m = 0 /\ w = <<Sep>> /\ t = <<>>
      BY <1>1, <2>1, <2>2 DEF Proper, n
    <3>2. u = <<Sep>> /\ bs = <<RootDir>>
      BY <2>1, <3>1, LinkRoot
    <3>3. /\ Len(bs) = 1 /\ bs[1] = RootDir /\ RootDir.text = <<Sep>> /\ RootDir.pos = 0
          /\ RootDir.type = "ROOT_DIR" /\ Last(u) = Sep /\ u # <<>> /\ Len(u) = 1
          /\ After(RootDir) = 1
      BY <3>2 DEF RootDir, Component, Last, After, End
    <3> QED BY <2>2, <3>1, <3>3
  <2>3. CASE c.type # "ROOT_DIR"
    <3>1. IsName(w) /\ c.type = "FILENAME" /\ Len(w) \in Nat /\ Len(t) \in Nat
      BY <2>1, <2>3, CompType DEF Proper, n, Text
    <3>2. t = <<>> \/ Last(t) = Sep
      <4>1. m = 0 \/ (0 < m /\ m < n)
        BY <1>0, <1>3
      <4> QED BY <1>3, <4>1
    <3> DEFINE d == Component(w, "FILENAME", Len(t))
    <3>3. /\ bs = Append(ks, d) /\ Len(u) = Len(t) + Len(w) + (IF m + 1 < n THEN 1 ELSE 0)
          /\ u # <<>> /\ (m + 1 < n <=> Last(u) = Sep)
      <4>1. PICK more \in BOOLEAN : more <=> m + 1 < n
        OBVIOUS
      <4> HIDE DEF t, u, w
      <4>2. u = Linked(t, w, more)
        BY <2>1, <4>1
      <4> QED BY <2>1, <3>1, <3>2, <4>1, <4>2, LinkName
    <3>4. /\ d \in Comps /\ d.text = w /\ d.type = "FILENAME" /\ d.pos = Len(t)
          /\ After(d) = Len(t) + Len(w) + 1
      BY <3>1 DEF IsName, Component, Comps, After, End
    <3>5. Len(ks) = m
      BY <1>3
    <3> HIDE DEF ks, bs, t, u, d
    <3>6. /\ Len(bs) = m + 1 /\ bs[m + 1] = d /\ \A i \in 1..m : bs[i] = ks[i]
      <4>1. ks \in Seq(Comps) /\ d \in Comps
        BY <2>1, <3>4
      <4>2. /\ Len(Append(ks, d)) = Len(ks) + 1 /\ Append(ks, d)[Len(ks) + 1] = d
            /\ \A i \in 1..Len(ks) : Append(ks, d)[i] = ks[i]
        BY <4>1, SMTT(60)
      <4> QED BY <3>3, <3>5, <4>2
    <3>7. Len(t) = IF m = 0 THEN 0 ELSE After(ks[m])
      <4>1. CASE m = 0
        BY <1>1, <4>1 DEF t
      <4>2. CASE m # 0
        BY <1>0, <1>3, <4>2 DEF ks, t
      <4> QED BY <4>1, <4>2
    <3>8. ASSUME NEW i \in 1..m + 1
          PROVE  /\ bs[i].text = cs[i].text /\ bs[i].type = cs[i].type
                 /\ bs[i].pos = IF i = 1 THEN 0 ELSE After(bs[i - 1])
      <4>1. CASE i = m + 1
        <5>1. m # 0 => m \in 1..m /\ bs[i - 1] = ks[m]
          <6>1. i - 1 = m
            BY <4>1
          <6> QED BY <3>6, <6>1, SMTT(60)
        <5>2. bs[i] = d
          BY <3>6, <4>1
        <5>3. i = 1 <=> m = 0
          BY <4>1
        <5> HIDE DEF c, w
        <5>4. d.text = c.text /\ d.type = c.type
          BY <2>1, <3>1, <3>4 DEF w
        <5> QED BY <3>4, <3>7, <4>1, <5>1, <5>2, <5>3, <5>4 DEF c
      <4>2. CASE i \in 1..m
        <5>1. i # 1 => i - 1 \in 1..m
          BY <4>2
        <5>2. /\ ks[i].text = cs[i].text /\ ks[i].type = cs[i].type
              /\ ks[i].pos = IF i = 1 THEN 0 ELSE After(ks[i - 1])
          BY <1>3, <4>2 DEF ks, t
        <5> QED BY <3>6, <4>2, <5>1, <5>2
      <4> QED BY <4>1, <4>2
    <3>9. m + 1 < n => Last(u) = Sep /\ Len(u) = After(bs[m + 1])
      BY <3>3, <3>4, <3>6
    <3>10. m + 1 = n => Last(u) # Sep
      BY <1>0, <3>3
    <3>11. ~(m + 1 = 0) /\ 0 < m + 1
      OBVIOUS
    <3> QED BY <3>3, <3>6, <3>8, <3>9, <3>10, <3>11 DEF bs, u
  <2> QED BY <2>2, <2>3
<1> HIDE DEF R
<1>4. \A m \in Nat : m \in S => m + 1 \in S
  BY <1>0, <1>3
<1> HIDE DEF S
<1>5. n \in S
  BY <1>0, <1>2, <1>4, Induction
<1>6. R(n)
  BY <1>0, <1>5 DEF S
<1>7. n = 0 <=> cs = <<>>
  BY <1>0 DEF n
<1>8. at[n] \in Text
  BY <1>0, <1>1
<1> QED BY <1>0, <1>1, <1>6, <1>7, <1>8 DEF R, Alike, Packed, n

\* A packed list is known by its texts and types.
LEMMA PackedSame ==
    ASSUME NEW cs \in Seq(Comps), NEW ds \in Seq(Comps),
           Alike(cs, ds), Packed(cs), Packed(ds)
    PROVE  cs = ds
<1> DEFINE S == {i \in Nat : i \in 1..Len(cs) => cs[i] = ds[i]}
<1>1. 0 \in S
  OBVIOUS
<1>2. ASSUME NEW i \in Nat, i \in S PROVE i + 1 \in S
  <2> SUFFICES ASSUME i + 1 \in 1..Len(cs) PROVE cs[i + 1] = ds[i + 1]
    OBVIOUS
  <2>1. cs[i + 1].pos = ds[i + 1].pos
    <3>1. Len(ds) = Len(cs) /\ i + 1 - 1 = i /\ (i + 1 = 1 <=> i = 0)
      BY DEF Alike
    <3>2. CASE i = 0
      BY <3>1, <3>2 DEF Packed
    <3>3. CASE i # 0
      <4>1. cs[i] = ds[i]
        BY <1>2, <3>3
      <4> QED BY <3>1, <3>3, <4>1 DEF Packed
    <3> QED BY <3>2, <3>3
  <2>2. /\ cs[i + 1].text = ds[i + 1].text /\ cs[i + 1].type = ds[i + 1].type
        /\ cs[i + 1] \in Comps /\ ds[i + 1] \in Comps
    BY DEF Alike
  <2>3. \A a, b \in Comps : a.text = b.text /\ a.type = b.type /\ a.pos = b.pos => a = b
    BY DEF Comps
  <2> QED BY <2>1, <2>2, <2>3
<1> HIDE DEF S
<1>3. Nat \subseteq S
  BY <1>1, <1>2, Induction
<1>4. Len(cs) = Len(ds) /\ \A i \in 1..Len(cs) : cs[i] = ds[i]
  BY <1>3 DEF S, Alike
<1> QED BY <1>4, SeqEqual

\* The parts of a packed list are, and a packed list is what is split off again.
LEMMA PackedJoined ==
    ASSUME NEW cs, Proper(cs), Packed(cs)
    PROVE  Scan(Joined(cs)) = cs
<1>1. cs \in Seq(Comps) /\ Scan(Joined(cs)) \in Seq(Comps)
  BY Rejoined, ScanType DEF Proper
<1> QED BY <1>1, Rejoined, PackedSame

Tight(s) == \A i \in 1..(Len(s) - 1) : <<s[i], s[i + 1]>> # <<Sep, Sep>>

\* The components of a text without two separators in a row are packed, and
\* nothing but a separator follows the last.
LEMMA TightPacked ==
    ASSUME NEW s \in Text, Tight(s)
    PROVE  /\ Packed(Scan(s))
           /\ s # <<>> /\ Last(s) = Sep => Len(s) = After(Scan(s)[Len(Scan(s))])
<1> DEFINE Q(u) == /\ Packed(Scan(u))
                   /\ u # <<>> /\ Last(u) = Sep => Len(u) = After(Scan(u)[Len(Scan(u))])
           S == {u \in Text : Tight(u) => Q(u)}
<1>1. <<>> \in S
  BY ScanType, Characters DEF Packed
<1>2. ASSUME NEW u \in Text, NEW c \in Alphabet, u \in S, Tight(Append(u, c)) PROVE Q(Append(u, c))
  <2> DEFINE t == Append(u, c)
             cs == Scan(u)
             ds == Scan(t)
             n == Len(cs)
  <2>1. /\ t \in Text /\ Len(t) = Len(u) + 1 /\ Len(u) \in Nat /\ Last(t) = c /\ t # <<>>
        /\ t[Len(u) + 1] = c /\ (\A i \in 1..Len(u) : t[i] = u[i])
        /\ (u = <<>> <=> Len(u) = 0) /\ (u # <<>> => Last(u) = u[Len(u)])
    BY AppendProperties DEF Text, Last
  <2>2. /\ cs \in Seq(Comps) /\ n \in Nat /\ Proper(cs) /\ Lies(u, cs)
        /\ (u = <<>> <=> n = 0)
    BY <2>1, ScanShape, ScanType DEF Proper
  <2> HIDE DEF t
  <2>3. Tight(u)
    <3>1. ASSUME NEW i \in 1..(Len(u) - 1) PROVE <<u[i], u[i + 1]>> # <<Sep, Sep>>
      <4>1. i \in 1..(Len(t) - 1) /\ i \in 1..Len(u) /\ i + 1 \in 1..Len(u)
        BY <2>1
      <4>2. <<t[i], t[i + 1]>> # <<Sep, Sep>>
        BY <1>2, <4>1 DEF Tight, t
      <4> QED BY <2>1, <4>1, <4>2
    <3> QED BY <3>1 DEF Tight
  <2>4. Q(u)
    BY <1>2, <2>3
  <2>5. u # <<>> => ~(Last(u) = Sep /\ c = Sep)
    <3> SUFFICES ASSUME u # <<>> PROVE ~(Last(u) = Sep /\ c = Sep)
      OBVIOUS
    <3>1. Len(u) \in 1..(Len(t) - 1) /\ Len(u) \in 1..Len(u)
      BY <2>1
    <3>2. <<t[Len(u)], t[Len(u) + 1]>> # <<Sep, Sep>>
      BY <1>2, <3>1 DEF Tight, t
    <3> QED BY <2>1, <3>1, <3>2
  <2> HIDE DEF cs, ds
  <2>6. CASE c = Sep /\ u = <<>>
    <3>1. ds = <<RootDir>>
      BY <2>6, ScanTurns DEF t, ds
    <3>2. Len(ds) = 1 /\ ds[1] = RootDir /\ RootDir.pos = 0 /\ After(RootDir) = 1 /\ Len(t) = 1
      BY <2>1, <2>6, <3>1 DEF RootDir, Component, End, After
    <3>3. Packed(ds)
      BY <3>2 DEF Packed
    <3> QED BY <3>2, <3>3 DEF ds, t
  <2>7. CASE c = Sep /\ u # <<>>
    <3>1. ds = cs
      BY <2>7, ScanTurns DEF t, ds, cs
    <3>2. n \in 1..n /\ cs[n].type = "FILENAME" /\ End(cs[n]) = Len(u)
      BY <2>1, <2>2, <2>5, <2>7 DEF Lies
    <3>3. After(cs[n]) = Len(t)
      BY <2>1, <3>2 DEF After
    <3> QED BY <2>4, <3>1, <3>3 DEF ds, t, cs
  <2>8. CASE c # Sep /\ (u = <<>> \/ Last(u) = Sep)
    <3> DEFINE d == Component(<<c>>, "FILENAME", Len(u))
    <3>1. ds = Append(cs, d)
      BY <2>8, ScanTurns DEF t, ds, cs
    <3>2. d \in Comps /\ d.pos = Len(u)
      BY <2>1, <2>8, NameBegins
    <3> HIDE DEF d
    <3>3. /\ Len(ds) = n + 1 /\ ds[n + 1] = d /\ (\A i \in 1..n : ds[i] = cs[i])
      BY <2>2, <3>1, <3>2, AppendProperties
    <3>4. ASSUME NEW i \in 1..n + 1
          PROVE  ds[i].pos = IF i = 1 THEN 0 ELSE After(ds[i - 1])
      <4>1. CASE i = n + 1
        <5>1. CASE n = 0
          BY <2>1, <2>2, <3>2, <3>3, <4>1, <5>1
        <5>2. CASE n # 0
          <6>1. i - 1 = n /\ n \in 1..n /\ i # 1
            BY <2>2, <4>1, <5>2
          <6>2. Len(u) = After(cs[n])
            BY <2>2, <2>4, <2>8, <5>2 DEF cs
          <6> QED BY <3>2, <3>3, <4>1, <6>1, <6>2
        <5> QED BY <5>1, <5>2
      <4>2. CASE i \in 1..n
        <5>1. i # 1 => i - 1 \in 1..n
          BY <2>2, <4>2
        <5>2. cs[i].pos = IF i = 1 THEN 0 ELSE After(cs[i - 1])
          BY <2>4, <4>2 DEF Packed, cs
        <5> QED BY <3>3, <4>2, <5>1, <5>2
      <4> QED BY <2>2, <4>1, <4>2
    <3>5. Packed(ds)
      BY <3>3, <3>4 DEF Packed
    <3> QED BY <2>1, <2>8, <3>5 DEF ds, t
  <2>9. CASE c # Sep /\ u # <<>> /\ Last(u) # Sep
    <3>1. n \in 1..n /\ cs[n] \in Comps /\ cs[n].type = "FILENAME"
      BY <2>2, <2>9 DEF Lies
    <3> DEFINE d == [cs[n] EXCEPT !.text = Append(@, c)]
    <3>2. ds = [cs EXCEPT ![n] = d]
      BY <2>9, ScanTurns DEF t, ds, cs
    <3>3. IsName(cs[n].text)
      BY <2>2, <3>1 DEF Proper
    <3>4. d \in Comps /\ d.pos = cs[n].pos
      BY <2>9, <3>1, <3>3, NameGoesOn
    <3> HIDE DEF d
    <3>5. /\ Len(ds) = n /\ ds[n] = d /\ (\A i \in 1..n : i # n => ds[i] = cs[i])
      BY <2>2, <3>1, <3>2, <3>4
    <3>6. ASSUME NEW i \in 1..n
          PROVE  ds[i].pos = IF i = 1 THEN 0 ELSE After(ds[i - 1])
      <4>1. cs[i].pos = IF i = 1 THEN 0 ELSE After(cs[i - 1])
        BY <2>4 DEF Packed, cs
      <4>2. i # 1 => i - 1 \in 1..n /\ i - 1 # n
        BY <2>2
      <4> QED BY <3>4, <3>5, <4>1, <4>2
    <3>7. Packed(ds)
      BY <3>5, <3>6 DEF Packed
    <3> QED BY <2>1, <2>9, <3>7 DEF ds, t
  <2> QED BY <2>6, <2>7, <2>8, <2>9
<1> HIDE DEF Q
<1>3. \A u \in Text, c \in Alphabet : u \in S => Append(u, c) \in S
  BY <1>2, AppendProperties DEF Text
<1> HIDE DEF S
<1>4. s \in S
  BY <1>1, <1>3, TextInduction
<1> QED BY <1>4 DEF S, Q

-----------------------------------------------------------------------------
(* The objects.                                                            *)

\* No name is the separator.
Named(c) == c.type = "FILENAME" => c.text # <<Sep>>

\* The type of a path: no name is the separator.
Objects ==
    {q \in [str : Text, cmpts : Seq(Comps), type : {"MULTI", "ROOT_DIR", "FILENAME"}] :
        /\ q.type = "FILENAME" => q.str # <<Sep>>
        /\ \A i \in 1..Len(q.cmpts) : Named(q.cmpts[i])}

\* A name does not end in a separator.
LEMMA NameIsNoSep ==
    ASSUME NEW w, IsName(w)
    PROVE  w # <<Sep>> /\ w # <<>> /\ w \in Text /\ w[Len(w)] # Sep /\ Last(w) # Sep
<1>1. w \in Text /\ w # <<>> /\ Len(w) \in 1..Len(w)
  BY DEF IsName, Text
<1>2. w[Len(w)] # Sep
  BY <1>1 DEF IsName
<1>3. <<Sep>>[Len(<<Sep>>)] = Sep
  OBVIOUS
<1> QED BY <1>1, <1>2, <1>3 DEF Last

\* The components of a text that ends in a name, and of one that does not.
LEMMA ComponentsAre ==
    ASSUME NEW s \in Text, s # <<>>
    PROVE  LET cs == Scan(s)
               n == Len(cs)
               none == Component(<<>>, "FILENAME", Len(s))
           IN  /\ cs \in Seq(Comps) /\ n \in Nat /\ n > 0 /\ Proper(cs) /\ none \in Comps
               /\ Last(s) # Sep => Components(s) = cs /\ cs[n].type = "FILENAME"
               /\ Last(s) = Sep /\ cs[n].type = "FILENAME" => Components(s) = Append(cs, none)
               /\ cs[n].type = "ROOT_DIR" => Components(s) = cs /\ n = 1
<1> DEFINE cs == Scan(s)
           n == Len(cs)
           none == Component(<<>>, "FILENAME", Len(s))
<1>1. cs \in Seq(Comps) /\ n \in Nat /\ n > 0 /\ Proper(cs) /\ Lies(s, cs)
  <2>1. cs \in Seq(Comps) /\ cs # <<>> /\ Proper(cs) /\ Lies(s, cs)
    BY ScanShape, ScanType
  <2> HIDE DEF cs
  <2> QED BY <2>1
<1>2. none \in Comps
  BY Characters DEF Component, Comps, Text
<1>3. Last(cs) = cs[n]
  BY DEF Last
<1>4. Last(s) # Sep => cs[n].type = "FILENAME"
  BY <1>1 DEF Lies
<1>5. cs[n].type = "ROOT_DIR" => n = 1
  <2>1. n \in 1..Len(cs)
    BY <1>1
  <2> HIDE DEF cs
  <2> QED BY <1>1, <2>1 DEF Proper
<1>6. Components(s) = cs \o (IF Last(s) = Sep /\ cs[n].type = "FILENAME" THEN <<none>> ELSE <<>>)
  BY <1>3 DEF Components
<1> HIDE DEF cs, none
<1>7. cs \o <<>> = cs /\ cs \o <<none>> = Append(cs, none)
  BY <1>1, <1>2
<1> QED BY <1>1, <1>2, <1>4, <1>5, <1>6, <1>7 DEF cs, n, none

\* The object of a text that ends in a name.
LEMMA SplitName ==
    ASSUME NEW s \in Text, s # <<>>, Last(s) # Sep
    PROVE  LET cs == Scan(s)
           IN  /\ IsName(cs[Len(cs)].text)
               /\ Len(cs) = 1 => Split(s) = [str |-> cs[1].text, cmpts |-> <<>>, type |-> "FILENAME"]
               /\ Len(cs) # 1 => Split(s) = [str |-> s, cmpts |-> cs, type |-> "MULTI"]
<1> DEFINE cs == Scan(s)
<1>1. /\ cs \in Seq(Comps) /\ Len(cs) \in Nat /\ Len(cs) > 0 /\ Proper(cs)
      /\ Components(s) = cs /\ cs[Len(cs)].type = "FILENAME"
  BY ComponentsAre
<1>2. IsName(cs[Len(cs)].text)
  BY <1>1 DEF Proper
<1>3. Split(s) = Trim(s, cs, "MULTI")
  BY <1>1 DEF Split
<1> HIDE DEF cs
<1>4. Len(cs) = 1 => Trim(s, cs, "MULTI") = [str |-> cs[1].text, cmpts |-> <<>>, type |-> "FILENAME"]
  BY <1>1 DEF Trim
<1>5. Len(cs) # 1 => Trim(s, cs, "MULTI") = [str |-> s, cmpts |-> cs, type |-> "MULTI"]
  BY DEF Trim
<1> QED BY <1>2, <1>3, <1>4, <1>5 DEF cs

\* The empty path, split or not, is an object without components.
LEMMA EmptyIs ==
    /\ Empty \in Objects /\ Split(<<>>) \in Objects
    /\ Split(<<>>).str = <<>> /\ Empty.str = <<>> /\ Empty.cmpts = <<>>
    /\ Scan(<<>>) = <<>> /\ Empty.type = "MULTI" /\ Split(<<>>).type = "FILENAME"
<1>1. <<>> \in Text /\ <<>> \in Seq(Comps) /\ Len(<<>>) = 0 /\ <<>> # <<Sep>>
  BY Characters
<1>2. \A t \in {"MULTI", "FILENAME"} :
          [str |-> <<>>, cmpts |-> <<>>, type |-> t] \in Objects
  BY <1>1 DEF Objects
<1> QED BY <1>2, ScanType DEF Empty, Split

\* An object that is trimmed is an object.
LEMMA TrimType ==
    ASSUME NEW s \in Text, NEW cs \in Seq(Comps), \A i \in 1..Len(cs) : Named(cs[i])
    PROVE  Trim(s, cs, "MULTI") \in Objects
<1>1. CASE Len(cs) = 1
  <2>1. 1 \in 1..Len(cs) /\ cs[1] \in Comps
    BY <1>1
  <2>2. cs[1].text \in Text /\ cs[1].type \in {"ROOT_DIR", "FILENAME"} /\ Named(cs[1])
    BY <2>1, CompType
  <2>3. Trim(s, cs, "MULTI") = [str |-> cs[1].text, cmpts |-> <<>>, type |-> cs[1].type]
    BY <1>1 DEF Trim
  <2>4. PICK w, t : w = cs[1].text /\ t = cs[1].type
    OBVIOUS
  <2>5. [str |-> w, cmpts |-> <<>>, type |-> t] \in Objects
    BY <2>2, <2>4 DEF Objects, Named
  <2> QED BY <2>3, <2>4, <2>5
<1>2. CASE Len(cs) # 1
  <2>1. Trim(s, cs, "MULTI") = [str |-> s, cmpts |-> cs, type |-> "MULTI"]
    BY <1>2 DEF Trim
  <2> QED BY <2>1 DEF Objects
<1> QED BY <1>1, <1>2

\* Every text is split into an object.
LEMMA SplitType ==
    ASSUME NEW s \in Text
    PROVE  Split(s) \in Objects /\ (Split(s).str = <<>> <=> s = <<>>)
<1>1. CASE s = <<>>
  BY <1>1, EmptyIs
<1>2. CASE s # <<>>
  <2> DEFINE cs == Scan(s)
             n == Len(cs)
             none == Component(<<>>, "FILENAME", Len(s))
             ds == Components(s)
  <2>1. /\ cs \in Seq(Comps) /\ n \in Nat /\ n > 0 /\ Proper(cs) /\ none \in Comps
        /\ ds = cs \/ ds = Append(cs, none)
    <3>1. cs[n].type \in {"ROOT_DIR", "FILENAME"}
      <4>1. cs \in Seq(Comps) /\ n \in 1..Len(cs)
        BY <1>2, ComponentsAre
      <4> HIDE DEF cs
      <4> QED BY <4>1, CompType
    <3> QED BY <1>2, <3>1, ComponentsAre
  <2>2. none.text = <<>>
    BY DEF Component
  <2>3. \A i \in 1..n : Named(cs[i]) /\ cs[i].text # <<>>
    <3>1. ASSUME NEW i \in 1..n PROVE Named(cs[i]) /\ cs[i].text # <<>>
      <4> HIDE DEF cs
      <4>1. CASE cs[i].type = "ROOT_DIR"
        <5>1. cs[i].text = <<Sep>>
          BY <2>1, <4>1 DEF Proper
        <5> QED BY <4>1, <5>1 DEF Named
      <4>2. CASE cs[i].type # "ROOT_DIR"
        BY <2>1, <4>2, NameIsNoSep DEF Proper, Named
      <4> QED BY <4>1, <4>2
    <3> QED BY <3>1
  <2> HIDE DEF cs, none
  <2>4. Named(none)
    BY <2>2 DEF Named
  <2>5. /\ ds \in Seq(Comps) /\ \A i \in 1..Len(ds) : Named(ds[i])
        /\ Len(ds) = 1 => ds[1].text # <<>>
    BY <2>1, <2>3, <2>4
  <2>6. Split(s) = Trim(s, ds, "MULTI")
    BY <1>2 DEF Split
  <2> HIDE DEF ds
  <2>7. Trim(s, ds, "MULTI") \in Objects
    BY <2>5, TrimType
  <2>8. Trim(s, ds, "MULTI").str # <<>>
    BY <1>2, <2>5 DEF Trim
  <2> QED BY <1>2, <2>6, <2>7, <2>8
<1> QED BY <1>1, <1>2

-----------------------------------------------------------------------------
(* The turns of create_directories' climb.                                 *)

\* What a path of the climb is: the object of a text, or one that
\* parent_path built in place, if its components are those of its text.
Form(q, s, elided) ==
    /\ s \in Text
    /\ \/ q = Split(s)
       \/ q = [str |-> s, cmpts |-> Scan(s), type |-> "MULTI"] /\ Packed(Scan(s))
    /\ elided => Packed(Scan(s))

\* A path of the climb is an object.
LEMMA FormType ==
    ASSUME NEW q, NEW s, NEW elided \in BOOLEAN, Form(q, s, elided)
    PROVE  q \in Objects
<1>1. CASE q = Split(s)
  BY <1>1, SplitType DEF Form
<1>2. CASE q = [str |-> s, cmpts |-> Scan(s), type |-> "MULTI"]
  <2>1. s \in Text /\ Scan(s) \in Seq(Comps) /\ Proper(Scan(s))
    BY ScanShape, ScanType DEF Form
  <2>2. PICK cs \in Seq(Comps) : cs = Scan(s)
    BY <2>1
  <2>3. ASSUME NEW i \in 1..Len(cs) PROVE Named(cs[i])
    <3>1. cs[i].type = "FILENAME" => IsName(cs[i].text)
      BY <2>1, <2>2 DEF Proper
    <3> QED BY <3>1, NameIsNoSep DEF Named
  <2> QED BY <1>2, <2>1, <2>2, <2>3 DEF Objects
<1> QED BY <1>1, <1>2 DEF Form

\* A path that ends in the root directory or in a separator has no filename.
LEMMA NoTurn ==
    ASSUME NEW q, NEW s, NEW elided \in BOOLEAN, Form(q, s, elided),
           s = <<>> \/ Last(s) = Sep
    PROVE  ~HasFilename(q)
<1>1. CASE s = <<>>
  <2>1. q.str = <<>>
    BY <1>1, EmptyIs DEF Form
  <2> QED BY <2>1, EmptyIs DEF HasFilename, Filename
<1>2. CASE s # <<>> /\ q = [str |-> s, cmpts |-> Scan(s), type |-> "MULTI"]
  <2>1. q.type = "MULTI" /\ q.str = s
    BY <1>2
  <2> QED BY <1>2, <2>1, EmptyIs DEF HasFilename, Filename
<1>3. CASE s # <<>> /\ q = Split(s)
  <2>1. PICK cs, ds, none : /\ cs = Scan(s) /\ ds = Components(s)
                            /\ none = Component(<<>>, "FILENAME", Len(s))
    OBVIOUS
  <2>2. q = Trim(s, ds, "MULTI")
    BY <1>3, <2>1 DEF Split
  <2>3. cs \in Seq(Comps) /\ Len(cs) \in Nat /\ Len(cs) > 0 /\ none \in Comps
    BY <1>3, <2>1, ComponentsAre DEF Form
  <2>4. cs[Len(cs)].type \in {"ROOT_DIR", "FILENAME"}
    <3>1. cs[Len(cs)] \in Comps
      BY <2>3
    <3> QED BY <3>1, CompType
  <2>5. \/ Len(ds) = 1 /\ ds[1].type = "ROOT_DIR"
        \/ Len(ds) # 1
    <3>1. CASE cs[Len(cs)].type = "ROOT_DIR"
      BY <1>3, <2>1, <3>1, ComponentsAre DEF Form
    <3>2. CASE cs[Len(cs)].type = "FILENAME"
      <4>1. ds = Append(cs, none)
        BY <1>3, <2>1, <3>2, ComponentsAre DEF Form
      <4> QED BY <2>3, <4>1
    <3> QED BY <2>4, <3>1, <3>2
  <2>6. q.type = "ROOT_DIR" \/ (q.type = "MULTI" /\ q.str = s)
    BY <2>2, <2>5 DEF Trim
  <2> QED BY <1>3, <2>6, EmptyIs DEF HasFilename, Filename
<1> QED BY <1>1, <1>2, <1>3 DEF Form

\* A list of one item.
LEMMA SingleIs ==
    ASSUME NEW C, NEW c \in C
    PROVE  <<c>> \in Seq(C) /\ Len(<<c>>) = 1 /\ <<c>>[1] = c
OBVIOUS

\* The first items of a list.
LEMMA PrefixIs ==
    ASSUME NEW C, NEW cs \in Seq(C), NEW k \in 0..Len(cs)
    PROVE  /\ SubSeq(cs, 1, k) \in Seq(C) /\ Len(SubSeq(cs, 1, k)) = k
           /\ \A i \in 1..k : SubSeq(cs, 1, k)[i] = cs[i]
<1>1. Len(cs) \in Nat /\ \A i \in 1..Len(cs) : cs[i] \in C
  BY LenProperties, ElementOfSeq
<1>2. k \in Int /\ 1 \in Int /\ (k - 1 + 1 = k) /\ \A i \in 1..k : 1 + i - 1 = i /\ cs[i] \in C
  BY <1>1
<1>3. PICK t : t = SubSeq(cs, 1, k)
  OBVIOUS
<1>4. /\ t \in Seq(C)
      /\ Len(t) = IF 1 <= k THEN k - 1 + 1 ELSE 0
      /\ \A i \in 1..k - 1 + 1 : t[i] = cs[1 + i - 1]
  BY <1>2, <1>3, SubSeqProperties
<1>5. Len(t) = k /\ \A i \in 1..k : t[i] = cs[i]
  BY <1>1, <1>2, <1>4
<1> QED BY <1>3, <1>4, <1>5

\* The components of the parent: those of the path without the last.
LEMMA ParentOf ==
    ASSUME NEW s \in Text, s # <<>>, Last(s) # Sep
    PROVE  LET cs == Scan(s)
               ds == SubSeq(cs, 1, Len(cs) - 1)
           IN  /\ ds \in Seq(Comps) /\ Proper(ds) /\ Len(ds) = Len(cs) - 1
               /\ \A i \in 1..Len(ds) : ds[i] = cs[i]
               /\ Packed(cs) => Packed(ds)
<1>1. PICK cs : cs = Scan(s)
  OBVIOUS
<1>2. cs \in Seq(Comps) /\ Len(cs) \in Nat /\ Len(cs) > 0 /\ Proper(cs)
  BY <1>1, ComponentsAre
<1>3. PICK ds : ds = SubSeq(cs, 1, Len(cs) - 1)
  OBVIOUS
<1>4. /\ ds \in Seq(Comps) /\ Len(ds) = Len(cs) - 1
      /\ \A i \in 1..Len(ds) : ds[i] = cs[i]
  <2>1. PICK k \in 0..Len(cs) : k = Len(cs) - 1
    BY <1>2
  <2> QED BY <1>2, <1>3, <2>1, PrefixIs
<1>5. Proper(ds)
  BY <1>2, <1>4 DEF Proper
<1>6. Packed(cs) => Packed(ds)
  <2> SUFFICES ASSUME Packed(cs), NEW i \in 1..Len(ds)
               PROVE  ds[i].pos = IF i = 1 THEN 0 ELSE After(ds[i - 1])
    BY DEF Packed
  <2>1. i \in 1..Len(cs) /\ (i # 1 => i - 1 \in 1..Len(ds))
    BY <1>2, <1>4
  <2> QED BY <1>4, <2>1 DEF Packed
<1> QED BY <1>1, <1>3, <1>4, <1>5, <1>6

\* A path that ends in a name has the name as its filename, and the parent
\* is a path of the climb with one component less.
LEMMA OneTurn ==
    ASSUME NEW q, NEW s, NEW elided \in BOOLEAN, Form(q, s, elided),
           s # <<>>, Last(s) # Sep
    PROVE  LET cs == Scan(s)
               n == Len(cs)
           IN  /\ HasFilename(q) /\ Filename(q).str = cs[n].text
               /\ ~RelativePathThrows(q)
               /\ \E u \in Text :
                     /\ Form(ParentPath(q, elided), u, elided)
                     /\ Alike(Scan(u), SubSeq(cs, 1, n - 1))
                     /\ n > 1 /\ cs[n - 1].type = "FILENAME" => Last(u) # Sep
<1>1. PICK cs, n, ds : cs = Scan(s) /\ n = Len(cs) /\ ds = SubSeq(cs, 1, n - 1)
  OBVIOUS
<1>2. /\ s \in Text /\ cs \in Seq(Comps) /\ n \in Nat /\ n > 0 /\ Proper(cs) /\ Lies(s, cs)
      /\ cs[n].type = "FILENAME" /\ IsName(cs[n].text) /\ Len(s) \in Nat
  BY <1>1, ComponentsAre, ScanShape, SplitName DEF Form, Text
<1>3. /\ ds \in Seq(Comps) /\ Proper(ds) /\ Len(ds) = n - 1
      /\ \A i \in 1..n - 1 : ds[i] = cs[i]
      /\ Packed(cs) => Packed(ds)
  BY <1>1, <1>2, ParentOf
<1>4. CASE n = 1 /\ q = [str |-> cs[1].text, cmpts |-> <<>>, type |-> "FILENAME"]
  <2>1. q.str = cs[n].text /\ q.cmpts = <<>> /\ q.type = "FILENAME" /\ q.str # <<>>
    BY <1>2, <1>4 DEF IsName
  <2>2. Filename(q) = q /\ HasFilename(q) /\ RelativePath(q) = q /\ HasRelativePath(q)
    BY <2>1 DEF Filename, HasFilename, RelativePath, HasRelativePath
  <2>3. ~RelativePathThrows(q)
    <3>1. DOMAIN q.cmpts = {} /\ FirstRelative(q) = 1
      BY <2>1 DEF FirstRelative
    <3> QED BY <3>1 DEF RelativePathThrows
  <2>4. ParentPath(q, elided) = Empty
    BY <2>1, <2>2 DEF ParentPath
  <2>5. Form(Empty, <<>>, elided)
    BY Characters, EmptyIs DEF Form, Empty, Packed
  <2>6. Alike(Scan(<<>>), ds)
    BY <1>3, <1>4, EmptyIs DEF Alike
  <2> QED BY <1>1, <1>4, <2>1, <2>2, <2>3, <2>4, <2>5, <2>6, Characters
<1>5. CASE q = [str |-> s, cmpts |-> cs, type |-> "MULTI"]
  <2>1. /\ q.str = s /\ q.cmpts = cs /\ q.type = "MULTI" /\ cs # <<>>
        /\ Last(cs) = cs[n] /\ cs[n].text # <<>>
    BY <1>1, <1>2, <1>5 DEF IsName, Last
  <2>2. HasFilename(q) /\ Filename(q).str = cs[n].text
    BY <1>2, <2>1 DEF Filename, HasFilename
  <2>3. PICK j : j = FirstRelative(q)
    OBVIOUS
  <2>4. j \in 1..n
    <3>1. j = IF cs[1].type = "ROOT_DIR" THEN 2 ELSE 1
      BY <2>1, <2>3 DEF FirstRelative
    <3>2. n = 1 => cs[1].type # "ROOT_DIR"
      BY <1>2
    <3> QED BY <1>2, <3>1, <3>2
  <2>5. cs[j].pos \in Nat /\ cs[j].pos < Len(s)
    <3>1. cs[j] \in Comps /\ cs[j].text # <<>> /\ End(cs[j]) <= Len(s)
      <4>1. cs[j].text = <<Sep>> \/ IsName(cs[j].text)
        BY <1>1, <1>2, <2>4 DEF Proper
      <4>2. cs[j].text # <<>>
        BY <4>1, NameIsNoSep
      <4> QED BY <1>1, <1>2, <2>4, <4>2 DEF Lies
    <3> QED BY <1>2, <3>1, CompType
  <2>6. DOMAIN cs = 1..n
    BY <1>1, <1>2
  <2>7. ~RelativePathThrows(q)
    BY <1>2, <2>1, <2>3, <2>4, <2>5, <2>6 DEF RelativePathThrows
  <2>8. HasRelativePath(q)
    <3>1. PICK v : v = SubSeq(s, cs[j].pos + 1, Len(s))
      OBVIOUS
    <3>2. v \in Text /\ v # <<>>
      <4>1. PICK a : a = cs[j].pos + 1 /\ a \in 1..Len(s)
        BY <1>2, <2>5
      <4>2. \A i \in a..Len(s) : s[i] \in Alphabet
        BY <1>2, <4>1 DEF Text
      <4>3. v \in Seq(Alphabet) /\ Len(v) = Len(s) - a + 1
        BY <1>2, <3>1, <4>1, <4>2, SubSeqProperties
      <4> QED BY <1>2, <4>1, <4>3 DEF Text
    <3>3. RelativePath(q) = Split(v)
      BY <2>1, <2>3, <2>4, <2>6, <3>1 DEF RelativePath
    <3> QED BY <3>2, <3>3, SplitType DEF HasRelativePath
  <2>9. ParentPath(q, elided) = Returned([str |-> Joined(ds), cmpts |-> ds, type |-> "MULTI"], elided)
    BY <1>1, <2>1, <2>8 DEF ParentPath
  <2>10. PICK u : u = Joined(ds)
    OBVIOUS
  <2>11. /\ u \in Text /\ Alike(Scan(u), ds) /\ Packed(Scan(u))
         /\ ds # <<>> /\ ds[Len(ds)].type = "FILENAME" => Last(u) # Sep
    BY <1>3, <2>10, Rejoined
  <2>12. Form(ParentPath(q, elided), u, elided)
    <3>1. CASE elided
      <4>1. Packed(ds)
        BY <1>1, <1>3, <3>1 DEF Form
      <4>2. Scan(u) = ds
        BY <1>3, <2>10, <4>1, PackedJoined
      <4>3. ParentPath(q, elided) = [str |-> u, cmpts |-> Scan(u), type |-> "MULTI"]
        BY <2>9, <2>10, <3>1, <4>2 DEF Returned
      <4> QED BY <2>11, <4>3 DEF Form
    <3>2. CASE ~elided
      BY <2>9, <2>10, <2>11, <3>2 DEF Form, Returned
    <3> QED BY <3>1, <3>2
  <2>13. n > 1 /\ cs[n - 1].type = "FILENAME" => Last(u) # Sep
    <3>1. n > 1 => ds # <<>> /\ ds[Len(ds)] = cs[n - 1]
      BY <1>2, <1>3
    <3> QED BY <2>11, <3>1
  <2> QED BY <1>1, <2>2, <2>7, <2>11, <2>12, <2>13
<1>6. \/ n = 1 /\ q = [str |-> cs[1].text, cmpts |-> <<>>, type |-> "FILENAME"]
      \/ q = [str |-> s, cmpts |-> cs, type |-> "MULTI"]
  BY <1>1, <1>2, SplitName DEF Form
<1> QED BY <1>4, <1>5, <1>6

\* The elements of a path that ends in a name, split once more or not.
LEMMA ElementsOf ==
    ASSUME NEW q, NEW s, NEW elided \in BOOLEAN, Form(q, s, elided),
           s # <<>>, Last(s) # Sep
    PROVE  Elements(Split(q.str)) = TextsOf(Scan(s)) /\ Elements(Split(s)) = TextsOf(Scan(s))
<1>1. PICK cs, n : cs = Scan(s) /\ n = Len(cs)
  OBVIOUS
<1>2. /\ s \in Text /\ cs \in Seq(Comps) /\ n \in Nat /\ n > 0 /\ IsName(cs[n].text)
  BY <1>1, ComponentsAre, SplitName DEF Form
<1>3. n = 1 => Split(s) = [str |-> cs[1].text, cmpts |-> <<>>, type |-> "FILENAME"]
  BY <1>1, <1>2, SplitName
<1>4. n # 1 => Split(s) = [str |-> s, cmpts |-> cs, type |-> "MULTI"]
  BY <1>1, <1>2, SplitName
<1>5. CASE n # 1
  <2>1. q.str = s
    BY <1>4, <1>5 DEF Form
  <2> QED BY <1>1, <1>4, <1>5, <2>1 DEF Elements
<1>6. CASE n = 1
  <2>1. PICK w : w = cs[1].text /\ IsName(w)
    BY <1>2, <1>6
  <2>2. TextsOf(cs) = <<w>>
    <3>1. DOMAIN cs = 1..1
      BY <1>1, <1>2, <1>6, LenProperties
    <3>2. TextsOf(cs) = [i \in 1..1 |-> cs[i].text]
      BY <3>1 DEF TextsOf
    <3>3. TextsOf(cs) = [i \in 1..1 |-> w]
      BY <2>1, <3>2
    <3> QED BY <3>3
  <2>3. Elements(Split(s)) = <<w>>
    BY <1>3, <1>6, <2>1, NameIsNoSep DEF Elements
  <2>4. CASE q.str = s
    BY <1>1, <2>2, <2>3, <2>4
  <2>5. CASE q.str = w
    <3>1. w \in Text /\ w # <<>> /\ Last(w) # Sep
      BY <2>1, NameIsNoSep
    <3>2. Scan(w) = <<Component(w, "FILENAME", 0)>>
      <4>1. PICK none : none = <<>> /\ none \in Text /\ Len(none) = 0
        BY Characters
      <4>2. none \o w = w
        BY <3>1, <4>1, ConcatEmptySeq DEF Text
      <4>3. Scan(none \o w) = Append(Scan(none), Component(w, "FILENAME", Len(none)))
        BY <2>1, <4>1, ScanName
      <4>4. Append(<<>>, Component(w, "FILENAME", 0)) = <<Component(w, "FILENAME", 0)>>
        OBVIOUS
      <4> QED BY <4>1, <4>2, <4>3, <4>4, EmptyIs
    <3>3. Len(Scan(w)) = 1 /\ Scan(w)[1].text = w
      BY <3>2 DEF Component
    <3>4. Split(w) = [str |-> w, cmpts |-> <<>>, type |-> "FILENAME"]
      BY <3>1, <3>3, SplitName
    <3>5. Elements(Split(w)) = <<w>>
      BY <3>1, <3>4 DEF Elements
    <3> QED BY <1>1, <2>2, <2>3, <2>5, <3>5
  <2> QED BY <1>1, <1>3, <1>6, <2>1, <2>2, <2>3, <2>4, <2>5 DEF Form
<1> QED BY <1>5, <1>6

-----------------------------------------------------------------------------
(* Where a list of elements leads.                                         *)

Goes(loc, es) ==
    /\ loc \in [0..Len(es) -> Seq(Text)] /\ loc[0] = <<>>
    /\ \A i \in 1..Len(es) : loc[i] = Enter(loc[i - 1], es[i])

\* Going through an element leads from locations to locations.
LEMMA EnterType ==
    ASSUME NEW loc \in Seq(Text), NEW e \in Text
    PROVE  /\ Enter(loc, e) \in Seq(Text)
           /\ loc # <<>> => Front(loc) \in Seq(Text)
           /\ Front(Append(loc, e)) = loc
<1>1. loc # <<>> => Front(loc) \in Seq(Text)
  <2> SUFFICES ASSUME loc # <<>> PROVE Front(loc) \in Seq(Text)
    OBVIOUS
  <2>1. PICK k \in 0..Len(loc) : k = Len(loc) - 1
    <3>1. Len(loc) \in Nat /\ Len(loc) # 0
      BY LenProperties, EmptySeq
    <3>2. Len(loc) - 1 \in 0..Len(loc)
      BY <3>1
    <3> QED BY <3>2
  <2> QED BY <2>1, PrefixIs DEF Front
<1>2. Append(loc, e) \in Seq(Text)
  BY AppendProperties
<1>3. <<>> \in Seq(Text)
  OBVIOUS
<1>4. Enter(loc, e) \in Seq(Text)
  BY <1>1, <1>2, <1>3 DEF Enter
<1>5. Front(Append(loc, e)) = loc
  <2>1. PICK t, k : t = Append(loc, e) /\ k = Len(loc)
    OBVIOUS
  <2>2. /\ t \in Seq(Text) /\ Len(t) = k + 1 /\ k \in Nat /\ \A i \in 1..k : t[i] = loc[i]
    BY <2>1, AppendProperties, LenProperties
  <2>3. Len(t) - 1 = k /\ k \in 0..Len(t)
    BY <2>2
  <2>4. Front(t) = SubSeq(t, 1, k)
    BY <2>3 DEF Front
  <2>5. PICK f : f = SubSeq(t, 1, k)
    OBVIOUS
  <2>6. f \in Seq(Text) /\ Len(f) = k /\ \A i \in 1..k : f[i] = t[i]
    BY <2>2, <2>3, <2>5, PrefixIs
  <2>7. f = loc
    BY <2>1, <2>2, <2>6, SeqEqual
  <2> QED BY <2>1, <2>4, <2>5, <2>7
<1> QED BY <1>1, <1>4, <1>5

\* What a path leads to is the last location it goes through.
LEMMA GoesSomewhere ==
    ASSUME NEW es \in Seq(Text)
    PROVE  \E loc : Goes(loc, es)
<1> DEFINE next == [i \in 1..Len(es) |-> [loc \in Seq(Text) |-> Enter(loc, es[i])]]
<1>1. PICK n, D, r, nx : n = Len(es) /\ D = Seq(Text) /\ r = <<>> /\ nx = next
  OBVIOUS
<1>2. n \in Nat /\ r \in D /\ \A i \in 1..n : es[i] \in Text
  BY <1>1
<1>3. Keeps(nx, n, D)
  BY <1>1, <1>2, EnterType DEF Keeps
<1> HIDE DEF next
<1>4. PICK at : Computes(at, n, D, r, nx)
  BY <1>2, <1>3, RecursionIn
<1>5. ASSUME NEW i \in 1..n PROVE at[i] = Enter(at[i - 1], es[i])
  <2>1. i - 1 \in 0..n
    BY <1>2
  <2>2. at[i - 1] \in Seq(Text)
    BY <1>1, <1>4, <2>1 DEF Computes
  <2> QED BY <1>1, <1>4, <2>2 DEF Computes, next
<1> QED BY <1>1, <1>4, <1>5 DEF Goes, Computes

\* The locations a path goes through are those of every path that begins like it.
LEMMA TrailOf ==
    ASSUME NEW es \in Seq(Text), NEW loc, Goes(loc, es), NEW k \in 0..Len(es),
           NEW t, Elements(Split(t)) = SubSeq(es, 1, k)
    PROVE  Place(t) = loc[k] /\ Needs(t) = {loc[i] : i \in 0..(k - 1)}
<1>1. PICK e : e = Elements(Split(t))
  OBVIOUS
<1>2. /\ e \in Seq(Text) /\ Len(e) = k /\ k \in Nat /\ \A i \in 1..k : e[i] = es[i]
      /\ Len(es) \in Nat /\ k <= Len(es)
  BY <1>1, PrefixIs, LenProperties
<1> DEFINE Is(f) == f = [i \in 0..Len(e) |-> IF i = 0 THEN <<>> ELSE Enter(f[i - 1], e[i])]
           f == CHOOSE f : Is(f)
           g == [i \in 0..k |-> loc[i]]
<1>3. Is(g)
  <2>1. ASSUME NEW i \in 0..k PROVE g[i] = IF i = 0 THEN <<>> ELSE Enter(g[i - 1], e[i])
    <3>1. CASE i = 0
      BY <3>1 DEF Goes
    <3>2. CASE i # 0
      <4>1. i \in 1..Len(es) /\ i \in 1..k /\ i - 1 \in 0..k
        BY <1>2, <3>2
      <4>2. loc[i] = Enter(loc[i - 1], es[i])
        BY <4>1 DEF Goes
      <4> QED BY <1>2, <3>2, <4>1, <4>2
    <3> QED BY <3>1, <3>2
  <2>2. g = [i \in 0..k |-> IF i = 0 THEN <<>> ELSE Enter(g[i - 1], e[i])]
    BY <2>1
  <2> QED BY <1>2, <2>2
<1>4. Is(f)
  BY <1>3
<1>5. Trail(t) = [i \in 1..(Len(e) + 1) |-> f[i - 1]]
  BY <1>1 DEF Trail
<1> HIDE DEF f, g
<1>6. f[0] = <<>> /\ \A i \in 1..k : f[i] = Enter(f[i - 1], es[i])
  BY <1>2, <1>4
<1> DEFINE T == {i \in Nat : i <= k => f[i] = loc[i]}
<1>7. 0 \in T
  BY <1>6 DEF Goes
<1>8. ASSUME NEW i \in Nat, i \in T PROVE i + 1 \in T
  <2> SUFFICES ASSUME i + 1 <= k PROVE f[i + 1] = loc[i + 1]
    OBVIOUS
  <2>1. i + 1 \in 1..k /\ i + 1 \in 1..Len(es) /\ i + 1 - 1 = i /\ f[i] = loc[i]
    BY <1>2, <1>8
  <2> QED BY <1>6, <2>1 DEF Goes
<1> HIDE DEF T
<1>9. \A i \in 0..k : f[i] = loc[i]
  <2>1. Nat \subseteq T
    BY <1>7, <1>8, Induction
  <2> QED BY <1>2, <2>1 DEF T
<1>10. PICK tr : tr = Trail(t)
  OBVIOUS
<1>11. tr = [i \in 1..(k + 1) |-> loc[i - 1]]
  <2>1. tr = [i \in 1..(k + 1) |-> f[i - 1]]
    BY <1>2, <1>5, <1>10
  <2>2. \A i \in 1..(k + 1) : f[i - 1] = loc[i - 1]
    BY <1>2, <1>9
  <2> QED BY <2>1, <2>2
<1>12. Len(tr) = k + 1 /\ \A i \in 1..(k + 1) : tr[i] = loc[i - 1]
  BY <1>2, <1>11
<1>13. tr[k + 1] = loc[k]
  <2>1. PICK h \in 1..(k + 1) : h - 1 = k /\ h = k + 1
    <3>1. k + 1 \in 1..(k + 1) /\ k + 1 - 1 = k
      BY <1>2
    <3> QED BY <3>1
  <2> QED BY <1>12, <2>1
<1>14. {tr[i] : i \in 1..(Len(tr) - 1)} = {loc[i] : i \in 0..(k - 1)}
  <2>1. ASSUME NEW i \in 1..(Len(tr) - 1) PROVE \E j \in 0..(k - 1) : tr[i] = loc[j]
    <3>1. i - 1 \in 0..(k - 1) /\ tr[i] = loc[i - 1]
      BY <1>2, <1>12
    <3> QED BY <3>1
  <2>2. ASSUME NEW j \in 0..(k - 1) PROVE \E i \in 1..(Len(tr) - 1) : tr[i] = loc[j]
    <3>1. PICK i \in 1..(Len(tr) - 1) : i - 1 = j /\ i \in 1..(k + 1)
      <4>1. j + 1 \in 1..(Len(tr) - 1) /\ j + 1 - 1 = j /\ j + 1 \in 1..(k + 1)
        BY <1>2, <1>12
      <4> QED BY <4>1
    <3> QED BY <1>12, <3>1
  <2>3. PICK n : n = Len(tr) - 1
    OBVIOUS
  <2>4. PICK I, J : I = 1..n /\ J = 0..(k - 1)
    OBVIOUS
  <2>5. /\ \A i \in I : \E j \in J : tr[i] = loc[j]
        /\ \A j \in J : \E i \in I : tr[i] = loc[j]
    BY <2>1, <2>2, <2>3, <2>4
  <2>6. {tr[i] : i \in I} = {loc[i] : i \in J}
    BY <2>5
  <2> QED BY <2>3, <2>4, <2>6
<1> QED BY <1>10, <1>12, <1>13, <1>14 DEF Place, Needs, Last

Reached(loc, k) == {<<>>} \cup {loc[j] : j \in 0..k}

\* Above every location that was gone through is one that was, or the root.
LEMMA ReachedAbove ==
    ASSUME NEW es \in Seq(Text), NEW loc, Goes(loc, es), NEW k \in 0..Len(es)
    PROVE  \A x \in Reached(loc, k) : x = <<>> \/ Front(x) \in Reached(loc, k)
<1>1. Len(es) \in Nat /\ k \in Nat /\ k <= Len(es)
  BY LenProperties
<1> DEFINE Closed(j) == \A x \in Reached(loc, j) : x = <<>> \/ Front(x) \in Reached(loc, j)
           T == {j \in Nat : j <= Len(es) => Closed(j)}
<1>2. 0 \in T
  BY DEF Goes, Reached
<1>3. ASSUME NEW j \in Nat, j \in T, j + 1 <= Len(es) PROVE Closed(j + 1)
  <2>1. Closed(j) /\ j \in 0..Len(es) /\ j + 1 \in 1..Len(es) /\ j + 1 - 1 = j
    BY <1>1, <1>3
  <2>2. Reached(loc, j + 1) = Reached(loc, j) \cup {loc[j + 1]}
    <3>1. 0..(j + 1) = (0..j) \cup {j + 1}
      OBVIOUS
    <3> QED BY <3>1 DEF Reached
  <2>3. PICK l, e : l = loc[j] /\ e = es[j + 1] /\ l \in Seq(Text) /\ e \in Text
    BY <2>1 DEF Goes
  <2>4. loc[j + 1] = Enter(l, e) /\ l \in Reached(loc, j) /\ <<>> \in Reached(loc, j)
    BY <2>1, <2>3 DEF Goes, Reached
  <2>5. \/ loc[j + 1] \in Reached(loc, j)
        \/ loc[j + 1] = Append(l, e)
    BY <2>1, <2>4 DEF Enter
  <2>6. Front(Append(l, e)) = l
    BY <2>3, EnterType
  <2> QED BY <2>1, <2>2, <2>4, <2>5, <2>6
<1>4. \A j \in Nat : j \in T => j + 1 \in T
  <2> HIDE DEF Closed
  <2> QED BY <1>3
<1> HIDE DEF T
<1>5. Nat \subseteq T
  BY <1>2, <1>4, Induction
<1> QED BY <1>1, <1>5 DEF T, Closed

\* One element more leads to one location more, and a dot name to none.
LEMMA ReachedOneMore ==
    ASSUME NEW es \in Seq(Text), NEW loc, Goes(loc, es), NEW k \in 1..Len(es)
    PROVE  /\ Reached(loc, k) = Reached(loc, k - 1) \cup {loc[k]}
           /\ es[k] \in {DotName, DotDot} => Reached(loc, k) = Reached(loc, k - 1)
           /\ k = 1 /\ es[k] = <<Sep>> => Reached(loc, k) = {<<>>}
<1>1. Len(es) \in Nat /\ k \in Nat /\ k - 1 \in 0..Len(es)
  BY LenProperties
<1>2. Reached(loc, k) = Reached(loc, k - 1) \cup {loc[k]}
  <2>1. 0..k = (0..(k - 1)) \cup {k}
    BY <1>1
  <2> QED BY <2>1 DEF Reached
<1>3. PICK l, e : l = loc[k - 1] /\ e = es[k]
  OBVIOUS
<1>4. loc[k] = Enter(l, e) /\ l \in Reached(loc, k - 1) /\ <<>> \in Reached(loc, k - 1)
  BY <1>1, <1>3 DEF Goes, Reached
<1>5. e \in {DotName, DotDot} => loc[k] \in Reached(loc, k - 1)
  <2>1. l = <<>> \/ Front(l) \in Reached(loc, k - 1)
    BY <1>1, <1>4, ReachedAbove
  <2>2. <<Sep>> # DotDot /\ <<>> # DotDot /\ DotDot # DotName
    BY DEF DotDot, DotName, Sep, Dot
  <2> QED BY <1>4, <2>1, <2>2 DEF Enter
<1>6. k = 1 /\ e = <<Sep>> => loc[k] = <<>> /\ Reached(loc, k - 1) = {<<>>}
  <2>1. <<Sep>> # DotName /\ <<Sep>> # <<>>
    BY DEF DotName, Sep, Dot
  <2>2. Reached(loc, 0) = {<<>>}
    BY DEF Reached, Goes
  <2> QED BY <1>4, <2>1, <2>2 DEF Enter
<1> QED BY <1>2, <1>3, <1>5, <1>6

-----------------------------------------------------------------------------
(* The climb.                                                              *)

\* One turn of the loop of Climb.
Turn(w, elided) ==
    IF w.outcome # "climbs" THEN w
    ELSE IF ~HasFilename(w.at) THEN [w EXCEPT !.outcome = "ends"]
    ELSE IF RelativePathThrows(w.at) THEN [w EXCEPT !.outcome = "throws"]
    ELSE [at |-> ParentPath(w.at, elided), outcome |-> "climbs",
          levels |-> Pushed(w.at, w.levels)]

\* What the loop has made: paths of a climb and levels.
Climbs(elided) ==
    {w \in [at : Objects, outcome : {"climbs", "ends", "throws"}, levels : Seq(Text)] :
        \E s \in Text : Form(w.at, s, elided)}

\* What is on the stack, when the climb is at a path whose elements lead
\* through the first k locations: nothing but the levels before and these.
StackFrom(levels, loc, k) ==
    \A x \in 1..Len(levels) :
        Needs(levels[x]) \subseteq Reached(loc, k) \cup {Place(levels[y]) : y \in 1..(x - 1)}

\* A turn of the climb keeps its type.
LEMMA TurnType ==
    ASSUME NEW elided \in BOOLEAN, NEW w \in Climbs(elided)
    PROVE  Turn(w, elided) \in Climbs(elided)
<1>1. PICK s \in Text : Form(w.at, s, elided)
  BY DEF Climbs
<1>2. CASE w.outcome # "climbs" \/ ~HasFilename(w.at)
  <2>1. Turn(w, elided) \in {w, [w EXCEPT !.outcome = "ends"]}
    BY <1>2 DEF Turn
  <2>2. [w EXCEPT !.outcome = "ends"] \in Climbs(elided)
    BY <1>1 DEF Climbs
  <2> QED BY <2>1, <2>2
<1>3. CASE w.outcome = "climbs" /\ HasFilename(w.at)
  <2>1. s # <<>> /\ Last(s) # Sep
    BY <1>1, <1>3, NoTurn
  <2>2. ~RelativePathThrows(w.at) /\ \E u \in Text : Form(ParentPath(w.at, elided), u, elided)
    BY <1>1, <2>1, OneTurn
  <2>3. PICK q, l : q = ParentPath(w.at, elided) /\ l = Pushed(w.at, w.levels)
    OBVIOUS
  <2>4. q \in Objects
    BY <2>2, <2>3, FormType
  <2>5. w.at.str \in Text /\ w.levels \in Seq(Text)
    BY DEF Climbs, Objects
  <2>6. <<w.at.str>> \o w.levels \in Seq(Text)
    <3>1. PICK a, b : a = <<w.at.str>> /\ b = w.levels /\ a \in Seq(Text) /\ b \in Seq(Text)
      BY <2>5, SingleIs
    <3> QED BY <3>1, ConcatProperties
  <2>7. l \in Seq(Text)
    BY <2>3, <2>5, <2>6 DEF Pushed
  <2>8. Turn(w, elided) = [at |-> q, outcome |-> "climbs", levels |-> l]
    BY <1>3, <2>2, <2>3 DEF Turn
  <2> QED BY <2>2, <2>3, <2>4, <2>7, <2>8 DEF Climbs
<1> QED BY <1>2, <1>3

Begin(t) == [at |-> Split(t), outcome |-> "climbs", levels |-> <<>>]

\* The recursion of Climb, as a function there is.
LEMMA ClimbIs ==
    ASSUME NEW t \in Text, NEW elided \in BOOLEAN, Form(Split(t), t, elided)
    PROVE  \E at \in [0..Len(t) + 1 -> Climbs(elided)] :
              /\ at[0] = Begin(t)
              /\ \A i \in 1..Len(t) + 1 : at[i] = Turn(at[i - 1], elided)
              /\ Climb(t, elided) = [levels |-> at[Len(t) + 1].levels,
                                     outcome |-> at[Len(t) + 1].outcome]
<1>1. PICK n : n = Len(t) + 1 /\ n \in Nat
  BY DEF Text
<1> DEFINE D == Climbs(elided)
           Is(at) == at = [i \in 0..n |-> IF i = 0 THEN Begin(t) ELSE Turn(at[i - 1], elided)]
           f == CHOOSE at : Is(at)
           next == [i \in 1..n |-> [w \in D |-> Turn(w, elided)]]
<1>2. Begin(t) \in D
  BY SplitType DEF Begin, Climbs
<1>3. Keeps(next, n, D)
  BY TurnType DEF Keeps
<1> HIDE DEF D
<1>4. PICK at : Computes(at, n, D, Begin(t), next)
  <2>1. PICK r, nx : r = Begin(t) /\ nx = next
    OBVIOUS
  <2> HIDE DEF next
  <2> QED BY <1>1, <1>2, <1>3, <2>1, RecursionIn
<1>5. at \in [0..n -> D] /\ at[0] = Begin(t)
  BY <1>4 DEF Computes
<1>6. ASSUME NEW i \in 1..n PROVE at[i] = Turn(at[i - 1], elided)
  <2>1. i - 1 \in 0..n
    BY <1>1
  <2>2. at[i - 1] \in D
    BY <1>5, <2>1
  <2> QED BY <1>4, <2>2 DEF Computes
<1>7. Is(at)
  BY <1>5, <1>6
<1>8. Is(f)
  BY <1>7
<1>9. Climb(t, elided) = [levels |-> f[n].levels, outcome |-> f[n].outcome]
  BY <1>1 DEF Climb, Turn, Begin
<1> HIDE DEF f
<1>10. f[0] = Begin(t) /\ \A i \in 1..n : f[i] = Turn(f[i - 1], elided)
  BY <1>1, <1>8
<1>11. f \in [0..n -> D]
  <2> DEFINE T == {i \in Nat : i <= n => f[i] \in D}
  <2>1. 0 \in T
    BY <1>2, <1>10
  <2>2. ASSUME NEW i \in Nat, i \in T PROVE i + 1 \in T
    <3> SUFFICES ASSUME i + 1 <= n PROVE f[i + 1] \in D
      OBVIOUS
    <3>1. i + 1 \in 1..n /\ i + 1 - 1 = i /\ f[i] \in D
      BY <1>1, <2>2
    <3>2. f[i + 1] = Turn(f[i], elided)
      BY <1>10, <3>1
    <3> QED BY <3>1, <3>2, TurnType DEF D
  <2> HIDE DEF T
  <2>3. Nat \subseteq T
    BY <2>1, <2>2, Induction
  <2>4. \A i \in 0..n : f[i] \in D
    BY <1>1, <2>3 DEF T
  <2> QED BY <1>8, <2>4
<1> QED BY <1>1, <1>9, <1>10, <1>11 DEF D

\* What the stack becomes when a path is put on it.
LEMMA Stacked ==
    ASSUME NEW es \in Seq(Text), NEW loc, Goes(loc, es), NEW k \in 1..Len(es),
           NEW levels \in Seq(Text), StackFrom(levels, loc, k),
           NEW t \in Text, Elements(Split(t)) = SubSeq(es, 1, k)
    PROVE  StackFrom(<<t>> \o levels, loc, k - 1)
<1>1. Len(es) \in Nat /\ k \in Nat /\ k \in 0..Len(es) /\ k - 1 \in 0..Len(es) /\ Len(levels) \in Nat
  BY LenProperties
<1>2. Place(t) = loc[k] /\ Needs(t) = {loc[i] : i \in 0..(k - 1)}
  BY <1>1, TrailOf
<1>3. PICK l : l = <<t>> \o levels
  OBVIOUS
<1>4. /\ Len(l) = Len(levels) + 1 /\ l[1] = t
      /\ \A x \in 2..Len(l) : x - 1 \in 1..Len(levels) /\ l[x] = levels[x - 1]
  <2>1. PICK a, b : a = <<t>> /\ b = levels /\ a \in Seq(Text) /\ b \in Seq(Text) /\ Len(a) = 1 /\ a[1] = t
    BY SingleIs
  <2>2. /\ Len(l) = 1 + Len(levels)
        /\ \A x \in 1..1 + Len(levels) : l[x] = IF x <= 1 THEN a[x] ELSE levels[x - 1]
    BY <1>3, <2>1, ConcatProperties
  <2> QED BY <1>1, <2>1, <2>2
<1>5. ASSUME NEW x \in 1..Len(l)
      PROVE  Needs(l[x]) \subseteq Reached(loc, k - 1) \cup {Place(l[y]) : y \in 1..(x - 1)}
  <2>1. CASE x = 1
    BY <1>2, <1>4, <2>1 DEF Reached
  <2>2. CASE x # 1
    <3>1. PICK z : z = x - 1 /\ z \in 1..Len(levels) /\ l[x] = levels[z] /\ x \in 2..Len(l)
      BY <1>1, <1>4, <2>2
    <3>2. Needs(levels[z]) \subseteq Reached(loc, k) \cup {Place(levels[y]) : y \in 1..(z - 1)}
      BY <3>1 DEF StackFrom
    <3>3. Reached(loc, k) = Reached(loc, k - 1) \cup {loc[k]}
      BY ReachedOneMore
    <3>4. loc[k] \in {Place(l[y]) : y \in 1..(x - 1)}
      BY <1>2, <1>4, <3>1
    <3>5. ASSUME NEW y \in 1..(z - 1) PROVE Place(levels[y]) \in {Place(l[v]) : v \in 1..(x - 1)}
      <4>1. PICK v : v = y + 1 /\ v \in 2..Len(l) /\ v - 1 = y /\ v \in 1..(x - 1)
        BY <1>1, <1>4, <3>1
      <4> QED BY <1>4, <4>1
    <3> QED BY <3>1, <3>2, <3>3, <3>4, <3>5
  <2> QED BY <2>1, <2>2
<1>6. StackFrom(l, loc, k - 1)
  BY <1>5 DEF StackFrom
<1> QED BY <1>3, <1>6

\* The top of a stack on which a path was put.
LEMMA LastStacked ==
    ASSUME NEW C, NEW c \in C, NEW l \in Seq(C)
    PROVE  /\ <<c>> \o l \in Seq(C) /\ <<c>> \o l # <<>>
           /\ l = <<>> => Last(<<c>> \o l) = c
           /\ l # <<>> => Last(<<c>> \o l) = Last(l)
<1>1. PICK a : a = <<c>> /\ a \in Seq(C) /\ Len(a) = 1 /\ a[1] = c
  BY SingleIs
<1>2. Len(l) \in Nat /\ (l = <<>> <=> Len(l) = 0)
  BY LenProperties, EmptySeq
<1>3. PICK b : b = a \o l
  OBVIOUS
<1>4. /\ b \in Seq(C) /\ Len(b) = 1 + Len(l)
      /\ \A x \in 1..1 + Len(l) : b[x] = IF x <= 1 THEN a[x] ELSE l[x - 1]
  BY <1>1, <1>3, ConcatProperties
<1>5. b # <<>>
  BY <1>2, <1>4, EmptySeq
<1>6. b[Len(b)] = IF Len(l) = 0 THEN c ELSE l[Len(l)]
  <2>1. PICK m : m = Len(l) /\ m \in Nat
    BY <1>2
  <2>2. m + 1 \in 1..1 + m /\ m + 1 - 1 = m /\ (m + 1 <= 1 <=> m = 0) /\ Len(b) = m + 1
    BY <1>4, <2>1
  <2>3. b[m + 1] = IF m + 1 <= 1 THEN a[m + 1] ELSE l[m + 1 - 1]
    BY <1>4, <2>1, <2>2
  <2> QED BY <1>1, <2>1, <2>2, <2>3
<1> QED BY <1>1, <1>2, <1>3, <1>4, <1>5, <1>6 DEF Last

\* A stack that rests on the root alone is a chain.
LEMMA RestsOnRoot ==
    ASSUME NEW levels \in Seq(Text), NEW loc, NEW k, StackFrom(levels, loc, k),
           Reached(loc, k) = {<<>>}
    PROVE  IsChain(levels)
<1>1. DOMAIN levels = 1..Len(levels)
  BY LenProperties
<1> QED BY <1>1 DEF StackFrom, IsChain

\* A text that is itself put on the stack: it ends in a name that is no dot name.
Pushes(t) == /\ t # <<>> /\ Last(t) # Sep
             /\ Scan(t)[Len(Scan(t))].text \notin {DotName, DotDot}

\* The last level is the path itself, once it is on the stack.
Lasts(t, w) == Pushes(t) => w.levels # <<>> /\ Last(w.levels) = Split(t).str

\* After i turns the climb has ended, or i components are gone.
Climbed(t, elided, loc, i, w) ==
    LET cs == Scan(t)
        k == Len(cs) - i
    IN  \/ w.outcome = "ends" /\ IsChain(w.levels) /\ Lasts(t, w)
        \/ /\ w.outcome = "climbs" /\ i <= Len(cs) /\ StackFrom(w.levels, loc, k)
           /\ \E s \in Text :
                 /\ Form(w.at, s, elided) /\ Alike(Scan(s), SubSeq(cs, 1, k))
                 /\ i = 0 => s = t /\ w = Begin(t)
                 /\ i > 0 => /\ k > 0 /\ cs[k].type = "FILENAME" => Last(s) # Sep
                             /\ Lasts(t, w)

\* One turn of the climb: the invariant of its loop.
LEMMA ClimbStep ==
    ASSUME NEW t \in Text, NEW elided \in BOOLEAN, NEW loc, Goes(loc, TextsOf(Scan(t))),
           NEW i \in Nat, NEW w \in Climbs(elided), Climbed(t, elided, loc, i, w)
    PROVE  Climbed(t, elided, loc, i + 1, Turn(w, elided))
<1>1. PICK cs, es, n, k : cs = Scan(t) /\ es = TextsOf(cs) /\ n = Len(cs) /\ k = n - i
  OBVIOUS
<1>2. /\ cs \in Seq(Comps) /\ Proper(cs) /\ n \in Nat /\ DOMAIN cs = 1..n
  BY <1>1, ScanShape, ScanType, LenProperties
<1>3. es \in Seq(Text) /\ Len(es) = n /\ \A j \in 1..n : es[j] = cs[j].text
  <2>1. es = [j \in 1..n |-> cs[j].text]
    BY <1>1, <1>2 DEF TextsOf
  <2>2. \A j \in 1..n : cs[j].text \in Text
    BY <1>1, <1>2, CompType
  <2> QED BY <1>2, <2>1, <2>2
<1>4. Goes(loc, es)
  BY <1>1
<1>5. w.at \in Objects /\ w.at.str \in Text /\ w.levels \in Seq(Text)
  BY DEF Climbs, Objects
<1>6. CASE w.outcome # "climbs"
  BY <1>6 DEF Turn, Climbed
<1>7. CASE w.outcome = "climbs"
  <2>1. PICK s \in Text :
            /\ Form(w.at, s, elided) /\ Alike(Scan(s), SubSeq(cs, 1, k))
            /\ i = 0 => s = t /\ w = Begin(t)
            /\ i > 0 => /\ k > 0 /\ cs[k].type = "FILENAME" => Last(s) # Sep
                        /\ Lasts(t, w)
    BY <1>1, <1>7 DEF Climbed
  <2>2. i <= n /\ StackFrom(w.levels, loc, k)
    BY <1>1, <1>7 DEF Climbed
  <2>3. k \in 0..n /\ (k > 0 => k \in 1..n /\ k - 1 \in 0..n)
    BY <1>1, <1>2, <2>2
  <2>4. PICK ks : ks = Scan(s) /\ ks \in Seq(Comps)
    BY ScanType
  <2>5. Len(ks) = k /\ \A j \in 1..k : ks[j].text = cs[j].text /\ ks[j].type = cs[j].type
    <3>1. Len(SubSeq(cs, 1, k)) = k /\ \A j \in 1..k : SubSeq(cs, 1, k)[j] = cs[j]
      BY <1>1, <1>2, <2>3, PrefixIs
    <3> QED BY <2>1, <2>4, <3>1 DEF Alike
  <2>6. CASE s = <<>> \/ Last(s) = Sep
    <3>1. Turn(w, elided) = [w EXCEPT !.outcome = "ends"]
      BY <1>7, <2>1, <2>6, NoTurn DEF Turn
    <3>2. Turn(w, elided).outcome = "ends" /\ Turn(w, elided).levels = w.levels
      BY <3>1 DEF Climbs
    <3>3. CASE i = 0
      <4>1. w.levels = <<>> /\ ~Pushes(t)
        BY <2>1, <2>6, <3>3 DEF Begin, Pushes
      <4>2. IsChain(<<>>)
        BY DEF IsChain
      <4> QED BY <3>2, <4>1, <4>2 DEF Climbed, Lasts
    <3>4. CASE i > 0
      <4>1. Reached(loc, k) = {<<>>}
        <5>1. CASE k = 0
          BY <1>4, <5>1 DEF Reached, Goes
        <5>2. CASE k > 0
          <6>1. s # <<>>
            BY <2>4, <2>5, <5>2, EmptyIs
          <6>2. cs[k].type # "FILENAME"
            BY <2>1, <2>6, <3>4, <5>2, <6>1
          <6>3. cs[k].type = "ROOT_DIR"
            <7>1. cs[k] \in Comps
              BY <1>1, <1>2, <2>3, <5>2
            <7> QED BY <6>2, <7>1, CompType
          <6>4. k = 1 /\ es[k] = <<Sep>>
            BY <1>1, <1>2, <1>3, <2>3, <5>2, <6>3 DEF Proper
          <6> QED BY <1>3, <1>4, <2>3, <6>4, ReachedOneMore
        <5> QED BY <2>3, <5>1, <5>2
      <4>2. IsChain(w.levels)
        BY <1>5, <2>2, <4>1, RestsOnRoot
      <4> QED BY <2>1, <3>2, <3>4, <4>2 DEF Climbed, Lasts
    <3> QED BY <3>3, <3>4
  <2>7. CASE s # <<>> /\ Last(s) # Sep
    <3>1. PICK q, l : q = ParentPath(w.at, elided) /\ l = Pushed(w.at, w.levels)
      OBVIOUS
    <3>2. k > 0
      BY <2>3, <2>4, <2>5, <2>7, ComponentsAre
    <3>3. PICK m : m = k - 1 /\ m \in 0..n /\ k \in 1..n /\ n - (i + 1) = m /\ i + 1 <= n
      BY <1>1, <1>2, <2>3, <3>2
    <3>4. /\ HasFilename(w.at) /\ Filename(w.at).str = ks[k].text /\ ~RelativePathThrows(w.at)
          /\ \E u \in Text :
                /\ Form(q, u, elided) /\ Alike(Scan(u), SubSeq(ks, 1, m))
                /\ k > 1 /\ ks[m].type = "FILENAME" => Last(u) # Sep
      BY <2>1, <2>4, <2>5, <2>7, <3>1, <3>3, OneTurn
    <3>5. PICK u \in Text :
                /\ Form(q, u, elided) /\ Alike(Scan(u), SubSeq(ks, 1, m))
                /\ k > 1 /\ ks[m].type = "FILENAME" => Last(u) # Sep
      BY <3>4
    <3>6. Alike(Scan(u), SubSeq(cs, 1, m)) /\ (m > 0 /\ cs[m].type = "FILENAME" => Last(u) # Sep)
      <4>1. m \in 0..Len(ks) /\ m \in 0..Len(cs) /\ (m > 0 => m \in 1..k /\ k > 1) /\ 1..m \subseteq 1..k
        BY <1>1, <1>2, <2>5, <3>3
      <4>2. /\ Len(SubSeq(ks, 1, m)) = m /\ \A j \in 1..m : SubSeq(ks, 1, m)[j] = ks[j]
        BY <2>4, <4>1, PrefixIs
      <4>3. /\ Len(SubSeq(cs, 1, m)) = m /\ \A j \in 1..m : SubSeq(cs, 1, m)[j] = cs[j]
        BY <1>2, <4>1, PrefixIs
      <4>4. Len(Scan(u)) = m
        BY <3>5, <4>2 DEF Alike
      <4>5. ASSUME NEW j \in 1..m
            PROVE  /\ Scan(u)[j].text = SubSeq(cs, 1, m)[j].text
                   /\ Scan(u)[j].type = SubSeq(cs, 1, m)[j].type
        <5>1. /\ Scan(u)[j].text = SubSeq(ks, 1, m)[j].text
              /\ Scan(u)[j].type = SubSeq(ks, 1, m)[j].type
          BY <3>5, <4>4 DEF Alike
        <5> QED BY <2>5, <4>1, <4>2, <4>3, <5>1
      <4> QED BY <2>5, <3>5, <4>1, <4>3, <4>4, <4>5 DEF Alike
    <3>7. Elements(Split(w.at.str)) = SubSeq(es, 1, k)
      <4>1. Elements(Split(w.at.str)) = TextsOf(ks)
        BY <2>1, <2>4, <2>7, ElementsOf
      <4>2. TextsOf(ks) = [j \in 1..k |-> ks[j].text]
        BY <2>4, <2>5, LenProperties DEF TextsOf
      <4>3. PICK a : a = SubSeq(es, 1, k)
        OBVIOUS
      <4>4. a \in Seq(Text) /\ Len(a) = k /\ \A j \in 1..k : a[j] = es[j]
        BY <1>3, <2>3, <4>3, PrefixIs
      <4>5. a = [j \in 1..k |-> a[j]]
        BY <4>4, LenProperties
      <4>6. \A j \in 1..k : a[j] = ks[j].text
        BY <1>3, <2>5, <3>3, <4>4
      <4> QED BY <4>1, <4>2, <4>3, <4>5, <4>6
    <3>8. Turn(w, elided) = [at |-> q, outcome |-> "climbs", levels |-> l]
      BY <1>7, <3>1, <3>4 DEF Turn
    <3>9. ks[k].text = es[k]
      BY <1>3, <2>5, <3>3
    <3>10. StackFrom(l, loc, m) /\ Lasts(t, [at |-> q, outcome |-> "climbs", levels |-> l])
      <4>1. CASE es[k] \in {DotName, DotDot}
        <5>1. l = w.levels
          BY <3>1, <3>4, <3>9, <4>1 DEF Pushed
        <5>2. Reached(loc, k) = Reached(loc, m)
          BY <1>3, <1>4, <3>3, <4>1, ReachedOneMore
        <5>3. StackFrom(l, loc, m)
          BY <2>2, <5>1, <5>2 DEF StackFrom
        <5>4. i = 0 => ~Pushes(t)
          BY <1>1, <1>2, <1>3, <3>3, <4>1 DEF Pushes
        <5> QED BY <2>1, <5>1, <5>3, <5>4 DEF Lasts
      <4>2. CASE es[k] \notin {DotName, DotDot}
        <5>1. l = <<w.at.str>> \o w.levels
          BY <3>1, <3>4, <3>9, <4>2 DEF Pushed
        <5>2. StackFrom(l, loc, m)
          BY <1>3, <1>4, <1>5, <2>2, <3>3, <3>7, <5>1, Stacked
        <5>3. l # <<>> /\ (w.levels = <<>> => Last(l) = w.at.str) /\ (w.levels # <<>> => Last(l) = Last(w.levels))
          BY <1>5, <5>1, LastStacked
        <5>4. i = 0 => w.levels = <<>> /\ w.at.str = Split(t).str
          BY <2>1 DEF Begin
        <5> QED BY <2>1, <5>2, <5>3, <5>4 DEF Lasts
      <4> QED BY <4>1, <4>2
    <3>11. PICK v : v = Turn(w, elided) /\ v.outcome = "climbs" /\ v.at = q /\ v.levels = l
      BY <3>8
    <3>12. Lasts(t, v)
      BY <3>8, <3>10, <3>11
    <3>13. i + 1 > 0 /\ i + 1 # 0
      OBVIOUS
    <3> QED BY <1>1, <3>3, <3>5, <3>6, <3>10, <3>11, <3>12, <3>13 DEF Climbed
  <2> QED BY <2>6, <2>7
<1> QED BY <1>6, <1>7

\* The loop of create_directories ends, for a text of any length, if
\* parent_path returns an object that was split again or no separator of the
\* text is redundant: each level needs but the root and levels before it, and
\* the last one is where the text leads.
THEOREM ClimbsEnd ==
    ASSUME NEW t \in Text, NEW elided \in BOOLEAN, ~elided \/ Tight(t)
    PROVE  LET w == Climb(t, elided)
           IN  /\ w.outcome = "ends" /\ IsChain(w.levels)
               /\ Pushes(t) => Place(Last(w.levels)) = Place(t)
<1>1. Form(Split(t), t, elided)
  BY TightPacked DEF Form
<1>2. PICK at \in [0..Len(t) + 1 -> Climbs(elided)] :
              /\ at[0] = Begin(t)
              /\ \A i \in 1..Len(t) + 1 : at[i] = Turn(at[i - 1], elided)
              /\ Climb(t, elided) = [levels |-> at[Len(t) + 1].levels,
                                     outcome |-> at[Len(t) + 1].outcome]
  BY <1>1, ClimbIs
<1>3. PICK n : n = Len(t) + 1 /\ n \in Nat /\ Len(t) \in Nat
  BY DEF Text
<1>4. PICK cs, m : cs = Scan(t) /\ m = Len(cs) /\ cs \in Seq(Comps) /\ m \in Nat /\ m < n
  <2>1. Scan(t) \in Seq(Comps) /\ Len(Scan(t)) <= Len(t)
    BY ScanShape, ScanType
  <2>2. Len(Scan(t)) \in Nat
    BY <2>1, LenProperties
  <2> QED BY <1>3, <2>1, <2>2
<1>5. TextsOf(cs) \in Seq(Text)
  <2>1. TextsOf(cs) = [j \in 1..m |-> cs[j].text]
    BY <1>4, LenProperties DEF TextsOf
  <2>2. \A j \in 1..m : cs[j].text \in Text
    BY <1>4, CompType
  <2> QED BY <1>4, <2>1, <2>2
<1>6. PICK loc : Goes(loc, TextsOf(cs))
  BY <1>5, GoesSomewhere
<1> DEFINE T == {i \in Nat : i <= n => Climbed(t, elided, loc, i, at[i])}
<1>7. 0 \in T
  <2>1. Begin(t).outcome = "climbs" /\ Begin(t).levels = <<>> /\ Begin(t).at = Split(t)
    BY DEF Begin
  <2>2. StackFrom(<<>>, loc, m)
    BY DEF StackFrom
  <2>3. PICK k : k = Len(cs) - 0 /\ k = m /\ k \in 0..Len(cs)
    BY <1>4
  <2>4. Alike(Scan(t), SubSeq(cs, 1, k))
    <3>1. Len(SubSeq(cs, 1, k)) = k /\ \A j \in 1..k : SubSeq(cs, 1, k)[j] = cs[j]
      BY <1>4, <2>3, PrefixIs
    <3> QED BY <1>4, <2>3, <3>1 DEF Alike
  <2>5. Climbed(t, elided, loc, 0, Begin(t))
    <3>1. 0 <= Len(Scan(t)) /\ ~(0 > 0)
      BY <1>4
    <3> QED BY <1>1, <1>4, <2>1, <2>2, <2>3, <2>4, <3>1 DEF Climbed
  <2> QED BY <1>2, <2>5
<1>8. ASSUME NEW i \in Nat, i \in T PROVE i + 1 \in T
  <2> SUFFICES ASSUME i + 1 <= n PROVE Climbed(t, elided, loc, i + 1, at[i + 1])
    OBVIOUS
  <2>1. i + 1 \in 1..n /\ i + 1 - 1 = i /\ i \in 0..n /\ Climbed(t, elided, loc, i, at[i])
    BY <1>3, <1>8
  <2>2. at[i] \in Climbs(elided) /\ at[i + 1] = Turn(at[i], elided)
    BY <1>2, <1>3, <2>1
  <2> QED BY <1>4, <1>6, <2>1, <2>2, ClimbStep
<1> HIDE DEF T
<1>9. Climbed(t, elided, loc, n, at[n])
  <2>1. Nat \subseteq T
    BY <1>7, <1>8, Induction
  <2> QED BY <1>3, <2>1 DEF T
<1>10. at[n].outcome = "ends" /\ IsChain(at[n].levels) /\ Lasts(t, at[n])
  <2>1. ~(n <= Len(Scan(t)))
    BY <1>3, <1>4
  <2> QED BY <1>9, <2>1 DEF Climbed
<1>11. Pushes(t) => Place(Last(at[n].levels)) = Place(t)
  <2> SUFFICES ASSUME Pushes(t) PROVE Place(Split(t).str) = Place(t)
    BY <1>10 DEF Lasts
  <2>1. Elements(Split(Split(t).str)) = Elements(Split(t))
    BY <1>1, ElementsOf DEF Pushes
  <2> QED BY <2>1 DEF Place, Trail
<1> QED BY <1>2, <1>3, <1>10, <1>11

-----------------------------------------------------------------------------
(* The object after any calls.                                             *)

\* A set of numbers up to a bound has a greatest element.
LEMMA NatMax ==
    ASSUME NEW T \in SUBSET Nat, T # {}, NEW n \in Nat, \A k \in T : k <= n
    PROVE  \E m \in T : \A k \in T : k <= m
<1> DEFINE U == {n - k : k \in T}
<1>1. U \in SUBSET Nat /\ U # {}
  <2>1. \A k \in T : n - k \in Nat
    OBVIOUS
  <2> QED BY <2>1
<1>2. PICK u \in U : \A v \in U : u <= v
  BY <1>1, NatMin
<1>3. PICK m \in T : u = n - m
  OBVIOUS
<1>4. ASSUME NEW k \in T PROVE k <= m
  <2>1. n - k \in U /\ u <= n - k
    BY <1>2
  <2> QED BY <1>3, <2>1
<1> QED BY <1>4

\* What an object is.
LEMMA ObjectIs ==
    ASSUME NEW q \in Objects
    PROVE  /\ q.str \in Text /\ Len(q.str) \in Nat
           /\ q.cmpts \in Seq(Comps) /\ Len(q.cmpts) \in Nat
           /\ DOMAIN q.cmpts = 1..Len(q.cmpts) /\ (q.cmpts = <<>> <=> Len(q.cmpts) = 0)
           /\ q.type \in {"MULTI", "ROOT_DIR", "FILENAME"}
           /\ q.type = "FILENAME" => q.str # <<Sep>>
           /\ \A i \in 1..Len(q.cmpts) :
                 /\ Named(q.cmpts[i]) /\ q.cmpts[i] \in Comps
                 /\ q.cmpts[i].pos \in Nat /\ q.cmpts[i].text \in Text
                 /\ q.cmpts[i].type \in {"ROOT_DIR", "FILENAME"}
<1>1. PICK cs : cs = q.cmpts /\ cs \in Seq(Comps)
  BY DEF Objects
<1>2. /\ Len(cs) \in Nat /\ DOMAIN cs = 1..Len(cs) /\ (cs = <<>> <=> Len(cs) = 0)
      /\ \A i \in 1..Len(cs) : cs[i] \in Comps
  BY <1>1, LenProperties, EmptySeq, ElementOfSeq
<1>3. \A i \in 1..Len(cs) : /\ Named(cs[i]) /\ cs[i].pos \in Nat /\ cs[i].text \in Text
                            /\ cs[i].type \in {"ROOT_DIR", "FILENAME"}
  BY <1>1, <1>2, CompType DEF Objects
<1>4. /\ q.str \in Text /\ Len(q.str) \in Nat
      /\ q.type \in {"MULTI", "ROOT_DIR", "FILENAME"}
      /\ q.type = "FILENAME" => q.str # <<Sep>>
  BY LenProperties DEF Objects, Text
<1> QED BY <1>1, <1>2, <1>3, <1>4

\* A part of a text.
LEMMA PartType ==
    ASSUME NEW s \in Text, NEW a \in Nat, NEW b \in Int, b <= Len(s), a >= 1
    PROVE  SubSeq(s, a, b) \in Text
<1>1. Len(s) \in Nat /\ \A i \in a..b : s[i] \in Alphabet
  BY DEF Text
<1> QED BY <1>1, SubSeqProperties DEF Text

\* operator/= leaves an object.
LEMMA AppendPathType ==
    ASSUME NEW q \in Objects, NEW r \in Objects
    PROVE  /\ AppendPath(q, r) = r \/ \E x \in Text : AppendPath(q, r) = Split(x)
           /\ AppendPath(q, r) \in Objects
<1>1. PICK sep : sep = (IF HasFilename(q) THEN <<Sep>> ELSE <<>>) /\ sep \in Text
  BY Characters
<1>2. PICK a, b : a = q.str /\ b = r.str /\ a \in Text /\ b \in Text
  BY ObjectIs
<1>3. a \o sep \o b \in Text
  BY <1>1, <1>2, ConcatProperties DEF Text
<1>4. AppendPath(q, r) = r \/ AppendPath(q, r) = Split(a \o sep \o b)
  BY <1>1, <1>2 DEF AppendPath
<1> QED BY <1>3, <1>4, SplitType

\* operator+= leaves an object.
LEMMA ConcatType ==
    ASSUME NEW q \in Objects, NEW t \in Text
    PROVE  Concat(q, t) \in Objects
<1>1. q.str \o t \in Text
  BY ObjectIs, ConcatProperties DEF Text
<1> QED BY <1>1, SplitType DEF Concat

\* relative_path leaves the object, or one that was just made.
LEMMA RelativePathType ==
    ASSUME NEW q \in Objects, ~RelativePathThrows(q)
    PROVE  /\ RelativePath(q) \in {q, Empty} \/ \E x \in Text : RelativePath(q) = Split(x)
           /\ RelativePath(q) \in Objects
<1>1. PICK j : j = FirstRelative(q) /\ j \in {1, 2}
  BY DEF FirstRelative
<1>2. CASE j \in DOMAIN q.cmpts
  <2>1. q.cmpts[j].pos \in Nat /\ q.cmpts[j].pos <= Len(q.str) /\ Len(q.str) \in Nat
    BY <1>1, <1>2, ObjectIs DEF RelativePathThrows
  <2>2. PICK a : a = q.cmpts[j].pos + 1 /\ a \in Nat /\ a >= 1
    BY <2>1
  <2>3. SubSeq(q.str, a, Len(q.str)) \in Text
    BY <2>1, <2>2, ObjectIs, PartType
  <2>4. RelativePath(q) \in {q, Split(SubSeq(q.str, a, Len(q.str)))}
    BY <1>1, <1>2, <2>2 DEF RelativePath
  <2> QED BY <2>3, <2>4, SplitType
<1>3. CASE j \notin DOMAIN q.cmpts
  <2>1. RelativePath(q) \in {q, Empty}
    BY <1>1, <1>3 DEF RelativePath
  <2> QED BY <2>1, EmptyIs
<1> QED BY <1>2, <1>3

\* parent_path leaves an object.
LEMMA ParentPathType ==
    ASSUME NEW q \in Objects, NEW elided \in BOOLEAN
    PROVE  ParentPath(q, elided) \in Objects
<1>1. PICK d \in {1, 2} : d = IF Last(q.cmpts).text = <<>> THEN 2 ELSE 1
  OBVIOUS
<1>2. PICK cs, m : cs = SubSeq(q.cmpts, 1, m) /\ m = Len(q.cmpts) - d
  OBVIOUS
<1>3. cs \in Seq(Comps) /\ \A i \in 1..Len(cs) : Named(cs[i])
  <2>1. m \in Int /\ m <= Len(q.cmpts) /\ \A i \in 1..m : q.cmpts[i] \in Comps /\ Named(q.cmpts[i])
    BY <1>2, ObjectIs
  <2>2. /\ cs \in Seq(Comps) /\ Len(cs) = IF 1 <= m THEN m - 1 + 1 ELSE 0
        /\ \A i \in 1..m - 1 + 1 : cs[i] = q.cmpts[1 + i - 1]
    BY <1>2, <2>1, SubSeqProperties
  <2>3. m - 1 + 1 = m /\ \A i \in 1..m : 1 + i - 1 = i
    BY <2>1
  <2>4. \A i \in 1..Len(cs) : i \in 1..m /\ cs[i] = q.cmpts[i]
    BY <2>1, <2>2, <2>3
  <2> QED BY <2>1, <2>2, <2>4
<1>4. PICK r : r = [str |-> Joined(cs), cmpts |-> cs, type |-> "MULTI"]
  OBVIOUS
<1>5. r \in Objects
  <2>1. Joined(cs) \in Text
    <3>1. Len(cs) \in 0..Len(cs)
      BY <1>3, LenProperties
    <3> QED BY <1>3, <3>1, JoinedIs
  <2> QED BY <1>3, <1>4, <2>1 DEF Objects
<1>6. Returned(r, elided) \in Objects
  BY <1>5, ObjectIs, SplitType DEF Returned
<1>7. ParentPath(q, elided) \in {q, Empty, Returned(r, elided)}
  BY <1>1, <1>2, <1>4 DEF ParentPath
<1> QED BY <1>6, <1>7, EmptyIs

\* Either branch of remove_filename leaves an object.
LEMMA RemoveAfterType ==
    ASSUME NEW q \in Objects, RemovesComponent(q), NEW before,
           q.cmpts[Len(q.cmpts)].pos <= Len(q.str)
    PROVE  RemoveAfter(q, before) \in Objects
<1>1. PICK cs, n, s : cs = q.cmpts /\ n = Len(cs) /\ s = q.str
  OBVIOUS
<1>2. /\ cs \in Seq(Comps) /\ s \in Text /\ n \in Nat /\ n > 0 /\ n \in 1..n /\ q.type = "MULTI"
      /\ \A i \in 1..n : cs[i] \in Comps /\ Named(cs[i])
  BY <1>1, ObjectIs DEF RemovesComponent
<1>3. PICK text : text = SubSeq(s, 1, cs[n].pos) /\ text \in Text
  <2>1. PICK b : b = cs[n].pos /\ b \in Nat /\ b <= Len(s)
    BY <1>1, <1>2, CompType
  <2>2. SubSeq(s, 1, b) \in Text
    BY <1>2, <2>1, PartType
  <2> QED BY <2>1, <2>2
<1>4. Trim(text, Front(cs), "MULTI") \in Objects
  <2>1. PICK k \in 0..Len(cs) : k = Len(cs) - 1
    <3>1. n - 1 \in 0..n
      BY <1>2
    <3> QED BY <1>1, <3>1
  <2>2. PICK fs : fs = Front(cs) /\ fs = SubSeq(cs, 1, k)
    BY <2>1 DEF Front
  <2>3. fs \in Seq(Comps) /\ Len(fs) = k /\ \A i \in 1..k : fs[i] = cs[i] /\ i \in 1..n
    BY <1>1, <1>2, <2>1, <2>2, PrefixIs
  <2>4. Trim(text, fs, "MULTI") \in Objects
    BY <1>2, <1>3, <2>3, TrimType
  <2> QED BY <2>2, <2>4
<1>5. [q EXCEPT !.str = text, !.cmpts[n].text = <<>>] \in Objects
  <2>1. PICK d : d = [cs[n] EXCEPT !.text = <<>>]
    OBVIOUS
  <2>2. d \in Comps /\ d.text = <<>>
    BY <1>2, <2>1, Characters DEF Comps
  <2>3. PICK ds : ds = [cs EXCEPT ![n] = d]
    OBVIOUS
  <2>4. ds \in Seq(Comps) /\ Len(ds) = n /\ \A i \in 1..n : ds[i] = IF i = n THEN d ELSE cs[i]
    <3>1. ds \in [1..n -> Comps] /\ \A i \in 1..n : ds[i] = IF i = n THEN d ELSE cs[i]
      BY <1>1, <1>2, <2>2, <2>3, LenProperties
    <3> QED BY <1>2, <3>1
  <2>5. \A i \in 1..Len(ds) : Named(ds[i])
    <3>1. Named(d)
      BY <2>2 DEF Named
    <3> QED BY <1>2, <2>4, <3>1
  <2>6. [q EXCEPT !.str = text, !.cmpts[n].text = <<>>] = [q EXCEPT !.str = text, !.cmpts = ds]
    BY <1>1, <2>1, <2>3 DEF Objects
  <2>7. [q EXCEPT !.str = text, !.cmpts = ds] \in Objects
    BY <1>2, <1>3, <2>4, <2>5 DEF Objects
  <2> QED BY <2>6, <2>7
<1>6. RemoveAfter(q, before) = Trim(text, Front(cs), "MULTI")
      \/ RemoveAfter(q, before) = [q EXCEPT !.str = text, !.cmpts[n].text = <<>>]
  BY <1>1, <1>3 DEF RemoveAfter
<1> QED BY <1>4, <1>5, <1>6

\* remove_filename leaves an object, whichever branch it takes.
LEMMA RemovedType ==
    ASSUME NEW q \in Objects, ~RemoveThrows(q)
    PROVE  Removed(q) \subseteq Objects
<1>1. CASE RemovesComponent(q)
  <2>1. PICK m : m = q.cmpts[Len(q.cmpts)].pos /\ m = Last(q.cmpts).pos
    BY DEF Last
  <2>2. Len(q.cmpts) \in 1..Len(q.cmpts)
    BY <1>1, ObjectIs DEF RemovesComponent
  <2>3. m \in Nat /\ Len(q.str) \in Nat /\ ~(m > Len(q.str))
    BY <1>1, <2>1, <2>2, ObjectIs DEF RemoveThrows
  <2>4. ASSUME NEW before PROVE RemoveAfter(q, before) \in Objects
    <3>1. q.cmpts[Len(q.cmpts)].pos <= Len(q.str)
      BY <2>1, <2>3
    <3> QED BY <1>1, <3>1, RemoveAfterType
  <2> QED BY <1>1, <2>4 DEF Removed, RemoveFilename
<1>2. CASE ~RemovesComponent(q)
  BY <1>2, EmptyIs DEF Removed, RemoveFilename, RemoveIsUndefined
<1> QED BY <1>1, <1>2

\* The dot that is found is one of the name.
LEMMA FindExtensionType ==
    ASSUME NEW q \in Objects
    PROVE  /\ ExtensionName(q) \in Text /\ FindExtension(q) \in Nat
           /\ FindExtension(q) # 0 /\ q.type # "FILENAME" => q.cmpts # <<>>
<1>1. PICK s : s = ExtensionName(q)
  OBVIOUS
<1>2. s \in Text /\ (q.type # "FILENAME" /\ q.cmpts = <<>> => s = <<>>)
  <2>1. q.cmpts # <<>> => Last(q.cmpts).text \in Text
    <3>1. q.cmpts # <<>> => Len(q.cmpts) \in 1..Len(q.cmpts)
      BY ObjectIs
    <3> QED BY <3>1, ObjectIs DEF Last
  <2> QED BY <1>1, <2>1, ObjectIs, Characters DEF ExtensionName
<1>3. PICK dots : dots = {i \in DOMAIN s : s[i] = Dot}
  OBVIOUS
<1>4. Len(s) \in Nat /\ DOMAIN s = 1..Len(s) /\ (s = <<>> => dots = {})
  BY <1>2, <1>3, LenProperties DEF Text
<1>5. dots # {} => (CHOOSE i \in dots : \A j \in dots : j <= i) \in dots
  <2>1. dots \in SUBSET Nat /\ \A j \in dots : j <= Len(s)
    BY <1>3, <1>4
  <2>2. dots # {} => \E i \in dots : \A j \in dots : j <= i
    BY <1>4, <2>1, NatMax
  <2> QED BY <2>2
<1>6. \/ FindExtension(q) = 0
      \/ dots # {} /\ FindExtension(q) = (CHOOSE i \in dots : \A j \in dots : j <= i)
  BY <1>1, <1>3 DEF FindExtension
<1>7. FindExtension(q) = 0 \/ (dots # {} /\ FindExtension(q) \in dots)
  BY <1>5, <1>6
<1>8. FindExtension(q) \in Nat
  BY <1>3, <1>4, <1>7
<1> QED BY <1>1, <1>2, <1>4, <1>7, <1>8

\* replace_extension leaves the object of a text.
LEMMA ReplaceExtensionType ==
    ASSUME NEW q \in Objects, NEW r \in Objects, ~ReplaceThrows(q)
    PROVE  /\ \E x \in Text : ReplaceExtension(q, r) = Split(x)
           /\ ReplaceExtension(q, r) \in Objects
<1>1. PICK bare : bare = IF FindExtension(q) = 0 THEN q.str ELSE SubSeq(q.str, 1, ExtensionAt(q))
  OBVIOUS
<1>2. bare \in Text
  <2>1. CASE FindExtension(q) = 0
    BY <1>1, <2>1, ObjectIs
  <2>2. CASE FindExtension(q) # 0
    <3>1. PICK a : a = (IF q.type = "FILENAME" THEN 0 ELSE Last(q.cmpts).pos)
      OBVIOUS
    <3>2. a \in Nat
      <4>1. q.type # "FILENAME" => Len(q.cmpts) \in 1..Len(q.cmpts)
        BY <2>2, FindExtensionType, ObjectIs
      <4> QED BY <3>1, <4>1, ObjectIs DEF Last
    <3>3. PICK b : b = ExtensionAt(q) /\ b \in Int
      BY <3>1, <3>2, FindExtensionType DEF ExtensionAt
    <3>4. b <= Len(q.str)
      BY <2>2, <3>3, ObjectIs DEF ReplaceThrows
    <3> QED BY <1>1, <2>2, <3>3, <3>4, ObjectIs, PartType
  <2> QED BY <2>1, <2>2
<1>3. PICK dotted : /\ dotted = (IF r.str # <<>> /\ r.str[1] # Dot THEN bare \o DotName ELSE bare)
                    /\ dotted \in Text
  BY <1>2, Characters, ConcatProperties DEF Text
<1>4. dotted \o r.str \in Text
  BY <1>3, ObjectIs, ConcatProperties DEF Text
<1>5. ReplaceExtension(q, r) = Split(dotted \o r.str)
  BY <1>1, <1>3 DEF ReplaceExtension
<1> QED BY <1>4, <1>5, SplitType

\* What lexically_normal keeps of its result, which it edits in place: the
\* components are in order, none but the last is empty, and the last one is if
\* no name ends the text; those that are not empty begin in the text.
Ordered ==
    {q \in Objects :
        /\ \A i \in 1..Len(q.cmpts) : q.cmpts[i].text # <<>> => q.cmpts[i].pos <= Len(q.str)
        /\ \A i \in 1..Len(q.cmpts) : i < Len(q.cmpts) => q.cmpts[i].text # <<>>
        /\ \A i, j \in 1..Len(q.cmpts) : i < j => q.cmpts[i].pos <= q.cmpts[j].pos
        /\ \A i \in 1..Len(q.cmpts) : i > 1 => q.cmpts[i].type = "FILENAME"
        /\ Len(q.cmpts) = 1 => q.cmpts[1].type = "ROOT_DIR"
        /\ Len(q.cmpts) > 0 => q.type = "MULTI"
        /\ Len(q.cmpts) > 1 /\ (q.str = <<>> \/ Last(q.str) = Sep) =>
              q.cmpts[Len(q.cmpts)].text = <<>>}

\* The positions of what a text is split into are in order.
LEMMA SplitOrdered ==
    ASSUME NEW s \in Text
    PROVE  Split(s) \in Ordered
<1>0. Split(s) \in Objects
  BY SplitType
<1>1. ASSUME Split(s).cmpts = <<>> PROVE Split(s) \in Ordered
  <2>1. Len(Split(s).cmpts) = 0
    BY <1>1
  <2> QED BY <1>0, <2>1 DEF Ordered
<1>2. CASE s = <<>>
  BY <1>1, <1>2 DEF Split
<1>3. CASE s # <<>>
  <2>1. PICK cs, ds, n, none : /\ cs = Scan(s) /\ ds = Components(s) /\ n = Len(cs)
                               /\ none = Component(<<>>, "FILENAME", Len(s))
    OBVIOUS
  <2>2. cs \in Seq(Comps) /\ n \in Nat /\ n > 0 /\ Proper(cs) /\ none \in Comps /\ Lies(s, cs)
    BY <1>3, <2>1, ComponentsAre, ScanShape
  <2>3. Split(s) = Trim(s, ds, "MULTI")
    BY <1>3, <2>1 DEF Split
  <2>4. CASE Len(ds) = 1
    BY <1>1, <2>3, <2>4 DEF Trim
  <2>5. CASE Len(ds) # 1
    <3>1. Split(s).str = s /\ Split(s).cmpts = ds /\ Split(s).type = "MULTI"
      BY <2>3, <2>5 DEF Trim
    <3>2. ASSUME NEW i \in 1..n
          PROVE  /\ cs[i].text # <<>> /\ cs[i].pos \in Nat /\ cs[i].pos <= Len(s)
                 /\ i > 1 => cs[i].type = "FILENAME"
                 /\ \A j \in 1..n : i < j => cs[i].pos <= cs[j].pos
      <4>1. cs[i] \in Comps /\ cs[i].text # <<>>
        <5>1. cs[i].text = <<Sep>> \/ IsName(cs[i].text)
          BY <2>1, <2>2 DEF Proper
        <5>2. cs[i].text # <<>>
          BY <5>1, NameIsNoSep
        <5>3. cs[i] \in Comps
          BY <2>1, <2>2
        <5> QED BY <5>2, <5>3
      <4>2. cs[i].pos \in Nat /\ End(cs[i]) \in Nat /\ cs[i].pos <= End(cs[i]) /\ End(cs[i]) <= Len(s)
        BY <2>1, <2>2, <4>1, CompType DEF Lies
      <4>3. ASSUME NEW j \in 1..n, i < j PROVE cs[i].pos <= cs[j].pos
        <5>1. cs[j].pos \in Nat /\ End(cs[i]) <= cs[j].pos
          BY <2>1, <2>2, <4>3, CompType DEF Lies
        <5> QED BY <4>2, <5>1
      <4>4. i > 1 => cs[i].type = "FILENAME"
        <5>1. cs[i].type \in {"ROOT_DIR", "FILENAME"}
          BY <4>1, CompType
        <5> QED BY <2>1, <2>2, <5>1 DEF Proper
      <4> QED BY <4>1, <4>2, <4>3, <4>4, LenProperties DEF Text
    <3>3. CASE ds = cs
      <4>1. Last(s) # Sep
        <5>1. ASSUME Last(s) = Sep PROVE FALSE
          <6>1. n # 1 /\ n \in 1..n
            BY <2>1, <2>2, <2>5, <3>3
          <6>2. cs[n].type = "FILENAME" /\ ds = Append(cs, none)
            BY <1>3, <2>1, <2>2, <3>2, <5>1, <6>1, ComponentsAre
          <6>3. Len(Append(cs, none)) = n + 1
            BY <2>1, <2>2, AppendProperties
          <6> QED BY <2>1, <2>2, <3>3, <6>2, <6>3
        <5> QED BY <5>1
      <4> QED BY <1>0, <1>3, <2>1, <2>2, <2>5, <3>1, <3>2, <3>3, <4>1 DEF Ordered
    <3>4. CASE ds = Append(cs, none)
      <4>1. /\ Len(ds) = n + 1 /\ ds[n + 1] = none /\ \A i \in 1..n : ds[i] = cs[i]
        BY <2>1, <2>2, <3>4, AppendProperties
      <4>2. none.text = <<>> /\ none.pos = Len(s) /\ Len(s) \in Nat /\ none.type = "FILENAME"
        BY <2>1 DEF Component, Text
      <4>3. ASSUME NEW i \in 1..Len(ds)
            PROVE  /\ ds[i].text # <<>> => ds[i].pos <= Len(s)
                   /\ i < Len(ds) => ds[i].text # <<>>
                   /\ i > 1 => ds[i].type = "FILENAME"
                   /\ \A j \in 1..Len(ds) : i < j => ds[i].pos <= ds[j].pos
        <5>1. CASE i = n + 1
          BY <2>2, <4>1, <4>2, <5>1
        <5>2. CASE i \in 1..n
          <6>1. ASSUME NEW j \in 1..Len(ds), i < j PROVE ds[i].pos <= ds[j].pos
            <7>1. j \in 1..n \/ j = n + 1
              BY <2>2, <4>1
            <7> QED BY <3>2, <4>1, <4>2, <5>2, <6>1, <7>1
          <6> QED BY <3>2, <4>1, <5>2, <6>1
        <5> QED BY <2>2, <4>1, <5>1, <5>2
      <4> QED BY <1>0, <2>2, <2>5, <3>1, <4>1, <4>2, <4>3 DEF Ordered
    <3> QED
      <4>1. cs[n].type \in {"ROOT_DIR", "FILENAME"}
        <5>1. cs[n] \in Comps
          BY <2>1, <2>2
        <5> QED BY <5>1, CompType
      <4> QED BY <1>3, <2>1, <3>3, <3>4, <4>1, ComponentsAre
  <2> QED BY <2>4, <2>5
<1> QED BY <1>2, <1>3

\* operator/= leaves positions in order.
LEMMA AppendPathOrdered ==
    ASSUME NEW q \in Objects, NEW t \in Text
    PROVE  AppendPath(q, Split(t)) \in Ordered /\ AppendPath(q, Empty) \in Ordered
<1>1. Split(t) \in Objects /\ Split(t) \in Ordered
  BY SplitType, SplitOrdered
<1>2. AppendPath(q, Split(t)) \in Ordered
  BY <1>1, AppendPathType, SplitOrdered
<1>3. Empty \in Ordered
  <2>1. Len(Empty.cmpts) = 0
    BY EmptyIs
  <2> QED BY <2>1, EmptyIs DEF Ordered
<1>4. AppendPath(q, Empty) \in Ordered
  BY <1>3, EmptyIs, AppendPathType, SplitOrdered
<1> QED BY <1>2, <1>4

\* So does remove_filename.
LEMMA RemoveAfterOrdered ==
    ASSUME NEW q \in Ordered, RemovesComponent(q),
           NEW before, before = q.cmpts[Len(q.cmpts) - 1].type
    PROVE  RemoveAfter(q, before) \in Ordered
<1>1. PICK cs, n, s : cs = q.cmpts /\ n = Len(cs) /\ s = q.str
  OBVIOUS
<1>2. /\ q \in Objects /\ cs \in Seq(Comps) /\ s \in Text /\ n \in Nat /\ n > 0 /\ n \in 1..n
      /\ \A i \in 1..n : cs[i].pos \in Nat
      /\ \A i \in 1..n : cs[i].text # <<>> => cs[i].pos <= Len(s)
      /\ \A i \in 1..n : i < n => cs[i].text # <<>>
      /\ \A i, j \in 1..n : i < j => cs[i].pos <= cs[j].pos
      /\ \A i \in 1..n : i > 1 => cs[i].type = "FILENAME"
      /\ n = 1 => cs[1].type = "ROOT_DIR"
      /\ q.type = "MULTI"
  <2>1. q \in Objects
    BY DEF Ordered
  <2>2. /\ cs \in Seq(Comps) /\ s \in Text /\ n \in Nat /\ (cs = <<>> <=> n = 0)
        /\ \A i \in 1..n : cs[i].pos \in Nat
    BY <1>1, <2>1, ObjectIs
  <2>3. n > 0 /\ n \in 1..n
    BY <1>1, <2>2 DEF RemovesComponent
  <2> QED BY <1>1, <2>1, <2>2, <2>3 DEF Ordered
<1>3. cs[n].type = "FILENAME" /\ cs[n].text # <<>> /\ n # 1
  BY <1>1, <1>2 DEF RemovesComponent, Last
<1>4. PICK b : b = cs[n].pos /\ b \in Nat /\ b <= Len(s)
  BY <1>2, <1>3
<1>5. PICK text : text = SubSeq(s, 1, b) /\ text \in Text /\ Len(text) = b
  <2>1. b \in 0..Len(s) /\ s \in Seq(Alphabet)
    BY <1>2, <1>4, LenProperties DEF Text
  <2> QED BY <2>1, PrefixIs DEF Text
<1>6. PICK r : r = RemoveAfter(q, before) /\ r \in Objects
  BY <1>1, <1>2, <1>4, RemoveAfterType
<1>7. CASE r = Trim(text, Front(cs), "MULTI") /\ before = "ROOT_DIR"
  <2>1. PICK k \in 0..Len(cs) : k = n - 1
    <3>1. n - 1 \in 0..n
      BY <1>2
    <3> QED BY <1>1, <3>1
  <2>2. PICK fs : fs = Front(cs) /\ fs = SubSeq(cs, 1, k)
    BY <1>1, <2>1 DEF Front
  <2>3. fs \in Seq(Comps) /\ Len(fs) = k /\ \A i \in 1..k : fs[i] = cs[i] /\ i \in 1..n /\ i < n
    BY <1>1, <1>2, <2>1, <2>2, PrefixIs
  <2>4. k = 1
    <3>1. k \in 1..n /\ k \in Nat
      BY <1>2, <1>3, <2>1
    <3>2. cs[k].type = "ROOT_DIR"
      BY <1>1, <1>7, <2>1
    <3>3. ~(k > 1)
      BY <1>2, <3>1, <3>2
    <3> QED BY <3>1, <3>3
  <2>5. r.cmpts = <<>> /\ Len(r.cmpts) = 0
    BY <1>7, <2>2, <2>3, <2>4 DEF Trim
  <2> QED BY <1>6, <2>5 DEF Ordered
<1>8. CASE r = [q EXCEPT !.str = text, !.cmpts[n].text = <<>>]
  <2>1. PICK d : d = [cs[n] EXCEPT !.text = <<>>] /\ d.text = <<>> /\ d.pos = b /\ d \in Comps
    <3>1. PICK c \in Comps : c = cs[n]
      BY <1>1, <1>2
    <3>2. [c EXCEPT !.text = <<>>] \in Comps /\ [c EXCEPT !.text = <<>>].text = <<>>
          /\ [c EXCEPT !.text = <<>>].pos = c.pos
      BY Characters DEF Comps
    <3> QED BY <1>4, <3>1, <3>2
  <2>2. PICK ds : ds = [cs EXCEPT ![n] = d]
    OBVIOUS
  <2>3. ds \in Seq(Comps) /\ Len(ds) = n /\ \A i \in 1..n : ds[i] = IF i = n THEN d ELSE cs[i]
    <3>1. ds \in [1..n -> Comps] /\ \A i \in 1..n : ds[i] = IF i = n THEN d ELSE cs[i]
      BY <1>1, <1>2, <2>1, <2>2, LenProperties
    <3> QED BY <1>2, <3>1
  <2>4. r = [q EXCEPT !.str = text, !.cmpts = ds]
    BY <1>1, <1>2, <1>8, <2>1, <2>2 DEF Objects
  <2>5. r.str = text /\ r.cmpts = ds
    BY <1>2, <2>4 DEF Objects
  <2>6. ASSUME NEW i \in 1..n
        PROVE  /\ ds[i].text # <<>> => ds[i].pos <= b
               /\ i < n => ds[i].text # <<>>
               /\ i > 1 => ds[i].type = "FILENAME"
               /\ \A j \in 1..n : i < j => ds[i].pos <= ds[j].pos
    <3>1. ds[i].pos = cs[i].pos /\ ds[i].type = cs[i].type
      <4>1. i = n => d.type = cs[i].type
        BY <1>1, <1>2, <2>1 DEF Comps
      <4> QED BY <1>4, <2>1, <2>3, <4>1
    <3>2. i < n => ds[i] = cs[i] /\ cs[i].text # <<>> /\ cs[i].pos <= b
      BY <1>2, <1>4, <2>3
    <3>3. i = n => ds[i].text = <<>>
      BY <2>1, <2>3
    <3>4. \A j \in 1..n : ds[j].pos = cs[j].pos
      BY <1>4, <2>1, <2>3
    <3>5. i < n \/ i = n
      BY <1>2
    <3> QED BY <1>2, <3>1, <3>2, <3>3, <3>4, <3>5
  <2>7. ds[n].text = <<>> /\ r.type = "MULTI"
    BY <1>2, <2>1, <2>3, <2>4 DEF Objects
  <2>8. /\ \A i \in 1..n : ds[i].text # <<>> => ds[i].pos <= Len(text)
        /\ \A i \in 1..n : i < n => ds[i].text # <<>>
        /\ \A i \in 1..n : i > 1 => ds[i].type = "FILENAME"
        /\ \A i, j \in 1..n : i < j => ds[i].pos <= ds[j].pos
    BY <1>5, <2>6
  <2> QED BY <1>3, <1>6, <2>3, <2>5, <2>7, <2>8 DEF Ordered
<1>9. (RemoveAfter(q, before) = Trim(text, Front(cs), "MULTI") /\ before = "ROOT_DIR")
      \/ RemoveAfter(q, before) = [q EXCEPT !.str = text, !.cmpts[n].text = <<>>]
  BY <1>1, <1>4, <1>5 DEF RemoveAfter
<1> QED BY <1>6, <1>7, <1>8, <1>9

\* What lexically_normal knows when it drops a name: there is one, before a
\* trailing separator.
LEMMA DropsName ==
    ASSUME NEW q \in Ordered, ~HasFilename(q), HasRelativePath(q)
    PROVE  /\ Len(q.cmpts) \in Nat /\ Len(q.cmpts) > 1 /\ q.type = "MULTI"
           /\ q.cmpts[Len(q.cmpts)].text = <<>>
<1>1. PICK cs, n, s : cs = q.cmpts /\ n = Len(cs) /\ s = q.str
  OBVIOUS
<1>2. /\ q \in Objects /\ cs \in Seq(Comps) /\ s \in Text /\ n \in Nat
      /\ \A i \in 1..n : i > 1 => cs[i].type = "FILENAME"
      /\ n = 1 => cs[1].type = "ROOT_DIR"
      /\ n > 0 => q.type = "MULTI"
      /\ n > 1 /\ (s = <<>> \/ Last(s) = Sep) => cs[n].text = <<>>
  BY <1>1, ObjectIs DEF Ordered
<1>3. q.type # "FILENAME"
  BY DEF HasFilename, HasRelativePath, Filename, RelativePath
<1>4. n > 1
  <2>1. FirstRelative(q) \in DOMAIN cs
    BY <1>1, <1>3, EmptyIs DEF HasRelativePath, RelativePath
  <2>2. DOMAIN cs = 1..n /\ (n > 0 => cs # <<>>)
    BY <1>1, <1>2, LenProperties
  <2>3. n = 1 => FirstRelative(q) = 2
    BY <1>1, <1>2, <2>2 DEF FirstRelative
  <2> QED BY <1>2, <2>1, <2>2, <2>3
<1>5. cs[n].text = <<>> /\ q.type = "MULTI"
  <2>1. q.type = "MULTI" /\ n \in 1..n /\ cs[n].type = "FILENAME" /\ Last(cs) = cs[n]
    BY <1>1, <1>2, <1>4 DEF Last
  <2>2. CASE s # <<>> /\ Last(s) # Sep
    BY <1>1, <2>1, <2>2 DEF Filename, HasFilename
  <2>3. CASE s = <<>> \/ Last(s) = Sep
    BY <1>2, <1>4, <2>1, <2>3
  <2> QED BY <2>2, <2>3
<1> QED BY <1>1, <1>2, <1>4, <1>5

\* So does the edit that lexically_normal makes in place.
LEMMA DropDirectoryOrdered ==
    ASSUME NEW q \in Ordered, ~HasFilename(q), HasRelativePath(q)
    PROVE  DropDirectory(q) \in Ordered
<1>1. PICK cs, n, s : cs = q.cmpts /\ n = Len(cs) /\ s = q.str
  OBVIOUS
<1>2. /\ q \in Objects /\ cs \in Seq(Comps) /\ s \in Text /\ n \in Nat
      /\ \A i \in 1..n : cs[i] \in Comps /\ cs[i].pos \in Nat /\ Named(cs[i])
                         /\ cs[i].type \in {"ROOT_DIR", "FILENAME"}
      /\ \A i \in 1..n : cs[i].text # <<>> => cs[i].pos <= Len(s)
      /\ \A i \in 1..n : i < n => cs[i].text # <<>>
      /\ \A i, j \in 1..n : i < j => cs[i].pos <= cs[j].pos
      /\ \A i \in 1..n : i > 1 => cs[i].type = "FILENAME"
      /\ n = 1 => cs[1].type = "ROOT_DIR"
      /\ n > 0 => q.type = "MULTI"
      /\ n > 1 /\ (s = <<>> \/ Last(s) = Sep) => cs[n].text = <<>>
  BY <1>1, ObjectIs DEF Ordered
<1>3. n > 1 /\ q.type = "MULTI" /\ cs[n].text = <<>>
  BY <1>1, DropsName
<1>5. CASE n = 2
  BY <1>1, <1>5, Characters, SplitOrdered DEF DropDirectory
<1>6. CASE n # 2
  <2>1. PICK k, m : k = n - 2 /\ k \in 1..n /\ m = n - 1 /\ m \in 1..n /\ k < m /\ m < n /\ n \in 1..n
    BY <1>2, <1>3, <1>6
  <2>2. PICK b : b = cs[m].pos /\ b \in Nat /\ b <= Len(s)
    BY <1>2, <2>1
  <2>3. PICK text : text = SubSeq(s, 1, b) /\ text \in Text /\ Len(text) = b
    <3>1. b \in 0..Len(s) /\ s \in Seq(Alphabet)
      BY <1>2, <2>2, LenProperties DEF Text
    <3> QED BY <3>1, PrefixIs DEF Text
  <2>4. PICK ps : ps = SubSeq(cs, 1, k)
    OBVIOUS
  <2>5. ps \in Seq(Comps) /\ Len(ps) = k /\ \A i \in 1..k : ps[i] = cs[i] /\ i \in 1..n /\ i < m /\ i < n
    BY <1>1, <1>2, <2>1, <2>4, PrefixIs
  <2>6. PICK ds : ds = IF cs[k].type = "FILENAME" THEN ps \o <<cs[n]>> ELSE ps
    OBVIOUS
  <2>7. PICK h \in {k, k + 1} :
            /\ ds \in Seq(Comps) /\ Len(ds) = h /\ (\A i \in 1..k : ds[i] = cs[i])
            /\ h # k => ds[h] = cs[n]
            /\ h = k => cs[k].type = "ROOT_DIR"
    <3>1. CASE cs[k].type = "FILENAME"
      <4>1. ps \o <<cs[n]>> = Append(ps, cs[n])
        BY <1>2, <2>1, <2>5, AppendIsConcat
      <4>2. /\ ds \in Seq(Comps) /\ Len(ds) = k + 1 /\ ds[k + 1] = cs[n]
            /\ \A i \in 1..k : ds[i] = ps[i]
        BY <1>2, <2>1, <2>5, <2>6, <3>1, <4>1, AppendProperties
      <4> QED BY <2>1, <2>5, <4>2
    <3>2. CASE cs[k].type # "FILENAME"
      BY <1>2, <2>1, <2>5, <2>6, <3>2
    <3> QED BY <3>1, <3>2
  <2>8. PICK r : r = DropDirectory(q)
    OBVIOUS
  <2>9. r = [q EXCEPT !.str = text, !.cmpts = ds]
    BY <1>1, <1>6, <2>1, <2>2, <2>3, <2>4, <2>6, <2>8 DEF DropDirectory
  <2>10. r.str = text /\ r.cmpts = ds
    BY <1>2, <2>9 DEF Objects
  <2>11. r \in Objects
    <3>1. ASSUME NEW i \in 1..Len(ds) PROVE Named(ds[i])
      <4>1. (i \in 1..k /\ i \in 1..n) \/ (i = h /\ h # k)
        BY <1>2, <2>1, <2>7
      <4>2. ds[i] = cs[i] \/ ds[i] = cs[n]
        BY <2>7, <4>1
      <4>3. Named(cs[n]) /\ (i \in 1..n => Named(cs[i]))
        BY <1>2, <2>1
      <4> QED BY <2>7, <4>1, <4>2, <4>3
    <3> QED BY <1>2, <1>3, <2>3, <2>7, <2>9, <3>1 DEF Objects
  <2>12. ASSUME NEW i \in 1..h
         PROVE  /\ ds[i].text # <<>> => ds[i].pos <= b
                /\ i < h => ds[i].text # <<>>
                /\ i > 1 => ds[i].type = "FILENAME"
                /\ \A j \in 1..h : i < j => ds[i].pos <= ds[j].pos
    <3>1. CASE i \in 1..k
      <4>1. ds[i] = cs[i] /\ i \in 1..n /\ i < m /\ i < n /\ cs[i].text # <<>> /\ cs[i].pos <= b
        BY <1>2, <2>1, <2>2, <2>5, <2>7, <3>1
      <4>2. ASSUME NEW j \in 1..h, i < j PROVE ds[i].pos <= ds[j].pos
        <5>1. (j \in 1..k /\ ds[j] = cs[j] /\ j \in 1..n) \/ ds[j] = cs[n]
          BY <2>1, <2>5, <2>7
        <5>2. CASE ds[j] = cs[n]
          <6>1. cs[i].pos <= cs[n].pos
            BY <1>2, <2>1, <4>1
          <6> QED BY <4>1, <5>2, <6>1
        <5>3. CASE j \in 1..k /\ ds[j] = cs[j] /\ j \in 1..n
          BY <1>2, <4>1, <4>2, <5>3
        <5> QED BY <5>1, <5>2, <5>3
      <4>3. i > 1 => ds[i].type = "FILENAME"
        BY <1>2, <4>1
      <4> QED BY <4>1, <4>2, <4>3
    <3>2. CASE i = k + 1
      BY <1>2, <1>3, <2>1, <2>7, <3>2
    <3> QED BY <2>1, <2>7, <3>1, <3>2
  <2>13. r.type = "MULTI"
    BY <1>2, <1>3, <2>9 DEF Objects
  <2>14. h = 1 => ds[1].type = "ROOT_DIR"
    <3>1. h = 1 => h = k /\ k = 1 /\ 1 \in 1..k
      BY <2>1, <2>7
    <3> QED BY <2>7, <3>1
  <2>15. h > 1 => ds[h].text = <<>>
    <3>1. h = k /\ h > 1 => cs[k].type = "FILENAME"
      BY <1>2, <2>1
    <3> QED BY <1>3, <2>1, <2>7, <3>1
  <2>16. r \in Ordered
    BY <2>3, <2>7, <2>10, <2>11, <2>12, <2>13, <2>14, <2>15 DEF Ordered
  <2> QED BY <2>8, <2>16
<1> QED BY <1>2, <1>3, <1>5, <1>6

\* What every step of a recursion keeps, its end has.
LEMMA StaysIn ==
    ASSUME NEW n \in Nat, NEW D, NEW f, f[0] \in D,
           \A i \in 1..n : f[i - 1] \in D => f[i] \in D
    PROVE  \A i \in 0..n : f[i] \in D
<1> DEFINE T == {i \in Nat : i <= n => f[i] \in D}
<1>1. 0 \in T
  OBVIOUS
<1>2. ASSUME NEW i \in Nat, i \in T PROVE i + 1 \in T
  <2> SUFFICES ASSUME i + 1 <= n PROVE f[i + 1] \in D
    OBVIOUS
  <2>1. PICK j \in 1..n : j = i + 1 /\ j - 1 = i /\ f[i] \in D
    <3>1. i + 1 \in 1..n /\ i + 1 - 1 = i /\ f[i] \in D
      BY <1>2
    <3> QED BY <3>1
  <2> QED BY <2>1
<1> HIDE DEF T
<1>3. Nat \subseteq T
  BY <1>1, <1>2, Induction
<1> QED BY <1>3 DEF T

\* A turn of lexically_normal leaves an object in order.
LEMMA NormalStepOrdered ==
    ASSUME NEW ret \in Ordered, NEW e \in Text
    PROVE  NormalStep(ret, e) \in Ordered
<1>1. ret \in Objects /\ AppendPath(ret, Split(e)) \in Ordered /\ AppendPath(ret, Empty) \in Ordered
  BY AppendPathOrdered DEF Ordered
<1>2. AppendPath(ret, Split(DotDot)) \in Ordered
  BY <1>1, AppendPathOrdered, Characters
<1>3. RemoveFilename(ret) \in Ordered
  <2>1. Split(<<>>) \in Ordered
    BY SplitOrdered, Characters
  <2>2. RemovesComponent(ret) => RemoveAfter(ret, ret.cmpts[Len(ret.cmpts) - 1].type) \in Ordered
    BY RemoveAfterOrdered
  <2> QED BY <2>1, <2>2 DEF RemoveFilename
<1>4. ~HasFilename(ret) /\ HasRelativePath(ret) => DropDirectory(ret) \in Ordered
  BY DropDirectoryOrdered
<1>5. NormalDotDot(ret) \in Ordered
  BY <1>2, <1>3, <1>4 DEF NormalDotDot
<1> QED BY <1>1, <1>5 DEF NormalStep

\* What every turn of lexically_normal keeps, its result has.
LEMMA NormalizedTurns ==
    ASSUME NEW es \in Seq(Text), NEW D, Empty \in D,
           \A ret \in D, i \in 1..Len(es) : NormalStep(ret, es[i]) \in D
    PROVE  \E f : /\ f[0] = Empty /\ Normalized(es) = f[Len(es)]
                  /\ \A i \in 1..Len(es) : f[i] = NormalStep(f[i - 1], es[i])
                  /\ \A i \in 0..Len(es) : f[i] \in D
<1>1. PICK n : n = Len(es) /\ n \in Nat /\ \A i \in 1..n : es[i] \in Text
  BY LenProperties, ElementOfSeq
<1> DEFINE Is(f) == f = [i \in 0..n |-> IF i = 0 THEN Empty ELSE NormalStep(f[i - 1], es[i])]
           f == CHOOSE f : Is(f)
           next == [i \in 1..n |-> [q \in D |-> NormalStep(q, es[i])]]
<1>2. \A q \in D, i \in 1..n : NormalStep(q, es[i]) \in D
  BY <1>1
<1>3. PICK at : Computes(at, n, D, Empty, next)
  <2>1. Keeps(next, n, D)
    BY <1>1, <1>2 DEF Keeps
  <2>2. PICK r, nx : r = Empty /\ nx = next
    OBVIOUS
  <2> HIDE DEF next
  <2> QED BY <1>1, <2>1, <2>2, RecursionIn
<1>4. at \in [0..n -> D] /\ at[0] = Empty
  BY <1>3 DEF Computes
<1>5. ASSUME NEW i \in 1..n PROVE at[i] = NormalStep(at[i - 1], es[i])
  <2>1. i - 1 \in 0..n
    BY <1>1
  <2>2. at[i - 1] \in D
    BY <1>4, <2>1
  <2> QED BY <1>3, <2>2 DEF Computes
<1>6. Is(at)
  BY <1>4, <1>5
<1>7. Is(f)
  BY <1>6
<1>8. Normalized(es) = f[n]
  BY <1>1 DEF Normalized
<1> HIDE DEF f
<1>9. f[0] = Empty /\ \A i \in 1..n : f[i] = NormalStep(f[i - 1], es[i])
  BY <1>1, <1>7
<1>10. \A i \in 1..n : f[i - 1] \in D => f[i] \in D
  BY <1>2, <1>9
<1>11. \A i \in 0..n : f[i] \in D
  BY <1>1, <1>9, <1>10, StaysIn
<1> QED BY <1>1, <1>8, <1>9, <1>11

\* So it ends in what every step keeps.
LEMMA NormalizedIn ==
    ASSUME NEW es \in Seq(Text), NEW D, Empty \in D,
           \A ret \in D, i \in 1..Len(es) : NormalStep(ret, es[i]) \in D
    PROVE  Normalized(es) \in D
<1>1. Len(es) \in 0..Len(es)
  BY LenProperties
<1> QED BY <1>1, NormalizedTurns

\* The loop of lexically_normal leaves an object in order.
LEMMA NormalizedOrdered ==
    ASSUME NEW es \in Seq(Text)
    PROVE  Normalized(es) \in Ordered
<1>1. \A i \in 1..Len(es) : es[i] \in Text
  BY ElementOfSeq
<1>2. Empty \in Ordered
  <2>1. Len(Empty.cmpts) = 0
    BY EmptyIs
  <2> QED BY <2>1, EmptyIs DEF Ordered
<1>3. \A ret \in Ordered, i \in 1..Len(es) : NormalStep(ret, es[i]) \in Ordered
  BY <1>1, NormalStepOrdered
<1> QED BY <1>2, <1>3, NormalizedIn

\* What operator/= keeps, elements that are appended make.
LEMMA AppendedIn ==
    ASSUME NEW es \in Seq(Text), NEW D, Empty \in D,
           \A q \in D, x \in Text : AppendPath(q, Split(x)) \in D
    PROVE  Appended(es) \in D
<1>1. PICK n : n = Len(es) /\ n \in Nat /\ \A i \in 1..n : es[i] \in Text
  BY LenProperties, ElementOfSeq
<1> DEFINE Is(f) == f = [i \in 0..n |-> IF i = 0 THEN Empty ELSE AppendPath(f[i - 1], Split(es[i]))]
           f == CHOOSE f : Is(f)
           next == [i \in 1..n |-> [q \in D |-> AppendPath(q, Split(es[i]))]]
<1>2. \A q \in D, i \in 1..n : AppendPath(q, Split(es[i])) \in D
  BY <1>1
<1>3. PICK at : Computes(at, n, D, Empty, next)
  <2>1. Keeps(next, n, D)
    BY <1>2 DEF Keeps
  <2>2. PICK r, nx : r = Empty /\ nx = next
    OBVIOUS
  <2> HIDE DEF next
  <2> QED BY <1>1, <2>1, <2>2, RecursionIn
<1>4. at \in [0..n -> D] /\ at[0] = Empty
  BY <1>3 DEF Computes
<1>5. ASSUME NEW i \in 1..n PROVE at[i] = AppendPath(at[i - 1], Split(es[i]))
  <2>1. i - 1 \in 0..n
    BY <1>1
  <2>2. at[i - 1] \in D
    BY <1>4, <2>1
  <2> QED BY <1>3, <2>2 DEF Computes
<1>6. Is(at)
  BY <1>4, <1>5
<1>7. Is(f)
  BY <1>6
<1>8. Appended(es) = f[n]
  BY <1>1 DEF Appended
<1> HIDE DEF f
<1>9. f[0] = Empty /\ \A i \in 1..n : f[i] = AppendPath(f[i - 1], Split(es[i]))
  BY <1>1, <1>7
<1>10. \A i \in 1..n : f[i - 1] \in D => f[i] \in D
  BY <1>2, <1>9
<1>11. \A i \in 0..n : f[i] \in D
  BY <1>1, <1>9, <1>10, StaysIn
<1> QED BY <1>1, <1>8, <1>11

\* They make an object.
LEMMA AppendedType ==
    ASSUME NEW es \in Seq(Text)
    PROVE  Appended(es) \in Objects
BY EmptyIs, SplitType, AppendPathType, AppendedIn

\* The elements of an object are texts.
LEMMA ElementsType ==
    ASSUME NEW q \in Objects
    PROVE  Elements(q) \in Seq(Text)
<1>1. TextsOf(q.cmpts) \in Seq(Text)
  <2>1. TextsOf(q.cmpts) = [i \in 1..Len(q.cmpts) |-> q.cmpts[i].text]
    BY ObjectIs DEF TextsOf
  <2> QED BY <2>1, ObjectIs
<1>2. <<q.str>> \in Seq(Text)
  BY ObjectIs, SingleIs
<1>3. <<>> \in Seq(Text)
  OBVIOUS
<1> QED BY <1>1, <1>2, <1>3 DEF Elements

\* lexically_normal leaves an object.
LEMMA LexicallyNormalType ==
    ASSUME NEW q \in Objects, NEW elided \in BOOLEAN
    PROVE  LexicallyNormal(q, elided) \in Objects
<1>1. PICK ret, n : ret = Normalized(Elements(q)) /\ n = Len(ret.cmpts) /\ ret \in Objects
                   /\ (n > 0 => ret.type = "MULTI") /\ n \in Nat
  <2>1. Normalized(Elements(q)) \in Ordered
    BY ElementsType, NormalizedOrdered
  <2> QED BY <2>1, ObjectIs DEF Ordered
<1>2. Split(DotName) \in Objects /\ Empty \in Objects
  BY Characters, SplitType, EmptyIs
<1>3. \A x \in Objects : Returned(x, elided) \in Objects
  BY ObjectIs, SplitType DEF Returned
<1>4. ASSUME n >= 2, ret.cmpts[n].text = <<>>
      PROVE  [ret EXCEPT !.str = Front(@), !.cmpts = Front(@)] \in Objects
  <2>1. PICK s, k : s = Front(ret.str) /\ k = Len(ret.str) - 1
    OBVIOUS
  <2>2. s \in Text
    <3>1. k \in Int /\ k <= Len(ret.str)
      BY <1>1, <2>1, ObjectIs
    <3>2. SubSeq(ret.str, 1, k) \in Text
      BY <1>1, <3>1, ObjectIs, PartType
    <3> QED BY <2>1, <3>2 DEF Front
  <2>3. PICK m \in 0..Len(ret.cmpts) : m = n - 1
    <3>1. n - 1 \in 0..n
      BY <1>1, <1>4, ObjectIs
    <3> QED BY <1>1, <3>1
  <2>4. PICK fs : fs = Front(ret.cmpts) /\ fs = SubSeq(ret.cmpts, 1, m)
    BY <1>1, <2>3 DEF Front
  <2>5. fs \in Seq(Comps) /\ Len(fs) = m /\ \A i \in 1..m : fs[i] = ret.cmpts[i] /\ i \in 1..n
    <3>1. ret.cmpts \in Seq(Comps) /\ n \in Nat
      BY <1>1, ObjectIs
    <3> QED BY <1>1, <2>3, <2>4, <3>1, PrefixIs
  <2>6. \A i \in 1..Len(fs) : Named(fs[i])
    BY <1>1, <2>5, ObjectIs
  <2>7. [ret EXCEPT !.str = s, !.cmpts = fs] \in Objects
    <3>1. ret.type = "MULTI" /\ ret \in Objects
      BY <1>1, <1>4
    <3> QED BY <2>2, <2>5, <2>6, <3>1 DEF Objects
  <2>8. [ret EXCEPT !.str = Front(@), !.cmpts = Front(@)] = [ret EXCEPT !.str = s, !.cmpts = fs]
    BY <2>1, <2>4
  <2> QED BY <2>7, <2>8
<1>5. PICK last : last = [ret EXCEPT !.str = Front(@), !.cmpts = Front(@)]
  OBVIOUS
<1>6. \/ LexicallyNormal(q, elided) \in {Empty, Split(DotName), Returned(ret, elided)}
      \/ /\ n >= 2 /\ ret.cmpts[n].text = <<>>
         /\ LexicallyNormal(q, elided) = Returned(last, elided)
  BY <1>1, <1>5 DEF LexicallyNormal
<1> QED BY <1>1, <1>2, <1>3, <1>4, <1>5, <1>6

\* Of the beginnings two lists have in common one is the longest.
LEMMA LongestIs ==
    ASSUME NEW a \in Seq(Text), NEW b \in Seq(Text), NEW l, l = LongestCommonPrefix({a, b})
    PROVE  /\ l \in CommonPrefixes({a, b}) /\ l \in Seq(Text) /\ Len(l) \in 0..Len(a)
           /\ \A x \in CommonPrefixes({a, b}) : Len(x) <= Len(l)
<1>1. PICK C : C = CommonPrefixes({a, b})
  OBVIOUS
<1>2. \A x \in C : x \in Seq(Text) /\ Len(x) \in 0..Len(a)
  <2>1. ASSUME NEW x \in C PROVE Len(x) <= Len(a) /\ x \in Seq(Text)
    <3>1. IsPrefix(x, a) /\ \E s \in {a, b} : x \in Prefixes(s)
      BY <1>1 DEF CommonPrefixes
    <3>2. PICK s \in {a, b} : x \in Prefixes(s)
      BY <3>1
    <3>3. PICK k \in 0..Len(s) : x = SubSeq(s, 1, k)
      BY <3>2 DEF Prefixes
    <3>4. s \in Seq(Text)
      OBVIOUS
    <3> QED BY <3>1, <3>3, <3>4, PrefixIs DEF IsPrefix
  <2>2. \A x \in Seq(Text) : Len(x) \in Nat
    BY LenProperties
  <2> QED BY <2>1, <2>2
<1>3. <<>> \in C
  <2>1. \A s \in Seq(Text) : SubSeq(s, 1, 0) = <<>> /\ 0 \in 0..Len(s) /\ Len(s) \in Nat
    BY SubSeqEmpty, LenProperties
  <2>2. PICK e : e = <<>> /\ e \in Seq(Text) /\ Len(e) = 0
    <3>1. <<>> \in Seq(Text) /\ Len(<<>>) = 0
      OBVIOUS
    <3> QED BY <3>1
  <2>3. e \in Prefixes(a)
    BY <2>1, <2>2 DEF Prefixes
  <2>4. ASSUME NEW s \in {a, b} PROVE IsPrefix(e, s)
    <3>1. SubSeq(s, 1, 0) = <<>> /\ SubSeq(e, 1, 0) = <<>> /\ 0 <= Len(s)
      BY <2>1, <2>2
    <3> QED BY <2>2, <3>1 DEF IsPrefix
  <2> QED BY <1>1, <2>2, <2>3, <2>4 DEF CommonPrefixes
<1>4. PICK T : T = {Len(x) : x \in C}
  OBVIOUS
<1>5. PICK m \in T : \A k \in T : k <= m
  <2>1. T \in SUBSET Nat /\ T # {} /\ Len(a) \in Nat /\ \A k \in T : k <= Len(a)
    BY <1>2, <1>3, <1>4, LenProperties
  <2> QED BY <2>1, NatMax
<1>6. \E x \in C : \A y \in C : Len(y) <= Len(x)
  BY <1>4, <1>5
<1>7. l \in C /\ \A y \in C : Len(y) <= Len(l)
  BY <1>1, <1>6 DEF LongestCommonPrefix
<1> QED BY <1>1, <1>2, <1>7

\* The elements two paths have in common can be counted.
LEMMA CommonType ==
    ASSUME NEW a \in Seq(Text), NEW b \in Seq(Text)
    PROVE  Len(LongestCommonPrefix({a, b})) \in 0..Len(a)
BY LongestIs

\* lexically_relative leaves an object that was just made.
LEMMA LexicallyRelativeType ==
    ASSUME NEW q \in Objects, NEW base \in Objects
    PROVE  /\ \/ LexicallyRelative(q, base) \in {Empty, Split(DotName)}
              \/ \E es \in Seq(Text) : LexicallyRelative(q, base) = Appended(es)
           /\ LexicallyRelative(q, base) \in Objects
<1>1. PICK a, b : a = Elements(q) /\ b = Elements(base) /\ a \in Seq(Text) /\ b \in Seq(Text)
  BY ElementsType
<1>2. PICK c : c = Len(LongestCommonPrefix({a, b})) /\ c \in Nat
  <2>1. Len(LongestCommonPrefix({a, b})) \in 0..Len(a) /\ Len(a) \in Nat
    BY <1>1, CommonType, LenProperties
  <2> QED BY <2>1
<1>3. ASSUME NEW s \in Seq(Text) PROVE SubSeq(s, c + 1, Len(s)) \in Seq(Text)
  <2>1. Len(s) \in Nat /\ \A i \in (c + 1)..Len(s) : s[i] \in Text
    BY <1>2, LenProperties, ElementOfSeq
  <2>2. PICK x, y : x = c + 1 /\ y = Len(s) /\ x \in Int /\ y \in Int
    BY <1>2, <2>1
  <2> QED BY <2>1, <2>2, SubSeqProperties
<1>4. PICK ra, rb : /\ ra = SubSeq(a, c + 1, Len(a)) /\ ra \in Seq(Text)
                    /\ rb = SubSeq(b, c + 1, Len(b)) /\ rb \in Seq(Text)
  BY <1>1, <1>3
<1>5. PICK ups, downs :
          /\ ups = Cardinality({i \in DOMAIN rb : rb[i] \notin {DotName, DotDot}}) /\ ups \in Nat
          /\ downs = Cardinality({i \in DOMAIN rb : rb[i] = DotDot}) /\ downs \in Nat
  <2>1. DOMAIN rb = 1..Len(rb) /\ Len(rb) \in Nat
    BY <1>4, LenProperties
  <2>2. IsFiniteSet(DOMAIN rb)
    BY <2>1, FS_Interval
  <2>3. \A S \in SUBSET DOMAIN rb : IsFiniteSet(S) /\ Cardinality(S) \in Nat
    BY <2>2, FS_Subset, FS_CardinalityType
  <2> QED BY <2>3
<1>6. PICK us : us = [i \in 1..(ups - downs) |-> DotDot]
  OBVIOUS
<1>7. ~(ups < downs) => us \o ra \in Seq(Text)
  <2> SUFFICES ASSUME ~(ups < downs) PROVE us \o ra \in Seq(Text)
    OBVIOUS
  <2>1. PICK d \in Nat : d = ups - downs
    <3>1. ups - downs \in Nat
      BY <1>5
    <3> QED BY <3>1
  <2>2. us \in Seq(Text)
    BY <1>6, <2>1, Characters
  <2> QED BY <1>4, <2>2, ConcatProperties
<1>8. LexicallyRelative(q, base) \in {Empty, Split(DotName)}
      \/ (~(ups < downs) /\ LexicallyRelative(q, base) = Appended(us \o ra))
  BY <1>1, <1>2, <1>4, <1>5, <1>6 DEF LexicallyRelative
<1> QED BY <1>7, <1>8, AppendedType, EmptyIs, SplitType, Characters

\* A text, components and a type; no name among them is the separator.
InOrder == p \in Objects

\* Type correctness: every call, from every object, leaves an object.
LEMMA Types ==
    Spec => []InOrder
<1>1. \A t \in UNION {Texts(n) : n \in Nat} : Split(t) \in Objects
  <2>1. ASSUME NEW n \in Nat, NEW t \in Texts(n) PROVE t \in Text
    BY DEF Texts, Text
  <2> QED BY <2>1, SplitType
<1>2. Args \subseteq Objects /\ \A t \in Texts(MaxLen) : Split(t) \in Objects
  BY <1>1, BoundsAssumption DEF Args
<1>3. Init => InOrder
  BY <1>2, EmptyIs DEF Init, InOrder
<1>4. InOrder /\ [Next]_vars => InOrder'
  <2> SUFFICES ASSUME p \in Objects, [Next]_vars PROVE p' \in Objects
    BY DEF InOrder
  <2>1. CASE Assign
    BY <1>2, <2>1 DEF Assign, Becomes
  <2>2. CASE MoveConstruct
    BY <2>2, ObjectIs, SplitType DEF MoveConstruct, Becomes
  <2>3. CASE CallAppend
    BY <1>2, <2>3, AppendPathType DEF CallAppend, Becomes
  <2>4. CASE CallConcat
    BY <1>2, <2>4, ObjectIs, ConcatType DEF CallConcat, Becomes
  <2>5. CASE Clear
    BY <2>5, EmptyIs DEF Clear, Becomes
  <2>6. CASE ToParentPath
    BY <2>6, ParentPathType DEF ToParentPath, Becomes, Throws
  <2>7. CASE ToRelativePath
    BY <2>7, RelativePathType DEF ToRelativePath, Becomes, Throws
  <2>8. CASE ToLexicallyNormal
    BY <2>8, LexicallyNormalType DEF ToLexicallyNormal, Becomes
  <2>9. CASE ToLexicallyRelative
    BY <1>2, <2>9, LexicallyRelativeType DEF ToLexicallyRelative, Becomes
  <2>10. CASE CallRemoveFilename
    BY <1>2, <2>10, RemovedType, AppendPathType DEF CallRemoveFilename, Throws
  <2>11. CASE CallReplaceExtension
    BY <1>2, <2>11, EmptyIs, ReplaceExtensionType DEF CallReplaceExtension, Becomes, Throws
  <2>12. CASE UNCHANGED vars
    BY <2>12 DEF vars
  <2> QED BY <2>1, <2>2, <2>3, <2>4, <2>5, <2>6, <2>7, <2>8, <2>9, <2>10, <2>11, <2>12 DEF Next
<1> QED BY <1>3, <1>4, PTL DEF Spec

\* The filename of an object in order is the last name of its text.
LEMMA FilenameOf ==
    ASSUME NEW q \in Objects, Described(q), HasFilename(q)
    PROVE  /\ q.str \in Text /\ q.str # <<>> /\ Last(q.str) # Sep
           /\ Filename(q).str = Scan(q.str)[Len(Scan(q.str))].text
<1>1. PICK s, cs, n : s = q.str /\ cs = Scan(s) /\ n = Len(cs)
  OBVIOUS
<1>2. s \in Text /\ s # <<>> /\ cs \in Seq(Comps) /\ n \in Nat /\ n > 0 /\ Proper(cs)
  <2>1. s \in Text /\ s # <<>>
    BY <1>1, ObjectIs, EmptyIs DEF HasFilename, Filename
  <2> QED BY <1>1, <2>1, ComponentsAre
<1>3. Last(s) # Sep => Elements(q) = TextsOf(cs)
  <2> SUFFICES ASSUME Last(s) # Sep PROVE Elements(q) = TextsOf(cs)
    OBVIOUS
  <2>1. Form(Split(s), s, FALSE)
    BY <1>2 DEF Form
  <2> QED BY <1>1, <1>2, <2>1, ElementsOf DEF Described
<1>4. TextsOf(cs) = [i \in 1..n |-> cs[i].text] /\ n \in 1..n
  BY <1>1, <1>2, LenProperties DEF TextsOf
<1>5. CASE q.type = "FILENAME"
  <2>1. Filename(q).str = s /\ Elements(q) = <<s>> /\ s # <<Sep>>
    BY <1>1, <1>2, <1>5, ObjectIs DEF Filename, Elements
  <2>2. Last(s) # Sep
    <3> SUFFICES ASSUME Last(s) = Sep PROVE FALSE
      OBVIOUS
    <3>1. PICK none, ds : none = Component(<<>>, "FILENAME", Len(s)) /\ ds = Components(s)
      OBVIOUS
    <3>2. Split(s) = Trim(s, ds, "MULTI")
      BY <1>2, <3>1 DEF Split
    <3>3. cs[n] \in Comps /\ cs[n].type \in {"ROOT_DIR", "FILENAME"}
      <4>1. cs[n] \in Comps
        BY <1>1, <1>2
      <4> QED BY <4>1, CompType
    <3>4. CASE cs[n].type = "ROOT_DIR"
      <4>1. n = 1 /\ ds = cs /\ cs[1].text = <<Sep>> /\ cs[1].type = "ROOT_DIR"
        BY <1>1, <1>2, <3>1, <3>4, ComponentsAre DEF Proper
      <4>2. Split(s) = [str |-> cs[1].text, cmpts |-> <<>>, type |-> cs[1].type]
        BY <1>1, <3>2, <4>1 DEF Trim
      <4>3. Split(s).type = "ROOT_DIR" /\ Split(s).str = <<Sep>>
        BY <4>1, <4>2
      <4>4. <<Sep>> # <<>>
        OBVIOUS
      <4>5. Elements(Split(s)) = <<<<Sep>>>>
        BY <4>3, <4>4 DEF Elements
      <4>6. <<s>> = <<<<Sep>>>>
        BY <1>1, <2>1, <4>5 DEF Described
      <4> QED BY <2>1, <4>6
    <3>5. CASE cs[n].type = "FILENAME"
      <4>1. ds = Append(cs, none) /\ none \in Comps
        BY <1>1, <1>2, <3>1, <3>5, ComponentsAre
      <4>2. ds \in Seq(Comps) /\ Len(ds) = n + 1
        BY <1>1, <1>2, <4>1, AppendProperties
      <4>3. Split(s).type = "MULTI" /\ Split(s).cmpts = ds
        BY <1>2, <3>2, <4>2 DEF Trim
      <4>4. Elements(Split(s)) = [i \in 1..(n + 1) |-> ds[i].text]
        BY <4>2, <4>3, LenProperties DEF Elements, TextsOf
      <4>5. <<s>> = [i \in 1..(n + 1) |-> ds[i].text]
        BY <1>1, <2>1, <4>4 DEF Described
      <4>6. DOMAIN <<s>> = 1..(n + 1)
        BY <4>5
      <4>7. 2 \in 1..(n + 1) /\ 2 \notin DOMAIN <<s>>
        BY <1>2
      <4> QED BY <4>6, <4>7
    <3> QED BY <3>3, <3>4, <3>5
  <2>3. <<s>> = [i \in 1..n |-> cs[i].text]
    BY <1>3, <1>4, <2>1, <2>2
  <2>4. DOMAIN <<s>> = 1..n /\ <<s>>[n] = cs[n].text
    BY <1>4, <2>3
  <2>5. n = 1
    <3>1. n \in DOMAIN <<s>>
      BY <1>4, <2>4
    <3> QED BY <3>1
  <2> QED BY <1>1, <1>2, <2>1, <2>2, <2>4, <2>5
<1>6. CASE q.type # "FILENAME"
  <2>1. /\ q.type = "MULTI" /\ Last(s) # Sep
        /\ Filename(q).str = q.cmpts[Len(q.cmpts)].text
    BY <1>1, <1>2, <1>6, EmptyIs DEF HasFilename, Filename, Last
  <2>2. PICK m : m = Len(q.cmpts) /\ m \in Nat
    BY ObjectIs
  <2>3. Elements(q) = [i \in 1..m |-> q.cmpts[i].text]
    BY <2>1, <2>2, ObjectIs DEF Elements, TextsOf
  <2>4. [i \in 1..m |-> q.cmpts[i].text] = [i \in 1..n |-> cs[i].text]
    BY <1>3, <1>4, <2>1, <2>3
  <2>5. PICK f : f = [i \in 1..m |-> q.cmpts[i].text] /\ f = [i \in 1..n |-> cs[i].text]
    BY <2>4
  <2>6. m = n
    <3>1. f \in Seq({f[i] : i \in 1..m}) /\ Len(f) = m /\ Len(f) = n
      BY <1>2, <2>2, <2>5
    <3> QED BY <3>1
  <2>7. f[n] = cs[n].text /\ f[n] = q.cmpts[n].text
    BY <1>4, <2>5, <2>6
  <2> QED BY <1>1, <1>2, <2>1, <2>2, <2>6, <2>7
<1> QED BY <1>5, <1>6

\* Whatever calls an object has been through and however long its text is:
\* the loop of create_directories ends on it, and its levels need nothing but
\* the levels before them, if the copy parent_path returns is not elided or
\* no two separators of the text are next to each other.
THEOREM EveryClimbEndsInAChain ==
    Spec => []ClimbEndsInAChain
<1>1. InOrder => ClimbEndsInAChain
  <2> SUFFICES ASSUME p \in Objects, NEW elided \in BOOLEAN,
                      ~elided \/ \A i \in 1..(Len(p.str) - 1) : <<p.str[i], p.str[i + 1]>> # <<Sep, Sep>>
               PROVE  LET w == Climb(p.str, elided)
                      IN  /\ w.outcome = "ends" /\ IsChain(w.levels)
                          /\ Sound(p) /\ HasFilename(p) /\ Filename(p).str \notin {DotName, DotDot} =>
                                Place(Last(w.levels)) = Place(p.str)
    BY DEF ClimbEndsInAChain, InOrder
  <2>1. p.str \in Text /\ (~elided \/ Tight(p.str))
    BY ObjectIs DEF Tight
  <2>2. Sound(p) /\ HasFilename(p) /\ Filename(p).str \notin {DotName, DotDot} => Pushes(p.str)
    BY FilenameOf DEF Sound, Pushes
  <2> QED BY <2>1, <2>2, ClimbsEnd
<1> QED BY <1>1, Types, PTL

-----------------------------------------------------------------------------
(* Where the components of a text are.                                     *)

\* A separator adds no component, but in front.
LEMMA ScanSep ==
    ASSUME NEW u \in Text, u # <<>>
    PROVE  Scan(Append(u, Sep)) = Scan(u)
BY Characters, ScanTurns

\* A name that begins is one component more.
OneMore(cs, ds, n, c, l) ==
    \E d \in Comps :
        /\ d.text = <<c>> /\ d.pos = l /\ d.type = "FILENAME" /\ End(d) = l + 1
        /\ Len(ds) = n + 1 /\ ds[n + 1] = d /\ \A i \in 1..n : ds[i] = cs[i]

\* A character after a separator, or the first one, begins a name.
LEMMA ScanBegins ==
    ASSUME NEW u \in Text, NEW c \in Alphabet, c # Sep, u = <<>> \/ Last(u) = Sep
    PROVE  OneMore(Scan(u), Scan(Append(u, c)), Len(Scan(u)), c, Len(u))
<1>0. PICK cs, ds, n, l : cs = Scan(u) /\ ds = Scan(Append(u, c)) /\ n = Len(cs) /\ l = Len(u)
  OBVIOUS
<1>1. PICK d : d = Component(<<c>>, "FILENAME", l)
  OBVIOUS
<1>2. d \in Comps /\ d.text = <<c>> /\ d.pos = l /\ d.type = "FILENAME" /\ End(d) = l + 1
  <2>1. l \in Nat
    BY <1>0, LenProperties DEF Text
  <2> QED BY <1>1, <2>1, NameBegins DEF Component
<1>3. ds = Append(cs, d) /\ cs \in Seq(Comps)
  BY <1>0, <1>1, ScanTurns, ScanType
<1>4. Len(ds) = n + 1 /\ ds[n + 1] = d /\ \A i \in 1..n : ds[i] = cs[i]
  BY <1>0, <1>2, <1>3, AppendProperties
<1> QED BY <1>0, <1>2, <1>4 DEF OneMore

\* A name that goes on is the last component, with one character more.
OneLonger(cs, ds, n, c, l) ==
    \E d \in Comps :
        /\ d.text = Append(cs[n].text, c) /\ d.pos = cs[n].pos /\ d.type = "FILENAME"
        /\ End(d) = l + 1 /\ n \in 1..n
        /\ cs[n].type = "FILENAME" /\ End(cs[n]) = l /\ IsName(cs[n].text)
        /\ Len(ds) = n /\ ds[n] = d /\ \A i \in 1..n : i # n => ds[i] = cs[i]

\* A character after one of a name belongs to that name.
LEMMA ScanGoesOn ==
    ASSUME NEW u \in Text, NEW c \in Alphabet, c # Sep, u # <<>>, Last(u) # Sep
    PROVE  OneLonger(Scan(u), Scan(Append(u, c)), Len(Scan(u)), c, Len(u))
<1>0. PICK cs, ds, n : cs = Scan(u) /\ ds = Scan(Append(u, c)) /\ n = Len(cs)
  OBVIOUS
<1>1. cs \in Seq(Comps) /\ n \in Nat /\ Proper(cs) /\ Lies(u, cs)
  BY <1>0, ScanShape, ScanType, LenProperties
<1>2. n \in 1..n /\ cs[n].type = "FILENAME" /\ End(cs[n]) = Len(u)
  BY <1>0, <1>1 DEF Lies
<1>3. PICK e \in Comps : e = cs[n] /\ IsName(e.text)
  BY <1>0, <1>1, <1>2 DEF Proper
<1>4. PICK d : d = [e EXCEPT !.text = Append(@, c)]
  OBVIOUS
<1>5. d \in Comps /\ d.pos = e.pos /\ d.type = e.type /\ End(d) = End(e) + 1
  BY <1>3, <1>4, NameGoesOn
<1>6. d.text = Append(e.text, c)
  BY <1>4 DEF Comps
<1>7. ds = [cs EXCEPT ![n] = d]
  BY <1>0, <1>3, <1>4, ScanTurns
<1>8. Len(ds) = n /\ ds[n] = d /\ \A i \in 1..n : i # n => ds[i] = cs[i]
  BY <1>0, <1>1, <1>2, <1>5, <1>7
<1>9. /\ d.text = Append(cs[n].text, c) /\ d.pos = cs[n].pos /\ d.type = "FILENAME"
      /\ End(d) = Len(u) + 1 /\ IsName(cs[n].text)
  BY <1>2, <1>3, <1>5, <1>6
<1> QED BY <1>0, <1>2, <1>5, <1>8, <1>9 DEF OneLonger

\* The root directory is at the beginning.
Rooted(cs) == \A i \in 1..Len(cs) : cs[i].type = "ROOT_DIR" => cs[i].pos = 0

\* The text has each component at its position.
Located(s, cs) ==
    \A i \in 1..Len(cs) : \A j \in 1..Len(cs[i].text) : s[cs[i].pos + j] = cs[i].text[j]

\* What is no separator is in a component.
Covers(s, cs) ==
    \A j \in 1..Len(s) : s[j] # Sep =>
        \E k \in 1..Len(cs) : cs[k].pos < j /\ j <= End(cs[k])

Placed(s, cs) == Rooted(cs) /\ Located(s, cs) /\ Covers(s, cs)

\* Every text has its components so.
LEMMA ScanPlaces ==
    ASSUME NEW s \in Text
    PROVE  Placed(s, Scan(s))
<1> DEFINE S == {u \in Text : Placed(u, Scan(u))}
<1>1. <<>> \in S
  BY ScanType, Characters DEF Placed, Rooted, Located, Covers
<1>2. ASSUME NEW u \in Text, NEW c \in Alphabet, Placed(u, Scan(u))
      PROVE  Placed(Append(u, c), Scan(Append(u, c)))
  <2>1. PICK t, cs, ds, n, l : /\ t = Append(u, c) /\ cs = Scan(u) /\ ds = Scan(t)
                               /\ n = Len(cs) /\ l = Len(u)
    OBVIOUS
  <2>2. /\ t \in Text /\ Len(t) = l + 1 /\ l \in Nat /\ Last(t) = c /\ t # <<>> /\ t[l + 1] = c
        /\ (\A j \in 1..l : t[j] = u[j]) /\ Len(u) = l
    BY <2>1, AppendProperties DEF Text, Last
  <2>3. /\ cs \in Seq(Comps) /\ n \in Nat /\ Proper(cs) /\ Lies(u, cs) /\ Placed(u, cs)
        /\ (u # <<>> => n > 0) /\ Len(cs) = n
    BY <1>2, <2>1, ScanShape, ScanType, LenProperties, EmptySeq
  <2>4. \A i \in 1..n : /\ cs[i] \in Comps /\ End(cs[i]) \in Nat /\ cs[i].pos \in Nat
                        /\ Len(cs[i].text) \in Nat /\ End(cs[i]) = cs[i].pos + Len(cs[i].text)
                        /\ End(cs[i]) <= l
    <3>1. \A i \in 1..n : cs[i] \in Comps
      BY <2>3
    <3> QED BY <2>1, <2>3, <3>1, CompType DEF Lies, End
  <2>10. cs = Scan(u) /\ ds = Scan(Append(u, c)) /\ n = Len(cs) /\ l = Len(u)
    BY <2>1
  <2>11. \A i \in 1..n : \A j \in 1..Len(cs[i].text) : cs[i].pos + j \in 1..l
    <3> SUFFICES ASSUME NEW i \in 1..n, NEW j \in 1..Len(cs[i].text) PROVE cs[i].pos + j \in 1..l
      OBVIOUS
    <3>1. PICK a, b : a = cs[i].pos /\ b = Len(cs[i].text)
      OBVIOUS
    <3>2. a \in Nat /\ b \in Nat /\ a + b <= l /\ j \in 1..b
      BY <2>4, <3>1
    <3>3. l \in Nat
      BY <2>2
    <3>4. a + j \in 1..l
      BY <3>2, <3>3
    <3> QED BY <3>1, <3>4
  <2>5. CASE c = Sep /\ u = <<>>
    <3>1. ds = <<RootDir>>
      BY <2>1, <2>5, ScanTurns
    <3>2. Len(ds) = 1 /\ ds[1] = RootDir /\ RootDir.type = "ROOT_DIR" /\ RootDir.text = <<Sep>>
          /\ RootDir.pos = 0 /\ End(RootDir) = 1
      BY <3>1, Characters DEF RootDir, Component, End
    <3>3. Len(<<Sep>>) = 1 /\ <<Sep>>[1] = Sep /\ l = 0
      BY <2>2, <2>5, EmptySeq
    <3>4. Located(t, ds)
      BY <2>2, <2>5, <3>2, <3>3 DEF Located
    <3> QED BY <2>1, <2>2, <2>5, <3>2, <3>3, <3>4 DEF Placed, Rooted, Covers
  <2>6. CASE c = Sep /\ u # <<>>
    <3>1. ds = cs /\ n \in 1..n
      <4>1. ds = cs
        BY <2>1, <2>6, ScanSep
      <4> QED BY <2>3, <2>6, <4>1
    <3>2. Located(t, ds)
      <4> SUFFICES ASSUME NEW i \in 1..n, NEW j \in 1..Len(cs[i].text)
                   PROVE  t[cs[i].pos + j] = cs[i].text[j]
        BY <2>3, <3>1 DEF Located
      <4>1. cs[i].pos + j \in 1..l
        BY <2>11
      <4> QED BY <2>2, <2>3, <4>1 DEF Placed, Located
    <3>3. Covers(t, ds)
      <4> SUFFICES ASSUME NEW j \in 1..Len(t), t[j] # Sep
                   PROVE  \E k \in 1..n : cs[k].pos < j /\ j <= End(cs[k])
        BY <2>3, <3>1 DEF Covers
      <4>1. j \in 1..l
        BY <2>2, <2>6
      <4> QED BY <2>2, <2>3, <4>1 DEF Placed, Covers
    <3> QED BY <2>1, <2>3, <3>1, <3>2, <3>3 DEF Placed
  <2>7. CASE c # Sep /\ (u = <<>> \/ Last(u) = Sep)
    <3>1. PICK d \in Comps :
             /\ d.text = <<c>> /\ d.pos = l /\ d.type = "FILENAME" /\ End(d) = l + 1
             /\ Len(ds) = n + 1 /\ ds[n + 1] = d /\ \A i \in 1..n : ds[i] = cs[i]
      BY <2>7, <2>10, ScanBegins DEF OneMore
    <3>2. Len(ds) = n + 1 /\ ds[n + 1] = d /\ \A i \in 1..n : ds[i] = cs[i]
      BY <3>1
    <3>3. d.text = <<c>> /\ d.pos = l /\ d.type = "FILENAME" /\ Len(d.text) = 1 /\ d.text[1] = c
          /\ End(d) = l + 1
      BY <3>1, Characters
    <3>4. Rooted(ds)
      <4>1. ASSUME NEW i \in 1..n + 1, ds[i].type = "ROOT_DIR" PROVE ds[i].pos = 0
        <5>1. i \in 1..n
          BY <2>3, <3>2, <3>3, <4>1
        <5> QED BY <2>3, <3>2, <4>1, <5>1 DEF Placed, Rooted
      <4> QED BY <3>2, <4>1 DEF Rooted
    <3>5. Located(t, ds)
      <4> SUFFICES ASSUME NEW i \in 1..n + 1, NEW j \in 1..Len(ds[i].text)
                   PROVE  t[ds[i].pos + j] = ds[i].text[j]
        BY <3>2 DEF Located
      <4>1. CASE i = n + 1
        <5>1. j = 1
          <6>1. ds[i] = d
            BY <3>2, <4>1
          <6>2. j \in 1..1
            BY <3>3, <6>1
          <6> QED BY <6>2
        <5> QED BY <2>2, <3>2, <3>3, <4>1, <5>1
      <4>2. CASE i \in 1..n
        <5>1. ds[i] = cs[i] /\ j \in 1..Len(cs[i].text)
          BY <3>2, <4>2
        <5>2. cs[i].pos + j \in 1..l
          BY <2>11, <4>2, <5>1
        <5> QED BY <2>2, <2>3, <4>2, <5>1, <5>2 DEF Placed, Located
      <4> QED BY <2>3, <4>1, <4>2
    <3>6. Covers(t, ds)
      <4> SUFFICES ASSUME NEW j \in 1..Len(t), t[j] # Sep
                   PROVE  \E k \in 1..n + 1 : ds[k].pos < j /\ j <= End(ds[k])
        BY <3>2 DEF Covers
      <4>1. CASE j = l + 1
        <5>1. n + 1 \in 1..n + 1 /\ ds[n + 1].pos < j /\ j <= End(ds[n + 1])
          BY <2>2, <2>3, <3>2, <3>3, <4>1
        <5> QED BY <5>1
      <4>2. CASE j \in 1..l
        <5>1. PICK k \in 1..n : cs[k].pos < j /\ j <= End(cs[k])
          BY <2>2, <2>3, <4>2 DEF Placed, Covers
        <5>2. k \in 1..n + 1 /\ ds[k] = cs[k]
          BY <2>3, <3>2
        <5> QED BY <5>1, <5>2
      <4> QED BY <2>2, <4>1, <4>2
    <3> QED BY <2>1, <2>2, <2>7, <3>4, <3>5, <3>6 DEF Placed
  <2>8. CASE c # Sep /\ u # <<>> /\ Last(u) # Sep
    <3>1. PICK d \in Comps :
             /\ d.text = Append(cs[n].text, c) /\ d.pos = cs[n].pos /\ d.type = "FILENAME"
             /\ End(d) = l + 1 /\ n \in 1..n
             /\ cs[n].type = "FILENAME" /\ End(cs[n]) = l /\ IsName(cs[n].text)
             /\ Len(ds) = n /\ ds[n] = d /\ \A i \in 1..n : i # n => ds[i] = cs[i]
      BY <2>8, <2>10, ScanGoesOn DEF OneLonger
    <3>2. /\ Len(ds) = n /\ n \in 1..n /\ ds[n] = d /\ \A i \in 1..n : i # n => ds[i] = cs[i]
          /\ End(cs[n]) = l /\ IsName(cs[n].text) /\ cs[n].type = "FILENAME"
      BY <3>1
    <3>3. /\ d.text = Append(cs[n].text, c) /\ d.pos = cs[n].pos /\ d.type = "FILENAME"
          /\ End(d) = l + 1
      BY <3>1
    <3>9. PICK w, v : w = cs[n].text /\ v = d.text
      OBVIOUS
    <3>4. /\ w = cs[n].text /\ v = d.text /\ w \in Text /\ Len(w) \in Nat
          /\ Len(v) = Len(w) + 1 /\ v[Len(w) + 1] = c /\ \A j \in 1..Len(w) : v[j] = w[j]
      <4>1. w \in Seq(Alphabet) /\ v = Append(w, c)
        BY <3>2, <3>3, <3>9 DEF IsName, Text
      <4> QED BY <3>9, <4>1, AppendProperties DEF Text
    <3>5. \A i \in 1..n : ds[i].pos = cs[i].pos /\ ds[i].type = cs[i].type
      BY <3>2, <3>3
    <3>6. Rooted(ds)
      BY <2>3, <3>2, <3>5 DEF Placed, Rooted
    <3>7. Located(t, ds)
      <4> SUFFICES ASSUME NEW i \in 1..n, NEW j \in 1..Len(ds[i].text)
                   PROVE  t[ds[i].pos + j] = ds[i].text[j]
        BY <3>2 DEF Located
      <4>1. CASE i # n \/ j # Len(w) + 1
        <5>1. j \in 1..Len(cs[i].text) /\ ds[i].text[j] = cs[i].text[j]
          BY <3>2, <3>4, <4>1
        <5>2. cs[i].pos + j \in 1..l
          BY <2>11, <5>1
        <5> QED BY <2>2, <2>3, <3>5, <5>1, <5>2 DEF Placed, Located
      <4>2. CASE i = n /\ j = Len(w) + 1
        <5>1. cs[n].pos + Len(w) = l
          BY <2>4, <3>2, <3>4
        <5>2. ds[i].pos + j = l + 1
          <6>1. cs[n].pos \in Nat /\ ds[i].pos = cs[n].pos /\ l \in Nat
            BY <2>2, <2>4, <3>2, <3>5, <4>2
          <6>2. PICK a, b : a = cs[n].pos /\ b = Len(w) /\ a \in Nat /\ b \in Nat /\ a + b = l /\ j = b + 1
            BY <3>4, <4>2, <5>1, <6>1
          <6>3. a + (b + 1) = l + 1
            BY <6>1, <6>2
          <6> QED BY <6>1, <6>2, <6>3
        <5> QED BY <2>2, <3>2, <3>4, <4>2, <5>2
      <4> QED BY <4>1, <4>2
    <3>8. Covers(t, ds)
      <4> SUFFICES ASSUME NEW j \in 1..Len(t), t[j] # Sep
                   PROVE  \E k \in 1..n : ds[k].pos < j /\ j <= End(ds[k])
        BY <3>2 DEF Covers
      <4>1. CASE j = l + 1
        <5>1. ds[n].pos < j /\ j <= End(ds[n])
          <6>1. cs[n].pos \in Nat /\ cs[n].pos <= End(cs[n])
            BY <2>4, <3>2
          <6> QED BY <2>2, <3>2, <3>3, <3>5, <4>1, <6>1
        <5> QED BY <3>2, <5>1
      <4>2. CASE j \in 1..l
        <5>1. PICK k \in 1..n : cs[k].pos < j /\ j <= End(cs[k])
          BY <2>2, <2>3, <4>2 DEF Placed, Covers
        <5>2. j <= End(ds[k])
          <6>1. CASE k = n
            BY <2>2, <3>2, <3>3, <4>2, <6>1
          <6>2. CASE k # n
            BY <3>2, <5>1, <6>2
          <6> QED BY <6>1, <6>2
        <5> QED BY <3>5, <5>1, <5>2
      <4> QED BY <2>2, <4>1, <4>2
    <3> QED BY <2>1, <2>2, <2>8, <3>6, <3>7, <3>8 DEF Placed
  <2>9. \/ c = Sep /\ u = <<>>
        \/ c = Sep /\ u # <<>>
        \/ c # Sep /\ (u = <<>> \/ Last(u) = Sep)
        \/ c # Sep /\ u # <<>> /\ Last(u) # Sep
    OBVIOUS
  <2> QED BY <2>5, <2>6, <2>7, <2>8, <2>9
<1>3. \A u \in Text, c \in Alphabet : u \in S => Append(u, c) \in S
  BY <1>2, AppendProperties DEF Text
<1> HIDE DEF S
<1>4. s \in S
  BY <1>1, <1>3, TextInduction
<1> QED BY <1>4 DEF S

\* Where the last name begins the text can be cut: the scan of what is before
\* it has the components before it.
LastName(s) == Scan(s)[Len(Scan(s))]
CutsAt(s) ==
    Scan(s) # <<>> /\ LastName(s).type = "FILENAME" =>
        LET t == SubSeq(s, 1, LastName(s).pos)
        IN  /\ t \in Text /\ Scan(t) = SubSeq(Scan(s), 1, Len(Scan(s)) - 1)
            /\ t = <<>> \/ Last(t) = Sep

\* A longer text begins as it did.
LEMMA LongerCut ==
    ASSUME NEW u \in Text, NEW c \in Alphabet, NEW b \in 0..Len(u)
    PROVE  SubSeq(Append(u, c), 1, b) = SubSeq(u, 1, b)
<1>1. PICK t, v, w : t = Append(u, c) /\ v = SubSeq(t, 1, b) /\ w = SubSeq(u, 1, b)
  OBVIOUS
<1>2. /\ t \in Seq(Alphabet) /\ u \in Seq(Alphabet)
      /\ Len(t) = Len(u) + 1 /\ Len(u) \in Nat /\ \A j \in 1..Len(u) : t[j] = u[j]
  BY <1>1, AppendProperties DEF Text
<1>3. b \in 0..Len(t)
  BY <1>2
<1>4. v \in Seq(Alphabet) /\ Len(v) = b /\ \A i \in 1..b : v[i] = t[i]
  BY <1>1, <1>2, <1>3, PrefixIs
<1>5. w \in Seq(Alphabet) /\ Len(w) = b /\ \A i \in 1..b : w[i] = u[i]
  BY <1>1, <1>2, PrefixIs
<1>6. \A i \in 1..b : v[i] = w[i]
  BY <1>2, <1>4, <1>5
<1> QED BY <1>1, <1>4, <1>5, <1>6, SeqEqual

\* As every text can be.
LEMMA ScanCut ==
    ASSUME NEW s \in Text
    PROVE  CutsAt(s)
<1> DEFINE S == {u \in Text : CutsAt(u)}
<1>1. <<>> \in S
  BY ScanType, Characters DEF CutsAt
<1>2. ASSUME NEW u \in Text, NEW c \in Alphabet, CutsAt(u)
      PROVE  CutsAt(Append(u, c))
  <2>1. PICK t, cs, ds, n, l : /\ t = Append(u, c) /\ cs = Scan(u) /\ ds = Scan(t)
                               /\ n = Len(cs) /\ l = Len(u)
    OBVIOUS
  <2>2. /\ t \in Text /\ Len(t) = l + 1 /\ l \in Nat /\ u \in Seq(Alphabet)
        /\ SubSeq(u, 1, l) = u
    BY <2>1, AppendProperties DEF Text
  <2>3. /\ cs \in Seq(Comps) /\ ds \in Seq(Comps) /\ n \in Nat /\ Lies(u, cs) /\ (cs = <<>> <=> n = 0)
    BY <2>1, <2>2, ScanShape, ScanType, LenProperties, EmptySeq
  <2>10. cs = Scan(u) /\ ds = Scan(Append(u, c)) /\ n = Len(cs) /\ l = Len(u)
    BY <2>1
  <2>4. \A i \in 1..n : cs[i] \in Comps /\ cs[i].pos \in 0..l
    <3>1. \A i \in 1..n : cs[i] \in Comps /\ End(cs[i]) <= l
      BY <2>1, <2>3 DEF Lies
    <3> QED BY <2>2, <3>1, CompType
  <2>5. CASE c = Sep /\ u = <<>>
    <3>1. ds = <<RootDir>> /\ RootDir.type = "ROOT_DIR" /\ Len(<<RootDir>>) = 1 /\ <<RootDir>>[1] = RootDir
      BY <2>1, <2>5, ScanTurns DEF RootDir, Component
    <3> QED BY <2>1, <3>1 DEF CutsAt, LastName
  <2>6. CASE c = Sep /\ u # <<>>
    <3>1. ds = cs
      BY <2>1, <2>6, ScanSep
    <3>2. cs # <<>> => SubSeq(t, 1, cs[n].pos) = SubSeq(u, 1, cs[n].pos)
      <4>1. cs # <<>> => n \in 1..n
        BY <2>3
      <4> QED BY <2>1, <2>4, <4>1, LongerCut
    <3> QED BY <1>2, <2>1, <3>1, <3>2 DEF CutsAt, LastName
  <2>7. CASE c # Sep /\ (u = <<>> \/ Last(u) = Sep)
    <3>1. PICK d \in Comps :
             /\ d.text = <<c>> /\ d.pos = l /\ d.type = "FILENAME" /\ End(d) = l + 1
             /\ Len(ds) = n + 1 /\ ds[n + 1] = d /\ \A i \in 1..n : ds[i] = cs[i]
      BY <2>7, <2>10, ScanBegins DEF OneMore
    <3>2. SubSeq(t, 1, ds[Len(ds)].pos) = u
      BY <2>1, <2>2, <3>1, LongerCut
    <3>3. SubSeq(ds, 1, Len(ds) - 1) = cs
      <4>1. Len(ds) - 1 = n /\ n \in 0..Len(ds)
        BY <2>3, <3>1
      <4>5. PICK v : v = SubSeq(ds, 1, n)
        OBVIOUS
      <4>2. v \in Seq(Comps) /\ Len(v) = n /\ \A i \in 1..n : v[i] = ds[i]
        BY <2>3, <4>1, <4>5, PrefixIs
      <4>3. Len(cs) = n /\ \A i \in 1..n : v[i] = cs[i]
        BY <2>1, <3>1, <4>2
      <4> QED BY <2>3, <4>1, <4>2, <4>3, <4>5, SeqEqual
    <3> QED BY <2>1, <2>7, <3>2, <3>3 DEF CutsAt, LastName
  <2>8. CASE c # Sep /\ u # <<>> /\ Last(u) # Sep
    <3>1. PICK d \in Comps :
             /\ d.text = Append(cs[n].text, c) /\ d.pos = cs[n].pos /\ d.type = "FILENAME"
             /\ End(d) = l + 1 /\ n \in 1..n
             /\ cs[n].type = "FILENAME" /\ End(cs[n]) = l /\ IsName(cs[n].text)
             /\ Len(ds) = n /\ ds[n] = d /\ \A i \in 1..n : i # n => ds[i] = cs[i]
      BY <2>8, <2>10, ScanGoesOn DEF OneLonger
    <3>2. SubSeq(t, 1, ds[Len(ds)].pos) = SubSeq(u, 1, cs[n].pos)
      BY <2>1, <2>4, <3>1, LongerCut
    <3>3. SubSeq(ds, 1, Len(ds) - 1) = SubSeq(cs, 1, n - 1)
      <4>1. PICK k : k = n - 1 /\ k \in 0..n /\ k \in 0..Len(ds) /\ k \in 0..Len(cs)
        BY <2>1, <2>3, <3>1
      <4>6. PICK v, w : v = SubSeq(ds, 1, k) /\ w = SubSeq(cs, 1, k)
        OBVIOUS
      <4>2. v \in Seq(Comps) /\ Len(v) = k /\ \A i \in 1..k : v[i] = ds[i]
        BY <2>3, <4>1, <4>6, PrefixIs
      <4>3. w \in Seq(Comps) /\ Len(w) = k /\ \A i \in 1..k : w[i] = cs[i]
        BY <2>3, <4>1, <4>6, PrefixIs
      <4>4. \A i \in 1..k : v[i] = w[i]
        <5>1. \A i \in 1..k : i \in 1..n /\ i # n
          BY <2>3, <4>1
        <5> QED BY <3>1, <4>2, <4>3, <5>1
      <4>5. v = w
        BY <4>2, <4>3, <4>4, SeqEqual
      <4> QED BY <3>1, <4>1, <4>5, <4>6
    <3>4. cs # <<>> /\ LastName(u).type = "FILENAME"
      BY <2>1, <2>3, <3>1 DEF LastName
    <3> QED BY <1>2, <2>1, <3>2, <3>3, <3>4 DEF CutsAt, LastName
  <2>9. \/ c = Sep /\ u = <<>>
        \/ c = Sep /\ u # <<>>
        \/ c # Sep /\ (u = <<>> \/ Last(u) = Sep)
        \/ c # Sep /\ u # <<>> /\ Last(u) # Sep
    OBVIOUS
  <2> QED BY <2>5, <2>6, <2>7, <2>8, <2>9
<1>3. \A u \in Text, c \in Alphabet : u \in S => Append(u, c) \in S
  BY <1>2, AppendProperties DEF Text
<1> HIDE DEF S
<1>4. s \in S
  BY <1>1, <1>3, TextInduction
<1> QED BY <1>4 DEF S

\* Intervals of given lengths at a, one behind the other, that lie in the
\* union of as many such intervals of the same lengths at b.  What is in fixed
\* is at 0 among either.
Fills(m, a, b, l, fixed) ==
    /\ \A i \in 1..m : i \in fixed => a[i] = 0 /\ b[i] = 0
    /\ \A i \in 1..m : i \notin fixed => l[i] > 0
    /\ \A i \in 1..m : i > 1 => a[i - 1] + l[i - 1] <= a[i]
    /\ \A i, k \in 1..m : i < k => b[i] + l[i] <= b[k]
    /\ \A i \in 1..m : i \notin fixed =>
           \A j \in 1..l[i] : \E k \in 1..m : b[k] < a[i] + j /\ a[i] + j <= b[k] + l[k]

\* There is no room to move one.
LEMMA OnePlacement ==
    ASSUME NEW m \in Nat, NEW a \in [1..m -> Nat], NEW b \in [1..m -> Nat],
           NEW l \in [1..m -> Nat], NEW fixed, Fills(m, a, b, l, fixed)
    PROVE  a = b
<1>1. /\ \A i \in 1..m : i \in fixed => a[i] = 0 /\ b[i] = 0
      /\ \A i \in 1..m : i \notin fixed => l[i] > 0
  BY DEF Fills
<1>2. \A i \in 1..m : i > 1 => a[i - 1] + l[i - 1] <= a[i]
  BY DEF Fills
<1>3. \A i, k \in 1..m : i < k => b[i] + l[i] <= b[k]
  BY DEF Fills
<1>4. \A i \in 1..m : i \notin fixed =>
          \A j \in 1..l[i] : \E k \in 1..m : b[k] < a[i] + j /\ a[i] + j <= b[k] + l[k]
  BY DEF Fills
<1>6. ASSUME NEW i \in 1..m, i > 1 => b[i - 1] <= a[i - 1]
      PROVE  b[i] <= a[i]
  <2>1. CASE i \in fixed
    BY <1>1, <2>1
  <2>2. CASE i \notin fixed
    <3>1. PICK k \in 1..m : b[k] < a[i] + 1 /\ a[i] + 1 <= b[k] + l[k]
      <4>1. 1 \in 1..l[i]
        BY <1>1, <2>2
      <4> QED BY <1>4, <2>2, <4>1
    <3>2. CASE k = i
      BY <3>1, <3>2
    <3>3. CASE k > i
      <4>1. b[i] + l[i] <= b[k]
        BY <1>3, <3>3
      <4> QED BY <3>1, <4>1
    <3>4. CASE k < i
      <4>1. PICK h \in 1..m : h = i - 1 /\ (k = h \/ k < h) /\ i > 1
        BY <3>4
      <4>2. b[k] + l[k] <= b[h] + l[h]
        <5>1. k < h => b[k] + l[k] <= b[h]
          BY <1>3
        <5> QED BY <4>1, <5>1
      <4>3. b[h] <= a[h] /\ a[h] + l[h] <= a[i]
        BY <1>2, <1>6, <4>1
      <4> QED BY <3>1, <4>2, <4>3
    <3> QED BY <3>2, <3>3, <3>4
  <2> QED BY <2>1, <2>2
<1>7. \A i \in 1..m : b[i] <= a[i]
  <2> DEFINE T == {j \in Nat : j + 1 <= m => b[j + 1] <= a[j + 1]}
  <2>1. 0 \in T
    <3>1. ASSUME 0 + 1 <= m PROVE b[0 + 1] <= a[0 + 1]
      <4>1. 1 \in 1..m /\ ~(1 > 1)
        BY <3>1
      <4> QED BY <1>6, <4>1
    <3> QED BY <3>1
  <2>2. ASSUME NEW j \in Nat, j \in T PROVE j + 1 \in T
    <3>1. ASSUME (j + 1) + 1 <= m PROVE b[(j + 1) + 1] <= a[(j + 1) + 1]
      <4>1. PICK i \in 1..m : i = (j + 1) + 1 /\ i - 1 = j + 1
        <5>1. (j + 1) + 1 \in 1..m /\ ((j + 1) + 1) - 1 = j + 1
          BY <3>1
        <5> QED BY <5>1
      <4>2. b[j + 1] <= a[j + 1]
        BY <2>2, <3>1
      <4> QED BY <1>6, <4>1, <4>2
    <3> QED BY <3>1
  <2> HIDE DEF T
  <2>3. Nat \subseteq T
    BY <2>1, <2>2, Induction
  <2> SUFFICES ASSUME NEW i \in 1..m PROVE b[i] <= a[i]
    OBVIOUS
  <2>4. PICK j \in Nat : j + 1 = i
    <3>1. i - 1 \in Nat /\ (i - 1) + 1 = i
      OBVIOUS
    <3> QED BY <3>1
  <2>5. j \in T /\ j + 1 <= m
    BY <2>3, <2>4
  <2> QED BY <2>4, <2>5 DEF T
<1>8. ASSUME NEW i \in 1..m, i < m => a[i + 1] <= b[i + 1]
      PROVE  a[i] <= b[i]
  <2>1. CASE i \in fixed
    BY <1>1, <2>1
  <2>2. CASE i \notin fixed
    <3>1. PICK k \in 1..m : b[k] < a[i] + l[i] /\ a[i] + l[i] <= b[k] + l[k]
      <4>1. l[i] \in 1..l[i]
        BY <1>1, <2>2
      <4> QED BY <1>4, <2>2, <4>1
    <3>2. CASE k = i
      BY <3>1, <3>2
    <3>3. CASE k < i
      <4>1. b[k] + l[k] <= b[i]
        BY <1>3, <3>3
      <4> QED BY <3>1, <4>1
    <3>4. CASE k > i
      <4>1. PICK h \in 1..m : h = i + 1 /\ h - 1 = i /\ (k = h \/ h < k) /\ h > 1 /\ i < m
        BY <3>4
      <4>2. a[i] + l[i] <= a[h]
        BY <1>2, <4>1
      <4>3. a[h] <= b[h]
        BY <1>8, <4>1
      <4>4. b[h] <= b[k]
        <5>1. CASE k = h
          BY <5>1
        <5>2. CASE h < k
          <6>1. b[h] + l[h] <= b[k]
            BY <1>3, <5>2
          <6> QED BY <6>1
        <5> QED BY <4>1, <5>1, <5>2
      <4> QED BY <3>1, <4>2, <4>3, <4>4
    <3> QED BY <3>2, <3>3, <3>4
  <2> QED BY <2>1, <2>2
<1>9. \A i \in 1..m : a[i] <= b[i]
  <2> DEFINE T == {j \in Nat : j < m => a[m - j] <= b[m - j]}
  <2>1. 0 \in T
    <3>1. ASSUME 0 < m PROVE a[m - 0] <= b[m - 0]
      <4>1. m \in 1..m /\ ~(m < m) /\ m - 0 = m
        BY <3>1
      <4> QED BY <1>8, <4>1
    <3> QED BY <3>1
  <2>2. ASSUME NEW j \in Nat, j \in T PROVE j + 1 \in T
    <3>1. ASSUME j + 1 < m PROVE a[m - (j + 1)] <= b[m - (j + 1)]
      <4>1. PICK i \in 1..m : i = m - (j + 1) /\ i + 1 = m - j
        <5>1. m - (j + 1) \in 1..m /\ (m - (j + 1)) + 1 = m - j
          BY <3>1
        <5> QED BY <5>1
      <4>2. a[m - j] <= b[m - j]
        BY <2>2, <3>1
      <4> QED BY <1>8, <4>1, <4>2
    <3> QED BY <3>1
  <2> HIDE DEF T
  <2>3. Nat \subseteq T
    BY <2>1, <2>2, Induction
  <2> SUFFICES ASSUME NEW i \in 1..m PROVE a[i] <= b[i]
    OBVIOUS
  <2>4. PICK j \in Nat : m - j = i /\ j < m
    <3>1. m - i \in Nat /\ m - (m - i) = i /\ m - i < m
      OBVIOUS
    <3> QED BY <3>1
  <2>5. j \in T
    BY <2>3
  <2> QED BY <2>4, <2>5 DEF T
<1>10. \A i \in 1..m : a[i] = b[i]
  BY <1>7, <1>9
<1> QED BY <1>10

\* Components that are where texts like theirs are, one behind the other.
Inside(s, cs, m) ==
    /\ \A i \in 1..m : /\ cs[i].type = "ROOT_DIR" => cs[i].pos = 0
                       /\ End(cs[i]) <= Len(s)
                       /\ i > 1 => End(cs[i - 1]) <= cs[i].pos
    /\ \A i \in 1..m : \A j \in 1..Len(cs[i].text) : s[cs[i].pos + j] = cs[i].text[j]

\* There is but one place in a text for its components.
LEMMA PositionsAre ==
    ASSUME NEW s \in Text, NEW cs \in Seq(Comps), Len(Scan(s)) <= Len(cs),
           Inside(s, cs, Len(Scan(s))),
           \A i \in 1..Len(Scan(s)) : /\ cs[i].text = Scan(s)[i].text
                                      /\ cs[i].type = Scan(s)[i].type
    PROVE  \A i \in 1..Len(Scan(s)) : cs[i] = Scan(s)[i]
<1>1. PICK ds, m : ds = Scan(s) /\ m = Len(ds)
  OBVIOUS
<1>2. /\ ds \in Seq(Comps) /\ m \in Nat /\ Len(cs) \in Nat /\ Proper(ds) /\ Lies(s, ds)
      /\ Placed(s, ds) /\ Len(s) \in Nat /\ m <= Len(cs)
  BY <1>1, ScanShape, ScanType, ScanPlaces, LenProperties DEF Text
<1>3. \A i \in 1..m : /\ cs[i] \in Comps /\ ds[i] \in Comps
                      /\ cs[i].text = ds[i].text /\ cs[i].type = ds[i].type
  <2>1. \A i \in 1..m : i \in 1..Len(cs) /\ i \in 1..Len(ds)
    BY <1>1, <1>2
  <2>2. (\A i \in 1..Len(cs) : cs[i] \in Comps) /\ (\A i \in 1..Len(ds) : ds[i] \in Comps)
    BY <1>2, ElementOfSeq
  <2> QED BY <1>1, <2>1, <2>2
<1>4. PICK a, b, l, fixed : /\ a = [i \in 1..m |-> cs[i].pos] /\ b = [i \in 1..m |-> ds[i].pos]
                            /\ l = [i \in 1..m |-> Len(ds[i].text)]
                            /\ fixed = {i \in 1..m : cs[i].type = "ROOT_DIR"}
  OBVIOUS
<1>5. a \in [1..m -> Nat] /\ b \in [1..m -> Nat] /\ l \in [1..m -> Nat]
  BY <1>3, <1>4, CompType
<1>6. \A i \in 1..m : /\ a[i] = cs[i].pos /\ b[i] = ds[i].pos /\ l[i] = Len(ds[i].text)
                      /\ End(cs[i]) = a[i] + l[i] /\ End(ds[i]) = b[i] + l[i]
                      /\ i \notin fixed => IsName(ds[i].text)
  <2>1. \A i \in 1..m : i \notin fixed => ds[i].type = "FILENAME"
    BY <1>3, <1>4, CompType
  <2> QED BY <1>1, <1>2, <1>3, <1>4, <2>1 DEF End, Proper
<1>7. \A i \in 1..m : i \in fixed => a[i] = 0 /\ b[i] = 0
  BY <1>1, <1>2, <1>3, <1>4, <1>6 DEF Inside, Placed, Rooted
<1>8. \A i \in 1..m : i \notin fixed => l[i] > 0
  BY <1>3, <1>6, CompType DEF IsName
<1>9. \A i \in 1..m : i > 1 => a[i - 1] + l[i - 1] <= a[i]
  <2>1. \A i \in 1..m : i > 1 => i - 1 \in 1..m
    BY <1>2
  <2> QED BY <1>1, <1>6, <2>1 DEF Inside
<1>10. \A i, k \in 1..m : i < k => b[i] + l[i] <= b[k]
  BY <1>1, <1>2, <1>6 DEF Lies
<1>11. ASSUME NEW i \in 1..m, i \notin fixed, NEW j \in 1..l[i]
       PROVE  \E k \in 1..m : b[k] < a[i] + j /\ a[i] + j <= b[k] + l[k]
  <2>1. PICK x : x = a[i] + j
    OBVIOUS
  <2>2. x \in 1..Len(s)
    <3>1. a[i] + l[i] <= Len(s)
      BY <1>1, <1>6 DEF Inside
    <3>2. PICK u, v : u = a[i] /\ v = l[i]
      OBVIOUS
    <3>3. u \in Nat /\ v \in Nat /\ u + v <= Len(s) /\ j \in 1..v
      BY <1>5, <3>1, <3>2
    <3>4. u + j \in 1..Len(s)
      BY <1>2, <3>3
    <3> QED BY <2>1, <3>2, <3>4
  <2>3. s[x] = ds[i].text[j] /\ ds[i].text[j] # Sep
    <3>1. j \in 1..Len(cs[i].text) /\ j \in 1..Len(ds[i].text) /\ cs[i].text = ds[i].text
      BY <1>3, <1>6
    <3>2. s[x] = cs[i].text[j]
      BY <1>1, <1>6, <2>1, <3>1 DEF Inside
    <3> QED BY <1>6, <1>11, <3>1, <3>2 DEF IsName
  <2>4. PICK k \in 1..m : ds[k].pos < x /\ x <= End(ds[k])
    BY <1>1, <1>2, <2>2, <2>3 DEF Placed, Covers
  <2> QED BY <1>6, <2>1, <2>4
<1>12. a = b
  <2>1. Fills(m, a, b, l, fixed)
    BY <1>7, <1>8, <1>9, <1>10, <1>11 DEF Fills
  <2> QED BY <1>2, <1>5, <2>1, OnePlacement
<1>13. ASSUME NEW i \in 1..m PROVE cs[i] = ds[i]
  <2>1. cs[i].pos = ds[i].pos
    BY <1>6, <1>12
  <2>2. PICK c, d : c = cs[i] /\ d = ds[i]
    OBVIOUS
  <2>3. c \in Comps /\ d \in Comps /\ c.text = d.text /\ c.type = d.type /\ c.pos = d.pos
    BY <1>3, <2>1, <2>2
  <2>4. c = d
    BY <2>3 DEF Comps
  <2> QED BY <2>2, <2>4
<1> QED BY <1>1, <1>13

-----------------------------------------------------------------------------
(* Objects whose components are those of their text.                       *)

\* An empty name follows the last component.
EndsInSep(s) == Last(s) = Sep /\ LastName(s).type = "FILENAME"

\* cs is the decomposition of s, but for the position of an empty name.
Matches(s, cs) ==
    IF s = <<>> THEN cs = <<>>
    ELSE IF EndsInSep(s)
    THEN \E e \in Comps : e.text = <<>> /\ e.type = "FILENAME" /\ cs = Append(Scan(s), e)
    ELSE cs = Scan(s)

Exact(q) ==
    /\ q \in Objects
    /\ IF q.type = "MULTI" THEN Matches(q.str, q.cmpts) ELSE q = Split(q.str)

\* The root directory in front, names, an empty name at most at the end, and
\* each name behind what is before it.
Listed(cs) ==
    \A i \in 1..Len(cs) :
        /\ cs[i].type = "ROOT_DIR" => i = 1 /\ cs[i].text = <<Sep>> /\ cs[i].pos = 0
        /\ cs[i].type # "ROOT_DIR" => IsName(cs[i].text) \/ (cs[i].text = <<>> /\ i = Len(cs))
        /\ i > 1 /\ cs[i].text # <<>> => End(cs[i - 1]) <= cs[i].pos

\* What is left of the order of an object that parent_path has been at.
Formed(q) ==
    /\ q \in Objects
    /\ IF q.type = "MULTI" THEN Listed(q.cmpts) ELSE q = Split(q.str)

\* The decomposition of a text is one.
LEMMA ComponentsMatch ==
    ASSUME NEW s \in Text, s # <<>>
    PROVE  /\ Components(s) \in Seq(Comps) /\ Matches(s, Components(s))
           /\ Len(Components(s)) >= 1 /\ Components(s)[1].text # <<>>
           /\ Len(Components(s)) = 1 => ~EndsInSep(s) /\ Components(s) = Scan(s)
<1>1. PICK cs, n, none : cs = Scan(s) /\ n = Len(cs) /\ none = Component(<<>>, "FILENAME", Len(s))
  OBVIOUS
<1>2. /\ cs \in Seq(Comps) /\ n \in Nat /\ n > 0 /\ Proper(cs) /\ none \in Comps
      /\ Last(s) # Sep => Components(s) = cs /\ cs[n].type = "FILENAME"
      /\ Last(s) = Sep /\ cs[n].type = "FILENAME" => Components(s) = Append(cs, none)
      /\ cs[n].type = "ROOT_DIR" => Components(s) = cs /\ n = 1
  BY <1>1, ComponentsAre
<1>3. 1 \in 1..n /\ n \in 1..n /\ cs[n].type \in {"ROOT_DIR", "FILENAME"}
  <2>1. 1 \in 1..n /\ n \in 1..n
    BY <1>2
  <2>2. cs[n] \in Comps
    BY <1>1, <1>2, <2>1
  <2> QED BY <2>1, <2>2, CompType
<1>4. cs[1].text # <<>>
  <2>1. cs[1].type = "ROOT_DIR" => cs[1].text = <<Sep>>
    BY <1>1, <1>2, <1>3 DEF Proper
  <2>2. cs[1].type # "ROOT_DIR" => cs[1].text # <<>>
    BY <1>1, <1>2, <1>3 DEF Proper, IsName
  <2>3. <<Sep>> # <<>>
    OBVIOUS
  <2> QED BY <2>1, <2>2, <2>3
<1>5. none.text = <<>> /\ none.type = "FILENAME"
  BY <1>1 DEF Component
<1>6. CASE EndsInSep(s)
  <2>1. Components(s) = Append(cs, none)
    BY <1>1, <1>2, <1>6 DEF EndsInSep, LastName
  <2>2. Append(cs, none) \in Seq(Comps) /\ Len(Append(cs, none)) = n + 1 /\ Append(cs, none)[1] = cs[1]
    BY <1>1, <1>2, <1>3, AppendProperties
  <2>3. Matches(s, Append(cs, none))
    BY <1>1, <1>2, <1>5, <1>6 DEF Matches
  <2>4. n + 1 >= 1 /\ n + 1 # 1
    BY <1>2
  <2> QED BY <1>4, <2>1, <2>2, <2>3, <2>4
<1>7. CASE ~EndsInSep(s)
  <2>1. Components(s) = cs
    BY <1>1, <1>2, <1>3, <1>7 DEF EndsInSep, LastName
  <2>2. Matches(s, cs)
    BY <1>1, <1>7 DEF Matches
  <2> QED BY <1>1, <1>2, <1>4, <1>7, <2>1, <2>2
<1> QED BY <1>6, <1>7

\* The object of one name, and of the root directory.
LEMMA SplitSingle ==
    /\ \A w : IsName(w) => Split(w) = [str |-> w, cmpts |-> <<>>, type |-> "FILENAME"]
    /\ Split(<<Sep>>) = [str |-> <<Sep>>, cmpts |-> <<>>, type |-> "ROOT_DIR"]
<1>1. ASSUME NEW w, IsName(w)
      PROVE  Split(w) = [str |-> w, cmpts |-> <<>>, type |-> "FILENAME"]
  <2>1. w \in Text /\ w # <<>> /\ Last(w) # Sep
    BY <1>1, NameIsNoSep
  <2>2. Scan(w) = <<Component(w, "FILENAME", 0)>>
    <3>1. PICK none : none = <<>> /\ none \in Text /\ Len(none) = 0
      BY Characters
    <3>2. none \o w = w
      BY <2>1, <3>1, ConcatEmptySeq DEF Text
    <3>3. Scan(none \o w) = Append(Scan(none), Component(w, "FILENAME", Len(none)))
      BY <1>1, <3>1, ScanName
    <3>4. Append(<<>>, Component(w, "FILENAME", 0)) = <<Component(w, "FILENAME", 0)>>
      OBVIOUS
    <3> QED BY <3>1, <3>2, <3>3, <3>4, EmptyIs
  <2>3. Len(Scan(w)) = 1 /\ Scan(w)[1].text = w
    BY <2>2 DEF Component
  <2> QED BY <2>1, <2>3, SplitName
<1>2. Split(<<Sep>>) = [str |-> <<Sep>>, cmpts |-> <<>>, type |-> "ROOT_DIR"]
  <2>0. <<Sep>> \in Text /\ <<Sep>> # <<>>
    BY Characters
  <2>1. PICK t : t = <<Sep>> /\ t \in Text /\ t # <<>>
    BY <2>0
  <2>2. Scan(t) = <<RootDir>>
    BY <2>1, LinkRoot
  <2>3. Len(Scan(t)) = 1 /\ Scan(t)[1] = RootDir
    BY <2>2
  <2>4. RootDir.text = <<Sep>> /\ RootDir.type = "ROOT_DIR"
    BY DEF RootDir, Component
  <2>5. Components(t) = Scan(t)
    BY <2>1, <2>3, <2>4, ComponentsAre
  <2>6. Split(t) = Trim(t, Scan(t), "MULTI")
    BY <2>1, <2>5 DEF Split
  <2>7. Split(t) = [str |-> Scan(t)[1].text, cmpts |-> <<>>, type |-> Scan(t)[1].type]
    BY <2>3, <2>6 DEF Trim
  <2> QED BY <2>1, <2>3, <2>4, <2>7
<1> QED BY <1>1, <1>2

\* What the constructors make of a text.
LEMMA SplitIs ==
    ASSUME NEW s \in Text, s # <<>>
    PROVE  \/ /\ Split(s) = [str |-> s, cmpts |-> Components(s), type |-> "MULTI"]
              /\ Len(Components(s)) # 1
           \/ \E w : /\ IsName(w) \/ w = <<Sep>>
                     /\ Split(s) = Split(w) /\ Components(s) = Scan(s) /\ Len(Scan(s)) = 1
                     /\ Scan(s)[1].text = w /\ ~EndsInSep(s)
<1>1. PICK ds : ds = Components(s)
  OBVIOUS
<1>2. Split(s) = Trim(s, ds, "MULTI")
  BY <1>1 DEF Split
<1>3. CASE Len(ds) # 1
  BY <1>1, <1>2, <1>3 DEF Trim
<1>4. CASE Len(ds) = 1
  <2>1. ds = Scan(s) /\ ds \in Seq(Comps) /\ Proper(ds) /\ 1 \in 1..Len(ds) /\ ~EndsInSep(s)
    BY <1>1, <1>4, ComponentsMatch, ScanShape
  <2>2. ds[1].type \in {"ROOT_DIR", "FILENAME"}
    <3>1. ds[1] \in Comps
      BY <2>1
    <3> QED BY <3>1, CompType
  <2>3. Split(s) = [str |-> ds[1].text, cmpts |-> <<>>, type |-> ds[1].type]
    BY <1>2, <1>4 DEF Trim
  <2>4. PICK w : w = ds[1].text
    OBVIOUS
  <2>5. CASE ds[1].type = "ROOT_DIR"
    <3>1. w = <<Sep>>
      BY <2>1, <2>4, <2>5 DEF Proper
    <3> QED BY <1>1, <1>4, <2>1, <2>3, <2>4, <2>5, <3>1, SplitSingle
  <2>6. CASE ds[1].type = "FILENAME"
    <3>1. IsName(w)
      BY <2>1, <2>4, <2>6 DEF Proper
    <3>2. Split(w) = [str |-> w, cmpts |-> <<>>, type |-> "FILENAME"]
      BY <3>1, SplitSingle
    <3>3. Split(s) = Split(w)
      BY <2>3, <2>4, <2>6, <3>2
    <3> QED BY <1>1, <1>4, <2>1, <2>4, <3>1, <3>3
  <2> QED BY <2>2, <2>5, <2>6
<1> QED BY <1>3, <1>4

\* The elements of that object.
LEMMA SplitElements ==
    ASSUME NEW s \in Text
    PROVE  Elements(Split(s)) = IF s = <<>> THEN <<>> ELSE TextsOf(Components(s))
<1>1. CASE s = <<>>
  BY <1>1, EmptyIs DEF Elements
<1>2. CASE s # <<>>
  <2>1. CASE Split(s) = [str |-> s, cmpts |-> Components(s), type |-> "MULTI"]
    BY <1>2, <2>1 DEF Elements
  <2>2. ASSUME NEW w, IsName(w) \/ w = <<Sep>>, Split(s) = Split(w),
               Components(s) = Scan(s), Len(Scan(s)) = 1, Scan(s)[1].text = w
        PROVE  Elements(Split(s)) = TextsOf(Components(s))
    <3>1. w # <<>> /\ Split(w).str = w /\ Split(w).type # "MULTI"
      BY <2>2, SplitSingle, NameIsNoSep
    <3>2. Elements(Split(s)) = <<w>>
      BY <2>2, <3>1 DEF Elements
    <3>3. TextsOf(Scan(s)) = [i \in 1..1 |-> Scan(s)[i].text]
      BY <2>2, ScanType, LenProperties DEF TextsOf
    <3>4. [i \in 1..1 |-> Scan(s)[i].text] = [i \in 1..1 |-> w]
      BY <2>2
    <3>5. <<w>> = [i \in 1..1 |-> w]
      OBVIOUS
    <3> QED BY <2>2, <3>2, <3>3, <3>4, <3>5
  <2> QED BY <1>2, <2>1, <2>2, SplitIs
<1> QED BY <1>1, <1>2

\* Every text is split into an exact object.
LEMMA SplitExact ==
    ASSUME NEW s \in Text
    PROVE  Exact(Split(s))
<1>1. Split(s) \in Objects
  BY SplitType
<1>2. CASE s = <<>>
  BY <1>1, <1>2, EmptyIs DEF Exact
<1>3. CASE s # <<>>
  <2>1. CASE Split(s) = [str |-> s, cmpts |-> Components(s), type |-> "MULTI"]
    BY <1>1, <1>3, <2>1, ComponentsMatch DEF Exact
  <2>2. ASSUME NEW w, IsName(w) \/ w = <<Sep>>, Split(s) = Split(w)
        PROVE  Exact(Split(s))
    <3>1. Split(w).str = w /\ Split(w).type # "MULTI"
      BY <2>2, SplitSingle
    <3> QED BY <1>1, <2>2, <3>1 DEF Exact
  <2> QED BY <1>3, <2>1, <2>2, SplitIs
<1> QED BY <1>2, <1>3

\* Decompositions of a text have its elements.
LEMMA MatchesTexts ==
    ASSUME NEW s \in Text, s # <<>>, NEW cs, Matches(s, cs)
    PROVE  /\ TextsOf(cs) = TextsOf(Components(s))
           /\ cs \in Seq(Comps) /\ Len(Scan(s)) <= Len(cs) /\ Len(cs) <= Len(Scan(s)) + 1
           /\ \A i \in 1..Len(Scan(s)) : cs[i] = Scan(s)[i]
           /\ \A i \in 1..Len(cs) : i \notin 1..Len(Scan(s)) =>
                 i = Len(cs) /\ i = Len(Scan(s)) + 1 /\ cs[i].text = <<>> /\ cs[i].type = "FILENAME"
<1>1. PICK ds, ms, n : ds = Scan(s) /\ ms = Components(s) /\ n = Len(ds)
  OBVIOUS
<1>2. ds \in Seq(Comps) /\ n \in Nat /\ Matches(s, ms)
  BY <1>1, ScanType, LenProperties, ComponentsMatch
<1>3. CASE EndsInSep(s)
  <2>1. PICK e \in Comps : e.text = <<>> /\ e.type = "FILENAME" /\ cs = Append(ds, e)
    BY <1>1, <1>3 DEF Matches
  <2>2. PICK f \in Comps : f.text = <<>> /\ ms = Append(ds, f)
    BY <1>1, <1>2, <1>3 DEF Matches
  <2>3. /\ cs \in Seq(Comps) /\ Len(cs) = n + 1 /\ cs[n + 1] = e
        /\ \A i \in 1..n : cs[i] = ds[i]
    BY <1>1, <1>2, <2>1, AppendProperties
  <2>4. /\ ms \in Seq(Comps) /\ Len(ms) = n + 1 /\ ms[n + 1] = f
        /\ \A i \in 1..n : ms[i] = ds[i]
    BY <1>1, <1>2, <2>2, AppendProperties
  <2>5. \A i \in 1..(n + 1) : cs[i].text = ms[i].text
    <3>1. \A i \in 1..(n + 1) : i \in 1..n \/ i = n + 1
      BY <1>2
    <3> QED BY <2>1, <2>2, <2>3, <2>4, <3>1
  <2>6. DOMAIN cs = 1..(n + 1) /\ DOMAIN ms = 1..(n + 1)
    BY <2>3, <2>4, LenProperties
  <2>7. TextsOf(cs) = TextsOf(ms)
    BY <2>5, <2>6 DEF TextsOf
  <2>8. \A i \in 1..(n + 1) : i \notin 1..n => i = n + 1
    BY <1>2
  <2>9. n <= n + 1 /\ n + 1 <= n + 1
    BY <1>2
  <2> QED BY <1>1, <1>2, <2>1, <2>3, <2>7, <2>8, <2>9
<1>4. CASE ~EndsInSep(s)
  <2>1. cs = ds /\ ms = ds
    BY <1>1, <1>2, <1>4 DEF Matches
  <2>2. n <= n /\ n <= n + 1
    BY <1>2
  <2> QED BY <1>1, <1>2, <2>1, <2>2
<1> QED BY <1>3, <1>4

\* A part of a text that is another.
LEMMA PartIs ==
    ASSUME NEW s \in Text, NEW w \in Text, NEW b \in Nat, b + Len(w) <= Len(s)
    PROVE  SubSeq(s, b + 1, b + Len(w)) = w <=> \A j \in 1..Len(w) : s[b + j] = w[j]
<1>1. PICK a, e, n : a = b + 1 /\ e = b + Len(w) /\ n = Len(w)
  OBVIOUS
<1>2. n \in Nat /\ a \in Nat /\ e \in Nat /\ e <= Len(s) /\ Len(s) \in Nat
  BY <1>1, LenProperties DEF Text
<1>3. PICK v : v = SubSeq(s, a, e)
  OBVIOUS
<1>4. v \in Seq(Alphabet) /\ Len(v) = n /\ \A j \in 1..n : v[j] = s[b + j]
  <2>1. \A i \in a..e : s[i] \in Alphabet
    BY <1>1, <1>2 DEF Text
  <2>2. /\ v \in Seq(Alphabet) /\ Len(v) = IF a <= e THEN e - a + 1 ELSE 0
        /\ \A j \in 1..(e - a + 1) : v[j] = s[a + j - 1]
    BY <1>2, <1>3, <2>1, SubSeqProperties
  <2>3. e - a + 1 = n /\ (a <= e \/ n = 0) /\ \A j \in 1..n : a + j - 1 = b + j
    BY <1>1, <1>2
  <2>4. Len(v) = n
    BY <1>1, <1>2, <2>2, <2>3
  <2> QED BY <2>2, <2>3, <2>4
<1>5. v = w <=> \A j \in 1..n : v[j] = w[j]
  BY <1>1, <1>4, SeqEqual DEF Text
<1> QED BY <1>1, <1>3, <1>4, <1>5

\* An object whose components are those of its text is described by them.
LEMMA ExactDescribed ==
    ASSUME NEW q, Exact(q)
    PROVE  Described(q)
<1>1. PICK s, cs, n : s = q.str /\ cs = q.cmpts /\ n = Len(cs)
  OBVIOUS
<1>2. s \in Text /\ cs \in Seq(Comps) /\ n \in Nat /\ DOMAIN cs = 1..n /\ q \in Objects
  BY <1>1, ObjectIs DEF Exact
<1>3. CASE q.type # "MULTI"
  <2>1. q = Split(s)
    BY <1>1, <1>3 DEF Exact
  <2>2. cs = <<>>
    <3>1. s # <<>> => \E w : (IsName(w) \/ w = <<Sep>>) /\ q = Split(w)
      BY <1>2, <1>3, <2>1, SplitIs
    <3>2. \A w : IsName(w) \/ w = <<Sep>> => Split(w).cmpts = <<>>
      BY SplitSingle
    <3>3. s = <<>> => q.cmpts = <<>>
      BY <2>1 DEF Split
    <3> QED BY <1>1, <3>1, <3>2, <3>3
  <2>3. DOMAIN q.cmpts = {}
    BY <1>1, <2>2
  <2> QED BY <1>1, <2>1, <2>3 DEF Described
<1>4. CASE q.type = "MULTI"
  <2>1. Matches(s, cs) /\ Elements(q) = TextsOf(cs)
    BY <1>1, <1>4 DEF Exact, Elements
  <2>2. CASE s = <<>>
    <3>1. cs = <<>>
      BY <2>1, <2>2 DEF Matches
    <3>2. TextsOf(<<>>) = <<>> /\ DOMAIN <<>> = {}
      BY DEF TextsOf
    <3> QED BY <1>1, <2>1, <2>2, <3>1, <3>2, SplitElements, Characters DEF Described
  <2>3. CASE s # <<>>
    <3>1. Elements(q) = Elements(Split(s))
      BY <1>2, <2>1, <2>3, MatchesTexts, SplitElements
    <3>2. ASSUME NEW i \in 1..n, cs[i].text # <<>>
          PROVE  /\ cs[i].pos + Len(cs[i].text) <= Len(s)
                 /\ SubSeq(s, cs[i].pos + 1, cs[i].pos + Len(cs[i].text)) = cs[i].text
      <4>1. i \in 1..Len(Scan(s)) /\ cs[i] = Scan(s)[i]
        BY <1>1, <1>2, <2>1, <2>3, <3>2, MatchesTexts
      <4>2. Lies(s, Scan(s)) /\ Located(s, Scan(s))
        BY <1>2, ScanShape, ScanPlaces DEF Placed
      <4>3. End(cs[i]) <= Len(s) /\ \A j \in 1..Len(cs[i].text) : s[cs[i].pos + j] = cs[i].text[j]
        BY <4>1, <4>2 DEF Lies, Located
      <4>4. cs[i].pos \in Nat /\ cs[i].text \in Text
        BY <1>1, <1>2, ObjectIs
      <4>5. cs[i].pos + Len(cs[i].text) <= Len(s)
        BY <4>3 DEF End
      <4> QED BY <1>2, <4>3, <4>4, <4>5, PartIs
    <3> QED BY <1>1, <1>2, <3>1, <3>2 DEF Described
  <2> QED BY <2>2, <2>3
<1> QED BY <1>3, <1>4

\* The other way round: a decomposition with the elements of its text is the
\* one of its text.
LEMMA FormedExact ==
    ASSUME NEW q, Formed(q), Described(q)
    PROVE  Exact(q)
<1>1. PICK s, cs, n : s = q.str /\ cs = q.cmpts /\ n = Len(cs)
  OBVIOUS
<1>2. s \in Text /\ cs \in Seq(Comps) /\ n \in Nat /\ DOMAIN cs = 1..n /\ q \in Objects
  BY <1>1, ObjectIs DEF Formed
<1>3. CASE q.type # "MULTI"
  BY <1>3 DEF Formed, Exact
<1>4. CASE q.type = "MULTI"
  <2>1. Listed(cs) /\ Elements(q) = TextsOf(cs) /\ TextsOf(cs) = [i \in 1..n |-> cs[i].text]
    BY <1>1, <1>2, <1>4 DEF Formed, Elements, TextsOf
  <2>2. CASE s = <<>>
    <3>1. TextsOf(cs) = <<>>
      BY <1>1, <2>1, <2>2, SplitElements, Characters DEF Described
    <3>2. DOMAIN TextsOf(cs) = 1..n /\ DOMAIN <<>> = {}
      BY <2>1
    <3>3. n = 0
      <4>1. ~(1 \in 1..n)
        BY <3>1, <3>2
      <4> QED BY <1>2, <4>1
    <3>4. cs = <<>>
      BY <1>1, <1>2, <3>3, EmptySeq
    <3> QED BY <1>1, <1>2, <1>4, <2>2, <3>4 DEF Exact, Matches
  <2>3. CASE s # <<>>
    <3>1. PICK ms, ds, m : ms = Components(s) /\ ds = Scan(s) /\ m = Len(ds)
      OBVIOUS
    <3>2. /\ ms \in Seq(Comps) /\ Matches(s, ms) /\ ds \in Seq(Comps) /\ m \in Nat
          /\ Proper(ds) /\ Lies(s, ds) /\ Located(s, ds) /\ Len(ms) \in Nat /\ DOMAIN ms = 1..Len(ms)
      BY <1>2, <2>3, <3>1, ComponentsMatch, ScanShape, ScanType, ScanPlaces, LenProperties DEF Placed
    <3>3. Len(ms) = n /\ \A i \in 1..n : cs[i].text = ms[i].text
      <4>1. [i \in 1..n |-> cs[i].text] = [i \in 1..Len(ms) |-> ms[i].text]
        BY <1>1, <1>2, <2>1, <2>3, <3>1, <3>2, SplitElements DEF Described, TextsOf
      <4>2. PICK f : f = [i \in 1..n |-> cs[i].text] /\ f = [i \in 1..Len(ms) |-> ms[i].text]
        BY <4>1
      <4>5. PICK k : k = Len(ms) /\ k \in Nat
        BY <3>2
      <4>6. f = [i \in 1..k |-> ms[i].text]
        BY <4>2, <4>5
      <4>3. Len(f) = n /\ Len(f) = k /\ k = Len(ms)
        BY <1>2, <4>2, <4>5, <4>6
      <4>4. \A i \in 1..n : f[i] = cs[i].text /\ f[i] = ms[i].text
        BY <4>2, <4>3
      <4> QED BY <4>3, <4>4
    <3>4. /\ m <= n /\ n <= m + 1
          /\ \A i \in 1..m : ms[i] = ds[i]
          /\ \A i \in 1..n : i \notin 1..m => i = n /\ i = m + 1 /\ ms[i].text = <<>>
      BY <1>2, <2>3, <3>1, <3>2, <3>3, MatchesTexts
    <3>5. ASSUME NEW i \in 1..m
          PROVE  /\ cs[i].text = ds[i].text /\ cs[i].text # <<>> /\ cs[i].type = ds[i].type
                 /\ i \in 1..n /\ cs[i] \in Comps
      <4>1. i \in 1..n /\ cs[i].text = ds[i].text
        BY <1>2, <3>2, <3>3, <3>4
      <4>2. cs[i] \in Comps /\ ds[i] \in Comps
        BY <1>1, <1>2, <3>1, <3>2, <4>1
      <4>3. /\ cs[i].type \in {"ROOT_DIR", "FILENAME"} /\ ds[i].type \in {"ROOT_DIR", "FILENAME"}
        BY <4>2, CompType
      <4>4. /\ ds[i].type = "ROOT_DIR" => ds[i].text = <<Sep>>
            /\ ds[i].type # "ROOT_DIR" => IsName(ds[i].text)
            /\ cs[i].type = "ROOT_DIR" => cs[i].text = <<Sep>>
            /\ cs[i].type # "ROOT_DIR" => IsName(cs[i].text) \/ cs[i].text = <<>>
        BY <1>1, <2>1, <3>1, <3>2, <4>1 DEF Proper, Listed
      <4>5. <<Sep>> # <<>> /\ \A w : IsName(w) => w # <<>> /\ w # <<Sep>>
        BY NameIsNoSep
      <4> QED BY <4>1, <4>2, <4>3, <4>4, <4>5
    <3>6. Inside(s, cs, m)
      <4>1. ASSUME NEW i \in 1..m
            PROVE  /\ cs[i].type = "ROOT_DIR" => cs[i].pos = 0
                   /\ End(cs[i]) <= Len(s)
                   /\ i > 1 => End(cs[i - 1]) <= cs[i].pos
                   /\ \A j \in 1..Len(cs[i].text) : s[cs[i].pos + j] = cs[i].text[j]
        <5>1. /\ cs[i].pos + Len(cs[i].text) <= Len(s)
              /\ SubSeq(s, cs[i].pos + 1, cs[i].pos + Len(cs[i].text)) = cs[i].text
          BY <1>1, <1>2, <3>5 DEF Described
        <5>2. cs[i].pos \in Nat /\ cs[i].text \in Text
          BY <3>5, CompType
        <5>3. \A j \in 1..Len(cs[i].text) : s[cs[i].pos + j] = cs[i].text[j]
          BY <1>2, <5>1, <5>2, PartIs
        <5>4. /\ cs[i].type = "ROOT_DIR" => cs[i].pos = 0
              /\ i > 1 => End(cs[i - 1]) <= cs[i].pos
          BY <1>1, <2>1, <3>5 DEF Listed
        <5> QED BY <5>1, <5>3, <5>4 DEF End
      <4> QED BY <4>1 DEF Inside
    <3>7. \A i \in 1..m : cs[i] = ds[i]
      BY <1>1, <1>2, <3>1, <3>4, <3>5, <3>6, PositionsAre
    <3>8. CASE EndsInSep(s)
      <4>1. Len(ms) = m + 1
        <5>1. PICK f \in Comps : ms = Append(ds, f)
          BY <2>3, <3>1, <3>2, <3>8 DEF Matches
        <5> QED BY <3>1, <3>2, <5>1, AppendProperties
      <4>2. n = m + 1 /\ n \in 1..n /\ n \notin 1..m
        BY <3>2, <3>3, <4>1
      <4>3. PICK e : e = cs[n]
        OBVIOUS
      <4>4. e \in Comps /\ e.text = <<>> /\ e.type = "FILENAME"
        <5>1. e \in Comps /\ e.text = <<>>
          BY <1>1, <1>2, <3>3, <3>4, <4>2, <4>3
        <5>2. e.type \in {"ROOT_DIR", "FILENAME"}
          BY <5>1, CompType
        <5>3. e.type = "ROOT_DIR" => e.text = <<Sep>>
          BY <1>1, <2>1, <4>2, <4>3 DEF Listed
        <5>4. <<Sep>> # <<>>
          OBVIOUS
        <5> QED BY <5>1, <5>2, <5>3, <5>4
      <4>5. PICK es : es = Append(ds, e)
        OBVIOUS
      <4>6. es \in Seq(Comps) /\ Len(es) = m + 1 /\ es[m + 1] = e /\ \A i \in 1..m : es[i] = ds[i]
        BY <3>1, <3>2, <4>4, <4>5, AppendProperties
      <4>7. \A i \in 1..n : cs[i] = es[i]
        <5>1. \A i \in 1..n : i \in 1..m \/ i = m + 1
          BY <3>2, <4>2
        <5> QED BY <3>7, <4>2, <4>3, <4>6, <5>1
      <4>8. cs = es
        BY <1>1, <1>2, <4>2, <4>6, <4>7, SeqEqual
      <4> QED BY <1>1, <1>2, <1>4, <2>3, <3>1, <3>8, <4>4, <4>5, <4>8 DEF Exact, Matches
    <3>9. CASE ~EndsInSep(s)
      <4>1. n = m
        BY <2>3, <3>1, <3>2, <3>3, <3>9 DEF Matches
      <4>2. cs = ds
        BY <1>1, <1>2, <3>1, <3>2, <3>7, <4>1, SeqEqual
      <4> QED BY <1>1, <1>2, <1>4, <2>3, <3>1, <3>9, <4>2 DEF Exact, Matches
    <3> QED BY <3>8, <3>9
  <2> QED BY <2>2, <2>3
<1> QED BY <1>3, <1>4

\* An exact object is formed.
LEMMA ExactFormed ==
    ASSUME NEW q, Exact(q)
    PROVE  Formed(q)
<1>1. PICK s, cs, n : s = q.str /\ cs = q.cmpts /\ n = Len(cs)
  OBVIOUS
<1>2. s \in Text /\ cs \in Seq(Comps) /\ n \in Nat /\ q \in Objects
  BY <1>1, ObjectIs DEF Exact
<1>3. CASE q.type # "MULTI"
  BY <1>3 DEF Formed, Exact
<1>4. CASE q.type = "MULTI" /\ s = <<>>
  <2>1. cs = <<>> /\ Len(<<>>) = 0
    BY <1>1, <1>4 DEF Exact, Matches
  <2> QED BY <1>1, <1>2, <1>4, <2>1 DEF Formed, Listed
<1>5. CASE q.type = "MULTI" /\ s # <<>>
  <2>1. PICK ds, m : ds = Scan(s) /\ m = Len(ds)
    OBVIOUS
  <2>2. m \in Nat /\ Proper(ds) /\ Lies(s, ds) /\ Rooted(ds)
    BY <1>2, <2>1, ScanShape, ScanType, ScanPlaces, LenProperties DEF Placed
  <2>3. /\ m <= n /\ \A i \in 1..m : cs[i] = ds[i]
        /\ \A i \in 1..n : i \notin 1..m => i = n /\ cs[i].text = <<>> /\ cs[i].type = "FILENAME"
    BY <1>1, <1>2, <1>5, <2>1, MatchesTexts DEF Exact
  <2>4. ASSUME NEW i \in 1..n
        PROVE  /\ cs[i].type = "ROOT_DIR" => i = 1 /\ cs[i].text = <<Sep>> /\ cs[i].pos = 0
               /\ cs[i].type # "ROOT_DIR" => IsName(cs[i].text) \/ (cs[i].text = <<>> /\ i = n)
               /\ i > 1 /\ cs[i].text # <<>> => End(cs[i - 1]) <= cs[i].pos
    <3>1. CASE i \in 1..m
      <4>1. i > 1 => i - 1 \in 1..m
        BY <2>2, <3>1
      <4>2. i > 1 => End(ds[i - 1]) <= ds[i].pos
        BY <2>1, <2>2, <3>1, <4>1 DEF Lies
      <4> QED BY <2>1, <2>2, <2>3, <3>1, <4>1, <4>2 DEF Proper, Rooted
    <3>2. CASE i \notin 1..m
      BY <2>3, <3>2
    <3> QED BY <3>1, <3>2
  <2> QED BY <1>1, <1>2, <1>5, <2>4 DEF Formed, Listed
<1> QED BY <1>3, <1>4, <1>5

\* What remove_filename empties: the components, with an empty name at the end.
Emptied(q, t) == [q EXCEPT !.str = t, !.cmpts[Len(q.cmpts)].text = <<>>]

\* The components it leaves: n of them, the last one empty.
Empties(q, t, cs, n) ==
    \E d \in Comps, ds \in Seq(Comps) :
        /\ d.text = <<>> /\ d.pos = cs[n].pos /\ d.type = cs[n].type
        /\ Emptied(q, t) = [q EXCEPT !.str = t, !.cmpts = ds]
        /\ Len(ds) = n /\ ds[n] = d /\ \A i \in 1..n : i # n => ds[i] = cs[i]

\* Emptying the last component leaves the others.
LEMMA EmptiedIs ==
    ASSUME NEW q \in Objects, q.cmpts # <<>>, NEW t \in Text
    PROVE  Empties(q, t, q.cmpts, Len(q.cmpts))
<1>1. PICK cs, n, e : cs = q.cmpts /\ n = Len(cs) /\ e = cs[n]
  OBVIOUS
<1>2. cs \in Seq(Comps) /\ n \in Nat /\ n \in 1..n
  BY <1>1, ObjectIs
<1>3. e \in Comps
  BY <1>1, <1>2
<1>4. PICK d : d = [e EXCEPT !.text = <<>>]
  OBVIOUS
<1>5. d \in Comps /\ d.text = <<>> /\ d.pos = e.pos /\ d.type = e.type
  BY <1>3, <1>4, Characters DEF Comps
<1>6. PICK ds : ds = [cs EXCEPT ![n] = d]
  OBVIOUS
<1>7. ds \in Seq(Comps) /\ Len(ds) = n /\ ds[n] = d /\ \A i \in 1..n : i # n => ds[i] = cs[i]
  <2>1. ds \in [1..n -> Comps] /\ \A i \in 1..n : ds[i] = IF i = n THEN d ELSE cs[i]
    BY <1>1, <1>2, <1>5, <1>6, LenProperties
  <2> QED BY <1>2, <2>1
<1>8. Emptied(q, t) = [q EXCEPT !.str = t, !.cmpts = ds]
  BY <1>1, <1>4, <1>6 DEF Objects, Emptied
<1> QED BY <1>1, <1>5, <1>7, <1>8 DEF Empties

\* remove_filename leaves the components of the text it leaves, if there is a
\* component before the last one.
LEMMA RemoveExact ==
    ASSUME NEW q, Exact(q), RemovesComponent(q), Len(q.cmpts) # 1
    PROVE  LET r == RemoveAfter(q, q.cmpts[Len(q.cmpts) - 1].type)
           IN  /\ Exact(r) /\ q.cmpts[Len(q.cmpts)].pos \in 0..Len(q.str)
               /\ \/ r.str = <<Sep>>
                  \/ r.str = SubSeq(q.str, 1, q.cmpts[Len(q.cmpts)].pos)
<1>1. PICK s, cs, n, k : s = q.str /\ cs = q.cmpts /\ n = Len(cs) /\ k = n - 1
  OBVIOUS
<1>2. /\ s \in Text /\ cs \in Seq(Comps) /\ n \in Nat /\ q \in Objects /\ q.type = "MULTI"
      /\ cs # <<>> /\ Last(cs) = cs[n] /\ cs[n].type = "FILENAME" /\ cs[n].text # <<>>
  BY <1>1, ObjectIs DEF Exact, RemovesComponent, Last
<1>3. s # <<>> /\ cs = Scan(s) /\ n > 1 /\ n \in 1..n
  <2>1. Matches(s, cs) /\ s # <<>>
    BY <1>1, <1>2 DEF Exact, Matches
  <2>2. n \in 1..n /\ n > 1
    <3>1. n # 0 /\ n # 1
      BY <1>1, <1>2, ObjectIs
    <3> QED BY <1>2, <3>1
  <2>3. n \in 1..Len(Scan(s))
    BY <1>1, <1>2, <2>1, <2>2, MatchesTexts
  <2>4. ~EndsInSep(s)
    <3>0. SUFFICES ASSUME EndsInSep(s) PROVE FALSE
      OBVIOUS
    <3>1. PICK e \in Comps : cs = Append(Scan(s), e)
      BY <2>1, <3>0 DEF Matches
    <3>2. n = Len(Scan(s)) + 1 /\ Len(Scan(s)) \in Nat
      BY <1>1, <1>2, <3>1, ScanType, AppendProperties, LenProperties
    <3> QED BY <2>3, <3>2
  <2> QED BY <2>1, <2>2, <2>4 DEF Matches
<1>4. PICK b, t : b = cs[n].pos /\ t = SubSeq(s, 1, b)
  OBVIOUS
<1>5. t \in Text /\ Scan(t) = SubSeq(cs, 1, k) /\ (t = <<>> \/ Last(t) = Sep)
  <2>1. LastName(s) = cs[n] /\ CutsAt(s)
    BY <1>1, <1>2, <1>3, ScanCut DEF LastName
  <2> QED BY <1>1, <1>2, <1>3, <1>4, <2>1 DEF CutsAt
<1>6. k \in 1..n /\ k # n /\ k \in 0..n /\ k \in Nat /\ n = k + 1
  BY <1>1, <1>2, <1>3
<1>7. PICK ps : ps = SubSeq(cs, 1, k)
  OBVIOUS
<1>8. ps \in Seq(Comps) /\ Len(ps) = k /\ (\A i \in 1..k : ps[i] = cs[i]) /\ ps[k] = cs[k] /\ ps = Scan(t)
  BY <1>1, <1>2, <1>5, <1>6, <1>7, PrefixIs
<1>9. t # <<>> /\ LastName(t) = cs[k]
  <2>1. t # <<>>
    BY <1>6, <1>8, EmptyIs
  <2> QED BY <1>8, <2>1 DEF LastName
<1>10. cs[k].type \in {"ROOT_DIR", "FILENAME"} /\ b \in 0..Len(s)
  <2>1. cs[k] \in Comps /\ cs[n] \in Comps
    BY <1>1, <1>2, <1>3, <1>6
  <2>2. End(cs[n]) <= Len(s) /\ Len(s) \in Nat
    BY <1>1, <1>2, <1>3, ScanShape DEF Lies, Text
  <2> QED BY <1>4, <2>1, <2>2, CompType
<1>11. PICK r : r = RemoveAfter(q, cs[k].type)
  OBVIOUS
<1>12. CASE cs[k].type = "ROOT_DIR"
  <2>1. k = 1 /\ cs[k].text = <<Sep>>
    BY <1>1, <1>2, <1>3, <1>6, <1>12, ScanShape DEF Proper
  <2>2. r = Trim(t, ps, "MULTI")
    BY <1>1, <1>4, <1>7, <1>11, <1>12 DEF RemoveAfter, Front
  <2>3. r = Split(<<Sep>>)
    BY <1>8, <1>12, <2>1, <2>2, SplitSingle DEF Trim
  <2>4. r.str = <<Sep>>
    BY <2>3, SplitSingle
  <2> QED BY <1>1, <1>4, <1>10, <1>11, <2>3, <2>4, Characters, SplitExact
<1>13. CASE cs[k].type = "FILENAME"
  <2>1. r = Emptied(q, t)
    BY <1>1, <1>4, <1>11, <1>13 DEF RemoveAfter, Emptied
  <2>2. PICK d \in Comps, ds \in Seq(Comps) :
           /\ d.text = <<>> /\ d.pos = cs[n].pos /\ d.type = cs[n].type
           /\ Emptied(q, t) = [q EXCEPT !.str = t, !.cmpts = ds]
           /\ Len(ds) = n /\ ds[n] = d /\ \A i \in 1..n : i # n => ds[i] = cs[i]
    <3>1. q.cmpts # <<>>
      BY <1>1, <1>2
    <3>2. Empties(q, t, cs, n)
      BY <1>1, <1>2, <1>5, <3>1, EmptiedIs
    <3> QED BY <3>2 DEF Empties
  <2>3. PICK es : es = Append(ps, d)
    OBVIOUS
  <2>4. es \in Seq(Comps) /\ Len(es) = k + 1 /\ es[k + 1] = d /\ \A i \in 1..k : es[i] = ps[i]
    BY <1>6, <1>8, <2>3, AppendProperties
  <2>5. \A i \in 1..n : ds[i] = es[i]
    <3>1. \A i \in 1..n : (i \in 1..k /\ i # n) \/ i = n
      BY <1>6
    <3> QED BY <1>6, <1>8, <2>2, <2>4, <3>1
  <2>6. ds = es
    BY <1>6, <2>2, <2>4, <2>5, SeqEqual
  <2>7. EndsInSep(t)
    BY <1>5, <1>9, <1>13 DEF EndsInSep
  <2>8. Matches(t, ds)
    BY <1>2, <1>8, <1>9, <2>2, <2>3, <2>6, <2>7 DEF Matches
  <2>9. r.str = t /\ r.cmpts = ds /\ r.type = "MULTI"
    BY <1>2, <2>1, <2>2 DEF Objects
  <2>10. r \in Objects
    <3>1. cs[n].pos <= Len(s)
      BY <1>4, <1>10
    <3> QED BY <1>1, <1>2, <1>11, <3>1, RemoveAfterType
  <2>11. Exact(r)
    BY <2>8, <2>9, <2>10 DEF Exact
  <2> QED BY <1>1, <1>4, <1>10, <1>11, <2>9, <2>11
<1> QED BY <1>10, <1>12, <1>13

\* Whatever branch it takes, it leaves names in order.
LEMMA RemoveFormed ==
    ASSUME NEW q, Formed(q), RemovesComponent(q), NEW before,
           q.cmpts[Len(q.cmpts)].pos <= Len(q.str),
           Len(q.cmpts) # 1 => before = q.cmpts[Len(q.cmpts) - 1].type
    PROVE  Formed(RemoveAfter(q, before))
<1>1. PICK s, cs, n, k : s = q.str /\ cs = q.cmpts /\ n = Len(cs) /\ k = n - 1
  OBVIOUS
<1>2. /\ s \in Text /\ cs \in Seq(Comps) /\ n \in Nat /\ q \in Objects /\ q.type = "MULTI"
      /\ cs # <<>> /\ Last(cs) = cs[n] /\ cs[n].type = "FILENAME" /\ Listed(cs)
  BY <1>1, ObjectIs DEF Formed, RemovesComponent, Last
<1>3. n \in 1..n /\ k \in 0..n /\ n = k + 1 /\ k \in Nat
  BY <1>1, <1>2, EmptySeq
<1>4. PICK t : t = SubSeq(s, 1, cs[n].pos) /\ t \in Text
  <2>1. PICK b : b = cs[n].pos /\ b \in Nat /\ b <= Len(s)
    BY <1>1, <1>2, <1>3, ObjectIs
  <2>2. SubSeq(s, 1, b) \in Text
    BY <1>2, <2>1, PartType
  <2> QED BY <2>1, <2>2
<1>5. PICK r : r = RemoveAfter(q, before) /\ r \in Objects
  BY <1>1, <1>2, RemoveAfterType
<1>6. CASE before = "ROOT_DIR"
  <2>1. PICK ps : ps = SubSeq(cs, 1, k)
    OBVIOUS
  <2>2. Len(ps) = k /\ \A i \in 1..k : ps[i] = cs[i]
    BY <1>1, <1>2, <1>3, <2>1, PrefixIs
  <2>3. r = Trim(t, ps, "MULTI")
    BY <1>1, <1>4, <1>5, <1>6, <2>1 DEF RemoveAfter, Front
  <2>4. CASE n = 1
    <3>1. r.type = "MULTI" /\ r.cmpts = ps /\ Len(ps) = 0
      BY <1>3, <2>2, <2>3, <2>4 DEF Trim
    <3> QED BY <1>5, <3>1 DEF Formed, Listed
  <2>5. CASE n # 1
    <3>1. k \in 1..n /\ cs[k].type = "ROOT_DIR"
      <4>1. before = cs[k].type
        BY <1>1, <2>5
      <4> QED BY <1>3, <1>6, <2>5, <4>1
    <3>2. k = 1 /\ cs[1].text = <<Sep>> /\ cs[1].type = "ROOT_DIR"
      BY <1>1, <1>2, <3>1 DEF Listed
    <3>3. r = Split(<<Sep>>)
      BY <2>2, <2>3, <3>2, SplitSingle DEF Trim
    <3> QED BY <1>5, <3>3, Characters, SplitExact, ExactFormed
  <2> QED BY <2>4, <2>5
<1>7. CASE before # "ROOT_DIR"
  <2>1. r = Emptied(q, t)
    BY <1>1, <1>4, <1>5, <1>7 DEF RemoveAfter, Emptied
  <2>2. PICK d \in Comps, ds \in Seq(Comps) :
           /\ d.text = <<>> /\ d.pos = cs[n].pos /\ d.type = cs[n].type
           /\ Emptied(q, t) = [q EXCEPT !.str = t, !.cmpts = ds]
           /\ Len(ds) = n /\ ds[n] = d /\ \A i \in 1..n : i # n => ds[i] = cs[i]
    <3>1. q.cmpts # <<>>
      BY <1>1, <1>2
    <3>2. Empties(q, t, cs, n)
      BY <1>1, <1>2, <1>4, <3>1, EmptiedIs
    <3> QED BY <3>2 DEF Empties
  <2>3. ASSUME NEW i \in 1..n
        PROVE  /\ ds[i].type = "ROOT_DIR" => i = 1 /\ ds[i].text = <<Sep>> /\ ds[i].pos = 0
               /\ ds[i].type # "ROOT_DIR" => IsName(ds[i].text) \/ (ds[i].text = <<>> /\ i = n)
               /\ i > 1 /\ ds[i].text # <<>> => End(ds[i - 1]) <= ds[i].pos
    <3>1. CASE i = n
      BY <1>2, <2>2, <3>1
    <3>2. CASE i # n
      <4>1. ds[i] = cs[i] /\ (i > 1 => i - 1 \in 1..n /\ i - 1 # n)
        BY <1>3, <2>2, <3>2
      <4>2. i > 1 => ds[i - 1] = cs[i - 1]
        BY <2>2, <4>1
      <4> QED BY <1>1, <1>2, <4>1, <4>2 DEF Listed
    <3> QED BY <3>1, <3>2
  <2>4. r.cmpts = ds /\ r.type = "MULTI"
    BY <1>2, <2>1, <2>2 DEF Objects
  <2> QED BY <1>5, <2>2, <2>3, <2>4 DEF Formed, Listed
<1> QED BY <1>5, <1>6, <1>7

-----------------------------------------------------------------------------
(* lexically_normal keeps its result exact.                                *)

\* An exact object has a filename exactly if its text ends in a name.
LEMMA ExactFilename ==
    ASSUME NEW q, Exact(q)
    PROVE  HasFilename(q) <=> q.str # <<>> /\ Last(q.str) # Sep
<1>1. q \in Objects /\ q.str \in Text
  BY ObjectIs DEF Exact
<1>2. HasFilename(q) => q.str # <<>> /\ Last(q.str) # Sep
  BY <1>1, ExactDescribed, FilenameOf
<1>3. ASSUME q.str # <<>>, Last(q.str) # Sep PROVE HasFilename(q)
  <2>1. CASE q.type = "FILENAME"
    BY <1>3, <2>1 DEF HasFilename, Filename
  <2>2. CASE q.type = "MULTI"
    <3>1. PICK cs, n : cs = Scan(q.str) /\ n = Len(cs)
      OBVIOUS
    <3>2. Components(q.str) = cs /\ cs \in Seq(Comps) /\ n > 0 /\ n \in Nat /\ cs[n].type = "FILENAME"
      BY <1>1, <1>3, <3>1, ComponentsAre
    <3>3. IsName(cs[n].text)
      BY <1>1, <1>3, <3>1, SplitName
    <3>4. q.cmpts = cs
      BY <1>1, <1>3, <2>2, <3>1 DEF Exact, Matches, EndsInSep
    <3>5. Last(q.cmpts) = cs[n] /\ cs[n].text # <<>>
      BY <3>1, <3>3, <3>4, NameIsNoSep DEF Last
    <3>6. Filename(q).str = cs[n].text
      BY <1>3, <2>2, <3>2, <3>5 DEF Filename
    <3> QED BY <3>5, <3>6 DEF HasFilename
  <2>3. CASE q.type = "ROOT_DIR"
    <3>1. q = Split(q.str)
      BY <2>3 DEF Exact
    <3>2. PICK w : (IsName(w) \/ w = <<Sep>>) /\ q = Split(w)
      <4>1. "MULTI" # "ROOT_DIR"
        OBVIOUS
      <4> QED BY <1>1, <1>3, <2>3, <3>1, <4>1, SplitIs
    <3>3. w = <<Sep>>
      BY <2>3, <3>2, SplitSingle
    <3>4. q.str = <<Sep>>
      BY <3>2, <3>3, SplitSingle
    <3>5. Last(<<Sep>>) = Sep
      BY DEF Last
    <3> QED BY <1>3, <3>4, <3>5
  <2> QED BY <1>1, <2>1, <2>2, <2>3, ObjectIs
<1> QED BY <1>2, <1>3

\* No two separators are in a part of a text that has no two.
LEMMA TightPrefix ==
    ASSUME NEW s \in Text, Tight(s), NEW k \in 0..Len(s)
    PROVE  Tight(SubSeq(s, 1, k))
<1>0. PICK t, l : t = SubSeq(s, 1, k) /\ l = Len(s)
  OBVIOUS
<1>1. t = SubSeq(s, 1, k) /\ l = Len(s) /\ l \in Nat /\ k \in Nat /\ k <= l
  BY <1>0, LenProperties DEF Text
<1>2. Len(t) = k /\ \A i \in 1..k : t[i] = s[i]
  BY <1>1, PrefixIs DEF Text
<1>3. ASSUME NEW i \in 1..(k - 1) PROVE <<t[i], t[i + 1]>> # <<Sep, Sep>>
  <2>1. i \in 1..k /\ i + 1 \in 1..k /\ i \in 1..(l - 1)
    BY <1>1
  <2> QED BY <1>1, <1>2, <2>1 DEF Tight
<1> QED BY <1>1, <1>2, <1>3 DEF Tight

\* None are in a name.
LEMMA TightName ==
    /\ \A w : IsName(w) => Tight(w)
    /\ Tight(<<Sep>>) /\ Tight(<<>>)
<1>1. ASSUME NEW w, IsName(w) PROVE Tight(w)
  <2>1. w \in Text /\ Len(w) \in Nat
    BY <1>1, LenProperties DEF IsName, Text
  <2>2. ASSUME NEW i \in 1..(Len(w) - 1) PROVE <<w[i], w[i + 1]>> # <<Sep, Sep>>
    <3>1. i \in 1..Len(w)
      BY <2>1
    <3> QED BY <1>1, <3>1 DEF IsName
  <2> QED BY <2>2 DEF Tight
<1>2. Len(<<Sep>>) = 1 /\ Len(<<>>) = 0
  OBVIOUS
<1>3. 1..(1 - 1) = {} /\ 1..(0 - 1) = {}
  OBVIOUS
<1> QED BY <1>1, <1>2, <1>3 DEF Tight

\* Nor where texts are joined, unless one ends and the other begins with one.
LEMMA TightJoin ==
    ASSUME NEW a \in Text, NEW b \in Text, Tight(a), Tight(b),
           a = <<>> \/ b = <<>> \/ Last(a) # Sep \/ b[1] # Sep
    PROVE  a \o b \in Text /\ Tight(a \o b)
<1>1. PICK c, k, l : c = a \o b /\ k = Len(a) /\ l = Len(b) /\ k \in Nat /\ l \in Nat
  BY LenProperties DEF Text
<1>2. /\ c \in Text /\ Len(c) = k + l
      /\ \A i \in 1..(k + l) : c[i] = IF i <= k THEN a[i] ELSE b[i - k]
  BY <1>1, ConcatProperties DEF Text
<1>3. (a = <<>> => k = 0) /\ (b = <<>> => l = 0) /\ Last(a) = a[k]
  BY <1>1 DEF Last
<1>4. ASSUME NEW i \in 1..(k + l - 1) PROVE <<c[i], c[i + 1]>> # <<Sep, Sep>>
  <2>1. i \in 1..(k + l) /\ i + 1 \in 1..(k + l)
    BY <1>1
  <2>2. CASE i + 1 <= k
    <3>1. i \in 1..(k - 1) /\ c[i] = a[i] /\ c[i + 1] = a[i + 1]
      BY <1>1, <1>2, <2>1, <2>2
    <3> QED BY <1>1, <3>1 DEF Tight
  <2>3. CASE i = k
    <3>1. c[i] = a[k] /\ c[i + 1] = b[1] /\ k # 0 /\ l # 0
      BY <1>1, <1>2, <2>1, <2>3
    <3> QED BY <1>3, <3>1
  <2>4. CASE i > k
    <3>1. PICK j : j = i - k /\ j \in 1..(l - 1) /\ i + 1 - k = j + 1
      BY <1>1, <2>4
    <3>2. c[i] = b[j] /\ c[i + 1] = b[j + 1]
      BY <1>1, <1>2, <2>1, <2>4, <3>1
    <3> QED BY <1>1, <3>1, <3>2 DEF Tight
  <2> QED BY <1>1, <2>2, <2>3, <2>4
<1> QED BY <1>1, <1>2, <1>4 DEF Tight

\* What lexically_normal keeps of its result: besides its order, that it is
\* exact and that no separator is redundant.
Neat == {q \in Ordered : Exact(q) /\ Tight(q.str)}

\* A text without redundant separators is split into a neat object.
LEMMA SplitNeat ==
    ASSUME NEW s \in Text, Tight(s)
    PROVE  Split(s) \in Neat
<1>1. Split(s) \in Ordered /\ Exact(Split(s))
  BY SplitOrdered, SplitExact
<1>2. Tight(Split(s).str)
  <2>1. CASE s = <<>>
    BY <2>1, EmptyIs, TightName
  <2>2. CASE s # <<>>
    <3>1. Split(s).str = s \/ \E w : (IsName(w) \/ w = <<Sep>>) /\ Split(s) = Split(w)
      BY <2>2, SplitIs
    <3>2. \A w : IsName(w) \/ w = <<Sep>> => Tight(Split(w).str)
      BY SplitSingle, TightName
    <3> QED BY <3>1, <3>2
  <2> QED BY <2>1, <2>2
<1> QED BY <1>1, <1>2 DEF Neat

\* The default object is neat.
LEMMA EmptyNeat ==
    Empty \in Neat
<1>1. Empty \in Ordered
  <2>1. Len(Empty.cmpts) = 0
    BY EmptyIs
  <2> QED BY <2>1, EmptyIs DEF Ordered
<1>2. Exact(Empty)
  BY EmptyIs DEF Exact, Matches
<1>3. Tight(Empty.str)
  BY EmptyIs, TightName
<1> QED BY <1>1, <1>2, <1>3 DEF Neat

\* A neat object stays neat when a name is appended to it, or nothing, or when
\* an absolute path takes its place.
LEMMA AppendNeat ==
    ASSUME NEW q \in Neat, NEW r \in Neat, IsName(r.str) \/ r.str = <<>> \/ IsAbsolute(r)
    PROVE  AppendPath(q, r) \in Neat
<1>1. CASE IsAbsolute(r)
  BY <1>1 DEF AppendPath
<1>2. CASE ~IsAbsolute(r)
  <2>1. PICK a, b, sep : a = q.str /\ b = r.str /\ sep = IF HasFilename(q) THEN <<Sep>> ELSE <<>>
    OBVIOUS
  <2>2. a \in Text /\ b \in Text /\ sep \in Text /\ Tight(a) /\ Tight(b) /\ Tight(sep)
    BY <2>1, ObjectIs, Characters, TightName DEF Neat, Ordered
  <2>3. HasFilename(q) <=> a # <<>> /\ Last(a) # Sep
    BY <2>1, ExactFilename DEF Neat
  <2>4. a \o sep \in Text /\ Tight(a \o sep)
    BY <2>1, <2>2, <2>3, TightJoin
  <2>5. b = <<>> \/ b[1] # Sep
    <3>1. IsName(b) => b[1] # Sep
      <4>1. IsName(b) => 1 \in 1..Len(b)
        BY <2>2 DEF IsName, Text
      <4> QED BY <4>1 DEF IsName
    <3> QED BY <1>2, <2>1, <3>1
  <2>6. (a \o sep) \o b \in Text /\ Tight((a \o sep) \o b)
    BY <2>2, <2>4, <2>5, TightJoin
  <2>7. AppendPath(q, r) = Split((a \o sep) \o b)
    BY <1>2, <2>1 DEF AppendPath
  <2> QED BY <2>6, <2>7, SplitNeat
<1> QED BY <1>1, <1>2

\* So does remove_filename keep it.
LEMMA RemoveNeat ==
    ASSUME NEW q \in Neat
    PROVE  RemoveFilename(q) \in Neat
<1>1. q \in Ordered /\ q \in Objects /\ Exact(q) /\ Tight(q.str) /\ q.str \in Text
  BY ObjectIs DEF Neat, Ordered
<1>2. CASE RemovesComponent(q)
  <2>1. PICK n : n = Len(q.cmpts)
    OBVIOUS
  <2>2. n # 1
    <3> SUFFICES ASSUME n = 1 PROVE FALSE
      OBVIOUS
    <3>1. Last(q.cmpts) = q.cmpts[1]
      BY <2>1 DEF Last
    <3>2. q.cmpts[1].type = "ROOT_DIR"
      BY <1>1, <2>1 DEF Ordered
    <3> QED BY <1>2, <3>1, <3>2 DEF RemovesComponent
  <2>3. PICK r : r = RemoveAfter(q, q.cmpts[n - 1].type)
    OBVIOUS
  <2>4. r \in Ordered
    BY <1>1, <1>2, <2>1, <2>3, RemoveAfterOrdered
  <2>5. /\ Exact(r) /\ q.cmpts[n].pos \in 0..Len(q.str)
        /\ r.str = <<Sep>> \/ r.str = SubSeq(q.str, 1, q.cmpts[n].pos)
    BY <1>1, <1>2, <2>1, <2>2, <2>3, RemoveExact
  <2>6. Tight(r.str)
    BY <1>1, <2>5, TightName, TightPrefix
  <2>7. RemoveFilename(q) = r
    BY <1>2, <2>1, <2>3 DEF RemoveFilename
  <2> QED BY <2>4, <2>5, <2>6, <2>7 DEF Neat
<1>3. CASE ~RemovesComponent(q)
  <2>1. RemoveFilename(q) \in {Split(<<>>), q}
    BY <1>3 DEF RemoveFilename
  <2> QED BY <2>1, Characters, TightName, SplitNeat
<1> QED BY <1>2, <1>3

\* An exact object whose last name is empty: the components of its text, and
\* an empty one.
LEMMA EndsEmpty ==
    ASSUME NEW q, Exact(q), q.type = "MULTI", Len(q.cmpts) > 1, q.cmpts[Len(q.cmpts)].text = <<>>
    PROVE  /\ q.str \in Text /\ q.str # <<>> /\ Last(q.str) = Sep
           /\ LastName(q.str).type = "FILENAME"
           /\ Len(Scan(q.str)) = Len(q.cmpts) - 1
           /\ \A i \in 1..(Len(q.cmpts) - 1) : q.cmpts[i] = Scan(q.str)[i]
           /\ q.cmpts[Len(q.cmpts)].type = "FILENAME"
<1>1. PICK s, cs, n : s = q.str /\ cs = q.cmpts /\ n = Len(cs)
  OBVIOUS
<1>2. PICK ds, m : ds = Scan(s) /\ m = Len(ds)
  OBVIOUS
<1>3. s \in Text /\ cs \in Seq(Comps) /\ n \in Nat /\ Matches(s, cs) /\ (cs = <<>> <=> n = 0)
  BY <1>1, ObjectIs DEF Exact
<1>4. s # <<>> /\ n \in 1..n
  BY <1>1, <1>3 DEF Matches
<1>5. m \in Nat /\ ds \in Seq(Comps) /\ Proper(ds)
  BY <1>2, <1>3, ScanType, ScanShape, LenProperties
<1>6. /\ m <= n /\ \A i \in 1..m : cs[i] = ds[i]
      /\ n \notin 1..m => cs[n].type = "FILENAME"
  BY <1>1, <1>2, <1>3, <1>4, MatchesTexts
<1>7. n \notin 1..m
  <2> SUFFICES ASSUME n \in 1..m PROVE FALSE
    OBVIOUS
  <2>1. cs[n] = ds[n] /\ (ds[n].text = <<Sep>> \/ IsName(ds[n].text))
    BY <1>2, <1>5, <1>6 DEF Proper
  <2>2. ds[n].text # <<>>
    <3>1. <<Sep>> # <<>>
      OBVIOUS
    <3> QED BY <2>1, <3>1, NameIsNoSep
  <2> QED BY <1>1, <2>1, <2>2
<1>8. EndsInSep(s)
  <2>1. cs # ds
    BY <1>1, <1>2, <1>4, <1>7
  <2> QED BY <1>2, <1>3, <1>4, <2>1 DEF Matches
<1>9. m = n - 1
  <2>1. PICK e \in Comps : cs = Append(ds, e)
    BY <1>2, <1>3, <1>4, <1>8 DEF Matches
  <2>2. n = m + 1
    BY <1>1, <1>2, <1>5, <2>1, AppendProperties
  <2> QED BY <1>5, <2>2
<1> QED BY <1>1, <1>2, <1>3, <1>4, <1>6, <1>7, <1>8, <1>9 DEF EndsInSep

\* The edit in place leaves a neat object.
LEMMA DropNeat ==
    ASSUME NEW q \in Neat, ~HasFilename(q), HasRelativePath(q)
    PROVE  DropDirectory(q) \in Neat
<1>1. PICK s, cs, n, ds : s = q.str /\ cs = q.cmpts /\ n = Len(cs) /\ ds = Scan(s)
  OBVIOUS
<1>2. q \in Ordered /\ q \in Objects /\ Exact(q) /\ Tight(s) /\ cs \in Seq(Comps)
  BY <1>1, ObjectIs DEF Neat, Ordered
<1>3. n \in Nat /\ n > 1 /\ q.type = "MULTI" /\ cs[n].text = <<>>
  BY <1>1, <1>2, DropsName
<1>4. /\ s \in Text /\ s # <<>> /\ LastName(s).type = "FILENAME"
      /\ Len(ds) = n - 1 /\ (\A i \in 1..(n - 1) : cs[i] = ds[i]) /\ cs[n].type = "FILENAME"
  BY <1>1, <1>2, <1>3, EndsEmpty
<1>5. CASE n = 2
  BY <1>1, <1>5, Characters, TightName, SplitNeat DEF DropDirectory
<1>6. CASE n # 2
  <2>1. PICK k, m : k = n - 2 /\ m = n - 1
    OBVIOUS
  <2>2. k \in Nat /\ k \in 1..n /\ m \in 1..n /\ k \in 1..m /\ m \in 1..m /\ m = k + 1 /\ n \in 1..n
    BY <1>3, <1>6, <2>1
  <2>3. ds \in Seq(Comps) /\ Len(ds) = m /\ LastName(s) = ds[m] /\ cs[m] = ds[m] /\ cs[k] = ds[k]
        /\ ds # <<>> /\ \A i \in 1..m : cs[i] = ds[i]
    <3>1. Len(ds) = m /\ LastName(s) = ds[m] /\ \A i \in 1..m : cs[i] = ds[i]
      BY <1>1, <1>4, <2>1 DEF LastName
    <3>2. ds \in Seq(Comps)
      BY <1>1, <1>4, ScanType
    <3> QED BY <2>2, <3>1, <3>2
  <2>4. PICK b, t : b = cs[m].pos /\ t = SubSeq(s, 1, b)
    OBVIOUS
  <2>5. t \in Text /\ Scan(t) = SubSeq(ds, 1, k) /\ (t = <<>> \/ Last(t) = Sep)
    <3>1. Scan(s) # <<>> /\ LastName(s).pos = b /\ Len(Scan(s)) - 1 = k
      BY <1>1, <2>2, <2>3, <2>4
    <3> QED BY <1>1, <1>4, <2>4, <3>1, ScanCut DEF CutsAt
  <2>6. Tight(t)
    <3>1. ds[m] \in Comps
      BY <2>2, <2>3
    <3>2. End(ds[m]) <= Len(s) /\ Len(s) \in Nat
      BY <1>1, <1>4, <2>2, <2>3, ScanShape, LenProperties DEF Lies, Text
    <3>3. b \in 0..Len(s)
      BY <2>3, <2>4, <3>1, <3>2, CompType
    <3> QED BY <1>2, <1>4, <2>4, <3>3, TightPrefix
  <2>7. PICK ps : ps = Scan(t) /\ ps = SubSeq(ds, 1, k)
    BY <2>5
  <2>8. Len(ps) = k /\ ps[k] = cs[k] /\ ps # <<>> /\ \A i \in 1..k : ps[i] = cs[i]
    <3>1. k \in 0..Len(ds)
      BY <2>2, <2>3
    <3>2. Len(ps) = k /\ \A i \in 1..k : ps[i] = ds[i]
      BY <2>3, <2>7, <3>1, PrefixIs
    <3>3. \A i \in 1..k : i \in 1..m
      BY <2>2
    <3> QED BY <2>2, <2>3, <3>2, <3>3
  <2>9. SubSeq(cs, 1, k) = ps
    <3>1. k \in 0..Len(cs)
      BY <1>1, <1>3, <2>2
    <3>2. SubSeq(cs, 1, k) \in Seq(Comps) /\ Len(SubSeq(cs, 1, k)) = k
          /\ \A i \in 1..k : SubSeq(cs, 1, k)[i] = cs[i]
      BY <1>2, <3>1, PrefixIs
    <3>3. ps \in Seq(Comps)
      BY <2>5, <2>7, ScanType
    <3> QED BY <2>8, <3>2, <3>3, SeqEqual
  <2>10. PICK es : es = IF cs[k].type = "FILENAME" THEN ps \o <<cs[n]>> ELSE ps
    OBVIOUS
  <2>11. DropDirectory(q) = [q EXCEPT !.str = t, !.cmpts = es]
    BY <1>1, <1>6, <2>1, <2>4, <2>9, <2>10 DEF DropDirectory
  <2>12. PICK r : r = DropDirectory(q)
    OBVIOUS
  <2>13. r.str = t /\ r.cmpts = es /\ r.type = "MULTI"
    BY <1>2, <1>3, <2>11, <2>12 DEF Objects
  <2>14. r \in Ordered /\ r \in Objects
    BY <1>2, <2>12, DropDirectoryOrdered DEF Ordered
  <2>15. t # <<>> /\ LastName(t) = cs[k] /\ Last(t) = Sep
    <3>1. t # <<>>
      BY <2>7, <2>8, EmptyIs
    <3> QED BY <2>5, <2>7, <2>8, <3>1 DEF LastName
  <2>16. Matches(t, es)
    <3>1. CASE cs[k].type = "FILENAME"
      <4>1. cs[n] \in Comps /\ ps \in Seq(Comps)
        BY <1>1, <1>2, <1>3, <2>2, <2>5, <2>7, ScanType
      <4>2. es = Append(ps, cs[n])
        BY <2>10, <3>1, <4>1, AppendIsConcat
      <4> QED BY <1>3, <1>4, <2>7, <2>15, <3>1, <4>1, <4>2 DEF Matches, EndsInSep
    <3>2. CASE cs[k].type # "FILENAME"
      BY <2>7, <2>10, <2>15, <3>2 DEF Matches, EndsInSep
    <3> QED BY <3>1, <3>2
  <2> QED BY <2>6, <2>12, <2>13, <2>14, <2>16 DEF Neat, Exact
<1> QED BY <1>5, <1>6

\* The elements of a path.
Plain(e) == IsName(e) \/ e = <<Sep>> \/ e = <<>>

\* A turn of lexically_normal leaves a neat object.
LEMMA NormalStepNeat ==
    ASSUME NEW ret \in Neat, NEW e, Plain(e)
    PROVE  NormalStep(ret, e) \in Neat
<1>1. AppendPath(ret, Empty) \in Neat
  BY EmptyNeat, EmptyIs, AppendNeat
<1>2. ASSUME NEW w, Plain(w) PROVE AppendPath(ret, Split(w)) \in Neat
  <2>1. w \in Text /\ Tight(w)
    BY <1>2, TightName, Characters DEF Plain, IsName
  <2>2. Split(w) \in Neat
    BY <2>1, SplitNeat
  <2>3. IsName(Split(w).str) \/ Split(w).str = <<>> \/ IsAbsolute(Split(w))
    BY <1>2, SplitSingle, EmptyIs DEF Plain, IsAbsolute, HasRootDirectory
  <2> QED BY <2>2, <2>3, AppendNeat
<1>3. IsName(DotDot)
  BY Characters DEF IsName, DotDot
<1>4. AppendPath(ret, Split(DotDot)) \in Neat
  BY <1>2, <1>3 DEF Plain
<1>5. ~HasFilename(ret) /\ HasRelativePath(ret) => DropDirectory(ret) \in Neat
  BY DropNeat
<1>6. NormalDotDot(ret) \in Neat
  BY <1>4, <1>5, RemoveNeat DEF NormalDotDot
<1> QED BY <1>1, <1>2, <1>6 DEF NormalStep

\* The elements of a formed object are plain.
LEMMA ElementsPlain ==
    ASSUME NEW q, Formed(q)
    PROVE  \A i \in 1..Len(Elements(q)) : Plain(Elements(q)[i])
<1>1. PICK s, cs, n : s = q.str /\ cs = q.cmpts /\ n = Len(cs)
  OBVIOUS
<1>2. q \in Objects /\ s \in Text /\ cs \in Seq(Comps) /\ n \in Nat
  BY <1>1, ObjectIs DEF Formed
<1>3. CASE q.type = "MULTI"
  <2>1. Elements(q) = [i \in 1..n |-> cs[i].text]
    BY <1>1, <1>2, <1>3, LenProperties DEF Elements, TextsOf
  <2>2. \A i \in 1..n : Plain(cs[i].text)
    BY <1>1, <1>3 DEF Formed, Listed, Plain
  <2>3. Len(Elements(q)) = n
    BY <1>2, <2>1
  <2> QED BY <2>1, <2>2, <2>3
<1>4. CASE q.type # "MULTI" /\ s = <<>>
  <2>1. Elements(q) = <<>> /\ Len(<<>>) = 0
    BY <1>1, <1>4 DEF Elements
  <2> QED BY <2>1
<1>5. CASE q.type # "MULTI" /\ s # <<>>
  <2>1. q = Split(s)
    BY <1>1, <1>5 DEF Formed
  <2>2. PICK w : (IsName(w) \/ w = <<Sep>>) /\ q = Split(w)
    BY <1>2, <1>5, <2>1, SplitIs
  <2>3. q.str = w
    BY <2>2, SplitSingle
  <2>4. Elements(q) = <<w>>
    BY <1>1, <1>5, <2>3 DEF Elements
  <2>5. Len(<<w>>) = 1 /\ <<w>>[1] = w /\ \A i \in 1..1 : i = 1
    OBVIOUS
  <2> QED BY <2>2, <2>4, <2>5 DEF Plain
<1> QED BY <1>3, <1>4, <1>5

\* The loop of lexically_normal leaves a neat object.
LEMMA NormalizedNeat ==
    ASSUME NEW q, Formed(q)
    PROVE  Normalized(Elements(q)) \in Neat
<1>1. Elements(q) \in Seq(Text)
  BY ElementsType DEF Formed
<1>2. \A ret \in Neat, i \in 1..Len(Elements(q)) : NormalStep(ret, Elements(q)[i]) \in Neat
  BY ElementsPlain, NormalStepNeat
<1> QED BY <1>1, <1>2, EmptyNeat, NormalizedIn

\* A text without its last character, put back.
LEMMA FrontIs ==
    ASSUME NEW s \in Text, s # <<>>
    PROVE  /\ Front(s) \in Text /\ s = Append(Front(s), Last(s)) /\ Len(Front(s)) = Len(s) - 1
           /\ Last(s) \in Alphabet /\ Len(s) \in Nat /\ Len(s) > 0
           /\ Tight(s) /\ Last(s) = Sep /\ Front(s) # <<>> => Last(Front(s)) # Sep
<1>1. PICK n, k, f, c : n = Len(s) /\ k = n - 1 /\ f = SubSeq(s, 1, k) /\ c = s[n]
  OBVIOUS
<1>2. n \in Nat /\ n > 0 /\ k \in Nat /\ k \in 0..n /\ n = k + 1 /\ n \in 1..n /\ c \in Alphabet
  BY <1>1 DEF Text
<1>3. Front(s) = f /\ Last(s) = c
  BY <1>1 DEF Front, Last
<1>4. f \in Text /\ Len(f) = k /\ \A i \in 1..k : f[i] = s[i]
  BY <1>1, <1>2, PrefixIs DEF Text
<1>5. PICK t : t = Append(f, c)
  OBVIOUS
<1>6. t \in Seq(Alphabet) /\ Len(t) = n /\ t[n] = c /\ \A i \in 1..k : t[i] = f[i]
  BY <1>2, <1>4, <1>5, AppendProperties DEF Text
<1>7. \A i \in 1..n : t[i] = s[i]
  BY <1>1, <1>2, <1>4, <1>6
<1>8. t = s
  BY <1>1, <1>6, <1>7, SeqEqual DEF Text
<1>9. ASSUME Tight(s), c = Sep, f # <<>> PROVE Last(f) # Sep
  <2>1. k # 0
    BY <1>4, <1>9, EmptySeq DEF Text
  <2>2. k \in 1..(n - 1) /\ k \in 1..k
    BY <1>2, <2>1
  <2>3. <<s[k], s[k + 1]>> # <<Sep, Sep>>
    BY <1>1, <1>9, <2>2 DEF Tight
  <2>4. Last(f) = s[k]
    BY <1>4, <2>2 DEF Last
  <2> QED BY <1>1, <1>2, <1>9, <2>3, <2>4
<1> QED BY <1>1, <1>2, <1>3, <1>4, <1>5, <1>8, <1>9

\* lexically_normal leaves an exact object.
LEMMA LexicallyNormalExact ==
    ASSUME NEW q, Formed(q), NEW elided \in BOOLEAN
    PROVE  Exact(LexicallyNormal(q, elided))
<1>1. PICK ret, n, cs, s : ret = Normalized(Elements(q)) /\ n = Len(ret.cmpts) /\ cs = ret.cmpts /\ s = ret.str
  OBVIOUS
<1>2. ret \in Ordered /\ ret \in Objects /\ Exact(ret) /\ Tight(s)
  BY <1>1, NormalizedNeat DEF Neat, Ordered
<1>3. s \in Text /\ cs \in Seq(Comps) /\ n \in Nat /\ (n > 0 => ret.type = "MULTI")
  BY <1>1, <1>2, ObjectIs DEF Ordered
<1>4. Exact(Split(DotName)) /\ Exact(Empty)
  BY Characters, SplitExact, EmptyNeat DEF Neat
<1>5. ASSUME NEW x, Exact(x) PROVE Exact(Returned(x, elided))
  BY <1>5, ObjectIs, SplitExact DEF Returned, Exact
<1>6. PICK last : last = [ret EXCEPT !.str = Front(@), !.cmpts = Front(@)]
  OBVIOUS
<1>7. ASSUME n >= 2, cs[n].text = <<>>, cs[n - 1].text = DotDot PROVE Exact(last)
  <2>1. PICK k : k = n - 1
    OBVIOUS
  <2>2. k \in Nat /\ k \in 0..n /\ k \in 1..k /\ n > 1 /\ n - 1 = k
    BY <1>3, <1>7, <2>1
  <2>3. /\ s # <<>> /\ Last(s) = Sep /\ Len(Scan(s)) = k
        /\ \A i \in 1..k : cs[i] = Scan(s)[i]
    <3>1. ret.type = "MULTI" /\ Len(ret.cmpts) > 1 /\ ret.cmpts[Len(ret.cmpts)].text = <<>>
      BY <1>1, <1>3, <1>7, <2>2
    <3>2. /\ s # <<>> /\ Last(s) = Sep /\ Len(Scan(s)) = Len(ret.cmpts) - 1
          /\ \A i \in 1..(Len(ret.cmpts) - 1) : ret.cmpts[i] = Scan(s)[i]
      BY <1>1, <1>2, <3>1, EndsEmpty
    <3> QED BY <1>1, <2>1, <3>2
  <2>4. PICK u, v : u = Front(s) /\ v = Front(cs)
    OBVIOUS
  <2>5. u \in Text /\ s = Append(u, Sep) /\ (u # <<>> => Last(u) # Sep)
    BY <1>2, <1>3, <2>3, <2>4, FrontIs
  <2>6. v \in Seq(Comps) /\ Len(v) = k /\ \A i \in 1..k : v[i] = cs[i]
    <3>1. v = SubSeq(cs, 1, k)
      BY <1>1, <2>1, <2>4 DEF Front
    <3> QED BY <1>1, <1>3, <2>2, <3>1, PrefixIs
  <2>7. u # <<>>
    <3>1. SUFFICES ASSUME u = <<>> PROVE FALSE
      OBVIOUS
    <3>2. Scan(s)[k].text = DotDot
      BY <1>7, <2>1, <2>2, <2>3
    <3>3. Scan(s) = <<RootDir>>
      BY <2>5, <3>1, Characters, ScanTurns
    <3>4. Len(<<RootDir>>) = 1 /\ <<RootDir>>[1] = RootDir
      OBVIOUS
    <3>5. k = 1
      BY <2>3, <3>3, <3>4
    <3>6. RootDir.text = DotDot
      BY <3>2, <3>3, <3>4, <3>5
    <3> QED BY <3>6 DEF RootDir, Component, DotDot
  <2>8. Scan(u) = Scan(s)
    BY <2>5, <2>7, ScanSep
  <2>9. v = Scan(u)
    <3>1. Scan(u) \in Seq(Comps) /\ Len(Scan(u)) = k /\ \A i \in 1..k : v[i] = Scan(u)[i]
      BY <2>3, <2>5, <2>6, <2>8, ScanType
    <3> QED BY <2>6, <3>1, SeqEqual
  <2>10. last.str = u /\ last.cmpts = v /\ last.type = "MULTI"
    BY <1>1, <1>2, <1>3, <1>6, <2>2, <2>4 DEF Objects
  <2>11. last \in Objects
    <3>1. \A i \in 1..Len(v) : Named(v[i])
      <4>1. \A i \in 1..k : i \in 1..n
        BY <1>3, <2>1
      <4> QED BY <1>1, <1>2, <2>6, <4>1, ObjectIs
    <3>2. last = [ret EXCEPT !.str = u, !.cmpts = v]
      BY <1>1, <1>6, <2>4
    <3>3. [ret EXCEPT !.str = u, !.cmpts = v] \in Objects
      BY <1>2, <2>5, <2>6, <2>10, <3>1, <3>2 DEF Objects
    <3> QED BY <3>2, <3>3
  <2>12. Matches(u, v)
    BY <2>5, <2>7, <2>9 DEF Matches, EndsInSep
  <2> QED BY <2>10, <2>11, <2>12 DEF Exact
<1>8. \/ LexicallyNormal(q, elided) \in {Empty, Split(DotName), Returned(ret, elided)}
      \/ /\ n >= 2 /\ cs[n].text = <<>> /\ cs[n - 1].text = DotDot
         /\ LexicallyNormal(q, elided) = Returned(last, elided)
  BY <1>1, <1>6 DEF LexicallyNormal
<1> QED BY <1>2, <1>4, <1>5, <1>7, <1>8

-----------------------------------------------------------------------------
(* What every call leaves of it.                                           *)

\* operator/= with an exact argument leaves an exact object.
LEMMA AppendExact ==
    ASSUME NEW q \in Objects, NEW r, Exact(r)
    PROVE  Exact(AppendPath(q, r))
<1>1. r \in Objects
  BY DEF Exact
<1>2. AppendPath(q, r) = r \/ \E x \in Text : AppendPath(q, r) = Split(x)
  BY <1>1, AppendPathType
<1> QED BY <1>2, SplitExact

\* relative_path leaves an exact object, or the same.
LEMMA RelativePathExact ==
    ASSUME NEW q \in Objects, ~RelativePathThrows(q)
    PROVE  RelativePath(q) = q \/ Exact(RelativePath(q))
<1>1. Exact(Empty)
  BY EmptyNeat DEF Neat
<1>2. RelativePath(q) \in {q, Empty} \/ \E x \in Text : RelativePath(q) = Split(x)
  BY RelativePathType
<1> QED BY <1>1, <1>2, SplitExact

\* lexically_relative leaves an exact object.
LEMMA LexicallyRelativeExact ==
    ASSUME NEW q \in Objects, NEW base \in Objects
    PROVE  Exact(LexicallyRelative(q, base))
<1>1. Exact(Empty) /\ Exact(Split(DotName))
  BY EmptyNeat, Characters, SplitExact DEF Neat
<1>2. ASSUME NEW es \in Seq(Text) PROVE Exact(Appended(es))
  <2>1. PICK D : D = {x \in Objects : Exact(x)}
    OBVIOUS
  <2>2. Empty \in D
    BY <1>1, <2>1, EmptyIs
  <2>3. \A x \in D, w \in Text : AppendPath(x, Split(w)) \in D
    BY <2>1, SplitExact, AppendExact DEF Exact
  <2>4. Appended(es) \in D
    BY <2>2, <2>3, AppendedIn
  <2> QED BY <2>1, <2>4
<1>3. \/ LexicallyRelative(q, base) \in {Empty, Split(DotName)}
      \/ \E es \in Seq(Text) : LexicallyRelative(q, base) = Appended(es)
  BY LexicallyRelativeType
<1> QED BY <1>1, <1>2, <1>3

\* parent_path leaves names in order, though not where they are in the text.
LEMMA ParentFormed ==
    ASSUME NEW q, Formed(q), NEW elided \in BOOLEAN
    PROVE  Formed(ParentPath(q, elided))
<1>1. PICK d \in {1, 2} : d = IF Last(q.cmpts).text = <<>> THEN 2 ELSE 1
  OBVIOUS
<1>2. PICK qs, n, m, cs : qs = q.cmpts /\ n = Len(qs) /\ m = n - d /\ cs = SubSeq(qs, 1, m)
  OBVIOUS
<1>3. q \in Objects /\ qs \in Seq(Comps) /\ n \in Nat
  BY <1>2, ObjectIs DEF Formed
<1>4. PICK r : r = [str |-> Joined(cs), cmpts |-> cs, type |-> "MULTI"]
  OBVIOUS
<1>5. ParentPath(q, elided) \in {q, Empty} \/ (q.type = "MULTI" /\ ParentPath(q, elided) = Returned(r, elided))
  BY <1>1, <1>2, <1>4 DEF ParentPath
<1>6. CASE ParentPath(q, elided) \in {q, Empty}
  <2>1. Formed(Empty)
    BY EmptyNeat, ExactFormed DEF Neat
  <2> QED BY <1>6, <2>1
<1>7. CASE ParentPath(q, elided) \notin {q, Empty}
  <2>1. /\ q.type = "MULTI" /\ ParentPath(q, elided) = Returned(r, elided)
        /\ ParentPath(q, TRUE) = r
    BY <1>1, <1>2, <1>4, <1>7 DEF ParentPath, Returned
  <2>2. r \in Objects /\ r.str \in Text
    BY <1>3, <2>1, ParentPathType, ObjectIs
  <2>3. \A i \in 1..Len(cs) : i \in 1..n /\ i < n /\ cs[i] = qs[i]
    <3>1. m \in Int /\ m < n /\ \A i \in 1..m : qs[i] \in Comps
      <4>1. \A i \in 1..n : qs[i] \in Comps
        BY <1>2, <1>3, ElementOfSeq
      <4>2. m \in Int /\ m < n
        <5>1. m = n - d /\ (d = 1 \/ d = 2)
          BY <1>1, <1>2
        <5> QED BY <1>3, <5>1
      <4> QED BY <1>3, <4>1, <4>2
    <3>2. /\ Len(cs) = IF 1 <= m THEN m - 1 + 1 ELSE 0
          /\ \A i \in 1..m - 1 + 1 : cs[i] = qs[1 + i - 1]
      BY <1>2, <3>1, SubSeqProperties
    <3>3. m - 1 + 1 = m /\ \A i \in 1..m : 1 + i - 1 = i
      BY <3>1
    <3>4. \A i \in 1..Len(cs) : i \in 1..m /\ cs[i] = qs[i]
      BY <3>1, <3>2, <3>3
    <3> QED BY <1>3, <3>1, <3>4
  <2>4. Listed(qs)
    BY <1>2, <2>1 DEF Formed
  <2>5. ASSUME NEW i \in 1..Len(cs)
        PROVE  /\ cs[i].type = "ROOT_DIR" => i = 1 /\ cs[i].text = <<Sep>> /\ cs[i].pos = 0
               /\ cs[i].type # "ROOT_DIR" => IsName(cs[i].text) \/ (cs[i].text = <<>> /\ i = Len(cs))
               /\ i > 1 /\ cs[i].text # <<>> => End(cs[i - 1]) <= cs[i].pos
    <3>1. i \in 1..n /\ i < n /\ i # n /\ cs[i] = qs[i]
      BY <1>3, <2>3
    <3>2. i > 1 => i - 1 \in 1..Len(cs) /\ cs[i - 1] = qs[i - 1]
      <4>1. i > 1 => i - 1 \in 1..Len(cs)
        OBVIOUS
      <4> QED BY <2>3, <4>1
    <3> QED BY <1>2, <2>4, <3>1, <3>2 DEF Listed
  <2>6. r.type = "MULTI" /\ r.cmpts = cs
    BY <1>4
  <2>7. Formed(r)
    BY <2>2, <2>5, <2>6 DEF Formed, Listed
  <2>8. Formed(Split(r.str))
    BY <2>2, SplitExact, ExactFormed
  <2> QED BY <2>1, <2>7, <2>8 DEF Returned
<1> QED BY <1>6, <1>7

\* remove_filename leaves them in order too, whichever branch it takes; and if
\* the branch is defined, it keeps an object exact.
LEMMA RemovedFormed ==
    ASSUME NEW q, Formed(q), ~RemoveThrows(q), NEW r \in Removed(q)
    PROVE  /\ Formed(r)
           /\ Exact(q) /\ ~RemoveIsUndefined(q) => Exact(r)
<1>1. q \in Objects
  BY DEF Formed
<1>2. CASE RemovesComponent(q)
  <2>1. PICK n, e : n = Len(q.cmpts) /\ e = q.cmpts[n] /\ e = Last(q.cmpts)
    BY DEF Last
  <2>2. n \in 1..n /\ e.pos \in Nat /\ Len(q.str) \in Nat
    <3>1. n \in Nat /\ n # 0
      BY <1>1, <1>2, <2>1, ObjectIs DEF RemovesComponent
    <3>2. n \in 1..n
      BY <3>1
    <3> QED BY <1>1, <2>1, <3>2, ObjectIs
  <2>3. e.pos <= Len(q.str)
    BY <1>2, <2>1, <2>2 DEF RemoveThrows
  <2>4. RemoveIsUndefined(q) <=> n = 1
    BY <1>2, <2>1 DEF RemoveIsUndefined
  <2>5. CASE n = 1
    <3>1. PICK before : r = RemoveAfter(q, before)
      BY <2>4, <2>5 DEF Removed
    <3> QED BY <1>2, <2>1, <2>3, <2>4, <2>5, <3>1, RemoveFormed
  <2>6. CASE n # 1
    <3>1. PICK before : before = q.cmpts[Len(q.cmpts) - 1].type
      OBVIOUS
    <3>2. r = RemoveAfter(q, before)
      BY <1>2, <2>4, <2>6, <3>1 DEF Removed, RemoveFilename
    <3>3. Formed(r)
      BY <1>2, <2>1, <2>3, <3>1, <3>2, RemoveFormed
    <3>4. Exact(q) => Exact(r)
      BY <1>2, <2>1, <2>6, <3>1, <3>2, RemoveExact
    <3> QED BY <3>3, <3>4
  <2> QED BY <2>5, <2>6
<1>3. CASE ~RemovesComponent(q)
  <2>1. r \in {Split(<<>>), q}
    BY <1>3 DEF Removed, RemoveFilename, RemoveIsUndefined
  <2>2. Exact(Split(<<>>)) /\ Formed(Split(<<>>))
    BY Characters, SplitExact, ExactFormed
  <2> QED BY <2>1, <2>2
<1> QED BY <1>2, <1>3

\* The names of the object are in order, whatever calls it has been through.
InForm == Formed(p)

\* What one call does to the object.
LEMMA CallKeeps ==
    ASSUME InForm, [Next]_vars
    PROVE  /\ InForm'
           /\ \/ Exact(p) => Exact(p')
              \/ fault' = "undefined"
              \/ \E elided \in BOOLEAN : p' = ParentPath(p, elided)
<1> DEFINE Kept == /\ Formed(p')
                   /\ \/ Exact(p) => Exact(p')
                      \/ fault' = "undefined"
                      \/ \E elided \in BOOLEAN : p' = ParentPath(p, elided)
<1>1. SUFFICES Kept
  BY DEF InForm
<1>2. Formed(p) /\ p \in Objects /\ p.str \in Text
  BY ObjectIs DEF InForm, Formed
<1>3. \A q : Exact(q) => Formed(q)
  BY ExactFormed
<1>4. ASSUME Exact(p') \/ p' = p PROVE Kept
  BY <1>2, <1>3, <1>4
<1>5. \A r \in Args : Exact(r) /\ r \in Objects /\ r.str \in Text
  <2>1. ASSUME NEW n \in Nat, NEW t \in Texts(n) PROVE t \in Text
    BY DEF Texts, Text
  <2>2. \A t \in Texts(MaxArg) : t \in Text
    BY <2>1, BoundsAssumption
  <2>3. \A t \in Text : Exact(Split(t)) /\ Split(t) \in Objects /\ Split(t).str \in Text
    BY SplitExact, ObjectIs DEF Exact
  <2> QED BY <2>2, <2>3 DEF Args
<1>6. CASE Assign
  <2>1. PICK r \in Args : p' = r
    BY <1>6 DEF Assign, Becomes
  <2>2. Exact(p')
    BY <1>5, <2>1
  <2> QED BY <1>4, <2>2
<1>7. CASE MoveConstruct
  <2>1. Exact(p')
    BY <1>2, <1>7, SplitExact DEF MoveConstruct, Becomes
  <2> QED BY <1>4, <2>1
<1>8. CASE CallAppend
  <2>1. PICK r \in Args : p' = AppendPath(p, r)
    BY <1>8 DEF CallAppend, Becomes
  <2>2. Exact(p')
    BY <1>2, <1>5, <2>1, AppendExact
  <2> QED BY <1>4, <2>2
<1>9. CASE CallConcat
  <2>1. PICK r \in Args : p' = Split(p.str \o r.str)
    BY <1>9 DEF CallConcat, Becomes, Concat
  <2>2. p.str \o r.str \in Text
    BY <1>2, <1>5, ConcatProperties DEF Text
  <2>3. Exact(p')
    BY <2>1, <2>2, SplitExact
  <2> QED BY <1>4, <2>3
<1>10. CASE Clear
  <2>1. Exact(p')
    BY <1>10, Characters, SplitExact DEF Clear, Becomes
  <2> QED BY <1>4, <2>1
<1>11. CASE ToParentPath
  <2>1. p' = p \/ \E elided \in BOOLEAN : p' = ParentPath(p, elided)
    BY <1>11 DEF ToParentPath, Becomes, Throws
  <2>2. CASE p' = p
    BY <1>4, <2>2
  <2>3. CASE p' # p
    <3>1. PICK elided \in BOOLEAN : p' = ParentPath(p, elided)
      BY <2>1, <2>3
    <3>2. Formed(p')
      BY <1>2, <3>1, ParentFormed
    <3> QED BY <3>1, <3>2
  <2> QED BY <2>2, <2>3
<1>12. CASE ToRelativePath
  <2>1. Exact(p') \/ p' = p
    BY <1>2, <1>12, RelativePathExact DEF ToRelativePath, Becomes, Throws
  <2> QED BY <1>4, <2>1
<1>13. CASE ToLexicallyNormal
  <2>1. PICK elided \in BOOLEAN : p' = LexicallyNormal(p, elided)
    BY <1>13 DEF ToLexicallyNormal, Becomes
  <2>2. Exact(p')
    BY <1>2, <2>1, LexicallyNormalExact
  <2> QED BY <1>4, <2>2
<1>14. CASE ToLexicallyRelative
  <2>1. PICK r \in Args : p' = LexicallyRelative(p, r)
    BY <1>14 DEF ToLexicallyRelative, Becomes
  <2>2. Exact(p')
    BY <1>2, <1>5, <2>1, LexicallyRelativeExact
  <2> QED BY <1>4, <2>2
<1>15. CASE CallRemoveFilename
  <2>1. CASE RemoveThrows(p)
    BY <1>4, <1>15, <2>1 DEF CallRemoveFilename, Throws
  <2>2. CASE ~RemoveThrows(p)
    <3>1. PICK q \in Removed(p) : /\ p' = q \/ \E s \in Args : p' = AppendPath(q, s)
                                  /\ RemoveIsUndefined(p) => fault' = "undefined"
      BY <1>15, <2>2 DEF CallRemoveFilename
    <3>2. Formed(q) /\ (Exact(p) /\ ~RemoveIsUndefined(p) => Exact(q)) /\ q \in Objects
      BY <1>2, <2>2, RemovedFormed DEF Formed
    <3>3. CASE p' = q
      BY <3>1, <3>2, <3>3
    <3>4. CASE p' # q
      <4>1. PICK s \in Args : p' = AppendPath(q, s)
        BY <3>1, <3>4
      <4>2. Exact(p')
        BY <1>5, <3>2, <4>1, AppendExact
      <4> QED BY <1>4, <4>2
    <3> QED BY <3>3, <3>4
  <2> QED BY <2>1, <2>2
<1>16. CASE CallReplaceExtension
  <2>1. CASE ReplaceThrows(p)
    BY <1>4, <1>16, <2>1 DEF CallReplaceExtension, Throws
  <2>2. CASE ~ReplaceThrows(p)
    <3>1. PICK r \in {Empty} \cup Args : p' = ReplaceExtension(p, r)
      BY <1>16, <2>2 DEF CallReplaceExtension, Becomes
    <3>2. \E x \in Text : p' = Split(x)
      BY <1>2, <1>5, <2>2, <3>1, EmptyIs, ReplaceExtensionType
    <3>3. Exact(p')
      BY <3>2, SplitExact
    <3> QED BY <1>4, <3>3
  <2> QED BY <2>1, <2>2
<1>17. CASE UNCHANGED vars
  BY <1>4, <1>17 DEF vars
<1> HIDE DEF Kept
<1> QED BY <1>6, <1>7, <1>8, <1>9, <1>10, <1>11, <1>12, <1>13, <1>14, <1>15, <1>16, <1>17 DEF Next

\* In whatever order the members are called, on texts of any length: an object
\* whose decomposition describes its text keeps that through every call except
\* parent_path and the edit of remove_filename that is undefined.
THEOREM EditsKeepThePlaces ==
    Spec => OnlyParentPathMisplaces
<1>1. Init => InForm
  <2>1. ASSUME NEW n \in Nat, NEW t \in Texts(n) PROVE t \in Text
    BY DEF Texts, Text
  <2>2. \A t \in Texts(MaxLen) : Exact(Split(t))
    BY <2>1, BoundsAssumption, SplitExact
  <2>3. Exact(Empty)
    BY EmptyNeat DEF Neat
  <2>4. Init => Exact(p)
    BY <2>2, <2>3 DEF Init
  <2> QED BY <2>4, ExactFormed DEF InForm
<1>2. InForm /\ [Next]_vars => InForm'
  BY CallKeeps
<1>3. InForm /\ [Next]_vars =>
          [Described(p) => \/ Described(p')
                           \/ fault' = "undefined"
                           \/ \E elided \in BOOLEAN : p' = ParentPath(p, elided)]_vars
  <2> SUFFICES ASSUME InForm, [Next]_vars, Described(p)
               PROVE  \/ Described(p')
                      \/ fault' = "undefined"
                      \/ \E elided \in BOOLEAN : p' = ParentPath(p, elided)
    OBVIOUS
  <2>1. Exact(p)
    BY FormedExact DEF InForm
  <2>2. Exact(p') => Described(p')
    BY ExactDescribed
  <2> QED BY <2>1, <2>2, CallKeeps
<1> QED BY <1>1, <1>2, <1>3, PTL DEF Spec, OnlyParentPathMisplaces


-----------------------------------------------------------------------------
(* What follows the first component of a text.                             *)

\* The items of a list behind the first b.
LEMMA SuffixIs ==
    ASSUME NEW C, NEW s \in Seq(C), NEW b \in 0..Len(s)
    PROVE  LET t == SubSeq(s, b + 1, Len(s))
           IN  /\ t \in Seq(C) /\ Len(t) = Len(s) - b /\ Len(t) \in Nat
               /\ \A i \in 1..Len(t) : t[i] = s[b + i] /\ b + i \in 1..Len(s)
<1>1. PICK a, n, t : a = b + 1 /\ n = Len(s) /\ t = SubSeq(s, a, n)
  OBVIOUS
<1>2. n \in Nat /\ b \in Nat /\ b <= n /\ a \in Nat /\ a = b + 1
  BY <1>1, LenProperties
<1>3. \A i \in a..n : s[i] \in C
  <2>1. \A i \in a..n : i \in 1..n
    BY <1>2
  <2> QED BY <1>1, <2>1, ElementOfSeq
<1>4. /\ t \in Seq(C) /\ Len(t) = IF a <= n THEN n - a + 1 ELSE 0
      /\ \A i \in 1..n - a + 1 : t[i] = s[a + i - 1]
  BY <1>1, <1>2, <1>3, SubSeqProperties
<1>5. Len(t) = n - b
  BY <1>2, <1>4
<1>6. n - a + 1 = n - b /\ n - b \in Nat /\ \A i \in 1..(n - b) : a + i - 1 = b + i /\ b + i \in 1..n
  BY <1>2
<1> QED BY <1>1, <1>4, <1>5, <1>6

\* One character more is one more of them.
LEMMA LongerSuffix ==
    ASSUME NEW u \in Text, NEW c \in Alphabet, NEW b \in 0..Len(u)
    PROVE  SubSeq(Append(u, c), b + 1, Len(u) + 1) = Append(SubSeq(u, b + 1, Len(u)), c)
<1>1. PICK t, l, v, w, x : /\ t = Append(u, c) /\ l = Len(u) /\ v = SubSeq(t, b + 1, l + 1)
                           /\ w = SubSeq(u, b + 1, l) /\ x = Append(w, c)
  OBVIOUS
<1>2. /\ t \in Seq(Alphabet) /\ u \in Seq(Alphabet) /\ Len(t) = l + 1 /\ l \in Nat
      /\ t[l + 1] = c /\ \A i \in 1..l : t[i] = u[i]
  BY <1>1, AppendProperties DEF Text
<1>3. b \in Nat /\ b <= l /\ b \in 0..Len(t) /\ b \in 0..Len(u)
  BY <1>1, <1>2
<1>4. /\ v \in Seq(Alphabet) /\ Len(v) = l + 1 - b
      /\ \A i \in 1..Len(v) : v[i] = t[b + i]
  <2>1. v = SubSeq(t, b + 1, Len(t))
    BY <1>1, <1>2
  <2> QED BY <1>2, <1>3, <2>1, SuffixIs
<1>5. /\ w \in Seq(Alphabet) /\ Len(w) = l - b
      /\ \A i \in 1..Len(w) : w[i] = u[b + i] /\ b + i \in 1..l
  BY <1>1, <1>2, <1>3, SuffixIs
<1>6. /\ x \in Seq(Alphabet) /\ Len(x) = l - b + 1 /\ x[l - b + 1] = c
      /\ \A i \in 1..(l - b) : x[i] = w[i]
  BY <1>1, <1>5, AppendProperties
<1>7. l + 1 - b = l - b + 1 /\ b + (l - b + 1) = l + 1 /\ l - b \in Nat
  BY <1>2, <1>3
<1>8. ASSUME NEW i \in 1..Len(v) PROVE v[i] = x[i]
  <2>1. i \in 1..(l - b) \/ i = l - b + 1
    BY <1>4, <1>7
  <2>2. CASE i \in 1..(l - b)
    BY <1>2, <1>4, <1>5, <1>6, <2>2
  <2>3. CASE i = l - b + 1
    BY <1>2, <1>4, <1>6, <1>7, <2>3
  <2> QED BY <2>1, <2>2, <2>3
<1>9. v = x
  BY <1>4, <1>6, <1>7, <1>8, SeqEqual
<1> QED BY <1>1, <1>9

\* The text from the second component on, and its components.
Rest(s) == SubSeq(s, Scan(s)[2].pos + 1, Len(s))
Skips(cs, es) ==
    /\ Len(es) + 1 = Len(cs)
    /\ \A i \in 1..Len(es) : es[i].text = cs[i + 1].text /\ es[i].type = cs[i + 1].type
Continues(s) ==
    Len(Scan(s)) >= 2 =>
        /\ Scan(s)[2].pos \in 0..Len(s)
        /\ Rest(s) \in Text /\ Rest(s) # <<>> /\ Last(Rest(s)) = Last(s)
        /\ Skips(Scan(s), Scan(Rest(s)))

\* They are those of the text without the first.
LEMMA ScanContinues ==
    ASSUME NEW s \in Text
    PROVE  Continues(s)
<1> DEFINE S == {u \in Text : Continues(u)}
<1>1. <<>> \in S
  <2>1. Scan(<<>>) = <<>> /\ <<>> \in Text /\ Len(<<>>) = 0
    BY ScanType, Characters
  <2> QED BY <2>1 DEF Continues
<1>2. ASSUME NEW u \in Text, NEW c \in Alphabet, Continues(u)
      PROVE  Continues(Append(u, c))
  <2>1. PICK t, cs, ds, n, l : /\ t = Append(u, c) /\ cs = Scan(u) /\ ds = Scan(t)
                               /\ n = Len(cs) /\ l = Len(u)
    OBVIOUS
  <2>2. /\ t \in Text /\ Len(t) = l + 1 /\ l \in Nat /\ t[l + 1] = c /\ Last(t) = c
    BY <2>1, AppendProperties DEF Text, Last
  <2>3. /\ cs \in Seq(Comps) /\ ds \in Seq(Comps) /\ n \in Nat /\ (u # <<>> => n > 0)
    BY <2>1, <2>2, ScanShape, ScanType, LenProperties, EmptySeq
  <2>10. cs = Scan(u) /\ ds = Scan(Append(u, c)) /\ n = Len(cs) /\ l = Len(u)
    BY <2>1
  <2>4. PICK r : r = Rest(u)
    OBVIOUS
  <2>11. n >= 2 => /\ cs[2].pos \in 0..l /\ cs[2].pos \in 0..(l + 1)
                   /\ r \in Text /\ r # <<>> /\ Last(r) = Last(u)
                   /\ Skips(cs, Scan(r)) /\ Append(r, c) \in Text /\ Append(r, c) # <<>>
                   /\ Last(Append(r, c)) = c
                   /\ SubSeq(t, cs[2].pos + 1, l + 1) = Append(r, c)
    <3> SUFFICES ASSUME n >= 2
                 PROVE  /\ cs[2].pos \in 0..l /\ cs[2].pos \in 0..(l + 1)
                        /\ r \in Text /\ r # <<>> /\ Last(r) = Last(u)
                        /\ Skips(cs, Scan(r)) /\ Append(r, c) \in Text /\ Append(r, c) # <<>>
                        /\ Last(Append(r, c)) = c
                        /\ SubSeq(t, cs[2].pos + 1, l + 1) = Append(r, c)
      OBVIOUS
    <3>1. cs[2].pos \in 0..l /\ r \in Text /\ r # <<>> /\ Last(r) = Last(u) /\ Skips(cs, Scan(r))
      BY <1>2, <2>1, <2>4 DEF Continues
    <3>2. cs[2].pos \in 0..(l + 1)
      BY <2>2, <3>1
    <3>3. /\ Append(r, c) \in Seq(Alphabet) /\ Len(Append(r, c)) = Len(r) + 1 /\ Len(r) \in Nat
          /\ Append(r, c)[Len(r) + 1] = c
      BY <3>1, AppendProperties DEF Text
    <3>4. Append(r, c) # <<>> /\ Last(Append(r, c)) = c
      BY <3>3 DEF Last
    <3>5. SubSeq(t, cs[2].pos + 1, l + 1) = Append(r, c)
      BY <2>1, <2>4, <3>1, LongerSuffix DEF Rest
    <3> QED BY <3>1, <3>2, <3>3, <3>4, <3>5 DEF Text
  <2>5. CASE c = Sep /\ u = <<>>
    <3>1. ds = <<RootDir>> /\ Len(<<RootDir>>) = 1
      BY <2>1, <2>5, ScanTurns
    <3> QED BY <2>1, <3>1 DEF Continues
  <2>6. CASE c = Sep /\ u # <<>>
    <3>1. ds = cs
      BY <2>1, <2>6, ScanSep
    <3>2. n >= 2 => Scan(Append(r, c)) = Scan(r)
      BY <2>6, <2>11, ScanSep
    <3>3. n >= 2 => Rest(t) = Append(r, c)
      BY <2>1, <2>2, <2>11, <3>1 DEF Rest
    <3> QED BY <2>1, <2>2, <2>11, <3>1, <3>2, <3>3 DEF Continues
  <2>7. CASE c # Sep /\ (u = <<>> \/ Last(u) = Sep)
    <3>1. PICK d \in Comps :
             /\ d.text = <<c>> /\ d.pos = l /\ d.type = "FILENAME" /\ End(d) = l + 1
             /\ Len(ds) = n + 1 /\ ds[n + 1] = d /\ \A i \in 1..n : ds[i] = cs[i]
      BY <2>7, <2>10, ScanBegins DEF OneMore
    <3>2. CASE n >= 2
      <4>1. ds[2] = cs[2]
        BY <2>3, <3>1, <3>2
      <4>2. Rest(t) = Append(r, c)
        BY <2>1, <2>2, <2>11, <3>2, <4>1 DEF Rest
      <4>3. PICK es, fs, m : es = Scan(r) /\ fs = Scan(Append(r, c)) /\ m = Len(es)
        OBVIOUS
      <4>4. r \in Text /\ Last(r) = Sep /\ Skips(cs, es)
        <5>1. u # <<>>
          <6> SUFFICES ASSUME u = <<>> PROVE FALSE
            OBVIOUS
          <6>1. cs = <<>> /\ Len(<<>>) = 0
            BY <2>1, ScanType
          <6> QED BY <2>1, <3>2, <6>1
        <5> QED BY <2>7, <2>11, <3>2, <4>3, <5>1
      <4>5. PICK e \in Comps :
               /\ e.text = <<c>> /\ e.type = "FILENAME"
               /\ Len(fs) = m + 1 /\ fs[m + 1] = e /\ \A i \in 1..m : fs[i] = es[i]
        BY <2>7, <4>3, <4>4, ScanBegins DEF OneMore
      <4>6. m + 1 = n /\ m \in Nat
        <5>1. m \in Nat
          BY <4>3, <4>4, ScanType, LenProperties
        <5> QED BY <2>1, <4>3, <4>4, <5>1 DEF Skips
      <4>7. ASSUME NEW i \in 1..(m + 1)
            PROVE  fs[i].text = ds[i + 1].text /\ fs[i].type = ds[i + 1].type
        <5>1. CASE i = m + 1
          BY <3>1, <4>5, <4>6, <5>1
        <5>2. CASE i # m + 1
          <6>1. i \in 1..m /\ i + 1 \in 1..n
            BY <4>6, <5>2
          <6> QED BY <3>1, <4>3, <4>4, <4>5, <6>1 DEF Skips
        <5> QED BY <5>1, <5>2
      <4>8. Skips(ds, fs)
        BY <3>1, <4>5, <4>6, <4>7 DEF Skips
      <4> QED BY <2>1, <2>2, <2>11, <3>2, <4>1, <4>2, <4>3, <4>8 DEF Continues
    <3>3. CASE n = 1
      <4>1. Len(ds) = 2 /\ ds[2] = d
        BY <3>1, <3>3
      <4>2. PICK v : v = SubSeq(u, l + 1, l)
        OBVIOUS
      <4>3. v = <<>>
        <5>1. l \in 0..Len(u) /\ u \in Seq(Alphabet)
          BY <2>1, <2>2 DEF Text
        <5>2. v \in Seq(Alphabet) /\ Len(v) = l - l
          BY <2>1, <4>2, <5>1, SuffixIs
        <5> QED BY <2>2, <5>2
      <4>4. Rest(t) = Append(<<>>, c)
        <5>1. l \in 0..Len(u)
          BY <2>1, <2>2
        <5>2. SubSeq(t, l + 1, l + 1) = Append(<<>>, c)
          BY <2>1, <4>2, <4>3, <5>1, LongerSuffix
        <5>3. Rest(t) = SubSeq(t, l + 1, l + 1)
          BY <2>1, <2>2, <3>1, <4>1 DEF Rest
        <5> QED BY <5>2, <5>3
      <4>5. PICK fs, x : x = Append(<<>>, c) /\ fs = Scan(x)
        OBVIOUS
      <4>6. x \in Text /\ x # <<>> /\ Last(x) = c
        BY <4>5 DEF Text, Last
      <4>7. PICK e \in Comps :
               /\ e.text = <<c>> /\ e.type = "FILENAME"
               /\ Len(fs) = 0 + 1 /\ fs[0 + 1] = e
        <5>1. Scan(<<>>) = <<>> /\ Len(<<>>) = 0 /\ <<>> \in Text
          BY ScanType, Characters
        <5> QED BY <2>7, <4>5, <5>1, ScanBegins DEF OneMore
      <4>8. Skips(ds, fs)
        <5>1. Len(fs) = 1 /\ fs[1] = e
          BY <4>7
        <5>2. Len(fs) + 1 = Len(ds)
          BY <4>1, <5>1
        <5>3. \A i \in 1..Len(fs) : fs[i] = e /\ ds[i + 1] = d
          <6>1. \A i \in 1..1 : i = 1 /\ i + 1 = 2
            OBVIOUS
          <6> QED BY <4>1, <5>1, <6>1
        <5> QED BY <3>1, <4>7, <5>2, <5>3 DEF Skips
      <4>9. ds[2].pos \in 0..Len(t)
        BY <2>2, <3>1, <4>1
      <4> QED BY <2>1, <2>2, <4>4, <4>5, <4>6, <4>8, <4>9 DEF Continues
    <3>4. CASE n = 0
      BY <2>1, <3>1, <3>4 DEF Continues
    <3> QED BY <2>3, <3>2, <3>3, <3>4
  <2>8. CASE c # Sep /\ u # <<>> /\ Last(u) # Sep
    <3>1. PICK d \in Comps :
             /\ d.text = Append(cs[n].text, c) /\ d.pos = cs[n].pos /\ d.type = "FILENAME"
             /\ n \in 1..n
             /\ Len(ds) = n /\ ds[n] = d /\ \A i \in 1..n : i # n => ds[i] = cs[i]
      BY <2>8, <2>10, ScanGoesOn DEF OneLonger
    <3>2. CASE n >= 2
      <4>1. ds[2].pos = cs[2].pos
        <5>1. 2 \in 1..n
          BY <2>3, <3>2
        <5> QED BY <3>1, <5>1
      <4>2. Rest(t) = Append(r, c)
        BY <2>1, <2>2, <2>11, <3>2, <4>1 DEF Rest
      <4>3. PICK es, fs, m : es = Scan(r) /\ fs = Scan(Append(r, c)) /\ m = Len(es)
        OBVIOUS
      <4>4. r \in Text /\ r # <<>> /\ Last(r) # Sep /\ Skips(cs, es)
        BY <2>8, <2>11, <3>2, <4>3
      <4>5. PICK e \in Comps :
               /\ e.text = Append(es[m].text, c) /\ e.type = "FILENAME" /\ m \in 1..m
               /\ Len(fs) = m /\ fs[m] = e /\ \A i \in 1..m : i # m => fs[i] = es[i]
        BY <2>8, <4>3, <4>4, ScanGoesOn DEF OneLonger
      <4>6. m + 1 = n /\ m \in Nat
        <5>1. m \in Nat
          BY <4>3, <4>4, ScanType, LenProperties
        <5> QED BY <2>1, <4>3, <4>4, <5>1 DEF Skips
      <4>7. ASSUME NEW i \in 1..m
            PROVE  fs[i].text = ds[i + 1].text /\ fs[i].type = ds[i + 1].type
        <5>1. es[i].text = cs[i + 1].text /\ es[i].type = cs[i + 1].type
          BY <4>3, <4>4 DEF Skips
        <5>2. CASE i = m
          <6>1. fs[i] = e /\ ds[i + 1] = d /\ e.text = d.text
            BY <3>1, <4>5, <4>6, <5>1, <5>2
          <6> QED BY <3>1, <4>5, <6>1
        <5>3. CASE i # m
          <6>1. i + 1 \in 1..n /\ i + 1 # n
            BY <4>6, <5>3
          <6> QED BY <3>1, <4>5, <5>1, <5>3, <6>1
        <5> QED BY <5>2, <5>3
      <4>8. Skips(ds, fs)
        BY <3>1, <4>5, <4>6, <4>7 DEF Skips
      <4> QED BY <2>1, <2>2, <2>11, <3>2, <4>1, <4>2, <4>3, <4>8 DEF Continues
    <3>3. CASE ~(n >= 2)
      BY <2>1, <3>1, <3>3 DEF Continues
    <3> QED BY <3>2, <3>3
  <2>9. \/ c = Sep /\ u = <<>>
        \/ c = Sep /\ u # <<>>
        \/ c # Sep /\ (u = <<>> \/ Last(u) = Sep)
        \/ c # Sep /\ u # <<>> /\ Last(u) # Sep
    OBVIOUS
  <2> QED BY <2>5, <2>6, <2>7, <2>8, <2>9
<1>3. \A u \in Text, c \in Alphabet : u \in S => Append(u, c) \in S
  BY <1>2, AppendProperties DEF Text
<1> HIDE DEF S
<1>4. s \in S
  BY <1>1, <1>3, TextInduction
<1> QED BY <1>4 DEF S

\* The first component is at the beginning.
LEMMA ScanStarts ==
    ASSUME NEW s \in Text
    PROVE  Scan(s) # <<>> => Scan(s)[1].pos = 0
<1> DEFINE S == {u \in Text : Scan(u) # <<>> => Scan(u)[1].pos = 0}
<1>1. <<>> \in S
  BY ScanType, Characters
<1>2. ASSUME NEW u \in Text, NEW c \in Alphabet, Scan(u) # <<>> => Scan(u)[1].pos = 0
      PROVE  Scan(Append(u, c))[1].pos = 0
  <2>1. PICK cs, ds, n, l : cs = Scan(u) /\ ds = Scan(Append(u, c)) /\ n = Len(cs) /\ l = Len(u)
    OBVIOUS
  <2>2. /\ cs \in Seq(Comps) /\ n \in Nat /\ (u # <<>> => n > 0 /\ cs # <<>>)
        /\ (u = <<>> => n = 0 /\ l = 0)
    <3>1. cs \in Seq(Comps) /\ n \in Nat /\ (u # <<>> => cs # <<>>) /\ (cs = <<>> <=> n = 0)
      BY <2>1, ScanShape, ScanType, LenProperties, EmptySeq
    <3>2. Scan(<<>>) = <<>> /\ Len(<<>>) = 0
      BY ScanType
    <3> QED BY <2>1, <3>1, <3>2
  <2>3. CASE c = Sep /\ u = <<>>
    <3>1. ds = <<RootDir>> /\ <<RootDir>>[1] = RootDir
      BY <2>1, <2>3, ScanTurns
    <3> QED BY <2>1, <3>1 DEF RootDir, Component
  <2>4. CASE c = Sep /\ u # <<>>
    BY <1>2, <2>1, <2>2, <2>4, ScanSep
  <2>5. CASE c # Sep /\ (u = <<>> \/ Last(u) = Sep)
    <3>1. PICK d \in Comps : /\ d.pos = l /\ ds[n + 1] = d /\ \A i \in 1..n : ds[i] = cs[i]
      BY <2>1, <2>5, ScanBegins DEF OneMore
    <3>2. CASE u = <<>>
      <4>1. ds[1].pos = 0
        BY <2>2, <3>1, <3>2
      <4> QED BY <2>1, <4>1
    <3>3. CASE u # <<>>
      <4>1. ds[1] = cs[1] /\ cs[1].pos = 0
        BY <1>2, <2>1, <2>2, <3>1, <3>3
      <4> QED BY <2>1, <4>1
    <3> QED BY <3>2, <3>3
  <2>6. CASE c # Sep /\ u # <<>> /\ Last(u) # Sep
    <3>1. PICK d \in Comps : /\ d.pos = cs[n].pos /\ ds[n] = d /\ n \in 1..n
                             /\ \A i \in 1..n : i # n => ds[i] = cs[i]
      BY <2>1, <2>6, ScanGoesOn DEF OneLonger
    <3>2. 1 \in 1..n /\ cs[1].pos = 0
      BY <1>2, <2>1, <2>2, <2>6
    <3>3. ds[1].pos = 0
      BY <3>1, <3>2
    <3> QED BY <2>1, <3>3
  <2> QED BY <2>3, <2>4, <2>5, <2>6
<1>3. \A u \in Text, c \in Alphabet : u \in S => Append(u, c) \in S
  BY <1>2, AppendProperties DEF Text
<1> HIDE DEF S
<1>4. s \in S
  BY <1>1, <1>3, TextInduction
<1> QED BY <1>4 DEF S

-----------------------------------------------------------------------------
(* What the elements of an exact object say of it.                         *)

\* The root directory in front, then names, an empty one only behind a name.
Listing(es) ==
    /\ es \in Seq(Text)
    /\ \A i \in 1..Len(es) :
          /\ es[i] = <<Sep>> \/ es[i] = <<>> \/ IsName(es[i])
          /\ es[i] = <<Sep>> => i = 1
          /\ es[i] = <<>> => i = Len(es) /\ i > 1 /\ IsName(es[i - 1])

\* es are the elements of q: what is stored for each of them.
Shows(q, es) ==
    /\ Listing(es)
    /\ q.str = <<>> <=> Len(es) = 0
    /\ q.type = "MULTI" =>
          /\ Len(q.cmpts) = Len(es)
          /\ \A i \in 1..Len(es) :
                /\ q.cmpts[i].text = es[i]
                /\ q.cmpts[i].type = IF es[i] = <<Sep>> THEN "ROOT_DIR" ELSE "FILENAME"
                /\ es[i] # <<>> => q.cmpts[i].pos <= Len(q.str)
    /\ q.type # "MULTI" => q.cmpts = <<>>
    /\ q.type # "MULTI" /\ Len(es) = 0 => q.type = "FILENAME"
    /\ q.type # "MULTI" /\ Len(es) # 0 =>
          /\ Len(es) = 1 /\ q.str = es[1] /\ es[1] # <<>>
          /\ q.type = IF es[1] = <<Sep>> THEN "ROOT_DIR" ELSE "FILENAME"
    /\ Len(es) # 0 => (IsName(es[Len(es)]) <=> Last(q.str) # Sep)

\* The components of a text.
LEMMA MatchesShow ==
    ASSUME NEW s \in Text, s # <<>>, NEW cs, Matches(s, cs)
    PROVE  /\ Listing(TextsOf(cs)) /\ cs \in Seq(Comps) /\ Len(TextsOf(cs)) = Len(cs) /\ Len(cs) # 0
           /\ \A i \in 1..Len(cs) :
                 /\ cs[i].text = TextsOf(cs)[i]
                 /\ cs[i].type = IF cs[i].text = <<Sep>> THEN "ROOT_DIR" ELSE "FILENAME"
                 /\ cs[i].text # <<>> => cs[i].pos <= Len(s)
           /\ IsName(cs[Len(cs)].text) <=> Last(s) # Sep
<1>1. PICK ds, m, n : ds = Scan(s) /\ m = Len(ds) /\ n = Len(cs)
  OBVIOUS
<1>2. /\ ds \in Seq(Comps) /\ m \in Nat /\ m > 0 /\ Proper(ds) /\ Lies(s, ds)
  BY <1>1, ComponentsAre, ScanShape
<1>3. /\ cs \in Seq(Comps) /\ n \in Nat /\ m <= n /\ n <= m + 1
      /\ \A i \in 1..m : cs[i] = ds[i]
      /\ \A i \in 1..n : i \notin 1..m => i = n /\ i = m + 1 /\ cs[i].text = <<>> /\ cs[i].type = "FILENAME"
  BY <1>1, MatchesTexts, LenProperties
<1>4. <<Sep>> # <<>> /\ ~IsName(<<>>) /\ ~IsName(<<Sep>>)
  BY NameIsNoSep
<1>5. ASSUME NEW i \in 1..m
      PROVE  /\ ds[i].text # <<>> /\ (ds[i].text = <<Sep>> => i = 1)
             /\ ds[i].text = <<Sep>> \/ IsName(ds[i].text)
             /\ ds[i].type = (IF ds[i].text = <<Sep>> THEN "ROOT_DIR" ELSE "FILENAME")
             /\ ds[i].pos <= Len(s)
  <2>1. ds[i] \in Comps /\ ds[i].type \in {"ROOT_DIR", "FILENAME"}
    <3>1. ds[i] \in Comps
      BY <1>1, <1>2
    <3> QED BY <3>1, CompType
  <2>2. CASE ds[i].type = "ROOT_DIR"
    <3>1. i = 1 /\ ds[i].text = <<Sep>>
      BY <1>1, <1>2, <2>2 DEF Proper
    <3>2. ds[i].pos <= Len(s)
      <4>1. End(ds[i]) <= Len(s) /\ Len(s) \in Nat
        BY <1>1, <1>2, LenProperties DEF Lies, Text
      <4> QED BY <2>1, <4>1, CompType
    <3> QED BY <1>4, <2>2, <3>1, <3>2
  <2>3. CASE ds[i].type = "FILENAME"
    <3>1. IsName(ds[i].text)
      BY <1>1, <1>2, <2>3 DEF Proper
    <3>2. ds[i].pos <= Len(s)
      <4>1. End(ds[i]) <= Len(s) /\ Len(s) \in Nat
        BY <1>1, <1>2, LenProperties DEF Lies, Text
      <4> QED BY <2>1, <4>1, CompType
    <3> QED BY <2>3, <3>1, <3>2, NameIsNoSep
  <2> QED BY <2>1, <2>2, <2>3
<1>6. PICK es : es = TextsOf(cs)
  OBVIOUS
<1>7. es = [i \in 1..n |-> cs[i].text] /\ \A i \in 1..n : cs[i].text \in Text
  BY <1>1, <1>3, <1>6, LenProperties, CompType, ElementOfSeq DEF TextsOf
<1>8. es \in Seq(Text) /\ Len(es) = n /\ \A i \in 1..n : es[i] = cs[i].text
  BY <1>3, <1>7
<1>9. EndsInSep(s) <=> n = m + 1
  <2>1. EndsInSep(s) => n = m + 1
    <3> SUFFICES ASSUME EndsInSep(s) PROVE n = m + 1
      OBVIOUS
    <3>1. PICK e \in Comps : cs = Append(ds, e)
      BY <1>1 DEF Matches
    <3> QED BY <1>1, <1>2, <3>1, AppendProperties
  <2>2. ~EndsInSep(s) => n = m
    BY <1>1 DEF Matches
  <2> QED BY <1>2, <2>1, <2>2
<1>10. m \in 1..m /\ m \in 1..n /\ n \in 1..n /\ LastName(s) = ds[m]
  BY <1>1, <1>2, <1>3 DEF LastName
<1>11. ASSUME NEW i \in 1..n, i \notin 1..m
       PROVE  i = n /\ i > 1 /\ IsName(cs[i - 1].text) /\ cs[i].text = <<>> /\ cs[i].type = "FILENAME"
  <2>1. i = n /\ i = m + 1 /\ cs[i].text = <<>> /\ cs[i].type = "FILENAME"
    BY <1>3, <1>11
  <2>2. ds[m].type = "FILENAME"
    BY <1>9, <1>10, <2>1 DEF EndsInSep
  <2>3. IsName(ds[m].text)
    BY <1>1, <1>2, <1>10, <2>2 DEF Proper
  <2>4. i > 1 /\ i - 1 = m /\ cs[m] = ds[m]
    BY <1>2, <1>3, <1>10, <2>1
  <2> QED BY <2>1, <2>3, <2>4
<1>12. ASSUME NEW i \in 1..n
       PROVE  /\ es[i] = <<Sep>> \/ es[i] = <<>> \/ IsName(es[i])
              /\ es[i] = <<Sep>> => i = 1
              /\ es[i] = <<>> => i = n /\ i > 1 /\ IsName(es[i - 1])
              /\ cs[i].text = es[i]
              /\ cs[i].type = IF cs[i].text = <<Sep>> THEN "ROOT_DIR" ELSE "FILENAME"
              /\ cs[i].text # <<>> => cs[i].pos <= Len(s)
  <2>1. CASE i \in 1..m
    <3>1. cs[i] = ds[i] /\ es[i] = cs[i].text
      BY <1>3, <1>8, <2>1
    <3> QED BY <1>5, <2>1, <3>1
  <2>2. CASE i \notin 1..m
    <3>1. i = n /\ i > 1 /\ IsName(cs[i - 1].text) /\ cs[i].text = <<>> /\ cs[i].type = "FILENAME"
      BY <1>11, <2>2
    <3>2. i - 1 \in 1..n /\ es[i] = <<>> /\ es[i - 1] = cs[i - 1].text
      <4>1. i - 1 \in 1..n
        BY <1>3, <3>1
      <4> QED BY <1>8, <3>1, <4>1
    <3> QED BY <1>4, <3>1, <3>2
  <2> QED BY <2>1, <2>2
<1>13. IsName(cs[n].text) <=> Last(s) # Sep
  <2>1. CASE EndsInSep(s)
    <3>1. n \notin 1..m
      BY <1>2, <1>9, <2>1
    <3>2. cs[n].text = <<>>
      BY <1>10, <1>11, <3>1
    <3> QED BY <1>4, <2>1, <3>2 DEF EndsInSep
  <2>2. CASE ~EndsInSep(s)
    <3>1. cs[n] = ds[m] /\ n = m
      BY <1>2, <1>3, <1>9, <1>10, <2>2
    <3>2. Last(s) # Sep => IsName(ds[m].text)
      <4>1. Last(s) # Sep => ds[m].type = "FILENAME"
        BY <1>1, <1>2 DEF Lies
      <4> QED BY <1>1, <1>2, <1>10, <4>1 DEF Proper
    <3>3. Last(s) = Sep => ds[m].type # "FILENAME"
      BY <1>10, <2>2 DEF EndsInSep
    <3>4. IsName(ds[m].text) => ds[m].type = "FILENAME"
      BY <1>4, <1>5, <1>10
    <3> QED BY <3>1, <3>2, <3>3, <3>4
  <2> QED BY <2>1, <2>2
<1>14. Listing(es)
  BY <1>8, <1>12 DEF Listing
<1>15. n # 0
  BY <1>10
<1> QED BY <1>1, <1>3, <1>6, <1>8, <1>12, <1>13, <1>14, <1>15

\* An exact object shows its elements.
LEMMA ExactShows ==
    ASSUME NEW q, Exact(q)
    PROVE  Shows(q, Elements(q))
<1>1. PICK s, cs, es : s = q.str /\ cs = q.cmpts /\ es = Elements(q)
  OBVIOUS
<1>2. q \in Objects /\ s \in Text /\ cs \in Seq(Comps)
  BY <1>1, ObjectIs DEF Exact
<1>3. <<>> \in Seq(Text) /\ Len(<<>>) = 0 /\ TextsOf(<<>>) = <<>>
  BY DEF TextsOf
<1>4. CASE q.type = "MULTI" /\ s = <<>>
  <2>1. cs = <<>> /\ es = <<>>
    BY <1>1, <1>3, <1>4 DEF Exact, Matches, Elements
  <2> QED BY <1>1, <1>3, <1>4, <2>1 DEF Shows, Listing
<1>5. CASE q.type = "MULTI" /\ s # <<>>
  <2>1. es = TextsOf(cs) /\ Matches(s, cs)
    BY <1>1, <1>5 DEF Exact, Elements
  <2>2. /\ Listing(es) /\ Len(es) = Len(cs) /\ Len(cs) # 0
        /\ \A i \in 1..Len(cs) :
              /\ cs[i].text = es[i]
              /\ cs[i].type = IF cs[i].text = <<Sep>> THEN "ROOT_DIR" ELSE "FILENAME"
              /\ cs[i].text # <<>> => cs[i].pos <= Len(s)
        /\ IsName(cs[Len(cs)].text) <=> Last(s) # Sep
    BY <1>2, <1>5, <2>1, MatchesShow
  <2>3. Len(cs) \in 1..Len(cs)
    BY <1>2, <2>2, LenProperties
  <2> QED BY <1>1, <1>5, <2>2, <2>3 DEF Shows
<1>6. CASE q.type # "MULTI" /\ s = <<>>
  <2>1. es = <<>> /\ q.cmpts = <<>> /\ q.type = "FILENAME"
    <3>1. q = Split(<<>>)
      BY <1>1, <1>6 DEF Exact
    <3>2. Split(<<>>).cmpts = <<>> /\ Split(<<>>).type = "FILENAME"
      BY DEF Split
    <3> QED BY <1>1, <1>6, <3>1, <3>2 DEF Elements
  <2>2. Len(es) = 0 /\ Listing(es)
    BY <1>3, <2>1 DEF Listing
  <2> QED BY <1>1, <1>6, <2>1, <2>2 DEF Shows
<1>7. CASE q.type # "MULTI" /\ s # <<>>
  <2>1. q = Split(s)
    BY <1>1, <1>7 DEF Exact
  <2>2. PICK w : (IsName(w) \/ w = <<Sep>>) /\ q = Split(w)
    BY <1>2, <1>7, <2>1, SplitIs
  <2>3. /\ q.str = w /\ q.cmpts = <<>>
        /\ q.type = IF w = <<Sep>> THEN "ROOT_DIR" ELSE "FILENAME"
    BY <2>2, SplitSingle, NameIsNoSep
  <2>4. es = <<w>> /\ Len(es) = 1 /\ es[1] = w
    BY <1>1, <1>7, <2>3 DEF Elements
  <2>5. w \in Text /\ w # <<>> /\ (IsName(w) <=> Last(w) # Sep)
    <3>1. Last(<<Sep>>) = Sep
      BY DEF Last
    <3> QED BY <1>1, <1>2, <1>7, <2>2, <2>3, <3>1, NameIsNoSep
  <2>6. Listing(es)
    <3>1. es \in Seq(Text)
      BY <2>4, <2>5
    <3>2. \A i \in 1..Len(es) : i = 1 /\ es[i] = w
      BY <2>4
    <3> QED BY <2>2, <2>5, <3>1, <3>2 DEF Listing
  <2> QED BY <1>1, <1>7, <2>3, <2>4, <2>5, <2>6 DEF Shows
<1> QED BY <1>4, <1>5, <1>6, <1>7

\* What compare() compares.
Compared(q) == IF q.type = "MULTI" THEN TextsOf(q.cmpts) ELSE <<q.str>>

\* Exact objects are equal if their elements are.
LEMMA EqualMeans ==
    ASSUME NEW q, Exact(q), NEW r, Exact(r)
    PROVE  /\ Equal(q, r) <=> Elements(q) = Elements(r)
           /\ Equal(q, r) => (q.str = <<>> <=> r.str = <<>>)
<1>1. ASSUME NEW x, Exact(x)
      PROVE  /\ Elements(x) = IF x.str = <<>> THEN <<>> ELSE Compared(x)
             /\ x.str = <<>> => Compared(x) \in {<<>>, <<<<>>>>}
             /\ x.str # <<>> => Compared(x) \notin {<<>>, <<<<>>>>}
  <2>1. PICK es : es = Elements(x) /\ Shows(x, es) /\ Listing(es)
    BY <1>1, ExactShows DEF Shows
  <2>2. es \in Seq(Text) /\ (es = <<>> <=> Len(es) = 0) /\ (x.str = <<>> <=> es = <<>>)
    BY <2>1, EmptySeq DEF Shows, Listing
  <2>3. es # <<<<>>>>
    <3>0. SUFFICES ASSUME es = <<<<>>>> PROVE FALSE
      OBVIOUS
    <3>1. Len(es) = 1 /\ es[1] = <<>>
      BY <3>0
    <3>2. 1 \in 1..Len(es)
      BY <3>1
    <3> QED BY <2>1, <3>1, <3>2 DEF Listing
  <2>4. x.type = "MULTI" => es = Compared(x)
    BY <2>1 DEF Elements, Compared
  <2>5. x.type # "MULTI" => Compared(x) = <<x.str>> /\ es = IF x.str = <<>> THEN <<>> ELSE Compared(x)
    BY <2>1 DEF Elements, Compared
  <2>6. x.type # "MULTI" /\ x.str = <<>> => Compared(x) = <<<<>>>>
    BY <2>5
  <2>7. CASE x.type = "MULTI"
    BY <2>1, <2>2, <2>3, <2>4, <2>7
  <2>8. CASE x.type # "MULTI"
    BY <2>1, <2>2, <2>3, <2>5, <2>6, <2>8
  <2> QED BY <2>7, <2>8
<1>2. Equal(q, r) <=> (q.str = <<>> /\ r.str = <<>>) \/ Compared(q) = Compared(r)
  BY DEF Equal, Compared
<1>3. q.str = <<>> /\ r.str # <<>> => Compared(q) # Compared(r) /\ Elements(q) # Elements(r)
  BY <1>1
<1>4. q.str # <<>> /\ r.str = <<>> => Compared(q) # Compared(r) /\ Elements(q) # Elements(r)
  BY <1>1
<1> QED BY <1>1, <1>2, <1>3, <1>4

\* A path is equal to itself, and lists of components with the same texts are.
LEMMA EqualToo ==
    /\ \A q : Equal(q, q)
    /\ \A q, r : q.str = <<>> /\ r.str = <<>> => Equal(q, r)
    /\ \A q, r : q.type = "MULTI" /\ r.type = "MULTI" /\ TextsOf(q.cmpts) = TextsOf(r.cmpts) => Equal(q, r)
    /\ \A q, r : q.type # "MULTI" /\ r.type # "MULTI" /\ q.str = r.str => Equal(q, r)
BY DEF Equal

\* Lists of components with the same texts.
LEMMA SameTexts ==
    ASSUME NEW cs \in Seq(Comps), NEW ds \in Seq(Comps), Len(cs) = Len(ds),
           \A i \in 1..Len(cs) : cs[i].text = ds[i].text
    PROVE  TextsOf(cs) = TextsOf(ds)
<1>1. DOMAIN cs = 1..Len(cs) /\ DOMAIN ds = 1..Len(cs)
  BY LenProperties
<1> QED BY <1>1 DEF TextsOf

\* The texts that a join goes through.
Joins(at, cs, n) ==
    /\ at \in [0..n -> Text] /\ at[0] = <<>> /\ Joined(cs) = at[n]
    /\ \A i \in 1..n : at[i] = Linked(at[i - 1], cs[i].text, i < n)

\* They are joined to the same text.
LEMMA SameJoined ==
    ASSUME NEW cs \in Seq(Comps), NEW ds \in Seq(Comps), Len(cs) = Len(ds),
           \A i \in 1..Len(cs) : cs[i].text = ds[i].text
    PROVE  Joined(cs) = Joined(ds)
<1>1. PICK n : n = Len(cs) /\ n = Len(ds) /\ n \in Nat
  BY LenProperties
<1>2. PICK at : Joins(at, cs, n)
  <2>1. \E at : Joins(at, cs, Len(cs))
    BY JoinedIs DEF Joins
  <2> QED BY <1>1, <2>1
<1>3. PICK bt : Joins(bt, ds, n)
  <2>1. \E bt : Joins(bt, ds, Len(ds))
    BY JoinedIs DEF Joins
  <2> QED BY <1>1, <2>1
<1> DEFINE f == [i \in 0..n |-> <<at[i], bt[i]>>]
           D == {<<x, x>> : x \in Text}
<1>4. f[0] \in D
  <2>1. 0 \in 0..n
    BY <1>1
  <2> QED BY <1>2, <1>3, <2>1, Characters DEF Joins
<1>5. ASSUME NEW i \in 1..n, f[i - 1] \in D PROVE f[i] \in D
  <2>1. i - 1 \in 0..n /\ i \in 0..n
    BY <1>1
  <2>2. at[i - 1] = bt[i - 1]
    BY <1>5, <2>1
  <2>3. at[i] = bt[i] /\ at[i] \in Text
    BY <1>1, <1>2, <1>3, <2>1, <2>2 DEF Joins
  <2> QED BY <2>1, <2>3
<1>6. \A i \in 0..n : f[i] \in D
  <2> HIDE DEF f, D
  <2> QED BY <1>1, <1>4, <1>5, StaysIn
<1>7. at[n] = bt[n]
  <2>1. n \in 0..n
    BY <1>1
  <2> QED BY <1>6, <2>1
<1> QED BY <1>2, <1>3, <1>7 DEF Joins

=============================================================================
