--------------------------- MODULE CopyTreeProofs ---------------------------
(***************************************************************************)
(* Proofs about CopyTree for any names, places, trees, lengths of a path   *)
(* and number of steps of other programs.                                  *)
(*                                                                         *)
(* 1. The calls on the stack mirror the source at the target, and a copy   *)
(*    replaces nothing, wherever a text leads and whatever others do.      *)
(* 2. Where a text leads is the end of a recursion, about which induction  *)
(*    over the natural numbers is done with sets of them.                  *)
(* 3. A plain copy, one of a tree of files and directories to a name that  *)
(*    is free, reports no error: on either side of it no text leads        *)
(*    through a symlink, and what each call on the stack is to make is not *)
(*    there yet.                                                           *)
(* 4. As long as nothing interferes, what copy_file saw is there when it   *)
(*    opens the target (Fresh), and its two steps do what it would do in   *)
(*    one (QuietStep): the invariants of an undisturbed copy are about     *)
(*    these steps.                                                         *)
(* 5. A copy from anywhere to anywhere that answers without an error has   *)
(*    copied everything, with these invariants of an undisturbed copy:     *)
(*      StackInv    each call is below an entry that the ones around it    *)
(*                  have read,                                             *)
(*      TargetInv   what is there was there, or has been made below the    *)
(*                  target,                                                *)
(*      SpineInv    a directory that is copied into itself never returns,  *)
(*      SourceInv   files keep what they hold, and what the calls on the   *)
(*                  stack have read has been copied.                       *)
(***************************************************************************)
EXTENDS CopyTree, SequenceTheorems, FiniteSetTheorems, TLAPS

CallRecords ==
    [from : Seq(Names), to : Seq(Names), pc : Steps,
     entries : SUBSET Names, read : SUBSET Names]

\* The options that lead a call to where it is.
Optioned(k) ==
    /\ k.pc \in {"create_directory", "open", "first", "next"} => ~Has("create_symlinks")
    /\ k.pc = "create_symlink" => Has("create_symlinks")
    /\ k.pc = "create_hard_link" => Has("create_hard_links")
    /\ k.pc \in {"copy_file", "copy_file_into", "write_file", "write_file_into"} =>
          ~Has("create_hard_links")

\* What CallsMirror says of a stack, at i.
MirrorAt(s, i) ==
    /\ Len(s[i].from) = Len(Source) + i - 1
    /\ s[i].to = Target \o SubSeq(s[i].from, Len(Source) + 1, Len(s[i].from))
    /\ i > 1 => /\ Front(s[i].from) = s[i - 1].from
                /\ Last(s[i].from) \in s[i - 1].read

Stacked(s) ==
    /\ s \in Seq(CallRecords)
    /\ \A i \in 1..Len(s) :
          /\ Optioned(s[i])
          /\ i < Len(s) => s[i].pc = "next"
          /\ i = 1 => s[i].from = Source
          /\ MirrorAt(s, i)

-----------------------------------------------------------------------------
(* Stacks.                                                                 *)

\* What is left without the last element.
LEMMA FrontIs ==
    ASSUME NEW S, NEW s \in Seq(S), Len(s) # 0
    PROVE  /\ Front(s) \in Seq(S) /\ Len(Front(s)) = Len(s) - 1
           /\ \A i \in 1..Len(s) - 1 : Front(s)[i] = s[i]
<1> DEFINE t == Front(s)
<1>1. PICK n \in Nat : n = Len(s) - 1 /\ Len(s) \in Nat
  OBVIOUS
<1>2. t = SubSeq(s, 1, n) /\ \A i \in 1..n : s[i] \in S
  BY <1>1 DEF Front
<1> HIDE DEF t
<1>3. /\ t \in Seq(S) /\ Len(t) = IF 1 <= n THEN n - 1 + 1 ELSE 0
      /\ \A i \in 1..n - 1 + 1 : t[i] = s[1 + i - 1]
  BY <1>1, <1>2, SubSeqProperties
<1>4. Len(t) = n
  BY <1>1, <1>3
<1>5. ASSUME NEW i \in 1..n PROVE t[i] = s[i]
  <2>1. i \in 1..n - 1 + 1 /\ 1 + i - 1 = i
    BY <1>1
  <2> QED BY <1>3, <2>1
<1> QED BY <1>1, <1>3, <1>4, <1>5 DEF t

\* Only the step of the innermost call, or what it has listed, changes.
LEMMA TopMoves ==
    ASSUME NEW s, Stacked(s), s # <<>>,
           NEW k \in CallRecords, Optioned(k),
           k.from = s[Len(s)].from, k.to = s[Len(s)].to
    PROVE  Stacked([s EXCEPT ![Len(s)] = k])
<1> DEFINE t == [s EXCEPT ![Len(s)] = k]
<1>1. s \in Seq(CallRecords) /\ Len(s) \in 1..Len(s) /\ Len(s) \in Nat
  BY DEF Stacked
<1>2. /\ t \in Seq(CallRecords) /\ Len(t) = Len(s) /\ t[Len(s)] = k
      /\ \A i \in 1..Len(s) : i # Len(s) => t[i] = s[i]
  BY <1>1, ExceptSeq
<1> HIDE DEF t
<1>3. ASSUME NEW i \in 1..Len(s)
      PROVE  /\ Optioned(t[i]) /\ (i < Len(t) => t[i].pc = "next")
             /\ i = 1 => t[i].from = Source
             /\ MirrorAt(t, i)
  <2>1. /\ Optioned(s[i]) /\ (i < Len(s) => s[i].pc = "next")
        /\ (i = 1 => s[i].from = Source) /\ MirrorAt(s, i)
    BY DEF Stacked
  <2>2. t[i].from = s[i].from /\ t[i].to = s[i].to
    BY <1>2
  <2>3. i > 1 => t[i - 1] = s[i - 1]
    BY <1>1, <1>2
  <2>4. MirrorAt(t, i)
    BY <2>1, <2>2, <2>3 DEF MirrorAt
  <2>5. Optioned(t[i]) /\ (i < Len(t) => t[i].pc = "next")
    BY <1>1, <1>2, <2>1
  <2> QED BY <2>1, <2>2, <2>4, <2>5
<1>4. Stacked(t)
  BY <1>2, <1>3 DEF Stacked
<1> QED BY <1>4 DEF t

\* The innermost call returns.
LEMMA Pops ==
    ASSUME NEW s, Stacked(s), s # <<>>
    PROVE  Stacked(Front(s)) /\ Len(Front(s)) = Len(s) - 1
<1> DEFINE t == Front(s)
<1>1. s \in Seq(CallRecords) /\ Len(s) \in Nat \ {0}
  BY DEF Stacked
<1>2. /\ t \in Seq(CallRecords) /\ Len(t) = Len(s) - 1
      /\ \A i \in 1..Len(s) - 1 : t[i] = s[i]
  BY <1>1, FrontIs
<1> HIDE DEF t
<1>3. ASSUME NEW i \in 1..Len(t)
      PROVE  /\ Optioned(t[i]) /\ (i < Len(t) => t[i].pc = "next")
             /\ i = 1 => t[i].from = Source
             /\ MirrorAt(t, i)
  <2>1. i \in 1..Len(s) /\ i < Len(s) /\ t[i] = s[i] /\ (i > 1 => t[i - 1] = s[i - 1])
    BY <1>1, <1>2
  <2>2. /\ Optioned(s[i]) /\ s[i].pc = "next"
        /\ (i = 1 => s[i].from = Source) /\ MirrorAt(s, i)
    BY <2>1 DEF Stacked
  <2> QED BY <2>1, <2>2 DEF MirrorAt
<1>4. Stacked(t)
  BY <1>2, <1>3 DEF Stacked
<1> QED BY <1>2, <1>4 DEF t

\* The name of an entry goes to the end of both texts.
LEMMA MirrorGoesOn ==
    ASSUME NEW f \in Seq(Names), Len(f) >= Len(Source), NEW n \in Names,
           Source \in Seq(Names), Target \in Seq(Names)
    PROVE  Append(Target \o SubSeq(f, Len(Source) + 1, Len(f)), n)
             = Target \o SubSeq(Append(f, n), Len(Source) + 1, Len(Append(f, n)))
<1> DEFINE k == Len(Source)
           g == Append(f, n)
           a == SubSeq(f, k + 1, Len(f))
           b == SubSeq(g, k + 1, Len(g))
<1>1. k \in Nat /\ Len(f) \in Nat /\ Len(f) >= k
  OBVIOUS
<1>2. /\ g \in Seq(Names) /\ Len(g) = Len(f) + 1
      /\ \A i \in 1..Len(f) : g[i] = f[i]
      /\ g[Len(f) + 1] = n
  BY AppendProperties
<1> HIDE DEF k, g
<1>3. /\ a \in Seq(Names) /\ Len(a) = Len(f) - k
      /\ \A i \in 1..Len(f) - k : a[i] = f[k + i]
  <2>1. \A i \in (k + 1)..Len(f) : f[i] \in Names
    BY <1>1
  <2>2. /\ a \in Seq(Names)
        /\ Len(a) = IF k + 1 <= Len(f) THEN Len(f) - (k + 1) + 1 ELSE 0
        /\ \A i \in 1..Len(f) - (k + 1) + 1 : a[i] = f[(k + 1) + i - 1]
    BY <1>1, <2>1, SubSeqProperties
  <2> HIDE DEF a
  <2>3. \A i \in 1..Len(f) - k : i \in 1..Len(f) - (k + 1) + 1 /\ (k + 1) + i - 1 = k + i
    BY <1>1
  <2>4. \A i \in 1..Len(f) - k : a[i] = f[k + i]
    BY <2>2, <2>3
  <2> QED BY <1>1, <2>2, <2>4
<1>4. /\ b \in Seq(Names) /\ Len(b) = Len(g) - k
      /\ \A i \in 1..Len(g) - k : b[i] = g[k + i]
  <2>1. \A i \in (k + 1)..Len(g) : g[i] \in Names
    BY <1>1, <1>2
  <2>2. /\ b \in Seq(Names)
        /\ Len(b) = IF k + 1 <= Len(g) THEN Len(g) - (k + 1) + 1 ELSE 0
        /\ \A i \in 1..Len(g) - (k + 1) + 1 : b[i] = g[(k + 1) + i - 1]
    <3>1. Len(g) \in Int /\ k + 1 \in Int
      BY <1>1, <1>2
    <3> QED BY <2>1, <3>1, SubSeqProperties
  <2> HIDE DEF b
  <2>3. \A i \in 1..Len(g) - k : i \in 1..Len(g) - (k + 1) + 1 /\ (k + 1) + i - 1 = k + i
    BY <1>1, <1>2
  <2>4. \A i \in 1..Len(g) - k : b[i] = g[k + i]
    BY <2>2, <2>3
  <2> QED BY <1>1, <1>2, <2>2, <2>4
<1> HIDE DEF a, b
<1>5. Append(a, n) = b
  <2>1. /\ Append(a, n) \in Seq(Names) /\ Len(Append(a, n)) = Len(a) + 1
        /\ \A i \in 1..Len(a) : Append(a, n)[i] = a[i]
        /\ Append(a, n)[Len(a) + 1] = n
    BY <1>3, AppendProperties
  <2>2. Len(Append(a, n)) = Len(b)
    BY <1>1, <1>2, <1>3, <1>4, <2>1
  <2>3. ASSUME NEW i \in 1..Len(b) PROVE Append(a, n)[i] = b[i]
    <3>1. CASE i = Len(b)
      BY <1>1, <1>2, <1>3, <1>4, <2>1, <3>1
    <3>2. CASE i # Len(b)
      <4>1. i \in 1..Len(a) /\ k + i \in 1..Len(f) /\ i \in 1..Len(f) - k /\ i \in 1..Len(g) - k
        BY <1>1, <1>2, <1>3, <1>4, <3>2
      <4> QED BY <1>2, <1>3, <1>4, <2>1, <4>1
    <3> QED BY <3>1, <3>2
  <2> QED BY <1>4, <2>1, <2>2, <2>3, SeqEqual
<1>6. Append(Target \o a, n) = Target \o Append(a, n)
  <2>1. Target \o a \in Seq(Names) /\ <<n>> \in Seq(Names)
    BY <1>3, ConcatProperties
  <2>2. Append(Target \o a, n) = (Target \o a) \o <<n>>
    BY <2>1, AppendIsConcat
  <2>3. Append(a, n) = a \o <<n>>
    BY <1>3, AppendIsConcat
  <2>4. (Target \o a) \o <<n>> = Target \o (a \o <<n>>)
    BY <1>3, <2>1, ConcatAssociative
  <2> QED BY <2>2, <2>3, <2>4, Zenon
<1> QED BY <1>5, <1>6 DEF a, b, g, k

\* An entry that has been read is copied by a call of its own.
LEMMA Pushes ==
    ASSUME NEW s, Stacked(s), s # <<>>, Source \in Seq(Names), Target \in Seq(Names),
           NEW n \in Names, NEW k \in CallRecords, Optioned(k), k.pc = "next",
           k.from = s[Len(s)].from, k.to = s[Len(s)].to, n \in k.read,
           NEW new, new = Call(Append(k.from, n), Append(k.to, n))
    PROVE  Stacked(Append([s EXCEPT ![Len(s)] = k], new))
<1> DEFINE r == [s EXCEPT ![Len(s)] = k]
           t == Append(r, new)
<1>1. Len(s) \in Nat \ {0} /\ s \in Seq(CallRecords)
  BY DEF Stacked
<1>2. Stacked(r) /\ r \in Seq(CallRecords) /\ Len(r) = Len(s) /\ r[Len(s)] = k
  <2>1. Stacked(r)
    BY TopMoves
  <2>2. r \in Seq(CallRecords) /\ Len(r) = Len(s) /\ r[Len(s)] = k
    BY <1>1, ExceptSeq
  <2> QED BY <2>1, <2>2
<1> HIDE DEF r
<1>3. /\ new \in CallRecords /\ new.pc = "look"
      /\ new.from = Append(k.from, n) /\ new.to = Append(k.to, n)
  <2>1. k.from \in Seq(Names) /\ k.to \in Seq(Names)
    BY DEF CallRecords
  <2>2. Append(k.from, n) \in Seq(Names) /\ Append(k.to, n) \in Seq(Names)
    BY <2>1
  <2> QED BY <2>2 DEF Call, CallRecords, Steps
<1>4. /\ t \in Seq(CallRecords) /\ Len(t) = Len(s) + 1 /\ t[Len(s) + 1] = new
      /\ \A i \in 1..Len(s) : t[i] = r[i]
  BY <1>2, <1>3, AppendProperties
<1> HIDE DEF t
<1>5. ASSUME NEW i \in 1..Len(s)
      PROVE  /\ Optioned(t[i]) /\ t[i].pc = "next"
             /\ i = 1 => t[i].from = Source
             /\ MirrorAt(t, i)
  <2>1. /\ Optioned(r[i]) /\ (i < Len(r) => r[i].pc = "next")
        /\ (i = 1 => r[i].from = Source) /\ MirrorAt(r, i)
    BY <1>2 DEF Stacked
  <2>2. t[i] = r[i] /\ (i > 1 => t[i - 1] = r[i - 1])
    BY <1>1, <1>4
  <2>3. r[i].pc = "next"
    BY <1>1, <1>2, <2>1
  <2> QED BY <2>1, <2>2, <2>3 DEF MirrorAt
<1>6. /\ Optioned(t[Len(s) + 1])
      /\ MirrorAt(t, Len(s) + 1)
  <2>1. Optioned(new)
    BY <1>3 DEF Optioned
  <2>2. MirrorAt(r, Len(s)) /\ k.from \in Seq(Names) /\ k.to \in Seq(Names)
    BY <1>1, <1>2 DEF Stacked, CallRecords
  <2>3. /\ Len(k.from) = Len(Source) + Len(s) - 1
        /\ k.to = Target \o SubSeq(k.from, Len(Source) + 1, Len(k.from))
    BY <1>2, <2>2 DEF MirrorAt
  <2>4. Len(k.from) >= Len(Source) /\ Len(Source) \in Nat
    BY <1>1, <2>3
  <2>5. new.to = Target \o SubSeq(new.from, Len(Source) + 1, Len(new.from))
    BY <1>3, <2>2, <2>3, <2>4, MirrorGoesOn
  <2>6. Len(new.from) = Len(Source) + Len(s)
    BY <1>1, <1>3, <2>2, <2>3, <2>4
  <2>7. Front(new.from) = k.from /\ Last(new.from) = n
    <3>1. /\ new.from \in Seq(Names) /\ Len(new.from) = Len(k.from) + 1
          /\ \A i \in 1..Len(k.from) : new.from[i] = k.from[i]
          /\ new.from[Len(k.from) + 1] = n
      BY <1>3, <2>2, AppendProperties
    <3>2. /\ Front(new.from) \in Seq(Names) /\ Len(Front(new.from)) = Len(k.from)
          /\ \A i \in 1..Len(k.from) : Front(new.from)[i] = new.from[i]
      <4>1. Len(k.from) \in Nat /\ Len(new.from) - 1 = Len(k.from)
        BY <2>2, <3>1
      <4>2. \A i \in 1..Len(k.from) : new.from[i] \in Names
        BY <2>2, <3>1
      <4>3. Front(new.from) = SubSeq(new.from, 1, Len(k.from))
        BY <4>1 DEF Front
      <4> QED BY <4>1, <4>2, <4>3, SubSeqProperties
    <3>3. Front(new.from) = k.from
      BY <2>2, <3>1, <3>2, SeqEqual
    <3> QED BY <2>2, <3>1, <3>3 DEF Last
  <2>8. PICK j : j = Len(s) + 1
    OBVIOUS
  <2>9. t[j] = new /\ t[j - 1] = k /\ Len(new.from) = Len(Source) + j - 1
    BY <1>1, <1>2, <1>4, <2>4, <2>6, <2>8
  <2>10. MirrorAt(t, j)
    BY <2>5, <2>7, <2>9 DEF MirrorAt
  <2> QED BY <1>4, <2>1, <2>8, <2>10
<1>7. \A i \in 1..Len(t) : i \in 1..Len(s) \/ (i = Len(s) + 1 /\ i # 1 /\ ~(i < Len(t)))
  BY <1>1, <1>4
<1>8. Stacked(t)
  BY <1>4, <1>5, <1>6, <1>7 DEF Stacked
<1> QED BY <1>8 DEF t, r

-----------------------------------------------------------------------------
(* Lookup.                                                                 *)

\* A text leads to a place or to nowhere, and there is something, or nothing.
LEMMA WalkType ==
    ASSUME NEW tree \in [Places -> Nodes], NEW text, NEW follow
    PROVE  /\ Walk(tree, text, follow) \in Places \cup {Void}
           /\ Found(tree, text, follow) \in Nodes
<1>1. Walk(tree, text, follow) \in Places \cup {Void}
  BY DEF Walk
<1>2. Nothing \in Nodes
  BY PlaceAssumption DEF Nothing, Node, Nodes, Kinds
<1> QED BY <1>1, <1>2 DEF Found

-----------------------------------------------------------------------------
(* The invariant.                                                          *)

DiskOK == node \in [Places -> Nodes] /\ data \in [Places -> Places]

CallsOK ==
    /\ Target \in Seq(Names)
    /\ Stacked(calls)
    /\ answer \in {"none", "ok", "error"}
    /\ answer = "none" <=> calls # <<>>

LookedOK == looked \in [source : Places, target : Places \cup {Void}]

Inv == DiskOK /\ CallsOK /\ LookedOK /\ unread \in BOOLEAN /\ others \in 0..MaxOthers

\* One call, from the source to the target, has not looked yet.
LEMMA InitInv == Init => Inv
<1> SUFFICES ASSUME Init PROVE Inv
  OBVIOUS
<1>1. Source \in Seq(Names) /\ Target \in Seq(Names) /\ node \in [Places -> Nodes]
  BY PlaceAssumption, TreeAssumption DEF Init
<1>2. Call(Source, Target) \in CallRecords
  BY <1>1 DEF Call, CallRecords, Steps
<1>3. /\ calls = <<Call(Source, Target)>> /\ Len(calls) = 1 /\ calls # <<>>
      /\ calls \in Seq(CallRecords)
  BY <1>2 DEF Init
<1>4. Target \o SubSeq(Source, Len(Source) + 1, Len(Source)) = Target
  <2>1. SubSeq(Source, Len(Source) + 1, Len(Source)) = <<>>
    BY <1>1, SubSeqEmpty
  <2> QED BY <1>1, <2>1, ConcatEmptySeq
<1>5. Optioned(calls[1]) /\ MirrorAt(calls, 1) /\ calls[1].from = Source
  <2>1. calls[1].from = Source /\ calls[1].to = Target /\ calls[1].pc = "look"
    BY <1>3 DEF Call
  <2> QED BY <1>1, <1>4, <2>1 DEF Optioned, MirrorAt
<1>6. Stacked(calls)
  BY <1>3, <1>5 DEF Stacked
<1>7. data \in [Places -> Places] /\ unread \in BOOLEAN /\ others \in 0..MaxOthers
  <2>1. data = [p \in Places |-> p] /\ unread = FALSE /\ others = 0
    BY DEF Init
  <2>2. 0 \in 0..MaxOthers
    BY PlaceAssumption
  <2> QED BY <2>1, <2>2
<1>8. answer = "none"
  BY DEF Init
<1>9. LookedOK
  BY PlaceAssumption DEF Init, NotLooked, LookedOK
<1> QED BY <1>1, <1>3, <1>6, <1>7, <1>8, <1>9 DEF Inv, DiskOK, CallsOK

\* The innermost call.
LEMMA CurrentType ==
    ASSUME Inv, calls # <<>>
    PROVE  /\ Current \in CallRecords /\ Optioned(Current) /\ Current = calls[Len(calls)]
           /\ Len(calls) \in 1..Len(calls) /\ calls \in Seq(CallRecords)
<1>1. calls \in Seq(CallRecords) /\ Len(calls) \in 1..Len(calls)
  BY DEF Inv, CallsOK, Stacked
<1> QED BY <1>1 DEF Current, Last, Inv, CallsOK, Stacked

\* What a stack is depends on the options and the target, which never change.
LEMMA StackedStays ==
    ASSUME UNCHANGED given, Stacked(calls')
    PROVE  Stacked(calls)'
<1>1. options' = options /\ Target' = Target
  BY DEF given
<1>2. ASSUME NEW i \in 1..Len(calls')
      PROVE  Optioned(calls[i])' /\ MirrorAt(calls, i)'
  <2>1. Optioned(calls'[i]) /\ MirrorAt(calls', i)
    BY <1>2 DEF Stacked
  <2>2. Optioned(calls[i])'
    BY <1>1, <2>1 DEF Optioned, Has
  <2>3. MirrorAt(calls, i)'
    BY <1>1, <2>1 DEF MirrorAt
  <2> QED BY <2>2, <2>3
<1> QED BY <1>2 DEF Stacked

\* A call that goes on, returns, or fails, leaves a stack.
LEMMA GotoOK ==
    ASSUME Inv, calls # <<>>, NEW pc \in Steps, Goto(pc), UNCHANGED given,
           Optioned([Current EXCEPT !.pc = pc])
    PROVE  CallsOK'
<1> DEFINE k == [Current EXCEPT !.pc = pc]
<1>1. /\ Current \in CallRecords /\ Current = calls[Len(calls)]
      /\ Len(calls) \in 1..Len(calls) /\ calls \in Seq(CallRecords)
  BY CurrentType
<1>2. k \in CallRecords /\ k.from = calls[Len(calls)].from /\ k.to = calls[Len(calls)].to
  BY <1>1 DEF CallRecords
<1>3. calls' = [calls EXCEPT ![Len(calls)] = k] /\ UNCHANGED answer
  BY <1>1 DEF Goto
<1>4. Stacked(calls) /\ Optioned(k)
  BY DEF Inv, CallsOK
<1> HIDE DEF k
<1>5. Stacked(calls')
  BY <1>2, <1>3, <1>4, TopMoves
<1>6. calls' # <<>>
  <2>1. Len(calls') = Len(calls)
    BY <1>1, <1>2, <1>3, ExceptSeq
  <2> QED BY <1>1, <2>1
<1>7. Stacked(calls)'
  BY <1>5, StackedStays
<1> QED BY <1>3, <1>6, <1>7 DEF Inv, CallsOK, given

LEMMA ReturnOK ==
    ASSUME Inv, calls # <<>>, Return, UNCHANGED given
    PROVE  CallsOK'
<1>1. Stacked(calls) /\ calls \in Seq(CallRecords) /\ Len(calls) \in Nat \ {0}
  BY CurrentType DEF Inv, CallsOK
<1>2. Stacked(calls') /\ Len(calls') = Len(calls) - 1
  BY <1>1, Pops DEF Return
<1>3. calls' \in Seq(CallRecords)
  BY <1>2 DEF Stacked
<1>4. calls' # <<>> <=> Len(calls) # 1
  <2>1. Len(<<>>) = 0 /\ (calls' # <<>> => Len(calls') # 0)
    BY <1>3, EmptySeq
  <2>2. Len(calls') # 0 <=> Len(calls) # 1
    BY <1>1, <1>2
  <2> QED BY <2>1, <2>2
<1> QED BY <1>2, <1>4
    DEF Return, Inv, CallsOK, Stacked, MirrorAt, Optioned, Has, given

LEMMA FailOK ==
    ASSUME Inv, Fail, UNCHANGED given
    PROVE  CallsOK'
<1>1. calls' = <<>> /\ answer' = "error" /\ Len(<<>>) = 0
  BY DEF Fail
<1> QED BY <1>1 DEF Inv, CallsOK, Stacked, given

-----------------------------------------------------------------------------
(* Steps.                                                                  *)

\* A step that only concerns the calls.
LEMMA CallsStep ==
    ASSUME Inv, CallsOK', UNCHANGED <<disk, looked, unread, others>>
    PROVE  Inv'
BY DEF Inv, DiskOK, LookedOK, disk

\* Where a look leads is one of the system calls the options ask for.
LEMMA ChosenOK ==
    ASSUME NEW f, NEW t, Chosen(f, t) \notin {"fail", "return"}, NEW k \in CallRecords
    PROVE  Chosen(f, t) \in Steps /\ Optioned([k EXCEPT !.pc = Chosen(f, t)])
<1>1. [k EXCEPT !.pc = Chosen(f, t)].pc = Chosen(f, t)
  BY DEF CallRecords
<1>2. CASE f.kind = "link"
  <2>1. Chosen(f, t) = "copy_symlink"
    BY <1>2 DEF Chosen
  <2> QED BY <1>1, <2>1 DEF Optioned, Steps
<1>3. CASE f.kind = "file"
  <2>1. \/ Chosen(f, t) = "create_symlink" /\ Has("create_symlinks")
        \/ Chosen(f, t) = "create_hard_link" /\ Has("create_hard_links")
        \/ Chosen(f, t) \in {"copy_file_into", "copy_file"} /\ ~Has("create_hard_links")
    BY <1>3 DEF Chosen
  <2> QED BY <1>1, <2>1 DEF Optioned, Steps
<1>4. CASE f.kind \notin {"link", "file"}
  <2>1. Chosen(f, t) \in {"open", "create_directory"} /\ ~Has("create_symlinks")
    BY <1>4 DEF Chosen
  <2> QED BY <1>1, <2>1 DEF Optioned, Steps
<1> QED BY <1>2, <1>3, <1>4

LEMMA LookStep ==
    ASSUME Inv, calls # <<>>, Look, UNCHANGED <<given, looked, others>>
    PROVE  Inv'
<1>1. CASE Fail
  BY <1>1, FailOK, CallsStep DEF Look
<1>2. CASE Return
  BY <1>2, ReturnOK, CallsStep DEF Look
<1>3. CASE ~Fail /\ ~Return
  <2>1. PICK f, t : Chosen(f, t) \notin {"fail", "return"} /\ Goto(Chosen(f, t))
    BY <1>3 DEF Look
  <2>2. Chosen(f, t) \in Steps /\ Optioned([Current EXCEPT !.pc = Chosen(f, t)])
    BY <2>1, CurrentType, ChosenOK
  <2>3. CallsOK'
    BY <2>1, <2>2, GotoOK
  <2> QED BY <2>3, CallsStep DEF Look
<1> QED BY <1>1, <1>2, <1>3

\* What is made is put at a place where there was nothing.
LEMMA MakeStep ==
    ASSUME Inv, calls # <<>>, NEW text, NEW n, Make(text, n),
           UNCHANGED <<given, looked, others>>,
           Walk(node, text, FALSE) \in Places => n \in Nodes,
           UNCHANGED <<data, unread>>
    PROVE  Inv'
<1>1. CASE Fail /\ UNCHANGED node
  BY <1>1, FailOK, CallsStep DEF disk
<1>2. CASE CanMake(text) /\ Put(Walk(node, text, FALSE), n) /\ Return
  <2>1. Walk(node, text, FALSE) \in Places
    BY <1>2, WalkType DEF CanMake, Inv, DiskOK
  <2>2. node' \in [Places -> Nodes]
    BY <1>2, <2>1 DEF Put, Inv, DiskOK
  <2>3. CallsOK'
    BY <1>2, ReturnOK
  <2> QED BY <2>2, <2>3 DEF Inv, DiskOK, LookedOK
<1> QED BY <1>1, <1>2 DEF Make

LEMMA NodeType ==
    ASSUME NEW k \in Kinds, NEW p \in Places, NEW q \in Places
    PROVE  Node(k, p, q) \in Nodes /\ Node(k, p, q).kind = k /\ Node(k, p, q).id = p
BY DEF Node, Nodes

LEMMA StatType ==
    ASSUME Inv, NEW text, NEW follow
    PROVE  Stat(text, follow) \in Nodes
BY WalkType DEF Stat, Inv, DiskOK

\* Only the outermost call makes a symlink: to the source, which is a place.
LEMMA LinkStep ==
    ASSUME Inv, calls # <<>>, CopySymlink \/ CreateSymlink \/ CreateHardLink,
           UNCHANGED <<given, looked, others>>
    PROVE  Inv'
<1>1. "link" \in Kinds /\ Root \in Places
  BY PlaceAssumption DEF Kinds
<1>2. CASE CopySymlink
  <2> DEFINE link == Stat(Current.from, FALSE)
  <2>1. link.to \in Places
    BY StatType DEF Nodes
  <2>2. CASE Fail /\ UNCHANGED node
    BY <1>2, <2>2, FailOK, CallsStep DEF CopySymlink, disk
  <2>3. CASE Make(Current.to, Node("link", Walk(node, Current.to, FALSE), link.to))
    <3>1. PICK n : n = Node("link", Walk(node, Current.to, FALSE), link.to)
      OBVIOUS
    <3>2. Walk(node, Current.to, FALSE) \in Places => n \in Nodes
      BY <1>1, <2>1, <3>1, NodeType
    <3> QED BY <1>2, <2>3, <3>1, <3>2, MakeStep DEF CopySymlink
  <2> QED BY <1>2, <2>2, <2>3 DEF CopySymlink
<1>3. CASE CreateSymlink
  <2>1. Optioned(Current) /\ Current.pc = "create_symlink" /\ Current = calls[Len(calls)]
        /\ Len(calls) \in 1..Len(calls)
    BY <1>3, CurrentType DEF CreateSymlink
  <2>2. Len(calls) = 1
    <3>1. SUFFICES ASSUME Len(calls) # 1 PROVE FALSE
      OBVIOUS
    <3>2. 1 \in 1..Len(calls) /\ 1 < Len(calls)
      <4>1. PICK l : l = Len(calls)
        OBVIOUS
      <4>2. l \in 1..l /\ l # 1
        BY <2>1, <3>1, <4>1
      <4>3. 1 \in 1..l /\ 1 < l
        BY <4>2
      <4> QED BY <4>1, <4>3
    <3>3. calls[1].pc = "next" /\ Optioned(calls[1])
      BY <3>2 DEF Inv, CallsOK, Stacked
    <3> QED BY <2>1, <3>3 DEF Optioned
  <2>3. Current.from \in Places
    BY <2>1, <2>2, PlaceAssumption DEF Inv, CallsOK, Stacked
  <2> DEFINE n == Node("link", Walk(node, Current.to, FALSE), Current.from)
  <2>4. Walk(node, Current.to, FALSE) \in Places => n \in Nodes
    BY <1>1, <2>3, NodeType
  <2>5. Make(Current.to, n) /\ UNCHANGED <<data, unread>>
    BY <1>3 DEF CreateSymlink
  <2> HIDE DEF n
  <2> QED BY <2>4, <2>5, MakeStep
<1>4. CASE CreateHardLink
  <2>1. CASE Fail /\ UNCHANGED node
    BY <1>4, <2>1, FailOK, CallsStep DEF CreateHardLink, disk
  <2>2. CASE Make(Current.to, Stat(Current.from, FALSE))
    BY <1>4, <2>2, StatType, MakeStep DEF CreateHardLink
  <2> QED BY <1>4, <2>1, <2>2 DEF CreateHardLink
<1> QED BY <1>2, <1>3, <1>4

\* The look at the files leaves the call where it opens the target, having
\* found no target, or one it may overwrite.
LEMMA LookCases ==
    ASSUME Inv, LookAtFiles
    PROVE  \/ (Fail \/ Return) /\ UNCHANGED looked
           \/ /\ Goto(IF Current.pc = "copy_file" THEN "write_file" ELSE "write_file_into")
              /\ looked' \in [source : Places, target : Places \cup {Void}]
              /\ looked'.target # Void => Has("overwrite_existing")
<1>1. PICK f, t : f = Stat(Current.from, FALSE) /\ t = Stat(FileTarget, TRUE)
  OBVIOUS
<1>2. f.id \in Places /\ t.id \in Places
  BY <1>1, StatType DEF Nodes
<1>3. CASE (Fail \/ Return) /\ UNCHANGED looked
  BY <1>3
<1>4. CASE Opens(f, t) /\ (Exists(t) => Has("overwrite_existing"))
  <2>1. looked' = [source |-> f.id, target |-> IF Exists(t) THEN t.id ELSE Void]
    BY <1>4 DEF Opens
  <2> QED BY <1>2, <1>4, <2>1 DEF Opens
<1>5. \/ (Fail \/ Return) /\ UNCHANGED looked
      \/ Opens(f, t) /\ (Exists(t) => Has("overwrite_existing"))
  BY <1>1 DEF LookAtFiles
<1> QED BY <1>3, <1>4, <1>5

LEMMA LookAtFilesStep ==
    ASSUME Inv, calls # <<>>, LookAtFiles, UNCHANGED <<given, others>>
    PROVE  Inv'
<1>1. UNCHANGED <<disk, unread>>
  BY DEF LookAtFiles
<1>2. CASE (Fail \/ Return) /\ UNCHANGED looked
  BY <1>1, <1>2, FailOK, ReturnOK, CallsStep
<1>3. CASE /\ Goto(IF Current.pc = "copy_file" THEN "write_file" ELSE "write_file_into")
           /\ LookedOK'
  <2>1. PICK pc : pc = IF Current.pc = "copy_file" THEN "write_file" ELSE "write_file_into"
    OBVIOUS
  <2>2. /\ Optioned(Current) /\ Current \in CallRecords
        /\ Current.pc \in {"copy_file", "copy_file_into"} /\ pc \in {"write_file", "write_file_into"}
    BY <2>1, CurrentType DEF LookAtFiles
  <2>3. [Current EXCEPT !.pc = pc].pc = pc
    BY <2>2 DEF CallRecords
  <2>4. Optioned([Current EXCEPT !.pc = pc])
    BY <2>2, <2>3 DEF Optioned
  <2>5. pc \in Steps
    BY <2>2 DEF Steps
  <2>6. CallsOK'
    BY <1>3, <2>1, <2>4, <2>5, GotoOK
  <2> QED BY <1>1, <1>3, <2>6 DEF Inv, DiskOK, disk
<1> QED BY <1>2, <1>3, LookCases DEF LookedOK

\* What copy_file does to the disk: a new file, or the content of an old one,
\* which is the one it found if it found any.
LEMMA WriteFileCases ==
    ASSUME Inv, WriteFile
    PROVE  \/ (Fail \/ Return) /\ UNCHANGED disk
           \/ /\ Return
              /\ \E p \in Places, x \in Places :
                    /\ ~Exists(node[p]) /\ ~Exists(Stat(FileTarget, TRUE))
                    /\ node' = [node EXCEPT ![p] = Node("file", p, Root)]
                    /\ data' = [data EXCEPT ![p] = data[x]]
           \/ /\ Return /\ UNCHANGED node
              /\ \E x \in Places :
                    data' = [data EXCEPT ![Stat(FileTarget, TRUE).id] = data[x]]
<1>1. PICK p, t, n : /\ p = Walk(node, FileTarget, TRUE) /\ t = Stat(FileTarget, TRUE)
                     /\ n = Stat(FileTarget, FALSE)
  BY Zenon
<1>2. /\ t.id \in Places /\ looked.source \in Places
      /\ p \in Places \cup {Void} /\ (p # Void => t = node[p])
  BY <1>1, StatType, WalkType DEF Inv, DiskOK, LookedOK, Stat, Found, Nodes
<1>3. \/ Fail /\ UNCHANGED disk
      \/ /\ p # Void /\ ~Exists(t) /\ Put(p, Node("file", p, Root))
         /\ data' = [data EXCEPT ![p] = data[looked.source]] /\ Return
      \/ /\ data' = [data EXCEPT ![t.id] = data[looked.source]]
         /\ Return /\ UNCHANGED node
  BY <1>1 DEF WriteFile
<1>4. ASSUME p # Void, ~Exists(t) PROVE p \in Places /\ ~Exists(node[p])
  BY <1>2, <1>4
<1>5. CASE Fail /\ UNCHANGED disk
  BY <1>5
<1>6. CASE /\ p # Void /\ ~Exists(t) /\ Put(p, Node("file", p, Root))
           /\ data' = [data EXCEPT ![p] = data[looked.source]] /\ Return
  BY <1>1, <1>2, <1>4, <1>6 DEF Put
<1>7. CASE /\ data' = [data EXCEPT ![t.id] = data[looked.source]]
           /\ Return /\ UNCHANGED node
  BY <1>1, <1>2, <1>7
<1> QED BY <1>3, <1>5, <1>6, <1>7

LEMMA WriteFileStep ==
    ASSUME Inv, calls # <<>>, WriteFile, UNCHANGED <<given, others>>
    PROVE  Inv'
<1>1. UNCHANGED unread /\ LookedOK'
  BY PlaceAssumption DEF WriteFile, NotLooked, LookedOK
<1>2. CASE (Fail \/ Return) /\ UNCHANGED disk
  <2>1. CallsOK'
    BY <1>2, FailOK, ReturnOK
  <2> QED BY <1>1, <1>2, <2>1 DEF Inv, DiskOK, disk
<1>3. CASE Return /\ node' \in [Places -> Nodes] /\ data' \in [Places -> Places]
  <2>1. CallsOK'
    BY <1>3, ReturnOK
  <2> QED BY <1>1, <1>3, <2>1 DEF Inv, DiskOK
<1>4. node \in [Places -> Nodes] /\ data \in [Places -> Places]
  BY DEF Inv, DiskOK
<1>5. \A p \in Places : Node("file", p, Root) \in Nodes
  BY NodeType, PlaceAssumption DEF Kinds
<1>6. ASSUME NEW p \in Places, NEW x \in Places, Return,
             node' = [node EXCEPT ![p] = Node("file", p, Root)],
             data' = [data EXCEPT ![p] = data[x]]
      PROVE  Inv'
  BY <1>3, <1>4, <1>5, <1>6
<1>7. ASSUME NEW i, NEW x \in Places, Return, UNCHANGED node,
             data' = [data EXCEPT ![i] = data[x]]
      PROVE  Inv'
  BY <1>3, <1>4, <1>7
<1> QED BY <1>2, <1>6, <1>7, WriteFileCases

LEMMA CreateDirectoryStep ==
    ASSUME Inv, calls # <<>>, CreateDirectory, UNCHANGED <<given, looked, others>>
    PROVE  Inv'
<1>1. CASE Fail /\ UNCHANGED node
  BY <1>1, FailOK, CallsStep DEF CreateDirectory, disk
<1>2. ASSUME Goto("open") PROVE CallsOK'
  <2>1. Optioned(Current) /\ Current \in CallRecords /\ Current.pc = "create_directory"
    BY CurrentType DEF CreateDirectory
  <2>2. [Current EXCEPT !.pc = "open"].pc = "open"
    BY <2>1 DEF CallRecords
  <2>3. Optioned([Current EXCEPT !.pc = "open"])
    BY <2>1, <2>2 DEF Optioned
  <2>4. "open" \in Steps
    BY DEF Steps
  <2> QED BY <1>2, <2>3, <2>4, GotoOK
<1>3. CASE Goto("open") /\ UNCHANGED node
  BY <1>2, <1>3, CallsStep DEF CreateDirectory, disk
<1>4. CASE ~(Fail /\ UNCHANGED node) /\ ~(Goto("open") /\ UNCHANGED node)
  <2> DEFINE p == Walk(node, Current.to, FALSE)
  <2>1. CanMake(Current.to) /\ Put(p, Node("dir", p, Root)) /\ Goto("open")
    BY <1>4 DEF CreateDirectory
  <2>2. p \in Places
    BY <2>1, WalkType DEF CanMake, Inv, DiskOK
  <2>3. Node("dir", p, Root) \in Nodes
    BY <2>2, NodeType, PlaceAssumption DEF Kinds
  <2>4. node' \in [Places -> Nodes]
    BY <2>1, <2>3 DEF Put, Inv, DiskOK
  <2> QED BY <1>2, <2>1, <2>4 DEF CreateDirectory, Inv, DiskOK, LookedOK
<1> QED BY <1>1, <1>3, <1>4

\* A change of the innermost call that keeps its names.
LEMMA TopOK ==
    ASSUME Inv, calls # <<>>, UNCHANGED <<given, answer>>,
           NEW k \in CallRecords, Optioned(k), k.from = Current.from, k.to = Current.to,
           calls' = [calls EXCEPT ![Len(calls)] = k]
    PROVE  CallsOK'
<1>1. /\ Current = calls[Len(calls)]
      /\ Len(calls) \in 1..Len(calls) /\ calls \in Seq(CallRecords)
  BY CurrentType
<1>2. Stacked(calls)
  BY DEF Inv, CallsOK
<1>3. Stacked(calls')
  BY <1>1, <1>2, TopMoves
<1>4. calls' # <<>>
  <2>1. Len(calls') = Len(calls)
    BY <1>1, ExceptSeq
  <2> QED BY <1>1, <2>1
<1>5. Stacked(calls)'
  BY <1>3, StackedStays
<1> QED BY <1>4, <1>5 DEF Inv, CallsOK, given

LEMMA OpenStep ==
    ASSUME Inv, calls # <<>>, OpenDirectory, UNCHANGED <<given, looked, others>>
    PROVE  Inv'
<1>1. CASE Fail
  BY <1>1, FailOK, CallsStep DEF OpenDirectory
<1>2. CASE Opened("first")
  <2> DEFINE k == [Current EXCEPT !.pc = "first", !.entries = Listed(Current.from)]
  <2>1. /\ Current \in CallRecords /\ Optioned(Current) /\ Current.pc = "open"
        /\ Current = calls[Len(calls)] /\ Len(calls) \in 1..Len(calls)
        /\ calls \in Seq(CallRecords)
    BY <1>2, CurrentType DEF OpenDirectory
  <2>2. Listed(Current.from) \subseteq Names /\ "first" \in Steps
    BY DEF Listed, Steps
  <2>3. /\ k \in CallRecords /\ k.from = Current.from /\ k.to = Current.to
        /\ k.pc = "first"
    BY <2>1, <2>2 DEF CallRecords
  <2>4. Optioned(k)
    BY <2>1, <2>3 DEF Optioned
  <2>5. calls' = [calls EXCEPT ![Len(calls)] = k]
    BY <1>2, <2>1 DEF Opened
  <2> HIDE DEF k
  <2>6. CallsOK'
    BY <1>2, <2>3, <2>4, <2>5, TopOK DEF Opened
  <2> QED BY <2>6, CallsStep DEF OpenDirectory
<1> QED BY <1>1, <1>2 DEF OpenDirectory

LEMMA EntryStep ==
    ASSUME Inv, calls # <<>>, NEW n \in Names, CopyEntry(n), Current.pc \in {"first", "next"},
           UNCHANGED given
    PROVE  CallsOK'
<1> DEFINE k == [Current EXCEPT !.pc = "next", !.read = @ \cup {n}]
           new == Call(Append(Current.from, n), Append(Current.to, n))
<1>1. /\ Current \in CallRecords /\ Optioned(Current)
      /\ Current = calls[Len(calls)] /\ Len(calls) \in 1..Len(calls)
      /\ calls \in Seq(CallRecords)
  BY CurrentType
<1>2. /\ k \in CallRecords /\ k.from = Current.from /\ k.to = Current.to
      /\ k.pc = "next" /\ n \in k.read
  BY <1>1 DEF CallRecords, Steps
<1>3. Optioned(k)
  BY <1>1, <1>2 DEF Optioned
<1>4. calls' = Append([calls EXCEPT ![Len(calls)] = k], new) /\ UNCHANGED answer
  BY <1>1 DEF CopyEntry
<1>5. new = Call(Append(k.from, n), Append(k.to, n))
  BY <1>2
<1> HIDE DEF k, new
<1>6. Stacked(calls) /\ Source \in Seq(Names) /\ Target \in Seq(Names)
  BY PlaceAssumption DEF Inv, CallsOK
<1>7. Stacked(calls')
  BY <1>1, <1>2, <1>3, <1>4, <1>5, <1>6, Pushes
<1>8. calls' # <<>>
  <2>1. [calls EXCEPT ![Len(calls)] = k] \in Seq(CallRecords)
    BY <1>1, <1>2, ExceptSeq
  <2> QED BY <1>4, <2>1
<1>9. Stacked(calls)'
  BY <1>7, StackedStays
<1> QED BY <1>4, <1>8, <1>9 DEF Inv, CallsOK, given

LEMMA ReadStep ==
    ASSUME Inv, calls # <<>>, ReadNext, UNCHANGED <<given, looked, others>>
    PROVE  Inv'
<1>1. ASSUME NEW n \in Unread, CopyEntry(n) PROVE Inv'
  <2>1. n \in Names
    BY CurrentType DEF Unread, Listed, CallRecords
  <2>2. CallsOK'
    BY <1>1, <2>1, EntryStep DEF ReadNext
  <2> QED BY <1>1, <2>2, CallsStep DEF ReadNext, CopyEntry
<1>2. CASE Return /\ UNCHANGED unread
  BY <1>2, ReturnOK, CallsStep DEF ReadNext
<1>3. CASE unread' = TRUE /\ (Fail \/ Return)
  <2>1. CallsOK'
    BY <1>3, FailOK, ReturnOK
  <2> QED BY <1>3, <2>1 DEF ReadNext, disk, Inv, DiskOK, LookedOK
<1> QED BY <1>1, <1>2, <1>3 DEF ReadNext

\* Other programs leave the calls alone.
LEMMA OtherStep ==
    ASSUME Inv, NEW p \in Places, OtherRemoves(p) \/ OtherMakes(p)
    PROVE  Inv'
<1>1. \E n \in Nodes : Put(p, n)
  <2>1. Nothing \in Nodes /\ \A k \in {"dir", "file"} : Node(k, p, Root) \in Nodes
    BY NodeType, PlaceAssumption DEF Nothing, Kinds
  <2> QED BY <2>1 DEF OtherRemoves, OtherMakes
<1>2. node' \in [Places -> Nodes]
  BY <1>1 DEF Put, Inv, DiskOK
<1>3. UNCHANGED <<given, data, calls, looked, answer, unread>> /\ others' \in 0..MaxOthers
  BY PlaceAssumption DEF OtherRemoves, OtherMakes, Disturb, Inv
<1>4. CallsOK'
  BY <1>3 DEF Inv, CallsOK, Stacked, MirrorAt, Optioned, Has, given
<1> QED BY <1>2, <1>3, <1>4 DEF Inv, DiskOK, LookedOK

LEMMA NextInv == Inv /\ [Next]_vars => Inv'
<1> SUFFICES ASSUME Inv, [Next]_vars PROVE Inv'
  OBVIOUS
<1>1. CASE Step
  BY <1>1, LookStep, LinkStep, LookAtFilesStep, WriteFileStep, CreateDirectoryStep,
     OpenStep, ReadStep
  DEF Step
<1>2. CASE UNCHANGED vars
  BY <1>2 DEF vars, disk, given, Inv, DiskOK, LookedOK, CallsOK, Stacked, MirrorAt, Optioned, Has
<1> QED BY <1>1, <1>2, OtherStep DEF Next

LEMMA Invariance == Spec => []Inv
BY InitInv, NextInv, PTL DEF Spec

LEMMA InvTypes == Inv => TypeOK /\ CallsMirror
<1> SUFFICES ASSUME Inv PROVE TypeOK /\ CallsMirror
  OBVIOUS
<1>1. /\ node \in [Places -> Nodes] /\ data \in [Places -> Places]
      /\ unread \in BOOLEAN /\ others \in 0..MaxOthers
      /\ answer \in {"none", "ok", "error"} /\ (answer = "none" <=> calls # <<>>)
      /\ Stacked(calls) /\ looked \in [source : Places, target : Places \cup {Void}]
  BY DEF Inv, DiskOK, CallsOK, LookedOK
<1>2. ASSUME NEW i \in 1..Len(calls)
      PROVE  /\ calls[i].pc \in Steps
             /\ calls[i].entries \cup calls[i].read \subseteq Names
             /\ i < Len(calls) => calls[i].pc = "next"
             /\ MirrorAt(calls, i)
  <2>1. calls \in Seq(CallRecords)
    BY <1>1 DEF Stacked
  <2>2. calls[i] \in CallRecords
    BY <2>1
  <2> QED BY <1>1, <2>2 DEF CallRecords, Stacked
<1>3. TypeOK
  BY <1>1, <1>2 DEF TypeOK
<1> QED BY <1>2, <1>3 DEF CallsMirror, MirrorAt

\* The types of the variables, and that every call but the innermost stands in
\* its loop, for any names, trees, paths and interferences.
THEOREM TypeCorrect == Spec => []TypeOK
BY InvTypes, Invariance, PTL

\* However deep a copy goes, whatever the links in the tree and whatever other
\* programs do, the innermost call copies the place of the source to the same
\* place below the target, and the names between were read by the calls around it.
THEOREM CallsAlwaysMirror == Spec => []CallsMirror
BY InvTypes, Invariance, PTL

-----------------------------------------------------------------------------
(* Induction.                                                              *)

\* Every set of natural numbers has a least element.
LEMMA NatMin ==
    ASSUME NEW T \in SUBSET Nat, T # {}
    PROVE  \E m \in T : \A k \in T : m <= k
<1> DEFINE UpTo(n) == 1..n
           TT == {X \in FiniteSubsetsOf(Nat) : \E n \in T : X = UpTo(n)}
           R == StrictSubsetOrdering(Nat)
<1>1. \A n \in T : UpTo(n) \in TT
  <2>1. \A n \in T : UpTo(n) \in SUBSET Nat /\ IsFiniteSet(UpTo(n))
    BY FS_Interval
  <2> QED BY <2>1 DEF FiniteSubsetsOf
<1>2. PICK X \in TT : \A Y \in TT : <<Y, X>> \notin R
  <2>1. IsWellFoundedOn(R, FiniteSubsetsOf(Nat))
    BY FS_StrictSubsetOrderingWellFounded
  <2>2. TT # {} /\ TT \subseteq FiniteSubsetsOf(Nat)
    BY <1>1
  <2> HIDE DEF TT, R
  <2> QED BY <2>1, <2>2, WFMin
<1>3. PICK m \in T : X = UpTo(m)
  OBVIOUS
<1>4. ASSUME NEW k \in T, ~(m <= k) PROVE FALSE
  <2>1. UpTo(k) \in TT /\ UpTo(k) \subseteq UpTo(m)
    BY <1>1, <1>4
  <2>2. m \in UpTo(m) /\ m \notin UpTo(k)
    BY <1>4
  <2>3. UpTo(k) \in SUBSET Nat /\ UpTo(m) \in SUBSET Nat
    OBVIOUS
  <2>4. <<UpTo(k), UpTo(m)>> \in R
    BY <2>1, <2>2, <2>3 DEF StrictSubsetOrdering
  <2> QED BY <1>2, <1>3, <2>1, <2>4
<1> QED BY <1>4

\* A set with 0, and with the successor of each of its members, has them all.
LEMMA Induction ==
    ASSUME NEW S, 0 \in S, \A n \in Nat : n \in S => n + 1 \in S
    PROVE  Nat \subseteq S
<1> SUFFICES ASSUME Nat \ S # {} PROVE FALSE
  OBVIOUS
<1>1. PICK m \in Nat \ S : \A k \in Nat \ S : m <= k
  BY NatMin
<1>2. m # 0 /\ m - 1 \in Nat /\ m - 1 \in S
  BY <1>1
<1> QED BY <1>1, <1>2

\* What is computed in n steps: r at first, and next[i] makes the i-th of the one before.
Iterates(at, n, r, next) ==
    at = [i \in 0..n |-> IF i = 0 THEN r ELSE next[i][at[i - 1]]]

\* There is such a function.
LEMMA RecursionExists ==
    ASSUME NEW n \in Nat, NEW r, NEW next
    PROVE  \E at : Iterates(at, n, r, next)
<1> DEFINE Is(at, m) == Iterates(at, m, r, next)
           S == {m \in Nat : \E at : Is(at, m)}
<1>1. 0 \in S
  <2> DEFINE at == [i \in 0..0 |-> r]
  <2>1. Is(at, 0)
    BY DEF Iterates
  <2> QED BY <2>1
<1>2. ASSUME NEW m \in Nat, m \in S PROVE m + 1 \in S
  <2>0. PICK at : Is(at, m)
    BY <1>2
  <2>1. at = [i \in 0..m |-> IF i = 0 THEN r ELSE next[i][at[i - 1]]]
    BY <2>0 DEF Iterates
  <2> DEFINE on == [i \in 0..(m + 1) |-> IF i = m + 1 THEN next[m + 1][at[m]] ELSE at[i]]
  <2>2. on[m + 1] = next[m + 1][at[m]] /\ \A i \in 0..m : on[i] = at[i]
    OBVIOUS
  <2>3. on = [i \in 0..(m + 1) |-> IF i = 0 THEN r ELSE next[i][on[i - 1]]]
    <3>1. ASSUME NEW i \in 0..(m + 1) PROVE on[i] = IF i = 0 THEN r ELSE next[i][on[i - 1]]
      <4>1. CASE i = m + 1
        BY <2>2, <4>1
      <4>2. CASE i \in 0..m
        <5>1. at[i] = IF i = 0 THEN r ELSE next[i][at[i - 1]]
          BY <2>1, <4>2
        <5>2. i # 0 => on[i - 1] = at[i - 1]
          BY <2>2, <4>2
        <5> HIDE DEF on
        <5> QED BY <2>2, <4>2, <5>1, <5>2
      <4> QED BY <4>1, <4>2
    <3> QED BY <3>1
  <2> HIDE DEF on
  <2>4. Is(on, m + 1)
    BY <2>3 DEF Iterates
  <2> HIDE DEF Is
  <2> QED BY <2>4
<1> HIDE DEF S
<1>3. n \in S
  BY <1>1, <1>2, Induction
<1> QED BY <1>3 DEF S

\* Where the i-th name leads from each place.
Onward(tree, text, follow) ==
    [i \in 1..Len(text) |-> [up \in Places \cup {Void} |->
        IF up = Void THEN Void
        ELSE LET p == Append(up, text[i])
             IN  IF tree[up].kind # "dir" \/ p \notin Places THEN Void
                 ELSE IF tree[p].kind = "link" /\ (i < Len(text) \/ follow)
                 THEN tree[p].to
                 ELSE p]]

\* The recursion of Reached, as a function there is.
LEMMA ReachedIs ==
    ASSUME NEW tree, NEW text, Len(text) \in Nat, NEW follow
    PROVE  \E at : /\ Iterates(at, Len(text), Root, Onward(tree, text, follow))
                   /\ Reached(tree, text, follow) = at[Len(text)]
<1> DEFINE next == Onward(tree, text, follow)
           f == CHOOSE at : Iterates(at, Len(text), Root, next)
<1>1. Reached(tree, text, follow) = f[Len(text)]
  BY DEF Reached, Onward, Iterates
<1>2. \E at : Iterates(at, Len(text), Root, next)
  BY RecursionExists
<1> HIDE DEF next
<1>3. Iterates(f, Len(text), Root, next)
  BY <1>2
<1> QED BY <1>1, <1>3 DEF next

-----------------------------------------------------------------------------
(* The texts on the way to a text.                                         *)

Pre(text, i) == SubSeq(text, 1, i)

LEMMA PreType ==
    ASSUME NEW text \in Seq(Names), NEW i \in 0..Len(text)
    PROVE  /\ Pre(text, i) \in Seq(Names) /\ Len(Pre(text, i)) = i
           /\ \A j \in 1..i : Pre(text, i)[j] = text[j]
<1>1. i \in Int /\ \A j \in 1..i : text[j] \in Names /\ 1 + j - 1 = j
  OBVIOUS
<1>2. /\ Pre(text, i) \in Seq(Names)
      /\ Len(Pre(text, i)) = IF 1 <= i THEN i - 1 + 1 ELSE 0
      /\ \A j \in 1..i - 1 + 1 : Pre(text, i)[j] = text[1 + j - 1]
  BY <1>1, SubSeqProperties DEF Pre
<1>3. \A j \in 1..i : j \in 1..i - 1 + 1
  OBVIOUS
<1>4. Len(Pre(text, i)) = i
  BY <1>2
<1> QED BY <1>1, <1>2, <1>3, <1>4

LEMMA PreEnds ==
    ASSUME NEW text \in Seq(Names)
    PROVE  Pre(text, 0) = <<>> /\ Pre(text, Len(text)) = text
BY SubSeqFull, SubSeqEmpty DEF Pre

LEMMA PreStep ==
    ASSUME NEW text \in Seq(Names), NEW i \in 1..Len(text)
    PROVE  /\ text[i] \in Names
           /\ Pre(text, i) = Append(Pre(text, i - 1), text[i])
           /\ Front(Pre(text, i)) = Pre(text, i - 1)
           /\ Pre(text, i) # <<>>
<1>1. i \in Nat \ {0} /\ i - 1 \in 0..Len(text) /\ i \in 0..Len(text) /\ text[i] \in Names
  OBVIOUS
<1> DEFINE p == Pre(text, i)
           q == Pre(text, i - 1)
<1>2. /\ p \in Seq(Names) /\ Len(p) = i /\ \A j \in 1..i : p[j] = text[j]
      /\ q \in Seq(Names) /\ Len(q) = i - 1 /\ \A j \in 1..i - 1 : q[j] = text[j]
  BY <1>1, PreType
<1> HIDE DEF p, q
<1>3. p = Append(q, text[i])
  <2>1. /\ Append(q, text[i]) \in Seq(Names) /\ Len(Append(q, text[i])) = i
        /\ \A j \in 1..i - 1 : Append(q, text[i])[j] = q[j]
        /\ Append(q, text[i])[i] = text[i]
    BY <1>1, <1>2, AppendProperties
  <2>2. \A j \in 1..i : p[j] = Append(q, text[i])[j]
    <3> SUFFICES ASSUME NEW j \in 1..i PROVE p[j] = Append(q, text[i])[j]
      OBVIOUS
    <3>1. j = i \/ j \in 1..i - 1
      BY <1>1
    <3> QED BY <1>2, <2>1, <3>1
  <2> QED BY <1>2, <2>1, <2>2, SeqEqual
<1>4. Front(p) = q
  <2>1. Front(p) = SubSeq(p, 1, i - 1)
    BY <1>2 DEF Front
  <2>2. i - 1 \in 0..Len(p)
    BY <1>1, <1>2
  <2>3. /\ Pre(p, i - 1) \in Seq(Names) /\ Len(Pre(p, i - 1)) = i - 1
        /\ \A j \in 1..i - 1 : Pre(p, i - 1)[j] = p[j]
    BY <1>2, <2>2, PreType
  <2>4. \A j \in 1..i - 1 : j \in 1..i
    BY <1>1
  <2>5. Pre(p, i - 1) = q
    BY <1>2, <2>3, <2>4, SeqEqual
  <2> QED BY <2>1, <2>5 DEF Pre
<1>5. p # <<>>
  BY <1>1, <1>2, EmptySeq
<1> QED BY <1>1, <1>3, <1>4, <1>5 DEF p, q

\* The texts on the way to a place are places.
LEMMA PrePlaces ==
    ASSUME NEW text \in Places, NEW i \in 0..Len(text)
    PROVE  Pre(text, i) \in Places
<1> DEFINE n == Len(text)
           S == {k \in Nat : k <= n => Pre(text, n - k) \in Places}
<1>1. text \in Seq(Names) /\ n \in Nat
  BY PlaceAssumption
<1>2. 0 \in S
  BY <1>1, PreEnds
<1>3. ASSUME NEW k \in Nat, k \in S PROVE k + 1 \in S
  <2> SUFFICES ASSUME k + 1 <= n PROVE Pre(text, n - (k + 1)) \in Places
    OBVIOUS
  <2>1. n - k \in 1..Len(text) /\ n - k - 1 = n - (k + 1) /\ Pre(text, n - k) \in Places
    BY <1>1, <1>3
  <2> HIDE DEF n, S
  <2>2. Pre(text, n - k) # Root /\ Front(Pre(text, n - k)) = Pre(text, n - (k + 1))
    BY <1>1, <2>1, PreStep DEF Root
  <2> QED BY <2>1, <2>2, PlaceAssumption
<1> HIDE DEF S
<1>4. n - i \in S
  BY <1>1, <1>2, <1>3, Induction
<1>5. n - (n - i) = i /\ n - i <= n
  BY <1>1
<1> QED BY <1>4, <1>5 DEF S

\* Everything is in a directory.
Shaped(tree) ==
    /\ tree \in [Places -> Nodes] /\ tree[Root].kind = "dir"
    /\ \A p \in Places \ {Root} : Exists(tree[p]) => tree[Front(p)].kind = "dir"

\* What is above something is a directory.
LEMMA ShapedUp ==
    ASSUME NEW tree, Shaped(tree), NEW text \in Places, Exists(tree[text]),
           NEW i \in 0..Len(text) - 1
    PROVE  tree[Pre(text, i)].kind = "dir"
<1> DEFINE n == Len(text)
           S == {k \in Nat : k < n => /\ tree[Pre(text, n - (k + 1))].kind = "dir"}
<1>1. text \in Seq(Names) /\ n \in Nat
  BY PlaceAssumption
<1>2. \A j \in 1..n : /\ Pre(text, j) \in Places \ {Root}
                       /\ Front(Pre(text, j)) = Pre(text, j - 1)
  BY <1>1, PreStep, PrePlaces DEF Root
<1>3. 0 \in S
  <2> SUFFICES ASSUME n > 0 PROVE tree[Pre(text, n - 1)].kind = "dir"
    BY <1>1
  <2>1. n \in 1..n /\ Pre(text, n) = text
    BY <1>1, PreEnds
  <2> QED BY <1>2, <2>1 DEF Shaped
<1>4. ASSUME NEW k \in Nat, k \in S PROVE k + 1 \in S
  <2> SUFFICES ASSUME k + 1 < n PROVE tree[Pre(text, n - (k + 1 + 1))].kind = "dir"
    OBVIOUS
  <2>1. n - (k + 1) \in 1..n /\ n - (k + 1) - 1 = n - (k + 1 + 1)
        /\ tree[Pre(text, n - (k + 1))].kind = "dir"
    BY <1>1, <1>4
  <2> HIDE DEF n, S
  <2>2. Exists(tree[Pre(text, n - (k + 1))])
    BY <2>1 DEF Exists
  <2> QED BY <1>2, <2>1, <2>2 DEF Shaped
<1> HIDE DEF S
<1>5. n - (i + 1) \in S
  BY <1>1, <1>3, <1>4, Induction
<1>6. n - (n - (i + 1) + 1) = i /\ n - (i + 1) < n
  BY <1>1
<1> QED BY <1>5, <1>6 DEF S

-----------------------------------------------------------------------------
(* Where a text leads that leads through no symlink.                       *)

\* The first i names lead through directories that are places.
Straight(tree, text, i) ==
    /\ \A j \in 0..i : Pre(text, j) \in Places
    /\ \A j \in 0..i - 1 : tree[Pre(text, j)].kind = "dir"

\* Where no symlink is met a text leads to itself or nowhere.
LEMMA StraightWalk ==
    ASSUME NEW tree, NEW text \in Seq(Names), NEW follow,
           \A i \in 1..Len(text) :
               Pre(text, i) \in Places => tree[Pre(text, i)].kind # "link"
    PROVE  Walk(tree, text, follow) = IF Straight(tree, text, Len(text)) THEN text ELSE Void
<1> DEFINE n == Len(text)
           next == Onward(tree, text, follow)
           To(i) == IF Straight(tree, text, i) THEN Pre(text, i) ELSE Void
<1>1. n \in Nat
  OBVIOUS
<1>2. PICK at : /\ Iterates(at, n, Root, next)
                /\ Reached(tree, text, follow) = at[n]
  BY <1>1, ReachedIs
<1>3. at[0] = Root /\ \A i \in 1..n : at[i] = next[i][at[i - 1]]
  <2>1. at = [i \in 0..n |-> IF i = 0 THEN Root ELSE next[i][at[i - 1]]]
    BY <1>2 DEF Iterates
  <2>2. \A i \in 0..n : at[i] = IF i = 0 THEN Root ELSE next[i][at[i - 1]]
    <3> HIDE DEF next
    <3> QED BY <2>1
  <2>3. \A i \in 1..n : i \in 0..n /\ i # 0
    BY <1>1
  <2> HIDE DEF next
  <2> QED BY <1>1, <2>2, <2>3
<1>4. ASSUME NEW i \in 1..n, NEW up \in Places \cup {Void}
      PROVE  next[i][up] = IF up # Void /\ tree[up].kind = "dir" /\ Append(up, text[i]) \in Places
                           THEN IF /\ tree[Append(up, text[i])].kind = "link"
                                   /\ i < Len(text) \/ follow
                                THEN tree[Append(up, text[i])].to
                                ELSE Append(up, text[i])
                           ELSE Void
  BY DEF Onward
<1> HIDE DEF next
<1>5. \A i \in 0..n : To(i) \in Places \cup {Void}
  BY DEF Straight
<1> DEFINE S == {i \in Nat : i <= n => at[i] = To(i)}
<1>6. 0 \in S
  <2>1. Pre(text, 0) = Root
    BY PreEnds DEF Root
  <2>2. Straight(tree, text, 0)
    BY <2>1, PlaceAssumption DEF Straight
  <2> QED BY <1>3, <2>1, <2>2
<1>7. ASSUME NEW i \in Nat, i \in S PROVE i + 1 \in S
  <2> SUFFICES ASSUME i + 1 <= n PROVE at[i + 1] = To(i + 1)
    OBVIOUS
  <2>1. i \in 0..n /\ i + 1 \in 1..n /\ i + 1 - 1 = i /\ at[i] = To(i)
    BY <1>1, <1>7
  <2>2. at[i + 1] = next[i + 1][To(i)] /\ To(i) \in Places \cup {Void}
    BY <1>3, <1>5, <2>1
  <2>3. Pre(text, i + 1) = Append(Pre(text, i), text[i + 1])
    BY <2>1, PreStep
  <2>4. /\ \A j \in 0..i + 1 : j \in 0..i \/ j = i + 1
        /\ \A j \in 0..i + 1 - 1 : j \in 0..i - 1 \/ j = i
        /\ \A j \in 0..i : j \in 0..i + 1
        /\ \A j \in 0..i - 1 : j \in 0..i + 1 - 1
        /\ i + 1 \in 0..i + 1 /\ i \in 0..i + 1 - 1 /\ i \in 0..i
    OBVIOUS
  <2>5. Straight(tree, text, i + 1) <=> /\ Straight(tree, text, i)
                                       /\ Pre(text, i + 1) \in Places
                                       /\ tree[Pre(text, i)].kind = "dir"
    BY <2>4 DEF Straight
  <2>6. Straight(tree, text, i) => Pre(text, i) \in Places /\ Pre(text, i) # Void
    BY <2>4, PlaceAssumption DEF Straight
  <2>7. Pre(text, i + 1) \in Places => tree[Pre(text, i + 1)].kind # "link"
    BY <2>1
  <2>8. CASE Straight(tree, text, i)
    BY <1>4, <2>1, <2>2, <2>3, <2>5, <2>6, <2>7, <2>8
  <2>9. CASE ~Straight(tree, text, i)
    BY <1>4, <2>1, <2>2, <2>5, <2>9
  <2> QED BY <2>8, <2>9
<1> HIDE DEF S
<1>8. n \in S
  BY <1>1, <1>6, <1>7, Induction
<1>9. at[n] = To(n)
  BY <1>1, <1>8 DEF S
<1>10. Straight(tree, text, n) => text \in Places
  <2>1. n \in 0..n
    BY <1>1
  <2> QED BY <2>1, PreEnds DEF Straight
<1> QED BY <1>2, <1>9, <1>10, PreEnds, PlaceAssumption DEF Walk

\* A text leads through no symlink.
Linkless(tree, text) ==
    \A i \in 1..Len(text) : Pre(text, i) \in Places => tree[Pre(text, i)].kind # "link"

\* In a tree where everything is in a directory it leads to itself, then.
LEMMA LinklessFound ==
    ASSUME NEW tree, Shaped(tree), NEW text \in Seq(Names), Linkless(tree, text), NEW follow
    PROVE  /\ Exists(Found(tree, text, follow)) <=> text \in Places /\ Exists(tree[text])
           /\ text \in Places /\ Exists(tree[text]) =>
                 Walk(tree, text, follow) = text /\ Found(tree, text, follow) = tree[text]
           /\ text \in Places \ {Root} /\ tree[Front(text)].kind = "dir" =>
                 Walk(tree, text, follow) = text /\ Found(tree, text, follow) = tree[text]
<1> DEFINE n == Len(text)
<1>1. n \in Nat /\ Void \notin Places
  BY PlaceAssumption
<1>2. Walk(tree, text, follow) = IF Straight(tree, text, n) THEN text ELSE Void
  BY StraightWalk DEF Linkless
<1>3. Straight(tree, text, n) => text \in Places
  <2>1. n \in 0..n
    BY <1>1
  <2> QED BY <2>1, PreEnds DEF Straight
<1>4. text \in Places => \A j \in 0..n : Pre(text, j) \in Places
  BY PrePlaces
<1>5. text \in Places /\ Exists(tree[text]) => Straight(tree, text, n)
  BY <1>4, ShapedUp DEF Straight
<1>6. ASSUME text \in Places \ {Root}, tree[Front(text)].kind = "dir"
      PROVE  Straight(tree, text, n)
  <2>1. n \in 1..n /\ n - 1 \in 0..n
    BY <1>1, <1>6, EmptySeq DEF Root
  <2> DEFINE up == Pre(text, n - 1)
  <2>2. up \in Places /\ Front(text) = up /\ Len(up) = n - 1
    BY <1>4, <1>6, <2>1, PreStep, PreEnds, PreType
  <2>3. Exists(tree[up])
    BY <1>6, <2>2 DEF Exists
  <2> HIDE DEF up
  <2>4. \A j \in 0..n - 2 : tree[Pre(up, j)].kind = "dir"
    <3>1. \A j \in 0..n - 2 : j \in 0..Len(up) - 1
      BY <1>1, <2>2
    <3> QED BY <2>2, <2>3, <3>1, ShapedUp
  <2>5. ASSUME NEW j \in 0..n - 2 PROVE Pre(up, j) = Pre(text, j)
    <3>1. up \in Seq(Names) /\ j \in 0..Len(up) /\ j \in 0..n
      BY <1>1, <2>2, PlaceAssumption
    <3>2. \A i \in 1..j : i \in 1..n - 1 /\ up[i] = text[i]
      <4>1. \A i \in 1..j : i \in 1..n - 1
        BY <1>1
      <4>2. \A i \in 1..n - 1 : up[i] = text[i]
        BY <2>1, PreType DEF up
      <4> QED BY <4>1, <4>2
    <3>3. \A i \in 1..j : Pre(up, j)[i] = Pre(text, j)[i]
      BY <3>1, <3>2, PreType
    <3> QED BY <3>1, <3>3, PreType, SeqEqual
  <2>6. \A j \in 0..n - 1 : j \in 0..n - 2 \/ j = n - 1
    BY <1>1
  <2>7. \A j \in 0..n - 1 : tree[Pre(text, j)].kind = "dir"
    BY <1>6, <2>2, <2>4, <2>5, <2>6 DEF up
  <2> QED BY <1>4, <1>6, <2>7 DEF Straight
<1>7. ~Exists(Nothing)
  BY DEF Exists, Nothing, Node
<1> HIDE DEF n
<1>8. Found(tree, text, follow) = IF Straight(tree, text, n) THEN tree[text] ELSE Nothing
  BY <1>1, <1>2, <1>3 DEF Found
<1> QED BY <1>2, <1>3, <1>5, <1>6, <1>7, <1>8

-----------------------------------------------------------------------------
(* Where a text leads, one name after the other.                           *)

\* Where the name n leads in the place that has been reached.
Onto(tree, up, n, follow) ==
    IF up = Void \/ tree[up].kind # "dir" \/ Append(up, n) \notin Places THEN Void
    ELSE IF tree[Append(up, n)].kind = "link" /\ follow THEN tree[Append(up, n)].to
    ELSE Append(up, n)

LEMMA WalkOfRoot ==
    ASSUME NEW tree, NEW follow
    PROVE  Walk(tree, <<>>, follow) = Root
<1>1. Len(<<>>) = 0
  OBVIOUS
<1>2. PICK at : /\ Iterates(at, 0, Root, Onward(tree, <<>>, follow))
                /\ Reached(tree, <<>>, follow) = at[0]
  BY <1>1, ReachedIs
<1>3. at = [i \in 0..0 |-> IF i = 0 THEN Root ELSE Onward(tree, <<>>, follow)[i][at[i - 1]]]
  BY <1>2 DEF Iterates
<1>4. at[0] = Root
  <2>1. \A i \in 0..0 : at[i] = IF i = 0 THEN Root ELSE Onward(tree, <<>>, follow)[i][at[i - 1]]
    BY <1>3
  <2> QED BY <2>1
<1> QED BY <1>2, <1>4, PlaceAssumption DEF Walk

LEMMA WalkAppend ==
    ASSUME NEW tree \in [Places -> Nodes], NEW x \in Seq(Names), NEW n \in Names, NEW follow
    PROVE  Walk(tree, Append(x, n), follow) = Onto(tree, Walk(tree, x, TRUE), n, follow)
<1> DEFINE y == Append(x, n)
           m == Len(x)
           fy == Onward(tree, y, follow)
           fx == Onward(tree, x, TRUE)
           Up == Places \cup {Void}
<1>1. /\ m \in Nat /\ y \in Seq(Names) /\ Len(y) = m + 1 /\ y[m + 1] = n
      /\ \A i \in 1..m : y[i] = x[i]
  BY AppendProperties
<1>2. PICK a : Iterates(a, m + 1, Root, fy) /\ Reached(tree, y, follow) = a[m + 1]
  <2>1. Len(y) \in Nat /\ Len(y) = m + 1
    BY <1>1
  <2>2. \E a : Iterates(a, Len(y), Root, fy) /\ Reached(tree, y, follow) = a[Len(y)]
    <3> HIDE DEF y
    <3> QED BY <2>1, ReachedIs
  <2> HIDE DEF y, m, fy
  <2> QED BY <2>1, <2>2
<1>3. PICK b : Iterates(b, m, Root, fx) /\ Reached(tree, x, TRUE) = b[m]
  BY <1>1, ReachedIs
<1> HIDE DEF m, y
<1>4. ASSUME NEW i \in 1..m, NEW up \in Up
      PROVE  fy[i][up] = fx[i][up] /\ fx[i][up] \in Up
  <2>1. i \in 1..Len(y) /\ i < Len(y) /\ i \in 1..Len(x) /\ y[i] = x[i]
    BY <1>1 DEF m
  <2>2. fy[i][up] = IF up = Void THEN Void
             ELSE LET p == Append(up, y[i])
                  IN  IF tree[up].kind # "dir" \/ p \notin Places THEN Void
                      ELSE IF tree[p].kind = "link" /\ (i < Len(y) \/ follow)
                      THEN tree[p].to
                      ELSE p
    BY <2>1 DEF Onward
  <2>3. fx[i][up] = IF up = Void THEN Void
             ELSE LET p == Append(up, x[i])
                  IN  IF tree[up].kind # "dir" \/ p \notin Places THEN Void
                      ELSE IF tree[p].kind = "link" /\ (i < Len(x) \/ TRUE)
                      THEN tree[p].to
                      ELSE p
    BY <2>1 DEF Onward
  <2>4. \A p \in Places : tree[p].to \in Places
    BY DEF Nodes
  <2> QED BY <2>1, <2>2, <2>3, <2>4
<1>5. ASSUME NEW up \in Up PROVE fy[m + 1][up] = Onto(tree, up, n, follow)
  <2>1. m + 1 \in 1..Len(y) /\ ~(m + 1 < Len(y)) /\ y[m + 1] = n
    BY <1>1
  <2>2. fy[m + 1][up] = IF up = Void THEN Void
             ELSE LET p == Append(up, y[m + 1])
                  IN  IF tree[up].kind # "dir" \/ p \notin Places THEN Void
                      ELSE IF tree[p].kind = "link" /\ (m + 1 < Len(y) \/ follow)
                      THEN tree[p].to
                      ELSE p
    BY <2>1 DEF Onward
  <2> QED BY <2>1, <2>2 DEF Onto
<1> HIDE DEF fx, fy
<1>6. /\ a[0] = Root /\ \A i \in 1..m + 1 : a[i] = fy[i][a[i - 1]]
      /\ b[0] = Root /\ \A i \in 1..m : b[i] = fx[i][b[i - 1]]
  <2>1. /\ a = [i \in 0..m + 1 |-> IF i = 0 THEN Root ELSE fy[i][a[i - 1]]]
        /\ b = [i \in 0..m |-> IF i = 0 THEN Root ELSE fx[i][b[i - 1]]]
    BY <1>2, <1>3 DEF Iterates
  <2>2. /\ \A i \in 0..m + 1 : a[i] = IF i = 0 THEN Root ELSE fy[i][a[i - 1]]
        /\ \A i \in 0..m : b[i] = IF i = 0 THEN Root ELSE fx[i][b[i - 1]]
    BY <2>1
  <2>3. /\ \A i \in 1..m + 1 : i \in 0..m + 1 /\ i # 0
        /\ \A i \in 1..m : i \in 0..m /\ i # 0
        /\ 0 \in 0..m + 1 /\ 0 \in 0..m
    BY <1>1
  <2> QED BY <2>2, <2>3
<1> DEFINE S == {i \in Nat : i <= m => a[i] = b[i] /\ b[i] \in Up}
<1>7. 0 \in S
  BY <1>6, PlaceAssumption
<1>8. ASSUME NEW i \in Nat, i \in S PROVE i + 1 \in S
  <2> SUFFICES ASSUME i + 1 <= m PROVE a[i + 1] = b[i + 1] /\ b[i + 1] \in Up
    OBVIOUS
  <2>1. i + 1 \in 1..m /\ i + 1 \in 1..m + 1 /\ i + 1 - 1 = i /\ a[i] = b[i] /\ b[i] \in Up
    BY <1>1, <1>8
  <2> HIDE DEF Up, S
  <2> QED BY <1>4, <1>6, <2>1
<1> HIDE DEF S
<1>9. m \in S
  BY <1>1, <1>7, <1>8, Induction
<1>10. a[m] = b[m] /\ b[m] \in Up
  BY <1>1, <1>9 DEF S
<1>11. a[m + 1] = Onto(tree, b[m], n, follow)
  <2>1. m + 1 \in 1..m + 1 /\ m + 1 - 1 = m
    BY <1>1
  <2>2. a[m + 1] = fy[m + 1][a[m]]
    <3>1. \A i \in 1..m + 1 : a[i] = fy[i][a[i - 1]]
      BY <1>6
    <3>2. PICK j : j = m + 1
      OBVIOUS
    <3>3. j \in 1..m + 1 /\ j - 1 = m
      BY <1>1, <2>1, <3>2
    <3>4. a[j] = fy[j][a[j - 1]]
      BY <3>1, <3>3
    <3>5. a[j] = fy[j][a[m]]
      BY <3>3, <3>4
    <3> QED BY <3>2, <3>5
  <2> HIDE DEF Up
  <2>3. a[m + 1] = fy[m + 1][b[m]] /\ b[m] \in Up
    BY <1>10, <2>2
  <2> QED BY <1>5, <2>3
<1>12. Walk(tree, x, TRUE) = b[m]
  <2>1. b[m] \notin Places => b[m] = Void
    BY <1>10
  <2> QED BY <1>3, <2>1 DEF Walk
<1>13. Onto(tree, b[m], n, follow) \in Places \cup {Void}
  <2>1. \A p \in Places : tree[p].to \in Places
    BY DEF Nodes
  <2> QED BY <2>1 DEF Onto
<1>14. Walk(tree, y, follow) = Onto(tree, b[m], n, follow)
  BY <1>2, <1>11, <1>13 DEF Walk
<1> QED BY <1>12, <1>14 DEF y

\* Everything that was there is as it was.
Grown(before, after) ==
    /\ before \in [Places -> Nodes] /\ after \in [Places -> Nodes]
    /\ \A p \in Places : Exists(before[p]) => after[p] = before[p]

\* What a text leads to stays where it is when more is made.
LEMMA GrownFinds ==
    ASSUME NEW before, NEW after, Grown(before, after), NEW x \in Seq(Names), NEW follow,
           Exists(Found(before, x, follow))
    PROVE  /\ Walk(before, x, follow) \in Places
           /\ Walk(after, x, follow) = Walk(before, x, follow)
           /\ Found(after, x, follow) = Found(before, x, follow)
<1> DEFINE Stays(y, f) == Exists(Found(before, y, f)) =>
                              /\ Walk(before, y, f) \in Places
                              /\ Walk(after, y, f) = Walk(before, y, f)
           S == {m \in Nat : \A y \in Seq(Names) : Len(y) = m => \A f : Stays(y, f)}
<1>1. ~Exists(Nothing) /\ Root \in Places /\ Root # Void
  BY PlaceAssumption DEF Exists, Nothing, Node
<1>2. 0 \in S
  <2>1. ASSUME NEW y \in Seq(Names), Len(y) = 0, NEW f PROVE Stays(y, f)
    <3>1. y = <<>>
      BY <2>1, EmptySeq
    <3> QED BY <1>1, <3>1, WalkOfRoot
  <2> HIDE DEF Stays
  <2> QED BY <2>1
<1>3. ASSUME NEW m \in Nat, m \in S PROVE m + 1 \in S
  <2>1. ASSUME NEW y \in Seq(Names), Len(y) = m + 1, NEW f PROVE Stays(y, f)
    <3>1. PICK z \in Seq(Names), n \in Names : y = Append(z, n) /\ Len(z) = m
      <4>1. m + 1 \in 1..Len(y) /\ m + 1 - 1 = m /\ m + 1 \in 0..Len(y) /\ m \in 0..Len(y)
        BY <2>1
      <4>2. y = Append(Pre(y, m), y[m + 1]) /\ y[m + 1] \in Names
        BY <2>1, <4>1, PreStep, PreEnds
      <4>3. Pre(y, m) \in Seq(Names) /\ Len(Pre(y, m)) = m
        BY <4>1, PreType
      <4> QED BY <4>2, <4>3
    <3>2. \A g : Stays(z, g)
      BY <1>3, <3>1
    <3> DEFINE up == Walk(before, z, TRUE)
    <3>3. /\ Walk(before, y, f) = Onto(before, up, n, f)
          /\ Walk(after, y, f) = Onto(after, Walk(after, z, TRUE), n, f)
      BY <3>1, WalkAppend DEF Grown
    <3> SUFFICES ASSUME Exists(Found(before, y, f))
                 PROVE  /\ Walk(before, y, f) \in Places
                        /\ Walk(after, y, f) = Walk(before, y, f)
      OBVIOUS
    <3>4. Walk(before, y, f) # Void /\ Walk(before, y, f) \in Places
          /\ Exists(before[Walk(before, y, f)])
      BY <1>1, WalkType DEF Found, Grown
    <3>5. up # Void /\ before[up].kind = "dir" /\ Append(up, n) \in Places
      BY <3>3, <3>4 DEF Onto
    <3>6. up \in Places /\ Exists(before[up])
      <4>1. up \in Places \cup {Void}
        BY WalkType DEF Grown
      <4> QED BY <3>5, <4>1 DEF Exists
    <3>7. Walk(after, z, TRUE) = up
      BY <3>2, <3>5, <3>6 DEF Found
    <3> HIDE DEF up
    <3>8. after[up].kind = "dir"
      BY <3>5, <3>6 DEF Grown
    <3> DEFINE p == Append(up, n)
    <3>9. Exists(before[p]) /\ after[p] = before[p]
      <4>1. CASE before[p].kind = "link"
        BY <3>5, <4>1 DEF Exists, Grown
      <4>2. CASE before[p].kind # "link"
        <5>1. Walk(before, y, f) = p
          BY <3>3, <3>5, <4>2 DEF Onto
        <5> QED BY <3>4, <3>5, <5>1 DEF Grown
      <4> QED BY <4>1, <4>2
    <3> QED BY <3>3, <3>4, <3>5, <3>7, <3>8, <3>9 DEF Onto
  <2> HIDE DEF Stays
  <2> QED BY <2>1
<1> HIDE DEF S
<1>4. Len(x) \in S /\ Len(x) \in Nat
  BY <1>2, <1>3, Induction
<1>5. Stays(x, follow)
  BY <1>4 DEF S
<1>6. /\ Walk(before, x, follow) \in Places
      /\ Walk(after, x, follow) = Walk(before, x, follow)
  BY <1>5
<1>7. Exists(before[Walk(before, x, follow)]) /\ Walk(before, x, follow) # Void
  BY <1>1, <1>6 DEF Found
<1> QED BY <1>6, <1>7 DEF Found, Grown

\* Whether the last name is followed makes no difference but for a symlink.
LEMMA FollowsNoLink ==
    ASSUME NEW tree \in [Places -> Nodes], NEW x \in Seq(Names), NEW follow,
           Found(tree, x, FALSE).kind # "link"
    PROVE  Walk(tree, x, follow) = Walk(tree, x, FALSE) /\ Found(tree, x, follow) = Found(tree, x, FALSE)
<1>1. Walk(tree, x, follow) = Walk(tree, x, FALSE)
  <2>1. CASE x = <<>>
    BY <2>1, WalkOfRoot
  <2>2. CASE x # <<>>
    <3>1. PICK m \in Nat : Len(x) = m + 1
      <4>1. Len(x) \in Nat \ {0} /\ Len(x) - 1 \in Nat /\ Len(x) = Len(x) - 1 + 1
        BY <2>2, EmptySeq
      <4> QED BY <4>1
    <3>2. PICK z \in Seq(Names), n \in Names : x = Append(z, n)
      <4>1. m + 1 \in 1..Len(x) /\ m + 1 - 1 = m /\ m + 1 \in 0..Len(x) /\ m \in 0..Len(x)
        BY <3>1
      <4>2. x = Append(Pre(x, m), x[m + 1]) /\ x[m + 1] \in Names
        BY <3>1, <4>1, PreStep, PreEnds
      <4>3. Pre(x, m) \in Seq(Names)
        BY <4>1, PreType
      <4> QED BY <4>2, <4>3
    <3> DEFINE up == Walk(tree, z, TRUE)
    <3>3. \A f : Walk(tree, x, f) = Onto(tree, up, n, f)
      BY <3>2, WalkAppend
    <3>4. up \in Places \cup {Void}
      BY WalkType
    <3> HIDE DEF up
    <3>5. Append(up, n) # Void => Found(tree, x, FALSE) =
             IF up # Void /\ tree[up].kind = "dir" /\ Append(up, n) \in Places
             THEN tree[Append(up, n)] ELSE Nothing
      BY <3>3 DEF Found, Onto
    <3>6. Append(up, n) \in Places => Append(up, n) # Void
      BY PlaceAssumption
    <3>7. CASE Onto(tree, up, n, FALSE) = Void
      <4>1. up = Void \/ tree[up].kind # "dir" \/ Append(up, n) \notin Places
        BY <3>6, <3>7 DEF Onto
      <4> QED BY <3>3, <4>1 DEF Onto
    <3>8. CASE Onto(tree, up, n, FALSE) # Void
      <4>1. up # Void /\ tree[up].kind = "dir" /\ Append(up, n) \in Places
        BY <3>8 DEF Onto
      <4>2. tree[Append(up, n)].kind # "link"
        BY <3>5, <3>6, <4>1
      <4> QED BY <3>3, <4>1, <4>2 DEF Onto
    <3> QED BY <3>7, <3>8
  <2> QED BY <2>1, <2>2
<1> QED BY <1>1 DEF Found

-----------------------------------------------------------------------------
(* What a copy writes, whatever other programs do.                         *)

\* A step of a copy puts at most one node, where nothing was.
OnePut ==
    \/ UNCHANGED node
    \/ \E p \in Places :
          /\ ~Exists(node[p])
          /\ \A q \in Places : q # p => node'[q] = node[q]

LEMMA MakePuts ==
    ASSUME Inv, NEW text, NEW n, Make(text, n)
    PROVE  OnePut
<1> DEFINE p == Walk(node, text, FALSE)
<1>1. CASE UNCHANGED node
  BY <1>1 DEF OnePut
<1>2. CASE CanMake(text) /\ Put(p, n)
  <2>1. node \in [Places -> Nodes]
    BY DEF Inv, DiskOK
  <2>2. p \in Places /\ p # Void
    BY <1>2, <2>1, WalkType DEF CanMake
  <2>3. ~Exists(node[p])
    BY <1>2, <2>2 DEF CanMake, Stat, Found
  <2>4. node' = [node EXCEPT ![p] = n]
    BY <1>2 DEF Put
  <2> HIDE DEF p
  <2>5. \A q \in Places : q # p => node'[q] = node[q]
    BY <2>1, <2>4
  <2> QED BY <2>2, <2>3, <2>5 DEF OnePut
<1>3. UNCHANGED node \/ (CanMake(text) /\ Put(p, n))
  BY Zenon DEF Make
<1> QED BY <1>1, <1>2, <1>3, Zenon

LEMMA StepPuts ==
    ASSUME Inv, Step
    PROVE  OnePut
<1>1. CASE Look \/ OpenDirectory \/ ReadNext \/ LookAtFiles
  BY <1>1 DEF Look, OpenDirectory, ReadNext, LookAtFiles, disk, OnePut
<1>2. CASE CopySymlink \/ CreateSymlink \/ CreateHardLink
  <2>1. UNCHANGED node \/ \E text, n : Make(text, n)
    BY <1>2 DEF CopySymlink, CreateSymlink, CreateHardLink
  <2> QED BY <2>1, MakePuts DEF OnePut
<1>3. CASE WriteFile
  <2>1. CASE UNCHANGED node
    BY <2>1 DEF OnePut
  <2>2. ASSUME NEW p \in Places, ~Exists(node[p]),
               node' = [node EXCEPT ![p] = Node("file", p, Root)]
        PROVE  OnePut
    <3>1. node \in [Places -> Nodes]
      BY DEF Inv, DiskOK
    <3> QED BY <2>2, <3>1 DEF OnePut
  <2> QED BY <1>3, <2>1, <2>2, WriteFileCases DEF disk
<1>4. CASE CreateDirectory
  <2> DEFINE p == Walk(node, Current.to, FALSE)
  <2>1. CASE UNCHANGED node
    BY <1>4, <2>1 DEF CreateDirectory, OnePut
  <2>2. CASE CanMake(Current.to) /\ Put(p, Node("dir", p, Root))
    <3>1. node \in [Places -> Nodes] /\ p \in Places /\ p # Void
      BY <2>2, WalkType DEF CanMake, Inv, DiskOK
    <3>2. ~Exists(node[p]) /\ node' = [node EXCEPT ![p] = Node("dir", p, Root)]
      BY <2>2, <3>1 DEF CanMake, Stat, Found, Put
    <3> HIDE DEF p
    <3> QED BY <3>1, <3>2 DEF OnePut
  <2> QED BY <1>4, <2>1, <2>2 DEF CreateDirectory
<1> QED BY <1>1, <1>2, <1>3, <1>4 DEF Step

\* Where copy_file writes to is a text of names.
LEMMA FileTargetText ==
    ASSUME Inv, calls # <<>>
    PROVE  FileTarget \in Seq(Names)
<1>1. /\ Current \in CallRecords /\ Current = calls[Len(calls)]
      /\ Len(calls) \in 1..Len(calls) /\ calls \in Seq(CallRecords)
  BY CurrentType
<1>2. Current.from \in Seq(Names) /\ Current.to \in Seq(Names)
  BY <1>1 DEF CallRecords
<1>3. Len(Current.from) = Len(Source) + Len(calls) - 1
  BY <1>1 DEF Inv, CallsOK, Stacked, MirrorAt
<1>4. Source \in Seq(Names) /\ Source # <<>>
  BY PlaceAssumption DEF Root
<1>5. Len(Current.from) \in 1..Len(Current.from)
  <2>1. Len(Source) \in Nat \ {0} /\ Len(calls) \in Nat \ {0}
    BY <1>1, <1>4, EmptySeq
  <2> QED BY <1>3, <2>1
<1>6. Last(Current.from) \in Names
  BY <1>2, <1>5 DEF Last
<1> QED BY <1>2, <1>6 DEF FileTarget

\* copy_file has only found a file that it goes on with if it may overwrite it.
Asked == looked.target # Void => Has("overwrite_existing")

LEMMA AskedNext == Inv /\ Asked /\ [Next]_vars => Asked'
<1> SUFFICES ASSUME Inv, Asked, [Next]_vars PROVE Asked'
  OBVIOUS
<1>1. UNCHANGED options
  BY DEF Next, Step, OtherRemoves, OtherMakes, Disturb, given, vars
<1>2. CASE UNCHANGED looked
  BY <1>1, <1>2 DEF Asked, Has
<1>3. CASE LookAtFiles
  BY <1>1, <1>2, <1>3, LookCases DEF Asked, Has
<1>4. CASE WriteFile
  BY <1>4 DEF WriteFile, NotLooked, Asked
<1> QED BY <1>2, <1>3, <1>4 DEF Next, Step, OtherRemoves, OtherMakes, Disturb, vars

\* No step of a copy replaces or removes what is there, however the trees,
\* links and other programs lead its calls; and none changes the content of a
\* file that is there but where overwrite_existing is set and it is the very
\* file copy_file found, or where copy_file found nothing.
THEOREM CopiesReplaceNothing == Spec => NothingIsReplaced
<1> DEFINE Kept ==
       UNCHANGED others =>
       /\ \A p \in Places : Exists(node[p]) => node'[p] = node[p]
       /\ \A p \in Places :
             (data'[p] # data[p] /\ \E q \in Places : node[q].kind = "file" /\ node[q].id = p) =>
                 \/ Has("overwrite_existing") /\ looked.target = p
                 \/ looked.target = Void
<1>1. Inv /\ Asked /\ Next => Kept
  <2> SUFFICES ASSUME Inv, Asked, Next, UNCHANGED others
               PROVE  /\ \A p \in Places : Exists(node[p]) => node'[p] = node[p]
                      /\ \A p \in Places : data'[p] # data[p] =>
                             \/ Has("overwrite_existing") /\ looked.target = p
                             \/ looked.target = Void
    OBVIOUS
  <2>1. Step
    <3>1. others \in 0..MaxOthers /\ MaxOthers \in Nat
      BY PlaceAssumption DEF Inv
    <3> QED BY <3>1 DEF Next, OtherRemoves, OtherMakes, Disturb
  <2>2. \A p \in Places : Exists(node[p]) => node'[p] = node[p]
    BY <2>1, StepPuts DEF OnePut
  <2>3. ASSUME NEW p \in Places, data'[p] # data[p], looked.target # Void
        PROVE  Has("overwrite_existing") /\ looked.target = p
    <3>1. WriteFile
      BY <2>1, <2>3 DEF Step, Look, CopySymlink, CreateSymlink, CreateHardLink, CreateDirectory,
                        OpenDirectory, ReadNext, LookAtFiles, disk
    <3>2. calls # <<>> /\ FileTarget \in Seq(Names) /\ node \in [Places -> Nodes]
          /\ data \in [Places -> Places]
      BY <2>1, FileTargetText DEF Step, Inv, DiskOK
    <3>3. PICK t, n : t = Stat(FileTarget, TRUE) /\ n = Stat(FileTarget, FALSE)
      OBVIOUS
    <3>4. n.kind = "file" /\ n.id = looked.target
      BY <2>3, <3>1, <3>3 DEF WriteFile, disk
    <3>5. t = n
      BY <3>2, <3>3, <3>4, FollowsNoLink DEF Stat
    <3>6. Exists(t)
      BY <3>4, <3>5 DEF Exists
    <3>7. \E x \in Places : data' = [data EXCEPT ![t.id] = data[x]]
      BY <2>3, <3>1, <3>3, <3>6, WriteFileCases DEF disk
    <3>8. p = looked.target
      BY <2>3, <3>2, <3>4, <3>5, <3>7
    <3> QED BY <2>3, <3>8 DEF Asked
  <2> QED BY <2>2, <2>3
<1>2. Inv /\ Asked /\ [Next]_vars => [Kept]_vars
  BY <1>1
<1>3. Init => Inv /\ Asked
  <2>1. Init => Asked
    BY DEF Init, NotLooked, Asked
  <2> QED BY <2>1, InitInv
<1>4. Inv /\ Asked /\ [Next]_vars => (Inv /\ Asked)'
  BY NextInv, AskedNext
<1>5. Spec => [][Kept]_vars
  BY <1>2, <1>3, <1>4, PTL DEF Spec
<1> QED BY <1>5 DEF NothingIsReplaced

-----------------------------------------------------------------------------
(* copy_file when no other program interferes: its second step is what one *)
(* that looks and writes at once would be.                                 *)

CopyFileWhole ==
    /\ Current.pc \in {"copy_file", "copy_file_into", "write_file", "write_file_into"}
    /\ LET f == Stat(Current.from, FALSE)
           p == Walk(node, FileTarget, TRUE)
           t == Stat(FileTarget, TRUE)
       IN  IF f.kind # "file" \/ p = Void \/ TooLong(FileTarget) \/ ~Offered(p)
           THEN Fail /\ UNCHANGED disk
           ELSE IF ~Exists(t)
           THEN Put(p, Node("file", p, Root)) /\ data' = [data EXCEPT ![p] = data[f.id]] /\ Return
           ELSE IF t.kind # "file" \/ t.id = f.id THEN Fail /\ UNCHANGED disk
           ELSE IF Has("skip_existing") THEN Return /\ UNCHANGED disk
           ELSE IF ~Has("overwrite_existing") \/ Stat(FileTarget, FALSE).kind = "link"
           THEN Fail /\ UNCHANGED disk
           ELSE data' = [data EXCEPT ![t.id] = data[f.id]] /\ Return /\ UNCHANGED node
    /\ UNCHANGED unread

\* The first one leaves everything but the call where it is.
LookedAtFiles ==
    /\ \/ Current.pc = "copy_file" /\ Goto("write_file")
       \/ Current.pc = "copy_file_into" /\ Goto("write_file_into")
    /\ UNCHANGED <<disk, unread>>

QuietStep ==
    /\ calls # <<>>
    /\ \/ Look \/ CopySymlink \/ CreateSymlink \/ CreateHardLink \/ LookedAtFiles \/ CopyFileWhole
       \/ CreateDirectory \/ OpenDirectory \/ ReadNext
    /\ UNCHANGED <<given, others>>

\* What copy_file saw is there when it opens the target.
Fresh ==
    others = 0 /\ calls # <<>> /\ Current.pc \in {"write_file", "write_file_into"} =>
        LET f == Stat(Current.from, FALSE)
            t == Stat(FileTarget, TRUE)
        IN  /\ f.kind = "file" /\ f.id = looked.source /\ ~TooLong(FileTarget)
            /\ looked.target = Void => ~Exists(t)
            /\ looked.target # Void =>
                  /\ t.kind = "file" /\ t.id = looked.target /\ t.id # f.id
                  /\ Has("overwrite_existing") /\ ~Has("skip_existing")

\* Only the look leads to where the target is opened.
LEMMA OnlyLooks ==
    ASSUME Inv, Step, LookAtFiles => Fail \/ Return, calls' # <<>>
    PROVE  Current'.pc \notin {"write_file", "write_file_into"}
<1>1. /\ calls # <<>> /\ Current \in CallRecords /\ Current = calls[Len(calls)]
      /\ Len(calls) \in 1..Len(calls) /\ calls \in Seq(CallRecords)
  BY CurrentType DEF Step
<1>2. ASSUME NEW pc \in Steps \ {"write_file", "write_file_into"},
             NEW k \in CallRecords, k.pc = pc, calls' = [calls EXCEPT ![Len(calls)] = k]
      PROVE  Current'.pc \notin {"write_file", "write_file_into"}
  <2>1. Len(calls') = Len(calls) /\ calls'[Len(calls)] = k
    BY <1>1, <1>2, ExceptSeq
  <2>2. Current' = k
    BY <2>1 DEF Current, Last
  <2> QED BY <1>2, <2>2
<1>3. ASSUME NEW pc \in Steps \ {"write_file", "write_file_into"}, Goto(pc)
      PROVE  Current'.pc \notin {"write_file", "write_file_into"}
  <2>1. PICK k : k = [Current EXCEPT !.pc = pc]
    OBVIOUS
  <2>2. k \in CallRecords /\ k.pc = pc /\ calls' = [calls EXCEPT ![Len(calls)] = k]
    BY <1>1, <1>3, <2>1 DEF CallRecords, Goto
  <2> QED BY <1>2, <2>2
<1>4. CASE Return
  <2>1. Len(calls') = Len(calls) - 1 /\ \A i \in 1..Len(calls) - 1 : calls'[i] = calls[i]
    <3>1. Len(calls) # 0
      BY <1>1
    <3> QED BY <1>1, <1>4, <3>1, FrontIs DEF Return
  <2>2. calls' \in Seq(CallRecords)
    BY <1>1, <1>4, FrontIs DEF Return
  <2>3. PICK l : l = Len(calls) - 1
    OBVIOUS
  <2>4. l \in 1..Len(calls) /\ l < Len(calls) /\ l \in 1..Len(calls) - 1 /\ Len(calls') = l
    <3>1. Len(calls') # 0
      BY <2>2, EmptySeq
    <3> QED BY <1>1, <2>1, <2>3, <3>1
  <2>5. Current' = calls[l]
    BY <2>1, <2>4 DEF Current, Last
  <2>6. calls[l].pc = "next"
    BY <2>4 DEF Inv, CallsOK, Stacked
  <2> QED BY <2>5, <2>6
<1>5. CASE Fail
  BY <1>5 DEF Fail
<1>6. CASE Look
  <2>1. Fail \/ Return \/ \E f, t : Chosen(f, t) \notin {"fail", "return"} /\ Goto(Chosen(f, t))
    BY <1>6 DEF Look
  <2>2. ASSUME NEW f, NEW t, Chosen(f, t) \notin {"fail", "return"}
        PROVE  Chosen(f, t) \in Steps \ {"write_file", "write_file_into"}
    <3>1. Chosen(f, t) \in {"copy_symlink", "create_symlink", "create_hard_link", "copy_file",
                            "copy_file_into", "open", "create_directory"}
      BY <2>2 DEF Chosen
    <3> QED BY <3>1 DEF Steps
  <2> QED BY <1>3, <1>4, <1>5, <2>1, <2>2
<1>7. CASE CopySymlink \/ CreateSymlink \/ CreateHardLink
  BY <1>4, <1>5, <1>7 DEF CopySymlink, CreateSymlink, CreateHardLink, Make
<1>8. CASE WriteFile
  BY <1>4, <1>5, <1>8 DEF WriteFile
<1>9. CASE CreateDirectory
  <2>1. "open" \in Steps \ {"write_file", "write_file_into"}
    BY DEF Steps
  <2> QED BY <1>3, <1>5, <1>9, <2>1 DEF CreateDirectory
<1>10. CASE OpenDirectory
  <2>1. CASE Opened("first")
    <3>1. PICK k : k = [Current EXCEPT !.pc = "first", !.entries = Listed(Current.from)]
      OBVIOUS
    <3>2. Listed(Current.from) \subseteq Names
      BY DEF Listed
    <3>3. "first" \in Steps \ {"write_file", "write_file_into"}
      BY DEF Steps
    <3>4. k \in CallRecords /\ k.pc = "first" /\ calls' = [calls EXCEPT ![Len(calls)] = k]
      BY <1>1, <2>1, <3>1, <3>2, <3>3 DEF CallRecords, Opened
    <3> QED BY <1>2, <3>3, <3>4
  <2> QED BY <1>5, <1>10, <2>1 DEF OpenDirectory
<1>11. CASE ReadNext
  <2>1. ASSUME NEW n \in Unread, CopyEntry(n)
        PROVE  Current'.pc \notin {"write_file", "write_file_into"}
    <3>1. PICK k, new : /\ k = [Current EXCEPT !.pc = "next", !.read = @ \cup {n}]
                        /\ new = Call(Append(Current.from, n), Append(Current.to, n))
      OBVIOUS
    <3>2. PICK r : r = [calls EXCEPT ![Len(calls)] = k]
      OBVIOUS
    <3>3. n \in Names
      BY <1>1 DEF Unread, Listed, CallRecords
    <3>4. k \in CallRecords
      BY <1>1, <3>1, <3>3 DEF CallRecords, Steps
    <3>5. r \in Seq(CallRecords)
      BY <1>1, <3>2, <3>4, ExceptSeq
    <3>6. new \in CallRecords /\ new.pc = "look"
      <4>1. Append(Current.from, n) \in Seq(Names) /\ Append(Current.to, n) \in Seq(Names)
        BY <1>1, <3>3 DEF CallRecords
      <4> QED BY <3>1, <4>1 DEF Call, CallRecords, Steps
    <3>7. calls' = Append(r, new)
      BY <1>1, <2>1, <3>1, <3>2 DEF CopyEntry
    <3>8. Len(calls') = Len(r) + 1 /\ calls'[Len(r) + 1] = new
      BY <3>5, <3>6, <3>7, AppendProperties
    <3>9. Current' = new
      BY <3>8 DEF Current, Last
    <3> QED BY <3>6, <3>9
  <2> QED BY <1>4, <1>5, <1>11, <2>1 DEF ReadNext
<1> QED BY <1>4, <1>5, <1>6, <1>7, <1>8, <1>9, <1>10, <1>11 DEF Step

LEMMA FreshInit == Init => Fresh
<1> SUFFICES ASSUME Init PROVE Current.pc = "look"
  BY DEF Fresh
<1>1. PICK k : k = Call(Source, Target)
  OBVIOUS
<1>2. Len(calls) = 1 /\ calls[1] = k /\ k.pc = "look"
  BY <1>1 DEF Init, Call
<1> QED BY <1>2 DEF Current, Last

LEMMA FreshNext == Inv /\ Fresh /\ [Next]_vars => Fresh'
<1> SUFFICES ASSUME Inv, Fresh, [Next]_vars, others' = 0, calls' # <<>>,
                    Current'.pc \in {"write_file", "write_file_into"}
             PROVE  Fresh'
  BY DEF Fresh
<1>1. CASE UNCHANGED vars
  <2>1. /\ node' = node /\ calls' = calls /\ looked' = looked /\ options' = options
        /\ others' = others
    BY <1>1 DEF vars, disk, given
  <2> QED BY <2>1 DEF Fresh, Current, FileTarget, Stat, Exists, TooLong, Has
<1>2. ASSUME NEW p \in Places, OtherRemoves(p) \/ OtherMakes(p) PROVE FALSE
  <2>1. others' = others + 1 /\ others \in Nat
    BY <1>2, PlaceAssumption DEF OtherRemoves, OtherMakes, Disturb, Inv
  <2> QED BY <2>1
<1>3. CASE Step
  <2>1. LookAtFiles /\ ~Fail /\ ~Return
    BY <1>3, OnlyLooks
  <2>2. PICK f, t : f = Stat(Current.from, FALSE) /\ t = Stat(FileTarget, TRUE)
    OBVIOUS
  <2>3. /\ Opens(f, t) /\ f.kind = "file" /\ ~TooLong(FileTarget)
        /\ Exists(t) => /\ t.kind = "file" /\ t.id # f.id
                        /\ Has("overwrite_existing") /\ ~Has("skip_existing")
    BY <2>1, <2>2 DEF LookAtFiles
  <2>4. /\ Current \in CallRecords /\ Current = calls[Len(calls)]
        /\ Len(calls) \in 1..Len(calls) /\ calls \in Seq(CallRecords)
    BY <1>3, CurrentType DEF Step
  <2>5. PICK pc : pc = IF Current.pc = "copy_file" THEN "write_file" ELSE "write_file_into"
    OBVIOUS
  <2>6. PICK k : k = [Current EXCEPT !.pc = pc]
    OBVIOUS
  <2>7. /\ k \in CallRecords /\ k.pc = pc /\ k.from = Current.from /\ k.to = Current.to
        /\ calls' = [calls EXCEPT ![Len(calls)] = k]
    <3>1. pc \in Steps
      BY <2>5 DEF Steps
    <3>2. Goto(pc)
      BY <2>3, <2>5 DEF Opens
    <3> QED BY <2>4, <2>6, <3>1, <3>2 DEF CallRecords, Goto
  <2>8. Current' = k
    <3>1. Len(calls') = Len(calls) /\ calls'[Len(calls)] = k
      BY <2>4, <2>7, ExceptSeq
    <3> QED BY <3>1 DEF Current, Last
  <2>9. FileTarget' = FileTarget /\ node' = node /\ options' = options
    <3>1. Current.pc \in {"copy_file", "copy_file_into"} /\ UNCHANGED <<node, options>>
      BY <1>3, <2>1 DEF LookAtFiles, Step, disk, given
    <3> QED BY <2>5, <2>7, <2>8, <3>1 DEF FileTarget
  <2>10. Stat(Current.from, FALSE)' = f /\ Stat(FileTarget, TRUE)' = t
    BY <2>2, <2>7, <2>8, <2>9 DEF Stat
  <2>11. looked'.source = f.id /\ looked'.target = IF Exists(t) THEN t.id ELSE Void
    BY <2>3 DEF Opens
  <2>12. t.id # Void
    <3>1. t \in Nodes
      BY <2>2, StatType
    <3> QED BY <3>1, PlaceAssumption DEF Nodes
  <2>13. TooLong(FileTarget)' = TooLong(FileTarget)
         /\ Has("overwrite_existing")' = Has("overwrite_existing")
         /\ Has("skip_existing")' = Has("skip_existing")
         /\ (~Exists(t))' = ~Exists(t)
    BY <2>9 DEF TooLong, Has
  <2> QED BY <2>3, <2>10, <2>11, <2>12, <2>13 DEF Fresh
<1> QED BY <1>1, <1>2, <1>3 DEF Next

LEMMA QuietLook ==
    ASSUME Inv, LookAtFiles
    PROVE  LookedAtFiles \/ CopyFileWhole
<1>1. PICK f, p, t : /\ f = Stat(Current.from, FALSE) /\ p = Walk(node, FileTarget, TRUE)
                     /\ t = Stat(FileTarget, TRUE)
  OBVIOUS
<1>2. Exists(t) => p # Void /\ Offered(p)
  BY <1>1 DEF Stat, Found, Nothing, Node, Exists, Offered
<1>3. \/ /\ \/ f.kind # "file" \/ TooLong(FileTarget)
            \/ Exists(t) /\ (t.kind # "file" \/ t.id = f.id)
         /\ Fail
      \/ /\ f.kind = "file" /\ ~TooLong(FileTarget) /\ Exists(t) /\ t.kind = "file" /\ t.id # f.id
         /\ \/ Has("skip_existing") /\ Return
            \/ ~Has("skip_existing") /\ ~Has("overwrite_existing") /\ Fail
      \/ Opens(f, t)
  <2>1. IF \/ f.kind # "file" \/ TooLong(FileTarget)
           \/ Exists(t) /\ (t.kind # "file" \/ t.id = f.id)
        THEN Fail /\ UNCHANGED looked
        ELSE IF Exists(t) /\ Has("skip_existing") THEN Return /\ UNCHANGED looked
        ELSE IF Exists(t) /\ ~Has("overwrite_existing") THEN Fail /\ UNCHANGED looked
        ELSE Opens(f, t)
    BY <1>1 DEF LookAtFiles
  <2> QED BY <2>1, Zenon
<1>4. Current.pc \in {"copy_file", "copy_file_into"} /\ UNCHANGED <<disk, unread>>
  BY DEF LookAtFiles
<1>5. CASE Opens(f, t)
  BY <1>4, <1>5 DEF Opens, LookedAtFiles
<1>6. CASE ~Opens(f, t)
  BY <1>1, <1>2, <1>3, <1>4, <1>6 DEF CopyFileWhole
<1> QED BY <1>5, <1>6

LEMMA QuietWrite ==
    ASSUME Inv, Fresh, others = 0, calls # <<>>, WriteFile
    PROVE  CopyFileWhole
<1>1. PICK f, p, t, n : /\ f = Stat(Current.from, FALSE) /\ p = Walk(node, FileTarget, TRUE)
                        /\ t = Stat(FileTarget, TRUE) /\ n = Stat(FileTarget, FALSE)
  OBVIOUS
<1>2. /\ f.kind = "file" /\ f.id = looked.source /\ ~TooLong(FileTarget)
      /\ looked.target = Void => ~Exists(t)
      /\ looked.target # Void =>
            /\ t.kind = "file" /\ t.id = looked.target /\ t.id # f.id
            /\ Has("overwrite_existing") /\ ~Has("skip_existing")
  BY <1>1 DEF Fresh, WriteFile
<1>3. n.kind # "link" => t = n
  BY <1>1, FileTargetText, FollowsNoLink DEF Stat, Inv, DiskOK
<1>4. /\ Current.pc \in {"copy_file", "copy_file_into", "write_file", "write_file_into"}
      /\ UNCHANGED unread
  BY DEF WriteFile
<1>5. IF \/ p = Void \/ ~Offered(p) \/ t.kind \notin {"none", "file"}
         \/ looked.target # Void /\ (n.kind # "file" \/ n.id # looked.target)
      THEN Fail /\ UNCHANGED disk
      ELSE IF ~Exists(t)
      THEN /\ Put(p, Node("file", p, Root))
           /\ data' = [data EXCEPT ![p] = data[looked.source]]
           /\ Return
      ELSE /\ data' = [data EXCEPT ![t.id] = data[looked.source]]
           /\ Return /\ UNCHANGED node
  BY <1>1 DEF WriteFile
<1>6. CASE looked.target = Void
  <2>1. t.kind = "none" /\ ~Exists(t)
    BY <1>2, <1>6 DEF Exists
  <2> QED BY <1>1, <1>2, <1>4, <1>5, <1>6, <2>1 DEF CopyFileWhole
<1>7. CASE looked.target # Void
  <2>1. /\ t.kind = "file" /\ t.id = looked.target /\ t.id # f.id /\ Exists(t)
        /\ Has("overwrite_existing") /\ ~Has("skip_existing")
    BY <1>2, <1>7 DEF Exists
  <2>2. CASE n.kind = "link"
    BY <1>1, <1>4, <1>5, <1>7, <2>1, <2>2, <1>2 DEF CopyFileWhole
  <2>3. CASE n.kind # "link"
    <3>1. n.kind = "file" /\ n.id = looked.target
      BY <1>3, <2>1, <2>3
    <3> QED BY <1>1, <1>2, <1>4, <1>5, <2>1, <2>3, <3>1 DEF CopyFileWhole
  <2> QED BY <2>2, <2>3
<1> QED BY <1>6, <1>7

LEMMA StepsAreQuiet ==
    ASSUME Inv, Fresh, others = 0, Step
    PROVE  QuietStep
BY QuietLook, QuietWrite DEF Step, QuietStep

-----------------------------------------------------------------------------
(* The source and the target of a plain copy.                              *)

\* A tree that a plain copy may have come to.
Between(tree) ==
    /\ Shaped(tree)
    /\ \A p \in Places : ~IsPrefix(Target, p) => tree[p] = was[p]
    /\ \A p \in Places : IsPrefix(Target, p) => tree[p].kind \in {"none", "dir", "file"}

LEMMA PrefixIs ==
    ASSUME NEW s \in Seq(Names), NEW t \in Seq(Names)
    PROVE  IsPrefix(s, t) <=> Len(s) <= Len(t) /\ Pre(t, Len(s)) = s
BY SubSeqFull DEF IsPrefix, Pre

LEMMA PreOfPre ==
    ASSUME NEW t \in Seq(Names), NEW i \in 0..Len(t), NEW j \in 0..i
    PROVE  Pre(Pre(t, i), j) = Pre(t, j)
<1> DEFINE p == Pre(t, i)
<1>1. p \in Seq(Names) /\ Len(p) = i /\ \A m \in 1..i : p[m] = t[m]
  BY PreType
<1> HIDE DEF p
<1>2. j \in 0..Len(p) /\ j \in 0..Len(t) /\ \A m \in 1..j : m \in 1..i
  BY <1>1
<1>3. /\ Pre(p, j) \in Seq(Names) /\ Len(Pre(p, j)) = j /\ \A m \in 1..j : Pre(p, j)[m] = p[m]
      /\ Pre(t, j) \in Seq(Names) /\ Len(Pre(t, j)) = j /\ \A m \in 1..j : Pre(t, j)[m] = t[m]
  BY <1>1, <1>2, PreType
<1>4. Pre(p, j) = Pre(t, j)
  BY <1>1, <1>2, <1>3, SeqEqual
<1> QED BY <1>4 DEF p

LEMMA PreOfConcat ==
    ASSUME NEW s \in Seq(Names), NEW w \in Seq(Names), NEW i \in 0..Len(s)
    PROVE  /\ Pre(s \o w, i) = Pre(s, i) /\ i \in 0..Len(s \o w)
           /\ s \o w \in Seq(Names) /\ Len(s \o w) = Len(s) + Len(w)
<1> DEFINE t == s \o w
<1>1. t \in Seq(Names) /\ Len(t) = Len(s) + Len(w) /\ \A m \in 1..Len(s) : t[m] = s[m]
  <2>1. \A m \in 1..Len(s) : m \in 1..Len(s) + Len(w) /\ m <= Len(s)
    OBVIOUS
  <2> QED BY <2>1, ConcatProperties
<1> HIDE DEF t
<1>2. i \in 0..Len(t) /\ \A m \in 1..i : m \in 1..Len(s)
  BY <1>1
<1>3. /\ Pre(t, i) \in Seq(Names) /\ Len(Pre(t, i)) = i /\ \A m \in 1..i : Pre(t, i)[m] = t[m]
      /\ Pre(s, i) \in Seq(Names) /\ Len(Pre(s, i)) = i /\ \A m \in 1..i : Pre(s, i)[m] = s[m]
  BY <1>1, <1>2, PreType
<1>4. Pre(t, i) = Pre(s, i)
  BY <1>1, <1>2, <1>3, SeqEqual
<1> QED BY <1>1, <1>2, <1>4 DEF t

LEMMA ConcatIsWithin ==
    ASSUME NEW s \in Seq(Names), NEW w \in Seq(Names)
    PROVE  s \o w \in Seq(Names) /\ IsPrefix(s, s \o w)
<1>1. Len(s) \in 0..Len(s)
  OBVIOUS
<1>2. s \o w \in Seq(Names) /\ Len(s \o w) = Len(s) + Len(w) /\ Pre(s \o w, Len(s)) = s
  BY <1>1, PreOfConcat, PreEnds
<1> DEFINE t == s \o w
<1>3. t \in Seq(Names) /\ Pre(t, Len(s)) = s /\ Len(s) <= Len(t)
  BY <1>2
<1> HIDE DEF t
<1>4. IsPrefix(s, t)
  BY <1>3, PrefixIs
<1> QED BY <1>3, <1>4 DEF t

\* Nothing there is to copy is at the target.
LEMMA SourceIsAway ==
    ASSUME Shaped(was), PlainStart, Target \in Seq(Names), NEW w \in Seq(Names),
           NEW i \in 0..Len(Source \o w)
    PROVE  ~IsPrefix(Target, Pre(Source \o w, i))
<1> DEFINE x == Source \o w
           p == Pre(x, i)
<1>1. Source \in Seq(Names) /\ Len(Source) \in Nat /\ Len(Target) \in Nat /\ Target \in Places
  BY PlaceAssumption DEF PlainStart, HasRoom
<1>2. x \in Seq(Names) /\ Len(x) \in Nat /\ Len(Source) <= Len(x) /\ Pre(x, Len(Source)) = Source
  <2>1. Len(Source) \in 0..Len(Source)
    BY <1>1
  <2> QED BY <1>1, <2>1, PreOfConcat, PreEnds
<1> HIDE DEF x
<1>3. p \in Seq(Names) /\ Len(p) = i
  BY <1>2, PreType DEF x
<1> SUFFICES ASSUME IsPrefix(Target, p) PROVE FALSE
  BY DEF x
<1>4. Len(Target) <= i /\ Pre(p, Len(Target)) = Target
  BY <1>1, <1>3, PrefixIs
<1>5. Len(Target) \in 0..i /\ i \in 0..Len(x)
  BY <1>1, <1>4 DEF x
<1>6. Pre(x, Len(Target)) = Target /\ Len(Target) \in 0..Len(x)
  BY <1>2, <1>4, <1>5, PreOfPre
<1>7. CASE Len(Source) <= Len(Target)
  <2>1. Len(Source) \in 0..Len(Target)
    BY <1>1, <1>7
  <2>2. Pre(Target, Len(Source)) = Source
    BY <1>2, <1>6, <2>1, PreOfPre
  <2>3. IsPrefix(Source, Target)
    BY <1>1, <1>7, <2>2, PrefixIs
  <2> QED BY <2>3 DEF PlainStart, IsWithin
<1>8. CASE Len(Target) < Len(Source)
  <2>1. Len(Target) \in 0..Len(Source) - 1 /\ Len(Target) \in 0..Len(Source)
        /\ Len(Source) \in 0..Len(x)
    BY <1>1, <1>2, <1>8
  <2>2. Pre(Source, Len(Target)) = Target
    BY <1>2, <1>6, <2>1, PreOfPre
  <2>3. was[Target].kind = "dir"
    BY <2>1, <2>2, ShapedUp, PlaceAssumption DEF PlainStart
  <2> QED BY <2>3 DEF PlainStart, Exists
<1> QED BY <1>1, <1>7, <1>8

\* What is to be copied is a directory or a file, and remains what it was.
LEMMA SourceSide ==
    ASSUME Shaped(was), PlainStart, Target \in Seq(Names), NEW tree, Between(tree),
           NEW w \in Seq(Names), NEW follow
    PROVE  LET x == Source \o w IN
           /\ x \in Seq(Names) /\ ~IsPrefix(Target, x)
           /\ Exists(Found(tree, x, follow)) <=> x \in Places /\ Exists(was[x])
           /\ x \in Places => tree[x] = was[x]
           /\ x \in Places /\ Exists(was[x]) =>
                 /\ Walk(tree, x, follow) = x /\ Found(tree, x, follow) = was[x]
                 /\ was[x].kind \in {"dir", "file"}
<1> DEFINE x == Source \o w
<1>1. Source \in Seq(Names) /\ Len(Source) \in 0..Len(Source) /\ Source \in Places
  BY PlaceAssumption
<1>2. x \in Seq(Names) /\ Len(x) \in Nat /\ IsPrefix(Source, x) /\ Len(Source) <= Len(x)
  BY <1>1, ConcatIsWithin, PrefixIs
<1>3. \A i \in 0..Len(x) : ~IsPrefix(Target, Pre(x, i))
  BY SourceIsAway
<1>4. ASSUME NEW i \in 0..Len(x), Pre(x, i) \in Places
      PROVE  tree[Pre(x, i)] = was[Pre(x, i)] /\ was[Pre(x, i)].kind \notin {"link", "other"}
  <2>1. tree[Pre(x, i)] = was[Pre(x, i)]
    BY <1>3, <1>4 DEF Between
  <2>2. CASE i < Len(Source)
    <3>1. Pre(x, i) = Pre(Source, i) /\ i \in 0..Len(Source) - 1
      BY <1>1, <2>2, PreOfConcat
    <3>2. was[Pre(Source, i)].kind = "dir"
      BY <1>1, <3>1, ShapedUp DEF PlainStart
    <3> HIDE DEF x
    <3> QED BY <2>1, <3>1, <3>2
  <2>3. CASE Len(Source) <= i
    <3>1. Len(Source) \in 0..i
      BY <1>1, <2>3
    <3>2. Pre(Pre(x, i), Len(Source)) = Source
      <4>1. Pre(Pre(x, i), Len(Source)) = Pre(x, Len(Source))
        BY <1>2, <3>1, PreOfPre
      <4>2. Pre(x, Len(Source)) = Source
        BY <1>1, PreOfConcat, PreEnds
      <4> QED BY <4>1, <4>2
    <3>3. Pre(x, i) \in Seq(Names) /\ Len(Pre(x, i)) = i
      BY <1>2, PreType
    <3>4. IsPrefix(Source, Pre(x, i))
      BY <1>1, <2>3, <3>2, <3>3, PrefixIs
    <3> HIDE DEF x
    <3> QED BY <1>4, <2>1, <3>4 DEF PlainStart, IsWithin
  <2> QED BY <1>1, <2>2, <2>3
<1>5. Linkless(tree, x)
  <2> HIDE DEF x
  <2>1. ASSUME NEW i \in 1..Len(x), Pre(x, i) \in Places PROVE tree[Pre(x, i)].kind # "link"
    <3>1. i \in 0..Len(x)
      BY <1>2
    <3> DEFINE k == was[Pre(x, i)].kind
    <3>2. tree[Pre(x, i)].kind = k /\ k \notin {"link", "other"}
      BY <1>4, <2>1, <3>1
    <3> QED BY <3>2
  <2>2. \A i \in 1..Len(x) : Pre(x, i) \in Places => tree[Pre(x, i)].kind # "link"
    BY <2>1
  <2> QED BY <2>2 DEF Linkless
<1>6. Len(x) \in 0..Len(x) /\ Pre(x, Len(x)) = x
  <2> HIDE DEF x
  <2> QED BY <1>2, PreEnds
<1>7. x \in Places => tree[x] = was[x] /\ was[x].kind \notin {"link", "other"}
  <2> HIDE DEF x
  <2> QED BY <1>4, <1>6
<1>8. ~IsPrefix(Target, x)
  <2> HIDE DEF x
  <2> QED BY <1>3, <1>6
<1>9. /\ Exists(Found(tree, x, follow)) <=> x \in Places /\ Exists(tree[x])
      /\ x \in Places /\ Exists(tree[x]) =>
                 Walk(tree, x, follow) = x /\ Found(tree, x, follow) = tree[x]
  BY <1>2, <1>5, LinklessFound DEF Between
<1>10. x \in Places => was[x].kind \in Kinds
  BY DEF Shaped, Nodes
<1> HIDE DEF x
<1>11. x \in Places /\ Exists(was[x]) => was[x].kind \in {"dir", "file"}
  BY <1>7, <1>10 DEF Kinds, Exists
<1>12. /\ Exists(Found(tree, x, follow)) <=> x \in Places /\ Exists(was[x])
       /\ x \in Places /\ Exists(was[x]) =>
                 Walk(tree, x, follow) = x /\ Found(tree, x, follow) = was[x]
  BY <1>7, <1>9
<1> QED BY <1>2, <1>7, <1>8, <1>11, <1>12 DEF x

\* The target is to be a new name in a directory.
LEMMA FreeTarget ==
    ASSUME Shaped(was), PlainStart, Target \in Seq(Names)
    PROVE  /\ Target \in Places \ {Root} /\ Len(Target) \in Nat \ {0}
           /\ \A i \in 0..Len(Target) - 1 : was[Pre(Target, i)].kind = "dir"
           /\ \A p \in Places : IsPrefix(Target, p) => ~Exists(was[p])
<1> DEFINE up == Front(Target)
<1>1. Target \in Places /\ Target # Root /\ was[up].kind = "dir" /\ ~Exists(was[Target])
  BY DEF PlainStart, HasRoom, Shaped, Exists
<1>2. Len(Target) \in Nat \ {0}
  BY <1>1, EmptySeq DEF Root
<1>3. /\ Len(Target) \in 1..Len(Target) /\ up = Pre(Target, Len(Target) - 1) /\ up \in Places
      /\ up \in Seq(Names) /\ Len(up) = Len(Target) - 1
  <2>1. Len(Target) \in 1..Len(Target) /\ Len(Target) - 1 \in 0..Len(Target)
    BY <1>2
  <2>2. Len(Target) \in 0..Len(Target) /\ Pre(Target, Len(Target)) = Target
    BY <1>2, PreEnds
  <2>3. Pre(Target, Len(Target) - 1) = Front(Target)
    BY <2>1, <2>2, PreStep
  <2>4. Len(Pre(Target, Len(Target) - 1)) = Len(Target) - 1
    BY <2>1, PreType
  <2> QED BY <1>1, <2>1, <2>3, <2>4, PlaceAssumption
<1> HIDE DEF up
<1>4. ASSUME NEW i \in 0..Len(Target) - 1 PROVE was[Pre(Target, i)].kind = "dir"
  <2>1. CASE i = Len(Target) - 1
    BY <1>1, <1>3, <2>1
  <2>2. CASE i < Len(Target) - 1
    <3>1. i \in 0..Len(up) - 1 /\ i \in 0..Len(Target) - 1 /\ Len(Target) - 1 \in 0..Len(Target)
      BY <1>2, <1>3, <2>2
    <3>2. was[Pre(up, i)].kind = "dir"
      BY <1>1, <1>3, <3>1, ShapedUp DEF Exists
    <3>3. Pre(up, i) = Pre(Target, i)
      BY <1>3, <3>1, PreOfPre
    <3> QED BY <3>2, <3>3
  <2> QED BY <1>2, <2>1, <2>2
<1>5. ASSUME NEW p \in Places, IsPrefix(Target, p), Exists(was[p]) PROVE FALSE
  <2>1. p \in Seq(Names) /\ Len(p) \in Nat /\ Len(Target) <= Len(p) /\ Pre(p, Len(Target)) = Target
    BY <1>1, <1>5, PlaceAssumption, PrefixIs
  <2>2. CASE Len(Target) = Len(p)
    <3>1. p = Target
      BY <2>1, <2>2, PreEnds
    <3> QED BY <1>1, <1>5, <3>1
  <2>3. CASE Len(Target) < Len(p)
    <3>1. Len(Target) \in 0..Len(p) - 1
      BY <1>2, <2>1, <2>3
    <3>2. was[Target].kind = "dir"
      BY <1>5, <2>1, <3>1, ShapedUp
    <3> QED BY <1>1, <3>2 DEF Exists
  <2> QED BY <1>2, <2>1, <2>2, <2>3
<1> QED BY <1>1, <1>2, <1>4, <1>5

\* And what is at the target is not behind a symlink.
LEMMA TargetSide ==
    ASSUME Shaped(was), PlainStart, Target \in Seq(Names), NEW tree, Between(tree),
           NEW w \in Seq(Names), NEW follow
    PROVE  LET y == Target \o w IN
           /\ y \in Seq(Names) /\ IsPrefix(Target, y) /\ y # Root
           /\ Exists(Found(tree, y, follow)) <=> y \in Places /\ Exists(tree[y])
           /\ y \in Places /\ Exists(tree[y]) =>
                 Walk(tree, y, follow) = y /\ Found(tree, y, follow) = tree[y]
           /\ y \in Places /\ tree[Front(y)].kind = "dir" =>
                 Walk(tree, y, follow) = y /\ Found(tree, y, follow) = tree[y]
<1> DEFINE y == Target \o w
<1>1. Target \in Places /\ Len(Target) \in 0..Len(Target) /\ Target # Root /\ Len(Target) \in Nat
  <2>1. Root \in Seq(Names) /\ Exists(was[Root])
    BY PlaceAssumption DEF Shaped, Exists
  <2> QED BY <2>1 DEF PlainStart, HasRoom
<1>2. y \in Seq(Names) /\ Len(y) \in Nat /\ IsPrefix(Target, y) /\ Len(Target) <= Len(y)
  BY <1>1, ConcatIsWithin, PrefixIs
<1>3. y # Root
  <2>1. Len(Target) # 0
    BY <1>1, EmptySeq DEF Root
  <2> HIDE DEF y
  <2> QED BY <1>1, <1>2, <2>1, EmptySeq DEF Root
<1>4. ASSUME NEW i \in 0..Len(y), Pre(y, i) \in Places
      PROVE  tree[Pre(y, i)].kind # "link"
  <2>1. Pre(y, i) \in Seq(Names) /\ Len(Pre(y, i)) = i
    BY <1>2, PreType
  <2>2. CASE i < Len(Target)
    <3>1. Pre(y, i) = Pre(Target, i) /\ i \in 0..Len(Target)
      BY <1>1, <2>2, PreOfConcat
    <3>2. ~IsPrefix(Target, Pre(y, i))
      BY <1>1, <2>1, <2>2, PrefixIs
    <3>3. was[Pre(Target, i)].kind = "dir"
      BY <2>2, FreeTarget
    <3>4. was[Pre(y, i)].kind # "link"
      <4> HIDE DEF y
      <4> QED BY <3>1, <3>3
    <3> HIDE DEF y
    <3> QED BY <1>4, <3>2, <3>4 DEF Between
  <2>3. CASE Len(Target) <= i
    <3>1. Len(Target) \in 0..i
      BY <1>1, <2>3
    <3>2. Pre(Pre(y, i), Len(Target)) = Target
      <4>1. Pre(Pre(y, i), Len(Target)) = Pre(y, Len(Target))
        BY <1>2, <3>1, PreOfPre
      <4>2. Pre(y, Len(Target)) = Target
        BY <1>1, PreOfConcat, PreEnds
      <4> QED BY <4>1, <4>2
    <3>3. IsPrefix(Target, Pre(y, i))
      BY <2>1, <2>3, <3>2, PrefixIs
    <3>4. tree[Pre(y, i)].kind \in {"none", "dir", "file"}
      <4> HIDE DEF y
      <4> QED BY <1>4, <3>3 DEF Between
    <3> QED BY <3>4
  <2> QED BY <1>1, <2>2, <2>3
<1>5. Linkless(tree, y)
  <2>1. \A i \in 1..Len(y) : i \in 0..Len(y)
    BY <1>2
  <2> HIDE DEF y
  <2> QED BY <1>4, <2>1 DEF Linkless
<1>6. Shaped(tree)
  BY DEF Between
<1> HIDE DEF y
<1>7. /\ Exists(Found(tree, y, follow)) <=> y \in Places /\ Exists(tree[y])
      /\ y \in Places /\ Exists(tree[y]) =>
                 Walk(tree, y, follow) = y /\ Found(tree, y, follow) = tree[y]
      /\ y \in Places \ {Root} /\ tree[Front(y)].kind = "dir" =>
                 Walk(tree, y, follow) = y /\ Found(tree, y, follow) = tree[y]
  BY <1>2, <1>5, <1>6, LinklessFound
<1> QED BY <1>2, <1>3, <1>7 DEF y

-----------------------------------------------------------------------------
(* A plain copy.                                                           *)

\* What the options make of the source, and where.
Rest(p) == SubSeq(p, Len(Source) + 1, Len(p))
ToCopy == {p \in Places : IsPrefix(Source, p) /\ Exists(was[p]) /\ (p = Source \/ Recursive)}

\* The entries of a directory, at first.
Inside(x) == {n \in Names : Append(x, n) \in Places /\ Exists(was[Append(x, n)])}

\* A call is to copy what is at k.from to the same place below the target, where
\* there is nothing before and then what the call has copied.
PlainCall(k) ==
    /\ Rest(k.from) \in Seq(Names)
    /\ k.from = Source \o Rest(k.from) /\ k.to = Target \o Rest(k.from)
    /\ k.from \in ToCopy
    /\ k.to \in Places /\ node[Front(k.to)].kind = "dir"
    /\ k.pc \in {"look", "create_hard_link", "copy_file", "write_file", "create_directory", "open",
                 "first", "next"}
    /\ k.pc \in {"look", "create_hard_link", "copy_file", "write_file", "create_directory"} =>
          ~Exists(node[k.to])
    /\ k.pc \in {"create_directory", "open", "first", "next"} =>
          was[k.from].kind = "dir" /\ Recursive
    /\ k.pc \in {"create_hard_link", "copy_file", "write_file"} => was[k.from].kind = "file"
    /\ k.pc \in {"open", "first", "next"} =>
          /\ node[k.to].kind = "dir"
          /\ \A n \in Names : Append(k.to, n) \in Places /\ Exists(node[Append(k.to, n)]) =>
                n \in k.read
    /\ k.pc \in {"first", "next"} => k.entries = Inside(k.from)

\* Call j is the copy of an entry that call i has read.
Copies(i, j) ==
    \E n \in calls[i].read :
        calls[j].from = Append(calls[i].from, n) /\ calls[j].to = Append(calls[i].to, n)

\* The copies on the stack, from that of the source on.
PlainStack ==
    /\ \A i \in 1..Len(calls) : PlainCall(calls[i])
    /\ \A i \in 1..Len(calls) - 1 : Copies(i, i + 1)
    /\ calls # <<>> => calls[1].from = Source

\* Nothing has changed but below the target, where there is no link.
PlainDisk == Between(node)

\* The tree a copy starts from.
Origin ==
    /\ Shaped(was) /\ Target \in Seq(Names)
    /\ \A p \in Places : was[p].kind = "file" => was[was[p].id] = was[p]

PlainInv ==
    /\ Origin
    /\ Plain => answer # "error" /\ PlainDisk /\ PlainStack

-----------------------------------------------------------------------------
(* Texts below the source.                                                 *)

LEMMA RestOfConcat ==
    ASSUME NEW w \in Seq(Names)
    PROVE  Rest(Source \o w) = w
<1> DEFINE x == Source \o w
           r == Rest(x)
<1>1. Source \in Seq(Names) /\ Len(Source) \in Nat
  BY PlaceAssumption
<1>2. /\ x \in Seq(Names) /\ Len(x) = Len(Source) + Len(w)
      /\ \A i \in 1..Len(x) : x[i] = IF i <= Len(Source) THEN Source[i] ELSE w[i - Len(Source)]
  <2>1. x \in Seq(Names) /\ Len(x) = Len(Source) + Len(w)
    BY <1>1, ConcatProperties
  <2> QED BY <1>1, <2>1, ConcatProperties
<1> HIDE DEF x
<1>3. r = SubSeq(x, Len(Source) + 1, Len(x))
  BY DEF Rest
<1>4. \A j \in Len(Source) + 1..Len(x) : x[j] \in Names
  BY <1>1, <1>2
<1>5. /\ r \in Seq(Names) /\ Len(r) = IF Len(Source) + 1 <= Len(x)
                                       THEN Len(x) - (Len(Source) + 1) + 1 ELSE 0
      /\ \A j \in 1..Len(x) - (Len(Source) + 1) + 1 : r[j] = x[Len(Source) + 1 + j - 1]
  BY <1>1, <1>2, <1>3, <1>4, SubSeqProperties
<1> HIDE DEF r
<1>6. Len(r) = Len(w)
  BY <1>1, <1>2, <1>5
<1>7. ASSUME NEW j \in 1..Len(w) PROVE r[j] = w[j]
  <2> DEFINE i == Len(Source) + 1 + j - 1
  <2>1. /\ j \in 1..Len(x) - (Len(Source) + 1) + 1
        /\ i \in 1..Len(x) /\ ~(i <= Len(Source)) /\ i - Len(Source) = j
    BY <1>1, <1>2
  <2>2. r[j] = x[i]
    BY <1>5, <2>1
  <2> HIDE DEF i
  <2>3. x[i] = w[i - Len(Source)]
    BY <1>2, <2>1
  <2> QED BY <2>1, <2>2, <2>3
<1>8. r = w
  BY <1>5, <1>6, <1>7, SeqEqual
<1> QED BY <1>8 DEF r, x

LEMMA RestIs ==
    ASSUME NEW p \in Seq(Names), IsPrefix(Source, p)
    PROVE  Rest(p) \in Seq(Names) /\ p = Source \o Rest(p)
<1> DEFINE w == [i \in 1..Len(p) - Len(Source) |-> p[Len(Source) + i]]
<1>1. /\ Source \in Seq(Names) /\ Len(Source) \in Nat /\ Len(p) \in Nat
      /\ Len(Source) <= Len(p) /\ Pre(p, Len(Source)) = Source
  BY PlaceAssumption, PrefixIs
<1>2. w \in Seq(Names) /\ Len(w) = Len(p) - Len(Source)
  <2>1. Len(p) - Len(Source) \in Nat
    BY <1>1
  <2>2. \A i \in 1..Len(p) - Len(Source) : p[Len(Source) + i] \in Names
    BY <1>1
  <2> QED BY <2>1, <2>2
<1>3. ASSUME NEW i \in 1..Len(p) - Len(Source) PROVE w[i] = p[Len(Source) + i]
  OBVIOUS
<1> HIDE DEF w
<1> DEFINE x == Source \o w
<1>4. /\ x \in Seq(Names) /\ Len(x) = Len(p)
      /\ \A i \in 1..Len(p) : x[i] = IF i <= Len(Source) THEN Source[i] ELSE w[i - Len(Source)]
  <2>1. x \in Seq(Names) /\ Len(x) = Len(Source) + Len(w)
    BY <1>1, <1>2, ConcatProperties
  <2>2. Len(Source) + Len(w) = Len(p)
    BY <1>1, <1>2
  <2> QED BY <1>1, <1>2, <2>1, <2>2, ConcatProperties
<1> HIDE DEF x
<1>5. ASSUME NEW i \in 1..Len(p) PROVE x[i] = p[i]
  <2>1. CASE i <= Len(Source)
    <3>1. i \in 1..Len(Source) /\ Len(Source) \in 0..Len(p)
      BY <1>1, <2>1
    <3>2. Pre(p, Len(Source))[i] = p[i]
      BY <3>1, PreType
    <3> QED BY <1>1, <1>4, <2>1, <3>2
  <2>2. CASE ~(i <= Len(Source))
    <3>1. i - Len(Source) \in 1..Len(p) - Len(Source) /\ Len(Source) + (i - Len(Source)) = i
      BY <1>1, <2>2
    <3> QED BY <1>3, <1>4, <2>2, <3>1
  <2> QED BY <2>1, <2>2
<1>6. x = p
  BY <1>4, <1>5, SeqEqual
<1> QED BY <1>2, <1>6, RestOfConcat DEF x

LEMMA AppendOfConcat ==
    ASSUME NEW s \in Seq(Names), NEW w \in Seq(Names), NEW n \in Names
    PROVE  Append(w, n) \in Seq(Names) /\ Append(s \o w, n) = s \o Append(w, n)
<1>1. s \o w \in Seq(Names) /\ <<n>> \in Seq(Names)
  BY ConcatProperties
<1>2. Append(s \o w, n) = (s \o w) \o <<n>> /\ Append(w, n) = w \o <<n>>
  BY <1>1, AppendIsConcat
<1>3. (s \o w) \o <<n>> = s \o (w \o <<n>>)
  BY <1>1, ConcatAssociative
<1> QED BY <1>2, <1>3

\* The entry n of the directory p.
LEMMA RestOfEntry ==
    ASSUME NEW p \in Seq(Names), IsPrefix(Source, p), NEW n \in Names
    PROVE  /\ Append(p, n) \in Seq(Names) /\ IsPrefix(Source, Append(p, n))
           /\ Rest(Append(p, n)) = Append(Rest(p), n)
<1> DEFINE w == Rest(p)
           x == Append(w, n)
<1>1. Source \in Seq(Names) /\ w \in Seq(Names) /\ p = Source \o w
  BY RestIs, PlaceAssumption
<1> HIDE DEF w
<1>2. x \in Seq(Names) /\ Append(p, n) = Source \o x
  BY <1>1, AppendOfConcat
<1> HIDE DEF x
<1>3. Source \o x \in Seq(Names) /\ IsPrefix(Source, Source \o x) /\ Rest(Source \o x) = x
  BY <1>1, <1>2, ConcatIsWithin, RestOfConcat
<1> QED BY <1>2, <1>3 DEF x, w

-----------------------------------------------------------------------------
(* The images.                                                             *)

\* There is room for the image of what is to be copied.
LEMMA ImageOf ==
    ASSUME Origin, PlainStart, NEW p \in ToCopy
    PROVE  /\ p \in Places /\ p \in Seq(Names) /\ IsPrefix(Source, p)
           /\ Rest(p) \in Seq(Names) /\ p = Source \o Rest(p)
           /\ Target \o Rest(p) \in Places
           /\ Len(p) <= MaxLen /\ Len(Target \o Rest(p)) <= MaxLen
<1>1. p \in Places /\ p \in Seq(Names) /\ IsPrefix(Source, p) /\ Exists(was[p])
  BY PlaceAssumption DEF ToCopy
<1>2. Rest(p) \in Seq(Names) /\ p = Source \o Rest(p)
  BY <1>1, RestIs
<1>3. \A q \in Places : IsPrefix(Source, q) /\ Exists(was[q]) =>
          Target \o Rest(q) \in Places /\ Len(q) <= MaxLen /\ Len(Target \o Rest(q)) <= MaxLen
  BY DEF PlainStart, HasRoom, IsWithin, Rest
<1> QED BY <1>1, <1>2, <1>3

\* What a call of a plain copy finds.
LEMMA CallFinds ==
    ASSUME Origin, PlainStart, PlainDisk, NEW k, PlainCall(k), NEW follow
    PROVE  /\ k.from \in Places /\ ~TooLong(k.from)
           /\ Walk(node, k.from, follow) = k.from
           /\ Stat(k.from, follow) = was[k.from] /\ node[k.from] = was[k.from]
           /\ was[k.from].kind \in {"dir", "file"} /\ ~IsPrefix(Target, k.from)
           /\ k.to \in Places \ {Root} /\ k.to \in Seq(Names) /\ ~TooLong(k.to)
           /\ IsPrefix(Target, k.to)
           /\ Walk(node, k.to, follow) = k.to /\ Stat(k.to, follow) = node[k.to]
<1> DEFINE x == k.from
           y == k.to
           w == Rest(x)
<1>1. x \in ToCopy /\ x = Source \o w /\ y = Target \o w /\ y \in Places
      /\ node[Front(y)].kind = "dir"
  BY DEF PlainCall
<1>2. /\ x \in Places /\ w \in Seq(Names) /\ Len(x) <= MaxLen /\ Len(y) <= MaxLen
      /\ Exists(was[x]) /\ x \in Seq(Names)
  BY <1>1, ImageOf DEF ToCopy
<1> HIDE DEF x, y, w
<1>3. ~TooLong(x) /\ ~TooLong(y)
  <2>1. Len(x) \in Nat /\ Len(y) \in Nat /\ MaxLen \in Nat
    BY <1>1, <1>2, PlaceAssumption
  <2> QED BY <1>2, <2>1 DEF TooLong
<1>4. /\ ~IsPrefix(Target, x)
      /\ node[x] = was[x] /\ Walk(node, x, follow) = x /\ Found(node, x, follow) = was[x]
      /\ was[x].kind \in {"dir", "file"}
  BY <1>1, <1>2, SourceSide DEF Origin, PlainDisk
<1>5. /\ y \in Seq(Names) /\ IsPrefix(Target, y) /\ y # Root
      /\ Walk(node, y, follow) = y /\ Found(node, y, follow) = node[y]
  <2>1. Shaped(was) /\ Target \in Seq(Names) /\ Between(node) /\ w \in Seq(Names)
    BY <1>2 DEF Origin, PlainDisk
  <2>2. LET z == Target \o w IN
        /\ z \in Seq(Names) /\ IsPrefix(Target, z) /\ z # Root
        /\ z \in Places /\ node[Front(z)].kind = "dir" =>
              Walk(node, z, follow) = z /\ Found(node, z, follow) = node[z]
    BY <2>1, TargetSide
  <2> QED BY <1>1, <2>2
<1> QED BY <1>1, <1>2, <1>3, <1>4, <1>5 DEF x, y, Stat

\* A directory is listed as it was.
LEMMA CallLists ==
    ASSUME Origin, PlainStart, PlainDisk, NEW k, PlainCall(k)
    PROVE  Listed(k.from) = Inside(k.from)
<1> DEFINE x == k.from
           w == Rest(x)
<1>1. x \in ToCopy /\ x = Source \o w /\ w \in Seq(Names) /\ IsPrefix(Source, x)
      /\ x \in Seq(Names)
  BY ImageOf DEF PlainCall
<1> HIDE DEF w, x
<1>2. ASSUME NEW n \in Names
      PROVE  Exists(Stat(Append(x, n), FALSE)) <=> Append(x, n) \in Places /\ Exists(was[Append(x, n)])
  <2> DEFINE v == Append(w, n)
  <2>1. Append(x, n) = Source \o v /\ v \in Seq(Names)
    <3>1. Source \in Seq(Names) /\ w \in Seq(Names)
      BY <1>1, PlaceAssumption
    <3>2. Append(w, n) \in Seq(Names) /\ Append(Source \o w, n) = Source \o Append(w, n)
      BY <3>1, AppendOfConcat
    <3> QED BY <1>1, <3>2
  <2> HIDE DEF v
  <2>2. Exists(Found(node, Source \o v, FALSE)) <=>
            Source \o v \in Places /\ Exists(was[Source \o v])
    BY <2>1, SourceSide DEF Origin, PlainDisk
  <2> QED BY <2>1, <2>2 DEF Stat
<1>3. Listed(x) = Inside(x)
  BY <1>2 DEF Listed, Inside
<1> QED BY <1>3 DEF x

-----------------------------------------------------------------------------
(* Something new at the target.                                            *)

\* A step of a plain copy leaves the disk alone, or makes something at y.
Grows(y, n) ==
    /\ y \in Places \ {Root} /\ IsPrefix(Target, y)
    /\ ~Exists(node[y]) /\ node[Front(y)].kind = "dir"
    /\ n \in Nodes /\ n.kind \in {"dir", "file"}
    /\ node' = [node EXCEPT ![y] = n]

LEMMA GrowsDisk ==
    ASSUME Origin, PlainStart, PlainDisk, UNCHANGED given, NEW y, NEW n, Grows(y, n)
    PROVE  /\ PlainDisk'
           /\ node'[y] = n /\ \A p \in Places : p # y => node'[p] = node[p]
<1>1. Shaped(node) /\ node \in [Places -> Nodes] /\ y \in Places /\ y # Root
  BY DEF PlainDisk, Between, Shaped, Grows
<1>2. node'[y] = n /\ \A p \in Places : p # y => node'[p] = node[p]
  BY <1>1 DEF Grows
<1>3. node' \in [Places -> Nodes]
  BY <1>1 DEF Grows
<1>4. was' = was /\ Target' = Target
  BY DEF given
<1>5. Shaped(node')
  <2>1. Root \in Places /\ node'[Root].kind = "dir"
    BY <1>1, <1>2, PlaceAssumption DEF Shaped
  <2>2. ASSUME NEW p \in Places \ {Root}, Exists(node'[p]) PROVE node'[Front(p)].kind = "dir"
    <3>1. Front(p) \in Places
      BY PlaceAssumption
    <3>2. node[Front(p)].kind = "dir"
      BY <1>1, <1>2, <2>2 DEF Shaped, Grows
    <3>3. Front(p) # y
      BY <3>2 DEF Grows, Exists
    <3> QED BY <1>2, <3>1, <3>2, <3>3
  <2> QED BY <1>3, <2>1, <2>2 DEF Shaped
<1>6. Between(node)'
  <2>1. \A p \in Places : ~IsPrefix(Target, p) => node'[p] = was[p]
    BY <1>2 DEF PlainDisk, Between, Grows
  <2>2. \A p \in Places : IsPrefix(Target, p) => node'[p].kind \in {"none", "dir", "file"}
    <3>1. n.kind \in {"none", "dir", "file"}
      BY DEF Grows
    <3>2. \A p \in Places : IsPrefix(Target, p) => node[p].kind \in {"none", "dir", "file"}
      BY DEF PlainDisk, Between
    <3> QED BY <1>2, <3>1, <3>2
  <2> QED BY <1>4, <1>5, <2>1, <2>2 DEF Between, Shaped
<1> QED BY <1>2, <1>6 DEF PlainDisk

\* A call goes on unless it is the one that has made it, or has not heard of it.
LEMMA GrowsCall ==
    ASSUME Origin, PlainStart, PlainDisk, UNCHANGED given, NEW y, NEW n, Grows(y, n),
           NEW k, PlainCall(k), k.to # y,
           \A e \in Names : Append(k.to, e) = y => e \in k.read
    PROVE  PlainCall(k)'
<1>1. was' = was /\ Target' = Target /\ options' = options
  BY DEF given
<1>2. \A p \in Places : p # y => node'[p] = node[p]
  BY GrowsDisk
<1>3. ToCopy' = ToCopy /\ (Recursive <=> Recursive')
  BY <1>1 DEF ToCopy, Recursive, Has
<1>4. k.to \in Places /\ Front(k.to) \in Places /\ node[Front(k.to)].kind = "dir"
  <2>1. k.to \in Places \ {Root}
    BY CallFinds
  <2> QED BY <2>1, PlaceAssumption DEF PlainCall
<1>5. node'[k.to] = node[k.to] /\ node'[Front(k.to)] = node[Front(k.to)]
  BY <1>2, <1>4 DEF Grows, Exists
<1>6. ASSUME k.pc \in {"open", "first", "next"}, NEW e \in Names, Append(k.to, e) \in Places,
             Exists(node'[Append(k.to, e)])
      PROVE  e \in k.read
  BY <1>2, <1>6 DEF PlainCall
<1>7. Inside(k.from)' = Inside(k.from) /\ Rest(k.from)' = Rest(k.from)
  BY <1>1 DEF Inside, Rest
<1> QED BY <1>1, <1>3, <1>4, <1>5, <1>6, <1>7 DEF PlainCall

-----------------------------------------------------------------------------
(* The stack of a plain copy.                                              *)

\* A state from which a plain copy takes a step.
PlainState ==
    /\ Inv /\ Origin /\ PlainStart /\ PlainDisk /\ PlainStack
    /\ calls # <<>>

\* A step that makes nothing, or something new at the target of the innermost call.
Keeps ==
    /\ UNCHANGED given
    /\ \/ UNCHANGED disk
       \/ \E n : Grows(Current.to, n)

LEMMA StackFacts ==
    ASSUME PlainState
    PROVE  /\ calls \in Seq(CallRecords) /\ Len(calls) \in Nat \ {0}
           /\ Current = calls[Len(calls)] /\ Current \in CallRecords
           /\ PlainCall(Current) /\ answer = "none"
           /\ \A i \in 1..Len(calls) : calls[i] \in CallRecords /\ PlainCall(calls[i])
           /\ \A i \in 1..Len(calls) - 1 : calls[i].pc = "next" /\ Copies(i, i + 1)
<1>1. /\ Current \in CallRecords /\ Current = calls[Len(calls)]
      /\ Len(calls) \in 1..Len(calls) /\ calls \in Seq(CallRecords)
  BY CurrentType DEF PlainState
<1>2. Len(calls) \in Nat \ {0} /\ \A i \in 1..Len(calls) : calls[i] \in CallRecords
  BY <1>1
<1>3. /\ \A i \in 1..Len(calls) : PlainCall(calls[i])
      /\ \A i \in 1..Len(calls) - 1 : Copies(i, i + 1)
      /\ answer = "none" /\ Stacked(calls)
  BY DEF PlainState, PlainStack, Inv, CallsOK
<1>4. \A i \in 1..Len(calls) - 1 : i \in 1..Len(calls) /\ i < Len(calls)
  BY <1>2
<1>5. \A i \in 1..Len(calls) - 1 : calls[i].pc = "next"
  BY <1>3, <1>4 DEF Stacked
<1> QED BY <1>1, <1>2, <1>3, <1>5

LEMMA CallLength ==
    ASSUME PlainState, NEW i \in 1..Len(calls)
    PROVE  /\ Len(calls[i].from) = Len(Source) + i - 1 /\ Len(calls[i].to) = Len(Target) + i - 1
           /\ calls[i].from \in Seq(Names) /\ calls[i].to \in Seq(Names)
<1> DEFINE k == calls[i]
           w == Rest(k.from)
<1>1. PlainCall(k) /\ k \in CallRecords
  BY StackFacts
<1>2. Len(k.from) = Len(Source) + i - 1
  BY DEF PlainState, Inv, CallsOK, Stacked, MirrorAt
<1> HIDE DEF k
<1>3. k.from = Source \o w /\ k.to = Target \o w /\ w \in Seq(Names)
      /\ Source \in Seq(Names) /\ Target \in Seq(Names)
  BY <1>1, PlaceAssumption DEF PlainCall, PlainState, Origin
<1> HIDE DEF w
<1>4. Len(k.from) = Len(Source) + Len(w) /\ Len(k.to) = Len(Target) + Len(w)
  BY <1>3, ConcatProperties
<1>5. Len(w) = i - 1
  BY <1>2, <1>3, <1>4
<1>6. k.from \in Seq(Names) /\ k.to \in Seq(Names)
  BY <1>1 DEF CallRecords
<1>7. Len(k.to) = Len(Target) + i - 1
  BY <1>3, <1>4, <1>5
<1> QED BY <1>2, <1>6, <1>7 DEF k

\* The calls around the innermost one go on.
LEMMA OuterKeeps ==
    ASSUME PlainState, Keeps, NEW i \in 1..Len(calls) - 1, NEW k, k = calls[i]
    PROVE  PlainCall(k)'
<1>1. PlainCall(k) /\ k.pc = "next" /\ Len(calls) \in Nat
  BY StackFacts
<1>2. CASE UNCHANGED disk
  BY <1>1, <1>2 DEF Keeps, PlainCall, given, disk, ToCopy, Rest, Recursive, Has, Inside, Exists
<1>3. ASSUME NEW n, Grows(Current.to, n) PROVE PlainCall(k)'
  <2> DEFINE y == Current.to
  <2>1. k.to # y
    BY <1>1, <1>3 DEF PlainCall, Grows, Exists
  <2>2. ASSUME NEW e \in Names, Append(k.to, e) = y PROVE e \in k.read
    <3>1. /\ y = calls[Len(calls)].to /\ Len(y) = Len(Target) + Len(calls) - 1
          /\ Len(k.to) = Len(Target) + i - 1 /\ k.to \in Seq(Names) /\ Len(Target) \in Nat
      <4>1. Len(calls) \in 1..Len(calls) /\ i \in 1..Len(calls)
        BY <1>1
      <4>2. y = calls[Len(calls)].to /\ Len(y) = Len(Target) + Len(calls) - 1
        BY <4>1, StackFacts, CallLength
      <4>3. Len(calls[i].to) = Len(Target) + i - 1 /\ calls[i].to \in Seq(Names)
        BY <4>1, CallLength
      <4>4. Len(Target) \in Nat
        BY DEF PlainState, Origin
      <4> QED BY <4>2, <4>3, <4>4
    <3>2. Len(Append(k.to, e)) = Len(k.to) + 1
      BY <3>1
    <3>3. i + 1 = Len(calls)
      BY <1>1, <2>2, <3>1, <3>2
    <3>4. PICK m \in k.read : y = Append(k.to, m)
      <4>1. Copies(i, i + 1)
        BY StackFacts
      <4> QED BY <3>1, <3>3, <4>1 DEF Copies
    <3>5. m \in Names
      <4>1. i \in 1..Len(calls)
        BY <1>1
      <4>2. k \in CallRecords
        BY <4>1, StackFacts
      <4> QED BY <4>2 DEF CallRecords
    <3>6. m = e
      BY <2>2, <3>1, <3>4, <3>5, AppendInjective
    <3> QED BY <3>6
  <2> HIDE DEF y
  <2> QED BY <1>1, <1>3, <2>1, <2>2, GrowsCall DEF Keeps, PlainState, y
<1> QED BY <1>2, <1>3 DEF Keeps

\* Nothing has changed but below the target.
LEMMA KeepsDisk ==
    ASSUME PlainState, Keeps
    PROVE  PlainDisk' /\ ToCopy' = ToCopy
<1>1. was' = was /\ Target' = Target /\ options' = options
  BY DEF Keeps, given
<1>2. ToCopy' = ToCopy
  BY <1>1 DEF ToCopy, Recursive, Has, Exists
<1>3. ASSUME UNCHANGED disk PROVE PlainDisk'
  BY <1>1, <1>3 DEF PlainState, PlainDisk, Between, Shaped, Exists, disk
<1>4. ASSUME NEW n, Grows(Current.to, n) PROVE PlainDisk'
  BY <1>4, GrowsDisk DEF PlainState, Keeps
<1> QED BY <1>2, <1>3, <1>4 DEF Keeps

LEMMA FrontOfAppend ==
    ASSUME NEW s \in Seq(Names), NEW n \in Names
    PROVE  Front(Append(s, n)) = s
<1> DEFINE t == Append(s, n)
<1>1. /\ t \in Seq(Names) /\ Len(t) = Len(s) + 1 /\ Len(s) \in Nat
      /\ \A i \in 1..Len(s) : t[i] = s[i]
  BY AppendProperties
<1> HIDE DEF t
<1>2. /\ Front(t) \in Seq(Names) /\ Len(Front(t)) = Len(s)
      /\ \A i \in 1..Len(s) : Front(t)[i] = s[i]
  <2>1. Len(t) # 0 /\ Len(t) - 1 = Len(s)
    BY <1>1
  <2> QED BY <1>1, <2>1, FrontIs
<1>3. Front(t) = s
  BY <1>2, SeqEqual
<1> QED BY <1>3 DEF t

LEMMA SameCall ==
    ASSUME was' = was, Target' = Target, options' = options, node' = node,
           NEW k, PlainCall(k)
    PROVE  PlainCall(k)'
BY DEF PlainCall, ToCopy, Rest, Recursive, Has, Inside, Exists

-----------------------------------------------------------------------------
(* The next stack.                                                         *)

\* The innermost call goes on.
LEMMA GoesOn ==
    ASSUME PlainState, Keeps, UNCHANGED answer, NEW k \in CallRecords,
           calls' = [calls EXCEPT ![Len(calls)] = k],
           k.from = Current.from, k.to = Current.to, k.read = Current.read, PlainCall(k)'
    PROVE  answer' # "error" /\ PlainStack'
<1> DEFINE l == Len(calls)
<1>1. /\ calls \in Seq(CallRecords) /\ l \in Nat \ {0} /\ l \in 1..l /\ Len(calls) = l /\ answer = "none"
      /\ Current = calls[l]
  BY StackFacts
<1>2. /\ Len(calls') = l /\ calls'[l] = k
      /\ \A i \in 1..l : i # l => calls'[i] = calls[i]
  BY <1>1, ExceptSeq
<1> HIDE DEF l
<1>3. \A i \in 1..l : /\ calls'[i].from = calls[i].from /\ calls'[i].to = calls[i].to
                      /\ calls'[i].read = calls[i].read
  BY <1>1, <1>2
<1>4. PlainStack'
  <2>1. ASSUME NEW i \in 1..l PROVE PlainCall(calls[i])'
    <3>1. CASE i = l
      BY <1>2, <3>1
    <3>2. CASE i # l
      <4>1. i \in 1..Len(calls) - 1 /\ calls'[i] = calls[i]
        BY <1>1, <1>2, <3>2
      <4>2. PICK c : c = calls[i]
        OBVIOUS
      <4>3. PlainCall(c)'
        BY <4>1, <4>2, OuterKeeps
      <4> QED BY <4>1, <4>2, <4>3
    <3> QED BY <3>1, <3>2
  <2>2. ASSUME NEW i \in 1..l - 1 PROVE Copies(i, i + 1)'
    <3>1. i \in 1..l /\ i + 1 \in 1..l
      BY <1>1
    <3>2. Copies(i, i + 1)
      BY StackFacts DEF l
    <3> QED BY <1>3, <3>1, <3>2 DEF Copies
  <2>3. calls'[1].from = Source
    <3>1. 1 \in 1..l /\ calls # <<>>
      BY <1>1 DEF PlainState
    <3> QED BY <1>3, <3>1 DEF PlainState, PlainStack
  <2> QED BY <1>2, <2>1, <2>2, <2>3 DEF PlainStack
<1> QED BY <1>1, <1>4

\* The innermost call returns.
LEMMA Returns ==
    ASSUME PlainState, Keeps, Return
    PROVE  answer' # "error" /\ PlainStack'
<1> DEFINE l == Len(calls)
<1>1. /\ calls \in Seq(CallRecords) /\ l \in Nat \ {0} /\ Len(calls) = l /\ answer = "none"
      /\ Current = calls[l] /\ calls' = Front(calls)
      /\ answer' = IF l = 1 THEN "ok" ELSE answer
  BY StackFacts DEF Return
<1>2. /\ calls' \in Seq(CallRecords) /\ Len(calls') = l - 1
      /\ \A i \in 1..l - 1 : calls'[i] = calls[i]
  BY <1>1, FrontIs
<1> HIDE DEF l
<1>3. PlainStack'
  <2>1. ASSUME NEW i \in 1..l - 1 PROVE PlainCall(calls[i])'
    <3>1. i \in 1..Len(calls) - 1 /\ calls'[i] = calls[i]
      BY <1>1, <1>2
    <3>2. PICK c : c = calls[i]
      OBVIOUS
    <3>3. PlainCall(c)'
      BY <3>1, <3>2, OuterKeeps
    <3> QED BY <3>1, <3>2, <3>3
  <2>2. ASSUME NEW i \in 1..l - 1 - 1 PROVE Copies(i, i + 1)'
    <3>1. i \in 1..l - 1 /\ i + 1 \in 1..l - 1
      BY <1>1
    <3>2. Copies(i, i + 1)
      BY <1>1, <3>1, StackFacts
    <3> QED BY <1>2, <3>1, <3>2 DEF Copies
  <2>3. calls' # <<>> => calls'[1].from = Source
    <3>1. calls' # <<>> => 1 \in 1..l - 1
      BY <1>1, <1>2, EmptySeq
    <3> QED BY <1>2, <3>1 DEF PlainState, PlainStack
  <2> QED BY <1>2, <2>1, <2>2, <2>3 DEF PlainStack
<1>4. answer' # "error"
  BY <1>1
<1> QED BY <1>3, <1>4

\* The innermost call has read an entry, and calls the copy of it.
LEMMA Enters ==
    ASSUME PlainState, UNCHANGED given, UNCHANGED disk, NEW n \in Inside(Current.from) \ Current.read,
           CopyEntry(n), Current.pc \in {"first", "next"}
    PROVE  answer' # "error" /\ PlainStack'
<1> DEFINE l == Len(calls)
<1>k. PICK k : k = [Current EXCEPT !.pc = "next", !.read = @ \cup {n}]
  OBVIOUS
<1>n. PICK new : new = Call(Append(Current.from, n), Append(Current.to, n))
  OBVIOUS
<1>1. /\ calls \in Seq(CallRecords) /\ l \in Nat \ {0} /\ Len(calls) = l /\ answer = "none"
      /\ Current = calls[l] /\ Current \in CallRecords /\ l \in 1..l
      /\ PlainCall(Current) /\ Keeps
  BY StackFacts DEF Keeps
<1>2. n \in Names /\ n \notin Current.read
  BY DEF Inside
<1>3. /\ k \in CallRecords /\ k.from = Current.from /\ k.to = Current.to /\ k.pc = "next"
      /\ k.read = Current.read \cup {n} /\ k.entries = Current.entries
  BY <1>k, <1>1, <1>2 DEF CallRecords, Steps
<1>4. /\ new.from = Append(Current.from, n) /\ new.to = Append(Current.to, n)
      /\ new.pc = "look" /\ new.read = {} /\ new \in CallRecords
  <2>1. /\ new.from = Append(Current.from, n) /\ new.to = Append(Current.to, n)
        /\ new.pc = "look" /\ new.read = {} /\ new.entries = {}
    BY <1>n DEF Call
  <2> QED BY <1>n, <1>1, <1>2, <2>1 DEF Call, CallRecords, Steps
<1>5. calls' = Append([calls EXCEPT ![l] = k], new) /\ answer' = answer
  BY <1>k, <1>n, <1>1 DEF CopyEntry
<1> HIDE DEF l
<1>6. /\ Len(calls') = l + 1 /\ calls'[l] = k /\ calls'[l + 1] = new
      /\ \A i \in 1..l : i # l => calls'[i] = calls[i]
  <2> DEFINE s == [calls EXCEPT ![l] = k]
  <2>1. /\ s \in Seq(CallRecords) /\ Len(s) = l /\ s[l] = k
        /\ \A i \in 1..l : i # l => s[i] = calls[i]
    BY <1>1, <1>3, ExceptSeq
  <2>2. calls' = Append(s, new)
    BY <1>5
  <2> HIDE DEF s
  <2> QED BY <1>1, <1>4, <2>1, <2>2, AppendProperties
<1>7. /\ was' = was /\ Target' = Target /\ options' = options /\ node' = node
  BY DEF given, disk
<1>8. PlainCall(k)'
  <2>1. PlainCall(k)
    BY <1>1, <1>3 DEF PlainCall
  <2> QED BY <1>7, <2>1, SameCall
<1>9. PlainCall(new)'
  <2> DEFINE x == Current.from
             y == Current.to
             e == Append(x, n)
             d == Append(y, n)
  <2>1. /\ x \in ToCopy /\ x = Source \o Rest(x) /\ y = Target \o Rest(x) /\ Rest(x) \in Seq(Names)
        /\ x \in Seq(Names) /\ IsPrefix(Source, x) /\ Recursive /\ node[y].kind = "dir"
        /\ \A m \in Names : Append(y, m) \in Places /\ Exists(node[Append(y, m)]) => m \in Current.read
        /\ Target \in Seq(Names) /\ Source \in Seq(Names) /\ y \in Seq(Names)
    <3>1. x \in Seq(Names) /\ IsPrefix(Source, x)
      BY <1>1, ImageOf DEF PlainCall, PlainState
    <3>2. Target \in Seq(Names) /\ Source \in Seq(Names) /\ y \in Seq(Names)
      BY <1>1, PlaceAssumption DEF PlainState, Origin, CallRecords
    <3> QED BY <1>1, <3>1, <3>2 DEF PlainCall
  <2>2. e \in Places /\ Exists(was[e])
    BY DEF Inside
  <2> HIDE DEF x, y
  <2>3. e \in Seq(Names) /\ IsPrefix(Source, e) /\ Rest(e) = Append(Rest(x), n)
    BY <1>2, <2>1, RestOfEntry
  <2>4. e = Source \o Rest(e) /\ d = Target \o Rest(e) /\ Rest(e) \in Seq(Names)
    <3>1. PICK w : w = Rest(x)
      OBVIOUS
    <3>2. w \in Seq(Names) /\ x = Source \o w /\ y = Target \o w /\ Rest(e) = Append(w, n)
      BY <2>1, <2>3, <3>1
    <3>3. Append(w, n) \in Seq(Names) /\ Append(Source \o w, n) = Source \o Append(w, n)
      BY <1>2, <2>1, <3>2, AppendOfConcat
    <3>4. Append(Target \o w, n) = Target \o Append(w, n)
      BY <1>2, <2>1, <3>2, AppendOfConcat
    <3> QED BY <3>2, <3>3, <3>4
  <2>5. e \in ToCopy
    BY <2>1, <2>2, <2>3 DEF ToCopy
  <2>6. d \in Places
    BY <2>4, <2>5, ImageOf DEF PlainState
  <2>7. Front(d) = y /\ ~Exists(node[d])
    <3>1. Front(d) = y
      BY <1>2, <2>1, FrontOfAppend
    <3>2. ~Exists(node[d])
      BY <1>2, <2>1, <2>6 DEF x
    <3> QED BY <3>1, <3>2
  <2> HIDE DEF e, d
  <2>8. PlainCall(new)
    <3>1. new.from = e /\ new.to = d /\ new.pc = "look"
      BY <1>4 DEF e, d, x, y
    <3> QED BY <2>1, <2>4, <2>5, <2>6, <2>7, <3>1 DEF PlainCall
  <2> QED BY <1>7, <2>8, SameCall
<1>10. PlainStack'
  <2>1. ASSUME NEW i \in 1..l + 1 PROVE PlainCall(calls[i])'
    <3>1. CASE i \in {l, l + 1}
      BY <1>6, <1>8, <1>9, <3>1
    <3>2. CASE i \notin {l, l + 1}
      <4>1. i \in 1..Len(calls) - 1 /\ calls'[i] = calls[i]
        BY <1>1, <1>6, <3>2
      <4>2. PICK c : c = calls[i]
        OBVIOUS
      <4>3. PlainCall(c)'
        BY <1>1, <4>1, <4>2, OuterKeeps
      <4> QED BY <4>1, <4>2, <4>3
    <3> QED BY <3>1, <3>2
  <2>2. ASSUME NEW i \in 1..l PROVE Copies(i, i + 1)'
    <3>1. CASE i = l
      BY <1>3, <1>4, <1>6, <3>1 DEF Copies
    <3>2. CASE i # l
      <4>1. i \in 1..l /\ i + 1 \in 1..l /\ i \in 1..Len(calls) - 1
        BY <1>1, <3>2
      <4>2. Copies(i, i + 1)
        BY <4>1, StackFacts
      <4>3. calls'[i] = calls[i] /\ calls'[i + 1].from = calls[i + 1].from
            /\ calls'[i + 1].to = calls[i + 1].to
        BY <1>1, <1>3, <1>6, <3>2, <4>1
      <4> QED BY <4>2, <4>3 DEF Copies
    <3> QED BY <3>1, <3>2
  <2>3. calls'[1].from = Source
    <3>1. calls[1].from = Source
      BY DEF PlainState, PlainStack
    <3> QED BY <1>1, <1>3, <1>6, <3>1
  <2>4. \A i \in 1..Len(calls') - 1 : i \in 1..l
    BY <1>1, <1>6
  <2> QED BY <1>6, <2>1, <2>2, <2>3, <2>4 DEF PlainStack
<1> QED BY <1>1, <1>5, <1>10

-----------------------------------------------------------------------------
(* The steps of a plain copy.                                              *)

\* What a call that stays the innermost becomes.
LEMMA Moves ==
    ASSUME PlainState, UNCHANGED given, NEW pc \in Steps, Goto(pc)
    PROVE  \E k \in CallRecords :
              /\ calls' = [calls EXCEPT ![Len(calls)] = k] /\ answer' = answer
              /\ k.from = Current.from /\ k.to = Current.to /\ k.read = Current.read
              /\ k.pc = pc /\ k.entries = Current.entries
<1>1. Current = calls[Len(calls)] /\ Current \in CallRecords /\ Len(calls) \in 1..Len(calls)
  BY StackFacts
<1>2. PICK k : k = [Current EXCEPT !.pc = pc]
  OBVIOUS
<1>3. /\ k \in CallRecords /\ k.from = Current.from /\ k.to = Current.to
      /\ k.read = Current.read /\ k.pc = pc /\ k.entries = Current.entries
  BY <1>1, <1>2 DEF CallRecords
<1>4. calls' = [calls EXCEPT ![Len(calls)] = k] /\ answer' = answer
  BY <1>1, <1>2 DEF Goto
<1> QED BY <1>3, <1>4

\* A file is copied by link() or by copy_file, a directory with its entries.
LEMMA LookPlain ==
    ASSUME PlainState, Look, UNCHANGED given
    PROVE  answer' # "error" /\ PlainStack' /\ PlainDisk'
<1> DEFINE x == Current.from
           y == Current.to
<1>1. /\ PlainCall(Current) /\ Current \in CallRecords /\ Current.pc = "look"
      /\ UNCHANGED disk /\ Keeps
  BY StackFacts DEF Look, Keeps
<1>2. \A follow : /\ x \in Places /\ Stat(x, follow) = was[x] /\ ~TooLong(x) /\ ~TooLong(y)
                  /\ was[x].kind \in {"dir", "file"}
                  /\ Stat(y, follow) = node[y]
  BY <1>1, CallFinds DEF PlainState
<1>3. ~Exists(node[y]) /\ x \in ToCopy
  BY <1>1 DEF PlainCall
<1>4. PICK f, t : f = was[x] /\ t = node[y]
  OBVIOUS
<1>5. ~Exists(t) /\ t.kind = "none" /\ f.kind \in {"dir", "file"} /\ Exists(f) /\ ~Equivalent(f, t)
  BY <1>2, <1>3, <1>4 DEF Exists, Equivalent
<1>6. ~Has("create_symlinks")
  BY DEF PlainState, PlainStart
<1>7. IF \/ TooLong(x) \/ TooLong(y)
         \/ ~Exists(f) \/ f.kind = "other" \/ t.kind = "other"
         \/ f.kind = "dir" /\ t.kind = "file"
         \/ Equivalent(f, t)
         \/ Chosen(f, t) = "fail"
      THEN Fail
      ELSE IF Chosen(f, t) = "return" THEN Return
      ELSE Goto(Chosen(f, t))
  BY <1>2, <1>4 DEF Look
<1> HIDE DEF x, y
<1>8. /\ f.kind = "file" => \/ Has("directories_only") /\ Chosen(f, t) = "return"
                            \/ Chosen(f, t) \in {"create_hard_link", "copy_file"}
      /\ f.kind = "dir" => \/ ~Recursive /\ Chosen(f, t) = "return"
                           \/ Recursive /\ Chosen(f, t) = "create_directory"
  BY <1>5, <1>6 DEF Chosen
<1>9. /\ Chosen(f, t) \in {"return", "create_hard_link", "copy_file", "create_directory"}
      /\ IF Chosen(f, t) = "return" THEN Return ELSE Goto(Chosen(f, t))
  BY <1>2, <1>5, <1>7, <1>8
<1>10. PlainDisk' /\ ToCopy' = ToCopy /\ was' = was /\ options' = options
  BY <1>1, KeepsDisk DEF given
<1>11. ASSUME NEW pc \in {"create_hard_link", "copy_file", "create_directory"},
              Goto(pc), pc = "create_directory" => was[x].kind = "dir" /\ Recursive,
              pc # "create_directory" => was[x].kind = "file"
       PROVE  answer' # "error" /\ PlainStack'
  <2>1. pc \in Steps
    BY DEF Steps
  <2>2. PICK k \in CallRecords :
              /\ calls' = [calls EXCEPT ![Len(calls)] = k] /\ answer' = answer
              /\ k.from = Current.from /\ k.to = Current.to /\ k.read = Current.read
              /\ k.pc = pc /\ k.entries = Current.entries
    BY <1>11, <2>1, Moves
  <2>3. PlainCall(k)
    BY <1>1, <1>3, <1>11, <2>2 DEF PlainCall, x, y
  <2>4. PlainCall(k)'
    BY <1>1, <2>3, SameCall DEF given, disk
  <2> QED BY <1>1, <2>2, <2>4, GoesOn
<1>13. PICK c : c = Chosen(f, t)
  OBVIOUS
<1>14. CASE c = "return"
  <2>1. Return
    BY <1>9, <1>13, <1>14
  <2> QED BY <1>1, <1>10, <2>1, Returns
<1>15. CASE c # "return"
  <2>1. Goto(c) /\ c \in {"create_hard_link", "copy_file", "create_directory"}
    BY <1>9, <1>13, <1>15
  <2>2. /\ c = "create_directory" => was[x].kind = "dir" /\ Recursive
        /\ c # "create_directory" => was[x].kind = "file"
    BY <1>4, <1>5, <1>8, <1>13, <1>15
  <2> QED BY <1>10, <1>11, <2>1, <2>2
<1> QED BY <1>14, <1>15

\* What a step that makes something at the target leaves there.
LEMMA PutGrows ==
    ASSUME PlainState, UNCHANGED given, Current.pc # "look", NEW y, y = Current.to,
           ~Exists(node[y]), NEW n \in Nodes, n.kind \in {"dir", "file"},
           Put(y, n)
    PROVE  Keeps /\ node'[y] = n /\ y \in Places /\ \A p \in Places : p # y => node'[p] = node[p]
<1>1. PlainCall(Current)
  BY StackFacts
<1>2. y \in Places \ {Root} /\ IsPrefix(Target, y)
  BY <1>1, CallFinds DEF PlainState
<1>3. Grows(y, n)
  BY <1>1, <1>2 DEF Grows, PlainCall, Put
<1> QED BY <1>2, <1>3, GrowsDisk DEF Keeps, PlainState

\* The place a plain copy makes something at is free.
LEMMA CanMakeThere ==
    ASSUME PlainState, ~Exists(node[Current.to])
    PROVE  CanMake(Current.to)
<1>1. /\ ~TooLong(Current.to) /\ Walk(node, Current.to, FALSE) = Current.to
      /\ Stat(Current.to, FALSE) = node[Current.to] /\ Current.to \in Places
  BY StackFacts, CallFinds DEF PlainState
<1> QED BY <1>1, PlaceAssumption DEF CanMake

LEMMA HardLinkPlain ==
    ASSUME PlainState, CreateHardLink, UNCHANGED given
    PROVE  answer' # "error" /\ PlainStack' /\ PlainDisk'
<1>1. PICK x, y : x = Current.from /\ y = Current.to
  OBVIOUS
<1>2. /\ PlainCall(Current) /\ Current.pc = "create_hard_link" /\ ~Exists(node[y])
      /\ was[x].kind = "file"
  BY <1>1, StackFacts DEF CreateHardLink, PlainCall
<1>3. /\ Stat(x, FALSE) = was[x] /\ node[x] = was[x] /\ x \in Places
      /\ Walk(node, y, FALSE) = y
  BY <1>1, <1>2, CallFinds DEF PlainState
<1>4. Put(y, was[x]) /\ Return
  <2>1. CanMake(y)
    BY <1>1, <1>2, CanMakeThere
  <2> QED BY <1>1, <1>2, <1>3, <2>1 DEF CreateHardLink, Make
<1>5. was[x] \in Nodes
  BY <1>3 DEF PlainState, Origin, Shaped
<1>6. Keeps
  BY <1>1, <1>2, <1>4, <1>5, PutGrows
<1> QED BY <1>4, <1>6, Returns, KeepsDisk

LEMMA LookedPlain ==
    ASSUME PlainState, LookedAtFiles, UNCHANGED given
    PROVE  answer' # "error" /\ PlainStack' /\ PlainDisk'
<1>1. /\ PlainCall(Current) /\ Current \in CallRecords /\ Current.pc = "copy_file"
      /\ Goto("write_file") /\ UNCHANGED disk /\ Keeps
  BY StackFacts DEF LookedAtFiles, PlainCall, Keeps
<1>2. "write_file" \in Steps
  BY DEF Steps
<1>3. PICK k \in CallRecords :
            /\ calls' = [calls EXCEPT ![Len(calls)] = k] /\ answer' = answer
            /\ k.from = Current.from /\ k.to = Current.to /\ k.read = Current.read
            /\ k.pc = "write_file" /\ k.entries = Current.entries
  BY <1>1, <1>2, Moves
<1>4. PlainCall(k)
  BY <1>1, <1>3 DEF PlainCall
<1>5. PlainCall(k)'
  BY <1>1, <1>4, SameCall DEF given, disk
<1>6. answer' # "error" /\ PlainStack'
  BY <1>1, <1>3, <1>5, GoesOn
<1> QED BY <1>1, <1>6, KeepsDisk

LEMMA FilePlain ==
    ASSUME PlainState, CopyFileWhole, UNCHANGED given
    PROVE  answer' # "error" /\ PlainStack' /\ PlainDisk'
<1>1. PICK x, y : x = Current.from /\ y = Current.to
  OBVIOUS
<1>2. /\ PlainCall(Current) /\ Current.pc \in {"copy_file", "write_file"} /\ ~Exists(node[y])
      /\ was[x].kind = "file" /\ FileTarget = y
  BY <1>1, StackFacts DEF CopyFileWhole, PlainCall, FileTarget
<1>3. /\ Stat(x, FALSE) = was[x] /\ x \in Places /\ y \in Places /\ ~TooLong(y)
      /\ Walk(node, y, TRUE) = y /\ Stat(y, TRUE) = node[y]
  BY <1>1, <1>2, CallFinds DEF PlainState
<1>4. PICK n : n = Node("file", y, Root)
  OBVIOUS
<1>5. Put(y, n) /\ Return
  <2>1. y # Void /\ Offered(y)
    BY <1>1, <1>3, StackFacts, PlaceAssumption DEF PlainCall, Offered
  <2> QED BY <1>1, <1>2, <1>3, <1>4, <2>1 DEF CopyFileWhole
<1>6. n \in Nodes /\ n.kind = "file"
  BY <1>3, <1>4, PlaceAssumption DEF Node, Nodes, Kinds
<1>7. Keeps
  BY <1>1, <1>2, <1>5, <1>6, PutGrows
<1> QED BY <1>5, <1>7, Returns, KeepsDisk

LEMMA DirectoryPlain ==
    ASSUME PlainState, CreateDirectory, UNCHANGED given
    PROVE  answer' # "error" /\ PlainStack' /\ PlainDisk'
<1>1. PICK x, y : x = Current.from /\ y = Current.to
  OBVIOUS
<1>2. /\ PlainCall(Current) /\ Current.pc = "create_directory" /\ ~Exists(node[y])
      /\ was[x].kind = "dir" /\ Recursive
  BY <1>1, StackFacts DEF CreateDirectory, PlainCall
<1>3. /\ Stat(x, TRUE) = was[x] /\ Walk(node, y, FALSE) = y /\ y \in Places \ {Root}
      /\ y \in Seq(Names)
  BY <1>1, <1>2, CallFinds DEF PlainState
<1>4. PICK n : n = Node("dir", y, Root)
  OBVIOUS
<1>5. Put(y, n) /\ Goto("open")
  <2>1. CanMake(y)
    BY <1>1, <1>2, CanMakeThere
  <2> QED BY <1>1, <1>2, <1>3, <1>4, <2>1 DEF CreateDirectory
<1>6. n \in Nodes /\ n.kind = "dir"
  BY <1>3, <1>4, PlaceAssumption DEF Node, Nodes, Kinds
<1>7. Keeps /\ node'[y] = n /\ \A p \in Places : p # y => node'[p] = node[p]
  BY <1>1, <1>2, <1>5, <1>6, PutGrows
<1>8. "open" \in Steps
  BY DEF Steps
<1>9. PICK k \in CallRecords :
              /\ calls' = [calls EXCEPT ![Len(calls)] = k] /\ answer' = answer
              /\ k.from = Current.from /\ k.to = Current.to /\ k.read = Current.read
              /\ k.pc = "open" /\ k.entries = Current.entries
  BY <1>5, <1>8, Moves
<1>10. was' = was /\ Target' = Target /\ options' = options /\ ToCopy' = ToCopy
       /\ Rest(x)' = Rest(x) /\ Recursive'
  BY <1>2, <1>7, KeepsDisk DEF given, Rest, Recursive, Has
<1>11. node'[Front(y)].kind = "dir"
  <2>1. node[Front(y)].kind = "dir" /\ Front(y) \in Places
    BY <1>1, <1>2, <1>3, PlaceAssumption DEF PlainCall
  <2>2. Front(y) # y
    BY <1>2, <2>1 DEF Exists
  <2> QED BY <1>7, <2>1, <2>2
<1>12. ASSUME NEW e \in Names, Append(y, e) \in Places, Exists(node'[Append(y, e)]) PROVE FALSE
  <2>1. Append(y, e) \in Places \ {Root} /\ Front(Append(y, e)) = y /\ Append(y, e) # y
    <3>1. Len(Append(y, e)) = Len(y) + 1 /\ Len(y) \in Nat
      BY <1>3
    <3>2. Append(y, e) # y /\ Append(y, e) # Root
      BY <1>12, <3>1, EmptySeq DEF Root
    <3> QED BY <1>3, <1>12, <3>2, FrontOfAppend
  <2>2. Exists(node[Append(y, e)])
    BY <1>7, <1>12, <2>1
  <2>3. node[y].kind = "dir"
    BY <2>1, <2>2 DEF PlainState, PlainDisk, Between, Shaped
  <2> QED BY <1>2, <2>3 DEF Exists
<1>13. PlainCall(k)'
  <2>1. node'[y].kind = "dir"
    BY <1>6, <1>7
  <2>2. /\ Rest(x) \in Seq(Names) /\ x = Source \o Rest(x) /\ y = Target \o Rest(x) /\ x \in ToCopy
    BY <1>1, <1>2 DEF PlainCall
  <2>3. k.from = x /\ k.to = y /\ k.pc = "open"
    BY <1>1, <1>9
  <2> QED BY <1>2, <1>3, <1>10, <1>11, <1>12, <2>1, <2>2, <2>3 DEF PlainCall
<1> QED BY <1>7, <1>9, <1>13, GoesOn, KeepsDisk

LEMMA OpenPlain ==
    ASSUME PlainState, OpenDirectory, UNCHANGED given
    PROVE  answer' # "error" /\ PlainStack' /\ PlainDisk'
<1>1. /\ PlainCall(Current) /\ Current.pc = "open" /\ Current \in CallRecords /\ Keeps
      /\ was[Current.from].kind = "dir" /\ UNCHANGED disk
      /\ Current = calls[Len(calls)] /\ Len(calls) \in 1..Len(calls)
  BY StackFacts DEF OpenDirectory, Keeps, PlainCall
<1>2. Stat(Current.from, TRUE).kind = "dir" /\ Listed(Current.from) = Inside(Current.from)
  BY <1>1, CallFinds, CallLists DEF PlainState
<1>3. PICK k : k = [Current EXCEPT !.pc = "first", !.entries = Inside(Current.from)]
  OBVIOUS
<1>4. /\ k \in CallRecords /\ k.from = Current.from /\ k.to = Current.to
      /\ k.read = Current.read /\ k.pc = "first" /\ k.entries = Inside(Current.from)
  <2>1. Inside(Current.from) \subseteq Names
    BY DEF Inside
  <2> QED BY <1>1, <1>3, <2>1 DEF CallRecords, Steps
<1>5. calls' = [calls EXCEPT ![Len(calls)] = k] /\ answer' = answer
  BY <1>1, <1>2, <1>3 DEF OpenDirectory, Opened
<1>6. PlainCall(k)
  BY <1>1, <1>4 DEF PlainCall
<1>7. PlainCall(k)'
  BY <1>1, <1>6, SameCall DEF given, disk
<1> QED BY <1>1, <1>4, <1>5, <1>7, GoesOn, KeepsDisk

\* The next entry is copied, or the directory is done.
LEMMA ReadPlain ==
    ASSUME PlainState, ReadNext, UNCHANGED given, unread' = FALSE
    PROVE  answer' # "error" /\ PlainStack' /\ PlainDisk'
<1>1. PICK x : x = Current.from
  OBVIOUS
<1>2. /\ PlainCall(Current) /\ Current.pc \in {"first", "next"} /\ Keeps /\ UNCHANGED disk
      /\ Current = calls[Len(calls)] /\ Len(calls) \in 1..Len(calls) /\ Len(calls) \in Nat
      /\ x \in ToCopy
  BY <1>1, StackFacts DEF ReadNext, Keeps, PlainCall
<1>3. Current.entries = Inside(x) /\ Listed(x) = Inside(x)
  BY <1>1, <1>2, CallLists DEF PlainCall, PlainState
<1>4. ASSUME NEW n \in Unread, CopyEntry(n)
      PROVE  answer' # "error" /\ PlainStack'
  <2>1. n \in Inside(Current.from) \ Current.read
    BY <1>1, <1>3 DEF Unread
  <2> QED BY <1>2, <1>4, <2>1, Enters
<1>5. ASSUME AtEnd, Return
      PROVE  answer' # "error" /\ PlainStack'
  BY <1>2, <1>5, Returns
<1> QED BY <1>2, <1>4, <1>5, KeepsDisk DEF ReadNext

-----------------------------------------------------------------------------
(* The invariant.                                                          *)

LEMMA PlainInitially == Init => PlainInv
<1> SUFFICES ASSUME Init PROVE PlainInv
  OBVIOUS
<1>1. PICK s \in Starts : node = s.tree /\ Target = s.target
  BY DEF Init
<1>2. was = node /\ Target \in Seq(Names) /\ Source \in Seq(Names) /\ Source \in Places
  BY <1>1, PlaceAssumption, TreeAssumption DEF Init
<1>3. Origin
  BY <1>1, <1>2, TreeAssumption DEF Origin, Shaped, Exists
<1> SUFFICES ASSUME Plain PROVE answer # "error" /\ PlainDisk /\ PlainStack
  BY <1>3 DEF PlainInv
<1>4. PlainStart
  BY DEF Plain
<1>5. /\ Target \in Places \ {Root}
      /\ \A p \in Places : IsPrefix(Target, p) => ~Exists(was[p])
  BY <1>2, <1>3, <1>4, FreeTarget DEF Origin
<1>6. PlainDisk
  BY <1>2, <1>3, <1>5 DEF PlainDisk, Between, Origin, Exists
<1>7. PICK k : k = Call(Source, Target)
  OBVIOUS
<1>8. calls = <<k>> /\ Len(calls) = 1 /\ calls[1] = k /\ answer = "none"
      /\ k.from = Source /\ k.to = Target /\ k.pc = "look" /\ k.read = {}
  BY <1>7 DEF Init, Call
<1>9. PlainCall(k)
  <2>1. Rest(Source) = <<>> /\ <<>> \in Seq(Names) /\ Source = Source \o <<>> /\ Target = Target \o <<>>
    BY <1>2, SubSeqEmpty, ConcatEmptySeq DEF Rest
  <2>2. Source \in ToCopy
    <3>1. IsPrefix(Source, Source)
      BY <1>2, PrefixIs, PreEnds
    <3> QED BY <1>2, <1>4, <3>1 DEF ToCopy, PlainStart
  <2>3. Target \in Places /\ node[Front(Target)].kind = "dir" /\ ~Exists(node[Target])
    BY <1>2, <1>4 DEF PlainStart, HasRoom
  <2> QED BY <1>8, <2>1, <2>2, <2>3 DEF PlainCall
<1>10. PlainStack
  BY <1>8, <1>9 DEF PlainStack
<1> QED BY <1>6, <1>8, <1>10

LEMMA PlainStep == Inv /\ Fresh /\ PlainInv /\ [Next]_vars => PlainInv'
<1> SUFFICES ASSUME Inv, Fresh, PlainInv, [Next]_vars PROVE PlainInv'
  OBVIOUS
<1>1. CASE UNCHANGED vars
  <2>1. /\ was' = was /\ Target' = Target /\ options' = options /\ node' = node /\ data' = data
        /\ calls' = calls /\ answer' = answer /\ unread' = unread /\ others' = others
    BY <1>1 DEF vars, disk, given
  <2>2. Origin' /\ (Plain' <=> Plain)
    BY <2>1 DEF PlainInv, Origin, Shaped, Plain, PlainStart, HasRoom, Has, IsWithin, Exists
  <2>3. PlainDisk => PlainDisk'
    BY <2>1 DEF PlainDisk, Between, Shaped, Exists
  <2>4. PlainStack => PlainStack'
    <3>1. \A k : PlainCall(k) => PlainCall(k)'
      BY <2>1, SameCall
    <3>2. \A i, j : Copies(i, j) => Copies(i, j)'
      BY <2>1 DEF Copies
    <3> QED BY <2>1, <3>1, <3>2 DEF PlainStack
  <2> QED BY <2>1, <2>2, <2>3, <2>4 DEF PlainInv
<1>2. CASE Step
  <2>1. calls # <<>> /\ UNCHANGED given /\ others' = others
    BY <1>2 DEF Step
  <2>2. Origin /\ Origin' /\ (PlainStart' <=> PlainStart)
    BY <2>1 DEF PlainInv, given, Origin, Shaped, PlainStart, HasRoom, Has, IsWithin, Exists
  <2> SUFFICES ASSUME Plain' PROVE answer' # "error" /\ PlainDisk' /\ PlainStack'
    BY <2>2 DEF PlainInv
  <2>3. unread' = FALSE /\ unread = FALSE
    <3>1. unread' = FALSE
      BY DEF Plain, Inv
    <3> QED BY <1>2, <3>1 DEF Step, Look, CopySymlink, CreateSymlink, CreateHardLink, LookAtFiles,
                 WriteFile, CreateDirectory, OpenDirectory, ReadNext, CopyEntry, Inv
  <2>4. PlainState
    BY <2>1, <2>2, <2>3 DEF PlainState, PlainInv, Plain
  <2>5. ~CopySymlink /\ ~CreateSymlink
    BY <2>4, StackFacts DEF CopySymlink, CreateSymlink, PlainCall
  <2>6. QuietStep
    BY <1>2, <2>1, StepsAreQuiet DEF Plain
  <2> QED BY <2>1, <2>3, <2>4, <2>5, <2>6, LookPlain, HardLinkPlain, LookedPlain, FilePlain,
             DirectoryPlain, OpenPlain, ReadPlain DEF QuietStep
<1>3. ASSUME NEW p \in Places, OtherRemoves(p) \/ OtherMakes(p) PROVE PlainInv'
  <2>1. UNCHANGED given /\ others' = others + 1 /\ others \in Nat
    BY <1>3, PlaceAssumption DEF OtherRemoves, OtherMakes, Disturb, Inv
  <2>2. Origin'
    BY <2>1 DEF PlainInv, given, Origin, Shaped, Exists
  <2>3. ~Plain'
    BY <2>1 DEF Plain
  <2> QED BY <2>2, <2>3 DEF PlainInv
<1> QED BY <1>1, <1>2, <1>3 DEF Next

LEMMA PlainInvariance == Spec => []PlainInv
<1> DEFINE J == Inv /\ Fresh /\ PlainInv
<1>1. Init => J
  BY InitInv, FreshInit, PlainInitially
<1>2. J /\ [Next]_vars => J'
  BY NextInv, FreshNext, PlainStep
<1>3. J => PlainInv
  OBVIOUS
<1> HIDE DEF J
<1> QED BY <1>1, <1>2, <1>3, PTL DEF Spec

\* The copy of any tree of files and directories to a name that is free, with
\* room for every image, reports no error when readdir() does not fail and no
\* other program interferes.
THEOREM PlainCopiesSucceed == Spec => []PlainCopySucceeds
<1>1. PlainInv => PlainCopySucceeds
  BY DEF PlainInv, PlainCopySucceeds
<1> QED BY <1>1, PlainInvariance, PTL

-----------------------------------------------------------------------------
(* What is within what.                                                    *)

LEMMA PrefixItems ==
    ASSUME NEW s \in Seq(Names), NEW t \in Seq(Names)
    PROVE  IsPrefix(s, t) <=> Len(s) <= Len(t) /\ \A i \in 1..Len(s) : t[i] = s[i]
<1>1. Len(s) \in Nat /\ Len(t) \in Nat /\ (IsPrefix(s, t) <=> Len(s) <= Len(t) /\ Pre(t, Len(s)) = s)
  BY PrefixIs
<1>2. CASE Len(s) <= Len(t)
  <2>1. Len(s) \in 0..Len(t)
    BY <1>1, <1>2
  <2>2. /\ Pre(t, Len(s)) \in Seq(Names) /\ Len(Pre(t, Len(s))) = Len(s)
        /\ \A i \in 1..Len(s) : Pre(t, Len(s))[i] = t[i]
    BY <2>1, PreType
  <2>3. Pre(t, Len(s)) = s <=> \A i \in 1..Len(s) : t[i] = s[i]
    BY <2>2, SeqEqual
  <2> QED BY <1>1, <1>2, <2>3
<1> QED BY <1>1, <1>2

LEMMA PrefixOfSelf ==
    ASSUME NEW s \in Seq(Names)
    PROVE  IsPrefix(s, s) /\ IsPrefix(<<>>, s)
<1>1. PICK e : e = <<>>
  OBVIOUS
<1>2. e \in Seq(Names) /\ Len(e) = 0
  BY <1>1
<1>3. IsPrefix(e, s)
  <2>1. Len(e) <= Len(s) /\ \A i \in 1..Len(e) : s[i] = e[i]
    BY <1>2
  <2> QED BY <1>2, <2>1, PrefixItems
<1>4. IsPrefix(s, s)
  <2>1. Len(s) <= Len(s)
    OBVIOUS
  <2> QED BY <2>1, PrefixItems
<1> QED BY <1>1, <1>3, <1>4

LEMMA PrefixOfAppend ==
    ASSUME NEW s \in Seq(Names), NEW t \in Seq(Names), NEW n \in Names
    PROVE  /\ Append(t, n) \in Seq(Names)
           /\ IsPrefix(t, Append(t, n)) /\ ~IsPrefix(Append(t, n), t)
           /\ IsPrefix(s, Append(t, n)) <=> (IsPrefix(s, t) \/ s = Append(t, n))
<1>1. PICK a : a = Append(t, n)
  OBVIOUS
<1>2. Len(t) \in Nat /\ Len(s) \in Nat
  OBVIOUS
<1>3. a \in Seq(Names) /\ Len(a) = Len(t) + 1 /\ \A i \in 1..Len(t) : a[i] = t[i]
  BY <1>1, AppendProperties
<1>4. IsPrefix(t, a) /\ ~IsPrefix(a, t)
  BY <1>2, <1>3, PrefixItems
<1>5. ASSUME IsPrefix(s, t) PROVE IsPrefix(s, a)
  <2>1. Len(s) <= Len(t) /\ \A i \in 1..Len(s) : t[i] = s[i]
    BY <1>5, PrefixItems
  <2>2. Len(s) <= Len(a) /\ \A i \in 1..Len(s) : i \in 1..Len(t)
    BY <1>2, <1>3, <2>1
  <2>3. \A i \in 1..Len(s) : a[i] = s[i]
    BY <1>3, <2>1, <2>2
  <2> QED BY <1>3, <2>2, <2>3, PrefixItems
<1>6. IsPrefix(a, a)
  BY <1>3, PrefixOfSelf
<1>7. ASSUME IsPrefix(s, a), ~IsPrefix(s, t) PROVE s = a
  <2>1. Len(s) <= Len(a) /\ \A i \in 1..Len(s) : a[i] = s[i]
    BY <1>3, <1>7, PrefixItems
  <2>2. ASSUME Len(s) <= Len(t) PROVE FALSE
    <3>1. \A i \in 1..Len(s) : i \in 1..Len(t)
      BY <1>2, <2>2
    <3>2. \A i \in 1..Len(s) : t[i] = s[i]
      BY <1>3, <2>1, <3>1
    <3> QED BY <1>7, <2>2, <3>2, PrefixItems
  <2>3. Len(s) = Len(a)
    BY <1>2, <1>3, <2>1, <2>2
  <2> QED BY <1>3, <2>1, <2>3, SeqEqual
<1>8. IsPrefix(s, a) <=> (IsPrefix(s, t) \/ s = a)
  BY <1>5, <1>6, <1>7
<1> QED BY <1>1, <1>3, <1>4, <1>8

LEMMA PrefixOfPrefix ==
    ASSUME NEW s \in Seq(Names), NEW t \in Seq(Names), NEW u \in Seq(Names), IsPrefix(t, u)
    PROVE  /\ IsPrefix(s, t) => IsPrefix(s, u)
           /\ IsPrefix(s, u) => IsPrefix(s, t) \/ IsPrefix(t, s)
           /\ IsPrefix(s, u) /\ Len(s) <= Len(t) => IsPrefix(s, t)
           /\ IsPrefix(s, u) /\ Len(s) = Len(t) => s = t
<1>1. Len(s) \in Nat /\ Len(t) \in Nat /\ Len(u) \in Nat
  OBVIOUS
<1>2. Len(t) <= Len(u) /\ \A i \in 1..Len(t) : u[i] = t[i]
  BY PrefixItems
<1>3. ASSUME IsPrefix(s, t) PROVE IsPrefix(s, u)
  <2>1. Len(s) <= Len(t) /\ \A i \in 1..Len(s) : t[i] = s[i]
    BY <1>3, PrefixItems
  <2>2. \A i \in 1..Len(s) : i \in 1..Len(t)
    BY <1>1, <2>1
  <2> QED BY <1>1, <1>2, <2>1, <2>2, PrefixItems
<1>4. ASSUME IsPrefix(s, u), Len(s) <= Len(t) PROVE IsPrefix(s, t)
  <2>1. \A i \in 1..Len(s) : u[i] = s[i] /\ i \in 1..Len(t)
    BY <1>1, <1>4, PrefixItems
  <2>2. \A i \in 1..Len(s) : t[i] = s[i]
    BY <1>2, <2>1
  <2> QED BY <1>4, <2>2, PrefixItems
<1>5. ASSUME IsPrefix(s, u), Len(t) <= Len(s) PROVE IsPrefix(t, s)
  <2>1. /\ \A i \in 1..Len(s) : u[i] = s[i]
        /\ \A i \in 1..Len(t) : i \in 1..Len(s)
    BY <1>1, <1>5, PrefixItems
  <2>2. \A i \in 1..Len(t) : s[i] = t[i]
    BY <1>2, <2>1
  <2> QED BY <1>5, <2>2, PrefixItems
<1>6. ASSUME IsPrefix(s, u), Len(s) = Len(t) PROVE s = t
  <2>1. IsPrefix(s, t)
    BY <1>1, <1>4, <1>6
  <2>2. \A i \in 1..Len(s) : t[i] = s[i]
    BY <2>1, PrefixItems
  <2> QED BY <1>6, <2>2, SeqEqual
<1> QED BY <1>1, <1>3, <1>4, <1>5, <1>6

\* Two entries of a directory have nothing in common.
LEMMA TwoEntries ==
    ASSUME NEW t \in Seq(Names), NEW m \in Names, NEW n \in Names, NEW u \in Seq(Names),
           IsPrefix(Append(t, m), u), IsPrefix(Append(t, n), u)
    PROVE  m = n
<1>1. /\ Append(t, m) \in Seq(Names) /\ Len(Append(t, m)) = Len(t) + 1
      /\ Append(t, n) \in Seq(Names) /\ Len(Append(t, n)) = Len(t) + 1
  OBVIOUS
<1> DEFINE a == Append(t, m)
           b == Append(t, n)
<1>2. a \in Seq(Names) /\ b \in Seq(Names) /\ Len(a) = Len(b) /\ IsPrefix(a, u) /\ IsPrefix(b, u)
  BY <1>1
<1> HIDE DEF a, b
<1>3. a = b
  BY <1>2, PrefixOfPrefix
<1> QED BY <1>3, AppendInjective DEF a, b

\* The same is within the same.
LEMMA PrefixOfConcats ==
    ASSUME NEW s \in Seq(Names), NEW v \in Seq(Names), NEW w \in Seq(Names)
    PROVE  IsPrefix(s \o v, s \o w) <=> IsPrefix(v, w)
<1> DEFINE a == s \o v
           b == s \o w
           l == Len(s)
<1>1. l \in Nat /\ Len(v) \in Nat /\ Len(w) \in Nat
  OBVIOUS
<1>2. /\ a \in Seq(Names) /\ Len(a) = l + Len(v)
      /\ \A i \in 1..l + Len(v) : a[i] = IF i <= l THEN s[i] ELSE v[i - l]
      /\ b \in Seq(Names) /\ Len(b) = l + Len(w)
      /\ \A i \in 1..l + Len(w) : b[i] = IF i <= l THEN s[i] ELSE w[i - l]
  BY ConcatProperties
<1> HIDE DEF a, b, l
<1>3. ASSUME IsPrefix(a, b) PROVE IsPrefix(v, w)
  <2>1. Len(a) <= Len(b) /\ \A i \in 1..Len(a) : b[i] = a[i]
    BY <1>2, <1>3, PrefixItems
  <2>2. Len(v) <= Len(w)
    BY <1>1, <1>2, <2>1
  <2>3. ASSUME NEW i \in 1..Len(v) PROVE w[i] = v[i]
    <3>1. PICK j : j = l + i
      OBVIOUS
    <3>2. j \in 1..Len(a) /\ j \in 1..l + Len(v) /\ j \in 1..l + Len(w) /\ ~(j <= l) /\ j - l = i
      BY <1>1, <1>2, <2>2, <3>1
    <3>3. b[j] = a[j] /\ a[j] = v[j - l] /\ b[j] = w[j - l]
      BY <1>2, <2>1, <3>2
    <3> QED BY <3>2, <3>3
  <2> QED BY <2>2, <2>3, PrefixItems
<1>4. ASSUME IsPrefix(v, w) PROVE IsPrefix(a, b)
  <2>1. Len(v) <= Len(w) /\ \A i \in 1..Len(v) : w[i] = v[i]
    BY <1>4, PrefixItems
  <2>2. Len(a) <= Len(b)
    BY <1>1, <1>2, <2>1
  <2>3. ASSUME NEW i \in 1..Len(a) PROVE b[i] = a[i]
    <3>1. i \in 1..l + Len(v) /\ i \in 1..l + Len(w) /\ (~(i <= l) => i - l \in 1..Len(v))
      BY <1>1, <1>2, <2>1
    <3>2. /\ a[i] = IF i <= l THEN s[i] ELSE v[i - l]
          /\ b[i] = IF i <= l THEN s[i] ELSE w[i - l]
      BY <1>2, <3>1
    <3> QED BY <2>1, <3>1, <3>2
  <2> QED BY <1>2, <2>2, <2>3, PrefixItems
<1> QED BY <1>3, <1>4 DEF a, b

-----------------------------------------------------------------------------
(* The stack.                                                              *)

\* The names a call has come to from the source, and so from the target.
At(k) == Rest(k.from)

\* Call j is below an entry that call i has read.
Leads(i, j) == \E m \in calls[i].read : IsPrefix(Append(At(calls[i]), m), At(calls[j]))

StackInv ==
    \A i \in 1..Len(calls) :
        /\ IsPrefix(Source, calls[i].from)
        /\ \A j \in 1..Len(calls) : i < j => Leads(i, j)

\* The innermost call goes on, or has read the entry n and calls the copy of it.
Turns(k) ==
    /\ k \in CallRecords
    /\ k.from = Current.from /\ k.to = Current.to /\ k.read = Current.read
    /\ calls' = [calls EXCEPT ![Len(calls)] = k] /\ answer' = answer

Reads(n) ==
    /\ Current.pc \in {"first", "next"} /\ UNCHANGED disk
    /\ n \in Unread /\ CopyEntry(n)

\* What the two innermost calls are then.
Entered(n) ==
    LET k == calls'[Len(calls)]
        new == calls'[Len(calls) + 1]
    IN  /\ k \in CallRecords /\ new \in CallRecords
        /\ k.from = Current.from /\ k.to = Current.to /\ k.pc = "next"
        /\ k.entries = Current.entries /\ k.read = Current.read \cup {n}
        /\ new.from = Append(Current.from, n) /\ new.to = Append(Current.to, n)
        /\ new.pc = "look" /\ new.read = {} /\ answer' = answer

LEMMA StackStep ==
    ASSUME Inv, Step \/ QuietStep
    PROVE  Fail \/ Return \/ (\E k : Turns(k)) \/ (\E n \in Names : Reads(n))
<1>1. calls # <<>> /\ Current \in CallRecords /\ Current = calls[Len(calls)]
      /\ Len(calls) \in 1..Len(calls)
  BY CurrentType DEF Step, QuietStep
<1>2. ASSUME NEW pc \in Steps, Goto(pc) PROVE \E k : Turns(k)
  <2>1. PICK k : k = [Current EXCEPT !.pc = pc]
    OBVIOUS
  <2>2. k \in CallRecords /\ k.from = Current.from /\ k.to = Current.to /\ k.read = Current.read
    BY <1>1, <2>1 DEF CallRecords
  <2>3. calls' = [calls EXCEPT ![Len(calls)] = k] /\ answer' = answer
    BY <1>1, <1>2, <2>1 DEF Goto
  <2> QED BY <2>2, <2>3 DEF Turns
<1>3. CASE Look
  <2>1. CASE Fail \/ Return
    BY <2>1
  <2>2. CASE ~(Fail \/ Return)
    <3>1. PICK f, t : Chosen(f, t) \notin {"fail", "return"} /\ Goto(Chosen(f, t))
      BY <1>3, <2>2 DEF Look
    <3>2. Chosen(f, t) \in Steps
      BY <1>1, <3>1, ChosenOK
    <3> QED BY <1>2, <3>1, <3>2
  <2> QED BY <2>1, <2>2
<1>4. CASE CopySymlink \/ CreateSymlink \/ CreateHardLink
  BY <1>4 DEF CopySymlink, CreateSymlink, CreateHardLink, Make
<1>5. CASE CopyFileWhole \/ WriteFile
  BY <1>5 DEF CopyFileWhole, WriteFile
<1>9. CASE LookedAtFiles \/ LookAtFiles
  <2>1. Fail \/ Return \/ Goto("write_file") \/ Goto("write_file_into")
    BY <1>9 DEF LookedAtFiles, LookAtFiles, Opens
  <2>2. "write_file" \in Steps /\ "write_file_into" \in Steps
    BY DEF Steps
  <2> QED BY <1>2, <2>1, <2>2
<1>6. CASE CreateDirectory
  <2>1. "open" \in Steps
    BY DEF Steps
  <2>2. Fail \/ Goto("open")
    BY <1>6 DEF CreateDirectory
  <2> QED BY <1>2, <2>1, <2>2
<1>7. CASE OpenDirectory
  <2>1. CASE Fail
    BY <2>1
  <2>2. CASE Opened("first")
    <3>1. PICK k : k = [Current EXCEPT !.pc = "first", !.entries = Listed(Current.from)]
      OBVIOUS
    <3>2. Listed(Current.from) \subseteq Names
      BY DEF Listed
    <3>3. k \in CallRecords /\ k.from = Current.from /\ k.to = Current.to /\ k.read = Current.read
      BY <1>1, <3>1, <3>2 DEF CallRecords, Steps
    <3>4. calls' = [calls EXCEPT ![Len(calls)] = k] /\ answer' = answer
      BY <1>1, <2>2, <3>1 DEF Opened
    <3> QED BY <3>3, <3>4 DEF Turns
  <2> QED BY <1>7, <2>1, <2>2 DEF OpenDirectory
<1>8. CASE ReadNext
  <2>1. Unread \subseteq Names
    BY <1>1 DEF Unread, Listed, CallRecords
  <2> QED BY <1>8, <2>1 DEF ReadNext, Reads
<1> QED BY <1>3, <1>4, <1>5, <1>6, <1>7, <1>8, <1>9 DEF Step, QuietStep

\* What is on the stack after a step.
LEMMA NextCalls ==
    ASSUME Inv, Step \/ QuietStep, NEW l, l = Len(calls)
    PROVE  /\ l \in Nat \ {0} /\ Current = calls[l] /\ Current \in CallRecords
           /\ calls \in Seq(CallRecords) /\ calls' \in Seq(CallRecords) /\ Len(calls') \in 0..l + 1
           /\ \A i \in 1..Len(calls') : i < l => calls'[i] = calls[i]
           /\ Len(calls') >= l =>
                 /\ calls'[l].from = Current.from /\ calls'[l].to = Current.to
                 /\ Current.read \subseteq calls'[l].read
           /\ Len(calls') = l => Turns(calls'[l])
           /\ Len(calls') = l + 1 =>
                 \E n \in Names : Reads(n) /\ Entered(n)
           /\ Len(calls') < l => Fail \/ (Return /\ Len(calls') = l - 1)
<1>1. calls # <<>> /\ Current \in CallRecords /\ Current = calls[l]
      /\ l \in Nat \ {0} /\ calls \in Seq(CallRecords)
  BY CurrentType DEF Step, QuietStep
<1>2. CASE Fail
  <2>1. calls' = <<>> /\ Len(<<>>) = 0 /\ <<>> \in Seq(CallRecords)
    BY <1>2 DEF Fail
  <2>2. calls' \in Seq(CallRecords) /\ Len(calls') = 0
    BY <2>1
  <2>3. /\ Len(calls') \in 0..l + 1 /\ ~(Len(calls') >= l) /\ Len(calls') # l /\ Len(calls') # l + 1
        /\ \A i \in 1..Len(calls') : i < l => calls'[i] = calls[i]
    BY <1>1, <2>2
  <2> QED BY <1>1, <1>2, <2>2, <2>3
<1>3. CASE Return
  <2>1. /\ calls' \in Seq(CallRecords) /\ Len(calls') = l - 1
        /\ \A i \in 1..l - 1 : calls'[i] = calls[i]
    BY <1>1, <1>3, FrontIs DEF Return
  <2>2. /\ Len(calls') \in 0..l + 1 /\ ~(Len(calls') >= l) /\ Len(calls') # l /\ Len(calls') # l + 1
        /\ \A i \in 1..Len(calls') : i < l => calls'[i] = calls[i]
    BY <1>1, <2>1
  <2> QED BY <1>1, <1>3, <2>1, <2>2
<1>4. ASSUME NEW k, Turns(k)
      PROVE  /\ calls' \in Seq(CallRecords) /\ Len(calls') = l /\ calls'[l] = k
             /\ \A i \in 1..l : i < l => calls'[i] = calls[i]
  <2>1. k \in CallRecords /\ calls' = [calls EXCEPT ![l] = k] /\ l \in 1..l
    BY <1>1, <1>4 DEF Turns
  <2>2. \A i \in 1..l : i < l => i # l
    BY <1>1
  <2> QED BY <1>1, <2>1, <2>2, ExceptSeq
<1>5. CASE \E k : Turns(k)
  <2>1. PICK k : Turns(k)
    BY <1>5
  <2>2. /\ calls' \in Seq(CallRecords) /\ Len(calls') = l /\ calls'[l] = k
        /\ \A i \in 1..l : i < l => calls'[i] = calls[i]
    BY <1>4, <2>1
  <2>3. k.from = Current.from /\ k.to = Current.to /\ Current.read \subseteq k.read
    BY <2>1 DEF Turns
  <2>4. /\ Len(calls') \in 0..l + 1 /\ Len(calls') # l + 1 /\ ~(Len(calls') < l)
        /\ \A i \in 1..Len(calls') : i < l => calls'[i] = calls[i]
    BY <1>1, <2>2
  <2> QED BY <1>1, <2>1, <2>2, <2>3, <2>4
<1>6. ASSUME NEW n \in Names, Reads(n)
      PROVE  /\ calls' \in Seq(CallRecords) /\ Len(calls') = l + 1 /\ Entered(n)
             /\ \A i \in 1..l : i < l => calls'[i] = calls[i]
  <2>1. PICK k, new : /\ k = [Current EXCEPT !.pc = "next", !.read = @ \cup {n}]
                      /\ new = Call(Append(Current.from, n), Append(Current.to, n))
    OBVIOUS
  <2>2. k \in CallRecords /\ new \in CallRecords
    <3>1. Append(Current.from, n) \in Seq(Names) /\ Append(Current.to, n) \in Seq(Names)
      BY <1>1 DEF CallRecords
    <3>2. new \in CallRecords
      BY <2>1, <3>1 DEF Call, CallRecords, Steps
    <3> QED BY <1>1, <2>1, <3>2 DEF CallRecords, Steps
  <2>3. calls' = Append([calls EXCEPT ![l] = k], new) /\ answer' = answer
    BY <1>1, <1>6, <2>1 DEF Reads, CopyEntry
  <2> DEFINE s == [calls EXCEPT ![l] = k]
  <2>4. /\ s \in Seq(CallRecords) /\ Len(s) = l /\ s[l] = k
        /\ \A i \in 1..l : i # l => s[i] = calls[i]
    <3>1. l \in 1..l
      BY <1>1
    <3> QED BY <1>1, <2>2, <3>1, ExceptSeq
  <2>5. calls' = Append(s, new)
    BY <2>3
  <2> HIDE DEF s
  <2>6. /\ calls' \in Seq(CallRecords) /\ Len(calls') = l + 1 /\ calls'[l + 1] = new
        /\ \A i \in 1..l : calls'[i] = s[i]
    BY <2>2, <2>4, <2>5, AppendProperties
  <2>7. \A i \in 1..l : i < l => i # l
    BY <1>1
  <2>8. l \in 1..l
    BY <1>1
  <2>9. /\ k.from = Current.from /\ k.to = Current.to /\ k.pc = "next"
        /\ k.entries = Current.entries /\ k.read = Current.read \cup {n}
        /\ new.from = Append(Current.from, n) /\ new.to = Append(Current.to, n)
        /\ new.pc = "look" /\ new.read = {}
    BY <1>1, <2>1 DEF CallRecords, Call
  <2>10. calls'[l] = k /\ \A i \in 1..l : i < l => calls'[i] = calls[i]
    BY <2>4, <2>6, <2>7, <2>8
  <2> QED BY <2>2, <2>3, <2>6, <2>9, <2>10 DEF Entered
<1>7. CASE \E n \in Names : Reads(n)
  <2>1. PICK n \in Names : Reads(n)
    BY <1>7
  <2>2. /\ calls' \in Seq(CallRecords) /\ Len(calls') = l + 1 /\ Entered(n)
        /\ \A i \in 1..l : i < l => calls'[i] = calls[i]
    BY <1>6, <2>1
  <2>3. /\ calls'[l].from = Current.from /\ calls'[l].to = Current.to
        /\ Current.read \subseteq calls'[l].read
    BY <2>2 DEF Entered
  <2>4. \A i \in 1..l + 1 : i < l => i \in 1..l
    BY <1>1
  <2>5. Len(calls') \in 0..l + 1 /\ ~(Len(calls') = l) /\ ~(Len(calls') < l)
    BY <1>1, <2>2
  <2> QED BY <1>1, <2>1, <2>2, <2>3, <2>4, <2>5
<1> QED BY <1>2, <1>3, <1>5, <1>7, StackStep

\* What a call copies, and to where.
LEMMA AtIs ==
    ASSUME Inv, StackInv, NEW i \in 1..Len(calls)
    PROVE  /\ calls[i] \in CallRecords /\ calls[i].from \in Seq(Names) /\ calls[i].to \in Seq(Names)
           /\ At(calls[i]) \in Seq(Names) /\ Len(At(calls[i])) = i - 1
           /\ calls[i].from = Source \o At(calls[i]) /\ calls[i].to = Target \o At(calls[i])
           /\ IsPrefix(Source, calls[i].from) /\ IsPrefix(Target, calls[i].to)
<1>1. PICK k : k = calls[i]
  OBVIOUS
<1>2. k \in CallRecords /\ MirrorAt(calls, i) /\ Target \in Seq(Names) /\ Source \in Seq(Names)
  BY <1>1, PlaceAssumption DEF Inv, CallsOK, Stacked
<1>3. k.from \in Seq(Names) /\ k.to \in Seq(Names) /\ IsPrefix(Source, k.from)
  BY <1>1, <1>2 DEF CallRecords, StackInv
<1>4. k.to = Target \o Rest(k.from) /\ Len(k.from) = Len(Source) + i - 1
  BY <1>1, <1>2 DEF MirrorAt, Rest
<1>5. PICK w : w = Rest(k.from)
  OBVIOUS
<1>6. w \in Seq(Names) /\ k.from = Source \o w /\ k.to = Target \o w
  BY <1>3, <1>4, <1>5, RestIs
<1>7. Len(w) = i - 1
  <2>1. Len(Source \o w) = Len(Source) + Len(w)
    BY <1>2, <1>6, ConcatProperties
  <2>2. Len(Source) \in Nat /\ Len(w) \in Nat /\ i \in Int
    BY <1>2, <1>6
  <2> QED BY <1>4, <1>6, <2>1, <2>2
<1>8. IsPrefix(Target, k.to)
  BY <1>2, <1>6, ConcatIsWithin
<1> QED BY <1>1, <1>2, <1>3, <1>5, <1>6, <1>7, <1>8 DEF At

LEMMA StackInitially == Init => StackInv
<1> SUFFICES ASSUME Init PROVE StackInv
  OBVIOUS
<1>1. PICK k : k = Call(Source, Target)
  OBVIOUS
<1>2. Len(calls) = 1 /\ calls[1] = k /\ k.from = Source
  BY <1>1 DEF Init, Call
<1>3. IsPrefix(Source, Source)
  BY PrefixOfSelf, PlaceAssumption
<1>4. \A i \in 1..1 : i = 1
  OBVIOUS
<1> QED BY <1>2, <1>3, <1>4 DEF StackInv

LEMMA StackNext == Inv /\ StackInv /\ [Next]_vars => StackInv'
<1> SUFFICES ASSUME Inv, StackInv, [Next]_vars PROVE StackInv'
  OBVIOUS
<1>1. CASE calls' = calls
  <2>1. \A k : At(k)' = At(k)' /\ \A i, j : Leads(i, j)' <=> Leads(i, j)
    BY <1>1 DEF Leads, At, Rest
  <2> QED BY <1>1, <2>1 DEF StackInv
<1>2. CASE Step
  <2>1. PICK l : l = Len(calls)
    OBVIOUS
  <2>0. /\ l \in Nat \ {0} /\ Current = calls[l] /\ Len(calls') \in 0..l + 1
        /\ \A i \in 1..Len(calls') : i < l => calls'[i] = calls[i]
        /\ Len(calls') >= l =>
                 /\ calls'[l].from = Current.from /\ calls'[l].to = Current.to
                 /\ Current.read \subseteq calls'[l].read
        /\ Len(calls') = l + 1 =>
                 \E n \in Names : Reads(n) /\ Entered(n)
    BY <1>2, <2>1, NextCalls
  <2>2. /\ l \in Nat \ {0} /\ Current = calls[l] /\ Len(calls') \in 0..l + 1 /\ l \in 1..l
        /\ \A i \in 1..Len(calls') : i < l => calls'[i] = calls[i]
        /\ Len(calls') >= l =>
                 /\ calls'[l].from = Current.from /\ Current.read \subseteq calls'[l].read
    BY <2>0
  <2>3. \A i \in 1..Len(calls') : i <= l => calls'[i].from = calls[i].from /\ i \in 1..l
    BY <2>2
  <2>4. \A i \in 1..l : IsPrefix(Source, calls[i].from)
    BY <2>1 DEF StackInv
  <2>5. ASSUME NEW i \in 1..Len(calls'), NEW j \in 1..Len(calls'), i < j, j <= l
        PROVE  Leads(i, j)'
    <3>1. i < l /\ i \in 1..l /\ j \in 1..l
      BY <2>2, <2>5
    <3>2. calls'[i] = calls[i] /\ calls'[j].from = calls[j].from
      BY <2>2, <2>3, <2>5, <3>1
    <3>3. Leads(i, j)
      BY <2>1, <2>5, <3>1 DEF StackInv
    <3> QED BY <3>2, <3>3 DEF Leads, At, Rest
  <2>6. CASE Len(calls') = l + 1
    <3>1. PICK n \in Names : Entered(n)
      BY <2>0, <2>6
    <3>2. Current \in CallRecords /\ Current.from \in Seq(Names) /\ IsPrefix(Source, Current.from)
      BY <2>1, <2>2, AtIs
    <3>3. calls'[l + 1].from = Append(Current.from, n) /\ n \in calls'[l].read
      BY <2>1, <3>1 DEF Entered
    <3>4. PICK x, e : x = Current.from /\ e = Append(x, n)
      OBVIOUS
    <3>5. e \in Seq(Names) /\ IsPrefix(Source, e) /\ Rest(e) = Append(Rest(x), n) /\ Rest(x) \in Seq(Names)
      BY <3>2, <3>4, RestOfEntry, RestIs
    <3>6. PICK w : w = Rest(x)
      OBVIOUS
    <3>7. w \in Seq(Names) /\ Rest(e) = Append(w, n) /\ w = At(calls[l])
      BY <2>2, <3>4, <3>5, <3>6 DEF At
    <3>8. ASSUME NEW i \in 1..l PROVE Leads(i, l + 1)'
      <4>1. CASE i = l
        <5>1. IsPrefix(Append(w, n), Append(w, n))
          BY <3>7, PrefixOfAppend, PrefixOfSelf
        <5>2. Rest(calls'[l].from) = w /\ Rest(calls'[l + 1].from) = Append(w, n)
          <6>1. Len(calls') >= l
            BY <2>2, <2>6
          <6> QED BY <2>2, <3>3, <3>4, <3>6, <3>7, <6>1
        <5>3. n \in calls'[l].read /\ IsPrefix(Append(Rest(calls'[l].from), n), Rest(calls'[l + 1].from))
          BY <3>3, <5>1, <5>2
        <5> QED BY <4>1, <5>3 DEF Leads, At
      <4>2. CASE i # l
        <5>1. i < l /\ i \in 1..Len(calls')
          BY <2>2, <2>6, <4>2
        <5>2. PICK m \in calls[i].read : IsPrefix(Append(At(calls[i]), m), w)
          BY <2>1, <2>2, <3>7, <5>1 DEF StackInv, Leads
        <5>3. At(calls[i]) \in Seq(Names) /\ m \in Names
          BY <2>1, <5>2, AtIs DEF CallRecords
        <5>4. PICK a : a = Append(At(calls[i]), m)
          OBVIOUS
        <5>5. a \in Seq(Names) /\ IsPrefix(a, w)
          BY <5>2, <5>3, <5>4, PrefixOfAppend
        <5>6. IsPrefix(a, Append(w, n))
          BY <3>7, <5>5, PrefixOfAppend
        <5>7. calls'[i] = calls[i] /\ Rest(calls'[l + 1].from) = Append(w, n)
          BY <2>2, <3>3, <3>4, <3>7, <5>1
        <5>8. m \in calls'[i].read /\ IsPrefix(Append(Rest(calls'[i].from), m), Rest(calls'[l + 1].from))
          BY <5>2, <5>4, <5>6, <5>7 DEF At
        <5> QED BY <5>8 DEF Leads, At
      <4> QED BY <4>1, <4>2
    <3>9. \A i \in 1..Len(calls') : i <= l \/ i = l + 1
      BY <2>2, <2>6
    <3>10. \A i \in 1..Len(calls') : IsPrefix(Source, calls'[i].from)
      BY <2>3, <2>4, <3>3, <3>4, <3>5, <3>9
    <3>11. \A i \in 1..Len(calls') : i < l + 1 => i \in 1..l
      BY <2>2
    <3>12. \A i, j \in 1..Len(calls') : i < j => Leads(i, j)'
      BY <2>5, <3>8, <3>9, <3>11
    <3> QED BY <3>10, <3>12 DEF StackInv
  <2>7. CASE Len(calls') # l + 1
    <3>1. \A i \in 1..Len(calls') : i <= l
      BY <2>2, <2>7
    <3>2. \A i \in 1..Len(calls') : IsPrefix(Source, calls'[i].from)
      BY <2>3, <2>4, <3>1
    <3> QED BY <2>5, <3>1, <3>2 DEF StackInv
  <2> QED BY <2>6, <2>7
<1> QED BY <1>1, <1>2 DEF Next, OtherRemoves, OtherMakes, Disturb, vars

-----------------------------------------------------------------------------
(* The side of the target.                                                 *)

\* The tree a copy starts from, and the names it is to have.
Beginning ==
    /\ Origin /\ Target # Root
    /\ \A p \in Places : was[p].kind = "link" => was[was[p].to].kind # "link"

LEMMA LinklessIs ==
    ASSUME NEW tree, NEW text \in Seq(Names)
    PROVE  Linkless(tree, text) <=>
               \A p \in Places : IsPrefix(p, text) /\ p # Root => tree[p].kind # "link"
<1>1. ASSUME Linkless(tree, text), NEW p \in Places, IsPrefix(p, text), p # Root
      PROVE  tree[p].kind # "link"
  <2>1. p \in Seq(Names) /\ Len(p) \in Nat /\ Len(text) \in Nat /\ Len(p) # 0
    BY <1>1, PlaceAssumption, EmptySeq DEF Root
  <2>2. Len(p) <= Len(text) /\ Pre(text, Len(p)) = p
    BY <1>1, <2>1, PrefixIs
  <2>3. Len(p) \in 1..Len(text)
    BY <2>1, <2>2
  <2> QED BY <1>1, <2>2, <2>3 DEF Linkless
<1>2. ASSUME \A p \in Places : IsPrefix(p, text) /\ p # Root => tree[p].kind # "link"
      PROVE  Linkless(tree, text)
  <2>1. ASSUME NEW i \in 1..Len(text), Pre(text, i) \in Places
        PROVE  tree[Pre(text, i)].kind # "link"
    <3>1. PICK p : p = Pre(text, i)
      OBVIOUS
    <3>2. i \in 0..Len(text) /\ i # 0 /\ Len(text) \in Nat /\ i <= Len(text)
      OBVIOUS
    <3>3. p \in Seq(Names) /\ Len(p) = i
      BY <3>1, <3>2, PreType
    <3>4. IsPrefix(p, text) /\ p # Root
      BY <3>1, <3>2, <3>3, PrefixIs, EmptySeq DEF Root
    <3> QED BY <1>2, <2>1, <3>1, <3>4
  <2> QED BY <2>1 DEF Linkless
<1> QED BY <1>1, <1>2

\* It leads to itself or to nowhere, and then to a name in a directory.
LEMMA LinklessLeads ==
    ASSUME NEW tree, NEW text \in Seq(Names), Linkless(tree, text), text # Root, NEW follow,
           Walk(tree, text, follow) # Void
    PROVE  /\ Walk(tree, text, follow) = text /\ Found(tree, text, follow) = tree[text]
           /\ text \in Places \ {Root} /\ tree[Front(text)].kind = "dir"
<1>1. PICK n \in Nat : n = Len(text)
  OBVIOUS
<1>2. Straight(tree, text, n) /\ Walk(tree, text, follow) = text
  BY <1>1, StraightWalk DEF Linkless
<1>3. n \in 0..n /\ n # 0 /\ n - 1 \in 0..n - 1 /\ n \in 1..Len(text)
  BY <1>1, EmptySeq DEF Root
<1>4. Pre(text, n) = text /\ Front(Pre(text, n)) = Pre(text, n - 1)
  BY <1>1, <1>3, PreEnds, PreStep
<1>5. text \in Places /\ tree[Front(text)].kind = "dir"
  BY <1>2, <1>3, <1>4 DEF Straight
<1> QED BY <1>2, <1>5 DEF Found

LEMMA LinklessEntry ==
    ASSUME NEW tree, NEW x \in Seq(Names), Linkless(tree, x), NEW n \in Names,
           Append(x, n) \in Places => tree[Append(x, n)].kind # "link"
    PROVE  Append(x, n) \in Seq(Names) /\ Append(x, n) # Root /\ Linkless(tree, Append(x, n))
<1>1. PICK a : a = Append(x, n)
  OBVIOUS
<1>2. a \in Seq(Names) /\ a # Root
  <2>1. a \in Seq(Names) /\ Len(a) = Len(x) + 1 /\ Len(x) \in Nat
    BY <1>1
  <2> QED BY <2>1, EmptySeq DEF Root
<1>3. ASSUME NEW p \in Places, IsPrefix(p, a), p # Root PROVE tree[p].kind # "link"
  <2>1. IsPrefix(p, x) \/ p = a
    BY <1>1, <1>3, PrefixOfAppend, PlaceAssumption
  <2> QED BY <1>1, <1>3, <2>1, LinklessIs
<1>4. Linkless(tree, a)
  BY <1>2, <1>3, LinklessIs
<1> QED BY <1>1, <1>2, <1>4

Begun(k) == k.pc \in {"open", "first", "next"}
Untouched(text) == \A p \in Places : IsPrefix(text, p) => node[p] = was[p]

\* What there was is there, and there is nothing new but below the target.
TargetDisk ==
    /\ Shaped(node)
    /\ \A p \in Places : Exists(was[p]) \/ ~IsPrefix(Target, p) => node[p] = was[p]

\* Below the target of a call there is only what its entries have left.
TargetCall(k) ==
    /\ Linkless(node, k.to)
    /\ Begun(k) => /\ k.to \in Places /\ node[k.to].kind = "dir"
                   /\ \A n \in Names \ k.read : Untouched(Append(k.to, n))
    /\ ~Begun(k) => Untouched(k.to)
    /\ k.pc # "next" => k.read = {}
    /\ k.pc = "create_directory" /\ k.to \in Places => ~Exists(node[k.to])
    /\ k.pc \in {"copy_file", "write_file"} /\ k.to \in Places => node[k.to].kind # "dir"
    /\ k.pc \in {"copy_file_into", "write_file_into"} =>
          k.to \in Places /\ node[k.to].kind = "dir"

TargetInv == TargetDisk /\ \A i \in 1..Len(calls) : TargetCall(calls[i])

\* A state of a copy to a target that no symlink is on the way to, undisturbed.
TargetState ==
    /\ Inv /\ StackInv /\ Beginning /\ Direct /\ TargetInv /\ calls # <<>>

\* The step makes something below the target of the innermost call.
Makes(p, n) ==
    /\ p \in Places \ {Root} /\ IsPrefix(Current.to, p)
    /\ ~Exists(node[p]) /\ node[Front(p)].kind = "dir"
    /\ n \in Nodes /\ node' = [node EXCEPT ![p] = n]

MakesOne == node' = node \/ \E p, n : Makes(p, n)

LEMMA CurrentIs ==
    ASSUME TargetState
    PROVE  /\ Len(calls) \in 1..Len(calls) /\ Len(calls) \in Nat \ {0} /\ Current = calls[Len(calls)]
           /\ Current \in CallRecords /\ Optioned(Current)
           /\ Current.from \in Seq(Names) /\ Current.to \in Seq(Names)
           /\ At(Current) \in Seq(Names)
           /\ Current.from = Source \o At(Current) /\ Current.to = Target \o At(Current)
           /\ IsPrefix(Source, Current.from) /\ IsPrefix(Target, Current.to)
           /\ Current.to # Root /\ TargetCall(Current) /\ answer = "none"
<1>1. /\ Len(calls) \in 1..Len(calls) /\ Current = calls[Len(calls)]
      /\ Current \in CallRecords /\ Optioned(Current)
  BY CurrentType DEF TargetState
<1>2. /\ Current.from \in Seq(Names) /\ Current.to \in Seq(Names)
      /\ At(Current) \in Seq(Names)
      /\ Current.from = Source \o At(Current) /\ Current.to = Target \o At(Current)
      /\ IsPrefix(Source, Current.from) /\ IsPrefix(Target, Current.to)
  BY <1>1, AtIs DEF TargetState
<1>3. Current.to # Root
  <2>1. Target \in Seq(Names) /\ Target # Root
    BY DEF TargetState, Beginning, Origin
  <2>2. Len(Target) <= Len(Current.to) /\ Len(Target) # 0 /\ Len(Target) \in Nat
    BY <1>2, <2>1, PrefixIs, EmptySeq DEF Root
  <2> QED BY <1>2, <2>2, EmptySeq DEF Root
<1>4. TargetCall(Current) /\ answer = "none"
  BY <1>1 DEF TargetState, TargetInv, Inv, CallsOK
<1>5. Len(calls) \in Nat \ {0}
  BY <1>1
<1> QED BY <1>1, <1>2, <1>3, <1>4, <1>5

\* The targets of the calls are one below an entry of the other.
LEMMA OuterTo ==
    ASSUME Inv, StackInv, NEW i \in 1..Len(calls), NEW j \in 1..Len(calls), i < j
    PROVE  /\ calls[i].pc = "next" /\ calls[i].to \in Seq(Names) /\ calls[i].read \subseteq Names
           /\ \E m \in calls[i].read : IsPrefix(Append(calls[i].to, m), calls[j].to)
<1>1. PICK w, v, x, y : w = At(calls[i]) /\ v = At(calls[j]) /\ x = calls[i].to /\ y = calls[j].to
  OBVIOUS
<1>2. /\ w \in Seq(Names) /\ v \in Seq(Names) /\ x \in Seq(Names) /\ calls[i] \in CallRecords
      /\ x = Target \o w /\ y = Target \o v /\ Target \in Seq(Names)
  BY <1>1, AtIs DEF Inv, CallsOK
<1>3. PICK m \in calls[i].read : IsPrefix(Append(w, m), v)
  BY <1>1 DEF StackInv, Leads
<1>4. calls[i].read \subseteq Names
  BY <1>2 DEF CallRecords
<1>5. Append(w, m) \in Seq(Names) /\ Append(x, m) = Target \o Append(w, m)
  BY <1>2, <1>4, AppendOfConcat
<1>6. IsPrefix(Append(x, m), y)
  <2>1. PICK a : a = Append(w, m)
    OBVIOUS
  <2>2. IsPrefix(Target \o a, Target \o v)
    BY <1>2, <1>3, <1>5, <2>1, PrefixOfConcats
  <2> QED BY <1>2, <1>5, <2>1, <2>2
<1>7. i < Len(calls)
  OBVIOUS
<1>8. calls[i].pc = "next"
  BY <1>7 DEF Inv, CallsOK, Stacked
<1> QED BY <1>1, <1>2, <1>3, <1>4, <1>6, <1>8

\* What was there is there.
LEMMA MakesDisk ==
    ASSUME TargetState, MakesOne, UNCHANGED given
    PROVE  /\ TargetDisk' /\ Grown(node, node') /\ Grown(was, node)
           /\ was' = was /\ Target' = Target
<1>1. was' = was /\ Target' = Target
  BY DEF given
<1>2. Shaped(node) /\ was \in [Places -> Nodes]
      /\ \A p \in Places : Exists(was[p]) \/ ~IsPrefix(Target, p) => node[p] = was[p]
  BY DEF TargetState, TargetInv, TargetDisk, Beginning, Origin, Shaped
<1>3. CASE node' = node
  BY <1>1, <1>2, <1>3 DEF TargetDisk, Shaped, Grown
<1>4. ASSUME NEW p, NEW n, Makes(p, n) PROVE TargetDisk' /\ Grown(node, node')
  <2>1. /\ p \in Places \ {Root} /\ IsPrefix(Current.to, p)
        /\ ~Exists(node[p]) /\ node[Front(p)].kind = "dir"
        /\ n \in Nodes /\ node' = [node EXCEPT ![p] = n]
    BY <1>4 DEF Makes
  <2>2. node \in [Places -> Nodes] /\ node' \in [Places -> Nodes]
        /\ \A q \in Places : q # p => node'[q] = node[q]
    BY <1>2, <2>1 DEF Shaped
  <2>3. IsPrefix(Target, p)
    <3>1. /\ IsPrefix(Target, Current.to) /\ Current.to \in Seq(Names)
          /\ Target \in Seq(Names) /\ p \in Seq(Names)
      BY <2>1, CurrentIs, PlaceAssumption DEF TargetState, Inv, CallsOK
    <3> QED BY <2>1, <3>1, PrefixOfPrefix
  <2>4. Shaped(node')
    <3>1. node'[Root].kind = "dir"
      BY <1>2, <2>1, <2>2, PlaceAssumption DEF Shaped
    <3>2. ASSUME NEW q \in Places \ {Root}, Exists(node'[q]) PROVE node'[Front(q)].kind = "dir"
      <4>1. Front(q) \in Places
        BY PlaceAssumption
      <4>2. node[Front(q)].kind = "dir"
        BY <1>2, <2>1, <2>2, <3>2 DEF Shaped
      <4>3. Front(q) # p
        BY <2>1, <4>2 DEF Exists
      <4> QED BY <2>2, <4>1, <4>2, <4>3
    <3> QED BY <2>2, <3>1, <3>2 DEF Shaped
  <2>5. ASSUME NEW q \in Places, Exists(was[q]) \/ ~IsPrefix(Target, q) PROVE node'[q] = was[q]
    <3>1. node[q] = was[q]
      BY <1>2, <2>5
    <3>2. q # p
      BY <2>1, <2>3, <2>5, <3>1
    <3> QED BY <2>2, <3>1, <3>2
  <2>6. Grown(node, node')
    BY <2>1, <2>2 DEF Grown
  <2>7. TargetDisk'
    <3>1. Shaped(node)'
      BY <2>4 DEF Shaped
    <3> QED BY <1>1, <2>5, <3>1 DEF TargetDisk
  <2> QED BY <2>6, <2>7
<1>5. Grown(was, node)
  BY <1>2 DEF Grown, Shaped
<1>6. node' = node => Grown(node, node')
  BY <1>2 DEF Grown, Shaped
<1>7. TargetDisk' /\ Grown(node, node')
  BY <1>3, <1>4, <1>6 DEF MakesOne
<1> QED BY <1>1, <1>5, <1>7

\* And the calls around the innermost one find what they have left.
LEMMA MakesOuter ==
    ASSUME TargetState, MakesOne, UNCHANGED given,
           NEW i \in 1..Len(calls), i < Len(calls), NEW k, k = calls[i]
    PROVE  TargetCall(k)'
<1>1. was' = was
  BY DEF given
<1>2. TargetCall(k) /\ k.pc = "next" /\ k.to \in Seq(Names) /\ k.read \subseteq Names
      /\ \E m \in k.read : IsPrefix(Append(k.to, m), Current.to)
  <2>1. Len(calls) \in 1..Len(calls) /\ Current = calls[Len(calls)]
    BY CurrentIs
  <2> QED BY <2>1, OuterTo DEF TargetState, TargetInv
<1>3. CASE node' = node
  BY <1>1, <1>2, <1>3 DEF TargetCall, Linkless, Untouched, Begun
<1>4. ASSUME NEW p, NEW n, Makes(p, n) PROVE TargetCall(k)'
  <2>1. p \in Places /\ IsPrefix(Current.to, p) /\ node \in [Places -> Nodes]
        /\ p \in Seq(Names) /\ Current.to \in Seq(Names)
        /\ \A q \in Places : q # p => node'[q] = node[q]
    BY <1>4, CurrentIs, PlaceAssumption DEF Makes, TargetState, Inv, DiskOK
  <2>2. PICK m \in k.read : IsPrefix(Append(k.to, m), Current.to)
    BY <1>2
  <2>3. m \in Names /\ Append(k.to, m) \in Seq(Names) /\ IsPrefix(Append(k.to, m), p)
    <3>1. m \in Names
      BY <1>2
    <3>2. PICK a : a = Append(k.to, m)
      OBVIOUS
    <3>3. a \in Seq(Names)
      BY <1>2, <3>1, <3>2
    <3>4. IsPrefix(a, p)
      BY <2>1, <2>2, <3>2, <3>3, PrefixOfPrefix
    <3> QED BY <3>1, <3>2, <3>3, <3>4
  <2>4. ~IsPrefix(p, k.to) /\ p # k.to
    <3>1. PICK a : a = Append(k.to, m)
      OBVIOUS
    <3>2. a \in Seq(Names) /\ IsPrefix(a, p) /\ ~IsPrefix(a, k.to)
      BY <1>2, <2>3, <3>1, PrefixOfAppend
    <3>3. IsPrefix(p, k.to) => IsPrefix(a, k.to)
      BY <1>2, <2>1, <3>2, PrefixOfPrefix
    <3> QED BY <1>2, <3>2, <3>3, PrefixOfSelf
  <2>5. k.to \in Places /\ node[k.to].kind = "dir" /\ Linkless(node, k.to)
        /\ \A e \in Names \ k.read : Untouched(Append(k.to, e))
    BY <1>2 DEF TargetCall, Begun
  <2>6. Linkless(node', k.to)
    <3>1. \A q \in Places : IsPrefix(q, k.to) /\ q # Root => node[q].kind # "link"
      BY <1>2, <2>5, LinklessIs
    <3>2. \A q \in Places : IsPrefix(q, k.to) /\ q # Root => node'[q].kind # "link"
      BY <2>1, <2>4, <3>1
    <3> QED BY <1>2, <3>2, LinklessIs
  <2>7. ASSUME NEW e \in Names \ k.read, NEW q \in Places, IsPrefix(Append(k.to, e), q)
        PROVE  node'[q] = was[q]
    <3>1. q # p
      BY <1>2, <2>1, <2>3, <2>7, TwoEntries
    <3> QED BY <2>1, <2>5, <2>7, <3>1 DEF Untouched
  <2>8. node'[k.to].kind = "dir"
    BY <2>1, <2>4, <2>5
  <2>9. Linkless(node, k.to)'
    BY <2>6 DEF Linkless
  <2>10. \A e \in Names \ k.read : Untouched(Append(k.to, e))'
    BY <1>1, <2>7 DEF Untouched
  <2> QED BY <1>2, <2>5, <2>8, <2>9, <2>10 DEF TargetCall, Begun
<1> QED BY <1>3, <1>4 DEF MakesOne

\* What a look finds, and that it leads to one of the system calls then.
LookFrom == Stat(Current.from, Follows)
LookTo == Stat(Current.to, ~(Has("create_symlinks") \/ Has("skip_symlinks")))

LEMMA LookGoes ==
    ASSUME Inv, calls # <<>>, Look, Len(calls') = Len(calls)
    PROVE  /\ ~TooLong(Current.from) /\ ~TooLong(Current.to)
           /\ LookFrom.kind \in {"dir", "file", "link"} /\ LookTo.kind # "other"
           /\ ~(LookFrom.kind = "dir" /\ LookTo.kind = "file") /\ ~Equivalent(LookFrom, LookTo)
           /\ Chosen(LookFrom, LookTo) \in Steps
           /\ calls'[Len(calls)] = [Current EXCEPT !.pc = Chosen(LookFrom, LookTo)]
           /\ Goto(Chosen(LookFrom, LookTo))
<1>1. /\ Current \in CallRecords /\ Current = calls[Len(calls)]
      /\ Len(calls) \in 1..Len(calls) /\ calls \in Seq(CallRecords) /\ Len(calls) # 0
      /\ LookFrom \in Nodes /\ LookTo \in Nodes
  BY CurrentType, StatType DEF LookFrom, LookTo
<1>2. Follows <=> ~(Has("create_symlinks") \/ Has("skip_symlinks") \/ Has("copy_symlinks"))
  BY DEF Follows, Has
<1>3. ~Fail
  BY <1>1 DEF Fail
<1>4. ~Return
  <2>1. Len(Front(calls)) = Len(calls) - 1
    BY <1>1, FrontIs
  <2> QED BY <1>1, <2>1 DEF Return
<1>5. LookFrom = Stat(Current.from,
             ~(Has("create_symlinks") \/ Has("skip_symlinks") \/ Has("copy_symlinks")))
  <2>1. Follows = ~(Has("create_symlinks") \/ Has("skip_symlinks") \/ Has("copy_symlinks"))
    BY <1>2 DEF Follows
  <2> QED BY <2>1 DEF LookFrom
<1>6. PICK f, t : f = LookFrom /\ t = LookTo
  OBVIOUS
<1>7. /\ ~TooLong(Current.from) /\ ~TooLong(Current.to)
      /\ Exists(f) /\ f.kind # "other" /\ t.kind # "other"
      /\ ~(f.kind = "dir" /\ t.kind = "file")
      /\ ~Equivalent(f, t) /\ Chosen(f, t) \notin {"fail", "return"} /\ Goto(Chosen(f, t))
  BY <1>3, <1>4, <1>5, <1>6 DEF Look, LookTo
<1>8. f.kind \in {"dir", "file", "link"}
  BY <1>1, <1>6, <1>7 DEF Exists, Nodes, Kinds
<1>9. Chosen(f, t) \in Steps
  BY <1>1, <1>7, ChosenOK
<1>10. calls'[Len(calls)] = [Current EXCEPT !.pc = Chosen(f, t)]
  BY <1>1, <1>7 DEF Goto
<1> QED BY <1>6, <1>7, <1>8, <1>9, <1>10

\* What is found at the target of a call is what is there.
LEMMA TargetFinds ==
    ASSUME TargetState, NEW follow
    PROVE  /\ Linkless(node, Current.to)
           /\ Exists(Stat(Current.to, follow)) <=> Current.to \in Places /\ Exists(node[Current.to])
           /\ Exists(Stat(Current.to, follow)) => Stat(Current.to, follow) = node[Current.to]
           /\ Exists(Stat(Current.to, follow)) => Stat(Current.to, follow).kind # "link"
<1>1. /\ Current.to \in Seq(Names) /\ Current.to # Root /\ Linkless(node, Current.to)
      /\ Shaped(node)
  BY CurrentIs DEF TargetCall, TargetState, TargetInv, TargetDisk
<1>2. IsPrefix(Current.to, Current.to)
  BY <1>1, PrefixOfSelf
<1>3. Current.to \in Places => node[Current.to].kind # "link"
  BY <1>1, <1>2, LinklessIs
<1>4. PICK x : x = Current.to
  OBVIOUS
<1>5. /\ Exists(Found(node, x, follow)) <=> x \in Places /\ Exists(node[x])
      /\ x \in Places /\ Exists(node[x]) => Found(node, x, follow) = node[x]
  BY <1>1, <1>4, LinklessFound
<1> QED BY <1>1, <1>3, <1>4, <1>5 DEF Stat

\* Where copy_file writes to is at or in the target of the call.
LEMMA FileTargetIs ==
    ASSUME TargetState,
           Current.pc \in {"copy_file", "copy_file_into", "write_file", "write_file_into"}
    PROVE  /\ FileTarget \in Seq(Names) /\ FileTarget # Root /\ Linkless(node, FileTarget)
           /\ IsPrefix(Current.to, FileTarget) /\ Untouched(FileTarget)
           /\ Current.pc \in {"copy_file_into", "write_file_into"} =>
                 \E n \in Names : n = Last(Current.from) /\ FileTarget = Append(Current.to, n)
<1>1. /\ Current.to \in Seq(Names) /\ Current.to # Root /\ Linkless(node, Current.to)
      /\ Untouched(Current.to) /\ IsPrefix(Target, Current.to) /\ Current.from \in Seq(Names)
      /\ IsPrefix(Source, Current.from)
  BY CurrentIs DEF TargetCall, Begun
<1>2. CASE Current.pc \in {"copy_file", "write_file"}
  BY <1>1, <1>2, PrefixOfSelf DEF FileTarget
<1>3. CASE Current.pc \in {"copy_file_into", "write_file_into"}
  <2>1. PICK n : n = Last(Current.from)
    OBVIOUS
  <2>2. n \in Names
    <3>1. Source \in Seq(Names) /\ Len(Source) # 0 /\ Len(Source) \in Nat
      BY PlaceAssumption, EmptySeq DEF Root
    <3>2. Len(Source) <= Len(Current.from) /\ Len(Current.from) \in Nat
      BY <1>1, <3>1, PrefixIs
    <3>3. Len(Current.from) \in 1..Len(Current.from)
      BY <3>1, <3>2
    <3> QED BY <1>1, <2>1, <3>3 DEF Last
  <2>3. PICK a : a = Append(Current.to, n)
    OBVIOUS
  <2>4. a \in Seq(Names) /\ IsPrefix(Current.to, a) /\ FileTarget = a
    BY <1>1, <1>3, <2>1, <2>2, <2>3, PrefixOfAppend DEF FileTarget
  <2>5. Untouched(a)
    <3>1. \A q \in Places : q \in Seq(Names)
      BY PlaceAssumption
    <3>2. \A q \in Places : IsPrefix(a, q) => IsPrefix(Current.to, q)
      BY <1>1, <2>4, <3>1, PrefixOfPrefix
    <3> QED BY <1>1, <3>2 DEF Untouched
  <2>6. a \in Places => node[a].kind # "link"
    <3>1. IsPrefix(a, a) /\ IsPrefix(Target, a)
      <4>1. Target \in Seq(Names)
        BY DEF TargetState, Inv, CallsOK
      <4> QED BY <1>1, <2>4, <4>1, PrefixOfPrefix, PrefixOfSelf
    <3> QED BY <2>5, <3>1 DEF Untouched, TargetState, Direct, Near, IsWithin
  <2>7. a # Root /\ Linkless(node, a)
    BY <1>1, <2>2, <2>3, <2>6, LinklessEntry
  <2> QED BY <2>1, <2>2, <2>3, <2>4, <2>5, <2>7
<1> QED BY <1>2, <1>3

\* What is made is made at the text it is made at.
LEMMA MakesAt ==
    ASSUME TargetState, NEW x \in Seq(Names), x # Root, Linkless(node, x), IsPrefix(Current.to, x),
           NEW follow, Walk(node, x, follow) # Void, ~Exists(Stat(x, follow)),
           NEW n, node' = [node EXCEPT ![Walk(node, x, follow)] = n], Inv'
    PROVE  Walk(node, x, follow) = x /\ Makes(x, n)
<1>1. /\ Walk(node, x, follow) = x /\ Stat(x, follow) = node[x]
      /\ x \in Places \ {Root} /\ node[Front(x)].kind = "dir"
  BY LinklessLeads DEF Stat
<1>2. node \in [Places -> Nodes] /\ node' \in [Places -> Nodes]
  BY DEF TargetState, Inv, DiskOK
<1>3. n \in Nodes
  <2>1. node'[x] = n
    BY <1>1, <1>2
  <2> QED BY <1>1, <1>2, <2>1
<1> QED BY <1>1, <1>3 DEF Makes

LEMMA StepMakesOne ==
    ASSUME TargetState, QuietStep, Inv'
    PROVE  MakesOne
<1>1. /\ Current.to \in Seq(Names) /\ Current.to # Root /\ Linkless(node, Current.to)
      /\ IsPrefix(Current.to, Current.to)
  BY CurrentIs, PrefixOfSelf DEF TargetCall
<1>2. ASSUME NEW n, Make(Current.to, n) PROVE MakesOne
  <2>1. CASE UNCHANGED node
    BY <2>1 DEF MakesOne
  <2>2. CASE CanMake(Current.to) /\ Put(Walk(node, Current.to, FALSE), n)
    BY <1>1, <2>2, MakesAt DEF CanMake, Put, MakesOne
  <2> QED BY <1>2, <2>1, <2>2 DEF Make
<1>3. CASE Look \/ LookedAtFiles \/ OpenDirectory \/ ReadNext
  BY <1>3 DEF Look, LookedAtFiles, OpenDirectory, ReadNext, disk, MakesOne
<1>4. CASE CopySymlink \/ CreateSymlink \/ CreateHardLink
  BY <1>2, <1>4 DEF CopySymlink, CreateSymlink, CreateHardLink, MakesOne
<1>5. CASE CopyFileWhole
  <2>1. CASE UNCHANGED node
    BY <2>1 DEF MakesOne
  <2>2. CASE ~UNCHANGED node
    <3>1. PICK x : x = FileTarget
      OBVIOUS
    <3>2. x \in Seq(Names) /\ x # Root /\ Linkless(node, x) /\ IsPrefix(Current.to, x)
      BY <1>5, <3>1, FileTargetIs DEF CopyFileWhole
    <3>3. /\ Walk(node, x, TRUE) # Void /\ ~Exists(Stat(x, TRUE))
          /\ Put(Walk(node, x, TRUE), Node("file", Walk(node, x, TRUE), Root))
      BY <1>5, <2>2, <3>1 DEF CopyFileWhole, disk
    <3>4. PICK n : n = Node("file", Walk(node, x, TRUE), Root)
      OBVIOUS
    <3>5. Makes(x, n)
      BY <3>2, <3>3, <3>4, MakesAt DEF Put
    <3> QED BY <3>5 DEF MakesOne
  <2> QED BY <2>1, <2>2
<1>6. CASE CreateDirectory
  <2>1. CASE UNCHANGED node
    BY <2>1 DEF MakesOne
  <2>2. CASE ~UNCHANGED node
    <3>1. /\ CanMake(Current.to)
          /\ Put(Walk(node, Current.to, FALSE), Node("dir", Walk(node, Current.to, FALSE), Root))
      BY <1>6, <2>2 DEF CreateDirectory
    <3>2. PICK n : n = Node("dir", Walk(node, Current.to, FALSE), Root)
      OBVIOUS
    <3>3. Makes(Current.to, n)
      BY <1>1, <3>1, <3>2, MakesAt DEF CanMake, Put
    <3> QED BY <3>3 DEF MakesOne
  <2> QED BY <2>1, <2>2
<1> QED BY <1>3, <1>4, <1>5, <1>6 DEF QuietStep

\* Nothing has come to what is below something that nothing has come to.
LEMMA UntouchedBelow ==
    ASSUME NEW x \in Seq(Names), NEW y \in Seq(Names), IsPrefix(x, y), Untouched(x)
    PROVE  Untouched(y)
<1>1. ASSUME NEW q \in Places, IsPrefix(y, q) PROVE node[q] = was[q]
  <2>1. q \in Seq(Names)
    BY PlaceAssumption
  <2>2. IsPrefix(x, q)
    BY <1>1, <2>1, PrefixOfPrefix
  <2> QED BY <2>2 DEF Untouched
<1> QED BY <1>1 DEF Untouched

LEMMA UntouchedEntries ==
    ASSUME NEW x \in Seq(Names), Untouched(x), NEW n \in Names
    PROVE  Untouched(Append(x, n))
<1>1. PICK a : a = Append(x, n)
  OBVIOUS
<1>2. a \in Seq(Names) /\ IsPrefix(x, a)
  BY <1>1, PrefixOfAppend
<1> QED BY <1>1, <1>2, UntouchedBelow

\* The innermost call goes on.
LEMMA TargetTurns ==
    ASSUME TargetState, QuietStep, UNCHANGED given, Inv', NEW k, Turns(k)
    PROVE  TargetCall(k)'
<1>1. /\ Len(calls) \in 1..Len(calls) /\ Current = calls[Len(calls)] /\ Current \in CallRecords
      /\ Current.to \in Seq(Names) /\ Current.to # Root /\ TargetCall(Current)
      /\ IsPrefix(Current.to, Current.to)
  BY CurrentIs, PrefixOfSelf
<1>2. /\ calls' = [calls EXCEPT ![Len(calls)] = k] /\ k \in CallRecords
      /\ k.from = Current.from /\ k.to = Current.to /\ k.read = Current.read
      /\ calls \in Seq(CallRecords) /\ Len(calls) # 0 /\ calls # <<>>
  BY <1>1, CurrentType DEF Turns, TargetState
<1>3. calls'[Len(calls)] = k /\ Len(calls') = Len(calls) /\ was' = was
  BY <1>1, <1>2, ExceptSeq DEF given
<1>4. ~Fail /\ ~Return
  <2>1. Len(Front(calls)) = Len(calls) - 1 /\ Len(calls) \in Nat
    BY <1>1, <1>2, FrontIs
  <2>2. Len(<<>>) = 0
    OBVIOUS
  <2> QED BY <1>2, <1>3, <2>1, <2>2 DEF Return, Fail
<1>5. ~ReadNext
  <2>1. ASSUME NEW n, CopyEntry(n) PROVE FALSE
    <3>1. Len(calls') = Len([calls EXCEPT ![Len(calls)].pc = "next",
                                     ![Len(calls)].read = @ \cup {n}]) + 1
      BY <2>1, AppendProperties DEF CopyEntry
    <3>2. Len([calls EXCEPT ![Len(calls)].pc = "next",
                                     ![Len(calls)].read = @ \cup {n}]) = Len(calls)
      BY <1>2
    <3> QED BY <1>1, <1>3, <3>1, <3>2
  <2> QED BY <1>4, <2>1 DEF ReadNext
<1>6. CASE Look
  <2>1. /\ k = [Current EXCEPT !.pc = Chosen(LookFrom, LookTo)]
        /\ LookFrom.kind \in {"dir", "file", "link"} /\ LookTo.kind # "other"
        /\ ~(LookFrom.kind = "dir" /\ LookTo.kind = "file")
    BY <1>2, <1>3, <1>6, LookGoes DEF TargetState
  <2>2. k.pc = Chosen(LookFrom, LookTo) /\ k.pc \notin {"fail", "return"}
    <3>1. Chosen(LookFrom, LookTo) \in Steps
      BY <1>2, <1>3, <1>6, LookGoes DEF TargetState
    <3> QED BY <1>1, <2>1, <3>1 DEF CallRecords, Steps
  <2>3. /\ Exists(LookTo) <=> Current.to \in Places /\ Exists(node[Current.to])
        /\ Exists(LookTo) => LookTo = node[Current.to] /\ LookTo.kind # "link"
        /\ LookTo \in Nodes
    BY TargetFinds, StatType DEF LookTo, TargetState
  <2>4. Current.pc = "look" /\ Untouched(Current.to) /\ Current.read = {} /\ Linkless(node, Current.to)
    BY <1>1, <1>6 DEF Look, TargetCall, Begun
  <2>5. node' = node
    BY <1>6 DEF Look, disk
  <2>6. k.pc = "open" => Current.to \in Places /\ node[Current.to].kind = "dir"
    <3>1. k.pc = "open" => LookFrom.kind = "dir" /\ Exists(LookTo)
      BY <2>1, <2>2 DEF Chosen
    <3> QED BY <2>1, <2>3, <3>1 DEF Exists, Nodes, Kinds
  <2>7. k.pc = "create_directory" => ~Exists(LookTo)
    BY <2>1, <2>2 DEF Chosen
  <2>8. /\ k.pc = "copy_file" => LookTo.kind # "dir"
        /\ k.pc = "copy_file_into" => LookTo.kind = "dir"
    BY <2>2 DEF Chosen
  <2>9. k.pc \in {"copy_symlink", "create_symlink", "create_hard_link", "copy_file",
                  "copy_file_into", "open", "create_directory"}
    BY <2>2 DEF Chosen
  <2>10. \A n \in Names : Untouched(Append(Current.to, n))
    BY <1>1, <2>4, UntouchedEntries
  <2>11. k.pc = "copy_file" /\ Current.to \in Places => node[Current.to].kind # "dir"
    BY <2>3, <2>8 DEF Exists
  <2>12. k.pc = "copy_file_into" => Current.to \in Places /\ node[Current.to].kind = "dir"
    BY <2>3, <2>8 DEF Exists
  <2> QED BY <1>2, <1>3, <2>3, <2>4, <2>5, <2>6, <2>7, <2>9, <2>10, <2>11, <2>12
          DEF TargetCall, Begun, Untouched, Linkless
<1>7. CASE CreateDirectory
  <2>1. /\ Current.pc = "create_directory" /\ Untouched(Current.to) /\ Current.read = {}
        /\ Linkless(node, Current.to) /\ (Current.to \in Places => ~Exists(node[Current.to]))
    BY <1>1, <1>7 DEF CreateDirectory, TargetCall, Begun
  <2>2. Goto("open") /\ k.pc = "open"
    <3>1. Goto("open")
      BY <1>4, <1>7 DEF CreateDirectory
    <3>2. calls'[Len(calls)] = [Current EXCEPT !.pc = "open"]
      BY <1>1, <1>2, <3>1 DEF Goto
    <3> QED BY <1>1, <1>3, <3>1, <3>2 DEF CallRecords
  <2>3. ~Exists(Stat(Current.to, FALSE))
    BY <2>1, TargetFinds
  <2>4. /\ CanMake(Current.to)
        /\ Put(Walk(node, Current.to, FALSE), Node("dir", Walk(node, Current.to, FALSE), Root))
    BY <1>4, <1>7, <2>3 DEF CreateDirectory
  <2>5. /\ Walk(node, Current.to, FALSE) = Current.to
        /\ Makes(Current.to, Node("dir", Walk(node, Current.to, FALSE), Root))
    <3>1. PICK n : n = Node("dir", Walk(node, Current.to, FALSE), Root)
      OBVIOUS
    <3>2. Walk(node, Current.to, FALSE) = Current.to /\ Makes(Current.to, n)
      BY <1>1, <2>1, <2>4, <3>1, MakesAt DEF CanMake, Put
    <3> QED BY <3>1, <3>2
  <2>6. /\ Current.to \in Places /\ node' = [node EXCEPT ![Current.to] = Node("dir", Current.to, Root)]
        /\ node \in [Places -> Nodes]
    BY <2>5 DEF Makes, TargetState, Inv, DiskOK
  <2>7. node'[Current.to].kind = "dir" /\ \A q \in Places : q # Current.to => node'[q] = node[q]
    BY <2>6 DEF Node
  <2>8. ASSUME NEW n \in Names, NEW q \in Places, IsPrefix(Append(Current.to, n), q)
        PROVE  node'[q] = was[q]
    <3>1. PICK a : a = Append(Current.to, n)
      OBVIOUS
    <3>2. a \in Seq(Names) /\ IsPrefix(Current.to, a) /\ ~IsPrefix(a, Current.to) /\ Untouched(a)
      BY <1>1, <2>1, <3>1, PrefixOfAppend, UntouchedEntries
    <3> QED BY <2>7, <2>8, <3>1, <3>2 DEF Untouched
  <2>9. Linkless(node', Current.to)
    <3>1. \A q \in Places : IsPrefix(q, Current.to) /\ q # Root => node'[q].kind # "link"
      BY <1>1, <2>1, <2>7, LinklessIs
    <3> QED BY <1>1, <3>1, LinklessIs
  <2> QED BY <1>2, <1>3, <2>1, <2>2, <2>6, <2>7, <2>8, <2>9 DEF TargetCall, Begun, Untouched, Linkless
<1>8. CASE OpenDirectory
  <2>1. Opened("first") /\ node' = node /\ Current.pc = "open"
    BY <1>4, <1>8 DEF OpenDirectory, disk
  <2>2. k.pc = "first"
    <3>1. PICK j : j = [Current EXCEPT !.pc = "first", !.entries = Listed(Current.from)]
      OBVIOUS
    <3>2. calls' = [calls EXCEPT ![Len(calls)] = j]
      BY <1>1, <2>1, <3>1 DEF Opened
    <3>3. k = j
      BY <1>1, <1>2, <1>3, <3>2
    <3> QED BY <1>1, <3>1, <3>3 DEF CallRecords
  <2> QED BY <1>1, <1>2, <1>3, <2>1, <2>2 DEF TargetCall, Begun, Untouched, Linkless
<1>9. CASE LookedAtFiles
  <2>1. PICK pc \in {"write_file", "write_file_into"} :
             /\ Goto(pc)
             /\ Current.pc = IF pc = "write_file" THEN "copy_file" ELSE "copy_file_into"
    BY <1>9 DEF LookedAtFiles
  <2>2. k.pc = pc
    <3>1. calls'[Len(calls)] = [Current EXCEPT !.pc = pc]
      BY <1>1, <1>2, <2>1 DEF Goto
    <3> QED BY <1>1, <1>3, <3>1 DEF CallRecords
  <2>3. node' = node
    BY <1>9 DEF LookedAtFiles, disk
  <2> QED BY <1>1, <1>2, <1>3, <2>1, <2>2, <2>3 DEF TargetCall, Begun, Untouched, Linkless
<1> QED BY <1>4, <1>5, <1>6, <1>7, <1>8, <1>9
    DEF QuietStep, CopySymlink, CreateSymlink, CreateHardLink, CopyFileWhole, Make

\* It reads an entry, and calls the copy of it.
LEMMA TargetReads ==
    ASSUME TargetState, UNCHANGED given, NEW n \in Names, Reads(n), Entered(n),
           NEW k, k = calls'[Len(calls)], NEW new, new = calls'[Len(calls) + 1]
    PROVE  TargetCall(k)' /\ TargetCall(new)'
<1>1. /\ Current \in CallRecords /\ Current.to \in Seq(Names) /\ TargetCall(Current)
      /\ IsPrefix(Target, Current.to) /\ Target \in Seq(Names)
  BY CurrentIs DEF TargetState, Inv, CallsOK
<1>2. /\ Current.pc \in {"first", "next"} /\ node' = node /\ was' = was /\ n \notin Current.read
  BY DEF Reads, Unread, disk, given
<1>4. /\ k.to = Current.to /\ k.pc = "next" /\ k.read = Current.read \cup {n}
      /\ new.to = Append(Current.to, n) /\ new.pc = "look" /\ new.read = {}
  BY DEF Entered
<1>5. TargetCall(k)'
  BY <1>1, <1>2, <1>4 DEF TargetCall, Begun, Untouched, Linkless
<1>6. TargetCall(new)'
  <2>1. PICK a : a = Append(Current.to, n)
    OBVIOUS
  <2>2. Untouched(a) /\ Linkless(node, Current.to)
    BY <1>1, <1>2, <2>1 DEF TargetCall, Begun
  <2>3. a \in Seq(Names) /\ IsPrefix(a, a) /\ IsPrefix(Target, a)
    BY <1>1, <2>1, PrefixOfAppend, PrefixOfSelf
  <2>4. a \in Places => node[a].kind # "link"
    BY <2>2, <2>3 DEF Untouched, TargetState, Direct, Near, IsWithin
  <2>5. Linkless(node, a)
    BY <1>1, <2>1, <2>2, <2>4, LinklessEntry
  <2>6. new.to = a
    BY <1>4, <2>1
  <2>7. \A q \in Places : IsPrefix(a, q) => node'[q] = was'[q]
    BY <1>2, <2>2 DEF Untouched
  <2>8. Untouched(a)' /\ Linkless(node, a)'
    BY <1>2, <2>5, <2>7 DEF Untouched, Linkless
  <2> QED BY <1>4, <2>6, <2>8 DEF TargetCall, Begun
<1> QED BY <1>5, <1>6

LEMMA TargetNext ==
    ASSUME TargetState, QuietStep, Inv'
    PROVE  TargetInv' /\ MakesOne
<1>1. MakesOne /\ UNCHANGED given /\ calls # <<>>
  BY StepMakesOne DEF QuietStep
<1>2. TargetDisk'
  BY <1>1, MakesDisk
<1>3. PICK l : l = Len(calls)
  OBVIOUS
<1>4. /\ l \in Nat \ {0} /\ Len(calls') \in 0..l + 1
      /\ \A i \in 1..Len(calls') : i < l => calls'[i] = calls[i]
      /\ Len(calls') = l => Turns(calls'[l])
      /\ Len(calls') = l + 1 => \E n \in Names : Reads(n) /\ Entered(n)
  BY <1>3, NextCalls DEF TargetState
<1>5. ASSUME NEW i \in 1..Len(calls') PROVE TargetCall(calls[i])'
  <2>1. CASE i < l
    <3>1. PICK k : k = calls[i] /\ k = calls'[i]
      BY <1>4, <2>1
    <3>2. i \in 1..Len(calls) /\ i < Len(calls)
      BY <1>3, <1>4, <2>1
    <3>3. TargetCall(k)'
      BY <1>1, <3>1, <3>2, MakesOuter
    <3> QED BY <3>1, <3>3
  <2>2. CASE ~(i < l) /\ Len(calls') = l
    <3>1. i = l
      BY <1>4, <2>2
    <3>2. PICK k : k = calls'[l]
      OBVIOUS
    <3>3. TargetCall(k)'
      BY <1>1, <1>4, <2>2, <3>2, TargetTurns
    <3> QED BY <3>1, <3>2, <3>3
  <2>3. CASE ~(i < l) /\ Len(calls') # l
    <3>1. Len(calls') = l + 1 /\ (i = l \/ i = l + 1)
      BY <1>4, <2>3
    <3>2. PICK n \in Names : Reads(n) /\ Entered(n)
      BY <1>4, <3>1
    <3>3. PICK k, new : k = calls'[l] /\ new = calls'[l + 1]
      OBVIOUS
    <3>4. TargetCall(k)' /\ TargetCall(new)'
      BY <1>1, <1>3, <3>2, <3>3, TargetReads
    <3> QED BY <3>1, <3>3, <3>4
  <2> QED BY <2>1, <2>2, <2>3
<1> QED BY <1>1, <1>2, <1>5 DEF TargetInv

\* Nothing is beside or below the target that a copy has not made, if no symlink
\* is on the way to it and nothing interferes.
TargetHolds == Beginning /\ (others = 0 /\ Direct => TargetInv)

LEMMA TargetInitially == Init => TargetHolds
<1> SUFFICES ASSUME Init PROVE TargetHolds
  OBVIOUS
<1>1. PICK s \in Starts : node = s.tree /\ Target = s.target
  BY DEF Init
<1>2. was = node /\ others = 0 /\ Target \in Seq(Names) \ {Root}
  BY <1>1, TreeAssumption DEF Init
<1>3. Origin
  BY <1>1, <1>2, TreeAssumption DEF Origin, Shaped, Exists
<1>4. ASSUME NEW p \in Places, was[p].kind = "link" PROVE was[was[p].to].kind # "link"
  BY <1>1, <1>2, <1>4, TreeAssumption
<1>5. Beginning
  BY <1>2, <1>3, <1>4 DEF Beginning
<1>6. PICK k : k = Call(Source, Target)
  OBVIOUS
<1>7. /\ Len(calls) = 1 /\ calls[1] = k /\ \A i \in 1..1 : i = 1
      /\ k.to = Target /\ k.pc = "look" /\ k.read = {}
  BY <1>6 DEF Init, Call
<1>8. ASSUME Direct PROVE TargetInv
  <2>1. TargetDisk
    BY <1>2, <1>3 DEF TargetDisk, Origin
  <2>2. \A p \in Places : IsPrefix(p, Target) /\ p # Root => node[p].kind # "link"
    BY <1>2, <1>8 DEF Direct, Near, IsWithin
  <2>3. Linkless(node, Target)
    BY <1>2, <2>2, LinklessIs
  <2>4. TargetCall(k)
    BY <1>2, <1>7, <2>3 DEF TargetCall, Begun, Untouched
  <2> QED BY <1>7, <2>1, <2>4 DEF TargetInv
<1> QED BY <1>5, <1>8 DEF TargetHolds

LEMMA TargetAlways == Inv /\ Fresh /\ StackInv /\ TargetHolds /\ [Next]_vars => TargetHolds'
<1> SUFFICES ASSUME Inv, Fresh, StackInv, TargetHolds, [Next]_vars PROVE TargetHolds'
  OBVIOUS
<1>1. Inv'
  BY NextInv
<1>2. UNCHANGED given
  BY DEF Next, Step, OtherRemoves, OtherMakes, Disturb, vars
<1>3. Beginning' /\ (Direct' <=> Direct)
  BY <1>2 DEF TargetHolds, Beginning, Origin, Shaped, Direct, Near, given
<1>4. SUFFICES ASSUME others' = 0, Direct PROVE TargetInv'
  BY <1>3 DEF TargetHolds
<1>5. CASE Step
  <2>1. others = 0 /\ QuietStep
    BY <1>4, <1>5, StepsAreQuiet DEF Step
  <2>2. TargetState
    BY <1>4, <1>5, <2>1 DEF TargetState, TargetHolds, Step
  <2> QED BY <1>1, <2>1, <2>2, TargetNext
<1>6. CASE UNCHANGED vars
  <2>1. TargetInv
    BY <1>4, <1>6 DEF TargetHolds, vars
  <2> QED BY <1>6, <2>1 DEF TargetInv, TargetDisk, Shaped, TargetCall, Begun, Untouched, Linkless,
                            vars, disk, given
<1>7. ASSUME NEW p \in Places, OtherRemoves(p) \/ OtherMakes(p) PROVE FALSE
  <2>1. others' = others + 1 /\ others \in Nat
    BY <1>7, PlaceAssumption DEF OtherRemoves, OtherMakes, Disturb, Inv
  <2> QED BY <1>4, <2>1
<1> QED BY <1>5, <1>6, <1>7 DEF Next

-----------------------------------------------------------------------------
(* A directory that is copied into itself.                                 *)

\* The calls whose target is at or below their source, and the entry of the
\* source on the way to the target.
Spine(k) == IsPrefix(k.from, k.to)
NextName(k) == k.to[Len(k.from) + 1]

\* They do not come to an end: the entry is read, and its copy is a call of them.
SpineCall(i) ==
    LET k == calls[i] IN
    Spine(k) =>
        /\ k.pc \in {"look", "create_directory", "open", "first", "next"}
        /\ Target = Source => k.pc = "look"
        /\ k.pc \in {"first", "next"} => NextName(k) \in k.entries
        /\ NextName(k) \in k.read =>
              i < Len(calls) /\ calls[i + 1].from = Append(k.from, NextName(k))

SpineInv == answer # "ok" /\ \A i \in 1..Len(calls) : SpineCall(i)
SpineState == TargetState /\ IntoItself /\ SpineInv

LEMMA NextNameIs ==
    ASSUME NEW x \in Seq(Names), NEW y \in Seq(Names), IsPrefix(x, y), x # y,
           NEW n, n = y[Len(x) + 1]
    PROVE  n \in Names /\ Append(x, n) \in Seq(Names) /\ IsPrefix(Append(x, n), y)
<1>1. /\ Len(x) \in Nat /\ Len(y) \in Nat
      /\ Len(x) <= Len(y) /\ \A i \in 1..Len(x) : y[i] = x[i]
  BY PrefixItems
<1>2. Len(x) + 1 \in 1..Len(y)
  <2>1. Len(x) # Len(y)
    BY <1>1, SeqEqual
  <2> QED BY <1>1, <2>1
<1>3. n \in Names
  <2>1. \A i \in 1..Len(y) : y[i] \in Names
    OBVIOUS
  <2>2. PICK j : j = Len(x) + 1
    OBVIOUS
  <2> QED BY <1>2, <2>1, <2>2
<1>4. PICK a : a = Append(x, n)
  OBVIOUS
<1>5. /\ a \in Seq(Names) /\ Len(a) = Len(x) + 1 /\ a[Len(x) + 1] = n
      /\ \A i \in 1..Len(x) : a[i] = x[i]
  BY <1>3, <1>4, AppendProperties
<1>6. ASSUME NEW i \in 1..Len(a) PROVE y[i] = a[i]
  <2>1. CASE i \in 1..Len(x)
    BY <1>1, <1>5, <2>1
  <2>2. CASE i \notin 1..Len(x)
    <3>1. i = Len(x) + 1
      BY <1>1, <1>5, <2>2
    <3> QED BY <1>5, <3>1
  <2> QED BY <2>1, <2>2
<1>7. Len(a) <= Len(y)
  BY <1>1, <1>2, <1>5
<1>8. IsPrefix(a, y)
  BY <1>5, <1>6, <1>7, PrefixItems
<1> QED BY <1>3, <1>4, <1>5, <1>8

\* What is above a directory that a text without symlinks leads to.
LEMMA LinklessAbove ==
    ASSUME NEW tree, Shaped(tree), NEW y \in Places, y \in Seq(Names), Linkless(tree, y),
           tree[y].kind = "dir", NEW x \in Seq(Names), IsPrefix(x, y), NEW follow
    PROVE  /\ x \in Places /\ tree[x].kind = "dir" /\ Linkless(tree, x)
           /\ Walk(tree, x, follow) = x /\ Found(tree, x, follow) = tree[x]
<1>1. Len(x) \in Nat /\ Len(y) \in Nat /\ Len(x) <= Len(y) /\ Pre(y, Len(x)) = x
  BY PrefixIs
<1>2. Len(x) \in 0..Len(y) /\ Exists(tree[y])
  BY <1>1 DEF Exists
<1>3. x \in Places
  BY <1>1, <1>2, PrePlaces
<1>4. tree[x].kind = "dir"
  <2>1. CASE Len(x) = Len(y)
    <3>1. x = y
      BY <1>1, <2>1, PreEnds
    <3> QED BY <3>1
  <2>2. CASE Len(x) # Len(y)
    <3>1. Len(x) \in 0..Len(y) - 1
      BY <1>1, <2>2
    <3> QED BY <1>1, <1>2, <3>1, ShapedUp
  <2> QED BY <2>1, <2>2
<1>5. Linkless(tree, x)
  <2>1. \A p \in Places : p \in Seq(Names)
    BY PlaceAssumption
  <2>2. \A p \in Places : IsPrefix(p, x) => IsPrefix(p, y)
    BY <2>1, PrefixOfPrefix
  <2>3. \A p \in Places : IsPrefix(p, x) /\ p # Root => tree[p].kind # "link"
    BY <2>2, LinklessIs
  <2> QED BY <2>3, LinklessIs
<1>6. Exists(tree[x])
  BY <1>4 DEF Exists
<1> QED BY <1>3, <1>4, <1>5, <1>6, LinklessFound

\* The source of such a call is a directory.
LEMMA SpineIsDir ==
    ASSUME SpineState, NEW i \in 1..Len(calls), NEW k, k = calls[i], Spine(k), NEW follow
    PROVE  /\ k.from \in Seq(Names) /\ k.to \in Seq(Names) /\ (k.from = k.to <=> Target = Source)
           /\ k.from \in Places /\ node[k.from].kind = "dir"
           /\ Stat(k.from, follow) = node[k.from]
<1>1. PICK w : w = At(k)
  OBVIOUS
<1>2. /\ k.from \in Seq(Names) /\ k.to \in Seq(Names) /\ w \in Seq(Names) /\ Len(w) = i - 1
      /\ k.from = Source \o w /\ k.to = Target \o w
      /\ Source \in Seq(Names) /\ Source \in Places /\ Target \in Seq(Names)
      /\ IsPrefix(Source, Target) /\ was[Source].kind = "dir"
      /\ Linkless(node, k.to) /\ Shaped(node) /\ Grown(was, node)
      /\ IsPrefix(k.from, k.to)
  <2>1. TargetDisk /\ TargetCall(k)
    BY DEF SpineState, TargetState, TargetInv
  <2>2. Grown(was, node)
    BY <2>1 DEF SpineState, TargetState, Beginning, Origin, Shaped, Grown, TargetDisk
  <2> QED BY <1>1, <2>1, <2>2, AtIs, PlaceAssumption
       DEF SpineState, TargetState, IntoItself, IsWithin, TargetCall, TargetDisk, Inv, CallsOK, Spine
<1>3. /\ Len(k.from) = Len(Source) + Len(w) /\ Len(k.to) = Len(Target) + Len(w)
      /\ Len(Source) \in Nat /\ Len(Target) \in Nat /\ Len(w) \in Nat /\ Len(Source) <= Len(Target)
  <2>1. Len(Source \o w) = Len(Source) + Len(w) /\ Len(Target \o w) = Len(Target) + Len(w)
    BY <1>2, ConcatProperties
  <2>2. Len(Source) <= Len(Target)
    BY <1>2, PrefixIs
  <2> QED BY <1>2, <2>1, <2>2
<1>4. k.from = k.to <=> Target = Source
  <2>1. ASSUME k.from = k.to PROVE Target = Source
    <3>1. Len(Source) = Len(Target) /\ IsPrefix(Target, Target)
      BY <1>2, <1>3, <2>1, PrefixOfSelf
    <3> QED BY <1>2, <3>1, PrefixOfPrefix
  <2>2. Target = Source => k.from = k.to
    BY <1>2
  <2> QED BY <2>1, <2>2
<1>5. Linkless(node, k.from)
  <2>1. \A p \in Places : p \in Seq(Names)
    BY PlaceAssumption
  <2>2. \A p \in Places : IsPrefix(p, k.from) => IsPrefix(p, k.to)
    BY <1>2, <2>1, PrefixOfPrefix
  <2>3. \A p \in Places : IsPrefix(p, k.from) /\ p # Root => node[p].kind # "link"
    BY <1>2, <2>2, LinklessIs
  <2> QED BY <1>2, <2>3, LinklessIs
<1>6. k.from \in Places /\ node[k.from].kind = "dir"
  <2>1. CASE i = 1
    <3>1. k.from = Source
      BY <2>1 DEF SpineState, TargetState, Inv, CallsOK, Stacked
    <3> QED BY <1>2, <3>1 DEF Grown, Exists
  <2>2. CASE i # 1
    <3>1. PICK j : j = i - 1
      OBVIOUS
    <3>2. j \in 1..Len(calls) /\ j < i /\ Len(calls) \in Nat
      BY <2>2, <3>1
    <3>3. PICK h : h = calls[j]
      OBVIOUS
    <3>4. /\ h.pc = "next" /\ h.to \in Seq(Names) /\ h.read \subseteq Names
          /\ \E m \in h.read : IsPrefix(Append(h.to, m), k.to)
      BY <3>2, <3>3, OuterTo DEF SpineState, TargetState
    <3>5. PICK m \in h.read : IsPrefix(Append(h.to, m), k.to)
      BY <3>4
    <3>6. TargetCall(h)
      BY <3>2, <3>3 DEF SpineState, TargetState, TargetInv
    <3>7. h.to \in Places /\ node[h.to].kind = "dir" /\ Linkless(node, h.to)
      BY <3>4, <3>6 DEF TargetCall, Begun
    <3>8. IsPrefix(h.to, k.to)
      <4>1. PICK a : a = Append(h.to, m)
        OBVIOUS
      <4>2. a \in Seq(Names) /\ IsPrefix(h.to, a)
        BY <3>4, <4>1, PrefixOfAppend
      <4>3. IsPrefix(a, k.to) /\ h.to \in Seq(Names) /\ k.to \in Seq(Names)
        BY <1>2, <3>4, <3>5, <4>1
      <4> QED BY <4>2, <4>3, PrefixOfPrefix
    <3>9. Len(h.to) = Len(Target) + j - 1
      <4>1. PICK v : v = At(h)
        OBVIOUS
      <4>2. v \in Seq(Names) /\ Len(v) = j - 1 /\ h.to = Target \o v
        BY <3>2, <3>3, <4>1, AtIs DEF SpineState, TargetState
      <4>3. Len(h.to) = Len(Target) + Len(v)
        BY <1>2, <4>2, ConcatProperties
      <4> QED BY <1>3, <3>2, <4>2, <4>3
    <3>10. IsPrefix(k.from, h.to)
      <4>1. CASE Len(Source) = Len(Target)
        <5>1. Source = Target
          BY <1>2, <4>1, PrefixOfPrefix, PrefixOfSelf
        <5>2. PICK v : v = At(h)
          OBVIOUS
        <5>3. v \in Seq(Names) /\ h.from = Source \o v /\ h.to = Target \o v /\ h.from \in Seq(Names)
          BY <3>2, <3>3, <5>2, AtIs DEF SpineState, TargetState
        <5>4. h.from = h.to
          BY <5>1, <5>3
        <5>5. IsPrefix(h.from, h.to)
          BY <5>3, <5>4, PrefixOfSelf
        <5>6. h.pc = "look"
          BY <3>2, <3>3, <5>1, <5>5 DEF SpineState, SpineInv, SpineCall, Spine
        <5> QED BY <3>4, <5>6
      <4>2. CASE Len(Source) # Len(Target)
        <5>1. Len(k.from) <= Len(h.to)
          BY <1>2, <1>3, <3>1, <3>2, <3>9, <4>2
        <5> QED BY <1>2, <3>4, <3>8, <5>1, PrefixOfPrefix
      <4> QED BY <4>1, <4>2
    <3>11. PICK x, y : x = k.from /\ y = h.to
      OBVIOUS
    <3>12. /\ Shaped(node) /\ y \in Places /\ y \in Seq(Names) /\ Linkless(node, y)
           /\ node[y].kind = "dir" /\ x \in Seq(Names) /\ IsPrefix(x, y)
      BY <1>2, <3>4, <3>7, <3>10, <3>11
    <3>13. x \in Places /\ node[x].kind = "dir"
      BY <3>12, LinklessAbove
    <3> QED BY <3>11, <3>13
  <2> QED BY <2>1, <2>2
<1>7. Exists(node[k.from])
  BY <1>6 DEF Exists
<1>8. Found(node, k.from, follow) = node[k.from]
  BY <1>2, <1>5, <1>6, <1>7, LinklessFound
<1> QED BY <1>2, <1>4, <1>6, <1>8 DEF Stat

\* The entry on the way to the target is in the source as long as the target is.
LEMMA SpineEntry ==
    ASSUME SpineState, NEW i \in 1..Len(calls), NEW k, k = calls[i], Spine(k), Begun(k),
           Target # Source
    PROVE  NextName(k) \in Listed(k.from) /\ NextName(k) \in Names
<1>1. PICK x, y, n : x = k.from /\ y = k.to /\ n = y[Len(x) + 1]
  OBVIOUS
<1>2. x \in Seq(Names) /\ y \in Seq(Names) /\ x # y /\ IsPrefix(x, y)
  BY <1>1, SpineIsDir DEF Spine
<1>3. /\ y \in Places /\ node[y].kind = "dir" /\ Linkless(node, y) /\ Shaped(node)
  BY <1>1 DEF SpineState, TargetState, TargetInv, TargetCall, TargetDisk
<1>4. n \in Names /\ Append(x, n) \in Seq(Names) /\ IsPrefix(Append(x, n), y)
  BY <1>1, <1>2, NextNameIs
<1>5. PICK z : z = Append(x, n)
  OBVIOUS
<1>6. node[z].kind = "dir" /\ Found(node, z, FALSE) = node[z]
  <2>1. z \in Seq(Names) /\ IsPrefix(z, y) /\ y \in Seq(Names) /\ y \in Places
    BY <1>2, <1>3, <1>4, <1>5
  <2>2. PICK tree : tree = node /\ Shaped(tree) /\ Linkless(tree, y) /\ tree[y].kind = "dir"
    BY <1>3
  <2>3. tree[z].kind = "dir" /\ \A follow : Found(tree, z, follow) = tree[z]
    BY <2>1, <2>2, LinklessAbove
  <2> QED BY <2>2, <2>3
<1>7. n \in Listed(x)
  BY <1>4, <1>5, <1>6 DEF Listed, Stat, Exists
<1> QED BY <1>1, <1>4, <1>7 DEF NextName

\* A look at it never leads to a return.
LEMMA SpineLook ==
    ASSUME SpineState, Spine(Current), Look
    PROVE  ~Return /\ (Len(calls') = Len(calls) =>
               Target # Source /\ Chosen(LookFrom, LookTo) \in {"create_directory", "open"})
<1>1. /\ Len(calls) \in 1..Len(calls) /\ Current = calls[Len(calls)] /\ calls # <<>>
  BY CurrentIs DEF SpineState, TargetState
<1>2. \A f : Stat(Current.from, f) = node[Current.from] /\ node[Current.from].kind = "dir"
             /\ (Current.from = Current.to <=> Target = Source)
  BY <1>1, SpineIsDir DEF SpineState
<1>3. LookFrom.kind = "dir" /\ LookFrom = node[Current.from]
  BY <1>2 DEF LookFrom
<1>4. Recursive
  BY DEF SpineState, IntoItself
<1>5. Chosen(LookFrom, LookTo) \in {"fail", "create_directory", "open"}
  BY <1>3, <1>4 DEF Chosen
<1>6. ASSUME Target = Source PROVE Equivalent(LookFrom, LookTo)
  <2>1. LookTo = node[Current.from]
    BY <1>2, <1>6 DEF LookTo
  <2> QED BY <1>3, <2>1 DEF Equivalent, Exists
<1>7. Fail \/ Goto(Chosen(LookFrom, LookTo))
  <2>1. Follows = ~(Has("create_symlinks") \/ Has("skip_symlinks") \/ Has("copy_symlinks"))
    BY DEF Follows, Has
  <2>2. LookFrom = Stat(Current.from,
             ~(Has("create_symlinks") \/ Has("skip_symlinks") \/ Has("copy_symlinks")))
    BY <2>1 DEF LookFrom
  <2>3. PICK f, t : f = LookFrom /\ t = LookTo
    OBVIOUS
  <2>4. Chosen(f, t) # "return"
    BY <1>5, <2>3
  <2>5. Fail \/ Goto(Chosen(f, t))
    BY <2>2, <2>3, <2>4 DEF Look, LookTo
  <2> QED BY <2>3, <2>5
<1>8. ~Return
  <2>1. calls \in Seq(CallRecords) /\ Len(calls) # 0 /\ Len(calls) \in Nat
    BY <1>1, CurrentType DEF SpineState, TargetState
  <2>2. Len(Front(calls)) = Len(calls) - 1
    BY <2>1, FrontIs
  <2>3. Goto(Chosen(LookFrom, LookTo)) => Len(calls') = Len(calls)
    BY <2>1 DEF Goto
  <2>4. Goto(Chosen(LookFrom, LookTo)) => ~Return
    BY <2>1, <2>2, <2>3 DEF Return
  <2>5. Fail => ~Return
    BY DEF Fail, Return, SpineState, TargetState, Inv, CallsOK
  <2> QED BY <1>7, <2>4, <2>5
<1>9. Len(calls') = Len(calls) => ~Equivalent(LookFrom, LookTo) /\ Chosen(LookFrom, LookTo) \in Steps
  BY <1>1, LookGoes DEF SpineState, TargetState
<1> QED BY <1>5, <1>6, <1>8, <1>9 DEF Steps

\* Nor does any of its steps.
LEMMA SpineReturns ==
    ASSUME SpineState, QuietStep, unread' = FALSE, Return
    PROVE  ~Spine(Current)
<1> SUFFICES ASSUME Spine(Current) PROVE FALSE
  OBVIOUS
<1>1. /\ Len(calls) \in 1..Len(calls) /\ Current = calls[Len(calls)] /\ calls # <<>>
      /\ calls \in Seq(CallRecords) /\ Len(calls) \in Nat \ {0} /\ Current \in CallRecords
  BY CurrentIs, CurrentType DEF SpineState, TargetState
<1>2. Len(calls') = Len(calls) - 1
  BY <1>1, FrontIs DEF Return
<1>3. /\ Current.pc \in {"look", "create_directory", "open", "first", "next"}
      /\ Target = Source => Current.pc = "look"
      /\ Current.pc \in {"first", "next"} => NextName(Current) \in Current.entries
      /\ NextName(Current) \notin Current.read
  <2>1. SpineCall(Len(calls)) /\ ~(Len(calls) < Len(calls))
    BY <1>1 DEF SpineState, SpineInv
  <2> QED BY <1>1, <2>1 DEF SpineCall
<1>4. ~Fail
  BY <1>1 DEF Fail, Return, SpineState, TargetState, Inv, CallsOK
<1>5. ~Look
  BY SpineLook
<1>6. \A pc : ~Goto(pc) /\ ~Opened(pc)
  <2>1. ASSUME NEW pc, Goto(pc) \/ Opened(pc) PROVE Len(calls') = Len(calls)
    BY <1>1, <2>1 DEF Goto, Opened
  <2> QED BY <1>1, <1>2, <2>1
<1>7. ReadNext /\ Current.pc \in {"first", "next"}
  BY <1>3, <1>4, <1>5, <1>6 DEF QuietStep, CopySymlink, CreateSymlink, CreateHardLink, LookedAtFiles,
                                CopyFileWhole, CreateDirectory, OpenDirectory, ReadNext
<1>8. \A n : ~CopyEntry(n)
  <2>1. ASSUME NEW n, CopyEntry(n) PROVE FALSE
    <3>1. PICK j : j = [Current EXCEPT !.pc = "next", !.read = @ \cup {n}]
      OBVIOUS
    <3>2. PICK new : new = Call(Append(Current.from, n), Append(Current.to, n))
      OBVIOUS
    <3>3. PICK s : s = [calls EXCEPT ![Len(calls)] = j]
      OBVIOUS
    <3>4. calls' = Append(s, new)
      BY <1>1, <2>1, <3>1, <3>2, <3>3 DEF CopyEntry
    <3>5. Len(s) = Len(calls)
      BY <3>3
    <3>6. Len(calls') = Len(s) + 1
      BY <3>4
    <3> QED BY <1>1, <1>2, <3>5, <3>6
  <2> QED BY <2>1
<1>9. AtEnd
  BY <1>7, <1>8 DEF ReadNext
<1>10. Target # Source /\ Begun(Current)
  BY <1>3, <1>7 DEF Begun
<1>11. NextName(Current) \in Listed(Current.from)
  BY <1>1, <1>10, SpineEntry
<1> QED BY <1>3, <1>7, <1>9, <1>11 DEF AtEnd

\* The entry that is read for it is the next of these calls.
LEMMA SpineTurns ==
    ASSUME SpineState, QuietStep, unread' = FALSE, NEW h, Turns(h), Spine(Current)
    PROVE  /\ Target # Source /\ h.pc \in {"create_directory", "open", "first"} /\ h.read = {}
           /\ h.pc = "first" => NextName(Current) \in h.entries
<1>1. /\ Len(calls) \in 1..Len(calls) /\ Current = calls[Len(calls)] /\ calls # <<>>
      /\ calls \in Seq(CallRecords) /\ Len(calls) \in Nat \ {0} /\ Current \in CallRecords
      /\ TargetCall(Current)
  BY CurrentIs, CurrentType DEF SpineState, TargetState
<1>2. /\ calls' = [calls EXCEPT ![Len(calls)] = h] /\ h.read = Current.read
  BY DEF Turns
<1>3. calls'[Len(calls)] = h /\ Len(calls') = Len(calls)
  BY <1>1, <1>2
<1>4. /\ Current.pc \in {"look", "create_directory", "open", "first", "next"}
      /\ Target = Source => Current.pc = "look"
  BY <1>1 DEF SpineState, SpineInv, SpineCall
<1>5. ~Fail /\ ~Return
  <2>1. Len(Front(calls)) = Len(calls) - 1
    BY <1>1, FrontIs
  <2>2. Len(<<>>) = 0
    OBVIOUS
  <2> QED BY <1>1, <1>3, <2>1, <2>2 DEF Return, Fail
<1>6. CASE Look
  <2>1. h = [Current EXCEPT !.pc = Chosen(LookFrom, LookTo)] /\ Chosen(LookFrom, LookTo) \in Steps
    BY <1>1, <1>3, <1>6, LookGoes DEF SpineState, TargetState
  <2>2. h.pc = Chosen(LookFrom, LookTo)
    BY <1>1, <2>1 DEF CallRecords
  <2>3. Current.read = {}
    BY <1>1, <1>6 DEF Look, TargetCall
  <2> QED BY <1>2, <1>3, <1>6, <2>2, <2>3, SpineLook
<1>7. CASE CreateDirectory
  <2>1. Goto("open") /\ Current.pc = "create_directory"
    BY <1>5, <1>7 DEF CreateDirectory
  <2>2. h = [Current EXCEPT !.pc = "open"]
    BY <1>1, <1>3, <2>1 DEF Goto
  <2>3. h.pc = "open"
    BY <1>1, <2>2 DEF CallRecords
  <2>4. Current.read = {}
    BY <1>1, <2>1 DEF TargetCall
  <2> QED BY <1>2, <1>4, <2>1, <2>3, <2>4
<1>8. CASE OpenDirectory
  <2>1. Opened("first") /\ Current.pc = "open"
    BY <1>5, <1>8 DEF OpenDirectory
  <2>2. PICK j : j = [Current EXCEPT !.pc = "first", !.entries = Listed(Current.from)]
    OBVIOUS
  <2>3. calls' = [calls EXCEPT ![Len(calls)] = j]
    BY <1>1, <2>1, <2>2 DEF Opened
  <2>4. h = j
    BY <1>1, <1>2, <1>3, <2>3
  <2>5. h.pc = "first" /\ h.entries = Listed(Current.from)
    BY <1>1, <2>2, <2>4 DEF CallRecords
  <2>6. Current.read = {} /\ Target # Source
    BY <1>1, <1>4, <2>1 DEF TargetCall
  <2>7. NextName(Current) \in Listed(Current.from)
    BY <1>1, <2>1, <2>6, SpineEntry DEF Begun
  <2> QED BY <1>2, <2>5, <2>6, <2>7
<1>9. ~ReadNext
  <2>1. ASSUME NEW n, CopyEntry(n) PROVE FALSE
    <3>1. PICK j : j = [Current EXCEPT !.pc = "next", !.read = @ \cup {n}]
      OBVIOUS
    <3>2. PICK new : new = Call(Append(Current.from, n), Append(Current.to, n))
      OBVIOUS
    <3>3. PICK s : s = [calls EXCEPT ![Len(calls)] = j]
      OBVIOUS
    <3>4. calls' = Append(s, new)
      BY <1>1, <2>1, <3>1, <3>2, <3>3 DEF CopyEntry
    <3>5. Len(s) = Len(calls)
      BY <3>3
    <3>6. Len(calls') = Len(s) + 1
      BY <3>4
    <3> QED BY <1>1, <1>3, <3>5, <3>6
  <2> QED BY <1>5, <2>1 DEF ReadNext
<1> QED BY <1>4, <1>5, <1>6, <1>7, <1>8, <1>9
    DEF QuietStep, CopySymlink, CreateSymlink, CreateHardLink, LookedAtFiles, CopyFileWhole

\* The copy of the entry on the way to the target is such a call as well.
LEMMA SpineChild ==
    ASSUME SpineState, NEW i \in 1..Len(calls), i + 1 \in 1..Len(calls), NEW k, k = calls[i],
           Spine(k), NextName(k) \in k.read
    PROVE  Spine(calls[i + 1])
<1>1. PICK h, x, y, n, w : h = calls[i + 1] /\ x = k.from /\ y = k.to /\ n = y[Len(x) + 1] /\ w = At(k)
  OBVIOUS
<1>2. /\ x \in Seq(Names) /\ y \in Seq(Names) /\ w \in Seq(Names)
      /\ x = Source \o w /\ y = Target \o w /\ IsPrefix(Source, x)
      /\ Source \in Seq(Names) /\ Target \in Seq(Names)
  BY <1>1, AtIs, PlaceAssumption DEF SpineState, TargetState, Inv, CallsOK
<1>3. SpineCall(i) /\ IsPrefix(x, y) /\ k.pc = "next"
  BY <1>1 DEF SpineState, SpineInv, Spine, TargetState, Inv, CallsOK, Stacked
<1>4. h.from = Append(x, n) /\ Target # Source
  BY <1>1, <1>3 DEF SpineCall, Spine, NextName
<1>5. x # y
  BY <1>1, <1>4, SpineIsDir
<1>6. n \in Names /\ Append(x, n) \in Seq(Names) /\ IsPrefix(Append(x, n), y)
  BY <1>1, <1>2, <1>3, <1>5, NextNameIs
<1>7. At(h) = Append(w, n)
  <2>1. Rest(Append(x, n)) = Append(Rest(x), n)
    BY <1>2, <1>6, RestOfEntry
  <2> QED BY <1>1, <1>4, <2>1 DEF At
<1>8. h.to = Target \o At(h)
  BY <1>1, AtIs DEF SpineState, TargetState
<1>9. h.to = Append(y, n)
  <2>1. Append(Target \o w, n) = Target \o Append(w, n)
    BY <1>2, <1>6, AppendOfConcat
  <2> QED BY <1>2, <1>7, <1>8, <2>1
<1>10. PICK a : a = Append(x, n)
  OBVIOUS
<1>11. IsPrefix(a, Append(y, n))
  <2>1. a \in Seq(Names) /\ IsPrefix(a, y)
    BY <1>6, <1>10
  <2> QED BY <1>2, <1>6, <2>1, PrefixOfAppend
<1> QED BY <1>1, <1>4, <1>9, <1>10, <1>11 DEF Spine

LEMMA SpineNext ==
    ASSUME SpineState, QuietStep, Inv', unread' = FALSE
    PROVE  SpineInv'
<1>1. PICK l : l = Len(calls)
  OBVIOUS
<1>2. /\ l \in Nat \ {0} /\ Current = calls[l] /\ Len(calls') \in 0..l + 1 /\ l \in 1..Len(calls)
      /\ \A i \in 1..Len(calls') : i < l => calls'[i] = calls[i]
      /\ Len(calls') >= l => calls'[l].from = Current.from /\ calls'[l].to = Current.to
      /\ Len(calls') = l => Turns(calls'[l])
      /\ Len(calls') = l + 1 => \E n \in Names : Reads(n) /\ Entered(n)
      /\ Len(calls') < l => Fail \/ (Return /\ Len(calls') = l - 1)
  <2>1. /\ l \in Nat \ {0} /\ Current = calls[l] /\ Len(calls') \in 0..l + 1
        /\ \A i \in 1..Len(calls') : i < l => calls'[i] = calls[i]
        /\ Len(calls') >= l =>
                 /\ calls'[l].from = Current.from /\ calls'[l].to = Current.to
                 /\ Current.read \subseteq calls'[l].read
        /\ Len(calls') = l => Turns(calls'[l])
        /\ Len(calls') = l + 1 => \E n \in Names : Reads(n) /\ Entered(n)
        /\ Len(calls') < l => Fail \/ (Return /\ Len(calls') = l - 1)
    BY <1>1, NextCalls DEF SpineState, TargetState
  <2> QED BY <1>1, <2>1
<1>3. answer = "none" /\ Target' = Target
  BY CurrentIs DEF SpineState, TargetState, QuietStep, given
<1>4. \A i \in 1..l : SpineCall(i)
  BY <1>1 DEF SpineState, SpineInv
<1>5. CASE Fail
  <2>1. calls' = <<>> /\ answer' = "error" /\ Len(calls') = 0
    BY <1>5 DEF Fail
  <2> QED BY <2>1 DEF SpineInv
<1>6. ASSUME ~Fail PROVE Len(calls') >= l \/ (Return /\ Len(calls') = l - 1)
  BY <1>2, <1>6
<1>7. ASSUME ~Fail, NEW i \in 1..Len(calls'), i < l PROVE SpineCall(i)'
  <2>1. calls'[i] = calls[i] /\ i \in 1..Len(calls) /\ i \in 1..l
    BY <1>1, <1>2, <1>7
  <2>2. PICK k : k = calls[i]
    OBVIOUS
  <2>3. SUFFICES ASSUME Spine(k)
        PROVE  /\ k.pc \in {"look", "create_directory", "open", "first", "next"}
               /\ Target = Source => k.pc = "look"
               /\ k.pc \in {"first", "next"} => NextName(k) \in k.entries
               /\ NextName(k) \in k.read =>
                     i < Len(calls') /\ calls'[i + 1].from = Append(k.from, NextName(k))
    BY <1>3, <2>1, <2>2 DEF SpineCall, Spine, NextName
  <2>4. /\ k.pc \in {"look", "create_directory", "open", "first", "next"}
        /\ Target = Source => k.pc = "look"
        /\ k.pc \in {"first", "next"} => NextName(k) \in k.entries
        /\ NextName(k) \in k.read =>
              i < Len(calls) /\ calls[i + 1].from = Append(k.from, NextName(k))
    BY <1>4, <2>1, <2>2, <2>3 DEF SpineCall
  <2>5. CASE i + 1 <= Len(calls')
    <3>1. i + 1 \in 1..Len(calls') /\ (i + 1 < l \/ i + 1 = l) /\ i < Len(calls')
      BY <1>2, <1>7, <2>5
    <3>2. calls'[i + 1].from = calls[i + 1].from
      BY <1>2, <3>1
    <3> QED BY <2>4, <3>1, <3>2
  <2>6. CASE ~(i + 1 <= Len(calls'))
    <3>1. Return /\ i + 1 = l
      BY <1>2, <1>6, <1>7, <2>6
    <3>2. ASSUME NextName(k) \in k.read PROVE FALSE
      <4>1. Spine(calls[i + 1])
        BY <1>1, <1>2, <2>1, <2>2, <2>3, <3>1, <3>2, SpineChild
      <4> QED BY <1>2, <3>1, <4>1, SpineReturns
    <3> QED BY <2>4, <3>2
  <2> QED BY <2>5, <2>6
<1>8. ASSUME Len(calls') = l PROVE SpineCall(l)'
  <2>1. PICK h : h = calls'[l]
    OBVIOUS
  <2>2. Turns(h) /\ h.from = Current.from /\ h.to = Current.to
    BY <1>2, <1>8, <2>1
  <2>3. SUFFICES ASSUME Spine(h)
        PROVE  /\ h.pc \in {"create_directory", "open", "first"} /\ Target # Source
               /\ h.pc \in {"first", "next"} => NextName(h) \in h.entries
               /\ NextName(h) \notin h.read
    BY <1>3, <2>1 DEF SpineCall, Spine, NextName
  <2>4. Spine(Current) /\ NextName(h) = NextName(Current)
    BY <2>2, <2>3 DEF Spine, NextName
  <2>5. /\ Target # Source /\ h.pc \in {"create_directory", "open", "first"} /\ h.read = {}
        /\ h.pc = "first" => NextName(Current) \in h.entries
    BY <2>2, <2>4, SpineTurns
  <2> QED BY <2>4, <2>5
<1>9. ASSUME Len(calls') = l + 1 PROVE SpineCall(l)' /\ SpineCall(l + 1)'
  <2>1. PICK h, new : h = calls'[l] /\ new = calls'[l + 1]
    OBVIOUS
  <2>2. PICK n \in Names : Reads(n) /\ Entered(n)
    BY <1>2, <1>9
  <2>3. /\ h.from = Current.from /\ h.to = Current.to /\ h.pc = "next"
        /\ h.entries = Current.entries /\ h.read = Current.read \cup {n}
        /\ new.from = Append(Current.from, n) /\ new.pc = "look" /\ new.read = {}
    BY <1>1, <2>1, <2>2 DEF Entered
  <2>4. SpineCall(l + 1)'
    <3>1. /\ new.pc \in {"look", "create_directory", "open", "first", "next"}
          /\ new.pc \notin {"first", "next"} /\ NextName(new) \notin new.read
      BY <2>3
    <3> QED BY <2>1, <2>3, <3>1 DEF SpineCall, Spine, NextName
  <2>5. SpineCall(l)'
    <3>1. SUFFICES ASSUME Spine(h)
          PROVE  /\ Target # Source
                 /\ NextName(h) \in h.entries
                 /\ NextName(h) \in h.read => new.from = Append(h.from, NextName(h)) /\ l < Len(calls')
      BY <1>3, <2>1, <2>3 DEF SpineCall, Spine, NextName
    <3>2. Spine(Current) /\ NextName(h) = NextName(Current)
      BY <2>3, <3>1 DEF Spine, NextName
    <3>3. Current.pc \in {"first", "next"}
      BY <2>2 DEF Reads
    <3>4. /\ Target = Source => Current.pc = "look"
          /\ NextName(Current) \in Current.entries
          /\ NextName(Current) \notin Current.read
      <4>1. SpineCall(l) /\ ~(l < Len(calls))
        BY <1>1, <1>2, <1>4
      <4> QED BY <1>2, <3>2, <3>3, <4>1 DEF SpineCall
    <3>5. l < Len(calls')
      BY <1>2, <1>9
    <3> QED BY <2>3, <3>2, <3>3, <3>4, <3>5
  <2> QED BY <2>4, <2>5
<1>10. ASSUME ~Fail PROVE answer' # "ok"
  <2>1. ASSUME Return, l = 1 PROVE FALSE
    <3>1. Current.from = Source /\ Current.to = Target
      <4>1. PICK w : w = At(calls[1])
        OBVIOUS
      <4>2. w \in Seq(Names) /\ Len(w) = 1 - 1 /\ calls[1].from = Source \o w /\ calls[1].to = Target \o w
        BY <1>1, <1>2, <2>1, <4>1, AtIs DEF SpineState, TargetState
      <4>3. w = <<>> /\ Source \in Seq(Names) /\ Target \in Seq(Names)
        BY <4>2, EmptySeq, PlaceAssumption DEF SpineState, TargetState, Inv, CallsOK
      <4> QED BY <1>2, <2>1, <4>2, <4>3, ConcatEmptySeq
    <3>2. Spine(Current)
      BY <3>1 DEF Spine, SpineState, IntoItself, IsWithin
    <3> QED BY <2>1, <3>2, SpineReturns
  <2>2. Return => answer' = IF l = 1 THEN "ok" ELSE answer
    BY <1>1 DEF Return
  <2>3. Len(calls') >= l => answer' = answer
    <3>1. Len(calls') = l \/ Len(calls') = l + 1 \/ Len(calls') < l
      BY <1>2
    <3>2. Len(calls') = l => answer' = answer
      BY <1>2 DEF Turns
    <3>3. Len(calls') = l + 1 => answer' = answer
      BY <1>2 DEF Entered
    <3> QED BY <1>2, <3>1, <3>2, <3>3
  <2> QED BY <1>3, <1>6, <1>10, <2>1, <2>2, <2>3
<1>11. ASSUME ~Fail, NEW i \in 1..Len(calls') PROVE SpineCall(i)'
  <2>1. i < l \/ (i = l /\ Len(calls') = l) \/ (Len(calls') = l + 1 /\ (i = l \/ i = l + 1))
    BY <1>2
  <2> QED BY <1>7, <1>8, <1>9, <1>11, <2>1
<1> QED BY <1>5, <1>10, <1>11 DEF SpineInv

\* A directory is not copied into itself without an error, or to itself.
SpineHolds == others = 0 /\ ~unread /\ IntoItself => SpineInv

LEMMA SpineInitially == Init => SpineHolds
<1> SUFFICES ASSUME Init PROVE SpineInv
  BY DEF SpineHolds
<1>1. PICK k : k = Call(Source, Target)
  OBVIOUS
<1>2. /\ Len(calls) = 1 /\ calls[1] = k /\ \A i \in 1..1 : i = 1
      /\ k.pc = "look" /\ k.read = {} /\ answer = "none"
  BY <1>1 DEF Init, Call
<1>3. SpineCall(1)
  BY <1>2 DEF SpineCall
<1> QED BY <1>2, <1>3 DEF SpineInv

LEMMA SpineAlways ==
    Inv /\ Fresh /\ StackInv /\ TargetHolds /\ SpineHolds /\ [Next]_vars => SpineHolds'
<1> SUFFICES ASSUME Inv, Fresh, StackInv, TargetHolds, SpineHolds, [Next]_vars PROVE SpineHolds'
  OBVIOUS
<1>1. Inv'
  BY NextInv
<1>0. SUFFICES ASSUME others' = 0, unread' = FALSE, IntoItself' PROVE SpineInv'
  <2>1. ~unread' => unread' = FALSE
    BY <1>1 DEF Inv
  <2> QED BY <2>1 DEF SpineHolds
<1>2. UNCHANGED given
  BY DEF Next, Step, OtherRemoves, OtherMakes, Disturb, vars
<1>3. IntoItself
  BY <1>0, <1>2 DEF IntoItself, Direct, Near, IsWithin, Recursive, Has, given
<1>4. CASE Step
  <2>1. ~unread
    BY <1>0, <1>4 DEF Step, Look, CopySymlink, CreateSymlink, CreateHardLink, LookAtFiles, WriteFile,
                 CreateDirectory, OpenDirectory, ReadNext, CopyEntry, Inv
  <2>2. others = 0 /\ calls # <<>>
    BY <1>0, <1>4 DEF Step
  <2>3. SpineState
    BY <1>3, <2>1, <2>2 DEF SpineState, TargetState, TargetHolds, SpineHolds, IntoItself
  <2>4. QuietStep
    BY <1>4, <2>2, StepsAreQuiet
  <2> QED BY <1>0, <1>1, <2>3, <2>4, SpineNext
<1>5. CASE UNCHANGED vars
  <2>1. SpineInv
    BY <1>0, <1>3, <1>5 DEF SpineHolds, vars
  <2> QED BY <1>5, <2>1 DEF SpineInv, SpineCall, vars, given
<1>6. ASSUME NEW p \in Places, OtherRemoves(p) \/ OtherMakes(p) PROVE FALSE
  <2>1. others' = others + 1 /\ others \in Nat
    BY <1>6, PlaceAssumption DEF OtherRemoves, OtherMakes, Disturb, Inv
  <2> QED BY <1>0, <2>1
<1> QED BY <1>4, <1>5, <1>6 DEF Next

-----------------------------------------------------------------------------
(* The side of the source.                                                 *)

\* A text leads to a directory that has nothing to do with the target.
Away(x) ==
    LET p == Walk(was, x, TRUE) IN p \in Places /\ was[p].kind = "dir" /\ ~Near(p)

\* What a text leads to has nothing to do with the target, and so stays as it was.
Steady(x) ==
    /\ \A f : Walk(node, x, f) = Walk(was, x, f)
    /\ Found(node, x, FALSE) = Found(was, x, FALSE) /\ Found(node, x, Follows) = Seen(x)
    /\ Walk(was, x, FALSE) # Void => ~Near(Walk(was, x, FALSE))
    /\ Walk(was, x, Follows) # Void => ~Near(Walk(was, x, Follows))
    /\ Seen(x).kind = "dir" => Away(x) /\ Found(node, x, TRUE) = Seen(x)

ApartState == Beginning /\ TargetDisk /\ Apart

LEMMA AwayEntry ==
    ASSUME Target \in Seq(Names), NEW up \in Seq(Names), ~Near(up), NEW n \in Names
    PROVE  ~Near(Append(up, n))
<1>1. PICK e : e = Append(up, n)
  OBVIOUS
<1>2. e \in Seq(Names) /\ IsPrefix(up, e) /\ (IsPrefix(Target, e) <=> (IsPrefix(Target, up) \/ Target = e))
  BY <1>1, PrefixOfAppend
<1>3. ~IsPrefix(Target, up) /\ ~IsPrefix(up, Target)
  BY DEF Near, IsWithin
<1>4. ~IsPrefix(Target, e)
  BY <1>2, <1>3
<1>5. ~IsPrefix(e, Target)
  BY <1>2, <1>3, PrefixOfPrefix
<1> QED BY <1>1, <1>4, <1>5 DEF Near, IsWithin

LEMMA SteadyEntry ==
    ASSUME ApartState, NEW y \in Seq(Names), NEW n \in Names, NEW up, up = Walk(was, y, TRUE),
           Walk(node, y, TRUE) = up,
           up # Void => node[up] = was[up]
                        /\ (Append(up, n) \in Places => ~Near(Append(up, n))),
           NEW x, x = Append(y, n)
    PROVE  Steady(x)
<1>1. was \in [Places -> Nodes] /\ node \in [Places -> Nodes] /\ x \in Seq(Names)
      /\ \A p \in Places : ~Near(p) => node[p] = was[p]
  BY DEF ApartState, Beginning, Origin, TargetDisk, Shaped, Near, IsWithin
<1>2. \A f : Walk(was, x, f) = Onto(was, up, n, f) /\ Walk(node, x, f) = Onto(node, up, n, f)
  <2>1. ASSUME NEW f PROVE Walk(was, Append(y, n), f) = Onto(was, Walk(was, y, TRUE), n, f)
    BY <1>1, WalkAppend
  <2>2. ASSUME NEW f PROVE Walk(node, Append(y, n), f) = Onto(node, Walk(node, y, TRUE), n, f)
    BY <1>1, WalkAppend
  <2> QED BY <2>1, <2>2
<1>3. PICK e : e = Append(up, n)
  OBVIOUS
<1>4. up # Void => node[up] = was[up] /\ (e \in Places => ~Near(e) /\ node[e] = was[e])
  BY <1>1, <1>3
<1>5. \A f : Onto(node, up, n, f) = Onto(was, up, n, f)
  BY <1>3, <1>4 DEF Onto
<1>6. \A f : Walk(node, x, f) = Walk(was, x, f)
  BY <1>2, <1>5
<1>7. Void \notin Places
  BY PlaceAssumption
<1>8. ASSUME Walk(was, x, FALSE) # Void
      PROVE  /\ Walk(was, x, FALSE) = e /\ e \in Places /\ ~Near(e)
             /\ \A f : ~(was[e].kind = "link" /\ f) => Walk(was, x, f) = e
  <2>1. up # Void /\ was[up].kind = "dir" /\ e \in Places
    BY <1>2, <1>3, <1>8 DEF Onto
  <2>2. \A f : Onto(was, up, n, f) = IF was[e].kind = "link" /\ f THEN was[e].to ELSE e
    BY <1>3, <2>1 DEF Onto
  <2> QED BY <1>2, <1>4, <2>1, <2>2
<1>9. ASSUME NEW f, Walk(was, x, f) # Void PROVE Walk(was, x, FALSE) # Void
  <2>1. up # Void /\ was[up].kind = "dir" /\ e \in Places
    BY <1>2, <1>3, <1>9 DEF Onto
  <2>2. Onto(was, up, n, FALSE) = e
    BY <1>3, <2>1 DEF Onto
  <2> QED BY <1>2, <1>7, <2>1, <2>2
<1>10. ASSUME Walk(was, x, Follows) # Void
       PROVE  ~Near(Walk(was, x, Follows)) /\ Walk(was, x, Follows) \in Places
  <2>1. Walk(was, x, FALSE) = e /\ e \in Places /\ ~Near(e)
        /\ (~(was[e].kind = "link" /\ Follows) => Walk(was, x, Follows) = e)
    BY <1>8, <1>9, <1>10
  <2>2. CASE was[e].kind = "link" /\ Follows
    <3>1. ~Near(was[e].to)
      BY <2>1, <2>2 DEF ApartState, Apart
    <3>2. up # Void /\ was[up].kind = "dir" /\ e \in Places
      BY <1>2, <1>3, <1>10 DEF Onto
    <3>3. Walk(was, x, Follows) = was[e].to
      BY <1>2, <1>3, <2>2, <3>2 DEF Onto
    <3>4. was[e].to \in Places
      BY <1>1, <2>1 DEF Nodes
    <3> QED BY <3>1, <3>3, <3>4
  <2> QED BY <2>1, <2>2
<1>11. Found(node, x, FALSE) = Found(was, x, FALSE) /\ Found(node, x, Follows) = Seen(x)
  <2>1. ASSUME NEW f, Walk(was, x, f) # Void => ~Near(Walk(was, x, f)) /\ Walk(was, x, f) \in Places
        PROVE  Found(node, x, f) = Found(was, x, f)
    <3>1. Walk(node, x, f) = Walk(was, x, f)
      BY <1>6
    <3>2. Walk(was, x, f) # Void => node[Walk(was, x, f)] = was[Walk(was, x, f)]
      BY <1>1, <2>1
    <3> QED BY <3>1, <3>2 DEF Found
  <2> QED BY <1>8, <1>10, <2>1 DEF Seen
<1>12. ASSUME Seen(x).kind = "dir" PROVE Away(x) /\ Found(node, x, TRUE) = Seen(x)
  <2>1. Walk(was, x, Follows) # Void
    <3>1. Nothing.kind # "dir"
      BY DEF Nothing, Node
    <3> QED BY <1>12, <3>1 DEF Seen, Found
  <2>2. PICK p : p = Walk(was, x, Follows)
    OBVIOUS
  <2>3. p \in Places /\ ~Near(p) /\ was[p].kind = "dir" /\ Seen(x) = was[p] /\ node[p] = was[p]
    BY <1>1, <1>10, <1>12, <2>1, <2>2 DEF Seen, Found
  <2>4. Walk(was, x, TRUE) = p
    <3>1. Walk(was, x, FALSE) = e /\ e \in Places
          /\ \A f : ~(was[e].kind = "link" /\ f) => Walk(was, x, f) = e
      BY <1>8, <1>9, <2>1
    <3>2. CASE Follows
      <4>1. Follows = TRUE
        BY <3>2 DEF Follows
      <4> QED BY <2>2, <4>1
    <3>3. CASE ~Follows
      <4>1. p = e
        BY <2>2, <3>1, <3>3
      <4>2. was[e].kind # "link"
        BY <2>3, <4>1
      <4> QED BY <3>1, <4>1, <4>2
    <3> QED BY <3>2, <3>3
  <2>5. Walk(node, x, TRUE) = p /\ p # Void
    BY <1>6, <1>7, <2>3, <2>4
  <2> QED BY <2>3, <2>4, <2>5 DEF Away, Found
<1> QED BY <1>6, <1>8, <1>10, <1>11, <1>12 DEF Steady

\* So does every entry of a directory that a text leads to away from the target.
LEMMA AwaySteady ==
    ASSUME ApartState, NEW y \in Seq(Names), NEW n \in Names, Away(y), NEW x, x = Append(y, n)
    PROVE  Steady(x)
<1>1. PICK up : up = Walk(was, y, TRUE)
  OBVIOUS
<1>2. up \in Places /\ was[up].kind = "dir" /\ ~Near(up) /\ up \in Seq(Names)
  BY <1>1, PlaceAssumption DEF Away
<1>3. node[up] = was[up] /\ Grown(was, node) /\ Target \in Seq(Names)
  BY <1>2 DEF ApartState, Beginning, Origin, TargetDisk, Shaped, Near, IsWithin, Grown
<1>4. Walk(node, y, TRUE) = up
  <2>1. up # Void
    BY <1>2, PlaceAssumption
  <2>2. Exists(Found(was, y, TRUE))
    BY <1>1, <1>2, <2>1 DEF Found, Exists
  <2>3. Grown(was, node)
    BY <1>3
  <2>4. Walk(node, y, TRUE) = Walk(was, y, TRUE)
    <3>1. PICK f : f = TRUE
      OBVIOUS
    <3>2. Exists(Found(was, y, f))
      BY <2>2, <3>1
    <3>3. Walk(node, y, f) = Walk(was, y, f)
      BY <2>3, <3>2, GrownFinds
    <3> QED BY <3>1, <3>3
  <2> QED BY <1>1, <2>4
<1>5. ~Near(Append(up, n))
  BY <1>2, <1>3, AwayEntry
<1> QED BY <1>1, <1>3, <1>4, <1>5, SteadyEntry

\* The way to the source leads over places that are on its name, or that have
\* nothing to do with the target.
LEMMA WayToSource ==
    ASSUME ApartState, NEW m \in Nat, m < Len(Source)
    PROVE  /\ Walk(node, Pre(Source, m), TRUE) = Walk(was, Pre(Source, m), TRUE)
           /\ \/ Walk(was, Pre(Source, m), TRUE) \in {Void, Pre(Source, m)}
              \/ ~Near(Walk(was, Pre(Source, m), TRUE))
<1> DEFINE W(i) == Walk(was, Pre(Source, i), TRUE)
           Way(i) == /\ Walk(node, Pre(Source, i), TRUE) = W(i)
                     /\ W(i) \in {Void, Pre(Source, i)} \/ ~Near(W(i))
           S == {i \in Nat : i < Len(Source) => Way(i)}
<1>1. /\ Source \in Seq(Names) /\ Target \in Seq(Names) /\ Len(Source) \in Nat
      /\ was \in [Places -> Nodes] /\ node \in [Places -> Nodes]
      /\ \A p \in Places : ~IsPrefix(Target, p) => node[p] = was[p]
      /\ ~IsPrefix(Target, Source) /\ Void \notin Places /\ \A p \in Places : p \in Seq(Names)
  BY PlaceAssumption DEF ApartState, Apart, IsWithin, Beginning, Origin, TargetDisk, Shaped
<1>2. 0 \in S
  <2>1. Pre(Source, 0) = <<>>
    BY <1>1, PreEnds
  <2>2. Walk(node, <<>>, TRUE) = Root /\ Walk(was, <<>>, TRUE) = Root /\ Root = <<>>
    BY WalkOfRoot DEF Root
  <2> QED BY <2>1, <2>2
<1>3. ASSUME NEW i \in Nat, i \in S PROVE i + 1 \in S
  <2> SUFFICES ASSUME i + 1 < Len(Source) PROVE Way(i + 1)
    <3> HIDE DEF Way
    <3> QED OBVIOUS
  <2>1. i < Len(Source) /\ i + 1 \in 1..Len(Source) /\ i \in 0..Len(Source) /\ i + 1 - 1 = i
        /\ i + 1 \in 0..Len(Source) /\ i + 1 \in 1..Len(Source) - 1
    BY <1>1
  <2>2. PICK up, y, x, n, e : /\ up = W(i) /\ y = Pre(Source, i) /\ x = Pre(Source, i + 1)
                              /\ n = Source[i + 1] /\ e = Append(up, n)
    OBVIOUS
  <2>3. y \in Seq(Names) /\ n \in Names /\ x = Append(y, n) /\ x \in Seq(Names)
    <3>1. Pre(Source, i + 1) = Append(Pre(Source, i), Source[i + 1])
      BY <1>1, <2>1, PreStep
    <3>2. Pre(Source, i) \in Seq(Names) /\ Pre(Source, i + 1) \in Seq(Names)
      BY <1>1, <2>1, PreType
    <3>3. Source[i + 1] \in Names
      BY <1>1, <2>1
    <3> QED BY <2>2, <3>1, <3>2, <3>3
  <2>4. Walk(node, y, TRUE) = up /\ (up \in {Void, y} \/ ~Near(up)) /\ up = Walk(was, y, TRUE)
    BY <1>3, <2>1, <2>2
  <2>5. \A f : Walk(was, x, f) = Onto(was, up, n, f) /\ Walk(node, x, f) = Onto(node, up, n, f)
    <3>1. ASSUME NEW f PROVE Walk(was, Append(y, n), f) = Onto(was, Walk(was, y, TRUE), n, f)
      BY <1>1, <2>3, WalkAppend
    <3>2. ASSUME NEW f PROVE Walk(node, Append(y, n), f) = Onto(node, Walk(node, y, TRUE), n, f)
      BY <1>1, <2>3, WalkAppend
    <3> QED BY <2>3, <2>4, <3>1, <3>2
  <2>6. IsPrefix(x, Source) /\ IsPrefix(y, Source)
    <3>1. Len(x) = i + 1 /\ Len(y) = i
      BY <1>1, <2>1, <2>2, PreType
    <3> QED BY <1>1, <2>1, <2>2, <2>3, <3>1, PrefixIs
  <2>7. ~IsPrefix(Target, x) /\ ~IsPrefix(Target, y)
    BY <1>1, <2>3, <2>6, PrefixOfPrefix
  <2>8. up # Void => up \in Places
    BY <1>1, <2>4, WalkType
  <2>9. ASSUME up # Void PROVE /\ node[up] = was[up] /\ (e \in Places => node[e] = was[e])
                               /\ e = x \/ ~Near(e)
    <3>1. CASE up = y
      BY <1>1, <2>2, <2>3, <2>7, <2>8, <2>9, <3>1
    <3>2. CASE ~Near(up)
      <4>1. ~Near(e)
        BY <1>1, <2>2, <2>3, <2>8, <2>9, <3>2, AwayEntry
      <4> QED BY <1>1, <2>8, <2>9, <3>2, <4>1 DEF Near, IsWithin
    <3> QED BY <2>4, <2>9, <3>1, <3>2
  <2>10. Onto(node, up, n, TRUE) = Onto(was, up, n, TRUE)
    BY <2>2, <2>9 DEF Onto
  <2>11. CASE up = Void \/ was[up].kind # "dir" \/ e \notin Places
    <3>1. Onto(was, up, n, TRUE) = Void
      BY <2>2, <2>11 DEF Onto
    <3> QED BY <2>2, <2>5, <2>10, <3>1
  <2>12. CASE ~(up = Void \/ was[up].kind # "dir" \/ e \notin Places)
    <3>1. Onto(was, up, n, FALSE) = e /\ Onto(was, up, n, TRUE) = IF was[e].kind = "link" THEN was[e].to ELSE e
      BY <2>2, <2>12 DEF Onto
    <3>2. e = Walk(was, x, FALSE)
      BY <2>5, <3>1
    <3>3. OnTheWay(e)
      BY <2>1, <2>2, <3>2 DEF OnTheWay, Pre
    <3>4. was[e].kind = "link" => ~Near(was[e].to)
      BY <2>12, <3>3 DEF ApartState, Apart
    <3> QED BY <2>2, <2>5, <2>9, <2>10, <2>12, <3>1, <3>4
  <2> QED BY <2>11, <2>12
<1> HIDE DEF S
<1>4. m \in S
  BY <1>2, <1>3, Induction
<1> QED BY <1>4 DEF S

LEMMA SourceSteady ==
    ASSUME ApartState
    PROVE  Steady(Source)
<1>1. /\ Source \in Seq(Names) /\ Len(Source) \in Nat \ {0} /\ Target \in Seq(Names)
      /\ was \in [Places -> Nodes] /\ Void \notin Places /\ \A p \in Places : p \in Seq(Names)
      /\ \A p \in Places : ~IsPrefix(Target, p) => node[p] = was[p]
      /\ ~IsPrefix(Target, Source) /\ ~IsPrefix(Source, Target)
  <2>1. Source \in Seq(Names) /\ Source # <<>>
    BY PlaceAssumption DEF Root
  <2> QED BY <2>1, EmptySeq, PlaceAssumption
          DEF ApartState, Apart, IsWithin, Beginning, Origin, TargetDisk, Shaped
<1>2. PICK m \in Nat : m + 1 = Len(Source)
  <2>1. Len(Source) - 1 \in Nat /\ Len(Source) - 1 + 1 = Len(Source)
    BY <1>1
  <2> QED BY <2>1
<1>3. PICK y, n, up : y = Pre(Source, m) /\ n = Source[m + 1] /\ up = Walk(was, y, TRUE)
  OBVIOUS
<1>4. m + 1 \in 1..Len(Source) /\ m \in 0..Len(Source) /\ m < Len(Source) /\ m + 1 - 1 = m
  BY <1>1, <1>2
<1>5. y \in Seq(Names) /\ n \in Names /\ Source = Append(y, n)
  <2>1. Pre(Source, m + 1) = Source
    BY <1>1, <1>2, PreEnds
  <2>2. \A i \in 1..Len(Source) : Pre(Source, i) = Append(Pre(Source, i - 1), Source[i])
    BY <1>1, PreStep
  <2>3. Pre(Source, m + 1) = Append(Pre(Source, m), Source[m + 1])
    BY <1>4, <2>2
  <2> QED BY <1>1, <1>3, <1>4, <2>1, <2>3, PreType
<1>6. Walk(node, y, TRUE) = up /\ (up \in {Void, y} \/ ~Near(up))
  BY <1>3, <1>4, WayToSource
<1>7. ASSUME up # Void PROVE node[up] = was[up] /\ ~Near(Append(up, n))
  <2>1. up \in Places
    BY <1>1, <1>3, <1>7, WalkType
  <2>2. CASE up = y
    <3>1. ~Near(Source) /\ Append(up, n) = Source
      BY <1>1, <1>5, <2>2 DEF Near, IsWithin
    <3>2. IsPrefix(y, Source)
      BY <1>5, PrefixOfAppend
    <3>3. ~IsPrefix(Target, y)
      BY <1>1, <1>5, <3>2, PrefixOfPrefix
    <3> QED BY <1>1, <2>1, <2>2, <3>1, <3>3
  <2>3. CASE ~Near(up)
    BY <1>1, <1>5, <2>1, <2>3, AwayEntry DEF Near, IsWithin
  <2> QED BY <1>6, <1>7, <2>2, <2>3
<1> QED BY <1>3, <1>5, <1>6, <1>7, SteadyEntry

\* What is copied: the source, or an entry of a directory away from the target.
Outside(x) ==
    x = Source \/ \E y \in Seq(Names), n \in Names : x = Append(y, n) /\ Away(y)

LEMMA OutsideSteady ==
    ASSUME ApartState, NEW x, Outside(x)
    PROVE  Steady(x) /\ x \in Seq(Names)
<1>1. Source \in Seq(Names)
  BY PlaceAssumption
<1>2. CASE x = Source
  BY <1>1, <1>2, SourceSteady
<1>3. CASE x # Source
  BY <1>3, AwaySteady DEF Outside
<1> QED BY <1>2, <1>3

\* The names in a directory, at first.
Listing(x) == {n \in Names : Exists(Found(was, Append(x, n), FALSE))}

CopiesFile(k) == k.pc \in {"copy_file", "copy_file_into", "write_file", "write_file_into"}

\* What has led a call to where it is.
SourceCall(k) ==
    /\ Outside(k.from)
    /\ Begun(k) \/ k.pc = "create_directory" => Seen(k.from).kind = "dir" /\ Recursive
    /\ k.pc = "copy_symlink" => Seen(k.from).kind = "link"
    /\ CopiesFile(k) \/ k.pc \in {"create_symlink", "create_hard_link"} => Seen(k.from).kind = "file"
    /\ CopiesFile(k) => ~Has("create_symlinks")
    /\ k.pc \in {"first", "next"} => k.entries = Listing(k.from)

\* A file has its id from a place where there is something, and what is
\* overwritten has no other name.
FilesAreThere == \A p \in Places : node[p].kind = "file" => Exists(node[node[p].id])
OneNameLeft ==
    Has("overwrite_existing") /\ ~Has("create_hard_links") =>
        \A p, q \in Places :
            IsPrefix(Target, p) /\ was[p].kind = "file" /\ node[q].kind = "file" /\ node[q].id = p
                => q = p

\* What is at w in the source has its image.
Kept(w) ==
    LET x == Source \o w
        y == Image(w)
    IN  /\ Outside(x) /\ IsCopied(x, y)
        /\ Seen(x).kind = "file" /\ ~Has("directories_only") =>
              Exists(Stat(y, FALSE)) /\ Walk(node, y, FALSE) = y

\* All there is to copy at r and below has its image.
Comes(w) == w = <<>> \/ w \in Below
Done(r) == \A w \in Seq(Names) : IsPrefix(r, w) /\ Comes(w) => Kept(w)

\* What has been read is done, but for what is being copied.
Progress ==
    /\ \A i \in 1..Len(calls) : \A n \in calls[i].read :
          LET r == Append(At(calls[i]), n) IN
          (i < Len(calls) => At(calls[i + 1]) # r) => Done(r)
    /\ answer = "ok" => Done(<<>>)

SourceInv ==
    /\ FilesAreThere /\ OneNameLeft /\ Progress
    /\ \A i \in 1..Len(calls) : SourceCall(calls[i])

SourceState == TargetState /\ Apart /\ SourceInv /\ unread = FALSE

LEMMA SourceIs ==
    ASSUME SourceState
    PROVE  /\ ApartState /\ Steady(Current.from) /\ SourceCall(Current)
           /\ Current.from \in Seq(Names) /\ Current \in CallRecords /\ Current = calls[Len(calls)]
           /\ Len(calls) \in 1..Len(calls) /\ calls \in Seq(CallRecords) /\ calls # <<>>
           /\ Optioned(Current) /\ TargetCall(Current) /\ Len(calls) \in Nat \ {0}
<1>1. ApartState
  BY DEF SourceState, ApartState, TargetState, TargetInv
<1>2. /\ Current.from \in Seq(Names) /\ Current \in CallRecords /\ Current = calls[Len(calls)]
      /\ Len(calls) \in 1..Len(calls) /\ calls \in Seq(CallRecords) /\ calls # <<>>
      /\ Optioned(Current) /\ TargetCall(Current) /\ Len(calls) \in Nat \ {0}
  BY CurrentIs, CurrentType DEF SourceState, TargetState
<1>3. SourceCall(Current)
  BY <1>2 DEF SourceState, SourceInv
<1>4. Outside(Current.from)
  BY <1>3 DEF SourceCall
<1>5. Steady(Current.from)
  BY <1>1, <1>4, OutsideSteady
<1> QED BY <1>1, <1>2, <1>3, <1>5

\* What is in a directory that is copied is what was in it.
LEMMA ListedIs ==
    ASSUME SourceState, Seen(Current.from).kind = "dir"
    PROVE  Away(Current.from) /\ Listed(Current.from) = Listing(Current.from)
<1>1. PICK x : x = Current.from
  OBVIOUS
<1>2. ApartState /\ Away(x) /\ x \in Seq(Names)
  BY <1>1, SourceIs DEF Steady
<1>3. ASSUME NEW n \in Names
      PROVE  Stat(Append(x, n), FALSE) = Found(was, Append(x, n), FALSE)
  <2>1. PICK a : a = Append(x, n)
    OBVIOUS
  <2>2. Steady(a)
    BY <1>2, <2>1, AwaySteady
  <2> QED BY <2>1, <2>2 DEF Steady, Stat
<1>4. Listed(x) = Listing(x)
  BY <1>3 DEF Listed, Listing
<1> QED BY <1>1, <1>2, <1>4

\* Where the innermost call goes on to.
LEMMA TurnsTo ==
    ASSUME Inv, QuietStep, NEW h, Turns(h)
    PROVE  \/ Look /\ h.pc = Chosen(LookFrom, LookTo) /\ h.pc \in Steps /\ h.pc \notin {"first", "next"}
           \/ CopiesFile(Current) /\ CopiesFile(h)
           \/ CreateDirectory /\ Goto("open") /\ h.pc = "open"
           \/ OpenDirectory /\ h.pc = "first" /\ h.entries = Listed(Current.from)
              /\ Stat(Current.from, TRUE).kind = "dir"
<1>1. /\ Len(calls) \in 1..Len(calls) /\ Current = calls[Len(calls)] /\ calls # <<>>
      /\ calls \in Seq(CallRecords) /\ Len(calls) \in Nat \ {0} /\ Current \in CallRecords
  BY CurrentType DEF QuietStep
<1>2. /\ calls' = [calls EXCEPT ![Len(calls)] = h] /\ h.read = Current.read
  BY DEF Turns
<1>3. calls'[Len(calls)] = h /\ Len(calls') = Len(calls)
  BY <1>1, <1>2
<1>5. ~Fail /\ ~Return
  <2>1. Len(Front(calls)) = Len(calls) - 1
    BY <1>1, FrontIs
  <2>2. Len(<<>>) = 0
    OBVIOUS
  <2> QED BY <1>1, <1>3, <2>1, <2>2 DEF Return, Fail
<1>6. CASE Look
  <2>1. h = [Current EXCEPT !.pc = Chosen(LookFrom, LookTo)] /\ Chosen(LookFrom, LookTo) \in Steps
    BY <1>1, <1>3, <1>6, LookGoes
  <2>2. h.pc = Chosen(LookFrom, LookTo)
    BY <1>1, <2>1 DEF CallRecords
  <2>3. Chosen(LookFrom, LookTo) \notin {"first", "next"}
    BY DEF Chosen
  <2> QED BY <1>6, <2>1, <2>2, <2>3
<1>7. CASE CreateDirectory
  <2>1. Goto("open") /\ Current.pc = "create_directory"
    BY <1>5, <1>7 DEF CreateDirectory
  <2>2. h = [Current EXCEPT !.pc = "open"]
    BY <1>1, <1>3, <2>1 DEF Goto
  <2>3. h.pc = "open"
    BY <1>1, <2>2 DEF CallRecords
  <2> QED BY <1>7, <2>1, <2>3
<1>8. CASE OpenDirectory
  <2>1. Opened("first") /\ Current.pc = "open" /\ Stat(Current.from, TRUE).kind = "dir"
    BY <1>5, <1>8 DEF OpenDirectory
  <2>2. PICK j : j = [Current EXCEPT !.pc = "first", !.entries = Listed(Current.from)]
    OBVIOUS
  <2>3. calls' = [calls EXCEPT ![Len(calls)] = j]
    BY <1>1, <2>1, <2>2 DEF Opened
  <2>4. h = j
    BY <1>1, <1>2, <1>3, <2>3
  <2>5. h.pc = "first" /\ h.entries = Listed(Current.from)
    BY <1>1, <2>2, <2>4 DEF CallRecords
  <2> QED BY <1>8, <2>1, <2>5
<1>9. ~ReadNext
  <2>1. ASSUME NEW n, CopyEntry(n) PROVE FALSE
    <3>1. PICK j : j = [Current EXCEPT !.pc = "next", !.read = @ \cup {n}]
      OBVIOUS
    <3>2. PICK new : new = Call(Append(Current.from, n), Append(Current.to, n))
      OBVIOUS
    <3>3. PICK s : s = [calls EXCEPT ![Len(calls)] = j]
      OBVIOUS
    <3>4. calls' = Append(s, new)
      BY <1>1, <2>1, <3>1, <3>2, <3>3 DEF CopyEntry
    <3>5. Len(s) = Len(calls)
      BY <3>3
    <3>6. Len(calls') = Len(s) + 1
      BY <3>4
    <3> QED BY <1>1, <1>3, <3>5, <3>6
  <2> QED BY <1>5, <2>1 DEF ReadNext
<1>10. CASE LookedAtFiles
  <2>1. PICK pc \in {"write_file", "write_file_into"} : Goto(pc)
    BY <1>10 DEF LookedAtFiles
  <2>2. h = [Current EXCEPT !.pc = pc]
    BY <1>1, <1>3, <2>1 DEF Goto
  <2>3. h.pc = pc
    BY <1>1, <2>2 DEF CallRecords
  <2> QED BY <1>10, <2>1, <2>3 DEF LookedAtFiles, CopiesFile
<1> QED BY <1>5, <1>6, <1>7, <1>8, <1>9, <1>10
    DEF QuietStep, CopySymlink, CreateSymlink, CreateHardLink, CopyFileWhole, Make

LEMMA SourceTurns ==
    ASSUME SourceState, QuietStep, NEW h, Turns(h)
    PROVE  SourceCall(h)
<1>1. /\ ApartState /\ Steady(Current.from) /\ SourceCall(Current) /\ h.from = Current.from
      /\ Inv /\ calls # <<>>
  BY SourceIs DEF Turns, SourceState, TargetState
<1>2. CASE Look /\ h.pc = Chosen(LookFrom, LookTo) /\ h.pc \in Steps /\ h.pc \notin {"first", "next"}
  <2>1. LookFrom = Seen(Current.from)
    BY <1>1 DEF LookFrom, Stat, Steady
  <2>2. LookFrom.kind \in {"dir", "file", "link"}
    <3>1. calls' = [calls EXCEPT ![Len(calls)] = h] /\ Len(calls') = Len(calls)
      BY SourceIs, ExceptSeq DEF Turns
    <3> QED BY <1>1, <1>2, <3>1, LookGoes
  <2>3. PICK f, t : f = LookFrom /\ t = LookTo
    OBVIOUS
  <2>4. h.pc = Chosen(f, t) /\ h.pc \notin {"fail", "return"}
    BY <1>2, <2>3 DEF Steps
  <2>5. /\ Begun(h) \/ h.pc = "create_directory" => f.kind \notin {"link", "file"} /\ Recursive
        /\ h.pc = "copy_symlink" => f.kind = "link"
        /\ CopiesFile(h) \/ h.pc \in {"create_symlink", "create_hard_link"} => f.kind = "file"
        /\ CopiesFile(h) => ~Has("create_symlinks")
    BY <2>4 DEF Chosen, Begun, CopiesFile
  <2> QED BY <1>1, <1>2, <2>1, <2>2, <2>3, <2>5 DEF SourceCall
<1>3. CASE CreateDirectory /\ h.pc = "open"
  BY <1>1, <1>3 DEF SourceCall, CreateDirectory, Begun, CopiesFile
<1>4. CASE OpenDirectory /\ h.pc = "first" /\ h.entries = Listed(Current.from)
  <2>1. Seen(Current.from).kind = "dir" /\ Recursive
    BY <1>1, <1>4 DEF SourceCall, OpenDirectory, Begun
  <2>2. Listed(Current.from) = Listing(Current.from)
    BY <2>1, ListedIs
  <2> QED BY <1>1, <1>4, <2>1, <2>2 DEF SourceCall, Begun, CopiesFile
<1>5. CASE CopiesFile(Current) /\ CopiesFile(h)
  BY <1>1, <1>5 DEF SourceCall, Begun, CopiesFile
<1> QED BY <1>1, <1>2, <1>3, <1>4, <1>5, TurnsTo

LEMMA SourceReads ==
    ASSUME SourceState, NEW n \in Names, Reads(n), Entered(n),
           NEW k, k = calls'[Len(calls)], NEW new, new = calls'[Len(calls) + 1]
    PROVE  SourceCall(k) /\ SourceCall(new)
<1>1. /\ SourceCall(Current) /\ Current.from \in Seq(Names)
      /\ Current.pc \in {"first", "next"}
  BY SourceIs DEF Reads
<1>2. /\ k.from = Current.from /\ k.pc = "next" /\ k.entries = Current.entries
      /\ new.from = Append(Current.from, n) /\ new.pc = "look"
  BY DEF Entered
<1>3. Seen(Current.from).kind = "dir" /\ Recursive
  BY <1>1 DEF SourceCall, Begun
<1>4. Away(Current.from)
  BY <1>3, ListedIs
<1>5. Outside(new.from)
  BY <1>1, <1>2, <1>4 DEF Outside
<1>6. SourceCall(k)
  BY <1>1, <1>2 DEF SourceCall, Begun, CopiesFile
<1>7. SourceCall(new)
  BY <1>2, <1>5 DEF SourceCall, Begun, CopiesFile
<1> QED BY <1>6, <1>7

\* What is said of the beginning alone stays so.
LEMMA GivenStays ==
    ASSUME UNCHANGED given
    PROVE  /\ was' = was /\ Target' = Target /\ options' = options
           /\ Follows' = Follows /\ (Recursive' <=> Recursive)
           /\ \A o : Has(o)' <=> Has(o)
           /\ \A x : Seen(x)' = Seen(x)
           /\ \A x : Outside(x)' <=> Outside(x)
           /\ \A w : Image(w)' = Image(w)
           /\ \A k : SourceCall(k)' <=> SourceCall(k)
<1>1. was' = was /\ Target' = Target /\ options' = options
  BY DEF given
<1>2. Follows' = Follows /\ (Recursive' <=> Recursive) /\ \A o : Has(o)' <=> Has(o)
  BY <1>1 DEF Follows, Recursive, Has
<1>3. \A x : Seen(x)' = Seen(x)
  BY <1>1, <1>2 DEF Seen
<1>4. \A x : Near(x)' <=> Near(x)
  BY <1>1 DEF Near, IsWithin
<1>5. \A x : Away(x)' <=> Away(x)
  BY <1>1, <1>4 DEF Away
<1>6. \A x : Outside(x)' <=> Outside(x)
  BY <1>5 DEF Outside
<1>7. \A x : Listing(x)' = Listing(x)
  BY <1>1 DEF Listing
<1>8. \A w : Image(w)' = Image(w)
  BY <1>1, <1>3 DEF Image
<1>9. \A k : SourceCall(k)' <=> SourceCall(k)
  BY <1>2, <1>3, <1>6, <1>7 DEF SourceCall, Begun, CopiesFile
<1> QED BY <1>1, <1>2, <1>3, <1>6, <1>8, <1>9

LEMMA ComesStays ==
    ASSUME UNCHANGED given, NEW w
    PROVE  Comes(w)' <=> Comes(w)
<1>1. was' = was /\ (Recursive' <=> Recursive) /\ \A x : Seen(x)' = Seen(x)
  BY GivenStays
<1>2. Below' = Below
  BY <1>1 DEF Below
<1> QED BY <1>2 DEF Comes

\* Where the innermost call overwrites a file, which has no other name.
Overwrites(z) ==
    /\ CopiesFile(Current)
    /\ z \in Places /\ IsPrefix(Current.to, z) /\ IsPrefix(Target, z)
    /\ was[z].kind = "file" /\ was[z].id = z
    /\ Has("overwrite_existing") /\ ~Has("create_hard_links")

LEMMA OverwritesOwn ==
    ASSUME SourceState, CopiesFile(Current),
           NEW z, z = FileTarget, Walk(node, z, TRUE) # Void,
           Stat(z, TRUE).kind = "file", Has("overwrite_existing")
    PROVE  Overwrites(z) /\ Stat(z, TRUE) = was[z] /\ node[z] = was[z]
<1>1. z \in Seq(Names) /\ z # Root /\ Linkless(node, z) /\ IsPrefix(Current.to, z) /\ Untouched(z)
  BY FileTargetIs DEF SourceState, CopiesFile
<1>2. z \in Places /\ Stat(z, TRUE) = node[z]
  <2>1. PICK f : f = TRUE
    OBVIOUS
  <2>2. Walk(node, z, f) # Void
    BY <2>1
  <2>3. z \in Places /\ Found(node, z, f) = node[z]
    BY <1>1, <2>2, LinklessLeads
  <2> QED BY <2>1, <2>3 DEF Stat
<1>3. node[z] = was[z]
  BY <1>1, <1>2, PrefixOfSelf DEF Untouched
<1>4. IsPrefix(Target, z)
  <2>1. IsPrefix(Target, Current.to) /\ Current.to \in Seq(Names) /\ Target \in Seq(Names)
    BY CurrentIs DEF SourceState, TargetState, Inv, CallsOK
  <2> QED BY <1>1, <2>1, PrefixOfPrefix
<1>5. was[z].kind = "file"
  BY <1>2, <1>3
<1>6. was[z].id \in Places /\ was[was[z].id] = was[z]
  <2>1. was \in [Places -> Nodes] /\ \A p \in Places : was[p].kind = "file" => was[was[p].id] = was[p]
    BY DEF SourceState, TargetState, Beginning, Origin, Shaped
  <2> QED BY <1>2, <1>5, <2>1 DEF Nodes
<1>7. was[z].id = z
  BY <1>2, <1>4, <1>5, <1>6 DEF SourceState, Apart, IsWithin
<1>8. ~Has("create_hard_links")
  BY SourceIs DEF Optioned, CopiesFile
<1> QED BY <1>1, <1>2, <1>3, <1>4, <1>5, <1>7, <1>8 DEF Overwrites

\* What a step writes is a new file or one that is overwritten.
LEMMA DataMoves ==
    ASSUME SourceState, QuietStep
    PROVE  \/ data' = data
           \/ \E z \in Places : \E v :
                 data' = [data EXCEPT ![z] = v] /\ (~Exists(node[z]) \/ Overwrites(z))
<1>1. CASE ~CopyFileWhole
  BY <1>1 DEF QuietStep, Look, CopySymlink, CreateSymlink, CreateHardLink, LookedAtFiles,
              CreateDirectory, OpenDirectory, ReadNext, disk
<1>2. CASE CopyFileWhole
  <2>1. PICK z, p, t : z = FileTarget /\ p = Walk(node, FileTarget, TRUE) /\ t = Stat(FileTarget, TRUE)
    OBVIOUS
  <2>2. PICK v : v = data[Stat(Current.from, FALSE).id]
    OBVIOUS
  <2>3. \/ UNCHANGED disk
        \/ p # Void /\ ~Exists(t) /\ data' = [data EXCEPT ![p] = v]
        \/ /\ p # Void /\ t.kind = "file" /\ Has("overwrite_existing")
           /\ data' = [data EXCEPT ![t.id] = v]
    BY <1>2, <2>1, <2>2 DEF CopyFileWhole
  <2>4. CASE UNCHANGED disk
    BY <2>4 DEF disk
  <2>5. CASE p # Void /\ ~Exists(t) /\ data' = [data EXCEPT ![p] = v]
    <3>1. t = node[p]
      BY <2>1, <2>5 DEF Stat, Found
    <3>2. p \in Places
      BY <2>1, <2>5 DEF Walk
    <3> QED BY <2>5, <3>1, <3>2
  <2>6. CASE /\ p # Void /\ t.kind = "file" /\ Has("overwrite_existing")
             /\ data' = [data EXCEPT ![t.id] = v]
    <3>1. CopiesFile(Current)
      BY <1>2 DEF CopyFileWhole, CopiesFile
    <3>2. Overwrites(z) /\ Stat(z, TRUE) = was[z]
      BY <2>1, <2>6, <3>1, OverwritesOwn
    <3>3. t.id = z /\ z \in Places
      BY <2>1, <3>2 DEF Overwrites
    <3> QED BY <2>6, <3>2, <3>3
  <2> QED BY <2>3, <2>4, <2>5, <2>6
<1> QED BY <1>1, <1>2

\* A file that is new has its id from where it is, or it is a hard link.
LEMMA NewFile ==
    ASSUME SourceState, QuietStep, NEW p \in Places, node'[p] # node[p], node'[p].kind = "file"
    PROVE  \/ node'[p].id = p
           \/ Has("create_hard_links") /\ \E q \in Places : node[q] = node'[p]
<1>1. node \in [Places -> Nodes]
  BY DEF SourceState, TargetState, Inv, DiskOK
<1>2. ASSUME NEW w, NEW n, Put(w, n) PROVE n.kind = "file" /\ node'[p] = n /\ w = p
  <2>1. node' = [node EXCEPT ![w] = n]
    BY <1>2 DEF Put
  <2> QED BY <1>1, <2>1
<1>3. ASSUME NEW k, NEW w, NEW to PROVE Node(k, w, to).kind = k /\ Node(k, w, to).id = w
  BY DEF Node
<1>4. CASE CopySymlink \/ CreateSymlink
  <2>1. \E w, to : Put(w, Node("link", w, to))
    BY <1>4 DEF CopySymlink, CreateSymlink, Make
  <2> QED BY <1>2, <1>3, <2>1
<1>5. CASE CreateHardLink
  <2>1. PICK n : n = Stat(Current.from, FALSE)
    OBVIOUS
  <2>2. Put(Walk(node, Current.to, FALSE), n) /\ n.kind # "none"
    BY <1>5, <2>1 DEF CreateHardLink, Make
  <2>3. \E q \in Places : node[q] = n
    <3>1. Nothing.kind = "none"
      BY DEF Nothing, Node
    <3>2. PICK q : q = Walk(node, Current.from, FALSE)
      OBVIOUS
    <3>3. q # Void /\ n = node[q] /\ q \in Places
      BY <2>1, <2>2, <3>1, <3>2 DEF Stat, Found, Walk
    <3> QED BY <3>3
  <2>4. Has("create_hard_links")
    BY <1>5, SourceIs DEF Optioned, CreateHardLink
  <2> QED BY <1>2, <2>2, <2>3, <2>4
<1>6. CASE CopyFileWhole
  <2>1. PICK w : w = Walk(node, FileTarget, TRUE)
    OBVIOUS
  <2>2. Put(w, Node("file", w, Root))
    BY <1>6, <2>1 DEF CopyFileWhole, disk
  <2> QED BY <1>2, <1>3, <2>2
<1>7. CASE CreateDirectory
  BY <1>2, <1>3, <1>7 DEF CreateDirectory
<1> QED BY <1>4, <1>5, <1>6, <1>7 DEF QuietStep, Look, LookedAtFiles, OpenDirectory, ReadNext, disk

LEMMA FilesNext ==
    ASSUME SourceState, QuietStep, UNCHANGED given, Grown(node, node')
    PROVE  FilesAreThere' /\ OneNameLeft'
<1>1. /\ node \in [Places -> Nodes] /\ node' \in [Places -> Nodes]
      /\ \A p \in Places : Exists(node[p]) => node'[p] = node[p]
  BY DEF Grown
<1>2. FilesAreThere /\ OneNameLeft
  BY DEF SourceState, SourceInv
<1>3. was' = was /\ Target' = Target /\ \A o : Has(o)' <=> Has(o)
  BY GivenStays
<1>4. ASSUME NEW q \in Places, node'[q].kind = "file", node'[q] # node[q]
      PROVE  \/ node'[q].id = q
             \/ Has("create_hard_links") /\ \E r \in Places : node[r] = node'[q]
  BY <1>4, NewFile
<1>5. ASSUME NEW p \in Places, node'[p].kind = "file" PROVE Exists(node'[node'[p].id])
  <2>1. ASSUME NEW r \in Places, node[r] = node'[p] PROVE Exists(node'[node'[p].id])
    <3>1. node[r].id \in Places
      BY <1>1 DEF Nodes
    <3>2. Exists(node[node[r].id])
      BY <1>2, <1>5, <2>1 DEF FilesAreThere
    <3> QED BY <1>1, <2>1, <3>1, <3>2
  <2>2. Exists(node'[p])
    BY <1>5 DEF Exists
  <2> QED BY <1>4, <1>5, <2>1, <2>2
<1>6. ASSUME Has("overwrite_existing"), ~Has("create_hard_links"), NEW p \in Places, NEW q \in Places,
             IsPrefix(Target, p), was[p].kind = "file", node'[q].kind = "file", node'[q].id = p
      PROVE  q = p
  <2>1. node'[q] = node[q] => q = p
    BY <1>2, <1>6 DEF OneNameLeft
  <2> QED BY <1>4, <1>6, <2>1
<1>7. FilesAreThere'
  BY <1>5 DEF FilesAreThere, Exists
<1>8. OneNameLeft'
  BY <1>3, <1>6 DEF OneNameLeft
<1> QED BY <1>7, <1>8

LEMMA ImageIs ==
    ASSUME Target \in Seq(Names), NEW w \in Seq(Names)
    PROVE  /\ Source \o w \in Seq(Names) /\ Target \o w \in Seq(Names)
           /\ Image(w) \in Seq(Names) /\ IsPrefix(Target \o w, Image(w))
           /\ Len(Image(w)) \in {Len(Target \o w), Len(Target \o w) + 1}
           /\ Last(Source \o w) \in Names
           /\ Image(w) \in {Target \o w, Append(Target \o w, Last(Source \o w))}
<1>1. PICK x, y, n : x = Source \o w /\ y = Target \o w /\ n = Last(x)
  OBVIOUS
<1>2. Source \in Seq(Names) /\ Len(Source) \in Nat \ {0}
  <2>1. Source \in Seq(Names) /\ Source # <<>>
    BY PlaceAssumption DEF Root
  <2> QED BY <2>1, EmptySeq
<1>3. x \in Seq(Names) /\ y \in Seq(Names) /\ Len(x) = Len(Source) + Len(w)
  BY <1>1, <1>2
<1>4. n \in Names
  <2>1. Len(x) \in 1..Len(x)
    BY <1>2, <1>3
  <2> QED BY <1>1, <1>3, <2>1 DEF Last
<1>5. PICK a : a = Append(y, n)
  OBVIOUS
<1>6. a \in Seq(Names) /\ IsPrefix(y, a) /\ IsPrefix(y, y) /\ Len(a) = Len(y) + 1
  BY <1>3, <1>4, <1>5, PrefixOfAppend, PrefixOfSelf
<1>7. Image(w) \in {y, a}
  BY <1>1, <1>5 DEF Image
<1> QED BY <1>1, <1>3, <1>4, <1>5, <1>6, <1>7

\* What has its image keeps it.
LEMMA KeptStays ==
    ASSUME SourceState, QuietStep, UNCHANGED given, Grown(node, node'),
           NEW w \in Seq(Names), Kept(w), ~Overwrites(Image(w))
    PROVE  Kept(w)'
<1>1. PICK x, y, f, t : x = Source \o w /\ y = Image(w) /\ f = Seen(x) /\ t = Stat(y, FALSE)
  OBVIOUS
<1>2. /\ was' = was /\ Target' = Target /\ (Recursive' <=> Recursive) /\ \A o : Has(o)' <=> Has(o)
      /\ Seen(x)' = f /\ (Outside(x)' <=> Outside(x)) /\ Image(w)' = y
  BY <1>1, GivenStays
<1>3. /\ Outside(x) /\ IsCopied(x, y)
      /\ f.kind = "file" /\ ~Has("directories_only") => Exists(t) /\ Walk(node, y, FALSE) = y
  BY <1>1 DEF Kept
<1>4. /\ y \in Seq(Names) /\ ApartState /\ Steady(x) /\ node \in [Places -> Nodes]
      /\ Void \notin Places
  <2>1. Target \in Seq(Names)
    BY DEF SourceState, TargetState, Inv, CallsOK
  <2> QED BY <1>1, <1>3, <2>1, ImageIs, SourceIs, OutsideSteady, PlaceAssumption DEF Grown
<1>5. ASSUME Exists(t)
      PROVE  Stat(y, FALSE)' = t /\ Walk(node', y, FALSE) = Walk(node, y, FALSE)
  <2>1. PICK g : g = FALSE
    OBVIOUS
  <2>2. Exists(Found(node, y, g))
    BY <1>1, <1>5, <2>1 DEF Stat
  <2>3. Walk(node', y, g) = Walk(node, y, g) /\ Found(node', y, g) = Found(node, y, g)
    BY <1>4, <2>2, GrownFinds
  <2> QED BY <1>1, <2>1, <2>3 DEF Stat
<1>6. ASSUME f.kind = "file", t.kind = "file", Exists(t), Walk(node, y, FALSE) = y
      PROVE  data'[t.id] = data[t.id] /\ data'[f.id] = data[f.id]
  <2>1. y \in Places /\ t = node[y] /\ t.id \in Places /\ Exists(node[t.id])
    <3>1. y # Void /\ t = node[y]
      <4>1. ~Exists(Nothing)
        BY DEF Exists, Nothing, Node
      <4> QED BY <1>1, <1>6, <4>1 DEF Stat, Found
    <3>2. y \in Places
      BY <1>6, <3>1 DEF Walk
    <3>3. t.id \in Places
      BY <1>4, <3>1, <3>2 DEF Nodes
    <3> QED BY <1>6, <3>1, <3>2, <3>3 DEF SourceState, SourceInv, FilesAreThere
  <2>2. PICK p : p = Walk(was, x, Follows)
    OBVIOUS
  <2>3. p \in Places /\ f = was[p] /\ f = node[p] /\ ~Near(p)
    <3>1. Nothing.kind # "file"
      BY DEF Nothing, Node
    <3>2. p # Void /\ f = was[p]
      BY <1>1, <1>6, <2>2, <3>1 DEF Seen, Found
    <3>3. p \in Places
      BY <2>2, <3>2 DEF Walk
    <3>4. ~Near(p)
      BY <1>4, <2>2, <3>2 DEF Steady
    <3>5. node[p] = was[p]
      BY <1>4, <3>3, <3>4 DEF ApartState, TargetDisk, Near, IsWithin
    <3> QED BY <3>2, <3>3, <3>4, <3>5
  <2>4. f.id \in Places /\ Exists(node[f.id])
    BY <1>4, <1>6, <2>3 DEF SourceState, SourceInv, FilesAreThere, Nodes
  <2>5. CASE data' = data
    BY <2>5
  <2>6. ASSUME NEW z \in Places, NEW v, data' = [data EXCEPT ![z] = v],
               ~Exists(node[z]) \/ Overwrites(z)
        PROVE  data'[t.id] = data[t.id] /\ data'[f.id] = data[f.id]
    <3>1. ASSUME Overwrites(z) PROVE z # t.id /\ z # f.id
      <4>1. /\ IsPrefix(Target, z) /\ was[z].kind = "file" /\ was[z].id = z /\ z # y
            /\ Has("overwrite_existing") /\ ~Has("create_hard_links")
        BY <1>1, <3>1 DEF Overwrites
      <4>2. z # t.id
        BY <1>6, <2>1, <4>1 DEF SourceState, SourceInv, OneNameLeft
      <4>3. ASSUME z = f.id PROVE FALSE
        <5>1. was[z] = was[p]
          BY <1>4, <1>6, <2>3, <4>3 DEF ApartState, Beginning, Origin
        <5>2. p = z
          BY <2>3, <4>1, <5>1 DEF SourceState, Apart, IsWithin
        <5> QED BY <2>3, <4>1, <5>2 DEF Near, IsWithin
      <4> QED BY <4>2, <4>3
    <3>2. z # t.id /\ z # f.id
      BY <2>1, <2>4, <2>6, <3>1
    <3>3. data \in [Places -> Places]
      BY DEF SourceState, TargetState, Inv, DiskOK
    <3> QED BY <2>1, <2>4, <2>6, <3>2, <3>3
  <2> QED BY <2>5, <2>6, DataMoves
<1>7. IsCopied(x, y)'
  <2>1. CASE f.kind = "link"
    <3>1. t.kind = "link" => Exists(t)
      BY DEF Exists
    <3> QED BY <1>1, <1>2, <1>3, <1>5, <2>1, <3>1 DEF IsCopied
  <2>2. CASE f.kind = "file"
    <3>1. CASE Has("directories_only")
      BY <1>2, <2>2, <3>1 DEF IsCopied
    <3>2. CASE ~Has("directories_only")
      <4>1. Exists(t) /\ Walk(node, y, FALSE) = y /\ Stat(y, FALSE)' = t
        BY <1>3, <1>5, <2>2, <3>2
      <4>2. t.kind = "file" => data'[t.id] = data[t.id] /\ data'[f.id] = data[f.id]
        BY <1>6, <2>2, <4>1
      <4>3. \/ Has("create_symlinks") /\ t.kind = "link" /\ t.to = x
            \/ Has("create_hard_links") /\ t = Found(was, x, FALSE)
            \/ /\ t.kind = "file"
               /\ \/ data[t.id] = data[f.id]
                  \/ Has("skip_existing") /\ t = Found(was, y, FALSE)
        BY <1>1, <1>3, <2>2, <3>2 DEF IsCopied
      <4> QED BY <1>2, <2>2, <4>1, <4>2, <4>3 DEF IsCopied
    <3> QED BY <3>1, <3>2
  <2>3. CASE f.kind = "dir"
    <3>1. t.kind = "dir" => Exists(t)
      BY DEF Exists
    <3> QED BY <1>1, <1>2, <1>3, <1>5, <2>3, <3>1 DEF IsCopied
  <2> QED BY <1>1, <1>3, <2>1, <2>2, <2>3 DEF IsCopied
<1>8. f.kind = "file" /\ ~Has("directories_only") =>
          Exists(Stat(y, FALSE)') /\ Walk(node', y, FALSE) = y
  BY <1>3, <1>5
<1> QED BY <1>1, <1>2, <1>3, <1>7, <1>8 DEF Kept

\* What is overwritten is no image of what has been done.
LEMMA DoneIsElsewhere ==
    ASSUME SourceState, NEW z, Overwrites(z), NEW i \in 1..Len(calls), NEW n \in calls[i].read,
           NEW r, r = Append(At(calls[i]), n), i < Len(calls) => At(calls[i + 1]) # r,
           NEW w \in Seq(Names), IsPrefix(r, w)
    PROVE  z # Image(w)
<1> SUFFICES ASSUME z = Image(w) PROVE FALSE
  OBVIOUS
<1>1. PICK l, c : l = Len(calls) /\ c = At(calls[l])
  OBVIOUS
<1>2. /\ l \in Nat \ {0} /\ l \in 1..Len(calls) /\ Current = calls[l] /\ Current.read = {}
      /\ Target \in Seq(Names) /\ Inv /\ StackInv
  BY <1>1, CurrentIs DEF SourceState, TargetState, TargetCall, Overwrites, CopiesFile, Inv, CallsOK
<1>3. i < l /\ i + 1 \in 1..Len(calls) /\ i \in Nat
  BY <1>1, <1>2
<1>4. PICK a, b : a = At(calls[i]) /\ b = At(calls[i + 1])
  OBVIOUS
<1>5. /\ a \in Seq(Names) /\ Len(a) = i - 1 /\ b \in Seq(Names) /\ Len(b) = i + 1 - 1
      /\ c \in Seq(Names) /\ Current.to = Target \o c
  <2>1. a \in Seq(Names) /\ Len(a) = i - 1
    BY <1>2, <1>4, AtIs
  <2>2. PICK j : j = i + 1
    OBVIOUS
  <2>3. b = At(calls[j]) /\ j \in 1..Len(calls)
    BY <1>3, <1>4, <2>2
  <2>4. b \in Seq(Names) /\ Len(b) = j - 1
    BY <1>2, <2>3, AtIs
  <2>5. c \in Seq(Names) /\ Current.to = Target \o c
    BY <1>1, <1>2, AtIs
  <2> QED BY <2>1, <2>2, <2>4, <2>5
<1>6. n \in Names
  <2>1. calls[i] \in CallRecords
    BY <1>2, AtIs
  <2> QED BY <2>1 DEF CallRecords
<1>7. r \in Seq(Names) /\ Len(r) = i /\ r # b /\ Len(b) = i
  BY <1>1, <1>3, <1>4, <1>5, <1>6
<1>8. IsPrefix(b, c)
  <2>1. CASE i + 1 = l
    BY <1>1, <1>4, <1>5, <2>1, PrefixOfSelf
  <2>2. CASE i + 1 # l
    <3>1. i + 1 < l
      BY <1>1, <1>3, <2>2
    <3>2. PICK m \in calls[i + 1].read : IsPrefix(Append(b, m), c)
      BY <1>1, <1>2, <1>3, <1>4, <3>1 DEF StackInv, Leads
    <3>3. m \in Names
      <4>1. calls[i + 1] \in CallRecords
        BY <1>2, <1>3, AtIs
      <4> QED BY <4>1 DEF CallRecords
    <3>4. PICK e : e = Append(b, m)
      OBVIOUS
    <3>5. e \in Seq(Names) /\ IsPrefix(b, e) /\ IsPrefix(e, c)
      BY <1>5, <3>2, <3>3, <3>4, PrefixOfAppend
    <3> QED BY <1>5, <3>5, PrefixOfPrefix
  <2> QED BY <2>1, <2>2
<1>9. PICK tr, tb, tc, tw : tr = Target \o r /\ tb = Target \o b /\ tc = Target \o c /\ tw = Target \o w
  OBVIOUS
<1>10. /\ tr \in Seq(Names) /\ tb \in Seq(Names) /\ tc \in Seq(Names) /\ tw \in Seq(Names)
       /\ Len(tr) = Len(tb)
  <2>0. ASSUME NEW s \in Seq(Names)
        PROVE  Target \o s \in Seq(Names) /\ Len(Target \o s) = Len(Target) + Len(s)
    BY <1>2, ConcatProperties
  <2>1. tr \in Seq(Names) /\ Len(tr) = Len(Target) + Len(r)
    BY <1>7, <1>9, <2>0
  <2>2. tb \in Seq(Names) /\ Len(tb) = Len(Target) + Len(b)
    BY <1>2, <1>5, <1>9, ConcatProperties
  <2>3. tc \in Seq(Names) /\ tw \in Seq(Names)
    BY <1>2, <1>5, <1>9
  <2> QED BY <1>7, <2>1, <2>2, <2>3
<1>11. IsPrefix(tr, tw) /\ IsPrefix(tb, tc)
  BY <1>2, <1>5, <1>7, <1>8, <1>9, PrefixOfConcats
<1>12. z \in Seq(Names) /\ IsPrefix(tw, z) /\ IsPrefix(tc, z)
  BY <1>2, <1>5, <1>9, ImageIs DEF Overwrites
<1>13. IsPrefix(tr, z) /\ IsPrefix(tb, z)
  BY <1>10, <1>11, <1>12, PrefixOfPrefix
<1>14. tr = tb
  BY <1>10, <1>12, <1>13, PrefixOfPrefix
<1>15. IsPrefix(tr, tb)
  BY <1>10, <1>14, PrefixOfSelf
<1>16. IsPrefix(r, b)
  BY <1>2, <1>5, <1>7, <1>9, <1>15, PrefixOfConcats
<1>17. IsPrefix(b, b) /\ Len(r) = Len(b)
  BY <1>5, <1>7, PrefixOfSelf
<1>18. r = b
  BY <1>5, <1>7, <1>16, <1>17, PrefixOfPrefix
<1> QED BY <1>7, <1>18

LEMMA DoneStays ==
    ASSUME SourceState, QuietStep, UNCHANGED given, Grown(node, node'),
           NEW i \in 1..Len(calls), NEW n \in calls[i].read, NEW r, r = Append(At(calls[i]), n),
           i < Len(calls) => At(calls[i + 1]) # r
    PROVE  Done(r)'
<1>1. Done(r)
  <2>1. Progress
    BY DEF SourceState, SourceInv
  <2> QED BY <2>1 DEF Progress
<1>2. ASSUME NEW w \in Seq(Names), IsPrefix(r, w), Comes(w)' PROVE Kept(w)'
  <2>1. Comes(w)
    BY <1>2, ComesStays
  <2>2. Kept(w)
    BY <1>1, <1>2, <2>1 DEF Done
  <2>3. ~Overwrites(Image(w))
    BY <1>2, DoneIsElsewhere
  <2> QED BY <2>2, <2>3, KeptStays
<1> QED BY <1>2 DEF Done

\* What comes below a directory is at or below an entry of it.
LEMMA FoundTooUnfollowed ==
    ASSUME NEW tree \in [Places -> Nodes], NEW x \in Seq(Names), NEW follow,
           Exists(Found(tree, x, follow))
    PROVE  Exists(Found(tree, x, FALSE))
<1> SUFFICES ASSUME ~Exists(Found(tree, x, FALSE)) PROVE FALSE
  OBVIOUS
<1>1. Found(tree, x, FALSE).kind # "link"
  BY DEF Exists
<1>2. Found(tree, x, follow) = Found(tree, x, FALSE)
  BY <1>1, FollowsNoLink
<1> QED BY <1>2

LEMMA ComesIs ==
    ASSUME NEW v, Comes(v), v # <<>>
    PROVE  /\ v \in Seq(Names) /\ Recursive /\ Exists(Found(was, Source \o v, FALSE))
           /\ \A i \in 0..Len(v) - 1 : Seen(Source \o Pre(v, i)).kind = "dir"
<1>1. v \in Below
  BY DEF Comes
<1>2. /\ Recursive /\ Exists(Found(was, Source \o v, FALSE))
      /\ \A i \in 0..Len(v) - 1 : Seen(Source \o SubSeq(v, 1, i)).kind = "dir"
      /\ v \in UNION {[1..n -> Names] : n \in 1..MaxLen - Len(Source)}
  BY <1>1 DEF Below
<1>3. PICK n \in 1..MaxLen - Len(Source) : v \in [1..n -> Names]
  BY <1>2
<1>4. n \in Nat
  OBVIOUS
<1>5. v \in Seq(Names)
  BY <1>3, <1>4, SeqDef
<1> QED BY <1>2, <1>5 DEF Pre

LEMMA BelowChild ==
    ASSUME was \in [Places -> Nodes], NEW w \in Seq(Names), NEW v \in Seq(Names),
           IsPrefix(w, v), w # v, Comes(v)
    PROVE  /\ Recursive /\ Seen(Source \o w).kind = "dir"
           /\ \E n \in Listing(Source \o w) : n \in Names /\ IsPrefix(Append(w, n), v)
<1>1. PICK n, a : n = v[Len(w) + 1] /\ a = Append(w, n)
  OBVIOUS
<1>2. n \in Names /\ IsPrefix(a, v)
  BY <1>1, NextNameIs
<1>3. a \in Seq(Names) /\ Len(a) = Len(w) + 1 /\ Len(w) \in Nat /\ Len(v) \in Nat
  BY <1>1, <1>2
<1>4. Len(a) <= Len(v) /\ Pre(v, Len(a)) = a /\ Pre(v, Len(w)) = w
  BY <1>2, <1>3, PrefixIs
<1>5. v # <<>>
  <2>1. Len(<<>>) = 0
    OBVIOUS
  <2> QED BY <1>3, <1>4, <2>1
<1>6. /\ Recursive /\ Exists(Found(was, Source \o v, FALSE))
      /\ \A i \in 0..Len(v) - 1 : Seen(Source \o Pre(v, i)).kind = "dir"
  BY <1>5, ComesIs
<1>7. Len(w) \in 0..Len(v) - 1
  BY <1>3, <1>4
<1>8. Seen(Source \o w).kind = "dir"
  BY <1>4, <1>6, <1>7
<1>9. PICK sa, sw : sa = Source \o a /\ sw = Source \o w
  OBVIOUS
<1>10. sa \in Seq(Names) /\ sw \in Seq(Names) /\ sa = Append(sw, n)
  <2>1. Source \in Seq(Names)
    BY PlaceAssumption
  <2>2. Append(Source \o w, n) = Source \o Append(w, n)
    BY <1>2, <2>1, AppendOfConcat
  <2>3. Source \o a \in Seq(Names) /\ Source \o w \in Seq(Names)
    BY <1>3, <2>1, ConcatProperties
  <2> QED BY <1>1, <1>9, <2>2, <2>3
<1>11. Exists(Found(was, sa, FALSE))
  <2>1. CASE a = v
    BY <1>6, <1>9, <2>1
  <2>2. CASE a # v
    <3>1. Len(a) # Len(v)
      <4>1. IsPrefix(v, v)
        BY PrefixOfSelf
      <4> QED BY <1>2, <1>3, <2>2, <4>1, PrefixOfPrefix
    <3>2. Len(a) \in 0..Len(v) - 1
      BY <1>3, <1>4, <3>1
    <3>3. Seen(sa).kind = "dir"
      BY <1>4, <1>6, <1>9, <3>2
    <3>4. Exists(Found(was, sa, Follows))
      BY <3>3 DEF Seen, Exists
    <3>5. PICK g : g = Follows
      OBVIOUS
    <3>6. Exists(Found(was, sa, g))
      BY <3>4, <3>5
    <3> QED BY <1>10, <3>6, FoundTooUnfollowed
  <2> QED BY <2>1, <2>2
<1>12. n \in Listing(sw)
  BY <1>2, <1>10, <1>11 DEF Listing
<1> QED BY <1>1, <1>2, <1>6, <1>8, <1>9, <1>12

\* What is made is found.
LEMMA MadeFinds ==
    ASSUME TargetState, NEW z \in Seq(Names), Linkless(node, z), NEW n, Makes(z, n),
           Grown(node, node')
    PROVE  Walk(node', z, FALSE) = z /\ Found(node', z, FALSE) = n
<1>1. /\ z \in Places \ {Root} /\ ~Exists(node[z]) /\ node[Front(z)].kind = "dir"
      /\ node' = [node EXCEPT ![z] = n]
  BY DEF Makes
<1>2. node \in [Places -> Nodes] /\ node' \in [Places -> Nodes] /\ Shaped(node)
  BY DEF Grown, TargetState, TargetInv, TargetDisk
<1>3. PICK y, m : y = Front(z) /\ m = Last(z)
  OBVIOUS
<1>4. y \in Places /\ y \in Seq(Names) /\ m \in Names /\ z = Append(y, m)
  <2>1. Len(z) \in Nat \ {0}
    BY <1>1, EmptySeq DEF Root
  <2>2. z = Append(Front(z), Last(z)) /\ Last(z) \in Names
    BY <2>1, FrontIs DEF Last
  <2>3. Front(z) \in Places
    BY <1>1, PlaceAssumption
  <2> QED BY <1>3, <2>2, <2>3, PlaceAssumption
<1>5. Linkless(node, y)
  <2>1. IsPrefix(y, z) /\ \A p \in Places : p \in Seq(Names)
    BY <1>4, PrefixOfAppend, PlaceAssumption
  <2>2. \A p \in Places : IsPrefix(p, y) => IsPrefix(p, z)
    BY <1>4, <2>1, PrefixOfPrefix
  <2> QED BY <1>4, <2>2, LinklessIs
<1>6. PICK f, g : f = TRUE /\ g = FALSE
  OBVIOUS
<1>7. Exists(node[y])
  BY <1>1, <1>3 DEF Exists
<1>8. Walk(node, y, f) = y /\ Exists(Found(node, y, f))
  BY <1>2, <1>4, <1>5, <1>7, LinklessFound
<1>9. Walk(node', y, f) = y
  BY <1>4, <1>8, GrownFinds
<1>10. Walk(node', z, g) = Onto(node', y, m, g)
  <2>1. Walk(node', Append(y, m), g) = Onto(node', Walk(node', y, TRUE), m, g)
    BY <1>2, <1>4, WalkAppend
  <2> QED BY <1>4, <1>6, <1>9, <2>1
<1>11. node'[y].kind = "dir" /\ y # Void /\ node'[z] = n /\ z # Void
  <2>1. y # z
    BY <1>1, <1>7
  <2> QED BY <1>1, <1>2, <1>3, <1>4, <2>1, PlaceAssumption
<1>12. Onto(node', y, m, g) = z
  BY <1>1, <1>4, <1>6, <1>11 DEF Onto
<1> QED BY <1>6, <1>10, <1>11, <1>12 DEF Found

\* A step that returns does not fail.
LEMMA ReturnsOnly ==
    ASSUME Inv, calls # <<>>, Return
    PROVE  /\ ~Fail /\ ~(\E pc : Goto(pc) \/ Opened(pc)) /\ ~(\E n : CopyEntry(n))
<1>1. /\ Len(calls) \in Nat \ {0} /\ calls \in Seq(CallRecords) /\ Len(calls) # 0 /\ answer = "none"
  BY CurrentType DEF Inv, CallsOK
<1>2. Len(calls') = Len(calls) - 1 /\ answer' # "error"
  <2>1. Len(Front(calls)) = Len(calls) - 1
    BY <1>1, FrontIs
  <2> QED BY <1>1, <2>1 DEF Return
<1>3. ~Fail
  BY <1>2 DEF Fail
<1>4. ASSUME NEW pc, Goto(pc) \/ Opened(pc) PROVE FALSE
  <2>1. Len(calls') = Len(calls)
    BY <1>4 DEF Goto, Opened
  <2> QED BY <1>1, <1>2, <2>1
<1>5. ASSUME NEW n, CopyEntry(n) PROVE FALSE
  <2>1. PICK j : j = [Current EXCEPT !.pc = "next", !.read = @ \cup {n}]
    OBVIOUS
  <2>2. PICK new : new = Call(Append(Current.from, n), Append(Current.to, n))
    OBVIOUS
  <2>3. PICK s : s = [calls EXCEPT ![Len(calls)] = j]
    OBVIOUS
  <2>4. Len(calls) \in 1..Len(calls) /\ Current = calls[Len(calls)] /\ Current \in CallRecords
    BY CurrentType
  <2>5. calls' = Append(s, new)
    BY <1>1, <1>5, <2>1, <2>2, <2>3, <2>4 DEF CopyEntry
  <2>6. Len(s) = Len(calls)
    BY <2>3
  <2>8. Len(calls') = Len(s) + 1
    BY <2>5
  <2> QED BY <1>1, <1>2, <2>6, <2>8
<1> QED BY <1>3, <1>4, <1>5

\* The source and the target of the innermost call, and what it copies.
LEMMA CopiesAt ==
    ASSUME SourceState, UNCHANGED given, NEW w, w = At(Current), NEW x, x = Current.from,
           NEW f, f = Seen(x), NEW z, z = Image(w)
    PROVE  /\ w \in Seq(Names) /\ x = Source \o w /\ Current.to = Target \o w
           /\ f.kind \in {"link", "dir"} => z = Current.to
           /\ f.kind = "file" /\ Has("directories_only") => Kept(w)'
           /\ f.kind # "file" /\ IsCopied(x, z)' => Kept(w)'
           /\ f.kind = "file" /\ IsCopied(x, z)' /\ Exists(Stat(z, FALSE)')
                 /\ Walk(node', z, FALSE) = z => Kept(w)'
<1>1. w \in Seq(Names) /\ x = Source \o w /\ Current.to = Target \o w
  BY CurrentIs DEF SourceState
<1>2. Outside(x)
  BY SourceIs DEF SourceCall
<1>3. f.kind \in {"link", "dir"} => z = Current.to
  BY <1>1 DEF Image
<1>4. Seen(x)' = f /\ Image(w)' = z /\ Outside(x)' /\ \A o : Has(o)' <=> Has(o)
  BY <1>2, GivenStays
<1>5. f.kind = "file" /\ Has("directories_only") => IsCopied(x, z)'
  BY <1>4 DEF IsCopied
<1>6. ASSUME IsCopied(x, z)',
             f.kind = "file" /\ ~Has("directories_only") =>
                 Exists(Stat(z, FALSE)') /\ Walk(node', z, FALSE) = z
      PROVE  Kept(w)'
  BY <1>1, <1>4, <1>6 DEF Kept
<1> QED BY <1>1, <1>3, <1>5, <1>6

\* A look that returns has nothing to do.
LEMMA KeptLook ==
    ASSUME SourceState, UNCHANGED given, Look, Return, NEW w, w = At(Current)
    PROVE  Kept(w)' /\ ~(Seen(Current.from).kind = "dir" /\ Recursive)
<1>1. PICK x, f, z : x = Current.from /\ f = Seen(x) /\ z = Image(w)
  OBVIOUS
<1>2. ~Fail /\ \A pc : ~Goto(pc)
  BY ReturnsOnly DEF SourceState, TargetState
<1>3. LookFrom = f
  BY <1>1, SourceIs DEF LookFrom, Stat, Steady
<1>4. LookFrom = Stat(Current.from,
             ~(Has("create_symlinks") \/ Has("skip_symlinks") \/ Has("copy_symlinks")))
  <2>1. Follows = ~(Has("create_symlinks") \/ Has("skip_symlinks") \/ Has("copy_symlinks"))
    BY DEF Follows, Has
  <2> QED BY <2>1 DEF LookFrom
<1>5. PICK t : t = LookTo
  OBVIOUS
<1>6. Exists(f) /\ f.kind # "other" /\ Chosen(f, t) = "return"
  BY <1>2, <1>3, <1>4, <1>5 DEF Look, LookTo
<1>7. f \in Nodes
  BY <1>3, StatType DEF LookFrom, SourceState, TargetState
<1>8. f.kind \in {"link", "file", "dir"}
  BY <1>6, <1>7 DEF Exists, Nodes, Kinds
<1>9. Seen(x)' = f /\ (Recursive' <=> Recursive) /\ \A o : Has(o)' <=> Has(o)
  BY <1>1, GivenStays
<1>10. CASE f.kind = "link"
  <2>1. Has("skip_symlinks")
    BY <1>6, <1>10 DEF Chosen
  <2>2. IsCopied(x, z)'
    BY <1>9, <1>10, <2>1 DEF IsCopied
  <2> QED BY <1>1, <1>10, <2>2, CopiesAt
<1>11. CASE f.kind = "file"
  <2>1. Has("directories_only")
    BY <1>6, <1>11 DEF Chosen
  <2> QED BY <1>1, <1>11, <2>1, CopiesAt
<1>12. CASE f.kind = "dir"
  <2>1. ~Recursive
    BY <1>6, <1>12 DEF Chosen
  <2>2. IsCopied(x, z)'
    BY <1>9, <1>12, <2>1 DEF IsCopied
  <2> QED BY <1>1, <1>12, <2>1, <2>2, CopiesAt
<1> QED BY <1>8, <1>10, <1>11, <1>12

\* A symlink that is followed leads to no symlink.
LEMMA NoLinkBehind ==
    ASSUME was \in [Places -> Nodes], Beginning, NEW x \in Seq(Names)
    PROVE  Found(was, x, TRUE).kind # "link"
<1>1. Nothing.kind # "link" /\ was[Root].kind = "dir"
  BY DEF Nothing, Node, Beginning, Origin, Shaped
<1>2. CASE x = <<>>
  <2>1. Walk(was, x, TRUE) = Root
    BY <1>2, WalkOfRoot
  <2> QED BY <1>1, <2>1 DEF Found
<1>3. CASE x # <<>>
  <2>1. PICK y, n : y = Front(x) /\ n = Last(x)
    OBVIOUS
  <2>2. y \in Seq(Names) /\ n \in Names /\ x = Append(y, n)
    <3>1. Len(x) \in Nat \ {0}
      BY <1>3, EmptySeq
    <3>2. Front(x) \in Seq(Names) /\ x = Append(Front(x), Last(x)) /\ Last(x) \in Names
      BY <3>1, FrontIs DEF Last
    <3> QED BY <2>1, <3>2
  <2>3. PICK up, e, g : up = Walk(was, y, TRUE) /\ e = Append(up, n) /\ g = TRUE
    OBVIOUS
  <2>4. Walk(was, x, g) = Onto(was, up, n, g)
    BY <2>2, <2>3, WalkAppend
  <2>5. Onto(was, up, n, g) = Void \/ (e \in Places /\ Onto(was, up, n, g) =
                                          IF was[e].kind = "link" THEN was[e].to ELSE e)
    BY <2>3 DEF Onto
  <2>6. was[Onto(was, up, n, g)].kind # "link" \/ Onto(was, up, n, g) = Void
    BY <2>5 DEF Beginning
  <2> QED BY <1>1, <2>3, <2>4, <2>6 DEF Found
<1> QED BY <1>2, <1>3

\* What Make has made is found at the target of the call.
LEMMA MakeFinds ==
    ASSUME TargetState, Inv', Grown(node, node'), NEW y, y = Current.to, NEW n, Make(y, n), ~Fail
    PROVE  Walk(node', y, FALSE) = y /\ Found(node', y, FALSE) = n
<1>1. y \in Seq(Names) /\ y # Root /\ Linkless(node, y) /\ IsPrefix(y, y) /\ Current.to = y
  BY CurrentIs, PrefixOfSelf DEF TargetCall
<1>2. CanMake(y) /\ Put(Walk(node, y, FALSE), n)
  BY DEF Make
<1>3. PICK g : g = FALSE
  OBVIOUS
<1>4. Walk(node, y, g) # Void /\ ~Exists(Stat(y, g)) /\ node' = [node EXCEPT ![Walk(node, y, g)] = n]
  BY <1>2, <1>3 DEF CanMake, Put
<1>5. IsPrefix(Current.to, y)
  BY <1>1
<1>6. Makes(y, n)
  BY <1>1, <1>4, <1>5, MakesAt
<1> QED BY <1>1, <1>6, MadeFinds

LEMMA KeptLinks ==
    ASSUME SourceState, UNCHANGED given, Inv', Grown(node, node'), Return,
           CopySymlink \/ CreateSymlink \/ CreateHardLink, NEW w, w = At(Current)
    PROVE  Kept(w)' /\ Seen(Current.from).kind # "dir"
<1>1. PICK x, f, z, y : x = Current.from /\ f = Seen(x) /\ z = Image(w) /\ y = Current.to
  OBVIOUS
<1>2. ~Fail /\ TargetState
  BY ReturnsOnly DEF SourceState, TargetState
<1>3. Seen(x)' = f /\ was' = was /\ \A o : Has(o)' <=> Has(o)
  BY <1>1, GivenStays
<1>4. /\ Steady(x) /\ SourceCall(Current) /\ Optioned(Current) /\ x \in Seq(Names)
      /\ was \in [Places -> Nodes] /\ Beginning
  BY <1>1, SourceIs DEF SourceState, TargetState, Beginning, Origin, Shaped
<1>5. w \in Seq(Names) /\ x = Source \o w /\ y = Target \o w
  BY <1>1, CopiesAt
<1>6. ASSUME NEW n, Make(y, n)
      PROVE  Stat(y, FALSE)' = n /\ Walk(node', y, FALSE) = y
  BY <1>1, <1>2, <1>6, MakeFinds DEF Stat
<1>7. CASE CopySymlink
  <2>1. f.kind = "link"
    BY <1>1, <1>4, <1>7 DEF SourceCall, CopySymlink
  <2>2. Stat(x, FALSE) = f
    <3>1. ~Follows
      <4>1. ASSUME Follows PROVE FALSE
        <5>1. Follows = TRUE
          BY <4>1 DEF Follows
        <5>2. f = Found(was, x, TRUE)
          BY <1>1, <5>1 DEF Seen
        <5> QED BY <1>4, <2>1, <5>2, NoLinkBehind
      <4> QED BY <4>1
    <3>2. Follows = FALSE
      BY <3>1 DEF Follows
    <3>3. Seen(x) = Found(was, x, FALSE)
      BY <3>2 DEF Seen
    <3> QED BY <1>1, <1>4, <3>3 DEF Steady, Stat
  <2>3. PICK n : n = Node("link", Walk(node, y, FALSE), f.to)
    OBVIOUS
  <2>4. Make(y, n)
    BY <1>1, <1>2, <1>7, <2>1, <2>2, <2>3 DEF CopySymlink
  <2>5. Stat(y, FALSE)' = n /\ n.kind = "link" /\ n.to = f.to
    BY <1>6, <2>3, <2>4 DEF Node
  <2>6. z = y
    BY <1>1, <2>1, CopiesAt
  <2>7. IsCopied(x, z)'
    BY <1>3, <2>1, <2>5, <2>6 DEF IsCopied
  <2> QED BY <1>1, <2>1, <2>7, CopiesAt
<1>8. CASE CreateSymlink
  <2>1. f.kind = "file" /\ Has("create_symlinks")
    BY <1>1, <1>4, <1>8 DEF SourceCall, Optioned, CreateSymlink
  <2>2. PICK n : n = Node("link", Walk(node, y, FALSE), x)
    OBVIOUS
  <2>3. Make(y, n)
    BY <1>1, <1>8, <2>2 DEF CreateSymlink
  <2>4. Stat(y, FALSE)' = n /\ n.kind = "link" /\ n.to = x /\ Walk(node', y, FALSE) = y
    BY <1>6, <2>2, <2>3 DEF Node
  <2>5. z = y
    BY <1>1, <1>5, <2>1 DEF Image, Has
  <2>6. IsCopied(x, z)'
    BY <1>3, <2>1, <2>4, <2>5 DEF IsCopied
  <2>7. Exists(Stat(z, FALSE)') /\ Walk(node', z, FALSE) = z
    BY <2>4, <2>5 DEF Exists
  <2> QED BY <1>1, <2>1, <2>6, <2>7, CopiesAt
<1>9. CASE CreateHardLink
  <2>1. f.kind = "file" /\ Has("create_hard_links")
    BY <1>1, <1>4, <1>9 DEF SourceCall, Optioned, CreateHardLink
  <2>2. PICK n : n = Stat(x, FALSE)
    OBVIOUS
  <2>3. Make(y, n) /\ n.kind # "none" /\ n = Found(was, x, FALSE)
    BY <1>1, <1>2, <1>4, <1>9, <2>2 DEF CreateHardLink, Stat, Steady
  <2>4. Stat(y, FALSE)' = n /\ Walk(node', y, FALSE) = y
    BY <1>6, <2>3
  <2>5. z = y
    BY <1>1, <1>5, <2>1 DEF Image, Has
  <2>6. IsCopied(x, z)'
    BY <1>3, <2>1, <2>3, <2>4, <2>5 DEF IsCopied
  <2>7. Exists(Stat(z, FALSE)') /\ Walk(node', z, FALSE) = z
    BY <2>3, <2>4, <2>5 DEF Exists
  <2> QED BY <1>1, <2>1, <2>6, <2>7, CopiesAt
<1> QED BY <1>7, <1>8, <1>9

\* Where no symlink is on the way, none was.
LEMMA LinklessBefore ==
    ASSUME TargetState, NEW y \in Seq(Names), Linkless(node, y), Untouched(y), NEW follow
    PROVE  /\ y \in Places => node[y] = was[y]
           /\ Exists(Found(was, y, follow)) <=> y \in Places /\ Exists(was[y])
           /\ Exists(Found(was, y, follow)) => Found(was, y, follow) = was[y]
<1>1. /\ Shaped(was) /\ \A p \in Places : Exists(was[p]) => node[p] = was[p]
  BY DEF TargetState, Beginning, Origin, TargetInv, TargetDisk
<1>2. \A p \in Places : was[p].kind = "link" => node[p].kind = "link"
  BY <1>1 DEF Exists
<1>3. Linkless(was, y)
  BY <1>2, LinklessIs
<1>4. y \in Places => node[y] = was[y]
  BY PrefixOfSelf DEF Untouched
<1>5. /\ Exists(Found(was, y, follow)) <=> y \in Places /\ Exists(was[y])
      /\ y \in Places /\ Exists(was[y]) => Found(was, y, follow) = was[y]
  BY <1>1, <1>3, LinklessFound
<1> QED BY <1>4, <1>5

\* The image of a file is where copy_file writes to.
LEMMA FileImage ==
    ASSUME SourceState, CopiesFile(Current), NEW w, w = At(Current)
    PROVE  Image(w) = FileTarget
<1>1. PICK x, y : x = Current.from /\ y = Current.to
  OBVIOUS
<1>2. /\ SourceCall(Current) /\ Optioned(Current) /\ TargetCall(Current) /\ TargetState
  BY SourceIs DEF SourceState
<1>3. x = Source \o w /\ y = Target \o w /\ y \in Seq(Names)
  BY <1>1, CurrentIs DEF SourceState
<1>4. options \cap {"create_symlinks", "create_hard_links"} = {} /\ Seen(x).kind = "file"
  BY <1>1, <1>2 DEF SourceCall, Optioned, CopiesFile, Has
<1>5. Linkless(node, y) /\ Untouched(y)
  BY <1>1, <1>2 DEF TargetCall, Begun, CopiesFile
<1>6. PICK g : g = FALSE
  OBVIOUS
<1>7. /\ y \in Places => node[y] = was[y]
      /\ Exists(Found(was, y, g)) <=> y \in Places /\ Exists(was[y])
      /\ Exists(Found(was, y, g)) => Found(was, y, g) = was[y]
  BY <1>2, <1>3, <1>5, LinklessBefore
<1>8. Found(was, y, g).kind = "dir" <=> Current.pc \in {"copy_file_into", "write_file_into"}
  <2>1. CASE Current.pc \in {"copy_file_into", "write_file_into"}
    <3>1. y \in Places /\ node[y].kind = "dir"
      BY <1>1, <1>2, <2>1 DEF TargetCall
    <3>2. Exists(was[y])
      BY <1>7, <3>1 DEF Exists
    <3> QED BY <1>7, <2>1, <3>1, <3>2
  <2>2. CASE Current.pc \in {"copy_file", "write_file"}
    <3>1. y \in Places => node[y].kind # "dir"
      BY <1>1, <1>2, <2>2 DEF TargetCall
    <3>2. Found(was, y, g).kind = "dir" => Exists(Found(was, y, g))
      BY DEF Exists
    <3> QED BY <1>7, <2>2, <3>1, <3>2
  <2> QED BY <2>1, <2>2 DEF CopiesFile
<1>9. Image(w) = IF Found(was, y, FALSE).kind = "dir" THEN Append(y, Last(x)) ELSE y
  BY <1>3, <1>4 DEF Image
<1> QED BY <1>1, <1>6, <1>8, <1>9 DEF FileTarget

LEMMA KeptFile ==
    ASSUME SourceState, UNCHANGED given, Inv', Grown(node, node'), Return, CopyFileWhole,
           NEW w, w = At(Current)
    PROVE  Kept(w)' /\ Seen(Current.from).kind # "dir"
<1>1. PICK x, f, z, y : x = Current.from /\ f = Seen(x) /\ z = Image(w) /\ y = Current.to
  OBVIOUS
<1>2. ~Fail /\ TargetState /\ CopiesFile(Current)
  BY ReturnsOnly DEF SourceState, TargetState, CopyFileWhole, CopiesFile
<1>3. Seen(x)' = f /\ was' = was /\ \A o : Has(o)' <=> Has(o)
  BY <1>1, GivenStays
<1>4. /\ Steady(x) /\ SourceCall(Current) /\ x \in Seq(Names)
      /\ was \in [Places -> Nodes] /\ node \in [Places -> Nodes] /\ data \in [Places -> Places]
  BY <1>1, SourceIs DEF SourceState, TargetState, Beginning, Origin, Shaped, Inv, DiskOK
<1>5. z = FileTarget /\ f.kind = "file"
  BY <1>1, <1>2, <1>4, FileImage DEF SourceCall
<1>6. /\ z \in Seq(Names) /\ z # Root /\ Linkless(node, z) /\ IsPrefix(Current.to, z) /\ Untouched(z)
  BY <1>2, <1>5, FileTargetIs DEF CopiesFile
<1>7. PICK s, t : s = Stat(x, FALSE) /\ t = Stat(z, TRUE)
  OBVIOUS
<1>8. PICK p : p = Walk(node, z, TRUE)
  OBVIOUS
<1>9. /\ s.kind = "file" /\ p # Void
      /\ \/ /\ ~Exists(t) /\ Put(p, Node("file", p, Root))
            /\ data' = [data EXCEPT ![p] = data[s.id]]
         \/ /\ t.kind = "file" /\ Has("skip_existing") /\ UNCHANGED disk
         \/ /\ t.kind = "file" /\ Has("overwrite_existing") /\ UNCHANGED node
            /\ data' = [data EXCEPT ![t.id] = data[s.id]]
  BY <1>1, <1>2, <1>5, <1>7, <1>8 DEF CopyFileWhole
<1>10. f = s
  <2>1. s = Found(was, x, FALSE)
    BY <1>4, <1>7 DEF Steady, Stat
  <2>2. PICK g : g = Follows
    OBVIOUS
  <2>3. Found(was, x, FALSE).kind # "link"
    BY <1>9, <2>1
  <2>4. Found(was, x, g) = Found(was, x, FALSE)
    BY <1>4, <2>3, FollowsNoLink
  <2> QED BY <1>1, <2>1, <2>2, <2>4 DEF Seen
<1>11. PICK g, h : g = TRUE /\ h = FALSE
  OBVIOUS
<1>12. ASSUME Exists(t)
       PROVE  t = node[z] /\ z \in Places /\ Found(node, z, FALSE) = node[z] /\ Walk(node, z, FALSE) = z
  <2>1. Exists(Found(node, z, g)) /\ Shaped(node)
    BY <1>2, <1>7, <1>11, <1>12 DEF Stat, TargetState, TargetInv, TargetDisk
  <2>2. z \in Places /\ Exists(node[z]) /\ Found(node, z, g) = node[z]
    BY <1>6, <2>1, LinklessFound
  <2>3. Walk(node, z, h) = z /\ Found(node, z, h) = node[z]
    BY <1>6, <2>1, <2>2, LinklessFound
  <2> QED BY <1>7, <1>11, <2>2, <2>3 DEF Stat
<1>13. SUFFICES ASSUME TRUE
                PROVE  IsCopied(x, z)' /\ Exists(Stat(z, FALSE)') /\ Walk(node', z, FALSE) = z
  BY <1>1, <1>5, CopiesAt
<1>14. CASE /\ ~Exists(t) /\ Put(p, Node("file", p, Root)) /\ data' = [data EXCEPT ![p] = data[s.id]]
  <2>1. PICK n : n = Node("file", p, Root)
    OBVIOUS
  <2>2. Walk(node, z, g) # Void /\ ~Exists(Stat(z, g)) /\ node' = [node EXCEPT ![Walk(node, z, g)] = n]
    BY <1>7, <1>8, <1>9, <1>11, <1>14, <2>1 DEF Put
  <2>3. Walk(node, z, g) = z /\ Makes(z, n)
    BY <1>2, <1>6, <2>2, MakesAt
  <2>4. Walk(node', z, FALSE) = z /\ Found(node', z, FALSE) = n
    BY <1>2, <1>6, <2>3, MadeFinds
  <2>5. n.kind = "file" /\ n.id = p /\ p \in Places
    <3>1. p = z
      BY <1>8, <1>11, <2>3
    <3> QED BY <2>1, <2>3, <3>1 DEF Node, Makes
  <2>6. data'[n.id] = data'[f.id]
    <3>1. f.id \in Places
      BY <1>4, <1>7, <1>10, WalkType DEF Stat, Nodes
    <3> QED BY <1>4, <1>10, <1>14, <2>5, <3>1
  <2>7. Stat(z, FALSE)' = n
    BY <2>4 DEF Stat
  <2>8. IsCopied(x, z)'
    BY <1>3, <1>5, <2>5, <2>6, <2>7 DEF IsCopied
  <2> QED BY <2>4, <2>5, <2>7, <2>8 DEF Exists
<1>15. CASE t.kind = "file" /\ Has("skip_existing") /\ UNCHANGED disk
  <2>1. Exists(t) /\ node' = node
    BY <1>15 DEF Exists, disk
  <2>2. Stat(z, FALSE)' = t /\ Walk(node', z, FALSE) = z
    BY <1>12, <2>1 DEF Stat
  <2>3. t = Found(was, z, FALSE)
    <3>1. z \in Places => node[z] = was[z]
      BY <1>2, <1>6, LinklessBefore
    <3>2. z \in Places /\ Exists(was[z]) /\ t = was[z]
      BY <1>12, <2>1, <3>1
    <3>3. Found(was, z, h) = was[z]
      BY <1>2, <1>6, <3>2, LinklessBefore
    <3> QED BY <1>11, <3>2, <3>3
  <2>4. IsCopied(x, z)'
    BY <1>3, <1>5, <1>15, <2>2, <2>3 DEF IsCopied
  <2> QED BY <2>1, <2>2, <2>4
<1>16. CASE /\ t.kind = "file" /\ Has("overwrite_existing") /\ UNCHANGED node
            /\ data' = [data EXCEPT ![t.id] = data[s.id]]
  <2>1. Exists(t) /\ node' = node
    BY <1>16 DEF Exists
  <2>2. Stat(z, FALSE)' = t /\ Walk(node', z, FALSE) = z
    BY <1>12, <2>1 DEF Stat
  <2>3. data'[t.id] = data'[f.id]
    <3>1. f.id \in Places /\ t.id \in Places
      BY <1>4, <1>7, <1>10, WalkType DEF Stat, Nodes
    <3> QED BY <1>4, <1>10, <1>16, <3>1
  <2>4. IsCopied(x, z)'
    BY <1>3, <1>5, <1>16, <2>2, <2>3 DEF IsCopied
  <2> QED BY <2>1, <2>2, <2>4
<1> QED BY <1>9, <1>14, <1>15, <1>16

LEMMA KeptDirectory ==
    ASSUME SourceState, UNCHANGED given, Return, ReadNext, unread' = FALSE, NEW w, w = At(Current)
    PROVE  /\ Kept(w)' /\ Seen(Current.from).kind = "dir"
           /\ Listing(Current.from) \subseteq Current.read
<1>1. PICK x, f, z, y : x = Current.from /\ f = Seen(x) /\ z = Image(w) /\ y = Current.to
  OBVIOUS
<1>2. ~Fail /\ ~(\E n : CopyEntry(n)) /\ TargetState
  BY ReturnsOnly DEF SourceState, TargetState
<1>3. AtEnd /\ UNCHANGED disk /\ Current.pc \in {"first", "next"}
  BY <1>2 DEF ReadNext
<1>4. Seen(x)' = f /\ was' = was /\ (Recursive' <=> Recursive) /\ \A o : Has(o)' <=> Has(o)
  BY <1>1, GivenStays
<1>5. f.kind = "dir" /\ Current.entries = Listing(x)
  BY <1>1, <1>3, SourceIs DEF SourceCall, Begun
<1>6. Listing(x) \subseteq Current.read
  <2>1. Listed(x) = Listing(x)
    BY <1>1, <1>5, ListedIs
  <2> QED BY <1>1, <1>3, <1>5, <2>1 DEF AtEnd
<1>7. /\ y \in Seq(Names) /\ y \in Places /\ node[y].kind = "dir" /\ Linkless(node, y)
      /\ Shaped(node)
  BY <1>1, <1>2, <1>3, CurrentIs DEF TargetCall, Begun, TargetState, TargetInv, TargetDisk
<1>8. PICK h : h = FALSE
  OBVIOUS
<1>9. Found(node, y, h) = node[y]
  BY <1>7, LinklessFound DEF Exists
<1>10. Stat(y, FALSE)' = node[y]
  BY <1>3, <1>8, <1>9 DEF Stat, disk
<1>11. z = y
  BY <1>1, <1>5, CopiesAt
<1>12. IsCopied(x, z)'
  BY <1>4, <1>5, <1>7, <1>10, <1>11 DEF IsCopied
<1>13. Kept(w)'
  BY <1>1, <1>5, <1>12, CopiesAt
<1> QED BY <1>1, <1>5, <1>6, <1>13

\* A call that returns has left the image of all there is to copy.
LEMMA ReturnsDone ==
    ASSUME SourceState, QuietStep, Inv', Grown(node, node'), Return, unread' = FALSE,
           NEW w, w = At(Current)
    PROVE  Done(w)'
<1>1. UNCHANGED given /\ TargetState /\ was \in [Places -> Nodes]
  BY DEF QuietStep, SourceState, TargetState, Beginning, Origin, Shaped
<1>2. PICK x : x = Current.from
  OBVIOUS
<1>3. w \in Seq(Names) /\ x = Source \o w
  BY <1>1, <1>2, CopiesAt
<1>4. \/ Kept(w)' /\ ~(Seen(x).kind = "dir" /\ Recursive)
      \/ Kept(w)' /\ Listing(x) \subseteq Current.read
  <2>1. CASE Look
    BY <1>1, <1>2, <2>1, KeptLook
  <2>2. CASE CopySymlink \/ CreateSymlink \/ CreateHardLink
    BY <1>1, <1>2, <2>2, KeptLinks
  <2>3. CASE CopyFileWhole
    BY <1>1, <1>2, <2>3, KeptFile
  <2>4. CASE ReadNext
    BY <1>1, <1>2, <2>4, KeptDirectory
  <2>5. CASE LookedAtFiles \/ CreateDirectory \/ OpenDirectory
    BY <1>1, <2>5, ReturnsOnly DEF LookedAtFiles, CreateDirectory, OpenDirectory, SourceState,
                                   TargetState
  <2> QED BY <2>1, <2>2, <2>3, <2>4, <2>5 DEF QuietStep
<1>5. ASSUME NEW v \in Seq(Names), IsPrefix(w, v), Comes(v)' PROVE Kept(v)'
  <2>1. Comes(v)
    BY <1>1, <1>5, ComesStays
  <2>2. CASE v = w
    BY <1>4, <2>2
  <2>3. CASE v # w
    <3>1. /\ Recursive /\ Seen(x).kind = "dir"
          /\ \E n \in Listing(x) : n \in Names /\ IsPrefix(Append(w, n), v)
      BY <1>1, <1>3, <1>5, <2>1, <2>3, BelowChild
    <3>2. PICK n \in Current.read : n \in Names /\ IsPrefix(Append(w, n), v)
      BY <1>4, <3>1
    <3>3. PICK l, r : l = Len(calls) /\ r = Append(w, n)
      OBVIOUS
    <3>4. l \in 1..Len(calls) /\ n \in calls[l].read /\ r = Append(At(calls[l]), n) /\ ~(l < Len(calls))
      BY <3>3, SourceIs
    <3>5. Done(r)'
      BY <1>1, <3>4, DoneStays
    <3>6. r \in Seq(Names) /\ IsPrefix(r, v)
      BY <1>3, <3>2, <3>3
    <3> QED BY <1>5, <3>5, <3>6 DEF Done
  <2> QED BY <2>2, <2>3
<1> QED BY <1>5 DEF Done

\* What has been read stays done, or is done when its copy returns.
LEMMA ProgressNext ==
    ASSUME SourceState, QuietStep, Inv', Grown(node, node'), unread' = FALSE,
           NEW i \in 1..Len(calls'), NEW k, k = calls'[i], NEW n \in k.read,
           NEW r, r = Append(At(k), n), i < Len(calls') => At(calls'[i + 1]) # r
    PROVE  Done(r)'
<1>1. PICK l : l = Len(calls)
  OBVIOUS
<1>2. /\ l \in Nat \ {0} /\ Current = calls[l] /\ Len(calls') \in 0..l + 1
      /\ \A j \in 1..Len(calls') : j < l => calls'[j] = calls[j]
      /\ Len(calls') >= l => calls'[l].from = Current.from
      /\ Len(calls') = l => Turns(calls'[l])
      /\ Len(calls') = l + 1 => \E m \in Names : Reads(m) /\ Entered(m)
      /\ Len(calls') < l => Fail \/ (Return /\ Len(calls') = l - 1)
  <2>1. /\ l \in Nat \ {0} /\ Current = calls[l] /\ Len(calls') \in 0..l + 1
        /\ \A j \in 1..Len(calls') : j < l => calls'[j] = calls[j]
        /\ Len(calls') >= l =>
                 /\ calls'[l].from = Current.from /\ calls'[l].to = Current.to
                 /\ Current.read \subseteq calls'[l].read
        /\ Len(calls') = l => Turns(calls'[l])
        /\ Len(calls') = l + 1 => \E m \in Names : Reads(m) /\ Entered(m)
        /\ Len(calls') < l => Fail \/ (Return /\ Len(calls') = l - 1)
    BY <1>1, NextCalls DEF SourceState, TargetState
  <2> QED BY <2>1
<1>3. UNCHANGED given
  BY DEF QuietStep
<1>4. ASSUME NEW j \in 1..Len(calls), j = i, n \in calls[j].read, At(calls[j]) = At(k),
             j < Len(calls) => At(calls[j + 1]) # r
      PROVE  Done(r)'
  <2>1. r = Append(At(calls[j]), n)
    BY <1>4
  <2> QED BY <1>3, <1>4, <2>1, DoneStays
<1>5. CASE i < l
  <2>1. i \in 1..Len(calls) /\ calls'[i] = calls[i] /\ i < Len(calls)
    BY <1>1, <1>2, <1>5
  <2>2. n \in calls[i].read /\ At(calls[i]) = At(k)
    BY <2>1
  <2>3. CASE i < Len(calls') /\ i + 1 < l
    <3>1. PICK j : j = i + 1
      OBVIOUS
    <3>2. calls'[j] = calls[j]
      BY <1>2, <2>3, <3>1
    <3>3. At(calls[i + 1]) # r
      BY <2>3, <3>1, <3>2
    <3> QED BY <1>4, <2>1, <2>2, <3>3
  <2>4. CASE i < Len(calls') /\ i + 1 = l
    <3>1. Len(calls') >= l
      BY <1>2, <2>4
    <3>2. At(calls'[l]) = At(calls[l])
      BY <1>2, <3>1 DEF At
    <3>3. At(calls[i + 1]) # r
      BY <2>4, <3>2
    <3> QED BY <1>4, <2>1, <2>2, <3>3
  <2>5. CASE ~(i < Len(calls'))
    <3>0. i = Len(calls') /\ Len(calls') # 0 /\ Len(calls') < l
      BY <1>2, <1>5, <2>5
    <3>2. Return /\ Len(calls') = l - 1
      <4>1. ~Fail
        <5>1. Len(<<>>) = 0
          OBVIOUS
        <5> QED BY <3>0, <5>1 DEF Fail
      <4> QED BY <1>2, <3>0, <4>1
    <3>1. i + 1 = l
      BY <1>2, <3>0, <3>2
    <3>3. CASE At(calls[l]) = r
      <4>1. r = At(Current)
        BY <1>2, <3>3
      <4> QED BY <3>2, <4>1, ReturnsDone
    <3>4. CASE At(calls[l]) # r
      BY <1>4, <2>1, <2>2, <3>1, <3>4
    <3> QED BY <3>3, <3>4
  <2> QED BY <1>2, <1>5, <2>3, <2>4, <2>5
<1>6. CASE i = l /\ Len(calls') = l
  <2>1. Turns(k) /\ l \in 1..Len(calls) /\ ~(l < Len(calls))
    BY <1>1, <1>2, <1>6
  <2>2. n \in calls[l].read /\ At(calls[l]) = At(k)
    BY <1>2, <2>1 DEF Turns, At
  <2> QED BY <1>4, <1>6, <2>1, <2>2
<1>7. CASE i >= l /\ Len(calls') = l + 1
  <2>1. PICK m \in Names : Reads(m) /\ Entered(m)
    BY <1>2, <1>7
  <2>2. PICK h, new : h = calls'[l] /\ new = calls'[l + 1]
    OBVIOUS
  <2>3. /\ h.from = Current.from /\ h.read = Current.read \cup {m}
        /\ new.from = Append(Current.from, m) /\ new.read = {}
    BY <1>1, <2>1, <2>2 DEF Entered
  <2>4. i = l /\ k = h
    <3>1. i = l \/ i = l + 1
      BY <1>2, <1>7
    <3>2. i # l + 1
      BY <2>2, <2>3
    <3> QED BY <2>2, <3>1, <3>2
  <2>5. At(new) = Append(At(Current), m) /\ At(h) = At(Current)
    <3>1. Current.from \in Seq(Names) /\ IsPrefix(Source, Current.from)
      BY CurrentIs DEF SourceState
    <3> QED BY <2>3, <3>1, RestOfEntry DEF At
  <2>6. n # m
    <3>1. At(new) # r
      <4>1. i < Len(calls')
        BY <1>2, <1>7, <2>4
      <4> QED BY <2>2, <2>4, <4>1
    <3> QED BY <2>4, <2>5, <3>1
  <2>7. n \in calls[l].read /\ At(calls[l]) = At(k) /\ l \in 1..Len(calls) /\ ~(l < Len(calls))
    BY <1>1, <1>2, <2>3, <2>4, <2>5, <2>6
  <2> QED BY <1>4, <2>4, <2>7
<1> QED BY <1>2, <1>5, <1>6, <1>7

LEMMA SourceNext ==
    ASSUME SourceState, QuietStep, Inv', unread' = FALSE
    PROVE  SourceInv'
<1>1. UNCHANGED given /\ TargetState /\ MakesOne
  BY StepMakesOne DEF QuietStep, SourceState
<1>2. Grown(node, node')
  BY <1>1, MakesDisk
<1>3. FilesAreThere' /\ OneNameLeft'
  BY <1>1, <1>2, FilesNext
<1>4. PICK l : l = Len(calls)
  OBVIOUS
<1>5. /\ l \in Nat \ {0} /\ Current = calls[l] /\ Len(calls') \in 0..l + 1
      /\ \A j \in 1..Len(calls') : j < l => calls'[j] = calls[j]
      /\ Len(calls') = l => Turns(calls'[l])
      /\ Len(calls') = l + 1 => \E m \in Names : Reads(m) /\ Entered(m)
      /\ Len(calls') < l => Fail \/ (Return /\ Len(calls') = l - 1)
  <2>1. /\ l \in Nat \ {0} /\ Current = calls[l] /\ Len(calls') \in 0..l + 1
        /\ \A j \in 1..Len(calls') : j < l => calls'[j] = calls[j]
        /\ Len(calls') = l => Turns(calls'[l])
        /\ Len(calls') = l + 1 => \E m \in Names : Reads(m) /\ Entered(m)
        /\ Len(calls') < l => Fail \/ (Return /\ Len(calls') = l - 1)
    BY <1>1, <1>4, NextCalls DEF TargetState
  <2> QED BY <2>1
<1>6. ASSUME NEW i \in 1..Len(calls'), NEW k, k = calls'[i] PROVE SourceCall(k)
  <2>1. CASE i < l
    <3>1. i \in 1..Len(calls) /\ k = calls[i]
      BY <1>4, <1>5, <1>6, <2>1
    <3> QED BY <3>1 DEF SourceState, SourceInv
  <2>2. CASE i = l /\ Len(calls') = l
    <3>1. Turns(k)
      BY <1>5, <1>6, <2>2
    <3> QED BY <3>1, SourceTurns
  <2>3. CASE i >= l /\ Len(calls') = l + 1
    <3>1. PICK m \in Names : Reads(m) /\ Entered(m)
      BY <1>5, <2>3
    <3>2. PICK h, new : h = calls'[Len(calls)] /\ new = calls'[Len(calls) + 1]
      OBVIOUS
    <3>3. SourceCall(h) /\ SourceCall(new)
      BY <3>1, <3>2, SourceReads
    <3>4. k = h \/ k = new
      <4>1. i = l \/ i = l + 1
        BY <1>5, <2>3
      <4> QED BY <1>4, <1>6, <3>2, <4>1
    <3> QED BY <3>3, <3>4
  <2> QED BY <1>5, <2>1, <2>2, <2>3
<1>7. ASSUME NEW i \in 1..Len(calls') PROVE SourceCall(calls[i])'
  <2>1. PICK k : k = calls'[i]
    OBVIOUS
  <2>2. SourceCall(k)'
    BY <1>1, <1>6, <2>1, GivenStays
  <2> QED BY <2>1, <2>2
<1>8. ASSUME answer' = "ok" PROVE Done(<<>>)'
  <2>1. answer = "none" /\ ~(Len(calls') >= l)
    <3>1. answer = "none"
      BY <1>1, CurrentIs
    <3>2. Len(calls') = l => answer' = answer
      BY <1>5 DEF Turns
    <3>3. Len(calls') = l + 1 => answer' = answer
      BY <1>5 DEF Entered
    <3> QED BY <1>5, <1>8, <3>1, <3>2, <3>3
  <2>2. Return /\ l = 1
    <3>1. ~Fail
      BY <1>8 DEF Fail
    <3>2. Return
      BY <1>5, <2>1, <3>1
    <3> QED BY <1>4, <1>8, <2>1, <3>2 DEF Return
  <2>3. PICK w : w = At(Current)
    OBVIOUS
  <2>4. w = <<>>
    <3>1. l \in 1..Len(calls) /\ w = At(calls[l])
      BY <1>4, <1>5, <2>3
    <3>2. w \in Seq(Names) /\ Len(w) = l - 1
      BY <1>1, <3>1, AtIs DEF TargetState
    <3> QED BY <2>2, <3>2, EmptySeq
  <2>5. Done(w)'
    BY <1>2, <2>2, <2>3, ReturnsDone
  <2> QED BY <2>4, <2>5
<1>9. ASSUME NEW i \in 1..Len(calls'), NEW n \in calls'[i].read, NEW r, r = Append(At(calls'[i]), n),
             i < Len(calls') => At(calls'[i + 1]) # r
      PROVE  Done(r)'
  <2>1. PICK k : k = calls'[i]
    OBVIOUS
  <2>2. n \in k.read /\ r = Append(At(k), n)
    BY <1>9, <2>1
  <2> QED BY <1>2, <1>9, <2>1, <2>2, ProgressNext
<1>10. Progress'
  BY <1>8, <1>9 DEF Progress
<1> QED BY <1>3, <1>7, <1>10 DEF SourceInv

\* A copy to a target that is apart from its source leaves the image of all it
\* has come to.
SourceHolds == others = 0 /\ ~unread /\ Apart => SourceInv

LEMMA SourceInitially == Init => SourceHolds
<1> SUFFICES ASSUME Init, Apart PROVE SourceInv
  BY DEF SourceHolds
<1>1. Beginning /\ was = node
  BY TargetInitially DEF TargetHolds, Init
<1>2. was \in [Places -> Nodes]
      /\ \A p \in Places : was[p].kind = "file" => was[was[p].id] = was[p]
  BY <1>1 DEF Beginning, Origin, Shaped
<1>3. FilesAreThere
  BY <1>1, <1>2 DEF FilesAreThere, Exists
<1>4. OneNameLeft
  BY <1>1, <1>2 DEF OneNameLeft, Apart, IsWithin
<1>5. PICK k : k = Call(Source, Target)
  OBVIOUS
<1>6. /\ Len(calls) = 1 /\ calls[1] = k /\ \A i \in 1..1 : i = 1
      /\ k.from = Source /\ k.pc = "look" /\ k.read = {} /\ answer = "none"
  BY <1>5 DEF Init, Call
<1>7. SourceCall(k)
  BY <1>6 DEF SourceCall, CopiesFile, Begun, Outside
<1>8. Progress
  BY <1>6 DEF Progress
<1> QED BY <1>3, <1>4, <1>6, <1>7, <1>8 DEF SourceInv

LEMMA SourceAlways ==
    Inv /\ Fresh /\ StackInv /\ TargetHolds /\ SourceHolds /\ [Next]_vars => SourceHolds'
<1> SUFFICES ASSUME Inv, Fresh, StackInv, TargetHolds, SourceHolds, [Next]_vars PROVE SourceHolds'
  OBVIOUS
<1>1. Inv'
  BY NextInv
<1>2. SUFFICES ASSUME others' = 0, unread' = FALSE, Apart' PROVE SourceInv'
  <2>1. ~unread' => unread' = FALSE
    BY <1>1 DEF Inv
  <2> QED BY <2>1 DEF SourceHolds
<1>3. UNCHANGED given
  BY DEF Next, Step, OtherRemoves, OtherMakes, Disturb, vars
<1>4. Apart
  BY <1>2, <1>3 DEF Apart, OnTheWay, Follows, Direct, Near, IsWithin, Has, given
<1>5. CASE Step
  <2>1. unread = FALSE
    BY <1>2, <1>5 DEF Step, Look, CopySymlink, CreateSymlink, CreateHardLink, LookAtFiles, WriteFile,
                 CreateDirectory, OpenDirectory, ReadNext, CopyEntry, Inv
  <2>2. others = 0 /\ calls # <<>>
    BY <1>2, <1>5 DEF Step
  <2>3. SourceState
    BY <1>4, <2>1, <2>2 DEF SourceState, TargetState, TargetHolds, SourceHolds, Apart
  <2>4. QuietStep
    BY <1>5, <2>2, StepsAreQuiet
  <2> QED BY <1>1, <1>2, <2>3, <2>4, SourceNext
<1>6. CASE UNCHANGED vars
  <2>1. SourceInv
    BY <1>2, <1>4, <1>6 DEF SourceHolds, vars
  <2>2. node' = node /\ data' = data /\ calls' = calls /\ answer' = answer
    BY <1>6 DEF vars, disk
  <2>3. FilesAreThere' /\ OneNameLeft'
    BY <1>3, <2>1, <2>2, GivenStays DEF SourceInv, FilesAreThere, OneNameLeft
  <2>4. ASSUME NEW w, Kept(w) PROVE Kept(w)'
    <3>1. PICK x, y : x = Source \o w /\ y = Image(w)
      OBVIOUS
    <3>2. /\ Seen(x)' = Seen(x) /\ (Outside(x)' <=> Outside(x)) /\ Image(w)' = y
          /\ (Recursive' <=> Recursive) /\ was' = was /\ \A o : Has(o)' <=> Has(o)
      BY <1>3, <3>1, GivenStays
    <3>3. Stat(y, FALSE)' = Stat(y, FALSE)
      BY <2>2 DEF Stat
    <3>4. IsCopied(x, y)' <=> IsCopied(x, y)
      BY <2>2, <3>2, <3>3 DEF IsCopied
    <3> QED BY <2>2, <2>4, <3>1, <3>2, <3>3, <3>4 DEF Kept
  <2>5. ASSUME NEW r, Done(r) PROVE Done(r)'
    BY <1>3, <2>4, <2>5, ComesStays DEF Done
  <2>6. Progress'
    BY <2>1, <2>2, <2>5 DEF SourceInv, Progress
  <2>7. \A i \in 1..Len(calls') : SourceCall(calls[i])'
    <3>1. ASSUME NEW i \in 1..Len(calls') PROVE SourceCall(calls[i])'
      <4>1. PICK k : k = calls[i]
        OBVIOUS
      <4>2. SourceCall(k)'
        BY <1>3, <2>1, <2>2, <4>1, GivenStays DEF SourceInv
      <4> QED BY <2>2, <4>1, <4>2
    <3> QED BY <3>1
  <2> QED BY <2>3, <2>6, <2>7 DEF SourceInv
<1>7. ASSUME NEW p \in Places, OtherRemoves(p) \/ OtherMakes(p) PROVE FALSE
  <2>1. others' = others + 1 /\ others \in Nat
    BY <1>7, PlaceAssumption DEF OtherRemoves, OtherMakes, Disturb, Inv
  <2> QED BY <1>2, <2>1
<1> QED BY <1>5, <1>6, <1>7 DEF Next

\* When copy has answered without an error, and neither another program nor
\* readdir() has interfered, everything is copied if source and target are
\* apart, and the source was no directory that holds the target.
LEMMA SuccessIs ==
    ASSUME SpineHolds, SourceHolds
    PROVE  SuccessMeansCopied
<1> SUFFICES ASSUME answer = "ok", others = 0, ~unread
             PROVE  (Apart => EverythingIsCopied) /\ ~IntoItself
  BY DEF SuccessMeansCopied
<1>1. ~IntoItself
  BY DEF SpineHolds, SpineInv
<1>2. ASSUME Apart PROVE EverythingIsCopied
  <2>1. Done(<<>>)
    BY <1>2 DEF SourceHolds, SourceInv, Progress
  <2>2. ASSUME NEW w \in {<<>>} \cup Below PROVE IsCopied(Source \o w, Image(w))
    <3>1. Comes(w)
      BY DEF Comes
    <3>2. w \in Seq(Names)
      <4>1. w # <<>> => w \in Seq(Names)
        BY <3>1, ComesIs
      <4>2. w = <<>> => w \in Seq(Names)
        OBVIOUS
      <4> QED BY <4>1, <4>2
    <3>3. PICK e : e = <<>>
      OBVIOUS
    <3>4. IsPrefix(e, w)
      BY <3>2, <3>3, PrefixOfSelf
    <3>5. Kept(w)
      BY <2>1, <3>1, <3>2, <3>3, <3>4 DEF Done
    <3> QED BY <3>5 DEF Kept
  <2> QED BY <2>2 DEF EverythingIsCopied
<1> QED BY <1>1, <1>2

THEOREM SuccessIsACopy == Spec => []SuccessMeansCopied
<1> DEFINE J == Inv /\ Fresh /\ StackInv /\ TargetHolds /\ SpineHolds /\ SourceHolds
<1>1. Init => J
  BY InitInv, FreshInit, StackInitially, TargetInitially, SpineInitially, SourceInitially
<1>2. J /\ [Next]_vars => J'
  BY NextInv, FreshNext, StackNext, TargetAlways, SpineAlways, SourceAlways
<1>3. J => SuccessMeansCopied
  BY SuccessIs
<1> HIDE DEF J
<1> QED BY <1>1, <1>2, <1>3, PTL DEF Spec

=============================================================================
