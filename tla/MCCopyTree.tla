----------------------------- MODULE MCCopyTree -----------------------------
(***************************************************************************)
(* A source with a file or symlink and a directory, copied to a place of   *)
(* its own and into itself.                                                *)
(***************************************************************************)
EXTENDS CopyTree

S == <<"s">>
SA == <<"s", "a">>
SD == <<"s", "d">>
SDA == <<"s", "d", "a">>
T == <<"t">>
TA == <<"t", "a">>

MCNames == {"s", "t", "a", "d"}

\* The target may become an image of the source also when s/a leads to s/d.
MCPlaces == {Root, S, SA, SD, SDA, T, TA, <<"t", "d">>, <<"t", "d", "a">>, <<"t", "a", "a">>,
             <<"t", "s">>, <<"t", "d", "d">>, <<"s", "t">>, <<"s", "t", "a">>, <<"s", "t", "t">>}

File(p) == Node("file", p, Root)
Dir(p) == Node("dir", p, Root)
Link(p, q) == Node("link", p, q)

Tree(here) == [p \in MCPlaces |->
                 IF p = Root THEN Dir(p) ELSE IF p \in DOMAIN here THEN here[p] ELSE Nothing]

Absent == [p \in {} |-> Nothing]
Full(a) == S :> Dir(S) @@ SA :> a @@ SD :> Dir(SD) @@ SDA :> File(SDA)

Sources == {Absent, S :> File(S), S :> Node("other", S, Root), S :> Link(S, T),
            S :> Dir(S) @@ SD :> Dir(SD)}
           \cup {Full(a) : a \in {File(SA), Link(SA, SD), Link(SA, SDA), Link(SA, S)}}

TargetTrees == {Absent, T :> File(T), T :> Dir(T), T :> Link(T, SDA),
                T :> Dir(T) @@ TA :> File(TA), T :> Dir(T) @@ TA :> Dir(TA),
                T :> Dir(T) @@ TA :> Link(TA, SDA)}

IntoTarget == {[tree |-> Tree(s @@ t), target |-> T] : s \in Sources, t \in TargetTrees}
IntoSource == {[tree |-> Tree(s), target |-> <<"s", "t">>] : s \in Sources}

MCStarts == {s \in IntoTarget \cup IntoSource :
                \A p \in MCPlaces : s.tree[p].kind = "link" =>
                    s.tree[s.tree[p].to].kind # "link"}

MCOptions == {{}, {"copy_symlinks"}, {"create_symlinks"},
              {"recursive", "skip_symlinks"}, {"recursive", "copy_symlinks"},
              {"recursive", "overwrite_existing"}, {"recursive", "skip_existing"},
              {"recursive", "create_hard_links"}, {"recursive", "directories_only"}}
=============================================================================
