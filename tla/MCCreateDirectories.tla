------------------------ MODULE MCCreateDirectories ------------------------
(***************************************************************************)
(* Two calls on paths that share a directory, over a tree of two levels.   *)
(***************************************************************************)
EXTENDS CreateDirectories

A == <<"a">>
AA == <<"a", "a">>

\* a/aa, the same with redundant parts, a detour, and paths that fall short.
MCAsked == {A \o <<Sep>> \o AA,
            A \o <<Sep>> \o DotDot \o <<Sep>> \o A,
            <<Sep, Sep>> \o A \o <<Sep>> \o AA,
            <<Sep, Sep, Sep>> \o A \o <<Sep>> \o AA,
            A \o <<Sep>>,
            <<>>}

MCNodes == {<<>>, <<A>>, <<A, AA>>}

\* Everything is in a directory.
MCTrees == {k \in [MCNodes -> Kinds] :
              /\ k[<<>>] = "dir"
              /\ k[<<A, AA>>] # "none" => k[<<A>>] = "dir"}

\* At most one of the directories a path leads through is not open.
MCModes == {m \in [MCNodes -> {"open", "readonly", "closed"}] :
              /\ m[<<A, AA>>] = "open"
              /\ m[<<>>] = "open" \/ m[<<A>>] = "open"}
=============================================================================
