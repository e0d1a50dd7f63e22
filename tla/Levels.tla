------------------------------- MODULE Levels -------------------------------
(***************************************************************************)
(* What create_directories makes of a path before it looks at the file     *)
(* system: it climbs from the path by parent_path as long as there is a    *)
(* filename, and puts every path that does not end in a dot name on a      *)
(* stack, so that the uppermost level comes off first.                     *)
(***************************************************************************)
EXTENDS Path

\* Where a path leads, one element at a time: locations are lists of names.
\* There are no symlinks, and the working directory is the root.
Enter(loc, e) == IF e \in {<<>>, DotName} THEN loc
                 ELSE IF e = <<Sep>> \/ (e = DotDot /\ loc = <<>>) THEN <<>>
                 ELSE IF e = DotDot THEN Front(loc)
                 ELSE Append(loc, e)

Trail(text) ==
    LET e == Elements(Split(text))
        loc[i \in 0..Len(e)] == IF i = 0 THEN <<>> ELSE Enter(loc[i - 1], e[i])
    IN  [i \in 1..(Len(e) + 1) |-> loc[i - 1]]

\* The location a path names, and those that must be directories for it.
Place(text) == Last(Trail(text))
Needs(text) == {Trail(text)[i] : i \in 1..(Len(Trail(text)) - 1)}

\* The path goes on the stack unless its filename is a dot name.
Pushed(at, levels) == IF Filename(at).str \in {DotName, DotDot} THEN levels
                      ELSE <<at.str>> \o levels

\* The loop: its levels, topmost of the stack first, and how it comes out.
\* A loop that has not ended after one turn for each character is one in
\* which a path is its own parent: it never ends.
Climb(text, elided) ==
    LET turn(w) ==
            IF w.outcome # "climbs" THEN w
            ELSE IF ~HasFilename(w.at) THEN [w EXCEPT !.outcome = "ends"]
            ELSE IF RelativePathThrows(w.at) THEN [w EXCEPT !.outcome = "throws"]
            ELSE [at |-> ParentPath(w.at, elided), outcome |-> "climbs",
                  levels |-> Pushed(w.at, w.levels)]
        after[n \in 0..(Len(text) + 1)] ==
            IF n = 0 THEN [at |-> Split(text), outcome |-> "climbs", levels |-> <<>>]
                     ELSE turn(after[n - 1])
    IN  [levels |-> after[Len(text) + 1].levels,
         outcome |-> after[Len(text) + 1].outcome]

\* Every directory a level needs is the root or a level before it.
IsChain(levels) ==
    \A k \in DOMAIN levels :
        Needs(levels[k]) \subseteq {<<>>} \cup {Place(levels[j]) : j \in 1..(k - 1)}
=============================================================================
