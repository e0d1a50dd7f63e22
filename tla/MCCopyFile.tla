----------------------------- MODULE MCCopyFile -----------------------------
(* Finite instances of CopyFile: a source, a longer target, another file   *)
(* and a directory.                                                        *)
EXTENDS CopyFile

Things == {"source", "target", "other", "folder"}
ThingKind ==
  [f \in Things \cup {"new"} |-> IF f = "folder" THEN "directory" ELSE "regular"]

Content(source) ==
  [f \in Things \cup {"new"} |->
     CASE f = "source" -> source [] f = "target" -> <<9, 9, 9, 9>>
       [] f = "other" -> <<8>> [] OTHER -> << >>]

(* No block, what sendfile takes, and more than that.                      *)
SomeContents == {Content(<< >>), Content(<<1, 2>>), Content(<<1, 2, 3>>)}

SomeStarts ==
  {[n \in Names |-> IF n = "from" THEN f ELSE t] :
     f \in {"source", "folder", "none"}, t \in {"target", "source", "folder", "none"}}

SomeLinks == {{}, {"from"}, {"to"}}
=============================================================================
