---------------------------- MODULE MCAttributes ----------------------------
(* Finite instances of Attributes: two names, two files and a directory.    *)
EXTENDS Attributes

CONSTANTS c1, c2

Start(a, b) == [n \in {"a", "b"} |-> IF n = "a" THEN a ELSE b]

(* Two files, one with two names, a directory; links to each, to nothing    *)
(* and to themselves.                                                       *)
SomeStarts ==
  {Start("f", "g"), Start("f", "f"), Start("f", "a"), Start("d", "a"),
   Start("d", "f"), Start("d", "nothing"), Start("nothing", "a"), Start("b", "a")}

SomeModes == {[i \in {"f", "g", "d"} |-> {"r"}]}
SomeSizes == {[i \in {"f", "g", "d"} |-> 0],
              [i \in {"f", "g", "d"} |-> IF i = "g" THEN 0 ELSE 1]}

(* -2, 1 and, one more than there is, 8.                                    *)
SomeTimes == {[sec |-> -1, nsec |-> 1], [sec |-> 0, nsec |-> 1], [sec |-> 2, nsec |-> 2]}

Permissions ==
  {[op |-> "permissions", at |-> "a", how |-> h, bits |-> {"w"}, nofollow |-> FALSE] :
     h \in {"add", "replace"}} \cup
  {[op |-> "permissions", at |-> "b", how |-> h, bits |-> {"r"}, nofollow |-> n] :
     h \in {"add", "remove"}, n \in BOOLEAN}
TimesAsked ==
  {[op |-> "write_time", at |-> "b", value |-> t] : t \in {-4, -1, 5}} \cup
  {[op |-> "read_time", at |-> n] : n \in {"a", "b"}}

(* 8 is more than off_t holds.                                              *)
SizesAsked ==
  {[op |-> "resize_file", at |-> "b", value |-> v] : v \in {0, 7, 8}} \cup
  {[op |-> o, at |-> "a"] : o \in {"file_size", "hard_link_count", "is_empty"}}
NamesAsked ==
  {[op |-> "equivalent", at |-> "a", other |-> "b"],
   [op |-> "rename", at |-> "a", to |-> "b"], [op |-> "rename", at |-> "b", to |-> "a"]}

(* 9 * 4 and 5 * 4 are more than uintmax_t holds; one file system is full.  *)
SpaceAsked ==
  {[op |-> "space", at |-> "a", frsize |-> s,
    blocks |-> [capacity |-> 4, free |-> IF s = 3 THEN 0 ELSE 1, available |-> 0]] :
     s \in {1, 3, 5, 9}}

SomeOperations ==
  Permissions \cup TimesAsked \cup SizesAsked \cup NamesAsked \cup SpaceAsked
=============================================================================
