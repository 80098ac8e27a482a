--------------------------- MODULE MCPackageList ---------------------------
(***************************************************************************)
(* A source whose list is made of two blocks, whole or broken, with or     *)
(* without the blank line between them, and maybe the newline at its end;  *)
(* and a second source.                                                    *)
(***************************************************************************)
EXTENDS PackageList

L(k, v) == Line(k, v)
Text == L("text", "text")
Short == L("text", "short")

\* b1 and b1n differ in the architecture.
MCSplits ==
  [f \in {"a1", "b1", "b1n", "cut"} |->
     CASE f = "a1" -> [name |-> 1, version |-> 1]
       [] f = "cut" -> [name |-> 0, version |-> 0]
       [] OTHER -> [name |-> 2, version |-> 1]]

Place(f, loc) == <<L("name", f), L("location", loc)>>
Sizes == <<L("size_c", "1"), L("size_u", "2")>>
Desc == <<L("desc", "")>>

Full ==
  <<L("name", "a1"), L("mirror", "own"), L("priority", "1"), L("location", "x")>> \o Sizes
    \o <<L("required", "r"), L("conflicts", "c"), L("suggests", "s"), L("md5", "listed")>>
    \o Desc \o <<Text, Text>>
Plain(f, loc) == Place(f, loc) \o Sizes \o Desc \o <<Text>>

Blocks ==
  {Full, Plain("a1", "x"), Plain("b1", "y"), Plain("b1", "x"), Plain("b1n", "x"),
   \* bare markers; no or a short description
   Place("b1", "x") \o Sizes \o <<L("required", Malformed), L("suggests", Malformed),
                                 L("md5", Malformed)>> \o Desc,
   Place("b1", "x") \o Sizes \o <<L("conflicts", "c")>> \o Desc \o <<Short>>,
   \* a line too much, missing, malformed or out of range, or out of order
   <<L("name", "a1")>>,
   <<L("name", "a1"), L("mirror", Malformed), L("location", "x")>> \o Sizes \o Desc \o <<Text>>,
   <<L("name", "a1"), L("priority", OutOfRange), L("location", "x")>> \o Sizes \o Desc \o <<Text>>,
   <<L("name", "a1"), L("location", Malformed)>> \o Sizes \o Desc \o <<Text>>,
   Place("a1", "x") \o <<L("size_c", "1")>> \o Desc \o <<Text>>,
   Place("a1", "y") \o Sizes \o <<L("md5", OutOfRange)>> \o Desc \o <<Text>>,
   Place("a1", "x") \o Sizes \o <<L("suggests", "s"), L("required", "r")>> \o Desc \o <<Text>>,
   Place("a1", "x") \o Sizes,
   <<Text, L("name", Malformed), L("location", "x")>>}

\* What may be misread after a broken record.
Followers ==
  {Full, Plain("b1", "x"), Plain("b1n", "x"), Place("a1", "x") \o Sizes,
   <<L("name", "a1"), L("location", Malformed)>> \o Sizes \o Desc \o <<Text>>,
   Place("b1", "x") \o Sizes \o <<L("conflicts", "c")>> \o Desc \o <<Short>>}

Lists ==
  {[lines |-> b \o between \o c \o after.lines, ended |-> after.ended] :
     b \in Blocks, c \in Followers, between \in {<<>>, <<Blank>>},
     after \in {[lines |-> <<Blank>>, ended |-> TRUE], [lines |-> <<>>, ended |-> FALSE]}}

Sum(f, loc, s) == [file |-> f, location |-> loc, sum |-> s]
MCSums == <<Sum("a1", "x", "2"), Sum("b1", "x", "3"), Sum("b1", "z", "4")>>

FirstSources == {[list |-> l, sums |-> MCSums, url |-> "one", priority |-> "0"] : l \in Lists}
SecondSource ==
  [list |-> [lines |-> Plain("b1", "x") \o <<Blank>>, ended |-> TRUE],
   sums |-> <<Sum("b1", "x", "5")>>, url |-> "two", priority |-> "2"]

MCSources == {<<s, SecondSource>> : s \in FirstSources}
=============================================================================
