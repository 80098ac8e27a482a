----------------------------- MODULE MCVersion -----------------------------
(***************************************************************************)
(* Versions of two and three parts, of which some differ in the build or   *)
(* the architecture alone, with numbers of three digits, which do not fit  *)
(* into the scaled down ULLONG_MAX, and leading zeros; a preferred source; *)
(* packages of other names around them in the list.                        *)
(***************************************************************************)
EXTENDS Version

T(n, t, s) == [num |-> n, text |-> t, sep |-> s]
Arch(a) == T(<<>>, a, "-")

\* 2a.5-i486-1 < 2b.3-i486-1 < 2.4.0-i486-1 < 2a.5-i486-1
V2a5 == <<T(<<2>>, "a", "."), T(<<5>>, "", "-"), Arch("i486"), T(<<1>>, "", "")>>
Short2b3 == <<T(<<2>>, "b", "."), T(<<3>>, "", "")>>
Ending(v, build) == [v EXCEPT ![Len(v)].sep = "-"] \o build
V2b3(arch, n, text) == Ending(Short2b3, <<Arch(arch), T(<<n>>, text, "")>>)
V240(sep) ==
  <<T(<<2>>, "", sep), T(<<4>>, "", "."), T(<<0>>, "", "-"), Arch("i486"), T(<<1>>, "", "")>>
\* Digits that do not fit, and a number with a leading zero.
VLong(d) == <<T(d, "", "."), T(<<0, 5>>, "", "-"), Arch("i486"), T(<<2>>, "", "")>>

MCTexts == <<"", "a", "b", "i486", "rob", "x86_64">>
MCNumbers ==
  {<<0>>, <<0, 0>>, <<2>>, <<0, 2>>, <<5>>, <<0, 0, 5>>, <<9, 9>>, <<0, 9, 9>>, <<1, 0>>, <<1, 0, 0>>,
   <<0, 1, 0, 0>>, <<1, 0, 1>>, <<1, 1, 0>>, <<9, 9, 9>>, <<0, 9, 9, 9>>, <<1, 0, 0, 0>>}

Pkg(n, v, prio) == [name |-> n, version |-> v, priority |-> prio, installed |-> FALSE]

P(v) == Pkg("p", v, 0)
Core ==
  {P(V2a5), P(V240(".")), P(V2b3("i486", 1, "")), P(V2b3("x86_64", 1, "")),
   P(V2b3("i486", 2, ""))}
Others ==
  {P(V240("_")), P(V2b3("i486", 1, "rob")), P(VLong(<<1, 1, 0>>)), P(VLong(<<0, 1, 0, 1>>)),
   Pkg("p", V2b3("i486", 1, ""), 1)}
Around == {Pkg("o", V240("."), 0), Pkg("q", V2a5, 0), Pkg("q", V2b3("i486", 2, ""), 0)}

MCOffers ==
  {{p, q} : p, q \in Core} \cup {{p} : p \in Others} \cup {{p} \cup Around : p \in Core}
    \cup {{P(VLong(<<1, 1, 0>>)), P(VLong(<<0, 1, 0, 1>>))},
          {P(V2b3("i486", 2, "")), Pkg("p", V2b3("i486", 1, ""), 1)},
          {P(V2b3("i486", 1, "")), P(V2b3("x86_64", 1, "")), P(V2b3("i486", 1, "rob"))}}

MCRequirements ==
  {Short2b3, <<T(<<2>>, "", "_"), T(<<4>>, "", "")>>, <<T(<<2>>, "", "."), T(<<4>>, "", "")>>,
   V2b3("i486", 1, ""), VLong(<<1, 0, 1>>)}

MCNames == <<"o", "p", "q">>
=============================================================================
