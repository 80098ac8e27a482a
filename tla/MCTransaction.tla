---------------------------- MODULE MCTransaction ----------------------------
(***************************************************************************)
(* Two names with two versions each and, for one of them, two locations    *)
(* (a package and its copy in patches/), so that SamePkg and Matches       *)
(* differ.  Four different members are possible, the bound is three.       *)
(***************************************************************************)
EXTENDS Transaction

MCName == {"a", "b"}

P(n, v, l, s) == [name |-> n, version |-> v, location |-> l, suggests |-> s]

MCPkg == {P("a", 1, "main", {}), P("a", 2, "main", {"b"}),
          P("a", 2, "patches", {"b"}), P("b", 1, "main", {"a", "b"}),
          P("b", 2, "main", {})}

=============================================================================
