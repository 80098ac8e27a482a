---------------------------- MODULE MCPlanner ------------------------------
(***************************************************************************)
(* Worlds for the planner: three names, available in versions 1 and 2 or   *)
(* in 2 only, installed in either or not at all, with every choice of a    *)
(* few declarations, conflicts, EXCLUDE entries, options and commands.     *)
(***************************************************************************)
EXTENDS Planner

V(n) == [num |-> n, arch |-> "noarch"]
D(name, op, n) == [name |-> name, op |-> op, version |-> V(n)]
Dep(name) == D(name, "ANY", 0)

Log(name, n) ==
  [name |-> name, version |-> V(n), location |-> "", priority |-> 0,
   installed |-> TRUE, depends |-> <<>>, conflicts |-> <<>>, suggests |-> {}]

Offer(name, n, depends, conflicts) ==
  [name |-> name, version |-> V(n), location |-> "main", priority |-> 0,
   installed |-> FALSE, depends |-> depends, conflicts |-> conflicts,
   suggests |-> {}]

Entry(name) == [prefixes |-> {name}, matches |-> {name}]
Arg(name) == [name |-> name, version |-> <<>>]

Conf ==
  [ignore_dep |-> FALSE, disable_dep_check |-> FALSE, ignore_excludes |-> FALSE,
   exclude |-> {}, no_upgrade |-> FALSE, re_install |-> FALSE,
   dist_upgrade |-> FALSE, remove_obsolete |-> FALSE]

\* The log: the names of S in version n, sorted.
Installed(S, n) ==
  SelectSeq(<<Log("a", n), Log("b", n), Log("c", n)>>, LAMBDA p : p.name \in S)

Logs ==
  {Installed(S, 1) : S \in SUBSET {"a", "b", "c"}}
    \cup {Installed(S, 2) : S \in {{"a", "b"}, {"b", "c"}, {"a", "b", "c"}}}
    \cup {<<Log("a", 1), Log("b", 2), Log("c", 1)>>, <<Log("c", 2)>>,
          <<Log("b", 1), Log("c", 1), Log("c", 2)>>}

DepsOfA == {<<>>, <<<<Dep("b")>>>>, <<<<D("b", "GTE", 2)>>>>,
            <<<<Dep("b"), Dep("c")>>>>, <<<<Dep("b")>>, <<D("c", "GT", 1)>>>>}
DepsOfB == {<<>>, <<<<Dep("c")>>>>, <<<<D("c", "EQ", 1)>>>>}
DepsOfC == {<<>>, <<<<Dep("a")>>>>, <<<<Dep("b"), Dep("d")>>>>, <<<<Dep("d")>>>>}

\* Conflicts of a and of b.
BothConflicts ==
  {<<<<>>, <<>>>>, <<<<<<Dep("c")>>>>, <<>>>>, <<<<>>, <<<<D("c", "GT", 1)>>>>>>}

\* Both versions of a package declare the same.
Lists3 ==
  {<<Offer("a", 1, da, x[1]), Offer("a", 2, da, x[1]), Offer("b", 2, db, x[2]),
     Offer("c", 1, dc, <<>>), Offer("c", 2, dc, <<>>)>> :
   da \in DepsOfA, db \in DepsOfB, dc \in DepsOfC, x \in BothConflicts}

Confs ==
  {Conf} \cup
  {[Conf EXCEPT !.exclude = {Entry("b")}], [Conf EXCEPT !.ignore_dep = TRUE],
   [Conf EXCEPT !.re_install = TRUE],
   [Conf EXCEPT !.no_upgrade = TRUE, !.disable_dep_check = TRUE]}

Additions ==
  {[cmd |-> "install", args |-> <<Arg("a")>>],
   [cmd |-> "install", args |-> <<Arg("c"), Arg("b")>>],
   [cmd |-> "install", args |-> <<[name |-> "a", version |-> <<V(1)>>]>>],
   [cmd |-> "install", args |-> <<Arg("b"), [name |-> "c", version |-> <<V(1)>>]>>],
   [cmd |-> "upgrade", args |-> <<>>]}

Removals ==
  {[cmd |-> "remove",  args |-> <<Arg("b")>>],
   [cmd |-> "remove",  args |-> <<Arg("c"), Arg("b")>>]}

World(i, l, f, c) ==
  [installed |-> i, avail |-> l, conf |-> f, cmd |-> c.cmd, args |-> c.args]

Uses == (Confs \X Additions) \cup ({Conf} \X Removals)

MCWorlds ==
  {World(i, l, use[1], use[2]) : i \in Logs, l \in Lists3, use \in Uses}

MCEssentials ==
  <<[name |-> "e", upgrade_only |-> FALSE, replaces |-> "r"],
    [name |-> "u", upgrade_only |-> TRUE, replaces |-> ""]>>
MCBaseSet == {"base"}

-----------------------------------------------------------------------------
(* Worlds for --dist-upgrade (and --obsolete): a package a of the base     *)
(* set, essential packages e (which replaces r) and u, a package o that no *)
(* source offers, and slapt-get itself.  Two versions of a, or one built   *)
(* for another architecture (as of e), and priorities that outrank         *)
(* versions.                                                               *)

Built(p, arch) == [p EXCEPT !.version.arch = arch]
Ranked(p, n) == [p EXCEPT !.priority = n]
At(p, location) == [p EXCEPT !.location = location]

BaseA(da, ca) ==
  LET a(n) == At(Offer("a", n, da, ca), "base")
  IN  {<<a(1)>>, <<a(1), a(2)>>, <<Built(a(1), "x86")>>,
       <<Ranked(a(1), 1), At(a(2), "main")>>}

\* Lists stay sorted by name.
DistLists ==
  {a \o es \o <<Offer("u", 2, du, <<>>)>> :
     a \in UNION {BaseA(da, ca) : da \in {<<>>, <<<<D("e", "GTE", 2)>>, <<Dep("o")>>>>},
                                  ca \in {<<>>, <<<<Dep("r")>>>>, <<<<Dep("e")>>>>}},
     es \in {e \o s : e \in {<<>>, <<Offer("e", 2, <<>>, <<>>)>>},
                     s \in {<<>>, <<Offer("slapt-get", 2, <<<<Dep("a")>>>>, <<>>)>>}}
             \cup {<<Built(Offer("e", 1, <<>>, <<>>), "x86")>>},
     du \in {<<>>, <<<<Dep("o")>>>>}} \cup {<<>>}

DistLogs ==
  {<<Log("a", 2), Log("o", 1)>>} \cup
  {SelectSeq(<<Log("a", 1), Log("e", 1), Log("o", 1), Log("r", 1),
               Log("slapt-get", 1), Log("u", 1)>>, LAMBDA p : p.name \in S) :
     S \in SUBSET {"a", "e", "o", "r", "slapt-get", "u"}}

DistConf == [Conf EXCEPT !.dist_upgrade = TRUE, !.remove_obsolete = TRUE]
DistConfs ==
  {DistConf, [DistConf EXCEPT !.remove_obsolete = FALSE, !.ignore_dep = TRUE],
   [DistConf EXCEPT !.exclude = {Entry("a"), Entry("o")}]}

DistUpgrade == [cmd |-> "upgrade", args |-> <<>>]
DistRemove == [cmd |-> "remove", args |-> <<Arg("e")>>]

\* In the last, what an excluded package requires is obsolete.
DistUses ==
  (DistConfs \X {DistUpgrade, DistRemove})
    \cup {<<[DistConf EXCEPT !.exclude = {Entry("a")}], DistRemove>>}

MCDistWorlds ==
  {World(i, l, use[1], use[2]) : i \in DistLogs, l \in DistLists, use \in DistUses}
=============================================================================
