------------------------------- MODULE Version -------------------------------
(***************************************************************************)
(* The comparison of versions (slapt_pkg_t_cmp_versions, slapt_pkg_t_cmp   *)
(* in src/src/package.c), the look-up of the newest package of a name in   *)
(* a sorted list, and what upgrading by them does to one installed package *)
(* while the sources change what they offer.                               *)
(*                                                                         *)
(* A version is a sequence of tokens: digits, a text that begins with no   *)
(* digit, and the separator that ends the token; 2b.3-i486-1 is            *)
(*   <<2, b, ".">>, <<3, "", ".">>, <<i486, "-">>, <<1, "", "">>.          *)
(* Letters are lower case: strcasecmp is strcmp.                           *)
(***************************************************************************)
EXTENDS Vectors, FiniteSets

CONSTANTS Texts,        \* the texts, in the order of strverscmp
          X86_64,       \* the one that is the name of the architecture
          MaxValue,     \* ULLONG_MAX
          Numbers,      \* sequences of digits to compare
          Requirements, \* versions that dependencies ask for, as ">= version"
          Offers,       \* sets of packages the sources may offer
          Names,        \* names of packages, in the order of strcmp
          Name,         \* the package that is installed and upgraded
          MaxUpgrades   \* bound on the upgrades of one history

Digits == Seq(0..9)
Token == [num : Digits, text : Range(Texts), sep : {"", "-", ".", "_"}]

\* No token is empty, and the last one ends the version.
IsVersion(v) ==
  /\ v \in Seq(Token)
  /\ v # <<>>
  /\ \A i \in DOMAIN v :
        /\ v[i].sep = "" <=> i = Len(v)
        /\ v[i].num # <<>> \/ v[i].text # ""

Dashes(v) == {i \in DOMAIN v : v[i].sep = "-"}

ASSUME ValuesAssumption ==
  /\ Texts \in Seq(STRING) /\ Names \in Seq(STRING)
  /\ MaxValue \in Nat /\ MaxUpgrades \in Nat
  /\ Numbers \subseteq Digits

\* A token that is the name of our architecture.
IsArch(t) == t.num = <<>> /\ t.text = X86_64

\* No architecture begins with the name of another one.
ASSUME VersionAssumption ==
  \A v \in Requirements \cup {p.version : p \in UNION Offers} :
    /\ IsVersion(v)
    /\ Cardinality(Dashes(v)) >= 2 =>
         \A i \in Dashes(v) : IsArch(v[i + 1]) => v[i + 1].sep = "-"

\* Names has them all; only what the log records is marked as installed.
ASSUME OffersAssumption ==
  \A offer \in Offers :
    /\ IsFiniteSet(offer)
    /\ offer \subseteq [name : Range(Names), version : Seq(Token),
                        priority : Nat, installed : {FALSE}]

Sign(i) == IF i < 0 THEN -1 ELSE IF i > 0 THEN 1 ELSE 0

\* The verdict of the first place where two sequences of verdicts decide.
FirstVerdict(verdicts, otherwise) ==
  LET D == {i \in DOMAIN verdicts : verdicts[i] # 0}
  IN  IF D = {} THEN otherwise ELSE verdicts[Min(D)]

Common(s, t) == 1..Min({Len(s), Len(t)})

-----------------------------------------------------------------------------
(* Numbers: strtoull and the comparison of those it cannot represent. *)

Value(d) == FoldLeft(LAMBDA v, x : 10 * v + x, 0, d)
InRange(d) == Value(d) <= MaxValue
DigitCmp(d, e) == FirstVerdict([i \in Common(d, e) |-> Sign(d[i] - e[i])], 0)

\* Mutant of Strip: leading zeros count as digits.
Strip_nothing(d) == d

\* Without the leading zeros, but not without all digits.
Strip(d) ==
  LET zeros == {i \in 1..(Len(d) - 1) : \A j \in 1..i : d[j] = 0}
  IN  SubSeq(d, Cardinality(zeros) + 1, Len(d))

CheckedVersionCmp(d, e) ==
  IF InRange(d) /\ InRange(e)
  THEN Sign(Value(d) - Value(e))
  ELSE LET x == Strip(d)
           y == Strip(e)
       IN  IF Len(x) # Len(y) THEN Sign(Len(x) - Len(y)) ELSE DigitCmp(x, y)

-----------------------------------------------------------------------------
(* External: strverscmp.  Digits are compared as a number, unless one of   *)
(* them begins with a zero: then as a fraction, where 00 comes before 01   *)
(* and 01 before 0.  Letters come after digits, separators after nothing   *)
(* and before letters, in the order of ASCII.                              *)

TextRank(t) == CHOOSE i \in DOMAIN Texts : Texts[i] = t
SepRank == [s \in {"", "-", ".", "_"} |->
              CASE s = "" -> 0 [] s = "-" -> 1 [] s = "." -> 2 [] s = "_" -> 3]

RunCmp(d, e) ==
  LET zeros == \A i \in Common(d, e) : d[i] = 0
  IN  IF d = <<>> \/ e = <<>> THEN Sign(Len(e) - Len(d))
      ELSE IF d[1] # 0 /\ e[1] # 0 THEN Sign(Value(d) - Value(e))
      ELSE FirstVerdict([i \in Common(d, e) |-> Sign(d[i] - e[i])],
                        Sign(IF zeros THEN Len(e) - Len(d) ELSE Len(d) - Len(e)))

TokenCmp(a, b) ==
  FirstVerdict(<<RunCmp(a.num, b.num),
                 Sign(TextRank(a.text) - TextRank(b.text)),
                 Sign(SepRank[a.sep] - SepRank[b.sep])>>, 0)

StrVersCmp(v, w) ==
  FirstVerdict([i \in Common(v, w) |-> TokenCmp(v[i], w[i])], Sign(Len(v) - Len(w)))

-----------------------------------------------------------------------------
(* slapt_pkg_t_cmp_versions *)

\* The parts of a version: what the separators of the short version, which
\* ends at the first dash, leave; a "_" separates only where no "." follows.
BreakDown(v) ==
  LET n == Min(Dashes(v) \cup {Len(v)})
      dots == {i \in 1..(n - 1) : v[i].sep = "."}
      ends == {i \in 1..n : i \in dots \/ i = n \/ \A d \in dots : d < i}
      token(i) == IF i \in ends THEN [v[i] EXCEPT !.sep = ""] ELSE v[i]
  IN  FoldLeft(LAMBDA parts, i :
                 IF i - 1 \in ends \cup {0} THEN Append(parts, <<token(i)>>)
                 ELSE [parts EXCEPT ![Len(parts)] = Append(@, token(i))],
               <<>>, [i \in 1..n |-> i])

PartCmp(p, q, sameCount) ==
  LET c == CheckedVersionCmp(p[1].num, q[1].num)
  IN  IF p # q /\ c = 0 /\ sameCount THEN StrVersCmp(p, q) ELSE c

PartsCmp(x, y) ==
  FirstVerdict([i \in Common(x, y) |-> PartCmp(x[i], y[i], Len(x) = Len(y))],
               Sign(Len(x) - Len(y)))

\* From the last dash on.
Build(v) == SubSeq(v, Max(Dashes(v)) + 1, Len(v))

HasArch(v) == \E i \in Dashes(v) : IsArch(v[i + 1])
HasArchDash(v) == \E i \in Dashes(v) : IsArch(v[i + 1]) /\ v[i + 1].sep = "-"

\* Mutant of ArchCmp: our own architecture is preferred from one side only.
ArchCmp_one_sided(a, b) ==
  IF Build(a) = Build(b) /\ HasArch(a) /\ ~HasArchDash(b) THEN 1 ELSE 0

\* Built for x86_64, which prefers its own packages of the same build.
ArchCmp(a, b) ==
  CASE Build(a) # Build(b) -> 0
    [] Build(a) = Build(b) /\ HasArch(a) /\ ~HasArchDash(b) -> 1
    [] Build(a) = Build(b) /\ ~HasArch(a) /\ HasArchDash(b) -> -1
    [] OTHER -> 0

BuildCmp(a, b) ==
  FirstVerdict(<<CheckedVersionCmp(Build(a)[1].num, Build(b)[1].num),
                 ArchCmp(a, b)>>, 0)

CmpVersions(a, b) ==
  LET c == PartsCmp(BreakDown(a), BreakDown(b))
      standard == Cardinality(Dashes(a)) >= 2 /\ Cardinality(Dashes(b)) >= 2
  IN  CASE a = b -> 0
        [] a # b /\ c # 0 -> c
        [] a # b /\ c = 0 /\ standard -> BuildCmp(a, b)
        [] a # b /\ c = 0 /\ Dashes(a) \cup Dashes(b) = {} -> StrVersCmp(a, b)
        [] OTHER -> 0

\* slapt_pkg_t_cmp
Cmp(p, q) ==
  IF (p.installed \/ q.installed) /\ p.version = q.version THEN 0
  ELSE IF p.priority # q.priority THEN Sign(p.priority - q.priority)
  ELSE CmpVersions(p.version, q.version)

-----------------------------------------------------------------------------
(* The lists of packages. *)

NameRank(n) == CHOOSE i \in DOMAIN Names : Names[i] = n

\* Mutant of QsortCmp: the version is looked at before the name.
QsortCmp_version_first(p, q) ==
  FirstVerdict(<<StrVersCmp(p.version, q.version),
                 Sign(NameRank(p.name) - NameRank(q.name))>>, 0)

\* slapt_pkg_t_qsort_cmp; no two packages differ in the location alone.
QsortCmp(p, q) ==
  FirstVerdict(<<Sign(NameRank(p.name) - NameRank(q.name)),
                 StrVersCmp(p.version, q.version)>>, 0)

\* Mutant of ByName: the search does not look at the name.
ByName_any(list, name) == VectorSearch(list, [p \in ToSet(list.items) |-> 0])

\* by_details with a name alone, and with name and version
ByName(list, name) ==
  VectorSearch(list, [p \in ToSet(list.items) |->
                        Sign(NameRank(p.name) - NameRank(name))])

ByDetails(list, name, version) ==
  VectorSearch(list, [p \in ToSet(list.items) |->
                        QsortCmp(p, [name |-> name, version |-> version])])

\* Mutant of Newest: the first one will do.
Newest_first(list, name) == SubSeq(ByName(list, name), 1, 1)

\* slapt_get_newest_pkg: the first of the greatest, if there is one.
Newest(list, name) ==
  FoldLeft(LAMBDA found, p : IF found = <<>> \/ Cmp(found[1], p) < 0
                             THEN <<p>> ELSE found,
           <<>>, ByName(list, name))

-----------------------------------------------------------------------------
(* One installed package and what the sources offer. *)

VARIABLES avail, \* the available packages
          had    \* the packages that were installed, the last one still is

vars == <<avail, had>>

\* The package log knows no priority.
Installed == [Last(had) EXCEPT !.priority = 0, !.installed = TRUE]

Init ==
  /\ avail = [items |-> <<>>, sorted |-> FALSE]
  /\ \E offer \in Offers : \E p \in offer : p.name = Name /\ had = <<p>>

\* What slapt_get_available_pkgs may read after an update.
AvailableLists ==
  UNION {SortedVectors(offer, [r \in offer \X offer |-> QsortCmp(r[1], r[2])]) : offer \in Offers}

\* --update
Update ==
  /\ avail' \in AvailableLists
  /\ UNCHANGED had

\* Mutant of Upgraded: also what is equal is upgraded to.
Upgraded_equal(found) ==
  /\ found # <<>> /\ Cmp(Installed, found[1]) <= 0
  /\ Len(had) <= MaxUpgrades
  /\ had' = Append(had, found[1])
  /\ UNCHANGED avail

\* Mutant of Upgraded: what differs is upgraded to.
Upgraded_different(found) ==
  /\ found # <<>> /\ Cmp(Installed, found[1]) # 0
  /\ Len(had) <= MaxUpgrades
  /\ had' = Append(had, found[1])
  /\ UNCHANGED avail

Upgraded(found) ==
  /\ found # <<>> /\ Cmp(Installed, found[1]) < 0
  /\ Len(had) <= MaxUpgrades
  /\ had' = Append(had, found[1])
  /\ UNCHANGED avail

UpgradeAll == Upgraded(Newest(avail, Name))

\* --install with the name, or with name and version, from the packages that
\* EXCLUDE leaves.
Install ==
  \E kept \in SUBSET Range(avail.items) :
    LET list == Selected(avail, kept)
    IN  \/ Upgraded(Newest(list, Name))
        \/ \E p \in kept :
             /\ p.name = Name
             /\ LET found == ByDetails(list, Name, p.version)
                IN  Upgraded(SubSeq(found, 1, 1))

Next == Update \/ UpgradeAll \/ Install

Spec == Init /\ [][Next]_vars

-----------------------------------------------------------------------------
(* Properties. *)

Versions == {p.version : p \in UNION Offers}

Parts(v) == Len(BreakDown(v))
SameParts(V) == \A v, w \in V : Parts(v) = Parts(w)

\* The lists are made of offers, and what is installed keeps its name.
TypeOK ==
  /\ avail.sorted \in BOOLEAN /\ Range(avail.items) \subseteq UNION Offers
  /\ had \in Seq(UNION Offers) /\ Len(had) \in 1..(MaxUpgrades + 1)
  /\ \A i \in DOMAIN had : had[i].name = Name

\* checked_version_cmp orders every number in a version like the integer it
\* stands for, also when one or both do not fit into 64 bits and when they
\* have leading zeros.
CheckedIsNumeric ==
  \A i \in DOMAIN Installed.version, d \in Numbers :
    LET n == Installed.version[i].num
    IN  CheckedVersionCmp(n, d) = Sign(Value(n) - Value(d))

\* Whatever fall back decides, the two ways to ask agree: what is newer than
\* the installed version, or newer than what a dependency asks for, is not
\* also older.
Antisymmetric ==
  \A v \in Versions \cup Requirements :
    CmpVersions(Last(had).version, v) = -CmpVersions(v, Last(had).version)

\* slapt_get_newest_pkg stops at a package that no other of that name beats,
\* wherever it is in the list, as long as their versions have the same number
\* of parts.
NewestIsUnbeaten ==
  LET named == ByName(avail, Name)
  IN  SameParts({p.version : p \in Range(named)}) =>
        \A p \in Range(named) : Cmp(Newest(avail, Name)[1], p) >= 0

\* The binary search finds all packages of a name, and no others.
SearchFindsAll ==
  \A n \in Range(Names) :
    Range(ByName(avail, n)) = {p \in Range(avail.items) : p.name = n}

NoneTwice(h) == \A i, j \in DOMAIN h : h[i].version = h[j].version => i = j

\* README: "to prevent downgrades".  However the offers change, upgrading does
\* not lead back to a version that was replaced, as long as all versions had
\* the same number of parts and none was preferred for its source.
NoWayBack ==
  SameParts({p.version : p \in Range(had)}) /\ (\A i \in DOMAIN had : had[i].priority = 0)
    => NoneTwice(had)

\* A version that satisfies a dependency with ">=" is not upgraded to one that
\* does not, with the same provisos.
RequirementStaysMet ==
  [][LET old == Last(had).version
         new == Last(had').version
     IN  had' # had /\ Last(had').priority = 0 =>
           \A r \in Requirements :
             SameParts({r, old, new}) /\ CmpVersions(old, r) >= 0
               => CmpVersions(new, r) >= 0]_vars

\* README: "compare package version" algorithm to prevent downgrades.
NoDowngrade ==
  (\A i \in DOMAIN had : had[i].priority = 0) => NoneTwice(had)
=============================================================================
