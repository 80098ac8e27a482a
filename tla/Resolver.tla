------------------------------ MODULE Resolver ------------------------------
(***************************************************************************)
(* The package lists of slapt-get and what is looked up in them: newest    *)
(* and exact package, exclusion, dependencies, conflicts, the packages     *)
(* that require a package, obsolete packages (src/src/package.c).          *)
(*                                                                         *)
(* A package list is a sequence sorted by name, version and location.  A   *)
(* version is a record: num stands for the part slapt_pkg_t_cmp_versions   *)
(* orders, arch for what it does not look at.  depends and conflicts are   *)
(* sequences of declarations and a declaration is the sequence of its      *)
(* alternatives, one alternative unless it is an OR (DEP_OP_OR).  An       *)
(* installed package has neither: the package log does not record them.    *)
(*                                                                         *)
(* "No package" (NULL) is <<>> and a package that was found is <<pkg>>.    *)
(* w stands for what one invocation has read: w.installed, w.avail and the *)
(* configuration w.conf.                                                   *)
(***************************************************************************)
EXTENDS ListOps

-----------------------------------------------------------------------------
(* Versions and lists. *)

Version == [num : Int, arch : STRING]
Ops == {"ANY", "EQ", "GT", "GTE", "LT", "LTE"}
Dependency == [name : STRING, op : Ops, version : Version]
Declared == Seq(Seq(Dependency) \ {<<>>})
Package ==
  [name : STRING, version : Version, location : STRING, priority : Nat,
   installed : BOOLEAN, depends : Declared, conflicts : Declared,
   suggests : SUBSET STRING]

\* slapt_pkg_t_cmp_versions
CmpVersions(a, b) ==
  IF a.num = b.num THEN 0 ELSE IF a.num < b.num THEN -1 ELSE 1

\* slapt_pkg_t_cmp
Cmp(a, b) ==
  CASE (a.installed \/ b.installed) /\ a.version = b.version -> 0
    [] a.priority > b.priority -> 1
    [] a.priority < b.priority -> -1
    [] OTHER -> CmpVersions(a.version, b.version)

Named(list, name) == Keep(list, {p \in Range(list) : p.name = name})

\* slapt_get_newest_pkg: the first of the greatest.
Newest(list, name) ==
  FoldLeft(LAMBDA found, p : IF found = <<>> \/ Cmp(found[1], p) < 0
                             THEN <<p>> ELSE found,
           <<>>, Named(list, name))

\* slapt_get_exact_pkg
Exact(list, name, version) ==
  First(Keep(list, {p \in Range(list) : p.name = name /\ p.version = version}))

IsExactlyInstalled(w, p) == Exact(w.installed, p.name, p.version) # <<>>

\* slapt_is_excluded: an EXCLUDE entry stands for the names that are a prefix
\* of it (entry.prefixes) and for the names and locations it matches as a
\* regular expression (entry.matches).
IsExcluded(w, p) ==
  /\ ~w.conf.ignore_excludes
  /\ \E entry \in w.conf.exclude :
        p.name \in entry.prefixes \/ {p.name, p.location} \cap entry.matches # {}

-----------------------------------------------------------------------------
(* Declarations. *)

\* The operators an installed package is accepted for in resolve_dep, by how
\* its version compares with the one declared ...
InstalledOps ==
  [c \in {-1, 0, 1} |-> CASE c = 0 -> {"ANY", "EQ", "GTE", "LTE"}
                          [] c > 0 -> {"ANY", "GT"}
                          [] c < 0 -> {"ANY", "LT"}]

\* ... and those an available package is accepted for.
AvailOps ==
  [c \in {-1, 0, 1} |-> CASE c = 0 -> {"ANY", "EQ", "GTE", "LTE"}
                          [] c > 0 -> {"ANY", "GT", "GTE"}
                          [] c < 0 -> {"ANY", "LT", "LTE"}]

Accepted(list, ops, d) ==
  Keep(list, {p \in Range(list) : d.op \in ops[CmpVersions(p.version, d.version)]})

\* resolve_dep: the newest installed, else the newest available, else the
\* first available package of that name that is accepted.
ResolveDep(d, installed, available) ==
  First(Accepted(Newest(installed, d.name), InstalledOps, d)
          \o Accepted(Newest(available, d.name) \o Named(available, d.name),
                      AvailOps, d))

IsOr(decl) == Len(decl) > 1

-----------------------------------------------------------------------------
(* slapt_get_pkg_dependencies.  s collects, over the recursion, the        *)
(* dependencies in the order they are to be installed, the two error lists *)
(* and the return value.                                                   *)

Missing(s, pkg, alts) ==
  [s EXCEPT !.rv = -1,
            !.missing = @ \o [i \in DOMAIN alts |->
                                [pkg |-> pkg.name, error |-> alts[i].name]]]

Rejected(s, pkg, dep) ==
  [s EXCEPT !.rv = -1,
            !.conflict = Append(@, [pkg |-> pkg.name, error |-> dep.name])]

Forbidden(w, dep) == IsExcluded(w, dep) /\ ~w.conf.ignore_dep

\* The same for a package that is not installed and what it requires itself,
\* by nested: it goes behind its own dependencies.
Need(nested, dep, s) ==
  IF dep.installed THEN s
  ELSE With(nested[dep, [s EXCEPT !.deps = Append(@, dep)]],
            LAMBDA r : IF r.rv # 0 THEN r
                       ELSE [r EXCEPT !.deps =
                               Append(Keep(@, Range(@) \ {dep}), dep)])

\* Whether a package of that name is among the dependencies already.
Collected(s, dep) == Newest(s.deps, dep.name) # <<>>

\* Mutants of Take: an excluded dependency is taken like any other; one that
\* cannot be found is no error.
Take_ignores_excludes(w, nested, pkg, d, found, s) ==
  CASE found = <<>> -> Missing(s, pkg, <<d>>)
    [] found # <<>> -> IF Collected(s, found[1]) THEN s ELSE Need(nested, found[1], s)

Take_never_missing(w, nested, pkg, d, found, s) ==
  CASE found = <<>> -> s
    [] found # <<>> /\ Forbidden(w, found[1]) -> Rejected(s, pkg, found[1])
    [] OTHER -> IF Collected(s, found[1]) THEN s ELSE Need(nested, found[1], s)

\* A declaration d without alternatives, for which `found` was found.
Take(w, nested, pkg, d, found, s) ==
  CASE found = <<>> -> Missing(s, pkg, <<d>>)
    [] found # <<>> /\ Forbidden(w, found[1]) -> Rejected(s, pkg, found[1])
    [] OTHER -> IF Collected(s, found[1]) THEN s ELSE Need(nested, found[1], s)

\* The second loop over the alternatives, for which found[i] were found.  It
\* ends at one that is excluded or not among the dependencies yet; after the
\* last, only what that one found counts.
TryAlternatives(w, nested, pkg, alts, found, s) ==
  LET ends == {i \in DOMAIN alts :
                 /\ found[i] # <<>>
                 /\ Forbidden(w, found[i][1]) \/ ~Collected(s, found[i][1])}
      dep == found[Min(ends)][1]
  IN  CASE ends = {} -> IF found[Len(alts)] = <<>> THEN Missing(s, pkg, alts) ELSE s
        [] ends # {} /\ Forbidden(w, dep) -> Rejected(s, pkg, dep)
        [] OTHER -> Need(nested, dep, s)

\* One pass of the loop over pkg->dependencies.
Declaration(w, nested, pkg, decl, s) ==
  CASE s.rv # 0 -> s
    [] s.rv = 0 /\ ~IsOr(decl) ->
         With(ResolveDep(decl[1], w.installed, w.avail),
              LAMBDA found : Take(w, nested, pkg, decl[1], found, s))
    [] OTHER ->
         IF \E i \in DOMAIN decl : ResolveDep(decl[i], w.installed, <<>>) # <<>>
         THEN s
         ELSE With([i \in DOMAIN decl |-> ResolveDep(decl[i], <<>>, w.avail)],
                   LAMBDA found : TryAlternatives(w, nested, pkg, decl, found, s))

Declarations(w, nested, pkg, s) ==
  IF w.conf.disable_dep_check THEN s
  ELSE Fold(LAMBDA acc, decl : Declaration(w, nested, pkg, decl, acc), s, pkg.depends)

Note == [pkg : STRING, error : STRING]
Collection(w) ==
  [deps : Seq(Range(w.avail)), rv : {0, -1}, missing : Seq(Note), conflict : Seq(Note)]

\* The recursion, unrolled once for each available package: each package on
\* the way down is collected, under a name that was not there.
Dependencies(w, pkg, s) ==
  LET level(nested) == [x \in Range(w.avail) \X Collection(w) |->
                          Declarations(w, nested, x[1], x[2])]
      bottom == [x \in Range(w.avail) \X Collection(w) |-> x[2]]
  IN  Declarations(w, FoldLeft(LAMBDA nested, p : level(nested), bottom, w.avail), pkg, s)

-----------------------------------------------------------------------------
(* Conflicts, dependents, obsolete packages. *)

\* slapt_get_pkg_conflicts
Conflicts(w, pkg) ==
  With(Concat(pkg.conflicts), LAMBDA ds :
    Concat([i \in DOMAIN ds |-> ResolveDep(ds[i], w.installed, w.avail)]))

\* The declaration of a dependent that is broken when pkg goes: the
\* alternative naming pkg, unless another one is there to stay.
HasAlternative(w, toInstall, toRemove, decl) ==
  \E i \in DOMAIN decl :
     /\ Newest(toRemove, decl[i].name) = <<>>
     /\ \/ ResolveDep(decl[i], w.installed, <<>>) # <<>>
        \/ Newest(toInstall, decl[i].name) # <<>>

Broken(w, toInstall, toRemove, decl, pkg) ==
  IF IsOr(decl) /\ HasAlternative(w, toInstall, toRemove, decl) THEN <<>>
  ELSE Keep(decl, {d \in Range(decl) : d.name = pkg.name})

IsDependent(w, toInstall, toRemove, p, pkg) ==
  \E found \in {Broken(w, toInstall, toRemove, p.depends[k], pkg) :
                  k \in DOMAIN p.depends} :
     found # <<>> /\ ResolveDep(Last(found), w.installed, w.avail) # <<>>

\* One pass of the loop of required_by over the available packages: p, if it is
\* the newest and needs pkg, and by nested those that need p, added to list.
Requirer(w, nested, toInstall, toRemove, pkg, p, list) ==
  IF \/ p.name = pkg.name
     \/ Newest(list, p.name) # <<>>
     \/ CmpVersions(p.version, Newest(w.avail, p.name)[1].version) < 0
     \/ ~IsDependent(w, toInstall, toRemove, p, pkg)
  THEN list
  ELSE nested[p, Append(list, p)]

Requirers(w, nested, toInstall, toRemove, pkg, list) ==
  Fold(LAMBDA acc, p : Requirer(w, nested, toInstall, toRemove, pkg, p, acc),
       list, w.avail)

\* slapt_is_required_by, with the recursion unrolled in the same way.
RequiredBy(w, toInstall, toRemove, pkg) ==
  LET Lists == Seq(Range(w.avail))
      level(nested) == [x \in Range(w.avail) \X Lists |->
                          Requirers(w, nested, toInstall, toRemove, x[1], x[2])]
      bottom == [x \in Range(w.avail) \X Lists |-> x[2]]
  IN  IF w.conf.disable_dep_check THEN <<>>
      ELSE Requirers(w, FoldLeft(LAMBDA nested, p : level(nested), bottom, w.avail),
                     toInstall, toRemove, pkg, <<>>)

\* The members of list that are installed in exactly that version.
InstalledOf(w, list) == Keep(list, {p \in Range(list) : IsExactlyInstalled(w, p)})

\* Mutant of Obsolete: without what requires them.
Obsolete_alone(w) ==
  Keep(w.installed, {p \in Range(w.installed) :
                       ~IsExcluded(w, p) /\ Newest(w.avail, p.name) = <<>>})

\* slapt_get_obsolete_pkgs: installed packages no source offers, each behind
\* what requires it.
Obsolete(w) ==
  LET requirers(p) ==
        With(RequiredBy(w, <<>>, <<>>, p), LAMBDA r :
          Concat([i \in DOMAIN r |-> Exact(w.installed, r[i].name, r[i].version)]))
      of(p) ==
        IF IsExcluded(w, p) \/ Newest(w.avail, p.name) # <<>> THEN <<>>
        ELSE requirers(p) \o <<p>>
  IN  Concat([i \in DOMAIN w.installed |-> of(w.installed[i])])
=============================================================================
