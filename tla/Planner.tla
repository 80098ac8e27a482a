------------------------------ MODULE Planner -------------------------------
(***************************************************************************)
(* How slapt-get plans a transaction: the actions --install, --upgrade,    *)
(* --dist-upgrade and --remove of src/src/main.c, with the parts of        *)
(* src/src/transaction.c that add dependencies and find conflicts, up to   *)
(* the call of slapt_transaction_t_run.  One step is one pass of a loop    *)
(* over arguments or packages.                                             *)
(***************************************************************************)
EXTENDS Resolver, TrxnLists, FiniteSets

CONSTANTS Worlds,     \* what an invocation may find: see WorldAssumption
          Essentials, \* dist_upgrade_pkgs: [name, upgrade_only, replaces]
          BaseSet,    \* locations SLAPT_SLACK_BASE_SET_REGEX matches
          SlaptGet    \* the name of slapt-get's own package

\* The log records no priority: slapt_pkg_t_init leaves it 0.
ASSUME WorldAssumption ==
  \A w \in Worlds :
     /\ w.cmd \in {"install", "upgrade", "remove"}
     /\ w.installed \in Seq({p \in Package : p.installed /\ p.priority = 0})
     /\ w.avail \in Seq({p \in Package : ~p.installed})
     /\ w.args \in Seq([name : STRING, version : Seq(Version)])
     /\ w.conf \in [ignore_dep : BOOLEAN, disable_dep_check : BOOLEAN,
                    ignore_excludes : BOOLEAN, no_upgrade : BOOLEAN,
                    re_install : BOOLEAN, dist_upgrade : BOOLEAN,
                    remove_obsolete : BOOLEAN,
                    exclude : SUBSET [prefixes : SUBSET STRING,
                                      matches : SUBSET STRING]]

\* For an essential package that replaces no other.
NULL == ""

\* As in the table: what replaces another package is installed if it is not
\* there, and is not replaced itself.
ASSUME EssentialsAssumption ==
  /\ Essentials \in Seq([name : STRING, upgrade_only : BOOLEAN, replaces : STRING])
  /\ \A e, f \in Range(Essentials) :
       e.replaces # NULL => ~e.upgrade_only /\ f.replaces # e.name

VARIABLES w,    \* the command, its arguments, the package lists, the options
          trxn, \* the transaction
          pc,   \* the loop that is running, or "run" or "exit"
          todo  \* what is left for that loop

vars == <<w, trxn, pc, todo>>

-----------------------------------------------------------------------------
(* transaction.c *)

\* slapt_transaction_t_find_conflicts: a conflict in the transaction and
\* installed as well is listed twice.
FindConflicts(t, pkg) ==
  LET planned(c) == SearchUpgrade(t, c) \/ Newest(t.install, c.name) # <<>>
      present(c) == Newest(w.installed, c.name) # <<>>
      if(b, c) == IF b THEN <<c>> ELSE <<>>
  IN  With(Conflicts(w, pkg), LAMBDA cs :
        Concat([i \in DOMAIN cs |-> if(planned(cs[i]), cs[i]) \o if(present(cs[i]), cs[i])]))

AddRemoveAll(t, pkgs) == Fold(AddRemove, t, pkgs)

\* Mutant of AddDependency: an installed dependency is upgraded to what was
\* resolved whatever its version.
AddDependency_any_version(t, dep, inst) ==
  IF inst = <<>> THEN AddInstall(t, dep) ELSE AddUpgrade(t, inst[1], dep)

\* A dependency, for which inst is installed (or nothing).
AddDependency(t, dep, inst) ==
  CASE inst = <<>> -> AddInstall(t, dep)
    [] inst # <<>> /\ Cmp(inst[1], dep) < 0 -> AddUpgrade(t, inst[1], dep)
    [] OTHER -> t

\* Mutant of AddDependencyList: the dependencies are added last first.
AddDependencyList_reversed(t, deps) ==
  Fold(LAMBDA u, dep :
         AddDependency(AddRemoveAll(u, FindConflicts(u, dep)), dep,
                       Newest(w.installed, dep.name)),
       t, Reverse(deps))

\* The loop over the dependencies found: each after the removal of what it
\* conflicts with.
AddDependencyList(t, deps) ==
  Fold(LAMBDA u, dep :
         AddDependency(AddRemoveAll(u, FindConflicts(u, dep)), dep,
                       Newest(w.installed, dep.name)),
       t, deps)

\* slapt_transaction_t_add_dependencies: ok is "returned 0".  A failure counts
\* only for a package that the transaction does not exclude already.
AddDependencies(t, pkg) ==
  LET noted(got) == [t EXCEPT !.missing_err = got.missing,
                              !.conflict_err = got.conflict]
      fails(got) == /\ got.rv = -1
                    /\ ~w.conf.ignore_dep
                    /\ Exact(t.exclude, pkg.name, pkg.version) = <<>>
  IN  IF w.conf.disable_dep_check THEN [ok |-> TRUE, trxn |-> t]
      ELSE With(Dependencies(w, pkg, [deps |-> <<>>, rv |-> 0,
                                      missing |-> t.missing_err,
                                      conflict |-> t.conflict_err]),
                LAMBDA got :
                  IF fails(got) THEN [ok |-> FALSE, trxn |-> noted(got)]
                  ELSE [ok |-> TRUE,
                        trxn |-> AddDependencyList(noted(got), got.deps)])

-----------------------------------------------------------------------------
(* main.c: slapt_pkg_action_install *)

\* The package an argument names; a version that is not there is searched for
\* as if it were part of the name, and is not found.
Pick(list, arg) ==
  IF arg.version = <<>> THEN Newest(list, arg.name)
  ELSE Exact(list, arg.name, arg.version[1])

NotExcluded == Keep(w.avail, {p \in Range(w.avail) : ~IsExcluded(w, p)})

\* A conflict is removed after the installed packages that require it.
RemoveConflict(t, conflict) ==
  AddRemoveAll(t,
       InstalledOf(w, RequiredBy(w, t.install, t.remove, conflict))
         \o <<conflict>>)

RemoveConflicts(t, conflicts) ==
  IF w.conf.ignore_dep THEN t ELSE Fold(RemoveConflict, t, conflicts)

InstallNew(t, pkg) ==
  With(AddDependencies(t, pkg), LAMBDA d :
    IF d.ok THEN RemoveConflicts(AddInstall(d.trxn, pkg),
                                 FindConflicts(d.trxn, pkg))
    ELSE AddExclude(d.trxn, pkg))

\* Mutant of AddInPlace: the two versions swapped.
AddInPlace_swapped(t, inst, pkg) ==
  IF Cmp(inst, pkg) = 0 THEN AddReinstall(t, pkg, inst)
  ELSE AddUpgrade(t, pkg, inst)

\* In the place of the installed version: again, if it compares equal.
AddInPlace(t, inst, pkg) ==
  IF Cmp(inst, pkg) = 0 THEN AddReinstall(t, inst, pkg)
  ELSE AddUpgrade(t, inst, pkg)

InstallOver(t, inst, pkg) ==
  With(AddDependencies(t, pkg), LAMBDA d :
    IF d.ok
    THEN With(RemoveConflicts(d.trxn, FindConflicts(d.trxn, pkg)),
              LAMBDA u : AddInPlace(u, inst, pkg))
    ELSE AddExclude(d.trxn, pkg))

InstallPkg(t, pkg) ==
  LET inst == Newest(w.installed, pkg.name)
  IN  CASE inst = <<>> -> InstallNew(t, pkg)
        [] /\ inst # <<>>
           /\ ~w.conf.no_upgrade \/ w.conf.re_install
           /\ Cmp(inst[1], pkg) < 0 \/ w.conf.re_install ->
             InstallOver(t, inst[1], pkg)
        [] OTHER -> t

-----------------------------------------------------------------------------
(* main.c: slapt_pkg_action_upgrade_all *)

\* Mutant of Upgrade: what has conflicts is dropped instead of excluded.
Upgrade_forgets_conflicted(t, inst, pkg) ==
  IF IsExcluded(w, pkg) \/ IsExcluded(w, inst) THEN AddExclude(t, pkg)
  ELSE With(AddDependencies(t, pkg), LAMBDA d :
         IF d.ok /\ (w.conf.ignore_dep \/ FindConflicts(t, pkg) = <<>>)
         THEN AddInPlace(d.trxn, inst, pkg)
         ELSE d.trxn)

\* An installed package and its update, in the loop over installed packages.
\* Conflicts are looked up before the dependencies are added; what the
\* dependencies added stays when the package itself is excluded.
Upgrade(t, inst, pkg) ==
  IF IsExcluded(w, pkg) \/ IsExcluded(w, inst) THEN AddExclude(t, pkg)
  ELSE With(AddDependencies(t, pkg), LAMBDA d :
         IF d.ok /\ (w.conf.ignore_dep \/ FindConflicts(t, pkg) = <<>>)
         THEN AddInPlace(d.trxn, inst, pkg)
         ELSE AddExclude(d.trxn, pkg))

UpgradeInstalled(t, inst) ==
  LET update == Newest(w.avail, inst.name)
      c == Cmp(inst, update[1])
  IN  IF /\ Cmp(inst, Newest(w.installed, inst.name)[1]) >= 0
         /\ update # <<>>
         /\ \/ c < 0
            \/ w.conf.re_install
            \/ /\ w.conf.dist_upgrade
               /\ c = 0
               /\ inst.version.arch # update[1].version.arch
      THEN Upgrade(t, inst, update[1])
      ELSE t

\* --dist-upgrade: an essential package ...
AddEssential(t, e) ==
  LET inst == Newest(w.installed, e.name)
      avail == Newest(w.avail, e.name)
  IN  CASE inst # <<>> /\ avail # <<>> /\ Cmp(inst[1], avail[1]) < 0 ->
             AddUpgrade(t, inst[1], avail[1])
        [] inst = <<>> /\ avail # <<>> /\ ~e.upgrade_only ->
             AddInstall(t, avail[1])
        [] OTHER -> t

\* Mutant of DropReplaced: without a look at what there is to replace it.
DropReplaced_anyway(t, e) == AddRemoveAll(t, Newest(w.installed, e.replaces))

\* ... and the removal of the one it replaces.
DropReplaced(t, e) ==
  IF e.replaces = NULL \/ Newest(w.avail, e.name) = <<>> THEN t
  ELSE AddRemoveAll(t, Newest(w.installed, e.replaces))

UpgradeEssential(t, e) == DropReplaced(AddEssential(t, e), e)

AddBasePlain(t, inst, pkg) ==
  IF inst = <<>> THEN AddInstall(t, pkg) ELSE AddUpgrade(t, inst[1], pkg)

\* Mutant of AddBase: EXCLUDE does not hold for the base set.
AddBase_unfiltered(t, inst, pkg) ==
  With(AddDependencies(t, pkg), LAMBDA d :
    IF d.ok /\ ~w.conf.ignore_dep /\ FindConflicts(t, pkg) = <<>>
    THEN AddBasePlain(d.trxn, inst, pkg)
    ELSE AddExclude(d.trxn, pkg))

\* --dist-upgrade: a package of the base set, for which inst is installed or
\* nothing.  With --ignore-dep it is always excluded.
AddBase(t, inst, pkg) ==
  IF \E p \in Range(inst) \cup {pkg} : IsExcluded(w, p) THEN AddExclude(t, pkg)
  ELSE With(AddDependencies(t, pkg), LAMBDA d :
         IF d.ok /\ ~w.conf.ignore_dep /\ FindConflicts(t, pkg) = <<>>
         THEN AddBasePlain(d.trxn, inst, pkg)
         ELSE AddExclude(d.trxn, pkg))

\* Mutant of Differs: any other version of a base package will do.
Differs_either_way(inst, pkg) == inst.version # pkg.version

\* Not older, and not the same build.
Differs(inst, pkg) == Cmp(inst, pkg) <= 0 /\ inst.version # pkg.version

UpgradeBase(t, match) ==
  LET newer == Newest(w.avail, match.name)[1]
      inst == Newest(w.installed, match.name)
  IN  With(IF Cmp(match, newer) < 0 THEN newer ELSE match,
           LAMBDA pkg : IF inst = <<>> \/ Differs(inst[1], pkg)
                        THEN AddBase(t, inst, pkg) ELSE t)

ObsoletePkg(t, p) ==
  IF IsExcluded(w, p) THEN AddExclude(t, p) ELSE AddRemove(t, p)

UpgradeSlaptGet(t) ==
  LET newest == Newest(w.avail, SlaptGet)
      inst == Newest(w.installed, SlaptGet)
  IN  IF newest = <<>> THEN t
      ELSE With(AddDependencies(t, newest[1]), LAMBDA d :
             IF inst = <<>> THEN d.trxn
             ELSE AddReinstall(d.trxn, inst[1], newest[1]))

-----------------------------------------------------------------------------
(* main.c: slapt_pkg_action_remove *)

\* The installed packages the arguments name, one for each that is found.
Scheduled ==
  Concat([i \in DOMAIN w.args |-> Pick(w.installed, w.args[i])])

\* Mutant of RemoveDependents: only the packages that require it directly.
RemoveDependents_direct(t, pkg) ==
  LET direct == Keep(w.avail, {p \in Range(w.avail) :
                  p.name # pkg.name
                    /\ IsDependent(w, t.install, t.remove, p, pkg)})
  IN  AddRemoveAll(t, InstalledOf(w, direct))

RemoveDependents(t, pkg) ==
  AddRemoveAll(t,
           InstalledOf(w, RequiredBy(w, t.install, t.remove, pkg)))

-----------------------------------------------------------------------------
(* The steps of an invocation. *)

\* Mutant of Loops: the base set before the essential packages.
Loops_base_first ==
  CASE w.cmd = "install" -> <<"install">>
    [] w.cmd = "upgrade" -> <<"base", "essentials", "slapt-get", "upgrade">>
    [] w.cmd = "remove" -> <<"remove", "dependents", "obsolete">>

\* The loops of a command, in the order they run.
Loops ==
  CASE w.cmd = "install" -> <<"install">>
    [] w.cmd = "upgrade" /\ w.conf.dist_upgrade ->
         <<"essentials", "base", "obsolete", "slapt-get", "upgrade">>
    [] w.cmd = "upgrade" /\ ~w.conf.dist_upgrade -> <<"upgrade">>
    [] w.cmd = "remove" -> <<"remove", "dependents", "obsolete">>

\* What a loop goes over.  Only slapt_get_obsolete_pkgs reads anything that a
\* loop before could have changed, and it does not read the transaction.
Items(loop) ==
  CASE loop = "install"    -> w.args
    [] loop = "essentials" -> Essentials
    [] loop = "base"       -> Keep(w.avail, {p \in Range(w.avail) : p.location \in BaseSet})
    [] loop = "obsolete"   -> IF w.conf.remove_obsolete THEN Obsolete(w) ELSE <<>>
    [] loop = "slapt-get"  -> <<SlaptGet>>
    [] loop = "upgrade"    -> w.installed
    [] loop = "remove"     -> Scheduled
    [] loop = "dependents" -> Scheduled

Init ==
  /\ w \in Worlds
  /\ trxn = EmptyTrxn
  /\ pc = "read"
  /\ todo = <<>>

\* Nothing can be installed or upgraded without package data.
ReadPackageLists ==
  /\ pc = "read"
  /\ pc' = IF w.cmd # "remove" /\ w.avail = <<>> THEN "exit" ELSE Loops[1]
  /\ todo' = IF w.cmd # "remove" /\ w.avail = <<>> THEN <<>>
             ELSE Items(Loops[1])
  /\ UNCHANGED <<w, trxn>>

\* One pass of the loop `loop`, which turns the transaction into t.
Pass(loop, t) ==
  /\ pc = loop
  /\ todo # <<>>
  /\ trxn' = t
  /\ todo' = Tail(todo)
  /\ UNCHANGED <<w, pc>>

InstallArg ==
  /\ pc = "install" /\ todo # <<>>
  /\ Pick(NotExcluded, Head(todo)) # <<>>
  /\ Pass("install", InstallPkg(trxn, Pick(NotExcluded, Head(todo))[1]))

\* "No such package": slapt-get exits.
NoSuchPackage ==
  /\ pc = "install" /\ todo # <<>>
  /\ Pick(NotExcluded, Head(todo)) = <<>>
  /\ pc' = "exit"
  /\ todo' = <<>>
  /\ UNCHANGED <<w, trxn>>

UpgradePass == Pass("upgrade", UpgradeInstalled(trxn, Head(todo)))
EssentialPass == Pass("essentials", UpgradeEssential(trxn, Head(todo)))
BasePass == Pass("base", UpgradeBase(trxn, Head(todo)))
ObsoletePass == Pass("obsolete", ObsoletePkg(trxn, Head(todo)))
SlaptGetPass == Pass("slapt-get", UpgradeSlaptGet(trxn))
RemovePass == Pass("remove", AddRemove(trxn, Head(todo)))
DependentsPass == Pass("dependents", RemoveDependents(trxn, Head(todo)))

\* The end of a loop: the next one, or slapt_transaction_t_run.
NextLoop ==
  /\ pc \in Range(Loops)
  /\ todo = <<>>
  /\ LET k == CHOOSE i \in DOMAIN Loops : Loops[i] = pc
     IN  IF k < Len(Loops)
         THEN pc' = Loops[k + 1] /\ todo' = Items(Loops[k + 1])
         ELSE pc' = "run" /\ todo' = <<>>
  /\ UNCHANGED <<w, trxn>>

Next ==
  \/ ReadPackageLists \/ NextLoop
  \/ InstallArg \/ NoSuchPackage
  \/ UpgradePass \/ EssentialPass \/ BasePass \/ SlaptGetPass
  \/ RemovePass \/ DependentsPass \/ ObsoletePass

Spec == Init /\ [][Next]_vars

-----------------------------------------------------------------------------
(* Properties. *)

Packages == Range(w.installed) \cup Range(w.avail)
Pairs == [installed : Range(w.installed), upgrade : Range(w.avail)]

\* Only packages that were read are planned, each installed one as installed.
TypeOK ==
  /\ pc \in Range(Loops) \cup {"read", "run", "exit"}
  /\ Range(trxn.install) \subseteq Range(w.avail)
  /\ Range(trxn.upgrade) \cup Range(trxn.reinstall) \subseteq Pairs
  /\ Range(trxn.remove) \cup Range(trxn.exclude) \subseteq Packages

Done == pc = "run"

Queued(k) == Member(trxn, trxn.queue[k].list, trxn.queue[k].index)
Steps == DOMAIN trxn.queue
Acted == {Queued(k) : k \in Steps}

\* Names installed when the whole transaction has been executed.
After == {p.name : p \in Acted}
           \cup {p.name : p \in Range(w.installed) \ Range(trxn.remove)}

Alternatives(p, k) == {p.depends[k][i].name : i \in DOMAIN p.depends[k]}

\* The declarations of p a queue member would have to come first for: those
\* without a choice that nothing installed meets.
Unmet(p) ==
  {k \in DOMAIN p.depends :
     /\ ~IsOr(p.depends[k])
     /\ ResolveDep(p.depends[k][1], w.installed, <<>>) = <<>>}

\* The names p requires, or may require, over n declarations in a row.
Requires[n \in Nat, p \in Packages] ==
  IF n = 0 THEN {}
  ELSE LET names == UNION {Alternatives(p, k) : k \in DOMAIN p.depends}
       IN  names \cup UNION {Requires[n - 1, q] :
                               q \in {r \in Range(w.avail) : r.name \in names}}

Depth == Cardinality({p.name : p \in Packages})

\* No dependency is added in the place of a version as late or later.
IsLater(p) ==
  LET inst == Newest(w.installed, p.name) IN inst = <<>> \/ Cmp(inst[1], p) < 0

\* FAQ #26: dependencies are installed before the packages that require them.
\* In the queue, something that meets what a package requires and has not got
\* stands before it, if anything in the queue does and is not older than what
\* is installed, unless the two require each other.
\* Several arguments, each with its own dependencies, add to one queue (two
\* versions of one package, too), and duplicates keep their first place.
\* (With --ignore-dep a missing dependency cuts the reordering short.)
DependenciesFirst ==
  Done /\ ~w.conf.disable_dep_check /\ ~w.conf.ignore_dep =>
    \A j \in Steps : \A d \in Unmet(Queued(j)) :
      LET meets(k) == ResolveDep(Queued(j).depends[d][1], <<>>, <<Queued(k)>>) # <<>>
      IN  \/ \E i \in Steps : i < j /\ meets(i)
          \/ \A k \in Steps : j < k /\ meets(k) /\ IsLater(Queued(k))
                               => Queued(j).name \in Requires[Depth, Queued(k)]

\* What --dist-upgrade plans whatever its dependencies and EXCLUDE say.
Forced ==
  IF w.cmd = "upgrade" /\ w.conf.dist_upgrade
  THEN {SlaptGet} \cup {Essentials[i].name : i \in DOMAIN Essentials} ELSE {}

\* A transaction that leaves nothing out and removes nothing has all the
\* dependencies of what it installs: for each declaration one alternative is
\* installed or will be.
DependenciesPresent ==
  Done /\ trxn.exclude = <<>> /\ trxn.remove = <<>>
    /\ ~w.conf.ignore_dep /\ ~w.conf.disable_dep_check =>
       \A p \in {q \in Acted : q.name \notin Forced} : \A k \in DOMAIN p.depends :
          Alternatives(p, k) \cap After # {}

\* EXCLUDE holds in every way a package gets into the plan: as an argument, as
\* an update, as a dependency of either, at any depth (FAQ #30).
ExcludedNotPlanned ==
  Done /\ ~w.conf.ignore_dep =>
    \A p \in Acted : IsExcluded(w, p) => p.name \in Forced

\* README: "to prevent downgrades".  Whoever planned it, an upgrade replaces
\* an installed version, and the newest of them, by a later one (with
\* --dist-upgrade also by an equal one for another architecture), unless
\* --reinstall was given.
UpgradesGoForward ==
  ~w.conf.re_install =>
    \A pair \in Range(trxn.upgrade) :
      /\ pair.installed.name = pair.upgrade.name
      /\ \A p \in Range(w.installed) :
            p.name = pair.upgrade.name => Cmp(p, pair.installed) <= 0
      /\ \/ Cmp(pair.installed, pair.upgrade) < 0
         \/ w.conf.dist_upgrade /\ Cmp(pair.installed, pair.upgrade) = 0

\* --upgrade forgets no update: at the end each installed package for which
\* there is a newer one is planned to be upgraded or reported as held back.
NoUpdateForgotten ==
  Done /\ w.cmd = "upgrade" =>
    \A p \in Range(w.installed) :
      LET update == Newest(w.avail, p.name)
      IN  Newest(w.installed, p.name) = <<p>> /\ update # <<>>
            /\ Cmp(p, update[1]) < 0
            => SearchByPkg(trxn, update[1])

\* The one available package of its name that slapt-get looks at for what is
\* required: the newest, and no other one is as late.
SoleOffer(p) ==
  /\ Newest(w.avail, p.name) = <<p>>
  /\ \A x \in Range(w.avail) :
       x.name = p.name /\ x # p => CmpVersions(x.version, p.version) < 0

\* --remove leaves nothing behind that requires, without an alternative,
\* another package it takes away: such a dependent is removed as well, or
\* reported as excluded.  (Of an installed package slapt-get knows only the
\* dependencies of the same version that is available.)
RemoveTakesDependents ==
  Done /\ w.cmd = "remove" /\ ~w.conf.disable_dep_check =>
    \A p \in Range(w.avail) :
      IsExactlyInstalled(w, p) /\ SoleOffer(p)
        /\ (\A r \in Range(trxn.remove) \cup Range(trxn.exclude) : ~SamePkg(p, r))
        => \A k \in DOMAIN p.depends :
              \/ IsOr(p.depends[k])
              \/ ResolveDep(p.depends[k][1], w.installed, w.avail) = <<>>
              \/ p.depends[k][1].name = p.name
              \/ ~\E q \in Range(trxn.remove) : q.name = p.depends[k][1].name

\* The essential packages there are to install, or to replace an older one.
IsEssential(p) ==
  /\ Newest(w.avail, p.name) = <<p>>
  /\ \E e \in Range(Essentials) : e.name = p.name
  /\ IF Newest(w.installed, p.name) = <<>>
     THEN \E e \in Range(Essentials) : e.name = p.name /\ ~e.upgrade_only
     ELSE Cmp(Newest(w.installed, p.name)[1], p) < 0

EssentialPkgs == {p \in Range(w.avail) : IsEssential(p)}

\* main.c: "make sure the essential packages are installed/upgraded first".
\* In the queue of a --dist-upgrade no other package stands before one of
\* them, although the base set, slapt-get, the updates and the dependencies
\* of all of them add to it as well.
EssentialsFirst ==
  Done /\ w.cmd = "upgrade" /\ w.conf.dist_upgrade =>
    \A j, k \in Steps :
      j < k /\ Queued(k) \in EssentialPkgs => Queued(j) \in EssentialPkgs

Disputed(name) ==
  \E q \in Range(w.avail) : \E d \in Range(Concat(q.conflicts)) : d.name = name

\* --upgrade takes a package away (glibc-solibs, say) only if another one
\* conflicts with it, or for an essential one that replaces it and is there in
\* the end, installed already or by this transaction; unless that one, in
\* turn, has to make way for a package in conflict with it.
ReplacementPresent ==
  Done /\ w.cmd = "upgrade" /\ ~w.conf.remove_obsolete =>
    \A p \in Range(trxn.remove) :
      \/ Disputed(p.name)
      \/ \E e \in Range(Essentials) :
            e.replaces = p.name /\ (Disputed(e.name) \/ e.name \in After)

(* What the documentation says and the code does not do. *)

\* FAQ #31: packages in conflict "must not be installed side by side"; "the
\* user is prompted to remove the conflict and install the requested package".
\* One transaction does not install both, unless a package requires both.
NotSideBySide ==
  Done /\ ~w.conf.ignore_dep =>
    \A p, q \in Acted : \A d \in Range(Concat(p.conflicts)) :
      \/ ResolveDep(d, <<>>, <<q>>) = <<>>
      \/ \E r \in Acted : {p.name, q.name} \subseteq {r.name} \cup Requires[Depth, r]
=============================================================================
