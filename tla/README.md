# slapt-get in TLA+

slapt-get (`src/`) is a package manager for Slackware: it keeps a list of the
packages its sources offer, plans a transaction from a command line (install,
upgrade, dist-upgrade, remove), downloads and verifies the packages and runs the
Slackware package tools.  These modules model the parts of it that decide
something or leave something behind, TLC checks them on small instances and
TLAPS proves theorems about the transaction, planning, the run, the update and
the order of versions.

## 1. The system

| component | state | operations | talks to |
|---|---|---|---|
| transaction record (`transaction.c`) | five lists (install, upgrade, reinstall, remove, exclude), a queue of pointers into the first three, suggestions, two error lists | `slapt_transaction_t_add_*`, `_search*`, `_remove`, `_suggestions` | everything that plans; other clients of libslapt (gslapt) |
| dependency resolution (`package.c`) | none: functions of the installed and available lists and the configuration | `slapt_get_newest_pkg`, `slapt_get_exact_pkg`, `slapt_is_excluded`, `resolve_dep`, `slapt_get_pkg_dependencies`, `slapt_get_pkg_conflicts`, `slapt_is_required_by`, `slapt_get_obsolete_pkgs` | called by planning |
| planning (`main.c`, `transaction.c`) | the transaction | `slapt_pkg_action_install`, `_upgrade_all`, `_remove`; `slapt_transaction_t_add_dependencies`, `_find_conflicts` | resolution, transaction |
| transaction run (`transaction.c`, `slaptcurl.c`, `package.c`) | the package cache on disk; position in the loops, retry count | `slapt_transaction_t_run`, `slapt_download_pkg`, `slapt_download_data`, `slapt_verify_downloaded_pkg`, `slapt_install_pkg`, `_upgrade_pkg`, `_remove_pkg` | user, mirror (libcurl), `installpkg`, `upgradepkg`, `removepkg` |
| package data update (`package.c`, `slaptcurl.c`) | per source the cached PACKAGES, patches, CHECKSUMS, signature and ChangeLog files, each with a head cache; `package_data` | `slapt_update_pkg_cache`, `slapt_get_pkg_source_*`, `slapt_*_head_cache` | mirror, gpgme |
| package lists (`package.c`) | `package_data` | `slapt_parse_packages_txt`, `slapt_get_md5sums`, `slapt_write_pkg_data` | update writes, every other action reads |
| cache cleaning (`package.c`, `common.c`) | the package cache | `slapt_purge_old_cached_pkgs`, `slapt_clean_pkg_dir` | shares the cache with a transaction that runs in another process |
| version comparison (`package.c`) | none | `slapt_pkg_t_cmp`, `slapt_pkg_t_cmp_versions`, `slapt_pkg_t_qsort_cmp` | resolution, planning, update |
| vectors (`common.c`) | members and whether they are sorted | `slapt_vector_t_sort`, `_add`, `_index_of`, `_search` | everything |
| configuration, queries, command line, gpgme, strings | data read once, or printed | | |

slapt-get is one thread without locks, event loop or daemon; two processes only
meet in the files.  What is hard in it is less concurrency than the sequences: every list has its own duplicate check,
planning is a series of loops that read the transaction the earlier ones built,
dependencies are ordered by a recursion over shared and cyclic declarations, and
the caches on disk outlive an invocation that fails, is interrupted or is killed.
`PROJECT.json` lists these hazards line by line, with the property that covers
each or the reason why none does.

What makes each component correct:

- *transaction*: a package has one fate; the queue is exactly the plan; a first
  decision stands; taking a package out takes out nothing else;
- *planning*: dependencies are there and come first; EXCLUDE holds on every way
  into the plan; nothing is downgraded; no update is forgotten; a removal takes
  its dependents; essential packages come first and are not taken away without
  a replacement;
- *run*: nothing is done to the system before every package is there and
  verifies; then the operations are done in order, none skipped; a verified
  file is never spoilt; the run ends;
- *update*: `package_data` changes only when all sources were read, to what they
  offered meanwhile; a head cache never vouches for a file that is old or cut
  short; an undisturbed update repairs whatever earlier ones left;
- *package lists*: a malformed record costs only itself, the fields of two are
  never mixed, and what is read back, at any moment, is a beginning of what was
  written;
- *versions*: upgrading never leads back, and not away from what a dependency
  asked for; the newest package does not depend on the order of the list.

## 2. Modules

| module | models | how |
|---|---|---|
| `TrxnLists` | `slapt_transaction_t` and its add and search operations | operators on a record; a queue item is a list name and an index, as the C queue is pointers to list members; `Once` and `Planned` are what they keep true |
| `Transaction` | a libslapt client calling these operations in any order; `slapt_transaction_t_remove` | one action per call; the rebuild in a second object (`fresh`) one loop pass at a time |
| `TransactionProofs` | | TLAPS proofs about `Transaction` |
| `ListOps` | loops over a vector | folds: `Fold`, `Keep` (a filter), `Concat` |
| `Resolver` | look-ups and dependency resolution | operators; a loop is a fold over the list it goes through, the accumulating vectors threaded through a record `s`.  The two functions that call themselves (`get_pkg_dependencies`, `required_by`) are unrolled: `nested` is what the nested call computes, and there are as many levels as available packages |
| `FoldProofs`, `ResolverProofs` | | TLAPS proofs about folds, and about `ListOps` and `Resolver` |
| `Planner` | the actions of `main.c` | `w` is what an invocation read (lists, options, arguments), `pc` and `todo` the loop that runs and what is left of it; one pass of a loop is one action |
| `PlannerProofs` | | TLAPS proofs about `Planner` |
| `TransactionPromise` | what FAQ #26 promises of a transaction | abstract specification |
| `TransactionRun` | `slapt_transaction_t_run`, the download of packages, and `--clean` or `--autoclean` meanwhile | `pc`, `at` and `tries` are the position in the C; `file` the package cache, which survives `Kill` and the next `Begin`; `cleaner` the files another process is about to remove |
| `TransactionRunProofs` | | TLAPS proofs about `TransactionRun` |
| `PackageDataPromise` | what `--update` promises of `package_data` | abstract specification |
| `PackageData` | `slapt_update_pkg_cache` and the functions that fetch a document of a source | `file` and `head` are the downloaded files and head caches on disk; `src` and `name` the source and file the update is at, `seen` the head it got, `got` what it has of the source, `new` the lists of the sources so far |
| `PackageDataProofs` | | TLAPS proofs about `PackageData` |
| `Vectors` | `slapt_vector_t` | a record of the members and the sorted flag; the binary search is a recursive function |
| `Version` | the comparison of versions and packages, look-ups in a sorted list, and the history of one package that is upgraded from sources that change | a version is a sequence of tokens; `avail` is the sorted list, `had` what was installed so far |
| `VersionProofs` | | TLAPS proofs about `Version` and `Vectors` |
| `PackageList` | from a PACKAGES.TXT and a CHECKSUMS.md5 to `package_data` and back | a file is its lines; the parser is a recursive function over them, `todo` what the writer has not written yet |
| `PackageListProofs` | | TLAPS proofs about `PackageList` |
| `MCTransaction`, `MCPlanner`, `MCTransactionRun`, `MCPackageData`, `MCVersion`, `MCPackageList` | | values of the constants |

`Planner` and `TransactionRun` use `TrxnLists`, so that all three levels speak of
the same transaction; `Planner` extends `Resolver`, which extends `ListOps`.  `TransactionRun` implements
`TransactionPromise` under the mapping `ops <- Ops(trxn)`, `seen <-` the packages
the download loops are past, `good <-` those whose file verifies now.  `PackageData` implements `PackageDataPromise`: the lists collected are
staged once `slapt_update_pkg_cache` is past its loop over the sources.  It is
not composed with the others: what it leaves in `package_data` is, to planning,
any list of available packages.  `PackageList` opens up two of its steps, the
parse of a list and the writing of `package_data`, which are one action each in
`PackageData`.

Operators whose names end in `_something` and whose comment starts with "Mutant
of" are not part of the model: each is a plausible error in the operator that
follows, and shows that a property notices it.

### Abstractions

- A package is a record.  In `Resolver` its version is a number for what
  `slapt_pkg_t_cmp_versions` orders, and an architecture for what it ignores.
- In `Version` a version is a sequence of tokens: digits, text and the separator
  that follows.  Digits are sequences of 0 to 9, so that leading zeros count;
  texts are lower case (`strcasecmp` is equality).  ULLONG_MAX is scaled down to
  99.  `strverscmp` is external and written from its manual.  The modelled
  comparison and the compiled C functions give the same sign for all pairs of
  157 versions built from these tokens.  `slapt_pkg_t_qsort_cmp` looks at the
  location last; the instances have no two packages that differ in it alone.
- An `EXCLUDE` entry is the set of names that are a prefix of it (the `strncmp`)
  and the set of names and locations it matches as a regular expression.  The
  regular expression is also tried on the version; the entries of the instances
  match none.
- Lists are sequences in the order of `slapt_pkg_t_qsort_cmp`.  The binary search
  of a sorted vector may return any of several equal members; two available
  packages with one name and version do not occur in the instances.
- A declaration is the sequence of its alternatives.  The package log records no
  dependencies, so installed packages have none, as in the program.
- A cached file is missing, a beginning of the package, the package, something
  else, or longer than announced.  Appending to one leads to those states the
  bytes allow.  A file's checksum is taken not to change between invocations.
- The size of a cached file is read in one step (`Measure`) and the file opened
  to append in another (`Open`).  If it is gone by then the answer begins in the
  middle ("gap").  A file unlinked while it is written stays unlinked.  A
  cleaning removes the files it may in any order and may meet one that was
  created after it began, as `readdir` may.  What the user of `--autoclean`
  answers is that it may end at any time.
- In `PackageList` a line is its marker and value, or `Malformed` if the regular
  expression of that field does not match.  The location is the one after the
  rewriting of `./extra/` and the like; one that is empty or contains `..` is
  malformed.  A trailing slash is not added to a mirror.  The twelve lines of a
  description that is made up are one.  A version is what
  `slapt_pkg_t_cmp_versions` sees of it, and packages that agree in it may be
  sorted either way.  A kill leaves any number of whole lines and part of the
  next.  The compiled `slapt_parse_packages_txt` and `slapt_write_pkg_data` agree
  with the model on 1024 lists of the instance's kind, read, written and read again.
- A document of a source, whatever it lists, is the version of the mirror it was
  downloaded from, or cut short; a Last-Modified line is the version, too.  A
  mirror changes all its documents at once and never goes back.  A GET brings a
  whole file or fails; a download without a package in it is such a failure, as
  the code treats it.  The five documents are fetched the same way, so `Ask`,
  `GetOk`, `GetFails`, `Commit` and `Close` serve all; where one differs (no
  download of a change log without a head, no second name for a signature,
  no update without packages or checksums) is a condition on `name`.
- gpgme's verdict is: accepted if the signature is of the same version as the
  checksums, or if the key is unknown; rejected otherwise.  Expired and revoked
  keys, and `--allow-unauthenticated` for them, are left out.
- Wording and sizes of the report, and the tools' own effects, are left out.

## 3. Runs

| run | instance | result |
|---|---|---|
| `transaction` | 2 names, 2 versions and a second location, up to 3 members | 188 thousand states; five properties hold |
| `planner` | 3 names, versions 1 and 2, 13 logs, 180 available lists (dependencies with versions, alternatives, cycles, a missing name; conflicts), 5 option sets, 5 additions and 2 removals | 315 thousand states; seven properties hold |
| `dist_upgrade` | essential packages `e` (replaces `r`) and `u` (upgrade only), a base package in two versions, architectures or priorities, `slapt-get`, an obsolete `o`; 65 logs, `--obsolete`, `--ignore-dep`, EXCLUDE | 1.1 million states; five properties hold |
| `transaction_run` | 4 packages (one without checksum), 3 plans, 5 option sets, retries 1 and 2, any number of invocations and kills, one cleaning | 326 thousand states; safety, refinement and liveness hold |
| `package_data` | a signing mirror with compressed and plain files and one with plain files only; two versions, 3 updates, 2 faults, either failing GETs and kills or failing GETs and failing HEADs | 1.1 million states; three invariants and the refinement hold |
| `version` | 10 versions of two and three parts and 2 more requirements, up to 3 upgrades, offers of up to 4 packages, a preferred source | 22 thousand states; seven properties hold |
| `package_list` | 384 lists of two records, the first out of 16, the second out of 6, whole or broken; a second source; a kill at every line | 127 thousand states; five properties hold |
| `cut_list` | the plain mirror alone, failing HEADs and kills | violated: see 6 |
| `rebuild_reinstall` | as `transaction` | violated: see 6 |
| `side_by_side` | as `planner` | violated: see 6 |
| `version_cycle` | as `version` | violated: see 6 |
| `no_md5` | as `transaction_run` | violated: see 6 |

*Why the bounds are enough.*  A duplicate, a wrong index or a lost member needs
two members of one list or one in each of two; three let one stand between.  A
dependency order needs three packages for a chain, a diamond or a cycle that
does not touch the argument; two versions give an upgrade, an exact and an
unsatisfiable requirement.  The downloads need one package before and one after
the one that fails, in each of the three lists, and one retry after a failure:
all retries after the first start from the same file states.  The deadlock
check is off for `Planner`, where planning ends with `pc` at "run" or "exit", and
for `PackageData`, where `MaxUpdates` ends it.

`PackageData` needs two sources for one to fail while the other is read, two
versions for a file and its head to differ, a first update to fill the caches, a
second to be disturbed and a third to find what that left; two faults in one
history make a kill follow a failed download.  Failing HEADs and kills are not
allowed in the same history of the passing run, since together they defeat the
head caches; that is what `cut_list` shows.

One cleaning can fall between any two steps of an invocation; a second one would
have to come before the first file is back, or after the next invocation has
begun, which finds an empty cache at first, too.  The plans put a package in two
of them in different lists, so that one invocation finds what another left.

`Version` needs three upgrades to go round a cycle of three; the versions contain
the shortest such cycle, pairs that differ in build, architecture or the text of
the build only, one number in and one beyond `MaxValue`, with and without a
leading zero, and the separator `_`.  Offers have up to three packages of the name,
and others of the names before and after it, so that the binary search meets a
group of equal members at either end and in the middle.  `NoWayBack`,
`NewestIsUnbeaten` and `RequirementStaysMet` are about versions with the same
number of parts; without that they do not hold (`version_cycle`).

`PackageList` needs two records, one to go wrong and one to suffer; the first and
the second take each of the 16 forms.  `package_data` then holds up to three
packages and is cut in every line of each.  The deadlock check is off for it: it
ends with `pc` at "done" or "killed".

*Fairness.*  `TransactionRun` assumes `WF_vars(RunStep)`: the program, one process,
takes its next step when it can.  This covers a user who answers, transfers
that end (`slapt_download_data` sets a connection timeout and a low speed limit)
and package tools that return (`waitpid`).  `Begin`, `Kill` and `Cleaning` are not fair: another process need not do
anything.
`RunEnds` is stated for `--retry` greater than 1: with the default of 1
`slapt_download_pkg` calls itself after a partial file, without a limit.

## 4. Proofs

`TransactionProofs` proves, for every set of names and packages and every
bound, `TypeOK`, `NoPkgTwice`, `QueueIsPlan`, `FirstDecisionStands` and
`RebuildDropsOnlyPkg`.  The assumptions are the two in `Transaction`:
suggestions are names, the bound is a natural number.

`NoPkgTwice` and `QueueIsPlan` are not inductive by themselves.  That the queue
has every member exactly once needs the lengths: that a new pointer is larger
than every index in the queue, which is so because all pointers lead to members
(the first part of `Planned`) and a member is always added at the end.  That
holds of the client's transaction only if it holds of the one being rebuilt,
which replaces it at the end of `slapt_transaction_t_remove`; and the members to
be looked at (`work`) must have the type the loops expect, or `Readd` could add
anything.  The inductive invariant is the conjunction of the type and of `Once`
and `Planned` for both transactions.  Each operation is a lemma about any
well-formed record (an add keeps it well formed, keeps every member where it is,
adds at most one member and its pointer), and the step theorem combines them,
one case per action.

`RebuildDropsOnlyPkg` is about the whole of `slapt_transaction_t_remove`, so its
invariant (`RebuildInv`) says how far the four loops have come: for each list there is a
number of members looped over, what is left to look at is the rest of the lists one
after the other, and the new list is what is kept of the members looped over, in
their order (`LeftOf`, an increasing map from the places in the new list to those in
the old one).  Re-adding goes through the duplicate check; that it never finds a
duplicate (`NotYetThere`) is where `Once` is needed: a package that stood in two
lists would be lost from the second.

`TransactionRunProofs` proves, for every set of packages, plans, options and
listings and any number of cleanings, `TypeOK`, `FetchedFirst`, `VerifiedStays`
and that the run implements `TransactionPromise` (`KeepsPromise`).  The
assumptions are those of `TransactionRun`: a retry count is at least 1, and what
is carried out is a plan (`IsPlan`): lists of packages, `Once` and `Planned`.
The latter two are what `TransactionNoPkgTwice` and `TransactionQueueIsPlan`
prove of every transaction a client of the library can make, and both are needed:

- `Once`, because the three download loops go over the lists one after the other
  and share the files.  Were a package in two lists, it could be verified in the
  first, cleaned away, and be half written again by the second: what the loops
  have passed would not be held, and every package would have been seen while one
  is still written to, which the promise rules out.
- `Planned`, because the downloads go over the lists and the tools over the
  queue: what is verified has to be what is installed (`NeededIsFetched`).

`FetchedFirst` is not inductive.  The invariant adds where the loop is: all
packages before the one that is fetched are held, that is, they verified and
only a cleaning can have taken them away (`HeldInv`); a file is written to only
while it does not verify, so that an answer appended to it, or a crash, cannot
spoil one that does (`TryInv`); nothing is done before the removals begin, and
then `done` is as long as the operations passed (`DoneInv`).  One lemma for each
action shows that it keeps the invariant.  `FileChanges` says what a step may do
to a file and gives `VerifiedStays`; the refinement maps a success to `Verify`,
a tool to `Perform`, everything else that happens to a file to `Change`, and
every end to `Stop`.

`PackageDataProofs` proves, for any number of sources, whatever files they
offer, and any number of updates, changes of a mirror and faults, `TypeOK`,
`CachedIsCurrent`, `UndisturbedIsFresh` and that `--update` implements
`PackageDataPromise` (`KeepsPackageData`).  Besides the assumptions of `PackageData` the theorems
have one condition, `NoHeadAndKill`: no history has both a HEAD that fails and a
kill.  It cannot be dropped, for that is the finding `cut_list` shows: without
a head the file is emptied and downloaded, a kill leaves it cut short under the
head cache of the one before, and the next update takes it for current.

`CachedIsCurrent` is not inductive.  The invariant adds that a stored head is
one the mirror has given out (`HeadInv`), so that a mirror that changes cannot
make an old one current; that what is downloaded is at least as new as the head
it will be stored under, and that the head stored so far is not the mirror's,
unless HEAD failed (`GetInv`): that is what makes a killed download harmless,
and where `NoHeadAndKill` is needed.  For the refinement it adds that what the
update has of each source was offered while it ran (`ListInv`, which rests on
`CachedIsCurrent`, as a list may come from a file that was there), and which
sources it has at each point of its loop (`LoopInv`).  `DeliverKeeps` is the
lemma for what all the fetches have in common; then one lemma for each action.
The refinement maps the end of the loop to `Stage`, the opening and the writing
of `package_data` to `Truncate` and `Replace`, a kill to `Abandon`, and every
step of a source to a stutter.

`UndisturbedIsFresh` follows one update through all its documents (`FreshInv`).
While nothing disturbs it, there is one version to get, and what it has got of
each document of each source it is past, is that version (`PastInv`), whatever
file it came from: `CachedIsCurrent` says so of a file that need not be
downloaded.  It is in the compressed form unless there is none to have
(`FormInv`), as every HEAD is answered, so the update falls back to the plain
form only where the mirror has no other.  The signature is then of the same
version as the checksums and is accepted, no source is given up, and what is
written in the end is what all sources offer.

`FoldProofs` is about a fold over any sequence, with the operator that is folded
a constant of the module: what each step keeps holds of the result
(`FoldKeeps`), and what each step takes one element further holds of the result
for the whole list (`FoldSteps`).  Both are an induction on the length, done
with a least counterexample.  Each loop of `Resolver` and `Planner` has an instance of
it, and its lemma names what one pass does.  The modules that prove about different
components do not extend each other, so each states the few facts about
sequences that it needs.

`ResolverProofs` proves about the operators on lists and the look-ups, for all lists, versions and
declarations, in particular:

- `NewestIsLatest`: no installed package of that name is later than what
  `slapt_get_newest_pkg` returns.  It is stated of the package log, where all
  priorities are 0: with priorities `slapt_pkg_t_cmp` is not an order, because equal
  versions compare as equal before the priority is looked at once one of
  the two is installed.
- `DependenciesCollect`: `slapt_get_pkg_dependencies` collects available packages
  that are not excluded, and when it returns 0 every declaration of the
  package and of all it collected, has an alternative that is installed or collected,
  over shared and cyclic declarations.  That holds of the unrolled recursion
  because each nested call is about a package that was just collected, under a
  name that was not there: after as many levels as there are packages there is no
  name left (`LevelIsDeep`, by the number of names not collected yet).  So the
  unrolling loses nothing, and the recursion in C ends.
- `RequiredByTakes`, `ObsoleteCloses`: what `slapt_is_required_by` and
  `slapt_get_obsolete_pkgs` return is closed under "requires without an
  alternative", for packages that are the only latest of their name; the others
  are passed over by `slapt_is_required_by`.

`PlannerProofs` proves, for all package lists, options, arguments, essential packages
and base sets, `TypeOK`, `ExcludedNotPlanned`, `UpgradesGoForward`,
`NoUpdateForgotten`, `DependenciesPresent`, `RemoveTakesDependents`,
`EssentialsFirst` and `ReplacementPresent`.  The assumptions are those of
`Planner`: the lists are lists of packages, installed ones without a priority, as
`slapt_pkg_t_init` leaves it; and of the table of essential packages, that one
that replaces another is not one to upgrade only, nor is it replaced itself, as in
`dist_upgrade_pkgs`.  `TypeOK` and `UpgradesGoForward` are about every state; the others are
about the end of planning, and what has to hold on the way there is the
invariant `IInv`, which TLC was given first:

- `Sound`: the lists are typed, queue and lists agree, nothing is planned that is
  excluded, and every upgrade goes forward.
- `Complete`: as long as nothing was left out or removed, whatever is planned has
  its dependencies.  It is kept pass by pass because the dependencies of a
  package are added before it, `DependenciesCollect` closes them, and what
  is planned or installed stays.  The other case is where the proof is: a
  dependency is not added if its name is in the transaction already, and then it must have
  come in with its own dependencies, or as one whose dependencies nobody looked
  at, as the essential packages of a dist-upgrade do.  That is the exception
  `Forced` in the property.
- `UpdateInv`, `RemoveInv`, `EssentialInv`: what the loop that runs has done for
  the items behind it.  For `--remove` it takes three loops to reach the property:
  at the end of "dependents" all that requires a scheduled package
  is scheduled or reported (`RequiredByTakes`), and the dependents this added
  are covered because the list is closed; "obsolete" adds packages again, covered by
  `ObsoleteCloses`.  For `--dist-upgrade`, `Lead` says that the
  essential packages are there and lead the queue; later loops only append.
- `RemovalInv`, for `ReplacementPresent`: what an upgrade removes is named by a
  conflict, or replaced by an essential package that is there or has to make way
  for a conflict itself.  A removal is dropped in silence if the package is in the
  transaction, and so is an install: therefore the invariant also says that while
  the essential packages are seen to, nothing is excluded yet and only what they
  replace is removed, so that the package that replaces another can be added.  All
  later loops remove only what a conflict names (`Drops`).

There is a lemma for each operation, about any sound transaction (`Adds`: nothing
is lost, the queue grows at its end, only allowed packages are added), one for
each pass that it keeps `IInv`, and one for the change from a loop to the next.

`VersionProofs` proves all properties of `Version`, for all texts, numbers of any
length, any `MaxValue`, whatever the sources offer, and histories of any length:
`TypeOK`, `CheckedIsNumeric`, `Antisymmetric`, `NewestIsUnbeaten`, `SearchFindsAll`,
`NoWayBack` and `RequirementStaysMet`.  The assumptions are those of `Version`:
versions have the form the patterns of `package.h` let through, offers are finite
sets of packages with names from an ordered list, and no architecture begins with
the name of another one (`slapt_pkg_t_cmp_versions` looks for `-x86_64` in one
place and for `-x86_64-` in another).  The theorems behind them are about the
comparison alone:

- `CheckedVersionCmpIs`: whether both numbers fit into 64 bits or not,
  `checked_version_cmp` gives the sign of their difference.  Two numbers without
  leading zeros compare as their lengths, then as their digits.
- `CmpVersionsOpposite`: swapping two versions swaps the sign, for all versions.
- `CmpVersionsTransitive`, `CmpVersionsStaysMet`: among versions with as many
  parts, newer than newer is newer, and what replaces a version that meets a
  requirement meets it.  The second does not follow from the first, since to be
  neither newer nor older is not transitive: a version without a build is compared with
  others by its parts only.

They are built up the way the comparison is: an order (`IsOrder`: opposite and
transitive) of keys is one of what has the keys (`MapOrder`), of pairs that are
compared by one and then by the other (`LexOrder`), and of sequences (`SeqOrder`).
So runs of digits, tokens, `strverscmp`, parts and whole versions are orders,
the last with the proviso.  That `slapt_vector_t_search` finds all packages of a
name rests on the binary search: a recursive function of its bounds that
exists and has a value for all of them (`FindExists`, `FindIs`) by least
counterexample, as each step leaves a shorter range; in a sorted list what it looks for is
in the range until it is found (`BinarySearchIs`), and its equals are next to it
(`FoundIs`).  The inductive invariant of `Version` is the type and that `avail` is
such a list; `NoWayBack` needs that each version in the history is newer than all
before it (`OnlyForward`), where the transitivity is used.

Proving changed what two properties say, because they did not hold in general:

- `DependenciesFirst` did not except packages that are no later than what is
  installed.  Such a package is never added as a dependency, but with several versions
  or priorities on offer it can come into the queue by another argument, after the package
  whose requirement it meets (`IsLater`).
- `ReplacementPresent` left out that the package that replaces another may have to
  make way for a package in conflict with it.  The instance has such a conflict now.
  `DropReplaced` also takes an entry without `replaces` to replace nothing.

`PackageListProofs` proves all properties of `PackageList`, for any number of
sources, lists of any lines, any checksums and a kill at any place: `TypeOK`,
`RecordsAreFound`, `NothingInvented`, `TornIsPrefix` and `OwnChecksum`.  The
assumptions are those of `PackageList`: a line is one the patterns can make
something of (a name has a name and a version, only a priority or a checksum can
be out of range), and the values of the configuration are values.

- The parser is a recursive function of the line it has come to; that it exists
  and has a value for every line is shown from the last line backwards
  (`ParseExists`, `Backwards`), and `ReadFromIs` is its equation.
- `RecordsAreFound` compares what the parser does, which tries one field after the
  other and goes on where it stopped, with what a list states, which is said
  without a position (`Stated`).  A record that is dropped is left no later than the
  next blank line (`RecordStops`, `NextIs`), so the first name of each block is
  reached whatever came before (`FirstNamesAreRead`).  The fields of a block stand
  in the order of the patterns, each once, exactly when the parser finds each where it
  looks (`NamesAreSound`, `SoundIsName`), and then both have the same
  values (`StatedIsFound`).  This needs no invariant: it holds of every file.
- The inductive invariant is `IsWriting`: from the sorting on, what there is of
  `package_data` is the first lines of what is written for the packages, the last of
  them maybe cut, and `todo` is the rest.  A layout says which of those lines are
  whose.  A blank line is only where a package ends (`BlanksEnd`), so reading a
  package from its first line gives that package, with the description that is
  there (`PackageIsRead`), and goes on where a later package begins, or at the end:
  that is `NothingInvented`.  If every description ends in a newline, it is the next one:
  `TornIsPrefix`, by induction from the last package backwards (`TailsAreRead`).
  Where one does not, packages are swallowed, but none is made up.
- `OwnChecksum`: each entry changes one package, the first that it matches
  (`EnterSums`), so what a package has in the end is its own sum or that of an
  entry that looks like it (`SumsAre`).

Only model-checked: `DependenciesFirst` (the position of a package relative to
all others after the removal and re-adding in a recursion over cycles) and
liveness (`RunEnds`), which the prover cannot do.

## 5. Not modelled

- The configuration (`configuration.c`) and the package log
  (`slapt_get_installed_pkgs`): line by line parsers whose lines do not depend on
  each other, read once and never written.  Options and installed packages are
  constants of the models.
- The query actions (`--list`, `--search`, `--show`, `--filelist`, `--changelog`) and
  the command line: they print and keep no state that a later step depends on.
- `--add-keys`, gpgme, and the verdicts expired and revoked: gpgme is external.
- What a package tool that fails leaves behind: the tools are other programs.
- Two processes that append to the same cached file, or run `--update` at once:
  what their bytes add up to is any file, and only the checksum tells.
- Strings, regular expressions, md5 and directories of `common.c`; translations.

## 6. Where code and documentation disagree

- `slapt_transaction_t_remove` loses the packages to reinstall
  (`RebuildKeepsReinstalls`).
- FAQ #30 says an argument to `--install` overrides EXCLUDE; it is "No such
  package" (`NotExcluded` filters the list that `Pick` looks into; no run).
- FAQ #26 says new installs precede upgrades; the queue mixes them, and has to,
  since an upgrade may be a dependency (no run).
- Two conflicting arguments of one `--install` are both installed
  (`NotSideBySide`).
- The README promises that `package_data` changes only when all sources were
  downloaded.  If HEAD fails once and the process is killed in the download that
  follows, the file is cut short and its head cache still vouches for it: the
  next update reads it as "Cached" (`OnlyWholeLists`).
- `--no-md5` skips the download, not only the checksum (`DownloadedFirst`).
- The README has a version comparison "to prevent downgrades".  Parts of versions
  are compared as integers, and further only if both versions have the same
  number of parts: `2a.5 < 2b.3 < 2.4.0 < 2a.5` (`NoDowngrade`).

Three more things the models show, without a document that speaks of them.  A list
whose last line lacks its newline makes the next package of `package_data` part
of a description (the proviso of `TornIsPrefix`).  Of two packages in one
location whose versions compare equal one gets the checksum of the other (the
proviso of `OwnChecksum`).  And an update that the loop over the base set of
`--dist-upgrade` holds back for a missing dependency is tried again by the loop over
installed packages; then `slapt_transaction_t_add_dependencies` finds it among the
excluded packages, does not fail, and plans the dependencies it collected up to the
failure, while the update stays excluded (the proviso of `DependenciesPresent`).

## 7. Plan

1. (done) `TrxnLists`, `Transaction` and its proofs; `Resolver`, `Planner`;
   `TransactionPromise`, `TransactionRun` with cleaning; `PackageDataPromise`,
   `PackageData`; `Vectors`, `Version`; `PackageList`.
2. (done) Proofs about `TransactionRun`, with the refinement.
3. (done) Proofs about `PackageData`, with the refinement, for any number of
   sources and versions.
4. (done) `Resolver` and `Planner` without recursive operators, and the proofs about them.
5. (done) Proofs about `Version`, with the binary search, and `UndisturbedIsFresh`
   and `ReplacementPresent` as theorems.
6. (done) Proofs about `PackageList`.
7. `DependenciesFirst` as a theorem.
