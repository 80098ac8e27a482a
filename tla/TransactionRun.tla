--------------------------- MODULE TransactionRun ---------------------------
(***************************************************************************)
(* slapt_transaction_t_run (src/src/transaction.c) with slapt_download_pkg *)
(* (src/src/slaptcurl.c) and slapt_verify_downloaded_pkg                   *)
(* (src/src/package.c): from the report over the prompt and the downloads  *)
(* to the package tools.  The package cache outlives the process: an       *)
(* invocation may be killed at any point and another one, with another     *)
(* plan, finds what the first left there.  Nothing locks it either: while  *)
(* the transaction runs, another process may clean it (slapt_clean_pkg_dir *)
(* in src/src/common.c, slapt_purge_old_cached_pkgs in src/src/package.c). *)
(* libcurl, the mirror, the user and the package tools are external: they  *)
(* answer as they like.                                                    *)
(***************************************************************************)
EXTENDS TrxnLists

CONSTANTS Pkg,   \* packages; p.md5 says whether CHECKSUMS.md5 has an entry
          Plans, \* the transactions an invocation may have planned
          Confs, \* the options it may have been given
          Listings, \* what --autoclean may find available: sets of packages
          MaxCleanings \* bound on the cleanings of one history

\* The transactions the planning ends with: of packages, none of them in it
\* twice, with a queue that is the plan.
IsPlan(t) ==
  /\ t = [f \in DOMAIN EmptyTrxn |-> t[f]]
  /\ \A l \in PkgLists : t[l] \in Seq(Pkg)
  /\ \A l \in UpgradeLists : t[l] \in Seq([installed : Pkg, upgrade : Pkg])
  /\ t.queue \in Seq([list : QueuedLists, index : Nat \ {0}])
  /\ Once(t) /\ Planned(t)

ASSUME PlanAssumption == \A t \in Plans : IsPlan(t)
ASSUME ConfAssumption == \A c \in Confs : c.retry \in Nat \ {0}
ASSUME CleaningAssumption == MaxCleanings \in Nat

\* A cached file holds a beginning of the package, all of it, something else
\* or more bytes than PACKAGES.TXT says.
FileStates == {"none", "part", "good", "bad", "big"}

VARIABLES trxn,  \* the transaction
          conf,  \* the options
          file,  \* the package cache: the file of each package
          pc,    \* where slapt_transaction_t_run is
          at,    \* the position in the list that is looped over
          tries, \* retry_count
          done,  \* what the package tools have done for this invocation
          cleaner,  \* the files a cleaning that runs may remove
          cleanings \* how many there have been

cleaning == <<cleaner, cleanings>>
vars == <<trxn, conf, file, pc, at, tries, done, cleaner, cleanings>>

-----------------------------------------------------------------------------
(* The lists that are looped over. *)

Targets(t, l) == [i \in DOMAIN t[l] |-> Member(t, l, i)]

\* The three download loops.
Fetches(t) == Targets(t, "install") \o Targets(t, "upgrade") \o Targets(t, "reinstall")

ToFetch(t) == {Fetches(t)[i] : i \in DOMAIN Fetches(t)}

\* A reinstall is queued as an upgrade.
QueueOp(t, q) ==
  [op |-> IF q.list = "install" THEN "install" ELSE "upgrade",
   pkg |-> Member(t, q.list, q.index)]

RemoveOps(t) == [i \in DOMAIN t.remove |-> [op |-> "remove", pkg |-> t.remove[i]]]
QueueOps(t) == [k \in DOMAIN t.queue |-> QueueOp(t, t.queue[k])]
Ops(t) == RemoveOps(t) \o QueueOps(t)

\* slapt_verify_downloaded_pkg returns SLAPT_OK
Verified(p) == conf.no_md5 \/ (p.md5 /\ file[p] = "good")

-----------------------------------------------------------------------------
(* The report and the prompt. *)

Stopped == {"idle", "returned", "aborted", "exit", "killed"}

Init ==
  /\ trxn = EmptyTrxn
  /\ conf \in Confs
  /\ file = [p \in Pkg |-> "none"]
  /\ pc = "idle"
  /\ at = 1 /\ tries = 0
  /\ done = <<>>
  /\ cleaner = {} /\ cleanings = 0

Begin ==
  /\ pc \in Stopped
  /\ trxn' \in Plans
  /\ conf' \in Confs
  /\ pc' = "report"
  /\ at' = 1 /\ tries' = 0
  /\ done' = <<>>
  /\ UNCHANGED file

Goto(l) == pc' = l /\ at' = 1 /\ tries' = 0

\* The suggestions; then, if something is to be downloaded, the free space of
\* the working directory and, unless only downloading, of the file system.
Report ==
  /\ pc = "report"
  /\ trxn' = Suggest(trxn)
  /\ \/ Goto("prompt")
     \/ Fetches(trxn) # <<>> /\ Goto("exit")
  /\ UNCHANGED <<conf, file, done>>

Asks ==
  \/ conf.prompt
  \/ /\ \/ trxn.upgrade # <<>> \/ trxn.remove # <<>> \/ trxn.reinstall # <<>>
        \/ trxn.install # <<>> /\ conf.dist_upgrade
     /\ ~conf.no_prompt /\ ~conf.download_only
     /\ ~conf.simulate /\ ~conf.print_uris

Prompt ==
  /\ pc = "prompt"
  /\ \/ Goto(IF conf.print_uris \/ conf.simulate THEN "returned" ELSE "fetch")
     \/ Asks /\ Goto("aborted")
  /\ UNCHANGED <<trxn, conf, file, done>>

-----------------------------------------------------------------------------
(* The downloads. *)

Current == Fetches(trxn)[at]

\* Mutant of Attempting: the retry count is not looked at.
Attempting_without_limit ==
  at \in DOMAIN Fetches(trxn) /\ pc \in {"again", "fetch"}

\* The head of the retry loop; "again" is slapt_download_pkg calling itself.
Attempting ==
  /\ at \in DOMAIN Fetches(trxn)
  /\ pc = "again" \/ (pc = "fetch" /\ tries < conf.retry)

Success == pc' = "fetch" /\ at' = at + 1 /\ tries' = 0
Failure == pc' = "fetch" /\ tries' = tries + 1 /\ UNCHANGED at

AlreadyThere ==
  /\ Attempting
  /\ Verified(Current)
  /\ Success
  /\ UNCHANGED <<trxn, conf, file, done>>

\* Mutant of Measure: the file is downloaded again, whatever is there.
Measure_afresh ==
  /\ Attempting
  /\ pc' = "open"
  /\ file' = [file EXCEPT ![Current] = "none"]
  /\ UNCHANGED <<trxn, conf, at, tries, done>>

\* The size of the file is read, as the offset to resume at; one that is too
\* large is unlinked.
Measure ==
  /\ Attempting
  /\ ~Verified(Current)
  /\ pc' = IF file[Current] \in {"none", "big"} THEN "open" ELSE "resume"
  /\ file' = [file EXCEPT ![Current] = IF @ = "big" THEN "none" ELSE @]
  /\ UNCHANGED <<trxn, conf, at, tries, done>>

\* It is opened to append.  If it was cleaned away in the meantime, the answer
\* begins where it ended, in a new file, unless it was empty.
Open ==
  /\ pc \in {"open", "resume"}
  /\ \/ pc' = "transfer"
     \/ pc = "resume" /\ file[Current] = "none" /\ pc' = "gap"
  /\ file' = [file EXCEPT ![Current] = IF @ = "none" THEN "part" ELSE @]
  /\ UNCHANGED <<trxn, conf, at, tries, done>>

\* No mirror is known, the directory or file cannot be written, or the file
\* that is too large cannot be unlinked: slapt-get exits.
CannotWrite ==
  /\ pc \in {"open", "resume"} \/ (Attempting /\ ~Verified(Current))
  /\ Goto("exit")
  /\ UNCHANGED <<trxn, conf, file, done>>

Receiving == pc \in {"transfer", "gap"}

\* What appending may make of a file, all of the answer arrived or not.  What
\* has been unlinked is written, but not found again.
Appended(f) ==
  CASE f = "none" -> {"none"}
    [] f = "part" /\ pc = "transfer" -> {"part", "good", "bad", "big"}
    [] f = "part" /\ pc = "gap" -> {"part", "bad", "big"}
    [] f = "good" -> {"good", "big"}
    [] f \in {"bad", "big"} -> {"bad", "big"}

Receive(f) ==
  file' = [file EXCEPT ![Current] = f] /\ UNCHANGED <<trxn, conf, done>>

\* curl_easy_perform succeeds; the file is verified next.
Arrived ==
  /\ Receiving
  /\ \E f \in Appended(file[Current]) : Receive(f)
  /\ pc' = "check"
  /\ UNCHANGED <<at, tries>>

\* Mutant of CannotResume: it never counts as a retry.
CannotResume_uncounted ==
  /\ Receiving
  /\ Receive("none")
  /\ pc' = "again" /\ UNCHANGED <<at, tries>>

\* A range, resume or partial file error: the file is unlinked; with --retry
\* it counts as one, without it is tried again at once.  A file that cannot
\* be unlinked ends it all.
CannotResume ==
  /\ Receiving
  /\ \/ /\ file[Current] # "none" /\ Receive("none")
        /\ \/ conf.retry > 1 /\ Failure
           \/ conf.retry = 1 /\ pc' = "again" /\ UNCHANGED <<at, tries>>
     \/ \E f \in Appended(file[Current]) : Receive(f) /\ Goto("exit")

\* Any other error: the file is kept (SLAPT_DO_NOT_UNLINK_BAD_FILES).
TransferFails ==
  /\ Receiving
  /\ \E f \in Appended(file[Current]) : Receive(f)
  /\ Failure

\* Mutant of Check: an incomplete or corrupt file is good enough.
Check_lenient ==
  /\ pc = "check"
  /\ Success
  /\ UNCHANGED <<trxn, conf, file, done>>

\* A file that does not verify is kept as well.
Check ==
  /\ pc = "check"
  /\ IF Verified(Current) THEN Success ELSE Failure
  /\ UNCHANGED <<trxn, conf, file, done>>

GiveUp ==
  /\ pc = "fetch"
  /\ at \in DOMAIN Fetches(trxn) /\ tries = conf.retry
  /\ Goto("exit")
  /\ UNCHANGED <<trxn, conf, file, done>>

\* Mutant of AllFetched: the packages to remove are left for later.
AllFetched_installs_first ==
  /\ pc = "fetch"
  /\ at > Len(Fetches(trxn))
  /\ Goto(IF conf.download_only THEN "returned" ELSE "queue")
  /\ UNCHANGED <<trxn, conf, file, done>>

AllFetched ==
  /\ pc = "fetch"
  /\ at > Len(Fetches(trxn))
  /\ Goto(IF conf.download_only THEN "returned" ELSE "remove")
  /\ UNCHANGED <<trxn, conf, file, done>>

-----------------------------------------------------------------------------
(* The package tools. *)

\* A tool is run for the next operation of the loop over list.
Tool(list) ==
  /\ at \in DOMAIN list
  /\ done' = Append(done, list[at])
  /\ at' = at + 1
  /\ UNCHANGED <<trxn, conf, file, pc, tries>>

RemovePkg == pc = "remove" /\ Tool(RemoveOps(trxn))

\* installpkg and upgradepkg need a file.
InstallPkg ==
  /\ pc = "queue"
  /\ at \in DOMAIN trxn.queue
  /\ file[QueueOps(trxn)[at].pkg] # "none"
  /\ Tool(QueueOps(trxn))

\* A tool returns an error: nothing is undone and nothing more is done.
ToolFails ==
  /\ pc \in {"remove", "queue"}
  /\ at \in DOMAIN (IF pc = "remove" THEN RemoveOps(trxn) ELSE QueueOps(trxn))
  /\ Goto("exit")
  /\ UNCHANGED <<trxn, conf, file, done>>

RemovesDone ==
  /\ pc = "remove"
  /\ at > Len(trxn.remove)
  /\ Goto("queue")
  /\ UNCHANGED <<trxn, conf, file, done>>

QueueDone ==
  /\ pc = "queue"
  /\ at > Len(trxn.queue)
  /\ Goto("returned")
  /\ UNCHANGED <<trxn, conf, file, done>>

-----------------------------------------------------------------------------
(* --clean and --autoclean, by another process. *)

CleaningBegins(removable) ==
  /\ cleaner = {} /\ cleanings < MaxCleanings
  /\ cleaner' = removable
  /\ cleanings' = cleanings + 1
  /\ UNCHANGED file

Clean == CleaningBegins(Pkg)

\* What is not available with that name and version (slapt_get_exact_pkg), and
\* unless --no-prompt is set what the user agrees to.
Autoclean ==
  \E list \in Listings :
    CleaningBegins({p \in Pkg : \A q \in list : ~(q.name = p.name /\ q.version = p.version)})

\* The next file readdir returns; it returns them in any order.
Unlink ==
  /\ \E p \in cleaner : file[p] # "none" /\ file' = [file EXCEPT ![p] = "none"]
  /\ UNCHANGED cleaning

\* The directory is read to its end, cannot be opened, or the process is killed.
CleaningEnds ==
  /\ cleaner # {}
  /\ cleaner' = {}
  /\ UNCHANGED <<file, cleanings>>

Cleaning ==
  /\ Clean \/ Autoclean \/ Unlink \/ CleaningEnds
  /\ UNCHANGED <<trxn, conf, pc, at, tries, done>>

-----------------------------------------------------------------------------
(* The system. *)

\* The process is killed; of an answer under way any part is in the file.
Kill ==
  /\ pc \notin Stopped
  /\ Goto("killed")
  /\ IF Receiving
     THEN \E f \in Appended(file[Current]) : file' = [file EXCEPT ![Current] = f]
     ELSE UNCHANGED file
  /\ UNCHANGED <<trxn, conf, done>>

Step ==
  \/ Report \/ Prompt
  \/ AlreadyThere \/ CannotWrite \/ Measure \/ Open
  \/ Arrived \/ CannotResume \/ TransferFails
  \/ Check \/ GiveUp \/ AllFetched
  \/ RemovePkg \/ RemovesDone \/ InstallPkg \/ ToolFails \/ QueueDone

RunStep == Step /\ UNCHANGED cleaning

Next ==
  \/ (Begin \/ Kill) /\ UNCHANGED cleaning
  \/ RunStep
  \/ Cleaning

\* The program runs on, the user answers, a transfer ends (libcurl is given
\* connection and low speed timeouts) and a package tool returns.
Spec == Init /\ [][Next]_vars /\ WF_vars(RunStep)

-----------------------------------------------------------------------------
(* Properties. *)

Locations == {"report", "prompt", "fetch", "again", "open", "resume", "transfer",
              "gap", "check", "remove", "queue"}

OpType == [op : {"remove", "install", "upgrade"}, pkg : Pkg]

\* The loops stay within their lists and the retry count within its limit.
TypeOK ==
  /\ conf \in Confs
  /\ file \in [Pkg -> FileStates]
  /\ pc \in Locations \cup Stopped
  /\ at \in Nat \ {0} /\ tries \in 0..conf.retry
  /\ pc \in {"again", "open", "resume", "transfer", "gap", "check"} => at \in DOMAIN Fetches(trxn)
  /\ done \in Seq(OpType)
  /\ cleaner \subseteq Pkg /\ cleanings \in 0..MaxCleanings

\* FAQ #26: "all packages will be downloaded before anything else happens.  If
\* anything fails to download, the transaction is immediately aborted."  Once a
\* tool has been run, and up to the last one, the file of every package to be
\* installed is the very package: however often it was tried, whatever an
\* earlier invocation left in the cache.  Nothing but a cleaning takes it away.
FetchedFirst ==
  done # <<>> /\ ~conf.no_md5 =>
    \A p \in ToFetch(trxn) :
      p.md5 /\ (file[p] = "good" \/ (cleanings > 0 /\ file[p] = "none"))

\* No invocation, retry or crash spoils a file that verifies, and a cleaning
\* removes it as a whole, or not at all if its package is listed.
VerifiedStays ==
  [][\A p \in Pkg : p.md5 /\ file[p] = "good" =>
       file'[p] = "good" \/ (p \in cleaner /\ file'[p] = "none")]_vars

\* The transaction keeps the promise of TransactionPromise: the packages before
\* the one that is fetched have been verified, in the end all of them.
Seen ==
  CASE pc \in {"remove", "queue"} -> ToFetch(trxn)
    [] pc \in {"fetch", "again", "open", "resume", "transfer", "gap", "check"} ->
         {Fetches(trxn)[i] : i \in 1..(at - 1)}
    [] OTHER -> {}

Promise ==
  INSTANCE TransactionPromise
    WITH Package <- Pkg, ops <- Ops(trxn), seen <- Seen,
         good <- {p \in Pkg : Verified(p)}

KeepsPromise == Promise!Spec

\* With --retry every invocation ends: also when no transfer ever succeeds.
\* (Without, a mirror that cuts every answer short keeps slapt-get at it.)
RunEnds == (pc \notin Stopped /\ conf.retry > 1) ~> pc \in Stopped

\* slapt-get.8: "--no-md5: Do not perform MD5 check sum on package", and FAQ
\* #26: "all packages will be downloaded before anything else happens".  They
\* are downloaded with --no-md5, too: nothing is done while a file is missing.
DownloadedFirst ==
  done # <<>> =>
    \A i \in DOMAIN Fetches(trxn) : file[Fetches(trxn)[i]] # "none"
=============================================================================
