---------------------------- MODULE PackageData -----------------------------
(***************************************************************************)
(* slapt-get --update: slapt_update_pkg_cache with the functions that      *)
(* fetch one document of a source (src/src/package.c,                      *)
(* src/src/slaptgpgme.c) and the head caches that let them skip a download *)
(* (src/src/slaptcurl.c).  Files, head caches and package_data outlive the *)
(* process, which may be killed at any point; mirrors change and fail      *)
(* while it runs.  A content or a Last-Modified line is the version of the *)
(* mirror it comes from; the parse of a list is the list.  libcurl, gpgme  *)
(* and the mirrors are external.                                           *)
(***************************************************************************)
EXTENDS Integers, FiniteSets

CONSTANTS
  N,          \* the number of sources that are not disabled
  Offers,     \* the files each source has
  Keyed,      \* the sources whose signing key is in the key ring
  FaultSets,  \* what may go wrong, one set for each history
  MaxVersion, \* bound: how often a mirror changes
  MaxUpdates, \* bound: how often --update is run
  MaxFaults   \* bound: how often something goes wrong

Source == 1..N

Doc == {"packages", "patches", "checksums", "signature", "changelog"}
Plain(d) == <<d, "plain">>
Gz(d) == <<d, "gz">>
File == Doc \X {"plain", "gz"}

ASSUME SourceAssumption ==
  /\ N \in Nat \ {0}
  /\ Offers \in [Source -> SUBSET File]
  /\ Keyed \subseteq Source
ASSUME FaultAssumption ==
  \A f \in FaultSets : f \subseteq {"head", "get", "kill"}
ASSUME BoundAssumption ==
  MaxVersion \in Nat \ {0} /\ MaxUpdates \in Nat /\ MaxFaults \in Nat

Version == 1..MaxVersion
None == 0       \* an empty head cache, a NULL head
Cut == 0        \* a file that is not there or that was cut short
Missing == -1   \* a NULL list or a NULL FILE
NoLists == <<>>

VARIABLES
  offered,  \* the version each mirror offers
  file,     \* the downloaded files of each source
  head,     \* their head caches
  data,     \* package_data
  torn,     \* package_data is cut short
  pc,       \* where the update is
  src,      \* the source it is at
  name,     \* the file it is at
  seen,     \* the head it got for that file
  got,      \* what it has of each document of the source
  gz,       \* compressed, after the checksums
  failed,   \* source_dl_failed
  new,      \* new_pkgs: the lists of the sources so far
  runs,     \* counts the updates
  faults,   \* counts what went wrong
  may,      \* what may go wrong
  since,    \* history: what was offered when the update began
  calm      \* history: nothing went wrong or changed since then

disk == <<file, head, data, torn>>
local == <<src, name, seen, got, gz, failed, new>>
rest == <<offered, runs, may, since>>
vars == <<offered, disk, pc, local, runs, faults, may, since, calm>>

-----------------------------------------------------------------------------
(* The world around. *)

Nothing == [d \in Doc |-> Missing]

Init ==
  /\ offered = [s \in Source |-> 1]
  /\ file = [s \in Source |-> [f \in File |-> Cut]]
  /\ head = [s \in Source |-> [f \in File |-> None]]
  /\ data = NoLists /\ torn = FALSE
  /\ pc = "idle" /\ src = 1 /\ name = Gz("packages") /\ seen = None
  /\ got = Nothing /\ gz = FALSE /\ failed = FALSE /\ new = NoLists
  /\ runs = 0 /\ faults = 0 /\ may \in FaultSets
  /\ since = offered /\ calm = TRUE

MirrorChanges ==
  /\ \E s \in Source :
       /\ offered[s] < MaxVersion
       /\ offered' = [offered EXCEPT ![s] = @ + 1]
  /\ calm' = FALSE
  /\ UNCHANGED <<disk, pc, local, runs, faults, may, since>>

Fault(f) ==
  /\ f \in may /\ faults < MaxFaults
  /\ faults' = faults + 1
  /\ calm' = FALSE

NoFault == UNCHANGED <<faults, calm>>

Begin ==
  /\ pc = "idle" /\ runs < MaxUpdates
  /\ pc' = "ask" /\ runs' = runs + 1
  /\ since' = offered /\ calm' = TRUE
  /\ UNCHANGED <<offered, disk, local, faults, may>>

-----------------------------------------------------------------------------
(* One document: HEAD, then the file that is there or GET. *)

doc == name[1]

\* The fetch returns v: to the next document, or on with what follows the
\* signature and the change log.  A source without packages is given up.
After ==
  [packages |-> "patches", patches |-> "checksums", checksums |-> "signature"]

Deliver(v) ==
  /\ got' = [got EXCEPT ![doc] = v]
  /\ gz' = IF doc = "checksums" THEN name = Gz(doc) /\ v # Missing ELSE gz
  /\ seen' = None
  /\ IF doc = "packages" /\ v = Missing
       THEN pc' = "next" /\ failed' = TRUE /\ name' = name
       ELSE /\ failed' = failed
            /\ CASE doc = "signature" -> pc' = "verify" /\ name' = name
                 [] doc = "changelog" -> pc' = "collect" /\ name' = name
                 [] OTHER ->
                      /\ pc' = "ask"
                      /\ name' = IF doc = "checksums" /\ ~gz'
                                   THEN Plain("signature")
                                   ELSE Gz(After[doc])
  /\ UNCHANGED <<src, new>>

\* slapt_head_mirror_data: NULL when the file is not there or HEAD fails.
Answer(answered) ==
  IF answered /\ name \in Offers[src] THEN offered[src] ELSE None

\* The head is the one of the file that is there: "Cached".  A compressed list
\* in which no package is found is given up, and its head forgotten.
Cached(h) ==
  /\ h # None /\ h = head[src][name]
  /\ \E v \in {file[src][name]}
               \cup IF name = Gz("packages") /\ file[src][name] = Cut
                     THEN {Missing} ELSE {} :
       /\ head' = IF v = Missing THEN [head EXCEPT ![src][name] = None] ELSE head
       /\ Deliver(v)
  /\ UNCHANGED <<file, data, torn>>

\* Without a head of its own a plain change log is not downloaded.
NoChangelog(h) ==
  /\ h = None /\ name = Plain("changelog")
  /\ Deliver(Missing)
  /\ UNCHANGED disk

\* Mutant of Open: the head is stored before the download.
Open_commits(h) ==
  /\ h = None => name # Plain("changelog")
  /\ h = None \/ h # head[src][name]
  /\ file' = [file EXCEPT ![src][name] = Cut]
  /\ head' = [head EXCEPT ![src][name] = IF h = None THEN @ ELSE h]
  /\ seen' = h /\ pc' = "get"
  /\ UNCHANGED <<data, torn, src, name, got, gz, failed, new>>

\* slapt_open_file(..., "w+b") empties the file before the download.
Open(h) ==
  /\ h = None => name # Plain("changelog")
  /\ h = None \/ h # head[src][name]
  /\ file' = [file EXCEPT ![src][name] = Cut]
  /\ seen' = h /\ pc' = "get"
  /\ UNCHANGED <<head, data, torn, src, name, got, gz, failed, new>>

\* Without a head, the plain file is tried; not so for the signature, whose
\* name follows that of the checksums.
FallBack(h) ==
  /\ h = None
  /\ name' = Plain(doc)
  /\ UNCHANGED <<disk, pc, src, seen, got, gz, failed, new>>

Ask ==
  /\ pc = "ask"
  /\ \E answered \in BOOLEAN :
       /\ IF answered THEN NoFault ELSE name \in Offers[src] /\ Fault("head")
       /\ LET h == Answer(answered) IN
          IF h = None /\ name = Gz(doc) /\ doc # "signature"
            THEN FallBack(h)
            ELSE Cached(h) \/ NoChangelog(h) \/ Open(h)
  /\ UNCHANGED rest

\* Without a head, the head cache stays as it was.
GetOk ==
  /\ pc = "get" /\ name \in Offers[src]
  /\ file' = [file EXCEPT ![src][name] = offered[src]]
  /\ IF seen = None
       THEN Deliver(offered[src])
       ELSE pc' = "commit" /\ UNCHANGED local
  /\ NoFault
  /\ UNCHANGED <<head, data, torn, rest>>

\* Mutant of GetFails: a failed download leaves the head cache alone.
GetFails_keeps_head ==
  /\ pc = "get"
  /\ IF name \in Offers[src] THEN Fault("get") ELSE NoFault
  /\ Deliver(Missing)
  /\ UNCHANGED <<disk, rest>>

\* slapt_clear_head_cache, whatever the head was.
GetFails ==
  /\ pc = "get"
  /\ IF name \in Offers[src] THEN Fault("get") ELSE NoFault
  /\ head' = [head EXCEPT ![src][name] = None]
  /\ Deliver(Missing)
  /\ UNCHANGED <<file, data, torn, rest>>

\* slapt_write_head_cache.  The file is on disk by then (rewind or fclose),
\* except for the change log, which is closed afterwards.
Commit ==
  /\ pc = "commit"
  /\ head' = [head EXCEPT ![src][name] = seen]
  /\ IF doc = "changelog"
       THEN pc' = "close" /\ UNCHANGED local
       ELSE Deliver(file[src][name])
  /\ NoFault
  /\ UNCHANGED <<file, data, torn, rest>>

\* A compressed change log is unpacked into the plain file, the one that
\* --changelog reads.
Close ==
  /\ pc = "close"
  /\ file' = [file EXCEPT ![src][Plain("changelog")] = file[src][name]]
  /\ Deliver(file[src][name])
  /\ NoFault
  /\ UNCHANGED <<head, data, torn, rest>>

\* slapt_get_pkg_source_packages, _patches, _checksums, _checksums_signature
\* and _changelog all go this way.
Fetch == Ask \/ GetOk \/ GetFails \/ Commit \/ Close

-----------------------------------------------------------------------------
(* One source, once its documents are there. *)

\* Without the key a signature is accepted unchecked, but not one cut short.
Rejected ==
  /\ got["signature"] # Missing /\ got["checksums"] # Missing
  /\ \/ got["signature"] = Cut
     \/ src \in Keyed /\ got["signature"] # got["checksums"]

Verify ==
  /\ pc = "verify"
  /\ failed' = (failed \/ Rejected)
  /\ got' = IF Rejected THEN [got EXCEPT !["checksums"] = Missing] ELSE got
  /\ IF failed'
       THEN pc' = "collect" /\ name' = name
       ELSE pc' = "ask" /\ name' = Gz("changelog")
  /\ NoFault
  /\ UNCHANGED <<disk, src, seen, gz, new, rest>>

Lists == [packages |-> got["packages"], patches |-> got["patches"],
          checksums |-> got["checksums"]]

Collect ==
  /\ pc = "collect"
  /\ IF got["checksums"] = Missing
       THEN failed' = TRUE /\ new' = new
       ELSE /\ failed' = failed
            /\ new' = [s \in DOMAIN new \cup {src} |-> IF s = src THEN Lists ELSE new[s]]
  /\ pc' = "next"
  /\ NoFault
  /\ UNCHANGED <<disk, src, name, seen, got, gz, rest>>

\* Mutant of NextSource: the loop runs one source too far.
NextSource_past_end ==
  /\ pc = "next" /\ src <= N
  /\ src' = src + 1 /\ name' = Gz("packages") /\ pc' = "ask"
  /\ got' = Nothing /\ gz' = FALSE
  /\ NoFault
  /\ UNCHANGED <<disk, seen, failed, new, rest>>

NextSource ==
  /\ pc = "next" /\ src < N
  /\ src' = src + 1 /\ name' = Gz("packages") /\ pc' = "ask"
  /\ got' = Nothing /\ gz' = FALSE
  /\ NoFault
  /\ UNCHANGED <<disk, seen, failed, new, rest>>

-----------------------------------------------------------------------------
(* After the last source. *)

Return ==
  /\ pc' = "idle" /\ src' = 1 /\ name' = Gz("packages") /\ seen' = None
  /\ got' = Nothing /\ gz' = FALSE /\ failed' = FALSE /\ new' = NoLists

GivenUp ==
  /\ pc = "next" /\ src = N /\ failed
  /\ Return
  /\ NoFault
  /\ UNCHANGED <<disk, rest>>

\* Mutant of AllThere: what there is is written though a source failed.
AllThere_or_some ==
  /\ pc = "next" /\ src = N
  /\ pc' = "open"
  /\ NoFault
  /\ UNCHANGED <<disk, local, rest>>

AllThere ==
  /\ pc = "next" /\ src = N /\ ~failed
  /\ pc' = "open"
  /\ NoFault
  /\ UNCHANGED <<disk, local, rest>>

\* slapt_open_file(..., "w+") empties package_data.
OpenData ==
  /\ pc = "open"
  /\ data' = NoLists /\ torn' = TRUE
  /\ pc' = "write"
  /\ NoFault
  /\ UNCHANGED <<file, head, local, rest>>

WriteData ==
  /\ pc = "write"
  /\ data' = new /\ torn' = FALSE
  /\ Return
  /\ NoFault
  /\ UNCHANGED <<file, head, rest>>

\* A kill amid the write of a head cache may leave it empty; one before the
\* change log is closed may cut it short, one amid the unpacking the plain one.
Kill ==
  /\ pc # "idle" /\ Fault("kill")
  /\ \/ UNCHANGED <<file, head>>
     \/ /\ pc = "commit"
        /\ head' = [head EXCEPT ![src][name] = None]
        /\ UNCHANGED file
     \/ /\ pc \in {"commit", "close"} /\ doc = "changelog"
        /\ file' = [file EXCEPT ![src][name] = Cut]
        /\ UNCHANGED head
     \/ /\ pc = "close"
        /\ file' = [file EXCEPT ![src][Plain("changelog")] = Cut]
        /\ UNCHANGED head
  /\ Return
  /\ UNCHANGED <<data, torn, rest>>

Update ==
  \/ Begin \/ Fetch \/ Verify \/ Collect \/ NextSource
  \/ GivenUp \/ AllThere \/ OpenData \/ WriteData

Next == Update \/ MirrorChanges \/ Kill

Spec == Init /\ [][Next]_vars

-----------------------------------------------------------------------------
(* Properties. *)

ListType == {Missing, Cut} \cup Version

TypeOK ==
  /\ offered \in [Source -> Version] /\ since \in [Source -> Version]
  /\ file \in [Source -> [File -> {Cut} \cup Version]]
  /\ head \in [Source -> [File -> {None} \cup Version]]
  /\ torn \in BOOLEAN /\ gz \in BOOLEAN /\ failed \in BOOLEAN /\ calm \in BOOLEAN
  /\ pc \in {"idle", "ask", "get", "commit", "close", "verify", "collect",
             "next", "open", "write"}
  /\ src \in Source /\ name \in File /\ seen \in {None} \cup Version
  /\ got \in [Doc -> ListType]
  /\ DOMAIN new \subseteq Source /\ DOMAIN data \in {{}, Source}

\* A head cache that equals the mirror's head makes slapt-get take the file
\* that is there: that file is then whole and of the version the mirror
\* offers, except while it is being downloaded.  Not so the change log, whose
\* head is stored too early.
CachedIsCurrent ==
  \A s \in Source, f \in File :
    f[1] # "changelog" /\ head[s][f] = offered[s] =>
      file[s][f] = offered[s] \/ (pc = "get" /\ s = src /\ f = name)

\* An update that nothing disturbs leaves in package_data exactly what the
\* mirrors offer, whatever earlier ones, killed or failing, left behind.
CanServe(s) ==
  \A d \in {"packages", "checksums"} : {Gz(d), Plain(d)} \cap Offers[s] # {}

Offered(s) ==
  [packages |-> offered[s], checksums |-> offered[s],
   patches |-> IF {Gz("patches"), Plain("patches")} \cap Offers[s] # {}
                 THEN offered[s] ELSE Missing]

UndisturbedIsFresh ==
  pc = "idle" /\ runs > 0 /\ calm /\ (\A s \in Source : CanServe(s)) =>
    ~torn /\ data = [s \in Source |-> Offered(s)]

\* package_data is replaced as a whole, from what the sources offered during
\* the update, and only when each of them gave its lists.
Promise ==
  INSTANCE PackageDataPromise
    WITH staged <- IF pc \in {"open", "write"} THEN new ELSE NoLists

KeepsPackageData == Promise!PromiseSpec

\* README: "only writing changes if all sources download successfully".  No
\* list in package_data comes from a download that was cut short.
OnlyWholeLists ==
  \A s \in DOMAIN data : Cut \notin {data[s].packages, data[s].checksums}
=============================================================================
