-------------------------- MODULE PackageDataProofs --------------------------
(***************************************************************************)
(* Proofs about --update for any number of sources, whatever they offer,   *)
(* and any number of updates, changes and faults, under one condition: in  *)
(* no history does HEAD fail and the process get killed, too.              *)
(***************************************************************************)
EXTENDS PackageData, TLAPS

-----------------------------------------------------------------------------
(* The inductive invariant. *)

Asking == {"ask", "get", "commit", "close"}
Window(s) == since[s] .. offered[s]

\* A head is one the mirror has given out.
HeadInv ==
  \A s \in Source, f \in File :
    head[s][f] <= offered[s] /\ (f \notin Offers[s] => head[s][f] = None)

\* What is downloaded is at least as new as the head it will be stored under;
\* the head stored so far is not the mirror's, unless HEAD failed.
GetInv ==
  /\ pc = "get" =>
       /\ seen <= offered[src] /\ (seen # None => name \in Offers[src])
       /\ head[src][name] = offered[src] => "head" \in may
  /\ pc = "commit" =>
       /\ name \in Offers[src]
       /\ seen <= file[src][name] /\ file[src][name] \in Window(src)
  /\ pc = "close" => doc = "changelog"

\* What the update has so far was offered while it ran.
CurrentLists(s) ==
  [packages : Window(s), patches : Window(s) \cup {Missing}, checksums : Window(s)]

ListInv ==
  /\ \A s \in Source : since[s] <= offered[s]
  /\ \A d \in {"packages", "patches", "checksums"} :
        got[d] \in Window(src) \cup {Missing}
  /\ \A s \in DOMAIN new : new[s] \in CurrentLists(s)

\* Which sources it has, if none failed.
LoopInv ==
  /\ pc = "idle" => got = Nothing /\ new = NoLists /\ src = 1 /\ doc = "packages"
  /\ pc \in Asking /\ doc # "packages" => got["packages"] # Missing
  /\ pc \in {"verify", "collect"} => got["packages"] # Missing
  /\ pc \in Asking \cup {"verify", "collect", "idle"} /\ ~failed => DOMAIN new = 1..(src - 1)
  /\ pc = "next" /\ ~failed => DOMAIN new = 1..src
  /\ pc \in {"open", "write"} => DOMAIN new = Source
  /\ pc = "write" => torn

IInv ==
  /\ TypeOK
  /\ may \in FaultSets
  /\ HeadInv
  /\ CachedIsCurrent
  /\ GetInv
  /\ ListInv
  /\ LoopInv

NoHeadAndKill == \A f \in FaultSets : ~({"head", "kill"} \subseteq f)

-----------------------------------------------------------------------------
(* Documents. *)

LEMMA Names ==
  /\ \A d \in Doc : /\ Gz(d) \in File /\ Gz(d)[1] = d
                   /\ Plain(d) \in File /\ Plain(d)[1] = d
  /\ \A n \in File : n[1] \in Doc
BY DEF Doc, File, Gz, Plain

LEMMA Numbers ==
  /\ N \in Nat /\ N > 0 /\ Source = 1..N
  /\ \A v \in Version : v \in Nat /\ v > 0
  /\ 1 \in Version /\ None = 0 /\ Cut = 0 /\ Missing = -1
BY SourceAssumption, BoundAssumption DEF Source, Version, None, Cut, Missing

\* The part of the type invariant that is about the update itself.
LocalType ==
  /\ gz \in BOOLEAN /\ failed \in BOOLEAN
  /\ pc \in {"idle", "ask", "get", "commit", "close", "verify", "collect",
             "next", "open", "write"}
  /\ src \in Source /\ name \in File /\ seen \in {None} \cup Version
  /\ got \in [Doc -> ListType]
  /\ DOMAIN new \subseteq Source

\* What a fetch does with the document it got or did not get.
LEMMA DeliverKeeps ==
  ASSUME LocalType, ListInv, LoopInv, pc \in Asking, NEW v \in ListType, Deliver(v),
         doc \in {"packages", "patches", "checksums"} => v \in Window(src) \cup {Missing},
         UNCHANGED <<offered, since, may>>
  PROVE  LocalType' /\ GetInv' /\ ListInv' /\ LoopInv' /\ pc' \notin {"get", "commit"}
<1>1. /\ src' = src /\ new' = new /\ seen' = None /\ got' = [got EXCEPT ![doc] = v]
      /\ gz' \in BOOLEAN /\ failed' \in BOOLEAN /\ pc' \in {"next", "verify", "collect", "ask"}
      /\ doc \in Doc
  <2>1. doc \in Doc
    BY Names DEF LocalType, doc
  <2>2. gz' \in BOOLEAN
    <3>1. CASE doc = "checksums"
      <4>1. gz' = (name = Gz(doc) /\ v # Missing)
        BY <3>1 DEF Deliver
      <4>2. QED BY <4>1
    <3>2. CASE doc # "checksums"
      BY <3>2 DEF Deliver, LocalType
    <3>3. QED BY <3>1, <3>2
  <2>3. pc' \in {"next", "verify", "collect", "ask"} /\ failed' \in BOOLEAN
    BY DEF Deliver, LocalType
  <2>4. QED BY <2>1, <2>2, <2>3 DEF Deliver
<1>2. got' \in [Doc -> ListType] /\ got'[doc] = v /\ \A d \in Doc \ {doc} : got'[d] = got[d]
  BY <1>1 DEF LocalType
<1>3. \/ pc' = "next" /\ failed' = TRUE /\ name' = name
      \/ /\ failed' = failed /\ (doc = "packages" => v # Missing)
         /\ \/ pc' \in {"verify", "collect"} /\ name' = name
               /\ doc \in {"signature", "changelog"}
            \/ /\ pc' = "ask" /\ doc \in {"packages", "patches", "checksums"}
               /\ name' \in {Gz("patches"), Gz("checksums"), Gz("signature"), Plain("signature")}
  BY <1>1 DEF Deliver, After, Doc
<1>4. name' \in File
  BY <1>3, Names DEF LocalType, Doc
<1>5. LocalType'
  BY <1>1, <1>2, <1>4 DEF LocalType
<1>6. GetInv'
  BY <1>1 DEF GetInv
<1>7. ListInv'
  BY <1>1, <1>2 DEF ListInv, Window, CurrentLists, Doc
<1>8. got["packages"] # Missing \/ doc = "packages"
  BY DEF LoopInv
<1>9. pc' # "next" => got'["packages"] # Missing
  <2>1. CASE doc = "packages"
    BY <1>2, <1>3, <2>1
  <2>2. CASE doc # "packages"
    BY <1>2, <1>8, <2>2 DEF Doc
  <2>3. QED BY <2>1, <2>2
<1>10. LoopInv'
  <2>1. ~failed => DOMAIN new = 1..(src - 1)
    BY DEF LoopInv
  <2>2. QED BY <1>1, <1>3, <1>9, <2>1 DEF LoopInv, Asking
<1>11. QED BY <1>1, <1>5, <1>6, <1>7, <1>10

-----------------------------------------------------------------------------
(* Each step keeps the invariant. *)

\* The part that is about the mirrors and the disk.
WorldType ==
  /\ offered \in [Source -> Version] /\ since \in [Source -> Version]
  /\ file \in [Source -> [File -> {Cut} \cup Version]]
  /\ head \in [Source -> [File -> {None} \cup Version]]
  /\ torn \in BOOLEAN /\ calm \in BOOLEAN
  /\ DOMAIN data \in {{}, Source}

LEMMA NextType ==
  ASSUME WorldType', LocalType', may \in FaultSets, may' = may,
         HeadInv', CachedIsCurrent', GetInv', ListInv', LoopInv'
  PROVE  IInv'
BY DEF IInv, TypeOK, WorldType, LocalType

\* A whole record at one place of the files or the head caches.
LEMMA OneFile ==
  ASSUME NEW S, NEW T, NEW V, NEW f \in [S -> [T -> V]], NEW x \in S, NEW y \in T, NEW v \in V
  PROVE  /\ [f EXCEPT ![x][y] = v] \in [S -> [T -> V]]
         /\ \A a \in S, b \in T :
               [f EXCEPT ![x][y] = v][a][b] = IF a = x /\ b = y THEN v ELSE f[a][b]
OBVIOUS

\* The disk and the mirrors stay as they are, and nothing is being downloaded.
LEMMA DiskKept ==
  ASSUME IInv, UNCHANGED <<offered, since, file, head, may>>, pc # "get"
  PROVE  HeadInv' /\ CachedIsCurrent'
BY DEF IInv, HeadInv, CachedIsCurrent

LEMMA AskKeeps == ASSUME IInv, Ask PROVE IInv'
<1>1. PICK answered \in BOOLEAN :
        /\ IF answered THEN NoFault ELSE name \in Offers[src] /\ Fault("head")
        /\ IF Answer(answered) = None /\ name = Gz(doc) /\ doc # "signature"
             THEN FallBack(Answer(answered))
             ELSE \/ Cached(Answer(answered))
                  \/ NoChangelog(Answer(answered))
                  \/ Open(Answer(answered))
  BY DEF Ask
<1> DEFINE h == Answer(answered)
<1>2. /\ WorldType /\ LocalType /\ may \in FaultSets
      /\ HeadInv /\ CachedIsCurrent /\ GetInv /\ ListInv /\ LoopInv
  BY DEF IInv, TypeOK, WorldType, LocalType
<1>3. pc = "ask" /\ UNCHANGED <<offered, since, may>>
  BY DEF Ask, rest
<1>4. calm' \in BOOLEAN
  BY <1>1, <1>2 DEF NoFault, Fault, WorldType
<1>5. /\ h # None => h = offered[src] /\ name \in Offers[src]
      /\ h = None /\ name \in Offers[src] => "head" \in may
  <2>1. CASE answered
    BY <2>1, <1>2, Numbers DEF Answer, WorldType, LocalType
  <2>2. CASE ~answered
    BY <1>1, <2>2 DEF Answer, Fault
  <2>3. QED BY <2>1, <2>2
<1>6. /\ offered[src] \in Version /\ file[src][name] \in {Cut} \cup Version
      /\ src \in Source /\ name \in File
  BY <1>2 DEF WorldType, LocalType
<1>7. CASE FallBack(h)
  <2>1. name' \in File /\ doc' = doc
    BY <1>2, <1>7, Names DEF FallBack, LocalType, doc
  <2>2. /\ LocalType' /\ GetInv' /\ ListInv' /\ LoopInv' /\ WorldType'
    BY <1>2, <1>3, <1>4, <1>7, <2>1
       DEF FallBack, disk, LocalType, WorldType, GetInv, ListInv, LoopInv, Window, CurrentLists
  <2>3. HeadInv' /\ CachedIsCurrent'
    BY <1>3, <1>7, DiskKept DEF FallBack, disk
  <2>4. QED BY <1>2, <1>3, <2>2, <2>3, NextType
<1>8. CASE NoChangelog(h)
  <2>1. doc = "changelog"
    BY <1>8, Names DEF NoChangelog, doc, Doc
  <2>2. LocalType' /\ GetInv' /\ ListInv' /\ LoopInv'
    BY <1>2, <1>3, <1>8, <2>1, DeliverKeeps DEF NoChangelog, ListType, Asking
  <2>3. WorldType'
    BY <1>2, <1>3, <1>4, <1>8 DEF NoChangelog, disk, WorldType
  <2>4. HeadInv' /\ CachedIsCurrent'
    BY <1>3, <1>8, DiskKept DEF NoChangelog, disk
  <2>5. QED BY <1>2, <1>3, <2>2, <2>3, <2>4, NextType
<1>9. CASE Open(h)
  <2>1. file' = [file EXCEPT ![src][name] = Cut] /\ UNCHANGED <<head, data, torn>>
    BY <1>9 DEF Open
  <2>2. /\ file' \in [Source -> [File -> {Cut} \cup Version]]
        /\ \A s \in Source, f \in File :
              file'[s][f] = IF s = src /\ f = name THEN Cut ELSE file[s][f]
    BY <1>2, <1>6, <2>1, OneFile DEF WorldType
  <2>3. WorldType'
    BY <1>2, <1>3, <1>4, <2>1, <2>2 DEF WorldType
  <2>4. /\ UNCHANGED <<src, name, got, gz, failed, new>> /\ pc' = "get" /\ seen' = h
        /\ h = None \/ h # head[src][name]
    BY <1>9 DEF Open
  <2>5. LocalType'
    BY <1>2, <1>5, <1>6, <2>4 DEF LocalType
  <2>6. GetInv'
    <3>1. head[src][name] = offered[src] => h = None /\ name \in Offers[src]
      BY <1>2, <1>5, <1>6, <2>4, Numbers DEF HeadInv
    <3>2. None <= offered[src] /\ offered[src] <= offered[src]
      BY <1>6, Numbers
    <3>3. QED BY <1>3, <1>5, <2>1, <2>4, <3>1, <3>2 DEF GetInv
  <2>7. HeadInv'
    BY <1>2, <1>3, <2>1 DEF HeadInv
  <2>8. CachedIsCurrent'
    BY <1>2, <1>3, <2>1, <2>2, <2>4 DEF CachedIsCurrent
  <2>9. ListInv' /\ LoopInv'
    BY <1>2, <1>3, <2>1, <2>4 DEF ListInv, LoopInv, Window, CurrentLists, Asking, doc
  <2>10. QED BY <1>2, <1>3, <2>3, <2>5, <2>6, <2>7, <2>8, <2>9, NextType
<1>10. CASE Cached(h)
  <2>1. PICK v : /\ v = file[src][name] \/ v = Missing
                 /\ head' = IF v = Missing THEN [head EXCEPT ![src][name] = None] ELSE head
                 /\ Deliver(v)
    BY <1>10 DEF Cached
  <2>2. h # None /\ h = head[src][name] /\ UNCHANGED <<file, data, torn>>
    BY <1>10 DEF Cached
  <2>3. doc # "changelog" => file[src][name] = offered[src]
    BY <1>2, <1>3, <1>5, <1>6, <2>2 DEF CachedIsCurrent, doc
  <2>4. offered[src] \in Window(src)
    BY <1>2, <1>6, Numbers DEF Window, ListInv, WorldType
  <2>5. v \in ListType
    BY <1>6, <2>1 DEF ListType
  <2>6. LocalType' /\ GetInv' /\ ListInv' /\ LoopInv'
    BY <1>2, <1>3, <2>1, <2>3, <2>4, <2>5, DeliverKeeps DEF Asking
  <2>7. CASE v = Missing
    <3>1. /\ head' \in [Source -> [File -> {None} \cup Version]]
          /\ \A s \in Source, f \in File :
                head'[s][f] = IF s = src /\ f = name THEN None ELSE head[s][f]
      BY <1>2, <1>6, <2>1, <2>7, OneFile DEF WorldType
    <3>2. WorldType'
      BY <1>2, <1>3, <1>4, <2>2, <3>1 DEF WorldType
    <3>3. HeadInv'
      <4>1. \A s \in Source : None <= offered[s]
        BY <1>2, Numbers DEF WorldType
      <4>2. QED BY <1>2, <1>3, <3>1, <4>1 DEF HeadInv
    <3>4. CachedIsCurrent'
      BY <1>2, <1>3, <2>2, <3>1, Numbers DEF CachedIsCurrent, WorldType
    <3>5. QED BY <1>2, <1>3, <2>6, <3>2, <3>3, <3>4, NextType
  <2>8. CASE v # Missing
    <3>1. UNCHANGED head
      BY <2>1, <2>8
    <3>2. WorldType'
      BY <1>2, <1>3, <1>4, <2>2, <3>1 DEF WorldType
    <3>3. HeadInv' /\ CachedIsCurrent'
      BY <1>3, <2>2, <3>1, DiskKept
    <3>4. QED BY <1>2, <1>3, <2>6, <3>2, <3>3, NextType
  <2>9. QED BY <2>7, <2>8
<1>11. QED BY <1>1, <1>7, <1>8, <1>9, <1>10

LEMMA GetOkKeeps == ASSUME IInv, GetOk PROVE IInv'
<1>1. /\ WorldType /\ LocalType /\ may \in FaultSets
      /\ HeadInv /\ CachedIsCurrent /\ GetInv /\ ListInv /\ LoopInv
  BY DEF IInv, TypeOK, WorldType, LocalType
<1>2. /\ pc = "get" /\ name \in Offers[src] /\ UNCHANGED <<head, data, torn, offered, since, may, calm>>
      /\ file' = [file EXCEPT ![src][name] = offered[src]]
  BY DEF GetOk, rest, NoFault
<1>3. /\ offered[src] \in Version /\ since[src] \in Version
      /\ src \in Source /\ name \in File
  BY <1>1 DEF WorldType, LocalType
<1>4. /\ file' \in [Source -> [File -> {Cut} \cup Version]]
      /\ \A s \in Source, f \in File :
            file'[s][f] = IF s = src /\ f = name THEN offered[src] ELSE file[s][f]
  BY <1>1, <1>2, <1>3, OneFile DEF WorldType
<1>5. offered[src] \in Window(src) /\ offered[src] \in ListType
  BY <1>1, <1>3, Numbers DEF Window, ListInv, ListType
<1>6. WorldType' /\ HeadInv'
  BY <1>1, <1>2, <1>4 DEF WorldType, HeadInv
<1>7. CachedIsCurrent'
  BY <1>1, <1>2, <1>4 DEF CachedIsCurrent
<1>8. CASE seen = None
  <2>1. Deliver(offered[src])
    BY <1>8 DEF GetOk
  <2>2. LocalType' /\ GetInv' /\ ListInv' /\ LoopInv'
    BY <1>1, <1>2, <1>5, <2>1, DeliverKeeps DEF Asking
  <2>3. QED BY <1>1, <1>2, <1>6, <1>7, <2>2, NextType
<1>9. CASE seen # None
  <2>1. pc' = "commit" /\ UNCHANGED <<src, name, seen, got, gz, failed, new>>
    BY <1>9 DEF GetOk, local
  <2>2. LocalType' /\ ListInv' /\ LoopInv'
    BY <1>1, <1>2, <2>1 DEF LocalType, ListInv, LoopInv, Window, CurrentLists, Asking, doc
  <2>3. seen <= offered[src]
    BY <1>1, <1>2 DEF GetInv
  <2>4. GetInv'
    BY <1>2, <1>3, <1>4, <1>5, <2>1, <2>3 DEF GetInv, Window
  <2>5. QED BY <1>1, <1>2, <1>6, <1>7, <2>2, <2>4, NextType
<1>10. QED BY <1>8, <1>9

LEMMA GetFailsKeeps == ASSUME IInv, GetFails PROVE IInv'
<1>1. /\ WorldType /\ LocalType /\ may \in FaultSets
      /\ HeadInv /\ CachedIsCurrent /\ GetInv /\ ListInv /\ LoopInv
  BY DEF IInv, TypeOK, WorldType, LocalType
<1>2. /\ pc = "get" /\ UNCHANGED <<file, data, torn, offered, since, may>>
      /\ head' = [head EXCEPT ![src][name] = None] /\ Deliver(Missing)
  BY DEF GetFails, rest
<1>3. calm' \in BOOLEAN
  BY <1>1 DEF GetFails, NoFault, Fault, WorldType
<1>4. /\ head' \in [Source -> [File -> {None} \cup Version]]
      /\ \A s \in Source, f \in File :
            head'[s][f] = IF s = src /\ f = name THEN None ELSE head[s][f]
  BY <1>1, <1>2, OneFile DEF WorldType, LocalType
<1>5. \A s \in Source : None <= offered[s] /\ None # offered[s]
  BY <1>1, Numbers DEF WorldType
<1>6. WorldType' /\ HeadInv'
  BY <1>1, <1>2, <1>3, <1>4, <1>5 DEF WorldType, HeadInv
<1>7. CachedIsCurrent'
  BY <1>1, <1>2, <1>4, <1>5 DEF CachedIsCurrent
<1>8. LocalType' /\ GetInv' /\ ListInv' /\ LoopInv'
  BY <1>1, <1>2, DeliverKeeps DEF ListType, Asking
<1>9. QED BY <1>1, <1>2, <1>6, <1>7, <1>8, NextType

LEMMA CommitKeeps == ASSUME IInv, Commit PROVE IInv'
<1>1. /\ WorldType /\ LocalType /\ may \in FaultSets
      /\ HeadInv /\ CachedIsCurrent /\ GetInv /\ ListInv /\ LoopInv
  BY DEF IInv, TypeOK, WorldType, LocalType
<1>2. /\ pc = "commit" /\ UNCHANGED <<file, data, torn, offered, since, may, calm>>
      /\ head' = [head EXCEPT ![src][name] = seen]
  BY DEF Commit, rest, NoFault
<1>3. /\ src \in Source /\ name \in File /\ seen \in {None} \cup Version
      /\ offered[src] \in Version /\ file[src][name] \in {Cut} \cup Version
  BY <1>1 DEF WorldType, LocalType
<1>4. /\ head' \in [Source -> [File -> {None} \cup Version]]
      /\ \A s \in Source, f \in File :
            head'[s][f] = IF s = src /\ f = name THEN seen ELSE head[s][f]
  BY <1>1, <1>2, <1>3, OneFile DEF WorldType
<1>5. /\ name \in Offers[src] /\ seen <= file[src][name]
      /\ file[src][name] \in Window(src)
  BY <1>1, <1>2 DEF GetInv
<1>6. seen <= offered[src] /\ (seen = offered[src] => file[src][name] = offered[src])
  BY <1>3, <1>5, Numbers DEF Window
<1>7. WorldType' /\ HeadInv'
  BY <1>1, <1>2, <1>4, <1>5, <1>6 DEF WorldType, HeadInv
<1>8. CachedIsCurrent'
  BY <1>1, <1>2, <1>4, <1>6 DEF CachedIsCurrent
<1>9. CASE doc = "changelog"
  <2>1. pc' = "close" /\ UNCHANGED <<src, name, seen, got, gz, failed, new>>
    BY <1>9 DEF Commit, local
  <2>2. LocalType' /\ ListInv' /\ LoopInv' /\ GetInv'
    BY <1>1, <1>2, <1>9, <2>1
       DEF LocalType, ListInv, LoopInv, GetInv, Window, CurrentLists, Asking, doc
  <2>3. QED BY <1>1, <1>2, <1>7, <1>8, <2>2, NextType
<1>10. CASE doc # "changelog"
  <2>1. Deliver(file[src][name])
    BY <1>10 DEF Commit
  <2>2. file[src][name] \in ListType
    BY <1>3 DEF ListType
  <2>3. LocalType' /\ GetInv' /\ ListInv' /\ LoopInv'
    BY <1>1, <1>2, <1>5, <2>1, <2>2, DeliverKeeps DEF Asking
  <2>4. QED BY <1>1, <1>2, <1>7, <1>8, <2>3, NextType
<1>11. QED BY <1>9, <1>10

LEMMA CloseKeeps == ASSUME IInv, Close PROVE IInv'
<1>1. /\ WorldType /\ LocalType /\ may \in FaultSets
      /\ HeadInv /\ CachedIsCurrent /\ GetInv /\ ListInv /\ LoopInv
  BY DEF IInv, TypeOK, WorldType, LocalType
<1>2. /\ pc = "close" /\ UNCHANGED <<head, data, torn, offered, since, may, calm>>
      /\ file' = [file EXCEPT ![src][Plain("changelog")] = file[src][name]]
      /\ Deliver(file[src][name])
  BY DEF Close, rest, NoFault
<1>3. /\ src \in Source /\ name \in File /\ file[src][name] \in {Cut} \cup Version
      /\ Plain("changelog") \in File /\ Plain("changelog")[1] = "changelog"
  BY <1>1, Names DEF WorldType, LocalType, Doc
<1>4. /\ file' \in [Source -> [File -> {Cut} \cup Version]]
      /\ \A s \in Source, f \in File : f[1] # "changelog" => file'[s][f] = file[s][f]
  BY <1>1, <1>2, <1>3, OneFile DEF WorldType
<1>5. WorldType' /\ HeadInv'
  BY <1>1, <1>2, <1>4 DEF WorldType, HeadInv
<1>6. CachedIsCurrent'
  BY <1>1, <1>2, <1>4 DEF CachedIsCurrent
<1>7. doc = "changelog" /\ file[src][name] \in ListType
  BY <1>1, <1>2, <1>3 DEF GetInv, ListType
<1>8. LocalType' /\ GetInv' /\ ListInv' /\ LoopInv'
  BY <1>1, <1>2, <1>7, DeliverKeeps DEF Asking
<1>9. QED BY <1>1, <1>2, <1>5, <1>6, <1>8, NextType

LEMMA VerifyKeeps == ASSUME IInv, Verify PROVE IInv'
<1>1. /\ WorldType /\ LocalType /\ may \in FaultSets
      /\ HeadInv /\ CachedIsCurrent /\ GetInv /\ ListInv /\ LoopInv
  BY DEF IInv, TypeOK, WorldType, LocalType
<1>2. /\ pc = "verify" /\ pc' \in {"collect", "ask"}
      /\ UNCHANGED <<disk, src, seen, gz, new, offered, since, may, calm>>
      /\ name' \in {name, Gz("changelog")} /\ (pc' = "ask" => name' = Gz("changelog"))
      /\ got' \in {got, [got EXCEPT !["checksums"] = Missing]}
  BY DEF Verify, rest, NoFault
<1>3. failed' \in BOOLEAN /\ (~failed' => ~failed)
  BY <1>1 DEF Verify, LocalType
<1>4. /\ got' \in [Doc -> ListType]
      /\ \A d \in Doc : got'[d] \in {got[d], Missing}
      /\ got'["packages"] = got["packages"]
  BY <1>1, <1>2 DEF LocalType, ListType, Doc
<1>5. name' \in File
  BY <1>1, <1>2, Names DEF LocalType, Doc
<1>6. WorldType' /\ LocalType' /\ GetInv'
  BY <1>1, <1>2, <1>3, <1>4, <1>5 DEF WorldType, LocalType, GetInv, disk
<1>7. HeadInv' /\ CachedIsCurrent'
  BY <1>2, DiskKept DEF disk
<1>8. ListInv'
  BY <1>1, <1>2, <1>4 DEF ListInv, Window, CurrentLists, Doc
<1>9. LoopInv'
  BY <1>1, <1>2, <1>3, <1>4 DEF LoopInv, Asking
<1>10. QED BY <1>1, <1>2, <1>6, <1>7, <1>8, <1>9, NextType

LEMMA CollectKeeps == ASSUME IInv, Collect PROVE IInv'
<1>1. /\ WorldType /\ LocalType /\ may \in FaultSets
      /\ HeadInv /\ CachedIsCurrent /\ GetInv /\ ListInv /\ LoopInv
  BY DEF IInv, TypeOK, WorldType, LocalType
<1>2. /\ pc = "collect" /\ pc' = "next"
      /\ UNCHANGED <<disk, src, name, seen, got, gz, offered, since, may, calm>>
  BY DEF Collect, rest, NoFault
<1>3. HeadInv' /\ CachedIsCurrent' /\ WorldType' /\ GetInv'
  BY <1>1, <1>2, DiskKept DEF disk, WorldType, GetInv
<1>4. CASE got["checksums"] = Missing
  <2>1. failed' = TRUE /\ new' = new
    BY <1>4 DEF Collect
  <2>2. LocalType' /\ ListInv' /\ LoopInv'
    BY <1>1, <1>2, <2>1
       DEF LocalType, ListInv, LoopInv, Window, CurrentLists, Asking
  <2>3. QED BY <1>1, <1>2, <1>3, <2>2, NextType
<1>5. CASE got["checksums"] # Missing
  <2>1. /\ failed' = failed
        /\ new' = [s \in DOMAIN new \cup {src} |-> IF s = src THEN Lists ELSE new[s]]
    BY <1>5 DEF Collect
  <2>2. src \in Source /\ Source = 1..N /\ N \in Nat /\ DOMAIN new' = DOMAIN new \cup {src}
    BY <1>1, <2>1, Numbers DEF LocalType
  <2>3. Lists \in CurrentLists(src)
    <3>1. got["packages"] # Missing
      BY <1>1, <1>2 DEF LoopInv
    <3>2. QED BY <1>1, <1>5, <3>1 DEF ListInv, Lists, CurrentLists
  <2>4. ListInv'
    BY <1>1, <1>2, <2>1, <2>2, <2>3 DEF ListInv, Window, CurrentLists
  <2>5. LocalType'
    BY <1>1, <1>2, <2>1, <2>2 DEF LocalType
  <2>6. ~failed => DOMAIN new = 1..(src - 1)
    BY <1>1, <1>2 DEF LoopInv
  <2>7. (1..(src - 1)) \cup {src} = 1..src
    BY <2>2
  <2>8. LoopInv'
    BY <1>2, <2>1, <2>2, <2>6, <2>7 DEF LoopInv, Asking
  <2>9. QED BY <1>1, <1>2, <1>3, <2>4, <2>5, <2>8, NextType
<1>6. QED BY <1>4, <1>5

\* The update is over: what it had is forgotten.
LEMMA ReturnKeeps ==
  ASSUME IInv, Return, UNCHANGED <<offered, since>>
  PROVE  LocalType' /\ GetInv' /\ ListInv' /\ LoopInv'
<1>1. /\ pc' = "idle" /\ src' = 1 /\ name' = Gz("packages") /\ seen' = None
      /\ got' = Nothing /\ gz' = FALSE /\ failed' = FALSE /\ new' = NoLists
  BY DEF Return
<1>2. doc' = "packages" /\ name' \in File
  BY <1>1, Names DEF doc, Doc
<1>3. Nothing \in [Doc -> ListType] /\ \A d \in Doc : Nothing[d] = Missing
  BY DEF Nothing, ListType
<1>4. DOMAIN NoLists = {}
  BY DEF NoLists
<1>5. 1 \in Source /\ 1..(1 - 1) = {}
  BY Numbers
<1>6. LocalType' /\ GetInv'
  BY <1>1, <1>2, <1>3, <1>4, <1>5 DEF LocalType, GetInv
<1>7. ListInv'
  <2>1. \A s \in Source : since[s] <= offered[s]
    BY DEF IInv, ListInv
  <2>2. QED BY <1>1, <1>3, <1>4, <2>1 DEF ListInv, Doc
<1>8. LoopInv'
  BY <1>1, <1>2, <1>4, <1>5 DEF LoopInv, Asking
<1>9. QED BY <1>6, <1>7, <1>8

LEMMA NextSourceKeeps == ASSUME IInv, NextSource PROVE IInv'
<1>1. /\ WorldType /\ LocalType /\ may \in FaultSets
      /\ HeadInv /\ CachedIsCurrent /\ GetInv /\ ListInv /\ LoopInv
  BY DEF IInv, TypeOK, WorldType, LocalType
<1>2. /\ pc = "next" /\ src < N /\ pc' = "ask" /\ src' = src + 1
      /\ name' = Gz("packages") /\ got' = Nothing /\ gz' = FALSE
      /\ UNCHANGED <<disk, seen, failed, new, offered, since, may, calm>>
  BY DEF NextSource, rest, NoFault
<1>3. src \in 1..N /\ N \in Nat /\ src' \in Source
  BY <1>1, <1>2, Numbers DEF LocalType
<1>4. doc' = "packages" /\ name' \in File
  BY <1>2, Names DEF doc, Doc
<1>5. Nothing \in [Doc -> ListType] /\ \A d \in Doc : Nothing[d] = Missing
  BY DEF Nothing, ListType
<1>6. HeadInv' /\ CachedIsCurrent' /\ WorldType'
  BY <1>1, <1>2, DiskKept DEF disk, WorldType
<1>7. LocalType' /\ GetInv'
  BY <1>1, <1>2, <1>3, <1>4, <1>5 DEF LocalType, GetInv
<1>8. ListInv'
  BY <1>1, <1>2, <1>5 DEF ListInv, Window, CurrentLists, Doc
<1>9. LoopInv'
  <2>1. src' - 1 = src
    BY <1>2, <1>3
  <2>2. ~failed => DOMAIN new = 1..src
    BY <1>1, <1>2 DEF LoopInv
  <2>3. QED BY <1>2, <1>4, <2>1, <2>2 DEF LoopInv, Asking
<1>10. QED BY <1>1, <1>2, <1>6, <1>7, <1>8, <1>9, NextType

LEMMA GivenUpKeeps == ASSUME IInv, GivenUp PROVE IInv'
<1>1. /\ pc = "next" /\ Return
      /\ UNCHANGED <<disk, offered, since, may, calm>>
  BY DEF GivenUp, rest, NoFault
<1>2. HeadInv' /\ CachedIsCurrent' /\ WorldType'
  BY <1>1, DiskKept DEF disk, WorldType, IInv, TypeOK
<1>3. QED BY <1>1, <1>2, ReturnKeeps, NextType DEF IInv

LEMMA AllThereKeeps == ASSUME IInv, AllThere PROVE IInv'
<1>1. /\ WorldType /\ LocalType /\ may \in FaultSets
      /\ GetInv /\ ListInv /\ LoopInv
  BY DEF IInv, TypeOK, WorldType, LocalType
<1>2. /\ pc = "next" /\ src = N /\ ~failed /\ pc' = "open"
      /\ UNCHANGED <<disk, local, offered, since, may, calm>>
  BY DEF AllThere, rest, NoFault
<1>3. HeadInv' /\ CachedIsCurrent' /\ WorldType'
  BY <1>1, <1>2, DiskKept DEF disk, WorldType
<1>4. DOMAIN new = Source
  BY <1>1, <1>2, Numbers DEF LoopInv
<1>5. LocalType' /\ GetInv' /\ ListInv'
  BY <1>1, <1>2 DEF local, LocalType, GetInv, ListInv, Window, CurrentLists
<1>6. LoopInv'
  BY <1>2, <1>4 DEF local, LoopInv, Asking
<1>7. QED BY <1>1, <1>2, <1>3, <1>5, <1>6, NextType

LEMMA OpenDataKeeps == ASSUME IInv, OpenData PROVE IInv'
<1>1. /\ WorldType /\ LocalType /\ may \in FaultSets
      /\ GetInv /\ ListInv /\ LoopInv
  BY DEF IInv, TypeOK, WorldType, LocalType
<1>2. /\ pc = "open" /\ pc' = "write" /\ data' = NoLists /\ torn' = TRUE
      /\ UNCHANGED <<file, head, local, offered, since, may, calm>>
  BY DEF OpenData, rest, NoFault
<1>3. DOMAIN NoLists = {}
  BY DEF NoLists
<1>4. HeadInv' /\ CachedIsCurrent' /\ WorldType'
  BY <1>1, <1>2, <1>3, DiskKept DEF WorldType
<1>5. LocalType' /\ GetInv' /\ ListInv'
  BY <1>1, <1>2 DEF local, LocalType, GetInv, ListInv, Window, CurrentLists
<1>6. LoopInv'
  BY <1>1, <1>2 DEF local, LoopInv, Asking
<1>7. QED BY <1>1, <1>2, <1>4, <1>5, <1>6, NextType

LEMMA WriteDataKeeps == ASSUME IInv, WriteData PROVE IInv'
<1>1. /\ pc = "write" /\ data' = new /\ torn' = FALSE /\ Return
      /\ UNCHANGED <<file, head, offered, since, may, calm>>
  BY DEF WriteData, rest, NoFault
<1>2. DOMAIN new = Source
  BY <1>1 DEF IInv, LoopInv
<1>3. HeadInv' /\ CachedIsCurrent' /\ WorldType'
  BY <1>1, <1>2, DiskKept DEF WorldType, IInv, TypeOK
<1>4. QED BY <1>1, <1>3, ReturnKeeps, NextType DEF IInv

LEMMA BeginKeeps == ASSUME IInv, Begin PROVE IInv'
<1>1. /\ WorldType /\ LocalType /\ may \in FaultSets
      /\ GetInv /\ ListInv /\ LoopInv /\ HeadInv /\ CachedIsCurrent
  BY DEF IInv, TypeOK, WorldType, LocalType
<1>2. /\ pc = "idle" /\ pc' = "ask" /\ since' = offered /\ calm' = TRUE
      /\ UNCHANGED <<disk, local, offered, may>>
  BY DEF Begin
<1>3. /\ got = Nothing /\ DOMAIN new = {} /\ src = 1 /\ doc = "packages"
  BY <1>1, <1>2 DEF LoopInv, NoLists
<1>4. HeadInv' /\ CachedIsCurrent' /\ WorldType'
  BY <1>1, <1>2 DEF disk, WorldType, HeadInv, CachedIsCurrent
<1>5. LocalType' /\ GetInv'
  BY <1>1, <1>2 DEF local, LocalType, GetInv
<1>6. ListInv'
  <2>1. \A s \in Source : offered[s] <= offered[s]
    BY <1>1, Numbers DEF WorldType
  <2>2. QED BY <1>2, <1>3, <2>1 DEF local, ListInv, Nothing, Doc
<1>7. LoopInv'
  BY <1>2, <1>3 DEF local, LoopInv, Asking, doc
<1>8. QED BY <1>1, <1>2, <1>4, <1>5, <1>6, <1>7, NextType

LEMMA MirrorChangesKeeps == ASSUME IInv, MirrorChanges PROVE IInv'
<1>1. /\ WorldType /\ LocalType /\ may \in FaultSets
      /\ GetInv /\ ListInv /\ LoopInv /\ HeadInv /\ CachedIsCurrent
  BY DEF IInv, TypeOK, WorldType, LocalType
<1>2. PICK m \in Source : /\ offered[m] < MaxVersion
                          /\ offered' = [offered EXCEPT ![m] = @ + 1]
  BY DEF MirrorChanges
<1>3. UNCHANGED <<disk, pc, local, may, since>> /\ calm' = FALSE
  BY DEF MirrorChanges
<1>4. /\ offered' \in [Source -> Version]
      /\ \A s \in Source : offered'[s] = IF s = m THEN offered[s] + 1 ELSE offered[s]
  BY <1>1, <1>2, BoundAssumption DEF WorldType, Version
<1>5. \A s \in Source : /\ offered[s] \in Nat /\ since[s] \in Nat /\ since'[s] = since[s]
                        /\ offered[s] <= offered'[s]
                        /\ \A f \in File : head[s][f] \in Nat
  <2>1. offered \in [Source -> Version] /\ since \in [Source -> Version]
        /\ head \in [Source -> [File -> {None} \cup Version]]
    BY <1>1 DEF WorldType
  <2>2. \A s \in Source : offered[s] \in Nat /\ since[s] \in Nat
    BY <2>1, Numbers
  <2>3. \A s \in Source, f \in File : head[s][f] \in Nat
    BY <2>1, Numbers
  <2>4. QED BY <1>3, <1>4, <2>2, <2>3
<1>6. \A s \in Source : Window(s) \subseteq Window(s)'
  BY <1>4, <1>5, Numbers DEF Window, WorldType
<1>7. WorldType' /\ LocalType'
  BY <1>1, <1>3, <1>4 DEF WorldType, LocalType, disk, local
<1>8. HeadInv'
  <2>1. \A s \in Source, f \in File : head[s][f] <= offered'[s]
    BY <1>1, <1>4, <1>5 DEF HeadInv
  <2>2. QED BY <1>1, <1>3, <2>1 DEF HeadInv, disk
<1>9. \A s \in Source, f \in File : head[s][f] = offered'[s] => offered'[s] = offered[s]
  BY <1>1, <1>4, <1>5 DEF HeadInv
<1>10. CachedIsCurrent'
  BY <1>1, <1>3, <1>9 DEF CachedIsCurrent, disk, local
<1>11. GetInv'
  <2>1. src \in Source /\ name \in File /\ seen \in Nat
    BY <1>1, Numbers DEF LocalType
  <2>2. seen <= offered[src] => seen <= offered'[src]
    BY <1>5, <2>1, <1>4
  <2>3. QED BY <1>1, <1>3, <1>6, <1>9, <2>1, <2>2 DEF GetInv, disk, local, doc
<1>12. ListInv'
  <2>1. \A s \in Source : since[s] <= offered'[s]
    BY <1>1, <1>4, <1>5 DEF ListInv
  <2>2. \A s \in Source : CurrentLists(s) \subseteq CurrentLists(s)'
    BY <1>6 DEF CurrentLists
  <2>3. src \in Source /\ DOMAIN new \subseteq Source
    BY <1>1 DEF LocalType
  <2>4. QED BY <1>1, <1>3, <1>6, <2>1, <2>2, <2>3 DEF ListInv, local
<1>13. LoopInv'
  BY <1>1, <1>3 DEF LoopInv, disk, local, doc
<1>14. QED BY <1>1, <1>3, <1>7, <1>8, <1>10, <1>11, <1>12, <1>13, NextType

\* A download killed after HEAD failed would leave the head of the file that
\* it has emptied.
LEMMA KillKeeps == ASSUME NoHeadAndKill, IInv, Kill PROVE IInv'
<1>1. /\ WorldType /\ LocalType /\ may \in FaultSets
      /\ GetInv /\ HeadInv /\ CachedIsCurrent
  BY DEF IInv, TypeOK, WorldType, LocalType
<1>2. /\ "kill" \in may /\ calm' = FALSE /\ Return
      /\ UNCHANGED <<data, torn, offered, since, may>>
  BY DEF Kill, Fault, rest
<1>3. LocalType' /\ GetInv' /\ ListInv' /\ LoopInv'
  BY <1>2, ReturnKeeps
<1>4. "head" \notin may
  BY <1>1, <1>2 DEF NoHeadAndKill
<1>5. src \in Source /\ name \in File
      /\ Plain("changelog") \in File /\ Plain("changelog")[1] = "changelog"
  BY <1>1, Names DEF LocalType, Doc
<1>6. ASSUME UNCHANGED <<file, head>> PROVE WorldType' /\ HeadInv' /\ CachedIsCurrent'
  BY <1>1, <1>2, <1>4, <1>6 DEF WorldType, HeadInv, CachedIsCurrent, GetInv
<1>7. ASSUME pc = "commit", head' = [head EXCEPT ![src][name] = None], UNCHANGED file
      PROVE  WorldType' /\ HeadInv' /\ CachedIsCurrent'
  <2>1. /\ head' \in [Source -> [File -> {None} \cup Version]]
        /\ \A s \in Source, f \in File :
              head'[s][f] = IF s = src /\ f = name THEN None ELSE head[s][f]
    BY <1>1, <1>5, <1>7, OneFile DEF WorldType
  <2>2. \A s \in Source : None <= offered[s] /\ None # offered[s]
    BY <1>1, Numbers DEF WorldType
  <2>3. WorldType' /\ HeadInv'
    BY <1>1, <1>2, <1>7, <2>1, <2>2 DEF WorldType, HeadInv
  <2>4. CachedIsCurrent'
    BY <1>1, <1>2, <1>7, <2>1, <2>2 DEF CachedIsCurrent
  <2>5. QED BY <2>3, <2>4
<1>8. ASSUME NEW n \in File, n[1] = "changelog", pc # "get",
             file' = [file EXCEPT ![src][n] = Cut], UNCHANGED head
      PROVE  WorldType' /\ HeadInv' /\ CachedIsCurrent'
  <2>1. /\ file' \in [Source -> [File -> {Cut} \cup Version]]
        /\ \A s \in Source, f \in File : f[1] # "changelog" => file'[s][f] = file[s][f]
    BY <1>1, <1>5, <1>8, OneFile DEF WorldType
  <2>2. WorldType'
    BY <1>1, <1>2, <1>8, <2>1 DEF WorldType
  <2>3. HeadInv'
    BY <1>1, <1>2, <1>8 DEF HeadInv
  <2>4. CachedIsCurrent'
    BY <1>1, <1>2, <1>8, <2>1 DEF CachedIsCurrent
  <2>5. QED BY <2>2, <2>3, <2>4
<1>9. WorldType' /\ HeadInv' /\ CachedIsCurrent'
  BY <1>5, <1>6, <1>7, <1>8 DEF Kill, doc
<1>10. QED BY <1>1, <1>2, <1>3, <1>9, NextType

LEMMA InitKeeps == ASSUME Init PROVE IInv
<1>1. /\ offered = [s \in Source |-> 1] /\ since = offered /\ may \in FaultSets
      /\ file = [s \in Source |-> [f \in File |-> Cut]]
      /\ head = [s \in Source |-> [f \in File |-> None]]
      /\ data = NoLists /\ torn = FALSE /\ calm = TRUE
      /\ pc = "idle" /\ src = 1 /\ name = Gz("packages") /\ seen = None
      /\ got = Nothing /\ gz = FALSE /\ failed = FALSE /\ new = NoLists
  BY DEF Init
<1>2. DOMAIN NoLists = {}
  BY DEF NoLists
<1>3. name \in File /\ doc = "packages" /\ 1 \in Source /\ 1..(1 - 1) = {}
  BY <1>1, Names, Numbers DEF doc, Doc
<1>4. Nothing \in [Doc -> ListType] /\ \A d \in Doc : Nothing[d] = Missing
  BY DEF Nothing, ListType
<1>5. \A s \in Source : /\ offered[s] = 1 /\ since[s] = 1
                        /\ \A f \in File : head[s][f] = None
  BY <1>1
<1>6. TypeOK
  BY <1>1, <1>2, <1>3, <1>4, Numbers DEF TypeOK
<1>7. HeadInv /\ CachedIsCurrent /\ GetInv
  BY <1>1, <1>5, Numbers DEF HeadInv, CachedIsCurrent, GetInv
<1>8. ListInv
  BY <1>1, <1>2, <1>4, <1>5 DEF ListInv, Doc
<1>9. LoopInv
  BY <1>1, <1>2, <1>3 DEF LoopInv, Asking
<1>10. QED BY <1>1, <1>6, <1>7, <1>8, <1>9 DEF IInv

LEMMA InvariantKept == ASSUME NoHeadAndKill, IInv, [Next]_vars PROVE IInv'
<1>1. CASE Next
  BY <1>1, AskKeeps, GetOkKeeps, GetFailsKeeps, CommitKeeps, CloseKeeps, VerifyKeeps,
     CollectKeeps, NextSourceKeeps, GivenUpKeeps, AllThereKeeps, OpenDataKeeps,
     WriteDataKeeps, BeginKeeps, MirrorChangesKeeps, KillKeeps
     DEF Next, Update, Fetch
<1>2. CASE UNCHANGED vars
  BY <1>2 DEF vars, disk, local, IInv, TypeOK, HeadInv, CachedIsCurrent, GetInv,
     ListInv, CurrentLists, Window, LoopInv, doc
<1>3. QED BY <1>1, <1>2

LEMMA Invariant == ASSUME NoHeadAndKill PROVE Spec => []IInv
<1>1. Init => IInv
  BY InitKeeps
<1>2. IInv /\ [Next]_vars => IInv'
  BY InvariantKept
<1>3. QED BY <1>1, <1>2, PTL DEF Spec

-----------------------------------------------------------------------------
(* The steps as steps of the promise. *)

staged == IF pc \in {"open", "write"} THEN new ELSE NoLists

\* Every step but three leaves the lists it has alone.
LEMMA StagedKept ==
  ASSUME pc \notin {"open", "write"}, pc' \notin {"open", "write"}
  PROVE  staged = NoLists /\ staged' = NoLists
BY DEF staged

LEMMA CompleteLists ==
  ASSUME IInv, DOMAIN new = Source PROVE Promise!Complete(new) /\ new # NoLists
<1>1. DOMAIN NoLists = {} /\ Source # {}
  BY Numbers DEF NoLists
<1>2. QED
  BY <1>1 DEF IInv, ListInv, CurrentLists, Window, Promise!Complete, Promise!Window,
     Missing, Promise!Missing

\* No step of a source's documents touches package_data.
LEMMA SourceStep ==
  ASSUME IInv, Fetch \/ Verify \/ Collect \/ NextSource \/ GivenUp
  PROVE  UNCHANGED <<offered, since, staged, data, torn>>
<1>1. UNCHANGED <<offered, since, data, torn>>
  BY DEF Fetch, Ask, Cached, NoChangelog, Open, FallBack, GetOk, GetFails, Commit, Close,
     Verify, Collect, NextSource, GivenUp, disk, rest
<1>2. pc \notin {"open", "write"}
  BY DEF Fetch, Ask, GetOk, GetFails, Commit, Close, Verify, Collect, NextSource, GivenUp
<1>3. ASSUME NEW v, Deliver(v) PROVE pc' \notin {"open", "write"}
  BY <1>3 DEF Deliver
<1>4. pc' \notin {"open", "write"}
  BY <1>2, <1>3
     DEF Fetch, Ask, Cached, NoChangelog, Open, FallBack, GetOk, GetFails, Commit, Close,
     Verify, Collect, NextSource, GivenUp, Return
<1>5. QED BY <1>1, <1>2, <1>4, StagedKept

LEMMA PromiseStep ==
  ASSUME IInv, [Next]_vars
  PROVE  [Promise!PromiseNext]_(Promise!promiseVars)
<1>1. CASE Fetch \/ Verify \/ Collect \/ NextSource \/ GivenUp
  BY <1>1, SourceStep DEF Promise!promiseVars, staged
<1>2. CASE Begin
  <2>1. staged = NoLists /\ staged' = NoLists
    BY <1>2, StagedKept DEF Begin
  <2>2. Promise!UpdateBegins
    BY <1>2, <2>1 DEF Begin, disk, staged, Promise!UpdateBegins, NoLists, Promise!NoLists
  <2>3. QED BY <2>2 DEF Promise!PromiseNext
<1>3. CASE MirrorChanges
  <2>1. UNCHANGED <<since, staged, data, torn>>
    BY <1>3 DEF MirrorChanges, disk, local, staged
  <2>2. Promise!MirrorChanges
    BY <1>3, <2>1 DEF MirrorChanges, staged, Promise!MirrorChanges
  <2>3. QED BY <2>2 DEF Promise!PromiseNext
<1>4. CASE AllThere
  <2>1. /\ pc = "next" /\ pc' = "open" /\ UNCHANGED <<disk, local, offered, since>>
    BY <1>4 DEF AllThere, rest
  <2>2. DOMAIN new = Source
    BY <1>4, Numbers DEF AllThere, IInv, LoopInv
  <2>3. Promise!Complete(new) /\ UNCHANGED <<new, data, torn>>
    BY <2>1, <2>2, CompleteLists DEF disk, local
  <2>4. staged = NoLists /\ staged' = new
    BY <2>1, <2>3 DEF staged
  <2>5. Promise!Complete(new)'
    BY <2>1, <2>3 DEF Promise!Complete, Promise!Window
  <2>6. Promise!Stage
    BY <2>1, <2>3, <2>4, <2>5
       DEF Promise!Stage, Promise!Complete, Promise!Window, NoLists, Promise!NoLists
  <2>7. QED BY <2>6 DEF Promise!PromiseNext
<1>5. CASE OpenData
  <2>1. pc = "open" /\ pc' = "write" /\ UNCHANGED <<local, offered, since>>
        /\ data' = NoLists /\ torn' = TRUE
    BY <1>5 DEF OpenData, rest
  <2>2. new # NoLists
    BY <2>1, CompleteLists DEF IInv, LoopInv
  <2>3. Promise!Truncate
    BY <2>1, <2>2 DEF local, Promise!Truncate, NoLists, Promise!NoLists
  <2>4. QED BY <2>3 DEF Promise!PromiseNext
<1>6. CASE WriteData
  <2>1. /\ pc = "write" /\ pc' = "idle" /\ UNCHANGED <<offered, since>>
        /\ data' = new /\ torn' = FALSE
    BY <1>6 DEF WriteData, Return, rest
  <2>2. new # NoLists /\ torn
    BY <2>1, CompleteLists DEF IInv, LoopInv
  <2>3. Promise!Replace
    BY <2>1, <2>2 DEF Promise!Replace, NoLists, Promise!NoLists
  <2>4. QED BY <2>3 DEF Promise!PromiseNext
<1>7. CASE Kill
  <2>1. pc' = "idle" /\ UNCHANGED <<data, torn, offered, since>>
    BY <1>7 DEF Kill, Return, rest
  <2>2. Promise!Abandon
    BY <2>1 DEF Promise!Abandon, NoLists, Promise!NoLists
  <2>3. QED BY <2>2 DEF Promise!PromiseNext
<1>8. CASE UNCHANGED vars
  BY <1>8 DEF vars, disk, local, Promise!promiseVars
<1>9. QED BY <1>1, <1>2, <1>3, <1>4, <1>5, <1>6, <1>7, <1>8 DEF Next, Update

-----------------------------------------------------------------------------
(* An update that nothing disturbs. *)

ListDoc == {"packages", "patches", "checksums"}
Served == \A s \in Source : CanServe(s)

\* What the update has of the documents it is past.
PastInv ==
  /\ (pc \in Asking /\ doc \notin {"packages", "patches"}) \/ pc \in {"verify", "collect"} =>
       got["patches"] = Offered(src).patches
  /\ (pc \in Asking /\ doc \notin ListDoc) \/ pc \in {"verify", "collect"} =>
       got["checksums"] = offered[src]
  /\ pc = "verify" => got["signature"] \in {Missing, offered[src]}

\* The plain file is tried only where the mirror has no compressed one, and a
\* compressed one is only downloaded where the mirror has it.
FormInv ==
  pc \in Asking /\ doc \in ListDoc =>
    /\ name = Plain(doc) => Gz(doc) \notin Offers[src]
    /\ pc = "get" /\ name = Gz(doc) => name \in Offers[src]

DataInv == ~torn /\ data = [s \in Source |-> Offered(s)]

Fresh ==
  /\ since = offered /\ ~failed
  /\ new = [s \in DOMAIN new |-> Offered(s)]
  /\ PastInv
  /\ FormInv
  /\ pc = "idle" /\ runs > 0 => DataInv

FreshInv ==
  /\ pc = "idle" => name = Gz("packages") /\ ~failed
  /\ calm /\ Served => Fresh

LEMMA Forms ==
  /\ \A d, e \in Doc : Gz(d) # Plain(e) /\ (Gz(d) = Gz(e) => d = e)
  /\ \A n \in File : n = Gz(n[1]) \/ n = Plain(n[1])
BY DEF Doc, File, Gz, Plain

\* Without a change of the mirrors there is one version to get.
LEMMA OneVersion ==
  ASSUME IInv, since = offered
  PROVE  /\ src \in Source /\ name \in File /\ doc \in Doc /\ got \in [Doc -> ListType]
         /\ Window(src) = {offered[src]}
         /\ offered[src] \in Version /\ offered[src] # Missing /\ offered[src] # Cut
<1>1. src \in Source /\ name \in File /\ got \in [Doc -> ListType] /\ offered[src] \in Version
  BY DEF IInv, TypeOK
<1>2. Window(src) = {offered[src]}
  BY <1>1, Numbers DEF Window
<1>3. QED BY <1>1, <1>2, Numbers, Names DEF doc

\* A fetch that returns what the mirror has keeps the update fresh.
LEMMA DeliverFresh ==
  ASSUME IInv, Fresh, pc \in Asking, NEW v, Deliver(v),
         doc \in {"packages", "checksums"} => v = offered[src],
         doc = "patches" => v = Offered(src).patches,
         doc = "signature" => v \in {Missing, offered[src]},
         UNCHANGED <<offered, since>>
  PROVE  Fresh'
<1>1. /\ src' = src /\ new' = new /\ got' = [got EXCEPT ![doc] = v]
      /\ since = offered /\ ~failed /\ PastInv
      /\ doc = "packages" => v # Missing
  BY OneVersion DEF Deliver, Fresh
<1>2. got'[doc] = v /\ (\A d \in Doc \ {doc} : got'[d] = got[d]) /\ doc \in Doc
  BY <1>1, OneVersion
<1>3. /\ failed' = failed
      /\ \/ /\ doc = "signature" /\ pc' = "verify" /\ name' = name
         \/ /\ doc = "changelog" /\ pc' = "collect" /\ name' = name
         \/ /\ doc = "packages" /\ pc' = "ask" /\ name' = Gz("patches")
         \/ /\ doc = "patches" /\ pc' = "ask" /\ name' = Gz("checksums")
         \/ /\ doc = "checksums" /\ pc' = "ask"
            /\ name' \in {Gz("signature"), Plain("signature")}
  BY <1>1, <1>2 DEF Deliver, After, Doc
<1>4. \/ doc = "signature" /\ pc' = "verify"
      \/ doc = "changelog" /\ pc' = "collect"
      \/ doc = "packages" /\ pc' = "ask" /\ doc' = "patches" /\ name' = Gz(doc')
      \/ doc = "patches" /\ pc' = "ask" /\ doc' = "checksums" /\ name' = Gz(doc')
      \/ doc = "checksums" /\ pc' = "ask" /\ doc' = "signature"
  <2>1. \A d \in Doc : /\ name' = Gz(d) => doc' = d
                       /\ name' = Plain(d) => doc' = d
    BY Names DEF doc
  <2>2. {"patches", "checksums", "signature"} \subseteq Doc
    BY DEF Doc
  <2>3. QED BY <1>3, <2>1, <2>2
<1>5. Offered(src)' = Offered(src) /\ offered'[src] = offered[src]
  BY <1>1 DEF Offered
<1>6. PastInv'
  <2>1. CASE doc = "packages"
    BY <1>4, <2>1 DEF PastInv, ListDoc
  <2>2. CASE doc = "patches"
    <3>1. got'["patches"] = Offered(src).patches
      BY <1>2, <2>2
    <3>2. pc' = "ask" /\ doc' = "checksums"
      BY <1>4, <2>2
    <3>3. QED BY <1>5, <3>1, <3>2 DEF PastInv, ListDoc
  <2>3. CASE doc = "checksums"
    BY <1>1, <1>2, <1>4, <1>5, <2>3 DEF PastInv, Doc, ListDoc
  <2>4. CASE doc = "signature"
    BY <1>1, <1>2, <1>4, <1>5, <2>4 DEF PastInv, Doc, ListDoc
  <2>5. CASE doc = "changelog"
    BY <1>1, <1>2, <1>4, <1>5, <2>5 DEF PastInv, Doc, ListDoc
  <2>6. QED BY <1>2, <2>1, <2>2, <2>3, <2>4, <2>5 DEF Doc
<1>7. FormInv'
  <2>1. pc' = "ask" => \/ doc' \notin ListDoc
                       \/ doc' \in Doc /\ name' = Gz(doc')
    BY <1>4 DEF Doc, ListDoc
  <2>2. pc' \in {"ask", "verify", "collect"}
    BY <1>3
  <2>3. doc' \in Doc /\ name' = Gz(doc') => name' # Plain(doc')
    BY Forms
  <2>4. QED BY <2>1, <2>2, <2>3 DEF FormInv, Asking
<1>8. new' = [s \in DOMAIN new' |-> Offered(s)']
  BY <1>1 DEF Fresh, Offered
<1>9. QED BY <1>1, <1>3, <1>6, <1>7, <1>8 DEF Fresh

\* With a mirror that has the packages and the checksums of every source.
LEMMA ServedIs ==
  ASSUME Served
  PROVE  \A s \in Source, d \in {"packages", "checksums"} :
            Gz(d) \in Offers[s] \/ Plain(d) \in Offers[s]
BY DEF Served, CanServe

\* What the mirror offers is what it has of the document.
LEMMA OffersDoc ==
  ASSUME IInv, name \in Offers[src], doc = "patches"
  PROVE  Offered(src).patches = offered[src]
<1>1. name = Gz("patches") \/ name = Plain("patches")
  BY Forms DEF IInv, TypeOK, doc
<1>2. QED BY <1>1 DEF Offered

LEMMA AskFresh == ASSUME IInv, Fresh, Ask, calm' PROVE Fresh'
<1>1. PICK answered \in BOOLEAN :
        /\ IF answered THEN NoFault ELSE name \in Offers[src] /\ Fault("head")
        /\ IF Answer(answered) = None /\ name = Gz(doc) /\ doc # "signature"
             THEN FallBack(Answer(answered))
             ELSE \/ Cached(Answer(answered))
                  \/ NoChangelog(Answer(answered))
                  \/ Open(Answer(answered))
  BY DEF Ask
<1>2. answered
  BY <1>1 DEF Fault
<1> DEFINE h == Answer(answered)
<1>3. h = IF name \in Offers[src] THEN offered[src] ELSE None
  BY <1>2 DEF Answer
<1>4. /\ pc = "ask" /\ since = offered /\ ~failed /\ PastInv /\ FormInv
      /\ UNCHANGED <<offered, since, runs>>
  BY DEF Ask, rest, Fresh
<1>5. offered[src] # None /\ offered[src] # Missing /\ offered[src] # Cut
      /\ name \in File /\ src \in Source /\ doc \in Doc
  BY <1>4, OneVersion DEF None, Cut
<1>6. CASE h = None /\ name = Gz(doc) /\ doc # "signature"
  <2>1. /\ h = None /\ name' = Plain(doc) /\ name = Gz(doc)
        /\ UNCHANGED <<pc, src, got, failed, new, data, torn>>
    BY <1>1, <1>6 DEF FallBack, disk
  <2>2. doc' = doc
    BY <1>5, <2>1, Names DEF doc
  <2>3. FormInv'
    BY <1>3, <1>4, <1>5, <2>1, <2>2 DEF FormInv
  <2>4. PastInv'
    BY <1>4, <2>1, <2>2 DEF PastInv, Offered
  <2>5. QED BY <1>4, <2>1, <2>3, <2>4 DEF Fresh, Offered
<1>7. CASE NoChangelog(h)
  <2>1. doc = "changelog" /\ Deliver(Missing)
    BY <1>7, Names DEF NoChangelog, doc, Doc
  <2>2. QED BY <1>4, <2>1, DeliverFresh DEF Asking
<1>8. CASE Cached(h)
  <2>1. PICK v : /\ v \in {file[src][name]}
                        \cup (IF name = Gz("packages") /\ file[src][name] = Cut
                                THEN {Missing} ELSE {})
                 /\ Deliver(v)
    BY <1>8 DEF Cached
  <2>2. h # None /\ h = head[src][name]
    BY <1>8 DEF Cached
  <2>3. name \in Offers[src] /\ h = offered[src]
    BY <1>3, <2>2
  <2>4. doc # "changelog" => file[src][name] = offered[src]
    BY <1>4, <1>5, <2>2, <2>3 DEF IInv, CachedIsCurrent, doc
  <2>5. name = Gz("packages") => doc # "changelog"
    BY Names DEF doc, Doc
  <2>6. doc # "changelog" => v = offered[src]
    BY <1>5, <2>1, <2>4, <2>5
  <2>7. QED BY <1>4, <2>1, <2>3, <2>6, OffersDoc, DeliverFresh DEF Asking
<1>9. CASE Open(h)
  <2>1. /\ pc' = "get" /\ UNCHANGED <<data, torn, src, name, got, failed, new>>
    BY <1>9 DEF Open
  <2>2. doc' = doc
    BY <2>1 DEF doc
  <2>3. name = Gz(doc) /\ doc \in ListDoc => name \in Offers[src]
    <3>1. SUFFICES ASSUME name = Gz(doc), doc \in ListDoc, name \notin Offers[src] PROVE FALSE
      OBVIOUS
    <3>2. h = None /\ doc # "signature"
      BY <1>3, <3>1 DEF ListDoc
    <3>3. FallBack(h)
      BY <1>1, <3>1, <3>2
    <3>4. QED BY <2>1, <1>4, <3>3 DEF FallBack
  <2>4. FormInv'
    BY <1>4, <2>1, <2>2, <2>3 DEF FormInv, Asking
  <2>5. PastInv'
    BY <1>4, <2>1, <2>2 DEF PastInv, Offered, Asking
  <2>6. QED BY <1>4, <2>1, <2>4, <2>5 DEF Fresh, Offered
<1>10. QED BY <1>1, <1>6, <1>7, <1>8, <1>9

LEMMA GetOkFresh == ASSUME IInv, Fresh, GetOk PROVE Fresh'
<1>1. /\ pc = "get" /\ name \in Offers[src] /\ UNCHANGED <<data, torn, offered, since, runs>>
      /\ since = offered /\ PastInv /\ FormInv
  BY DEF GetOk, rest, Fresh
<1>2. CASE seen = None
  <2>1. Deliver(offered[src])
    BY <1>2 DEF GetOk
  <2>2. QED BY <1>1, <2>1, OffersDoc, DeliverFresh DEF Asking
<1>3. CASE seen # None
  <2>1. pc' = "commit" /\ UNCHANGED <<src, name, got, failed, new>>
    BY <1>3 DEF GetOk, local
  <2>2. doc' = doc
    BY <2>1 DEF doc
  <2>3. PastInv' /\ FormInv'
    BY <1>1, <2>1, <2>2 DEF PastInv, FormInv, Offered, Asking
  <2>4. QED BY <1>1, <2>1, <2>3 DEF Fresh, Offered
<1>4. QED BY <1>2, <1>3

\* Only what the mirror does not have is not delivered.
LEMMA GetFailsFresh == ASSUME IInv, Served, Fresh, GetFails, calm' PROVE Fresh'
<1>1. /\ pc = "get" /\ Deliver(Missing) /\ UNCHANGED <<offered, since>>
      /\ name \notin Offers[src]
      /\ since = offered /\ FormInv
  BY DEF GetFails, rest, Fault, Fresh
<1>2. src \in Source /\ name \in File /\ doc \in Doc
  BY <1>1, OneVersion
<1>3. doc \in ListDoc => Gz(doc) \notin Offers[src] /\ Plain(doc) \notin Offers[src]
  <2>1. name = Gz(doc) \/ name = Plain(doc)
    BY <1>2, Forms DEF doc
  <2>2. QED BY <1>1, <2>1 DEF FormInv, Asking
<1>4. doc \notin {"packages", "checksums"}
  BY <1>2, <1>3, ServedIs DEF ListDoc
<1>5. doc = "patches" => Missing = Offered(src).patches
  BY <1>3 DEF ListDoc, Offered
<1>6. QED BY <1>1, <1>4, <1>5, DeliverFresh DEF Asking

LEMMA CommitFresh == ASSUME IInv, Fresh, Commit PROVE Fresh'
<1>1. /\ pc = "commit" /\ UNCHANGED <<data, torn, offered, since, runs>>
      /\ since = offered /\ PastInv /\ FormInv
  BY DEF Commit, rest, Fresh
<1>2. name \in Offers[src] /\ file[src][name] = offered[src]
  BY <1>1, OneVersion DEF IInv, GetInv
<1>3. CASE doc = "changelog"
  <2>1. pc' = "close" /\ UNCHANGED <<src, name, got, failed, new>>
    BY <1>3 DEF Commit, local
  <2>2. doc' = doc
    BY <2>1 DEF doc
  <2>3. PastInv' /\ FormInv'
    BY <1>1, <2>1, <2>2 DEF PastInv, FormInv, Offered, Asking
  <2>4. QED BY <1>1, <2>1, <2>3 DEF Fresh, Offered
<1>4. CASE doc # "changelog"
  <2>1. Deliver(offered[src])
    BY <1>2, <1>4 DEF Commit
  <2>2. QED BY <1>1, <1>2, <2>1, OffersDoc, DeliverFresh DEF Asking
<1>5. QED BY <1>3, <1>4

LEMMA CloseFresh == ASSUME IInv, Fresh, Close PROVE Fresh'
<1>1. /\ pc = "close" /\ Deliver(file[src][name]) /\ UNCHANGED <<offered, since>>
      /\ doc = "changelog"
  BY DEF Close, rest, IInv, GetInv
<1>2. QED BY <1>1, DeliverFresh DEF Asking

\* The signature is of the same version as the checksums, hence not rejected.
LEMMA VerifyFresh == ASSUME IInv, Fresh, Verify PROVE Fresh'
<1>1. /\ pc = "verify" /\ UNCHANGED <<disk, src, new, offered, since, runs>>
      /\ since = offered /\ ~failed /\ PastInv
  BY DEF Verify, rest, Fresh
<1>2. ~Rejected
  BY <1>1, OneVersion DEF PastInv, Rejected
<1>3. ~failed' /\ got' = got /\ pc' = "ask" /\ name' = Gz("changelog")
  <2>1. failed' = FALSE
    BY <1>1, <1>2 DEF Verify
  <2>2. QED BY <1>2, <2>1 DEF Verify
<1>4. doc' = "changelog"
  BY <1>3, Names DEF doc, Doc
<1>5. PastInv' /\ FormInv'
  BY <1>1, <1>3, <1>4 DEF PastInv, FormInv, Offered, ListDoc
<1>6. QED BY <1>1, <1>3, <1>5 DEF Fresh, Offered, disk

LEMMA CollectFresh == ASSUME IInv, Fresh, Collect PROVE Fresh'
<1>1. /\ pc = "collect" /\ pc' = "next" /\ UNCHANGED <<disk, src, name, got, offered, since, runs>>
      /\ since = offered /\ ~failed /\ PastInv
      /\ new = [s \in DOMAIN new |-> Offered(s)]
  BY DEF Collect, rest, Fresh
<1>2. /\ got["packages"] = offered[src] /\ got["checksums"] = offered[src]
      /\ got["patches"] = Offered(src).patches
  <2>1. got["packages"] # Missing /\ got["packages"] \in Window(src) \cup {Missing}
    BY <1>1 DEF IInv, LoopInv, ListInv
  <2>2. QED BY <1>1, <2>1, OneVersion DEF PastInv
<1>3. Lists = Offered(src)
  BY <1>2 DEF Lists, Offered
<1>4. /\ failed' = failed
      /\ new' = [s \in DOMAIN new \cup {src} |-> IF s = src THEN Lists ELSE new[s]]
  BY <1>1, <1>2, OneVersion DEF Collect
<1>5. new' = [s \in DOMAIN new' |-> Offered(s)']
  <2>1. \A s : Offered(s)' = Offered(s)
    BY <1>1 DEF Offered
  <2>2. QED BY <1>1, <1>3, <1>4, <2>1
<1>6. PastInv' /\ FormInv'
  BY <1>1 DEF PastInv, FormInv, Asking
<1>7. QED BY <1>1, <1>4, <1>5, <1>6 DEF Fresh, disk

LEMMA NextSourceFresh == ASSUME Fresh, NextSource PROVE Fresh'
<1>1. /\ pc' = "ask" /\ name' = Gz("packages")
      /\ UNCHANGED <<disk, failed, new, offered, since, runs>>
      /\ since = offered /\ ~failed
  BY DEF NextSource, rest, Fresh
<1>2. doc' = "packages" /\ Gz("packages") # Plain("packages")
  BY <1>1, Names, Forms DEF doc, Doc
<1>3. PastInv' /\ FormInv'
  BY <1>1, <1>2 DEF PastInv, FormInv, ListDoc
<1>4. QED BY <1>1, <1>3 DEF Fresh, Offered, disk

LEMMA AllThereFresh == ASSUME Fresh, AllThere \/ OpenData PROVE Fresh'
<1>1. /\ pc' \in {"open", "write"} /\ UNCHANGED <<local, offered, since, runs>>
      /\ since = offered /\ ~failed
  BY DEF AllThere, OpenData, rest, Fresh
<1>2. PastInv' /\ FormInv'
  BY <1>1 DEF PastInv, FormInv, Asking
<1>3. QED BY <1>1, <1>2 DEF Fresh, Offered, local

LEMMA NoListsIs == NoLists = [s \in DOMAIN NoLists |-> Offered(s)]
<1>1. DOMAIN NoLists = {}
  BY DEF NoLists
<1>2. QED BY <1>1 DEF NoLists

\* What is written is what every source offers.
LEMMA WriteDataFresh == ASSUME IInv, Fresh, WriteData PROVE Fresh'
<1>1. /\ pc = "write" /\ pc' = "idle" /\ data' = new /\ torn' = FALSE
      /\ failed' = FALSE /\ new' = NoLists /\ UNCHANGED <<offered, since>>
      /\ since = offered /\ new = [s \in DOMAIN new |-> Offered(s)]
  BY DEF WriteData, Return, rest, Fresh
<1>2. DOMAIN new = Source
  BY <1>1 DEF IInv, LoopInv
<1>3. \A s : Offered(s)' = Offered(s)
  BY <1>1 DEF Offered
<1>4. DataInv'
  BY <1>1, <1>2, <1>3 DEF DataInv
<1>5. new' = [s \in DOMAIN new' |-> Offered(s)']
  BY <1>1, <1>3, NoListsIs
<1>6. PastInv' /\ FormInv'
  BY <1>1 DEF PastInv, FormInv, Asking
<1>7. QED BY <1>1, <1>4, <1>5, <1>6 DEF Fresh

LEMMA BeginFresh == ASSUME IInv, FreshInv, Begin PROVE Fresh'
<1>1. /\ pc = "idle" /\ pc' = "ask" /\ since' = offered
      /\ UNCHANGED <<disk, local, offered>>
      /\ name = Gz("packages") /\ ~failed
      /\ new = NoLists /\ doc = "packages"
  BY DEF Begin, FreshInv, IInv, LoopInv
<1>2. name' = name /\ failed' = failed /\ new' = NoLists /\ doc' = doc
  BY <1>1 DEF local, doc
<1>3. \A s : Offered(s)' = Offered(s)
  BY <1>1 DEF Offered
<1>4. new' = [s \in DOMAIN new' |-> Offered(s)']
  BY <1>2, <1>3, NoListsIs
<1>5. Gz("packages") # Plain("packages")
  BY Forms DEF Doc
<1>6. PastInv' /\ FormInv'
  BY <1>1, <1>2, <1>5 DEF PastInv, FormInv, ListDoc
<1>7. QED BY <1>1, <1>2, <1>4, <1>6 DEF Fresh

\* Every update starts with the packages of the first source.
LEMMA IdleKept ==
  ASSUME FreshInv, Next, pc' = "idle"
  PROVE  name' = Gz("packages") /\ ~failed'
<1>1. ASSUME NEW v, Deliver(v) PROVE pc' # "idle"
  BY <1>1 DEF Deliver
<1>2. CASE Fetch
  BY <1>1, <1>2 DEF Fetch, Ask, Cached, NoChangelog, Open, FallBack, GetOk, GetFails, Commit,
     Close
<1>3. CASE Begin \/ Verify \/ Collect \/ NextSource \/ AllThere \/ OpenData
  BY <1>3 DEF Begin, Verify, Collect, NextSource, AllThere, OpenData
<1>4. CASE GivenUp \/ WriteData \/ Kill
  BY <1>4 DEF GivenUp, WriteData, Kill, Return
<1>5. CASE MirrorChanges
  BY <1>5 DEF MirrorChanges, local, FreshInv
<1>6. QED BY <1>2, <1>3, <1>4, <1>5 DEF Next, Update

LEMMA FreshKept == ASSUME IInv, FreshInv, [Next]_vars PROVE FreshInv'
<1>1. CASE Next
  <2>1. Served' = Served
    BY DEF Served, CanServe
  <2>2. ASSUME calm', Served PROVE Fresh'
    <3>1. CASE Begin
      BY <3>1, BeginFresh
    <3>2. CASE MirrorChanges \/ Kill
      BY <2>2, <3>2 DEF MirrorChanges, Kill, Fault
    <3>3. CASE Fetch \/ Verify \/ Collect \/ NextSource \/ GivenUp \/ AllThere \/ OpenData
               \/ WriteData
      <4>1. calm' = calm \/ calm' = FALSE
        BY <3>3 DEF Fetch, Ask, GetOk, GetFails, Commit, Close, Verify, Collect, NextSource,
           GivenUp, AllThere, OpenData, WriteData, NoFault, Fault
      <4>2. Fresh
        BY <2>2, <4>1 DEF FreshInv
      <4>3. ~GivenUp
        BY <4>2 DEF GivenUp, Fresh
      <4>4. QED BY <2>2, <3>3, <4>2, <4>3, AskFresh, GetOkFresh, GetFailsFresh, CommitFresh,
               CloseFresh, VerifyFresh, CollectFresh, NextSourceFresh, AllThereFresh,
               WriteDataFresh DEF Fetch
    <3>4. QED BY <1>1, <3>1, <3>2, <3>3 DEF Next, Update
  <2>3. QED BY <1>1, <2>1, <2>2, IdleKept DEF FreshInv
<1>2. CASE UNCHANGED vars
  <2>1. UNCHANGED <<offered, file, head, data, torn, pc, src, name, seen, got, failed, new,
                    runs, since, calm>>
    BY <1>2 DEF vars, disk, local
  <2>2. doc' = doc /\ (\A s : Offered(s)' = Offered(s)) /\ Served' = Served
    BY <2>1 DEF doc, Offered, Served, CanServe
  <2>3. Fresh => Fresh'
    BY <2>1, <2>2 DEF Fresh, PastInv, FormInv, DataInv
  <2>4. QED BY <2>1, <2>2, <2>3 DEF FreshInv
<1>3. QED BY <1>1, <1>2

LEMMA InitFresh == ASSUME Init PROVE FreshInv
<1>1. /\ pc = "idle" /\ name = Gz("packages") /\ ~failed /\ new = NoLists /\ runs = 0
      /\ since = offered
  BY DEF Init
<1>2. PastInv /\ FormInv
  BY <1>1 DEF PastInv, FormInv, Asking
<1>3. QED BY <1>1, <1>2, NoListsIs DEF FreshInv, Fresh

-----------------------------------------------------------------------------
(* Theorems. *)

\* The variables of an update keep the values the code gives them, whatever
\* the sources offer and however often it runs.
THEOREM DataTypeOK == NoHeadAndKill => (Spec => []TypeOK)
<1> SUFFICES ASSUME NoHeadAndKill PROVE Spec => []TypeOK
  OBVIOUS
<1>1. IInv => TypeOK
  BY DEF IInv
<1>2. Spec => []IInv
  BY Invariant
<1>3. QED BY <1>1, <1>2, PTL

\* A file that slapt-get takes instead of a download, because its head cache
\* is the mirror's head, is whole and what the mirror offers, for any number
\* of sources, updates, failed downloads and kills.
THEOREM DataCachedIsCurrent == NoHeadAndKill => (Spec => []CachedIsCurrent)
<1> SUFFICES ASSUME NoHeadAndKill PROVE Spec => []CachedIsCurrent
  OBVIOUS
<1>1. IInv => CachedIsCurrent
  BY DEF IInv
<1>2. Spec => []IInv
  BY Invariant
<1>3. QED BY <1>1, <1>2, PTL

\* package_data is replaced as a whole, by lists of every source that its
\* mirror offered while the update ran: every update implements the promise.
THEOREM DataKeepsPackageData == NoHeadAndKill => (Spec => KeepsPackageData)
<1> SUFFICES ASSUME NoHeadAndKill PROVE Spec => KeepsPackageData
  OBVIOUS
<1>1. Init => Promise!PromiseInit
  BY DEF Init, Promise!PromiseInit, NoLists, Promise!NoLists
<1>2. IInv /\ [Next]_vars => [Promise!PromiseNext]_(Promise!promiseVars)
  BY PromiseStep
<1>3. Spec => []IInv
  BY Invariant
<1>4. QED BY <1>1, <1>2, <1>3, PTL DEF Spec, KeepsPackageData, Promise!PromiseSpec

\* After an update that no fault and no change of a mirror disturbs,
\* package_data holds exactly what the sources offer, for any number of them,
\* whatever files, head caches and package_data earlier updates left behind.
THEOREM DataUndisturbedIsFresh == NoHeadAndKill => (Spec => []UndisturbedIsFresh)
<1> SUFFICES ASSUME NoHeadAndKill PROVE Spec => []UndisturbedIsFresh
  OBVIOUS
<1>1. Init => FreshInv
  BY InitFresh
<1>2. IInv /\ FreshInv /\ [Next]_vars => FreshInv'
  BY FreshKept
<1>3. FreshInv => UndisturbedIsFresh
  BY DEF FreshInv, Fresh, DataInv, Served, UndisturbedIsFresh
<1>4. Spec => []IInv
  BY Invariant
<1>5. QED BY <1>1, <1>2, <1>3, <1>4, PTL DEF Spec
=============================================================================
