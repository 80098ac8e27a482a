----------------------------- MODULE PackageList -----------------------------
(***************************************************************************)
(* From the lists of the sources to package_data and back: a PACKAGES.TXT  *)
(* is parsed (slapt_parse_packages_txt), gets its checksums                *)
(* (slapt_get_md5sums), and the packages of all sources are sorted and     *)
(* written as one list (slapt_update_pkg_cache, slapt_write_pkg_data),     *)
(* which every later invocation parses again; all in src/src/package.c.    *)
(* The writer may be killed at any byte, and nothing keeps another process *)
(* from reading what is there so far.                                      *)
(*                                                                         *)
(* A line is its kind, for the marker it begins with, and the value that   *)
(* follows, Malformed if the pattern of that kind does not match it.  A    *)
(* file is its lines and whether the last one ends in a newline.           *)
(***************************************************************************)
EXTENDS ListOps, Functions

CONSTANTS Sources,    \* what the sources may offer: sequences of lists
          Splits,     \* name and version of each file name, as the numbers
                      \* that strcmp and slapt_pkg_t_cmp_versions see
          Malformed,  \* no value; also no location and one with ".."
          OutOfRange  \* a priority too large, a checksum too long

VARIABLES sources, \* the lists and checksums that have been downloaded
          at,      \* the source that is read next
          pkgs,    \* new_pkgs
          data,    \* package_data
          todo,    \* what is left to be written to it
          pc       \* where slapt_update_pkg_cache is

vars == <<sources, at, pkgs, data, todo, pc>>

\* A field without a text.
NULL == ""

Value(v) == v # Malformed /\ v # OutOfRange

ASSUME TextAssumption ==
  /\ Value(NULL) /\ Value("0") /\ NULL # "cut" /\ Malformed # OutOfRange
  /\ \A f \in DOMAIN Splits : Splits[f] \in [name : Int, version : Int]

Line(k, v) == [kind |-> k, val |-> v]
Blank == Line("blank", NULL)
Empty == [lines |-> <<>>, ended |-> TRUE]

\* The pattern of a file name lets only those through that have the parts of
\* a version.
IsFile(f) ==
  /\ f.lines \in Seq(Range(f.lines)) /\ f.ended \in BOOLEAN
  /\ \A l \in Range(f.lines) :
       /\ l.kind = "name" /\ l.val # Malformed => l.val \in DOMAIN Splits
       /\ l.val = OutOfRange => l.kind \in {"priority", "md5"}

IsEntry(e) == e.file \in DOMAIN Splits /\ Value(e.sum)

ASSUME SourcesAssumption ==
  \A srcs \in Sources :
    /\ srcs \in Seq(Range(srcs))
    /\ \A s \in Range(srcs) :
         /\ IsFile(s.list) /\ Value(s.url) /\ Value(s.priority)
         /\ s.sums \in Seq(Range(s.sums)) /\ \A e \in Range(s.sums) : IsEntry(e)

-----------------------------------------------------------------------------
(* slapt_parse_packages_txt *)

Marked(f, i, kind) == i \in DOMAIN f.lines /\ f.lines[i].kind = kind
Given(f, i, kind) == Marked(f, i, kind) /\ f.lines[i].val # Malformed
Val(f, i, kind, default) == IF Given(f, i, kind) THEN f.lines[i].val ELSE default

\* These lines are consumed even if they have no value.
Lenient == {"required", "conflicts", "suggests", "md5"}

\* Mutant of Past: no seek back to the beginning of the line.
Past_without_seek(f, i, kind) == IF i \in DOMAIN f.lines THEN i + 1 ELSE i

\* The position after an optional line, if it is there.
Past(f, i, kind) ==
  IF Given(f, i, kind) \/ (kind \in Lenient /\ Marked(f, i, kind)) THEN i + 1 ELSE i

\* Where the fields of the record are looked for whose name is in line i.
Slots(f, i) ==
  LET priority == Past(f, i + 1, "mirror")
      location == Past(f, priority, "priority")
      conflicts == Past(f, location + 3, "required")
      suggests == Past(f, conflicts, "conflicts")
      md5 == Past(f, suggests, "suggests")
  IN  [mirror |-> i + 1, priority |-> priority,
       location |-> location, size_c |-> location + 1, size_u |-> location + 2,
       required |-> location + 3, conflicts |-> conflicts, suggests |-> suggests,
       md5 |-> md5, desc |-> Past(f, md5, "md5")]

\* Mutant of Faults: a checksum may have any length.
Faults_any_length(f, slots) ==
  {slots[k] : k \in {l \in {"location", "size_c", "size_u", "desc"} : ~Given(f, slots[l], l)}}
    \cup {slots[k] : k \in {l \in {"priority"} : Val(f, slots[l], l, NULL) = OutOfRange}}

\* The lines for which a record is dropped.
Faults(f, slots) ==
  {slots[k] : k \in {l \in {"location", "size_c", "size_u", "desc"} : ~Given(f, slots[l], l)}}
    \cup {slots[k] : k \in {l \in {"priority", "md5"} : Val(f, slots[l], l, NULL) = OutOfRange}}

\* The description: up to a blank line or the end of the file.
DescEnd(f, i) ==
  Min({j \in DOMAIN f.lines : j > i /\ f.lines[j] = Blank} \cup {Len(f.lines) + 1})

Description(f, i) ==
  [lines |-> SubSeq(f.lines, i + 1, DescEnd(f, i) - 1),
   ended |-> f.ended \/ DescEnd(f, i) <= Len(f.lines)]

Package(f, i, slots) ==
  [file |-> f.lines[i].val,
   mirror |-> Val(f, slots.mirror, "mirror", NULL),
   priority |-> Val(f, slots.priority, "priority", "0"),
   location |-> f.lines[slots.location].val,
   sizes |-> <<f.lines[slots.size_c].val, f.lines[slots.size_u].val>>,
   required |-> Val(f, slots.required, "required", NULL),
   conflicts |-> Val(f, slots.conflicts, "conflicts", NULL),
   suggests |-> Val(f, slots.suggests, "suggests", NULL),
   md5 |-> Val(f, slots.md5, "md5", NULL),
   description |-> Description(f, slots.desc)]

\* A record that is dropped is left behind up to the line that was at fault.
Record(f, i) ==
  LET slots == Slots(f, i)
      faults == Faults(f, slots)
  IN  IF faults = {}
        THEN [found |-> <<Package(f, i, slots)>>, next |-> DescEnd(f, slots.desc) + 1]
        ELSE [found |-> <<>>, next |-> Min(faults) + 1]

ParsePackagesTxt(f) ==
  LET n == Len(f.lines)
      from[i \in 1..(n + 2)] ==
        IF i > n THEN <<>>
        ELSE IF ~Given(f, i, "name") THEN from[i + 1]
        ELSE LET r == Record(f, i) IN r.found \o from[r.next]
  IN  from[1]

-----------------------------------------------------------------------------
(* slapt_get_md5sums: an entry goes to the first package it matches. *)

\* Mutant of Matches: the location is not compared.
Matches_anywhere(e, p) == Splits[p.file] = Splits[e.file]

Matches(e, p) == Splits[p.file] = Splits[e.file] /\ p.location = e.location

Enter(list, e) ==
  LET matching == {i \in DOMAIN list : Matches(e, list[i])}
  IN  IF matching = {} THEN list ELSE [list EXCEPT ![Min(matching)].md5 = e.sum]

GetMd5sums(list, sums) == FoldLeft(LAMBDA ps, e : Enter(ps, e), list, sums)

\* The packages of a source: with the mirror the list names, if it does.
Collected(s) ==
  LET list == GetMd5sums(ParsePackagesTxt(s.list), s.sums)
  IN  [i \in DOMAIN list |->
         [list[i] EXCEPT !.mirror = IF @ = NULL THEN s.url ELSE @,
                         !.priority = s.priority]]

-----------------------------------------------------------------------------
(* slapt_write_pkg_data *)

\* Shorter than the name of the package.
IsShort(d) ==
  Len(d.lines) = 0 \/ (Len(d.lines) = 1 /\ d.lines[1] = Line("text", "short"))

\* One is made up if it is too short.
DescText(d) == IF IsShort(d) THEN <<Line("text", "no description")>> ELSE d.lines

\* Mutant of DescLines: no blank line after the description that is made up.
DescLines_run_on(d) == DescText(d) \o (IF ~IsShort(d) /\ d.ended THEN <<Blank>> ELSE <<>>)

\* A newline after the description.
DescLines(d) == DescText(d) \o (IF IsShort(d) \/ d.ended THEN <<Blank>> ELSE <<>>)

\* Mutant of Lines: the checksum comes after the description.
Lines_md5_last(p) ==
  <<Line("name", p.file), Line("mirror", p.mirror), Line("priority", p.priority),
    Line("location", p.location), Line("size_c", p.sizes[1]), Line("size_u", p.sizes[2]),
    Line("required", p.required), Line("conflicts", p.conflicts),
    Line("suggests", p.suggests), Line("desc", NULL)>> \o
  DescLines(p.description) \o <<Line("md5", p.md5)>>

Lines(p) ==
  <<Line("name", p.file), Line("mirror", p.mirror), Line("priority", p.priority),
    Line("location", p.location), Line("size_c", p.sizes[1]), Line("size_u", p.sizes[2]),
    Line("required", p.required), Line("conflicts", p.conflicts),
    Line("suggests", p.suggests), Line("md5", p.md5), Line("desc", NULL)>> \o
  DescLines(p.description)

-----------------------------------------------------------------------------
(* slapt_update_pkg_cache, once everything has been downloaded *)

Init ==
  /\ sources \in Sources
  /\ at = 1
  /\ pkgs = <<>> /\ data = Empty /\ todo = <<>>
  /\ pc = "collect"

Collect ==
  /\ pc = "collect" /\ at \in DOMAIN sources
  /\ pkgs' = pkgs \o Collected(sources[at])
  /\ at' = at + 1
  /\ UNCHANGED <<sources, data, todo, pc>>

\* slapt_pkg_t_qsort_cmp; what it tells apart by the version alone may come in
\* any order here.
SortsBefore(p, q) ==
  LET s == Splits[p.file]
      t == Splits[q.file]
  IN  s.name < t.name \/ (s.name = t.name /\ s.version < t.version)

Sorts(list) ==
  LET D == DOMAIN list
  IN  {s \in {[i \in D |-> list[b[i]]] : b \in Bijection(D, D)} :
         \A i, j \in D : i < j => ~SortsBefore(s[j], s[i])}

\* The list is sorted and package_data is emptied.
OpenData ==
  /\ pc = "collect" /\ at > Len(sources)
  /\ pkgs' \in Sorts(pkgs)
  /\ data' = Empty
  /\ todo' = Concat([i \in DOMAIN pkgs |-> Lines(pkgs'[i])])
  /\ pc' = "write"
  /\ UNCHANGED <<sources, at>>

WriteLine ==
  /\ pc = "write" /\ todo # <<>>
  /\ data' = [data EXCEPT !.lines = Append(@, Head(todo))]
  /\ todo' = Tail(todo)
  /\ UNCHANGED <<sources, at, pkgs, pc>>

Close ==
  /\ pc = "write" /\ todo = <<>>
  /\ pc' = "done"
  /\ UNCHANGED <<sources, at, pkgs, data, todo>>

\* What may be left of a line: part of its marker, the marker alone, part of
\* the value, all but the newline.
Cuts(l) ==
  {Line("text", "cut"), Line(l.kind, Malformed), Line(l.kind, "cut"), l}

\* The process is killed; a last line may be incomplete.
Kill ==
  /\ pc = "write"
  /\ data' \in {data} \cup
       (IF todo = <<>> \/ Head(todo) = Blank THEN {}
        ELSE {[lines |-> Append(data.lines, l), ended |-> FALSE] : l \in Cuts(Head(todo))})
  /\ pc' = "killed"
  /\ UNCHANGED <<sources, at, pkgs, todo>>

Next == Collect \/ OpenData \/ WriteLine \/ Close \/ Kill

Spec == Init /\ [][Next]_vars

-----------------------------------------------------------------------------
(* What a list says, whatever way it is read. *)

FieldOrder ==
  <<"name", "mirror", "priority", "location", "size_c", "size_u",
    "required", "conflicts", "suggests", "md5", "desc">>
Mandatory == {"name", "location", "size_c", "size_u", "desc"}

\* A block ends before a blank line or with the file.
BlockEnd(f, i) ==
  Min({j \in DOMAIN f.lines : j >= i /\ f.lines[j] = Blank} \cup {Len(f.lines) + 1}) - 1

\* The lines of a record from its name in line i to its description.
Headers(f, i) ==
  LET D == {d \in i..BlockEnd(f, i) : f.lines[d].kind = "desc"}
  IN  IF D = {} THEN <<>> ELSE SubSeq(f.lines, i, Min(D))

Ordered(ranks) ==
  \A x \in DOMAIN ranks : ranks[x] > 0 /\ (x > 1 => ranks[x - 1] < ranks[x])

\* Each line is there at most once, in its order, none that is needed is
\* missing, and what they say can be used.
WellFormed(h) ==
  /\ Ordered([x \in DOMAIN h |-> SelectInSeq(FieldOrder, LAMBDA k : k = h[x].kind)])
  /\ Mandatory \subseteq {h[x].kind : x \in DOMAIN h}
  /\ \A x \in DOMAIN h :
       /\ h[x].val = Malformed => h[x].kind \in Lenient
       /\ h[x].kind \in {"priority", "md5"} => h[x].val # OutOfRange

Said(h, k, default) ==
  LET S == {x \in DOMAIN h : h[x].kind = k /\ h[x].val # Malformed}
  IN  IF S = {} THEN default ELSE h[Min(S)].val

Stated(f, i) ==
  LET h == Headers(f, i)
      from == i + Len(h)
  IN  [file |-> Said(h, "name", NULL), mirror |-> Said(h, "mirror", NULL),
       priority |-> Said(h, "priority", "0"), location |-> Said(h, "location", NULL),
       sizes |-> <<Said(h, "size_c", NULL), Said(h, "size_u", NULL)>>,
       required |-> Said(h, "required", NULL), conflicts |-> Said(h, "conflicts", NULL),
       suggests |-> Said(h, "suggests", NULL), md5 |-> Said(h, "md5", NULL),
       description |-> [lines |-> SubSeq(f.lines, from, BlockEnd(f, i)),
                        ended |-> f.ended \/ BlockEnd(f, i) < Len(f.lines)]]

\* Where a record may begin, and where it does: the first name of a block.
Names(f) == {i \in DOMAIN f.lines : Given(f, i, "name") /\ WellFormed(Headers(f, i))}
FirstNames(f) ==
  {i \in Names(f) : \A j \in 1..(i - 1) : f.lines[j].kind = "name" => BlockEnd(f, j) < i}

-----------------------------------------------------------------------------
(* Properties. *)

\* Packages have values in all fields that a record cannot do without, and a
\* priority and a checksum within their limits.
TypeOK ==
  /\ sources \in Sources /\ at \in 1..(Len(sources) + 1)
  /\ pc \in {"collect", "write", "done", "killed"}
  /\ \A p \in Range(pkgs) \cup Range(ParsePackagesTxt(data)) :
       /\ p.file \in DOMAIN Splits
       /\ \A v \in {p.mirror, p.priority, p.location, p.md5} : Value(v)

\* A malformed record costs only itself: in a list of a source, as in what
\* there is of package_data, each record that comes first after a blank line
\* is found, whatever came before it, and what is found stands there as one
\* record: the fields of two are never mixed.
RecordsAreFound ==
  \A f \in IF pc = "collect" THEN {s.list : s \in Range(sources)} ELSE {data} :
    LET found == Range(ParsePackagesTxt(f))
    IN  /\ {Stated(f, i) : i \in FirstNames(f)} \subseteq found
        /\ found \subseteq {Stated(f, i) : i \in Names(f)}

\* However package_data was left, and whatever the descriptions were, it gives
\* packages that the sources offer, with their own mirror, priority and
\* checksum.
NothingInvented ==
  pc # "collect" =>
    \A q \in Range(ParsePackagesTxt(data)) :
      \E p \in Range(pkgs) : q = [p EXCEPT !.description = q.description]

\* What is read back is what was written: in the end all packages, before that
\* and after a kill the first of them, of which the last may miss some of its
\* description; if no description lacks the newline at its end.
TornIsPrefix ==
  pc # "collect" /\ (\A p \in Range(pkgs) : p.description.ended) =>
    LET read == ParsePackagesTxt(data)
        written == [i \in DOMAIN pkgs |->
                      [pkgs[i] EXCEPT !.description.lines = DescText(pkgs[i].description)]]
        n == Len(read)
    IN  /\ n <= Len(pkgs)
        /\ \A i \in 1..(n - 1) : read[i] = written[i]
        /\ n > 0 => read[n] = [written[n] EXCEPT !.description = read[n].description]
        /\ pc = "done" => read = written

\* FAQ #52: each package is matched with its own entry of CHECKSUMS.md5, and
\* one that has none is left with what the list says.  So it is where no two
\* files that look alike to slapt_pkg_t_cmp_versions share a location.
LookAlike(x, y) == Splits[x.file] = Splits[y.file] /\ x.location = y.location

OwnChecksum ==
  \A s \in IF pc = "collect" THEN Range(sources) ELSE {} :
    LET list == ParsePackagesTxt(s.list)
        both == Range(list) \cup Range(s.sums)
    IN  (\A x, y \in both : LookAlike(x, y) => x.file = y.file) =>
          \A i \in DOMAIN list :
            LET own == {e \in Range(s.sums) : e.file = list[i].file /\ e.location = list[i].location}
                first == \A j \in 1..(i - 1) : ~LookAlike(list[j], list[i])
            IN  Collected(s)[i].md5 \in
                  IF own = {} \/ ~first THEN {list[i].md5} ELSE {e.sum : e \in own}
=============================================================================
