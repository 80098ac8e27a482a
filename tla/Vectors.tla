------------------------------- MODULE Vectors -------------------------------
(***************************************************************************)
(* slapt_vector_t (src/src/common.c): the members and whether they are in  *)
(* the order of the comparison they are searched with.  A comparison       *)
(* gives a negative number, 0 or a positive number; it is a function of    *)
(* two members, or of one for what a search looks for.                     *)
(***************************************************************************)
EXTENDS ListOps

\* slapt_vector_t_sort: qsort may leave equal members in any order.
SortedVectors(S, cmp) ==
  {[items |-> s, sorted |-> S # {}] :
     s \in {t \in SetToSeqs(S) :
              \A i, j \in DOMAIN t : i < j => cmp[<<t[i], t[j]>>] <= 0}}

\* slapt_filter_pkg_list: what is kept is added to a new vector, which is not
\* marked as sorted.
Selected(v, keep) ==
  [items |-> Keep(v.items, keep), sorted |-> FALSE]

\* slapt_vector_t_index_of in a sorted vector, from 0; -1 if there is none.
BinarySearch(v, key) ==
  LET n == Len(v.items)
      find[r \in (0..n) \X (0..n)] ==
        LET low == r[1]
            high == r[2]
            pivot == low + (high - low) \div 2
            c == key[v.items[pivot + 1]]
        IN  IF low >= high THEN -1
            ELSE IF c = 0 THEN pivot
            ELSE IF c < 0 THEN find[<<pivot + 1, high>>] ELSE find[<<low, pivot>>]
  IN  find[<<0, n>>]

\* slapt_vector_t_search: the members around the one found that match, too.
Found(v, key) ==
  LET i == BinarySearch(v, key)
      AllMatch(from, to) == \A k \in from..to : key[v.items[k + 1]] = 0
      start == Min({k \in 0..i : AllMatch(k, i)})
      end == Max({k \in i..(Len(v.items) - 1) : AllMatch(i, k)})
  IN  IF i < 0 THEN <<>> ELSE SubSeq(v.items, start + 1, end + 1)

VectorSearch(v, key) ==
  IF v.sorted THEN Found(v, key)
  ELSE Keep(v.items, {x \in Range(v.items) : key[x] = 0})
=============================================================================
