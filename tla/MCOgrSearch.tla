----------------------------- MODULE MCOgrSearch -----------------------------
(* Small instances of OgrSearch: rulers of 5 to 7 marks, bitmaps of two words. *)
EXTENDS OgrSearch, FiniteSetsExt, Sequences

\* The best lengths, but for 7 marks: 27 is the best one known, and a shorter ruler
\* (the best one has length 25) is what the search is for.
MCLengths == <<0, 1, 3, 6, 11, 17, 27>>

\* The first increments of the rows of ogrng_choose_datas (ogrng_dat.cpp) for
\* the sets of distances 1 to 3, summed up as ogr_init_choose() does.
Increments(D) ==
  CASE D = {}        -> <<1, 2, 3, 5>>
    [] D = {3}       -> <<1, 4, 2, 6>>
    [] D = {2}       -> <<1, 3, 4, 5>>
    [] D = {2, 3}    -> <<1, 4, 5, 6>>
    [] D = {1}       -> <<2, 3, 4, 5>>
    [] D = {1, 3}    -> <<2, 4, 5, 6>>
    [] D = {1, 2}    -> <<3, 4, 5, 6>>
    [] D = {1, 2, 3} -> <<4, 5, 6, 7>>

MCChoose ==
  [D \in SUBSET (1 .. 3) |->
     [m \in 0 .. 4 |-> MapThenSumSet(LAMBDA k : Increments(D)[k], 1 .. m)]]

Stub(n, ds, combined) ==
  [marks |-> n, length |-> Len(ds), worklength |-> 0,
   diffs |-> [k \in 1 .. OGR_STUB_MAX |-> IF k <= Len(ds) THEN ds[k] ELSE 0],
   collapsed |-> IF combined THEN ds[Len(ds)] ELSE 0]

\* Whole trees, combined and plain stubs, stubs of many rulers, of a single one and
\* of none, stubs with a repeated distance, stubs past the limit, and numbers of
\* marks the core does not search.
MCStubs ==
  {Stub(n, <<d>>, TRUE) : n \in 5 .. 6, d \in {2, 5}}
    \cup {Stub(n, <<d>>, FALSE) : n \in 5 .. 6, d \in {1, 9}}
    \cup {Stub(7, <<2, 3>>, TRUE), Stub(7, <<5, 2>>, FALSE), Stub(7, <<3, 5>>, FALSE),
          Stub(7, <<1, 6>>, FALSE), Stub(7, <<3, 3>>, FALSE)}
    \cup {Stub(n, <<1, 3>>, TRUE) : n \in {4, 8}}

\* All Golomb rulers of n marks that are not longer than the best one known: behind
\* the first k marks there must be room for n - k segments that all differ, and
\* the distances, in both directions, must differ.
MCRulers ==
  LET Grow[n \in Nat, k \in Nat] ==    \* those of their first k marks, as functions
        IF k = 1 THEN {[i \in {0} |-> 0]}
        ELSE {r \in {[i \in 0 .. k - 1 |-> IF i < k - 1 THEN q[i] ELSE q[k - 2] + s] :
                       q \in Grow[n, k - 1], s \in 1 .. MCLengths[n]} :
                /\ r[k - 1] + ((n - k) * (n - k + 1)) \div 2 <= MCLengths[n]
                /\ Cardinality({r[b] - r[a] : a, b \in 0 .. k - 1}) = k * (k - 1) + 1}
  IN [n \in OGR_NG_MIN .. OGR_NG_MAX |-> Grow[n, n]]
==============================================================================
