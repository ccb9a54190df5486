--------------------------- MODULE IntervalUnion ---------------------------
(***************************************************************************)
(* normalize_intervals of the delivery ledger: the union of half-open byte *)
(* intervals <<start, end>> as a sorted sequence of maximal intervals.     *)
(* The spec feeds it every set of intervals over 0..Limit, one at a time.  *)
(***************************************************************************)
EXTENDS Integers, FiniteSets, Sequences, SequencesExt

\* The order of Python tuples.
Before(iv, jv) == iv[1] < jv[1] \/ (iv[1] = jv[1] /\ iv[2] <= jv[2])

\* Mutant: intervals that touch are not merged.
MergeOverlapOnly(merged, iv) ==
    IF merged = <<>> \/ iv[1] >= Last(merged)[2]
    THEN Append(merged, iv)
    ELSE [merged EXCEPT ![Len(merged)] =
             <<@[1], IF iv[2] > @[2] THEN iv[2] ELSE @[2]>>]

\* One turn of the loop.
MergeStep(merged, iv) ==
    IF merged = <<>> \/ iv[1] > Last(merged)[2]
    THEN Append(merged, iv)
    ELSE [merged EXCEPT ![Len(merged)] =
             <<@[1], IF iv[2] > @[2] THEN iv[2] ELSE @[2]>>]

\* Filter, sort, and merge from the left: the last interval in order is merged
\* into the result for the others.
NormalizeIntervals(ivs) ==
    LET kept == {iv \in ivs : iv[2] > iv[1]}
        merged[rest \in SUBSET kept] ==
            IF rest = {} THEN <<>>
            ELSE LET last == CHOOSE iv \in rest : \A jv \in rest : Before(jv, iv)
                 IN  MergeStep(merged[rest \ {last}], last)
    IN  merged[kept]

\* The bytes of an interval and of a set of intervals.
Bytes(iv) == iv[1]..(iv[2] - 1)
BytesOf(ivs) == UNION {Bytes(iv) : iv \in ivs}
=============================================================================
