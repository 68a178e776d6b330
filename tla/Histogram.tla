------------------------------ MODULE Histogram ------------------------------
(***************************************************************************)
(* The histogram of pkg/kwok/metrics/histogram.go.  Set stores a number    *)
(* of observations per upper bound ("le"); Write turns what is stored into *)
(* the cumulative counts of the visible buckets and of the last bucket,    *)
(* +Inf.  A hidden bucket is stored and not shown.                         *)
(***************************************************************************)
EXTENDS Naturals, Sequences, FiniteSets, FiniteSetsExt, SequencesExt

(* The upper bounds a histogram is made with: the visible ones, sorted.    *)
NewHistogram(bs) ==
    SetToSortSeq({bs[i].le : i \in {j \in DOMAIN bs : ~bs[j].hidden}}, <)

(* What updateHistogram has stored when it is through with the buckets of  *)
(* a metric: the last bucket of a bound wins.                              *)
SetAll(bs) ==
    [le \in {bs[i].le : i \in DOMAIN bs} |->
        bs[Max({i \in DOMAIN bs : bs[i].le = le})].value]

(* The bucket a bound belongs to, counting from bucket i: Len(bounds) + 1  *)
(* is +Inf.                                                                *)
Bucket(bounds, i, le) ==
    Min({Len(bounds) + 1} \cup {j \in i..Len(bounds) : le <= bounds[j]})

(* One turn of Write's loop.  Every bucket that is passed on the way to    *)
(* the bucket of le takes over the count so far.                           *)
WriteOne(bounds, stored, w, le) ==
    LET j == Bucket(bounds, w.index, le)
        passed == [k \in DOMAIN w.counts |->
                      w.counts[k] + (IF k \in (w.index + 1)..j THEN w.count ELSE 0)]
    IN  [index |-> j,
         counts |-> [passed EXCEPT ![j] = @ + stored[le]],
         count |-> w.count + stored[le],
         sum |-> w.sum + le * stored[le]]

Write(bounds, stored) ==
    FoldLeft(LAMBDA w, le : WriteOne(bounds, stored, w, le),
             [index |-> 1, counts |-> [k \in 1..(Len(bounds) + 1) |-> 0],
              count |-> 0, sum |-> 0],
             SetToSortSeq(DOMAIN stored, <))

(* What the documentation promises of the bucket of a bound: it contains   *)
(* everything up to the bound, hidden buckets included.                    *)
UpTo(stored, le) == MapThenSumSet(LAMBDA b : stored[b], {b \in DOMAIN stored : b <= le})
=============================================================================
