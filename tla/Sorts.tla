------------------------------- MODULE Sorts -------------------------------
(***************************************************************************)
(* The program of Sort/main_sort.c: it keeps an array aside, restores it   *)
(* and hands it to one sort after the other.  Arrays are functions from    *)
(* the indexes of C; what a loop finds or places is stated by its place.   *)
(***************************************************************************)
EXTENDS Integers, FiniteSets, SequencesExt

CONSTANTS Ints,        \* what the arrays hold
          MaxLen,      \* of an array
          MaxSpread,   \* count_sort's 10000
          Garbage      \* what malloc leaves in memory

VARIABLES b,     \* the array that was given
          ptr,   \* the array that is sorted
          ran    \* the sort that has run on it, if any

vars == <<b, ptr, ran>>

Arrays == UNION {[0..(n - 1) -> Ints] : n \in 1..MaxLen}
len == Cardinality(DOMAIN b)

TypeOK == /\ b \in Arrays
          /\ ran = "none" => ptr = b

\* The indexes from i up to j, and from i down to j.
Up(i, j) == [k \in 1..(j - i + 1) |-> i + k - 1]
Down(i, j) == [k \in 1..(i - j + 1) |-> i - k + 1]

Least(S) == CHOOSE x \in S : \A y \in S : x <= y
Greatest(S) == CHOOSE x \in S : \A y \in S : x >= y

Swap(a, i, j) == [a EXCEPT ![i] = a[j], ![j] = a[i]]

-----------------------------------------------------------------------------
\* By exchanges and insertions.
bubble_sort(a) ==
    LET Exchange(c, j) == IF c[j] > c[j + 1] THEN Swap(c, j, j + 1) ELSE c
        Pass(c, i) == FoldLeft(Exchange, c, Up(0, len - i - 2))
    IN  FoldLeft(Pass, a, Up(0, len - 2))

select_sort(a) ==
    LET Select(c, i) == Least({j \in i..(len - 1) : \A k \in i..(len - 1) : c[j] <= c[k]})
    IN  FoldLeft(LAMBDA c, i : Swap(c, i, Select(c, i)), a, Up(0, len - 2))

\* The value at j goes before all greater ones that it meets gap by gap.
Inserted(a, j, gap) ==
    LET Steps == {m \in 0..(j \div gap) : \A i \in 1..m : a[j - i * gap] > a[j]}
        k == j - Greatest(Steps) * gap
    IN  [p \in DOMAIN a |->
            IF p = k THEN a[j]
            ELSE IF p > k /\ p <= j /\ (j - p) % gap = 0 THEN a[p - gap]
            ELSE a[p]]

InsertedAll(a, gap) == FoldLeft(LAMBDA c, j : Inserted(c, j, gap), a, Up(gap, len - 1))

insert_sort(a) == InsertedAll(a, 1)

shell_insert_sort(a) ==
    FoldLeft(InsertedAll, a,
             SelectSeq([k \in 1..len |-> len \div 2^k], LAMBDA gap : gap > 0))

\* The gaps are the numbers 2^k - 1 from the last one below the length downwards.
shell_insert_sort_partitionbyprime(a) ==
    FoldLeft(InsertedAll, a,
             SelectSeq([k \in 1..len |-> 2^(len - k) - 1], LAMBDA gap : gap > 0 /\ gap < len))

-----------------------------------------------------------------------------
\* By a heap.
RECURSIVE heap_shift_down(_, _, _)
heap_shift_down(a, n, parent) ==
    LET left == 2 * parent + 1
        son == IF left + 1 < n /\ a[left + 1] > a[left] THEN left + 1 ELSE left
    IN  IF left >= n \/ a[parent] > a[son] THEN a
        ELSE heap_shift_down(Swap(a, parent, son), n, son)

heap_sort(a) ==
    LET heap == FoldLeft(LAMBDA c, i : heap_shift_down(c, len, i), a, Down(len \div 2 - 1, 0))
    IN  FoldLeft(LAMBDA c, i : heap_shift_down(Swap(c, i, 0), i, 0), heap, Down(len - 1, 1))

-----------------------------------------------------------------------------
\* By merging: of two equal values the right one goes first.
RECURSIVE Merge(_, _)
Merge(s, t) ==
    IF s = <<>> THEN t ELSE IF t = <<>> THEN s
    ELSE IF Head(s) < Head(t) THEN <<Head(s)>> \o Merge(Tail(s), t)
    ELSE <<Head(t)>> \o Merge(s, Tail(t))

\* left..(right - 1) and right..end become one sorted part.
Merged(a, left, right, end) ==
    LET Part(i, j) == [k \in 1..(j - i + 1) |-> a[i + k - 1]]
        result == Merge(Part(left, right - 1), Part(right, end))
    IN  [p \in DOMAIN a |-> IF p \in left..end THEN result[p - left + 1] ELSE a[p]]

\* A last part with nothing to merge with is split before its last value.
merge_sort(a) ==
    LET Clamped(i) == Least({i, len - 1})
        Pass(c, seg) ==
            FoldLeft(LAMBDA d, start : Merged(d, start, Clamped(start + seg),
                                              Clamped(start + 2 * seg - 1)),
                     c, SelectSeq(Up(0, len - 1), LAMBDA start : start % (2 * seg) = 0))
    IN  FoldLeft(Pass, a, SelectSeq([k \in 1..len |-> 2^(k - 1)], LAMBDA seg : seg < len))

RECURSIVE _recursive_merge_sort(_, _, _)
_recursive_merge_sort(a, beg, end) ==
    LET mid == beg + (end - beg) \div 2
    IN  IF beg >= end THEN a
        ELSE Merged(_recursive_merge_sort(_recursive_merge_sort(a, beg, mid), mid + 1, end),
                    beg, mid + 1, end)

\* All of `result' is copied back, where a single value has never been put.
recursive_merge_sort(a) ==
    IF len = 1 THEN [i \in {0} |-> Garbage] ELSE _recursive_merge_sort(a, 0, len - 1)

-----------------------------------------------------------------------------
\* By partition: a pivot leaves a hole that is filled from one end and from the other.
RECURSIVE HoleAtLeft(_, _, _, _), HoleAtRight(_, _, _, _)
HoleAtLeft(a, start1, start2, pivot) ==
    LET s == Greatest({i \in start1..start2 : i = start1 \/ a[i] < pivot})
    IN  IF s = start1 THEN [a |-> [a EXCEPT ![s] = pivot], at |-> s]
        ELSE HoleAtRight([a EXCEPT ![start1] = a[s]], start1 + 1, s, pivot)

HoleAtRight(a, start1, start2, pivot) ==
    LET s == Least({i \in start1..start2 : i = start2 \/ a[i] > pivot})
    IN  IF s = start2 THEN [a |-> [a EXCEPT ![s] = pivot], at |-> s]
        ELSE HoleAtLeft([a EXCEPT ![start2] = a[s]], s, start2 - 1, pivot)

SwapIf(condition, a, i, j) == IF condition THEN Swap(a, i, j) ELSE a

choose_right(a, left, right) ==
    LET mid == left + (right - left) \div 2
        low == SwapIf(a[mid] < a[left], a, left, mid)
        high == Swap(low, right, mid)
    IN  Swap(IF low[right] < low[mid] THEN SwapIf(high[mid] < high[left], high, mid, left)
             ELSE low, mid, right)

\* What equals the pivot at pos is moved next to it, place by place; `to' is the next place.
deal_repeat(a, left, pos, right) ==
    LET Gathered(c, places, first, step) ==
            FoldLeft(LAMBDA g, i : IF g.a[pos] = g.a[i]
                                   THEN [a |-> Swap(g.a, i, g.to), to |-> g.to + step] ELSE g,
                     [a |-> c, to |-> first], places)
        lefts == Gathered(a, Down(pos - 1, left), pos - 1, -1)
        rights == Gathered(lefts.a, Up(pos + 1, right), pos + 1, 1)
    IN  [a |-> rights.a, left |-> lefts.to, right |-> rights.to]

\* _quick_sort3 exchanges values instead: start1 and start2 step before they look.
RECURSIVE Exchanged(_, _, _, _)
Exchanged(a, start1, start2, pivot) ==
    LET s2 == Greatest({i \in start1..(start2 - 1) : i = start1 \/ a[i] < pivot})
        s1 == Least({i \in (start1 + 1)..s2 : i = s2 \/ a[i] > pivot} \cup {s2})
    IN  IF start1 >= start2 THEN [a |-> a, at |-> start1]
        ELSE Exchanged(IF s1 < s2 THEN Swap(a, s1, s2) ELSE a, s1, s2, pivot)

ByExchange(a, left, right) ==
    LET mid == left + (right - left) \div 2
        low == SwapIf(a[left] > a[mid], a, left, mid)
        high == SwapIf(low[mid] > low[right], low, mid, right)
        median == SwapIf(high[left] > high[mid], high, left, mid)
        c == Swap(median, mid, left)
        cut == Exchanged(c, left, right + 1, c[left])
    IN  [cut EXCEPT !.a = Swap(cut.a, left, cut.at)]

\* One round of each quick sort: the array, and where its two parts end and begin.
Around(cut) == [a |-> cut.a, left |-> cut.at - 1, right |-> cut.at + 1]
Partition(a, left, right) ==
    LET c == choose_right(a, left, right) IN HoleAtRight(c, left, right, c[right])

Round(sort, a, left, right) ==
    CASE sort = "quick_sort" -> Around(HoleAtLeft(a, left, right, a[left]))
      [] sort = "quick_sort2" -> Around(HoleAtRight(a, left, right, a[right]))
      [] sort = "quick_sort3" -> Around(ByExchange(a, left, right))
      [] sort = "better_quick_sort" -> Around(Partition(a, left, right))
      [] sort \in {"better_quick_sort2", "better_quick_sort3"} ->
            LET cut == Partition(a, left, right) IN deal_repeat(cut.a, left, cut.at, right)

\* The two parts have no place in common: _better_quick_sort3, which takes the shorter
\* one first and loops over the other, comes to the same.
RECURSIVE QuickSorted(_, _, _, _)
QuickSorted(sort, a, left, right) ==
    LET round == Round(sort, a, left, right)
    IN  IF right - left <= 1 THEN SwapIf(right - left = 1 /\ a[left] > a[right], a, left, right)
        ELSE QuickSorted(sort, QuickSorted(sort, round.a, left, round.left), round.right, right)

QuickSorts == {"quick_sort", "quick_sort2", "quick_sort3",
               "better_quick_sort", "better_quick_sort2", "better_quick_sort3"}

-----------------------------------------------------------------------------
\* A slip for the mutant runs: the array is walked forwards, which turns equal keys round.
PlacedForwards(a, start, end, key) ==
    LET Place(i) == start + Cardinality({j \in start..end :
                        key[j] < key[i] \/ (key[j] = key[i] /\ j > i)})
    IN  [p \in DOMAIN a |-> IF p \in start..end THEN a[CHOOSE i \in start..end : Place(i) = p]
                            ELSE a[p]]

\* By counting: the values from start to end go where the count of smaller keys says.
\* The array is walked backwards, so that equal keys keep their order.
Placed(a, start, end, key) ==
    LET Place(i) == start + Cardinality({j \in start..end :
                        key[j] < key[i] \/ (key[j] = key[i] /\ j < i)})
    IN  [p \in DOMAIN a |-> IF p \in start..end THEN a[CHOOSE i \in start..end : Place(i) = p]
                            ELSE a[p]]

Held(a) == {a[i] : i \in DOMAIN a}
Plus(a, n) == [i \in DOMAIN a |-> a[i] + n]
Digits(a, n) == [i \in DOMAIN a |-> (a[i] \div n) % 10]

\* A negative minimum is taken off before a sort by digits or counts, and added after it.
Offset(a) == Least(Held(a) \cup {0})

\* The powers of 10 up to the greatest value.
Powers(a) == SelectSeq([k \in 1..9 |-> 10^(k - 1)], LAMBDA n : Greatest(Held(a)) \div n > 0)

radix_sort_LSD(a) ==
    LET Pass(c, n) == Placed(c, 0, len - 1, Digits(c, n))
        shifted == Plus(a, -Offset(a))
    IN  Plus(FoldLeft(Pass, shifted, Powers(shifted)), Offset(a))

\* Each digit's part of the array is sorted by the next digit.
RECURSIVE _radix_sort_MSD_recursive(_, _, _, _)
_radix_sort_MSD_recursive(a, start, end, exp) ==
    LET key == Digits(a, exp)
        Bucket(c, d) ==
            _radix_sort_MSD_recursive(c,
                start + Cardinality({i \in start..end : key[i] < d}),
                start + Cardinality({i \in start..end : key[i] <= d}) - 1, exp \div 10)
    IN  IF exp <= 0 THEN a
        ELSE IF end - start <= 1
             THEN SwapIf(end - start = 1 /\ a[start] > a[end], a, start, end)
        ELSE FoldLeft(Bucket, Placed(a, start, end, key), Up(0, 9))

radix_sort_MSD(a) ==
    LET shifted == Plus(a, -Offset(a))
        exp == Greatest({1} \cup ToSet(Powers(shifted)))
    IN  Plus(_radix_sort_MSD_recursive(shifted, 0, len - 1, exp), Offset(a))

\* Values too far apart are left unsorted, and what has been taken off is not put back.
TooFarApart(a) ==
    LET shifted == Plus(a, -Offset(a))
    IN  Greatest(Held(shifted)) - (IF Offset(a) < 0 THEN 0 ELSE Least(Held(a))) > MaxSpread

count_sort(a) ==
    LET shifted == Plus(a, -Offset(a))
    IN  IF len <= 1 THEN a
        ELSE IF TooFarApart(a) THEN shifted
        ELSE Plus(Placed(shifted, 0, len - 1, shifted), Offset(a))

\* Division of C, towards 0.
Quotient(x, n) == IF x < 0 THEN -((-x) \div n) ELSE x \div n

\* The buckets one after the other, each sorted by better_quick_sort2.
bucket_sort_quick(a) ==
    LET bucket == [i \in DOMAIN a |-> Quotient(a[i], 10) - Quotient(Least(Held(a)), 10)]
        Sorted(c, k) == QuickSorted("better_quick_sort2", c,
                            Cardinality({i \in DOMAIN a : bucket[i] < k}),
                            Cardinality({i \in DOMAIN a : bucket[i] <= k}) - 1)
    IN  FoldLeft(Sorted, Placed(a, 0, len - 1, bucket), Up(0, Greatest(Held(bucket))))

-----------------------------------------------------------------------------
Init == /\ b \in Arrays
        /\ ptr = b
        /\ ran = "none"

\* main restores the array before each call, so that one call says what any later one does.
Call(sort, sorted) == ran = "none" /\ ran' = sort /\ ptr' = sorted /\ UNCHANGED b

Next == \/ Call("bubble_sort", bubble_sort(b))
        \/ Call("select_sort", select_sort(b))
        \/ Call("insert_sort", insert_sort(b))
        \/ Call("shell_insert_sort", shell_insert_sort(b))
        \/ Call("shell_insert_sort_partitionbyprime", shell_insert_sort_partitionbyprime(b))
        \/ Call("heap_sort", heap_sort(b))
        \/ Call("merge_sort", merge_sort(b))
        \/ Call("recursive_merge_sort", recursive_merge_sort(b))
        \/ \E sort \in QuickSorts : Call(sort, QuickSorted(sort, b, 0, len - 1))
        \/ Call("radix_sort_LSD", radix_sort_LSD(b))
        \/ Call("radix_sort_MSD", radix_sort_MSD(b))
        \/ Call("count_sort", count_sort(b))
        \/ Call("bucket_sort_quick", bucket_sort_quick(b))

Spec == Init /\ [][Next]_vars

-----------------------------------------------------------------------------
\* Sort/main_sort.c:57-65: every function sorts every array and keeps what it holds, but
\* for two cases: recursive_merge_sort and one value (Sort/merge_sort.c:54-57), and
\* count_sort and values too far apart (Sort/count_sort.c:27-31).
EverySortSorts ==
    \/ ran = "none"
    \/ ran = "recursive_merge_sort" /\ len = 1
    \/ ran = "count_sort" /\ len > 1 /\ TooFarApart(b)
    \/ /\ \A i, j \in DOMAIN ptr : i <= j => ptr[i] <= ptr[j]
       /\ \A n \in Held(b) : Cardinality({i \in DOMAIN ptr : ptr[i] = n})
                               = Cardinality({i \in DOMAIN b : b[i] = n})
=============================================================================
