------------------------------ MODULE Algorithms ------------------------------
(***************************************************************************)
(* The exercises of Algorithm/ that search an array or a text: each is     *)
(* called on every small input, and its answer is compared with what the   *)
(* comment above it asks for.  Vectors are functions from the indexes of   *)
(* C++.                                                                    *)
(***************************************************************************)
EXTENDS Integers, FiniteSets, SequencesExt

CONSTANTS Numbers,     \* what a vector holds
          MaxSize,     \* bound: values in a vector
          Coins,       \* 20, 10, 5, 1
          MaxAmount    \* bound: amounts and lengths of rope

VARIABLES nums,      \* the vector, or the text
          needle,    \* what strStr looks for
          amount,    \* of money, or of rope
          ran,       \* the function that has been called, if any
          ret        \* what it has returned

vars == <<nums, needle, amount, ran, ret>>

Vectors(n) == UNION {[0..(size - 1) -> Numbers] : size \in 0..n}
Size(v) == Cardinality(DOMAIN v)
Greatest(S) == CHOOSE x \in S : \A y \in S : x >= y
Least(S) == CHOOSE x \in S : \A y \in S : x <= y
Greater(x, y) == IF x > y THEN x ELSE y
Smaller(x, y) == IF x < y THEN x ELSE y

\* Below and above all of a vector's values, as INT_MIN and INT_MAX are.
Lowest == Least(Numbers) - 1
Highest == Greatest(Numbers) + 1

-----------------------------------------------------------------------------
\* KMP_Algorithm.cpp: next[i] is the length of the longest proper prefix of pattern[0..i]
\* that ends there; k is that of pattern[0..i-1] or of a shorter try.
RECURSIVE Nexts(_, _, _, _)
Nexts(pattern, i, k, next) ==
    IF i >= Size(pattern) THEN next
    ELSE IF pattern[i] = pattern[k]
         THEN Nexts(pattern, i + 1, k + 1, [next EXCEPT ![i] = k + 1])
    ELSE IF k > 0 THEN Nexts(pattern, i, next[k - 1], next)
    ELSE Nexts(pattern, i + 1, 0, [next EXCEPT ![i] = 0])

getNext(pattern) == Nexts(pattern, 1, 0, [i \in DOMAIN pattern |-> 0])

RECURSIVE Search(_, _, _, _, _)
Search(text, pattern, next, i, j) ==
    IF i >= Size(text) THEN -1
    ELSE IF text[i] = pattern[j]
         THEN IF j + 1 = Size(pattern) THEN i - j
              ELSE Search(text, pattern, next, i + 1, j + 1)
    ELSE IF j > 0 THEN Search(text, pattern, next, i, next[j - 1])
    ELSE Search(text, pattern, next, i + 1, 0)

strStr(text, pattern) ==
    IF Size(pattern) = 0 \/ text = pattern THEN 0
    ELSE Search(text, pattern, getNext(pattern), 0, 0)

-----------------------------------------------------------------------------
\* Sigle_Stack.cpp: a stack of places; a new value takes off those it ends, and each is
\* accounted for as it goes.
With(v, last) == [i \in 0..Size(v) |-> IF i = Size(v) THEN last ELSE v[i]]

Ends(sort, new, top) == IF sort = "getLargestArea" THEN new < top ELSE new > top

Account(sort, v, i, stack, total) ==
    LET temp == Last(stack)
        left == IF Len(stack) = 1 THEN temp ELSE temp - stack[Len(stack) - 1] - 1
    IN  CASE sort = "getLargestArea" -> Greater(total, (i - temp + left) * v[temp])
          [] sort = "lookright" -> total + i - temp - 1
          [] sort = "getNexttemperature" -> [total EXCEPT ![temp] = i - temp]

RECURSIVE Sweep(_, _, _, _, _)
Sweep(sort, v, i, stack, total) ==
    IF i = Size(v) THEN total
    ELSE IF stack # <<>> /\ Ends(sort, v[i], v[Last(stack)])
         THEN Sweep(sort, v, i, Front(stack), Account(sort, v, i, stack, total))
    ELSE Sweep(sort, v, i + 1, Append(stack, i), total)

getLargestArea(v) == Sweep("getLargestArea", With(v, Lowest), 0, <<>>, Lowest)
lookright(v) == IF Size(v) = 0 THEN 0 ELSE Sweep("lookright", With(v, Highest), 0, <<>>, 0)
getNexttemperature(v) == Sweep("getNexttemperature", v, 0, <<>>, [i \in DOMAIN v |-> 0])

-----------------------------------------------------------------------------
\* maxAreaWalter.cpp: the shorter side moves inwards.
RECURSIVE Narrowed(_, _, _, _)
Narrowed(v, left, right, result) ==
    LET area == (right - left) * Smaller(v[left], v[right])
    IN  IF left >= right THEN result
        ELSE IF v[left] <= v[right]
             THEN Narrowed(v, left + 1, right, Greater(area, result))
        ELSE Narrowed(v, left, right - 1, Greater(area, result))

maxArea(v) == IF Size(v) <= 1 THEN 0 ELSE Narrowed(v, 0, Size(v) - 1, 0)

\* For each value the outermost ones that are as high.
maxArea1(v) ==
    LET left(i) == Least({j \in 0..i : v[j] >= v[i]})
        right(i) == Greatest({k \in i..(Size(v) - 1) : v[k] >= v[i]})
    IN  IF Size(v) <= 1 THEN 0
        ELSE Greatest({0} \cup {(right(i) - left(i)) * v[i] : i \in DOMAIN v})

\* maxSubArray.cpp: the best sum, or product, that ends at i.
DynamicProcess(v) ==
    LET Sum[i \in DOMAIN v] == IF i = 0 THEN v[0] ELSE Greater(v[i], v[i] + Sum[i - 1])
    IN  IF Size(v) = 0 THEN 0 ELSE Greatest({Sum[i] : i \in DOMAIN v})

Total(v, i, j) == FoldLeft(LAMBDA t, k : t + v[k], 0, [k \in 1..(j - i + 1) |-> i + k - 1])

RECURSIVE GetMaxSum(_, _, _)
GetMaxSum(v, begin, end) ==
    LET mid == (begin + end) \div 2
        crossum == Greatest({Total(v, i, mid) : i \in begin..mid})
                     + Greatest({Total(v, mid + 1, i) : i \in (mid + 1)..end})
    IN  IF begin >= end THEN v[begin]
        ELSE Greatest({GetMaxSum(v, begin, mid), GetMaxSum(v, mid + 1, end), crossum})

\* A negative value makes the greatest of the least.
getMaxProductSubArray(v) ==
    LET Best[i \in DOMAIN v] ==
            IF i = 0 THEN [max |-> v[0], min |-> v[0]]
            ELSE LET high == v[i] * (IF v[i] >= 0 THEN Best[i - 1].max ELSE Best[i - 1].min)
                     low == v[i] * (IF v[i] >= 0 THEN Best[i - 1].min ELSE Best[i - 1].max)
                 IN  [max |-> Greater(v[i], high), min |-> Smaller(v[i], low)]
    IN  IF Size(v) = 0 THEN 0 ELSE Greatest({Best[i].max : i \in DOMAIN v})

-----------------------------------------------------------------------------
\* TreeNumberSum.cpp: for each value of the sorted vector, two ends that move inwards and
\* step over what they have had.
RECURSIVE Ends3(_, _, _, _, _)
Ends3(v, i, left, right, found) ==
    LET sum == v[i] + v[left] + v[right]
        next == Least({l \in (left + 1)..right : l >= right - 1 \/ v[l] # v[l - 1]})
        before == Greatest({r \in left..(right - 1) : r <= next \/ v[r] # v[r + 1]})
    IN  IF left >= right THEN found
        ELSE IF sum > 0 THEN Ends3(v, i, left, right - 1, found)
        ELSE IF sum < 0 THEN Ends3(v, i, left + 1, right, found)
        ELSE Ends3(v, i, next, before, Append(found, <<v[i], v[left], v[right]>>))

threeSum(v) ==
    LET sorted == SortSeq([k \in 1..Size(v) |-> v[k - 1]], <)
        w == [i \in DOMAIN v |-> sorted[i + 1]]
        First(i) == i < Size(w) - 2 /\ w[i] <= 0 /\ (i > 0 => w[i] # w[i - 1])
    IN  FoldLeft(LAMBDA found, i : Ends3(w, i, i + 1, Size(w) - 1, found), <<>>,
                 SelectSeq([k \in DOMAIN sorted |-> k - 1], First))

\* GetMinCoinQuest.cpp: the coins an amount takes, -1 if they cannot pay it.
MinCoins ==
    LET result[i \in 0..MaxAmount] ==
            LET rests == {result[i - c] : c \in {c \in Coins : c < i}} \ {-1}
            IN  IF i = 0 THEN 0 ELSE IF i \in Coins THEN 1
                ELSE IF rests = {} THEN -1 ELSE Least(rests) + 1
    IN  result

\* cuttingRope.cpp: threes, and twos at the end; no product here reaches the modulus.
RECURSIVE Cut(_, _)
Cut(n, res) == IF n > 4 THEN Cut(n - 3, res * 3) ELSE n * res
cuttingRope(n) == IF n <= 3 THEN n - 1 ELSE Cut(n, 1)

-----------------------------------------------------------------------------
TypeOK == nums \in Vectors(MaxSize) /\ needle \in Vectors(MaxSize) /\ amount \in 1..MaxAmount

\* The texts have two letters; a text is searched, or numbers, or an amount is paid or cut.
Letters == {Lowest + 1, Highest - 1}
Text(v) == \A i \in DOMAIN v : v[i] \in Letters

Init == /\ nums \in Vectors(MaxSize)
        /\ needle \in {v \in Vectors(MaxSize - 1) : Text(v)}
        /\ needle = <<>> \/ Text(nums)
        /\ amount \in 1..MaxAmount
        /\ amount > 1 => nums = <<>> /\ needle = <<>>
        /\ ran = "none" /\ ret = 0

\* No function keeps anything from one call to the next.
Call(f, result) == ran = "none" /\ ran' = f /\ ret' = result /\ UNCHANGED <<nums, needle, amount>>

\* The exercises on heights ask for numbers that are not negative.
Heights == \A i \in DOMAIN nums : nums[i] >= 0

Next == \/ Call("strStr", strStr(nums, needle))
        \/ Heights /\ nums # <<>> /\ Call("getLargestArea", getLargestArea(nums))
        \/ Call("lookright", lookright(nums))
        \/ Call("getNexttemperature", getNexttemperature(nums))
        \/ Heights /\ Call("maxArea", maxArea(nums))
        \/ Heights /\ Call("maxArea1", maxArea1(nums))
        \/ Call("DynamicProcess", DynamicProcess(nums))
        \/ nums # <<>> /\ Call("GetMaxSum", GetMaxSum(nums, 0, Size(nums) - 1))
        \/ Call("getMaxProductSubArray", getMaxProductSubArray(nums))
        \/ Call("threeSum", threeSum(nums))
        \/ Call("MinCoins", MinCoins[amount])
        \/ amount > 1 /\ Call("cuttingRope", cuttingRope(amount))

Spec == Init /\ [][Next]_vars

-----------------------------------------------------------------------------
\* What the comments ask for, stated by trying everything.
Parts == {p \in (DOMAIN nums) \X (DOMAIN nums) : p[1] <= p[2]}
LeastOf(p) == Least({nums[k] : k \in p[1]..p[2]})
Product(i, j) == FoldLeft(LAMBDA t, k : t * nums[k], 1, [k \in 1..(j - i + 1) |-> i + k - 1])

RECURSIVE Payable(_), Products(_)
Payable(n) ==       \* with n coins
    IF n = 0 THEN {0} ELSE {a + c : a \in Payable(n - 1), c \in Coins} \cap 0..MaxAmount
Products(n) ==      \* of two pieces of a rope or more
    UNION {{k * p : p \in {n - k} \cup Products(n - k)} : k \in 1..(n - 1)}

Expected ==
    CASE ran = "strStr" ->
            LET At(i) == \A j \in DOMAIN needle : i + j \in DOMAIN nums /\ nums[i + j] = needle[j]
                places == {i \in 0..Size(nums) : At(i)}
            IN  IF places = {} THEN -1 ELSE Least(places)
      [] ran = "getLargestArea" -> Greatest({LeastOf(p) * (p[2] - p[1] + 1) : p \in Parts})
      [] ran = "lookright" ->
            Cardinality({p \in Parts : /\ p[1] < p[2]
                                       /\ \A k \in (p[1] + 1)..p[2] : nums[k] < nums[p[1]]})
      [] ran = "getNexttemperature" ->
            LET Warmer(i) == {j \in DOMAIN nums : j > i /\ nums[j] > nums[i]}
            IN  [i \in DOMAIN nums |-> IF Warmer(i) = {} THEN 0 ELSE Least(Warmer(i)) - i]
      [] ran \in {"maxArea", "maxArea1"} ->
            Greatest({0} \cup {(p[2] - p[1]) * Smaller(nums[p[1]], nums[p[2]]) : p \in Parts})
      [] ran \in {"DynamicProcess", "GetMaxSum"} ->
            IF nums = <<>> THEN 0 ELSE Greatest({Total(nums, p[1], p[2]) : p \in Parts})
      [] ran = "getMaxProductSubArray" ->
            IF nums = <<>> THEN 0 ELSE Greatest({Product(p[1], p[2]) : p \in Parts})
      [] ran = "MinCoins" ->
            LET counts == {n \in 1..amount : amount \in Payable(n)}
            IN  IF counts = {} THEN -1 ELSE Least(counts)
      [] ran = "cuttingRope" -> Greatest(Products(amount))

\* The triples of three places whose numbers add up to 0, least number first.
Triples == {SortSeq(<<nums[i], nums[j], nums[k]>>, <) :
               <<i, j, k>> \in {t \in (DOMAIN nums) \X (DOMAIN nums) \X (DOMAIN nums) :
                                  /\ t[1] < t[2] /\ t[2] < t[3]
                                  /\ nums[t[1]] + nums[t[2]] + nums[t[3]] = 0}}

\* Two of the same height of whom one would see the other, were he a little shorter.
EqualsInSight == \E p \in Parts : /\ p[1] < p[2] /\ nums[p[1]] = nums[p[2]]
                                  /\ \A k \in p[1]..p[2] : nums[k] <= nums[p[1]]

\* Algorithm/: whatever the vector, the text, the amount or the rope, the answer is the
\* one that the exercise asks for; threeSum gives each triple once.  But lookright lets one
\* see those of his own height and past them (1 for 1, 1), where Sigle_Stack.cpp:67 has only
\* the taller see the shorter, and 72-73 take off all that are not taller than the next.
AnswersRight ==
    CASE ran = "none" -> TRUE
      [] ran = "lookright" /\ EqualsInSight -> ret > Expected
      [] ran = "threeSum" -> ToSet(ret) = Triples /\ Len(ret) = Cardinality(Triples)
      [] OTHER -> ret = Expected
=============================================================================
