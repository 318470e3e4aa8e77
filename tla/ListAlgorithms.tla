---------------------------- MODULE ListAlgorithms ----------------------------
(***************************************************************************)
(* Algorithm/ListAgorithm.cpp: exercises on the singly linked lists of     *)
(* CommonDataStruct.hpp.  Nodes are numbered; a list is the number of its  *)
(* first node and what hangs from it by `next'.                            *)
(***************************************************************************)
EXTENDS Integers, FiniteSets, SequencesExt

CONSTANTS Decimals,    \* what the nodes hold
          MaxNodes,    \* bound: nodes of a list of its own
          MaxDigits,   \* bound: nodes of each of two lists
          NULL

VARIABLES one, two,    \* the values of the two lists that are made
          entry,       \* where the last node of the first one leads, NULL as a rule
          next,        \* next of every node
          k,           \* the number that an exercise is given
          ran,         \* the exercise that has been called, if any
          head,        \* the first node of the list that it leaves or returns
          ret          \* the node, or the digits, that it returns

vars == <<one, two, entry, next, k, ran, head, ret>>

Lists == UNION {[1..n -> Decimals] : n \in 0..MaxDigits}
val == one \o two

First(list, node) == IF list = <<>> THEN NULL ELSE node
head1 == First(one, 1)
head2 == First(two, Len(one) + 1)

\* The nodes of the list at node n, which has an end.
RECURSIVE Chain(_, _)
Chain(nxt, n) == IF n = NULL THEN <<>> ELSE <<n>> \o Chain(nxt, nxt[n])

\* A pointer moved n times, or up to the end.
RECURSIVE Ahead(_, _, _)
Ahead(nxt, n, times) == IF n = NULL \/ times <= 0 THEN n ELSE Ahead(nxt, nxt[n], times - 1)

-----------------------------------------------------------------------------
\* fast is k nodes ahead of slow, and both move up to its end.
RECURSIVE Follow(_, _)
Follow(slow, fast) == IF fast = NULL THEN slow ELSE Follow(next[slow], next[fast])

\* The list has k nodes or more.
Reaches == k <= Len(one)

getKthFromEnd == IF head1 = NULL \/ k <= 0 \/ ~Reaches THEN NULL
                 ELSE Follow(head1, Ahead(next, head1, k))

\* erase goes to the pointer that leads to the node, head_ or a next, and moves it on.
Erased(node) == [nxt |-> [n \in DOMAIN next |-> IF next[n] = node THEN next[node] ELSE next[n]],
                 head |-> IF head1 = node THEN next[node] ELSE head1]

removeFromEnd ==
    LET slow == Follow(head1, Ahead(next, head1, k))
        kept == [nxt |-> next, head |-> head1]
    IN  IF ~Reaches \/ head1 = NULL \/ slow = NULL THEN kept ELSE Erased(slow)

\* A list is turned round node by node.
RECURSIVE Turned(_, _, _)
Turned(nxt, n, before) ==
    IF n = NULL THEN [nxt |-> nxt, head |-> before]
    ELSE Turned([nxt EXCEPT ![n] = before], nxt[n], n)

-----------------------------------------------------------------------------
\* slow makes one step and fast two until they meet elsewhere than at the head.  In a
\* circle that the head is in they meet there only, and the loop does not end.
RECURSIVE Meeting(_, _, _)
Meeting(slow, fast, steps) ==
    IF slow = NULL \/ fast = NULL THEN NULL
    ELSE IF next[fast] = NULL THEN NULL
    ELSE IF slow = fast /\ slow # head1 THEN slow
    ELSE IF steps = 0 THEN 0
    ELSE Meeting(next[slow], next[next[fast]], steps - 1)

\* From the head and from where they met, both step by step, they meet at the entry; the
\* node slow has come from is made the last one.
RECURSIVE Entry(_, _, _)
Entry(fast, slow, parent) ==
    IF slow = fast THEN [node |-> fast, parent |-> parent]
    ELSE Entry(next[fast], next[slow], slow)

-----------------------------------------------------------------------------
\* Two ascending lists are strung together: `node' is the last one strung, NULL at first.
Strung(nxt, node, n) == IF node = NULL THEN nxt ELSE [nxt EXCEPT ![node] = n]

RECURSIVE Merged(_, _, _, _, _)
Merged(nxt, l1, l2, node, first) ==
    LET n == IF l1 = NULL \/ l2 = NULL THEN (IF l1 # NULL THEN l1 ELSE l2)
             ELSE IF val[l1] < val[l2] THEN l1 ELSE l2
        strung == Strung(nxt, node, n)
        begin == IF first = NULL THEN n ELSE first
    IN  IF l1 = NULL \/ l2 = NULL THEN [nxt |-> strung, head |-> begin]
        ELSE IF n = l1 THEN Merged(strung, nxt[l1], l2, n, begin)
        ELSE Merged(strung, l1, nxt[l2], n, begin)

\* Digit by digit, the least significant first, with a carry; a list without nodes returns
\* the other one itself.
RECURSIVE Sum(_, _, _)
Sum(s, t, carry) ==
    LET Digit(u) == IF u = <<>> THEN 0 ELSE Head(u)
        Rest(u) == IF u = <<>> THEN u ELSE Tail(u)
        temp == carry + Digit(s) + Digit(t)
    IN  IF s = <<>> /\ t = <<>> THEN (IF carry > 0 THEN <<carry>> ELSE <<>>)
        ELSE <<temp % 10>> \o Sum(Rest(s), Rest(t), temp \div 10)

addTwoNumbers == IF one = <<>> THEN two ELSE IF two = <<>> THEN one ELSE Sum(one, two, 0)

-----------------------------------------------------------------------------
\* The list from beg on is cut behind every k-th node and the part turned round; last_end
\* is the end of the part before, beg that of the part itself.
RECURSIVE Grouped(_, _, _, _)
Grouped(nxt, beg, last_end, new_head) ==
    LET end == Ahead(nxt, beg, k - 1)
        after == nxt[end]
        part == Turned([nxt EXCEPT ![end] = NULL], beg, NULL)
    IN  IF beg = NULL \/ end = NULL
        THEN [nxt |-> Strung(nxt, last_end, beg), head |-> new_head]
        ELSE Grouped(Strung(part.nxt, last_end, part.head), after, beg,
                     IF new_head = NULL THEN part.head ELSE new_head)

reverseKGroup ==
    IF head1 = NULL \/ k < 0 THEN [nxt |-> next, head |-> NULL]
    ELSE IF k <= 1 THEN [nxt |-> next, head |-> head1]
    ELSE Grouped(next, head1, NULL, NULL)

-----------------------------------------------------------------------------
TypeOK == /\ one \in Seq(Decimals) /\ two \in Seq(Decimals)
          /\ DOMAIN next = 1..Len(val)
          /\ \A n \in DOMAIN next : next[n] \in (DOMAIN next) \cup {NULL}

\* The solutions make two lists, or one, whose values do not matter: it has an end and
\* comes with a number, or its last node is led back to one of them.
Init ==
    /\ \/ one \in Lists /\ two \in Lists /\ entry = NULL /\ k = 0
       \/ /\ \E n \in 0..MaxNodes : one = [i \in 1..n |-> CHOOSE d \in Decimals : TRUE]
          /\ two = <<>>
          /\ \/ entry = NULL /\ k \in -1..(MaxNodes + 1)
             \/ entry \in DOMAIN one /\ k = 0
    /\ next = [n \in 1..Len(val) |-> IF n = Len(one) THEN entry
                                     ELSE IF n = Len(val) THEN NULL ELSE n + 1]
    /\ ran = "none" /\ head = NULL /\ ret = NULL

Call(f) == ran = "none" /\ ran' = f /\ UNCHANGED <<one, two, entry, k>>
Single == two = <<>> /\ entry = NULL
Pair == k = 0 /\ entry = NULL
Leaves(list) == next' = list.nxt /\ head' = list.head

GetKthFromEnd == Single /\ Call("getKthFromEnd") /\ ret' = getKthFromEnd /\ UNCHANGED <<next, head>>
RemoveFromEnd == Single /\ Call("removeFromEnd") /\ Leaves(removeFromEnd) /\ UNCHANGED ret
ReverseList == Single /\ Call("reverseList") /\ Leaves(Turned(next, head1, NULL)) /\ UNCHANGED ret
ReverseKGroup == Single /\ Call("reverseKGroup") /\ Leaves(reverseKGroup) /\ UNCHANGED ret

FindListCircle ==
    LET met == Meeting(head1, head1, 2 * Len(one))
        at == Entry(head1, met, NULL)
    IN  /\ two = <<>> /\ k = 0 /\ Call("findListCircle") /\ head' = head1
        /\ \/ met = NULL /\ ret' = NULL /\ UNCHANGED next
           \/ met = 0 /\ ret' = "hangs" /\ UNCHANGED next
           \/ met \in DOMAIN one /\ ret' = at.node /\ next' = [next EXCEPT ![at.parent] = NULL]

MergeTwoLists ==
    /\ Pair /\ Call("mergeTwoLists") /\ UNCHANGED ret
    /\ \A i \in DOMAIN one : i > 1 => one[i - 1] <= one[i]
    /\ \A i \in DOMAIN two : i > 1 => two[i - 1] <= two[i]
    /\ Leaves(Merged(next, head1, head2, NULL, NULL))

AddTwoNumbers == Pair /\ Call("addTwoNumbers") /\ ret' = addTwoNumbers /\ UNCHANGED <<next, head>>

Next == \/ GetKthFromEnd \/ RemoveFromEnd \/ ReverseList \/ ReverseKGroup
        \/ FindListCircle \/ MergeTwoLists \/ AddTwoNumbers

Spec == Init /\ [][Next]_vars

-----------------------------------------------------------------------------
\* The nodes in the order they were made, and the number that a list of digits stands for.
Made == [n \in DOMAIN one |-> n]
Number(s) == FoldRight(LAMBDA d, t : d + 10 * t, s, 0)

\* Algorithm/ListAgorithm.cpp: whatever the lists and the number, no node is lost, met
\* twice or put in the wrong place, but for a circle that the head is in, and for groups
\* longer than the list, which the exercise rules out.
ListsRight ==
    CASE ran = "none" -> TRUE
      [] ran = "getKthFromEnd" -> ret = IF k \in DOMAIN one THEN Len(one) - k + 1 ELSE NULL
      [] ran = "removeFromEnd" ->
            Chain(next, head) = SelectSeq(Made, LAMBDA n : n # Len(one) - k + 1)
      [] ran = "reverseList" -> Chain(next, head) = Reverse(Made)
      [] ran = "reverseKGroup" ->
            k \in 2..Len(one) =>
              Chain(next, head) =
                [i \in DOMAIN one |-> LET group == (i - 1) \div k
                                      IN  IF (group + 1) * k > Len(one) THEN i
                                          ELSE (2 * group + 1) * k + 1 - i]
      [] ran = "findListCircle" ->
            entry # 1 => ret = entry /\ Chain(next, head) = Made
      [] ran = "mergeTwoLists" ->
            /\ ToSet(Chain(next, head)) = DOMAIN next
            /\ \A i \in DOMAIN val : i > 1 =>
                 val[Chain(next, head)[i - 1]] <= val[Chain(next, head)[i]]
      [] ran = "addTwoNumbers" -> Number(ret) = Number(one) + Number(two)
=============================================================================
