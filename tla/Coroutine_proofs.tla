---------------------------- MODULE Coroutine_proofs ----------------------------
(***************************************************************************)
(* For every set of threads, coroutines and shared stacks and every size   *)
(* of allcos_: the schedulers are right about what runs and a co_start     *)
(* returns to its caller, whatever becomes of shared stacks.               *)
(***************************************************************************)
EXTENDS Coroutine, TLAPS, SequenceTheorems

\* Below the top of a chain a context waits in co_start for the one above it.
CallsFollowChains ==
  \A t \in Threads : \A i \in 1..(Len(allcos[t]) - 1) :
    calling[allcos[t][i]] = allcos[t][i + 1] /\ regs[allcos[t][i]] = "co_start"

\* What is idle is allocated, in no chain and not in co_start.
IdleWaits == \A c \in idle : ~InUse(c) /\ stack[c] # "free" /\ regs[c] # "co_start"

\* The inductive invariant.
IInv == TypeOK /\ ChainsAreRight /\ CallsFollowChains /\ IdleWaits

-----------------------------------------------------------------------------
LEMMA InitIInv == Init => IInv
<1> SUFFICES ASSUME Init PROVE IInv
  OBVIOUS
<1>1. \A t \in Threads : Len(allcos[t]) = 1 /\ allcos[t][1] = t
  BY DEF Init
<1> \A t \in Threads : \A i \in DOMAIN allcos[t] : i = 1
  BY DEF Init
<1>2. TypeOK
  <2>1. \A t \in Threads : <<t>> \in Seq(Contexts)
    BY DEF Contexts
  <2>2. allcos \in [Threads -> Seq(Contexts)]
    BY <2>1 DEF Init
  <2> 1 \in 1..Size
    BY CoroutineAssumption DEF CoroutineAssumption
  <2>3. \A t \in Threads : Len(allcos[t]) \in 1..Size /\ allcos[t][1] = t
    BY <1>1
  <2>4. /\ running \in [Threads -> Contexts]
        /\ regs \in [Contexts -> {"none", "entry", "co_start", "co_yield", "end"}]
        /\ calling \in [Contexts -> Coroutines \cup {NULL}]
    BY DEF Init, Contexts
  <2> QED BY <2>2, <2>3, <2>4 DEF Init, TypeOK
<1>3. ChainsAreRight
  BY <1>1, CoroutineAssumption DEF Init, ChainsAreRight, Last, CoroutineAssumption
<1>4. CallsFollowChains
  BY <1>1 DEF CallsFollowChains
<1>5. IdleWaits
  BY DEF Init, IdleWaits
<1> QED BY <1>2, <1>3, <1>4, <1>5 DEF IInv

\* The first of a chain is the thread itself, all others are coroutines.
LEMMA ChainFacts ==
  ASSUME IInv, NEW t \in Threads
  PROVE  /\ allcos[t] \in Seq(Contexts) /\ Len(allcos[t]) \in Nat \ {0}
         /\ DOMAIN allcos[t] = 1..Len(allcos[t])
         /\ running[t] = allcos[t][Len(allcos[t])]
         /\ allcos[t][1] = t
         /\ \A i \in 2..Len(allcos[t]) : allcos[t][i] \in Coroutines
<1>1. /\ allcos[t] \in Seq(Contexts) /\ Len(allcos[t]) \in 1..Size /\ allcos[t][1] = t
      /\ Len(allcos[t]) \in Nat \ {0} /\ DOMAIN allcos[t] = 1..Len(allcos[t])
  BY CoroutineAssumption DEF IInv, TypeOK, CoroutineAssumption
<1>2. running[t] = allcos[t][Len(allcos[t])]
  BY DEF IInv, ChainsAreRight, Last
<1>3. ASSUME NEW i \in 2..Len(allcos[t]) PROVE allcos[t][i] \in Coroutines
  <2>1. allcos[t][i] \in Threads \cup Coroutines
    BY <1>1 DEF Contexts
  <2>2. SUFFICES ASSUME allcos[t][i] \in Threads PROVE FALSE
    BY <2>1
  <2>3. PICK u \in Threads : u = allcos[t][i]
    BY <2>2
  <2>4. allcos[u][1] = u /\ 1 \in DOMAIN allcos[u] /\ i \in DOMAIN allcos[t]
    BY <1>1, CoroutineAssumption DEF IInv, TypeOK, CoroutineAssumption
  <2> QED BY <2>3, <2>4 DEF IInv, ChainsAreRight
<1> QED BY <1>1, <1>2, <1>3

\* What is added to a chain comes last.
LEMMA StartFacts ==
  ASSUME IInv, NEW t \in Threads, NEW c \in Coroutines, co_start(t, c)
  PROVE  LET n == Len(allcos[t])
         IN  /\ allcos' \in [Threads -> Seq(Contexts)]
             /\ \A u \in Threads \ {t} : allcos'[u] = allcos[u]
             /\ n \in Nat \ {0} /\ n < Size
             /\ Len(allcos'[t]) = n + 1 /\ DOMAIN allcos'[t] = 1..(n + 1)
             /\ \A i \in 1..n : allcos'[t][i] = allcos[t][i]
             /\ allcos'[t][n + 1] = c
             /\ Last(allcos'[t]) = c /\ Last(allcos[t]) = running[t]
             /\ c \in idle /\ ~is_end[c] /\ ~InUse(c) /\ stack[c] # "free"
<1> DEFINE n == Len(allcos[t])
<1>1. /\ allcos \in [Threads -> Seq(Contexts)] /\ c \in Contexts
      /\ allcos' = [allcos EXCEPT ![t] = Append(@, c)] /\ n < Size
  BY DEF IInv, TypeOK, co_start, Contexts
<1>2. n \in Nat \ {0} /\ Last(allcos[t]) = running[t]
  BY ChainFacts DEF IInv, ChainsAreRight
<1>3. /\ Append(allcos[t], c) \in Seq(Contexts) /\ Len(Append(allcos[t], c)) = n + 1
      /\ \A i \in 1..n : Append(allcos[t], c)[i] = allcos[t][i]
      /\ Append(allcos[t], c)[n + 1] = c
  BY <1>1, AppendProperties
<1>4. allcos'[t] = Append(allcos[t], c) /\ allcos' \in [Threads -> Seq(Contexts)]
  BY <1>1, <1>3
<1>5. c \in idle /\ ~is_end[c] /\ ~InUse(c) /\ stack[c] # "free"
  BY DEF IInv, IdleWaits, co_start
<1>6. \A u \in Threads \ {t} : allcos'[u] = allcos[u]
  BY <1>1
<1> QED BY <1>1, <1>2, <1>3, <1>4, <1>5, <1>6 DEF Last

\* Who leaves is the last of its chain; the one below had called it.
LEMMA LeaveFacts ==
  ASSUME IInv, NEW t \in Threads, NEW c \in Coroutines, NEW place,
         running[t] = c, SwapToLast(t, place)
  PROVE  LET n == Len(allcos[t])
             last == allcos[t][n - 1]
         IN  /\ allcos' \in [Threads -> Seq(Contexts)]
             /\ \A u \in Threads \ {t} : allcos'[u] = allcos[u]
             /\ n \in Nat /\ n >= 2 /\ n <= Size
             /\ Len(allcos'[t]) = n - 1 /\ DOMAIN allcos'[t] = 1..(n - 1)
             /\ \A i \in 1..(n - 1) : allcos'[t][i] = allcos[t][i]
             /\ allcos[t][n] = c /\ last \in Contexts /\ last # c
             /\ Last(allcos'[t]) = last
             /\ calling[last] = c /\ regs[last] = "co_start"
             /\ idle' = idle \cup {c} /\ calling' = [calling EXCEPT ![last] = NULL]
             /\ coroutine_swap(t, c, last, place)
<1> DEFINE n == Len(allcos[t])
           last == allcos[t][n - 1]
<1>1. /\ allcos \in [Threads -> Seq(Contexts)]
      /\ allcos' = [allcos EXCEPT ![t] = Front(@)]
  BY DEF IInv, TypeOK, SwapToLast
<1>2. /\ allcos[t] \in Seq(Contexts) /\ n \in Nat \ {0} /\ DOMAIN allcos[t] = 1..n
      /\ allcos[t][n] = c /\ allcos[t][1] = t
  BY ChainFacts
<1>3. n <= Size /\ n >= 2 /\ n - 1 \in 1..n
  BY <1>2, CoroutineAssumption DEF IInv, TypeOK, CoroutineAssumption
<1>4. /\ Front(allcos[t]) \in Seq(Contexts) /\ Len(Front(allcos[t])) = n - 1
      /\ \A i \in 1..(n - 1) : Front(allcos[t])[i] = allcos[t][i]
  <2>1. \A i \in 1..(n - 1) : allcos[t][i] \in Contexts
    BY <1>2
  <2>2. 1 \in Int /\ n - 1 \in Int
    BY <1>2
  <2>3. /\ SubSeq(allcos[t], 1, n - 1) \in Seq(Contexts)
        /\ Len(SubSeq(allcos[t], 1, n - 1)) = n - 1
        /\ \A i \in 1..(n - 1) : SubSeq(allcos[t], 1, n - 1)[i] = allcos[t][i]
    BY <1>2, <1>3, <2>1, <2>2
  <2> QED BY <2>3 DEF Front
<1>5. allcos'[t] = Front(allcos[t]) /\ allcos' \in [Threads -> Seq(Contexts)]
  BY <1>1, <1>4
<1>6. last \in Contexts /\ calling[last] = c /\ regs[last] = "co_start"
  BY <1>2, <1>3 DEF IInv, CallsFollowChains
<1>7. last # c
  BY <1>2, <1>3 DEF IInv, ChainsAreRight
<1>8. Last(allcos'[t]) = last
  BY <1>3, <1>4, <1>5 DEF Last
<1>9. idle' = idle \cup {c} /\ calling' = [calling EXCEPT ![last] = NULL]
  BY <1>2, <1>6, CoroutineAssumption DEF SwapToLast, CoroutineAssumption
<1>10. coroutine_swap(t, c, last, place)
  BY <1>2 DEF SwapToLast
<1>11. \A u \in Threads \ {t} : allcos'[u] = allcos[u]
  BY <1>1
<1> QED BY <1>2, <1>3, <1>4, <1>5, <1>6, <1>7, <1>8, <1>9, <1>10, <1>11

-----------------------------------------------------------------------------
\* A context that is created or cleared is in no chain: the chains stay as they are.
LEMMA ChainsUntouched ==
  ASSUME IInv, NEW c \in Coroutines, ~InUse(c),
         UNCHANGED <<allcos, running, calling>>,
         \A x \in Contexts \ {c} : regs'[x] = regs[x],
         \A d \in Coroutines \ {c} : stack'[d] = stack[d]
  PROVE  ChainsAreRight' /\ CallsFollowChains'
<1>1. \A t \in Threads : \A i \in DOMAIN allcos[t] : allcos[t][i] # c /\ allcos[t][i] \in Contexts
  BY ChainFacts DEF InUse
<1>2. ChainsAreRight'
  BY <1>1 DEF IInv, ChainsAreRight
<1>3. CallsFollowChains'
  <2> SUFFICES ASSUME NEW t \in Threads, NEW i \in 1..(Len(allcos[t]) - 1)
               PROVE  calling[allcos[t][i]] = allcos[t][i + 1] /\ regs'[allcos[t][i]] = "co_start"
    BY DEF CallsFollowChains
  <2>1. i \in DOMAIN allcos[t]
    BY ChainFacts
  <2> QED BY <1>1, <2>1 DEF IInv, CallsFollowChains
<1> QED BY <1>2, <1>3

LEMMA CreateIInv ==
  ASSUME IInv, NEW c \in Coroutines, NEW st \in {"own"} \cup SharedStacks,
         stack[c] = "free",
         stack' = [stack EXCEPT ![c] = st],
         regs' = [regs EXCEPT ![c] = "entry"],
         is_beg' = [is_beg EXCEPT ![c] = FALSE], is_end' = [is_end EXCEPT ![c] = FALSE],
         buf' \in [Coroutines -> {"NULL", "garbage", "frames"}],
         idle' = idle \cup {c},
         UNCHANGED <<allcos, running, cur_co, frames, calling, fault>>
  PROVE  IInv'
<1>1. ~InUse(c)
  BY DEF IInv, ChainsAreRight, InUse
<1>2. TypeOK'
  <2>1. c \in Contexts /\ st \in {"free", "own"} \cup SharedStacks
    BY DEF Contexts
  <2>2. /\ stack' \in [Coroutines -> {"free", "own"} \cup SharedStacks]
        /\ regs' \in [Contexts -> {"none", "entry", "co_start", "co_yield", "end"}]
        /\ is_beg' \in [Coroutines -> BOOLEAN] /\ is_end' \in [Coroutines -> BOOLEAN]
    BY <2>1 DEF IInv, TypeOK
  <2> QED BY <2>2 DEF IInv, TypeOK
<1>3. ChainsAreRight' /\ CallsFollowChains'
  <2>1. /\ \A x \in Contexts \ {c} : regs'[x] = regs[x]
        /\ \A d \in Coroutines \ {c} : stack'[d] = stack[d]
    BY DEF IInv, TypeOK
  <2> QED BY <1>1, <2>1, ChainsUntouched
<1>4. regs'[c] = "entry" /\ stack'[c] = st /\ st # "free"
  BY CoroutineAssumption DEF IInv, TypeOK, Contexts, CoroutineAssumption
<1>5. \A d \in Coroutines \ {c} : regs'[d] = regs[d] /\ stack'[d] = stack[d]
  BY DEF IInv, TypeOK, Contexts
<1>6. idle \subseteq Coroutines /\ \A d \in Coroutines : InUse(d)' <=> InUse(d)
  BY DEF IInv, TypeOK, InUse
<1>7. IdleWaits'
  BY <1>1, <1>4, <1>5, <1>6 DEF IInv, IdleWaits
<1> QED BY <1>2, <1>3, <1>7 DEF IInv

LEMMA ClearIInv == ASSUME IInv, NEW c \in Coroutines, clear_stack(c) PROVE IInv'
<1>1. /\ c \in idle /\ ~InUse(c)
      /\ stack' = [stack EXCEPT ![c] = "free"] /\ idle' = idle \ {c}
      /\ fault' \in {"no", "garbage"}
      /\ UNCHANGED <<allcos, running, regs, is_beg, is_end, buf, cur_co, frames, calling>>
  BY DEF clear_stack, IInv, IdleWaits
<1>2. TypeOK'
  BY <1>1 DEF IInv, TypeOK
<1>3. stack'[c] = "free" /\ \A d \in Coroutines \ {c} : stack'[d] = stack[d]
  BY <1>1 DEF IInv, TypeOK
<1>4. ChainsAreRight' /\ CallsFollowChains'
  BY <1>1, <1>3, ChainsUntouched
<1>5. idle \subseteq Coroutines /\ \A d \in Coroutines : InUse(d)' <=> InUse(d)
  BY <1>1 DEF IInv, TypeOK, InUse
<1>6. IdleWaits'
  BY <1>1, <1>3, <1>5 DEF IInv, IdleWaits
<1> QED BY <1>2, <1>4, <1>6 DEF IInv

-----------------------------------------------------------------------------
\* What a switch writes stays of its kind.
LEMMA SwapTypes ==
  ASSUME IInv, NEW t \in Threads, NEW cur \in Contexts, NEW nxt \in Contexts,
         NEW place \in {"co_start", "co_yield", "end"},
         coroutine_swap(t, cur, nxt, place)
  PROVE  /\ running' \in [Threads -> Contexts] /\ running' = [running EXCEPT ![t] = nxt]
         /\ regs' \in [Contexts -> {"none", "entry", "co_start", "co_yield", "end"}]
         /\ regs' = [regs EXCEPT ![cur] = place]
         /\ is_beg' \in [Coroutines -> BOOLEAN]
         /\ buf' \in [Coroutines -> {"NULL", "garbage", "frames"}]
         /\ frames' \in [SharedStacks -> Coroutines \cup {NULL}]
         /\ fault' \in {"no", "frames", "garbage"}
         /\ UNCHANGED <<stack, cur_co>>
<1> USE DEF IInv, TypeOK
<1>1. /\ running' = [running EXCEPT ![t] = nxt] /\ regs' = [regs EXCEPT ![cur] = place]
      /\ UNCHANGED <<stack, cur_co>>
  BY DEF coroutine_swap
<1>2. buf' \in [Coroutines -> {"NULL", "garbage", "frames"}]
  BY DEF coroutine_swap, save_shared_stack
<1>3. CASE regs[nxt] = "entry"
  <2>1. /\ is_beg' = [is_beg EXCEPT ![nxt] = TRUE] /\ UNCHANGED fault
        /\ frames' = IF IsShared(nxt) THEN [frames EXCEPT ![stack[nxt]] = nxt] ELSE frames
    BY <1>3 DEF coroutine_swap, RoutineStartFun
  <2>2. frames' \in [SharedStacks -> Coroutines \cup {NULL}]
    BY <2>1 DEF IsShared
  <2> QED BY <1>1, <1>2, <2>1, <2>2
<1>4. CASE regs[nxt] # "entry"
  <2>1. UNCHANGED <<is_beg, frames>> /\ fault' \in {"no", "frames", "garbage"}
    BY <1>4 DEF coroutine_swap, SwitchedBack
  <2> QED BY <1>1, <1>2, <2>1
<1> QED BY <1>3, <1>4

\* co_start puts c on top of a chain, above the context that waits for it.
LEMMA StartIInv ==
  ASSUME IInv, NEW t \in Threads, NEW c \in Coroutines, co_start(t, c)
  PROVE  IInv'
<1> DEFINE n == Len(allcos[t])
           cur == running[t]
<1>1. /\ allcos' \in [Threads -> Seq(Contexts)]
      /\ \A u \in Threads \ {t} : allcos'[u] = allcos[u]
      /\ n \in Nat \ {0} /\ n < Size
      /\ Len(allcos'[t]) = n + 1 /\ DOMAIN allcos'[t] = 1..(n + 1)
      /\ \A i \in 1..n : allcos'[t][i] = allcos[t][i]
      /\ allcos'[t][n + 1] = c /\ Last(allcos'[t]) = c
      /\ c \in idle /\ ~is_end[c] /\ ~InUse(c) /\ stack[c] # "free"
  BY StartFacts
<1>2. /\ cur \in Contexts /\ c \in Contexts /\ cur = allcos[t][n] /\ DOMAIN allcos[t] = 1..n
      /\ cur # c /\ allcos[t][1] = t
  <2>1. cur = allcos[t][n] /\ DOMAIN allcos[t] = 1..n /\ allcos[t][1] = t
    BY ChainFacts
  <2>2. n \in DOMAIN allcos[t]
    BY <1>1, <2>1
  <2>3. cur # c
    BY <1>1, <2>1, <2>2 DEF InUse
  <2>4. cur \in Contexts /\ c \in Contexts
    BY DEF IInv, TypeOK, Contexts
  <2> QED BY <2>1, <2>3, <2>4
<1>3. /\ fault = "no"
      /\ coroutine_swap(t, cur, c, "co_start")
      /\ calling' = [calling EXCEPT ![cur] = c]
      /\ idle' = idle \ {c} /\ UNCHANGED is_end
  BY StartFacts DEF co_start
<1>4. /\ running' = [running EXCEPT ![t] = c] /\ regs' = [regs EXCEPT ![cur] = "co_start"]
      /\ UNCHANGED <<stack, cur_co>>
  BY <1>2, <1>3, SwapTypes
<1>5. TypeOK'
  <2>1. /\ running' \in [Threads -> Contexts]
        /\ regs' \in [Contexts -> {"none", "entry", "co_start", "co_yield", "end"}]
        /\ is_beg' \in [Coroutines -> BOOLEAN]
        /\ buf' \in [Coroutines -> {"NULL", "garbage", "frames"}]
        /\ frames' \in [SharedStacks -> Coroutines \cup {NULL}]
        /\ fault' \in {"no", "frames", "garbage"}
    BY <1>2, <1>3, SwapTypes
  <2>2. \A u \in Threads : Len(allcos'[u]) \in 1..Size /\ allcos'[u][1] = u
    BY <1>1, <1>2, CoroutineAssumption DEF IInv, TypeOK, CoroutineAssumption
  <2>3. calling' \in [Contexts -> Coroutines \cup {NULL}] /\ idle' \subseteq Coroutines
    BY <1>3 DEF IInv, TypeOK
  <2> QED BY <1>1, <1>3, <1>4, <2>1, <2>2, <2>3 DEF IInv, TypeOK
<1>6. \A u \in Threads : \A i \in DOMAIN allcos'[u] :
        (u = t /\ i = n + 1 /\ allcos'[u][i] = c)
        \/ (i \in DOMAIN allcos[u] /\ allcos'[u][i] = allcos[u][i] /\ allcos[u][i] # c)
  BY <1>1, <1>2 DEF InUse
<1>7. ChainsAreRight'
  <2>1. \A u \in Threads : running'[u] = Last(allcos'[u])
    BY <1>1, <1>4 DEF IInv, ChainsAreRight, TypeOK
  <2>2. \A u, v \in Threads : \A i \in DOMAIN allcos'[u], j \in DOMAIN allcos'[v] :
          allcos'[u][i] = allcos'[v][j] => u = v /\ i = j
    BY <1>6 DEF IInv, ChainsAreRight
  <2>3. \A u \in Threads : \A i \in DOMAIN allcos'[u] :
          allcos'[u][i] \in Coroutines => stack'[allcos'[u][i]] # "free"
    BY <1>1, <1>4, <1>6 DEF IInv, ChainsAreRight
  <2> QED BY <2>1, <2>2, <2>3 DEF ChainsAreRight
<1>8. CallsFollowChains'
  <2> SUFFICES ASSUME NEW u \in Threads, NEW i \in 1..(Len(allcos'[u]) - 1)
               PROVE  /\ calling'[allcos'[u][i]] = allcos'[u][i + 1]
                      /\ regs'[allcos'[u][i]] = "co_start"
    BY DEF CallsFollowChains
  <2>1. calling'[cur] = c /\ regs'[cur] = "co_start"
    BY <1>2, <1>3, <1>4 DEF IInv, TypeOK
  <2>2. \A x \in Contexts \ {cur} : calling'[x] = calling[x] /\ regs'[x] = regs[x]
    BY <1>3, <1>4 DEF IInv, TypeOK
  <2>3. CASE u = t /\ i = n
    BY <1>1, <1>2, <2>1, <2>3
  <2>4. CASE ~(u = t /\ i = n)
    <3>1. /\ i \in 1..(Len(allcos[u]) - 1) /\ i \in DOMAIN allcos[u]
          /\ allcos'[u][i] = allcos[u][i] /\ allcos'[u][i + 1] = allcos[u][i + 1]
      BY <1>1, <2>4, ChainFacts
    <3>2. allcos[u][i] # cur /\ allcos[u][i] \in Contexts
      <4>1. n \in DOMAIN allcos[t]
        BY <1>1, <1>2
      <4> QED BY <1>2, <2>4, <3>1, <4>1, ChainFacts DEF IInv, ChainsAreRight
    <3> QED BY <2>2, <3>1, <3>2 DEF IInv, CallsFollowChains
  <2> QED BY <2>3, <2>4
<1>9. \A d \in Coroutines : InUse(d)' <=> InUse(d) \/ d = c
  <2>1. \A d \in Coroutines : InUse(d)' => InUse(d) \/ d = c
    BY <1>6 DEF InUse
  <2>2. InUse(c)'
    BY <1>1 DEF InUse
  <2>3. \A u \in Threads : \A i \in DOMAIN allcos[u] :
          i \in DOMAIN allcos'[u] /\ allcos'[u][i] = allcos[u][i]
    <3>1. \A i \in 1..n : i \in 1..(n + 1)
      BY <1>1
    <3> QED BY <1>1, <1>2, <3>1
  <2>4. \A d \in Coroutines : InUse(d) => InUse(d)'
    BY <2>3 DEF InUse
  <2> QED BY <2>1, <2>2, <2>4
<1>10. \A d \in idle \ {c} : d \in Coroutines /\ regs'[d] = regs[d] /\ ~InUse(d)
  <2>1. \A d \in idle : d \in Coroutines /\ d \in Contexts /\ ~InUse(d)
    BY DEF IInv, TypeOK, IdleWaits, Contexts
  <2>2. n \in DOMAIN allcos[t]
    BY <1>1, <1>2
  <2>3. \A d \in idle : d # cur
    BY <1>2, <2>1, <2>2 DEF InUse
  <2> QED BY <1>4, <2>1, <2>3 DEF IInv, TypeOK
<1>11. IdleWaits'
  BY <1>3, <1>4, <1>9, <1>10 DEF IInv, IdleWaits
<1> QED BY <1>5, <1>7, <1>8, <1>11 DEF IInv

\* The last of a chain leaves it: its caller goes on, and it is idle again.
LEMMA LeaveIInv ==
  ASSUME IInv, NEW t \in Threads, NEW c \in Coroutines, Leave(t, c)
  PROVE  IInv'
<1> DEFINE n == Len(allcos[t])
           last == allcos[t][n - 1]
<1>1. PICK place \in {"co_yield", "end"} : SwapToLast(t, place)
  BY DEF Leave, co_yield, FunReturns
<1>2. /\ fault = "no" /\ running[t] = c /\ is_end' \in [Coroutines -> BOOLEAN]
  BY DEF Leave, co_yield, FunReturns, IInv, TypeOK
<1>3. /\ allcos' \in [Threads -> Seq(Contexts)]
      /\ \A u \in Threads \ {t} : allcos'[u] = allcos[u]
      /\ n \in Nat /\ n >= 2 /\ n <= Size
      /\ Len(allcos'[t]) = n - 1 /\ DOMAIN allcos'[t] = 1..(n - 1)
      /\ \A i \in 1..(n - 1) : allcos'[t][i] = allcos[t][i]
      /\ allcos[t][n] = c /\ last \in Contexts /\ last # c
      /\ Last(allcos'[t]) = last
      /\ calling[last] = c /\ regs[last] = "co_start"
      /\ idle' = idle \cup {c} /\ calling' = [calling EXCEPT ![last] = NULL]
      /\ coroutine_swap(t, c, last, place)
  BY <1>1, <1>2, LeaveFacts
<1>4. /\ running' = [running EXCEPT ![t] = last] /\ regs' = [regs EXCEPT ![c] = place]
      /\ UNCHANGED <<stack, cur_co>>
  BY <1>3, SwapTypes DEF Contexts
<1>5. DOMAIN allcos[t] = 1..n /\ n \in 1..n /\ n - 1 \in 1..n /\ allcos[t][1] = t
  BY <1>3, ChainFacts
<1>6. TypeOK'
  <2>1. /\ running' \in [Threads -> Contexts]
        /\ regs' \in [Contexts -> {"none", "entry", "co_start", "co_yield", "end"}]
        /\ is_beg' \in [Coroutines -> BOOLEAN]
        /\ buf' \in [Coroutines -> {"NULL", "garbage", "frames"}]
        /\ frames' \in [SharedStacks -> Coroutines \cup {NULL}]
        /\ fault' \in {"no", "frames", "garbage"}
    BY <1>3, SwapTypes DEF Contexts
  <2>2. \A u \in Threads : Len(allcos'[u]) \in 1..Size /\ allcos'[u][1] = u
    <3>1. n - 1 \in 1..Size /\ 1 \in 1..(n - 1)
      BY <1>3, CoroutineAssumption DEF CoroutineAssumption
    <3> QED BY <1>3, <1>5, <3>1 DEF IInv, TypeOK
  <2>3. calling' \in [Contexts -> Coroutines \cup {NULL}] /\ idle' \subseteq Coroutines
    BY <1>3 DEF IInv, TypeOK
  <2> QED BY <1>2, <1>3, <1>4, <2>1, <2>2, <2>3 DEF IInv, TypeOK
<1>7. \A u \in Threads : \A i \in DOMAIN allcos'[u] :
        i \in DOMAIN allcos[u] /\ allcos'[u][i] = allcos[u][i] /\ allcos[u][i] # c
  <2> SUFFICES ASSUME NEW u \in Threads, NEW i \in DOMAIN allcos'[u]
               PROVE  /\ i \in DOMAIN allcos[u] /\ allcos'[u][i] = allcos[u][i]
                      /\ ~(u = t /\ i = n)
    BY <1>3, <1>5 DEF IInv, ChainsAreRight
  <2>1. CASE u = t
    BY <1>3, <1>5, <2>1
  <2>2. CASE u # t
    BY <1>3, <2>2
  <2> QED BY <2>1, <2>2
<1>8. ChainsAreRight'
  <2>1. \A u \in Threads : running'[u] = Last(allcos'[u])
    BY <1>3, <1>4 DEF IInv, ChainsAreRight, TypeOK
  <2>2. \A u, v \in Threads : \A i \in DOMAIN allcos'[u], j \in DOMAIN allcos'[v] :
          allcos'[u][i] = allcos'[v][j] => u = v /\ i = j
    BY <1>7 DEF IInv, ChainsAreRight
  <2>3. \A u \in Threads : \A i \in DOMAIN allcos'[u] :
          allcos'[u][i] \in Coroutines => stack'[allcos'[u][i]] # "free"
    BY <1>4, <1>7 DEF IInv, ChainsAreRight
  <2> QED BY <2>1, <2>2, <2>3 DEF ChainsAreRight
<1>9. CallsFollowChains'
  <2> SUFFICES ASSUME NEW u \in Threads, NEW i \in 1..(Len(allcos'[u]) - 1)
               PROVE  /\ calling'[allcos'[u][i]] = allcos'[u][i + 1]
                      /\ regs'[allcos'[u][i]] = "co_start"
    BY DEF CallsFollowChains
  <2>1. /\ i \in 1..(Len(allcos[u]) - 1) /\ i \in DOMAIN allcos'[u]
        /\ allcos'[u][i] = allcos[u][i] /\ allcos'[u][i + 1] = allcos[u][i + 1]
        /\ ~(u = t /\ i = n - 1)
    <3>1. CASE u = t
      BY <1>3, <3>1
    <3>2. CASE u # t
      <4>1. allcos'[u] = allcos[u]
        BY <1>3, <3>2
      <4> QED BY <3>2, <4>1, ChainFacts
    <3> QED BY <3>1, <3>2
  <2>2. allcos[u][i] # c /\ allcos[u][i] \in Contexts /\ allcos[u][i] # last
    <3>1. allcos[u][i] # c /\ i \in DOMAIN allcos[u] /\ n - 1 \in DOMAIN allcos[t]
      BY <1>5, <1>7, <2>1
    <3> QED BY <2>1, <3>1, ChainFacts DEF IInv, ChainsAreRight
  <2>3. calling'[allcos[u][i]] = calling[allcos[u][i]] /\ regs'[allcos[u][i]] = regs[allcos[u][i]]
    BY <1>3, <1>4, <2>2 DEF IInv, TypeOK
  <2> QED BY <2>1, <2>3 DEF IInv, CallsFollowChains
<1>10. \A d \in Coroutines : InUse(d)' => InUse(d) /\ d # c
  BY <1>7 DEF InUse
<1>11. InUse(c) /\ c \in Contexts
  BY <1>3, <1>5 DEF InUse, Contexts
<1>12. regs'[c] = place /\ stack[c] # "free"
  BY <1>3, <1>4, <1>5, <1>11 DEF IInv, TypeOK, ChainsAreRight
<1>13. \A d \in idle : d \in Coroutines /\ ~InUse(d) /\ d # c /\ regs'[d] = regs[d]
  BY <1>4, <1>11 DEF IInv, TypeOK, IdleWaits, Contexts
<1>14. IdleWaits'
  BY <1>3, <1>4, <1>10, <1>12, <1>13 DEF IInv, IdleWaits
<1> QED BY <1>6, <1>8, <1>9, <1>14 DEF IInv

-----------------------------------------------------------------------------
LEMMA NextIInv == IInv /\ [Next]_vars => IInv'
<1> SUFFICES ASSUME IInv, [Next]_vars PROVE IInv'
  OBVIOUS
<1>1. ASSUME NEW c \in Coroutines, co_create(c) PROVE IInv'
  <2>1. UNCHANGED buf /\ buf \in [Coroutines -> {"NULL", "garbage", "frames"}]
    BY <1>1 DEF co_create, IInv, TypeOK
  <2> QED BY <1>1, <2>1, CreateIInv DEF co_create
<1>2. ASSUME NEW c \in Coroutines, NEW s \in SharedStacks, co_create_shared_stack(c, s)
      PROVE  IInv'
  <2>1. buf' \in [Coroutines -> {"NULL", "garbage", "frames"}]
    BY <1>2 DEF co_create_shared_stack, IInv, TypeOK
  <2> QED BY <1>2, <2>1, CreateIInv DEF co_create_shared_stack
<1>3. ASSUME NEW c \in Coroutines, clear_stack(c) PROVE IInv'
  BY <1>3, ClearIInv
<1>4. ASSUME NEW t \in Threads, NEW c \in Coroutines, co_start(t, c) PROVE IInv'
  BY <1>4, StartIInv
<1>5. ASSUME NEW t \in Threads, NEW c \in Coroutines, Leave(t, c) PROVE IInv'
  BY <1>5, LeaveIInv
<1>6. CASE UNCHANGED vars
  BY <1>6 DEF vars, IInv, TypeOK, ChainsAreRight, CallsFollowChains, IdleWaits, InUse
<1> QED BY <1>1, <1>2, <1>3, <1>4, <1>5, <1>6 DEF Next

\* The inductive invariant holds in every state.
THEOREM Invariant == Spec => []IInv
<1>1. Init => IInv
  BY InitIInv
<1>2. IInv /\ [Next]_vars => IInv'
  BY NextIInv
<1> QED BY <1>1, <1>2, PTL DEF Spec

\* process_scheduler.h: every variable keeps its kind; allcos_ is never empty, starts
\* with the thread's own context and stays within its slots.
THEOREM TypeCorrect == Spec => []TypeOK
<1>1. IInv => TypeOK
  BY DEF IInv
<1> QED BY <1>1, Invariant, PTL

\* coroutine_ctx.c:42, 96: each scheduler knows what its thread executes, no coroutine
\* is in two places of the chains, and none of a chain loses its stack.
THEOREM ChainsStayRight == Spec => []ChainsAreRight
<1>1. IInv => ChainsAreRight
  BY DEF IInv
<1> QED BY <1>1, Invariant, PTL

\* coroutine_ctx.c:52: a co_start returns on the thread that called it, when the
\* coroutine it started leaves.
THEOREM StartsReturn == Spec => ReturnsToStarter
<1> DEFINE Returned ==
             \A t \in Threads :
               running[t] # running'[t] /\ regs[running'[t]] = "co_start"
                 => calling[running'[t]] = running[t]
<1>1. IInv /\ [Next]_vars => [Returned]_vars
  <2> SUFFICES ASSUME IInv, Next, NEW t \in Threads,
                      running[t] # running'[t], regs[running'[t]] = "co_start"
               PROVE  calling[running'[t]] = running[t]
    OBVIOUS
  <2>1. ASSUME NEW c \in Coroutines, NEW u \in Threads, co_start(u, c) PROVE FALSE
    <3>1. running' = [running EXCEPT ![u] = c] /\ c \in idle
      BY <2>1 DEF co_start, coroutine_swap
    <3> QED BY <3>1 DEF IInv, IdleWaits, TypeOK
  <2>2. ASSUME NEW c \in Coroutines, NEW u \in Threads, Leave(u, c)
        PROVE  calling[running'[t]] = running[t]
    <3>1. PICK place : SwapToLast(u, place) /\ running[u] = c
      BY <2>2 DEF Leave, co_yield, FunReturns
    <3>2. /\ calling[allcos[u][Len(allcos[u]) - 1]] = c
          /\ running' = [running EXCEPT ![u] = allcos[u][Len(allcos[u]) - 1]]
      BY <3>1, LeaveFacts DEF coroutine_swap
    <3> QED BY <3>1, <3>2 DEF IInv, TypeOK
  <2>3. ASSUME NEW c \in Coroutines, co_create(c) \/ clear_stack(c) PROVE FALSE
    BY <2>3 DEF co_create, clear_stack
  <2>4. ASSUME NEW c \in Coroutines, NEW s \in SharedStacks, co_create_shared_stack(c, s)
        PROVE  FALSE
    BY <2>4 DEF co_create_shared_stack
  <2> QED BY <2>1, <2>2, <2>3, <2>4 DEF Next
<1> QED BY <1>1, Invariant, PTL DEF Spec, ReturnsToStarter
===============================================================================
