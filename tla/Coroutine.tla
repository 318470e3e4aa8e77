------------------------------ MODULE Coroutine ------------------------------
(***************************************************************************)
(* co/coroutine_ctx.c, co/process_scheduler.c: coroutines that start and   *)
(* yield to each other.  Each thread has a scheduler whose allcos_ is the  *)
(* chain of co_start calls, from the thread's own context (number 0) to    *)
(* the coroutine that runs.  A coroutine has a stack of its own or lives   *)
(* on a shared stack with others, and may yield on one thread and be       *)
(* started again on another, as test_recursive_corotine.c does.            *)
(*                                                                         *)
(* The program is legal: it starts a coroutine only when no co_start of it *)
(* is under way and it has not ended, and clears it only then (idle); only *)
(* a coroutine yields.  A context's registers are the place it resumes at. *)
(***************************************************************************)
EXTENDS Integers, Sequences, SequencesExt, FiniteSets

CONSTANTS Threads,          \* a thread also names its number 0 context
          Coroutines,       \* addresses of contexts
          SharedStacks,     \* common_shared_stack_t
          NULL,
          Size              \* bound: 128 slots of allcos_, which co_start does not check

ASSUME CoroutineAssumption ==
  /\ Threads \cap Coroutines = {} /\ NULL \notin Threads \cup Coroutines
  /\ "free" \notin SharedStacks /\ "own" \notin SharedStacks
  /\ Size \in Nat \ {0, 1}

VARIABLES allcos,    \* allcos_[0..co_index_] of each thread's scheduler
          running,   \* the context whose code each thread runs
          stack,     \* the stack of a coroutine: "own", a shared one, "free" if not allocated
          regs,      \* co_stack.reg: where a context resumes
          is_beg, is_end,
          buf,       \* co_shared_stack->buf; "garbage": malloc left something there
          cur_co,    \* cur_co of each shared stack
          frames,    \* whose frames lie on each shared stack
          calling,   \* the coroutine a context waits for in co_start
          idle,      \* coroutines no co_start waits for
          fault      \* what went wrong: "no", "frames" or "garbage"

vars == <<allcos, running, stack, regs, is_beg, is_end, buf, cur_co, frames, calling,
          idle, fault>>

Contexts == Threads \cup Coroutines

IsShared(x) == x \in Coroutines /\ stack[x] \in SharedStacks

TypeOK ==
  /\ allcos \in [Threads -> Seq(Contexts)]
  /\ \A t \in Threads : Len(allcos[t]) \in 1..Size /\ allcos[t][1] = t
  /\ running \in [Threads -> Contexts]
  /\ stack \in [Coroutines -> {"free", "own"} \cup SharedStacks]
  /\ regs \in [Contexts -> {"none", "entry", "co_start", "co_yield", "end"}]
  /\ is_beg \in [Coroutines -> BOOLEAN] /\ is_end \in [Coroutines -> BOOLEAN]
  /\ buf \in [Coroutines -> {"NULL", "garbage", "frames"}]
  /\ cur_co \in [SharedStacks -> Coroutines \cup {NULL}]
  /\ frames \in [SharedStacks -> Coroutines \cup {NULL}]
  /\ calling \in [Contexts -> Coroutines \cup {NULL}]
  /\ idle \subseteq Coroutines
  /\ fault \in {"no", "frames", "garbage"}

Init ==
  /\ allcos = [t \in Threads |-> <<t>>] /\ running = [t \in Threads |-> t]
  /\ stack = [c \in Coroutines |-> "free"]
  /\ regs = [x \in Contexts |-> "none"]
  /\ is_beg = [c \in Coroutines |-> FALSE] /\ is_end = [c \in Coroutines |-> FALSE]
  /\ buf = [c \in Coroutines |-> "NULL"]
  /\ cur_co = [s \in SharedStacks |-> NULL] /\ frames = [s \in SharedStacks |-> NULL]
  /\ calling = [x \in Contexts |-> NULL]
  /\ idle = {} /\ fault = "no"

-----------------------------------------------------------------------------
co_create(c) ==
  /\ fault = "no" /\ stack[c] = "free"
  /\ stack' = [stack EXCEPT ![c] = "own"]
  /\ regs' = [regs EXCEPT ![c] = "entry"]
  /\ is_beg' = [is_beg EXCEPT ![c] = FALSE] /\ is_end' = [is_end EXCEPT ![c] = FALSE]
  /\ idle' = idle \cup {c}
  /\ UNCHANGED <<allcos, running, buf, cur_co, frames, calling, fault>>

\* The context is cleared, the shared_stack malloc returns is not.
co_create_shared_stack(c, s) ==
  /\ fault = "no" /\ stack[c] = "free"
  /\ stack' = [stack EXCEPT ![c] = s]
  /\ regs' = [regs EXCEPT ![c] = "entry"]
  /\ is_beg' = [is_beg EXCEPT ![c] = FALSE] /\ is_end' = [is_end EXCEPT ![c] = FALSE]
  /\ \E b \in {"NULL", "garbage"} : buf' = [buf EXCEPT ![c] = b]
  /\ idle' = idle \cup {c}
  /\ UNCHANGED <<allcos, running, cur_co, frames, calling, fault>>

\* A buf that was never written is freed all the same.
clear_stack(c) ==
  /\ fault = "no" /\ c \in idle
  /\ stack' = [stack EXCEPT ![c] = "free"]
  /\ idle' = idle \ {c}
  /\ fault' = IF IsShared(c) /\ buf[c] = "garbage" THEN "garbage" ELSE "no"
  /\ UNCHANGED <<allcos, running, regs, is_beg, is_end, buf, cur_co, frames, calling>>

\* save_shared_stack: what lies on the stack goes to cur_co's own buffer.
save_shared_stack(next) ==
  IF IsShared(next) /\ cur_co[stack[next]] # NULL
  THEN buf' = [buf EXCEPT ![cur_co[stack[next]]] = "frames"]
  ELSE UNCHANGED buf

\* The jump to a context that never ran.
RoutineStartFun(next) ==
  /\ is_beg' = [is_beg EXCEPT ![next] = TRUE]
  /\ frames' = IF IsShared(next) THEN [frames EXCEPT ![stack[next]] = next] ELSE frames
  /\ UNCHANGED fault

\* The jump to a context that is in coroutine_swap itself.  resume_shared_stack would
\* copy upwards from co_shared_rbp, the end of the stack, so it never brings frames
\* back: with anything but NULL in buf it overwrites other memory.
SwitchedBack(t, next) ==
  LET top == Last(allcos'[t])
  IN  /\ fault' = CASE IsShared(next) /\ frames[stack[next]] # next -> "frames"
                     [] IsShared(top) /\ buf'[top] # "NULL"          -> "garbage"
                     [] OTHER                                        -> "no"
      /\ UNCHANGED <<is_beg, frames>>

\* From cur, which goes on at place when it is resumed, to next.
coroutine_swap(t, cur, next, place) ==
  /\ save_shared_stack(next)
  /\ regs' = [regs EXCEPT ![cur] = place]
  /\ running' = [running EXCEPT ![t] = next]
  /\ IF regs[next] = "entry" THEN RoutineStartFun(next) ELSE SwitchedBack(t, next)
  /\ UNCHANGED <<stack, cur_co>>

InUse(c) == \E t \in Threads : \E i \in DOMAIN allcos[t] : allcos[t][i] = c

\* The program's part (coroutine_ctx.h:95, coroutine_ctx.c:104-106): a coroutine is not
\* started on a stack that one of the chains is using.
MayUseStack(c) ==
  IsShared(c) => \A d \in Coroutines \ {c} : stack[d] = stack[c] => ~InUse(d)

\* Mutant: the coroutine takes the slot of the one that starts it.
co_startInPlace(t, c) ==
  /\ fault = "no" /\ c \in idle /\ ~is_end[c] /\ MayUseStack(c)
  /\ Len(allcos[t]) < Size
  /\ allcos' = [allcos EXCEPT ![t] = Append(Front(@), c)]
  /\ coroutine_swap(t, Last(allcos[t]), c, "co_start")
  /\ calling' = [calling EXCEPT ![running[t]] = c]
  /\ idle' = idle \ {c}
  /\ UNCHANGED is_end

co_start(t, c) ==
  /\ fault = "no" /\ c \in idle /\ ~is_end[c] /\ MayUseStack(c)
  /\ Len(allcos[t]) < Size                                          \* bound
  /\ allcos' = [allcos EXCEPT ![t] = Append(@, c)]
  /\ coroutine_swap(t, Last(allcos[t]), c, "co_start")
  /\ calling' = [calling EXCEPT ![running[t]] = c]
  /\ idle' = idle \ {c}
  /\ UNCHANGED is_end

\* Mutant: co_index_ is not decremented.
SwapToLastKept(t, place) ==
  LET n == Len(allcos[t])
      last == allcos[t][n - 1]
  IN  /\ UNCHANGED allcos
      /\ coroutine_swap(t, allcos[t][n], last, place)
      /\ idle' = idle \cup ({calling[last]} \ {NULL})
      /\ calling' = [calling EXCEPT ![last] = NULL]

\* Mutant: control goes to number 0.
SwapToLastMain(t, place) ==
  LET last == allcos[t][1]
  IN  /\ allcos' = [allcos EXCEPT ![t] = <<last>>]
      /\ coroutine_swap(t, Last(allcos[t]), last, place)
      /\ idle' = idle \cup ({calling[last]} \ {NULL})
      /\ calling' = [calling EXCEPT ![last] = NULL]

\* The body of co_yield: back to the one below, whose co_start returns.
SwapToLast(t, place) ==
  LET n == Len(allcos[t])
      last == allcos[t][n - 1]
  IN  /\ allcos' = [allcos EXCEPT ![t] = Front(@)]
      /\ coroutine_swap(t, allcos[t][n], last, place)
      /\ idle' = idle \cup ({calling[last]} \ {NULL})
      /\ calling' = [calling EXCEPT ![last] = NULL]

\* A coroutine's function calls it, and has not returned.
co_yield(t, c) ==
  /\ fault = "no" /\ running[t] = c /\ ~is_end[c]
  /\ SwapToLast(t, "co_yield")
  /\ UNCHANGED is_end

\* Mutant: the thread stays in the coroutine that ended.
FunReturnsStays(t, c) ==
  /\ fault = "no" /\ running[t] = c /\ ~is_end[c]
  /\ is_end' = [is_end EXCEPT ![c] = TRUE]
  /\ UNCHANGED <<allcos, running, stack, regs, is_beg, buf, cur_co, frames, calling,
                 idle, fault>>

\* The function returns to RoutineStartFun, which yields for the last time.
FunReturns(t, c) ==
  /\ fault = "no" /\ running[t] = c /\ ~is_end[c]
  /\ is_end' = [is_end EXCEPT ![c] = TRUE]
  /\ SwapToLast(t, "end")

Leave(t, c) == co_yield(t, c) \/ FunReturns(t, c)

Next ==
  \E c \in Coroutines :
    \/ co_create(c) \/ clear_stack(c)
    \/ \E s \in SharedStacks : co_create_shared_stack(c, s)
    \/ \E t \in Threads : co_start(t, c) \/ Leave(t, c)

\* The program's coroutines do not compute for ever: one that runs again and again
\* yields or ends again and again.
Fairness == \A t \in Threads, c \in Coroutines : SF_vars(Leave(t, c))

Spec == Init /\ [][Next]_vars /\ Fairness

-----------------------------------------------------------------------------
\* coroutine_ctx.c:42, 96: the schedulers are right about what runs: the top of each
\* thread's chain is the context it executes, and no coroutine is in two chains or
\* twice in one, however coroutines nest and move between threads.  What executes or
\* waits in co_start is allocated: clearing an idle coroutine never pulls a stack from
\* under a chain.
ChainsAreRight ==
  /\ \A t \in Threads : running[t] = Last(allcos[t])
  /\ \A t, u \in Threads : \A i \in DOMAIN allcos[t], j \in DOMAIN allcos[u] :
       allcos[t][i] = allcos[u][j] => t = u /\ i = j
  /\ \A t \in Threads : \A i \in DOMAIN allcos[t] :
       allcos[t][i] \in Coroutines => stack[allcos[t][i]] # "free"

\* coroutine_ctx.c:52: a co_start returns when the coroutine it started leaves, on
\* the thread that called it, and not when some other one does.
ReturnsToStarter ==
  [][\A t \in Threads :
       running[t] # running'[t] /\ regs[running'[t]] = "co_start"
         => calling[running'[t]] = running[t]]_vars

\* coroutine_ctx.h:91-99: the coroutines of one shared stack take turns on it, and one
\* that goes on finds its frames there again.
FramesSurvive == fault # "frames"

\* Every thread comes back to its own context when the coroutines yield or end.
ThreadRegainsControl ==
  \A t \in Threads : running[t] # t ~> running[t] = t \/ fault # "no"
=============================================================================
