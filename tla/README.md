# MyLittleTool in TLA+

MyLittleTool is a collection of small server building blocks in C and C++: a timer wheel, an
asynchronous logger, a base for worker threads, caches, clients of two configuration services, a
coroutine library, containers, and sorting and searching exercises. The blocks hardly call each other; a program
takes the ones it needs. The verification project is therefore one module (or a few) per block, and the composition that
matters is inside a block: threads and their condition variable, an io thread and the network,
a wheel and the handlers it calls, schedulers and coroutines that move between them.

Paths below are relative to the repository (`src/` omitted). To check a module run
`tlc -config X.cfg M` with the pair given under [Runs](#runs), to check the proofs run
`tlapm` on each of the eight modules named `*_proofs`.

## Inventory

### Components, their state and what makes them correct

| component | state | operations | what is hard | what it owes its user |
|---|---|---|---|---|
| **Timer wheel** `co/timewheel.c` | `tick_`, five arrays of linked lists with head and tail, timers | `AddTimer`, `Tick` (advance, cascade, fire), handlers that add timers | lists re-linked while they are walked; laps, 32-bit differences, counters; freed timers | every timer fires once per request, on time, none is lost, no freed one is touched, `Tick` returns |
| **Logger** `LLog.cpp` | queue, stop flag, open file, time of the next file change; per thread a stream and a cached time | `LogPrint`/`AppendLog`, `Run`/`WriteFile`, `Stop`, `Join` | condition variable, stop flag outside the mutex, shutdown drain, midnight; statements that nest in one stream | lines are whole, go out in order and once, `Join` returns after all of them, the file is the day's |
| **LFU cache** `LFU_Cache.h` | key table, table of lists by frequency, least frequency | `get`, `put` | two tables, stored iterators and an incrementally kept minimum must agree | evicts the oldest of the least used, answers with the value put last |
| **LRU cache** `LRU_Cache.h` | list, key table with iterators | `Add`, `GetVal`, `Clear` | an iterator that outlives its node | evicts the key used longest ago |
| **Consul client** `ConsulClient.cpp` | per key: index, object; one timer for all | `RegistKeyValue`, `Init`, reply handlers, retry | request chains over failures, a shared timer, stop | every key is watched, never goes back, catches up, failed requests are retried |
| **Apollo client** `ApolloConfigClient.cpp` | notification ids, parse handlers, per-failure timers, count-down | `RegistConfig`, `BeginWatching`, `WaitGetAll...`, watch and fetch handlers | ids saved before contents come, replies out of order, the start-up wait | nothing released is missed, the watch goes on, the wait ends when all is loaded |
| **Coroutines** `co/coroutine_ctx.c`, `co/process_scheduler.c` | per thread: chain `allcos_`; per coroutine: registers, stack, flags; shared stacks | `co_create`, `co_create_shared_stack`, `co_start`, `co_yield`, `clear_stack` | nesting, migration between threads, several coroutines on one stack | control returns to the starter, no freed stack runs; what is on a shared stack survives (it does not) |
| **Worker thread** `ThreadOper.hpp` | two lists swapped by `Pop`, stop flag | `Push`, `Pop`, `Stop`, `Join` | lost wake-up, what a stop drops | every item handed out once |
| **Balanced trees** `DataStruct/RBTree.hpp`, `AVL_Tree.hpp`, `BinarySearchTree.hpp` | nodes with cached heights, or colours, parent links and a sentinel | `insert`, `deletenode`, `find`, `getprenode`, `getnextnode`, traversals with and without recursion | rebalancing cases reached by few sequences, nodes that take over another's key | behaves as a table, stays balanced, visits keys in order |
| **Containers** `DataStruct/queue.hpp`, `deque.hpp`, `stack.hpp`, `priority_queue.hpp` | a ring or an array, or linked nodes; a heap | push, pop, growth, front, back | wrap-around and growth | behave as the sequence they stand for |
| **C hash table** `hash_table.c` | buckets of lists | insert, find, delete, grow, iterate, clear | growth in the middle of an insertion, an allocation that fails | behaves as a map; an iteration meets every entry once |
| **Sorts** `Sort/` | the array | 18 sorting functions | holes and pivots, the last pass, negative numbers, one value | a sorted array of the same values |
| **Exercises** `Algorithm/` | the input | searches, sums, monotone stacks, lists | first and last index, ties, the ends of lists | the answer the comment asks for |
| **Process start** `Linux_StartProcess.hpp` | limits, session, descriptors | three limits, `Daemonize`, `SwitchFileTo` | which descriptors are open already, which call fails | a detached process with its own files |
| **Reactor** `co/Reactor.c` | epoll set | only partly written | - | - |
| **Spin lock**, **Redis value**, **back trace**, **RabbitMQ consumer** | little or none | - | - | - |

`json.hpp`, `spdlog/`, `rabbitMQ_C/`, `include/`, `example/`, `VS2015/`, `co/back` and `co/backup`
are vendored or superseded code.

How the parts touch: `main.cpp` starts the logger, registers Consul keys after the client's
`Init`, and runs the tests; both configuration clients log through the logger; the timer wheel is
driven by whoever owns the event loop (`Tick` is called from outside); coroutines share nothing with the
rest. Each of these contacts is a call into a component that its module shows as an action the
environment may take at any moment its guards allow.

### Hazards

`PROJECT.json` lists what is hard to test, at the line where it bites, with the properties that
watch it. The first group is about steps of two actors nobody wrote a test for (the stop flags of
the logger and of the worker thread, the shared timer of the Consul client, fetches of the Apollo client that overtake each
other, a coroutine resumed by another thread); the second about state that is maintained
incrementally and may be stale (list tails of the wheel, iterators and the least frequency of the
caches, the index of a blocking query, whose frames a shared stack holds, the log stream a thread
shares with the operands of its own statement); the third about boundaries (laps, 32-bit counters, capacity,
rings that wrap while they grow, a failed allocation in the middle of an insertion, the first and the last
node or value); the fourth about long sequences of
legal calls (deletions that reach one branch of a re-balancing, restarts of nested coroutines).

## Modules

| module | models | extends / used by |
|---|---|---|
| `TimeWheel` | the wheel, one step per list node visited; at its end the requests of the runs | - |
| `TimeWheel_proofs` | its theorems | `TimeWheel`, TLAPS |
| `ThreadOper` | the double-buffered worker thread, its owner and the threads that push | - |
| `ThreadOper_proofs` | its theorems and that of `StartProcess` | `ThreadOper`, an instance of `StartProcess`, TLAPS |
| `LogState`, `LLog` | loggers, writer thread, main thread, clock, file opens; `LogState` holds the variables and what holds of every state, for `LLog` and for `MCThreads` | - |
| `StreamState`, `LogStream` | the stream and the cached time of one thread that logs; `StreamState` as `LogState` | - |
| `LLog_proofs` | the theorems of the logger and of a thread that logs | `LLog`, an instance of `LogStream`, TLAPS |
| `ProcessState`, `StartProcess` | `Linux_StartProcess.hpp` and the kernel's part in it; `ProcessState` as `LogState` | - |
| `MCThreads` | a worker thread, a logger, a thread that logs or a process that starts | `ThreadOper`, instances of the others |
| `CacheParameters` | constants and assumptions both caches share | - |
| `EvictingCache` | **abstract**: what a bounded cache promises, for both eviction rules | - |
| `LFUCache` | `LFU_Cache.h` | `CacheParameters` |
| `LFUCacheHistory` | `LFUCache` with a history of which key was used before which, and the refinement mapping | `LFUCache` |
| `LFUCache_proofs` | its theorems, the refinement included | `LFUCacheHistory`, TLAPS |
| `LRUState`, `LRUCache` | `LRU_Cache.h` with node identities, and its refinement mapping; `LRUState` as `LogState` | `CacheParameters` |
| `Dictionary` | **abstract**: what a search tree or a hash table promises, for both ways to treat a key inserted again | - |
| `SearchTree` | the shape of a tree and the queries the three trees share | - |
| `BinarySearchTree`, `AVLTree`, `RBTree` | the three trees, with their mapping to `Dictionary` | `SearchTree` |
| `HashTable` | `hash_table.c`, with its mapping to `Dictionary` | - |
| `Sequence`, `MaxBag` | **abstract**: what queues, deques and stacks promise; what a priority queue does | - |
| `LinkedNodes` | nodes by number, `new` and `delete` | - |
| `Queue`, `Deque`, `Stack` | the array and the linked class of each, called alike, with their mappings to `Sequence` | `LinkedNodes`, `Stack` none |
| `PriorityQueue` | the heap, with its mapping to `MaxBag` | - |
| `Containers` | the queues, deques, stacks and the hash table of one program, and what they owe together | instances of `Queue`, `Deque`, `Stack`, `HashTable` |
| `Containers_proofs` | the theorems of `LRUCache` and of `Containers`, the eight refinements included | `LRUCache`, `Containers`, TLAPS |
| `Sorts` | the functions of `Sort/` | - |
| `Algorithms`, `ListAlgorithms` | the exercises of `Algorithm/` on vectors and texts, and on lists | - |
| `MCContainers` | a program with one of the containers, or one that tries the exercises | `LFUCacheHistory`, `Containers`, instances of the others |
| `ConsulClient` | `ConsulClient.cpp/.h`, the server and the network | - |
| `ConsulClient_proofs` | its theorems | `ConsulClient`, TLAPS |
| `ApolloState`, `ApolloConfigClient` | `ApolloConfigClient.cpp/.h`, the server and the network; `ApolloState` as `LogState` | - |
| `ApolloConfigClient_proofs` | its theorems | `ApolloConfigClient`, TLAPS |
| `MCConfigClients` | a program with one client or the other | both |
| `Coroutine` | threads, schedulers, coroutines, stacks | - |
| `Coroutine_proofs` | its theorems | `Coroutine`, TLAPS |

### How state and actions correspond to the code

**TimeWheel.** `heap` holds the heads and tails of all slots, `next_`, `linked_list_` and the
fields of every timer, and which addresses are allocated (`Timers` are the addresses `malloc` may
return, so a freed one comes back). `Tick` is split where the code walks: `TickLoop` is
`tick_++` and the entry into `SwitchOthWheel`, `_SwitchOthWheel` moves one node to its new list,
`SwitchOthWheel` empties the slot and goes up a wheel, `Fire` runs one timer and re-adds or frees it,
`FireDone` is `head_ = NULL`. Handlers are external: a handler may add one timer (`Handled`).
`SlotFor` and `Idx` keep the code's arithmetic: the `int` difference, the order of the range
tests, and the fifth wheel's number used with the fourth wheel's array. Times are kept modulo
the span of the wheels, which stands for 2^32; the clock is kept as its lead over the wheel
(`lag`). `heap.stale` is history: a timer was appended behind a `tail_` left on a slot that had
fired. `CallTicks` are the ticks at which an event loop calls `AddTimer`; handlers call it whenever they fire.

**LLog.** The writer holds `m_mutex` over several steps (`RunLock`, `WaitTest`, `WaitBlock`), so
that `Stop`, which does not take the mutex, can fall between the predicate and the sleep. Lines are
ranks. `WriteFile` is three steps because `m_nextChangeTime` is read twice while the starting thread
may still be setting it (`StartDate`): the race's outcomes are the choices in `WriteFileRoll`.

**ThreadOper.** The shape is the logger's: the worker holds `m_mutex` from `PopLock` to `WaitBlock` or
`PopReturn`, `Stop` is a store and a notify without it. `wait` and `doing` are the two lists; `PopReturn`
swaps them, or returns the batch at hand when stopped. `LoopRun` is the subclass's: it works on the batch and
either empties it (`clears`, chosen once) or leaves it, in which case the batch comes back by the next
swap. `given` is history: all that Pop has handed out. `lost` is history: a notify reached nobody.

**LogStream.** `open` is the stack of log statements of one thread that are under way: an operand may call a
function that logs. `stream` and `haveWrite` are the one `g_logstreamPerThread` they share. A line is the time it
shows and the operands put into it; the time's digits are kept one by one, because the code
rewrites three of them in place. `due` is what the outermost view of a statement says it ought to log.

**StartProcess.** One process through `LinuxStartProcess`: `limits`, descriptors (`FREE` or what they are
open on), whether it leads its group. What a shell may have left it with (descriptors closed, limits,
root, a group of its own) and which files can be opened are the initial states.

**LFUCache, LRUCache.** One action per call. In the LFU cache an iterator is the list it points
into, because no list holds a key twice (an invariant); in the LRU cache a hit does push a second
node of a key, so nodes have identities there. `CacheParameters` excludes capacity 0, with
which the first insertion is undefined behaviour.

**SearchTree, BinarySearchTree, AVLTree.** A tree is `NULL` or a record with its subtrees. The code of
the two works from the root down one path (the AVL tree by recursion that returns the new
subtree), no node has a link upwards and none is shared, so nested records lose nothing. The loops of the
traversals with a stack are kept as loops over a stack, so that they can be compared with the recursive
ones. `aborted` is the failed `assert` at the end of `AVLTree::insert`.

**RBTree.** The tree with links and parent links is kept as functions from nodes to nodes, sentinel
included (its `parent_` is lent to it during a deletion). A node is identified with its key; a
deletion that copies the successor's key into the node it empties is `Renamed`. `Rotated` is both
rotations, the side being a parameter; `SiblingColoured` is where the two sides of the code differ.
`crashed` is a null pointer followed. `lost` is history: a deletion went through
`RBTree.hpp:648`.

**HashTable.** `chains` is `table_`, from slots to chains of entries; `<<>>` is the `NULL` of a table that never
grew. `hash_table_insert` is the whole call: the search, the growth, whose allocation may fail (`Grown`),
and the entry, whose allocation may fail too. `Hash` is given per key, so that collisions come and go with growth.
The loops over a chain and over the table are recursive functions of how far they have come (`Moved`, `Rehashed`,
`alreadyDel`). A deletion before the first growth is `crashed`.

**Queue, Deque, Stack.** One call is made on the array class and on the linked class at once, and each is
mapped to the sequence it holds; so they are compared with `Sequence` and, by `AnswersAgree`, with each other.
Arrays keep what a place held after its `~T()` as `EMPTY`. Nodes are numbered, and a deleted one is no longer a
node, so a pointer left to it shows. A pop of an empty container throws and changes nothing, so it is no step.

**Sorts, Algorithms, ListAlgorithms.** An initial state is an input, a step is one call on it, and the functions
are operators: loops are folds over the indexes they visit or recursive operators over what they change.
Inner loops that only look for a place are `CHOOSE` or `Least`. Arrays start from 0. `Garbage` is what
`malloc` returned. Lists are the links between numbered nodes.

**ConsulClient.** Each key has a sequence of requests in flight; a request carries the index it asks
with (`NoIndex` for a plain query) and, once answered, the reply. The handlers are the branches of
`callBack` (`OnError`, `OnUnchanged`, `OnGarbage`, `OnChanged`); each removes its request and sends
the next or arms `timer`, the one key whose retry `m_timer` holds. Arming it again aborts the wait
that is pending; a handler that has already been queued (`due`) still runs. `lost` is history: the
keys whose chain was let go, by a `request` that threw or by an aborted retry. `Sent` is
`DoRealQuestConfig`: of the index it is passed it sees only whether the query is plain, a blocking one asks with the
saved index. Base64 and JSON are reduced to how the object takes the content (`Parsed`): it takes it, or it refuses
it and says nothing. `refused` is history: the version refused since the one it holds. The server and the network
are external.

**ApolloConfigClient.** `watch` is the one long poll of an appId and cluster: queued, in flight,
answered, waiting for its timer, or ended, when its request could not be written as JSON (lines 127-136).
`OnWatchReply` is the whole handler: ids saved, a fetch for every namespace named, the next watch sent. Fetches have connections of their own and may be handled in
any order. `missed` is history: a load of the namespace was lost, refused or overtaken. One pair of
appId and cluster is modelled; pairs share only `m_totalConfigs`, whose two users here are the two
namespaces. `RegistConfig` happens before the watch starts, as the usage note at
`ApolloConfigClient.h:142-147` has it.

**Coroutine.** `allcos` is `allcos_[0..co_index_]` of each thread, `running` the context whose
code the thread executes: they are separate, because that they agree is a property. `regs` is where a
context resumes. `coroutine_swap` is one step including what the resumed context does after its
jump (the reading of the scheduler and of `buf`). `frames` says whose frames lie on a shared stack; a
context that goes on with other frames is the fault "frames"; a `buf` that `malloc` did not
clear is "garbage", and the behaviour ends in either. `calling` is the frame of a pending `co_start`; `idle` is what the program
knows: which coroutines no `co_start` is waiting for.

## Runs

Twelve runs; five pass, seven end in a counterexample that contradicts something the repository says.

| run | module, cfg | question | outcome |
|---|---|---|---|
| `TimeWheel` | `TimeWheel` | is a timer kept until due, fired on time, not too often? does `Tick` reach a freed timer, does it return? | the first until the first append behind a stale tail, like being on time for timers nearer than `Unit(5)`; the rest always; it returns unless a tail is stale or two timers beyond the fourth wheel are put back into the slot being walked |
| `TimeWheelStaleTail` | `TimeWheel` | is every pending timer on its list? | **no**, see finding 1 |
| `Threads` | `MCThreads` | worker thread: order, nothing lost, progress, does `Stop` end it? | hold; it does unless its notify is lost |
| | | logger: order, flush at `Join`, files by day, progress | hold |
| | | does a log statement write its own line? does a process start apart from the shell, on its own files? | yes, unless another is nested in it; yes |
| `LLogStop` | `LLog` | does `Join` return? | **no**, finding 2 |
| `Containers` | `MCContainers` | do the caches' tables and iterators agree, do they implement `EvictingCache`? do the trees and the hash table implement `Dictionary`, answer, traverse and iterate rightly, keep their heights and links? do queues, deques, stacks and the heap implement `Sequence` and `MaxBag`? | yes |
| | | do insertions keep the AVL balance, do the red-black rules hold? | yes; up to the first deletion through `RBTree.hpp:648` |
| | | do the sorts sort, do the exercises answer rightly? | yes, but for the cases named in `ExercisesRight` |
| `ConfigClients` | `MCConfigClients` | one chain per key, no going back, catching up; the watch goes on, nothing is missed, the start-up wait ends | hold, with the excuses named in the properties |
| `ConsulRetry` | `ConsulClient` | is a failed request retried? | **no**, finding 3 |
| `ApolloWait` | `ApolloConfigClient` | is everything loaded when the start-up wait ends? | **no**, finding 4 |
| `Coroutine` | `Coroutine` | are the chains right, allocated and unwound in order, do threads regain control? | yes; a behaviour ends where a coroutine goes on with the frames of another |
| `CoroutineShared` | `Coroutine` | do frames on a shared stack survive? | **no**, finding 5 |
| `RBDelete` | `MCContainers` | do the red-black rules survive deletions? | **no**, finding 6 |
| `AVLDelete` | `MCContainers` | can the assertion of `AVLTree::insert` fail? | **yes**, finding 7 |

### What the properties say

- *TimeWheel*: `KeptUntilDue` (a timer that the first four wheels can hold is reachable from the head of the
  list `linked_list_` names, also while that list is being walked and whatever farther timers do there),
  `FiresOnTime` (a fired slot holds this tick's timers only and none of those is overdue), `NeverRunsTooOften`,
  `NoFreedTimerVisited`, `TickReturns` (excused: a stale tail; and two timers of 2^26 ms or more in one slot of
  `tv4_` that are still too far away when it comes up: each is appended behind the other, for ever).
- *Threads, worker*: `HandedOutInOrder`, `EveryItemComesOut`, `StopEndsUnlessLost` (the one way for `Join` not to
  return is a notify between the worker's test and its sleep).
- *Threads, logger*: `OutInOrder` (a line is repeated only by the last round after `Stop`, which writes the
  content it still holds; when `Join` returns, all that was logged before `Stop` is out),
  `FilesFollowDays`, `EveryLineGoesOut`, `LinesAreWhole` (excused: a statement within whose operands another
  logged, which destroys it).
- *Threads, process*: `StartsRight` (a session apart from the shell's; descriptors whichever of them the shell had
  closed; the limit of files is lowered only by the slip at `Linux_StartProcess.hpp:65`). That the process leads its
  session is not claimed: see below.
- *Containers, caches*: `TablesAgree`, `MinFreqIsLeast`, `NeverOverfull`, `IteratorsLive`, and the refinement
  `CachesEvictRightly` (the abstract specification as a property of both).
- *Containers, trees*: `DictionariesAndHeapRight` (the abstract specification as a property, of three trees, and of
  the heap), `TreesAndIteratorRight` (stored heights, also in a tree a deletion has unbalanced; colours and parent
  links; neighbours by the order of keys; every traversal with a stack visits what the recursive one of its name does;
  and the iterations of the hash table, for a caller that has the iterator: `hash_table_get_iterator` is modelled as
  handing it over or not, as the missing `return` has it),
  `InsertKeepsBalance` (at every node, where the code's assertion looks at three).
- *Containers, sequences and hash table*: `ContainersRight` (seven refinements: two classes each of queue, deque and
  stack implement `Sequence`, the hash table `Dictionary`), `AnswersRight` (both classes give the same `size`, `front`
  and `back`, no node is leaked, a deque is linked backwards as forwards; the assertion of `hash_table_clear` holds
  whenever it might be called).
- *Exercises*: `ExercisesRight`, against definitions that do not use the algorithm: sorted and of the same values; the best
  of all windows, rectangles or subarrays; the fewest coins of all payments; lists made anew. What the code does instead
  is stated for the two cases where it differs: `lookright` with equal heights in sight, a circle that the head is in.
- *Consul*: `OneChain`, `WatchesWhatItHas` (a blocking query sleeps on the version the object holds, or on the one it
  refused since, which the code saves all the same), `NeverGoesBack`, `CatchesUp` (excused: garbage content, a
  lost chain, a stop).
- *Apollo*: `LoadedOrMissed` (an id saved before its content is loaded in the end unless a fetch was
  lost, refused or overtaken: exactly those three), `KeepsWatching` (unless the request cannot be written as JSON),
  `WaitEnds` (unless the watch is over, or the first load of a namespace was lost or refused).
- *Coroutine*: `ChainsAreRight` (also: holds no freed stack), `ReturnsToStarter`, `ThreadRegainsControl`;
  `FramesSurvive` is the one of `CoroutineShared`, and fails.

### Bounds and why they are enough

- *TimeWheel*: two timers are the smallest number for which one can be behind, before or in the
  way of the other on a list, and an address that is freed is handed out again. Wheels of 2 (`tv1_`)
  and 3 slots keep all five wheels and let behaviours go through several laps of all of them (`tick` is
  modulo the span, so laps are unbounded). The event loop adds timers at the start of a lap (`CallTicks`): one of
  two runs, one for the fourth wheel, one beyond it; handlers add, whenever they fire, a periodic one of the third
  wheel or one beyond the fourth. So timers beyond the fourth come back to the slot that is walked, one at a time and
  two at a time, also next to near ones. In `TimeWheelStaleTail` wheels have 2 slots. `MaxLag = 1` lets the clock move
  during a `Tick`.
- *Threads*: three items or lines (one in hand, one queued, one being added); two midnights
  so that a file change can be late by more than a day. Two log statements nested, one operand each, at times
  with one, two and three digits of milliseconds in one second and a later one. Three standard
  descriptors, each open or closed, and a fourth that `open` may return. What is not checked waits in one
  initial state.
- *Containers*: four keys for three places, so that every insertion beyond the third evicts, frequencies
  up to 3, so that a list empties below and above others. A
  `BinarySearchTree` of up to 5 keys has a node of every kind with every kind of subtree below it; an
  `AVLTree` of up to 8 keys every rotation at and below the root, and is the smallest in which a
  deletion leaves equal heights where they matter; an `RBTree` of up to 6 keys every case of both
  re-balancings, a red sibling included. Values are the keys, with a second value for one of them, so that
  a copied value cannot be mistaken. The hash table gets five keys and starts with 2 slots instead
  of 32, so that it grows twice and collisions part and stay. Arrays start with 2 places (16 in the
  code) and grow past `ResizeLimit` (3, for 1024) with five values: doubled once, then by the fixed step. Sorts
  get arrays of up to 5 values with ties, a negative one, and one to three digits; vectors have
  up to 5 numbers, lists up to 7 nodes (two groups of three and a rest). The container that is not used stays empty.
- *ConfigClients*: two keys, because the timer is shared; two versions, so that a reply can be
  overtaken by a change. Two namespaces with one more release each, so that two fetches of one
  namespace overlap. The client that does not run stays in one initial state; the two share nothing.
- *Coroutine*: three coroutines nest three deep, two threads let one move while the other thread
  has a chain, one shared stack is contended by up to three.
- Named bounds in guards: `MaxFreq` (uses of a key), `MaxVersion`, `MaxRelease`, `MaxLines`, `MaxItems`,
  `MaxGiven`, `MaxDepth`, `MaxPuts`, `MaxLength`, `LastDay`, `MaxLag`, `Size` (nesting; 128 in the code, which does not check it), `CallTicks`.

`CHECK_DEADLOCK FALSE` is given where the system may stop: the logger and the worker after `Join`, a process that has started, an exercise that has been run, the Consul
client with nothing registered in time, the Apollo client without namespaces, coroutines after a fault, a tree that has crashed or aborted.

### Fairness

- *TimeWheel*: the clock runs, the event loop keeps calling `Tick`, and a call runs to its end (one thread).
- *Threads*: the worker (or writer) and the main thread are scheduled: `WF` of the steps of each thread, which has one
  enabled at a time. Nobody has to push, log or stop, and spurious wake-ups need not happen.
- *Clients*: the io thread runs its handlers and timers expire. That a query asked again and again is
  answered some time (strong fairness of `Answers`, `WatchAnswered`) and that the Apollo client's `request` does not throw
  for ever are assumptions about the environment, without which no client can catch up; failures in
  between are not limited.
- *Coroutine*: a coroutine that runs again and again yields or ends again and again (strong
  fairness of `Leave`): the functions are the user's, and do not loop.

## Findings

1. `co/timewheel.c:213` resets only `head_` of a fired slot. The next timer for that slot is
   appended behind the freed `tail_` and is on no list: it never fires (`TimerInItsList`).
2. `LLog.cpp:76` sets the stop flag and notifies outside the mutex; when both fall between the
   writer's test and its sleep, `Join` never returns (`StopEndsWriter`). `ThreadOper.hpp:47` is alike
   (`StopEndsUnlessLost` shows it to be the only way).
3. `ConsulClient.h:80`: one timer for all keys; a second failure aborts the retry of the first key,
   which is never asked for again (`FailedIsRetried`).
4. `ApolloConfigClient.cpp:267` counts loads, not configurations; one namespace loaded twice ends the
   start-up wait with another never loaded (`WaitLoadsAll`).
5. `co/coroutine_ctx.c:34`: `cur_co` is never assigned, so shared stacks are never saved; a coroutine that
   yielded finds another's frames (`FramesSurvive`). `resume_shared_stack` would copy upwards from the
   end of the stack as well.
6. `DataStruct/RBTree.hpp:648` colours the black sibling of a right child black where the mirror image (584)
   and the comment above (645) make it red. Insert 1, 2, 3, 4 and delete 1 and 3: two ways down meet different
   numbers of black nodes (`RedBlack`); deleting 2 then looks at the children of the sentinel, which are
   null, and crashes. The tree's own check cannot see it: `blackheight` (840) is
   always 0 or 1 by a slip of precedence, and `IsBanlace` never recurses.
7. `DataStruct/AVL_Tree.hpp:681` rotates twice when the higher child's subtrees are equally high, which after a
   deletion they may be (line 689, for the other side, is right). Insert 6, 3, 7, 1, 4, 8, 2, 5 and delete 7: a
   node is unbalanced, and the next insertion fails its `assert` (`AssertionHolds`).

Seen while reading and not shown by a run of its own:

- *Timer wheel*: a timer of n runs that is due while it is being moved to a lower wheel is freed after one run
  (`co/timewheel.c:55`, against `co/timewheel.h:72`); timers beyond the fourth wheel are stored by the wrong digit
  (`:97`), where two of them can keep a `Tick` from ever returning (`TwoComeBack`), while `co/timewheel.h:59` promises
  49 days; a time-out of 2^31 ms or more is negative (`:51`); a cascade over a stale tail can link two timers into a ring.
- *Clients*: an Apollo notification id is saved before its content has come, against `ApolloConfigClient.cpp:55`, so a
  failed fetch is not repeated, and the start-up wait (`:58`) lasts for ever when it was a namespace's first; a watch
  whose request cannot be written as JSON is over (`:127-136`). The Consul client saves the index of a content that
  the object refused (`ConsulClient.h:113-140`) under the comment that it has been parsed (`ConsulClient.cpp:242`),
  so the object is not offered it again.
- *Coroutines*: `shared_stack` is not cleared after `malloc` (`co/coroutine_ctx.c:115`); `co_start` pushes on 128
  slots without a test (`:98`).
- *Logger*: a statement nested in another's operands empties their common stream (`LLog.cpp:155`).
- *Process start*: the header says that the process leads its new session (`Linux_StartProcess.hpp:6-7`, `70-71`,
  `77`); the second fork, of which line 79 says that it is not necessary, leaves it to a member that does not. The
  fallback for the stack limit sets that of files (`Linux_StartProcess.hpp:65`); standard input is switched to `dev/null`, a relative path (`:107`), and stays closed where there is no such file.
- *Containers*: `ArrayQueue::back` with `rear_` 0 reads before the array (`queue.hpp:78`); `push(q.front())` on a full
  array reads freed memory (`:118`); `LinkedListQueue` keeps `tail_` on the node its last pop deleted, harmlessly. The array
  classes destroy a value on `pop` and later assign to the place, and destroy it again with the array: undefined for a
  class with a destructor that frees.
- *Trees*: `BinarySearchTree.hpp:44-45` and `52` call the predecessor the leftmost, least node of the left subtree, against
  line 34 and the code; `RBTree::findmax` on an empty tree goes on to the sentinel's null links.
- *Hash table*: a deletion from a table that never grew crashes (`hash_table.c:108`, against the comment above
  it); `hash_table_get_iterator` has no `return`; `hash_table_clear` frees the table and leaks `table_`; deleting the entry
  an iterator stands on makes it read freed memory (`:176`).
- *Sorts*: `recursive_merge_sort` of one value copies memory nobody wrote (`merge_sort.c:58`); `count_sort` gives up after
  it has changed every value (`count_sort.c:27-31`); values that span 2^31 overflow when the minimum is taken off.
- *Exercises*: `findListCircle` walks for ever round a circle through the head (`ListAgorithm.cpp:144`); a list
  shorter than `k` becomes empty in `reverseKGroup` (its nodes leak); merged lists share their nodes with the two they were
  made from; `lookright` gives 1 for the heights 1, 1, while its comments (`Sigle_Stack.cpp:67`, `72-74`) let only the taller
  see the shorter, and the example at `6-7` says 25 where 10 is right for 4, 3, 2, 5, 6;
  `getRain`'s total is not initialised; `change` does not count what it says.

## Proofs

Eight modules hold theorems. TLC shows a property on the instances of [Runs](#runs); a theorem shows it for every
value of the constants that the named assumptions allow. All proofs have one shape: an invariant `IInv` that
implies the property, `Init => IInv`, one lemma per action that carries `IInv` over it, `NextIInv` (or `StepRight`)
that puts the actions together, and a temporal theorem `Invariant` from which the others follow. Every `IInv` has been
checked by TLC before it was proved, but for those of the sequential containers and the hash table: they speak of a path of
nodes and of a count that exist, which TLC cannot look for; it has checked what follows from them.

| module | theorem | statement | hypothesis |
|---|---|---|---|
| `LFUCache_proofs` | `TypeCorrect`, `TablesAlwaysAgree`, `MinFreqAlwaysLeast`, `CapacityKept` | `Spec => []TypeOK`, `[]TablesAgree`, `[]MinFreqIsLeast`, `[]NeverOverfull` | |
| | `DropsTheLeastUsed` | `HistorySpec => EvictsLeastFrequent`, that is `Abstract!Spec` | |
| `Containers_proofs` | `TypeCorrect`, `IteratorsStayLive` | `Spec => []TypeOK`, `[]IteratorsLive` | |
| | `DropsTheLongestUnused` | `Spec => Abstract!Spec` | |
| | `QueuesAreSequences`, `DequesAreSequences` | `Queues!Spec => Queues!RingSequence!Spec /\ Queues!ChainSequence!Spec /\ []Queues!AnswersAgree`; the same of `Deques` | |
| | `StacksAreSequences` | `Stacks!Spec => Stacks!ArraySequence!Spec /\ Stacks!ChainSequence!Spec` | |
| | `TableIsDictionary` | `Table!Spec => Table!Dict!Spec /\ []Table!ClearMeetsAll` | |
| | `ContainersKeepTheirPromise`, `AnswersAlwaysRight` | the four specifications imply `ContainersRight`, `[]AnswersRight` | |
| `ThreadOper_proofs` | `TypeCorrect`, `AlwaysHandedOutInOrder` | `Spec => []TypeOK`, `[]HandedOutInOrder` | |
| | `ProcessesStartRight` | `Process!Spec => []StartsRight` | |
| `LLog_proofs` | `TypeCorrect`, `LinesInOrder`, `FilesAlwaysFollow` | `Spec => []TypeOK`, `[]OutInOrder`, `[]FilesFollowDays` | |
| | `LinesStayWhole` | `Stream!Spec => []LinesAreWhole` | |
| `TimeWheel_proofs` | `TypeCorrect`, `WalksReachLiveTimers` | `Spec => []TypeOK`, `[]NoFreedTimerVisited` | |
| | `NoneRunsTooOften` | `Spec => []NeverRunsTooOften` | `CountsArePositive` |
| | `NoTimerIsLost`, `TimersFireOnTime` | `Spec => []KeptUntilDue`, `[]FiresOnTime` | `TimeoutsAreShort` |
| `ConsulClient_proofs` | `TypeCorrect`, `AlwaysOneChain`, `AlwaysWatchesWhatItHas` | `Spec => []TypeOK`, `[]OneChain`, `[]WatchesWhatItHas` | |
| | `WatchesWhatItHolds` | `Spec =>` a blocking query asks with the version the object holds | `"refused" \notin Qualities` |
| | `ObjectsNeverGoBack` | `Spec => NeverGoesBack` | |
| `ApolloConfigClient_proofs` | `TypeCorrect`, `AlwaysLoadedOrMissed` | `Spec => []TypeOK`, `[]LoadedOrMissed` | |
| `Coroutine_proofs` | `TypeCorrect`, `ChainsStayRight` | `Spec => []TypeOK`, `[]ChainsAreRight` | |
| | `StartsReturn` | `Spec => ReturnsToStarter` | |

Four theorems have a hypothesis beyond the constants' assumptions, because the code breaks without it. `CountsArePositive`:
a request with a count asks for at least one run; 0 wraps in `--execu_times_ != 0` (`co/timewheel.c:204`).
`TimeoutsAreShort`: a timeout and the lag of the clock together fit the first four wheels, `Unit(5)` milliseconds, which is
2^26 or eighteen hours for 256 and 64 slots; beyond, line 97 stores a timer by the wrong digit and loses it.
`"refused" \notin Qualities`: no object refuses a content, which is when the index saved is that of the version held. `MaxLag` is at least 1 by
`SizesAssumption`: a clock that never runs ahead would never let `Tick` do anything.

### The inductive invariants

**LFU cache.** No one of the four invariants is inductive alone: that erasing a node leaves the other keys in place
needs that a list holds a key once (`TablesAgree`), that the eviction finds a key needs `MinFreqIsLeast`, and that
`m_minFreq + 1` has a list needs the types. `IInv` is their conjunction. `EraseFacts`, `AppendFacts`, `TailFacts`
and `EmptyFacts` say what the list operations do to the keys of a list. For the refinement, `Ordered` adds that the history
orders the held keys (no two are each before the other) and that every list follows it: then the head of the list
of `m_minFreq` is before all others of its frequency, so it is the one key `EvictingCache` lets go (`RemoveMinFreStep`).

**LRU cache.** `Agree` ties the list to the table: every entry's node is in the list with its key and the other way
round, nodes and keys differ, and there are as many nodes as entries. `FreshFacts` shows by the pigeonhole principle that a node
is free when one is needed, `EraseBehind` that pushing the new node before the old one is erased comes to the same as
the other order. For the refinement, `UsedBefore` reads the order off the list; `RemoveKeepsOrder`, `PushIsNewest` and
`LastIsVictim` say what the list operations do to it.

**Queues, deques, stacks.** `QueueInv`, `DequeInv` and `StackInv` describe both classes at once. The array: the values from
the first index on, round the ring (`Along`, with `Wrap` for the remainder), of a size that leaves the free place the code
relies on; `Grows` shows that the copying loops of a growth unroll the ring, whichever way it has wrapped. The nodes:
there is a `path` that visits every allocated node once (`Visits`: so none is leaked), each linked to the next
(`Follows`) and in a deque also back (`Precedes`), from the one end pointer to the other; `AddedLast`, `AddedFirst`,
`RemovedFirst` and `RemovedLast` say what the four changes do to a path. Both hold the same values, which is the
sequence. That `new` finds a free number is the pigeonhole principle (`FreshNode`).

**Hash table.** `Hashed`: every entry is in the chain where its key's hash belongs, and no chain holds two of one key; so one key,
one entry (`OneEntry`), and `find` gives the value of the entry that is there (`FindIs`). `Counted`: `use_` is the sum of the
lengths of the chains. `MovedKeepsHashed` and `RehashedKeeps` are the two loops of a growth: whatever the order in which
entries are moved, each arrives in the chain that the *new* size says, and the new keys never meet their own, because the
chains that are still to be moved hold other hashes. `OverwriteSets`, `PutSets` and `UnlinkUnsets` say what the three changes
do to the dictionary.

The loops are recursive functions, and the prover cannot instantiate the library's induction theorems.
Two lemmas stand in for them. `SetInduction`: a set of naturals that holds 0 and with every number the next holds all
naturals, proved from the pigeonhole principle on intervals, that is from the theorems on finite sets; `UptoInduction` is its
form up to a bound. `RecursionExists`: a recursion of `N` turns has a solution, proved by `SetInduction`; from it
follows that `CHOOSE` finds one, and that any two agree.

**Worker thread.** A swap puts the old batch where new items wait, so it must be known that a worker that empties its
batches comes to `Pop` with none, and that what a batch holds has been handed out (`BatchIsGiven`); and that
no worker runs before `Start`.

**Logger.** `Phases` says who holds `m_mutex` where, and that the last rounds come after `Stop`. `ListFollows`: the
list holds the lines after the one in hand. `Progress` says for each place of the writer how far the file is: each line once, or
the one repeated line that the last `Run` after `Stop` writes again (`OneRepeated`). `DaysFit` relates the clock,
`m_nextChangeTime`, what the writer has read of it and the day of the open file, and is silent where the race of
the start makes it silent (`early`).

**A thread that logs.** `StreamIsTheInnermost`: every statement but the innermost has been logged within, so only the
innermost has a claim on the one stream; as long as nothing is logged within it, the stream holds its line. That the
head is right needs that the cached second is the one shown, and that rewriting the last digits gives the same digits as
formatting all of them (`SameDigits`), for which `TimesAssumption` bounds the milliseconds.

**Process start.** `LimitsFollow`, `DaemonFollows` and `FilesFollow` say for each call how far the three parts of the start
have come. `SwitchesOne` is the heart of the last: whichever descriptor `open` returns, only the one that is switched
changes. `LimitsAssumption` has what the code relies on: the kernel's limit of files is finite.

**Timer wheel.** That no walk meets a freed timer is true even after a tail went stale, so it cannot rest on tails or on
`linked_list_`. `LeadToLive` speaks of the other pointers only: heads, `next_` of live timers and the walk lead to
live timers, none of them in hand. That needs `Apart`: no two of them lead to the same timer, so that freeing one
leaves no pointer to it; and the head of the slot being walked is excepted, which is why it must be reset in the end.
`CountsFit`: runs made and runs left add up to what was asked.

The second part of the module proves that nothing is lost before a tail goes stale. `KInv` has two sides. The
arithmetic: `Turns` counts the slots of a wheel that begin before a timer expires, and `Placed` says that a timer is in the
slot that many further on, less than a turn ahead if its wheel is `Open` (its slot for this tick is being served or will
be), and at most a turn, but not zero, if it is closed. `TickPlaced` opens exactly the wheels that begin a slot,
`ClosePlaced` closes the one whose slot has been emptied, and `SlotForPlaced` shows that `_AddTimer` satisfies
`Placed` and never chooses a slot that is being walked. `AlignedUp`: the cascade goes on to the next wheel exactly when
that begins a slot too. The lists: `OneList`, `Reached` and `Tails` say that each list holds the timers that name it, all
of them, and ends in its tail; reachability is "every set closed under `next_` that holds the head holds the
timer", so that no induction is needed: `ChainKept` carries a set that is closed in the new heap back to the old one.

**Consul client.** `OneEach` is `OneChain` place by place: request, timer, queued handlers. `AsksForRegistered`
keeps the chains to what `Init` started; `RepliesAreNewer`: an object is never ahead of a reply that waits to be handled, which is
what makes a retry without an index harmless. `IndexIsOffered`: the saved index is that of the version held, or of the one
refused since; with `AsksWhatIsSaved`, which must survive that the saved index changes under a request in flight and does
because there is one chain, it gives `WatchesWhatItHas`.

**Apollo client.** `LoadedOrComing`: a saved id is loaded, missed, or some fetch under way will bring it (`Brings`);
`IdsFollowReleases` is why a fetch that starts now brings at least what the id announced.

**Coroutines.** `CallsFollowChains`: below the top of a chain each context waits in `co_start` for the one above;
`IdleWaits`: what the program may start is in no chain and not in `co_start`.

### What stays with TLC

- Liveness (`TickReturns`, `EveryItemComesOut`, `StopEndsUnlessLost`, `EveryLineGoesOut`, `CatchesUp`, `KeepsWatching`,
  `WaitEnds`, `ThreadRegainsControl`): the prover has no ENABLED and no fairness here.
- The trees (`InsertKeepsBalance`, `RedBlackUntilLost`, their share of `Dictionary`): they are records in records, and what a
  RECURSIVE operator computes over them is out of the prover's reach, as is induction over such data. The heap, whose sinking
  loop is one, the sorts and the exercises (`ExercisesRight`) likewise.
- `IteratesAll` of the hash table: two loops in one over a state that no step changes; TLC covers it.

## Plan

1. *Done*: all modules above and their runs; proofs of both caches and of their refinements, of the worker thread, the logger,
   both configuration clients, the coroutines, a thread that logs, the start of a process, the timer wheel (its
   pointers, its counts and its times), and of the refinements of queues, deques, stacks and the hash table.
2. *Next*: the heap against `MaxBag`, with its loops as recursive functions like those of `HashTable`.

## Not modelled

- `Reactor` (its operations are declared, not written), the spin lock (one atomic flag, mutual exclusion by
  construction), the Redis value (conversions of a library's variant type), the RabbitMQ consumer (empty stubs).
- Formatting and text conversions of all components, the overloads of the logger's `operator<<`, back traces.
- `RBTree`'s printing and its own checks (`IsBanlace`, `BlackHeight`), `size_` of the trees, iterators and copies of the
  sequential containers, the hash functions and key copies callers give the hash table.
- Of `Algorithm/`: what only prints or enumerates (queens, Hanoi, subsets, reversed words, Roman numerals, the most frequent,
  tree paths, unique numbers, cheapest flights), `getRain` and `change`, which are broken as they stand, and the second
  copies of stack, queue and heap in `CommonDataStruct.hpp`.
- The assembler of `coroutine_ctx_swap.s` is reduced to "save here, go on there"; it leaves the stack pointer eight bytes
  lower than a return would, which is harmless only while `coroutine_swap` is compiled with a frame pointer, as the
  Makefile does.
- Vendored code: of the 73 000 lines of C and C++ in the repository, 20 000 are `json.hpp` and most of the others `spdlog/`,
  `rabbitMQ_C/` and `include/` (web sockets and HTTP). None of them is this project's own, and no
  component reaches into them but by the calls that the client modules treat as external. The project's own code that is left
  is, for the larger part, the same traversals and queries written once more in each of three trees, which
  `SearchTree` models once, and test programs.
