# A verification project for minimal-vulkan-compute-shader

The program sorts ten integers on the GPU. `src/main.cpp` sets up Vulkan, submits one compute
dispatch, waits for it, prints the result, tears everything down and exits; `shaders/shader.hlsl`
is the sort, one workgroup with shared memory; `Profiler/` replaces `operator new` and `delete` to
report memory to the Tracy profiler, which is vendored in `tracy/`: a client library in the program,
and a viewer that runs in another process. These TLA+ modules model the
program, TLC checks them on small instances and TLAPS proves some of the results for every
instance. Paths and line numbers are those of the repository.

## Inventory

| Component | State it keeps | Operations | What is hard about it | What makes it correct |
|---|---|---|---|---|
| Compute shader (`shaders/shader.hlsl`) | shared arrays `KeysA`, `KeysB`, `Hist`, `BucketOffset`, `WaveBucketCounts`, `WaveBucketOffsets`; registers of 256 threads | load; per 4-bit digit: clear, count by wave, sum, prefix over buckets, prefix over waves, rank in wave, scatter, copy back; store | 256 threads between barriers, waves of unknown size, an uninitialised register | no race, no access out of bounds, every pass stable, output sorted, no thread stuck at a barrier |
| Host (`src/main.cpp`) | `TContext`, `g_DestroyStack`, command buffers, fence | nine set-up functions, `SubmitWork`, `Cleanup` | the GPU runs in parallel; any call may throw; lifetimes follow from the order of pushes | handles live, GPU idle before destruction, the printed result is the finished one, nothing leaks, it ends |
| Tracy's Vulkan context (`TracyVulkan.hpp`, `VkCtx`) | query pool, `m_head`, `m_tail`, `m_oldCnt`, `m_res` | construct, begin and end zone, `Collect`, destroy | queries are written and reset by the GPU, handed out by many threads, collected by one, in a ring | reset before write; each time reported once, in order, to its own zone |
| Memory hooks (`Profiler/Profiler.cpp`) | `g_tracyActive`, thread-local domain stack, block headers | `AllocateImpl`, `FreeImpl`, push, pop, `SetTracyActive` | run on every thread, before and after the profiler's life | events the server accepts, Tracy entered only while alive, domains nest |
| Profiler macros (`Profiler/Profiler.h`) | none | `ProfilerTrace*`, `ProfilerVk*` | check, then act | as above |
| Performance window (`Profiler/Value.h`) | a deque of samples | `Push`, averages, minimum, maximum | an empty window | at most `MaxSamples`, exact statistics |
| Tracy client (`tracy/public/client`, `public/common`) | event queues, `m_buffer`, `m_symbolQueue`, the connection; threads `Worker` and `SymbolWorker` | queue events, accept, send, answer queries, resolve call stacks, shut down | three threads, a peer that may vanish at any point, a shutdown that waits for it | events in order, every question answered, shutdown ends |
| Tracy server (`tracy/server/TracyWorker.cpp`) | ring of frames, query space and queues, pending counters, the trace; threads `Exec` and `Network` | receive, process events, ask for names, end the session | flow control in both directions, the end of the session | no frame overwritten, no send blocks, nothing unknown at the end |
| Server's GPU timeline (`TracyWorker.cpp`) | `GpuCtxData`: zone of each query, stack of each thread | GPU zone begin, end, time | query numbers are used again | what is drawn is what happened |
| Task dispatch (`tracy/server/TracyTaskDispatch.cpp`) | `m_queue`, `m_jobs`, `m_exit`; a pool of threads | queue, sync, run, destroy | two condition variables | each task run once, `Sync` waits for all, no wake-up lost |
| Frame image loading (`TracyWorker.cpp:1320`) | slots with an atomic state | scan, fill, pack, take | slots used again while others are packed | each image gets its own data |

The host calls the shader through the queue and reads its output buffer after a fence; the host and
the hooks send events to Tracy; `main` starts and stops the profiler around everything else. Client
and server share one TCP connection: events and answers go one way, queries the other.
`PROJECT.json` lists the hazards line by line, with the property that watches each.

## Modules

| Module | Models |
|---|---|
| `StableRadixPasses` | what the shader should compute: one stable pass a step |
| `RadixSort` | `shader.hlsl`; refines `StableRadixPasses` |
| `MCRadixSort` | small keys and inputs for TLC |
| `RadixSortProofs` | theorems about `RadixSort` |
| `OffloadedJob` | what the host promises: launch, complete, show, finish, or abort |
| `VulkanHost` | `main.cpp`, `VkCtx` as it is used, and the GPU queue; refines `OffloadedJob` |
| `TimestampQueue` | what `VkCtx` promises: each timestamp reported once, in order |
| `GpuTimeline` | the server's GPU context and its event handlers, as operators |
| `VkQueryRing` | `VkCtx`, `VkCtxScope`, the GPU, and the timeline the events make; refines `TimestampQueue` |
| `VkQueryRingProofs` | theorems about `VkQueryRing` and the timeline |
| `MemoryHooks` | `Profiler.cpp`, with the start and shutdown of the profiler |
| `MCMemoryHooks` | symmetry of addresses |
| `MemoryHooksProofs` | theorems about `MemoryHooks` |
| `TracyLink` | the connection and its messages, shared by the next two |
| `TracyClient` | the client's threads: main, `Worker`, `SymbolWorker` |
| `TracyServer` | the viewer's threads: `Exec`, `Network` |
| `TracySession` | client, server and connection composed, with the user and the network |
| `MCTracySession` | the programs that TLC runs |
| `TracySessionProofs` | theorems about the frames, and the server's ring of buffers |
| `TracyQuerySpaceProofs` | theorems about the server's questions and their query space |
| `TracyEventOrderProofs` | theorems about the order in which the server gets the events |
| `TracySessionEndProofs` | theorems about the end of a session, and the types of `TracySession` |
| `ForkJoin` | what a thread pool promises: `Sync` returns when every task has been run |
| `TaskDispatch` | the viewer's thread pool |
| `FrameImageLoad` | the loading of frame images, with the pool; refines `ForkJoin` |
| `FrameImageLoadProofs` | theorems about `FrameImageLoad` and `TaskDispatch` |

### RadixSort

An action is what one thread does between two `GroupMemoryBarrierWithGroupSync` calls, named for
it: `LoadInput` (41-44), `ClearTables` (51-60), `SumOverWaves` (82-92), `PrefixOverBuckets`
(95-104), `PrefixOverWaves` (106-119), `Scatter` (131-137), `CopyBack` (139-143), `StoreOutput`
(144-146). `CountInWave` and `RankInWave` contain wave intrinsics and are one step of a whole wave.
`Interval(t)` counts the barriers thread `t` has passed; a thread moves only when no thread is
behind it (`Released`). `Reads` and `Writes` give the shared words of the next stretch, and
`Conflict` is a data race: two released threads, one word, one write.

A key is the function from digit positions to digits, all the shader looks at, so comparing keys is
comparing 32-bit unsigned words; the radix (16) and the number of digits (8) are constants. The
uninitialised `previousWave` of line 114 is any member of `UninitStarts`; values from `WaveNb` up
all skip the loop, so `0 .. WaveNb` is every case. The index of line 134 is written as in the code,
`waveIndex + Radix + bucket`. A store outside an array is undefined and left out of the model.
`StaysInBounds` shows that none happens when the keys fit in one wave and the register is not 0
(`radix_one_wave`; `InBounds` proves it for every size). With several waves it does not hold: the
scatter of line 135 leaves `KeysB`, in a group of six and waves of two from five keys on, by the two
defects of lines 114 and 134. `radix_many_waves` therefore says nothing of where the scatter goes,
and keeps to inputs of three keys, for which every run of it is defined. A lane's wave is
`tid / waveSize`, as in line 36.

### VulkanHost

Each function of `main.cpp` is the sequence of its Vulkan calls in order, with the objects each
call is given; `main` is their concatenation and `Lambda` says what each pushed lambda destroys.
An action makes the next call of one kind (`CreateObject`, `SubmitCmd`, `Wait`, ...); a call that
may throw may also `Throw`, which ends the program without `Cleanup`, as an uncaught exception
does. `CleanupCall` and `PopLambda` are `Cleanup`. `ProfilerShutdown` is the call of line 509, from
which `Exit` returns to reach `_exit(0)`: with a viewer connected it blocks until the viewer is
closed, since main's own zone is still open (`session_open_zone` shows why; `viewer` is all that is
left of Tracy's client here). `GpuCommand` and `GpuComplete` run the submitted batches, in parallel
with the host. `tracy` is chosen once: both builds are covered.

`VkCtx` calls the C API and ignores what it returns. Each of these calls may fail unnoticed
(`IgnoreFailure`): it has done nothing, and the next is made; a command recorded into a buffer that
was not begun is there or not. `RetryQueryPool` is the loop of `CreateQueryPool`, which halves the
pool and tries again, without an end; `CollectFails` is a `vkGetQueryPoolResults` that fails and
leaves `m_res` with whatever it held. `ignored` remembers that such a failure happened: from then on
Tracy's own use of its command buffer and queries may be illegal, which is what the code does, and
`CommandBuffersLegal`, `QueriesResetFirst` and `ZoneReported` do not speak of it; the others do.

### MemoryHooks

Per thread, `NewBlock` ... `NewReturns` is `AllocateImpl` and `DeleteBlock` ... `DeleteReturns` is
`FreeImpl`, a step for each access to shared state: `malloc` or `free`, the load of `g_tracyActive`,
each `IsProfilerStarted`, each event, sent under `m_serialLock`. The stages of `main` are
`StartupProfiler` (data, then flag), `SetTracyActive(true)`, work, `ShutdownProfiler` (flag, then
data), `_exit`. `traced` and `fault` are the server's rule for memory events. Two facts about the
program are guards: threads other than main belong to the Vulkan driver and are gone before
`ProfilerShutdown` (`StopProfiler`, `Runs`), and blocks allocated before tracing are not deleted
during it (`DeleteBlock`; they are those of the static `g_DestroyStack`, whose deque never outgrows
its first node and whose destructor `_exit` skips). Alignment and the header's layout are abstracted.

### VkQueryRing and GpuTimeline

`OpenScope` and `CloseScope` take the next query and record its timestamp (`VkCtxScope`, 515-527 and
631-636); `SendBegin` and `SendEnd` queue the event (529-537, 638-645), a step later, so another
thread's events may come between. `Submit` and `GpuExecute` are the application and the GPU.
`Collect` is a step for each point where others may come between: `m_head` read and the batch chosen
(`CollectBegin`, 254-288), the results fetched (`CollectResults`, 291), each available result reported
(`CollectReport`, 293-310, a turn of the loop under the lock of the serial queue, with `idx` its
counter), and the reported queries reset (`CollectEnd`, 296-335).
`hostReset` chooses the constructor, and with it whether the reset is immediate or a recorded
command. The events change `server`, a record with the query table and the zones, by the operators
of `GpuTimeline`, one for each handler of `TracyWorker.cpp` (5721-5994); times are sent as
differences, as `DequeueSerial` does. `scopes` and `stamps` are ghosts, what really happened.
`Paced` is an assumption about the callers: the code hands out queries without asking whether the
ring has room, and the manual (`tracy.md:1425`) asks for a regular collect instead.

### TracySession

`TracyClient` has one action for each step of a thread between two points where another thread or
the peer can interfere. `worker` is the place in `Profiler::Worker`: accepting, the main loop, the
loop that rejects, and the three phases of the end (`drain`, `terminate`, `final`, lines 2164-2242).
`Dequeue` puts one item, preceded by a `ThreadContext` when the producer changes, in the buffer, and
sends the buffer when the item does not fit. `HandleServerQuery` answers, or passes call stack
addresses and symbols to `SymbolWorker`, whose answers are events of its own. `TracyServer` has
`Network`, with its credits and its ring of three frames, and `Exec`: an action for each kind of
event, and `FrameDone`, which returns the credit, sends the queries
that waited and decides whether the session is over (2882-2954). A frame is at most `FrameSize`
messages; a message has the length 1. The connection (`TracyLink`) holds `LinkFrames` frames, after
which a send blocks; it may be lost at any time, with what is on it. The viewer may be closed at any
time, and opened again. Names, addresses and answers are the messages `[kind, ref]`; an answer
repeats its question. `lost` and a closed end make sends fail and reads end.

A handler of the server asks several questions, and gives back the unit of query space of the answer
it handles, in an order of its own. `Desk` is what these change, and `Query`, `AskFor` and `GiveBack`
are functions from desk to desk, composed in the code's order: a source location asks for its three
strings and gives back last (4522-4525, 3697-3728), a call stack frame gives back before it asks for
its symbol (4701-4707), a symbol after it asked for its code (4708-4711, 6708-6747). A context item
asks for nothing (4793-4801): the thread's name is asked for by the handler of its first zone or call
stack (`GetCurrentThreadData`, 3453-3490), after the source location or the frames, so never for the
symbol thread or the worker. What the questions are about is given by constants: `SourceLocations`
names the strings of each location, `Symbols` the symbol of each address, `WithCode` the symbols of
which the server wants the code.

Simplified: an answer is one item, although the client sends some as several (the name before a
frame's size, the subframes after it), and an address has one symbol, where inlined functions would
give it several. Left out: the texts of source files (`CacheSource`), symbols of a kernel, and the
group hint of a thread, which the client queues with its name and the server's end test does not
wait for (only threads that were given one; `main` was not). The server matches a source location's
answer to the first of those it waits for, the model by the name in it; the client answers in order.

### TaskDispatch and FrameImageLoad

What a thread does under `m_queueLock` is one step; a thread that waits is at `"waits"` until it is
notified, or wakes spuriously (`Wake`), so a notification too few shows. The loader is the caller of
the pool: `Scan`, `Read` and `QueueFrame` for each image, `StartSync`, `StartExit`, `Collect`; `Pack`
and `StoreReady` are the task. The caller runs tasks itself in `Sync`. `Unfinished`, the tasks queued
or run, is `pending` of `ForkJoin`.

## Runs

| Run | Result | Question |
|---|---|---|
| `radix_one_wave` | passes | does the shader sort when the keys fit in a wave and the register is not 0? |
| `radix_many_waves` | passes | with several waves and any register, what still holds? |
| `radix_wave_prefix` | violation | is `WaveBucketOffsets` the prefix over waves (line 27)? |
| `radix_stable_rank` | violation | with the register at 0, is `dst` the final offset (line 131)? |
| `vulkan_host` | passes | all of the host's properties, both builds, all schedules and failures |
| `gpu_queries` | passes | is every GPU zone drawn as it happened, around the ring? |
| `gpu_results` | violation | does a batch fit in the results buffer (`TracyVulkan.hpp:222`)? |
| `memory_hooks` | passes | are the memory events sound and complete, and Tracy alive when entered? |
| `memory_domains` | violation | do domains nest when a scope pushes `Default` (`Profiler.cpp:32`)? |
| `tracy_session` | passes | is the session right and complete, with loss and closing, and does the program end? |
| `session_open_zone` | violation | does shutdown return inside an open zone, as in `main`? |
| `frame_image_load` | passes | does each image get its data, and does the loading end? |

**What the shader runs say.** The sort is correct exactly by luck: `radix_one_wave` assumes
`Count` at most the wave size and a register that is not 0 (`UninitStarts = {1, 2, 3}`), which is
what ten keys on common GPUs give; under it `ImplementsPasses` (a refinement), `OutputSorted`,
`NoRace`, `StaysInBounds` and `Terminates` hold. `radix_many_waves` drops both assumptions: the histogram
(`HistCountsKeys`) and the bucket starts (`BucketsStartInOrder`) are right for all waves, and every
race that can happen is between two scatters (`RacesOnlyInScatter`). The two violations show the
two lines to blame, 114 and 134, separately.

**Bounds of the shader.** Radix 2, two digits, six threads, a table of three waves. The loop body
is the same for every digit and every bucket, so two digits show how passes compose (a less
significant order kept by a later pass) and two buckets how bucket starts and offsets interact.
Wave size 4 gives a full, a partly idle and an idle part in the one-wave case; wave size 2 gives
three waves of which two hold keys. `OneWaveInputs` is every input of up to three keys, every
permutation of four and four equal keys; `ManyWaveInputs` includes the descending keys that `main`
writes, equal keys and keys that share only one digit. It stops at three keys because from five on a
destination may leave `KeysB`, after which the program is undefined; what the run shows of the
tables is proved for any number of keys (`HistogramExact`, `BucketStartsExact`). The tables
hold `JunkCount` = 7 and the key arrays a junk key before they are written, so a missing clear or a
missing load shows.

**Bounds of the host.** `Queries`: a pool of four of the 65536 timestamp queries, or of two, as many
as one zone takes, when the driver refuses four. A driver that refuses two (`FewestQueries`) is taken
to refuse all sizes, which is the loop without an end. The program has no other loop or input: any
call of main may throw, and any number of the context's calls may fail unnoticed.

**Bounds of the hooks.** Two threads, main and a driver thread, two addresses (one may be reused
while the other is held), two domains, two nested scopes. Each hook touches one block, so two blocks
and two threads give every way that hooks meet on an address; addresses are symmetric.

**Bounds of the ring.** Four queries, or two when the driver refuses four (`CreateQueryPool`
halves); two threads, one of which collects; three zones, nested up to two deep. Six queries go once
and a half round a ring of four and three times round one of two, so batches are cut at the end of
the pool at different positions, with and without an unfinished batch before them.

**Bounds of the session.** Frames of two messages, so an item with its `ThreadContext` may be split
between two; one frame on the connection; query space of two, fewer than the questions of a named
zone and its thread, so some wait; one packet kept back for termination (the only one there is:
`SendsNeverBlock` holds with one, the code has four). The programs are a named zone (a
source location, its three strings and the thread, all of them urgent) and a zone with a call stack
of one address, which has no symbol or one with code: then the last answer is a frame's, which comes
from SymbolWorker through its event queue, or the code, which Worker sends, and the urgent thread name
overtakes the others in the server's queues. All three producers queue events.
The connection may be lost and the viewer closed in every state, and any number of viewers follow.

**Bounds of the pool.** Three workers, three slots and five images: slots are used again, two tasks
can wait, and the caller can run one while the workers run the others.

**What the session runs say.** `QuerySpaceConserved` is the accounting the comment of
`TracyProtocol.hpp:39` asks for: every question that was asked is in exactly one place, and each one
on its way holds a unit of space, whether the handler of the answer before it asked first or gave
back first. From it follow that the server's sends cannot block and that the session ends.
`EndsComplete` is about the server's end test (2929), which counts the server's own questions and
stacks only: in `tracy_session` a program with a call stack may end on an answer that SymbolWorker queued after the
client's notice of termination, with nothing left to ask; the mutant whose test forgets the symbols,
one of the counters of line 2929, ends with such an answer still to come. `ShutdownEnds` holds for a
program that has left its zones, with a viewer that is opened and closed and a connection that is
reset at any time; a viewer that hangs without closing, and a connection lost in silence, are not
among the steps. `session_open_zone` shows that it fails for `main`. `Ends` of `vulkan_host` takes
this up: the program ends or stays for ever (`Stuck`) in `ProfilerShutdown` with a viewer connected,
in the loop that asks for ever smaller query pools, or in the wait of `TracyVulkan.hpp:154` for a
timestamp that an ignored failure kept from the GPU, and nowhere else.

**Fairness.** In `RadixSort` every thread and every wave that can run does: a workgroup is resident
as a whole, which barriers require of the GPU. In `VulkanHost` the host thread runs, and the GPU
executes what it is given; failing is never required (no disjunct of `Failure` is in `Host`), nor a
viewer that connects or closes, nor is a GPU that hangs considered. `MemoryHooks` has only safety properties. In `VkQueryRing` the GPU runs, scopes
end, what is recorded is submitted and `Collect` is called again and again, as the manual requires;
opening a scope is never required. The threads' steps have strong fairness because those of the
collecting thread are interrupted by `Collect`, which it runs itself. In `TracySession` each of the
client's three threads runs, and the server takes a step when one of its two threads can (less than
that each of them runs, and enough, because neither can keep the other waiting for ever); the user and the network are never required to do anything, so a viewer need not
be closed, nor opened again. In `FrameImageLoad` each thread runs, and a spurious wake-up is never required.

## Findings

- `shader.hlsl:114`: `previousWave` is not initialised (`radix_wave_prefix`).
- `shader.hlsl:134`: `waveIndex + 16 + bucket` should be `waveIndex * 16 + bucket` (`radix_stable_rank`).
- `Profiler.cpp:122`: a push of `Default` is ignored and its pop is not (`memory_domains`).
- `TracyVulkan.hpp:173`: the results buffer is half of what `Collect` tells Vulkan it is, which bites
  when more than half the ring is collected at once (`gpu_results`). `main` uses two of 65536.
- `main.cpp:509`: the profiler is shut down inside the zone of line 491, so with a viewer connected
  `main` never returns, as the manual warns (`session_open_zone`).

Outside any run:

- `main.cpp:431` uses Tracy's command buffer again, which `main.cpp:165-167` says does not happen.
  The use itself is legal: `CommandBuffersLegal` holds.
- `TracyProfiler.cpp:2138-2139` frees the socket of a rejected viewer and leaves `m_sock` set; the
  destructor (1696) frees it again when the program ends.
- `TracyWorker.cpp:2958-2959` sets `m_shutdown` and notifies without `m_netWriteLock`: `Network` may
  have tested its condition and not yet wait, and then sleeps for ever. `TracyServer` takes waiting
  for the condition as one step and does not show it.
- The repository's `README.md` (lines 46, 57-58 and 86-88) and the first line of the
  shader describe a program that squares 0 to 9 in workgroups of one thread; the code sorts 10 to 1
  in workgroups of 256.

## Proofs

All proof modules follow the same plan: an inductive invariant (`IInv`, `PoolInv`, `RingInv`, ...), a
lemma that it holds at the start, lemmas that every action keeps it (one lemma or step per action),
and theorems that cite these and close with PTL. The invariants were checked by TLC before they were
proved.

`RadixSortProofs` assumes the sizes (`Radix` and `WaveNb * Radix` at most `GroupSize`), some junk and
some value of the register, and inputs that are arrays of keys. `IInv` adds to `TypeOK` that a
thread's stage and its loop counter agree (`PassMatchesPc`): without it a thread in the count stage
might have no digit left. `TypeCorrect` is `[]TypeOK`. `RaceFreeButScatter` is
`[]RacesOnlyInScatter`, for every group size, wave size, radix, input and register: `Rendezvous`
shows that two released threads are at the same stage of the same pass, `WaveRowsAreDisjoint` that
the rows two waves store do not overlap (`RowsAreDisjoint`, a fact of arithmetic), and
`OnlyScatterConflicts` goes through the stages.

The results about what the shader computes rest on facts about sums and ranks for arrays of every
size. Each is shown by a smallest counterexample, which exists because the order of numbers and that
of the subsets of a finite set are well founded (`LeastNumber`, `SmallestSubset`): a sum does not
depend on the order (`SumTakesOut`), the sizes of disjoint sets add up (`SumOfSizes`), and stable ranks
are a permutation of the slots (`PlacesDiffer`, `PlacesCover`). `Control` adds to `IInv` that threads are
never more than one barrier apart (`Spread`), so that `Nearby` knows from one thread that acts where all
the others are. `Tables` says what each thread has written once it is past a stage, under the
assumption `FitsTable` that every wave has a row of the tables: it yields `HistogramExact`
(`[]HistCountsKeys`) and `BucketStartsExact` (`[]BucketsStartInOrder`) for any number of waves.

The other five assume `OneWave`, the condition of the run `radix_one_wave`: `FitsTable`, a second row,
a register that is not 0 and no more keys than the lanes of a wave, or the threads of the group. The
two violations show that without it they are false. `Sorting` adds to `Tables` what a thread holds in a
pass: its key and digit (`Taken`), its rank (`Ranked`), zero offsets in the row that line 134 reads
instead of the right one (`SecondRow`), its key at its place (`Scattered`), and which of KeysA and
KeysB agree with the other or with the buffers (`CopiedBack`, `Loaded`, `Stored`). `Destination`
concludes that `dst` is the stable rank (`ScatterExact`); then scatters are apart (`RaceFree`,
`[]NoRace`) and in bounds (`InBounds`, `[]StaysInBounds`). `Implements` is the refinement
`ImplementsPasses`: the first key copied back is the pass, everything else a stutter. `Sorts` is
`[]OutputSorted`: each abstract pass sorts by one digit more (`PassSorts`) and keeps the keys
(`PassKeeps`), and when all threads are done the output is the abstract keys (`DoneIs`).

`MemoryHooksProofs` assumes that main is a thread and that the names of pools are distinct. `IInv`
joins `TypeOK` with: `Lifecycle`, the flags as functions of main's stage; `OneHolder`, a block is
in one hook or with the program; `Ledger`, for a block inside a hook the server knows exactly what
the hook has reported so far, and an address that is free is known to no pool, which is what makes
the reuse of addresses safe; and `NothingEarlier`, tracing starts from nothing. It yields
`TraceIsSound`, `TraceIsComplete`, `TracyIsAlive` and `HooksTypeCorrect` for any number of threads,
addresses and domains. `NestingWithoutDefault` proves `DomainsNest` under the assumption that no caller pushes
`Default`, the exact condition that the finding breaks.

`FrameImageLoadProofs` assumes a finite set of workers, the caller not among them, and at least one
image and slot. `PoolInv` joins types (`Types`) with `Phases`, where the caller is while the loader
is where it is; `Counts`, `m_jobs` is the number of busy workers and, once `Sync` has seen an empty
queue, it stays empty, because only the caller queues; and `Once`, no task is in two places, which
needs that all tasks are of earlier images than the one to be loaded. `PoolIsForkJoin` is the
refinement `ImplementsForkJoin`: every step maps to a step of `ForkJoin` or to a stutter, and the
return from `Sync` to `EndSync` because `m_jobs = 0` and an empty queue leave nothing unfinished (the
caller is not running a task itself). `SlotInv` adds the slots: each task has a slot of its own with its image in it, and each slot in progress is
that of a task (`SlotsOfTasks`); what has been packed is the image of its slot (`Packed`); and an image
that was read is in a slot or has been taken from one (`NoneLost`). It yields `ImagesAreTrue`,
`[]ImagesTrue`, and `LoadTypeCorrect`.

`VkQueryRingProofs` assumes a ring of at least two queries and a collector among the threads; the
GPU, the threads and `Collect` interleave as they like. Queries are numbered in the order handed
out, and the argument is about the slot of a number, `(n - 1) % m_queryCount`. `RingInv` says: the
numbers not collected and one for each scope still to be closed fit in the pool, and the slots kept
for the latter are reset (`Window`, what `Paced` provides and `CloseScope` uses up); the pool has
what the GPU wrote (`Pooled`); a batch ends before the end of the pool and the head (`Batches`);
what was reported is what was written (`ReportsTrue`); and every recorded or submitted command writes
a number that has no stamp yet, or resets slots of numbers that were collected and are not used again
before the reset is executed (`Commands`). The last part is what makes late resets harmless. The
only division is in `Onwards` and `SlotsDiffer`: numbers less than a pool apart have slots of their
own. `RingTypeCorrect` is `[]TypeOK`; `RingIsQueue` is the refinement `ImplementsTimestampQueue`, step
by step. `ServerInv` relates the server to the ring: its stacks are the threads' open scopes but for an
event still to be queued (`Stacks`), each zone is one scope (`Zones`) in the zone of its parent
(`Parents`) with the times that were reported of its two numbers (`Times`), and it waits for exactly
the numbers that were sent and not reported (`Waits`). A number whose event is still to be queued is
not reported because its command is still in the thread's command buffer (`SentFirst`): the order of
the two statements of a scope does not matter, that of event and submission does. `ServerNeverFaults`
is `[]ServerAccepts`, `TimelineIsTrue` is `[]TimelineIsReal`.

`TracySessionProofs` assumes `FrameSize` at least 2, the bounds of the connection, and scripts of
messages. `SessionInv` has two parts. Frames: no frame is larger than `FrameSize`, in the buffer, on
the connection, received or processed, since `AppendData` sends before it overflows. `Credit`: of the
two credits one is spent on the frame that is being written, so at most one other frame is in use,
and that one is the frame before (`Before`): it ends where the next begins, or beyond the second
third of the ring, and the next begins at its start. `BuffersApart` is `[]NetBuffersApart`; with three
credits it fails, as the mutant of that run shows. The sets `Kinds` and `Refs` list the literals the
model uses, because the provers do not know a string literal to be a `STRING`.

`TracyQuerySpaceProofs` builds on `SessionInv`, and assumes of the source locations and symbols only
that they name what messages can name. `Stock` names the places a question can be in and what
is in each, those of the `Road` through the client and back and the server's own queues. `SpaceInv`
says that no question is in two places or twice in one (`Scattered`), which phases of client and
server go together (`Phases`), that there are none before a session (`Begins`), and that those
somewhere were asked and not answered and the ones on the road fit in the query space (`Bounded`; while
the connection lasts none is missing and the space is used up exactly: `Exact`). Each step moves a
question from one place to the next (`Moved`, `Taken`, `Added`), so the cardinality on the road
changes with the space. A handler is a chain of desks, and each link of it, a question asked or a
unit given back, keeps one relation between the desk and the road, whatever the order of the links. The theorems are `EveryQuestionIsAccountedFor`, `[]QuerySpaceConserved`, and
`ServerNeverBlocks`, `[]SendsNeverBlock`: the packets are questions on the road, and one termination.

`TracyEventOrderProofs` builds on `SpaceInv`. `OrderInv` says that wherever the stream is cut into frames
(in Exec's hands, unread, on the connection, in the client's buffer), reading it from where the
server is (`ServerAt`) leads to where the client is (`ClientAt`), each event on the way being the
next of main's (`Chain`). The positions in between are chosen existentially, so that no induction over
the stream is needed: a frame is split, joined, sent or taken by splitting and joining the labels. With
it: main's queue is what main queued last (`Latest`), other queues hold questions, nothing was said
before a server is accepted (`Silent`), and the notice of termination is sent when main's queue and the
buffer are empty (`Stages`). It yields `EventsAreInOrder`, `[]EventsInOrder`.

`TracySessionEndProofs` builds on `OrderInv`, and assumes that main is one of the client's `Threads`
(they contain the `Producers`). That a session which Exec ends is complete is not local: Exec tests
only `m_terminate`, its questions and its stacks. `EndInv` says why nothing can be left elsewhere:
behind the notice of termination each frame has an answer in it (`Notice`: unread frames and those on the
connection are `Orderly`), no frame is empty (`Filled`), what the client still sends then are answers
(`LastWords`), and while the connection lasts Worker stays with the server (`Lasts`). When all that was
asked is answered, no place has a question (`NoneLeft`), so that there is no frame either:
`SessionsEndComplete` is `EndsComplete`. `SessionTypeCorrect` is `[]TypeOK`; of its parts the bound on
Network's credits is no type but `Credit`, and for a Network that has gone `Settled`.

Only model-checked: liveness (`Terminates`, `Ends`, `EveryZoneTimed`, `ShutdownEnds`, `LoadEnds`), which is
out of reach of the provers used; the refinement of `OffloadedJob`; and the host's properties, which
are about one fixed program: its only constant is the size of the query pool, and TLC
covers it completely.

## Not modelled

- Workgroups: `dispatch(10, 1, 1)` starts ten that compute the same; one is modelled.
- Waves smaller than `GroupSize / WaveNb` and `Count` above the group size, which the code does not
  support and the program does not use.
- `TRACY_NO_EXIT`: `TracyClient` has it (`m_noExit`, `AcceptExits`), no run sets it; a program that
  waits for a viewer before it ends need not end.
- `malloc` failure, nesting deeper than 16, alignment, calibrated timestamps, the formatting of
  output, command-line parsing.
- Of Tracy's client: the on-demand build, sampling and system tracing, the crash handler, frame image
  compression, the broadcast, the encoding and compression of events, the client's own ring of frames
  (each is compressed and sent before the next is begun).
- Of Tracy's server: locks, plots, messages, fibers, statistics, saved traces apart from frame images,
  the limit on memory. Its condition variables are modelled as conditions.
- Most of the repository is vendored and not this program: the viewer's windows and images
  (`tracy/profiler`), `libbacktrace`, `rpmalloc`, LZ4, ZSTD, `xxhash` and other libraries. They keep no
  state that the components above share, and most of them are pure functions; so the modules stand
  for a small share of the repository's lines.
- `Profiler/Value.h`, instantiated nowhere; build files.

## Plan

In order of importance, what could follow:

1. `Network`'s and `Exec`'s condition variables as state of their own, as in `TaskDispatch`, to show
   the wake-up lost at `TracyWorker.cpp:2959`.
2. The lock timeline of the server (`LockAnnounce` to `LockRelease`) against the client's locks.
3. `VulkanHostProofs`: that a LIFO stack of destructors over an acyclic ownership, in which owners
   are created first, never orphans an object, for every program and not just this one.
