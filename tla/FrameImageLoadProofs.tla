------------------------ MODULE FrameImageLoadProofs ------------------------
(***************************************************************************)
(* The thread pool implements ForkJoin, for every number of workers, slots *)
(* and images: Sync returns only when every task queued has been run, and  *)
(* no task is run twice.  The images, which only the slots' states keep    *)
(* apart, are each given their own data.                                   *)
(***************************************************************************)
EXTENDS FrameImageLoad, FiniteSetTheorems, SequenceTheorems, TLAPS

Loading == {"scan", "read", "queue", "sync"}
Busy == {w \in Workers : place[w] \in Running \cup {"ran"}}
Runs(t) == place[t] \in Running
Synced == loader \in {"collect", "ended"} \/ (loader = "syncs" /\ place[Caller] = "free")

(* The types that the argument needs.                                      *)
Types ==
    /\ m_queue \in Seq(Tasks) /\ m_jobs \in Nat /\ m_exit \in BOOLEAN
    /\ place \in [Threads -> Running \cup {"free", "enter", "waits", "ran", "gone", "sync", "woken",
                                           "exits", "joins", "joined"}]
    /\ task \in [Threads -> Tasks \cup {NoTask}]
    /\ \A t \in Threads : Runs(t) => task[t] \in Tasks
    /\ loader \in Loading \cup {"syncs", "collect", "ended"}
    /\ i \in Nat /\ j \in Slots
    /\ loader \in Loading \ {"sync"} => i \in Frames

(* Where the caller is while the loader is where it is.                    *)
Phases ==
    /\ loader \in Loading => place[Caller] = "free"
    /\ loader = "syncs" => place[Caller] \in Running \cup {"free", "sync", "ran", "waits", "woken"}
    /\ loader \in {"collect", "ended"} => place[Caller] \in {"exits", "joins", "joined"}

(* m_jobs counts the workers that are busy; once the caller waits, or has  *)
(* returned from Sync, nothing is queued; and then no worker is busy.      *)
Counts ==
    /\ m_jobs = Cardinality(Busy)
    /\ place[Caller] \in {"waits", "woken"} \/ Synced => m_queue = <<>>
    /\ Synced => m_jobs = 0

(* A task is in one place only, and is of an image before the next.        *)
Once ==
    /\ \A a, b \in DOMAIN m_queue : m_queue[a] = m_queue[b] => a = b
    /\ \A t \in Threads, a \in DOMAIN m_queue : Runs(t) => task[t] # m_queue[a]
    /\ \A t, u \in Threads : Runs(t) /\ Runs(u) /\ task[t] = task[u] => t = u
    /\ \A a \in DOMAIN m_queue : m_queue[a].fi < i
    /\ \A t \in Threads : Runs(t) => task[t].fi < i

PoolInv == Types /\ Phases /\ Counts /\ Once

-----------------------------------------------------------------------------
(* A sequence is its front and its last element.                           *)
LEMMA FrontLast ==
    ASSUME NEW S, NEW s \in Seq(S), s # <<>>
    PROVE  /\ Front(s) \in Seq(S) /\ Last(s) \in S
           /\ Len(s) \in Nat \ {0} /\ Len(Front(s)) = Len(s) - 1
           /\ \A a \in 1..(Len(s) - 1) : Front(s)[a] = s[a]
           /\ Range(s) = Range(Front(s)) \cup {Last(s)}
<1>1. Len(s) \in Nat \ {0} /\ DOMAIN s = 1..Len(s) /\ \A a \in 1..Len(s) : s[a] \in S
  OBVIOUS
<1>2. /\ SubSeq(s, 1, Len(s) - 1) \in Seq(S)
      /\ Len(SubSeq(s, 1, Len(s) - 1)) = IF 1 <= Len(s) - 1 THEN (Len(s) - 1) - 1 + 1 ELSE 0
      /\ \A a \in 1..((Len(s) - 1) - 1 + 1) : SubSeq(s, 1, Len(s) - 1)[a] = s[1 + a - 1]
  BY <1>1, SubSeqProperties
<1>3. /\ Front(s) \in Seq(S) /\ Len(Front(s)) = Len(s) - 1
      /\ \A a \in 1..(Len(s) - 1) : Front(s)[a] = s[a]
  BY <1>1, <1>2 DEF Front
<1>4. Last(s) \in S
  BY <1>1 DEF Last
<1>5. Range(s) = Range(Front(s)) \cup {Last(s)}
  <2>1. DOMAIN Front(s) = 1..(Len(s) - 1)
    BY <1>1, <1>3
  <2>2. 1..Len(s) = (1..(Len(s) - 1)) \cup {Len(s)}
    BY <1>1
  <2> QED
    BY <1>1, <1>3, <2>1, <2>2 DEF Range, Last
<1> QED
  BY <1>1, <1>3, <1>4, <1>5

(* Appending adds the element.                                             *)
LEMMA RangeAppend ==
    ASSUME NEW S, NEW s \in Seq(S), NEW e \in S
    PROVE  Range(Append(s, e)) = Range(s) \cup {e}
<1>1. /\ Append(s, e) \in Seq(S) /\ Len(Append(s, e)) = Len(s) + 1
      /\ \A a \in 1..Len(s) : Append(s, e)[a] = s[a]
      /\ Append(s, e)[Len(s) + 1] = e
  BY AppendProperties
<1>2. DOMAIN Append(s, e) = (1..Len(s)) \cup {Len(s) + 1} /\ DOMAIN s = 1..Len(s) /\ Len(s) \in Nat
  BY <1>1
<1> QED
  BY <1>1, <1>2 DEF Range

(* The busy workers, one more or one fewer.                                *)
LEMMA BusyFinite == IsFiniteSet(Busy) /\ Cardinality(Busy) \in Nat
<1>1. Busy \in SUBSET Workers
  BY DEF Busy
<1> QED
  BY <1>1, FS_Subset, FS_CardinalityType, PoolAssumption

-----------------------------------------------------------------------------
(* The pool of a loader that starts.                                       *)
LEMMA InitPoolInv == Init => PoolInv
<1> SUFFICES ASSUME Init PROVE PoolInv
  OBVIOUS
<1> USE DEF Init, PoolInit
<1>1. Types
  <2>1. \A t \in Threads : place[t] \in {"free", "enter"} /\ task[t] = NoTask
    OBVIOUS
  <2>2. m_queue \in Seq(Tasks)
    OBVIOUS
  <2>3. /\ place \in [Threads -> Running \cup {"free", "enter", "waits", "ran", "gone", "sync", "woken",
                                              "exits", "joins", "joined"}]
        /\ task \in [Threads -> Tasks \cup {NoTask}]
    OBVIOUS
  <2>4. i \in Frames /\ i \in Nat /\ j \in Slots
    BY LoadAssumption DEF Frames, Slots
  <2> QED
    BY <2>1, <2>2, <2>3, <2>4 DEF Types, Runs, Running, Loading
<1>2. Phases
  BY DEF Phases, Loading, Threads
<1>3. Counts
  <2>1. Busy = {}
    BY PoolAssumption DEF Busy, Threads, Running
  <2> QED
    BY <2>1, FS_EmptySet DEF Counts, Synced, Threads
<1>4. Once
  BY DEF Once, Runs, Running, Threads
<1> QED
  BY <1>1, <1>2, <1>3, <1>4 DEF PoolInv

-----------------------------------------------------------------------------
(* What the steps do to the tasks that are queued or run.                  *)

(* A step that moves no task.                                              *)
LEMMA NoneMoved ==
    ASSUME Once, m_queue' = m_queue, i' = i,
           \A u \in Threads : (Runs(u)' <=> Runs(u)) /\ (Runs(u) => task'[u] = task[u])
    PROVE  Once' /\ Unfinished' = Unfinished
<1>1. Once'
  BY DEF Once
<1>2. {task[t] : t \in {u \in Threads : place[u] \in Running}}' =
      {task[t] : t \in {u \in Threads : place[u] \in Running}}
  BY DEF Runs
<1> QED
  BY <1>1, <1>2 DEF Unfinished

(* A task is taken from the back of the queue to be run.                   *)
LEMMA Taking ==
    ASSUME Types, Once, NEW t \in Threads, ~Runs(t), m_queue # <<>>, Take(t), i' = i
    PROVE  /\ Once' /\ Unfinished' = Unfinished
           /\ m_queue' \in Seq(Tasks)
           /\ task' \in [Threads -> Tasks \cup {NoTask}]
           /\ \A u \in Threads : Runs(u)' => task'[u] \in Tasks
           /\ \A u \in Threads : place'[u] = IF u = t THEN "runs" ELSE place[u]
<1> DEFINE n == Len(m_queue)
           last == Last(m_queue)
<1>1. /\ m_queue' = Front(m_queue) /\ m_queue' \in Seq(Tasks) /\ last \in Tasks /\ n \in Nat \ {0}
      /\ Len(m_queue') = n - 1 /\ \A a \in 1..(n - 1) : m_queue'[a] = m_queue[a]
      /\ Range(m_queue) = Range(m_queue') \cup {last} /\ last = m_queue[n]
  BY FrontLast DEF Types, Take, Last
<1>2. DOMAIN m_queue = 1..n /\ DOMAIN m_queue' = 1..(n - 1)
  BY <1>1 DEF Types
<1>3. \A u \in Threads : /\ place'[u] = IF u = t THEN "runs" ELSE place[u]
                         /\ task'[u] = IF u = t THEN last ELSE task[u]
  BY DEF Types, Take, Goto
<1>4. task' \in [Threads -> Tasks \cup {NoTask}]
  BY <1>1 DEF Types, Take
<1>5. \A u \in Threads : Runs(u)' <=> (u = t \/ Runs(u))
  BY <1>3 DEF Runs, Running
<1>6. Once'
  <2>1. n \in DOMAIN m_queue /\ \A a \in DOMAIN m_queue' : a \in DOMAIN m_queue /\ a # n
    BY <1>1, <1>2
  <2>2. \A a, b \in DOMAIN m_queue' : m_queue'[a] = m_queue'[b] => a = b
    BY <1>1, <1>2, <2>1 DEF Once
  <2>3. \A u \in Threads, a \in DOMAIN m_queue' : Runs(u)' => task'[u] # m_queue'[a]
    BY <1>1, <1>2, <1>3, <1>5, <2>1 DEF Once
  <2>4. \A u, v \in Threads : Runs(u)' /\ Runs(v)' /\ task'[u] = task'[v] => u = v
    BY <1>1, <1>3, <1>5, <2>1 DEF Once
  <2>5. \A a \in DOMAIN m_queue' : m_queue'[a].fi < i'
    BY <1>1, <1>2, <2>1 DEF Once
  <2>6. \A u \in Threads : Runs(u)' => task'[u].fi < i'
    BY <1>1, <1>3, <1>5, <2>1 DEF Once
  <2> QED
    BY <2>2, <2>3, <2>4, <2>5, <2>6 DEF Once
<1>7. Unfinished' = Unfinished
  <2>1. {task[u] : u \in {v \in Threads : Runs(v)}}' =
        {task[u] : u \in {v \in Threads : Runs(v)}} \cup {last}
    BY <1>3, <1>5
  <2> QED
    BY <1>1, <2>1 DEF Unfinished, Runs
<1> QED
  BY <1>1, <1>3, <1>4, <1>5, <1>6, <1>7 DEF Types

(* A task is run to its end.                                               *)
LEMMA Finishing ==
    ASSUME Types, Once, NEW t \in Threads, StoreReady(t)
    PROVE  /\ Once' /\ task[t] \in Tasks /\ task[t] \in Unfinished
           /\ Unfinished' = Unfinished \ {task[t]}
<1>1. Runs(t) /\ task[t] \in Tasks /\ task' = task /\ m_queue' = m_queue /\ i' = i
  BY DEF StoreReady, Types, Runs, Running
<1>2. \A u \in Threads : place'[u] = IF u = t THEN "ran" ELSE place[u]
  BY DEF StoreReady, Types, Goto
<1>3. \A u \in Threads : Runs(u)' <=> (u # t /\ Runs(u))
  BY <1>2 DEF Runs, Running
<1>4. Once'
  BY <1>1, <1>3 DEF Once
<1>5. {task[u] : u \in {v \in Threads : Runs(v)}}' =
      {task[u] : u \in {v \in Threads : Runs(v)}} \ {task[t]}
  BY <1>1, <1>3 DEF Once
<1>6. task[t] \notin Range(m_queue)
  BY <1>1 DEF Once, Range
<1>7. task[t] \in {task[u] : u \in {v \in Threads : Runs(v)}}
  BY <1>1
<1> QED
  BY <1>1, <1>4, <1>5, <1>6, <1>7 DEF Unfinished, Runs

(* A task is queued.                                                       *)
LEMMA Queueing ==
    ASSUME Types, Once, QueueFrame
    PROVE  LET new == [idx |-> j, fi |-> i]
           IN  /\ Once' /\ new \in Tasks /\ new \notin Unfinished
               /\ Unfinished' = Unfinished \cup {new}
               /\ m_queue' \in Seq(Tasks)
               /\ \A u \in Threads : place'[u] = place[u] \/ (place[u] = "waits" /\ place'[u] = "enter")
<1> DEFINE new == [idx |-> j, fi |-> i]
           n == Len(m_queue)
<1>1. new \in Tasks /\ i \in Nat /\ i' = i + 1 /\ task' = task /\ m_queue' = Append(m_queue, new)
  BY DEF Types, QueueFrame, Queue, Loading, Tasks
<1>2. /\ m_queue' \in Seq(Tasks) /\ n \in Nat /\ DOMAIN m_queue = 1..n /\ DOMAIN m_queue' = 1..(n + 1)
      /\ \A a \in 1..n : m_queue'[a] = m_queue[a]
      /\ m_queue'[n + 1] = new
  BY <1>1, AppendProperties DEF Types
<1>3. \A u \in Threads : place'[u] = place[u] \/ (place[u] = "waits" /\ place'[u] = "enter")
  BY DEF Types, QueueFrame, Queue, Waiting, Goto
<1>4. \A u \in Threads : Runs(u)' <=> Runs(u)
  BY <1>3 DEF Runs, Running
<1>0. Frames \subseteq Nat /\ new.fi = i
  BY LoadAssumption DEF Frames
<1>7. \A a \in DOMAIN m_queue : m_queue[a] \in Tasks /\ m_queue[a].fi \in Nat
  <2>1. \A a \in DOMAIN m_queue : m_queue[a] \in Tasks
    BY DEF Types
  <2> QED
    BY <1>0, <2>1 DEF Tasks
<1>8. \A u \in Threads : Runs(u) => task[u].fi \in Nat
  BY <1>0 DEF Types, Tasks
<1>5. \A a \in DOMAIN m_queue : m_queue[a].fi < i /\ m_queue[a] # new
  BY <1>0, <1>1, <1>7 DEF Once
<1>6. \A u \in Threads : Runs(u) => task[u].fi < i /\ task[u] # new
  BY <1>0, <1>1, <1>8 DEF Once
<1>9. Once'
  <2>1. \A a \in DOMAIN m_queue' : a = n + 1 \/ a \in DOMAIN m_queue
    BY <1>2
  <2>2. n + 1 \notin DOMAIN m_queue
    BY <1>2
  <2>3. \A a, b \in DOMAIN m_queue' : m_queue'[a] = m_queue'[b] => a = b
    BY <1>2, <1>5, <2>1, <2>2 DEF Once
  <2>4. \A u \in Threads, a \in DOMAIN m_queue' : Runs(u)' => task'[u] # m_queue'[a]
    BY <1>1, <1>2, <1>4, <1>6, <2>1 DEF Once
  <2>5. \A u, v \in Threads : Runs(u)' /\ Runs(v)' /\ task'[u] = task'[v] => u = v
    BY <1>1, <1>4 DEF Once
  <2>6. \A a \in DOMAIN m_queue' : m_queue'[a].fi < i'
    BY <1>1, <1>2, <1>5, <1>7, <2>1
  <2>7. \A u \in Threads : Runs(u)' => task'[u].fi < i'
    BY <1>1, <1>4, <1>6, <1>8
  <2> QED
    BY <2>3, <2>4, <2>5, <2>6, <2>7 DEF Once
<1>10. new \notin Unfinished
  BY <1>5, <1>6 DEF Unfinished, Range, Runs
<1>11. Unfinished' = Unfinished \cup {new}
  <2>1. {task[u] : u \in {v \in Threads : Runs(v)}}' = {task[u] : u \in {v \in Threads : Runs(v)}}
    BY <1>1, <1>4
  <2>2. Range(m_queue') = Range(m_queue) \cup {new}
    BY <1>1, RangeAppend DEF Types
  <2> QED
    BY <2>1, <2>2 DEF Unfinished, Runs
<1> QED
  BY <1>1, <1>2, <1>3, <1>9, <1>10, <1>11

-----------------------------------------------------------------------------
(* A step in the pool that moves no task and leaves m_jobs: the parts of   *)
(* the invariant it can disturb are where the threads are.                 *)
LEMMA BusySame ==
    ASSUME \A w \in Workers : (place'[w] \in Running \cup {"ran"}) <=> (place[w] \in Running \cup {"ran"})
    PROVE  Busy' = Busy
BY DEF Busy

(* A worker more is busy.                                                  *)
LEMMA BusyMore ==
    ASSUME NEW w \in Workers, w \notin Busy,
           \A v \in Workers : (place'[v] \in Running \cup {"ran"}) <=>
                              (v = w \/ place[v] \in Running \cup {"ran"})
    PROVE  Cardinality(Busy') = Cardinality(Busy) + 1
<1>1. Busy' = Busy \cup {w}
  BY DEF Busy
<1> QED
  BY <1>1, BusyFinite, FS_AddElement

(* A worker fewer is busy.                                                 *)
LEMMA BusyFewer ==
    ASSUME NEW w \in Workers, w \in Busy,
           \A v \in Workers : (place'[v] \in Running \cup {"ran"}) <=>
                              (v # w /\ place[v] \in Running \cup {"ran"})
    PROVE  Cardinality(Busy') = Cardinality(Busy) - 1
<1>1. Busy' = Busy \ {w}
  BY DEF Busy
<1> QED
  BY <1>1, BusyFinite, FS_RemoveElement

(* While a task is run no Sync has returned.                               *)
LEMMA NoneBusyWhenSynced ==
    ASSUME Types, Phases, Counts, Synced, NEW t \in Threads, place[t] \in Running \cup {"ran"}
    PROVE  FALSE
<1>1. Busy = {}
  BY BusyFinite, FS_EmptySet DEF Counts
<1>2. t = Caller
  BY <1>1 DEF Busy, Threads
<1> QED
  BY <1>2 DEF Phases, Synced, Running

-----------------------------------------------------------------------------
(* The invariant, action by action.                                        *)
LEMMA LoadInv ==
    ASSUME PoolInv, Scan \/ Read \/ Collect
    PROVE  PoolInv' /\ Unfinished' = Unfinished
<1>1. /\ UNCHANGED pool /\ i' = i /\ j' \in Slots
      /\ loader' = loader \/ (loader \in Loading \ {"sync"} /\ loader' \in Loading \ {"sync"})
         \/ (loader = "collect" /\ loader' = "ended")
  <2>1. CASE Scan
    BY <2>1, LoadAssumption DEF Scan, PoolInv, Types, Slots, Loading
  <2>2. CASE Read
    BY <2>2 DEF Read, PoolInv, Types, Loading
  <2>3. CASE Collect
    BY <2>3 DEF Collect, PoolInv, Types
  <2> QED
    BY <2>1, <2>2, <2>3
<1>2. Types'
  BY <1>1 DEF PoolInv, Types, pool, Runs, Loading
<1>3. Phases'
  BY <1>1 DEF PoolInv, Phases, pool, Loading
<1>4. Counts'
  BY <1>1 DEF PoolInv, Counts, Synced, pool, Busy, Loading
<1>5. Once' /\ Unfinished' = Unfinished
  BY <1>1, NoneMoved DEF PoolInv, pool, Runs
<1> QED
  BY <1>2, <1>3, <1>4, <1>5 DEF PoolInv

(* A task is queued: its image was in no task before.                      *)
LEMMA QueueFrameInv == ASSUME PoolInv, QueueFrame PROVE PoolInv'
<1> USE DEF PoolInv
<1>1. /\ Once' /\ m_queue' \in Seq(Tasks)
      /\ \A u \in Threads : place'[u] = place[u] \/ (place[u] = "waits" /\ place'[u] = "enter")
  BY Queueing
<1>2. /\ loader = "queue" /\ task' = task /\ m_jobs' = m_jobs /\ m_exit' = m_exit
      /\ i' = i + 1 /\ j' = 1 /\ loader' = IF i = FrameCount THEN "sync" ELSE "scan"
  BY DEF QueueFrame, Queue
<1>3. place[Caller] = "free" /\ place'[Caller] = "free"
  BY <1>1, <1>2 DEF Phases, Loading, Threads
<1>4. DOMAIN place' = Threads /\ place' = [t \in Threads |-> place'[t]]
  BY DEF Types, QueueFrame, Queue, Goto
<1>5. Types'
  <2>1. i \in Frames /\ i' \in Nat /\ j' \in Slots
    BY <1>2, LoadAssumption DEF Types, Loading, Slots
  <2>2. loader' = "scan" => i' \in Frames
    BY <1>2, <2>1, LoadAssumption DEF Frames
  <2>3. place' \in [Threads -> Running \cup {"free", "enter", "waits", "ran", "gone", "sync", "woken",
                                             "exits", "joins", "joined"}]
    BY <1>1, <1>4 DEF Types
  <2>4. \A t \in Threads : Runs(t)' => task'[t] \in Tasks
    BY <1>1, <1>2 DEF Types, Runs, Running
  <2> QED
    BY <1>1, <1>2, <2>1, <2>2, <2>3, <2>4 DEF Types, Loading
<1>6. Phases'
  BY <1>2, <1>3 DEF Phases, Loading
<1>7. Counts'
  <2>1. Busy' = Busy
    BY <1>1, BusySame DEF Running, Threads
  <2> QED
    BY <1>2, <1>3, <2>1 DEF Counts, Synced
<1> QED
  BY <1>1, <1>5, <1>6, <1>7

(* The caller's steps that move no task.                                   *)
LEMMA CallerInv ==
    ASSUME PoolInv,
           StartSync \/ StartExit
           \/ ((SyncTaskEnds \/ SyncWakes \/ ExitNotify \/ Join) /\ InPool)
           \/ (SyncTurn /\ InPool /\ m_queue = <<>>)
    PROVE  PoolInv' /\ Unfinished' = Unfinished
<1> USE DEF PoolInv
<1>1. m_queue' = m_queue /\ m_jobs' = m_jobs /\ i' = i /\ j' = j
  BY DEF StartSync, StartExit, Sync, ExitStore, SyncTaskEnds, SyncWakes, ExitNotify, Join, SyncTurn, InPool
<1>2. Caller \in Threads /\ Caller \notin Workers
  BY PoolAssumption DEF Threads
<1>3. \A w \in Workers : place'[w] = place[w] \/ (place[w] = "waits" /\ place'[w] = "enter")
  BY <1>2 DEF StartSync, StartExit, Sync, ExitStore, SyncTaskEnds, SyncWakes, ExitNotify, Join, SyncTurn,
              Goto, Woken, Waiting, Types, Threads
<1>4. /\ place[Caller] \notin Running /\ place'[Caller] \notin Running
      /\ \A u \in Threads : u # Caller => task'[u] = task[u]
  BY <1>2 DEF StartSync, StartExit, Sync, ExitStore, SyncTaskEnds, SyncWakes, ExitNotify, Join, SyncTurn,
              Goto, Woken, Waiting, Types, Running
<1>5. \A u \in Threads : (Runs(u)' <=> Runs(u)) /\ (Runs(u) => task'[u] = task[u])
  BY <1>3, <1>4 DEF Runs, Running, Threads
<1>6. Once' /\ Unfinished' = Unfinished
  BY <1>1, <1>5, NoneMoved
<1>7. Types'
  <2>1. /\ place' \in [Threads -> Running \cup {"free", "enter", "waits", "ran", "gone", "sync", "woken",
                                                "exits", "joins", "joined"}]
        /\ task' \in [Threads -> Tasks \cup {NoTask}] /\ m_exit' \in BOOLEAN
    BY <1>2 DEF StartSync, StartExit, Sync, ExitStore, SyncTaskEnds, SyncWakes, ExitNotify, Join,
                SyncTurn, Goto, Types
  <2>2. loader' \in Loading \cup {"syncs", "collect", "ended"} /\ (loader' = loader \/ loader' \notin Loading)
    BY DEF StartSync, StartExit, InPool, Types, Loading
  <2> QED
    BY <1>1, <1>5, <2>1, <2>2 DEF Types, Loading
<1>8. Phases'
  BY <1>2 DEF StartSync, StartExit, Sync, ExitStore, SyncTaskEnds, SyncWakes, ExitNotify, Join, SyncTurn,
              Goto, Woken, Waiting, Types, Phases, Loading, InPool, Running
<1>9. Counts'
  <2>1. Busy' = Busy
    BY <1>3, BusySame DEF Running
  <2>2. (place'[Caller] \in {"waits", "woken"} \/ Synced') => m_queue = <<>>
    BY <1>2 DEF StartSync, StartExit, Sync, ExitStore, SyncTaskEnds, SyncWakes, ExitNotify, Join, SyncTurn,
                Goto, Woken, Waiting, Types, Phases, Loading, InPool, Running, Counts, Synced
  <2>3. Synced' => m_jobs = 0
    BY <1>2 DEF StartSync, StartExit, Sync, ExitStore, SyncTaskEnds, SyncWakes, ExitNotify, Join, SyncTurn,
                Goto, Woken, Waiting, Types, Phases, Loading, InPool, Running, Counts, Synced, JobsAreDone
  <2> QED
    BY <1>1, <2>1, <2>2, <2>3 DEF Counts
<1> QED
  BY <1>6, <1>7, <1>8, <1>9

(* Sync and a worker take a task.                                          *)
LEMMA TakeInv ==
    ASSUME PoolInv, NEW t \in Threads, m_queue # <<>>, Take(t), InPool, m_exit' = m_exit,
           \/ t = Caller /\ place[t] = "sync" /\ m_jobs' = m_jobs
           \/ t \in Workers /\ place[t] = "enter" /\ m_jobs' = Counted
    PROVE  PoolInv' /\ Unfinished' = Unfinished
<1> USE DEF PoolInv
<1>1. ~Runs(t) /\ place[t] \notin Running \cup {"ran"} /\ i' = i /\ loader' = loader /\ j' = j
  BY DEF Runs, Running, InPool
<1>2. /\ Once' /\ Unfinished' = Unfinished
      /\ m_queue' \in Seq(Tasks) /\ task' \in [Threads -> Tasks \cup {NoTask}]
      /\ \A u \in Threads : Runs(u)' => task'[u] \in Tasks
      /\ \A u \in Threads : place'[u] = IF u = t THEN "runs" ELSE place[u]
  BY <1>1, Taking
<1>3. Types'
  BY <1>1, <1>2 DEF Types, Counted, Take, Goto, Running
<1>4. ~Synced /\ place[Caller] \notin {"waits", "woken"}
  BY DEF Counts
<1>5. Phases'
  BY <1>1, <1>2, <1>4 DEF Phases, Synced, Threads, Loading, Running
<1>6. Counts'
  <2>1. CASE t = Caller
    <3>1. Busy' = Busy
      BY <1>2, <2>1, BusySame, PoolAssumption DEF Threads
    <3> QED
      BY <1>1, <1>2, <1>4, <2>1, <3>1, PoolAssumption DEF Counts, Synced, Threads
  <2>2. CASE t \in Workers
    <3>1. Cardinality(Busy') = Cardinality(Busy) + 1
      BY <1>1, <1>2, <2>2, BusyMore DEF Threads, Running, Busy
    <3>2. place'[Caller] = place[Caller]
      BY <1>2, <2>2, PoolAssumption DEF Threads
    <3> QED
      BY <1>1, <1>4, <2>2, <3>1, <3>2, PoolAssumption DEF Counts, Synced, Counted
  <2> QED
    BY <2>1, <2>2 DEF Threads
<1> QED
  BY <1>2, <1>3, <1>5, <1>6

(* A thread goes on with its task; the last step ends it.                  *)
LEMMA RunTaskInv ==
    ASSUME PoolInv, NEW t \in Threads, RunTask(t)
    PROVE  /\ PoolInv'
           /\ Pack(t) => Unfinished' = Unfinished
<1> USE DEF PoolInv
<1>1. /\ Runs(t) /\ m_queue' = m_queue /\ m_jobs' = m_jobs /\ m_exit' = m_exit /\ task' = task
      /\ i' = i /\ j' = j /\ loader' = loader
  BY DEF RunTask, Pack, StoreReady, Runs, Running
<1>2. /\ place' \in [Threads -> Running \cup {"free", "enter", "waits", "ran", "gone", "sync", "woken",
                                              "exits", "joins", "joined"}]
      /\ \A u \in Threads : u # t => place'[u] = place[u]
      /\ place'[t] = IF Pack(t) THEN "packed" ELSE "ran"
  <2>1. CASE Pack(t)
    BY <2>1 DEF Pack, Goto, Types, Running
  <2>2. CASE StoreReady(t) /\ ~Pack(t)
    BY <2>2 DEF StoreReady, Goto, Types
  <2> QED
    BY <2>1, <2>2 DEF RunTask
<1>3. Types'
  BY <1>1, <1>2 DEF Types, Runs, Running
<1>4. ~Synced
  BY <1>1, NoneBusyWhenSynced DEF Runs
<1>5. Phases'
  BY <1>1, <1>2, <1>4 DEF Phases, Synced, Runs, Running, Loading, Threads
<1>6. Counts'
  <2>1. Busy' = Busy
    BY <1>1, <1>2, BusySame DEF Runs, Running, Threads
  <2>2. Synced' => Synced
    BY <1>1, <1>2 DEF Synced, Threads
  <2>3. place'[Caller] \notin {"waits", "woken"} \/ place'[Caller] = place[Caller]
    BY <1>2 DEF Threads
  <2> QED
    BY <1>1, <1>4, <2>1, <2>2, <2>3 DEF Counts
<1>7. Once' /\ (Pack(t) => Unfinished' = Unfinished)
  <2>1. CASE Pack(t)
    <3>1. \A u \in Threads : (Runs(u)' <=> Runs(u)) /\ (Runs(u) => task'[u] = task[u])
      BY <1>1, <1>2, <2>1 DEF Runs, Running
    <3> QED
      BY <1>1, <3>1, NoneMoved
  <2>2. CASE StoreReady(t) /\ ~Pack(t)
    BY <2>2, Finishing
  <2> QED
    BY <2>1, <2>2 DEF RunTask
<1> QED
  BY <1>3, <1>5, <1>6, <1>7

(* A worker that finds nothing to do, ends a task, or wakes; and the       *)
(* caller that wakes.                                                      *)
LEMMA WorkerInv ==
    ASSUME PoolInv, InPool,
           \/ \E w \in Workers : WorkerTaskEnds(w) \/ (WorkerTurn(w) /\ (m_exit \/ m_queue = <<>>))
           \/ \E t \in Threads : Wake(t)
    PROVE  PoolInv' /\ Unfinished' = Unfinished
<1> USE DEF PoolInv
<1>1. PICK t \in Threads :
        \/ t \in Workers /\ WorkerTaskEnds(t)
        \/ t \in Workers /\ WorkerTurn(t) /\ (m_exit \/ m_queue = <<>>)
        \/ Wake(t)
  BY DEF Threads
<1>2. m_queue' = m_queue /\ m_exit' = m_exit /\ i' = i /\ j' = j /\ loader' = loader
  BY <1>1 DEF InPool, WorkerTaskEnds, WorkerTurn, Wake
<1>3. /\ place' \in [Threads -> Running \cup {"free", "enter", "waits", "ran", "gone", "sync", "woken",
                                              "exits", "joins", "joined"}]
      /\ task' \in [Threads -> Tasks \cup {NoTask}]
      /\ \A u \in Threads : u # t => task'[u] = task[u]
  BY <1>1 DEF WorkerTaskEnds, WorkerTurn, Wake, Goto, Types
<1>4. /\ place[t] \notin Running /\ place'[t] \notin Running \cup {"ran", "free"}
      /\ \A u \in Threads : u # t => \/ place'[u] = place[u]
                                     \/ u = Caller /\ place[u] = "waits" /\ place'[u] = "woken"
      /\ t = Caller => place[t] = "waits" /\ place'[t] = "woken"
  BY <1>1, PoolAssumption DEF WorkerTaskEnds, WorkerTurn, Wake, Goto, Types, Threads, Running
<1>5. \A u \in Threads : (Runs(u)' <=> Runs(u)) /\ (Runs(u) => task'[u] = task[u])
  BY <1>3, <1>4 DEF Runs, Running
<1>6. Once' /\ Unfinished' = Unfinished
  BY <1>2, <1>5, NoneMoved
<1>7. place'[Caller] = place[Caller] \/ (place[Caller] = "waits" /\ place'[Caller] = "woken")
  BY <1>4 DEF Threads
<1>8. Phases' /\ (Synced' => Synced)
  BY <1>2, <1>7 DEF Phases, Synced, Loading
<1>9. m_jobs' \in Nat /\ m_jobs' = Cardinality(Busy') /\ (Synced => m_jobs' = 0)
  <2>1. CASE t \in Workers /\ WorkerTaskEnds(t)
    <3>1. t \in Busy /\ place[t] = "ran" /\ m_jobs' = m_jobs - 1
      BY <2>1 DEF Busy, WorkerTaskEnds
    <3>2. Cardinality(Busy') = Cardinality(Busy) - 1
      BY <1>4, <2>1, <3>1, BusyFewer, PoolAssumption DEF Threads, Running
    <3>3. Cardinality(Busy') \in Nat
      <4>1. Busy' \in SUBSET Workers
        BY DEF Busy
      <4> QED
        BY <4>1, FS_Subset, FS_CardinalityType, PoolAssumption
    <3>4. ~Synced
      BY <3>1, NoneBusyWhenSynced
    <3> QED
      BY <3>1, <3>2, <3>3, <3>4 DEF Counts
  <2>2. CASE ~(t \in Workers /\ WorkerTaskEnds(t))
    <3>1. m_jobs' = m_jobs /\ place[t] # "ran"
      BY <1>1, <2>2 DEF WorkerTurn, Wake
    <3>2. Busy' = Busy
      BY <1>4, <3>1, BusySame DEF Running, Threads
    <3> QED
      BY <3>1, <3>2 DEF Types, Counts
  <2> QED
    BY <2>1, <2>2
<1>10. Counts'
  BY <1>2, <1>7, <1>8, <1>9 DEF Counts
<1>11. Types'
  BY <1>2, <1>3, <1>5, <1>9 DEF Types
<1> QED
  BY <1>6, <1>8, <1>10, <1>11

-----------------------------------------------------------------------------
(* Where a step of the pool falls in the lemmas above.                     *)
LEMMA StepInv ==
    ASSUME PoolInv, [Next]_vars
    PROVE  /\ PoolInv'
           /\ \/ Unfinished' = Unfinished
              \/ QueueFrame
              \/ \E t \in Threads : StoreReady(t)
<1> Caller \in Threads
  BY DEF Threads
<1>1. CASE Scan \/ Read \/ Collect
  BY <1>1, LoadInv
<1>2. CASE QueueFrame
  BY <1>2, QueueFrameInv
<1>3. CASE \/ StartSync \/ StartExit
           \/ (SyncTaskEnds \/ SyncWakes \/ ExitNotify \/ Join) /\ InPool
           \/ SyncTurn /\ InPool /\ m_queue = <<>>
  BY <1>3, CallerInv
<1>4. CASE SyncTurn /\ InPool /\ m_queue # <<>>
  BY <1>4, TakeInv DEF SyncTurn
<1>5. CASE \E t \in Threads : RunTask(t)
  BY <1>5, RunTaskInv DEF RunTask
<1>6. CASE \E w \in Workers : WorkerTurn(w) /\ InPool /\ ~m_exit /\ m_queue # <<>>
  BY <1>6, TakeInv DEF WorkerTurn, Threads
<1>7. CASE /\ InPool
           /\ \/ \E w \in Workers : WorkerTaskEnds(w) \/ (WorkerTurn(w) /\ (m_exit \/ m_queue = <<>>))
              \/ \E t \in Threads : Wake(t)
  BY <1>7, WorkerInv
<1>8. CASE UNCHANGED vars
  <2>1. Types' /\ Phases' /\ Counts' /\ Once'
    BY <1>8 DEF vars, pool, slots, PoolInv, Types, Phases, Counts, Once, Runs, Synced, Busy
  <2> QED
    BY <1>8, <2>1 DEF vars, pool, PoolInv, Unfinished
<1> QED
  BY <1>1, <1>2, <1>3, <1>4, <1>5, <1>6, <1>7, <1>8
  DEF Next, CallerStep, Load, WorkerStep, Ended, Threads

(* The inductive invariant.                                                *)
THEOREM PoolInvariant == Spec => []PoolInv
<1>1. Init => PoolInv
  BY InitPoolInv
<1>2. PoolInv /\ [Next]_vars => PoolInv'
  BY StepInv
<1> QED
  BY <1>1, <1>2, PTL DEF Spec

(* When Sync has returned nothing is queued and no task is being run.      *)
LEMMA SyncedMeansDone ==
    ASSUME PoolInv, Synced
    PROVE  Unfinished = {}
<1>1. m_queue = <<>>
  BY DEF PoolInv, Counts
<1>2. \A t \in Threads : place[t] \notin Running
  BY NoneBusyWhenSynced DEF PoolInv
<1> QED
  BY <1>1, <1>2 DEF Unfinished, Range

(* The thread pool, with any number of workers, is a ForkJoin (of          *)
(* TracyTaskDispatch.cpp: Queue, Sync and Worker).                         *)
THEOREM PoolIsForkJoin == Spec => ImplementsForkJoin
<1> DEFINE syncing == loader = "syncs" /\ place[Caller] # "free"
<1>1. Init => AbstractForkJoin!Init
  <2> SUFFICES ASSUME Init PROVE AbstractForkJoin!Init
    OBVIOUS
  <2>1. m_queue = <<>> /\ \A t \in Threads : place[t] \notin Running
    BY DEF Init, PoolInit, Running
  <2>2. Unfinished = {}
    BY <2>1 DEF Unfinished, Range
  <2> QED
    BY <2>2 DEF AbstractForkJoin!Init, Init
<1>2. PoolInv /\ [Next]_vars => [AbstractForkJoin!Next]_(AbstractForkJoin!vars)
  <2> SUFFICES ASSUME PoolInv, [Next]_vars
               PROVE  AbstractForkJoin!Next \/ (Unfinished' = Unfinished /\ syncing' = syncing)
    BY DEF AbstractForkJoin!vars
  <2>1. PoolInv'
    BY StepInv
  <2>2. CASE QueueFrame
    <3>1. PICK new \in Tasks : new \notin Unfinished /\ Unfinished' = Unfinished \cup {new}
      BY <2>2, Queueing DEF PoolInv
    <3>2. ~syncing /\ ~syncing'
      BY <2>2 DEF QueueFrame
    <3> QED
      BY <3>1, <3>2 DEF AbstractForkJoin!Next, AbstractForkJoin!Queue
  <2>3. CASE \E t \in Threads : StoreReady(t)
    <3>1. PICK t \in Threads : StoreReady(t)
      BY <2>3
    <3>2. task[t] \in Tasks /\ task[t] \in Unfinished /\ Unfinished' = Unfinished \ {task[t]}
      BY <3>1, Finishing DEF PoolInv
    <3>3. syncing' = syncing
      BY <3>1 DEF StoreReady, Goto, PoolInv, Types, Threads
    <3> QED
      BY <3>2, <3>3 DEF AbstractForkJoin!Next, AbstractForkJoin!Run
  <2>4. CASE Unfinished' = Unfinished /\ syncing' # syncing
    <3>1. CASE syncing'
      BY <2>4, <3>1 DEF AbstractForkJoin!Next, AbstractForkJoin!StartSync
    <3>2. CASE ~syncing'
      <4>1. syncing /\ Synced'
        <5>1. syncing
          BY <2>4, <3>2
        <5>2. loader' = "syncs" \/ loader' = "collect"
          BY <5>1 DEF Next, CallerStep, Load, WorkerStep, Ended, vars, pool, InPool, Scan, Read, QueueFrame,
                      StartSync, StartExit, Collect, RunTask, Pack, StoreReady
        <5> QED
          BY <3>2, <5>1, <5>2 DEF Synced
      <4>2. Unfinished' = {}
        <5>1. PoolInv /\ Synced => Unfinished = {}
          BY SyncedMeansDone
        <5>2. (PoolInv /\ Synced => Unfinished = {})'
          BY SyncedMeansDone, PTL
        <5> QED
          BY <2>1, <4>1, <5>2
      <4> QED
        BY <2>4, <3>2, <4>1, <4>2 DEF AbstractForkJoin!Next, AbstractForkJoin!EndSync
    <3> QED
      BY <3>1, <3>2
  <2> QED
    BY <2>2, <2>3, <2>4, StepInv
<1> QED
  BY <1>1, <1>2, PoolInvariant, PTL DEF Spec, ImplementsForkJoin, AbstractForkJoin!Spec

-----------------------------------------------------------------------------
(***************************************************************************)
(* The images.  A slot in progress belongs to one task, from the step that *)
(* reads the image into it to the one that stores DataReady; only then is  *)
(* its output buffer looked at.                                            *)
(***************************************************************************)
SlotTypes ==
    /\ i \in 1..(FrameCount + 1)
    /\ state \in [Slots -> {"InProgress", "Available", "DataReady"}]
    /\ fi \in [Slots -> Frames \cup {None}] /\ buf \in [Slots -> Frames \cup {None}]
    /\ outbuf \in [Slots -> Frames \cup {None}] /\ ptr \in [Frames -> Frames \cup {None}]

(* A task has its slot, with its image in it, and each slot in progress is *)
(* a task's, or is about to be.                                            *)
SlotsOfTasks ==
    /\ \A x \in Unfinished :
        state[x.idx] = "InProgress" /\ fi[x.idx] = x.fi /\ buf[x.idx] = x.fi
    /\ loader = "queue" => state[j] = "InProgress" /\ fi[j] = i /\ buf[j] = i
    /\ \A s \in Slots : state[s] = "InProgress" =>
        (loader = "queue" /\ s = j) \/ \E x \in Unfinished : x.idx = s

(* What has been packed is the image of the slot.                          *)
Packed ==
    /\ \A t \in Threads : place[t] = "packed" => outbuf[task[t].idx] = task[t].fi
    /\ \A s \in Slots : state[s] = "DataReady" => fi[s] \in Frames /\ outbuf[s] = fi[s]

(* An image that was read is in a slot or has been taken from it, and what *)
(* is in the slot that is read into next has been taken.                   *)
NoneLost ==
    /\ loader = "read" =>
        /\ state[j] # "InProgress"
        /\ state[j] = "DataReady" => ptr[fi[j]] = fi[j]
    /\ \A f \in Frames : f < i =>
        ptr[f] = f \/ \E s \in Slots : state[s] # "Available" /\ fi[s] = f
    /\ loader \in {"sync", "syncs", "collect", "ended"} => i = FrameCount + 1

ThreadsApart ==
    /\ \A w \in Workers : place[w] \in Running \cup {"enter", "waits", "ran", "gone"}
    /\ place[Caller] \notin {"enter", "gone"}

SlotInv == SlotTypes /\ SlotsOfTasks /\ Packed /\ NoneLost /\ ImagesTrue /\ ThreadsApart

(* A running task is among the unfinished ones, and so has its slot.       *)
LEMMA RunningTask ==
    ASSUME PoolInv, SlotInv, NEW t \in Threads, Runs(t)
    PROVE  /\ task[t] \in Tasks /\ task[t] \in Unfinished
           /\ task[t].idx \in Slots /\ task[t].fi \in Frames
           /\ state[task[t].idx] = "InProgress"
           /\ fi[task[t].idx] = task[t].fi /\ buf[task[t].idx] = task[t].fi
<1>1. task[t] \in Tasks
  BY DEF PoolInv, Types
<1>2. task[t] \in Unfinished
  BY DEF Unfinished, Runs
<1> QED
  BY <1>1, <1>2 DEF SlotInv, SlotsOfTasks, Tasks

(* What is queued or run are images of the loader.                         *)
LEMMA UnfinishedAreTasks == ASSUME PoolInv PROVE Unfinished \subseteq Tasks
<1>1. Range(m_queue) \subseteq Tasks
  BY DEF PoolInv, Types, Range
<1> QED
  BY <1>1 DEF PoolInv, Types, Runs, Unfinished

(* Unfinished tasks are of images before the next.                         *)
LEMMA UnfinishedBefore ==
    ASSUME PoolInv, NEW x \in Unfinished
    PROVE  x.fi < i
BY DEF PoolInv, Once, Unfinished, Runs, Range

(* The slots of a loader that starts.                                      *)
LEMMA InitSlotInv == Init => SlotInv
<1> SUFFICES ASSUME Init PROVE SlotInv
  OBVIOUS
<1> USE DEF Init, PoolInit
<1>1. \A t \in Threads : place[t] = IF t = Caller THEN "free" ELSE "enter"
  OBVIOUS
<1>2. Unfinished = {}
  BY <1>1 DEF Unfinished, Range, Running
<1>3. SlotTypes
  BY LoadAssumption DEF SlotTypes, Frames
<1>4. SlotsOfTasks /\ Packed
  BY <1>1, <1>2 DEF SlotsOfTasks, Packed
<1>5. NoneLost
  BY LoadAssumption DEF NoneLost, Frames
<1>6. ImagesTrue
  BY DEF ImagesTrue
<1>7. ThreadsApart
  BY <1>1, PoolAssumption DEF ThreadsApart, Threads
<1> QED
  BY <1>3, <1>4, <1>5, <1>6, <1>7 DEF SlotInv

(* Workers and the caller keep to their own places.                        *)
LEMMA ApartInv ==
    ASSUME PoolInv, ThreadsApart, [Next]_vars
    PROVE  ThreadsApart'
<1> USE DEF ThreadsApart, Running
<1>1. Caller \in Threads /\ Caller \notin Workers /\ Workers \subseteq Threads /\ place = [t \in Threads |-> place[t]]
  BY PoolAssumption DEF Threads, PoolInv, Types
<1>2. CASE Load
  BY <1>1, <1>2 DEF Load, Scan, Read, QueueFrame, StartSync, StartExit, Collect, Queue, Sync, ExitStore,
                    Goto, Waiting, pool
<1>3. CASE \E t \in Threads : RunTask(t)
  <2>1. PICK t \in Threads, p \in {"packed", "ran"} : Goto(t, p)
    BY <1>3 DEF RunTask, Pack, StoreReady
  <2> QED
    BY <1>1, <2>1 DEF Goto
<1>4. CASE SyncTurn \/ SyncTaskEnds \/ SyncWakes \/ ExitNotify \/ Join
  BY <1>1, <1>4 DEF SyncTurn, SyncTaskEnds, SyncWakes, ExitNotify, Join, Take, Goto, Woken, Waiting
<1>5. CASE \E w \in Workers : WorkerTurn(w) \/ WorkerTaskEnds(w)
  BY <1>1, <1>5 DEF WorkerTurn, WorkerTaskEnds, Take, Goto
<1>6. CASE \E t \in Threads : Wake(t)
  BY <1>1, <1>6 DEF Wake, Goto, Threads
<1>7. CASE UNCHANGED vars
  BY <1>7 DEF vars, pool
<1> QED
  BY <1>1, <1>2, <1>3, <1>4, <1>5, <1>6, <1>7 DEF Next, CallerStep, WorkerStep, Ended

(* The steps of the pool look at no slot, and a task half run by a thread  *)
(* stays where it is.                                                      *)
PoolStep ==
    \/ StartSync \/ StartExit
    \/ /\ InPool
       /\ \/ SyncTurn \/ SyncTaskEnds \/ SyncWakes \/ ExitNotify \/ Join
          \/ \E w \in Workers : WorkerTurn(w) \/ WorkerTaskEnds(w)
          \/ \E t \in Threads : Wake(t)

(* A step of the pool packs nothing: who has packed, had before.           *)
LEMMA PoolStepKeepsPacked ==
    ASSUME PoolInv, PoolStep, NEW u \in Threads, place'[u] = "packed"
    PROVE  place[u] = "packed" /\ task'[u] = task[u]
<1>1. Caller \in Threads /\ Workers \subseteq Threads /\ task = [t \in Threads |-> task[t]]
      /\ place = [t \in Threads |-> place[t]]
  BY DEF PoolInv, Types, Threads
<1>2. CASE StartSync \/ StartExit
  BY <1>1, <1>2 DEF StartSync, StartExit, Sync, ExitStore, Goto
<1>3. CASE SyncTurn \/ SyncTaskEnds \/ SyncWakes \/ ExitNotify \/ Join
  BY <1>1, <1>3 DEF SyncTurn, SyncTaskEnds, SyncWakes, ExitNotify, Join, Take, Goto
<1>4. CASE \E w \in Workers : WorkerTurn(w) \/ WorkerTaskEnds(w)
  BY <1>1, <1>4 DEF WorkerTurn, WorkerTaskEnds, Take, Goto
<1>5. CASE \E t \in Threads : Wake(t)
  BY <1>1, <1>5 DEF Wake, Goto
<1> QED
  BY <1>2, <1>3, <1>4, <1>5 DEF PoolStep

(* The steps of the pool that touch no slot keep the slots right.          *)
LEMMA PoolStepSlotInv ==
    ASSUME PoolInv, SlotInv, PoolStep, ThreadsApart', Unfinished' = Unfinished
    PROVE  SlotInv'
<1> USE DEF SlotInv
<1>1. /\ i' = i /\ j' = j /\ state' = state /\ fi' = fi /\ buf' = buf /\ outbuf' = outbuf /\ ptr' = ptr
      /\ loader' = loader \/ (loader = "sync" /\ loader' = "syncs")
         \/ (loader = "syncs" /\ loader' = "collect")
  BY DEF PoolStep, StartSync, StartExit, InPool, slots
<1>2. SlotTypes' /\ NoneLost'
  BY <1>1 DEF SlotTypes, NoneLost
<1>3. SlotsOfTasks' /\ ImagesTrue'
  BY <1>1 DEF SlotsOfTasks, ImagesTrue
<1>4. Packed'
  BY <1>1, PoolStepKeepsPacked DEF Packed
<1> QED
  BY <1>2, <1>3, <1>4

(* A slot that is not in progress is found, and its image taken.           *)
LEMMA ScanSlotInv ==
    ASSUME PoolInv, SlotInv, Scan, ThreadsApart', Unfinished' = Unfinished
    PROVE  SlotInv'
<1> USE DEF SlotInv
<1>1. /\ i' = i /\ state' = state /\ fi' = fi /\ buf' = buf /\ outbuf' = outbuf
      /\ place' = place /\ task' = task /\ loader = "scan"
      /\ \/ loader' = "scan" /\ ptr' = ptr
         \/ loader' = "read" /\ state[j] # "InProgress" /\ ptr' = Taken(j) /\ j' = j
  BY DEF Scan, slots, pool
<1>2. j \in Slots
  BY DEF PoolInv, Types
<1>3. /\ ptr' \in [Frames -> Frames \cup {None}]
      /\ \A f \in Frames : ptr'[f] = ptr[f] \/ ptr'[f] = f
      /\ loader' = "read" /\ state[j] = "DataReady" => ptr'[fi[j]] = fi[j]
  BY <1>1, <1>2 DEF Taken, SlotTypes, Packed
<1>4. SlotTypes'
  BY <1>1, <1>3 DEF SlotTypes
<1>5. SlotsOfTasks' /\ Packed'
  BY <1>1 DEF SlotsOfTasks, Packed
<1>6. NoneLost'
  BY <1>1, <1>3 DEF NoneLost
<1>7. ImagesTrue'
  BY <1>1, <1>3 DEF ImagesTrue
<1> QED
  BY <1>4, <1>5, <1>6, <1>7

(* The next image is read into it.                                         *)
LEMMA ReadSlotInv ==
    ASSUME PoolInv, SlotInv, Read, ThreadsApart', Unfinished' = Unfinished
    PROVE  SlotInv'
<1> USE DEF SlotInv
<1>1. /\ i' = i /\ j' = j /\ j \in Slots /\ i \in Frames /\ outbuf' = outbuf /\ ptr' = ptr
      /\ place' = place /\ task' = task /\ loader = "read" /\ loader' = "queue"
  BY DEF Read, pool, PoolInv, Types, Loading
<1>2. /\ state' \in [Slots -> {"InProgress", "Available", "DataReady"}]
      /\ fi' \in [Slots -> Frames \cup {None}] /\ buf' \in [Slots -> Frames \cup {None}]
      /\ \A s \in Slots : /\ state'[s] = IF s = j THEN "InProgress" ELSE state[s]
                          /\ fi'[s] = IF s = j THEN i ELSE fi[s]
                          /\ buf'[s] = IF s = j THEN i ELSE buf[s]
  BY <1>1 DEF Read, SlotTypes
<1>3. state[j] # "InProgress" /\ (state[j] = "DataReady" => ptr[fi[j]] = fi[j])
  BY <1>1 DEF NoneLost
<1>4. SlotTypes'
  BY <1>1, <1>2 DEF SlotTypes
<1>5. SlotsOfTasks'
  <2>1. \A x \in Unfinished : x.idx \in Slots /\ x.idx # j
    BY <1>3, UnfinishedAreTasks DEF SlotsOfTasks, Tasks
  <2> QED
    BY <1>1, <1>2, <2>1 DEF SlotsOfTasks
<1>6. Packed'
  BY <1>1, <1>2 DEF Packed
<1>7. NoneLost'
  <2> SUFFICES ASSUME NEW f \in Frames, f < i, ptr[f] # f
               PROVE  \E s \in Slots : state'[s] # "Available" /\ fi'[s] = f
    BY <1>1 DEF NoneLost
  <2>1. PICK s \in Slots : state[s] # "Available" /\ fi[s] = f
    BY DEF NoneLost
  <2>2. s # j
    BY <1>2, <1>3, <2>1 DEF SlotTypes
  <2> QED
    BY <1>2, <2>1, <2>2
<1>8. ImagesTrue'
  BY <1>1 DEF ImagesTrue
<1> QED
  BY <1>4, <1>5, <1>6, <1>7, <1>8

(* The slot is handed to a task.                                           *)
LEMMA QueueSlotInv ==
    ASSUME PoolInv, SlotInv, QueueFrame, ThreadsApart'
    PROVE  SlotInv'
<1> USE DEF SlotInv
<1>1. /\ i' = i + 1 /\ j \in Slots /\ i \in Frames /\ task' = task /\ loader = "queue"
      /\ loader' = IF i = FrameCount THEN "sync" ELSE "scan"
      /\ state' = state /\ fi' = fi /\ buf' = buf /\ outbuf' = outbuf /\ ptr' = ptr
  BY DEF QueueFrame, Queue, slots, PoolInv, Types, Loading
<1>2. /\ Unfinished' = Unfinished \cup {[idx |-> j, fi |-> i]}
      /\ \A u \in Threads : place'[u] = place[u] \/ (place[u] = "waits" /\ place'[u] = "enter")
  BY Queueing DEF PoolInv
<1>3. state[j] = "InProgress" /\ fi[j] = i /\ buf[j] = i
  BY <1>1 DEF SlotsOfTasks
<1>4. SlotTypes'
  BY <1>1, LoadAssumption DEF SlotTypes, Frames
<1>5. SlotsOfTasks'
  <2> DEFINE new == [idx |-> j, fi |-> i]
  <2>1. new.idx = j /\ new.fi = i
    OBVIOUS
  <2>2. \A x \in Unfinished' :
            state[x.idx] = "InProgress" /\ fi[x.idx] = x.fi /\ buf[x.idx] = x.fi
    BY <1>2, <1>3, <2>1 DEF SlotsOfTasks
  <2>3. \A s \in Slots : state[s] = "InProgress" => \E x \in Unfinished' : x.idx = s
    BY <1>2, <2>1 DEF SlotsOfTasks
  <2>4. loader' # "queue"
    BY <1>1
  <2> QED
    BY <1>1, <2>2, <2>3, <2>4 DEF SlotsOfTasks
<1>6. Packed'
  BY <1>1, <1>2 DEF Packed
<1>7. NoneLost'
  <2>1. \A f \in Frames : f < i' => f < i \/ f = i
    BY <1>1, LoadAssumption DEF Frames
  <2>2. loader' = "sync" => i' = FrameCount + 1
    BY <1>1
  <2> QED
    BY <1>1, <1>3, <2>1, <2>2 DEF NoneLost
<1>8. ImagesTrue'
  BY <1>1 DEF ImagesTrue
<1> QED
  BY <1>4, <1>5, <1>6, <1>7, <1>8

(* The image is packed: no other task packs into that buffer.              *)
LEMMA PackSlotInv ==
    ASSUME PoolInv, SlotInv, NEW t \in Threads, Pack(t), ThreadsApart', Unfinished' = Unfinished
    PROVE  SlotInv'
<1> USE DEF SlotInv
<1> DEFINE k == task[t].idx
<1>1. /\ i' = i /\ j' = j /\ state' = state /\ fi' = fi /\ buf' = buf /\ ptr' = ptr
      /\ task' = task /\ loader' = loader /\ Runs(t)
      /\ \A u \in Threads : place'[u] = IF u = t THEN "packed" ELSE place[u]
  BY DEF Pack, Runs, Running, PoolInv, Types, Goto
<1>2. task[t] \in Tasks /\ k \in Slots /\ task[t].fi \in Frames /\ state[k] = "InProgress"
      /\ fi[k] = task[t].fi /\ buf[k] = task[t].fi
  BY <1>1, RunningTask
<1>3. /\ outbuf' \in [Slots -> Frames \cup {None}]
      /\ \A s \in Slots : outbuf'[s] = IF s = k THEN task[t].fi ELSE outbuf[s]
  BY <1>2 DEF Pack, SlotTypes
<1>4. SlotTypes' /\ NoneLost' /\ ImagesTrue'
  BY <1>1, <1>3 DEF SlotTypes, NoneLost, ImagesTrue
<1>5. SlotsOfTasks'
  BY <1>1 DEF SlotsOfTasks
<1>6. Packed'
  <2>1. ASSUME NEW u \in Threads, place'[u] = "packed" PROVE outbuf'[task[u].idx] = task[u].fi
    <3>1. CASE u = t
      BY <1>2, <1>3, <3>1
    <3>2. CASE u # t
      <4>1. place[u] = "packed" /\ Runs(u)
        BY <1>1, <2>1, <3>2 DEF Runs, Running
      <4>2. task[u].idx \in Slots /\ fi[task[u].idx] = task[u].fi
        BY <4>1, RunningTask
      <4> QED
        BY <1>2, <1>3, <4>1, <4>2 DEF Packed
    <3> QED
      BY <3>1, <3>2
  <2>2. \A s \in Slots : state[s] = "DataReady" => s # k
    BY <1>2
  <2> QED
    BY <1>1, <1>3, <2>1, <2>2 DEF Packed
<1> QED
  BY <1>4, <1>5, <1>6

(* The slot is given back with its image in the output buffer.             *)
LEMMA ReadySlotInv ==
    ASSUME PoolInv, SlotInv, NEW t \in Threads, StoreReady(t), ThreadsApart'
    PROVE  SlotInv'
<1> USE DEF SlotInv
<1> DEFINE k == task[t].idx
<1>1. /\ i' = i /\ j' = j /\ outbuf' = outbuf /\ fi' = fi /\ buf' = buf /\ ptr' = ptr
      /\ task' = task /\ loader' = loader /\ Runs(t) /\ place[t] = "packed"
      /\ \A u \in Threads : place'[u] = IF u = t THEN "ran" ELSE place[u]
  BY DEF StoreReady, Runs, Running, PoolInv, Types, Goto
<1>2. task[t] \in Tasks /\ k \in Slots /\ task[t].fi \in Frames /\ state[k] = "InProgress"
      /\ fi[k] = task[t].fi
  BY <1>1, RunningTask
<1>3. /\ state' \in [Slots -> {"InProgress", "Available", "DataReady"}]
      /\ \A s \in Slots : state'[s] = IF s = k THEN "DataReady" ELSE state[s]
  BY <1>2 DEF StoreReady, SlotTypes
<1>4. Unfinished' = Unfinished \ {task[t]}
  BY Finishing DEF PoolInv
<1>5. \A x \in Unfinished : x.idx \in Slots /\ x.fi \in Frames /\ x = [idx |-> x.idx, fi |-> x.fi]
  BY UnfinishedAreTasks DEF Tasks
<1>6. \A x \in Unfinished' : x \in Unfinished /\ x.idx # k
  BY <1>2, <1>4, <1>5 DEF SlotsOfTasks, Tasks
<1>7. loader = "queue" => j # k
  <2>1. task[t].fi < i /\ i \in Nat /\ task[t].fi \in Nat
    BY <1>1, <1>2, LoadAssumption DEF PoolInv, Once, Types, Frames
  <2> QED
    BY <1>2, <2>1 DEF SlotsOfTasks
<1>8. SlotTypes' /\ ImagesTrue'
  BY <1>1, <1>3 DEF SlotTypes, ImagesTrue
<1>9. SlotsOfTasks'
  <2>1. \A s \in Slots : s # k /\ state[s] = "InProgress" =>
            (loader = "queue" /\ s = j) \/ \E x \in Unfinished' : x.idx = s
    BY <1>4 DEF SlotsOfTasks
  <2> QED
    BY <1>1, <1>3, <1>5, <1>6, <1>7, <2>1 DEF SlotsOfTasks, PoolInv, Types
<1>10. Packed'
  <2>1. outbuf[k] = fi[k]
    BY <1>1, <1>2 DEF Packed
  <2> QED
    BY <1>1, <1>2, <1>3, <2>1 DEF Packed
<1>11. NoneLost'
  <2>1. loader = "read" => j # k
    BY <1>2 DEF NoneLost
  <2>2. j \in Slots
    BY DEF PoolInv, Types
  <2> QED
    BY <1>1, <1>2, <1>3, <2>1, <2>2 DEF NoneLost
<1> QED
  BY <1>8, <1>9, <1>10, <1>11

(* When the pool is gone no slot is in progress, and each image that was   *)
(* not taken yet is in a slot that is ready.                               *)
LEMMA CollectSlotInv ==
    ASSUME PoolInv, SlotInv, Collect, Unfinished = {}, ThreadsApart', Unfinished' = Unfinished
    PROVE  SlotInv'
<1> USE DEF SlotInv
<1>1. /\ i' = i /\ j' = j /\ state' = state /\ fi' = fi /\ buf' = buf /\ outbuf' = outbuf
      /\ place' = place /\ task' = task /\ loader = "collect" /\ loader' = "ended"
      /\ i = FrameCount + 1
  BY DEF Collect, pool, slots, NoneLost
<1>2. \A s \in Slots : state[s] \in {"Available", "DataReady"}
  BY <1>1 DEF SlotsOfTasks, SlotTypes
<1>3. ptr' \in [Frames -> Frames \cup {None}] /\ \A f \in Frames : ptr'[f] = f
  <2>1. ASSUME NEW f \in Frames
        PROVE  f = IF \E s \in Slots : state[s] = "DataReady" /\ fi[s] = f
                     THEN outbuf[CHOOSE s \in Slots : state[s] = "DataReady" /\ fi[s] = f]
                     ELSE ptr[f]
    <3>1. f < i
      BY <1>1, LoadAssumption DEF Frames
    <3>2. ptr[f] = f \/ \E s \in Slots : state[s] = "DataReady" /\ fi[s] = f
      BY <1>2, <3>1 DEF NoneLost
    <3>3. \A s \in Slots : state[s] = "DataReady" /\ fi[s] = f => outbuf[s] = f
      BY DEF Packed
    <3>4. CASE \E s \in Slots : state[s] = "DataReady" /\ fi[s] = f
      <4> DEFINE r == CHOOSE s \in Slots : state[s] = "DataReady" /\ fi[s] = f
      <4>1. r \in Slots /\ state[r] = "DataReady" /\ fi[r] = f
        BY <3>4
      <4> QED
        BY <3>3, <3>4, <4>1
    <3> QED
      BY <3>2, <3>4
  <2> QED
    BY <2>1 DEF Collect
<1>4. SlotTypes' /\ NoneLost' /\ ImagesTrue'
  BY <1>1, <1>3 DEF SlotTypes, NoneLost, ImagesTrue
<1>5. SlotsOfTasks' /\ Packed'
  BY <1>1 DEF SlotsOfTasks, Packed
<1> QED
  BY <1>4, <1>5

(* Every step keeps the slots right.                                       *)
LEMMA StepSlotInv ==
    ASSUME PoolInv, SlotInv, [Next]_vars
    PROVE  SlotInv'
<1>0. ThreadsApart' /\ PoolInv'
  BY ApartInv, StepInv DEF SlotInv
<1>1. CASE Scan
  BY <1>0, <1>1, LoadInv, ScanSlotInv
<1>2. CASE Read
  BY <1>0, <1>2, LoadInv, ReadSlotInv
<1>3. CASE Collect
  <2>1. Unfinished = {}
    BY <1>3, SyncedMeansDone DEF Collect, Synced
  <2> QED
    BY <1>0, <1>3, <2>1, LoadInv, CollectSlotInv
<1>4. CASE QueueFrame
  BY <1>0, <1>4, QueueSlotInv
<1>5. CASE \E t \in Threads : RunTask(t)
  BY <1>0, <1>5, RunTaskInv, PackSlotInv, ReadySlotInv DEF RunTask
<1>6. CASE PoolStep
  <2>1. Unfinished' = Unfinished
    <3>1. CASE \/ StartSync \/ StartExit
               \/ (SyncTaskEnds \/ SyncWakes \/ ExitNotify \/ Join) /\ InPool
               \/ SyncTurn /\ InPool /\ m_queue = <<>>
      BY <3>1, CallerInv
    <3>2. CASE SyncTurn /\ InPool /\ m_queue # <<>>
      BY <3>2, TakeInv DEF SyncTurn, Threads
    <3>3. CASE \E w \in Workers : WorkerTurn(w) /\ InPool /\ ~m_exit /\ m_queue # <<>>
      BY <3>3, TakeInv DEF WorkerTurn, Threads
    <3>4. CASE /\ InPool
               /\ \/ \E w \in Workers : WorkerTaskEnds(w) \/ (WorkerTurn(w) /\ (m_exit \/ m_queue = <<>>))
                  \/ \E t \in Threads : Wake(t)
      BY <3>4, WorkerInv
    <3> QED
      BY <1>6, <3>1, <3>2, <3>3, <3>4 DEF PoolStep
  <2> QED
    BY <1>0, <1>6, <2>1, PoolStepSlotInv
<1>7. CASE UNCHANGED vars
  <2>1. SlotTypes' /\ SlotsOfTasks' /\ Packed' /\ NoneLost' /\ ImagesTrue'
    BY <1>7 DEF vars, slots, pool, SlotInv, SlotTypes, SlotsOfTasks, Packed, NoneLost, ImagesTrue, Unfinished
  <2> QED
    BY <1>0, <2>1 DEF SlotInv
<1> QED
  BY <1>1, <1>2, <1>3, <1>4, <1>5, <1>6, <1>7
  DEF Next, CallerStep, Load, WorkerStep, Ended, PoolStep, Threads

(* However many slots, workers and images there are and whichever thread   *)
(* packs which image when, no image is given another image's data, and     *)
(* when the loading has ended each has its own.                            *)
THEOREM ImagesAreTrue == Spec => []ImagesTrue
<1>1. Init => PoolInv /\ SlotInv
  BY InitPoolInv, InitSlotInv
<1>2. PoolInv /\ SlotInv /\ [Next]_vars => (PoolInv /\ SlotInv)'
  BY StepInv, StepSlotInv
<1>3. SlotInv => ImagesTrue
  BY DEF SlotInv
<1> QED
  BY <1>1, <1>2, <1>3, PTL DEF Spec

(* Every variable has its type, and m_jobs, which Sync waits to be 0, is   *)
(* at every moment the number of workers that are running a task.          *)
THEOREM LoadTypeCorrect == Spec => []TypeOK
<1>1. Init => PoolInv /\ SlotInv
  BY InitPoolInv, InitSlotInv
<1>2. PoolInv /\ SlotInv /\ [Next]_vars => (PoolInv /\ SlotInv)'
  BY StepInv, StepSlotInv
<1>3. PoolInv /\ SlotInv => TypeOK
  <2> SUFFICES ASSUME PoolInv, SlotInv PROVE TypeOK
    OBVIOUS
  <2>1. m_jobs = Cardinality({w \in Workers : place[w] \in Running \cup {"ran"}})
    BY DEF PoolInv, Counts, Busy
  <2>2. place[Caller] \in Running \cup {"free", "sync", "ran", "waits", "woken", "exits", "joins", "joined"}
    BY DEF PoolInv, Phases, Types, Loading
  <2>3. \A w \in Workers : place[w] \in Running \cup {"enter", "waits", "ran", "gone"}
    BY DEF SlotInv, ThreadsApart
  <2> QED
    BY <2>1, <2>2, <2>3 DEF TypeOK, PoolInv, SlotInv, Types, SlotTypes, Loading
<1> QED
  BY <1>1, <1>2, <1>3, PTL DEF Spec
=============================================================================
