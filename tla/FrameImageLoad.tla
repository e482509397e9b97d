--------------------------- MODULE FrameImageLoad ---------------------------
(***************************************************************************)
(* Worker::Worker( FileRead&, ... ) of src/tracy/server/TracyWorker.cpp,   *)
(* where it loads the frame images of a trace: each image is read into the *)
(* buffer of a free slot, a task packs it into the slot's output buffer,   *)
(* and the slot's atomic state says when it may be taken from there.  The  *)
(* images' contents are their numbers.  Allocation is left out.            *)
(***************************************************************************)
EXTENDS TaskDispatch

CONSTANTS
    FrameCount, \* images in the file: sz
    SlotCount,  \* slots, as many as workers: jobs
    None

ASSUME LoadAssumption == FrameCount \in Nat \ {0} /\ SlotCount \in Nat \ {0}

VARIABLES
    loader,     \* where the loading thread is
    i,          \* the image to load next
    j,          \* the slot it looks at
    state,      \* of each slot: "InProgress", "Available" or "DataReady"
    fi,         \* of each slot: its image
    buf,        \* of each slot: the image read
    outbuf,     \* of each slot: the image packed
    ptr         \* of each image: the packed data it was given

slots == <<state, fi, buf, outbuf>>
vars == <<pool, loader, i, j, slots, ptr>>

Frames == 1..FrameCount
Slots == 1..SlotCount
Tasks == [idx : Slots, fi : Frames]

Init ==
    /\ PoolInit
    /\ loader = "scan" /\ i = 1 /\ j = 1
    /\ state = [s \in Slots |-> "Available"]
    /\ fi = [s \in Slots |-> None] /\ buf = [s \in Slots |-> None]
    /\ outbuf = [s \in Slots |-> None]
    /\ ptr = [f \in Frames |-> None]

-----------------------------------------------------------------------------
(* The loading thread.  A slot that is not in progress is used again, once *)
(* the image in it is taken; while all are in progress it looks again.     *)
(* Mutant: the image is not taken.                                         *)
TakenNot(s) == ptr
Taken(s) == IF state[s] = "DataReady" THEN [ptr EXCEPT ![fi[s]] = outbuf[s]] ELSE ptr

Scan ==
    /\ loader = "scan"
    /\ IF state[j] # "InProgress"
         THEN ptr' = Taken(j) /\ loader' = "read" /\ UNCHANGED j
         ELSE j' = (j % SlotCount) + 1 /\ UNCHANGED <<ptr, loader>>
    /\ UNCHANGED <<pool, i, slots>>

Read ==
    /\ loader = "read"
    /\ buf' = [buf EXCEPT ![j] = i]
    /\ fi' = [fi EXCEPT ![j] = i]
    /\ state' = [state EXCEPT ![j] = "InProgress"]
    /\ loader' = "queue"
    /\ UNCHANGED <<pool, i, j, outbuf, ptr>>

QueueFrame ==
    /\ loader = "queue"
    /\ Queue([idx |-> j, fi |-> i])
    /\ i' = i + 1 /\ j' = 1
    /\ loader' = IF i = FrameCount THEN "sync" ELSE "scan"
    /\ UNCHANGED <<slots, ptr>>

StartSync ==
    /\ loader = "sync" /\ Sync
    /\ loader' = "syncs"
    /\ UNCHANGED <<i, j, slots, ptr>>

(* td.reset().                                                             *)
StartExit ==
    /\ loader = "syncs" /\ ExitStore
    /\ loader' = "collect"
    /\ UNCHANGED <<i, j, slots, ptr>>

(* The images that are in the slots when the pool is gone.                 *)
Collect ==
    /\ loader = "collect" /\ place[Caller] = "joined"
    /\ ptr' = [f \in Frames |->
                 IF \E s \in Slots : state[s] = "DataReady" /\ fi[s] = f
                   THEN outbuf[CHOOSE s \in Slots : state[s] = "DataReady" /\ fi[s] = f]
                   ELSE ptr[f]]
    /\ loader' = "ended"
    /\ UNCHANGED <<pool, i, j, slots>>

-----------------------------------------------------------------------------
(* The task, run by a worker or, in Sync, by the loading thread.           *)
Pack(t) ==
    /\ place[t] = "runs"
    /\ outbuf' = [outbuf EXCEPT ![task[t].idx] = buf[task[t].idx]]
    /\ Goto(t, "packed")
    /\ UNCHANGED <<m_queue, m_jobs, m_exit, task, loader, i, j, state, fi, buf, ptr>>

StoreReady(t) ==
    /\ place[t] = "packed"
    /\ state' = [state EXCEPT ![task[t].idx] = "DataReady"]
    /\ Goto(t, "ran")
    /\ UNCHANGED <<m_queue, m_jobs, m_exit, task, loader, i, j, fi, buf, outbuf, ptr>>

RunTask(t) == Pack(t) \/ StoreReady(t)

InPool == UNCHANGED <<loader, i, j, slots, ptr>>
Load == Scan \/ Read \/ QueueFrame \/ StartSync \/ StartExit \/ Collect
CallerStep ==
    Load \/ RunTask(Caller)
    \/ ((SyncTurn \/ SyncTaskEnds \/ SyncWakes \/ ExitNotify \/ Join) /\ InPool)
WorkerStep(w) == RunTask(w) \/ ((WorkerTurn(w) \/ WorkerTaskEnds(w)) /\ InPool)

Ended == loader = "ended" /\ UNCHANGED vars

Next ==
    \/ CallerStep
    \/ \E w \in Workers : WorkerStep(w)
    \/ \E t \in Threads : Wake(t) /\ InPool
    \/ Ended

Spec == Init /\ [][Next]_vars
FairSpec == Spec /\ WF_vars(CallerStep) /\ \A w \in Workers : WF_vars(WorkerStep(w))

-----------------------------------------------------------------------------
Running == {"runs", "packed"}

(* Every variable has its type; m_jobs, unsigned, counts the workers that  *)
(* run a task, and no more tasks are alive than slots are in progress.     *)
TypeOK ==
    /\ m_queue \in Seq(Tasks)
    /\ m_jobs = Cardinality({w \in Workers : place[w] \in Running \cup {"ran"}})
    /\ m_exit \in BOOLEAN
    /\ \A w \in Workers : place[w] \in Running \cup {"enter", "waits", "ran", "gone"}
    /\ place[Caller] \in Running \cup {"free", "sync", "ran", "waits", "woken", "exits", "joins", "joined"}
    /\ task \in [Threads -> Tasks \cup {NoTask}]
    /\ loader \in {"scan", "read", "queue", "sync", "syncs", "collect", "ended"}
    /\ i \in 1..(FrameCount + 1) /\ j \in Slots
    /\ state \in [Slots -> {"InProgress", "Available", "DataReady"}]
    /\ fi \in [Slots -> Frames \cup {None}] /\ buf \in [Slots -> Frames \cup {None}]
    /\ outbuf \in [Slots -> Frames \cup {None}] /\ ptr \in [Frames -> Frames \cup {None}]

(* Slots are used again while workers are still packing others, the newest *)
(* task first, yet an image never gets another image's data, and when the  *)
(* loading has ended each has its own.                                     *)
ImagesTrue ==
    /\ \A f \in Frames : ptr[f] \in {None, f}
    /\ loader = "ended" => \A f \in Frames : ptr[f] = f

(* Sync returns only when every task queued has been run: the pool is a    *)
(* ForkJoin, whatever wakes whom, when tasks end in any order.             *)
Unfinished ==
    Range(m_queue) \cup {task[t] : t \in {u \in Threads : place[u] \in Running}}
AbstractForkJoin ==
    INSTANCE ForkJoin WITH
        pending <- Unfinished,
        syncing <- loader = "syncs" /\ place[Caller] # "free"
ImplementsForkJoin == AbstractForkJoin!Spec

(* No wake-up is lost: Sync returns, the workers leave and are joined.     *)
LoadEnds == <>(loader = "ended")
=============================================================================
