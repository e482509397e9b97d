---------------------------- MODULE TaskDispatch ----------------------------
(***************************************************************************)
(* src/tracy/server/TracyTaskDispatch.cpp: the viewer's thread pool.  The  *)
(* tasks are in a vector under m_queueLock, so the newest is run first;    *)
(* workers wait on m_cvWork, the caller in Sync helps with the queue and   *)
(* then waits on m_cvJobs.  What a thread does while it holds the lock is  *)
(* one step.  A waiting thread may wake without being notified.            *)
(***************************************************************************)
EXTENDS Integers, Sequences, FiniteSets, SequencesExt

CONSTANTS
    Workers,    \* the threads of the pool
    Caller,     \* the thread that owns the TaskDispatch
    NoTask

ASSUME PoolAssumption == IsFiniteSet(Workers) /\ Workers # {} /\ Caller \notin Workers

VARIABLES
    m_queue,
    m_jobs,     \* tasks that workers are running
    m_exit,
    place,      \* of each thread: where it is
    task        \* of each thread: the task it runs

pool == <<m_queue, m_jobs, m_exit, place, task>>
Threads == Workers \cup {Caller}

PoolInit ==
    /\ m_queue = <<>> /\ m_jobs = 0 /\ m_exit = FALSE
    /\ place = [t \in Threads |-> IF t = Caller THEN "free" ELSE "enter"]
    /\ task = [t \in Threads |-> NoTask]

Goto(t, p) == place' = [place EXCEPT ![t] = p]
Waiting == {w \in Workers : place[w] = "waits"}

(* The task at the back is taken to be run.                                *)
Take(t) ==
    /\ m_queue' = Front(m_queue)
    /\ task' = [task EXCEPT ![t] = Last(m_queue)]
    /\ Goto(t, "runs")

-----------------------------------------------------------------------------
(* The caller.  Queue wakes one waiting worker, if there is one.           *)
Queue(f) ==
    /\ place[Caller] = "free" /\ ~m_exit
    /\ m_queue' = Append(m_queue, f)
    /\ IF Waiting = {} THEN UNCHANGED place ELSE \E w \in Waiting : Goto(w, "enter")
    /\ UNCHANGED <<m_jobs, m_exit, task>>

Sync ==
    /\ place[Caller] = "free"
    /\ Goto(Caller, "sync")
    /\ UNCHANGED <<m_queue, m_jobs, m_exit, task>>

(* Mutant: Sync waits for the queue and not for the workers.               *)
QueueIsDone == TRUE
JobsAreDone == m_jobs = 0

(* Sync takes tasks until there are none, then waits for the workers'.     *)
SyncTurn ==
    /\ place[Caller] = "sync"
    /\ IF m_queue # <<>>
         THEN Take(Caller)
         ELSE /\ Goto(Caller, IF JobsAreDone THEN "free" ELSE "waits")
              /\ UNCHANGED <<m_queue, task>>
    /\ UNCHANGED <<m_jobs, m_exit>>

SyncTaskEnds ==
    /\ place[Caller] = "ran"
    /\ Goto(Caller, "sync")
    /\ task' = [task EXCEPT ![Caller] = NoTask]
    /\ UNCHANGED <<m_queue, m_jobs, m_exit>>

SyncWakes ==
    /\ place[Caller] = "woken"
    /\ Goto(Caller, IF JobsAreDone THEN "free" ELSE "waits")
    /\ UNCHANGED <<m_queue, m_jobs, m_exit, task>>

(* ~TaskDispatch: m_exit is set before the lock is taken to notify.        *)
ExitStore ==
    /\ place[Caller] = "free"
    /\ m_exit' = TRUE
    /\ Goto(Caller, "exits")
    /\ UNCHANGED <<m_queue, m_jobs, task>>

(* Mutant: one worker is woken.                                            *)
WokenOne == IF Waiting = {} THEN {} ELSE {CHOOSE w \in Waiting : TRUE}
Woken == Waiting

ExitNotify ==
    /\ place[Caller] = "exits"
    /\ place' = [t \in Threads |-> IF t \in Woken THEN "enter"
                                   ELSE IF t = Caller THEN "joins" ELSE place[t]]
    /\ UNCHANGED <<m_queue, m_jobs, m_exit, task>>

Join ==
    /\ place[Caller] = "joins" /\ \A w \in Workers : place[w] = "gone"
    /\ Goto(Caller, "joined")
    /\ UNCHANGED <<m_queue, m_jobs, m_exit, task>>

-----------------------------------------------------------------------------
(* Worker.                                                                 *)
(* Mutant: a task that is taken is not counted.                            *)
NotCounted == m_jobs
Counted == m_jobs + 1

WorkerTurn(w) ==
    /\ place[w] = "enter"
    /\ IF m_exit \/ m_queue = <<>>
         THEN /\ Goto(w, IF m_exit THEN "gone" ELSE "waits")
              /\ UNCHANGED <<m_queue, m_jobs, task>>
         ELSE Take(w) /\ m_jobs' = Counted
    /\ UNCHANGED m_exit

(* The last of the running tasks wakes the caller, if none is queued.      *)
WorkerTaskEnds(w) ==
    /\ place[w] = "ran"
    /\ m_jobs' = m_jobs - 1
    /\ task' = [task EXCEPT ![w] = NoTask]
    /\ place' = [place EXCEPT ![w] = "enter",
                              ![Caller] = IF m_jobs = 1 /\ m_queue = <<>> /\ @ = "waits"
                                            THEN "woken" ELSE @]
    /\ UNCHANGED <<m_queue, m_exit>>

(* A spurious wake-up.                                                     *)
Wake(t) ==
    /\ place[t] = "waits"
    /\ Goto(t, IF t = Caller THEN "woken" ELSE "enter")
    /\ UNCHANGED <<m_queue, m_jobs, m_exit, task>>
=============================================================================
