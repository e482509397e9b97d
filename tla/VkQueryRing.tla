---------------------------- MODULE VkQueryRing ----------------------------
(***************************************************************************)
(* src/tracy/public/tracy/TracyVulkan.hpp: the ring of timestamp queries   *)
(* of a VkCtx.  Threads open and close GPU zones (VkCtxScope), which hand  *)
(* out queries and record timestamp writes into their command buffers; the *)
(* GPU executes what is submitted; one thread collects.  The events that   *)
(* QueueSerial publishes are applied at once to the server's timeline:     *)
(* the queue is first in, first out, and nobody else reads the timeline.   *)
(* `hostReset` says which constructor made the context: with it, queries   *)
(* are reset by vkResetQueryPool and not by a recorded command.            *)
(***************************************************************************)
EXTENDS GpuTimeline, FiniteSets

CONSTANTS
    QueryCount,     \* of VkCtx: 64 * 1024 there
    Threads,        \* that record zones
    Collector,      \* the thread that calls Collect
    MaxZones,       \* zones opened in a behaviour: a bound
    MaxDepth        \* zones one thread has open: a bound

ASSUME RingAssumption ==
    /\ QueryCount \in Nat /\ QueryCount > 1
    /\ Collector \in Threads
    /\ MaxZones \in Nat /\ MaxDepth \in Nat

VARIABLES
    hostReset, m_queryCount,        \* fixed by the constructor
    m_head, m_tail, m_oldCnt,
    m_res,          \* the results Collect asked for, [stamp, avail], or <<>>
    idx,            \* the results of m_res it has reported
    collecting,     \* where Collect is: "no", "results" or "report"
    scopes,         \* ghost: the scopes opened so far, with their query numbers
    open,           \* of each thread: its open scopes, outermost first
    sending,        \* of each thread: "no", or the event its scope is about to queue
    cmdbuf,         \* of each thread: the commands it has recorded
    queue,          \* the commands submitted and not executed
    pool,           \* the query pool: the stamp of each query, or NotReady
    stamps,         \* ghost: what the GPU wrote for each query handed out
    m_refTimeGpu,   \* the last time DequeueSerial sent
    server,         \* the server's GpuCtxData
    reported        \* ghost: the times sent, in order

fixed == <<hostReset, m_queryCount>>
ring  == <<m_head, m_tail, m_oldCnt>>
col   == <<m_res, idx, collecting>>
app   == <<scopes, open, sending>>
gpu   == <<queue, pool>>
wire  == <<m_refTimeGpu, server, reported>>
vars  == <<fixed, ring, col, app, cmdbuf, gpu, stamps, wire>>

NotReady == 0
QueryIds == 0 .. m_queryCount - 1
WriteOf(q, n) == [op |-> "write", first |-> q, cnt |-> 1, number |-> n]
ResetOf(q, n) == [op |-> "reset", first |-> q, cnt |-> n, number |-> 0]

(* CreateQueryPool halves m_queryCount until the driver accepts it; both   *)
(* constructors leave every query reset.                                   *)
Init ==
    /\ hostReset \in BOOLEAN
    /\ m_queryCount \in {QueryCount, QueryCount \div 2}
    /\ m_head = 0 /\ m_tail = 0 /\ m_oldCnt = 0
    /\ m_res = <<>> /\ idx = 0 /\ collecting = "no"
    /\ scopes = <<>>
    /\ open = [t \in Threads |-> <<>>]
    /\ sending = [t \in Threads |-> "no"]
    /\ cmdbuf = [t \in Threads |-> <<>>]
    /\ queue = <<>>
    /\ pool = [q \in QueryIds |-> NotReady]
    /\ stamps = <<>>
    /\ m_refTimeGpu = 0
    /\ server = NewContext(Threads, QueryIds)
    /\ reported = <<>>

-----------------------------------------------------------------------------
(* VkCtxScope.                                                             *)

NextQueryId == m_head % m_queryCount

(* The code hands out queries without asking whether the ring has room     *)
(* (hazard at line 341).  The callers are assumed to open a zone only when *)
(* its two queries, and those that the open zones still need, have been    *)
(* collected and reset: with 65536 queries a collect every frame does it.  *)
Paced ==
    LET needed == 2 + Cardinality({i \in DOMAIN scopes : scopes[i].endQuery = 0})
        slots  == m_head .. m_head + needed - 1
    IN  /\ m_head + needed <= m_tail + m_queryCount
        /\ \A n \in slots : pool[n % m_queryCount] = NotReady

HandOut(t) ==
    /\ cmdbuf' = [cmdbuf EXCEPT ![t] = Append(@, WriteOf(NextQueryId, m_head + 1))]
    /\ m_head' = m_head + 1
    /\ stamps' = Append(stamps, NotReady)
    /\ UNCHANGED <<m_tail, m_oldCnt>>

(* The constructor takes a query and records the timestamp ...             *)
OpenScope(t) ==
    /\ sending[t] = "no" /\ Len(open[t]) < MaxDepth /\ Len(scopes) < MaxZones
    /\ t = Collector => collecting = "no"
    /\ Paced
    /\ HandOut(t)
    /\ scopes' = Append(scopes, [thread |-> t, beginQuery |-> m_head + 1, endQuery |-> 0,
                                 parent |-> IF open[t] = <<>> THEN None ELSE Last(open[t])])
    /\ open' = [open EXCEPT ![t] = Append(@, Len(scopes) + 1)]
    /\ sending' = [sending EXCEPT ![t] = "begin"]
    /\ UNCHANGED <<fixed, col, gpu, wire>>

(* ... then queues the event, under the lock of the serial queue.          *)
SendBegin(t) ==
    LET scope == Last(open[t])
    IN  /\ sending[t] = "begin"
        /\ server' = ProcessGpuZoneBegin(server,
                        [thread |-> t, of |-> scope,
                         queryId |-> (scopes[scope].beginQuery - 1) % m_queryCount])
        /\ sending' = [sending EXCEPT ![t] = "no"]
        /\ UNCHANGED <<fixed, ring, col, scopes, open, cmdbuf, gpu, stamps, m_refTimeGpu, reported>>

CloseScope(t) ==
    /\ sending[t] = "no" /\ open[t] # <<>>
    /\ t = Collector => collecting = "no"
    /\ HandOut(t)
    /\ scopes' = [scopes EXCEPT ![Last(open[t])].endQuery = m_head + 1]
    /\ sending' = [sending EXCEPT ![t] = "end"]
    /\ UNCHANGED <<fixed, col, open, gpu, wire>>

SendEnd(t) ==
    LET scope == Last(open[t])
    IN  /\ sending[t] = "end"
        /\ server' = ProcessGpuZoneEnd(server,
                        [thread |-> t, queryId |-> (scopes[scope].endQuery - 1) % m_queryCount])
        /\ open' = [open EXCEPT ![t] = Front(@)]
        /\ sending' = [sending EXCEPT ![t] = "no"]
        /\ UNCHANGED <<fixed, ring, col, scopes, cmdbuf, gpu, stamps, m_refTimeGpu, reported>>

(* A command buffer is ended and submitted outside of any scope on it.     *)
Submit(t) ==
    /\ cmdbuf[t] # <<>> /\ open[t] = <<>> /\ sending[t] = "no"
    /\ t = Collector => collecting = "no"
    /\ queue' = queue \o cmdbuf[t]
    /\ cmdbuf' = [cmdbuf EXCEPT ![t] = <<>>]
    /\ UNCHANGED <<fixed, ring, col, app, pool, stamps, wire>>

-----------------------------------------------------------------------------
(* The GPU executes timestamp writes and resets in the order submitted;    *)
(* its clock is the number of timestamps written so far.                   *)
Clock == Cardinality({i \in DOMAIN stamps : stamps[i] # NotReady})

GpuExecute ==
    LET cmd == Head(queue)
    IN  /\ queue # <<>>
        /\ queue' = Tail(queue)
        /\ IF cmd.op = "write"
             THEN /\ pool' = [pool EXCEPT ![cmd.first] = Clock + 1]
                  /\ stamps' = [stamps EXCEPT ![cmd.number] = Clock + 1]
             ELSE /\ pool' = [q \in QueryIds |->
                                IF q \in cmd.first .. cmd.first + cmd.cnt - 1 THEN NotReady
                                                                              ELSE pool[q]]
                  /\ UNCHANGED stamps
        /\ UNCHANGED <<fixed, ring, col, app, cmdbuf, wire>>

-----------------------------------------------------------------------------
(* Collect.                                                                *)
WrappedTail == m_tail % m_queryCount

(* How many queries it asks for: the rest of the last batch, or all that   *)
(* were handed out, up to the end of the pool.                             *)
(* Mutant: the end of the pool is not considered.                          *)
BatchUnclipped == IF m_oldCnt # 0 THEN m_oldCnt ELSE m_head - m_tail
(* Mutant: the batch stops one query short of what was handed out.         *)
BatchShort ==
    IF m_oldCnt # 0 THEN m_oldCnt
    ELSE LET cnt == m_head - m_tail - 1
         IN  IF WrappedTail + cnt > m_queryCount THEN m_queryCount - WrappedTail ELSE cnt
Batch ==
    IF m_oldCnt # 0 THEN m_oldCnt
    ELSE LET cnt == m_head - m_tail
         IN  IF WrappedTail + cnt > m_queryCount THEN m_queryCount - WrappedTail ELSE cnt

(* m_head is read, and nothing is done when there is nothing to collect.   *)
(* The batch is kept in m_res, still without results.                      *)
CollectBegin ==
    /\ collecting = "no" /\ sending[Collector] = "no"
    /\ IF m_tail = m_head THEN UNCHANGED vars
       ELSE /\ collecting' = "results"
            /\ m_res' = [i \in 1 .. Batch |-> NotReady]
            /\ m_oldCnt' = 0
            /\ UNCHANGED <<fixed, m_head, m_tail, idx, app, cmdbuf, gpu, stamps, wire>>

(* vkGetQueryPoolResults with availability: two words for each query.      *)
CollectResults ==
    /\ collecting = "results"
    /\ m_res' = [i \in DOMAIN m_res |-> pool[(WrappedTail + i - 1) % m_queryCount]]
    /\ collecting' = "report"
    /\ UNCHANGED <<fixed, ring, idx, app, cmdbuf, gpu, stamps, wire>>

(* The loop over the results ends at the first that is not available.      *)
(* Mutant: the availability of the first result is taken for all.          *)
HasResultLikeFirst == idx < Len(m_res) /\ m_res[1] # NotReady
HasResult == idx < Len(m_res) /\ m_res[idx + 1] # NotReady

(* The GpuTime event of a result, as DequeueSerial sends it.               *)
(* Mutant: the query id is counted from the start of the pool.             *)
GpuTimeFromZero == [queryId |-> idx, delta |-> m_res[idx + 1] - m_refTimeGpu]
GpuTime == [queryId |-> WrappedTail + idx, delta |-> m_res[idx + 1] - m_refTimeGpu]

(* One turn of the loop, under the lock of the serial queue: the events of *)
(* other threads' zones may come between the times of a batch.             *)
CollectReport ==
    /\ collecting = "report" /\ HasResult
    /\ server' = ProcessGpuTime(server, GpuTime)
    /\ m_refTimeGpu' = m_res[idx + 1]
    /\ reported' = Append(reported, m_res[idx + 1])
    /\ idx' = idx + 1
    /\ UNCHANGED <<fixed, ring, m_res, collecting, app, cmdbuf, gpu, stamps>>

ResetCollected == ResetOf(WrappedTail, idx)

(* The reported queries are reset, the tail moved.  A recorded reset of no *)
(* queries is left out: it does nothing.                                   *)
CollectEnd ==
    LET reset == ResetCollected
    IN  /\ collecting = "report" /\ ~HasResult
        /\ m_oldCnt' = Len(m_res) - idx
        /\ IF hostReset
             THEN /\ pool' = [q \in QueryIds |->
                                IF q \in reset.first .. reset.first + reset.cnt - 1 THEN NotReady
                                                                                    ELSE pool[q]]
                  /\ UNCHANGED cmdbuf
             ELSE /\ cmdbuf' = IF idx = 0 THEN cmdbuf
                               ELSE [cmdbuf EXCEPT ![Collector] = Append(@, reset)]
                  /\ UNCHANGED pool
        /\ m_tail' = m_tail + idx
        /\ m_res' = <<>> /\ idx' = 0 /\ collecting' = "no"
        /\ UNCHANGED <<fixed, m_head, app, queue, stamps, wire>>

Collect == CollectBegin \/ CollectResults \/ CollectReport \/ CollectEnd

-----------------------------------------------------------------------------
Scope(t) == OpenScope(t) \/ SendBegin(t) \/ CloseScope(t) \/ SendEnd(t)

Next ==
    \/ \E t \in Threads : Scope(t) \/ Submit(t)
    \/ GpuExecute
    \/ Collect

Spec == Init /\ [][Next]_vars

(* Scopes end, what is recorded is submitted, the GPU runs, and Collect is *)
(* called again and again (tracy/manual/tracy.md:1425 requires it).  The   *)
(* collector's scopes and submissions come between two collects, hence SF. *)
Fairness ==
    /\ \A t \in Threads : /\ SF_vars(SendBegin(t) \/ CloseScope(t) \/ SendEnd(t))
                           /\ SF_vars(Submit(t))
    /\ WF_vars(GpuExecute)
    /\ WF_vars(Collect)
FairSpec == Spec /\ Fairness

-----------------------------------------------------------------------------
(* Types.  A collected batch lies within the pool.                         *)
TypeOK ==
    /\ m_head = Len(stamps) /\ m_tail \in 0 .. m_head
    /\ m_head <= m_tail + m_queryCount
    /\ m_oldCnt \in 0 .. m_queryCount - WrappedTail
    /\ Len(m_res) <= m_queryCount - WrappedTail
    /\ \A q \in QueryIds : pool[q] \in Nat
    /\ collecting \in {"no", "results", "report"}
    /\ idx \in 0 .. Len(m_res) /\ Len(reported) = m_tail + idx

(* The server never runs into an assertion: when a zone's begin or end     *)
(* arrives its query times no other zone, and every time that arrives is   *)
(* of a query that some zone waits for (TracyWorker.cpp:5834, 5901, 5963). *)
ServerAccepts == ~server.fault

(* What the viewer draws is what happened: a zone lies in the zone that    *)
(* encloses it in the source, its start is the time at which the GPU came  *)
(* to the zone's begin and its end the time of its end, in every ring      *)
(* size, batch, wrap-around and order of arrival.                          *)
TimelineIsReal ==
    \A i \in DOMAIN server.zones :
        LET zone  == server.zones[i]
            scope == scopes[zone.of]
        IN  /\ zone.start # Untimed => zone.start = stamps[scope.beginQuery]
            /\ zone.end # Untimed => scope.endQuery # 0 /\ zone.end = stamps[scope.endQuery]
            /\ IF scope.parent = None THEN zone.parent = None
               ELSE server.zones[zone.parent].of = scope.parent

(* Every zone that was opened gets both its times, whatever was            *)
(* unavailable when its batch was first asked for (m_oldCnt, line 275).    *)
EveryZoneTimed ==
    \A z \in 1 .. MaxZones :
        z \in DOMAIN scopes ~> \E i \in DOMAIN server.zones :
                                    /\ server.zones[i].of = z
                                    /\ server.zones[i].end # Untimed

(* The abstract queue of timestamps.                                       *)
Timestamps == INSTANCE TimestampQueue WITH Pending <- NotReady

(* Each timestamp is reported exactly once, in the order of the queries,   *)
(* with the value the GPU wrote for it: the ring is a queue.               *)
ImplementsTimestampQueue == Timestamps!Spec

(* The comment of the other constructor, "We need the buffer to be twice   *)
(* as large for availability values" (line 220): the results of a batch    *)
(* fit in m_res.                                                           *)
Allocated == IF hostReset THEN 2 * m_queryCount ELSE m_queryCount
ResultsFit == collecting = "report" => 2 * Len(m_res) <= Allocated
=============================================================================
