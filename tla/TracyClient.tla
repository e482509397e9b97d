---------------------------- MODULE TracyClient ----------------------------
(***************************************************************************)
(* src/tracy/public/client/TracyProfiler.cpp: the client's threads.  The   *)
(* program's main thread queues events and ends in ShutdownProfiler, which *)
(* joins the others; Worker accepts one server, sends it the events and    *)
(* answers its questions; SymbolWorker resolves call stacks.               *)
(* Left out: the broadcast, system tracing, keep-alive messages (a server  *)
(* takes no notice of them), frame images, and that a pass of Dequeue may  *)
(* take several events of a producer before the server's packets are read. *)
(***************************************************************************)
EXTENDS TracyLink

CONSTANTS
    Scripts,    \* the events of the program's main thread: sequences of Msg
    m_noExit    \* TRACY_NO_EXIT is set: the program waits for a viewer

(* QueueType, of it the events that the main thread's zones cause.         *)
EventKinds == {"begin", "end", "callstack"}

ASSUME ScriptsAssumption == \A s \in Scripts : s \in Seq([kind : EventKinds, ref : Refs \cup {"none"}])

VARIABLES
    script,         \* the events main will queue
    main,           \* "runs", "joins" or "ended"
    made,           \* events main has queued
    queue,          \* of each producer: its part of the lock-free queue
    m_shutdown,
    worker,         \* where Worker is
    symbolsGone,    \* s_symbolThreadGone
    m_symbolQueue,  \* the call stack addresses to resolve
    buffer,         \* m_buffer from m_bufferStart to m_bufferOffset
    m_threadCtx     \* the producer the server was last told of

program == <<script, main, made, m_shutdown>>
client  == <<program, queue, worker, symbolsGone, m_symbolQueue, buffer, m_threadCtx>>

Producers == {"main", "symbols", "worker"}
ASSUME ProducersAssumption == Producers \subseteq Refs /\ m_noExit \in BOOLEAN

ClientInit ==
    /\ script \in Scripts
    /\ main = "runs" /\ made = 0
    /\ queue = [p \in Producers |-> <<>>]
    /\ m_shutdown = FALSE
    /\ worker = "accept" /\ symbolsGone = FALSE
    /\ m_symbolQueue = <<>>
    /\ buffer = <<>> /\ m_threadCtx = "none"

QueuesEmpty == \A p \in Producers : queue[p] = <<>>

-----------------------------------------------------------------------------
(* Main: events, then ShutdownProfiler, which is ~Profiler: it joins the   *)
(* two threads and destroys the socket, if there is one.                   *)
QueueEvent ==
    /\ main = "runs" /\ made < Len(script)
    /\ queue' = [queue EXCEPT !["main"] = Append(@, script[made + 1])]
    /\ made' = made + 1
    /\ UNCHANGED <<script, main, m_shutdown, worker, symbolsGone, m_symbolQueue, buffer, m_threadCtx>>
    /\ UNCHANGED link

ShutdownProfiler ==
    /\ main = "runs" /\ made = Len(script)
    /\ m_shutdown' = TRUE
    /\ main' = "joins"
    /\ UNCHANGED <<script, made, queue, worker, symbolsGone, m_symbolQueue, buffer, m_threadCtx>>
    /\ UNCHANGED link

JoinThreads ==
    /\ main = "joins" /\ symbolsGone /\ worker = "gone"
    /\ main' = "ended"
    /\ clientEnd' = IF clientEnd = "open" THEN "closed" ELSE clientEnd
    /\ UNCHANGED <<script, made, m_shutdown, queue, worker, symbolsGone, m_symbolQueue, buffer,
                   m_threadCtx, serverEnd, lost, reply, down, up>>

-----------------------------------------------------------------------------
(* HandleSymbolQueueItem, run by SymbolWorker and, when that has gone, by  *)
(* Worker: the answer is queued like an event of the thread that runs it.  *)
Resolve(producer) ==
    /\ m_symbolQueue # <<>>
    /\ queue' = [queue EXCEPT ![producer] = Append(@, Head(m_symbolQueue))]
    /\ m_symbolQueue' = Tail(m_symbolQueue)

SymbolWorker ==
    /\ ~symbolsGone
    /\ IF m_symbolQueue # <<>>
         THEN Resolve("symbols") /\ UNCHANGED symbolsGone
         ELSE m_shutdown /\ symbolsGone' = TRUE /\ UNCHANGED <<queue, m_symbolQueue>>
    /\ UNCHANGED <<program, worker, buffer, m_threadCtx>>
    /\ UNCHANGED link

-----------------------------------------------------------------------------
(* Worker.  A send succeeds while the server is there and the connection   *)
(* has room; without room it blocks, without a server it fails.            *)
Goto(place) == worker' = place
CanSend == ClientSees /\ Len(down) < LinkFrames
SendFails == ~ClientSees

(* AppendData, for the one or two items of a step: what does not fit makes *)
(* the buffer be sent first.                                               *)
Overflows(items) == Len(buffer) + Len(items) > FrameSize
AppendData(items) ==
    LET fit == FrameSize - Len(buffer)
    IN  /\ IF ~Overflows(items)
             THEN buffer' = buffer \o items /\ UNCHANGED down
             ELSE /\ CanSend \/ SendFails
                  /\ buffer' = SubSeq(items, fit + 1, Len(items))
                  /\ down' = IF CanSend THEN Append(down, buffer \o SubSeq(items, 1, fit)) ELSE down
        /\ UNCHANGED <<clientEnd, serverEnd, lost, reply>>

(* CommitData.                                                             *)
Commit ==
    /\ CanSend \/ SendFails
    /\ buffer' = <<>>
    /\ down' = IF CanSend THEN Append(down, buffer) ELSE down
    /\ UNCHANGED <<clientEnd, serverEnd, lost, reply, up>>

(* Dequeue: an item of some producer, after a ThreadContext if the server  *)
(* was told of another producer (ThreadCtxCheck).                          *)
ThreadCtxCheck(p) == IF m_threadCtx = p THEN <<>> ELSE <<Msg("context", p)>>
NextItems(p) == Append(ThreadCtxCheck(p), Head(queue[p]))

Dequeue(p, next, failed) ==
    /\ queue[p] # <<>>
    /\ AppendData(NextItems(p))
    /\ queue' = [queue EXCEPT ![p] = Tail(@)]
    /\ m_threadCtx' = p
    /\ Goto(IF SendFails /\ Overflows(NextItems(p)) THEN failed ELSE next)
    /\ UNCHANGED up

(* HandleServerQuery: call stack frames and symbols are for SymbolWorker to*)
(* resolve, all else is answered at once.  Terminate ends the caller, as   *)
(* does a connection on which nothing more can be read (HasData).  Main is *)
(* the only thread asked about, and has no group hint to send with its name*)
ForSymbolWorker == {"frame", "symbol"}
HasQuery == up # <<>> /\ Head(up) # Terminate
EndOfConnection == IF up = <<>> THEN ~ClientSees ELSE Head(up) = Terminate

HandleServerQuery ==
    /\ HasQuery
    /\ up' = Tail(up)
    /\ IF Head(up).kind \in ForSymbolWorker
         THEN /\ m_symbolQueue' = Append(m_symbolQueue, Head(up))
              /\ UNCHANGED <<buffer, down, clientEnd, serverEnd, lost, reply>>
         ELSE /\ AppendData(<<Head(up)>>)
              /\ UNCHANGED m_symbolQueue
    /\ UNCHANGED <<program, queue, worker, symbolsGone, m_threadCtx>>

-----------------------------------------------------------------------------
(* The connections loop.  Leaving it destroys the listening socket, and    *)
(* with it a connection that was not accepted.                             *)
StopListening == clientEnd' = IF clientEnd = "none" THEN "closed" ELSE clientEnd

AcceptExits ==
    /\ worker = "accept" /\ m_shutdown /\ ~m_noExit
    /\ Goto("gone")
    /\ UNCHANGED <<program, queue, symbolsGone, m_symbolQueue, buffer, m_threadCtx>>
    /\ StopListening
    /\ UNCHANGED <<serverEnd, lost, reply, down, up>>

(* Listen, handshake: the server sends its version right after connecting. *)
(* An old version is told so and dropped, one not read in time is dropped; *)
(* a server that has left meanwhile may still have sent the right one.     *)
Accept(version) ==
    /\ worker = "accept" /\ (~m_shutdown \/ m_noExit) /\ serverEnd # "none" /\ clientEnd = "none"
    /\ CASE version = "same"   -> reply' = "welcome" /\ clientEnd' = "open" /\ Goto("main")
         [] version = "other"  -> reply' = "mismatch" /\ clientEnd' = "closed" /\ Goto("accept")
         [] version = "unread" -> UNCHANGED reply /\ clientEnd' = "closed" /\ Goto("accept")
    /\ m_threadCtx' = IF version = "same" THEN "none" ELSE m_threadCtx
    /\ UNCHANGED <<program, queue, symbolsGone, m_symbolQueue, buffer, serverEnd, lost, down, up>>

(* One pass of the main loop: an item, or what is in the buffer; then the  *)
(* server's packets, one a step, and the two ways out.                     *)
MainDequeue ==
    /\ worker = "main"
    /\ \/ \E p \in Producers : Dequeue(p, "mainQueries", "lost")
       \/ /\ QueuesEmpty /\ buffer # <<>> /\ Commit
          /\ Goto(IF SendFails THEN "lost" ELSE "mainQueries")
          /\ UNCHANGED <<queue, m_threadCtx>>
       \/ /\ QueuesEmpty /\ buffer = <<>> /\ (up # <<>> \/ ~ClientSees \/ m_shutdown)
          /\ Goto("mainQueries")
          /\ UNCHANGED <<queue, m_threadCtx, buffer, link>>
    /\ UNCHANGED <<program, symbolsGone, m_symbolQueue>>

MainQueries == worker = "mainQueries" /\ HandleServerQuery

MainLeaves ==
    /\ \/ worker = "lost"
       \/ worker = "mainQueries" /\ ~HasQuery
    /\ Goto(IF m_shutdown THEN "symbols"
            ELSE IF worker = "lost" \/ EndOfConnection THEN "reject" ELSE "main")
    /\ clientEnd' = IF worker' = "reject" THEN "closed" ELSE clientEnd
    /\ UNCHANGED <<program, queue, symbolsGone, m_symbolQueue, buffer, m_threadCtx, serverEnd, lost,
                   reply, down, up>>

(* Without a server, events are dropped (ClearQueues) and newcomers told   *)
(* NotAvailable.                                                           *)
RejectClear ==
    /\ worker = "reject" /\ ~m_shutdown /\ ~QueuesEmpty
    /\ queue' = [p \in Producers |-> <<>>]
    /\ UNCHANGED <<program, worker, symbolsGone, m_symbolQueue, buffer, m_threadCtx>>
    /\ UNCHANGED link

Reject ==
    /\ worker = "reject" /\ ~m_shutdown /\ serverEnd # "none" /\ clientEnd = "none"
    /\ reply' \in {reply, "notAvailable"} /\ clientEnd' = "closed"
    /\ UNCHANGED <<program, queue, worker, symbolsGone, m_symbolQueue, buffer, m_threadCtx,
                   serverEnd, lost, down, up>>

RejectExits ==
    /\ worker = "reject" /\ m_shutdown
    /\ Goto("gone")
    /\ UNCHANGED <<program, queue, symbolsGone, m_symbolQueue, buffer, m_threadCtx>>
    /\ StopListening
    /\ UNCHANGED <<serverEnd, lost, reply, down, up>>

-----------------------------------------------------------------------------
(* After the loop: wait for SymbolWorker, then send what is queued.        *)
AwaitSymbols ==
    /\ worker = "symbols" /\ symbolsGone
    /\ Goto("drain")
    /\ UNCHANGED <<program, queue, symbolsGone, m_symbolQueue, buffer, m_threadCtx>>
    /\ UNCHANGED link

DrainDequeue ==
    /\ worker = "drain"
    /\ \/ \E p \in Producers : Dequeue(p, "drainQueries", "gone")
       \/ /\ QueuesEmpty
          /\ IF buffer # <<>> THEN Commit ELSE UNCHANGED <<buffer, link>>
          /\ Goto("terminate")
          /\ UNCHANGED <<queue, m_threadCtx>>
    /\ UNCHANGED <<program, symbolsGone, m_symbolQueue>>

DrainQueries == worker = "drainQueries" /\ HandleServerQuery

DrainSymbols ==
    /\ worker = "drainSymbols" \/ (worker = "drainQueries" /\ ~HasQuery)
    /\ IF worker = "drainQueries" /\ EndOfConnection
         THEN Goto("gone") /\ UNCHANGED <<queue, m_symbolQueue>>
         ELSE IF m_symbolQueue = <<>> THEN Goto("drain") /\ UNCHANGED <<queue, m_symbolQueue>>
         ELSE Resolve("worker") /\ Goto("drainSymbols")
    /\ UNCHANGED <<program, symbolsGone, buffer, m_threadCtx>>
    /\ UNCHANGED link

SendTerminate ==
    /\ worker = "terminate"
    /\ CanSend \/ SendFails
    /\ down' = IF CanSend THEN Append(down, <<Terminate>>) ELSE down
    /\ Goto(IF CanSend THEN "final" ELSE "gone")
    /\ UNCHANGED <<program, queue, symbolsGone, m_symbolQueue, buffer, m_threadCtx, clientEnd,
                   serverEnd, lost, reply, up>>

(* The last loop answers until the server has had enough.                  *)
FinalQueries == worker = "final" /\ HandleServerQuery

FinalExits ==
    /\ worker = "final" /\ EndOfConnection
    /\ Goto("gone")
    /\ UNCHANGED <<program, queue, symbolsGone, m_symbolQueue, buffer, m_threadCtx>>
    /\ UNCHANGED link

FinalPass ==
    /\ worker = "final" /\ up = <<>> /\ ClientSees
    /\ m_symbolQueue # <<>> \/ ~QueuesEmpty \/ buffer # <<>>
    /\ Goto("finalSymbols")
    /\ UNCHANGED <<program, queue, symbolsGone, m_symbolQueue, buffer, m_threadCtx>>
    /\ UNCHANGED link

FinalSymbols ==
    /\ worker = "finalSymbols"
    /\ IF m_symbolQueue # <<>>
         THEN Resolve("worker") /\ UNCHANGED worker
         ELSE Goto("finalDequeue") /\ UNCHANGED <<queue, m_symbolQueue>>
    /\ UNCHANGED <<program, symbolsGone, buffer, m_threadCtx>>
    /\ UNCHANGED link

FinalDequeue ==
    /\ worker = "finalDequeue"
    /\ \/ \E p \in Producers : Dequeue(p, "finalCommit", "gone")
       \/ QueuesEmpty /\ Goto("finalCommit") /\ UNCHANGED <<queue, m_threadCtx, buffer, link>>
    /\ UNCHANGED <<program, symbolsGone, m_symbolQueue>>

FinalCommit ==
    /\ worker = "finalCommit"
    /\ IF buffer # <<>> THEN Commit ELSE UNCHANGED <<buffer, link>>
    /\ Goto(IF SendFails /\ buffer # <<>> THEN "gone" ELSE "final")
    /\ UNCHANGED <<program, queue, symbolsGone, m_symbolQueue, m_threadCtx>>

Worker ==
    \/ AcceptExits \/ \E version \in {"same", "other", "unread"} : Accept(version)
    \/ MainDequeue \/ MainQueries \/ MainLeaves
    \/ RejectClear \/ Reject \/ RejectExits
    \/ AwaitSymbols
    \/ DrainDequeue \/ DrainQueries \/ DrainSymbols \/ SendTerminate
    \/ FinalQueries \/ FinalExits \/ FinalPass \/ FinalSymbols \/ FinalDequeue \/ FinalCommit

Main == QueueEvent \/ ShutdownProfiler \/ JoinThreads
ClientStep == Main \/ SymbolWorker \/ Worker
=============================================================================
