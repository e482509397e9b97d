---------------------------- MODULE TracySession ----------------------------
(***************************************************************************)
(* The profiled program and a viewer: TracyClient and TracyServer over the *)
(* connection of TracyLink, while the user may close the viewer, open it   *)
(* again, and the connection may be lost.                                  *)
(***************************************************************************)
EXTENDS TracyClient, TracyServer

ASSUME ThreadsAssumption == Producers \subseteq Threads

vars == <<link, client, server>>

Init == LinkInit /\ ClientInit /\ ServerInit

(* Another viewer, as often as one likes: a new Worker, a new connection.  *)
OpenViewer ==
    /\ exec = "closed" /\ net = "closed"
    /\ worker \in {"accept", "reject"} /\ clientEnd = "closed"
    /\ ServerReset
    /\ clientEnd' = "none" /\ serverEnd' = "none" /\ lost' = FALSE
    /\ reply' = "none" /\ down' = <<>> /\ up' = <<>>
    /\ UNCHANGED client

ServerStep == (Exec \/ Network) /\ UNCHANGED client
Disturb ==
    /\ CloseViewer \/ (LoseConnection /\ UNCHANGED server)
    /\ UNCHANGED client

(* The program has ended and no viewer is connected: nothing is left to do.*)
Stopped ==
    /\ main = "ended" /\ exec \in {"closed", "connect"}
    /\ UNCHANGED vars

Next ==
    \/ ClientStep /\ UNCHANGED server
    \/ ServerStep
    \/ Disturb
    \/ OpenViewer
    \/ Stopped

Spec == Init /\ [][Next]_vars

(* All threads of the client run.  Of the server's two it is enough that   *)
(* one does when one can: neither can take the other's turn for ever.      *)
(* Nothing makes the user close the viewer, or open one.                   *)
Fairness ==
    /\ WF_vars(Main /\ UNCHANGED server)
    /\ WF_vars(SymbolWorker /\ UNCHANGED server)
    /\ WF_vars(Worker /\ UNCHANGED server)
    /\ WF_vars(ServerStep)
FairSpec == Spec /\ Fairness

-----------------------------------------------------------------------------
Messages ==
    [kind : EventKinds \cup QueryKinds \cup {"context", "terminate"}, ref : Refs \cup {"none"}]
IsFrame(f) == f \in Seq(Messages) /\ Len(f) <= FrameSize

(* Every variable has its type, and no frame, in the buffer, on the way or *)
(* received, is larger than TargetFrameSize (NeedDataSize commits in time).*)
TypeOK ==
    /\ clientEnd \in {"none", "open", "closed"} /\ serverEnd \in {"none", "open", "closed"}
    /\ lost \in BOOLEAN /\ reply \in {"none", "welcome", "mismatch", "notAvailable"}
    /\ \A i \in DOMAIN down : IsFrame(down[i])
    /\ up \in Seq(Messages)
    /\ main \in {"runs", "joins", "ended"} /\ made \in 0..Len(script)
    /\ \A p \in Producers : queue[p] \in Seq(Messages)
    /\ m_shutdown \in BOOLEAN /\ symbolsGone \in BOOLEAN
    /\ worker \in {"accept", "main", "mainQueries", "lost", "reject", "symbols", "drain",
                   "drainQueries", "drainSymbols", "terminate", "final",
                   "finalSymbols", "finalDequeue", "finalCommit", "gone"}
    /\ m_symbolQueue \in Seq(Messages) /\ IsFrame(buffer)
    /\ m_threadCtx \in Producers \cup {"none"}
    /\ m_shutdownView \in BOOLEAN
    /\ exec \in {"connect", "handshake", "check", "wait", "process", "closed"}
    /\ net \in {"credit", "read", "closed"}
    /\ m_netWriteCnt \in 0..2 /\ m_bufferOffset \in 0..(2 * FrameSize)
    /\ \A i \in DOMAIN m_netRead : IsFrame(m_netRead[i].frame)
    /\ IsFrame(current.frame)
    /\ spaceLeft \in 0..QuerySpaceBase
    /\ prioQueue \in Seq(Messages) /\ lowQueue \in Seq(Messages)
    /\ answered \subseteq asked
    /\ threadCtx \in Threads \cup {"none"} /\ m_terminate \in BOOLEAN

-----------------------------------------------------------------------------
(* Where a question of the server can be.                                  *)
Unread == [i \in DOMAIN m_netRead |-> m_netRead[i].frame]
Questions(msgs) == {m \in Range(msgs) : m.kind \in QueryKinds}
InFrames(frames) == UNION {Questions(frames[i]) : i \in DOMAIN frames}
Connected == exec \in {"check", "wait", "process"}
Talking == Connected /\ clientEnd = "open" /\ ~lost /\ worker \notin {"lost", "reject", "gone"}
OnTheWay ==
    Questions(up) \cup Questions(m_symbolQueue)
    \cup (UNION {Questions(queue[p]) : p \in Producers})
    \cup Questions(buffer) \cup InFrames(down) \cup InFrames(Unread) \cup Questions(current.frame)

(* While the session lasts no question gets lost or answered twice: what   *)
(* was asked and is not answered waits in the server's queues or is on its *)
(* way, to the client, through its symbol queue and its event queues, or   *)
(* back, and each one on its way holds a unit of the query space ("Must    *)
(* increase left query space after handling!", TracyProtocol.hpp:39), so   *)
(* neither the packets nor the addresses in m_symbolQueue ever exceed it.  *)
QuerySpaceConserved ==
    Talking =>
        /\ asked \ answered = Range(prioQueue) \cup Range(lowQueue) \cup OnTheWay
        /\ spaceLeft + Cardinality(OnTheWay) = QuerySpaceBase
        /\ spaceLeft > 0 /\ exec # "process" => prioQueue = <<>> /\ lowQueue = <<>>

(* The server's sends never block, the last one for termination included:  *)
(* a server that blocked would stop granting frames to a client that does  *)
(* not read packets while it sends.                                        *)
SendsNeverBlock == Len(up) <= SendBuf

(* Network never writes outside m_buffer (three frames), nor over a frame  *)
(* that Exec has not finished: it writes [m_bufferOffset, + FrameSize).    *)
InUse ==
    {b \in Range(m_netRead) : b # EndOfStream} \cup (IF current = None THEN {} ELSE {current})
NetBuffersApart ==
    net = "read" =>
        /\ m_bufferOffset + FrameSize <= 3 * FrameSize
        /\ \A b \in InUse :
              \/ b.offset + Len(b.frame) <= m_bufferOffset
              \/ m_bufferOffset + FrameSize <= b.offset

(* What the server believes happened is what main did: its events, in      *)
(* order, in its thread, however the answers and the other producers' items*)
(* are mixed in between; and the client's notice of termination comes      *)
(* after all of them.                                                      *)
EventsInOrder ==
    /\ received = [i \in 1..Len(received) |-> [thread |-> "main", msg |-> script[i]]]
    /\ m_terminate => Len(received) = Len(script)

(* A session that Exec ends because it is complete (TracyWorker.cpp:2929)  *)
(* leaves nothing behind, whatever the answer it ends on: no question open,*)
(* nothing unsent or unread anywhere, nor in the client's symbol and event *)
(* queues, where a call stack's answer comes from.                         *)
EndsComplete ==
    [][ exec = "process" /\ exec' = "closed" =>
            /\ asked' = answered' /\ prioQueue' = <<>> /\ lowQueue' = <<>>
            /\ \A b \in Range(m_netRead') : b = EndOfStream
            /\ ~lost => QueuesEmpty /\ m_symbolQueue = <<>> /\ buffer = <<>> /\ down = <<>> /\ up = <<>>
      ]_vars

(* ShutdownProfiler returns: the client's threads end and main's joins with*)
(* them, whenever the viewer connects, is closed or opened again, and when *)
(* the connection is reset.  A viewer that hangs, and a connection that is *)
(* lost without either end noticing, are not among the steps of the model, *)
(* and TRACY_NO_EXIT is not set (TracyProfiler.cpp:1898).                  *)
ShutdownEnds == m_shutdown ~> main = "ended"
=============================================================================
