---------------------------- MODULE TracyServer ----------------------------
(***************************************************************************)
(* src/tracy/server/TracyWorker.cpp: the server's two threads.  Network    *)
(* receives frames into a ring of three frames, on credit; Exec processes  *)
(* them, asks the client for what they name, and closes the session.  The  *)
(* threads meet under m_netReadLock and m_netWriteLock; waiting on their   *)
(* condition variables is waiting for the condition.                       *)
(* Left out: the data of the trace, the memory limit (it has the effect of *)
(* the viewer being closed) and instrumentation failures.                  *)
(***************************************************************************)
EXTENDS TracyLink

CONSTANT Threads        \* of the client, by the names of their queues

VARIABLES
    m_shutdownView,     \* m_shutdown of the server: the user closed the viewer
    exec,               \* where Exec is
    net,                \* where Network is: "credit", "read" or "closed"
    m_netWriteCnt,      \* frames Network may still receive
    m_bufferOffset,     \* where in the ring Network writes the next frame
    m_netRead,          \* frames received: [offset, frame], or EndOfStream
    current,            \* the frame Exec processes, or None
    spaceLeft,          \* m_serverQuerySpaceLeft
    prioQueue, lowQueue,\* m_serverQueryQueuePrio, m_serverQueryQueue
    asked,              \* everything the server asked for
    answered,           \* the part of it that was answered
    threadCtx,          \* m_threadCtx: the thread events belong to
    stacks,             \* of each thread: its open zones
    received,           \* ghost: the events, [thread, msg], in the order processed
    m_terminate         \* the client has sent all it had

threadsOfServer == <<m_shutdownView, exec, net>>
netState  == <<m_netWriteCnt, m_bufferOffset, m_netRead, current>>
queries   == <<spaceLeft, prioQueue, lowQueue, asked, answered>>
traceData == <<threadCtx, stacks, received, m_terminate>>
server == <<threadsOfServer, netState, queries, traceData>>

EndOfStream == [offset |-> -1, frame |-> <<>>]
None == [offset |-> -2, frame |-> <<>>]
QuerySpaceBase == SendBuf - TerminateSlack

ServerReset ==
    /\ m_shutdownView' = FALSE /\ exec' = "connect" /\ net' = "credit"
    /\ m_netWriteCnt' = 0 /\ m_bufferOffset' = 0 /\ m_netRead' = <<>> /\ current' = None
    /\ spaceLeft' = QuerySpaceBase /\ prioQueue' = <<>> /\ lowQueue' = <<>>
    /\ asked' = {} /\ answered' = {}
    /\ threadCtx' = "none" /\ stacks' = [t \in Threads |-> <<>>]
    /\ received' = <<>> /\ m_terminate' = FALSE

ServerInit ==
    /\ m_shutdownView = FALSE /\ exec = "connect" /\ net = "credit"
    /\ m_netWriteCnt = 0 /\ m_bufferOffset = 0 /\ m_netRead = <<>> /\ current = None
    /\ spaceLeft = QuerySpaceBase /\ prioQueue = <<>> /\ lowQueue = <<>>
    /\ asked = {} /\ answered = {}
    /\ threadCtx = "none" /\ stacks = [t \in Threads |-> <<>>]
    /\ received = <<>> /\ m_terminate = FALSE

-----------------------------------------------------------------------------
(* The user closes the viewer (~Worker, Disconnect).                       *)
CloseViewer ==
    /\ ~m_shutdownView /\ exec # "closed"
    /\ m_shutdownView' = TRUE
    /\ UNCHANGED <<exec, net, netState, queries, traceData>>
    /\ UNCHANGED link

(* Connect, tried until the client listens; the version is sent at once.   *)
Connect ==
    /\ exec = "connect"
    /\ \/ m_shutdownView /\ exec' = "closed" /\ UNCHANGED serverEnd
       \/ ~m_shutdownView /\ clientEnd = "none" /\ exec' = "handshake" /\ serverEnd' = "open"
    /\ UNCHANGED <<m_shutdownView, net, netState, queries, traceData, clientEnd, lost, reply, down, up>>

(* close: Shutdown() wakes Network, and the socket is closed.              *)
CloseSession ==
    /\ exec' = "closed"
    /\ m_shutdownView' = TRUE
    /\ serverEnd' = "closed"

(* The handshake's answer; a welcome gives Network its two credits.        *)
(* Mutant: three credits, one for each frame of the ring.                  *)
ThreeCredits == 3
Credits == 2

Handshake ==
    /\ exec = "handshake"
    /\ IF reply = "welcome" /\ ~lost /\ ~m_shutdownView
         THEN /\ exec' = "check" /\ m_netWriteCnt' = Credits
              /\ UNCHANGED <<m_shutdownView, serverEnd>>
         ELSE /\ reply # "none" \/ lost \/ m_shutdownView \/ clientEnd = "closed"
              /\ CloseSession /\ UNCHANGED m_netWriteCnt
    /\ UNCHANGED <<net, m_bufferOffset, m_netRead, current, queries, traceData, clientEnd, lost,
                   reply, down, up>>

-----------------------------------------------------------------------------
(* Packets sent to a client that is gone are lost.                         *)
Sent(packets, before) == IF ServerSees THEN before \o packets ELSE before
Send(packets) == up' = Sent(packets, up)

Least(a, b) == IF a < b THEN a ELSE b

-----------------------------------------------------------------------------
(* Network.                                                                *)
TakeCredit ==
    /\ net = "credit" /\ (m_netWriteCnt > 0 \/ m_shutdownView)
    /\ IF m_shutdownView
         THEN /\ net' = "closed" /\ m_netRead' = Append(m_netRead, EndOfStream)
              /\ UNCHANGED m_netWriteCnt
         ELSE /\ net' = "read" /\ m_netWriteCnt' = m_netWriteCnt - 1
              /\ UNCHANGED m_netRead
    /\ UNCHANGED <<m_shutdownView, exec, m_bufferOffset, current, queries, traceData>>
    /\ UNCHANGED link

(* The offset returns to the start when less than a frame is left.         *)
(* Mutant: it returns one frame too late.                                  *)
NextOffsetLate(offset) == IF offset > FrameSize * 3 THEN 0 ELSE offset
NextOffset(offset) == IF offset > FrameSize * 2 THEN 0 ELSE offset

Receive ==
    /\ net = "read" /\ ~m_shutdownView /\ down # <<>>
    /\ m_netRead' = Append(m_netRead, [offset |-> m_bufferOffset, frame |-> Head(down)])
    /\ m_bufferOffset' = NextOffset(m_bufferOffset + Len(Head(down)))
    /\ down' = Tail(down)
    /\ net' = "credit"
    /\ UNCHANGED <<m_shutdownView, exec, m_netWriteCnt, current, queries, traceData, clientEnd,
                   serverEnd, lost, reply, up>>

ReceiveFails ==
    /\ net = "read" /\ (m_shutdownView \/ (down = <<>> /\ ~ServerSees))
    /\ net' = "closed"
    /\ m_netRead' = Append(m_netRead, EndOfStream)
    /\ UNCHANGED <<m_shutdownView, exec, m_netWriteCnt, m_bufferOffset, current, queries, traceData>>
    /\ UNCHANGED link

-----------------------------------------------------------------------------
(* DispatchProcess, one item a step.                                       *)

(* A handler may ask several questions, and gives the space of an answer   *)
(* back before, between or after them: each of these changes the desk, and *)
(* what the handler leaves on it is the next state.                        *)
Desk == [space |-> spaceLeft, prio |-> prioQueue, low |-> lowQueue, asked |-> asked, up |-> up]
SetDesk(d) ==
    /\ spaceLeft' = d.space /\ prioQueue' = d.prio /\ lowQueue' = d.low
    /\ asked' = d.asked /\ up' = d.up

(* Query: sent at once while there is space and nothing else waits.        *)
(* Mutant: a query sent at once takes no space.                            *)
QueryForFree(d, q) ==
    IF d.space > 0 /\ d.prio = <<>> /\ d.low = <<>> THEN [d EXCEPT !.up = Sent(<<q>>, @)]
    ELSE IF IsQueryPrio(q.kind) THEN [d EXCEPT !.prio = Append(@, q)]
    ELSE [d EXCEPT !.low = Append(@, q)]
Query(d, q) ==
    IF d.space > 0 /\ d.prio = <<>> /\ d.low = <<>>
      THEN [d EXCEPT !.space = @ - 1, !.up = Sent(<<q>>, @)]
    ELSE IF IsQueryPrio(q.kind) THEN [d EXCEPT !.prio = Append(@, q)]
    ELSE [d EXCEPT !.low = Append(@, q)]

(* The server asks for each thing once, and for nothing at a null pointer. *)
AskFor(d, kind, ref) ==
    LET q == Msg(kind, ref)
    IN  IF ref \notin Refs \/ q \in d.asked THEN d
        ELSE Query([d EXCEPT !.asked = @ \cup {q}], q)

(* The space of an answered question.                                      *)
(* Mutant: it is never given back.                                         *)
GiveBackNothing(d) == d
GiveBack(d) == [d EXCEPT !.space = @ + 1]

Item == Head(current.frame)
NextItem ==
    /\ exec = "process" /\ current.frame # <<>>
    /\ current' = [offset |-> current.offset + 1, frame |-> Tail(current.frame)]
    /\ UNCHANGED <<threadsOfServer, m_netWriteCnt, m_bufferOffset, m_netRead>>
    /\ UNCHANGED <<clientEnd, serverEnd, lost, reply, down>>

Record == received' = Append(received, [thread |-> threadCtx, msg |-> Item])

(* The context names the thread; its name is asked for by its first event. *)
(* Mutant: the context changes to threads that are not known yet only.     *)
ContextOfNewThread == IF Msg("thread", Item.ref) \in asked THEN threadCtx ELSE Item.ref
NewContext == Item.ref

ProcessThreadContext ==
    /\ NextItem /\ Item.kind = "context"
    /\ threadCtx' = NewContext
    /\ UNCHANGED <<queries, up, stacks, received, m_terminate>>

(* NoticeThread: an event of a thread that is not known yet.               *)
GetCurrentThreadData(d) == AskFor(d, "thread", threadCtx)

ProcessZoneBegin ==
    /\ NextItem /\ Item.kind = "begin"
    /\ stacks' = [stacks EXCEPT ![threadCtx] = Append(@, Item.ref)]
    /\ Record
    /\ SetDesk(GetCurrentThreadData(AskFor(Desk, "srcloc", Item.ref)))
    /\ UNCHANGED <<answered, threadCtx, m_terminate>>

ProcessZoneEnd ==
    /\ NextItem /\ Item.kind = "end"
    /\ stacks' = [stacks EXCEPT ![threadCtx] = Front(@)]
    /\ Record
    /\ SetDesk(GetCurrentThreadData(Desk))
    /\ UNCHANGED <<answered, threadCtx, m_terminate>>

(* AddCallstackPayload asks for the frames, ProcessCallstack for the thread*)
ProcessCallstack ==
    /\ NextItem /\ Item.kind = "callstack"
    /\ Record
    /\ SetDesk(GetCurrentThreadData(AskFor(Desk, "frame", Item.ref)))
    /\ UNCHANGED <<answered, threadCtx, stacks, m_terminate>>

(* What an answer makes the server ask, and when the answer's space is     *)
(* given back: by a call stack frame before its symbol is asked for, by a  *)
(* source location after its strings, by a symbol after its code.          *)
(* Mutant: the answers after which it is given back last give none back.   *)
Location(ref) == SourceLocations[ref]
AddSourceLocation(d, ref) ==
    LET name == AskFor(d, "string", Location(ref).name)
        file == AskFor(name, "string", Location(ref).file)
    IN  AskFor(file, "string", Location(ref).function)
ProcessCallstackFrame(d, ref) == AskFor(d, "symbol", Symbols[ref])
ProcessSymbolInformation(d, ref) == IF ref \in WithCode THEN AskFor(d, "code", ref) ELSE d

HandledForFree(d, answer) ==
    CASE answer.kind = "srcloc" -> AddSourceLocation(d, answer.ref)
      [] answer.kind = "frame"  -> ProcessCallstackFrame(GiveBack(d), answer.ref)
      [] answer.kind = "symbol" -> ProcessSymbolInformation(d, answer.ref)
      [] OTHER                  -> GiveBack(d)
Handled(d, answer) ==
    CASE answer.kind = "srcloc" -> GiveBack(AddSourceLocation(d, answer.ref))
      [] answer.kind = "frame"  -> ProcessCallstackFrame(GiveBack(d), answer.ref)
      [] answer.kind = "symbol" -> GiveBack(ProcessSymbolInformation(d, answer.ref))
      [] OTHER                  -> GiveBack(d)

ProcessAnswer ==
    /\ NextItem /\ Item.kind \in QueryKinds
    /\ answered' = answered \cup {Item}
    /\ SetDesk(Handled(Desk, Item))
    /\ UNCHANGED traceData

ProcessTerminate ==
    /\ NextItem /\ Item = Terminate
    /\ m_terminate' = TRUE
    /\ UNCHANGED <<queries, up, threadCtx, stacks, received>>

DispatchProcess ==
    \/ ProcessThreadContext \/ ProcessZoneBegin \/ ProcessZoneEnd \/ ProcessCallstack
    \/ ProcessAnswer \/ ProcessTerminate

-----------------------------------------------------------------------------
(* The queries that waited, the urgent ones first, as far as space allows. *)
PrioToSend == Least(spaceLeft, Len(prioQueue))
LowToSend == Least(spaceLeft - PrioToSend, Len(lowQueue))
Queued == SubSeq(prioQueue, 1, PrioToSend) \o SubSeq(lowQueue, 1, LowToSend)

(* The session is over when the client has sent all, nothing is unknown,   *)
(* and no thread is in a zone.                                             *)
(* Mutant: symbols are not waited for.                                     *)
CompleteButSymbols ==
    /\ m_terminate /\ \A q \in asked \ answered : q.kind = "symbol"
    /\ \A t \in Threads : stacks[t] = <<>>
Complete ==
    /\ m_terminate /\ asked = answered
    /\ \A t \in Threads : stacks[t] = <<>>

(* The end of a frame: Network's credit, the queries that waited, and the  *)
(* end of the session.                                                     *)
FrameDone ==
    /\ exec = "process" /\ current.frame = <<>>
    /\ current' = None
    /\ m_netWriteCnt' = m_netWriteCnt + 1
    /\ spaceLeft' = spaceLeft - Len(Queued)
    /\ prioQueue' = SubSeq(prioQueue, PrioToSend + 1, Len(prioQueue))
    /\ lowQueue' = SubSeq(lowQueue, LowToSend + 1, Len(lowQueue))
    /\ Send(IF Complete THEN Append(Queued, Terminate) ELSE Queued)
    /\ IF Complete THEN CloseSession ELSE exec' = "check" /\ UNCHANGED <<m_shutdownView, serverEnd>>
    /\ UNCHANGED <<net, m_bufferOffset, m_netRead, asked, answered, traceData>>
    /\ UNCHANGED <<clientEnd, lost, reply, down>>

-----------------------------------------------------------------------------
(* Exec's loop.                                                            *)
Check ==
    /\ exec = "check"
    /\ IF m_shutdownView
         THEN CloseSession /\ Send(<<Terminate>>)
         ELSE exec' = "wait" /\ UNCHANGED <<m_shutdownView, serverEnd, up>>
    /\ UNCHANGED <<net, netState, queries, traceData, clientEnd, lost, reply, down>>

TakeFrame ==
    /\ exec = "wait" /\ m_netRead # <<>>
    /\ m_netRead' = Tail(m_netRead)
    /\ IF Head(m_netRead) = EndOfStream
         THEN CloseSession /\ UNCHANGED current
         ELSE exec' = "process" /\ current' = Head(m_netRead) /\ UNCHANGED <<m_shutdownView, serverEnd>>
    /\ UNCHANGED <<net, m_netWriteCnt, m_bufferOffset, queries, traceData, clientEnd, lost, reply,
                   down, up>>

Exec == Connect \/ Handshake \/ Check \/ TakeFrame \/ DispatchProcess \/ FrameDone
Network == TakeCredit \/ Receive \/ ReceiveFails
=============================================================================
