------------------------- MODULE TracySessionProofs -------------------------
(***************************************************************************)
(* For every frame size: the Network thread never writes outside m_buffer  *)
(* nor over a frame that Exec has not finished.  The argument: no frame is *)
(* larger than FrameSize, of which the client's AppendData and CommitData  *)
(* see to; and of the two credits, one is spent on the frame being written,*)
(* so at most one other is in use, and it is the one before.               *)
(***************************************************************************)
EXTENDS TracySession, SequenceTheorems, TLAPS

Kinds == EventKinds \cup QueryKinds \cup {"context", "terminate"}
AnyMsg == [kind : Kinds, ref : Refs \cup {"none"}]
Frames == {f \in Seq(AnyMsg) : Len(f) <= FrameSize}

(* What the client sends are frames of messages.                           *)
Frames_Client ==
    /\ script \in Seq(AnyMsg) /\ made \in Nat
    /\ queue \in [Producers -> Seq(AnyMsg)]
    /\ m_symbolQueue \in Seq(AnyMsg)
    /\ buffer \in Frames

Frames_Link == up \in Seq(AnyMsg) /\ down \in Seq(Frames)

(* What the server received and asks for.                                  *)
NetBuffers == [offset : Int, frame : Frames]
Frames_Server ==
    /\ prioQueue \in Seq(AnyMsg) /\ lowQueue \in Seq(AnyMsg) /\ spaceLeft \in Nat
    /\ m_netRead \in Seq(NetBuffers) /\ current \in NetBuffers

(* The frame before the one to be written: it ends where that one begins,  *)
(* or it is beyond the second frame and the ring begins anew.              *)
Before(b) ==
    \/ b.offset + Len(b.frame) = m_bufferOffset
    \/ m_bufferOffset = 0 /\ b.offset + Len(b.frame) > 2 * FrameSize

Working == IF exec = "process" THEN 1 ELSE 0
Writing == IF net = "read" THEN 1 ELSE 0

(* Two credits, and the order of the frames in use.                        *)
Credit ==
    /\ m_netWriteCnt \in Nat
    /\ m_bufferOffset \in Nat /\ m_bufferOffset <= 2 * FrameSize
    /\ current # None => exec = "process"
    /\ net # "closed" =>
         /\ Len(m_netRead) + m_netWriteCnt + Writing + Working <= 2
         /\ exec \in {"connect", "handshake"} =>
              Len(m_netRead) + m_netWriteCnt + Writing = 0
         /\ \A a \in DOMAIN m_netRead : m_netRead[a] # EndOfStream
         /\ m_netRead # <<>> => Before(m_netRead[Len(m_netRead)])
         /\ m_netRead = <<>> /\ exec = "process" => Before(current)

SessionInv == Frames_Client /\ Frames_Link /\ Frames_Server /\ Credit

-----------------------------------------------------------------------------
(* What is empty has its type.                                             *)
LEMMA Empty == <<>> \in Frames /\ <<>> \in Seq(AnyMsg) /\ EndOfStream \in NetBuffers /\ None \in NetBuffers
<1>1. <<>> \in Frames
  BY LinkAssumption DEF Frames
<1> QED
  BY <1>1 DEF EndOfStream, None, NetBuffers

(* A sequence that is not empty has an element.                            *)
LEMMA NonEmpty == ASSUME NEW S, NEW s \in Seq(S) PROVE s # <<>> <=> Len(s) >= 1
  OBVIOUS

(* The invariant keeps the buffers of Network and Exec apart.              *)
LEMMA Apart == SessionInv => NetBuffersApart
<1> SUFFICES ASSUME SessionInv, net = "read"
             PROVE  /\ m_bufferOffset + FrameSize <= 3 * FrameSize
                    /\ \A b \in InUse : \/ b.offset + Len(b.frame) <= m_bufferOffset
                                        \/ m_bufferOffset + FrameSize <= b.offset
  BY DEF NetBuffersApart
<1> USE DEF SessionInv
<1>1. FrameSize \in Nat /\ m_bufferOffset \in Nat /\ m_bufferOffset + FrameSize <= 3 * FrameSize
  BY LinkAssumption DEF Credit
<1>2. \A b \in NetBuffers : Before(b) => \/ b.offset + Len(b.frame) <= m_bufferOffset
                                         \/ m_bufferOffset + FrameSize <= b.offset
  <2> SUFFICES ASSUME NEW b \in NetBuffers, Before(b)
               PROVE  \/ b.offset + Len(b.frame) <= m_bufferOffset
                      \/ m_bufferOffset + FrameSize <= b.offset
    OBVIOUS
  <2>1. b.offset \in Int /\ Len(b.frame) \in Nat /\ Len(b.frame) <= FrameSize
    BY DEF NetBuffers, Frames
  <2> QED
    BY <1>1, <2>1 DEF Before
<1>3. m_netRead \in Seq(NetBuffers) /\ current \in NetBuffers /\ Len(m_netRead) \in Nat
  BY DEF Frames_Server
<1>4. Len(m_netRead) + Working <= 1
  BY <1>3 DEF Credit, Writing, Working
<1>5. CASE m_netRead = <<>>
  <2>1. InUse \subseteq {current} /\ (current # None => Before(current))
    BY <1>5 DEF InUse, Credit, Range
  <2>2. current = None => InUse = {}
    BY <1>5 DEF InUse, Range
  <2> QED
    BY <1>1, <1>2, <1>3, <2>1, <2>2
<1>6. CASE m_netRead # <<>>
  <2>1. Len(m_netRead) >= 1
    BY <1>3, <1>6, NonEmpty
  <2>2. Len(m_netRead) = 1 /\ Working = 0
    <3>1. Working \in {0, 1}
      BY DEF Working
    <3>2. \A n \in Nat, w \in {0, 1} : n + w <= 1 /\ n >= 1 => n = 1 /\ w = 0
      OBVIOUS
    <3> HIDE DEF SessionInv
    <3> QED
      BY <1>3, <1>4, <2>1, <3>1, <3>2
  <2>3. InUse \subseteq {m_netRead[1]} /\ Before(m_netRead[1]) /\ m_netRead[1] \in NetBuffers
    BY <1>3, <1>6, <2>2 DEF InUse, Credit, Range, Working
  <2> QED
    BY <1>1, <1>2, <2>3
<1> QED
  BY <1>1, <1>5, <1>6

(* The session before it begins.                                           *)
LEMMA InitInv == Init => SessionInv
<1> SUFFICES ASSUME Init PROVE SessionInv
  OBVIOUS
<1> USE DEF Init, LinkInit, ClientInit, ServerInit
<1>1. Frames_Client
  <2>1. script \in Seq(AnyMsg)
    <3>1. [kind : EventKinds, ref : Refs \cup {"none"}] \subseteq AnyMsg
      BY DEF AnyMsg, Kinds
    <3>2. script \in Seq([kind : EventKinds, ref : Refs \cup {"none"}])
      BY ScriptsAssumption
    <3> QED
      BY <3>1, <3>2, SeqMonotonic
  <2>2. queue \in [Producers -> Seq(AnyMsg)]
    BY Empty
  <2> QED
    BY <2>1, <2>2, Empty DEF Frames_Client
<1>2. Frames_Link
  BY DEF Frames_Link
<1>3. Frames_Server
  BY Empty, LinkAssumption DEF Frames_Server, QuerySpaceBase
<1>4. Credit
  BY LinkAssumption DEF Credit, Working, Writing
<1> QED
  BY <1>1, <1>2, <1>3, <1>4 DEF SessionInv

-----------------------------------------------------------------------------
(* The client.  Its sends keep frames frames.                              *)
Sends == Frames_Client /\ Frames_Link

(* A frame is sent.                                                        *)
LEMMA SentIsFrames ==
  ASSUME Frames_Link, NEW f \in Frames
  PROVE  Append(down, f) \in Seq(Frames)
BY AppendProperties DEF Frames_Link

(* AppendData: the buffer is sent before it overflows.                     *)
LEMMA AppendedFits ==
  ASSUME Sends, NEW items \in Seq(AnyMsg), Len(items) <= 2, AppendData(items)
  PROVE  buffer' \in Frames /\ down' \in Seq(Frames)
<1> DEFINE fit == FrameSize - Len(buffer)
<1>1. /\ buffer \in Seq(AnyMsg) /\ Len(buffer) \in Nat /\ Len(buffer) <= FrameSize
      /\ Len(items) \in Nat /\ FrameSize \in Nat /\ FrameSize > 1
      /\ down \in Seq(Frames)
  BY LinkAssumption DEF Sends, Frames_Client, Frames_Link, Frames
<1>2. CASE ~Overflows(items)
  <2>1. buffer' = buffer \o items /\ down' = down
    BY <1>2 DEF AppendData
  <2>2. buffer \o items \in Seq(AnyMsg) /\ Len(buffer \o items) = Len(buffer) + Len(items)
    BY <1>1, ConcatProperties
  <2>3. Len(buffer) + Len(items) <= FrameSize
    BY <1>1, <1>2 DEF Overflows
  <2> QED
    BY <1>1, <2>1, <2>2, <2>3 DEF Frames
<1>3. CASE Overflows(items)
  <2>1. fit \in Nat /\ fit < Len(items)
    BY <1>1, <1>3 DEF Overflows
  <2>2. \A i \in 1..Len(items) : items[i] \in AnyMsg
    BY ElementOfSeq
  <2>3. /\ SubSeq(items, fit + 1, Len(items)) \in Seq(AnyMsg)
        /\ Len(SubSeq(items, fit + 1, Len(items))) = Len(items) - fit
    <3>1. \A i \in (fit + 1)..Len(items) : items[i] \in AnyMsg
      BY <1>1, <2>1, <2>2
    <3>2. fit + 1 \in Int /\ Len(items) \in Int /\ fit + 1 <= Len(items)
      BY <1>1, <2>1
    <3>3. Len(SubSeq(items, fit + 1, Len(items))) = Len(items) - (fit + 1) + 1
      BY <3>1, <3>2, SubSeqProperties
    <3> QED
      BY <1>1, <2>1, <3>1, <3>2, <3>3, SubSeqProperties
  <2>4. SubSeq(items, 1, fit) \in Seq(AnyMsg) /\ Len(SubSeq(items, 1, fit)) = fit
    <3>1. \A i \in 1..fit : items[i] \in AnyMsg
      BY <1>1, <2>1, <2>2
    <3>2. 1 \in Int /\ fit \in Int
      BY <2>1
    <3>3. Len(SubSeq(items, 1, fit)) = IF 1 <= fit THEN fit - 1 + 1 ELSE 0
      BY <3>1, <3>2, SubSeqProperties
    <3> QED
      BY <2>1, <3>1, <3>2, <3>3, SubSeqProperties
  <2>5. buffer \o SubSeq(items, 1, fit) \in Frames
    <3>1. /\ buffer \o SubSeq(items, 1, fit) \in Seq(AnyMsg)
          /\ Len(buffer \o SubSeq(items, 1, fit)) = Len(buffer) + fit
      BY <1>1, <2>4, ConcatProperties
    <3> QED
      BY <1>1, <3>1 DEF Frames
  <2>6. SubSeq(items, fit + 1, Len(items)) \in Frames
    BY <1>1, <2>1, <2>3 DEF Frames
  <2>7. /\ buffer' = SubSeq(items, fit + 1, Len(items))
        /\ down' \in {down, Append(down, buffer \o SubSeq(items, 1, fit))}
    BY <1>3 DEF AppendData
  <2> QED
    BY <1>1, <2>5, <2>6, <2>7, SentIsFrames DEF Sends
<1> QED
  BY <1>2, <1>3

(* CommitData: the buffer is sent as it is.                                *)
LEMMA CommitFits ==
  ASSUME Sends, Commit
  PROVE  buffer' \in Frames /\ down' \in Seq(Frames) /\ up' = up
<1>1. down \in Seq(Frames) /\ Append(down, buffer) \in Seq(Frames)
  BY SentIsFrames DEF Sends, Frames_Client, Frames_Link
<1> QED
  BY <1>1, Empty DEF Commit

(* An item is taken from a queue into the buffer.                          *)
LEMMA DequeueFits ==
  ASSUME Sends, NEW p \in Producers, NEW next, NEW failed, Dequeue(p, next, failed)
  PROVE  /\ buffer' \in Frames /\ down' \in Seq(Frames) /\ up' = up
         /\ queue' \in [Producers -> Seq(AnyMsg)]
<1>1. queue[p] \in Seq(AnyMsg) /\ queue[p] # <<>>
  BY DEF Sends, Frames_Client, Dequeue
<1>2. Head(queue[p]) \in AnyMsg /\ Tail(queue[p]) \in Seq(AnyMsg)
  BY <1>1, HeadTailProperties
<1>3. Msg("context", p) \in AnyMsg
  BY ProducersAssumption DEF Msg, AnyMsg, Kinds
<1>4. ThreadCtxCheck(p) \in Seq(AnyMsg) /\ Len(ThreadCtxCheck(p)) <= 1
  BY <1>3 DEF ThreadCtxCheck
<1>5. NextItems(p) \in Seq(AnyMsg) /\ Len(NextItems(p)) <= 2
  <2>1. /\ NextItems(p) \in Seq(AnyMsg)
        /\ Len(NextItems(p)) = Len(ThreadCtxCheck(p)) + 1
    BY <1>2, <1>4, AppendProperties DEF NextItems
  <2>2. Len(ThreadCtxCheck(p)) \in Nat
    BY <1>4
  <2> QED
    BY <1>4, <2>1, <2>2
<1>6. AppendData(NextItems(p)) /\ up' = up /\ queue' = [queue EXCEPT ![p] = Tail(@)]
  BY DEF Dequeue
<1>7. queue' \in [Producers -> Seq(AnyMsg)]
  BY <1>2, <1>6 DEF Sends, Frames_Client
<1> QED
  BY <1>5, <1>6, <1>7, AppendedFits

(* A call stack frame is resolved into an item of a queue.                 *)
LEMMA ResolveFits ==
  ASSUME Frames_Client, NEW p \in Producers, Resolve(p)
  PROVE  queue' \in [Producers -> Seq(AnyMsg)] /\ m_symbolQueue' \in Seq(AnyMsg)
<1>1. /\ m_symbolQueue \in Seq(AnyMsg) /\ m_symbolQueue # <<>>
      /\ queue \in [Producers -> Seq(AnyMsg)]
  BY DEF Frames_Client, Resolve
<1>2. Head(m_symbolQueue) \in AnyMsg /\ Tail(m_symbolQueue) \in Seq(AnyMsg)
  BY <1>1, HeadTailProperties
<1>3. Append(queue[p], Head(m_symbolQueue)) \in Seq(AnyMsg)
  BY <1>1, <1>2, AppendProperties
<1> QED
  BY <1>1, <1>2, <1>3 DEF Resolve

(* A packet of the server is read, and answered or passed on.              *)
LEMMA HandleServerQueryFits ==
  ASSUME Sends, HandleServerQuery
  PROVE  Sends'
<1>1. up \in Seq(AnyMsg) /\ up # <<>> /\ up' = Tail(up)
  BY DEF Sends, Frames_Link, HandleServerQuery, HasQuery
<1>2. Head(up) \in AnyMsg /\ up' \in Seq(AnyMsg)
  BY <1>1, HeadTailProperties
<1>3. UNCHANGED <<script, made, queue>>
  BY DEF HandleServerQuery, program
<1>4. CASE Head(up).kind \in ForSymbolWorker
  <2>1. m_symbolQueue' = Append(m_symbolQueue, Head(up)) /\ UNCHANGED <<buffer, down>>
    BY <1>4 DEF HandleServerQuery
  <2>2. m_symbolQueue' \in Seq(AnyMsg)
    BY <1>2, <2>1, AppendProperties DEF Sends, Frames_Client
  <2> QED
    BY <1>2, <1>3, <2>1, <2>2 DEF Sends, Frames_Client, Frames_Link
<1>5. CASE Head(up).kind \notin ForSymbolWorker
  <2>1. AppendData(<<Head(up)>>) /\ m_symbolQueue' = m_symbolQueue
    BY <1>5 DEF HandleServerQuery
  <2>2. <<Head(up)>> \in Seq(AnyMsg) /\ Len(<<Head(up)>>) <= 2
    BY <1>2
  <2>3. buffer' \in Frames /\ down' \in Seq(Frames)
    BY <2>1, <2>2, AppendedFits
  <2> QED
    BY <1>2, <1>3, <2>1, <2>3 DEF Sends, Frames_Client, Frames_Link
<1> QED
  BY <1>4, <1>5

(* Every step of the client sends frames.                                  *)
LEMMA ClientSends == Sends /\ ClientStep => Sends'
<1> SUFFICES ASSUME Sends, ClientStep PROVE Sends'
  OBVIOUS
<1> USE DEF program, link
(* A step that neither queues, sends nor reads. *)
<1>0. UNCHANGED <<script, made, queue, m_symbolQueue, buffer, down, up>> => Sends'
  BY DEF Sends, Frames_Client, Frames_Link
<1>1. CASE QueueEvent
  <2>1. script[made + 1] \in AnyMsg
    <3>1. made + 1 \in 1..Len(script) /\ script \in Seq(AnyMsg)
      BY <1>1 DEF QueueEvent, Sends, Frames_Client
    <3> QED
      BY <3>1, ElementOfSeq
  <2>2. Append(queue["main"], script[made + 1]) \in Seq(AnyMsg)
    BY <2>1, AppendProperties DEF Sends, Frames_Client, Producers
  <2>3. queue' \in [Producers -> Seq(AnyMsg)]
    BY <1>1, <2>2 DEF QueueEvent, Sends, Frames_Client
  <2> QED
    BY <1>1, <2>3 DEF QueueEvent, Sends, Frames_Client, Frames_Link
<1>2. CASE ShutdownProfiler \/ JoinThreads
  BY <1>0, <1>2 DEF ShutdownProfiler, JoinThreads
<1>3. CASE SymbolWorker
  <2>1. CASE m_symbolQueue # <<>>
    <3>1. Resolve("symbols")
      BY <1>3, <2>1 DEF SymbolWorker
    <3> QED
      BY <1>3, <3>1, ResolveFits DEF SymbolWorker, Sends, Frames_Client, Frames_Link, Producers
  <2>2. CASE m_symbolQueue = <<>>
    BY <1>0, <1>3, <2>2 DEF SymbolWorker
  <2> QED
    BY <2>1, <2>2
<1>4. CASE AcceptExits \/ (\E version \in {"same", "other", "unread"} : Accept(version))
           \/ MainLeaves \/ Reject \/ RejectExits \/ AwaitSymbols \/ FinalExits \/ FinalPass
  BY <1>0, <1>4
     DEF AcceptExits, Accept, MainLeaves, Reject, RejectExits, AwaitSymbols, FinalExits, FinalPass
<1>5. CASE MainDequeue
  <2>1. UNCHANGED <<script, made, m_symbolQueue>>
    BY <1>5 DEF MainDequeue
  <2>2. CASE \E p \in Producers : Dequeue(p, "mainQueries", "lost")
    BY <2>1, <2>2, DequeueFits DEF Sends, Frames_Client, Frames_Link
  <2>3. CASE Commit /\ UNCHANGED queue
    BY <2>1, <2>3, CommitFits DEF Sends, Frames_Client, Frames_Link
  <2>4. CASE UNCHANGED <<queue, buffer, link>>
    BY <1>0, <2>1, <2>4
  <2> QED
    BY <1>5, <2>2, <2>3, <2>4 DEF MainDequeue
<1>6. CASE MainQueries \/ DrainQueries \/ FinalQueries
  BY <1>6, HandleServerQueryFits DEF MainQueries, DrainQueries, FinalQueries
<1>7. CASE RejectClear
  <2>1. queue' \in [Producers -> Seq(AnyMsg)]
    BY <1>7, Empty DEF RejectClear
  <2> QED
    BY <1>7, <2>1 DEF RejectClear, Sends, Frames_Client, Frames_Link
<1>8. CASE DrainDequeue
  <2>1. UNCHANGED <<script, made, m_symbolQueue>>
    BY <1>8 DEF DrainDequeue
  <2>2. CASE \E p \in Producers : Dequeue(p, "drainQueries", "gone")
    BY <2>1, <2>2, DequeueFits DEF Sends, Frames_Client, Frames_Link
  <2>3. CASE Commit /\ UNCHANGED queue
    BY <2>1, <2>3, CommitFits DEF Sends, Frames_Client, Frames_Link
  <2>4. CASE UNCHANGED <<queue, buffer, link>>
    BY <1>0, <2>1, <2>4
  <2> QED
    BY <1>8, <2>2, <2>3, <2>4 DEF DrainDequeue
<1>9. CASE DrainSymbols \/ FinalSymbols
  <2>1. UNCHANGED <<script, made, buffer, down, up>>
    BY <1>9 DEF DrainSymbols, FinalSymbols
  <2>2. CASE Resolve("worker")
    BY <2>1, <2>2, ResolveFits DEF Sends, Frames_Client, Frames_Link, Producers
  <2>3. CASE UNCHANGED <<queue, m_symbolQueue>>
    BY <1>0, <2>1, <2>3
  <2> QED
    BY <1>9, <2>2, <2>3 DEF DrainSymbols, FinalSymbols
<1>10. CASE SendTerminate
  <2>1. <<Terminate>> \in Frames
    BY LinkAssumption DEF Terminate, Msg, Frames, AnyMsg, Kinds
  <2>2. down' \in Seq(Frames)
    BY <1>10, <2>1, SentIsFrames DEF SendTerminate, Sends, Frames_Link
  <2> QED
    BY <1>10, <2>2 DEF SendTerminate, Sends, Frames_Client, Frames_Link
<1>11. CASE FinalDequeue
  <2>1. UNCHANGED <<script, made, m_symbolQueue>>
    BY <1>11 DEF FinalDequeue
  <2>2. CASE \E p \in Producers : Dequeue(p, "finalCommit", "gone")
    BY <2>1, <2>2, DequeueFits DEF Sends, Frames_Client, Frames_Link
  <2>3. CASE UNCHANGED <<queue, buffer, link>>
    BY <1>0, <2>1, <2>3
  <2> QED
    BY <1>11, <2>2, <2>3 DEF FinalDequeue
<1>12. CASE FinalCommit
  <2>1. UNCHANGED <<script, made, queue, m_symbolQueue>>
    BY <1>12 DEF FinalCommit
  <2>2. CASE Commit
    BY <2>1, <2>2, CommitFits DEF Sends, Frames_Client, Frames_Link
  <2>3. CASE UNCHANGED <<buffer, link>>
    BY <1>0, <2>1, <2>3
  <2> QED
    BY <1>12, <2>2, <2>3 DEF FinalCommit
<1> QED
  BY <1>1, <1>2, <1>3, <1>4, <1>5, <1>6, <1>7, <1>8, <1>9, <1>10, <1>11, <1>12
     DEF ClientStep, Main, Worker

(* The client leaves the credits alone.                                    *)
LEMMA ClientInv == SessionInv /\ ClientStep /\ UNCHANGED server => SessionInv'
<1> SUFFICES ASSUME SessionInv, ClientStep, UNCHANGED server PROVE SessionInv'
  OBVIOUS
<1>1. Sends'
  BY ClientSends DEF SessionInv, Sends
<1>2. Frames_Server' /\ Credit'
  BY DEF SessionInv, Frames_Server, Credit, Before, Working, Writing, server, threadsOfServer,
         netState, queries
<1> QED
  BY <1>1, <1>2 DEF SessionInv, Sends

-----------------------------------------------------------------------------
(* The server.                                                             *)
LEMMA SendFits ==
  ASSUME Frames_Link, NEW packets \in Seq(AnyMsg), Send(packets)
  PROVE  up' \in Seq(AnyMsg)
<1>1. up \o packets \in Seq(AnyMsg)
  BY ConcatProperties DEF Frames_Link
<1> QED
  BY <1>1 DEF Send, Sent, Frames_Link

(* What Exec has on its desk, and what a question does to it: it was asked *)
(* already (or names nothing), is sent, or waits in one of the queues.     *)
IsDesk(d) ==
    \E space \in Nat, prio, low, packets \in Seq(AnyMsg) : \E ask :
        d = [space |-> space, prio |-> prio, low |-> low, asked |-> ask, up |-> packets]

NewQuestion(d, e, q) ==
    /\ q \in AnyMsg /\ q \notin d.asked /\ e.asked = d.asked \cup {q}
    /\ \/ /\ d.space > 0 /\ e.space = d.space - 1 /\ e.prio = d.prio /\ e.low = d.low
          /\ e.up = Append(d.up, q) \/ (~ServerSees /\ e.up = d.up)
       \/ e.prio = Append(d.prio, q) /\ e.low = d.low /\ e.up = d.up /\ e.space = d.space
       \/ e.low = Append(d.low, q) /\ e.prio = d.prio /\ e.up = d.up /\ e.space = d.space

LEMMA DeskIs == SessionInv => IsDesk(Desk)
BY DEF SessionInv, Frames_Link, Frames_Server, IsDesk, Desk

LEMMA AskForIs ==
  ASSUME NEW d, IsDesk(d), NEW kind \in QueryKinds, NEW ref
  PROVE  LET e == AskFor(d, kind, ref)
         IN  IsDesk(e) /\ (e = d \/ NewQuestion(d, e, Msg(kind, ref)))
<1> DEFINE e == AskFor(d, kind, ref)
<1> DEFINE q == Msg(kind, ref)
<1>0. PICK space \in Nat, prio \in Seq(AnyMsg), low \in Seq(AnyMsg), packets \in Seq(AnyMsg) :
         \E ask : d = [space |-> space, prio |-> prio, low |-> low, asked |-> ask, up |-> packets]
  BY DEF IsDesk
<1>1. PICK ask :
         d = [space |-> space, prio |-> prio, low |-> low, asked |-> ask, up |-> packets]
  BY <1>0
<1>2. CASE ref \notin Refs \/ q \in d.asked
  BY <1>2 DEF AskFor
<1>3. CASE ref \in Refs /\ q \notin d.asked
  <2>1. q \in AnyMsg
    BY <1>3 DEF Msg, AnyMsg, Kinds
  <2>2. e = Query([d EXCEPT !.asked = @ \cup {q}], q)
    BY <1>3 DEF AskFor
  <2>3. [d EXCEPT !.asked = @ \cup {q}] =
           [space |-> space, prio |-> prio, low |-> low, asked |-> ask \cup {q}, up |-> packets]
    <3> HIDE DEF q, e
    <3>1. \A x : [d EXCEPT !.asked = x] =
                    [space |-> space, prio |-> prio, low |-> low, asked |-> x, up |-> packets]
      BY <1>1
    <3>2. d.asked = ask
      BY <1>1
    <3> QED
      BY <3>1, <3>2
  <2>4. /\ packets \o <<q>> = Append(packets, q) /\ Append(packets, q) \in Seq(AnyMsg)
        /\ Append(prio, q) \in Seq(AnyMsg) /\ Append(low, q) \in Seq(AnyMsg)
    BY <2>1
  <2> HIDE DEF q, e
  <2> DEFINE sent == IF ServerSees THEN Append(packets, q) ELSE packets
  <2>5. sent \in Seq(AnyMsg) /\ Sent(<<q>>, packets) = sent
    BY <2>4 DEF Sent
  <2>6. \/ /\ space > 0
           /\ e = [space |-> space - 1, prio |-> prio, low |-> low, asked |-> ask \cup {q}, up |-> sent]
        \/ e = [space |-> space, prio |-> Append(prio, q), low |-> low, asked |-> ask \cup {q}, up |-> packets]
        \/ e = [space |-> space, prio |-> prio, low |-> Append(low, q), asked |-> ask \cup {q}, up |-> packets]
    <3> HIDE DEF sent
    <3> QED
      BY <2>2, <2>3, <2>5 DEF Query
  <2>7. CASE /\ space > 0
             /\ e = [space |-> space - 1, prio |-> prio, low |-> low, asked |-> ask \cup {q}, up |-> sent]
    <3>1. space - 1 \in Nat
      BY <2>7
    <3>2. IsDesk(e)
      BY <2>5, <2>7, <3>1 DEF IsDesk
    <3>3. NewQuestion(d, e, q)
      BY <1>1, <1>3, <2>1, <2>7 DEF NewQuestion
    <3> QED
      BY <3>2, <3>3 DEF e, q
  <2>8. CASE e = [space |-> space, prio |-> Append(prio, q), low |-> low, asked |-> ask \cup {q}, up |-> packets]
    <3>1. IsDesk(e)
      BY <2>4, <2>8 DEF IsDesk
    <3>2. NewQuestion(d, e, q)
      BY <1>1, <1>3, <2>1, <2>8 DEF NewQuestion
    <3> QED
      BY <3>1, <3>2 DEF e, q
  <2>9. CASE e = [space |-> space, prio |-> prio, low |-> Append(low, q), asked |-> ask \cup {q}, up |-> packets]
    <3>1. IsDesk(e)
      BY <2>4, <2>9 DEF IsDesk
    <3>2. NewQuestion(d, e, q)
      BY <1>1, <1>3, <2>1, <2>9 DEF NewQuestion
    <3> QED
      BY <3>1, <3>2 DEF e, q
  <2> QED
    BY <2>6, <2>7, <2>8, <2>9
<1> QED
  BY <1>2, <1>3

(* An answer's space is given back.                                        *)
LEMMA GiveBackIs ==
  ASSUME NEW d, IsDesk(d)
  PROVE  LET e == GiveBack(d)
         IN  /\ IsDesk(e) /\ e.space = d.space + 1
             /\ e.prio = d.prio /\ e.low = d.low /\ e.asked = d.asked /\ e.up = d.up
<1>0. PICK space \in Nat, prio \in Seq(AnyMsg), low \in Seq(AnyMsg), packets \in Seq(AnyMsg) :
         \E ask : d = [space |-> space, prio |-> prio, low |-> low, asked |-> ask, up |-> packets]
  BY DEF IsDesk
<1>1. PICK ask :
         d = [space |-> space, prio |-> prio, low |-> low, asked |-> ask, up |-> packets]
  BY <1>0
<1>2. GiveBack(d) =
         [space |-> space + 1, prio |-> prio, low |-> low, asked |-> ask, up |-> packets]
  BY <1>1 DEF GiveBack
<1>3. space + 1 \in Nat
  OBVIOUS
<1>4. IsDesk(GiveBack(d))
  BY <1>2, <1>3 DEF IsDesk
<1> QED
  BY <1>1, <1>2, <1>4

(* Whatever an item asks leaves a desk.                                    *)
LEMMA KindsAre ==
  /\ "thread" \in QueryKinds /\ "srcloc" \in QueryKinds /\ "string" \in QueryKinds
  /\ "frame" \in QueryKinds /\ "symbol" \in QueryKinds /\ "code" \in QueryKinds
  /\ {"context", "begin", "end", "callstack", "terminate"} \cap QueryKinds = {}
BY DEF QueryKinds, UrgentKinds

LEMMA EventDesk ==
  ASSUME NEW d, IsDesk(d), NEW kind \in QueryKinds, NEW ref
  PROVE  IsDesk(GetCurrentThreadData(d)) /\ IsDesk(GetCurrentThreadData(AskFor(d, kind, ref)))
<1>1. IsDesk(AskFor(d, kind, ref))
  BY AskForIs
<1>2. \A e : IsDesk(e) => IsDesk(AskFor(e, "thread", threadCtx))
  BY AskForIs, KindsAre
<1> QED
  BY <1>1, <1>2 DEF GetCurrentThreadData

LEMMA HandledDesk == ASSUME NEW d, IsDesk(d), NEW answer PROVE IsDesk(Handled(d, answer))
<1>1. \A e : IsDesk(e) => IsDesk(GiveBack(e))
  BY GiveBackIs
<1>2. \A e, ref : IsDesk(e) => IsDesk(AddSourceLocation(e, ref))
  <2> SUFFICES ASSUME NEW e, NEW ref, IsDesk(e) PROVE IsDesk(AddSourceLocation(e, ref))
    OBVIOUS
  <2>1. \A c, r : IsDesk(c) => IsDesk(AskFor(c, "string", r))
    BY AskForIs, KindsAre
  <2> QED
    BY <2>1 DEF AddSourceLocation
<1>3. \A e, ref : IsDesk(e) => IsDesk(ProcessCallstackFrame(e, ref))
  BY AskForIs, KindsAre DEF ProcessCallstackFrame
<1>4. \A e, ref : IsDesk(e) => IsDesk(ProcessSymbolInformation(e, ref))
  BY AskForIs, KindsAre DEF ProcessSymbolInformation
<1> QED
  BY <1>1, <1>2, <1>3, <1>4 DEF Handled

(* Which part of the invariant a step of the server can disturb.           *)
LEMMA ServerInv ==
  ASSUME SessionInv, UNCHANGED client, Frames_Link', Frames_Server', Credit'
  PROVE  SessionInv'
BY DEF SessionInv, Frames_Client, client, program

(* What the credits count.                                                 *)
LEMMA CreditType ==
  ASSUME SessionInv
  PROVE  /\ m_netRead \in Seq(NetBuffers) /\ Len(m_netRead) \in Nat
         /\ m_netWriteCnt \in Nat /\ Working \in {0, 1} /\ Writing \in {0, 1}
         /\ m_netRead # <<>> <=> Len(m_netRead) >= 1
         /\ DOMAIN m_netRead = 1..Len(m_netRead)
<1>1. m_netRead \in Seq(NetBuffers)
  BY DEF SessionInv, Frames_Server
<1>2. m_netRead # <<>> <=> Len(m_netRead) >= 1
  BY <1>1, NonEmpty
<1>3. Len(m_netRead) \in Nat /\ DOMAIN m_netRead = 1..Len(m_netRead)
  BY <1>1, LenProperties
<1> QED
  BY <1>1, <1>2, <1>3 DEF SessionInv, Credit, Working, Writing

(* Exec comes and goes without touching the frames. *)
LEMMA ExecMoves ==
  ASSUME SessionInv, UNCHANGED <<net, m_netRead, m_netWriteCnt, m_bufferOffset, current>>,
         exec # "process", exec' # "process",
         exec' \in {"connect", "handshake"} => exec \in {"connect", "handshake"}
  PROVE  Credit'
<1>1. Working = 0 /\ Working' = 0 /\ Writing' = Writing
  BY DEF Working, Writing
<1>2. (\A b \in NetBuffers : Before(b) => Before(b)') /\ UNCHANGED Before(m_netRead[Len(m_netRead)])
  BY DEF Before
<1> QED
  BY <1>1, <1>2 DEF SessionInv, Credit

(* Exec connects.                                                          *)
LEMMA ConnectInv == SessionInv /\ Connect /\ UNCHANGED client => SessionInv'
<1> SUFFICES ASSUME SessionInv, Connect, UNCHANGED client PROVE SessionInv'
  OBVIOUS
<1>1. Credit'
  BY ExecMoves DEF Connect, netState
<1>2. Frames_Link' /\ Frames_Server'
  BY DEF Connect, netState, queries, SessionInv, Frames_Link, Frames_Server
<1> QED
  BY <1>1, <1>2, ServerInv

(* The handshake hands out the two credits.                                *)
LEMMA HandshakeInv == SessionInv /\ Handshake /\ UNCHANGED client => SessionInv'
<1> SUFFICES ASSUME SessionInv, Handshake, UNCHANGED client PROVE SessionInv'
  OBVIOUS
<1>1. ASSUME m_netWriteCnt' = Credits, exec' = "check" PROVE Credit'
  <2>1. /\ exec = "handshake" /\ exec' = "check"
        /\ UNCHANGED <<net, m_bufferOffset, m_netRead, current>>
    BY <1>1 DEF Handshake
  <2>2. Working = 0 /\ Working' = 0 /\ Writing' = Writing
    BY <2>1 DEF Working, Writing
  <2>3. net # "closed" => Len(m_netRead) + m_netWriteCnt + Writing = 0
    BY <2>1 DEF SessionInv, Credit
  <2>4. net # "closed" => Len(m_netRead) = 0 /\ Writing = 0 /\ m_netRead = <<>>
    <3>1. \A n \in Nat, c \in Nat, w \in {0, 1} : n + c + w = 0 => n = 0 /\ w = 0
      OBVIOUS
    <3>2. net # "closed" => Len(m_netRead) = 0 /\ Writing = 0
      BY <2>3, <3>1, CreditType
    <3> QED
      BY <3>2, CreditType
  <2>5. m_netWriteCnt' \in Nat
    BY <1>1 DEF Credits
  <2>6. net' # "closed" => Len(m_netRead') + m_netWriteCnt' + Writing' + Working' <= 2
    BY <1>1, <2>1, <2>2, <2>4 DEF Credits
  <2>7. current' # None => exec' = "process"
    BY <2>1 DEF SessionInv, Credit
  <2> QED
    BY <2>1, <2>4, <2>5, <2>6, <2>7 DEF SessionInv, Credit
<1>2. ASSUME CloseSession, UNCHANGED m_netWriteCnt PROVE Credit'
  BY <1>2, ExecMoves DEF Handshake, CloseSession
<1>3. Credit'
  BY <1>1, <1>2 DEF Handshake
<1>4. Frames_Link' /\ Frames_Server'
  BY DEF Handshake, queries, SessionInv, Frames_Link, Frames_Server
<1> QED
  BY <1>3, <1>4, ServerInv

(* Exec looks whether the viewer was closed.                               *)
LEMMA CheckInv == SessionInv /\ Check /\ UNCHANGED client => SessionInv'
<1> SUFFICES ASSUME SessionInv, Check, UNCHANGED client PROVE SessionInv'
  OBVIOUS
<1>1. Credit'
  BY ExecMoves DEF Check, CloseSession, netState
<1>2. up' \in Seq(AnyMsg)
  <2>1. <<Terminate>> \in Seq(AnyMsg)
    BY DEF Terminate, Msg, AnyMsg, Kinds
  <2> QED
    BY <2>1, SendFits DEF Check, SessionInv, Frames_Link
<1>3. Frames_Link' /\ Frames_Server'
  BY <1>2 DEF Check, netState, queries, SessionInv, Frames_Link, Frames_Server
<1> QED
  BY <1>1, <1>3, ServerInv

(* Exec takes a frame that Network received.                               *)
LEMMA TakeFrameInv == SessionInv /\ TakeFrame /\ UNCHANGED client => SessionInv'
<1> SUFFICES ASSUME SessionInv, TakeFrame, UNCHANGED client PROVE SessionInv'
  OBVIOUS
<1>1. /\ m_netRead # <<>> /\ exec = "wait" /\ current = None
      /\ UNCHANGED <<net, m_netWriteCnt, m_bufferOffset>>
  BY DEF TakeFrame, SessionInv, Credit
<1>2. /\ Head(m_netRead) \in NetBuffers /\ m_netRead' \in Seq(NetBuffers)
      /\ Len(m_netRead') = Len(m_netRead) - 1
      /\ \A i \in 1..Len(m_netRead') : m_netRead'[i] = m_netRead[i + 1]
      /\ Head(m_netRead) = m_netRead[1]
  BY <1>1, CreditType, HeadTailProperties DEF TakeFrame
<1>3. Len(m_netRead) \in Nat /\ Len(m_netRead) >= 1 /\ m_netWriteCnt \in Nat /\ Writing \in {0, 1}
  BY <1>1, CreditType
<1>4. Working = 0 /\ Writing' = Writing /\ (Working' = 0 \/ exec' = "process")
  BY <1>1 DEF Working, Writing
<1>5. Working' \in {0, 1}
  BY DEF Working
<1>6. current' \in NetBuffers /\ (current' # None => exec' = "process")
      /\ exec' \in {"closed", "process"}
  BY <1>1, <1>2 DEF TakeFrame, CloseSession, SessionInv, Frames_Server
<1>7. ASSUME net' # "closed"
      PROVE  /\ Len(m_netRead') + m_netWriteCnt' + Writing' + Working' <= 2
             /\ \A a \in DOMAIN m_netRead' : m_netRead'[a] # EndOfStream
             /\ m_netRead' # <<>> => Before(m_netRead[Len(m_netRead)])'
             /\ m_netRead' = <<>> => Before(current)'
  <2>1. /\ Len(m_netRead) + m_netWriteCnt + Writing + Working <= 2
        /\ \A a \in DOMAIN m_netRead : m_netRead[a] # EndOfStream
        /\ Before(m_netRead[Len(m_netRead)])
    BY <1>1, <1>7 DEF SessionInv, Credit
  <2>2. DOMAIN m_netRead = 1..Len(m_netRead) /\ DOMAIN m_netRead' = 1..Len(m_netRead')
    BY <1>2, CreditType, LenProperties
  <2>3. Head(m_netRead) # EndOfStream /\ current' = m_netRead[1] /\ exec' = "process"
    BY <1>2, <1>3, <2>1, <2>2 DEF TakeFrame
  <2>4. Len(m_netRead') + m_netWriteCnt' + Writing' + Working' <= 2
    BY <1>1, <1>2, <1>3, <1>4, <1>5, <2>1
  <2>5. \A a \in DOMAIN m_netRead' : m_netRead'[a] # EndOfStream
    BY <1>2, <1>3, <2>1, <2>2
  <2>7. ASSUME m_netRead' # <<>> PROVE m_netRead'[Len(m_netRead')] = m_netRead[Len(m_netRead)]
    BY <1>2, <1>3, <2>7, NonEmpty
  <2>8. ASSUME m_netRead' = <<>> PROVE Len(m_netRead) = 1
    BY <1>2, <1>3, <2>8
  <2>9. m_netRead' # <<>> => Before(m_netRead[Len(m_netRead)])'
    BY <1>1, <2>1, <2>7 DEF Before
  <2>10. m_netRead' = <<>> => Before(current)'
    BY <1>1, <2>1, <2>3, <2>8 DEF Before
  <2> QED
    BY <2>4, <2>5, <2>9, <2>10
<1>8. Credit'
  <2>1. m_netWriteCnt' \in Nat /\ m_bufferOffset' \in Nat /\ m_bufferOffset' <= 2 * FrameSize
    BY <1>1 DEF SessionInv, Credit
  <2>2. exec' \notin {"connect", "handshake"}
    BY <1>6
  <2> QED
    BY <1>6, <1>7, <2>1, <2>2 DEF Credit
<1>9. Frames_Link' /\ Frames_Server'
  <2>1. UNCHANGED <<prioQueue, lowQueue, spaceLeft, up, down>>
    BY DEF TakeFrame, queries
  <2> QED
    BY <1>2, <1>6, <2>1 DEF SessionInv, Frames_Link, Frames_Server
<1> QED
  BY <1>8, <1>9, ServerInv

(* What is left of a frame being processed ends where the frame did. *)
LEMMA NextItemFits ==
  ASSUME SessionInv, NextItem
  PROVE  /\ Item \in AnyMsg /\ current' \in NetBuffers
         /\ UNCHANGED <<m_netRead, down>> /\ Credit'
<1>1. /\ exec = "process" /\ current.frame # <<>>
      /\ current' = [offset |-> current.offset + 1, frame |-> Tail(current.frame)]
      /\ UNCHANGED <<exec, net, m_netWriteCnt, m_bufferOffset, m_netRead, down>>
  BY DEF NextItem, threadsOfServer
<1>2. /\ current.offset \in Int /\ current.frame \in Seq(AnyMsg)
      /\ Len(current.frame) \in Nat /\ Len(current.frame) <= FrameSize
  BY DEF SessionInv, Frames_Server, NetBuffers, Frames
<1>3. /\ Head(current.frame) \in AnyMsg /\ Tail(current.frame) \in Seq(AnyMsg)
      /\ Len(Tail(current.frame)) = Len(current.frame) - 1
  BY <1>1, <1>2, HeadTailProperties
<1>4. Len(current.frame) >= 1 /\ FrameSize \in Nat
  BY <1>1, <1>2, NonEmpty, LinkAssumption
<1>5. Tail(current.frame) \in Frames
  BY <1>2, <1>3, <1>4 DEF Frames
<1>6. current' \in NetBuffers
  BY <1>1, <1>2, <1>5 DEF NetBuffers
<1>7. current'.offset + Len(current'.frame) = current.offset + Len(current.frame)
  BY <1>1, <1>2, <1>3
<1>8. Credit'
  BY <1>1, <1>7 DEF SessionInv, Credit, Before, Working, Writing
<1> QED
  BY <1>1, <1>3, <1>6, <1>8 DEF Item

(* Exec processes an item.                                                 *)
LEMMA DispatchInv == SessionInv /\ DispatchProcess /\ UNCHANGED client => SessionInv'
<1> SUFFICES ASSUME SessionInv, DispatchProcess, UNCHANGED client PROVE SessionInv'
  OBVIOUS
<1>1. NextItem
  BY DEF DispatchProcess, ProcessThreadContext, ProcessZoneBegin, ProcessZoneEnd,
         ProcessCallstack, ProcessAnswer, ProcessTerminate
<1>2. /\ Item \in AnyMsg /\ current' \in NetBuffers
      /\ UNCHANGED <<m_netRead, down>> /\ Credit'
  BY <1>1, NextItemFits
<1>3. /\ spaceLeft \in Nat /\ prioQueue \in Seq(AnyMsg) /\ lowQueue \in Seq(AnyMsg)
      /\ up \in Seq(AnyMsg)
  BY DEF SessionInv, Frames_Server, Frames_Link
<1>4. IsDesk(Desk)
  BY DeskIs
<1>5. \/ \E d : IsDesk(d) /\ SetDesk(d)
      \/ UNCHANGED <<spaceLeft, prioQueue, lowQueue, up>>
  <2>1. CASE ProcessThreadContext \/ ProcessTerminate
    BY <2>1 DEF ProcessThreadContext, ProcessTerminate, queries
  <2>2. CASE ProcessZoneBegin
    BY <1>4, <2>2, EventDesk, KindsAre DEF ProcessZoneBegin
  <2>3. CASE ProcessZoneEnd
    BY <1>4, <2>3, EventDesk, KindsAre DEF ProcessZoneEnd
  <2>4. CASE ProcessCallstack
    BY <1>4, <2>4, EventDesk, KindsAre DEF ProcessCallstack
  <2>5. CASE ProcessAnswer
    BY <1>4, <2>5, HandledDesk DEF ProcessAnswer
  <2> QED
    BY <2>1, <2>2, <2>3, <2>4, <2>5 DEF DispatchProcess
<1>6. /\ up' \in Seq(AnyMsg) /\ prioQueue' \in Seq(AnyMsg) /\ lowQueue' \in Seq(AnyMsg)
      /\ spaceLeft' \in Nat
  BY <1>3, <1>5 DEF IsDesk, SetDesk
<1>7. Frames_Link' /\ Frames_Server'
  BY <1>2, <1>6 DEF SessionInv, Frames_Link, Frames_Server
<1> QED
  BY <1>2, <1>7, ServerInv

(* The questions that waited and can be sent now.                          *)
LEMMA QueuedFits ==
  ASSUME SessionInv
  PROVE  /\ Queued \in Seq(AnyMsg) /\ spaceLeft - Len(Queued) \in Nat
         /\ SubSeq(prioQueue, PrioToSend + 1, Len(prioQueue)) \in Seq(AnyMsg)
         /\ SubSeq(lowQueue, LowToSend + 1, Len(lowQueue)) \in Seq(AnyMsg)
<1>1. \A s \in Seq(AnyMsg) : \A n \in 0..Len(s) :
        /\ SubSeq(s, 1, n) \in Seq(AnyMsg) /\ Len(SubSeq(s, 1, n)) = n
        /\ SubSeq(s, n + 1, Len(s)) \in Seq(AnyMsg)
  <2> SUFFICES ASSUME NEW s \in Seq(AnyMsg), NEW n \in 0..Len(s)
               PROVE  /\ SubSeq(s, 1, n) \in Seq(AnyMsg) /\ Len(SubSeq(s, 1, n)) = n
                      /\ SubSeq(s, n + 1, Len(s)) \in Seq(AnyMsg)
    OBVIOUS
  <2>1. Len(s) \in Nat /\ n \in Nat /\ n <= Len(s)
    OBVIOUS
  <2>2. \A i \in 1..Len(s) : s[i] \in AnyMsg
    BY ElementOfSeq
  <2>3. \A i \in 1..n : s[i] \in AnyMsg
    BY <2>1, <2>2
  <2>4. \A i \in (n + 1)..Len(s) : s[i] \in AnyMsg
    BY <2>1, <2>2
  <2>5. SubSeq(s, 1, n) \in Seq(AnyMsg) /\ Len(SubSeq(s, 1, n)) = IF 1 <= n THEN n - 1 + 1 ELSE 0
    BY <2>1, <2>3, SubSeqProperties
  <2>6. SubSeq(s, n + 1, Len(s)) \in Seq(AnyMsg)
    BY <2>1, <2>4, SubSeqProperties
  <2> QED
    BY <2>1, <2>5, <2>6
<1>2. /\ prioQueue \in Seq(AnyMsg) /\ lowQueue \in Seq(AnyMsg) /\ spaceLeft \in Nat
      /\ Len(prioQueue) \in Nat /\ Len(lowQueue) \in Nat
  BY DEF SessionInv, Frames_Server
<1>3. PrioToSend \in 0..Len(prioQueue) /\ spaceLeft - PrioToSend \in Nat
  BY <1>2 DEF PrioToSend, Least
<1>4. LowToSend \in 0..Len(lowQueue) /\ (spaceLeft - PrioToSend) - LowToSend \in Nat
  BY <1>2, <1>3 DEF LowToSend, Least
<1>5. /\ SubSeq(prioQueue, 1, PrioToSend) \in Seq(AnyMsg)
      /\ Len(SubSeq(prioQueue, 1, PrioToSend)) = PrioToSend
      /\ SubSeq(prioQueue, PrioToSend + 1, Len(prioQueue)) \in Seq(AnyMsg)
  BY <1>1, <1>2, <1>3
<1>6. /\ SubSeq(lowQueue, 1, LowToSend) \in Seq(AnyMsg)
      /\ Len(SubSeq(lowQueue, 1, LowToSend)) = LowToSend
      /\ SubSeq(lowQueue, LowToSend + 1, Len(lowQueue)) \in Seq(AnyMsg)
  BY <1>1, <1>2, <1>4
<1>7. Queued \in Seq(AnyMsg) /\ Len(Queued) = PrioToSend + LowToSend
  BY <1>5, <1>6, ConcatProperties DEF Queued
<1>8. spaceLeft - Len(Queued) \in Nat
  BY <1>2, <1>3, <1>4, <1>7
<1> QED
  BY <1>5, <1>6, <1>7, <1>8

(* Exec is done with a frame and gives its credit back.                    *)
LEMMA FrameDoneInv == SessionInv /\ FrameDone /\ UNCHANGED client => SessionInv'
<1> SUFFICES ASSUME SessionInv, FrameDone, UNCHANGED client PROVE SessionInv'
  OBVIOUS
<1>1. /\ exec = "process" /\ current' = None /\ m_netWriteCnt' = m_netWriteCnt + 1
      /\ exec' \in {"check", "closed"}
      /\ UNCHANGED <<net, m_bufferOffset, m_netRead, down>>
  BY DEF FrameDone, CloseSession
<1>2. Working = 1 /\ Working' = 0 /\ Writing' = Writing
  BY <1>1 DEF Working, Writing
<1>3. net # "closed" => Len(m_netRead') + m_netWriteCnt' + Writing' + Working' <= 2
  <2>1. net # "closed" => Len(m_netRead) + m_netWriteCnt + Writing + Working <= 2
    BY DEF SessionInv, Credit
  <2> QED
    BY <1>1, <1>2, <2>1, CreditType
<1>4. m_netWriteCnt' \in Nat
  BY <1>1, CreditType
<1>5. Credit'
  BY <1>1, <1>3, <1>4 DEF SessionInv, Credit, Before
<1>6. Queued \in Seq(AnyMsg) /\ Append(Queued, Terminate) \in Seq(AnyMsg)
  <2>1. Terminate \in AnyMsg
    BY DEF Terminate, Msg, AnyMsg, Kinds
  <2> QED
    BY <2>1, QueuedFits, AppendProperties
<1>7. up' \in Seq(AnyMsg)
  BY <1>6, SendFits DEF FrameDone, SessionInv
<1>8. Frames_Link' /\ Frames_Server'
  BY <1>1, <1>7, QueuedFits, Empty DEF FrameDone, SessionInv, Frames_Link, Frames_Server
<1> QED
  BY <1>5, <1>8, ServerInv

(* Network. *)
LEMMA ClosesInv ==
  ASSUME SessionInv, UNCHANGED client, UNCHANGED <<exec, current, queries>>, UNCHANGED link,
         m_netRead' = Append(m_netRead, EndOfStream), net' = "closed",
         UNCHANGED <<m_netWriteCnt, m_bufferOffset>>
  PROVE  SessionInv'
<1>1. m_netRead' \in Seq(NetBuffers)
  BY Empty, AppendProperties DEF SessionInv, Frames_Server
<1>2. Credit'
  BY DEF SessionInv, Credit
<1>3. Frames_Link' /\ Frames_Server'
  BY <1>1 DEF SessionInv, Frames_Link, Frames_Server, link, queries
<1> QED
  BY <1>2, <1>3, ServerInv

(* Network takes a credit.                                                 *)
LEMMA TakeCreditInv == SessionInv /\ TakeCredit /\ UNCHANGED client => SessionInv'
<1> SUFFICES ASSUME SessionInv, TakeCredit, UNCHANGED client PROVE SessionInv'
  OBVIOUS
<1>1. CASE m_shutdownView
  BY <1>1, ClosesInv DEF TakeCredit
<1>2. CASE ~m_shutdownView
  <2>1. /\ net = "credit" /\ net' = "read" /\ m_netWriteCnt > 0
        /\ m_netWriteCnt' = m_netWriteCnt - 1
        /\ UNCHANGED <<exec, m_bufferOffset, m_netRead, current, queries, up, down>>
    BY <1>2 DEF TakeCredit, link
  <2>2. Writing = 0 /\ Writing' = 1 /\ Working' = Working
    BY <2>1 DEF Writing, Working
  <2>3. m_netWriteCnt' \in Nat
    BY <2>1, CreditType
  <2>4. /\ Len(m_netRead) + m_netWriteCnt + Writing + Working <= 2
        /\ exec \in {"connect", "handshake"} => Len(m_netRead) + m_netWriteCnt + Writing = 0
    BY <2>1 DEF SessionInv, Credit
  <2>5. Len(m_netRead') + m_netWriteCnt' + Writing' + Working' <= 2
    BY <2>1, <2>2, <2>4, CreditType
  <2>6. exec \notin {"connect", "handshake"}
    BY <2>1, <2>2, <2>4, CreditType
  <2>7. Credit'
    BY <2>1, <2>3, <2>5, <2>6 DEF SessionInv, Credit, Before
  <2>8. Frames_Link' /\ Frames_Server'
    BY <2>1 DEF SessionInv, Frames_Link, Frames_Server, queries
  <2> QED
    BY <2>7, <2>8, ServerInv
<1> QED
  BY <1>1, <1>2

(* Network receives a frame at the offset that is next.                    *)
LEMMA ReceiveInv == SessionInv /\ Receive /\ UNCHANGED client => SessionInv'
<1> SUFFICES ASSUME SessionInv, Receive, UNCHANGED client PROVE SessionInv'
  OBVIOUS
<1> DEFINE b == [offset |-> m_bufferOffset, frame |-> Head(down)]
<1>1. /\ net = "read" /\ net' = "credit" /\ down # <<>> /\ down' = Tail(down)
      /\ m_netRead' = Append(m_netRead, b)
      /\ m_bufferOffset' = NextOffset(m_bufferOffset + Len(Head(down)))
      /\ UNCHANGED <<exec, m_netWriteCnt, current, queries, up>>
  BY DEF Receive
<1>2. /\ Head(down) \in Frames /\ down' \in Seq(Frames)
  BY <1>1, HeadTailProperties DEF SessionInv, Frames_Link
<1>3. /\ FrameSize \in Nat /\ m_bufferOffset \in Nat /\ m_bufferOffset <= 2 * FrameSize
      /\ Len(Head(down)) \in Nat
  BY <1>2, LinkAssumption DEF SessionInv, Credit, Frames
<1>4. b \in NetBuffers /\ b # EndOfStream
  <2>1. b.offset = m_bufferOffset /\ EndOfStream.offset = -1
    BY DEF EndOfStream
  <2> QED
    BY <1>2, <1>3, <2>1 DEF NetBuffers
<1>5. /\ m_netRead' \in Seq(NetBuffers) /\ m_netRead' # <<>>
      /\ Len(m_netRead') = Len(m_netRead) + 1
      /\ \A i \in 1..Len(m_netRead) : m_netRead'[i] = m_netRead[i]
      /\ m_netRead'[Len(m_netRead')] = b
  BY <1>1, <1>4, CreditType, AppendProperties
<1>6. m_bufferOffset' \in Nat /\ m_bufferOffset' <= 2 * FrameSize
  BY <1>1, <1>3 DEF NextOffset
<1>7. Before(m_netRead[Len(m_netRead)])'
  <2>1. m_netRead'[Len(m_netRead')].offset + Len(m_netRead'[Len(m_netRead')].frame)
          = m_bufferOffset + Len(Head(down))
    BY <1>5
  <2> QED
    BY <1>1, <1>3, <2>1 DEF Before, NextOffset
<1>8. Writing = 1 /\ Writing' = 0 /\ Working' = Working
  BY <1>1 DEF Writing, Working
<1>9. /\ Len(m_netRead) + m_netWriteCnt + Writing + Working <= 2
      /\ exec \in {"connect", "handshake"} => Len(m_netRead) + m_netWriteCnt + Writing = 0
      /\ \A a \in DOMAIN m_netRead : m_netRead[a] # EndOfStream
  BY <1>1 DEF SessionInv, Credit
<1>10. Len(m_netRead') + m_netWriteCnt' + Writing' + Working' <= 2
  BY <1>1, <1>5, <1>8, <1>9, CreditType
<1>11. exec \notin {"connect", "handshake"}
  BY <1>8, <1>9, CreditType
<1>12. \A a \in DOMAIN m_netRead' : m_netRead'[a] # EndOfStream
  <2>1. DOMAIN m_netRead' = 1..(Len(m_netRead) + 1)
    BY <1>5, LenProperties
  <2> QED
    BY <1>4, <1>5, <1>9, <2>1, CreditType
<1>13. m_netWriteCnt' \in Nat /\ (current' # None => exec' = "process")
  BY <1>1 DEF SessionInv, Credit
<1>14. Credit'
  BY <1>1, <1>5, <1>6, <1>7, <1>10, <1>11, <1>12, <1>13 DEF Credit
<1>15. Frames_Link' /\ Frames_Server'
  BY <1>1, <1>2, <1>5 DEF SessionInv, Frames_Link, Frames_Server, queries
<1> QED
  BY <1>14, <1>15, ServerInv

(* Every step of the server keeps the invariant.                           *)
LEMMA ServerStepInv == SessionInv /\ ServerStep => SessionInv'
<1> SUFFICES ASSUME SessionInv, ServerStep PROVE SessionInv'
  OBVIOUS
<1>1. UNCHANGED client
  BY DEF ServerStep
<1>2. CASE Exec
  BY <1>1, <1>2, ConnectInv, HandshakeInv, CheckInv, TakeFrameInv, DispatchInv, FrameDoneInv DEF Exec
<1>3. CASE TakeCredit \/ Receive
  BY <1>1, <1>3, TakeCreditInv, ReceiveInv
<1>4. CASE ReceiveFails
  BY <1>1, <1>4, ClosesInv DEF ReceiveFails
<1> QED
  BY <1>2, <1>3, <1>4 DEF ServerStep, Network

-----------------------------------------------------------------------------
(* The user and the network.                                               *)
LEMMA DisturbInv == SessionInv /\ Disturb => SessionInv'
<1> SUFFICES ASSUME SessionInv, Disturb PROVE SessionInv'
  OBVIOUS
<1>1. UNCHANGED client /\ UNCHANGED <<exec, net, netState, queries>>
  BY DEF Disturb, CloseViewer, server, threadsOfServer
<1>2. up' \in Seq(AnyMsg) /\ down' \in Seq(Frames)
  <2>1. CASE CloseViewer
    BY <2>1 DEF CloseViewer, link, SessionInv, Frames_Link
  <2>2. CASE LoseConnection
    BY <2>2 DEF LoseConnection
  <2> QED
    BY <2>1, <2>2 DEF Disturb
<1>3. Frames_Link' /\ Frames_Server' /\ Credit'
  BY <1>1, <1>2 DEF SessionInv, Frames_Link, Frames_Server, Credit, Before, Working, Writing,
                    netState, queries
<1> QED
  BY <1>1, <1>3, ServerInv

(* A new viewer starts from nothing.                                       *)
LEMMA OpenViewerInv == SessionInv /\ OpenViewer => SessionInv'
<1> SUFFICES ASSUME SessionInv, OpenViewer PROVE SessionInv'
  OBVIOUS
<1>1. QuerySpaceBase \in Nat
  BY LinkAssumption DEF QuerySpaceBase
<1>2. Frames_Link' /\ Frames_Server'
  BY <1>1, Empty DEF OpenViewer, ServerReset, Frames_Link, Frames_Server
<1>3. Working' = 0 /\ Writing' = 0
  BY DEF OpenViewer, ServerReset, Working, Writing
<1>4. Credit'
  BY <1>3, LinkAssumption DEF OpenViewer, ServerReset, Credit
<1> QED
  BY <1>2, <1>4, ServerInv DEF OpenViewer

(* Every step keeps the invariant.                                         *)
LEMMA NextInv == SessionInv /\ [Next]_vars => SessionInv'
<1>1. SessionInv /\ UNCHANGED vars => SessionInv'
  BY DEF vars, link, client, program, server, threadsOfServer, netState, queries, SessionInv,
         Frames_Client, Frames_Link, Frames_Server, Credit, Before, Working, Writing
<1> QED
  BY <1>1, ClientInv, ServerStepInv, DisturbInv, OpenViewerInv DEF Next, Stopped

-----------------------------------------------------------------------------
(* Every frame has its size, and the ring's credits are accounted for:     *)
(* what the buffers of Network and Exec (TracyWorker.cpp:2689-2729,        *)
(* 2833-2915) rest on.                                                     *)
THEOREM SessionInvariant == Spec => []SessionInv
<1> QED
  BY InitInv, NextInv, PTL DEF Spec

(* For every frame size, script and size of the connection: Network never  *)
(* writes outside m_buffer, nor over a frame in use (TracyWorker.cpp:2703).*)
THEOREM BuffersApart == Spec => []NetBuffersApart
<1> QED
  BY SessionInvariant, Apart, PTL
=============================================================================
