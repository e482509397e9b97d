----------------------- MODULE TracySessionEndProofs -----------------------
(***************************************************************************)
(* For every script, frame size and connection: a session that Exec ends   *)
(* because it is complete leaves nothing behind, and every variable has    *)
(* its type.  The argument: behind the client's notice of termination each *)
(* frame has an answer in it, so that a frame not yet read is a question   *)
(* not yet answered; and while the connection lasts Worker stays with it.  *)
(***************************************************************************)
EXTENDS TracyEventOrderProofs

(* The notice of termination in a frame, and in frames; a frame with an    *)
(* answer; and frames that each have one, once the notice has gone before. *)
Notes(f) == \E i \in DOMAIN f : f[i] = Terminate
Noted(fs) == \E i \in DOMAIN fs : Notes(fs[i])
Answers(f) == f # <<>> => Questions(f) # {}
Orderly(told, fs) ==
    \A i \in DOMAIN fs : told \/ (\E j \in DOMAIN fs : j < i /\ Notes(fs[j])) => Answers(fs[i])

(* The stream, from where the server is.                                   *)
Final == {"final", "finalSymbols", "finalDequeue", "finalCommit"}
Told == m_terminate \/ Notes(current.frame)
Notice ==
    /\ Orderly(Told, Unread) /\ Orderly(Told \/ Noted(Unread), down)
    /\ Told \/ Noted(Unread) \/ Noted(down) => worker \in Final \cup {"gone"}

(* No frame is empty.                                                      *)
Filled ==
    /\ \A i \in DOMAIN down : down[i] # <<>>
    /\ \A i \in DOMAIN m_netRead : m_netRead[i].frame = <<>> => m_netRead[i] = EndOfStream

(* What the client will still send after the notice are answers.           *)
LastWords ==
    /\ ~Notes(buffer)
    /\ worker \in Final => m_shutdown /\ queue["main"] = <<>> /\ Answers(buffer)

(* Worker leaves a server only when the connection is lost.                *)
Lasts ==
    /\ Connected \/ (exec = "handshake" /\ reply = "welcome") =>
          lost \/ worker \notin {"lost", "reject", "gone"}
    /\ exec = "connect" => serverEnd = "none" /\ reply = "none"

EndInv == OrderInv /\ Notice /\ Filled /\ LastWords /\ Lasts

-----------------------------------------------------------------------------
(* Frames and the notice.                                                  *)
LEMMA TerminateIs == Terminate \in AnyMsg /\ Terminate.kind = "terminate" /\ Terminate.kind \notin QueryKinds
BY DEF Terminate, Msg, AnyMsg, Kinds, QueryKinds, UrgentKinds

(* Nothing is noted in what is empty.                                      *)
LEMMA NothingNotes == ~Notes(<<>>) /\ ~Noted(<<>>) /\ Answers(<<>>) /\ \A told : Orderly(told, <<>>)
BY DEF Notes, Noted, Answers, Orderly

(* A sequence with a question in it asks.                                  *)
LEMMA OneAnswers == ASSUME NEW s, NEW i \in DOMAIN s, s[i].kind \in QueryKinds PROVE Answers(s)
BY QuestionsAre DEF Answers

(* One item or two.                                                        *)
LEMMA OneOrTwo == \A n : n = 1 \/ n = 2 => n \in Nat /\ n >= 1 /\ n <= 2
OBVIOUS

(* Two parts of a frame.                                                   *)
LEMMA NotesConcat ==
  ASSUME NEW s \in Seq(AnyMsg), NEW t \in Seq(AnyMsg)
  PROVE  /\ ~Notes(s) /\ ~Notes(t) => ~Notes(s \o t)
         /\ Answers(s) /\ s # <<>> => Answers(s \o t)
         /\ Answers(t) /\ t # <<>> => Answers(s \o t)
         /\ s # <<>> => s \o t # <<>>
<1> DEFINE u == s \o t
<1>1. /\ Len(s) \in Nat /\ DOMAIN s = 1..Len(s) /\ Len(t) \in Nat /\ DOMAIN t = 1..Len(t)
      /\ DOMAIN u = 1..(Len(s) + Len(t)) /\ Len(u) = Len(s) + Len(t)
      /\ \A i \in 1..Len(s) : u[i] = s[i]
      /\ \A i \in 1..(Len(s) + Len(t)) : i > Len(s) => u[i] = t[i - Len(s)]
  OBVIOUS
<1>2. Questions(u) = Questions(s) \cup Questions(t)
  BY SingleConcat
<1>3. s # <<>> => u # <<>>
  BY <1>1
<1> HIDE DEF u
<1>4. \A i \in 1..(Len(s) + Len(t)) : i \in 1..Len(s) \/ (i > Len(s) /\ i - Len(s) \in 1..Len(t))
  BY <1>1
<1>5. ~Notes(s) /\ ~Notes(t) => ~Notes(u)
  BY <1>1, <1>4 DEF Notes
<1> QED
  BY <1>2, <1>3, <1>5 DEF Answers, u

(* What is asked of frames when more is told is asked when less is.        *)
LEMMA OrderlyLess ==
  ASSUME NEW told \in BOOLEAN, NEW less \in BOOLEAN, less => told, NEW fs, Orderly(told, fs)
  PROVE  Orderly(less, fs)
BY DEF Orderly

(* A frame more.                                                           *)
LEMMA OrderlyAppend ==
  ASSUME NEW told \in BOOLEAN, NEW S, NEW fs \in Seq(S), NEW f \in S, Orderly(told, fs),
         told \/ Noted(fs) => Answers(f)
  PROVE  /\ Orderly(told, Append(fs, f))
         /\ Noted(Append(fs, f)) <=> Noted(fs) \/ Notes(f)
<1> DEFINE t == Append(fs, f)
<1>1. /\ Len(fs) \in Nat /\ DOMAIN fs = 1..Len(fs) /\ DOMAIN t = 1..(Len(fs) + 1)
      /\ \A i \in 1..Len(fs) : t[i] = fs[i]
      /\ t[Len(fs) + 1] = f
  OBVIOUS
<1> HIDE DEF t
<1>2. \A i \in 1..(Len(fs) + 1) : i \in 1..Len(fs) \/ i = Len(fs) + 1
  BY <1>1
<1>3. Noted(t) <=> Noted(fs) \/ Notes(f)
  <2>1. Len(fs) + 1 \in DOMAIN t /\ \A i \in 1..Len(fs) : i \in DOMAIN t
    BY <1>1
  <2> QED
    BY <1>1, <1>2, <2>1 DEF Noted
<1>4. Orderly(told, t)
  <2> SUFFICES ASSUME NEW i \in 1..(Len(fs) + 1),
                      told \/ \E j \in 1..(Len(fs) + 1) : j < i /\ Notes(t[j])
               PROVE  Answers(t[i])
    BY <1>1 DEF Orderly
  <2>1. \A j \in 1..(Len(fs) + 1) : j < i => j \in 1..Len(fs)
    BY <1>1
  <2>2. told \/ \E j \in 1..Len(fs) : j < i /\ Notes(fs[j])
    BY <1>1, <2>1
  <2>3. CASE i \in 1..Len(fs)
    BY <1>1, <2>2, <2>3 DEF Orderly
  <2>4. CASE i = Len(fs) + 1
    BY <1>1, <2>2, <2>4 DEF Noted
  <2> QED
    BY <1>2, <2>3, <2>4
<1> QED
  BY <1>3, <1>4 DEF t

(* A frame less.                                                           *)
LEMMA OrderlyTail ==
  ASSUME NEW told \in BOOLEAN, NEW S, NEW fs \in Seq(S), fs # <<>>, Orderly(told, fs)
  PROVE  /\ Orderly(told \/ Notes(Head(fs)), Tail(fs)) /\ (told => Answers(Head(fs)))
         /\ Noted(fs) <=> Notes(Head(fs)) \/ Noted(Tail(fs))
<1> DEFINE t == Tail(fs)
<1> DEFINE n == Len(fs)
<1>1. /\ n \in Nat /\ n >= 1 /\ DOMAIN fs = 1..n /\ DOMAIN t = 1..(n - 1) /\ Head(fs) = fs[1]
      /\ \A i \in 1..(n - 1) : t[i] = fs[i + 1]
  OBVIOUS
<1> HIDE DEF t, n
<1>2. 1 \in 1..n /\ \A i \in 1..(n - 1) : i + 1 \in 1..n /\ 1 < i + 1
  BY <1>1
<1>3. \A i \in 1..n : i = 1 \/ (i - 1 \in 1..(n - 1) /\ (i - 1) + 1 = i)
  BY <1>1
<1>4. Noted(fs) <=> Notes(fs[1]) \/ Noted(t)
  BY <1>1, <1>2, <1>3 DEF Noted
<1>5. Orderly(told \/ Notes(fs[1]), t)
  <2> SUFFICES ASSUME NEW i \in 1..(n - 1),
                      told \/ Notes(fs[1]) \/ \E j \in 1..(n - 1) : j < i /\ Notes(t[j])
               PROVE  Answers(t[i])
    BY <1>1 DEF Orderly
  <2>1. \A j \in 1..(n - 1) : j < i => j + 1 < i + 1
    OBVIOUS
  <2>2. told \/ \E j \in 1..n : j < i + 1 /\ Notes(fs[j])
    BY <1>1, <1>2, <2>1
  <2> QED
    BY <1>1, <1>2, <2>2 DEF Orderly
<1>6. told => Answers(fs[1])
  BY <1>1, <1>2 DEF Orderly
<1> QED
  BY <1>1, <1>4, <1>5, <1>6 DEF t
-----------------------------------------------------------------------------
(* Types that the invariant gives.                                         *)
LEMMA EndTypes ==
  ASSUME EndInv
  PROVE  /\ SessionInv /\ queue \in [Producers -> Seq(AnyMsg)] /\ "main" \in Producers
         /\ down \in Seq(Frames) /\ Unread \in Seq(Frames) /\ m_netRead \in Seq(NetBuffers)
         /\ buffer \in Seq(AnyMsg) /\ up \in Seq(AnyMsg) /\ m_symbolQueue \in Seq(AnyMsg)
         /\ current.frame \in Seq(AnyMsg) /\ Packets(up)
<1>1. SessionInv /\ queue \in [Producers -> Seq(AnyMsg)] /\ "main" \in Producers
  BY OrderTypes DEF EndInv
<1>2. Packets(up)
  BY DEF EndInv, OrderInv, QuestionQueues, Packets
<1> QED
  BY <1>1, <1>2, UnreadIs DEF SessionInv, Frames_Client, Frames_Link, Frames_Server, NetBuffers, Frames

(* The client.  What it sends while it sends: never the notice, and after  *)
(* the notice frames with an answer.                                       *)
Speaks ==
    /\ ~Notes(buffer') /\ (worker \in Final => Answers(buffer'))
    /\ \/ down' = down
       \/ \E f \in Frames : /\ down' = Append(down, f) /\ f # <<>> /\ ~Notes(f)
                            /\ worker \in Final => Answers(f)

(* Items go to the buffer, the last of them an answer after the notice.    *)
LEMMA AppendedSpeaks ==
  ASSUME EndInv, NEW items \in Seq(AnyMsg), Len(items) = 1 \/ Len(items) = 2, ~Notes(items),
         AppendData(items),
         worker \in Final => items[Len(items)].kind \in QueryKinds
  PROVE  Speaks
<1> DEFINE fit == FrameSize - Len(buffer)
<1>1. /\ buffer \in Seq(AnyMsg) /\ Len(buffer) \in Nat /\ Len(buffer) <= FrameSize
      /\ Len(items) \in Nat /\ Len(items) >= 1 /\ Len(items) <= 2
      /\ FrameSize \in Nat /\ FrameSize > 1
      /\ DOMAIN items = 1..Len(items) /\ items # <<>>
  <2>1. buffer \in Frames
    BY EndTypes DEF SessionInv, Frames_Client
  <2>2. Len(items) \in Nat /\ Len(items) >= 1 /\ Len(items) <= 2
    BY OneOrTwo
  <2>3. DOMAIN items = 1..Len(items) /\ items # <<>>
    BY <2>2
  <2> QED
    BY <2>1, <2>2, <2>3, LinkAssumption DEF Frames
<1>2. ~Notes(buffer) /\ (worker \in Final => Answers(buffer))
  BY DEF EndInv, LastWords
<1>3. worker \in Final => Answers(items)
  BY <1>1, OneAnswers
<1>4. CASE ~Overflows(items)
  <2>1. buffer' = buffer \o items /\ down' = down
    BY <1>4 DEF AppendData
  <2> QED
    BY <1>1, <1>2, <1>3, <2>1, NotesConcat DEF Speaks
<1>5. CASE Overflows(items)
  <2> DEFINE part == SubSeq(items, 1, fit)
  <2> DEFINE rest == SubSeq(items, fit + 1, Len(items))
  <2>1. fit \in 0..Len(items) /\ fit < Len(items) /\ Len(buffer) > 0 /\ fit \in Nat
    <3>1. Len(buffer) + Len(items) > FrameSize
      BY <1>5 DEF Overflows
    <3>2. \A b, n, s \in Nat : b <= s /\ n >= 1 /\ n <= 2 /\ s > 1 /\ b + n > s =>
             s - b \in 0..n /\ s - b < n /\ b > 0 /\ s - b \in Nat
      OBVIOUS
    <3> QED
      BY <1>1, <3>1, <3>2
  <2>2. buffer' = rest /\ down' \in {down, Append(down, buffer \o part)}
    BY <1>5 DEF AppendData
  <2>3. /\ part \in Seq(AnyMsg) /\ Len(part) = fit /\ \A i \in 1..fit : part[i] = items[i]
        /\ rest \in Seq(AnyMsg) /\ Len(rest) = Len(items) - fit
        /\ \A i \in 1..(Len(items) - fit) : rest[i] = items[fit + i]
    <3> HIDE DEF fit
    <3> QED
      BY <2>1, SplitParts
  <2> HIDE DEF part, rest, fit
  <2>4. DOMAIN part = 1..fit /\ DOMAIN rest = 1..(Len(items) - fit) /\ buffer # <<>>
    BY <2>1, <2>3
  <2>5. ~Notes(part) /\ ~Notes(rest)
    <3>1. (\A i \in 1..fit : i \in 1..Len(items)) /\ \A i \in 1..(Len(items) - fit) : fit + i \in 1..Len(items)
      BY <1>1, <2>1
    <3> QED
      BY <1>1, <2>3, <2>4, <3>1 DEF Notes
  <2>6. worker \in Final => Answers(rest)
    <3>1. Len(items) - fit \in 1..(Len(items) - fit) /\ fit + (Len(items) - fit) = Len(items)
      BY <1>1, <2>1
    <3>2. rest[Len(items) - fit] = items[Len(items)]
      BY <2>3, <3>1
    <3> QED
      BY <2>4, <3>1, <3>2, OneAnswers
  <2>7. /\ buffer \o part # <<>> /\ ~Notes(buffer \o part)
        /\ worker \in Final => Answers(buffer \o part)
    BY <1>1, <1>2, <2>3, <2>4, <2>5, NotesConcat
  <2>8. buffer \o part \in Frames
    <3>1. buffer \o part \in Seq(AnyMsg) /\ Len(buffer \o part) = Len(buffer) + Len(part)
      <4>1. buffer \in Seq(AnyMsg) /\ part \in Seq(AnyMsg)
        BY <1>1, <2>3
      <4> QED
        BY <4>1, ConcatProperties
    <3>2. Len(buffer) + fit = FrameSize
      BY <1>1 DEF fit
    <3> QED
      BY <1>1, <2>3, <3>1, <3>2 DEF Frames
  <2> QED
    BY <2>2, <2>5, <2>6, <2>7, <2>8 DEF Speaks
<1> QED
  BY <1>4, <1>5

(* The buffer is sent as it is.                                            *)
LEMMA CommitSpeaks ==
  ASSUME EndInv, buffer # <<>>, Commit
  PROVE  Speaks
<1>1. buffer \in Frames /\ ~Notes(buffer) /\ (worker \in Final => Answers(buffer))
  BY EndTypes DEF EndInv, LastWords, SessionInv, Frames_Client
<1>2. buffer' = <<>> /\ down' \in {down, Append(down, buffer)}
  BY DEF Commit
<1> QED
  BY <1>1, <1>2, NothingNotes DEF Speaks

(* An item of a queue is not the notice, and one of the threads' an answer.*)
LEMMA QueuedItem ==
  ASSUME EndInv, NEW p \in Producers, queue[p] # <<>>
  PROVE  /\ Head(queue[p]) \in AnyMsg /\ Head(queue[p]) # Terminate
         /\ worker \in Final => p # "main" /\ Head(queue[p]).kind \in QueryKinds
<1>1. queue[p] \in Seq(AnyMsg)
  BY EndTypes
<1>2. CASE p = "main"
  <2>1. /\ Latest(script, made, queue["main"]) /\ Len(queue["main"]) >= 1
        /\ \A i \in DOMAIN script : script[i].kind \in EventKinds
    BY <1>1, <1>2 DEF EndInv, OrderInv, EventQueues
  <2>2. Head(queue["main"]) = queue["main"][1] /\ Head(queue["main"]) \in AnyMsg
    BY <1>1, <1>2
  <2>3. Len(queue["main"]) \in Nat /\ made \in Nat /\ DOMAIN script = 1..Len(script) /\ Len(script) \in Nat
    BY OrderTypes DEF EndInv
  <2>4. (made - Len(queue["main"])) + 1 \in DOMAIN script
    BY <2>1, <2>3 DEF Latest
  <2>5. Head(queue["main"]).kind \in EventKinds
    <3>1. 1 \in 1..Len(queue["main"])
      BY <2>1, <2>3
    <3>2. queue["main"][1] = script[(made - Len(queue["main"])) + 1]
      BY <2>1, <3>1 DEF Latest
    <3> QED
      BY <2>1, <2>2, <2>4, <3>2
  <2>6. Head(queue["main"]) # Terminate
    BY <2>5, TerminateIs DEF EventKinds
  <2> QED
    BY <1>2, <2>2, <2>6 DEF EndInv, LastWords
<1>3. CASE p # "main"
  <2>1. AllQuestions(queue[p])
    BY <1>3 DEF EndInv, OrderInv, QuestionQueues
  <2>2. Head(queue[p]).kind \in QueryKinds /\ Head(queue[p]) \in AnyMsg
    BY <1>1, <2>1, PacketsTail
  <2> QED
    BY <1>3, <2>2, TerminateIs
<1> QED
  BY <1>2, <1>3

(* An item is taken from a queue and sent.                                 *)
LEMMA DequeueSpeaks ==
  ASSUME EndInv, NEW p \in Producers, NEW next, NEW failed, Dequeue(p, next, failed)
  PROVE  Speaks /\ (worker \in Final => queue'["main"] = queue["main"]) /\ worker' \in {next, failed}
<1> DEFINE m == Head(queue[p])
<1>1. /\ m \in AnyMsg /\ m # Terminate
      /\ worker \in Final => p # "main" /\ m.kind \in QueryKinds
  BY QueuedItem DEF Dequeue
<1>2. /\ AppendData(NextItems(p)) /\ queue' = [queue EXCEPT ![p] = Tail(@)] /\ worker' \in {next, failed}
      /\ NextItems(p) = Append(ThreadCtxCheck(p), m)
  BY DEF Dequeue, Goto, NextItems
<1> HIDE DEF m
<1>3. Msg("context", p) \in AnyMsg /\ Msg("context", p) # Terminate
  <2>1. Msg("context", p).kind = "context"
    BY DEF Msg
  <2> QED
    BY <2>1, TerminateIs, ProducersAssumption DEF Msg, AnyMsg, Kinds
<1> DEFINE t == ThreadCtxCheck(p)
<1>4. t \in Seq(AnyMsg) /\ (Len(t) = 0 \/ Len(t) = 1) /\ \A i \in 1..Len(t) : t[i] = Msg("context", p)
  BY <1>3 DEF ThreadCtxCheck
<1>5. /\ NextItems(p) \in Seq(AnyMsg) /\ (Len(NextItems(p)) = 1 \/ Len(NextItems(p)) = 2)
      /\ NextItems(p)[Len(NextItems(p))] = m
      /\ \A i \in DOMAIN NextItems(p) : NextItems(p)[i] \in {Msg("context", p), m}
  <2>1. NextItems(p) = Append(t, m)
    BY <1>2
  <2> HIDE DEF t
  <2>2. /\ Append(t, m) \in Seq(AnyMsg) /\ Len(Append(t, m)) = Len(t) + 1 /\ Append(t, m)[Len(t) + 1] = m
        /\ \A i \in 1..Len(t) : Append(t, m)[i] = t[i]
        /\ DOMAIN Append(t, m) = 1..(Len(t) + 1)
    BY <1>1, <1>4, AppendProperties
  <2>3. \A i \in 1..(Len(t) + 1) : i \in 1..Len(t) \/ i = Len(t) + 1
    BY <1>4
  <2> QED
    BY <1>4, <2>1, <2>2, <2>3
<1>6. ~Notes(NextItems(p))
  BY <1>1, <1>3, <1>5 DEF Notes
<1>7. Speaks
  BY <1>1, <1>2, <1>5, <1>6, AppendedSpeaks
<1>8. worker \in Final => queue'["main"] = queue["main"]
  BY <1>1, <1>2, EndTypes
<1> QED
  BY <1>2, <1>7, <1>8

(* A packet of the server is answered, or passed on.                       *)
LEMMA HandleSpeaks ==
  ASSUME EndInv, HandleServerQuery
  PROVE  Speaks /\ UNCHANGED <<program, queue, worker>>
<1> DEFINE m == Head(up)
<1>1. up \in Seq(AnyMsg) /\ up # <<>> /\ m # Terminate /\ Packets(up)
  BY EndTypes DEF HandleServerQuery, HasQuery
<1>2. m \in AnyMsg /\ m.kind \in QueryKinds
  BY <1>1, PacketsTail
<1>3. UNCHANGED <<program, queue, worker>>
  BY DEF HandleServerQuery
<1>4. CASE m.kind \in ForSymbolWorker
  <2>1. UNCHANGED <<buffer, down>>
    BY <1>4 DEF HandleServerQuery
  <2> QED
    BY <1>3, <2>1 DEF Speaks, EndInv, LastWords
<1>5. CASE m.kind \notin ForSymbolWorker
  <2>1. AppendData(<<m>>)
    BY <1>5 DEF HandleServerQuery
  <2> HIDE DEF m
  <2>2. /\ <<m>> \in Seq(AnyMsg) /\ Len(<<m>>) = 1 /\ <<m>>[1] = m /\ DOMAIN <<m>> = {1}
    BY <1>2
  <2>3. ~Notes(<<m>>)
    BY <1>1, <2>2 DEF Notes
  <2>4. Len(<<m>>) = 1 /\ <<m>>[Len(<<m>>)].kind \in QueryKinds
    BY <1>2, <2>2
  <2>5. Speaks
    BY <2>1, <2>2, <2>3, <2>4, AppendedSpeaks
  <2> QED
    BY <1>3, <2>5
<1> QED
  BY <1>4, <1>5
(* A frame, or none, is sent.                                              *)
LEMMA SentEnds ==
  ASSUME EndInv, UNCHANGED server,
         \/ down' = down
         \/ \E f \in Frames :
               /\ down' = Append(down, f) /\ f # <<>> /\ (Notes(f) => worker' \in Final \cup {"gone"})
               /\ Told \/ Noted(Unread) \/ Noted(down) => Answers(f),
         worker \in Final \cup {"gone"} => worker' \in Final \cup {"gone"}
  PROVE  Notice' /\ Filled'
<1>1. UNCHANGED <<current, m_netRead, m_terminate>> /\ Told' = Told /\ Unread' = Unread
  BY DEF server, netState, traceData, Told, Unread
<1>2. /\ Orderly(Told, Unread) /\ Orderly(Told \/ Noted(Unread), down)
      /\ Told \/ Noted(Unread) \/ Noted(down) => worker \in Final \cup {"gone"}
  BY DEF EndInv, Notice
<1>3. /\ \A i \in DOMAIN down : down[i] # <<>>
      /\ \A i \in DOMAIN m_netRead : m_netRead[i].frame = <<>> => m_netRead[i] = EndOfStream
  BY DEF EndInv, Filled
<1>4. CASE down' = down
  BY <1>1, <1>2, <1>3, <1>4 DEF Notice, Filled
<1>5. CASE down' # down
  <2>1. PICK f \in Frames :
          /\ down' = Append(down, f) /\ f # <<>> /\ (Notes(f) => worker' \in Final \cup {"gone"})
          /\ Told \/ Noted(Unread) \/ Noted(down) => Answers(f)
    BY <1>5
  <2>2. down \in Seq(Frames)
    BY EndTypes
  <2> DEFINE told == Told \/ Noted(Unread)
  <2>3. told \in BOOLEAN /\ Orderly(told, down) /\ (told \/ Noted(down) => Answers(f))
    BY <1>2, <2>1
  <2> HIDE DEF told
  <2>4. Orderly(told, down') /\ (Noted(down') <=> Noted(down) \/ Notes(f))
    BY <2>1, <2>2, <2>3, OrderlyAppend
  <2>5. Notice'
    BY <1>1, <1>2, <2>1, <2>4 DEF Notice, told
  <2>6. Filled'
    <3>1. \A i \in DOMAIN Append(down, f) : i \in DOMAIN down \/ Append(down, f)[i] = f
      BY <2>1, <2>2
    <3>2. \A i \in DOMAIN down : Append(down, f)[i] = down[i]
      BY <2>1, <2>2
    <3> QED
      BY <1>1, <1>3, <2>1, <3>1, <3>2 DEF Filled
  <2> QED
    BY <2>5, <2>6
<1> QED
  BY <1>4, <1>5

(* A step in which Worker sends.                                           *)
LEMMA SpeaksEnds ==
  ASSUME EndInv, UNCHANGED server, Speaks, worker # "gone", m_shutdown' = m_shutdown,
         worker \in Final => queue'["main"] = queue["main"] /\ worker' \in Final \cup {"gone"},
         worker' \in Final => worker \in Final
  PROVE  Notice' /\ Filled' /\ LastWords'
<1>1. Told \/ Noted(Unread) \/ Noted(down) => worker \in Final
  BY DEF EndInv, Notice
<1>2. Notice' /\ Filled'
  BY <1>1, SentEnds DEF Speaks
<1>3. LastWords'
  BY DEF Speaks, LastWords, EndInv
<1> QED
  BY <1>2, <1>3

(* A step in which nothing is sent.                                        *)
LEMMA QuietEnds ==
  ASSUME EndInv, UNCHANGED server, UNCHANGED <<down, buffer>>, m_shutdown => m_shutdown',
         worker \in Final => queue'["main"] = queue["main"],
         worker \in Final \cup {"gone"} => worker' \in Final \cup {"gone"},
         worker' \in Final => worker \in Final
  PROVE  Notice' /\ Filled' /\ LastWords'
<1>1. Notice' /\ Filled'
  BY SentEnds
<1>2. LastWords'
  BY DEF LastWords, EndInv
<1> QED
  BY <1>1, <1>2

(* The notice itself.                                                      *)
LEMMA TerminateEnds ==
  ASSUME EndInv, UNCHANGED server, SendTerminate
  PROVE  Notice' /\ Filled' /\ LastWords'
<1>1. /\ worker = "terminate" /\ worker' \in {"final", "gone"} /\ UNCHANGED <<program, queue, buffer>>
      /\ down' \in {down, Append(down, <<Terminate>>)}
  BY DEF SendTerminate, Goto
<1>2. m_shutdown /\ buffer = <<>> /\ queue["main"] = <<>>
  BY <1>1 DEF EndInv, OrderInv, Stages, Ending
<1>3. <<Terminate>> \in Frames /\ <<Terminate>> # <<>>
  BY TerminateIs, LinkAssumption DEF Frames
<1>4. ~(Told \/ Noted(Unread) \/ Noted(down))
  BY <1>1 DEF EndInv, Notice, Final
<1>5. Notice' /\ Filled'
  BY <1>1, <1>3, <1>4, SentEnds DEF Final
<1>6. LastWords'
  BY <1>1, <1>2, NothingNotes DEF LastWords, program
<1> QED
  BY <1>5, <1>6

(* Every step of the client.                                               *)
LEMMA ClientEnds == EndInv /\ ClientStep /\ UNCHANGED server => Notice' /\ Filled' /\ LastWords'
<1> SUFFICES ASSUME EndInv, ClientStep, UNCHANGED server PROVE Notice' /\ Filled' /\ LastWords'
  OBVIOUS
<1> USE DEF program, link
<1>1. /\ m_shutdown => main # "runs"
      /\ worker \in Final => m_shutdown /\ queue["main"] = <<>>
  BY DEF EndInv, OrderInv, Stages, LastWords
<1>2. CASE QueueEvent
  <2>1. main = "runs" /\ UNCHANGED <<down, buffer, worker, m_shutdown>>
    BY <1>2 DEF QueueEvent
  <2> QED
    BY <1>1, <2>1, QuietEnds
<1>3. CASE ShutdownProfiler \/ JoinThreads \/ AwaitSymbols \/ FinalExits \/ FinalPass
           \/ AcceptExits \/ Reject \/ RejectExits \/ MainLeaves
  BY <1>3, QuietEnds DEF ShutdownProfiler, JoinThreads, AwaitSymbols, FinalExits, FinalPass,
                         AcceptExits, Reject, RejectExits, MainLeaves, Goto, Final
<1>4. CASE \E version \in {"same", "other", "unread"} : Accept(version)
  <2>1. /\ worker = "accept" /\ worker' \in {"main", "accept"}
        /\ UNCHANGED <<m_shutdown, queue, down, buffer>>
    BY <1>4 DEF Accept, Goto
  <2> QED
    BY <2>1, QuietEnds DEF Final
<1>5. CASE SymbolWorker \/ DrainSymbols \/ FinalSymbols
  <2>1. queue' = queue \/ \E p \in {"symbols", "worker"} : Resolve(p)
    BY <1>5 DEF SymbolWorker, DrainSymbols, FinalSymbols
  <2>2. queue'["main"] = queue["main"]
    BY <2>1, EndTypes DEF Resolve
  <2> QED
    BY <1>5, <2>2, QuietEnds DEF SymbolWorker, DrainSymbols, FinalSymbols, Goto, Final
<1>6. CASE MainQueries \/ DrainQueries \/ FinalQueries
  <2>1. HandleServerQuery /\ worker # "gone"
    BY <1>6 DEF MainQueries, DrainQueries, FinalQueries
  <2>2. Speaks /\ UNCHANGED <<program, queue, worker>>
    BY <2>1, HandleSpeaks
  <2> QED
    BY <2>1, <2>2, SpeaksEnds
<1>7. CASE RejectClear
  BY <1>7, QuietEnds DEF RejectClear, Final
<1>8. CASE MainDequeue \/ DrainDequeue
  <2>1. worker \in {"main", "drain"} /\ UNCHANGED program
    BY <1>8 DEF MainDequeue, DrainDequeue
  <2>2. CASE \E p \in Producers : Dequeue(p, "mainQueries", "lost") \/ Dequeue(p, "drainQueries", "gone")
    <3>1. Speaks /\ worker' \in {"mainQueries", "lost", "drainQueries", "gone"}
      BY <2>2, DequeueSpeaks
    <3> QED
      BY <2>1, <3>1, SpeaksEnds DEF Final
  <2>3. CASE ~\E p \in Producers : Dequeue(p, "mainQueries", "lost") \/ Dequeue(p, "drainQueries", "gone")
    <3>1. /\ worker' \in {"lost", "mainQueries", "terminate"}
          /\ (buffer # <<>> /\ Commit) \/ UNCHANGED <<down, buffer>>
      BY <1>8, <2>3 DEF MainDequeue, DrainDequeue, Goto
    <3>2. CASE buffer # <<>> /\ Commit
      BY <2>1, <3>1, <3>2, CommitSpeaks, SpeaksEnds DEF Final
    <3>3. CASE UNCHANGED <<down, buffer>>
      BY <2>1, <3>1, <3>3, QuietEnds DEF Final
    <3> QED
      BY <3>1, <3>2, <3>3
  <2> QED
    BY <2>2, <2>3
<1>9. CASE FinalDequeue
  <2>1. worker = "finalDequeue" /\ UNCHANGED program
    BY <1>9 DEF FinalDequeue
  <2>2. CASE \E p \in Producers : Dequeue(p, "finalCommit", "gone")
    <3>1. Speaks /\ queue'["main"] = queue["main"] /\ worker' \in {"finalCommit", "gone"}
      BY <2>1, <2>2, DequeueSpeaks DEF Final
    <3> QED
      BY <2>1, <3>1, SpeaksEnds DEF Final
  <2>3. CASE UNCHANGED <<queue, buffer, down>> /\ worker' = "finalCommit"
    BY <2>1, <2>3, QuietEnds DEF Final
  <2> QED
    BY <1>9, <2>2, <2>3 DEF FinalDequeue, Goto
<1>10. CASE FinalCommit
  <2>1. worker = "finalCommit" /\ worker' \in {"final", "gone"} /\ UNCHANGED <<program, queue>>
    BY <1>10 DEF FinalCommit, Goto
  <2>2. (buffer # <<>> /\ Commit) \/ UNCHANGED <<down, buffer>>
    BY <1>10 DEF FinalCommit
  <2>3. CASE buffer # <<>> /\ Commit
    BY <2>1, <2>3, CommitSpeaks, SpeaksEnds DEF Final
  <2>4. CASE UNCHANGED <<down, buffer>>
    BY <2>1, <2>4, QuietEnds DEF Final
  <2> QED
    BY <2>2, <2>3, <2>4
<1>11. CASE SendTerminate
  BY <1>11, TerminateEnds
<1> QED
  BY <1>2, <1>3, <1>4, <1>5, <1>6, <1>7, <1>8, <1>9, <1>10, <1>11 DEF ClientStep, Main, Worker

(* A server is left only when the connection is lost.                      *)
LEMMA ClientLasts == EndInv /\ ClientStep /\ UNCHANGED server => Lasts'
<1> SUFFICES ASSUME EndInv, ClientStep, UNCHANGED server PROVE Lasts'
  OBVIOUS
<1> USE DEF program, link
<1> DEFINE session == Connected \/ (exec = "handshake" /\ reply = "welcome")
<1>1. /\ session => serverEnd = "open" /\ worker # "accept" /\ (lost \/ worker \notin {"lost", "reject", "gone"})
      /\ exec = "handshake" => up = <<>> /\ serverEnd = "open"
      /\ exec = "connect" => serverEnd = "none" /\ reply = "none"
      /\ Connected => AllQuestions(up)
  BY DEF EndInv, Lasts, OrderInv, SpaceInv, Phases, Begins, Counted
<1>2. exec' = exec /\ Connected' = Connected
  BY DEF server, threadsOfServer, Connected
(* A step that leaves what Lasts is about alone. *)
<1>4. ASSUME serverEnd' = serverEnd, lost' = lost,
             reply' = reply \/ (reply' # "welcome" /\ serverEnd # "none"),
             session => lost \/ worker' \notin {"lost", "reject", "gone"}
      PROVE  Lasts'
  BY <1>1, <1>2, <1>4 DEF Lasts
<1>5. /\ session /\ SendFails => lost
      /\ session /\ EndOfConnection => lost
  <2>1. session /\ ~ClientSees => lost
    BY <1>1 DEF ClientSees
  <2>2. session /\ up # <<>> => Head(up) # Terminate
    <3>1. up # <<>> => 1 \in DOMAIN up /\ Head(up) = up[1]
      BY EndTypes
    <3>2. session /\ up # <<>> => AllQuestions(up)
      BY <1>1
    <3> QED
      BY <3>1, <3>2, TerminateIs DEF AllQuestions
  <2> HIDE DEF session
  <2> QED
    BY <2>1, <2>2 DEF SendFails, EndOfConnection
<1>6. session => worker # "accept" /\ (lost \/ worker \notin {"lost", "reject", "gone"})
  BY <1>1
<1> HIDE DEF session
<1>7. CASE QueueEvent \/ ShutdownProfiler \/ JoinThreads \/ SymbolWorker
  BY <1>4, <1>6, <1>7 DEF QueueEvent, ShutdownProfiler, JoinThreads, SymbolWorker
<1>8. CASE AcceptExits \/ Reject \/ RejectExits \/ RejectClear \/ AwaitSymbols \/ FinalPass
           \/ DrainSymbols \/ FinalExits \/ MainLeaves \/ SendTerminate \/ FinalSymbols
  <2>1. serverEnd' = serverEnd /\ lost' = lost /\ (reply' = reply \/ (reply' # "welcome" /\ serverEnd # "none"))
    BY <1>8 DEF AcceptExits, Reject, RejectExits, RejectClear, AwaitSymbols, FinalPass,
                DrainSymbols, FinalExits, MainLeaves, SendTerminate, FinalSymbols
  <2>2. \/ worker' \in {"lost", "reject", "gone"} /\ (worker \in {"accept", "lost", "reject"} \/ SendFails \/ EndOfConnection)
        \/ worker' \notin {"lost", "reject", "gone"}
        \/ worker' = worker
    BY <1>8 DEF AcceptExits, Reject, RejectExits, RejectClear, AwaitSymbols, FinalPass,
                DrainSymbols, FinalExits, MainLeaves, SendTerminate, FinalSymbols, Goto, CanSend, SendFails
  <2>3. session => lost \/ worker' \notin {"lost", "reject", "gone"}
    BY <1>5, <1>6, <2>2
  <2> QED
    BY <1>4, <2>1, <2>3
<1>9. CASE \E version \in {"same", "other", "unread"} : Accept(version)
  <2>1. serverEnd' = serverEnd /\ serverEnd # "none" /\ lost' = lost /\ worker' \in {"main", "accept"}
    BY <1>9 DEF Accept, Goto
  <2> QED
    BY <1>1, <1>2, <2>1 DEF Lasts
<1>10. CASE MainQueries \/ DrainQueries \/ FinalQueries
  <2>1. serverEnd' = serverEnd /\ lost' = lost /\ reply' = reply /\ worker' = worker
    BY <1>10 DEF MainQueries, DrainQueries, FinalQueries, HandleServerQuery, AppendData
  <2> QED
    BY <1>4, <1>6, <2>1
<1>11. CASE MainDequeue \/ DrainDequeue \/ FinalDequeue \/ FinalCommit
  <2>1. serverEnd' = serverEnd /\ lost' = lost /\ reply' = reply
    BY <1>11 DEF MainDequeue, DrainDequeue, FinalDequeue, FinalCommit, Dequeue, AppendData, Commit
  <2>2. worker' \in {"lost", "reject", "gone"} => SendFails
    BY <1>11 DEF MainDequeue, DrainDequeue, FinalDequeue, FinalCommit, Dequeue, Goto
  <2> QED
    BY <1>4, <1>5, <2>1, <2>2
<1> QED
  BY <1>7, <1>8, <1>9, <1>10, <1>11 DEF ClientStep, Main, Worker
-----------------------------------------------------------------------------
(* The server.  What it leaves of the stream is no less in order.          *)
LEMMA LessTold ==
  ASSUME EndInv, UNCHANGED <<m_netRead, down, worker>>, Told' => Told
  PROVE  Notice' /\ Filled'
<1>1. Unread' = Unread
  BY DEF Unread
<1>2. /\ Orderly(Told, Unread) /\ Orderly(Told \/ Noted(Unread), down)
      /\ Told \/ Noted(Unread) \/ Noted(down) => worker \in Final \cup {"gone"}
  BY DEF EndInv, Notice
<1>3. Orderly(Told', Unread) /\ Orderly(Told' \/ Noted(Unread), down)
  <2>1. Told \in BOOLEAN /\ Told' \in BOOLEAN
    BY DEF Told
  <2>2. \A a, b \in BOOLEAN : \A fs : (b => a) /\ Orderly(a, fs) => Orderly(b, fs)
    BY OrderlyLess
  <2>3. (Told \/ Noted(Unread)) \in BOOLEAN /\ (Told' \/ Noted(Unread)) \in BOOLEAN
    OBVIOUS
  <2> QED
    BY <1>2, <2>1, <2>2, <2>3
<1>4. Notice'
  BY <1>1, <1>2, <1>3 DEF Notice
<1>5. Filled'
  BY DEF EndInv, Filled
<1> QED
  BY <1>4, <1>5

(* Network receives a frame.                                               *)
LEMMA ReceiveEnds ==
  ASSUME EndInv, Receive, UNCHANGED client
  PROVE  Notice' /\ Filled'
<1> DEFINE b == [offset |-> m_bufferOffset, frame |-> Head(down)]
<1>1. /\ down # <<>> /\ down' = Tail(down) /\ m_netRead' = Append(m_netRead, b)
      /\ UNCHANGED <<current, m_terminate, worker>> /\ Told' = Told
  BY DEF Receive, traceData, client, Told
<1>2. /\ down \in Seq(Frames) /\ Unread \in Seq(Frames) /\ m_netRead \in Seq(NetBuffers)
      /\ m_bufferOffset \in Nat
  BY EndTypes DEF SessionInv, Credit
<1>3. Head(down) \in Frames /\ Head(down) # <<>> /\ Tail(down) \in Seq(Frames)
      /\ \A i \in DOMAIN Tail(down) : Tail(down)[i] # <<>>
  <2>1. \A i \in DOMAIN down : down[i] # <<>>
    BY DEF EndInv, Filled
  <2>2. /\ 1 \in DOMAIN down /\ Head(down) = down[1] /\ down[1] \in Frames /\ Tail(down) \in Seq(Frames)
        /\ \A i \in DOMAIN Tail(down) : i + 1 \in DOMAIN down /\ Tail(down)[i] = down[i + 1]
    BY <1>1, <1>2
  <2> QED
    BY <2>1, <2>2
<1>4. b \in NetBuffers /\ b.frame = Head(down)
  BY <1>2, <1>3 DEF NetBuffers
<1>5. Unread' = Append(Unread, Head(down))
  BY <1>1, <1>2, <1>4, UnreadIs, FramesOfAppend
<1> HIDE DEF b
<1>6. /\ Orderly(Told, Unread) /\ Orderly(Told \/ Noted(Unread), down) /\ Told \in BOOLEAN
      /\ Told \/ Noted(Unread) \/ Noted(down) => worker \in Final \cup {"gone"}
  BY DEF EndInv, Notice, Told
<1>7. /\ Orderly(Told \/ Noted(Unread) \/ Notes(Head(down)), Tail(down))
      /\ Told \/ Noted(Unread) => Answers(Head(down))
      /\ Noted(down) <=> Notes(Head(down)) \/ Noted(Tail(down))
  <2> DEFINE told == Told \/ Noted(Unread)
  <2>1. told \in BOOLEAN /\ Orderly(told, down)
    BY <1>6
  <2> HIDE DEF told
  <2>2. /\ Orderly(told \/ Notes(Head(down)), Tail(down)) /\ (told => Answers(Head(down)))
        /\ Noted(down) <=> Notes(Head(down)) \/ Noted(Tail(down))
    BY <1>1, <1>2, <2>1, OrderlyTail
  <2> QED
    BY <2>2 DEF told
<1>8. /\ Orderly(Told, Unread') /\ (Noted(Unread') <=> Noted(Unread) \/ Notes(Head(down)))
  BY <1>2, <1>3, <1>5, <1>6, <1>7, OrderlyAppend
<1>9. Notice'
  <2>1. (Told \/ Noted(Unread')) = (Told \/ Noted(Unread) \/ Notes(Head(down)))
    BY <1>8
  <2>2. Orderly(Told \/ Noted(Unread'), Tail(down))
    BY <1>7, <2>1
  <2> QED
    BY <1>1, <1>6, <1>7, <1>8, <2>2 DEF Notice
<1>10. Filled'
  <2>1. \A i \in DOMAIN m_netRead' : (i \in DOMAIN m_netRead /\ m_netRead'[i] = m_netRead[i]) \/ m_netRead'[i] = b
    BY <1>1, <1>2, <1>4
  <2> QED
    BY <1>1, <1>3, <1>4, <2>1 DEF EndInv, Filled
<1> QED
  BY <1>9, <1>10

(* Network finds that the stream has ended.                                *)
LEMMA EndOfStreamEnds ==
  ASSUME EndInv, m_netRead' = Append(m_netRead, EndOfStream), UNCHANGED <<down, worker, current, m_terminate>>
  PROVE  Notice' /\ Filled'
<1>1. m_netRead \in Seq(NetBuffers) /\ EndOfStream \in NetBuffers /\ EndOfStream.frame = <<>>
  BY EndTypes, Empty DEF EndOfStream
<1>2. Unread' = Append(Unread, <<>>) /\ Unread \in Seq(Frames) /\ <<>> \in Frames /\ Told' = Told
  BY <1>1, EndTypes, UnreadIs, FramesOfAppend, Empty DEF Told
<1>3. Told \in BOOLEAN /\ Orderly(Told, Unread) /\ Answers(<<>>) /\ ~Notes(<<>>)
  BY NothingNotes DEF EndInv, Notice, Told
<1>4. Orderly(Told, Unread') /\ (Noted(Unread') <=> Noted(Unread))
  BY <1>2, <1>3, OrderlyAppend
<1>5. Notice'
  BY <1>2, <1>4 DEF EndInv, Notice
<1>6. Filled'
  <2>1. \A i \in DOMAIN m_netRead' :
           (i \in DOMAIN m_netRead /\ m_netRead'[i] = m_netRead[i]) \/ m_netRead'[i] = EndOfStream
    BY <1>1
  <2> QED
    BY <2>1 DEF EndInv, Filled
<1> QED
  BY <1>5, <1>6

(* Exec takes a frame.                                                     *)
LEMMA TakeFrameEnds ==
  ASSUME EndInv, TakeFrame, UNCHANGED client
  PROVE  Notice' /\ Filled'
<1>1. /\ m_netRead \in Seq(NetBuffers) /\ m_netRead # <<>> /\ m_netRead' = Tail(m_netRead)
      /\ UNCHANGED <<down, m_terminate, worker>>
  BY EndTypes DEF TakeFrame, traceData, client
<1>2. current = None /\ current.frame = <<>>
  BY EndTypes DEF SessionInv, Credit, TakeFrame, None
<1>3. /\ Unread \in Seq(Frames) /\ Unread # <<>> /\ Unread' = Tail(Unread)
      /\ Head(m_netRead).frame = Head(Unread)
  BY <1>1, UnreadIs, FramesOfTail
<1>4. current'.frame = Head(Unread)
  BY <1>2, <1>3 DEF TakeFrame, EndOfStream
<1>5. /\ Orderly(Told, Unread) /\ Orderly(Told \/ Noted(Unread), down) /\ Told \in BOOLEAN
      /\ Told \/ Noted(Unread) \/ Noted(down) => worker \in Final \cup {"gone"}
      /\ Told' <=> Told \/ Notes(Head(Unread))
  BY <1>1, <1>2, <1>4, NothingNotes DEF EndInv, Notice, Told
<1>6. /\ Orderly(Told \/ Notes(Head(Unread)), Tail(Unread))
      /\ Noted(Unread) <=> Notes(Head(Unread)) \/ Noted(Tail(Unread))
  BY <1>3, <1>5, OrderlyTail
<1>7. Notice'
  <2>1. Told' = (Told \/ Notes(Head(Unread)))
        /\ (Told' \/ Noted(Tail(Unread))) = (Told \/ Noted(Unread))
    BY <1>5, <1>6 DEF Told
  <2>2. Orderly(Told', Tail(Unread)) /\ Orderly(Told' \/ Noted(Tail(Unread)), down)
    BY <1>5, <1>6, <2>1
  <2>3. Told' \/ Noted(Tail(Unread)) \/ Noted(down) => worker \in Final \cup {"gone"}
    BY <1>5, <2>1
  <2> QED
    BY <1>1, <1>3, <2>2, <2>3 DEF Notice
<1>8. Filled'
  <2>1. \A i \in DOMAIN Tail(m_netRead) : i + 1 \in DOMAIN m_netRead /\ Tail(m_netRead)[i] = m_netRead[i + 1]
    BY <1>1
  <2> QED
    BY <1>1, <2>1 DEF EndInv, Filled
<1> QED
  BY <1>7, <1>8

(* Exec processes an item, or is through with a frame.                     *)
LEMMA ItemEnds ==
  ASSUME EndInv, DispatchProcess \/ FrameDone, UNCHANGED client
  PROVE  Notice' /\ Filled'
<1>1. UNCHANGED <<m_netRead, down, worker>>
  BY DEF client, DispatchProcess, ProcessThreadContext, ProcessZoneBegin, ProcessZoneEnd,
         ProcessCallstack, ProcessAnswer, ProcessTerminate, NextItem, FrameDone
<1>2. Told' => Told
  <2>1. CASE FrameDone
    BY <2>1, NothingNotes DEF FrameDone, None, Told, traceData
  <2>2. CASE DispatchProcess
    <3>1. /\ current.frame # <<>> /\ current'.frame = Tail(current.frame)
          /\ m_terminate' => m_terminate \/ Head(current.frame) = Terminate
      <4>1. NextItem
        BY <2>2 DEF DispatchProcess, ProcessThreadContext, ProcessZoneBegin, ProcessZoneEnd,
                    ProcessCallstack, ProcessAnswer, ProcessTerminate
      <4>2. m_terminate' = m_terminate \/ Item = Terminate
        BY <2>2 DEF DispatchProcess, ProcessThreadContext, ProcessZoneBegin, ProcessZoneEnd,
                    ProcessCallstack, ProcessAnswer, ProcessTerminate, traceData
      <4> QED
        BY <4>1, <4>2 DEF NextItem, Item
    <3>2. /\ 1 \in DOMAIN current.frame /\ Head(current.frame) = current.frame[1]
          /\ \A i \in DOMAIN Tail(current.frame) :
                i + 1 \in DOMAIN current.frame /\ Tail(current.frame)[i] = current.frame[i + 1]
      BY <3>1, EndTypes
    <3> QED
      BY <3>1, <3>2 DEF Told, Notes
  <2> QED
    BY <2>1, <2>2
<1> QED
  BY <1>1, <1>2, LessTold
(* Every step of the server.                                               *)
LEMMA ServerEnds == EndInv /\ ServerStep => Notice' /\ Filled' /\ LastWords' /\ Lasts'
<1> SUFFICES ASSUME EndInv, ServerStep PROVE Notice' /\ Filled' /\ LastWords' /\ Lasts'
  OBVIOUS
<1>1. UNCHANGED client /\ UNCHANGED <<worker, buffer, queue, m_shutdown>> /\ (Exec \/ Network)
  BY DEF ServerStep, client, program
<1>2. LastWords'
  BY <1>1 DEF EndInv, LastWords
<1>3. Lasts'
  <2>1. Lasts
    BY DEF EndInv
  <2>2. UNCHANGED <<lost, reply>>
    BY <1>1 DEF Exec, Network, Connect, Handshake, Check, TakeFrame, DispatchProcess, FrameDone,
                ProcessThreadContext, ProcessZoneBegin, ProcessZoneEnd, ProcessCallstack, ProcessAnswer,
                ProcessTerminate, NextItem, TakeCredit, Receive, ReceiveFails, link
  <2>3. CASE Network
    <3>1. UNCHANGED <<exec, serverEnd>>
      BY <2>3 DEF Network, TakeCredit, Receive, ReceiveFails, link
    <3> QED
      BY <1>1, <2>1, <2>2, <3>1 DEF Lasts, Connected
  <2>4. CASE Connect
    BY <1>1, <2>1, <2>2, <2>4 DEF Lasts, Connected, Connect
  <2>5. CASE Handshake
    BY <1>1, <2>1, <2>2, <2>5 DEF Lasts, Connected, Handshake, CloseSession
  <2>6. CASE Check \/ TakeFrame \/ FrameDone
    BY <1>1, <2>1, <2>2, <2>6 DEF Lasts, Connected, Check, TakeFrame, FrameDone, CloseSession
  <2>7. CASE DispatchProcess
    <3>1. UNCHANGED <<exec, serverEnd>>
      BY <2>7 DEF DispatchProcess, ProcessThreadContext, ProcessZoneBegin, ProcessZoneEnd,
                  ProcessCallstack, ProcessAnswer, ProcessTerminate, NextItem, threadsOfServer
    <3> QED
      BY <1>1, <2>1, <2>2, <3>1 DEF Lasts, Connected
  <2> QED
    BY <1>1, <2>3, <2>4, <2>5, <2>6, <2>7 DEF Exec
<1>4. Notice' /\ Filled'
  <2>1. CASE Receive
    BY <1>1, <2>1, ReceiveEnds
  <2>2. CASE TakeCredit \/ ReceiveFails
    <3>1. /\ UNCHANGED <<down, current, m_terminate>>
          /\ m_netRead' \in {m_netRead, Append(m_netRead, EndOfStream)}
      BY <2>2 DEF TakeCredit, ReceiveFails, link, traceData
    <3>2. CASE m_netRead' = m_netRead
      BY <1>1, <3>1, <3>2, LessTold DEF Told
    <3> QED
      BY <1>1, <3>1, <3>2, EndOfStreamEnds
  <2>3. CASE TakeFrame
    BY <1>1, <2>3, TakeFrameEnds
  <2>4. CASE DispatchProcess \/ FrameDone
    BY <1>1, <2>4, ItemEnds
  <2>5. CASE Connect \/ Handshake \/ Check
    <3>1. UNCHANGED <<down, current, m_terminate, m_netRead>>
      BY <2>5 DEF Connect, Handshake, Check, netState, traceData
    <3> QED
      BY <1>1, <3>1, LessTold DEF Told
  <2> QED
    BY <1>1, <2>1, <2>2, <2>3, <2>4, <2>5 DEF Exec, Network
<1> QED
  BY <1>2, <1>3, <1>4

-----------------------------------------------------------------------------
(* The user and the network.                                               *)
LEMMA StillEnds ==
  ASSUME EndInv, UNCHANGED client, UNCHANGED <<clientEnd, serverEnd, lost, reply, down>>,
         UNCHANGED <<exec, current, m_netRead, m_terminate>>
  PROVE  Notice' /\ Filled' /\ LastWords' /\ Lasts'
<1>1. UNCHANGED <<worker, buffer, queue, m_shutdown>>
  BY DEF client, program
<1>2. Notice' /\ Filled'
  BY <1>1, LessTold DEF Told
<1> QED
  BY <1>1, <1>2 DEF EndInv, LastWords, Lasts, Connected

(* What was on the connection is lost.                                     *)
LEMMA LoseEnds ==
  ASSUME EndInv, LoseConnection, UNCHANGED server, UNCHANGED client
  PROVE  Notice' /\ Filled' /\ LastWords' /\ Lasts'
<1>1. UNCHANGED <<worker, buffer, queue, m_shutdown>>
  BY DEF client, program
<1>2. /\ lost' = TRUE /\ down' = <<>> /\ UNCHANGED <<serverEnd, reply, exec, current, m_netRead, m_terminate>>
  BY DEF LoseConnection, server, threadsOfServer, netState, traceData
<1>3. Told' = Told /\ Unread' = Unread
  BY <1>2 DEF Told, Unread
<1>4. Notice' /\ Filled'
  BY <1>1, <1>2, <1>3, NothingNotes DEF EndInv, Notice, Filled
<1> QED
  BY <1>1, <1>2, <1>4 DEF EndInv, LastWords, Lasts, Connected

(* Nothing is on the connection of another viewer.                         *)
LEMMA OpenViewerEnds ==
  ASSUME EndInv, OpenViewer
  PROVE  Notice' /\ Filled' /\ LastWords' /\ Lasts'
<1>1. /\ UNCHANGED <<worker, buffer, queue, m_shutdown>>
      /\ down' = <<>> /\ m_netRead' = <<>> /\ current' = None /\ m_terminate' = FALSE
      /\ exec' = "connect" /\ serverEnd' = "none" /\ reply' = "none"
  BY DEF OpenViewer, ServerReset, client, program
<1>2. Unread' = <<>> /\ ~Told'
  BY <1>1, NothingNotes DEF Unread, Told, None
<1>3. Notice' /\ Filled'
  BY <1>1, <1>2, NothingNotes DEF Notice, Filled
<1> QED
  BY <1>1, <1>3 DEF EndInv, LastWords, Lasts, Connected

(* Before the first session.                                               *)
LEMMA InitEnds == Init => EndInv
<1> SUFFICES ASSUME Init PROVE EndInv
  OBVIOUS
<1>1. OrderInv
  BY InitOrder
<1> USE DEF Init, LinkInit, ClientInit, ServerInit
<1>2. Unread = <<>> /\ ~Told
  BY NothingNotes DEF Unread, Told, None
<1>3. Notice /\ Filled
  BY <1>2, NothingNotes DEF Notice, Filled
<1>4. LastWords /\ Lasts
  BY NothingNotes DEF LastWords, Lasts, Connected, Final
<1> QED
  BY <1>1, <1>3, <1>4 DEF EndInv

(* Every step.                                                             *)
LEMMA NextEnds == EndInv /\ [Next]_vars => EndInv'
<1> SUFFICES ASSUME EndInv, [Next]_vars PROVE EndInv'
  OBVIOUS
<1>1. OrderInv'
  BY NextOrder DEF EndInv
<1>2. CASE UNCHANGED vars
  BY <1>1, <1>2, StillEnds DEF vars, link, server, threadsOfServer, netState, traceData, EndInv
<1>3. CASE ClientStep /\ UNCHANGED server
  BY <1>1, <1>3, ClientEnds, ClientLasts DEF EndInv
<1>4. CASE ServerStep
  BY <1>1, <1>4, ServerEnds DEF EndInv
<1>5. CASE Disturb
  <2>1. CASE CloseViewer
    BY <1>1, <1>5, <2>1, StillEnds DEF Disturb, CloseViewer, link, netState, traceData, EndInv
  <2> QED
    BY <1>1, <1>5, <2>1, LoseEnds DEF Disturb, EndInv
<1>6. CASE OpenViewer
  BY <1>1, <1>6, OpenViewerEnds DEF EndInv
<1> QED
  BY <1>2, <1>3, <1>4, <1>5, <1>6 DEF Next, Stopped

-----------------------------------------------------------------------------
(* A queue of questions in which no question is left is empty.             *)
LEMMA NoneLeft ==
  ASSUME NEW s \in Seq(AnyMsg), AllQuestions(s) \/ Answers(s), Questions(s) = {}
  PROVE  s = <<>>
<1>1. \A i \in DOMAIN s : ~AllQuestions(s)
  BY QuestionsAre DEF AllQuestions
<1>2. s # <<>> => 1 \in DOMAIN s
  OBVIOUS
<1> QED
  BY <1>1, <1>2 DEF Answers

(* When all that was asked is answered, no question is anywhere.           *)
LEMMA NothingAsked ==
  ASSUME EndInv, Connected, asked = answered
  PROVE  /\ \A p \in Producers : Questions(queue[p]) = {}
         /\ Questions(up) = {} /\ Questions(m_symbolQueue) = {} /\ Questions(buffer) = {}
         /\ Questions(prioQueue) = {} /\ Questions(lowQueue) = {}
         /\ \A i \in DOMAIN down : Questions(down[i]) = {}
         /\ \A i \in DOMAIN Unread : Questions(Unread[i]) = {}
<1>1. In(Stock, Places) = {}
  BY DEF EndInv, OrderInv, SpaceInv, Counted, Bounded
<1>2. \A a \in Places : Stock[a] = {}
  BY <1>1, InAre
<1>3. StockFacts /\ FramesOf(m_netRead) = Unread
  BY StockIs, UnreadIs
<1>4. /\ \A p \in Producers : Questions(queue[p]) = {}
      /\ Questions(up) = {} /\ Questions(m_symbolQueue) = {} /\ Questions(buffer) = {}
      /\ Questions(prioQueue) = {} /\ Questions(lowQueue) = {}
      /\ InFrames(down) = {} /\ InFrames(Unread) = {}
  BY <1>2, <1>3, PlacesAre DEF StockFacts
<1>5. \A fs : InFrames(fs) = {} => \A i \in DOMAIN fs : Questions(fs[i]) = {}
  BY InFramesAre
<1> QED
  BY <1>4, <1>5

(* The end of a session that is complete.                                  *)
LeavesNothing ==
    exec = "process" /\ exec' = "closed" =>
        /\ asked' = answered' /\ prioQueue' = <<>> /\ lowQueue' = <<>>
        /\ \A b \in Range(m_netRead') : b = EndOfStream
        /\ ~lost => QueuesEmpty /\ m_symbolQueue = <<>> /\ buffer = <<>> /\ down = <<>> /\ up = <<>>

(* Only FrameDone ends a session from there, with all asked answered; so   *)
(* no place has a question, and a frame behind the notice would have one.  *)
LEMMA CompleteLeavesNothing == EndInv /\ [Next]_vars => LeavesNothing
<1> SUFFICES ASSUME EndInv, [Next]_vars, exec = "process", exec' = "closed"
             PROVE  /\ asked' = answered' /\ prioQueue' = <<>> /\ lowQueue' = <<>>
                    /\ \A b \in Range(m_netRead') : b = EndOfStream
                    /\ ~lost => QueuesEmpty /\ m_symbolQueue = <<>> /\ buffer = <<>> /\ down = <<>> /\ up = <<>>
  BY DEF LeavesNothing
<1>1. FrameDone
  <2>1. ~UNCHANGED exec
    OBVIOUS
  <2>2. ServerStep
    BY <2>1 DEF Next, Disturb, CloseViewer, OpenViewer, Stopped, vars, server, threadsOfServer
  <2>3. ~Network
    BY <2>1 DEF Network, TakeCredit, Receive, ReceiveFails
  <2>4. ~DispatchProcess
    BY <2>1 DEF DispatchProcess, ProcessThreadContext, ProcessZoneBegin, ProcessZoneEnd,
                ProcessCallstack, ProcessAnswer, ProcessTerminate, NextItem, threadsOfServer
  <2> QED
    BY <2>2, <2>3, <2>4 DEF ServerStep, Exec, Connect, Handshake, Check, TakeFrame
<1>2. Complete /\ Connected /\ UNCHANGED <<asked, answered, m_netRead>>
  BY <1>1 DEF FrameDone, Connected
<1>3. m_terminate /\ asked = answered
  BY <1>2 DEF Complete
<1>4. /\ \A p \in Producers : Questions(queue[p]) = {}
      /\ Questions(up) = {} /\ Questions(m_symbolQueue) = {} /\ Questions(buffer) = {}
      /\ Questions(prioQueue) = {} /\ Questions(lowQueue) = {}
      /\ \A i \in DOMAIN down : Questions(down[i]) = {}
      /\ \A i \in DOMAIN Unread : Questions(Unread[i]) = {}
  BY <1>2, <1>3, NothingAsked
<1>5. /\ AllQuestions(prioQueue) /\ AllQuestions(lowQueue) /\ AllQuestions(m_symbolQueue)
      /\ AllQuestions(up) /\ \A p \in Producers \ {"main"} : AllQuestions(queue[p])
  BY <1>2 DEF EndInv, OrderInv, QuestionQueues, SpaceInv, Counted
<1>6. prioQueue' = <<>> /\ lowQueue' = <<>>
  <2>1. prioQueue = <<>> /\ lowQueue = <<>> /\ spaceLeft \in Nat
    BY <1>4, <1>5, EndTypes, NoneLeft DEF SessionInv, Frames_Server
  <2>2. PrioToSend = 0 /\ LowToSend = 0
    BY <2>1 DEF PrioToSend, LowToSend, Least
  <2>3. SubSeq(<<>>, 0 + 1, Len(<<>>)) = <<>>
    OBVIOUS
  <2> QED
    BY <1>1, <2>1, <2>2, <2>3 DEF FrameDone
<1>7. \A b \in Range(m_netRead') : b = EndOfStream
  <2>1. Told
    BY <1>3 DEF Told
  <2>2. \A i \in DOMAIN Unread : Unread[i] = <<>>
    BY <1>4, <2>1 DEF EndInv, Notice, Orderly, Answers
  <2>3. \A i \in DOMAIN m_netRead : m_netRead[i] = EndOfStream
    BY <2>2 DEF Unread, EndInv, Filled
  <2> QED
    BY <1>2, <2>3 DEF Range
<1>8. ASSUME ~lost
      PROVE  QueuesEmpty /\ m_symbolQueue = <<>> /\ buffer = <<>> /\ down = <<>> /\ up = <<>>
  <2>1. Told
    BY <1>3 DEF Told
  <2>2. worker \in Final
    BY <1>2, <1>8, <2>1 DEF EndInv, Notice, Lasts
  <2>3. queue["main"] = <<>> /\ Answers(buffer)
    BY <2>2 DEF EndInv, LastWords
  <2>4. m_symbolQueue = <<>> /\ buffer = <<>> /\ up = <<>>
    BY <1>4, <1>5, <2>3, EndTypes, NoneLeft
  <2>5. QueuesEmpty
    <3>1. \A p \in Producers \ {"main"} : queue[p] = <<>>
      BY <1>4, <1>5, EndTypes, NoneLeft
    <3> QED
      BY <2>3, <3>1 DEF QueuesEmpty
  <2>6. down = <<>>
    <3>1. \A i \in DOMAIN down : down[i] = <<>> /\ down[i] # <<>>
      BY <1>4, <2>1 DEF EndInv, Notice, Orderly, Answers, Filled
    <3>2. down \in Seq(Frames) /\ (down # <<>> => 1 \in DOMAIN down)
      BY EndTypes
    <3> QED
      BY <3>1, <3>2
  <2> QED
    BY <2>4, <2>5, <2>6
<1> QED
  BY <1>2, <1>3, <1>6, <1>7, <1>8

(* Behind the notice of termination comes nothing but answers, none is     *)
(* sent without a question, and while the connection lasts Worker serves it*)
(* (Worker, TracyProfiler.cpp:2163-2242).                                  *)
THEOREM EndInvariant == Spec => []EndInv
<1> QED
  BY InitEnds, NextEnds, PTL DEF Spec

(* For every script, frame size and connection: a session that Exec ends   *)
(* by itself (TracyWorker.cpp:2927-2951) leaves no question open and       *)
(* nothing unread or unsent.                                               *)
THEOREM SessionsEndComplete == Spec => EndsComplete
<1>1. EndInv /\ [Next]_vars => [LeavesNothing]_vars
  BY CompleteLeavesNothing
<1> QED
  BY <1>1, EndInvariant, PTL DEF Spec, EndsComplete, LeavesNothing
-----------------------------------------------------------------------------
(* Types.  Of the credits, in the end: when Network has gone it has left   *)
(* the notice of the stream's end, and a frame that Exec is through with   *)
(* makes the count no more than it was.                                    *)
Settled ==
    net = "closed" =>
      /\ m_netWriteCnt <= 2
      /\ exec # "closed" =>
           /\ m_netRead # <<>> /\ m_netRead[Len(m_netRead)] = EndOfStream
           /\ Len(m_netRead) + m_netWriteCnt + Working <= 3
      /\ exec \in {"connect", "handshake"} => m_shutdownView

(* The values of what says where the threads are.                          *)
WorkerPlaces ==
    {"accept", "main", "mainQueries", "lost", "reject", "symbols", "drain", "drainQueries",
     "drainSymbols", "terminate"} \cup Final \cup {"gone"}
ClientPlaces ==
    /\ clientEnd \in {"none", "open", "closed"} /\ reply \in {"none", "welcome", "mismatch", "notAvailable"}
    /\ main \in {"runs", "joins", "ended"} /\ worker \in WorkerPlaces
    /\ m_shutdown \in BOOLEAN /\ symbolsGone \in BOOLEAN
ServerPlaces ==
    /\ serverEnd \in {"none", "open", "closed"} /\ lost \in BOOLEAN
    /\ m_shutdownView \in BOOLEAN /\ net \in {"credit", "read", "closed"}
    /\ m_terminate \in BOOLEAN
    /\ spaceLeft <= QuerySpaceBase /\ answered \subseteq asked

TypeInv == EndInv /\ Settled /\ ClientPlaces /\ ServerPlaces

(* Main, SymbolWorker and Worker.                                          *)
LEMMA ClientTypes == TypeInv /\ ClientStep /\ UNCHANGED server => TypeInv'
<1> SUFFICES ASSUME TypeInv, ClientStep, UNCHANGED server PROVE TypeInv'
  OBVIOUS
<1> USE DEF program, link, server, threadsOfServer, netState, queries, traceData
<1>1. EndInv'
  BY NextEnds DEF TypeInv, Next
<1>2. Settled'
  BY DEF TypeInv, Settled, Working
<1>3. serverEnd' = serverEnd /\ lost' = lost
  <2>1. CASE QueueEvent \/ ShutdownProfiler \/ JoinThreads \/ SymbolWorker \/ AcceptExits \/ MainLeaves
             \/ RejectClear \/ Reject \/ RejectExits \/ AwaitSymbols \/ FinalExits \/ FinalPass
             \/ DrainSymbols \/ SendTerminate \/ FinalSymbols
    BY <2>1 DEF QueueEvent, ShutdownProfiler, JoinThreads, SymbolWorker, AcceptExits, MainLeaves,
                RejectClear, Reject, RejectExits, AwaitSymbols, FinalExits, FinalPass, DrainSymbols,
                SendTerminate, FinalSymbols
  <2>2. CASE \E version \in {"same", "other", "unread"} : Accept(version)
    BY <2>2 DEF Accept
  <2>3. CASE MainDequeue \/ DrainDequeue \/ FinalDequeue \/ FinalCommit
    BY <2>3 DEF MainDequeue, DrainDequeue, FinalDequeue, FinalCommit, Dequeue, AppendData, Commit
  <2>4. CASE MainQueries \/ DrainQueries \/ FinalQueries
    BY <2>4 DEF MainQueries, DrainQueries, FinalQueries, HandleServerQuery, AppendData
  <2> QED
    BY <2>1, <2>2, <2>3, <2>4 DEF ClientStep, Main, Worker
<1>4. ServerPlaces'
  BY <1>3 DEF TypeInv, ServerPlaces
<1>5. ClientPlaces'
  <2>1. ClientPlaces
    BY DEF TypeInv
  <2>2. CASE QueueEvent \/ ShutdownProfiler \/ JoinThreads \/ SymbolWorker
    BY <2>1, <2>2 DEF ClientPlaces, QueueEvent, ShutdownProfiler, JoinThreads, SymbolWorker
  <2>3. CASE AcceptExits \/ MainLeaves \/ RejectClear \/ Reject \/ RejectExits
    BY <2>1, <2>3 DEF ClientPlaces, WorkerPlaces, Final, AcceptExits, MainLeaves, RejectClear, Reject,
                      RejectExits, StopListening, Goto
  <2>4. CASE AwaitSymbols \/ FinalExits \/ FinalPass \/ DrainSymbols \/ SendTerminate \/ FinalSymbols
    BY <2>1, <2>4 DEF ClientPlaces, WorkerPlaces, Final, AwaitSymbols, FinalExits, FinalPass,
                      DrainSymbols, SendTerminate, FinalSymbols, Goto
  <2>5. CASE \E version \in {"same", "other", "unread"} : Accept(version)
    BY <2>1, <2>5 DEF ClientPlaces, WorkerPlaces, Final, Accept, Goto
  <2>6. CASE MainDequeue \/ DrainDequeue \/ FinalDequeue \/ FinalCommit
    <3>1. UNCHANGED <<clientEnd, reply, main, m_shutdown, symbolsGone>>
      BY <2>6 DEF MainDequeue, DrainDequeue, FinalDequeue, FinalCommit, Dequeue, AppendData, Commit
    <3>2. worker' \in WorkerPlaces
      BY <2>6 DEF MainDequeue, DrainDequeue, FinalDequeue, FinalCommit, Dequeue, Goto, WorkerPlaces, Final
    <3> QED
      BY <2>1, <3>1, <3>2 DEF ClientPlaces
  <2>7. CASE MainQueries \/ DrainQueries \/ FinalQueries
    BY <2>1, <2>7 DEF ClientPlaces, MainQueries, DrainQueries, FinalQueries, HandleServerQuery, AppendData
  <2> QED
    BY <2>2, <2>3, <2>4, <2>5, <2>6, <2>7 DEF ClientStep, Main, Worker
<1> QED
  BY <1>1, <1>2, <1>4, <1>5 DEF TypeInv

(* Network goes when it is told to, or when the stream ends.               *)
LEMMA ServerSettles == TypeInv /\ ServerStep => Settled'
<1> SUFFICES ASSUME TypeInv, ServerStep, net' = "closed" PROVE Settled'
  BY DEF Settled
<1>1. /\ m_netRead \in Seq(NetBuffers) /\ EndOfStream \in NetBuffers /\ m_netWriteCnt \in Nat
      /\ Len(m_netRead) \in Nat /\ Working \in {0, 1} /\ Writing \in {0, 1} /\ Credit /\ Settled
      /\ m_shutdownView \in BOOLEAN
  BY EndTypes, Empty DEF TypeInv, SessionInv, Credit, Working, Writing, ServerPlaces
<1>2. Append(m_netRead, EndOfStream) # <<>> /\ Len(Append(m_netRead, EndOfStream)) = Len(m_netRead) + 1
      /\ Append(m_netRead, EndOfStream)[Len(m_netRead) + 1] = EndOfStream
  BY <1>1
<1>3. CASE TakeCredit \/ ReceiveFails
  <2>1. /\ net # "closed" /\ m_netRead' = Append(m_netRead, EndOfStream)
        /\ UNCHANGED <<exec, m_netWriteCnt>> /\ Working' = Working
        /\ net = "read" \/ m_shutdownView' = TRUE
    BY <1>1, <1>3 DEF TakeCredit, ReceiveFails, Working
  <2>2. /\ Len(m_netRead) + m_netWriteCnt + Writing + Working <= 2
        /\ exec \in {"connect", "handshake"} => Len(m_netRead) + m_netWriteCnt + Writing = 0
    BY <1>1, <2>1 DEF Credit
  <2>3. net = "read" => exec \notin {"connect", "handshake"}
    BY <1>1, <2>2 DEF Writing
  <2>4. m_netWriteCnt' <= 2 /\ Len(m_netRead') + m_netWriteCnt' + Working' <= 3
    BY <1>1, <1>2, <2>1, <2>2
  <2> QED
    BY <1>2, <2>1, <2>3, <2>4 DEF Settled
<1>4. CASE Receive
  BY <1>4 DEF Receive
<1>5. CASE Exec
  <2>1. net = "closed"
    BY <1>5 DEF Exec, Connect, Handshake, Check, TakeFrame, DispatchProcess, FrameDone,
                ProcessThreadContext, ProcessZoneBegin, ProcessZoneEnd, ProcessCallstack, ProcessAnswer,
                ProcessTerminate, NextItem, threadsOfServer
  <2>2. /\ m_netWriteCnt <= 2
        /\ exec # "closed" => /\ m_netRead # <<>> /\ m_netRead[Len(m_netRead)] = EndOfStream
                              /\ Len(m_netRead) + m_netWriteCnt + Working <= 3
        /\ exec \in {"connect", "handshake"} => m_shutdownView
    BY <1>1, <2>1 DEF Settled
  <2>3. m_netRead # <<>> => Len(m_netRead) >= 1
    BY <1>1
  <2>4. CASE Connect \/ Check
    BY <2>1, <2>2, <2>4 DEF Settled, Working, Connect, Check, netState, CloseSession
  <2>5. CASE Handshake
    BY <2>1, <2>2, <2>5 DEF Settled, Working, Handshake, CloseSession
  <2>6. CASE DispatchProcess
    <3>1. UNCHANGED <<exec, m_netWriteCnt, m_netRead, m_shutdownView>>
      BY <2>6 DEF DispatchProcess, ProcessThreadContext, ProcessZoneBegin, ProcessZoneEnd,
                  ProcessCallstack, ProcessAnswer, ProcessTerminate, NextItem, threadsOfServer
    <3> QED
      BY <2>2, <3>1 DEF Settled, Working
  <2>7. CASE TakeFrame
    <3>1. exec = "wait" /\ Working = 0 /\ m_netRead' = Tail(m_netRead) /\ m_netWriteCnt' = m_netWriteCnt
          /\ exec' \in {"process", "closed"} /\ (exec' # "closed" => Head(m_netRead) # EndOfStream)
      BY <2>7 DEF TakeFrame, Working, CloseSession
    <3>2. ASSUME exec' = "process"
          PROVE  /\ m_netRead' # <<>> /\ m_netRead'[Len(m_netRead')] = EndOfStream
                 /\ Len(m_netRead') + m_netWriteCnt' + Working' <= 3
      <4>1. /\ Len(m_netRead) >= 1 /\ Head(m_netRead) = m_netRead[1]
            /\ Len(Tail(m_netRead)) = Len(m_netRead) - 1
            /\ \A i \in 1..(Len(m_netRead) - 1) : Tail(m_netRead)[i] = m_netRead[i + 1]
        BY <1>1, <2>2, <2>3, <3>1
      <4>2. Len(m_netRead) > 1
        BY <1>1, <2>2, <3>1, <3>2, <4>1
      <4>3. Len(m_netRead) - 1 \in 1..(Len(m_netRead) - 1) /\ (Len(m_netRead) - 1) + 1 = Len(m_netRead)
        BY <1>1, <4>2
      <4>4. Tail(m_netRead)[Len(m_netRead) - 1] = EndOfStream /\ Tail(m_netRead) # <<>>
        BY <2>2, <3>1, <4>1, <4>2, <4>3
      <4>5. Working' = 1
        BY <3>2 DEF Working
      <4> QED
        BY <1>1, <2>2, <3>1, <4>1, <4>4, <4>5
    <3> QED
      BY <2>2, <3>1, <3>2 DEF Settled
  <2>8. CASE FrameDone
    <3>1. /\ exec = "process" /\ Working = 1 /\ m_netRead' = m_netRead /\ m_netWriteCnt' = m_netWriteCnt + 1
          /\ exec' \in {"check", "closed"} /\ Working' = 0
      BY <2>8 DEF FrameDone, Working, CloseSession
    <3>2. m_netWriteCnt' <= 2 /\ Len(m_netRead') + m_netWriteCnt' + Working' <= 3
      BY <1>1, <2>2, <2>3, <3>1
    <3> QED
      BY <2>2, <3>1, <3>2 DEF Settled
  <2> QED
    BY <1>5, <2>4, <2>5, <2>6, <2>7, <2>8 DEF Exec
<1> QED
  BY <1>3, <1>4, <1>5 DEF ServerStep, Network

(* Exec and Network.                                                       *)
LEMMA ServerTypes == TypeInv /\ ServerStep => TypeInv'
<1> SUFFICES ASSUME TypeInv, ServerStep PROVE TypeInv'
  OBVIOUS
<1>1. EndInv'
  BY NextEnds DEF TypeInv, Next
<1>2. SpaceInv' /\ SpaceInv
  BY <1>1 DEF TypeInv, EndInv, OrderInv
<1>3. clientEnd' = clientEnd /\ reply' = reply /\ lost' = lost
  <2>1. CASE TakeCredit \/ Receive \/ ReceiveFails
    BY <2>1 DEF TakeCredit, Receive, ReceiveFails, link
  <2>2. CASE Connect \/ Handshake \/ Check \/ TakeFrame \/ FrameDone
    BY <2>2 DEF Connect, Handshake, Check, TakeFrame, FrameDone
  <2>3. CASE DispatchProcess
    BY <2>3 DEF DispatchProcess, ProcessThreadContext, ProcessZoneBegin, ProcessZoneEnd,
                ProcessCallstack, ProcessAnswer, ProcessTerminate, NextItem
  <2> QED
    BY <2>1, <2>2, <2>3 DEF ServerStep, Exec, Network
<1>4. ClientPlaces'
  BY <1>3 DEF TypeInv, ClientPlaces, ServerStep, client, program
<1>5. serverEnd' \in {"none", "open", "closed"} /\ net' \in {"credit", "read", "closed"}
      /\ m_shutdownView' \in BOOLEAN
  <2>1. ServerPlaces
    BY DEF TypeInv
  <2>2. CASE TakeCredit \/ Receive \/ ReceiveFails
    BY <2>1, <2>2 DEF ServerPlaces, TakeCredit, Receive, ReceiveFails, link
  <2>3. CASE Connect \/ Handshake \/ Check \/ TakeFrame \/ FrameDone
    BY <2>1, <2>3 DEF ServerPlaces, Connect, Handshake, Check, TakeFrame, FrameDone, CloseSession
  <2>4. CASE DispatchProcess
    BY <2>1, <2>4 DEF ServerPlaces, DispatchProcess, ProcessThreadContext, ProcessZoneBegin,
                      ProcessZoneEnd, ProcessCallstack, ProcessAnswer, ProcessTerminate, NextItem,
                      threadsOfServer
  <2> QED
    BY <2>2, <2>3, <2>4 DEF ServerStep, Exec, Network
<1>6. m_terminate' \in BOOLEAN
  <2>1. m_terminate \in BOOLEAN
    BY DEF TypeInv, ServerPlaces
  <2>2. CASE TakeCredit \/ Receive \/ ReceiveFails \/ Connect \/ Handshake \/ Check \/ TakeFrame \/ FrameDone
    BY <2>1, <2>2 DEF TakeCredit, Receive, ReceiveFails, Connect, Handshake, Check, TakeFrame, FrameDone,
                      traceData
  <2>3. CASE DispatchProcess
    BY <2>1, <2>3 DEF DispatchProcess, ProcessThreadContext, ProcessZoneBegin, ProcessZoneEnd,
                      ProcessCallstack, ProcessAnswer, ProcessTerminate, traceData
  <2> QED
    BY <2>2, <2>3 DEF ServerStep, Exec, Network
<1>7. spaceLeft' <= QuerySpaceBase /\ answered' \subseteq asked'
  <2>1. spaceLeft <= QuerySpaceBase /\ answered \subseteq asked
    BY DEF TypeInv, ServerPlaces
  <2>2. CASE TakeCredit \/ Receive \/ ReceiveFails \/ Connect \/ Handshake \/ Check \/ TakeFrame
    BY <2>1, <2>2 DEF TakeCredit, Receive, ReceiveFails, Connect, Handshake, Check, TakeFrame, queries
  <2>3. CASE DispatchProcess
    <3>1. Connected'
      BY <2>3 DEF Connected, DispatchProcess, ProcessThreadContext, ProcessZoneBegin, ProcessZoneEnd,
                  ProcessCallstack, ProcessAnswer, ProcessTerminate, NextItem, threadsOfServer
    <3>2. Bounded(In(Stock, Places), In(Stock, Road), asked, answered, spaceLeft)'
      BY <1>2, <3>1 DEF SpaceInv, Counted
    <3>3. /\ answered' \subseteq asked' /\ IsFiniteSet(In(Stock, Road)')
          /\ spaceLeft' \in Nat /\ Cardinality(In(Stock, Road)') + spaceLeft' <= QuerySpaceBase
      BY <3>2 DEF Bounded
    <3>4. Cardinality(In(Stock, Road)') \in Nat
      BY <3>3, FS_CardinalityType
    <3> QED
      BY <3>3, <3>4, BaseType
  <2>4. CASE FrameDone
    <3>1. spaceLeft' = spaceLeft - Len(Queued) /\ answered' = answered /\ asked' = asked
      BY <2>4 DEF FrameDone
    <3>2. SessionInv /\ Counted
      BY <1>2, <2>4 DEF SpaceInv, Connected, FrameDone
    <3>3. PrioToSend \in Nat /\ LowToSend \in Nat /\ Len(Queued) = PrioToSend + LowToSend
      BY <3>2, QueuedIs
    <3>4. Len(Queued) \in Nat /\ spaceLeft \in Nat
      BY <3>2, <3>3 DEF SessionInv, Frames_Server
    <3> QED
      BY <2>1, <3>1, <3>4, BaseType
  <2> QED
    BY <2>2, <2>3, <2>4 DEF ServerStep, Exec, Network
<1> QED
  BY <1>1, <1>3, <1>4, <1>5, <1>6, <1>7, ServerSettles DEF TypeInv, ServerPlaces

(* The user and the network: of what is typed they change who has closed.  *)
LEMMA DisturbTypes == TypeInv /\ Disturb => TypeInv'
<1> SUFFICES ASSUME TypeInv, Disturb PROVE TypeInv'
  OBVIOUS
<1>1. EndInv'
  BY NextEnds DEF TypeInv, Next
<1>2. /\ UNCHANGED <<clientEnd, serverEnd, reply>> /\ UNCHANGED client
      /\ UNCHANGED <<exec, net, netState, queries, traceData>>
      /\ lost' \in {lost, TRUE} /\ m_shutdownView' \in {m_shutdownView, TRUE}
  BY DEF Disturb, CloseViewer, LoseConnection, link, server, threadsOfServer
<1>3. ClientPlaces'
  BY <1>2 DEF TypeInv, ClientPlaces, client, program
<1>4. ServerPlaces'
  BY <1>2 DEF TypeInv, ServerPlaces, queries, traceData
<1>5. Settled'
  <2>1. m_shutdownView => m_shutdownView'
    BY <1>2
  <2>2. UNCHANGED <<exec, net, m_netWriteCnt, m_netRead>> /\ Working' = Working
    BY <1>2 DEF netState, Working
  <2> QED
    BY <2>1, <2>2 DEF TypeInv, Settled
<1> QED
  BY <1>1, <1>3, <1>4, <1>5 DEF TypeInv

(* Another viewer begins like the first one.                               *)
LEMMA OpenViewerTypes == TypeInv /\ OpenViewer => TypeInv'
<1> SUFFICES ASSUME TypeInv, OpenViewer PROVE TypeInv'
  OBVIOUS
<1>1. EndInv'
  BY NextEnds DEF TypeInv, Next
<1>2. ClientPlaces'
  BY DEF TypeInv, ClientPlaces, OpenViewer, client, program
<1>3. ServerPlaces'
  <2>1. spaceLeft' <= QuerySpaceBase
    BY BaseType DEF OpenViewer, ServerReset
  <2> QED
    BY <2>1 DEF ServerPlaces, OpenViewer, ServerReset
<1>4. Settled'
  BY DEF Settled, OpenViewer, ServerReset
<1> QED
  BY <1>1, <1>2, <1>3, <1>4 DEF TypeInv

(* At the start.                                                           *)
LEMMA InitTypes == Init => TypeInv
<1> SUFFICES ASSUME Init PROVE TypeInv
  OBVIOUS
<1>1. EndInv
  BY InitEnds
<1>2. ClientPlaces
  BY DEF ClientPlaces, WorkerPlaces, Init, LinkInit, ClientInit
<1>3. ServerPlaces
  <2>1. spaceLeft <= QuerySpaceBase
    BY BaseType DEF Init, ServerInit
  <2> QED
    BY <2>1 DEF ServerPlaces, Init, LinkInit, ServerInit
<1>4. Settled
  BY DEF Settled, Init, ServerInit
<1> QED
  BY <1>1, <1>2, <1>3, <1>4 DEF TypeInv

(* Every step.                                                             *)
LEMMA NextTypes == TypeInv /\ [Next]_vars => TypeInv'
<1> SUFFICES ASSUME TypeInv, [Next]_vars PROVE TypeInv'
  OBVIOUS
<1>1. CASE UNCHANGED vars
  <2>1. EndInv'
    BY <1>1, NextEnds DEF TypeInv
  <2> USE DEF vars, link, client, program, server, threadsOfServer, netState, queries, traceData
  <2>2. ClientPlaces' /\ ServerPlaces'
    BY <1>1 DEF TypeInv, ClientPlaces, ServerPlaces
  <2>3. Settled'
    BY <1>1 DEF TypeInv, Settled, Working
  <2> QED
    BY <2>1, <2>2, <2>3 DEF TypeInv
<1> QED
  BY <1>1, ClientTypes, ServerTypes, DisturbTypes, OpenViewerTypes DEF Next, Stopped

(* The invariant has the types in it.                                      *)
LEMMA TypesAreOK == TypeInv => TypeOK
<1> SUFFICES ASSUME TypeInv PROVE TypeOK
  OBVIOUS
<1>1. Messages = AnyMsg
  BY DEF Messages, AnyMsg, Kinds
<1>2. EndInv /\ OrderInv /\ SpaceInv /\ SessionInv /\ ClientPlaces /\ ServerPlaces /\ Settled
  BY DEF TypeInv, EndInv, OrderInv, SpaceInv
<1>3. \A f \in Frames : IsFrame(f)
  BY <1>1 DEF Frames, IsFrame
<1>4. /\ \A i \in DOMAIN down : IsFrame(down[i])
      /\ \A i \in DOMAIN m_netRead : IsFrame(m_netRead[i].frame)
      /\ IsFrame(current.frame) /\ IsFrame(buffer)
  <2>1. \A i \in DOMAIN down : down[i] \in Frames
    BY <1>2 DEF SessionInv, Frames_Link
  <2>2. \A i \in DOMAIN m_netRead : m_netRead[i].frame \in Frames
    <3>1. m_netRead \in Seq(NetBuffers)
      BY <1>2 DEF SessionInv, Frames_Server
    <3>2. \A i \in DOMAIN m_netRead : m_netRead[i] \in NetBuffers
      BY <3>1
    <3> QED
      BY <3>2 DEF NetBuffers
  <2>3. current.frame \in Frames /\ buffer \in Frames
    BY <1>2 DEF SessionInv, Frames_Server, Frames_Client, NetBuffers
  <2> QED
    BY <1>3, <2>1, <2>2, <2>3
<1>5. /\ up \in Seq(Messages) /\ \A p \in Producers : queue[p] \in Seq(Messages)
      /\ m_symbolQueue \in Seq(Messages) /\ prioQueue \in Seq(Messages) /\ lowQueue \in Seq(Messages)
  BY <1>1, <1>2 DEF SessionInv, Frames_Link, Frames_Client, Frames_Server
<1>6. made \in 0..Len(script)
  <2>1. made <= Len(script)
    BY <1>2 DEF OrderInv, EventQueues, Latest
  <2> QED
    BY <1>2, <2>1, OrderTypes
<1>7. m_threadCtx \in Producers \cup {"none"} /\ threadCtx \in Threads \cup {"none"}
  BY <1>2, ThreadsAssumption DEF OrderInv, Stages
<1>8. m_netWriteCnt \in 0..2 /\ m_bufferOffset \in 0..(2 * FrameSize)
  <2>1. m_netWriteCnt \in Nat /\ m_bufferOffset \in Nat /\ m_bufferOffset <= 2 * FrameSize
    BY <1>2 DEF SessionInv, Credit
  <2>2. Len(m_netRead) \in Nat /\ Working \in Nat /\ Writing \in Nat
    BY <1>2 DEF SessionInv, Frames_Server, Working, Writing
  <2>3. m_netWriteCnt <= 2
    BY <1>2, <2>1, <2>2 DEF SessionInv, Credit, Settled
  <2> QED
    BY <2>1, <2>3, LinkAssumption
<1>9. spaceLeft \in 0..QuerySpaceBase
  BY <1>2, BaseType DEF SessionInv, Frames_Server, ServerPlaces
<1>10. exec \in {"connect", "handshake", "check", "wait", "process", "closed"}
  BY <1>2 DEF SpaceInv, Phases
<1>11. worker \in {"accept", "main", "mainQueries", "lost", "reject", "symbols", "drain",
                   "drainQueries", "drainSymbols", "terminate", "final",
                   "finalSymbols", "finalDequeue", "finalCommit", "gone"}
  BY <1>2 DEF ClientPlaces, WorkerPlaces, Final
<1> QED
  BY <1>2, <1>4, <1>5, <1>6, <1>7, <1>8, <1>9, <1>10, <1>11 DEF TypeOK, ClientPlaces, ServerPlaces

(* For every script, frame size and connection: no frame, in the buffer, on*)
(* the way or received, is ever larger than TargetFrameSize (NeedDataSize, *)
(* TracyProfiler.hpp:874-883), Network never has more than two credits     *)
(* (TracyWorker.cpp:2835 and 2884), and every variable has its type.       *)
THEOREM SessionTypeCorrect == Spec => []TypeOK
<1> QED
  BY InitTypes, NextTypes, TypesAreOK, PTL DEF Spec
=============================================================================
