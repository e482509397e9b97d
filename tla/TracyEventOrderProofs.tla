----------------------- MODULE TracyEventOrderProofs -----------------------
(***************************************************************************)
(* For every script, frame size and size of the connection: what the       *)
(* server believes main did is what main did, in its order and in its      *)
(* thread.  The argument: wherever the stream of messages is cut into      *)
(* frames, reading it on from where the server is ends where the client    *)
(* is, with each event being the next one of main's.                       *)
(***************************************************************************)
EXTENDS TracyQuerySpaceProofs

(* Where one is in the stream: the events before, and the thread whose     *)
(* messages follow.                                                        *)
Labels == [told : Nat, thread : Producers \cup {"none"}]
At(n, t) == [told |-> n, thread |-> t]
ServerAt == At(Len(received), threadCtx)
ClientAt == At(made - Len(queue["main"]), m_threadCtx)

(* Reading a message: an event is the next of main's, and termination is   *)
(* announced after the last.                                               *)
Reads(ev, m, a, b) ==
    \/ m.kind = "context" /\ b = At(a.told, m.ref)
    \/ /\ m.kind \in EventKinds /\ a.thread = "main"
       /\ a.told < Len(ev) /\ m = ev[a.told + 1]
       /\ b = At(a.told + 1, "main")
    \/ m.kind \in QueryKinds /\ b = a
    \/ m.kind = "terminate" /\ a.told = Len(ev) /\ b = a

(* Reading a frame, and reading frames, from a to b.                       *)
FrameRun(ev, f, l) == \A i \in 1..Len(f) : Reads(ev, f[i], l[i - 1], l[i])
Frame(ev, f, a, b) ==
    \E l \in [0..Len(f) -> Labels] : l[0] = a /\ l[Len(f)] = b /\ FrameRun(ev, f, l)
StreamRun(ev, fs, l) == \A i \in 1..Len(fs) : Frame(ev, fs[i], l[i - 1], l[i])
Stream(ev, fs, a, b) ==
    \E l \in [0..Len(fs) -> Labels] : l[0] = a /\ l[Len(fs)] = b /\ StreamRun(ev, fs, l)

(* Where the server is when it has read what is on the way to it; what the *)
(* client still has in its buffer leads from there to where the client is. *)
Sending == worker \notin {"reject", "gone"} /\ ClientSees
Chain ==
    \E a, b, c \in Labels :
        /\ Frame(script, current.frame, ServerAt, a)
        /\ Stream(script, Unread, a, b) /\ Stream(script, down, b, c)
        /\ Sending => Frame(script, buffer, c, ClientAt)

(* Main's queue is what main has queued last; other queues hold questions. *)
Latest(ev, n, q) ==
    /\ n <= Len(ev) /\ Len(q) <= n
    /\ \A i \in 1..Len(q) : q[i] = ev[(n - Len(q)) + i]
EventQueues ==
    /\ \A i \in DOMAIN script : script[i].kind \in EventKinds
    /\ Latest(script, made, queue["main"])
QuestionQueues ==
    /\ \A p \in Producers \ {"main"} : AllQuestions(queue[p])
    /\ AllQuestions(m_symbolQueue) /\ AllQuestions(prioQueue) /\ AllQuestions(lowQueue)
    /\ \A i \in DOMAIN up : up[i].kind \in QueryKinds \/ up[i] = Terminate

(* Before the client accepts a server nothing was said; and termination is *)
(* announced when main has queued all and nothing is left of it.           *)
Silent ==
    /\ received = <<>> /\ threadCtx = "none" /\ current.frame = <<>> /\ down = <<>>
    /\ \A i \in DOMAIN m_netRead : m_netRead[i].frame = <<>>
    /\ buffer = <<>> /\ m_threadCtx = "none" /\ Len(queue["main"]) = made
Ending == {"symbols", "drain", "drainQueries", "drainSymbols", "terminate"}
Stages ==
    /\ m_shutdown => main # "runs"
    /\ main # "runs" => made = Len(script)
    /\ worker \in Ending => m_shutdown
    /\ worker = "accept" => Silent
    /\ worker = "terminate" => buffer = <<>> /\ queue["main"] = <<>>
    /\ m_threadCtx \in Producers \cup {"none"} /\ threadCtx \in Producers \cup {"none"}

(* What was received so far.                                               *)
Truth ==
    /\ received \in Seq([thread : {"main"}, msg : AnyMsg]) /\ Len(received) <= Len(script)
    /\ \A i \in 1..Len(received) : received[i] = [thread |-> "main", msg |-> script[i]]
    /\ m_terminate => Len(received) = Len(script)

OrderInv == SpaceInv /\ Chain /\ EventQueues /\ QuestionQueues /\ Stages /\ Truth

-----------------------------------------------------------------------------
(* Nothing is read from an empty frame, nor from no frames.                *)
LEMMA EmptyRuns ==
  ASSUME NEW ev, NEW a \in Labels
  PROVE  /\ Frame(ev, <<>>, a, a) /\ \A b : Frame(ev, <<>>, a, b) => b = a
         /\ Stream(ev, <<>>, a, a) /\ \A b : Stream(ev, <<>>, a, b) => b = a
<1> DEFINE l == [i \in 0..0 |-> a]
<1>1. l \in [0..0 -> Labels] /\ l[0] = a
  OBVIOUS
<1> HIDE DEF l
<1>2. Frame(ev, <<>>, a, a)
  BY <1>1 DEF Frame, FrameRun
<1>3. Stream(ev, <<>>, a, a)
  BY <1>1 DEF Stream, StreamRun
<1> QED
  BY <1>2, <1>3 DEF Frame, Stream

(* One message is read.                                                    *)
LEMMA FrameOne ==
  ASSUME NEW ev, NEW m \in AnyMsg, NEW a \in Labels, NEW b \in Labels, Reads(ev, m, a, b)
  PROVE  Frame(ev, <<m>>, a, b)
<1> DEFINE l == [i \in 0..1 |-> IF i = 0 THEN a ELSE b]
<1>1. l \in [0..1 -> Labels] /\ l[0] = a /\ l[1] = b
  OBVIOUS
<1> HIDE DEF l
<1>2. FrameRun(ev, <<m>>, l)
  BY <1>1 DEF FrameRun
<1> QED
  BY <1>1, <1>2 DEF Frame

(* What is read from two frames is read from their concatenation.          *)
LEMMA FrameConcat ==
  ASSUME NEW ev, NEW f \in Seq(AnyMsg), NEW g \in Seq(AnyMsg),
         NEW a \in Labels, NEW b \in Labels, NEW c \in Labels, Frame(ev, f, a, b), Frame(ev, g, b, c)
  PROVE  Frame(ev, f \o g, a, c)
<1>1. PICK k \in [0..Len(f) -> Labels] : k[0] = a /\ k[Len(f)] = b /\ FrameRun(ev, f, k)
  BY DEF Frame
<1>2. PICK l \in [0..Len(g) -> Labels] : l[0] = b /\ l[Len(g)] = c /\ FrameRun(ev, g, l)
  BY DEF Frame
<1> DEFINE h == f \o g
<1> DEFINE n == Len(f)
<1> DEFINE o == Len(g)
<1> DEFINE j == [i \in 0..(n + o) |-> IF i <= n THEN k[i] ELSE l[i - n]]
<1>3. /\ n \in Nat /\ o \in Nat /\ Len(h) = n + o
      /\ \A i \in 1..n : h[i] = f[i]
      /\ \A i \in (n + 1)..(n + o) : h[i] = g[i - n]
  BY ConcatProperties
<1>4. /\ \A i \in 1..n : Reads(ev, f[i], k[i - 1], k[i])
      /\ \A i \in 1..o : Reads(ev, g[i], l[i - 1], l[i])
  BY <1>1, <1>2 DEF FrameRun
<1>5. k \in [0..n -> Labels] /\ l \in [0..o -> Labels] /\ k[0] = a /\ k[n] = b /\ l[0] = b /\ l[o] = c
  BY <1>1, <1>2
<1> HIDE DEF n, o, h
<1>6. j \in [0..(n + o) -> Labels]
  BY <1>3, <1>5
<1>7. \A i \in 0..n : j[i] = k[i]
  BY <1>3
<1>8. \A i \in 0..o : j[n + i] = l[i]
  BY <1>3, <1>5
<1> HIDE DEF j
<1>9. \A i \in 1..(n + o) : Reads(ev, h[i], j[i - 1], j[i])
  <2> SUFFICES ASSUME NEW i \in 1..(n + o) PROVE Reads(ev, h[i], j[i - 1], j[i])
    OBVIOUS
  <2>1. CASE i <= n
    <3>1. i \in 1..n /\ i - 1 \in 0..n /\ i \in 0..n
      BY <1>3, <2>1
    <3> QED
      BY <1>3, <1>4, <1>7, <3>1
  <2>2. CASE i > n
    <3> DEFINE m == i - n
    <3>1. m \in 1..o /\ m \in 0..o /\ m - 1 \in 0..o /\ i = n + m /\ i - 1 = n + (m - 1)
          /\ i \in (n + 1)..(n + o) /\ i - n = m
      <4>1. n \in Nat /\ o \in Nat /\ i \in Int /\ i <= n + o
        BY <1>3
      <4> QED
        BY <2>2, <4>1
    <3> HIDE DEF m
    <3>2. h[i] = g[m] /\ Reads(ev, g[m], l[m - 1], l[m])
      BY <1>3, <1>4, <3>1
    <3>3. j[i] = l[m] /\ j[i - 1] = l[m - 1]
      BY <1>8, <3>1
    <3> QED
      BY <3>2, <3>3
  <2> QED
    BY <1>3, <2>1, <2>2
<1>10. j[0] = a /\ j[n + o] = c
  BY <1>3, <1>5, <1>7, <1>8
<1>11. Frame(ev, h, a, c)
  BY <1>3, <1>6, <1>9, <1>10 DEF Frame, FrameRun
<1> QED
  BY <1>11 DEF h

(* The parts of a sequence.                                                *)
LEMMA SplitParts ==
  ASSUME NEW s \in Seq(AnyMsg), NEW n \in 0..Len(s)
  PROVE  /\ SubSeq(s, 1, n) \in Seq(AnyMsg) /\ Len(SubSeq(s, 1, n)) = n
         /\ \A i \in 1..n : SubSeq(s, 1, n)[i] = s[i]
         /\ SubSeq(s, n + 1, Len(s)) \in Seq(AnyMsg)
         /\ Len(SubSeq(s, n + 1, Len(s))) = Len(s) - n
         /\ \A i \in 1..(Len(s) - n) : SubSeq(s, n + 1, Len(s))[i] = s[n + i]
<1> DEFINE f == SubSeq(s, 1, n)
<1> DEFINE g == SubSeq(s, n + 1, Len(s))
<1>0. f = SubSeq(s, 1, n) /\ g = SubSeq(s, n + 1, Len(s))
  OBVIOUS
<1> HIDE DEF f, g
<1>1. /\ Len(s) \in Nat /\ n \in Nat /\ n <= Len(s)
      /\ \A i \in 1..Len(s) : s[i] \in AnyMsg
  BY ElementOfSeq
<1>2. f \in Seq(AnyMsg) /\ Len(f) = n /\ \A i \in 1..n : f[i] = s[i]
  <2>1. \A i \in 1..n : s[i] \in AnyMsg
    BY <1>1
  <2>2. /\ f \in Seq(AnyMsg) /\ Len(f) = IF 1 <= n THEN n - 1 + 1 ELSE 0
        /\ \A i \in 1..(n - 1 + 1) : f[i] = s[1 + i - 1]
    BY <1>0, <1>1, <2>1, SubSeqProperties
  <2> QED
    BY <1>1, <2>2
<1>3. g \in Seq(AnyMsg) /\ Len(g) = Len(s) - n /\ \A i \in 1..(Len(s) - n) : g[i] = s[n + i]
  <2> DEFINE k == n + 1
  <2> DEFINE l == Len(s)
  <2>1. k \in Int /\ l \in Int /\ k >= 1 /\ \A i \in k..l : s[i] \in AnyMsg
    <3>1. \A i \in (n + 1)..Len(s) : i \in 1..Len(s)
      BY <1>1
    <3> QED
      BY <1>1, <3>1
  <2>2. l - k + 1 = Len(s) - n /\ (~(k <= l) => Len(s) - n = 0)
    <3>1. \A x, y \in Nat : y <= x => x - (y + 1) + 1 = x - y /\ (~(y + 1 <= x) => x - y = 0)
      OBVIOUS
    <3> QED
      BY <1>1, <3>1
  <2>3. \A i \in Int : k + i - 1 = n + i
    BY <1>1
  <2>4. g = SubSeq(s, k, l)
    BY <1>0
  <2> HIDE DEF k, l
  <2>5. /\ g \in Seq(AnyMsg) /\ Len(g) = IF k <= l THEN l - k + 1 ELSE 0
        /\ \A i \in 1..(l - k + 1) : g[i] = s[k + i - 1]
    BY <2>1, <2>4, SubSeqProperties
  <2>6. Len(g) = Len(s) - n
    BY <2>2, <2>5
  <2>7. \A i \in 1..(Len(s) - n) : g[i] = s[n + i]
    BY <2>2, <2>3, <2>5
  <2> QED
    BY <2>5, <2>6, <2>7
<1> QED
  BY <1>0, <1>2, <1>3

(* What is read from a frame is read from its parts.                       *)
LEMMA FrameSplit ==
  ASSUME NEW ev, NEW s \in Seq(AnyMsg), NEW n \in 0..Len(s),
         NEW a \in Labels, NEW c \in Labels, Frame(ev, s, a, c)
  PROVE  \E b \in Labels : /\ Frame(ev, SubSeq(s, 1, n), a, b)
                           /\ Frame(ev, SubSeq(s, n + 1, Len(s)), b, c)
<1>1. PICK l \in [0..Len(s) -> Labels] : l[0] = a /\ l[Len(s)] = c /\ FrameRun(ev, s, l)
  BY DEF Frame
<1> DEFINE f == SubSeq(s, 1, n)
<1> DEFINE g == SubSeq(s, n + 1, Len(s))
<1> DEFINE o == Len(s)
<1>2. n \in Nat /\ o \in Nat /\ n <= o
  OBVIOUS
<1>3. /\ f \in Seq(AnyMsg) /\ Len(f) = n /\ \A i \in 1..n : f[i] = s[i]
      /\ g \in Seq(AnyMsg) /\ Len(g) = o - n /\ \A i \in 1..(o - n) : g[i] = s[n + i]
  BY SplitParts
<1>4. \A i \in 1..o : Reads(ev, s[i], l[i - 1], l[i])
  BY <1>1 DEF FrameRun
<1>5. l \in [0..o -> Labels] /\ l[0] = a /\ l[o] = c
  BY <1>1
<1> HIDE DEF f, g, o
<1> DEFINE k == [i \in 0..n |-> l[i]]
<1> DEFINE j == [i \in 0..(o - n) |-> l[n + i]]
<1>6. k \in [0..n -> Labels] /\ j \in [0..(o - n) -> Labels]
  BY <1>2, <1>5
<1>7. /\ \A i \in 0..n : k[i] = l[i]
      /\ \A i \in 0..(o - n) : j[i] = l[n + i]
  OBVIOUS
<1> HIDE DEF k, j
<1>8. Frame(ev, f, a, l[n])
  <2>1. \A i \in 1..n : Reads(ev, f[i], k[i - 1], k[i])
    <3> SUFFICES ASSUME NEW i \in 1..n PROVE Reads(ev, f[i], k[i - 1], k[i])
      OBVIOUS
    <3>1. i \in 1..o /\ i - 1 \in 0..n /\ i \in 0..n
      BY <1>2
    <3>2. f[i] = s[i]
      BY <1>3
    <3>3. k[i - 1] = l[i - 1] /\ k[i] = l[i]
      BY <1>7, <3>1
    <3> QED
      BY <1>4, <3>1, <3>2, <3>3
  <2>2. k[0] = a /\ k[n] = l[n]
    BY <1>2, <1>5, <1>7
  <2> QED
    BY <1>3, <1>6, <2>1, <2>2 DEF Frame, FrameRun
<1>9. Frame(ev, g, l[n], c)
  <2>1. \A i \in 1..(o - n) : Reads(ev, g[i], j[i - 1], j[i])
    <3> SUFFICES ASSUME NEW i \in 1..(o - n) PROVE Reads(ev, g[i], j[i - 1], j[i])
      OBVIOUS
    <3>1. n + i \in 1..o /\ i - 1 \in 0..(o - n) /\ i \in 0..(o - n) /\ n + (i - 1) = (n + i) - 1
      BY <1>2
    <3>2. g[i] = s[n + i]
      BY <1>3
    <3>3. j[i - 1] = l[(n + i) - 1] /\ j[i] = l[n + i]
      BY <1>7, <3>1
    <3> QED
      BY <1>4, <3>1, <3>2, <3>3
  <2>2. j[0] = l[n] /\ j[o - n] = c
    <3>1. 0 \in 0..(o - n) /\ o - n \in 0..(o - n) /\ n + 0 = n /\ n + (o - n) = o
      BY <1>2
    <3> QED
      BY <1>5, <1>7, <3>1
  <2> QED
    BY <1>3, <1>6, <2>1, <2>2 DEF Frame, FrameRun
<1>10. l[n] \in Labels
  BY <1>2, <1>5
<1> QED
  BY <1>8, <1>9, <1>10 DEF f, g, o

(* The first message of a frame is read, and then its rest.                *)
LEMMA FrameHead ==
  ASSUME NEW ev, NEW s \in Seq(AnyMsg), s # <<>>, NEW a \in Labels, NEW c \in Labels, Frame(ev, s, a, c)
  PROVE  \E b \in Labels : Reads(ev, Head(s), a, b) /\ Frame(ev, Tail(s), b, c)
<1>1. PICK l \in [0..Len(s) -> Labels] : l[0] = a /\ l[Len(s)] = c /\ FrameRun(ev, s, l)
  BY DEF Frame
<1> DEFINE n == Len(s)
<1> DEFINE t == Tail(s)
<1>2. n \in Nat /\ n >= 1 /\ Len(t) = n - 1 /\ Head(s) = s[1]
      /\ \A i \in 1..(n - 1) : t[i] = s[i + 1]
  BY HeadTailProperties
<1>3. \A i \in 1..n : Reads(ev, s[i], l[i - 1], l[i])
  BY <1>1 DEF FrameRun
<1>4. l \in [0..n -> Labels] /\ l[0] = a /\ l[n] = c
  BY <1>1
<1> HIDE DEF n, t
<1> DEFINE j == [i \in 0..(n - 1) |-> l[i + 1]]
<1>5. j \in [0..(n - 1) -> Labels] /\ \A i \in 0..(n - 1) : j[i] = l[i + 1]
  BY <1>2, <1>4
<1> HIDE DEF j
<1>6. \A i \in 1..(n - 1) : Reads(ev, t[i], j[i - 1], j[i])
  <2> SUFFICES ASSUME NEW i \in 1..(n - 1) PROVE Reads(ev, t[i], j[i - 1], j[i])
    OBVIOUS
  <2>1. i + 1 \in 1..n /\ i - 1 \in 0..(n - 1) /\ i \in 0..(n - 1) /\ (i - 1) + 1 = (i + 1) - 1
    BY <1>2
  <2> QED
    BY <1>2, <1>3, <1>5, <2>1
<1>7. j[0] = l[1] /\ j[n - 1] = c /\ Reads(ev, s[1], a, l[1]) /\ l[1] \in Labels
  <2>1. 0 \in 0..(n - 1) /\ n - 1 \in 0..(n - 1) /\ 0 + 1 = 1 /\ (n - 1) + 1 = n /\ 1 \in 1..n
        /\ 1 - 1 = 0 /\ 1 \in 0..n
    BY <1>2
  <2> QED
    BY <1>3, <1>4, <1>5, <2>1
<1>8. Frame(ev, t, l[1], c)
  BY <1>2, <1>5, <1>6, <1>7 DEF Frame, FrameRun
<1> QED
  BY <1>2, <1>7, <1>8 DEF t

(* Frames are read in their order: the first, and then the others.         *)
LEMMA StreamHead ==
  ASSUME NEW ev, NEW S, NEW s \in Seq(S), s # <<>>, NEW a \in Labels, NEW c \in Labels, Stream(ev, s, a, c)
  PROVE  \E b \in Labels : Frame(ev, Head(s), a, b) /\ Stream(ev, Tail(s), b, c)
<1>1. PICK l \in [0..Len(s) -> Labels] : l[0] = a /\ l[Len(s)] = c /\ StreamRun(ev, s, l)
  BY DEF Stream
<1> DEFINE n == Len(s)
<1> DEFINE t == Tail(s)
<1>2. n \in Nat /\ n >= 1 /\ Len(t) = n - 1 /\ Head(s) = s[1]
      /\ \A i \in 1..(n - 1) : t[i] = s[i + 1]
  BY HeadTailProperties
<1>3. \A i \in 1..n : Frame(ev, s[i], l[i - 1], l[i])
  BY <1>1 DEF StreamRun
<1>4. l \in [0..n -> Labels] /\ l[0] = a /\ l[n] = c
  BY <1>1
<1> HIDE DEF n, t
<1> DEFINE j == [i \in 0..(n - 1) |-> l[i + 1]]
<1>5. j \in [0..(n - 1) -> Labels] /\ \A i \in 0..(n - 1) : j[i] = l[i + 1]
  BY <1>2, <1>4
<1> HIDE DEF j
<1>6. \A i \in 1..(n - 1) : Frame(ev, t[i], j[i - 1], j[i])
  <2> SUFFICES ASSUME NEW i \in 1..(n - 1) PROVE Frame(ev, t[i], j[i - 1], j[i])
    OBVIOUS
  <2>1. i + 1 \in 1..n /\ i - 1 \in 0..(n - 1) /\ i \in 0..(n - 1) /\ (i - 1) + 1 = (i + 1) - 1
    BY <1>2
  <2> QED
    BY <1>2, <1>3, <1>5, <2>1
<1>7. j[0] = l[1] /\ j[n - 1] = c /\ Frame(ev, s[1], a, l[1]) /\ l[1] \in Labels
  <2>1. 0 \in 0..(n - 1) /\ n - 1 \in 0..(n - 1) /\ 0 + 1 = 1 /\ (n - 1) + 1 = n /\ 1 \in 1..n
        /\ 1 - 1 = 0 /\ 1 \in 0..n
    BY <1>2
  <2> QED
    BY <1>3, <1>4, <1>5, <2>1
<1>8. Stream(ev, t, l[1], c)
  BY <1>2, <1>5, <1>6, <1>7 DEF Stream, StreamRun
<1> QED
  BY <1>2, <1>7, <1>8 DEF t

(* A frame more is read last.                                              *)
LEMMA StreamAppend ==
  ASSUME NEW ev, NEW S, NEW s \in Seq(S), NEW f \in S,
         NEW a \in Labels, NEW b \in Labels, NEW c \in Labels, Stream(ev, s, a, b), Frame(ev, f, b, c)
  PROVE  Stream(ev, Append(s, f), a, c)
<1>1. PICK l \in [0..Len(s) -> Labels] : l[0] = a /\ l[Len(s)] = b /\ StreamRun(ev, s, l)
  BY DEF Stream
<1> DEFINE n == Len(s)
<1> DEFINE t == Append(s, f)
<1>2. n \in Nat /\ Len(t) = n + 1 /\ t[n + 1] = f /\ \A i \in 1..n : t[i] = s[i]
  BY AppendProperties
<1>3. \A i \in 1..n : Frame(ev, s[i], l[i - 1], l[i])
  BY <1>1 DEF StreamRun
<1>4. l \in [0..n -> Labels] /\ l[0] = a /\ l[n] = b
  BY <1>1
<1> HIDE DEF n, t
<1> DEFINE j == [i \in 0..(n + 1) |-> IF i <= n THEN l[i] ELSE c]
<1>5. j \in [0..(n + 1) -> Labels] /\ (\A i \in 0..n : j[i] = l[i]) /\ j[n + 1] = c
  BY <1>2, <1>4
<1> HIDE DEF j
<1>6. \A i \in 1..(n + 1) : Frame(ev, t[i], j[i - 1], j[i])
  <2> SUFFICES ASSUME NEW i \in 1..(n + 1) PROVE Frame(ev, t[i], j[i - 1], j[i])
    OBVIOUS
  <2>1. CASE i \in 1..n
    <3>1. i - 1 \in 0..n /\ i \in 0..n
      BY <1>2, <2>1
    <3> QED
      BY <1>2, <1>3, <1>5, <2>1, <3>1
  <2>2. CASE i = n + 1
    <3>1. i - 1 = n /\ n \in 0..n
      BY <1>2, <2>2
    <3> QED
      BY <1>2, <1>4, <1>5, <2>2, <3>1
  <2> QED
    BY <1>2, <2>1, <2>2
<1>7. j[0] = a
  BY <1>2, <1>4, <1>5
<1>8. Stream(ev, t, a, c)
  BY <1>2, <1>5, <1>6, <1>7 DEF Stream, StreamRun
<1> QED
  BY <1>8 DEF t

-----------------------------------------------------------------------------
(* The client.  What it does with the buffer leads on to where it gets.    *)
Extends ==
    \A b, c \in Labels :
        Stream(script, down, b, c) /\ (Sending => Frame(script, buffer, c, ClientAt)) =>
            \E d \in Labels : /\ Stream(script, down', b, d)
                              /\ Sending' => Frame(script, buffer', d, ClientAt')

LEMMA ClientChains ==
  ASSUME Chain, Extends, script' = script, UNCHANGED server
  PROVE  Chain'
<1>1. PICK a, b, c \in Labels :
        /\ Frame(script, current.frame, ServerAt, a)
        /\ Stream(script, Unread, a, b) /\ Stream(script, down, b, c)
        /\ Sending => Frame(script, buffer, c, ClientAt)
  BY DEF Chain
<1>2. PICK d \in Labels : Stream(script, down', b, d) /\ (Sending' => Frame(script, buffer', d, ClientAt'))
  BY <1>1 DEF Extends
<1>3. UNCHANGED <<current, m_netRead, received, threadCtx>>
  BY DEF server, netState, traceData
<1>4. ServerAt' = ServerAt /\ Unread' = Unread
  BY <1>3 DEF ServerAt, Unread
<1> QED
  BY <1>1, <1>2, <1>3, <1>4 DEF Chain

(* A step that leaves the buffer and the connection alone.                 *)
LEMMA QuietExtends ==
  ASSUME UNCHANGED <<down, buffer, script>>, Sending' => Sending /\ ClientAt' = ClientAt
  PROVE  Extends
BY DEF Extends

(* Some items are appended, and a full buffer is sent.                     *)
LEMMA AppendExtends ==
  ASSUME SessionInv, NEW items \in Seq(AnyMsg), Len(items) <= 2, AppendData(items),
         ClientAt \in Labels, ClientAt' \in Labels, script' = script,
         Frame(script, items, ClientAt, ClientAt'),
         worker \notin {"reject", "gone"}
  PROVE  Extends
<1> SUFFICES ASSUME NEW b \in Labels, NEW c \in Labels, Stream(script, down, b, c),
                    Sending => Frame(script, buffer, c, ClientAt)
             PROVE  \E d \in Labels : /\ Stream(script, down', b, d)
                                      /\ Sending' => Frame(script, buffer', d, ClientAt')
  BY DEF Extends
<1>1. /\ buffer \in Seq(AnyMsg) /\ Len(buffer) \in Nat /\ Len(buffer) <= FrameSize
      /\ Len(items) \in Nat /\ FrameSize \in Nat /\ FrameSize > 1 /\ down \in Seq(Frames)
  BY LinkAssumption DEF SessionInv, Frames_Client, Frames_Link, Frames
<1>2. Sending' => Sending
  BY DEF AppendData, Sending, ClientSees
<1>3. CASE ~Overflows(items)
  <2>1. buffer' = buffer \o items /\ down' = down
    BY <1>3 DEF AppendData
  <2>2. Sending => Frame(script, buffer', c, ClientAt')
    BY <1>1, <2>1, FrameConcat
  <2> QED
    BY <1>2, <2>1, <2>2
<1>4. CASE Overflows(items) /\ ~CanSend
  <2>1. down' = down /\ ~ClientSees /\ ~Sending
    BY <1>4 DEF AppendData, SendFails, Sending
  <2> QED
    BY <1>2, <2>1
<1>5. CASE Overflows(items) /\ CanSend
  <2> DEFINE fit == FrameSize - Len(buffer)
  <2>1. fit \in 0..Len(items)
    BY <1>1, <1>5 DEF Overflows
  <2>2. Frame(script, buffer, c, ClientAt)
    BY <1>5 DEF Sending, CanSend
  <2>3. /\ buffer' = SubSeq(items, fit + 1, Len(items))
        /\ down' = Append(down, buffer \o SubSeq(items, 1, fit))
    BY <1>5 DEF AppendData
  <2>4. PICK d \in Labels : /\ Frame(script, SubSeq(items, 1, fit), ClientAt, d)
                            /\ Frame(script, SubSeq(items, fit + 1, Len(items)), d, ClientAt')
    <3> HIDE DEF fit
    <3> QED
      BY <2>1, FrameSplit
  <2>5. SubSeq(items, 1, fit) \in Seq(AnyMsg) /\ Len(SubSeq(items, 1, fit)) = fit
    <3> HIDE DEF fit
    <3> QED
      BY <2>1, SplitParts
  <2>6. Frame(script, buffer \o SubSeq(items, 1, fit), c, d)
    <3> HIDE DEF fit
    <3> QED
      BY <1>1, <2>2, <2>4, <2>5, FrameConcat
  <2>7. buffer \o SubSeq(items, 1, fit) \in Frames
    <3>1. /\ buffer \o SubSeq(items, 1, fit) \in Seq(AnyMsg)
          /\ Len(buffer \o SubSeq(items, 1, fit)) = Len(buffer) + Len(SubSeq(items, 1, fit))
      BY <1>1, <2>5, ConcatProperties
    <3> QED
      BY <1>1, <2>5, <3>1 DEF Frames
  <2>8. Stream(script, down', b, d)
    <3> HIDE DEF fit
    <3> QED
      BY <1>1, <2>3, <2>6, <2>7, StreamAppend
  <2> QED
    BY <2>3, <2>4, <2>8
<1> QED
  BY <1>3, <1>4, <1>5

(* The buffer is sent as it is.                                            *)
LEMMA CommitExtends ==
  ASSUME SessionInv, Commit, ClientAt \in Labels, ClientAt' = ClientAt, script' = script,
         worker \notin {"reject", "gone"}
  PROVE  Extends
<1> SUFFICES ASSUME NEW b \in Labels, NEW c \in Labels, Stream(script, down, b, c),
                    Sending => Frame(script, buffer, c, ClientAt)
             PROVE  \E d \in Labels : /\ Stream(script, down', b, d)
                                      /\ Sending' => Frame(script, buffer', d, ClientAt')
  BY DEF Extends
<1>1. buffer \in Frames /\ down \in Seq(Frames)
  BY DEF SessionInv, Frames_Client, Frames_Link
<1>2. Sending' => Sending
  BY DEF Commit, Sending, ClientSees
<1>3. CASE ~CanSend
  BY <1>2, <1>3 DEF Commit, SendFails, Sending
<1>4. CASE CanSend
  <2>1. Frame(script, buffer, c, ClientAt) /\ down' = Append(down, buffer) /\ buffer' = <<>>
    BY <1>4 DEF Commit, Sending, CanSend
  <2>2. Stream(script, down', b, ClientAt)
    BY <1>1, <2>1, StreamAppend
  <2>3. Frame(script, buffer', ClientAt, ClientAt')
    BY <2>1, EmptyRuns
  <2> QED
    BY <2>2, <2>3
<1> QED
  BY <1>3, <1>4

(* Main's queue without its first event, and with one more.                *)
LEMMA LatestTail ==
  ASSUME NEW ev, NEW n \in Nat, NEW q \in Seq(AnyMsg), q # <<>>, Latest(ev, n, q), Len(ev) \in Nat
  PROVE  /\ Latest(ev, n, Tail(q)) /\ Head(q) = ev[(n - Len(q)) + 1]
         /\ Len(q) \in Nat /\ n - Len(q) \in Nat /\ n - Len(q) < Len(ev)
         /\ n - Len(Tail(q)) = (n - Len(q)) + 1
<1>1. /\ Len(q) \in Nat /\ Len(q) >= 1 /\ Len(Tail(q)) = Len(q) - 1 /\ Head(q) = q[1]
      /\ \A i \in 1..(Len(q) - 1) : Tail(q)[i] = q[i + 1]
  BY HeadTailProperties, NonEmpty
<1>2. \A i \in 1..Len(Tail(q)) : i + 1 \in 1..Len(q) /\ (n - Len(q)) + (i + 1) = (n - Len(Tail(q))) + i
  BY <1>1
<1>3. \A i \in 1..Len(Tail(q)) : Tail(q)[i] = ev[(n - Len(Tail(q))) + i]
  BY <1>1, <1>2 DEF Latest
<1>4. Head(q) = ev[(n - Len(q)) + 1]
  <2>1. 1 \in 1..Len(q)
    BY <1>1
  <2> QED
    BY <1>1, <2>1 DEF Latest
<1> QED
  BY <1>1, <1>3, <1>4 DEF Latest

LEMMA LatestAppend ==
  ASSUME NEW ev, NEW n \in Nat, NEW q \in Seq(AnyMsg), Latest(ev, n, q), Len(ev) \in Nat, n < Len(ev),
         ev[n + 1] \in AnyMsg
  PROVE  /\ Latest(ev, n + 1, Append(q, ev[n + 1]))
         /\ (n + 1) - Len(Append(q, ev[n + 1])) = n - Len(q)
<1> DEFINE t == Append(q, ev[n + 1])
<1>1. /\ Len(q) \in Nat /\ Len(t) = Len(q) + 1 /\ t[Len(q) + 1] = ev[n + 1]
      /\ \A i \in 1..Len(q) : t[i] = q[i]
  BY AppendProperties
<1> HIDE DEF t
<1>2. \A i \in 1..Len(t) : t[i] = ev[((n + 1) - Len(t)) + i]
  <2> SUFFICES ASSUME NEW i \in 1..Len(t) PROVE t[i] = ev[((n + 1) - Len(t)) + i]
    OBVIOUS
  <2>1. ((n + 1) - Len(t)) + i = (n - Len(q)) + i
    BY <1>1
  <2>2. CASE i \in 1..Len(q)
    BY <1>1, <2>1, <2>2 DEF Latest
  <2>3. CASE i = Len(q) + 1
    <3>1. (n - Len(q)) + i = n + 1
      BY <1>1, <2>3
    <3> QED
      BY <1>1, <2>1, <2>3, <3>1
  <2> QED
    BY <1>1, <2>2, <2>3
<1>3. Latest(ev, n + 1, t) /\ (n + 1) - Len(t) = n - Len(q)
  BY <1>1, <1>2 DEF Latest
<1> QED
  BY <1>3 DEF t

(* Types that the invariant gives.                                         *)
LEMMA OrderTypes ==
  ASSUME OrderInv
  PROVE  /\ SessionInv /\ script \in Seq(AnyMsg) /\ Len(script) \in Nat /\ made \in Nat
         /\ queue \in [Producers -> Seq(AnyMsg)] /\ "main" \in Producers
         /\ Len(queue["main"]) \in Nat /\ made - Len(queue["main"]) \in Nat
         /\ ClientAt \in Labels /\ DOMAIN script = 1..Len(script)
<1>1. /\ SessionInv /\ script \in Seq(AnyMsg) /\ Len(script) \in Nat /\ made \in Nat
      /\ queue \in [Producers -> Seq(AnyMsg)] /\ "main" \in Producers
      /\ DOMAIN script = 1..Len(script)
  BY LenProperties DEF OrderInv, SpaceInv, SessionInv, Frames_Client, Producers
<1>2. Len(queue["main"]) \in Nat /\ Len(queue["main"]) <= made
  BY <1>1, LenProperties DEF OrderInv, EventQueues, Latest
<1>3. made - Len(queue["main"]) \in Nat
  BY <1>1, <1>2
<1>4. ClientAt \in Labels
  BY <1>3 DEF ClientAt, At, Labels, OrderInv, Stages
<1> QED
  BY <1>1, <1>2, <1>3, <1>4

(* An item is taken from a queue and, with its context, into the buffer.   *)
LEMMA DequeueExtends ==
  ASSUME OrderInv, NEW p \in Producers, NEW next, NEW failed, Dequeue(p, next, failed),
         UNCHANGED <<script, made>>, worker \notin {"reject", "gone"}
  PROVE  Extends /\ EventQueues' /\ m_threadCtx' = p
<1> DEFINE q == queue[p]
<1>1. /\ q \in Seq(AnyMsg) /\ q # <<>> /\ queue' = [queue EXCEPT ![p] = Tail(q)]
      /\ AppendData(NextItems(p)) /\ m_threadCtx' = p
      /\ NextItems(p) = Append(ThreadCtxCheck(p), Head(q))
  BY OrderTypes DEF Dequeue, NextItems
<1>2. Head(q) \in AnyMsg /\ queue'[p] = Tail(q) /\ \A o \in Producers : o # p => queue'[o] = queue[o]
  BY <1>1, OrderTypes, HeadTailProperties
<1> DEFINE a == At(made - Len(queue["main"]), p)
<1>3. a \in Labels
  BY OrderTypes DEF At, Labels
<1>4. /\ ThreadCtxCheck(p) \in Seq(AnyMsg) /\ Len(ThreadCtxCheck(p)) <= 1
      /\ Frame(script, ThreadCtxCheck(p), ClientAt, a)
  <2>1. CASE m_threadCtx = p
    <3>1. ThreadCtxCheck(p) = <<>> /\ ClientAt = a
      BY <2>1 DEF ThreadCtxCheck, ClientAt
    <3> QED
      BY <1>3, <3>1, EmptyRuns
  <2>2. CASE m_threadCtx # p
    <3>1. ThreadCtxCheck(p) = <<Msg("context", p)>> /\ Msg("context", p) \in AnyMsg
      BY <2>2, ProducersAssumption DEF ThreadCtxCheck, Msg, AnyMsg, Kinds
    <3>2. Reads(script, Msg("context", p), ClientAt, a)
      BY DEF Reads, Msg, ClientAt, At
    <3>3. Frame(script, <<Msg("context", p)>>, ClientAt, a)
      BY <1>3, <3>1, <3>2, FrameOne, OrderTypes
    <3> QED
      BY <3>1, <3>3
  <2> QED
    BY <2>1, <2>2
<1>5. Reads(script, Head(q), a, ClientAt') /\ ClientAt' \in Labels /\ EventQueues'
  <2>1. CASE p = "main"
    <3>1. /\ Latest(script, made, Tail(q)) /\ Head(q) = script[(made - Len(q)) + 1]
          /\ Len(q) \in Nat /\ made - Len(q) \in Nat /\ made - Len(q) < Len(script)
          /\ made - Len(Tail(q)) = (made - Len(q)) + 1
      BY <1>1, <2>1, OrderTypes, LatestTail DEF OrderInv, EventQueues
    <3>2. ClientAt' = At((made - Len(q)) + 1, "main") /\ a = At(made - Len(q), "main")
      BY <1>1, <1>2, <2>1, <3>1 DEF ClientAt
    <3>3. Head(q).kind \in EventKinds
      <4>1. (made - Len(q)) + 1 \in DOMAIN script
        BY <3>1, OrderTypes
      <4> QED
        BY <3>1, <4>1 DEF OrderInv, EventQueues
    <3>4. Reads(script, Head(q), a, ClientAt')
      BY <3>1, <3>2, <3>3 DEF Reads, At
    <3>5. ClientAt' \in Labels
      BY <3>1, <3>2 DEF At, Labels, Producers
    <3>6. EventQueues'
      BY <1>2, <2>1, <3>1 DEF OrderInv, EventQueues
    <3> QED
      BY <3>4, <3>5, <3>6
  <2>2. CASE p # "main"
    <3>1. queue'["main"] = queue["main"]
      BY <1>2, <2>2, OrderTypes
    <3>2. ClientAt' = a
      BY <1>1, <3>1 DEF ClientAt
    <3>3. Head(q).kind \in QueryKinds
      <4>1. Head(q) = q[1] /\ 1 \in DOMAIN q
        BY <1>1, HeadTailProperties, NonEmpty
      <4> QED
        BY <2>2, <4>1 DEF OrderInv, QuestionQueues, AllQuestions
    <3>4. EventQueues'
      BY <3>1 DEF OrderInv, EventQueues
    <3> QED
      BY <1>3, <3>2, <3>3, <3>4 DEF Reads
  <2> QED
    BY <2>1, <2>2
<1>6. /\ NextItems(p) \in Seq(AnyMsg) /\ Len(NextItems(p)) <= 2
      /\ Frame(script, NextItems(p), ClientAt, ClientAt')
  <2> HIDE DEF q, a
  <2>1. <<Head(q)>> \in Seq(AnyMsg) /\ NextItems(p) = ThreadCtxCheck(p) \o <<Head(q)>>
    BY <1>1, <1>2, <1>4, AppendIsConcat
  <2>2. Frame(script, <<Head(q)>>, a, ClientAt')
    BY <1>2, <1>3, <1>5, FrameOne
  <2>3. Frame(script, NextItems(p), ClientAt, ClientAt')
    BY <1>3, <1>4, <1>5, <2>1, <2>2, FrameConcat, OrderTypes
  <2>4. NextItems(p) \in Seq(AnyMsg) /\ Len(NextItems(p)) = Len(ThreadCtxCheck(p)) + 1
    BY <1>1, <1>2, <1>4, AppendProperties
  <2>5. Len(ThreadCtxCheck(p)) \in Nat
    BY <1>4, LenProperties
  <2> QED
    BY <1>4, <2>3, <2>4, <2>5
<1>7. Extends
  BY <1>1, <1>5, <1>6, AppendExtends, OrderTypes
<1> QED
  BY <1>1, <1>5, <1>7

(* A packet of the server is answered, which says nothing of main.         *)
LEMMA HandleExtends ==
  ASSUME OrderInv, HandleServerQuery, worker \notin {"reject", "gone"}
  PROVE  Extends /\ EventQueues'
<1>1. /\ up \in Seq(AnyMsg) /\ up # <<>> /\ Head(up) # Terminate
      /\ UNCHANGED <<script, made, queue, worker, m_threadCtx>>
  BY OrderTypes DEF SessionInv, Frames_Link, HandleServerQuery, HasQuery, program
<1>2. Head(up) = up[1] /\ 1 \in DOMAIN up /\ Head(up) \in AnyMsg
  BY <1>1, HeadTailProperties, NonEmpty
<1>3. Head(up).kind \in QueryKinds
  BY <1>1, <1>2 DEF OrderInv, QuestionQueues
<1>4. ClientAt' = ClientAt /\ EventQueues'
  BY <1>1 DEF ClientAt, OrderInv, EventQueues
<1>5. CASE Head(up).kind \in ForSymbolWorker
  <2>1. UNCHANGED <<buffer, down, clientEnd, serverEnd, lost>>
    BY <1>5 DEF HandleServerQuery
  <2>2. Sending' => Sending
    BY <1>1, <2>1 DEF Sending, ClientSees
  <2> QED
    BY <1>1, <1>4, <2>1, <2>2, QuietExtends
<1>6. CASE Head(up).kind \notin ForSymbolWorker
  <2>1. AppendData(<<Head(up)>>)
    BY <1>6 DEF HandleServerQuery
  <2>2. Frame(script, <<Head(up)>>, ClientAt, ClientAt')
    <3>1. Reads(script, Head(up), ClientAt, ClientAt)
      BY <1>3 DEF Reads
    <3> QED
      BY <1>2, <1>4, <3>1, FrameOne, OrderTypes
  <2>3. <<Head(up)>> \in Seq(AnyMsg) /\ Len(<<Head(up)>>) <= 2
    BY <1>2
  <2>4. ClientAt \in Labels /\ ClientAt' \in Labels /\ SessionInv
    BY <1>4, OrderTypes
  <2>5. Extends
    BY <1>1, <2>1, <2>2, <2>3, <2>4, AppendExtends
  <2> QED
    BY <1>4, <2>5
<1> QED
  BY <1>5, <1>6

(* Termination is announced when all events were sent.                     *)
LEMMA TerminateExtends ==
  ASSUME OrderInv, SendTerminate
  PROVE  Extends /\ EventQueues'
<1>1. /\ worker = "terminate" /\ buffer = <<>> /\ queue["main"] = <<>> /\ made = Len(script)
      /\ UNCHANGED <<script, made, queue, buffer, m_threadCtx, clientEnd, serverEnd, lost>>
  BY DEF OrderInv, Stages, Ending, SendTerminate, program
<1>2. ClientAt' = ClientAt /\ EventQueues' /\ ClientAt \in Labels /\ SessionInv
  BY <1>1, OrderTypes DEF ClientAt, OrderInv, EventQueues
<1>3. Sending' => Sending
  BY <1>1 DEF Sending, ClientSees
<1>4. CASE ~CanSend
  <2>1. down' = down
    BY <1>4 DEF SendTerminate
  <2> QED
    BY <1>1, <1>2, <1>3, <2>1, QuietExtends
<1>5. CASE CanSend
  <2>1. down' = Append(down, <<Terminate>>) /\ Sending
    BY <1>1, <1>5 DEF SendTerminate, CanSend, Sending
  <2>2. <<Terminate>> \in Frames /\ Terminate \in AnyMsg /\ down \in Seq(Frames)
    BY <1>2, LinkAssumption DEF Terminate, Msg, Frames, AnyMsg, Kinds, SessionInv, Frames_Link
  <2>3. Frame(script, <<Terminate>>, ClientAt, ClientAt)
    <3>1. ClientAt.told = Len(script)
      BY <1>1, OrderTypes DEF ClientAt, At
    <3>2. Reads(script, Terminate, ClientAt, ClientAt)
      BY <3>1 DEF Reads, Terminate, Msg
    <3> QED
      BY <1>2, <2>2, <3>2, FrameOne
  <2> SUFFICES ASSUME NEW b \in Labels, NEW c \in Labels, Stream(script, down, b, c),
                      Sending => Frame(script, buffer, c, ClientAt)
               PROVE  \E d \in Labels : /\ Stream(script, down', b, d)
                                        /\ Sending' => Frame(script, buffer', d, ClientAt')
    BY <1>2 DEF Extends
  <2>4. c = ClientAt
    BY <1>1, <2>1, EmptyRuns
  <2>5. Stream(script, down', b, ClientAt)
    BY <1>2, <2>1, <2>2, <2>3, <2>4, StreamAppend
  <2>6. Frame(script, buffer', ClientAt, ClientAt')
    BY <1>1, <1>2, EmptyRuns
  <2> QED
    BY <1>2, <2>5, <2>6
<1> QED
  BY <1>4, <1>5

(* Every step of the client leads on.                                      *)
LEMMA ClientExtends == OrderInv /\ ClientStep => Extends /\ EventQueues'
<1> SUFFICES ASSUME OrderInv, ClientStep PROVE Extends /\ EventQueues'
  OBVIOUS
<1>0. SessionInv /\ ClientAt \in Labels
  BY OrderTypes
(* A step that leaves main's queue, the buffer and what was sent alone. *)
<1>1. ASSUME UNCHANGED <<script, made, queue["main"], buffer, down, serverEnd, lost>>,
             Sending' => ClientAt' = ClientAt,
             worker \in {"reject", "gone"} => worker' \in {"reject", "gone"}
      PROVE  Extends /\ EventQueues'
  <2>1. Sending' => Sending /\ ClientAt' = ClientAt
    BY <1>1 DEF Sending, ClientSees
  <2>2. Extends
    BY <1>1, <2>1, QuietExtends
  <2>3. EventQueues'
    BY <1>1 DEF OrderInv, EventQueues
  <2> QED
    BY <2>2, <2>3
(* One that sends the buffer. *)
<1>2. ASSUME Commit, UNCHANGED <<script, made, queue, m_threadCtx>>, worker \notin {"reject", "gone"}
      PROVE  Extends /\ EventQueues'
  <2>1. ClientAt' = ClientAt /\ EventQueues'
    BY <1>2 DEF ClientAt, OrderInv, EventQueues
  <2>2. Extends
    BY <1>0, <1>2, <2>1, CommitExtends
  <2> QED
    BY <2>1, <2>2
<1> USE DEF program, link
<1>3. CASE QueueEvent
  <2>1. /\ made < Len(script) /\ made' = made + 1 /\ queue'["main"] = Append(queue["main"], script[made + 1])
        /\ UNCHANGED <<script, worker, m_threadCtx, buffer, down, serverEnd, lost>>
    BY <1>3, OrderTypes DEF QueueEvent
  <2>2. script[made + 1] \in AnyMsg
    <3>1. made + 1 \in 1..Len(script)
      BY <2>1, OrderTypes
    <3> QED
      BY <3>1, ElementOfSeq, OrderTypes
  <2>3. /\ Latest(script, made + 1, Append(queue["main"], script[made + 1]))
        /\ (made + 1) - Len(Append(queue["main"], script[made + 1])) = made - Len(queue["main"])
    BY <2>1, <2>2, OrderTypes, LatestAppend DEF OrderInv, EventQueues
  <2>4. EventQueues'
    BY <2>1, <2>3 DEF OrderInv, EventQueues
  <2>5. ClientAt' = ClientAt /\ (Sending' => Sending)
    BY <2>1, <2>3 DEF ClientAt, Sending, ClientSees
  <2>6. Extends
    BY <2>1, <2>5, QuietExtends
  <2> QED
    BY <2>4, <2>6
<1>4. CASE ShutdownProfiler \/ JoinThreads \/ AwaitSymbols \/ FinalExits \/ FinalPass
           \/ AcceptExits \/ Reject \/ RejectExits \/ MainLeaves
  BY <1>1, <1>4 DEF ShutdownProfiler, JoinThreads, AwaitSymbols, FinalExits, FinalPass, ClientAt,
                    AcceptExits, Reject, RejectExits, MainLeaves, Goto
<1>5. CASE \E version \in {"same", "other", "unread"} : Accept(version)
  <2>1. worker = "accept" /\ m_threadCtx = "none" /\ m_threadCtx' = "none"
        /\ UNCHANGED <<script, made, queue, buffer, down, serverEnd, lost>>
    BY <1>5 DEF Accept, OrderInv, Stages, Silent
  <2> QED
    BY <1>1, <2>1 DEF ClientAt
<1>6. CASE SymbolWorker \/ DrainSymbols \/ FinalSymbols
  <2>1. queue' = queue \/ \E p \in {"symbols", "worker"} : Resolve(p)
    BY <1>6 DEF SymbolWorker, DrainSymbols, FinalSymbols
  <2>2. queue'["main"] = queue["main"]
    BY <2>1, OrderTypes DEF Resolve
  <2> QED
    BY <1>1, <1>6, <2>2 DEF SymbolWorker, DrainSymbols, FinalSymbols, Goto, ClientAt
<1>7. CASE MainQueries \/ DrainQueries \/ FinalQueries
  BY <1>7, HandleExtends DEF MainQueries, DrainQueries, FinalQueries
<1>8. CASE RejectClear
  <2>1. /\ worker' = "reject" /\ UNCHANGED <<script, made, buffer, down>> /\ queue'["main"] = <<>>
    BY <1>8 DEF RejectClear, Producers
  <2>2. EventQueues'
    BY <2>1, OrderTypes DEF OrderInv, EventQueues, Latest
  <2>3. Extends
    BY <2>1, QuietExtends DEF Sending
  <2> QED
    BY <2>2, <2>3
<1>9. CASE MainDequeue
  <2>1. UNCHANGED <<script, made>> /\ worker = "main"
    BY <1>9 DEF MainDequeue
  <2>2. CASE \E p \in Producers : Dequeue(p, "mainQueries", "lost")
    BY <2>1, <2>2, DequeueExtends
  <2>3. CASE Commit /\ UNCHANGED <<queue, m_threadCtx>>
    BY <1>2, <2>1, <2>3
  <2>4. CASE UNCHANGED <<queue, m_threadCtx, buffer, link>>
    BY <1>1, <2>1, <2>4 DEF ClientAt
  <2> QED
    BY <1>9, <2>2, <2>3, <2>4 DEF MainDequeue
<1>10. CASE DrainDequeue
  <2>1. UNCHANGED <<script, made>> /\ worker = "drain"
    BY <1>10 DEF DrainDequeue
  <2>2. CASE \E p \in Producers : Dequeue(p, "drainQueries", "gone")
    BY <2>1, <2>2, DequeueExtends
  <2>3. CASE Commit /\ UNCHANGED <<queue, m_threadCtx>>
    BY <1>2, <2>1, <2>3
  <2>4. CASE UNCHANGED <<queue, m_threadCtx, buffer, link>>
    BY <1>1, <2>1, <2>4 DEF ClientAt
  <2> QED
    BY <1>10, <2>2, <2>3, <2>4 DEF DrainDequeue
<1>11. CASE FinalDequeue
  <2>1. UNCHANGED <<script, made>> /\ worker = "finalDequeue"
    BY <1>11 DEF FinalDequeue
  <2>2. CASE \E p \in Producers : Dequeue(p, "finalCommit", "gone")
    BY <2>1, <2>2, DequeueExtends
  <2>3. CASE UNCHANGED <<queue, m_threadCtx, buffer, link>>
    BY <1>1, <2>1, <2>3 DEF ClientAt
  <2> QED
    BY <1>11, <2>2, <2>3 DEF FinalDequeue
<1>12. CASE FinalCommit
  <2>1. UNCHANGED <<script, made, queue, m_threadCtx>> /\ worker = "finalCommit"
    BY <1>12 DEF FinalCommit
  <2>2. CASE Commit
    BY <1>2, <2>1, <2>2
  <2>3. CASE UNCHANGED <<buffer, link>>
    BY <1>1, <2>1, <2>3 DEF ClientAt
  <2> QED
    BY <1>12, <2>2, <2>3 DEF FinalCommit
<1>13. CASE SendTerminate
  BY <1>13, TerminateExtends
<1> QED
  BY <1>3, <1>4, <1>5, <1>6, <1>7, <1>8, <1>9, <1>10, <1>11, <1>12, <1>13
     DEF ClientStep, Main, Worker

(* Questions and the notice of termination go their way through queues.    *)
Packets(s) == \A i \in DOMAIN s : s[i].kind \in QueryKinds \/ s[i] = Terminate

LEMMA PacketsTail ==
  ASSUME NEW s \in Seq(AnyMsg), s # <<>>
  PROVE  /\ Packets(s) => Packets(Tail(s)) /\ (Head(s) # Terminate => Head(s).kind \in QueryKinds)
         /\ AllQuestions(s) => AllQuestions(Tail(s)) /\ Head(s).kind \in QueryKinds
         /\ Head(s) \in AnyMsg /\ Tail(s) \in Seq(AnyMsg)
<1>1. /\ Len(s) \in Nat /\ Len(s) >= 1 /\ DOMAIN s = 1..Len(s) /\ Head(s) = s[1]
      /\ Len(Tail(s)) = Len(s) - 1 /\ DOMAIN Tail(s) = 1..(Len(s) - 1)
      /\ \A i \in 1..(Len(s) - 1) : Tail(s)[i] = s[i + 1]
      /\ Head(s) \in AnyMsg /\ Tail(s) \in Seq(AnyMsg)
  OBVIOUS
<1>2. (\A i \in 1..(Len(s) - 1) : i + 1 \in 1..Len(s)) /\ 1 \in 1..Len(s)
  BY <1>1
<1>3. Packets(s) => Packets(Tail(s))
  BY <1>1, <1>2 DEF Packets
<1>4. AllQuestions(s) => AllQuestions(Tail(s))
  BY <1>1, <1>2 DEF AllQuestions
<1> QED
  BY <1>1, <1>2, <1>3, <1>4 DEF Packets, AllQuestions

LEMMA ClientQuestions == OrderInv /\ ClientStep /\ UNCHANGED server => QuestionQueues'
<1> SUFFICES ASSUME OrderInv, ClientStep, UNCHANGED server PROVE QuestionQueues'
  OBVIOUS
<1>1. /\ queue \in [Producers -> Seq(AnyMsg)] /\ m_symbolQueue \in Seq(AnyMsg) /\ up \in Seq(AnyMsg)
      /\ \A p \in Producers \ {"main"} : AllQuestions(queue[p])
      /\ AllQuestions(m_symbolQueue) /\ AllQuestions(prioQueue) /\ AllQuestions(lowQueue)
      /\ Packets(up)
  BY OrderTypes DEF OrderInv, QuestionQueues, Packets, SessionInv, Frames_Client, Frames_Link
<1>2. UNCHANGED <<prioQueue, lowQueue>>
  BY DEF server, queries
<1>3. up' = up \/ (up # <<>> /\ up' = Tail(up))
  BY ClientStepMoves DEF ClientMoves
<1>4. Packets(up')
  BY <1>1, <1>3, PacketsTail
<1>5. ASSUME \A p \in Producers \ {"main"} : AllQuestions(queue'[p]), AllQuestions(m_symbolQueue')
      PROVE  QuestionQueues'
  BY <1>1, <1>2, <1>4, <1>5 DEF QuestionQueues, Packets
<1>6. ASSUME NEW p \in Producers, NEW next, NEW failed, Dequeue(p, next, failed), UNCHANGED m_symbolQueue
      PROVE  QuestionQueues'
  <2>1. queue[p] \in Seq(AnyMsg) /\ queue[p] # <<>> /\ queue' = [queue EXCEPT ![p] = Tail(queue[p])]
    BY <1>1, <1>6 DEF Dequeue
  <2>2. AllQuestions(queue[p]) => AllQuestions(Tail(queue[p]))
    BY <2>1, PacketsTail
  <2> QED
    BY <1>1, <1>5, <1>6, <2>1, <2>2
<1>7. ASSUME NEW p \in Producers, Resolve(p) PROVE QuestionQueues'
  <2>1. /\ m_symbolQueue # <<>> /\ m_symbolQueue' = Tail(m_symbolQueue)
        /\ queue' = [queue EXCEPT ![p] = Append(queue[p], Head(m_symbolQueue))]
    BY <1>1, <1>7 DEF Resolve
  <2>2. /\ AllQuestions(m_symbolQueue') /\ Head(m_symbolQueue).kind \in QueryKinds
        /\ Head(m_symbolQueue) \in AnyMsg
    BY <1>1, <2>1, PacketsTail
  <2>3. AllQuestions(queue[p]) => AllQuestions(Append(queue[p], Head(m_symbolQueue)))
    BY <1>1, <2>2, QuestionAppend
  <2> QED
    BY <1>1, <1>5, <2>1, <2>2, <2>3
<1>8. ASSUME UNCHANGED <<queue, m_symbolQueue>> PROVE QuestionQueues'
  BY <1>1, <1>5, <1>8
<1> USE DEF program
<1>9. CASE Main \/ RejectClear
  <2>1. CASE QueueEvent
    <3>1. \A p \in Producers \ {"main"} : queue'[p] = queue[p]
      BY <1>1, <2>1 DEF QueueEvent
    <3> QED
      BY <1>1, <1>5, <2>1, <3>1 DEF QueueEvent
  <2>2. CASE RejectClear
    <3>1. \A p \in Producers : AllQuestions(queue'[p])
      BY <2>2 DEF RejectClear, AllQuestions
    <3> QED
      BY <1>1, <1>5, <2>2, <3>1 DEF RejectClear
  <2> QED
    BY <1>8, <1>9, <2>1, <2>2 DEF Main, ShutdownProfiler, JoinThreads
<1>10. CASE SymbolWorker \/ DrainSymbols \/ FinalSymbols
  <2>1. UNCHANGED <<queue, m_symbolQueue>> \/ \E p \in {"symbols", "worker"} : Resolve(p)
    BY <1>10 DEF SymbolWorker, DrainSymbols, FinalSymbols
  <2> QED
    BY <1>7, <1>8, <2>1 DEF Producers
<1>11. CASE MainDequeue \/ DrainDequeue \/ FinalDequeue
  <2>1. m_symbolQueue' = m_symbolQueue
    BY <1>11 DEF MainDequeue, DrainDequeue, FinalDequeue
  <2>2. \/ queue' = queue
        \/ \E p \in Producers : Dequeue(p, "mainQueries", "lost") \/ Dequeue(p, "drainQueries", "gone")
                                  \/ Dequeue(p, "finalCommit", "gone")
    BY <1>11 DEF MainDequeue, DrainDequeue, FinalDequeue
  <2> QED
    BY <1>6, <1>8, <2>1, <2>2
<1>12. CASE MainQueries \/ DrainQueries \/ FinalQueries
  <2>1. HandleServerQuery /\ queue' = queue
    BY <1>12 DEF MainQueries, DrainQueries, FinalQueries, HandleServerQuery
  <2>2. CASE Head(up).kind \in ForSymbolWorker
    <3>1. m_symbolQueue' = Append(m_symbolQueue, Head(up)) /\ up # <<>>
      BY <2>1, <2>2 DEF HandleServerQuery, HasQuery
    <3>2. Head(up) \in AnyMsg /\ Head(up).kind \in QueryKinds
      BY <1>1, <2>2, <3>1, PacketsTail DEF QueryKinds, ForSymbolWorker
    <3>3. AllQuestions(m_symbolQueue')
      BY <1>1, <3>1, <3>2, QuestionAppend
    <3> QED
      BY <1>1, <1>5, <2>1, <3>3
  <2>3. CASE Head(up).kind \notin ForSymbolWorker
    <3>1. m_symbolQueue' = m_symbolQueue
      BY <2>1, <2>3 DEF HandleServerQuery
    <3> QED
      BY <1>8, <2>1, <3>1
  <2> QED
    BY <2>2, <2>3
<1>13. CASE AcceptExits \/ (\E version \in {"same", "other", "unread"} : Accept(version))
            \/ MainLeaves \/ Reject \/ RejectExits \/ AwaitSymbols \/ SendTerminate \/ FinalExits
            \/ FinalPass \/ FinalCommit
  BY <1>8, <1>13 DEF AcceptExits, Accept, MainLeaves, Reject, RejectExits, AwaitSymbols, SendTerminate,
                     FinalExits, FinalPass, FinalCommit
<1> QED
  BY <1>9, <1>10, <1>11, <1>12, <1>13 DEF ClientStep, Worker

(* The client's stages.                                                    *)
LEMMA ClientStages == OrderInv /\ ClientStep /\ UNCHANGED server => Stages'
<1> SUFFICES ASSUME OrderInv, ClientStep, UNCHANGED server PROVE Stages'
  OBVIOUS
<1>1. Stages /\ UNCHANGED <<received, threadCtx, current, m_netRead>>
  BY DEF OrderInv, server, netState, traceData
<1>2. Ending \subseteq {"symbols", "drain", "drainQueries", "drainSymbols", "terminate"}
  BY DEF Ending
<1> USE DEF program, link
(* A step of the threads that keeps main, its queue and the buffer. *)
<1>3. ASSUME UNCHANGED <<main, made, script, m_shutdown, queue["main"], buffer, down, m_threadCtx>>,
             worker' = worker \/ worker' \notin {"accept", "terminate"},
             worker' \in Ending => worker \in Ending \/ m_shutdown
      PROVE  Stages'
  <2>1. worker' = "accept" => Silent'
    BY <1>1, <1>3 DEF Stages, Silent
  <2> QED
    BY <1>1, <1>3, <2>1 DEF Stages
(* One that takes from the queues or sends. *)
<1>4. ASSUME UNCHANGED <<main, made, script, m_shutdown>>,
             worker' \notin {"accept", "terminate"}, worker' \in Ending => worker \in Ending,
             m_threadCtx' \in Producers \cup {"none"}
      PROVE  Stages'
  BY <1>1, <1>4 DEF Stages
<1>5. ASSUME NEW p \in Producers, NEW next, NEW failed, Dequeue(p, next, failed),
             UNCHANGED <<main, made, script, m_shutdown>>,
             {next, failed} \cap {"accept", "terminate"} = {},
             next \in Ending => worker \in Ending, failed \notin Ending
      PROVE  Stages'
  <2>1. m_threadCtx' = p /\ worker' \in {next, failed}
    BY <1>5 DEF Dequeue, Goto
  <2> QED
    BY <1>4, <1>5, <2>1
<1>6. CASE QueueEvent
  <2>1. /\ main = "runs" /\ main' = "runs" /\ made' = made + 1
        /\ queue'["main"] = Append(queue["main"], script[made + 1])
        /\ UNCHANGED <<script, m_shutdown, worker, buffer, down, m_threadCtx>>
    BY <1>6, OrderTypes DEF QueueEvent
  <2>2. Len(queue'["main"]) = Len(queue["main"]) + 1
    <3>1. script[made + 1] \in AnyMsg
      <4>1. made + 1 \in 1..Len(script)
        BY <1>6, OrderTypes DEF QueueEvent
      <4> QED
        BY <4>1, ElementOfSeq, OrderTypes
    <3> QED
      BY <2>1, <3>1, AppendProperties, OrderTypes
  <2>3. worker # "terminate"
    BY <1>1, <2>1 DEF Stages, Ending
  <2>4. worker = "accept" => Silent'
    BY <1>1, <2>1, <2>2 DEF Stages, Silent
  <2> QED
    BY <1>1, <2>1, <2>3, <2>4 DEF Stages
<1>7. CASE ShutdownProfiler \/ JoinThreads
  <2>1. /\ main' \in {"joins", "ended"} /\ (main = "runs" => made = Len(script))
        /\ UNCHANGED <<script, made, queue, worker, buffer, down, m_threadCtx>>
        /\ m_shutdown => m_shutdown'
    BY <1>7 DEF ShutdownProfiler, JoinThreads
  <2>2. worker' = "accept" => Silent'
    BY <1>1, <2>1 DEF Stages, Silent
  <2> QED
    BY <1>1, <2>1, <2>2 DEF Stages
<1>8. CASE SymbolWorker \/ FinalSymbols \/ DrainSymbols
  <2>1. queue' = queue \/ \E p \in {"symbols", "worker"} : Resolve(p)
    BY <1>8 DEF SymbolWorker, DrainSymbols, FinalSymbols
  <2>2. queue'["main"] = queue["main"]
    BY <2>1, OrderTypes DEF Resolve
  <2>3. UNCHANGED <<program, buffer, down, m_threadCtx>>
    BY <1>8 DEF SymbolWorker, DrainSymbols, FinalSymbols
  <2>4. \/ worker' = worker
        \/ worker' \notin {"accept", "terminate"} /\ (worker' \in Ending => worker \in Ending)
    BY <1>8 DEF SymbolWorker, DrainSymbols, FinalSymbols, Goto, Ending
  <2> QED
    BY <1>3, <2>2, <2>3, <2>4
<1>9. CASE AcceptExits \/ Reject \/ RejectExits \/ AwaitSymbols \/ FinalExits \/ FinalPass
           \/ MainLeaves \/ SendTerminate
  <2>1. /\ UNCHANGED <<program, queue, buffer, m_threadCtx>>
        /\ worker' = worker \/ worker' \notin {"accept", "terminate"}
        /\ worker' \in Ending => worker \in Ending \/ m_shutdown
    BY <1>9 DEF AcceptExits, Reject, RejectExits, AwaitSymbols, FinalExits, FinalPass, MainLeaves,
                SendTerminate, Goto, Ending
  <2>2. CASE SendTerminate
    <3>1. worker' \notin {"accept", "terminate"} /\ worker' \notin Ending
      BY <2>2 DEF SendTerminate, Goto, Ending
    <3> QED
      BY <1>1, <1>4, <2>1, <3>1 DEF Stages
  <2>3. CASE ~SendTerminate
    <3>1. down' = down
      BY <1>9, <2>3 DEF AcceptExits, Reject, RejectExits, AwaitSymbols, FinalExits, FinalPass, MainLeaves
    <3> QED
      BY <1>3, <2>1, <3>1
  <2> QED
    BY <2>2, <2>3
<1>10. CASE \E version \in {"same", "other", "unread"} : Accept(version)
  <2>1. /\ worker = "accept" /\ m_threadCtx = "none" /\ m_threadCtx' = "none"
        /\ worker' \in {"accept", "main"}
        /\ UNCHANGED <<program, queue, buffer, down>>
    BY <1>1, <1>10 DEF Accept, Stages, Silent, Goto
  <2> QED
    BY <1>3, <2>1 DEF Ending
<1>11. CASE RejectClear
  BY <1>1, <1>4, <1>11 DEF RejectClear, Stages
<1>12. CASE MainQueries \/ DrainQueries \/ FinalQueries
  <2>1. HandleServerQuery /\ worker \in {"mainQueries", "drainQueries", "final"}
    BY <1>12 DEF MainQueries, DrainQueries, FinalQueries
  <2> QED
    BY <1>1, <1>4, <2>1 DEF HandleServerQuery, Stages
<1>13. CASE MainDequeue
  <2>1. UNCHANGED program
    BY <1>13 DEF MainDequeue
  <2>2. CASE \E p \in Producers : Dequeue(p, "mainQueries", "lost")
    BY <1>5, <2>1, <2>2 DEF Ending
  <2>3. CASE m_threadCtx' = m_threadCtx /\ worker' \in {"lost", "mainQueries"}
    BY <1>1, <1>4, <2>1, <2>3 DEF Ending, Stages
  <2> QED
    BY <1>13, <2>2, <2>3 DEF MainDequeue, Goto
<1>14. CASE DrainDequeue
  <2>1. UNCHANGED program /\ worker = "drain"
    BY <1>14 DEF DrainDequeue
  <2>2. CASE \E p \in Producers : Dequeue(p, "drainQueries", "gone")
    BY <1>5, <2>1, <2>2 DEF Ending
  <2>3. CASE ~\E p \in Producers : Dequeue(p, "drainQueries", "gone")
    <3>1. /\ QueuesEmpty /\ worker' = "terminate" /\ UNCHANGED <<queue, m_threadCtx>>
          /\ buffer' = <<>>
      BY <1>14, <2>3 DEF DrainDequeue, Goto, Commit
    <3>2. queue'["main"] = <<>>
      BY <3>1 DEF QueuesEmpty, Producers
    <3> QED
      BY <1>1, <2>1, <3>1, <3>2 DEF Stages, Ending
  <2> QED
    BY <2>2, <2>3
<1>15. CASE FinalDequeue
  <2>1. UNCHANGED program
    BY <1>15 DEF FinalDequeue
  <2>2. CASE \E p \in Producers : Dequeue(p, "finalCommit", "gone")
    BY <1>5, <2>1, <2>2 DEF Ending
  <2>3. CASE m_threadCtx' = m_threadCtx /\ worker' = "finalCommit"
    BY <1>1, <1>4, <2>1, <2>3 DEF Ending, Stages
  <2> QED
    BY <1>15, <2>2, <2>3 DEF FinalDequeue, Goto
<1>16. CASE FinalCommit
  <2>1. UNCHANGED <<program, m_threadCtx>> /\ worker' \in {"gone", "final"}
    BY <1>16 DEF FinalCommit, Goto
  <2> QED
    BY <1>1, <1>4, <2>1 DEF Ending, Stages
<1> QED
  BY <1>6, <1>7, <1>8, <1>9, <1>10, <1>11, <1>12, <1>13, <1>14, <1>15, <1>16
     DEF ClientStep, Main, Worker

(* A step of the client.                                                   *)
LEMMA ClientOrder == OrderInv /\ ClientStep /\ UNCHANGED server => OrderInv'
<1> SUFFICES ASSUME OrderInv, ClientStep, UNCHANGED server PROVE OrderInv'
  OBVIOUS
<1>1. script' = script /\ UNCHANGED <<received, m_terminate>>
  BY ClientStepMoves DEF ClientMoves, server, traceData
<1>2. SpaceInv'
  BY ClientSpace DEF OrderInv
<1>3. Chain' /\ EventQueues'
  BY <1>1, ClientExtends, ClientChains DEF OrderInv
<1>4. QuestionQueues' /\ Stages'
  BY ClientQuestions, ClientStages
<1>5. Truth'
  BY <1>1 DEF OrderInv, Truth
<1> QED
  BY <1>2, <1>3, <1>4, <1>5 DEF OrderInv

-----------------------------------------------------------------------------
(* The server.  What it does with the frames leads to where it would have  *)
(* got from where it was.                                                  *)
Follows ==
    \A a, b, c \in Labels :
        /\ Frame(script, current.frame, ServerAt, a) /\ Stream(script, Unread, a, b)
        /\ Stream(script, down, b, c)
        => \E d, e \in Labels :
              /\ Frame(script, current'.frame, ServerAt', d) /\ Stream(script, Unread', d, e)
              /\ Stream(script, down', e, c)

LEMMA ServerChains ==
  ASSUME Chain, Follows, UNCHANGED client, Sending' => Sending
  PROVE  Chain'
<1>1. PICK a, b, c \in Labels :
        /\ Frame(script, current.frame, ServerAt, a)
        /\ Stream(script, Unread, a, b) /\ Stream(script, down, b, c)
        /\ Sending => Frame(script, buffer, c, ClientAt)
  BY DEF Chain
<1>2. PICK d, e \in Labels : /\ Frame(script, current'.frame, ServerAt', d)
                             /\ Stream(script, Unread', d, e) /\ Stream(script, down', e, c)
  BY <1>1 DEF Follows
<1>3. UNCHANGED <<script, buffer>> /\ ClientAt' = ClientAt
  BY DEF client, program, ClientAt
<1> QED
  BY <1>1, <1>2, <1>3 DEF Chain

(* A step that leaves the frames alone.                                    *)
LEMMA QuietFollows ==
  ASSUME UNCHANGED <<current, m_netRead, down, received, threadCtx>>
  PROVE  Follows
<1>1. ServerAt' = ServerAt /\ Unread' = Unread
  BY DEF ServerAt, Unread
<1> QED
  BY <1>1 DEF Follows

(* Nothing was said: wherever the server listens, it is where it was.      *)
LEMMA SilentChains == SessionInv /\ Silent => Chain
<1> SUFFICES ASSUME SessionInv, Silent PROVE Chain
  OBVIOUS
<1>0. Len(queue["main"]) \in Nat
  BY LenProperties DEF SessionInv, Frames_Client, Producers
<1> DEFINE a == At(0, "none")
<1>1. ServerAt = a /\ ClientAt = a /\ a \in Labels
  BY <1>0 DEF Silent, ServerAt, ClientAt, At, Labels
<1>2. /\ Frame(script, current.frame, a, a) /\ Stream(script, down, a, a)
      /\ Frame(script, buffer, a, a) /\ Frame(script, <<>>, a, a)
  BY <1>1, EmptyRuns DEF Silent
<1>3. Stream(script, Unread, a, a)
  <2>1. Unread \in Seq(Frames)
    BY UnreadIs
  <2>2. \A i \in 1..Len(Unread) : Unread[i] = <<>>
    <3>1. DOMAIN Unread = DOMAIN m_netRead /\ DOMAIN Unread = 1..Len(Unread)
      BY <2>1, LenProperties DEF Unread
    <3> QED
      BY <3>1 DEF Silent, Unread
  <2> DEFINE l == [i \in 0..Len(Unread) |-> a]
  <2>3. l \in [0..Len(Unread) -> Labels] /\ \A i \in 0..Len(Unread) : l[i] = a
    BY <1>1
  <2>4. Len(Unread) \in Nat
    BY <2>1, LenProperties
  <2> HIDE DEF l, a
  <2>5. l[0] = a /\ l[Len(Unread)] = a
    BY <2>3, <2>4
  <2>6. \A i \in 1..Len(Unread) : l[i - 1] = a /\ l[i] = a
    <3>1. \A i \in 1..Len(Unread) : i - 1 \in 0..Len(Unread) /\ i \in 0..Len(Unread)
      BY <2>4
    <3> QED
      BY <2>3, <3>1
  <2>7. StreamRun(script, Unread, l)
    BY <1>2, <2>2, <2>6 DEF StreamRun
  <2> QED
    BY <2>3, <2>5, <2>7 DEF Stream
<1> QED
  BY <1>1, <1>2, <1>3 DEF Chain

(* Network: a frame it received follows those it received before.          *)
LEMMA NetworkFollows ==
  ASSUME SessionInv, Network
  PROVE  Follows
<1>1. UNCHANGED <<current, received, threadCtx>> /\ ServerAt' = ServerAt
  BY DEF Network, TakeCredit, Receive, ReceiveFails, traceData, ServerAt
<1>2. /\ m_netRead \in Seq(NetBuffers) /\ EndOfStream \in NetBuffers /\ EndOfStream.frame = <<>>
      /\ down \in Seq(Frames)
  BY Empty DEF SessionInv, Frames_Server, Frames_Link, EndOfStream
<1>3. ASSUME UNCHANGED <<m_netRead, down>> PROVE Follows
  BY <1>1, <1>3, QuietFollows
<1>4. ASSUME m_netRead' = Append(m_netRead, EndOfStream), UNCHANGED down PROVE Follows
  <2>1. Unread' = Append(Unread, <<>>) /\ Unread \in Seq(Frames) /\ <<>> \in Frames
    BY <1>2, <1>4, UnreadIs, FramesOfAppend, Empty
  <2>2. \A a, b \in Labels : Stream(script, Unread, a, b) => Stream(script, Unread', a, b)
    BY <2>1, StreamAppend, EmptyRuns
  <2> QED
    BY <1>1, <1>4, <2>2 DEF Follows
<1>5. CASE Receive
  <2> DEFINE b == [offset |-> m_bufferOffset, frame |-> Head(down)]
  <2>1. /\ down # <<>> /\ down' = Tail(down) /\ m_netRead' = Append(m_netRead, b)
      BY <1>5 DEF Receive
  <2>2. Head(down) \in Frames
    BY <1>2, <2>1, HeadTailProperties
  <2>3. b \in NetBuffers /\ b.frame = Head(down)
    BY <2>2 DEF NetBuffers, SessionInv, Credit
  <2> HIDE DEF b
  <2>4. Unread' = Append(Unread, Head(down)) /\ Unread \in Seq(Frames)
    BY <1>2, <2>1, <2>3, UnreadIs, FramesOfAppend
  <2> SUFFICES ASSUME NEW a \in Labels, NEW c \in Labels, NEW d \in Labels,
                      Stream(script, Unread, a, c), Stream(script, down, c, d)
               PROVE  \E e \in Labels : Stream(script, Unread', a, e) /\ Stream(script, down', e, d)
    BY <1>1 DEF Follows
  <2>5. PICK e \in Labels : Frame(script, Head(down), c, e) /\ Stream(script, Tail(down), e, d)
    BY <1>2, <2>1, StreamHead
  <2>6. Stream(script, Unread', a, e)
    BY <2>2, <2>4, <2>5, StreamAppend
  <2> QED
    BY <2>1, <2>5, <2>6
<1>6. CASE TakeCredit \/ ReceiveFails
  BY <1>3, <1>4, <1>6 DEF TakeCredit, ReceiveFails, link
<1> QED
  BY <1>5, <1>6 DEF Network

(* Exec takes the first of the frames that were received.                  *)
LEMMA TakeFrameFollows ==
  ASSUME SessionInv, TakeFrame
  PROVE  Follows
<1>1. /\ m_netRead \in Seq(NetBuffers) /\ m_netRead # <<>> /\ m_netRead' = Tail(m_netRead)
      /\ UNCHANGED <<down, received, threadCtx>> /\ ServerAt' = ServerAt
  BY DEF SessionInv, Frames_Server, TakeFrame, traceData, ServerAt
<1>2. current = None /\ current.frame = <<>>
  BY DEF SessionInv, Credit, TakeFrame, None
<1>3. /\ Unread \in Seq(Frames) /\ Unread # <<>> /\ Unread' = Tail(Unread)
      /\ Head(m_netRead).frame = Head(Unread)
  BY <1>1, UnreadIs, FramesOfTail
<1>4. current'.frame = Head(Unread)
  BY <1>2, <1>3 DEF TakeFrame, EndOfStream
<1> SUFFICES ASSUME NEW a \in Labels, NEW b \in Labels, Frame(script, <<>>, ServerAt, a),
                    Stream(script, Unread, a, b)
             PROVE  \E d \in Labels : /\ Frame(script, Head(Unread), ServerAt, d)
                                      /\ Stream(script, Tail(Unread), d, b)
  BY <1>1, <1>2, <1>3, <1>4 DEF Follows
<1>5. ServerAt = a
  <2>1. \E l \in [0..Len(<<>>) -> Labels] : l[0] = ServerAt /\ l[Len(<<>>)] = a
    BY DEF Frame
  <2> QED
    BY <2>1
<1> QED
  BY <1>3, <1>5, StreamHead

(* Exec processes the first item of its frame: the label that reading it   *)
(* leads to is where the server then is, and the event is main's next.     *)
LEMMA ItemRead ==
  ASSUME OrderInv, DispatchProcess, UNCHANGED client,
         NEW b \in Labels, Reads(script, Item, ServerAt, b)
  PROVE  ServerAt' = b /\ Truth' /\ threadCtx' \in Producers \cup {"none"}
<1>1. /\ ServerAt.told = Len(received) /\ ServerAt.thread = threadCtx
      /\ ServerAt = At(Len(received), threadCtx)
  BY DEF ServerAt, At
<1>2. /\ script' = script /\ script \in Seq(AnyMsg) /\ Len(script) \in Nat
      /\ Truth /\ threadCtx \in Producers \cup {"none"}
      /\ received \in Seq([thread : {"main"}, msg : AnyMsg]) /\ Len(received) \in Nat
      /\ Len(received) <= Len(script)
  BY OrderTypes, LenProperties DEF client, program, OrderInv, Truth, Stages
<1>3. ASSUME UNCHANGED received, m_terminate' => m_terminate \/ Len(received) = Len(script) PROVE Truth'
  BY <1>2, <1>3 DEF Truth
<1>4. CASE ProcessThreadContext
  <2>1. Item.kind = "context" /\ threadCtx' = Item.ref /\ UNCHANGED <<received, m_terminate>>
    BY <1>4 DEF ProcessThreadContext, NewContext
  <2>2. b = At(Len(received), Item.ref)
    BY <1>1, <2>1 DEF Reads, EventKinds, QueryKinds, UrgentKinds
  <2>3. Item.ref \in Producers \cup {"none"}
    BY <2>2 DEF At, Labels
  <2> QED
    BY <1>3, <2>1, <2>2, <2>3 DEF ServerAt
<1>5. CASE ProcessZoneBegin \/ ProcessZoneEnd \/ ProcessCallstack
  <2>1. /\ Item.kind \in EventKinds /\ received' = Append(received, [thread |-> threadCtx, msg |-> Item])
        /\ UNCHANGED <<threadCtx, m_terminate>>
    BY <1>5 DEF ProcessZoneBegin, ProcessZoneEnd, ProcessCallstack, EventKinds, Record
  <2>2. /\ threadCtx = "main" /\ Len(received) < Len(script) /\ Item = script[Len(received) + 1]
        /\ b = At(Len(received) + 1, "main")
    BY <1>1, <2>1 DEF Reads, EventKinds, QueryKinds, UrgentKinds
  <2>3. Item \in AnyMsg
    <3>1. Len(received) + 1 \in 1..Len(script)
      BY <1>2, <2>2
    <3> QED
      BY <1>2, <2>2, <3>1, ElementOfSeq
  <2> DEFINE e == [thread |-> "main", msg |-> Item]
  <2>4. e \in [thread : {"main"}, msg : AnyMsg]
    BY <2>3
  <2>5. received' = Append(received, e) /\ e = [thread |-> "main", msg |-> script[Len(received) + 1]]
    BY <2>1, <2>2
  <2> HIDE DEF e
  <2>6. /\ received' \in Seq([thread : {"main"}, msg : AnyMsg]) /\ Len(received') = Len(received) + 1
        /\ \A i \in 1..Len(received) : received'[i] = received[i]
        /\ received'[Len(received) + 1] = e
    BY <1>2, <2>4, <2>5, AppendProperties
  <2>7. \A i \in 1..Len(received') : received'[i] = [thread |-> "main", msg |-> script[i]]
    <3> SUFFICES ASSUME NEW i \in 1..Len(received')
                 PROVE  received'[i] = [thread |-> "main", msg |-> script[i]]
      OBVIOUS
    <3>1. CASE i \in 1..Len(received)
      BY <1>2, <2>6, <3>1 DEF Truth
    <3>2. CASE i = Len(received) + 1
      BY <2>5, <2>6, <3>2
    <3> QED
      BY <1>2, <2>6, <3>1, <3>2
  <2>8. Len(received') <= Len(script) /\ ~m_terminate
    <3>1. ~m_terminate
      BY <1>2, <2>2 DEF Truth
    <3> QED
      BY <1>2, <2>2, <2>6, <3>1
  <2>9. Truth'
    BY <1>2, <2>1, <2>6, <2>7, <2>8 DEF Truth
  <2> QED
    BY <1>2, <2>1, <2>2, <2>6, <2>9 DEF ServerAt
<1>6. CASE ProcessAnswer \/ ProcessTerminate
  <2>1. /\ Item.kind \in QueryKinds \cup {"terminate"} /\ UNCHANGED <<received, threadCtx>>
        /\ Item.kind \in QueryKinds => m_terminate' = m_terminate
    BY <1>6 DEF ProcessAnswer, ProcessTerminate, traceData, Terminate, Msg, QueryKinds, UrgentKinds
  <2>2. b = ServerAt /\ (Item.kind \in QueryKinds \/ Len(received) = Len(script))
    BY <1>1, <2>1 DEF Reads, EventKinds, QueryKinds, UrgentKinds
  <2> QED
    BY <1>2, <1>3, <2>1, <2>2 DEF ServerAt
<1> QED
  BY <1>4, <1>5, <1>6 DEF DispatchProcess

(* So it follows the chain, and believes what is true.                     *)
LEMMA DispatchFollows ==
  ASSUME OrderInv, DispatchProcess, UNCHANGED client
  PROVE  Follows /\ Truth' /\ threadCtx' \in Producers \cup {"none"}
<1>1. NextItem
  BY DEF DispatchProcess, ProcessThreadContext, ProcessZoneBegin, ProcessZoneEnd, ProcessCallstack,
         ProcessAnswer, ProcessTerminate
<1>2. /\ current.frame # <<>> /\ current'.frame = Tail(current.frame)
      /\ UNCHANGED <<m_netRead, down>> /\ Unread' = Unread
  BY <1>1 DEF NextItem, Unread
<1>3. current.frame \in Seq(AnyMsg)
  BY OrderTypes DEF SessionInv, Frames_Server, NetBuffers, Frames
<1>4. ServerAt \in Labels
  BY LenProperties DEF OrderInv, Truth, Stages, ServerAt, At, Labels
<1>5. \A a \in Labels : Frame(script, current.frame, ServerAt, a) =>
        /\ Frame(script, current'.frame, ServerAt', a)
        /\ Truth' /\ threadCtx' \in Producers \cup {"none"}
  <2> SUFFICES ASSUME NEW a \in Labels, Frame(script, current.frame, ServerAt, a)
               PROVE  /\ Frame(script, current'.frame, ServerAt', a)
                      /\ Truth' /\ threadCtx' \in Producers \cup {"none"}
    OBVIOUS
  <2>1. PICK b \in Labels : Reads(script, Item, ServerAt, b) /\ Frame(script, Tail(current.frame), b, a)
    BY <1>2, <1>3, <1>4, FrameHead DEF Item
  <2> QED
    BY <1>2, <2>1, ItemRead
<1>6. Follows
  BY <1>2, <1>5 DEF Follows
<1> QED
  BY <1>5, <1>6 DEF OrderInv, Chain

(* Exec is done with a frame.                                              *)
LEMMA FrameDoneFollows ==
  ASSUME OrderInv, FrameDone
  PROVE  Follows
<1>1. /\ current.frame = <<>> /\ current'.frame = <<>> /\ UNCHANGED <<m_netRead, down>>
      /\ UNCHANGED <<received, threadCtx>> /\ ServerAt' = ServerAt /\ Unread' = Unread
  BY DEF FrameDone, None, traceData, ServerAt, Unread
<1> QED
  BY <1>1 DEF Follows

(* What a step of the server leaves of the client's sending.               *)
LEMMA ServerSends ==
  ASSUME OrderInv, ServerStep, Sending', ~Sending
  PROVE  worker = "accept"
<1>1. UNCHANGED worker
  BY DEF ServerStep, client
<1>2. CASE Connect
  <2>1. clientEnd = "none"
    BY <1>1, <1>2 DEF Connect, Sending, ClientSees
  <2> QED
    BY <1>1, <2>1 DEF OrderInv, SpaceInv, Phases, Sending
<1>3. CASE ~Connect
  <2>1. serverEnd' = serverEnd \/ serverEnd' = "closed"
    BY <1>3 DEF ServerStep, Exec, Network, Handshake, Check, TakeFrame, FrameDone, CloseSession,
                DispatchProcess, ProcessThreadContext, ProcessZoneBegin, ProcessZoneEnd,
                ProcessCallstack, ProcessAnswer, ProcessTerminate, NextItem,
                TakeCredit, Receive, ReceiveFails, link
  <2>2. lost' = lost
    BY <1>3 DEF ServerStep, Exec, Network, Handshake, Check, TakeFrame, FrameDone,
                DispatchProcess, ProcessThreadContext, ProcessZoneBegin, ProcessZoneEnd,
                ProcessCallstack, ProcessAnswer, ProcessTerminate, NextItem,
                TakeCredit, Receive, ReceiveFails, link
  <2> QED
    BY <1>1, <2>1, <2>2 DEF Sending, ClientSees
<1> QED
  BY <1>2, <1>3

(* A server that the client did not accept hears nothing.                  *)
LEMMA StaysSilent ==
  ASSUME OrderInv, ServerStep, worker = "accept"
  PROVE  Silent'
<1>1. /\ Silent /\ ~Connected /\ reply # "welcome" /\ UNCHANGED client
  BY DEF OrderInv, Stages, SpaceInv, Phases, ServerStep
<1>2. UNCHANGED <<buffer, m_threadCtx, queue, made>>
  BY <1>1 DEF client, program
<1>3. CASE Connect \/ Handshake
  <2>1. UNCHANGED <<received, threadCtx, current, down, m_netRead>>
    BY <1>3 DEF Connect, Handshake, netState, traceData
  <2> QED
    BY <1>1, <1>2, <2>1 DEF Silent
<1>4. CASE Network
  <2>1. UNCHANGED <<received, threadCtx, current, down>>
    BY <1>1, <1>4 DEF Network, TakeCredit, Receive, ReceiveFails, traceData, link, Silent
  <2>2. UNCHANGED m_netRead \/ m_netRead' = Append(m_netRead, EndOfStream)
    BY <1>1, <1>4 DEF Network, TakeCredit, Receive, ReceiveFails, Silent
  <2>3. m_netRead \in Seq(NetBuffers)
    BY OrderTypes DEF SessionInv, Frames_Server
  <2>4. \A i \in DOMAIN m_netRead' : m_netRead'[i].frame = <<>>
    <3>1. CASE UNCHANGED m_netRead
      BY <1>1, <3>1 DEF Silent
    <3>2. CASE m_netRead' = Append(m_netRead, EndOfStream)
      BY <1>1, <2>3, <3>2, Empty DEF Silent, EndOfStream
    <3> QED
      BY <2>2, <3>1, <3>2
  <2> QED
    BY <1>1, <1>2, <2>1, <2>4 DEF Silent
<1>5. CASE Check \/ TakeFrame \/ FrameDone \/ DispatchProcess
  BY <1>1, <1>5 DEF Check, TakeFrame, FrameDone, Connected, DispatchProcess, ProcessThreadContext,
                    ProcessZoneBegin, ProcessZoneEnd, ProcessCallstack, ProcessAnswer,
                    ProcessTerminate, NextItem
<1> QED
  BY <1>3, <1>4, <1>5 DEF ServerStep, Exec

(* Every step of the server follows the chain.                             *)
LEMMA ServerChain ==
  ASSUME OrderInv, ServerStep
  PROVE  Chain' /\ Truth' /\ threadCtx' \in Producers \cup {"none"}
<1>1. /\ SessionInv /\ Truth /\ threadCtx \in Producers \cup {"none"} /\ UNCHANGED client
      /\ script' = script
  BY DEF OrderInv, SpaceInv, Stages, ServerStep, client, program
<1>2. ASSUME UNCHANGED <<received, threadCtx, m_terminate>>
      PROVE  Truth' /\ threadCtx' \in Producers \cup {"none"}
  BY <1>1, <1>2 DEF Truth
<1>3. Follows /\ Truth' /\ threadCtx' \in Producers \cup {"none"}
  <2>1. CASE Connect \/ Handshake \/ Check
    <3>1. UNCHANGED <<current, m_netRead, down, received, threadCtx, m_terminate>>
      BY <2>1 DEF Connect, Handshake, Check, netState, traceData
    <3> QED
      BY <1>2, <3>1, QuietFollows
  <2>2. CASE TakeFrame \/ FrameDone \/ Network
    <3>1. UNCHANGED <<received, threadCtx, m_terminate>>
      BY <2>2 DEF TakeFrame, FrameDone, Network, TakeCredit, Receive, ReceiveFails, traceData
    <3> QED
      BY <1>1, <1>2, <2>2, <3>1, TakeFrameFollows, FrameDoneFollows, NetworkFollows
  <2>3. CASE DispatchProcess
    BY <1>1, <2>3, DispatchFollows
  <2> QED
    BY <2>1, <2>2, <2>3 DEF ServerStep, Exec
<1>4. CASE Sending' => Sending
  BY <1>1, <1>3, <1>4, ServerChains DEF OrderInv
<1>5. CASE Sending' /\ ~Sending
  <2>1. Silent'
    BY <1>5, ServerSends, StaysSilent
  <2>2. SessionInv'
    BY ServerSpace DEF OrderInv, SpaceInv
  <2>3. Chain'
    BY <2>1, <2>2, SilentChains, PTL
  <2> QED
    BY <1>3, <2>3
<1> QED
  BY <1>3, <1>4, <1>5

LEMMA PacketsConcat ==
  ASSUME NEW s \in Seq(AnyMsg), NEW t \in Seq(AnyMsg), Packets(s), Packets(t)
  PROVE  Packets(s \o t)
<1> DEFINE u == s \o t
<1>1. /\ Len(s) \in Nat /\ DOMAIN s = 1..Len(s) /\ Len(t) \in Nat /\ DOMAIN t = 1..Len(t)
      /\ DOMAIN u = 1..(Len(s) + Len(t))
      /\ \A i \in 1..Len(s) : u[i] = s[i]
      /\ \A i \in (Len(s) + 1)..(Len(s) + Len(t)) : u[i] = t[i - Len(s)]
  OBVIOUS
<1> HIDE DEF u
<1>2. \A i \in DOMAIN u : \/ i \in DOMAIN s /\ u[i] = s[i]
                          \/ i - Len(s) \in DOMAIN t /\ u[i] = t[i - Len(s)]
  BY <1>1
<1>3. Packets(u)
  BY <1>2 DEF Packets
<1> QED
  BY <1>3 DEF u

LEMMA ServerQuestions == OrderInv /\ ServerStep => QuestionQueues'
<1> SUFFICES ASSUME OrderInv, ServerStep PROVE QuestionQueues'
  OBVIOUS
<1>1. /\ \A p \in Producers \ {"main"} : AllQuestions(queue[p])
      /\ AllQuestions(m_symbolQueue) /\ AllQuestions(prioQueue) /\ AllQuestions(lowQueue)
      /\ Packets(up) /\ up \in Seq(AnyMsg) /\ SessionInv /\ UNCHANGED <<queue, m_symbolQueue>>
  BY OrderTypes DEF OrderInv, QuestionQueues, Packets, SessionInv, Frames_Link, ServerStep, client
<1>2. ASSUME AllQuestions(prioQueue'), AllQuestions(lowQueue'), Packets(up') PROVE QuestionQueues'
  BY <1>1, <1>2 DEF QuestionQueues, Packets
<1>3. SpaceInv'
  BY ServerSpace DEF OrderInv
<1>4. CASE Connected'
  <2>1. Counted'
    BY <1>3, <1>4 DEF SpaceInv
  <2> QED
    BY <1>2, <2>1 DEF Counted, AllQuestions, Packets
<1>5. CASE exec' \in {"connect", "handshake"}
  <2>1. up' = <<>> /\ prioQueue' = <<>> /\ lowQueue' = <<>>
    BY <1>3, <1>5 DEF SpaceInv, Begins
  <2> QED
    BY <1>2, <2>1 DEF AllQuestions, Packets
<1>6. CASE exec' = "closed"
  <2>1. Packets(<<Terminate>>) /\ <<Terminate>> \in Seq(AnyMsg) /\ Terminate \in AnyMsg
    BY DEF Packets, Terminate, Msg, AnyMsg, Kinds
  <2>2. ASSUME NEW packets \in Seq(AnyMsg), Packets(packets), Send(packets) PROVE Packets(up')
    BY <1>1, <2>2, PacketsConcat DEF Send, Sent
  <2>3. CASE Connect \/ Handshake \/ TakeFrame \/ Network
    <3>1. UNCHANGED <<up, prioQueue, lowQueue>>
      BY <2>3 DEF Connect, Handshake, TakeFrame, Network, TakeCredit, Receive, ReceiveFails, queries, link
    <3> QED
      BY <1>1, <1>2, <3>1
  <2>4. CASE Check
    <3>1. UNCHANGED <<prioQueue, lowQueue>> /\ Send(<<Terminate>>)
      BY <1>6, <2>4 DEF Check, queries
    <3> QED
      BY <1>1, <1>2, <2>1, <2>2, <3>1
  <2>5. CASE FrameDone
    <3>1. /\ prioQueue' = PrioKept /\ lowQueue' = LowKept /\ Connected
          /\ Send(Append(Queued, Terminate))
      BY <1>6, <2>5 DEF FrameDone, PrioKept, LowKept, Connected
    <3>2. Counted
      BY <3>1 DEF OrderInv, SpaceInv
    <3>3. /\ AllQuestions(PrioKept) /\ AllQuestions(LowKept)
          /\ PrioSent \in Seq(AnyMsg) /\ AllQuestions(PrioSent)
          /\ LowSent \in Seq(AnyMsg) /\ AllQuestions(LowSent)
      BY <1>1, <3>2, QueuedIs
    <3>4. Queued = PrioSent \o LowSent /\ Queued \in Seq(AnyMsg)
      BY <3>3 DEF Queued, PrioSent, LowSent
    <3>5. Packets(Queued)
      <4>1. AllQuestions(PrioSent \o LowSent)
        BY <3>3, AllQuestionsConcat
      <4> QED
        BY <3>4, <4>1 DEF AllQuestions, Packets
    <3>6. Append(Queued, Terminate) = Queued \o <<Terminate>>
      BY <2>1, <3>4
    <3> DEFINE last == <<Terminate>>
    <3>7. Queued \o last \in Seq(AnyMsg) /\ Packets(Queued \o last)
      <4>1. last \in Seq(AnyMsg) /\ Packets(last)
        BY <2>1
      <4> HIDE DEF last
      <4>2. Queued \o last \in Seq(AnyMsg)
        BY <3>4, <4>1, ConcatProperties
      <4> QED
        BY <3>4, <3>5, <4>1, <4>2, PacketsConcat
    <3> QED
      BY <1>2, <2>2, <3>1, <3>3, <3>6, <3>7
  <2>6. CASE DispatchProcess
    BY <1>6, <2>6 DEF DispatchProcess, ProcessThreadContext, ProcessZoneBegin, ProcessZoneEnd,
       ProcessCallstack, ProcessAnswer, ProcessTerminate, NextItem, threadsOfServer
  <2> QED
    BY <2>3, <2>4, <2>5, <2>6 DEF ServerStep, Exec
<1> QED
  BY <1>3, <1>4, <1>5, <1>6 DEF SpaceInv, Phases, Connected

(* A step of the server.                                                   *)
LEMMA ServerOrder == OrderInv /\ ServerStep => OrderInv'
<1> SUFFICES ASSUME OrderInv, ServerStep PROVE OrderInv'
  OBVIOUS
<1>1. UNCHANGED client /\ UNCHANGED <<script, made, queue, main, m_shutdown, worker, buffer, m_threadCtx>>
  BY DEF ServerStep, client, program
<1>2. SpaceInv' /\ Chain' /\ QuestionQueues' /\ Truth' /\ threadCtx' \in Producers \cup {"none"}
  BY ServerSpace, ServerChain, ServerQuestions DEF OrderInv
<1>3. EventQueues'
  BY <1>1 DEF OrderInv, EventQueues
<1>4. worker = "accept" => Silent'
  BY StaysSilent
<1>5. Stages'
  BY <1>1, <1>2, <1>4 DEF OrderInv, Stages
<1> QED
  BY <1>2, <1>3, <1>5 DEF OrderInv

-----------------------------------------------------------------------------
(* The user closes the viewer, or nothing happens.                         *)
LEMMA StillOrder ==
  ASSUME OrderInv, SpaceInv', UNCHANGED client,
         UNCHANGED <<clientEnd, serverEnd, lost, down, up>>,
         UNCHANGED <<current, m_netRead, prioQueue, lowQueue, threadCtx, received, m_terminate>>
  PROVE  OrderInv'
<1>1. UNCHANGED <<script, made, queue, main, m_shutdown, worker, m_symbolQueue, buffer, m_threadCtx>>
  BY DEF client, program
<1>2. Chain'
  <2>1. Sending' => Sending
    BY <1>1 DEF Sending, ClientSees
  <2> QED
    BY <2>1, QuietFollows, ServerChains DEF OrderInv
<1>3. EventQueues' /\ QuestionQueues'
  BY <1>1 DEF OrderInv, EventQueues, QuestionQueues
<1>4. Stages'
  BY <1>1 DEF OrderInv, Stages, Silent
<1>5. Truth'
  BY <1>1 DEF OrderInv, Truth
<1> QED
  BY <1>2, <1>3, <1>4, <1>5 DEF OrderInv

(* The connection is lost, and what was on it.                             *)
LEMMA LoseOrder ==
  ASSUME OrderInv, LoseConnection, UNCHANGED server, UNCHANGED client
  PROVE  OrderInv'
<1>1. UNCHANGED <<script, made, queue, main, m_shutdown, worker, m_symbolQueue, buffer, m_threadCtx>>
  BY DEF client, program
<1>2. /\ lost' = TRUE /\ up' = <<>> /\ down' = <<>>
      /\ UNCHANGED <<current, m_netRead, prioQueue, lowQueue, threadCtx, received, m_terminate>>
  BY DEF LoseConnection, server, netState, queries, traceData
<1>3. SpaceInv'
  BY LoseSpace DEF OrderInv
<1>4. Chain'
  <2>1. PICK a, b \in Labels : Frame(script, current.frame, ServerAt, a) /\ Stream(script, Unread, a, b)
    BY DEF OrderInv, Chain
  <2>2. ServerAt' = ServerAt /\ Unread' = Unread /\ ~Sending'
    BY <1>2 DEF ServerAt, Unread, Sending, ClientSees
  <2>3. Stream(script, down', b, b)
    BY <1>2, EmptyRuns
  <2> QED
    BY <1>1, <1>2, <2>1, <2>2, <2>3 DEF Chain
<1>5. EventQueues' /\ QuestionQueues'
  BY <1>1, <1>2 DEF OrderInv, EventQueues, QuestionQueues
<1>6. Stages'
  BY <1>1, <1>2 DEF OrderInv, Stages, Silent
<1>7. Truth'
  BY <1>1, <1>2 DEF OrderInv, Truth
<1> QED
  BY <1>3, <1>4, <1>5, <1>6, <1>7 DEF OrderInv

(* Another viewer believes nothing yet.                                    *)
LEMMA OpenViewerOrder ==
  ASSUME OrderInv, OpenViewer
  PROVE  OrderInv'
<1>1. /\ worker \in {"accept", "reject"} /\ UNCHANGED client
      /\ up' = <<>> /\ down' = <<>> /\ m_netRead' = <<>> /\ current' = None
      /\ prioQueue' = <<>> /\ lowQueue' = <<>>
      /\ threadCtx' = "none" /\ received' = <<>> /\ m_terminate' = FALSE
  BY DEF OpenViewer, ServerReset
<1>2. UNCHANGED <<script, made, queue, main, m_shutdown, worker, m_symbolQueue, buffer, m_threadCtx>>
  BY <1>1 DEF client, program
<1>3. SpaceInv'
  BY OpenViewerSpace DEF OrderInv
<1>4. worker = "accept" => Silent'
  BY <1>1, <1>2 DEF OrderInv, Stages, Silent, None
<1>5. Chain'
  <2>1. CASE worker = "accept"
    <3>1. SessionInv' /\ Silent'
      BY <1>3, <1>4, <2>1 DEF SpaceInv
    <3> QED
      BY <3>1, SilentChains, PTL
  <2>2. CASE worker = "reject"
    <3>1. ~Sending'
      BY <1>2, <2>2 DEF Sending
    <3>2. current'.frame = <<>> /\ Unread' = <<>> /\ ServerAt' = At(0, "none")
      BY <1>1 DEF None, Unread, ServerAt
    <3>3. At(0, "none") \in Labels
      BY DEF At, Labels
    <3>4. /\ Frame(script', current'.frame, ServerAt', At(0, "none"))
          /\ Stream(script', Unread', At(0, "none"), At(0, "none"))
          /\ Stream(script', down', At(0, "none"), At(0, "none"))
      BY <1>1, <3>2, <3>3, EmptyRuns
    <3> QED
      BY <3>1, <3>3, <3>4 DEF Chain
  <2> QED
    BY <1>1, <2>1, <2>2
<1>6. EventQueues' /\ QuestionQueues'
  BY <1>1, <1>2 DEF OrderInv, EventQueues, QuestionQueues, AllQuestions
<1>7. Stages'
  BY <1>1, <1>2, <1>4 DEF OrderInv, Stages
<1>8. Truth'
  <2>1. script' = script /\ Len(script) \in Nat
    BY <1>2, OrderTypes
  <2> QED
    BY <1>1, <2>1 DEF Truth
<1> QED
  BY <1>3, <1>5, <1>6, <1>7, <1>8 DEF OrderInv

(* Before the first session.                                               *)
LEMMA InitOrder == Init => OrderInv
<1> SUFFICES ASSUME Init PROVE OrderInv
  OBVIOUS
<1>1. SpaceInv /\ SessionInv
  BY InitSpace DEF SpaceInv
<1> USE DEF Init, LinkInit, ClientInit, ServerInit
<1>2. Silent
  BY DEF Silent, None, Producers
<1>3. Chain
  BY <1>1, <1>2, SilentChains
<1>4. EventQueues
  <2> DEFINE Event == [kind : EventKinds, ref : Refs \cup {"none"}]
  <2>1. script \in Seq(Event)
    BY ScriptsAssumption
  <2>2. (\A i \in DOMAIN script : script[i] \in Event) /\ Len(script) \in Nat
    <3> HIDE DEF Event
    <3> QED
      BY <2>1, LenProperties
  <2>3. \A i \in DOMAIN script : script[i].kind \in EventKinds
    BY <2>2
  <2>4. made = 0 /\ queue["main"] = <<>>
    BY DEF Producers
  <2>5. Latest(script, made, queue["main"])
    BY <2>2, <2>4 DEF Latest
  <2> QED
    BY <2>3, <2>5 DEF EventQueues
<1>5. QuestionQueues
  BY DEF QuestionQueues, AllQuestions
<1>6. Stages
  BY <1>2 DEF Stages, Ending
<1>7. Truth
  <2>1. Len(script) \in Nat
    BY <1>1, LenProperties DEF SessionInv, Frames_Client
  <2> QED
    BY <2>1 DEF Truth
<1> QED
  BY <1>1, <1>3, <1>4, <1>5, <1>6, <1>7 DEF OrderInv

(* Every step.                                                             *)
LEMMA NextOrder == OrderInv /\ [Next]_vars => OrderInv'
<1> SUFFICES ASSUME OrderInv, [Next]_vars PROVE OrderInv'
  OBVIOUS
<1>1. SpaceInv'
  BY NextSpace DEF OrderInv
<1>2. CASE UNCHANGED vars
  BY <1>1, <1>2, StillOrder DEF vars, link, server, netState, queries, traceData
<1>3. CASE ClientStep /\ UNCHANGED server
  BY <1>3, ClientOrder
<1>4. CASE ServerStep
  BY <1>4, ServerOrder
<1>5. CASE Disturb
  <2>1. CASE CloseViewer
    BY <1>1, <1>5, <2>1, StillOrder DEF Disturb, CloseViewer, link, netState, queries, traceData
  <2> QED
    BY <1>5, <2>1, LoseOrder DEF Disturb
<1>6. CASE OpenViewer
  BY <1>6, OpenViewerOrder
<1> QED
  BY <1>2, <1>3, <1>4, <1>5, <1>6 DEF Next, Stopped

(* What the server received, as a sequence.                                *)
LEMMA TruthIsOrder == OrderInv => EventsInOrder
<1> SUFFICES ASSUME OrderInv PROVE EventsInOrder
  OBVIOUS
<1>1. /\ received \in Seq([thread : {"main"}, msg : AnyMsg])
      /\ \A i \in 1..Len(received) : received[i] = [thread |-> "main", msg |-> script[i]]
      /\ m_terminate => Len(received) = Len(script)
  BY DEF OrderInv, Truth
<1>2. received = [i \in 1..Len(received) |-> received[i]]
  BY <1>1
<1> QED
  BY <1>1, <1>2 DEF EventsInOrder

(* However answers and the items of other threads are mixed into the       *)
(* stream, and wherever it is cut into frames, sent, received and          *)
(* processed, what is on its way leads from what the server knows to what  *)
(* the client has taken from its queues (TracyProfiler.cpp:3177-3187,      *)
(* TracyWorker.cpp:4793-4801).                                             *)
THEOREM OrderInvariant == Spec => []OrderInv
<1> QED
  BY InitOrder, NextOrder, PTL DEF Spec

(* For every script, frame size and connection: what the server processed  *)
(* is a first part of main's events, in main's order and thread, and all   *)
(* of them when it was told that the client terminates (Dequeue and Worker,*)
(* TracyProfiler.cpp:2474-2767, 2164-2206; TracyWorker.cpp:4712-4714).     *)
THEOREM EventsAreInOrder == Spec => []EventsInOrder
<1> QED
  BY OrderInvariant, TruthIsOrder, PTL
=============================================================================
