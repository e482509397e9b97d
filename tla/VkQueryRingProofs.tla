------------------------- MODULE VkQueryRingProofs -------------------------
(***************************************************************************)
(* For every ring size, number of threads and zones: the ring of timestamp *)
(* queries is a queue of timestamps, and the server's timeline shows what  *)
(* the GPU did.  Queries are numbered in the order handed out, from 1, and *)
(* a number stands for its query until it is collected; the argument is    *)
(* about which numbers share the pool's slots, who still has commands for  *)
(* them, and which the server has heard of.                                *)
(***************************************************************************)
EXTENDS VkQueryRing, FiniteSetTheorems, SequenceTheorems, TLAPS

Slot(n) == (n - 1) % m_queryCount
Live == m_tail + 1 .. m_head
Unclosed == {z \in DOMAIN scopes : scopes[z].endQuery = 0}

Cmd == [op : {"write", "reset"}, first : Nat, cnt : Nat, number : Nat]
ScopeRecord == [thread : Threads, beginQuery : Nat, endQuery : Nat, parent : Nat]

Types ==
    /\ m_queryCount \in Nat /\ m_queryCount > 0
    /\ m_head \in Nat /\ m_tail \in Nat /\ m_oldCnt \in Nat /\ idx \in Nat
    /\ m_res \in Seq(Nat) /\ collecting \in {"no", "results", "report"}
    /\ scopes \in Seq(ScopeRecord)
    /\ open \in [Threads -> Seq(Nat)] /\ sending \in [Threads -> {"no", "begin", "end"}]
    /\ cmdbuf \in [Threads -> Seq(Cmd)] /\ queue \in Seq(Cmd)
    /\ pool \in [QueryIds -> Nat] /\ stamps \in Seq(Nat)
    /\ m_refTimeGpu \in Nat /\ reported \in Seq(Nat)

(* The numbers not collected, and one for each scope that is still to be   *)
(* closed, fit into the pool, and the slots for the latter are reset.      *)
Window ==
    /\ m_head = Len(stamps) /\ m_tail <= m_head
    /\ m_head + Cardinality(Unclosed) <= m_tail + m_queryCount
    /\ \A n \in m_head + 1 .. m_head + Cardinality(Unclosed) : pool[Slot(n)] = NotReady

(* The pool has what the GPU wrote for the numbers not collected.          *)
Pooled == \A n \in Live : pool[Slot(n)] = stamps[n]

(* A batch lies within the pool and within what was handed out.            *)
Batches ==
    /\ m_oldCnt <= m_queryCount - WrappedTail /\ m_oldCnt <= m_head - m_tail
    /\ Len(m_res) <= m_queryCount - WrappedTail /\ Len(m_res) <= m_head - m_tail
    /\ idx <= Len(m_res)
    /\ collecting = "no" => m_res = <<>>
    /\ collecting # "no" => m_oldCnt = 0
    /\ collecting # "report" => idx = 0
    /\ collecting = "report" => \A a \in DOMAIN m_res : m_res[a] \in {NotReady, stamps[m_tail + a]}

(* What was reported is what the GPU wrote.                                *)
ReportsTrue ==
    /\ Len(reported) = m_tail + idx
    /\ \A n \in 1 .. m_tail + idx : stamps[n] # NotReady /\ reported[n] = stamps[n]

(* The open scopes of the threads.                                         *)
Scoped ==
    /\ \A t \in Threads : \A a \in DOMAIN open[t] :
        /\ open[t][a] \in DOMAIN scopes /\ scopes[open[t][a]].thread = t
        /\ scopes[open[t][a]].endQuery = 0 <=> ~(sending[t] = "end" /\ a = Len(open[t]))
    /\ \A t \in Threads : \A a, b \in DOMAIN open[t] : open[t][a] = open[t][b] => a = b
    /\ \A t \in Threads : sending[t] # "no" => open[t] # <<>>

(* A pending command writes a number that has no stamp yet, or resets      *)
(* queries that were collected and are not used again before that.         *)
Covers(c) == c.first .. c.first + c.cnt - 1
GoodWrites ==
    {c \in Cmd : /\ c.op = "write" /\ c.number \in 1 .. m_head
                 /\ c.first = Slot(c.number) /\ stamps[c.number] = NotReady}
GoodResets ==
    {c \in Cmd : /\ c.op = "reset" /\ c.first + c.cnt <= m_queryCount
                 /\ \A q \in Covers(c) : pool[q] # NotReady /\ \A n \in Live : Slot(n) # q}
Good == GoodWrites \cup GoodResets

Apart(c, d) ==
    /\ c.op = "write" /\ d.op = "write" => c.number # d.number
    /\ c.op = "reset" /\ d.op = "reset" => Covers(c) \cap Covers(d) = {}

Commands ==
    /\ \A t \in Threads : \A a \in DOMAIN cmdbuf[t] : cmdbuf[t][a] \in Good
    /\ \A a \in DOMAIN queue : queue[a] \in Good
    /\ \A t, u \in Threads : \A a \in DOMAIN cmdbuf[t], b \in DOMAIN cmdbuf[u] :
        t # u \/ a # b => Apart(cmdbuf[t][a], cmdbuf[u][b])
    /\ \A t \in Threads : \A a \in DOMAIN cmdbuf[t], b \in DOMAIN queue : Apart(cmdbuf[t][a], queue[b])
    /\ \A a, b \in DOMAIN queue : a # b => Apart(queue[a], queue[b])

RingInv == Types /\ Window /\ Pooled /\ Batches /\ ReportsTrue /\ Scoped /\ Commands

(***************************************************************************)
(* The server.                                                             *)
(***************************************************************************)
Owns(z, n) == n = scopes[z].beginQuery \/ n = scopes[z].endQuery

(* The number whose event a thread has still to queue.                     *)
UnsentOf(t) ==
    IF sending[t] = "begin" THEN scopes[Last(open[t])].beginQuery
    ELSE IF sending[t] = "end" THEN scopes[Last(open[t])].endQuery ELSE 0
Unsent == {UnsentOf(t) : t \in Threads}

(* Each number is the begin or the end of one scope.                       *)
Numbered ==
    /\ \A z \in DOMAIN scopes :
        /\ scopes[z].beginQuery \in 1 .. m_head
        /\ scopes[z].endQuery # 0 => scopes[z].endQuery \in scopes[z].beginQuery + 1 .. m_head
    /\ \A z, y \in DOMAIN scopes, n \in 1 .. m_head : Owns(z, n) /\ Owns(y, n) => z = y
    /\ \A n \in 1 .. m_head : \E z \in DOMAIN scopes : Owns(z, n)
    /\ \A t \in Threads : sending[t] = "begin" =>
        scopes[Last(open[t])].parent =
            IF Len(open[t]) = 1 THEN None ELSE open[t][Len(open[t]) - 1]

(* A timestamp is written into the command buffer of the scope's thread,   *)
(* which is submitted after the event is queued.                           *)
SentFirst ==
    /\ \A t \in Threads : \A a \in DOMAIN cmdbuf[t], z \in DOMAIN scopes :
        cmdbuf[t][a].op = "write" /\ Owns(z, cmdbuf[t][a].number) => scopes[z].thread = t
    /\ \A t \in Threads : sending[t] # "no" =>
        /\ stamps[UnsentOf(t)] = NotReady
        /\ \A a \in DOMAIN queue : queue[a].op = "write" => queue[a].number # UnsentOf(t)

ZoneRecord == [of : Nat, parent : Nat, start : Int, end : Int]
ServerTypes ==
    server \in [query : [QueryIds -> Nat], stack : [Threads -> Seq(Nat)], zones : Seq(ZoneRecord),
                refTime : Int, fault : BOOLEAN]

Reported(n) == n # 0 /\ n <= m_tail + idx

(* The server's stacks are the open scopes of the threads; its zones are   *)
(* those whose begin was sent, with the times that were reported; and the  *)
(* queries it waits for are those that were sent and not reported.         *)
Stacks ==
    \A t \in Threads :
        /\ Len(server.stack[t]) = Len(open[t]) - (IF sending[t] = "begin" THEN 1 ELSE 0)
        /\ \A a \in DOMAIN server.stack[t] :
            /\ server.stack[t][a] \in DOMAIN server.zones
            /\ server.zones[server.stack[t][a]].of = open[t][a]

Zones ==
    /\ \A k \in DOMAIN server.zones :
        /\ server.zones[k].of \in DOMAIN scopes
        /\ scopes[server.zones[k].of].beginQuery \notin Unsent
    /\ \A k, l \in DOMAIN server.zones : server.zones[k].of = server.zones[l].of => k = l

Parents ==
    \A k \in DOMAIN server.zones :
        LET zone  == server.zones[k]
            scope == scopes[zone.of]
        IN  IF scope.parent = None THEN zone.parent = None
            ELSE /\ zone.parent \in DOMAIN server.zones
                 /\ server.zones[zone.parent].of = scope.parent

Times ==
    \A k \in DOMAIN server.zones :
        LET zone  == server.zones[k]
            scope == scopes[zone.of]
        IN  /\ zone.start = IF Reported(scope.beginQuery) THEN stamps[scope.beginQuery] ELSE Untimed
            /\ zone.end = IF Reported(scope.endQuery) THEN stamps[scope.endQuery] ELSE Untimed

Waits ==
    /\ \A n \in m_tail + idx + 1 .. m_head, z \in DOMAIN scopes : Owns(z, n) =>
        IF n \in Unsent THEN server.query[Slot(n)] = None
        ELSE /\ server.query[Slot(n)] \in DOMAIN server.zones
             /\ server.zones[server.query[Slot(n)]].of = z
    /\ \A q \in QueryIds :
        (\A n \in m_tail + idx + 1 .. m_head : Slot(n) # q) => server.query[q] = None

ServerInv ==
    /\ Numbered /\ SentFirst /\ ServerTypes
    /\ Stacks /\ Zones /\ Parents /\ Times /\ Waits
    /\ server.refTime = m_refTimeGpu /\ ServerAccepts

-----------------------------------------------------------------------------
(* Division: a remainder is determined by the quotient, and what follows n *)
(* by fewer than Q.                                                        *)
LEMMA Remainder ==
    ASSUME NEW n \in Nat, NEW Q \in Nat, Q > 0, NEW d \in Nat, NEW r \in Nat, r < Q, n = (Q * d) + r
    PROVE  n % Q = r
  OBVIOUS

(* Going on from n by k < Q: the remainder grows by k, less Q if it must.  *)
LEMMA Onwards ==
    ASSUME NEW n \in Nat, NEW Q \in Nat, Q > 0, NEW k \in Nat, k < Q
    PROVE  (n + k) % Q = IF (n % Q) + k < Q THEN (n % Q) + k ELSE (n % Q) + k - Q
<1> DEFINE d == n \div Q
           r == n % Q
<1>1. d \in Nat /\ r \in 0 .. Q - 1 /\ n = (Q * d) + r
  OBVIOUS
<1> HIDE DEF d, r
<1>2. CASE r + k < Q
  <2>1. n + k = (Q * d) + (r + k) /\ r + k \in Nat /\ n + k \in Nat
    BY <1>1
  <2>2. (n + k) % Q = r + k
    BY <1>1, <1>2, <2>1, Remainder
  <2> QED
    BY <1>2, <2>2 DEF r
<1>3. CASE ~(r + k < Q)
  <2>1. /\ n + k = (Q * (d + 1)) + (r + k - Q) /\ n + k \in Nat /\ d + 1 \in Nat
        /\ r + k - Q \in Nat /\ r + k - Q < Q
    BY <1>1, <1>3
  <2>2. (n + k) % Q = r + k - Q
    BY <1>1, <1>3, <2>1, Remainder
  <2> QED
    BY <1>3, <2>2 DEF r
<1> QED
  BY <1>2, <1>3

-----------------------------------------------------------------------------
(* Slots.                                                                  *)
LEMMA SlotInPool ==
    ASSUME Types, NEW n \in Nat, n > 0
    PROVE  Slot(n) \in QueryIds
BY DEF Types, Slot, QueryIds

(* Numbers less than a pool apart have slots of their own.                 *)
LEMMA SlotsDiffer ==
    ASSUME Types, NEW n \in Nat, n > 0, NEW m \in Nat, m > n, m < n + m_queryCount
    PROVE  Slot(m) # Slot(n)
<1> DEFINE i == n - 1
           k == m - n
<1>1. i \in Nat /\ k \in Nat /\ k > 0 /\ k < m_queryCount /\ i + k = m - 1
      /\ m_queryCount \in Nat /\ m_queryCount > 0
  BY DEF Types
<1>2. Slot(n) = i % m_queryCount /\ Slot(m) = (i + k) % m_queryCount
  BY <1>1 DEF Slot
<1> HIDE DEF i, k
<1>3. (i + k) % m_queryCount = IF (i % m_queryCount) + k < m_queryCount
                                 THEN (i % m_queryCount) + k
                                 ELSE (i % m_queryCount) + k - m_queryCount
  BY <1>1, Onwards
<1>4. i % m_queryCount \in Nat
  BY <1>1
<1> QED
  BY <1>1, <1>2, <1>3, <1>4

(* The numbers of a batch have slots in a row, up to the end of the pool,  *)
(* after which the tail is at its beginning.                               *)
LEMMA BatchSlots ==
    ASSUME Types
    PROVE  /\ WrappedTail \in Nat /\ WrappedTail < m_queryCount
           /\ \A a \in 1 .. m_queryCount - WrappedTail : Slot(m_tail + a) = WrappedTail + a - 1
           /\ \A a \in 0 .. m_queryCount - WrappedTail :
                (m_tail + a) % m_queryCount = IF a < m_queryCount - WrappedTail THEN WrappedTail + a
                                                                                ELSE 0
<1>1. /\ m_tail \in Nat /\ m_queryCount \in Nat /\ m_queryCount > 0
      /\ WrappedTail = m_tail % m_queryCount
  BY DEF Types, WrappedTail
<1>2. WrappedTail \in Nat /\ WrappedTail < m_queryCount
  BY <1>1
<1>3. ASSUME NEW a \in Nat, a < m_queryCount - WrappedTail
      PROVE  (m_tail + a) % m_queryCount = WrappedTail + a
  <2>1. a < m_queryCount /\ (m_tail % m_queryCount) + a < m_queryCount
    BY <1>1, <1>2, <1>3
  <2> QED
    BY <1>1, <2>1, Onwards
<1>4. (m_tail + (m_queryCount - WrappedTail)) % m_queryCount = 0
  <2>1. CASE WrappedTail = 0
    <3>1. PICK d \in Nat : m_tail = (m_queryCount * d) + 0
      <4> DEFINE d == m_tail \div m_queryCount
                 r == m_tail % m_queryCount
      <4>1. d \in Nat /\ m_tail = (m_queryCount * d) + r
        BY <1>1
      <4>2. r = 0
        BY <1>1, <2>1
      <4> QED
        BY <4>1, <4>2
    <3>2. m_tail + m_queryCount = (m_queryCount * (d + 1)) + 0 /\ d + 1 \in Nat /\ m_tail + m_queryCount \in Nat
      BY <1>1, <3>1
    <3>3. (m_tail + m_queryCount) % m_queryCount = 0
      BY <1>1, <3>2, Remainder
    <3> QED
      BY <1>1, <2>1, <3>3
  <2>2. CASE WrappedTail # 0
    <3> DEFINE k == m_queryCount - WrappedTail
    <3>1. k \in Nat /\ k < m_queryCount /\ (m_tail % m_queryCount) + k = m_queryCount
      BY <1>1, <1>2, <2>2
    <3> HIDE DEF k
    <3>2. (m_tail + k) % m_queryCount = IF (m_tail % m_queryCount) + k < m_queryCount
                                          THEN (m_tail % m_queryCount) + k
                                          ELSE (m_tail % m_queryCount) + k - m_queryCount
      BY <1>1, <3>1, Onwards
    <3>3. (m_tail + k) % m_queryCount = 0
      BY <1>1, <3>1, <3>2
    <3> QED
      BY <3>3 DEF k
  <2> QED
    BY <2>1, <2>2
<1>5. \A a \in 1 .. m_queryCount - WrappedTail : Slot(m_tail + a) = WrappedTail + a - 1
  <2> SUFFICES ASSUME NEW a \in 1 .. m_queryCount - WrappedTail
               PROVE  Slot(m_tail + a) = WrappedTail + a - 1
    OBVIOUS
  <2>1. a - 1 \in Nat /\ a - 1 < m_queryCount - WrappedTail /\ (m_tail + a) - 1 = m_tail + (a - 1)
    BY <1>1, <1>2
  <2>2. (m_tail + (a - 1)) % m_queryCount = WrappedTail + (a - 1)
    BY <1>3, <2>1
  <2> QED
    BY <1>2, <2>1, <2>2 DEF Slot
<1>6. \A a \in 0 .. m_queryCount - WrappedTail :
        (m_tail + a) % m_queryCount = IF a < m_queryCount - WrappedTail THEN WrappedTail + a ELSE 0
  BY <1>1, <1>2, <1>3, <1>4
<1> QED
  BY <1>2, <1>5, <1>6

-----------------------------------------------------------------------------
(* Sequences: what an element of a longer or shorter one was before.       *)
LEMMA Appended ==
    ASSUME NEW S, NEW s \in Seq(S), NEW e \in S
    PROVE  /\ Append(s, e) \in Seq(S) /\ Len(s) \in Nat /\ Len(Append(s, e)) = Len(s) + 1
           /\ DOMAIN s = 1 .. Len(s) /\ DOMAIN Append(s, e) = 1 .. Len(s) + 1
           /\ Append(s, e)[Len(s) + 1] = e
           /\ \A a \in 1 .. Len(s) : Append(s, e)[a] = s[a]
  OBVIOUS

(* The first element of a sequence and the others, by their places.        *)
LEMMA HeadTail ==
    ASSUME NEW S, NEW s \in Seq(S), s # <<>>
    PROVE  /\ Head(s) \in S /\ Tail(s) \in Seq(S) /\ Len(s) \in Nat /\ Len(s) > 0
           /\ DOMAIN s = 1 .. Len(s) /\ DOMAIN Tail(s) = 1 .. Len(s) - 1
           /\ Head(s) = s[1] /\ \A a \in 1 .. Len(s) - 1 : Tail(s)[a] = s[a + 1]
  OBVIOUS

(* The scopes still to be closed can be counted.                           *)
LEMMA UnclosedFinite ==
    ASSUME Types
    PROVE  IsFiniteSet(Unclosed) /\ Cardinality(Unclosed) \in Nat
<1>1. Unclosed \subseteq 1 .. Len(scopes) /\ Len(scopes) \in Nat
  BY DEF Types, Unclosed
<1>2. IsFiniteSet(1 .. Len(scopes))
  BY <1>1, FS_Interval
<1> QED
  BY <1>1, <1>2, FS_Subset, FS_CardinalityType

(* The ring of a new context.                                              *)
LEMMA InitRing == Init => RingInv
<1> SUFFICES ASSUME Init PROVE RingInv
  OBVIOUS
<1> USE DEF Init
<1>1. m_queryCount \in Nat /\ m_queryCount > 0
  BY RingAssumption
<1>2. Types
  <2>1. pool \in [QueryIds -> Nat]
    BY DEF NotReady
  <2> QED
    BY <1>1, <2>1 DEF Types
<1>3. Unclosed = {} /\ Cardinality(Unclosed) = 0
  <2>1. Unclosed = {}
    BY DEF Unclosed
  <2> QED
    BY <2>1, FS_EmptySet
<1>4. Window /\ Pooled
  BY <1>1, <1>3 DEF Window, Pooled, Live
<1>5. Batches /\ ReportsTrue
  <2>1. WrappedTail \in Nat /\ WrappedTail < m_queryCount
    BY <1>2, BatchSlots
  <2>2. Len(m_res) = 0 /\ Len(reported) = 0
    OBVIOUS
  <2> QED
    BY <1>1, <2>1, <2>2 DEF Batches, ReportsTrue
<1>6. Scoped /\ Commands
  BY DEF Scoped, Commands
<1> QED
  BY <1>2, <1>4, <1>5, <1>6 DEF RingInv

-----------------------------------------------------------------------------
(* A command is recorded that goes with all the others.                    *)
LEMMA Recording ==
    ASSUME Types, Commands, NEW t \in Threads, NEW c \in Cmd,
           cmdbuf' = [cmdbuf EXCEPT ![t] = Append(@, c)], queue' = queue,
           c \in Good', \A d \in Good : d \in Good' /\ Apart(c, d)
    PROVE  Commands' /\ cmdbuf' \in [Threads -> Seq(Cmd)]
<1>1. \A u \in Threads : cmdbuf[u] \in Seq(Cmd) /\ DOMAIN cmdbuf[u] = 1 .. Len(cmdbuf[u])
                         /\ Len(cmdbuf[u]) \in Nat
  BY DEF Types
<1>2. /\ cmdbuf' \in [Threads -> Seq(Cmd)]
      /\ \A u \in Threads : u # t => cmdbuf'[u] = cmdbuf[u]
      /\ DOMAIN cmdbuf'[t] = 1 .. Len(cmdbuf[t]) + 1
      /\ cmdbuf'[t][Len(cmdbuf[t]) + 1] = c
      /\ \A a \in 1 .. Len(cmdbuf[t]) : cmdbuf'[t][a] = cmdbuf[t][a]
  BY <1>1, Appended DEF Types
(* Where the new command is, and that the others are where they were. *)
<1> DEFINE New(u, a) == u = t /\ a = Len(cmdbuf[t]) + 1
<1>3. \A u \in Threads : \A a \in DOMAIN cmdbuf'[u] :
        /\ New(u, a) => cmdbuf'[u][a] = c
        /\ ~New(u, a) => a \in DOMAIN cmdbuf[u] /\ cmdbuf'[u][a] = cmdbuf[u][a]
  BY <1>1, <1>2
<1>4. \A d, e \in Cmd : Apart(d, e) => Apart(e, d)
  BY DEF Apart
<1>5. Good \subseteq Cmd
  BY DEF Good, GoodWrites, GoodResets
<1> HIDE DEF New
<1>6. \A u \in Threads : \A a \in DOMAIN cmdbuf'[u] : cmdbuf'[u][a] \in Good'
  BY <1>3 DEF Commands
<1>7. \A a \in DOMAIN queue : queue[a] \in Good'
  BY DEF Commands
<1>8. \A u, v \in Threads : \A a \in DOMAIN cmdbuf'[u], b \in DOMAIN cmdbuf'[v] :
        u # v \/ a # b => Apart(cmdbuf'[u][a], cmdbuf'[v][b])
  <2> SUFFICES ASSUME NEW u \in Threads, NEW v \in Threads, NEW a \in DOMAIN cmdbuf'[u],
                      NEW b \in DOMAIN cmdbuf'[v], u # v \/ a # b
               PROVE  Apart(cmdbuf'[u][a], cmdbuf'[v][b])
    OBVIOUS
  <2>1. CASE New(u, a)
    <3>1. ~New(v, b)
      BY <2>1 DEF New
    <3> QED
      BY <1>3, <2>1, <3>1 DEF Commands
  <2>2. CASE ~New(u, a) /\ New(v, b)
    BY <1>3, <1>4, <1>5, <2>2 DEF Commands
  <2>3. CASE ~New(u, a) /\ ~New(v, b)
    BY <1>3, <2>3 DEF Commands
  <2> QED
    BY <2>1, <2>2, <2>3
<1>9. \A u \in Threads : \A a \in DOMAIN cmdbuf'[u], b \in DOMAIN queue : Apart(cmdbuf'[u][a], queue[b])
  BY <1>3 DEF Commands
<1> QED
  BY <1>2, <1>6, <1>7, <1>8, <1>9 DEF Commands

(* A step that records and executes nothing.                               *)
LEMMA StillGood ==
    ASSUME Commands, cmdbuf' = cmdbuf, queue' = queue, Good \subseteq Good'
    PROVE  Commands'
BY DEF Commands

(* A query is handed out whose slot is reset and in the window.            *)
LEMMA HandingOut ==
    ASSUME RingInv, NEW t \in Threads, HandOut(t),
           m_head + 1 <= m_tail + m_queryCount, pool[Slot(m_head + 1)] = NotReady,
           UNCHANGED <<fixed, col, gpu, wire>>
    PROVE  /\ m_head' = Len(stamps') /\ stamps' \in Seq(Nat) /\ cmdbuf' \in [Threads -> Seq(Cmd)]
           /\ stamps'[m_head + 1] = NotReady /\ \A n \in 1 .. m_head : stamps'[n] = stamps[n]
           /\ \A n : Slot(n)' = Slot(n)
           /\ Pooled' /\ Batches' /\ ReportsTrue' /\ Commands'
<1> DEFINE new == m_head + 1
           c == WriteOf(NextQueryId, new)
<1> USE DEF RingInv
<1>1. /\ m_queryCount' = m_queryCount /\ m_tail' = m_tail /\ m_oldCnt' = m_oldCnt /\ idx' = idx
      /\ m_res' = m_res /\ collecting' = collecting /\ pool' = pool /\ queue' = queue
      /\ reported' = reported /\ m_head' = new
      /\ cmdbuf' = [cmdbuf EXCEPT ![t] = Append(@, c)] /\ stamps' = Append(stamps, NotReady)
  BY DEF HandOut, fixed, ring, col, gpu, wire
<1>2. m_head \in Nat /\ m_tail \in Nat /\ m_head = Len(stamps) /\ m_queryCount \in Nat /\ m_queryCount > 0
      /\ m_tail <= m_head
  BY DEF Types, Window
<1>3. /\ stamps' \in Seq(Nat) /\ Len(stamps') = new
      /\ stamps'[new] = NotReady /\ \A n \in 1 .. m_head : stamps'[n] = stamps[n]
  BY <1>1, <1>2, Appended DEF Types, NotReady
<1>4. (\A n : Slot(n)' = Slot(n)) /\ NextQueryId = Slot(new) /\ Slot(new) \in Nat
  <2>1. NextQueryId = Slot(new)
    BY <1>2 DEF NextQueryId, Slot
  <2>2. Slot(new) \in Nat
    BY <1>2 DEF Slot
  <2> QED
    BY <1>1, <2>1, <2>2 DEF Slot
<1>5. Live' = Live \cup {new} /\ Live \subseteq 1 .. m_head
  BY <1>1, <1>2 DEF Live
<1>6. Pooled'
  BY <1>1, <1>3, <1>4, <1>5 DEF Pooled
<1>7. Batches'
  <2>1. \A a \in DOMAIN m_res : m_tail + a \in 1 .. m_head
    <3>1. Len(m_res) \in Nat /\ DOMAIN m_res = 1 .. Len(m_res)
      BY DEF Types
    <3>2. Len(m_res) <= m_head - m_tail
      BY DEF Batches
    <3> QED
      BY <1>2, <3>1, <3>2
  <2>2. collecting = "report" => \A a \in DOMAIN m_res : m_res[a] \in {NotReady, stamps'[m_tail + a]}
    BY <1>3, <2>1 DEF Batches
  <2>3. WrappedTail' = WrappedTail
    BY <1>1 DEF WrappedTail
  <2>4. \A n \in Nat : n <= m_head - m_tail => n <= m_head' - m_tail'
    BY <1>1, <1>2
  <2>5. m_oldCnt \in Nat /\ Len(m_res) \in Nat
    BY DEF Types
  <2> QED
    BY <1>1, <2>2, <2>3, <2>4, <2>5 DEF Batches
<1>8. ReportsTrue'
  <2>1. \A n \in 1 .. m_tail + idx : n \in 1 .. m_head
    BY <1>2 DEF Types, Batches
  <2> QED
    BY <1>1, <1>3, <2>1 DEF ReportsTrue
<1>9. Commands' /\ cmdbuf' \in [Threads -> Seq(Cmd)]
  <2>1. /\ c \in Cmd /\ c.op = "write" /\ c.number = new /\ c.first = Slot(new)
    BY <1>2, <1>4 DEF WriteOf, Cmd
  <2>2. c \in Good'
    BY <1>1, <1>2, <1>3, <1>4, <2>1 DEF Good, GoodWrites
  <2>3. \A d \in GoodWrites : d \in GoodWrites' /\ Apart(c, d)
    BY <1>1, <1>2, <1>3, <1>4, <2>1 DEF GoodWrites, Apart
  <2>4. \A d \in GoodResets : d \in GoodResets' /\ Apart(c, d)
    BY <1>1, <1>4, <1>5, <2>1 DEF GoodResets, Apart, Covers
  <2> QED
    BY <1>1, <2>1, <2>2, <2>3, <2>4, Recording DEF Good
<1> QED
  BY <1>1, <1>3, <1>4, <1>6, <1>7, <1>8, <1>9

-----------------------------------------------------------------------------
(* The scopes of the threads.                                              *)
LEMMA FrontLast ==
    ASSUME NEW S, NEW s \in Seq(S), s # <<>>
    PROVE  /\ Len(s) \in Nat /\ Len(s) > 0 /\ DOMAIN s = 1 .. Len(s)
           /\ Last(s) = s[Len(s)] /\ Last(s) \in S
           /\ Front(s) \in Seq(S) /\ Len(Front(s)) = Len(s) - 1 /\ DOMAIN Front(s) = 1 .. Len(s) - 1
           /\ \A a \in 1 .. Len(s) - 1 : Front(s)[a] = s[a]
<1>1. Len(s) \in Nat /\ Len(s) > 0 /\ DOMAIN s = 1 .. Len(s) /\ \A a \in 1 .. Len(s) : s[a] \in S
  OBVIOUS
<1>2. /\ SubSeq(s, 1, Len(s) - 1) \in Seq(S)
      /\ Len(SubSeq(s, 1, Len(s) - 1)) = IF 1 <= Len(s) - 1 THEN (Len(s) - 1) - 1 + 1 ELSE 0
      /\ \A a \in 1 .. ((Len(s) - 1) - 1 + 1) : SubSeq(s, 1, Len(s) - 1)[a] = s[1 + a - 1]
  BY <1>1, SubSeqProperties
<1>3. /\ Front(s) \in Seq(S) /\ Len(Front(s)) = Len(s) - 1
      /\ \A a \in 1 .. Len(s) - 1 : Front(s)[a] = s[a]
  BY <1>1, <1>2 DEF Front
<1> QED
  BY <1>1, <1>3 DEF Last

(* The innermost scope of a thread that is in one.                         *)
LEMMA Innermost ==
    ASSUME RingInv, NEW t \in Threads, open[t] # <<>>
    PROVE  LET z == Last(open[t])
           IN  /\ Len(open[t]) \in Nat /\ Len(open[t]) > 0 /\ DOMAIN open[t] = 1 .. Len(open[t])
               /\ z = open[t][Len(open[t])] /\ z \in DOMAIN scopes /\ scopes[z].thread = t
               /\ scopes[z] \in ScopeRecord
               /\ scopes[z].endQuery = 0 <=> sending[t] # "end"
<1>1. open[t] \in Seq(Nat) /\ scopes \in Seq(ScopeRecord)
  BY DEF RingInv, Types
<1>2. /\ Len(open[t]) \in Nat /\ Len(open[t]) > 0 /\ DOMAIN open[t] = 1 .. Len(open[t])
      /\ Last(open[t]) = open[t][Len(open[t])]
  BY <1>1, FrontLast
<1>3. Len(open[t]) \in DOMAIN open[t]
  BY <1>2
<1>4. /\ Last(open[t]) \in DOMAIN scopes /\ scopes[Last(open[t])].thread = t
      /\ scopes[Last(open[t])].endQuery = 0 <=> sending[t] # "end"
  BY <1>2, <1>3 DEF RingInv, Scoped
<1> QED
  BY <1>1, <1>2, <1>4

(* A zone is opened: Paced leaves room for both its queries.               *)
LEMMA OpenScopeRing ==
    ASSUME RingInv, NEW t \in Threads, OpenScope(t)
    PROVE  RingInv'
<1> DEFINE K == Cardinality(Unclosed)
           z == Len(scopes) + 1
           rec == [thread |-> t, beginQuery |-> m_head + 1, endQuery |-> 0,
                   parent |-> IF open[t] = <<>> THEN None ELSE Last(open[t])]
<1>1. /\ sending[t] = "no" /\ HandOut(t) /\ UNCHANGED <<fixed, col, gpu, wire>>
      /\ scopes' = Append(scopes, rec) /\ open' = [open EXCEPT ![t] = Append(@, z)]
      /\ sending' = [sending EXCEPT ![t] = "begin"]
  BY DEF OpenScope
<1>2. /\ m_head \in Nat /\ m_tail \in Nat /\ m_queryCount \in Nat /\ m_queryCount > 0 /\ K \in Nat
      /\ m_head' = m_head + 1 /\ m_tail' = m_tail /\ m_queryCount' = m_queryCount /\ pool' = pool
      /\ m_tail <= m_head
  BY <1>1, UnclosedFinite DEF RingInv, Types, Window, HandOut, fixed, gpu
<1>3. /\ m_head + (2 + K) <= m_tail + m_queryCount
      /\ \A n \in m_head .. m_head + (2 + K) - 1 : pool[n % m_queryCount] = NotReady
  BY DEF OpenScope, Paced, Unclosed
<1>4. \A n \in m_head + 1 .. m_head + 2 + K : pool[Slot(n)] = NotReady
  <2> SUFFICES ASSUME NEW n \in m_head + 1 .. m_head + 2 + K PROVE pool[Slot(n)] = NotReady
    OBVIOUS
  <2>1. n - 1 \in m_head .. m_head + (2 + K) - 1
    BY <1>2
  <2> QED
    BY <1>3, <2>1 DEF Slot
<1>5. m_head + 1 <= m_tail + m_queryCount /\ pool[Slot(m_head + 1)] = NotReady
  BY <1>2, <1>3, <1>4
<1>6. /\ m_head' = Len(stamps') /\ stamps' \in Seq(Nat) /\ cmdbuf' \in [Threads -> Seq(Cmd)]
      /\ \A n : Slot(n)' = Slot(n)
      /\ Pooled' /\ Batches' /\ ReportsTrue' /\ Commands'
  BY <1>1, <1>5, HandingOut
<1>7. /\ scopes' \in Seq(ScopeRecord) /\ DOMAIN scopes = 1 .. Len(scopes) /\ Len(scopes) \in Nat
      /\ DOMAIN scopes' = 1 .. z /\ scopes'[z] = rec
      /\ \A y \in DOMAIN scopes : scopes'[y] = scopes[y]
  <2>1. scopes \in Seq(ScopeRecord) /\ open[t] \in Seq(Nat)
    BY DEF RingInv, Types
  <2>2. rec.parent \in Nat
    BY <2>1, FrontLast DEF None
  <2>3. rec \in ScopeRecord
    BY <1>2, <2>2 DEF ScopeRecord
  <2> QED
    BY <1>1, <2>1, <2>3, Appended
<1>8. /\ open' \in [Threads -> Seq(Nat)] /\ \A u \in Threads : u # t => open'[u] = open[u]
      /\ Len(open[t]) \in Nat /\ DOMAIN open[t] = 1 .. Len(open[t])
      /\ Len(open'[t]) = Len(open[t]) + 1 /\ DOMAIN open'[t] = 1 .. Len(open[t]) + 1
      /\ open'[t][Len(open[t]) + 1] = z /\ \A a \in DOMAIN open[t] : open'[t][a] = open[t][a]
  <2>1. open \in [Threads -> Seq(Nat)] /\ open[t] \in Seq(Nat) /\ z \in Nat
    BY <1>7 DEF RingInv, Types
  <2>2. open'[t] = Append(open[t], z) /\ \A u \in Threads : u # t => open'[u] = open[u]
    BY <1>1, <2>1
  <2>3. open' \in [Threads -> Seq(Nat)]
    BY <1>1, <2>1, Appended
  <2> QED
    BY <2>1, <2>2, <2>3, Appended
<1>9. Types'
  <2>1. sending' \in [Threads -> {"no", "begin", "end"}]
    BY <1>1 DEF RingInv, Types
  <2>2. pool' \in [QueryIds' -> Nat]
    BY <1>2 DEF RingInv, Types, QueryIds
  <2>3. /\ UNCHANGED <<m_tail, m_oldCnt, idx, m_res, collecting, queue, m_refTimeGpu, reported>>
        /\ m_head' \in Nat
    BY <1>1, <1>2 DEF HandOut, col, gpu, wire
  <2> QED
    BY <1>2, <1>6, <1>7, <1>8, <2>1, <2>2, <2>3 DEF RingInv, Types
<1>10. Window'
  <2>1. Unclosed' = Unclosed \cup {z} /\ z \notin Unclosed
    BY <1>7 DEF Unclosed
  <2>2. Cardinality(Unclosed') = K + 1
    BY <2>1, UnclosedFinite, FS_AddElement DEF RingInv
  <2>3. m_head' + Cardinality(Unclosed') <= m_tail' + m_queryCount' /\ m_tail' <= m_head'
    BY <1>2, <1>3, <2>2
  <2>4. \A n \in m_head' + 1 .. m_head' + Cardinality(Unclosed') : n \in m_head + 1 .. m_head + 2 + K
    BY <1>2, <2>2
  <2> QED
    BY <1>2, <1>4, <1>6, <2>3, <2>4 DEF Window
<1>11. Scoped'
  <2>1. \A u \in Threads : \A a \in DOMAIN open[u] :
            open[u][a] \in DOMAIN scopes /\ open[u][a] # z
    BY <1>7 DEF RingInv, Scoped
  <2>2. \A u \in Threads : sending'[u] = IF u = t THEN "begin" ELSE sending[u]
    BY <1>1 DEF RingInv, Types
  <2>3. ASSUME NEW u \in Threads, NEW a \in DOMAIN open'[u]
        PROVE  /\ open'[u][a] \in DOMAIN scopes' /\ scopes'[open'[u][a]].thread = u
               /\ scopes'[open'[u][a]].endQuery = 0 <=> ~(sending'[u] = "end" /\ a = Len(open'[u]))
    <3>1. CASE u = t /\ a = Len(open[t]) + 1
      BY <1>7, <1>8, <2>2, <3>1
    <3>2. CASE ~(u = t /\ a = Len(open[t]) + 1)
      <4>1. a \in DOMAIN open[u] /\ open'[u][a] = open[u][a]
        <5>1. CASE u = t
          BY <1>8, <3>2, <5>1
        <5>2. CASE u # t
          BY <1>8, <5>2
        <5> QED
          BY <5>1, <5>2
      <4>2. scopes'[open[u][a]] = scopes[open[u][a]] /\ open[u][a] \in DOMAIN scopes'
        BY <1>7, <2>1, <4>1
      <4> QED
        BY <1>1, <1>8, <2>2, <4>1, <4>2 DEF RingInv, Scoped
    <3> QED
      BY <3>1, <3>2
  <2>4. ASSUME NEW u \in Threads, NEW a \in DOMAIN open'[u], NEW b \in DOMAIN open'[u],
               open'[u][a] = open'[u][b]
        PROVE  a = b
    <3>1. \A v \in Threads : \A d, e \in DOMAIN open[v] : open[v][d] = open[v][e] => d = e
      BY DEF RingInv, Scoped
    <3>2. CASE u # t
      <4>1. open'[u] = open[u]
        BY <1>8, <3>2
      <4> QED
        BY <2>4, <3>1, <4>1
    <3>3. CASE u = t
      <4>1. \A d \in DOMAIN open'[t] : d = Len(open[t]) + 1 \/ d \in DOMAIN open[t]
        BY <1>8
      <4>2. \A d \in DOMAIN open[t] : open'[t][d] = open[t][d] /\ open[t][d] # z
        BY <1>8, <2>1
      <4>3. open'[t][Len(open[t]) + 1] = z
        BY <1>8
      <4> HIDE DEF z
      <4> QED
        BY <2>4, <3>1, <3>3, <4>1, <4>2, <4>3
    <3> QED
      BY <3>2, <3>3
  <2>5. \A u \in Threads : sending'[u] # "no" => open'[u] # <<>>
    <3>1. open'[t] # <<>>
      BY <1>8
    <3> QED
      BY <1>8, <2>2, <3>1 DEF RingInv, Scoped
  <2> QED
    BY <2>3, <2>4, <2>5 DEF Scoped
<1> QED
  BY <1>6, <1>9, <1>10, <1>11 DEF RingInv

(* A zone is closed: its query is the one that was kept for it.            *)
LEMMA CloseScopeRing ==
    ASSUME RingInv, NEW t \in Threads, CloseScope(t)
    PROVE  RingInv'
<1> DEFINE K == Cardinality(Unclosed)
           z == Last(open[t])
<1>1. /\ sending[t] = "no" /\ open[t] # <<>> /\ HandOut(t) /\ UNCHANGED <<fixed, col, open, gpu, wire>>
      /\ scopes' = [scopes EXCEPT ![z].endQuery = m_head + 1]
      /\ sending' = [sending EXCEPT ![t] = "end"]
  BY DEF CloseScope
<1>2. /\ m_head \in Nat /\ m_tail \in Nat /\ m_queryCount \in Nat /\ m_queryCount > 0
      /\ m_head' = m_head + 1 /\ m_tail' = m_tail /\ m_queryCount' = m_queryCount /\ pool' = pool
      /\ m_tail <= m_head
  BY <1>1 DEF RingInv, Types, Window, HandOut, fixed, gpu
<1>3. /\ Len(open[t]) \in Nat /\ Len(open[t]) > 0 /\ DOMAIN open[t] = 1 .. Len(open[t])
      /\ z = open[t][Len(open[t])] /\ z \in DOMAIN scopes
      /\ scopes[z] \in ScopeRecord /\ scopes[z].endQuery = 0
  BY <1>1, Innermost
<1>4. /\ scopes' \in Seq(ScopeRecord) /\ DOMAIN scopes' = DOMAIN scopes
      /\ \A y \in DOMAIN scopes :
           /\ y # z => scopes'[y] = scopes[y]
           /\ scopes'[y].thread = scopes[y].thread
      /\ scopes'[z].endQuery = m_head + 1
  <2> DEFINE r == [scopes[z] EXCEPT !.endQuery = m_head + 1]
  <2>1. scopes \in Seq(ScopeRecord)
    BY DEF RingInv, Types
  <2>2. r \in ScopeRecord /\ r.thread = scopes[z].thread /\ r.endQuery = m_head + 1
    BY <1>2, <1>3 DEF ScopeRecord
  <2>3. scopes' = [scopes EXCEPT ![z] = r]
    BY <1>1
  <2> HIDE DEF r, z
  <2> QED
    BY <1>3, <2>1, <2>2, <2>3
<1>5. z \in Unclosed /\ Unclosed' = Unclosed \ {z}
  BY <1>2, <1>3, <1>4 DEF Unclosed
<1>6. K \in Nat /\ K >= 1 /\ Cardinality(Unclosed') = K - 1
  <2>1. IsFiniteSet(Unclosed) /\ K \in Nat
    BY UnclosedFinite DEF RingInv
  <2>2. Cardinality(Unclosed') = K - 1
    BY <1>5, <2>1, FS_RemoveElement
  <2>3. IsFiniteSet(Unclosed') /\ Cardinality(Unclosed') \in Nat
    BY <1>5, <2>1, FS_Subset, FS_CardinalityType
  <2> QED
    BY <2>1, <2>2, <2>3
<1>7. /\ m_head + K <= m_tail + m_queryCount
      /\ \A n \in m_head + 1 .. m_head + K : pool[Slot(n)] = NotReady
  BY DEF RingInv, Window
<1>8. m_head + 1 <= m_tail + m_queryCount /\ pool[Slot(m_head + 1)] = NotReady
  BY <1>2, <1>6, <1>7
<1>9. /\ m_head' = Len(stamps') /\ stamps' \in Seq(Nat) /\ cmdbuf' \in [Threads -> Seq(Cmd)]
      /\ \A n : Slot(n)' = Slot(n)
      /\ Pooled' /\ Batches' /\ ReportsTrue' /\ Commands'
  BY <1>1, <1>8, HandingOut
<1>10. Types'
  <2>1. sending' \in [Threads -> {"no", "begin", "end"}]
    BY <1>1 DEF RingInv, Types
  <2>2. pool' \in [QueryIds' -> Nat]
    BY <1>2 DEF RingInv, Types, QueryIds
  <2>3. /\ UNCHANGED <<m_tail, m_oldCnt, idx, m_res, collecting, open, queue, m_refTimeGpu, reported>>
        /\ m_head' \in Nat
    BY <1>1, <1>2 DEF HandOut, col, gpu, wire
  <2> QED
    BY <1>2, <1>4, <1>9, <2>1, <2>2, <2>3 DEF RingInv, Types
<1>11. Window'
  <2>1. m_head' + Cardinality(Unclosed') <= m_tail' + m_queryCount' /\ m_tail' <= m_head'
    BY <1>2, <1>6, <1>7
  <2>2. \A n \in m_head' + 1 .. m_head' + Cardinality(Unclosed') : n \in m_head + 1 .. m_head + K
    BY <1>2, <1>6
  <2> QED
    BY <1>2, <1>7, <1>9, <2>1, <2>2 DEF Window
<1>12. Scoped'
  <2>1. \A u \in Threads : sending'[u] = IF u = t THEN "end" ELSE sending[u]
    BY <1>1 DEF RingInv, Types
  <2>2. ASSUME NEW u \in Threads, NEW a \in DOMAIN open[u]
        PROVE  /\ open[u][a] \in DOMAIN scopes' /\ scopes'[open[u][a]].thread = u
               /\ scopes'[open[u][a]].endQuery = 0 <=> ~(sending'[u] = "end" /\ a = Len(open[u]))
    <3>1. open[u][a] \in DOMAIN scopes /\ scopes[open[u][a]].thread = u
      BY DEF RingInv, Scoped
    <3>2. CASE open[u][a] = z
      <4>1. Len(open[t]) \in DOMAIN open[t] /\ scopes[z].thread = t
        BY <1>1, <1>3, Innermost
      <4>2. u = t
        BY <3>1, <3>2, <4>1
      <4>3. a = Len(open[u])
        BY <1>3, <3>2, <4>1, <4>2 DEF RingInv, Scoped
      <4> QED
        BY <1>2, <1>4, <2>1, <3>1, <3>2, <4>2, <4>3
    <3>3. CASE open[u][a] # z
      <4>1. ~(u = t /\ a = Len(open[u]))
        BY <1>3, <3>3
      <4>2. scopes'[open[u][a]] = scopes[open[u][a]]
        BY <1>4, <3>1, <3>3
      <4>3. scopes[open[u][a]].endQuery = 0 <=> ~(sending[u] = "end" /\ a = Len(open[u]))
        BY DEF RingInv, Scoped
      <4> QED
        BY <1>1, <1>4, <2>1, <3>1, <4>1, <4>2, <4>3
    <3> QED
      BY <3>2, <3>3
  <2>3. \A u \in Threads : sending'[u] # "no" => open[u] # <<>>
    BY <1>1, <2>1 DEF RingInv, Scoped
  <2> QED
    BY <1>1, <2>2, <2>3 DEF RingInv, Scoped
<1> QED
  BY <1>9, <1>10, <1>11, <1>12 DEF RingInv

(* An event is queued, which the ring knows nothing of.                    *)
LEMMA SendRing ==
    ASSUME RingInv, NEW t \in Threads, SendBegin(t) \/ SendEnd(t)
    PROVE  RingInv'
<1>1. /\ UNCHANGED <<fixed, ring, col, scopes, cmdbuf, gpu, stamps, m_refTimeGpu, reported>>
      /\ sending' = [sending EXCEPT ![t] = "no"] /\ sending[t] # "no"
      /\ IF sending[t] = "end" THEN open' = [open EXCEPT ![t] = Front(@)] ELSE open' = open
  BY DEF SendBegin, SendEnd
<1>2. /\ m_queryCount' = m_queryCount /\ m_head' = m_head /\ m_tail' = m_tail /\ m_oldCnt' = m_oldCnt
      /\ m_res' = m_res /\ idx' = idx /\ collecting' = collecting /\ scopes' = scopes
      /\ cmdbuf' = cmdbuf /\ queue' = queue /\ pool' = pool /\ stamps' = stamps
      /\ m_refTimeGpu' = m_refTimeGpu /\ reported' = reported
  BY <1>1 DEF fixed, ring, col, gpu
<1>3. \A n : Slot(n)' = Slot(n)
  BY <1>2 DEF Slot
<1>4. Unclosed' = Unclosed /\ Live' = Live /\ WrappedTail' = WrappedTail /\ QueryIds' = QueryIds
  BY <1>2 DEF Unclosed, Live, WrappedTail, QueryIds
<1>5. Window' /\ Pooled' /\ Batches' /\ ReportsTrue'
  BY <1>2, <1>3, <1>4 DEF RingInv, Window, Pooled, Batches, ReportsTrue
<1>6. Commands'
  <2>1. Good' = Good
    BY <1>2, <1>3, <1>4 DEF Good, GoodWrites, GoodResets
  <2> QED
    BY <1>2, <2>1, StillGood DEF RingInv
<1>7. /\ Len(open[t]) \in Nat /\ Len(open[t]) > 0 /\ DOMAIN open[t] = 1 .. Len(open[t])
      /\ open[t] \in Seq(Nat) /\ open[t] # <<>>
  <2>1. open[t] # <<>> /\ open[t] \in Seq(Nat)
    BY <1>1 DEF RingInv, Scoped, Types
  <2> QED
    BY <2>1, Innermost
<1>8. /\ open' \in [Threads -> Seq(Nat)] /\ \A u \in Threads : u # t => open'[u] = open[u]
      /\ sending' \in [Threads -> {"no", "begin", "end"}]
      /\ \A u \in Threads : sending'[u] = IF u = t THEN "no" ELSE sending[u]
      /\ DOMAIN open'[t] = 1 .. Len(open'[t])
      /\ Len(open'[t]) = IF sending[t] = "end" THEN Len(open[t]) - 1 ELSE Len(open[t])
      /\ \A a \in DOMAIN open'[t] : open'[t][a] = open[t][a]
  <2>1. open \in [Threads -> Seq(Nat)] /\ sending \in [Threads -> {"no", "begin", "end"}]
    BY DEF RingInv, Types
  <2>2. CASE sending[t] = "end"
    <3>1. Front(open[t]) \in Seq(Nat) /\ open'[t] = Front(open[t])
      BY <1>1, <1>7, <2>1, <2>2, FrontLast
    <3>2. /\ Len(open'[t]) = Len(open[t]) - 1 /\ DOMAIN open'[t] = 1 .. Len(open[t]) - 1
          /\ \A a \in 1 .. Len(open[t]) - 1 : open'[t][a] = open[t][a]
      BY <1>7, <3>1, FrontLast
    <3> QED
      BY <1>1, <2>1, <2>2, <3>1, <3>2
  <2>3. CASE sending[t] # "end"
    BY <1>1, <1>7, <2>1, <2>3
  <2> QED
    BY <2>2, <2>3
<1>9. Types'
  BY <1>2, <1>4, <1>8 DEF RingInv, Types
<1>10. Scoped'
  <2>1. ASSUME NEW u \in Threads, NEW a \in DOMAIN open'[u]
        PROVE  /\ a \in DOMAIN open[u] /\ open'[u][a] = open[u][a]
               /\ ~(sending[u] = "end" /\ a = Len(open[u])) \/ u # t
               /\ u # t => open'[u] = open[u]
    <3>1. CASE u = t
      <4>1. a \in 1 .. Len(open'[t]) /\ open'[t][a] = open[t][a]
        BY <1>8, <2>1, <3>1
      <4>2. Len(open[t]) \in Nat /\ DOMAIN open[t] = 1 .. Len(open[t])
        BY <1>7
      <4>3. a \in 1 .. Len(open[t]) /\ ~(sending[t] = "end" /\ a = Len(open[t]))
        <5>1. CASE sending[t] = "end"
          BY <1>8, <4>1, <4>2, <5>1
        <5>2. CASE sending[t] # "end"
          BY <1>8, <4>1, <4>2, <5>2
        <5> QED
          BY <5>1, <5>2
      <4> QED
        BY <3>1, <4>1, <4>2, <4>3
    <3>2. CASE u # t
      BY <1>8, <2>1, <3>2
    <3> QED
      BY <3>1, <3>2
  <2>2. ASSUME NEW u \in Threads, NEW a \in DOMAIN open'[u]
        PROVE  /\ open'[u][a] \in DOMAIN scopes' /\ scopes'[open'[u][a]].thread = u
               /\ scopes'[open'[u][a]].endQuery = 0 <=> ~(sending'[u] = "end" /\ a = Len(open'[u]))
    <3>1. /\ open[u][a] \in DOMAIN scopes /\ scopes[open[u][a]].thread = u
          /\ scopes[open[u][a]].endQuery = 0 <=> ~(sending[u] = "end" /\ a = Len(open[u]))
      BY <2>1 DEF RingInv, Scoped
    <3> QED
      BY <1>2, <1>8, <2>1, <3>1
  <2>3. \A u \in Threads : \A a, b \in DOMAIN open'[u] : open'[u][a] = open'[u][b] => a = b
    BY <2>1 DEF RingInv, Scoped
  <2>4. \A u \in Threads : sending'[u] # "no" => open'[u] # <<>>
    BY <1>8 DEF RingInv, Scoped
  <2> QED
    BY <2>2, <2>3, <2>4 DEF Scoped
<1> QED
  BY <1>5, <1>6, <1>9, <1>10 DEF RingInv

-----------------------------------------------------------------------------
(* A command buffer is put behind what was submitted: the commands are the *)
(* same, and none is twice among them.                                     *)
LEMMA SubmitRing ==
    ASSUME RingInv, NEW t \in Threads, Submit(t)
    PROVE  RingInv'
<1> DEFINE L == Len(queue)
<1>1. /\ UNCHANGED <<fixed, ring, col, app, pool, stamps, wire>>
      /\ queue' = queue \o cmdbuf[t] /\ cmdbuf' = [cmdbuf EXCEPT ![t] = <<>>]
  BY DEF Submit
<1>2. /\ m_queryCount' = m_queryCount /\ m_head' = m_head /\ m_tail' = m_tail /\ m_oldCnt' = m_oldCnt
      /\ m_res' = m_res /\ idx' = idx /\ collecting' = collecting /\ scopes' = scopes
      /\ open' = open /\ sending' = sending /\ pool' = pool /\ stamps' = stamps
      /\ m_refTimeGpu' = m_refTimeGpu /\ reported' = reported
  BY <1>1 DEF fixed, ring, col, app, wire
<1>3. \A n : Slot(n)' = Slot(n)
  BY <1>2 DEF Slot
<1>4. Unclosed' = Unclosed /\ Live' = Live /\ WrappedTail' = WrappedTail /\ QueryIds' = QueryIds
  BY <1>2 DEF Unclosed, Live, WrappedTail, QueryIds
<1>5. Window' /\ Pooled' /\ Batches' /\ ReportsTrue' /\ Scoped'
  BY <1>2, <1>3, <1>4 DEF RingInv, Window, Pooled, Batches, ReportsTrue, Scoped
<1>6. Good' = Good
  BY <1>2, <1>3, <1>4 DEF Good, GoodWrites, GoodResets
<1>7. /\ queue \in Seq(Cmd) /\ cmdbuf[t] \in Seq(Cmd) /\ L \in Nat /\ DOMAIN queue = 1 .. L
      /\ Len(cmdbuf[t]) \in Nat /\ DOMAIN cmdbuf[t] = 1 .. Len(cmdbuf[t])
      /\ cmdbuf \in [Threads -> Seq(Cmd)]
  BY DEF RingInv, Types
<1>8. /\ queue' \in Seq(Cmd) /\ DOMAIN queue' = 1 .. L + Len(cmdbuf[t])
      /\ \A a \in 1 .. L : queue'[a] = queue[a]
      /\ \A a \in L + 1 .. L + Len(cmdbuf[t]) : queue'[a] = cmdbuf[t][a - L]
  BY <1>1, <1>7
<1>9. /\ cmdbuf' \in [Threads -> Seq(Cmd)] /\ cmdbuf'[t] = <<>>
      /\ \A u \in Threads : u # t => cmdbuf'[u] = cmdbuf[u]
  BY <1>1, <1>7
<1>10. Types'
  BY <1>2, <1>4, <1>8, <1>9 DEF RingInv, Types
<1>11. Commands'
  <2> DEFINE Old(a) == a \in DOMAIN queue /\ queue'[a] = queue[a]
             New(a) == a - L \in DOMAIN cmdbuf[t] /\ queue'[a] = cmdbuf[t][a - L]
  <2>1. \A a \in DOMAIN queue' : a \in Nat /\ (Old(a) \/ New(a))
    BY <1>7, <1>8
  <2>2. \A u \in Threads : u # t \/ DOMAIN cmdbuf'[u] = {}
    BY <1>9
  <2>3. \A u \in Threads : \A a \in DOMAIN cmdbuf'[u] : u # t /\ a \in DOMAIN cmdbuf[u] /\ cmdbuf'[u] = cmdbuf[u]
    BY <1>9, <2>2
  <2>4. \A d, e \in Cmd : Apart(d, e) => Apart(e, d)
    BY DEF Apart
  <2>5. Good \subseteq Cmd
    BY DEF Good, GoodWrites, GoodResets
  <2>6. \A a, b \in Nat : a # b /\ a - L = b - L => FALSE
    BY <1>7
  <2> USE DEF RingInv, Commands
  <2>7. \A a \in DOMAIN queue' : queue'[a] \in Good'
    BY <1>6, <2>1
  <2>8. \A u \in Threads : \A a \in DOMAIN cmdbuf'[u], b \in DOMAIN queue' : Apart(cmdbuf'[u][a], queue'[b])
    BY <2>1, <2>3
  <2>9. \A a, b \in DOMAIN queue' : a # b => Apart(queue'[a], queue'[b])
    <3> SUFFICES ASSUME NEW a \in DOMAIN queue', NEW b \in DOMAIN queue', a # b
                 PROVE  Apart(queue'[a], queue'[b])
      OBVIOUS
    <3>1. a \in Nat /\ b \in Nat /\ a - L # b - L
      BY <1>7, <2>1
    <3> HIDE DEF L
    <3>2. CASE Old(a) /\ Old(b)
      BY <3>2
    <3>3. CASE New(a) /\ New(b)
      BY <3>1, <3>3
    <3>4. CASE New(a) /\ Old(b)
      BY <3>4
    <3>5. CASE Old(a) /\ New(b)
      BY <2>4, <2>5, <3>5
    <3> QED
      BY <2>1, <3>2, <3>3, <3>4, <3>5
  <2>10. \A u \in Threads : \A a \in DOMAIN cmdbuf'[u] : cmdbuf'[u][a] \in Good'
    BY <1>6, <2>3
  <2>11. \A u, v \in Threads : \A a \in DOMAIN cmdbuf'[u], b \in DOMAIN cmdbuf'[v] :
            u # v \/ a # b => Apart(cmdbuf'[u][a], cmdbuf'[v][b])
    BY <2>3
  <2> QED
    BY <2>7, <2>8, <2>9, <2>10, <2>11
<1> QED
  BY <1>5, <1>10, <1>11 DEF RingInv

-----------------------------------------------------------------------------
(* The first command of the queue is executed, and the others stay good.   *)
LEMMA Executing ==
    ASSUME Types, Commands, queue # <<>>, queue' = Tail(queue), cmdbuf' = cmdbuf,
           \A d \in Good : Apart(Head(queue), d) => d \in Good'
    PROVE  Commands' /\ queue' \in Seq(Cmd) /\ Head(queue) \in Good
<1>1. /\ queue' \in Seq(Cmd) /\ Head(queue) = queue[1] /\ 1 \in DOMAIN queue
      /\ \A a \in DOMAIN queue' : a + 1 \in DOMAIN queue /\ queue'[a] = queue[a + 1] /\ a + 1 # 1 /\ a \in Nat
  BY HeadTail DEF Types
<1> USE DEF Commands
<1>2. \A d, e \in Cmd : Apart(d, e) => Apart(e, d)
  BY DEF Apart
<1>3. Good \subseteq Cmd
  BY DEF Good, GoodWrites, GoodResets
<1>4. \A a \in DOMAIN queue' : queue'[a] \in Good'
  <2> SUFFICES ASSUME NEW a \in DOMAIN queue' PROVE queue'[a] \in Good'
    OBVIOUS
  <2>1. queue[a + 1] \in Good /\ Apart(queue[1], queue[a + 1])
    BY <1>1
  <2> QED
    BY <1>1, <2>1
<1>5. \A t \in Threads : \A a \in DOMAIN cmdbuf[t] : cmdbuf[t][a] \in Good'
  BY <1>1, <1>2, <1>3
<1>6. \A a, b \in DOMAIN queue' : a # b => Apart(queue'[a], queue'[b])
  <2> SUFFICES ASSUME NEW a \in DOMAIN queue', NEW b \in DOMAIN queue', a # b
               PROVE  Apart(queue'[a], queue'[b])
    OBVIOUS
  <2>1. a + 1 # b + 1
    BY <1>1
  <2> QED
    BY <1>1, <2>1
<1>7. \A t \in Threads : \A a \in DOMAIN cmdbuf[t], b \in DOMAIN queue' : Apart(cmdbuf[t][a], queue'[b])
  BY <1>1
<1> QED
  BY <1>1, <1>4, <1>5, <1>6, <1>7

(* The GPU writes a timestamp: its number is not collected yet, and no     *)
(* number that shares its slot is in use.                                  *)
LEMMA WriteRing ==
    ASSUME RingInv, GpuExecute, Head(queue).op = "write"
    PROVE  LET n == Head(queue).number
           IN  /\ RingInv' /\ n \in m_tail + idx + 1 .. m_head /\ stamps[n] = NotReady
               /\ stamps' = [stamps EXCEPT ![n] = stamps'[n]] /\ stamps'[n] # NotReady
               /\ UNCHANGED <<fixed, ring, col, app, cmdbuf, wire>> /\ queue' = Tail(queue)
<1> DEFINE cmd == Head(queue)
           n == cmd.number
           C == Clock + 1
           K == Cardinality(Unclosed)
<1>1. /\ queue # <<>> /\ queue' = Tail(queue) /\ UNCHANGED <<fixed, ring, col, app, cmdbuf, wire>>
      /\ pool' = [pool EXCEPT ![cmd.first] = C] /\ stamps' = [stamps EXCEPT ![n] = C]
  BY DEF GpuExecute
<1>2. C \in Nat /\ C # NotReady
  <2> DEFINE written == {i \in DOMAIN stamps : stamps[i] # NotReady}
  <2>1. written \subseteq 1 .. Len(stamps) /\ Len(stamps) \in Nat
    BY DEF RingInv, Types
  <2>2. Clock = Cardinality(written)
    BY DEF Clock
  <2> HIDE DEF written
  <2>3. IsFiniteSet(1 .. Len(stamps))
    BY <2>1, FS_Interval
  <2>4. Clock \in Nat
    BY <2>1, <2>2, <2>3, FS_Subset, FS_CardinalityType
  <2> QED
    BY <2>4 DEF NotReady
<1>3. /\ m_queryCount' = m_queryCount /\ m_head' = m_head /\ m_tail' = m_tail /\ m_oldCnt' = m_oldCnt
      /\ m_res' = m_res /\ idx' = idx /\ collecting' = collecting /\ scopes' = scopes
      /\ open' = open /\ sending' = sending /\ cmdbuf' = cmdbuf
      /\ m_refTimeGpu' = m_refTimeGpu /\ reported' = reported
  BY <1>1 DEF fixed, ring, col, app, wire
<1>4. (\A m : Slot(m)' = Slot(m)) /\ Unclosed' = Unclosed /\ Live' = Live /\ WrappedTail' = WrappedTail
      /\ QueryIds' = QueryIds
  BY <1>3 DEF Slot, Unclosed, Live, WrappedTail, QueryIds
<1>5. cmd \in Cmd /\ n \in 1 .. m_head /\ cmd.first = Slot(n) /\ stamps[n] = NotReady
  <2>1. cmd \in Good
    BY <1>1, HeadTail DEF RingInv, Types, Commands
  <2> QED
    BY <2>1 DEF Good, GoodWrites, GoodResets
<1>6. /\ m_head \in Nat /\ m_tail \in Nat /\ m_queryCount \in Nat /\ m_tail <= m_head /\ K \in Nat
      /\ m_head + K <= m_tail + m_queryCount /\ m_head = Len(stamps) /\ idx \in Nat
      /\ DOMAIN stamps = 1 .. m_head /\ stamps \in Seq(Nat) /\ pool \in [QueryIds -> Nat]
  BY UnclosedFinite DEF RingInv, Types, Window
<1>7. n \in Nat /\ n > m_tail + idx /\ n > m_tail /\ n > 0 /\ n <= m_head
  BY <1>5, <1>6 DEF RingInv, ReportsTrue
<1>8. /\ stamps' \in Seq(Nat) /\ Len(stamps') = m_head /\ stamps'[n] = C
      /\ \A m \in 1 .. m_head : m # n => stamps'[m] = stamps[m]
  BY <1>1, <1>2, <1>5, <1>6
<1>9. Slot(n) \in QueryIds /\ \A m \in m_tail + 1 .. m_head + K : m # n => Slot(m) \in QueryIds /\ Slot(m) # Slot(n)
  <2>1. Types /\ Slot(n) \in QueryIds
    BY <1>7, SlotInPool DEF RingInv
  <2> SUFFICES ASSUME NEW m \in m_tail + 1 .. m_head + K, m # n
               PROVE  Slot(m) \in QueryIds /\ Slot(m) # Slot(n)
    BY <2>1
  <2>2. m \in Nat /\ m > 0 /\ n \in Nat /\ n > 0
    BY <1>6, <1>7
  <2>3. CASE m > n
    <3>1. m < n + m_queryCount
      BY <1>6, <1>7, <2>2
    <3> QED
      BY <2>1, <2>2, <2>3, <3>1, SlotInPool, SlotsDiffer
  <2>4. CASE m < n
    <3>1. n < m + m_queryCount
      BY <1>6, <1>7, <2>2
    <3> QED
      BY <2>1, <2>2, <2>4, <3>1, SlotInPool, SlotsDiffer
  <2> QED
    BY <2>2, <2>3, <2>4
<1>10. /\ pool' \in [QueryIds -> Nat] /\ pool'[Slot(n)] = C
       /\ \A q \in QueryIds : q # Slot(n) => pool'[q] = pool[q]
  <2> HIDE DEF C, cmd
  <2> QED
    BY <1>1, <1>2, <1>5, <1>6, <1>9
<1> HIDE DEF C
<1>11. Window'
  <2>1. \A m \in m_head + 1 .. m_head + K : m \in m_tail + 1 .. m_head + K /\ m # n
    BY <1>6, <1>7
  <2>2. \A m \in m_head + 1 .. m_head + K : pool'[Slot(m)] = pool[Slot(m)]
    BY <1>9, <1>10, <2>1
  <2>3. \A m \in m_head + 1 .. m_head + K : pool'[Slot(m)] = NotReady
    BY <2>2 DEF RingInv, Window
  <2> QED
    BY <1>3, <1>4, <1>6, <1>8, <2>3 DEF Window
<1>12. Pooled'
  <2>1. \A m \in Live : m \in m_tail + 1 .. m_head + K /\ m \in 1 .. m_head
    BY <1>6 DEF Live
  <2>2. \A m \in Live : m # n => pool'[Slot(m)] = pool[Slot(m)] /\ stamps'[m] = stamps[m]
    BY <1>8, <1>9, <1>10, <2>1
  <2>3. \A m \in Live : pool'[Slot(m)] = stamps'[m]
    BY <1>8, <1>10, <2>2 DEF RingInv, Pooled
  <2> QED
    BY <1>4, <2>3 DEF Pooled
<1>13. Batches'
  <2>1. ASSUME collecting = "report", NEW a \in DOMAIN m_res
        PROVE  m_res[a] \in {NotReady, stamps'[m_tail + a]}
    <3>1. Len(m_res) \in Nat /\ DOMAIN m_res = 1 .. Len(m_res) /\ Len(m_res) <= m_head - m_tail
          /\ m_res[a] \in {NotReady, stamps[m_tail + a]}
      BY <2>1 DEF RingInv, Types, Batches
    <3>2. m_tail + a \in 1 .. m_head
      BY <1>6, <3>1
    <3> QED
      BY <1>5, <1>8, <3>1, <3>2
  <2> QED
    BY <1>3, <1>4, <2>1 DEF RingInv, Batches
<1>14. ReportsTrue'
  <2>1. \A m \in 1 .. m_tail + idx : m \in 1 .. m_head /\ m # n
    BY <1>6, <1>7
  <2> QED
    BY <1>3, <1>8, <2>1 DEF RingInv, ReportsTrue
<1>15. \A d \in Good : Apart(cmd, d) => d \in Good'
  <2>1. \A d \in GoodWrites : Apart(cmd, d) => d \in GoodWrites'
    <3> HIDE DEF cmd
    <3>1. cmd.op = "write"
      BY DEF cmd
    <3>2. \A d \in GoodWrites : Apart(cmd, d) => d.number # n
      BY <3>1 DEF Apart, GoodWrites
    <3> QED
      BY <1>3, <1>4, <1>8, <3>2 DEF GoodWrites
  <2>2. ASSUME NEW d \in GoodResets PROVE d \in GoodResets'
    <3>1. d \in Cmd /\ d.op = "reset" /\ d.first + d.cnt <= m_queryCount /\ d.first \in Nat /\ d.cnt \in Nat
          /\ \A q \in Covers(d) : pool[q] # NotReady /\ \A m \in Live : Slot(m) # q
      BY <2>2 DEF GoodResets, Cmd
    <3>2. ASSUME NEW q \in Covers(d) PROVE q \in QueryIds
      <4>1. q \in d.first .. d.first + d.cnt - 1 /\ m_queryCount \in Nat
        BY <1>6 DEF Covers
      <4>2. d.first \in Nat /\ d.cnt \in Nat /\ d.first + d.cnt <= m_queryCount
        BY <3>1
      <4> QED
        BY <4>1, <4>2 DEF QueryIds
    <3>3. ASSUME NEW q \in Covers(d) PROVE pool'[q] # NotReady
      <4>1. q \in QueryIds /\ pool[q] # NotReady
        BY <3>1, <3>2
      <4>2. CASE q = Slot(n)
        BY <1>2, <1>10, <4>1, <4>2
      <4>3. CASE q # Slot(n)
        BY <1>10, <4>1, <4>3
      <4> QED
        BY <4>2, <4>3
    <3> QED
      BY <1>3, <1>4, <3>1, <3>3 DEF GoodResets, Covers
  <2> QED
    BY <2>1, <2>2 DEF Good
<1>16. Commands' /\ queue' \in Seq(Cmd)
  BY <1>1, <1>3, <1>15, Executing DEF RingInv
<1>17. Types' /\ Scoped'
  BY <1>3, <1>4, <1>8, <1>10, <1>16 DEF RingInv, Types, Scoped
<1>18. RingInv'
  BY <1>11, <1>12, <1>13, <1>14, <1>16, <1>17 DEF RingInv
<1>19. stamps' = [stamps EXCEPT ![n] = stamps'[n]] /\ stamps'[n] # NotReady
  BY <1>1, <1>2, <1>8
<1>20. n \in m_tail + idx + 1 .. m_head
  BY <1>6, <1>7
<1> QED
  BY <1>1, <1>5, <1>18, <1>19, <1>20

(* Queries are reset that were collected, now or before: neither a number  *)
(* still to be collected nor another reset is about them.                  *)
LEMMA ResetPool ==
    ASSUME RingInv, NEW c \in Cmd, c.op = "reset", \A m \in Live' : Slot(m) \notin Covers(c),
           UNCHANGED <<m_queryCount, m_head, scopes, stamps>>, m_tail' \in m_tail .. m_head,
           pool' = [q \in QueryIds |-> IF q \in Covers(c) THEN NotReady ELSE pool[q]]
    PROVE  /\ pool' \in [QueryIds' -> Nat] /\ Window' /\ Pooled'
           /\ \A d \in Good : Apart(c, d) => d \in Good'
<1>1. (\A m : Slot(m)' = Slot(m)) /\ Unclosed' = Unclosed /\ QueryIds' = QueryIds
  BY DEF Slot, Unclosed, QueryIds
<1>2. /\ m_head \in Nat /\ m_tail \in Nat /\ m_queryCount \in Nat /\ m_tail <= m_head
      /\ Cardinality(Unclosed) \in Nat /\ m_head = Len(stamps) /\ pool \in [QueryIds -> Nat] /\ Types
  BY UnclosedFinite DEF RingInv, Types, Window
<1> Live' \subseteq Live
  BY <1>2 DEF Live
<1>3. pool' \in [QueryIds -> Nat]
  BY <1>2 DEF NotReady
<1>4. \A q \in QueryIds : pool'[q] = IF q \in Covers(c) THEN NotReady ELSE pool[q]
  OBVIOUS
<1>5. Window'
  <2>1. \A m \in m_head + 1 .. m_head + Cardinality(Unclosed) : Slot(m) \in QueryIds
    BY <1>2, SlotInPool
  <2>2. \A m \in m_head + 1 .. m_head + Cardinality(Unclosed) : pool'[Slot(m)] = NotReady
    BY <1>4, <2>1 DEF RingInv, Window
  <2> QED
    BY <1>1, <1>2, <2>2 DEF RingInv, Window
<1>6. Pooled'
  <2>1. \A m \in Live : Slot(m) \in QueryIds
    BY <1>2, SlotInPool DEF Live
  <2> QED
    BY <1>1, <1>4, <2>1 DEF RingInv, Pooled
<1>7. GoodWrites' = GoodWrites
  BY <1>1 DEF GoodWrites
<1>8. ASSUME NEW d \in GoodResets, Apart(c, d) PROVE d \in GoodResets'
  <2>1. d \in Cmd /\ d.op = "reset" /\ d.first + d.cnt <= m_queryCount /\ d.first \in Nat /\ d.cnt \in Nat
        /\ \A q \in Covers(d) : pool[q] # NotReady /\ \A m \in Live : Slot(m) # q
    BY <1>8 DEF GoodResets, Cmd
  <2>2. Covers(d) \subseteq QueryIds
    <3>1. \A f, n, m \in Nat : f + n <= m => f .. f + n - 1 \subseteq 0 .. m - 1
      OBVIOUS
    <3>2. d.first .. d.first + d.cnt - 1 \subseteq 0 .. m_queryCount - 1
      BY <1>2, <2>1, <3>1
    <3> QED
      BY <3>2 DEF Covers, QueryIds
  <2>3. Covers(c) \cap Covers(d) = {}
    BY <1>8, <2>1 DEF Apart
  <2>4. \A q \in Covers(d) : pool'[q] # NotReady
    BY <1>4, <2>1, <2>2, <2>3
  <2> QED
    BY <1>1, <2>1, <2>4 DEF GoodResets, Covers
<1> QED
  BY <1>1, <1>3, <1>5, <1>6, <1>7, <1>8 DEF Good

(* A recorded reset is executed: its slots are those of no live number.    *)
LEMMA ResetRing ==
    ASSUME RingInv, GpuExecute, Head(queue).op # "write"
    PROVE  RingInv'
<1> DEFINE cmd == Head(queue)
<1>1. /\ queue # <<>> /\ queue' = Tail(queue)
      /\ UNCHANGED <<fixed, ring, col, app, cmdbuf, wire, stamps>>
      /\ pool' = [q \in QueryIds |-> IF q \in Covers(cmd) THEN NotReady ELSE pool[q]]
  BY DEF GpuExecute, Covers
<1>2. /\ m_queryCount' = m_queryCount /\ m_head' = m_head /\ m_tail' = m_tail /\ m_oldCnt' = m_oldCnt
      /\ m_res' = m_res /\ idx' = idx /\ collecting' = collecting /\ scopes' = scopes
      /\ open' = open /\ sending' = sending /\ cmdbuf' = cmdbuf /\ stamps' = stamps
      /\ m_refTimeGpu' = m_refTimeGpu /\ reported' = reported
  BY <1>1 DEF fixed, ring, col, app, wire
<1>3. cmd \in Cmd /\ cmd.op = "reset" /\ \A m \in Live' : Slot(m) \notin Covers(cmd)
  <2>1. cmd \in Good
    BY <1>1, HeadTail DEF RingInv, Types, Commands
  <2>2. Live' = Live
    BY <1>2 DEF Live
  <2> QED
    BY <2>1, <2>2 DEF Good, GoodWrites, GoodResets
<1>4. /\ pool' \in [QueryIds' -> Nat] /\ Window' /\ Pooled'
      /\ \A d \in Good : Apart(cmd, d) => d \in Good'
  <2>1. m_tail' \in m_tail .. m_head
    BY <1>2 DEF RingInv, Types, Window
  <2> QED
    BY <1>1, <1>2, <1>3, <2>1, ResetPool
<1>5. Commands' /\ queue' \in Seq(Cmd)
  BY <1>1, <1>2, <1>4, Executing DEF RingInv
<1>6. WrappedTail' = WrappedTail
  BY <1>2 DEF WrappedTail
<1>7. Types' /\ Batches' /\ ReportsTrue' /\ Scoped'
  BY <1>2, <1>4, <1>5, <1>6 DEF RingInv, Types, Batches, ReportsTrue, Scoped
<1> QED
  BY <1>4, <1>5, <1>7 DEF RingInv

-----------------------------------------------------------------------------
(* A step that changes nothing.                                            *)
LEMMA StutterRing ==
    ASSUME RingInv, UNCHANGED vars
    PROVE  RingInv'
<1>1. /\ m_queryCount' = m_queryCount /\ m_head' = m_head /\ m_tail' = m_tail /\ m_oldCnt' = m_oldCnt
      /\ m_res' = m_res /\ idx' = idx /\ collecting' = collecting
      /\ scopes' = scopes /\ open' = open /\ sending' = sending /\ cmdbuf' = cmdbuf
      /\ queue' = queue /\ pool' = pool /\ stamps' = stamps
      /\ m_refTimeGpu' = m_refTimeGpu /\ reported' = reported
  BY DEF vars, fixed, ring, col, app, gpu, wire
<1>2. (\A m : Slot(m)' = Slot(m)) /\ Unclosed' = Unclosed /\ Live' = Live
      /\ WrappedTail' = WrappedTail /\ QueryIds' = QueryIds
  BY <1>1 DEF Slot, Unclosed, Live, WrappedTail, QueryIds
<1>3. Good' = Good
  BY <1>1, <1>2 DEF Good, GoodWrites, GoodResets
<1>4. Commands'
  BY <1>1, <1>3, StillGood DEF RingInv
<1>5. Types'
  BY <1>1, <1>2 DEF RingInv, Types
<1>6. Window' /\ Pooled'
  BY <1>1, <1>2 DEF RingInv, Window, Pooled
<1>7. Batches' /\ ReportsTrue'
  BY <1>1, <1>2 DEF RingInv, Batches, ReportsTrue
<1>8. Scoped'
  BY <1>1 DEF RingInv, Scoped
<1> QED
  BY <1>4, <1>5, <1>6, <1>7, <1>8 DEF RingInv

(* Collect asks for no more than was handed out and fits before the end of *)
(* the pool.                                                               *)
LEMMA BeginRing ==
    ASSUME RingInv, CollectBegin
    PROVE  RingInv'
<1>1. CASE UNCHANGED vars
  BY <1>1, StutterRing
<1>2. CASE ~UNCHANGED vars
  <2>1. /\ collecting = "no" /\ m_tail # m_head /\ collecting' = "results"
        /\ m_res' = [i \in 1 .. Batch |-> NotReady] /\ m_oldCnt' = 0
        /\ UNCHANGED <<fixed, m_head, m_tail, idx, app, cmdbuf, gpu, stamps, wire>>
    BY <1>2 DEF CollectBegin
  <2>2. /\ m_queryCount' = m_queryCount /\ m_head' = m_head /\ m_tail' = m_tail /\ idx' = idx
        /\ scopes' = scopes /\ open' = open /\ sending' = sending /\ cmdbuf' = cmdbuf
        /\ queue' = queue /\ pool' = pool /\ stamps' = stamps
        /\ m_refTimeGpu' = m_refTimeGpu /\ reported' = reported
    BY <2>1 DEF fixed, app, gpu, wire
  <2>3. (\A m : Slot(m)' = Slot(m)) /\ Unclosed' = Unclosed /\ Live' = Live
        /\ WrappedTail' = WrappedTail /\ QueryIds' = QueryIds
    BY <2>2 DEF Slot, Unclosed, Live, WrappedTail, QueryIds
  <2>4. Batch \in Nat /\ Batch <= m_queryCount - WrappedTail /\ Batch <= m_head - m_tail
    <3>1. /\ WrappedTail \in Nat /\ WrappedTail < m_queryCount /\ m_oldCnt \in Nat
          /\ m_head \in Nat /\ m_tail \in Nat /\ m_tail <= m_head /\ m_queryCount \in Nat
          /\ m_oldCnt <= m_queryCount - WrappedTail /\ m_oldCnt <= m_head - m_tail
      BY BatchSlots DEF RingInv, Types, Window, Batches
    <3> QED
      BY <3>1 DEF Batch
  <2>5. m_res' \in Seq(Nat) /\ Len(m_res') = Batch
    BY <2>1, <2>4 DEF NotReady
  <2>6. Batches'
    <3>1. idx = 0 /\ 0 <= m_queryCount - WrappedTail /\ 0 <= m_head - m_tail
      BY <2>1, BatchSlots DEF RingInv, Types, Window, Batches
    <3> QED
      BY <2>1, <2>2, <2>3, <2>4, <2>5, <3>1 DEF Batches
  <2>7. Commands'
    <3>1. Good' = Good
      BY <2>2, <2>3 DEF Good, GoodWrites, GoodResets
    <3> QED
      BY <2>2, <3>1, StillGood DEF RingInv
  <2>8. Types' /\ Window' /\ Pooled' /\ ReportsTrue' /\ Scoped'
    BY <2>1, <2>2, <2>3, <2>5 DEF RingInv, Types, Window, Pooled, ReportsTrue, Scoped
  <2> QED
    BY <2>6, <2>7, <2>8 DEF RingInv
<1> QED
  BY <1>1, <1>2

(* The results are those of the numbers that follow the tail.              *)
LEMMA ResultsRing ==
    ASSUME RingInv, CollectResults
    PROVE  RingInv'
<1>1. /\ collecting = "results" /\ collecting' = "report"
      /\ m_res' = [a \in DOMAIN m_res |-> pool[(WrappedTail + a - 1) % m_queryCount]]
      /\ UNCHANGED <<fixed, ring, idx, app, cmdbuf, gpu, stamps, wire>>
  BY DEF CollectResults
<1>2. /\ m_queryCount' = m_queryCount /\ m_head' = m_head /\ m_tail' = m_tail /\ m_oldCnt' = m_oldCnt
      /\ idx' = idx /\ scopes' = scopes /\ open' = open /\ sending' = sending /\ cmdbuf' = cmdbuf
      /\ queue' = queue /\ pool' = pool /\ stamps' = stamps
      /\ m_refTimeGpu' = m_refTimeGpu /\ reported' = reported
  BY <1>1 DEF fixed, ring, app, gpu, wire
<1>3. (\A m : Slot(m)' = Slot(m)) /\ Unclosed' = Unclosed /\ Live' = Live
      /\ WrappedTail' = WrappedTail /\ QueryIds' = QueryIds
  BY <1>2 DEF Slot, Unclosed, Live, WrappedTail, QueryIds
<1>4. /\ Len(m_res) \in Nat /\ DOMAIN m_res = 1 .. Len(m_res) /\ m_tail \in Nat /\ m_head \in Nat
      /\ m_queryCount \in Nat /\ m_queryCount > 0 /\ m_head = Len(stamps) /\ stamps \in Seq(Nat)
      /\ Len(m_res) <= m_queryCount - WrappedTail /\ Len(m_res) <= m_head - m_tail
      /\ WrappedTail \in Nat /\ WrappedTail < m_queryCount
  BY BatchSlots DEF RingInv, Types, Window, Batches
<1>5. ASSUME NEW a \in 1 .. Len(m_res)
      PROVE  pool[(WrappedTail + a - 1) % m_queryCount] = stamps[m_tail + a] /\ stamps[m_tail + a] \in Nat
  <2>1. WrappedTail + a - 1 \in Nat /\ WrappedTail + a - 1 < m_queryCount /\ a \in 1 .. m_queryCount - WrappedTail
    BY <1>4
  <2> DEFINE slot == WrappedTail + a - 1
  <2>2. slot % m_queryCount = slot
    <3>1. slot \in Nat /\ slot < m_queryCount /\ slot = (m_queryCount * 0) + slot
      BY <1>4, <2>1
    <3> HIDE DEF slot
    <3> QED
      BY <1>4, <3>1, Remainder
  <2>3. Slot(m_tail + a) = WrappedTail + a - 1
    BY <2>1, BatchSlots DEF RingInv
  <2>4. m_tail + a \in Live /\ m_tail + a \in 1 .. Len(stamps)
    BY <1>4 DEF Live
  <2>5. pool[Slot(m_tail + a)] = stamps[m_tail + a]
    BY <2>4 DEF RingInv, Pooled
  <2>6. stamps[m_tail + a] \in Nat
    BY <1>4, <2>4, ElementOfSeq
  <2> QED
    BY <2>2, <2>3, <2>5, <2>6
<1>6. /\ m_res' \in Seq(Nat) /\ Len(m_res') = Len(m_res)
      /\ \A a \in DOMAIN m_res' : m_res'[a] = stamps[m_tail + a]
  <2>1. DOMAIN m_res' = 1 .. Len(m_res) /\ \A a \in 1 .. Len(m_res) : m_res'[a] = stamps[m_tail + a] /\ m_res'[a] \in Nat
    BY <1>1, <1>4, <1>5
  <2>2. m_res' \in [1 .. Len(m_res) -> Nat]
    BY <1>1, <1>4, <1>5
  <2>3. m_res' \in Seq(Nat)
    BY <1>4, <2>2, SeqDef
  <2> QED
    BY <1>4, <2>1, <2>3
<1>7. Batches'
  BY <1>1, <1>2, <1>3, <1>6 DEF RingInv, Batches
<1>8. Commands'
  <2>1. Good' = Good
    BY <1>2, <1>3 DEF Good, GoodWrites, GoodResets
  <2> QED
    BY <1>2, <2>1, StillGood DEF RingInv
<1>9. Types' /\ Window' /\ Pooled' /\ ReportsTrue' /\ Scoped'
  BY <1>1, <1>2, <1>3, <1>6 DEF RingInv, Types, Window, Pooled, ReportsTrue, Scoped
<1> QED
  BY <1>7, <1>8, <1>9 DEF RingInv

(* A result is reported: what the GPU wrote for the number that follows    *)
(* those reported before.                                                  *)
LEMMA ReportRing ==
    ASSUME RingInv, CollectReport
    PROVE  /\ RingInv' /\ m_tail + idx + 1 <= m_head
           /\ m_res[idx + 1] = stamps[m_tail + idx + 1] /\ stamps[m_tail + idx + 1] # NotReady
           /\ WrappedTail + idx = Slot(m_tail + idx + 1)
<1> DEFINE n == m_tail + idx + 1
           time == m_res[idx + 1]
<1>1. /\ collecting = "report" /\ idx < Len(m_res) /\ time # NotReady
      /\ m_refTimeGpu' = time /\ reported' = Append(reported, time) /\ idx' = idx + 1
      /\ UNCHANGED <<fixed, ring, m_res, collecting, app, cmdbuf, gpu, stamps>>
  BY DEF CollectReport, HasResult
<1>2. /\ m_queryCount' = m_queryCount /\ m_head' = m_head /\ m_tail' = m_tail /\ m_oldCnt' = m_oldCnt
      /\ m_res' = m_res /\ collecting' = collecting
      /\ scopes' = scopes /\ open' = open /\ sending' = sending /\ cmdbuf' = cmdbuf
      /\ queue' = queue /\ pool' = pool /\ stamps' = stamps
  BY <1>1 DEF fixed, ring, app, gpu
<1>3. (\A m : Slot(m)' = Slot(m)) /\ Unclosed' = Unclosed /\ Live' = Live
      /\ WrappedTail' = WrappedTail /\ QueryIds' = QueryIds
  BY <1>2 DEF Slot, Unclosed, Live, WrappedTail, QueryIds
<1>4. /\ Len(m_res) \in Nat /\ DOMAIN m_res = 1 .. Len(m_res) /\ m_res \in Seq(Nat) /\ idx \in Nat
      /\ m_tail \in Nat /\ m_head \in Nat /\ reported \in Seq(Nat) /\ m_queryCount \in Nat
      /\ Len(m_res) <= m_queryCount - WrappedTail /\ Len(m_res) <= m_head - m_tail
      /\ Len(reported) = m_tail + idx /\ WrappedTail \in Nat
  BY BatchSlots DEF RingInv, Types, Batches, ReportsTrue
<1>5. n <= m_head /\ idx + 1 \in DOMAIN m_res /\ idx + 1 \in 1 .. m_queryCount - WrappedTail /\ time \in Nat
  BY <1>1, <1>4
<1>6. time = stamps[n] /\ stamps[n] # NotReady
  <2>1. m_tail + (idx + 1) = n
    BY <1>4
  <2>2. m_res[idx + 1] \in {NotReady, stamps[m_tail + (idx + 1)]}
    BY <1>1, <1>5 DEF RingInv, Batches
  <2> QED
    BY <1>1, <2>1, <2>2
<1>7. WrappedTail + idx = Slot(n)
  <2>1. Slot(m_tail + (idx + 1)) = WrappedTail + (idx + 1) - 1
    BY <1>5, BatchSlots DEF RingInv
  <2> QED
    BY <1>4, <2>1
<1>8. ReportsTrue' /\ reported' \in Seq(Nat)
  <2>1. /\ reported' \in Seq(Nat) /\ Len(reported') = n /\ reported'[n] = time
        /\ \A m \in 1 .. m_tail + idx : reported'[m] = reported[m]
    <3>1. reported \in Seq(Nat) /\ time \in Nat /\ reported' = Append(reported, time)
      BY <1>1, <1>4, <1>5
    <3> HIDE DEF time, n
    <3>2. /\ reported' \in Seq(Nat) /\ Len(reported') = Len(reported) + 1
          /\ reported'[Len(reported) + 1] = time
          /\ \A m \in 1 .. Len(reported) : reported'[m] = reported[m]
      BY <3>1, Appended
    <3>3. Len(reported) + 1 = n /\ Len(reported) = m_tail + idx
      BY <1>4 DEF n
    <3> QED
      BY <3>2, <3>3
  <2>2. m_tail' + idx' = n /\ \A m \in 1 .. n : m = n \/ m \in 1 .. m_tail + idx
    BY <1>1, <1>2, <1>4
  <2> HIDE DEF n, time
  <2> QED
    BY <1>2, <1>6, <2>1, <2>2 DEF RingInv, ReportsTrue
<1>9. Batches'
  <2>1. idx' <= Len(m_res)
    BY <1>1, <1>4
  <2> QED
    BY <1>1, <1>2, <1>3, <2>1 DEF RingInv, Batches
<1>10. Commands'
  <2>1. Good' = Good
    BY <1>2, <1>3 DEF Good, GoodWrites, GoodResets
  <2> QED
    BY <1>2, <2>1, StillGood DEF RingInv
<1>11. Types' /\ Window' /\ Pooled' /\ Scoped'
  <2>1. m_refTimeGpu' \in Nat /\ idx' \in Nat
    BY <1>1, <1>4, <1>5
  <2> QED
    BY <1>2, <1>3, <1>8, <2>1 DEF RingInv, Types, Window, Pooled, Scoped
<1> QED
  BY <1>5, <1>6, <1>7, <1>8, <1>9, <1>10, <1>11 DEF RingInv

(* The queries that a collect resets have been written, and are not those  *)
(* of another number or another reset.                                     *)
LEMMA Collected ==
    ASSUME RingInv, CollectEnd
    PROVE  LET c == ResetCollected
           IN  /\ c \in Cmd /\ c.op = "reset" /\ c.first + c.cnt <= m_queryCount
               /\ m_tail' = m_tail + idx /\ m_tail' \in m_tail .. m_head
               /\ Live' \subseteq Live /\ \A m \in Live' : Slot(m) \notin Covers(c)
               /\ \A q \in Covers(c) : pool[q] # NotReady
               /\ \A d \in Good : Apart(c, d)
<1> DEFINE c == ResetCollected
<1>1. m_tail' = m_tail + idx /\ m_head' = m_head
  BY DEF CollectEnd
<1>2. /\ idx \in Nat /\ Len(m_res) \in Nat /\ idx <= Len(m_res) /\ Len(m_res) <= m_queryCount - WrappedTail
      /\ Len(m_res) <= m_head - m_tail /\ m_tail \in Nat /\ m_head \in Nat /\ m_queryCount \in Nat
      /\ WrappedTail \in Nat /\ m_tail <= m_head /\ m_head = Len(stamps)
      /\ m_head <= m_tail + m_queryCount /\ Types
  <2>1. m_head + Cardinality(Unclosed) <= m_tail + m_queryCount /\ Cardinality(Unclosed) \in Nat
    BY UnclosedFinite DEF RingInv, Window
  <2>2. WrappedTail \in Nat /\ Types
    BY BatchSlots DEF RingInv
  <2>3. m_head \in Nat /\ m_tail \in Nat /\ m_queryCount \in Nat /\ idx \in Nat /\ Len(m_res) \in Nat
    BY DEF RingInv, Types
  <2> QED
    BY <2>1, <2>2, <2>3 DEF RingInv, Batches, Window
<1>3. /\ c \in Cmd /\ c.op = "reset" /\ c.first = WrappedTail /\ c.cnt = idx
      /\ c.first + c.cnt <= m_queryCount
  BY <1>2 DEF ResetCollected, ResetOf, Cmd
<1>4. m_tail' \in m_tail .. m_head /\ Live' = m_tail + idx + 1 .. m_head /\ Live' \subseteq Live
  BY <1>1, <1>2 DEF Live
<1>5. ASSUME NEW q \in Covers(c)
      PROVE  \E m \in m_tail + 1 .. m_tail + idx : q = Slot(m)
  <2> DEFINE a == q - WrappedTail + 1
  <2>1. a \in 1 .. m_queryCount - WrappedTail /\ m_tail + a \in m_tail + 1 .. m_tail + idx
        /\ q = WrappedTail + a - 1
    BY <1>2, <1>3, <1>5 DEF Covers
  <2>2. Slot(m_tail + a) = WrappedTail + a - 1
    BY <1>2, <2>1, BatchSlots
  <2> QED
    BY <2>1, <2>2
<1> HIDE DEF c
<1>6. \A m \in m_tail + 1 .. m_tail + idx :
        m \in Live /\ m \in 1 .. m_tail + idx /\ pool[Slot(m)] # NotReady
  <2>1. \A m \in m_tail + 1 .. m_tail + idx : m \in Live /\ m \in 1 .. m_tail + idx
    BY <1>2 DEF Live
  <2> QED
    BY <2>1 DEF RingInv, Pooled, ReportsTrue
<1>7. \A q \in Covers(c) : pool[q] # NotReady
  BY <1>5, <1>6
<1>8. \A m \in Live' : Slot(m) \notin Covers(c)
  <2> SUFFICES ASSUME NEW m \in Live', NEW k \in m_tail + 1 .. m_tail + idx PROVE Slot(m) # Slot(k)
    BY <1>5
  <2>1. m \in Nat /\ k \in Nat /\ k > 0 /\ m > 0 /\ m > k /\ m < k + m_queryCount
    BY <1>2, <1>4
  <2> QED
    BY <1>2, <2>1, SlotsDiffer
<1>9. \A d \in Good : Apart(c, d)
  <2>1. \A d \in GoodResets : Covers(c) \cap Covers(d) = {}
    BY <1>5, <1>6 DEF GoodResets
  <2> QED
    BY <1>3, <2>1 DEF Apart, Good, GoodWrites, GoodResets
<1> QED
  BY <1>1, <1>3, <1>4, <1>7, <1>8, <1>9 DEF c

(* What was reported is given back, and what was not is asked for again.   *)
LEMMA EndRing ==
    ASSUME RingInv, CollectEnd
    PROVE  RingInv'
<1> DEFINE c == ResetCollected
<1>1. /\ collecting = "report" /\ m_oldCnt' = Len(m_res) - idx /\ m_tail' = m_tail + idx
      /\ m_res' = <<>> /\ idx' = 0 /\ collecting' = "no"
      /\ UNCHANGED <<fixed, m_head, app, queue, stamps, wire>>
      /\ \/ /\ hostReset /\ UNCHANGED cmdbuf
            /\ pool' = [q \in QueryIds |-> IF q \in Covers(c) THEN NotReady ELSE pool[q]]
         \/ ~hostReset /\ idx = 0 /\ UNCHANGED <<cmdbuf, pool>>
         \/ /\ ~hostReset /\ idx # 0 /\ UNCHANGED pool
            /\ cmdbuf' = [cmdbuf EXCEPT ![Collector] = Append(@, c)]
  BY DEF CollectEnd, Covers
<1>2. /\ m_queryCount' = m_queryCount /\ m_head' = m_head
      /\ scopes' = scopes /\ open' = open /\ sending' = sending /\ queue' = queue /\ stamps' = stamps
      /\ m_refTimeGpu' = m_refTimeGpu /\ reported' = reported
  BY <1>1 DEF fixed, app, wire
<1>3. /\ c \in Cmd /\ c.op = "reset" /\ c.first + c.cnt <= m_queryCount
      /\ m_tail' \in m_tail .. m_head /\ Live' \subseteq Live
      /\ \A m \in Live' : Slot(m) \notin Covers(c)
      /\ \A q \in Covers(c) : pool[q] # NotReady
      /\ \A d \in Good : Apart(c, d)
  BY Collected
<1>4. (\A m : Slot(m)' = Slot(m)) /\ Unclosed' = Unclosed /\ QueryIds' = QueryIds
  BY <1>2 DEF Slot, Unclosed, QueryIds
<1>5. /\ idx \in Nat /\ Len(m_res) \in Nat /\ idx <= Len(m_res) /\ Len(m_res) <= m_queryCount - WrappedTail
      /\ Len(m_res) <= m_head - m_tail /\ m_tail \in Nat /\ m_head \in Nat /\ m_queryCount \in Nat
      /\ WrappedTail \in Nat /\ WrappedTail < m_queryCount /\ Cardinality(Unclosed) \in Nat
  <2>1. Types /\ Batches
    BY DEF RingInv
  <2>2. WrappedTail \in Nat /\ WrappedTail < m_queryCount /\ Cardinality(Unclosed) \in Nat
    BY <2>1, BatchSlots, UnclosedFinite
  <2>3. /\ idx \in Nat /\ m_res \in Seq(Nat) /\ m_tail \in Nat /\ m_head \in Nat
        /\ m_queryCount \in Nat
    BY <2>1 DEF Types
  <2>4. Len(m_res) \in Nat
    BY <2>3
  <2>5. /\ idx <= Len(m_res) /\ Len(m_res) <= m_queryCount - WrappedTail
        /\ Len(m_res) <= m_head - m_tail
    BY <2>1 DEF Batches
  <2> QED
    BY <2>2, <2>3, <2>4, <2>5
<1>6. /\ pool' \in [QueryIds' -> Nat] /\ Window' /\ Pooled'
      /\ Commands' /\ cmdbuf' \in [Threads -> Seq(Cmd)]
  <2>1. CASE pool' = [q \in QueryIds |-> IF q \in Covers(c) THEN NotReady ELSE pool[q]] /\ UNCHANGED cmdbuf
    <3> HIDE DEF c
    <3>1. /\ pool' \in [QueryIds' -> Nat] /\ Window' /\ Pooled' /\ \A d \in Good : Apart(c, d) => d \in Good'
      BY <1>2, <1>3, <2>1, ResetPool
    <3>2. Good \subseteq Good'
      BY <1>3, <3>1
    <3> QED
      BY <1>2, <2>1, <3>1, <3>2, StillGood DEF RingInv, Types
  <2>2. CASE UNCHANGED pool
    <3>1. pool' \in [QueryIds' -> Nat] /\ Window' /\ Pooled'
      <4>1. m_head' + Cardinality(Unclosed') <= m_tail' + m_queryCount' /\ m_tail' <= m_head'
        BY <1>1, <1>2, <1>4, <1>5 DEF RingInv, Window
      <4> QED
        BY <1>2, <1>3, <1>4, <2>2, <4>1 DEF RingInv, Types, Window, Pooled
    <3>2. Good \subseteq Good'
      BY <1>2, <1>3, <1>4, <2>2 DEF Good, GoodWrites, GoodResets
    <3>3. c \in Good'
      <4> HIDE DEF c
      <4>1. \A d \in Cmd : /\ d.op = "reset" /\ d.first + d.cnt <= m_queryCount
                           /\ \A m \in Live' : Slot(m) \notin Covers(d)
                           /\ \A q \in Covers(d) : pool[q] # NotReady
                           => d \in GoodResets'
        BY <1>2, <1>4, <2>2 DEF GoodResets, Covers
      <4> QED
        BY <1>3, <4>1 DEF Good
    <3>4. CASE UNCHANGED cmdbuf
      BY <1>2, <3>1, <3>2, <3>4, StillGood DEF RingInv, Types
    <3>5. CASE cmdbuf' = [cmdbuf EXCEPT ![Collector] = Append(@, c)]
      <4> HIDE DEF c
      <4>1. Commands' /\ cmdbuf' \in [Threads -> Seq(Cmd)]
        BY <1>2, <1>3, <3>2, <3>3, <3>5, RingAssumption, Recording DEF RingInv
      <4> QED
        BY <3>1, <4>1
    <3> QED
      BY <1>1, <2>2, <3>4, <3>5
  <2> QED
    BY <1>1, <2>1, <2>2
<1>7. Batches'
  <2>1. WrappedTail' = IF idx < m_queryCount - WrappedTail THEN WrappedTail + idx ELSE 0
    <3>1. idx \in 0 .. m_queryCount - WrappedTail /\ WrappedTail' = (m_tail + idx) % m_queryCount
      BY <1>1, <1>2, <1>5 DEF WrappedTail
    <3> QED
      BY <3>1, BatchSlots DEF RingInv
  <2>2. Len(m_res') = 0 /\ DOMAIN m_res' = {}
    BY <1>1
  <2>3. m_oldCnt' <= m_queryCount' - WrappedTail' /\ m_oldCnt' <= m_head' - m_tail'
        /\ 0 <= m_queryCount' - WrappedTail' /\ 0 <= m_head' - m_tail'
    BY <1>1, <1>2, <1>5, <2>1
  <2> QED
    BY <1>1, <2>2, <2>3 DEF Batches
<1>8. ReportsTrue'
  <2>1. m_tail' + idx' = m_tail + idx
    BY <1>1, <1>5
  <2> QED
    BY <1>2, <2>1 DEF RingInv, ReportsTrue
<1>9. Types' /\ Scoped'
  <2>1. m_tail' \in Nat /\ m_oldCnt' \in Nat /\ idx' \in Nat /\ m_res' \in Seq(Nat)
    BY <1>1, <1>5
  <2> QED
    BY <1>1, <1>2, <1>6, <2>1 DEF RingInv, Types, Scoped
<1> QED
  BY <1>6, <1>7, <1>8, <1>9 DEF RingInv

-----------------------------------------------------------------------------
(* Every step keeps the ring.                                              *)
LEMMA StepRing == RingInv /\ [Next]_vars => RingInv'
<1> SUFFICES ASSUME RingInv, [Next]_vars PROVE RingInv'
  OBVIOUS
<1>1. ASSUME NEW t \in Threads, OpenScope(t) PROVE RingInv'
  BY <1>1, OpenScopeRing
<1>2. ASSUME NEW t \in Threads, CloseScope(t) PROVE RingInv'
  BY <1>2, CloseScopeRing
<1>3. ASSUME NEW t \in Threads, SendBegin(t) \/ SendEnd(t) PROVE RingInv'
  BY <1>3, SendRing
<1>4. ASSUME NEW t \in Threads, Submit(t) PROVE RingInv'
  BY <1>4, SubmitRing
<1>5. CASE GpuExecute
  BY <1>5, WriteRing, ResetRing
<1>6. CASE Collect
  BY <1>6, BeginRing, ResultsRing, ReportRing, EndRing DEF Collect
<1>7. CASE UNCHANGED vars
  BY <1>7, StutterRing
<1> QED
  BY <1>1, <1>2, <1>3, <1>4, <1>5, <1>6, <1>7 DEF Next, Scope

(* In every reachable state the ring is sound.                             *)
LEMMA RingInvariant == Spec => []RingInv
  BY InitRing, StepRing, PTL DEF Spec

(* The types, and that a collected batch lies within the pool and the      *)
(* ring is never over-full, in every reachable state.                      *)
THEOREM RingTypeCorrect == Spec => []TypeOK
<1>1. RingInv => TypeOK
  <2> SUFFICES ASSUME RingInv PROVE TypeOK
    OBVIOUS
  <2>1. /\ m_head = Len(stamps) /\ m_tail \in 0 .. m_head /\ m_head <= m_tail + m_queryCount
        /\ m_head \in Nat /\ m_tail \in Nat
    BY UnclosedFinite DEF RingInv, Types, Window
  <2>2. Len(m_res) \in Nat /\ m_oldCnt \in Nat /\ idx \in Nat /\ WrappedTail \in Nat /\ m_queryCount \in Nat
    BY BatchSlots DEF RingInv, Types
  <2>3. \A q \in QueryIds : pool[q] \in Nat
    BY DEF RingInv, Types
  <2> QED
    BY <2>1, <2>2, <2>3 DEF RingInv, Types, Batches, ReportsTrue, TypeOK
<1> QED
  BY <1>1, RingInvariant, PTL

(* A step of the ring is a step of the abstract queue of timestamps, or    *)
(* none: zones hand out, the GPU writes, and Collect reports one at a time.*)
LEMMA QueueStep ==
    ASSUME RingInv, [Next]_vars
    PROVE  [Timestamps!Next]_(Timestamps!vars)
<1>1. ASSUME NEW t \in Threads, OpenScope(t) \/ CloseScope(t)
      PROVE  Timestamps!HandOut
  BY <1>1 DEF OpenScope, CloseScope, HandOut, wire, Timestamps!HandOut
<1>2. ASSUME NEW t \in Threads, SendBegin(t) \/ SendEnd(t) \/ Submit(t)
      PROVE  UNCHANGED <<stamps, reported>>
  BY <1>2 DEF SendBegin, SendEnd, Submit, wire
<1>3. ASSUME GpuExecute, Head(queue).op = "write"
      PROVE  \E n \in DOMAIN stamps : Timestamps!Write(n)
  <2> DEFINE n == Head(queue).number
  <2>1. /\ n \in m_tail + idx + 1 .. m_head /\ stamps[n] = NotReady
        /\ stamps' = [stamps EXCEPT ![n] = stamps'[n]] /\ stamps'[n] # NotReady /\ reported' = reported
    BY <1>3, WriteRing DEF wire
  <2>2. n \in DOMAIN stamps
    BY <2>1 DEF RingInv, Types, Window
  <2> HIDE DEF n
  <2> QED
    BY <2>1, <2>2 DEF Timestamps!Write
<1>4. ASSUME GpuExecute, Head(queue).op # "write"
      PROVE  UNCHANGED <<stamps, reported>>
  BY <1>4 DEF GpuExecute, wire
<1>5. ASSUME CollectReport
      PROVE  1 \in 1 .. Len(stamps) - Len(reported) /\ Timestamps!Report(1)
  <2> DEFINE n == m_tail + idx + 1
             upTo == SubSeq(stamps, 1, n)
  <2>1. /\ RingInv' /\ n <= m_head /\ stamps[n] # NotReady /\ stamps' = stamps
        /\ Len(reported) + 1 = n /\ m_head = Len(stamps) /\ stamps \in Seq(Nat) /\ n \in Nat /\ n > 0
    <3>1. RingInv' /\ n <= m_head /\ stamps[n] # NotReady /\ stamps' = stamps
      BY <1>5, ReportRing DEF CollectReport
    <3>2. /\ Len(reported) = m_tail + idx /\ m_head = Len(stamps) /\ stamps \in Seq(Nat)
          /\ m_tail \in Nat /\ idx \in Nat
      BY DEF RingInv, Types, Window, ReportsTrue
    <3> QED
      BY <3>1, <3>2
  <2>2. /\ reported' \in Seq(Nat) /\ Len(reported') = n
        /\ \A m \in 1 .. n : reported'[m] = stamps[m]
    <3>1. m_tail' + idx' = n
      BY <1>5 DEF CollectReport, ring, RingInv, Types
    <3> HIDE DEF n
    <3> QED
      BY <2>1, <3>1 DEF RingInv, Types, ReportsTrue
  <2> HIDE DEF n
  <2>3. 1 \in 1 .. Len(stamps) + 1 /\ n \in 0 .. Len(stamps)
    BY <2>1
  <2>4. upTo \in Seq(Nat) /\ Len(upTo) = n /\ \A m \in 1 .. n : upTo[m] = stamps[m]
    <3>1. /\ upTo \in Seq(Nat) /\ Len(upTo) = IF 1 <= n THEN n - 1 + 1 ELSE 0
          /\ \A m \in 1 .. (n - 1 + 1) : upTo[m] = stamps[1 + m - 1]
      BY <2>1, <2>3, SubSeqProperties
    <3> QED
      BY <2>1, <3>1
  <2> HIDE DEF upTo
  <2>5. reported' = upTo
    BY <2>2, <2>4, SeqEqual
  <2>6. \A i \in Len(reported) + 1 .. n : stamps[i] # NotReady
    <3>1. \A i \in Len(reported) + 1 .. n : i = n
      BY <2>1
    <3> QED
      BY <2>1, <3>1
  <2> QED
    BY <2>1, <2>3, <2>5, <2>6 DEF upTo, Timestamps!Report
<1>6. ASSUME CollectBegin \/ CollectResults \/ CollectEnd
      PROVE  UNCHANGED <<stamps, reported>>
  BY <1>6 DEF CollectBegin, CollectResults, CollectEnd, wire, vars
<1>7. ASSUME UNCHANGED vars
      PROVE  UNCHANGED <<stamps, reported>>
  BY <1>7 DEF vars, wire
<1>8. CASE Timestamps!HandOut
  BY <1>8 DEF Timestamps!Next
<1>9. CASE \E n \in DOMAIN stamps : Timestamps!Write(n)
  BY <1>9 DEF Timestamps!Next
<1>10. CASE CollectReport
  BY <1>5, <1>10 DEF Timestamps!Next
<1>11. CASE UNCHANGED <<stamps, reported>>
  BY <1>11 DEF Timestamps!vars
<1> QED
  BY <1>1, <1>2, <1>3, <1>4, <1>6, <1>7, <1>8, <1>9, <1>10, <1>11 DEF Next, Scope, Collect

(* The ring with its wrap-around, batches and retries implements the       *)
(* abstract queue: each timestamp is reported once, in order, as written.  *)
THEOREM RingIsQueue == Spec => ImplementsTimestampQueue
<1>1. Init => Timestamps!Init
  BY DEF Init, Timestamps!Init
<1>2. RingInv /\ [Next]_vars => [Timestamps!Next]_(Timestamps!vars)
  BY QueueStep
<1> QED
  BY <1>1, <1>2, RingInvariant, PTL DEF Spec, ImplementsTimestampQueue, Timestamps!Spec

-----------------------------------------------------------------------------
(* The server's handlers, field by field.                                  *)
LEMMA ServerFields ==
    ASSUME ServerTypes
    PROVE  /\ server.query \in [QueryIds -> Nat] /\ server.stack \in [Threads -> Seq(Nat)]
           /\ server.zones \in Seq(ZoneRecord) /\ server.refTime \in Int /\ server.fault \in BOOLEAN
           /\ Len(server.zones) \in Nat /\ DOMAIN server.zones = 1 .. Len(server.zones)
           /\ \A t \in Threads : /\ server.stack[t] \in Seq(Nat) /\ Len(server.stack[t]) \in Nat
                                  /\ DOMAIN server.stack[t] = 1 .. Len(server.stack[t])
BY DEF ServerTypes

(* A begin event adds a zone, puts it on its thread's stack and has it     *)
(* wait for its query; it is accepted when no other zone waits for that.   *)
LEMMA ZoneBegins ==
    ASSUME ServerTypes, NEW t \in Threads, NEW z \in Nat, NEW q \in QueryIds, m_queryCount' = m_queryCount,
           server' = ProcessGpuZoneBegin(server, [thread |-> t, of |-> z, queryId |-> q])
    PROVE  LET k     == Len(server.zones) + 1
               stack == server.stack[t]
           IN  /\ ServerTypes' /\ server'.refTime = server.refTime
               /\ ~server.fault /\ server.query[q] = None => ~server'.fault
               /\ DOMAIN server'.zones = 1 .. k
               /\ \A l \in DOMAIN server.zones : server'.zones[l] = server.zones[l]
               /\ server'.zones[k] = [of |-> z, parent |-> IF stack = <<>> THEN None ELSE Last(stack),
                                      start |-> Untimed, end |-> Untimed]
               /\ \A u \in Threads : u # t => server'.stack[u] = server.stack[u]
               /\ DOMAIN server'.stack[t] = 1 .. Len(stack) + 1 /\ Len(server'.stack[t]) = Len(stack) + 1
               /\ server'.stack[t][Len(stack) + 1] = k
               /\ \A a \in DOMAIN stack : server'.stack[t][a] = stack[a]
               /\ server'.query[q] = k /\ \A p \in QueryIds : p # q => server'.query[p] = server.query[p]
<1> DEFINE k == Len(server.zones) + 1
           stack == server.stack[t]
           rec == [of |-> z, parent |-> IF stack = <<>> THEN None ELSE Last(stack),
                   start |-> Untimed, end |-> Untimed]
<1>1. server' = [server EXCEPT !.zones = Append(@, rec), !.stack[t] = Append(@, k), !.query[q] = k,
                               !.fault = @ \/ server.query[q] # None]
  BY DEF ProcessGpuZoneBegin
<1>2. /\ server.query \in [QueryIds -> Nat] /\ server.stack \in [Threads -> Seq(Nat)]
      /\ server.zones \in Seq(ZoneRecord) /\ server.refTime \in Int /\ stack \in Seq(Nat) /\ k \in Nat
      /\ Len(stack) \in Nat /\ DOMAIN stack = 1 .. Len(stack)
      /\ Len(server.zones) \in Nat /\ DOMAIN server.zones = 1 .. Len(server.zones)
  BY ServerFields
<1>3. rec \in ZoneRecord
  <2>1. rec.parent \in Nat
    BY <1>2, FrontLast DEF None
  <2> QED
    BY <2>1 DEF ZoneRecord, Untimed
<1> HIDE DEF rec, k
<1>4. /\ server'.zones = Append(server.zones, rec) /\ server'.refTime = server.refTime
      /\ server'.stack = [server.stack EXCEPT ![t] = Append(stack, k)]
      /\ server'.query = [server.query EXCEPT ![q] = k]
      /\ server'.fault = (server.fault \/ server.query[q] # None)
  BY <1>1 DEF ServerTypes
<1>5. /\ server'.zones \in Seq(ZoneRecord) /\ DOMAIN server'.zones = 1 .. k /\ server'.zones[k] = rec
      /\ \A l \in DOMAIN server.zones : server'.zones[l] = server.zones[l]
  <2> DEFINE zones == server.zones
  <2>1. zones \in Seq(ZoneRecord) /\ server'.zones = Append(zones, rec) /\ k = Len(zones) + 1
    BY <1>2, <1>4 DEF k
  <2> HIDE DEF zones
  <2>2. LET more == Append(zones, rec)
        IN  /\ more \in Seq(ZoneRecord) /\ DOMAIN more = 1 .. Len(zones) + 1
            /\ more[Len(zones) + 1] = rec /\ DOMAIN zones = 1 .. Len(zones)
            /\ \A l \in 1 .. Len(zones) : more[l] = zones[l]
    BY <1>3, <2>1, Appended
  <2>3. /\ server'.zones \in Seq(ZoneRecord) /\ DOMAIN server'.zones = 1 .. k /\ server'.zones[k] = rec
        /\ \A l \in DOMAIN zones : server'.zones[l] = zones[l]
    BY <2>1, <2>2
  <2> QED
    BY <2>3 DEF zones
<1>6. /\ Append(stack, k) \in Seq(Nat) /\ Len(Append(stack, k)) = Len(stack) + 1
      /\ DOMAIN Append(stack, k) = 1 .. Len(stack) + 1 /\ Append(stack, k)[Len(stack) + 1] = k
      /\ \A a \in DOMAIN stack : Append(stack, k)[a] = stack[a]
  BY <1>2, Appended
<1>7. /\ server'.stack \in [Threads -> Seq(Nat)] /\ server'.stack[t] = Append(stack, k)
      /\ \A u \in Threads : u # t => server'.stack[u] = server.stack[u]
  BY <1>2, <1>4, <1>6
<1>8. /\ server'.query \in [QueryIds -> Nat] /\ server'.query[q] = k
      /\ \A p \in QueryIds : p # q => server'.query[p] = server.query[p]
  BY <1>2, <1>4
<1>9. server'.fault \in BOOLEAN /\ (~server.fault /\ server.query[q] = None => ~server'.fault)
  BY <1>4
<1>10. ServerTypes'
  <2>1. QueryIds' = QueryIds
    BY DEF QueryIds
  <2>2. server' = [query |-> server'.query, stack |-> server'.stack, zones |-> server'.zones,
                   refTime |-> server'.refTime, fault |-> server'.fault]
    BY <1>1 DEF ServerTypes
  <2> QED
    BY <1>2, <1>4, <1>5, <1>7, <1>8, <1>9, <2>1, <2>2 DEF ServerTypes
<1> QED
  BY <1>4, <1>5, <1>6, <1>7, <1>8, <1>9, <1>10 DEF k, rec

(* An end event takes the innermost zone off its thread's stack and has it *)
(* wait for the query.                                                     *)
LEMMA ZoneEnds ==
    ASSUME ServerTypes, NEW t \in Threads, NEW q \in QueryIds, m_queryCount' = m_queryCount,
           server' = ProcessGpuZoneEnd(server, [thread |-> t, queryId |-> q]),
           server.stack[t] # <<>>, server.query[q] = None
    PROVE  LET stack == server.stack[t]
           IN  /\ ServerTypes' /\ server'.refTime = server.refTime /\ server'.fault = server.fault
               /\ server'.zones = server.zones
               /\ \A u \in Threads : u # t => server'.stack[u] = server.stack[u]
               /\ Len(server'.stack[t]) = Len(stack) - 1 /\ DOMAIN server'.stack[t] = 1 .. Len(stack) - 1
               /\ \A a \in 1 .. Len(stack) - 1 : server'.stack[t][a] = stack[a]
               /\ server'.query[q] = stack[Len(stack)]
               /\ \A p \in QueryIds : p # q => server'.query[p] = server.query[p]
<1> DEFINE stack == server.stack[t]
           ft == Front(stack)
           k == Last(stack)
<1>1. server' = [server EXCEPT !.stack[t] = ft, !.query[q] = k]
  BY DEF ProcessGpuZoneEnd
<1>2. /\ server.query \in [QueryIds -> Nat] /\ server.stack \in [Threads -> Seq(Nat)] /\ stack \in Seq(Nat)
      /\ server.zones \in Seq(ZoneRecord) /\ server.refTime \in Int /\ server.fault \in BOOLEAN
  BY ServerFields
<1>3. /\ ft \in Seq(Nat) /\ Len(ft) = Len(stack) - 1 /\ DOMAIN ft = 1 .. Len(stack) - 1
      /\ k = stack[Len(stack)] /\ k \in Nat /\ \A a \in 1 .. Len(stack) - 1 : ft[a] = stack[a]
  BY <1>2, FrontLast
<1> HIDE DEF ft, k
<1>4. /\ server'.zones = server.zones /\ server'.refTime = server.refTime /\ server'.fault = server.fault
      /\ server'.stack = [server.stack EXCEPT ![t] = ft]
      /\ server'.query = [server.query EXCEPT ![q] = k]
  BY <1>1 DEF ServerTypes
<1>5. /\ server'.stack \in [Threads -> Seq(Nat)] /\ server'.stack[t] = ft
      /\ \A u \in Threads : u # t => server'.stack[u] = server.stack[u]
  BY <1>2, <1>3, <1>4
<1>6. /\ server'.query \in [QueryIds -> Nat] /\ server'.query[q] = k
      /\ \A p \in QueryIds : p # q => server'.query[p] = server.query[p]
  BY <1>2, <1>3, <1>4
<1>7. ServerTypes'
  <2>1. QueryIds' = QueryIds
    BY DEF QueryIds
  <2>2. server' = [query |-> server'.query, stack |-> server'.stack, zones |-> server'.zones,
                   refTime |-> server'.refTime, fault |-> server'.fault]
    BY <1>1 DEF ServerTypes
  <2> QED
    BY <1>2, <1>4, <1>5, <1>6, <2>1, <2>2 DEF ServerTypes
<1> QED
  BY <1>3, <1>4, <1>5, <1>6, <1>7

(* A time event sets the start, or else the end, of the zone that waits    *)
(* for the query; the time is the sum of the differences sent.             *)
LEMMA ZoneTimed ==
    ASSUME ServerTypes, NEW q \in QueryIds, NEW delta \in Int, m_queryCount' = m_queryCount,
           server' = ProcessGpuTime(server, [queryId |-> q, delta |-> delta]),
           server.query[q] \in DOMAIN server.zones
    PROVE  LET k    == server.query[q]
               time == server.refTime + delta
           IN  /\ ServerTypes' /\ server'.refTime = time /\ server'.fault = server.fault
               /\ server'.stack = server.stack /\ server'.query[q] = None
               /\ \A p \in QueryIds : p # q => server'.query[p] = server.query[p]
               /\ DOMAIN server'.zones = DOMAIN server.zones
               /\ \A l \in DOMAIN server.zones : l # k => server'.zones[l] = server.zones[l]
               /\ server'.zones[k].of = server.zones[k].of /\ server'.zones[k].parent = server.zones[k].parent
               /\ server'.zones[k].start =
                     IF server.zones[k].start = Untimed THEN time ELSE server.zones[k].start
               /\ server'.zones[k].end =
                     IF server.zones[k].start = Untimed THEN server.zones[k].end ELSE time
<1> DEFINE k == server.query[q]
           time == server.refTime + delta
           old == server.zones[k]
           rec == IF old.start = Untimed THEN [old EXCEPT !.start = time] ELSE [old EXCEPT !.end = time]
<1>1. /\ server.query \in [QueryIds -> Nat] /\ server.stack \in [Threads -> Seq(Nat)]
      /\ server.zones \in Seq(ZoneRecord) /\ server.refTime \in Int /\ server.fault \in BOOLEAN
      /\ DOMAIN server.zones = 1 .. Len(server.zones) /\ Len(server.zones) \in Nat
  BY ServerFields
<1>2. k # None /\ old \in ZoneRecord /\ time \in Int
  BY <1>1 DEF None
<1>3. server' = [server EXCEPT !.refTime = time, !.query[q] = None, !.zones[k] = rec]
  BY <1>2 DEF ProcessGpuTime
<1> HIDE DEF time, old, k
<1>4. /\ rec \in ZoneRecord /\ rec.of = old.of /\ rec.parent = old.parent
      /\ rec.start = IF old.start = Untimed THEN time ELSE old.start
      /\ rec.end = IF old.start = Untimed THEN old.end ELSE time
  BY <1>2 DEF ZoneRecord
<1> HIDE DEF rec
<1>5. /\ server'.refTime = time /\ server'.stack = server.stack /\ server'.fault = server.fault
      /\ server'.query = [server.query EXCEPT ![q] = None]
      /\ server'.zones = [server.zones EXCEPT ![k] = rec]
  BY <1>3 DEF ServerTypes
<1>6. /\ server'.zones \in Seq(ZoneRecord) /\ DOMAIN server'.zones = DOMAIN server.zones
      /\ server'.zones[k] = rec /\ \A l \in DOMAIN server.zones : l # k => server'.zones[l] = server.zones[l]
  <2> DEFINE zones == server.zones
  <2>1. /\ zones \in Seq(ZoneRecord) /\ DOMAIN zones = 1 .. Len(zones) /\ k \in 1 .. Len(zones)
        /\ server'.zones = [zones EXCEPT ![k] = rec] /\ rec \in ZoneRecord
    BY <1>1, <1>4, <1>5 DEF k
  <2> HIDE DEF zones
  <2>2. /\ server'.zones \in Seq(ZoneRecord) /\ DOMAIN server'.zones = DOMAIN zones
        /\ server'.zones[k] = rec /\ \A l \in DOMAIN zones : l # k => server'.zones[l] = zones[l]
    <3> DEFINE new == [zones EXCEPT ![k] = rec]
    <3>1. /\ new \in Seq(ZoneRecord) /\ Len(new) = Len(zones)
          /\ \A l \in 1 .. Len(zones) : new[l] = IF l = k THEN rec ELSE zones[l]
      BY <2>1, ExceptSeq
    <3>2. DOMAIN new = DOMAIN zones
      OBVIOUS
    <3> HIDE DEF new
    <3> QED
      BY <2>1, <3>1, <3>2 DEF new
  <2> QED
    BY <2>2 DEF zones
<1>7. /\ server'.query \in [QueryIds -> Nat] /\ server'.query[q] = None
      /\ \A p \in QueryIds : p # q => server'.query[p] = server.query[p]
  <2> DEFINE query == server.query
  <2>1. None \in Nat /\ query \in [QueryIds -> Nat] /\ server'.query = [query EXCEPT ![q] = None]
    BY <1>1, <1>5 DEF None
  <2> HIDE DEF query
  <2>2. /\ server'.query \in [QueryIds -> Nat] /\ server'.query[q] = None
        /\ \A p \in QueryIds : p # q => server'.query[p] = query[p]
    BY <2>1
  <2> QED
    BY <2>2 DEF query
<1>8. ServerTypes'
  <2>1. QueryIds' = QueryIds
    BY DEF QueryIds
  <2>2. server' = [query |-> server'.query, stack |-> server'.stack, zones |-> server'.zones,
                   refTime |-> server'.refTime, fault |-> server'.fault]
    BY <1>3 DEF ServerTypes
  <2> QED
    BY <1>1, <1>2, <1>5, <1>6, <1>7, <2>1, <2>2 DEF ServerTypes
<1> QED
  BY <1>4, <1>5, <1>6, <1>7, <1>8 DEF time, old, k

-----------------------------------------------------------------------------
(* The records of the scopes.                                              *)
LEMMA ScopeTypes ==
    ASSUME RingInv
    PROVE  \A z \in DOMAIN scopes :
                scopes[z] \in ScopeRecord /\ scopes[z].beginQuery \in Nat /\ scopes[z].endQuery \in Nat
<1>1. scopes \in Seq(ScopeRecord) /\ DOMAIN scopes = 1 .. Len(scopes)
  BY DEF RingInv, Types
<1>2. \A z \in DOMAIN scopes : scopes[z] \in ScopeRecord
  BY <1>1, ElementOfSeq
<1> QED
  BY <1>2 DEF ScopeRecord

(* What is handed out and not yet queued as an event.                      *)
LEMMA UnsentIs ==
    ASSUME NEW n \in Nat, n > 0
    PROVE  n \in Unsent <=> \E t \in Threads : sending[t] # "no" /\ UnsentOf(t) = n
BY DEF Unsent, UnsentOf

(* It belongs to the innermost scope of its thread, and the GPU has not    *)
(* come to it.                                                             *)
LEMMA UnsentFacts ==
    ASSUME RingInv, ServerInv, NEW t \in Threads, sending[t] # "no"
    PROVE  LET n == UnsentOf(t)
               z == Last(open[t])
           IN  /\ n \in m_tail + idx + 1 .. m_head /\ n \in Nat /\ n > 0 /\ stamps[n] = NotReady
               /\ n \in Unsent /\ z \in DOMAIN scopes /\ Owns(z, n) /\ scopes[z].thread = t
               /\ sending[t] = "begin" => n = scopes[z].beginQuery /\ scopes[z].endQuery = 0
               /\ sending[t] = "end" => n = scopes[z].endQuery
<1> DEFINE n == UnsentOf(t)
           z == Last(open[t])
<1>1. sending[t] \in {"begin", "end"} /\ open[t] # <<>>
  BY DEF RingInv, Types, Scoped
<1>2. /\ z \in DOMAIN scopes /\ scopes[z].thread = t /\ scopes[z] \in ScopeRecord
      /\ scopes[z].endQuery = 0 <=> sending[t] # "end"
  BY <1>1, Innermost
<1>3. /\ sending[t] = "begin" => n = scopes[z].beginQuery
      /\ sending[t] = "end" => n = scopes[z].endQuery
      /\ Owns(z, n) /\ n \in Unsent
  BY <1>1 DEF UnsentOf, Unsent, Owns
<1>4. stamps[n] = NotReady
  BY DEF ServerInv, SentFirst
<1>5. /\ scopes[z].beginQuery \in 1 .. m_head
      /\ scopes[z].endQuery # 0 => scopes[z].endQuery \in scopes[z].beginQuery + 1 .. m_head
      /\ m_head \in Nat /\ m_tail \in Nat /\ idx \in Nat
  BY <1>2 DEF ServerInv, Numbered, RingInv, Types
<1> HIDE DEF n, z
<1>6. n \in 1 .. m_head
  BY <1>1, <1>2, <1>3, <1>5
<1>7. n \notin 1 .. m_tail + idx
  BY <1>4 DEF RingInv, ReportsTrue
<1>8. n \in m_tail + idx + 1 .. m_head /\ n \in Nat /\ n > 0
  BY <1>5, <1>6, <1>7
<1> QED
  BY <1>2, <1>3, <1>4, <1>8 DEF n, z

(* No two threads have the same number still to say.                       *)
LEMMA UnsentApart ==
    ASSUME RingInv, ServerInv, NEW t \in Threads, NEW u \in Threads,
           sending[t] # "no", sending[u] # "no", UnsentOf(t) = UnsentOf(u)
    PROVE  t = u
<1>1. /\ UnsentOf(t) \in 1 .. m_head
      /\ Last(open[t]) \in DOMAIN scopes /\ Owns(Last(open[t]), UnsentOf(t)) /\ scopes[Last(open[t])].thread = t
      /\ Last(open[u]) \in DOMAIN scopes /\ Owns(Last(open[u]), UnsentOf(u)) /\ scopes[Last(open[u])].thread = u
  <2>1. UnsentOf(t) \in m_tail + idx + 1 .. m_head /\ m_tail \in Nat /\ idx \in Nat /\ m_head \in Nat
    BY UnsentFacts DEF RingInv, Types
  <2>2. UnsentOf(t) \in 1 .. m_head
    BY <2>1
  <2> QED
    BY <2>2, UnsentFacts
<1>2. Last(open[t]) = Last(open[u])
  BY <1>1 DEF ServerInv, Numbered
<1> QED
  BY <1>1, <1>2

(* The server of a new context.                                            *)
LEMMA InitServer == Init => ServerInv
<1> SUFFICES ASSUME Init PROVE ServerInv
  OBVIOUS
<1>1. /\ scopes = <<>> /\ m_head = 0 /\ m_tail = 0 /\ idx = 0 /\ stamps = <<>> /\ queue = <<>>
      /\ open = [t \in Threads |-> <<>>] /\ sending = [t \in Threads |-> "no"]
      /\ cmdbuf = [t \in Threads |-> <<>>] /\ m_refTimeGpu = 0
      /\ server = [query |-> [q \in QueryIds |-> None], stack |-> [t \in Threads |-> <<>>],
                   zones |-> <<>>, refTime |-> 0, fault |-> FALSE]
  BY DEF Init, NewContext
<1>2. Numbered /\ SentFirst
  BY <1>1 DEF Numbered, SentFirst
<1>3. ServerTypes
  BY <1>1 DEF ServerTypes, None
<1>4. Stacks /\ Zones /\ Parents /\ Times
  BY <1>1 DEF Stacks, Zones, Parents, Times
<1>5. Waits
  <2>1. \A q \in QueryIds : server.query[q] = None
    BY <1>1
  <2>2. m_tail + idx + 1 .. m_head = {}
    BY <1>1
  <2> QED
    BY <2>1, <2>2 DEF Waits
<1> QED
  BY <1>1, <1>2, <1>3, <1>4, <1>5 DEF ServerInv, ServerAccepts

(* A step that neither hands out a query nor queues an event: the GPU may  *)
(* write stamps that were not reported, commands may be moved or executed. *)
LEMMA ServerWaits ==
    ASSUME RingInv, ServerInv, UNCHANGED <<m_queryCount, m_head, scopes, open, sending, server, m_refTimeGpu>>,
           m_tail' + idx' = m_tail + idx, \A n \in 1 .. m_tail + idx : stamps'[n] = stamps[n], SentFirst'
    PROVE  ServerInv'
<1>1. /\ \A n : Slot(n)' = Slot(n)
      /\ \A n : Reported(n)' = Reported(n)
      /\ \A z, n : Owns(z, n)' = Owns(z, n)
      /\ Unsent' = Unsent /\ QueryIds' = QueryIds
  BY DEF Slot, Reported, Owns, Unsent, UnsentOf, QueryIds
<1>2. Numbered' /\ ServerTypes' /\ Stacks' /\ Zones' /\ Parents' /\ Waits'
  <2>1. Numbered'
    BY <1>1 DEF ServerInv, Numbered
  <2>2. ServerTypes' /\ Stacks' /\ Parents'
    BY <1>1 DEF ServerInv, ServerTypes, Stacks, Parents
  <2>3. Zones'
    BY <1>1 DEF ServerInv, Zones
  <2>4. Waits'
    <3>1. m_tail' + idx' + 1 .. m_head' = m_tail + idx + 1 .. m_head
      OBVIOUS
    <3> QED
      BY <1>1, <3>1 DEF ServerInv, Waits
  <2> QED
    BY <2>1, <2>2, <2>3, <2>4
<1>3. Times'
  <2>1. \A z \in DOMAIN scopes : scopes[z].beginQuery \in Nat /\ scopes[z].endQuery \in Nat
    BY ScopeTypes
  <2>2. \A n \in Nat : Reported(n) => stamps'[n] = stamps[n]
    BY DEF Reported, RingInv, Types
  <2>3. \A k \in DOMAIN server.zones : server.zones[k].of \in DOMAIN scopes
    BY DEF ServerInv, Zones
  <2> QED
    BY <1>1, <2>1, <2>2, <2>3 DEF ServerInv, Times
<1> QED
  BY <1>2, <1>3 DEF ServerInv, ServerAccepts

(* Submitting moves commands; a thread submits when it has nothing to say. *)
LEMMA SubmitServer ==
    ASSUME RingInv, ServerInv, NEW t \in Threads, Submit(t)
    PROVE  ServerInv'
<1>1. /\ UNCHANGED <<m_queryCount, m_head, m_tail, idx, scopes, open, sending, server, m_refTimeGpu, stamps>>
      /\ queue' = queue \o cmdbuf[t] /\ cmdbuf' = [cmdbuf EXCEPT ![t] = <<>>] /\ sending[t] = "no"
  BY DEF Submit, fixed, ring, col, app, wire
<1>2. /\ \A u \in Threads : \A a \in DOMAIN cmdbuf'[u] : u # t /\ cmdbuf'[u] = cmdbuf[u]
      /\ \A a \in DOMAIN queue' : \/ a \in DOMAIN queue /\ queue'[a] = queue[a]
                                 \/ \E b \in DOMAIN cmdbuf[t] : queue'[a] = cmdbuf[t][b]
  <2>1. /\ queue \in Seq(Cmd) /\ cmdbuf[t] \in Seq(Cmd) /\ cmdbuf \in [Threads -> Seq(Cmd)]
        /\ Len(queue) \in Nat /\ Len(cmdbuf[t]) \in Nat
        /\ DOMAIN queue = 1 .. Len(queue) /\ DOMAIN cmdbuf[t] = 1 .. Len(cmdbuf[t])
    BY DEF RingInv, Types
  <2>2. /\ DOMAIN queue' = 1 .. Len(queue) + Len(cmdbuf[t])
        /\ \A a \in 1 .. Len(queue) : queue'[a] = queue[a]
        /\ \A a \in Len(queue) + 1 .. Len(queue) + Len(cmdbuf[t]) : queue'[a] = cmdbuf[t][a - Len(queue)]
    BY <1>1, <2>1
  <2>3. \A a \in DOMAIN queue' : a \in 1 .. Len(queue) \/ a - Len(queue) \in 1 .. Len(cmdbuf[t])
    BY <2>1, <2>2
  <2>4. \A a \in DOMAIN queue' : \/ a \in DOMAIN queue /\ queue'[a] = queue[a]
                                \/ \E b \in DOMAIN cmdbuf[t] : queue'[a] = cmdbuf[t][b]
    BY <2>1, <2>2, <2>3
  <2>5. cmdbuf'[t] = <<>> /\ \A u \in Threads : u # t => cmdbuf'[u] = cmdbuf[u]
    BY <1>1, <2>1
  <2> QED
    BY <2>4, <2>5
<1>3. SentFirst'
  <2>1. (\A z, n : Owns(z, n)' = Owns(z, n)) /\ \A u : UnsentOf(u)' = UnsentOf(u)
    BY <1>1 DEF Owns, UnsentOf
  <2>2. \A u \in Threads : \A a \in DOMAIN cmdbuf'[u], z \in DOMAIN scopes :
            cmdbuf'[u][a].op = "write" /\ Owns(z, cmdbuf'[u][a].number) => scopes[z].thread = u
    BY <1>2 DEF ServerInv, SentFirst
  <2>3. ASSUME NEW u \in Threads, sending[u] # "no", NEW a \in DOMAIN queue', queue'[a].op = "write"
        PROVE  queue'[a].number # UnsentOf(u)
    <3>1. CASE a \in DOMAIN queue /\ queue'[a] = queue[a]
      BY <2>3, <3>1 DEF ServerInv, SentFirst
    <3>2. CASE \E b \in DOMAIN cmdbuf[t] : queue'[a] = cmdbuf[t][b]
      <4>1. Last(open[u]) \in DOMAIN scopes /\ Owns(Last(open[u]), UnsentOf(u)) /\ scopes[Last(open[u])].thread = u
        BY <2>3, UnsentFacts
      <4> QED
        BY <1>1, <2>3, <3>2, <4>1 DEF ServerInv, SentFirst
    <3> QED
      BY <1>2, <3>1, <3>2
  <2>4. \A u \in Threads : sending[u] # "no" => stamps[UnsentOf(u)] = NotReady
    BY DEF ServerInv, SentFirst
  <2> QED
    BY <1>1, <2>1, <2>2, <2>3, <2>4 DEF SentFirst
<1> QED
  BY <1>1, <1>3, ServerWaits

(* A command is executed: a thread's unsent query is not among those       *)
(* submitted, so the GPU does not come to it.                              *)
LEMMA ExecuteServer ==
    ASSUME RingInv, ServerInv, GpuExecute
    PROVE  ServerInv'
<1> DEFINE n == Head(queue).number
<1>1. /\ UNCHANGED <<m_queryCount, m_head, m_tail, idx, scopes, open, sending, cmdbuf, server, m_refTimeGpu>>
      /\ queue # <<>> /\ queue' = Tail(queue)
  BY DEF GpuExecute, fixed, ring, col, app, wire
<1>2. /\ queue \in Seq(Cmd) /\ Head(queue) = queue[1] /\ 1 \in DOMAIN queue
      /\ \A a \in DOMAIN queue' : a + 1 \in DOMAIN queue /\ queue'[a] = queue[a + 1]
  BY <1>1, HeadTail DEF RingInv, Types
<1>3. \/ stamps' = stamps
      \/ /\ n \in m_tail + idx + 1 .. m_head /\ stamps' = [stamps EXCEPT ![n] = stamps'[n]]
         /\ Head(queue).op = "write"
  BY WriteRing DEF GpuExecute
<1>4. m_tail \in Nat /\ idx \in Nat /\ m_head \in Nat /\ stamps \in Seq(Nat) /\ Len(stamps) = m_head
  BY DEF RingInv, Types, Window
<1> HIDE DEF n
<1>5. \A k \in 1 .. m_tail + idx : stamps'[k] = stamps[k]
  <2>1. \A k \in 1 .. m_tail + idx, j \in m_tail + idx + 1 .. m_head : k # j /\ k \in 1 .. m_head
    BY <1>4
  <2>2. m_tail + idx <= m_head
    BY <1>4 DEF RingInv, Batches
  <2>3. CASE stamps' = stamps
    BY <2>3
  <2>4. CASE n \in m_tail + idx + 1 .. m_head /\ stamps' = [stamps EXCEPT ![n] = stamps'[n]]
    <3> SUFFICES ASSUME NEW k \in 1 .. m_tail + idx PROVE stamps'[k] = stamps[k]
      OBVIOUS
    <3>1. k # n /\ k \in 1 .. m_head
      BY <1>4, <2>1, <2>2, <2>4
    <3>2. DOMAIN stamps = 1 .. m_head
      BY <1>4
    <3> QED
      BY <2>4, <3>1, <3>2
  <2> QED
    BY <1>3, <2>3, <2>4
<1>6. SentFirst'
  <2>1. (\A z, m : Owns(z, m)' = Owns(z, m)) /\ \A u : UnsentOf(u)' = UnsentOf(u)
    BY <1>1 DEF Owns, UnsentOf
  <2>2. ASSUME NEW u \in Threads, sending[u] # "no"
        PROVE  stamps'[UnsentOf(u)] = NotReady
    <3>1. UnsentOf(u) \in m_tail + idx + 1 .. m_head /\ stamps[UnsentOf(u)] = NotReady
      BY <2>2, UnsentFacts
    <3>2. Head(queue).op = "write" => n # UnsentOf(u)
      BY <1>2, <2>2 DEF ServerInv, SentFirst, n
    <3>3. UnsentOf(u) \in 1 .. m_head
      BY <1>4, <3>1
    <3> QED
      BY <1>3, <1>4, <3>1, <3>2, <3>3
  <2>3. \A u \in Threads : sending[u] # "no" => \A a \in DOMAIN queue' :
            queue'[a].op = "write" => queue'[a].number # UnsentOf(u)
    BY <1>2 DEF ServerInv, SentFirst
  <2> QED
    BY <1>1, <2>1, <2>2, <2>3 DEF ServerInv, SentFirst
<1> QED
  BY <1>1, <1>5, <1>6, ServerWaits

(* The steps of Collect that report nothing: a reset that is recorded is   *)
(* no write.                                                               *)
LEMMA CollectServer ==
    ASSUME RingInv, ServerInv, CollectBegin \/ CollectResults \/ CollectEnd \/ UNCHANGED vars
    PROVE  ServerInv'
<1>1. /\ UNCHANGED <<m_queryCount, m_head, scopes, open, sending, queue, server, m_refTimeGpu, stamps>>
      /\ m_tail' + idx' = m_tail + idx
      /\ cmdbuf' = cmdbuf \/ cmdbuf' = [cmdbuf EXCEPT ![Collector] = Append(@, ResetCollected)]
  <2>1. CASE UNCHANGED vars
    BY <2>1 DEF vars, fixed, ring, col, app, gpu, wire
  <2>2. CASE CollectBegin
    BY <2>1, <2>2 DEF CollectBegin, fixed, app, gpu, wire
  <2>3. CASE CollectResults
    BY <2>3 DEF CollectResults, fixed, ring, app, gpu, wire
  <2>4. CASE CollectEnd
    BY <2>4 DEF CollectEnd, fixed, app, wire, RingInv, Types
  <2> QED
    BY <2>1, <2>2, <2>3, <2>4
<1>2. \A u \in Threads : \A a \in DOMAIN cmdbuf'[u] :
        cmdbuf'[u][a].op = "write" => a \in DOMAIN cmdbuf[u] /\ cmdbuf'[u][a] = cmdbuf[u][a]
  <2>1. CASE cmdbuf' = cmdbuf
    BY <2>1
  <2>2. CASE cmdbuf' = [cmdbuf EXCEPT ![Collector] = Append(@, ResetCollected)]
    <3> DEFINE c == ResetCollected
               buf == cmdbuf[Collector]
    <3>1. c \in Cmd /\ c.op = "reset"
      <4>1. WrappedTail \in Nat /\ idx \in Nat
        BY BatchSlots DEF RingInv, Types
      <4> QED
        BY <4>1 DEF ResetCollected, ResetOf, Cmd
    <3>2. buf \in Seq(Cmd) /\ cmdbuf \in [Threads -> Seq(Cmd)] /\ Collector \in Threads
      BY RingAssumption DEF RingInv, Types
    <3> HIDE DEF c
    <3>3. /\ DOMAIN Append(buf, c) = 1 .. Len(buf) + 1 /\ DOMAIN buf = 1 .. Len(buf) /\ Len(buf) \in Nat
          /\ Append(buf, c)[Len(buf) + 1] = c /\ \A a \in 1 .. Len(buf) : Append(buf, c)[a] = buf[a]
      BY <3>1, <3>2, Appended
    <3>4. /\ cmdbuf'[Collector] = Append(buf, c)
          /\ \A u \in Threads : u # Collector => cmdbuf'[u] = cmdbuf[u]
      BY <2>2, <3>2 DEF c
    <3> HIDE DEF buf
    <3>5. \A a \in DOMAIN Append(buf, c) :
            Append(buf, c)[a].op = "write" => a \in DOMAIN buf /\ Append(buf, c)[a] = buf[a]
      BY <3>1, <3>3
    <3> QED
      BY <3>4, <3>5 DEF buf
  <2> QED
    BY <1>1, <2>1, <2>2
<1>3. SentFirst'
  <2>1. (\A z, n : Owns(z, n)' = Owns(z, n)) /\ \A u : UnsentOf(u)' = UnsentOf(u)
    BY <1>1 DEF Owns, UnsentOf
  <2> QED
    BY <1>1, <1>2, <2>1 DEF ServerInv, SentFirst
<1> QED
  BY <1>1, <1>3, ServerWaits

-----------------------------------------------------------------------------
(* A thread t takes a query for its scope y and has still to say so.       *)
ScopesKept ==
    \A z \in DOMAIN scopes :
        /\ z \in DOMAIN scopes' /\ scopes'[z].thread = scopes[z].thread
        /\ scopes'[z].beginQuery = scopes[z].beginQuery /\ scopes'[z].parent = scopes[z].parent
        /\ \/ scopes'[z].endQuery = scopes[z].endQuery
           \/ scopes[z].endQuery = 0 /\ scopes'[z].endQuery = m_head + 1
OthersWait(t) == \A u \in Threads \ {t} : sending'[u] = sending[u] /\ UnsentOf(u)' = UnsentOf(u)
HandedTo(t, y) ==
    /\ y \in DOMAIN scopes' /\ scopes'[y].thread = t
    /\ \A z \in DOMAIN scopes', n \in 1 .. m_head : Owns(z, n)' => z \in DOMAIN scopes /\ Owns(z, n)
    /\ \A z \in DOMAIN scopes', n \in Nat : Owns(z, n)' /\ n = m_head + 1 => z = y
    /\ sending[t] = "no" /\ sending'[t] # "no" /\ UnsentOf(t)' = m_head + 1

(* The server has not heard of the query and waits for no other in its     *)
(* slot; every other number stays with its scope.                          *)
LEMMA HandOutServer ==
    ASSUME RingInv, ServerInv, NEW t \in Threads, NEW y, HandOut(t), m_head + 1 <= m_tail + m_queryCount,
           UNCHANGED <<m_queryCount, idx, queue, server, m_refTimeGpu>>,
           ScopesKept, OthersWait(t), HandedTo(t, y)
    PROVE  /\ SentFirst' /\ ServerTypes' /\ Zones' /\ Parents' /\ Times' /\ Waits'
           /\ server'.refTime = m_refTimeGpu' /\ ServerAccepts'
<1> DEFINE new == m_head + 1
           c == WriteOf(NextQueryId, new)
           R == m_tail + idx
<1>1. /\ m_head' = new /\ m_tail' = m_tail /\ stamps' = Append(stamps, NotReady)
      /\ cmdbuf' = [cmdbuf EXCEPT ![t] = Append(@, c)]
  BY DEF HandOut
<1>2. /\ m_head \in Nat /\ m_tail \in Nat /\ idx \in Nat /\ R \in Nat /\ R <= m_head /\ m_tail <= R
      /\ m_queryCount \in Nat /\ m_queryCount > 0 /\ m_head = Len(stamps) /\ stamps \in Seq(Nat)
  <2>1. Len(m_res) \in Nat /\ idx <= Len(m_res) /\ Len(m_res) <= m_head - m_tail
    BY DEF RingInv, Types, Batches
  <2> QED
    BY <2>1 DEF RingInv, Types, Window
<1>3. stamps'[new] = NotReady /\ \A n \in 1 .. m_head : stamps'[n] = stamps[n]
  BY <1>1, <1>2, Appended DEF NotReady
<1>4. /\ \A n : Slot(n)' = Slot(n)
      /\ \A n : Reported(n)' = Reported(n)
      /\ QueryIds' = QueryIds /\ ~Reported(new)
  BY <1>1, <1>2 DEF Slot, Reported, QueryIds
<1>5. \A z \in DOMAIN scopes :
        /\ scopes[z].beginQuery \in 1 .. m_head /\ scopes[z].endQuery \in Nat
        /\ scopes[z].endQuery # 0 => scopes[z].endQuery \in 1 .. m_head
  <2>1. \A z \in DOMAIN scopes :
          /\ scopes[z].beginQuery \in 1 .. m_head
          /\ scopes[z].endQuery # 0 => scopes[z].endQuery \in scopes[z].beginQuery + 1 .. m_head
    BY DEF ServerInv, Numbered
  <2> QED
    BY <1>2, <2>1, ScopeTypes
<1>6. new \in Unsent' /\ \A n \in 1 .. m_head : n \in Unsent' <=> n \in Unsent
  <2>1. Unsent' = {UnsentOf(u)' : u \in Threads}
    BY DEF Unsent
  <2>2. UnsentOf(t) = 0 /\ UnsentOf(t)' = new /\ \A u \in Threads \ {t} : UnsentOf(u)' = UnsentOf(u)
    BY DEF UnsentOf, HandedTo, OthersWait
  <2>3. \A n \in 1 .. m_head : n # 0 /\ n # new
    BY <1>2
  <2> HIDE DEF new
  <2> QED
    BY <2>1, <2>2, <2>3 DEF Unsent, new
<1>7. SentFirst'
  <2>1. \A u \in Threads : \A a \in DOMAIN cmdbuf'[u] :
            \/ u = t /\ cmdbuf'[u][a].number = new
            \/ a \in DOMAIN cmdbuf[u] /\ cmdbuf'[u][a] = cmdbuf[u][a]
    <3> DEFINE buf == cmdbuf[t]
    <3>1. buf \in Seq(Cmd) /\ cmdbuf \in [Threads -> Seq(Cmd)]
      BY DEF RingInv, Types
    <3>2. c \in Cmd /\ c.number = new
      <4>1. NextQueryId \in Nat
        BY <1>2 DEF NextQueryId
      <4> QED
        BY <1>2, <4>1 DEF WriteOf, Cmd
    <3> HIDE DEF c
    <3>3. /\ DOMAIN Append(buf, c) = 1 .. Len(buf) + 1 /\ DOMAIN buf = 1 .. Len(buf) /\ Len(buf) \in Nat
          /\ Append(buf, c)[Len(buf) + 1] = c /\ \A a \in 1 .. Len(buf) : Append(buf, c)[a] = buf[a]
      BY <3>1, <3>2, Appended
    <3>4. cmdbuf'[t] = Append(buf, c) /\ \A u \in Threads : u # t => cmdbuf'[u] = cmdbuf[u]
      BY <1>1, <3>1
    <3> HIDE DEF buf
    <3>5. \A a \in DOMAIN Append(buf, c) : Append(buf, c)[a] = c \/ (a \in DOMAIN buf /\ Append(buf, c)[a] = buf[a])
      BY <3>3
    <3> QED
      BY <3>2, <3>4, <3>5 DEF buf
  <2>2. ASSUME NEW u \in Threads, NEW a \in DOMAIN cmdbuf'[u], NEW z \in DOMAIN scopes',
               NEW n \in Nat, n = cmdbuf'[u][a].number, cmdbuf'[u][a].op = "write", Owns(z, n)'
        PROVE  scopes'[z].thread = u
    <3>1. CASE u = t /\ n = new
      BY <2>2, <3>1 DEF HandedTo
    <3>2. CASE a \in DOMAIN cmdbuf[u] /\ cmdbuf'[u][a] = cmdbuf[u][a]
      <4>1. cmdbuf[u][a] \in Good /\ cmdbuf[u][a].op = "write"
        BY <2>2, <3>2 DEF RingInv, Commands
      <4>2. n \in 1 .. m_head
        BY <2>2, <3>2, <4>1 DEF Good, GoodWrites, GoodResets
      <4>3. z \in DOMAIN scopes /\ Owns(z, n)
        BY <2>2, <4>2 DEF HandedTo
      <4>4. scopes[z].thread = u
        BY <2>2, <3>2, <4>1, <4>3 DEF ServerInv, SentFirst
      <4> QED
        BY <4>3, <4>4 DEF ScopesKept
    <3> QED
      BY <2>1, <2>2, <3>1, <3>2
  <2>3. ASSUME NEW u \in Threads, sending'[u] # "no"
        PROVE  /\ stamps'[UnsentOf(u)'] = NotReady
               /\ \A a \in DOMAIN queue : queue[a].op = "write" => queue[a].number # UnsentOf(u)'
    <3>1. CASE u = t
      <4>1. \A a \in DOMAIN queue : queue[a].op = "write" => queue[a].number \in 1 .. m_head
        BY DEF RingInv, Commands, Good, GoodWrites, GoodResets
      <4> QED
        BY <1>2, <1>3, <3>1, <4>1 DEF HandedTo
    <3>2. CASE u # t
      <4>1. sending[u] # "no" /\ UnsentOf(u)' = UnsentOf(u)
        BY <2>3, <3>2 DEF OthersWait
      <4>2. UnsentOf(u) \in R + 1 .. m_head /\ stamps[UnsentOf(u)] = NotReady
        BY <4>1, UnsentFacts
      <4>3. UnsentOf(u) \in 1 .. m_head
        BY <1>2, <4>2
      <4>4. \A a \in DOMAIN queue : queue[a].op = "write" => queue[a].number # UnsentOf(u)
        BY <4>1 DEF ServerInv, SentFirst
      <4> QED
        BY <1>3, <4>1, <4>2, <4>3, <4>4
    <3> QED
      BY <3>1, <3>2
  <2>4. \A u \in Threads : \A a \in DOMAIN cmdbuf'[u] : cmdbuf'[u][a].number \in Nat
    <3>1. \A u \in Threads : \A a \in DOMAIN cmdbuf[u] : cmdbuf[u][a].number \in Nat
      BY DEF RingInv, Commands, Good, GoodWrites, GoodResets, Cmd
    <3> QED
      BY <1>2, <2>1, <3>1
  <2> QED
    BY <2>2, <2>3, <2>4 DEF SentFirst, Owns
<1>8. Zones' /\ Parents' /\ ServerTypes'
  <2>1. \A k \in DOMAIN server.zones : server.zones[k].of \in DOMAIN scopes
    BY DEF ServerInv, Zones
  <2>2. Zones'
    <3>1. \A k \in DOMAIN server.zones : scopes[server.zones[k].of].beginQuery \notin Unsent
      BY DEF ServerInv, Zones
    <3>2. \A z \in DOMAIN scopes : scopes[z].beginQuery \notin Unsent => scopes'[z].beginQuery \notin Unsent'
      BY <1>5, <1>6 DEF ScopesKept
    <3> QED
      BY <2>1, <3>1, <3>2 DEF ServerInv, Zones, ScopesKept
  <2>3. Parents'
    BY <2>1 DEF ServerInv, Parents, ScopesKept
  <2> QED
    BY <1>4, <2>2, <2>3 DEF ServerInv, ServerTypes
<1>9. Times'
  <2> SUFFICES ASSUME NEW k \in DOMAIN server.zones
               PROVE  LET zone  == server.zones[k]
                          scope == scopes'[zone.of]
                      IN  /\ zone.start = IF Reported(scope.beginQuery) THEN stamps'[scope.beginQuery] ELSE Untimed
                          /\ zone.end = IF Reported(scope.endQuery) THEN stamps'[scope.endQuery] ELSE Untimed
    BY <1>4 DEF Times
  <2> DEFINE z == server.zones[k].of
             b == scopes[z].beginQuery
             e == scopes[z].endQuery
  <2>1. z \in DOMAIN scopes
    BY DEF ServerInv, Zones
  <2>2. /\ server.zones[k].start = IF Reported(b) THEN stamps[b] ELSE Untimed
        /\ server.zones[k].end = IF Reported(e) THEN stamps[e] ELSE Untimed
    BY DEF ServerInv, Times
  <2> HIDE DEF z
  <2>3. b \in 1 .. m_head /\ scopes'[z].beginQuery = b
    BY <1>5, <2>1 DEF ScopesKept
  <2>4. e = 0 \/ e \in 1 .. m_head
    BY <1>5, <2>1
  <2>5. scopes'[z].endQuery = e \/ (e = 0 /\ scopes'[z].endQuery = new)
    BY <2>1 DEF ScopesKept
  <2> HIDE DEF b, e, new, R
  <2>6. server.zones[k].start = IF Reported(b) THEN stamps'[b] ELSE Untimed
    BY <1>3, <2>2, <2>3
  <2>7. server.zones[k].end = IF Reported(scopes'[z].endQuery) THEN stamps'[scopes'[z].endQuery] ELSE Untimed
    <3>1. ~Reported(0)
      BY DEF Reported
    <3> QED
      BY <1>3, <1>4, <2>2, <2>4, <2>5, <3>1
  <2> QED
    BY <2>3, <2>6, <2>7 DEF z
<1>10. Waits'
  <2>1. Slot(new) \in QueryIds /\ \A n \in R + 1 .. m_head : Slot(n) # Slot(new)
    <3>1. Types /\ Slot(new) \in QueryIds
      BY <1>2, SlotInPool DEF RingInv
    <3>2. \A n \in R + 1 .. m_head : n \in Nat /\ n > 0 /\ new > n /\ new < n + m_queryCount
      BY <1>2
    <3>3. ASSUME NEW n \in R + 1 .. m_head PROVE Slot(n) # Slot(new)
      <4>1. n \in Nat /\ n > 0 /\ new > n /\ new < n + m_queryCount /\ new \in Nat
        BY <1>2, <3>2
      <4> HIDE DEF new
      <4> QED
        BY <3>1, <4>1, SlotsDiffer
    <3> QED
      BY <3>1, <3>3
  <2>2. server.query[Slot(new)] = None
    BY <2>1 DEF ServerInv, Waits
  <2>3. R + 1 .. m_head' = (R + 1 .. m_head) \cup {new} /\ R + 1 .. m_head \subseteq 1 .. m_head
    BY <1>1, <1>2
  <2>4. ASSUME NEW n \in R + 1 .. m_head', NEW z \in DOMAIN scopes', Owns(z, n)'
        PROVE  IF n \in Unsent' THEN server.query[Slot(n)] = None
               ELSE /\ server.query[Slot(n)] \in DOMAIN server.zones
                    /\ server.zones[server.query[Slot(n)]].of = z
    <3>1. CASE n = new
      BY <1>6, <2>2, <3>1
    <3>2. CASE n # new
      <4>1. n \in R + 1 .. m_head /\ n \in 1 .. m_head
        BY <2>3, <3>2
      <4>2. z \in DOMAIN scopes /\ Owns(z, n)
        BY <2>4, <4>1 DEF HandedTo
      <4> QED
        BY <1>6, <4>1, <4>2 DEF ServerInv, Waits
    <3> QED
      BY <3>1, <3>2
  <2>5. ASSUME NEW q \in QueryIds, \A n \in R + 1 .. m_head' : Slot(n) # q
        PROVE  server.query[q] = None
    BY <2>3, <2>5 DEF ServerInv, Waits
  <2>6. m_tail' + idx' + 1 = R + 1
    BY <1>1
  <2> HIDE DEF R
  <2> QED
    BY <1>4, <2>4, <2>5, <2>6 DEF Waits
<1> QED
  BY <1>7, <1>8, <1>9, <1>10 DEF ServerInv, ServerAccepts

(* A zone is opened: a new scope, of which the server does not know yet.   *)
LEMMA OpenScopeServer ==
    ASSUME RingInv, ServerInv, NEW t \in Threads, OpenScope(t)
    PROVE  ServerInv'
<1> DEFINE new == m_head + 1
           z == Len(scopes) + 1
           par == IF open[t] = <<>> THEN None ELSE Last(open[t])
           rec == [thread |-> t, beginQuery |-> new, endQuery |-> 0, parent |-> par]
           L == Len(open[t])
<1>1. /\ HandOut(t) /\ sending[t] = "no" /\ sending' = [sending EXCEPT ![t] = "begin"]
      /\ UNCHANGED <<m_queryCount, idx, queue, server, m_refTimeGpu>> /\ m_head' = new
      /\ scopes' = Append(scopes, rec) /\ open' = [open EXCEPT ![t] = Append(@, z)]
  BY DEF OpenScope, HandOut, fixed, col, gpu, wire
<1>2. m_head \in Nat /\ m_head + 1 <= m_tail + m_queryCount
  <2>1. m_head \in Nat /\ m_tail \in Nat /\ m_queryCount \in Nat
    BY DEF RingInv, Types
  <2>2. Cardinality(Unclosed) \in Nat /\ m_head + (2 + Cardinality(Unclosed)) <= m_tail + m_queryCount
    BY UnclosedFinite DEF RingInv, OpenScope, Paced, Unclosed
  <2> QED
    BY <2>1, <2>2
<1>3. /\ scopes \in Seq(ScopeRecord) /\ DOMAIN scopes = 1 .. Len(scopes) /\ Len(scopes) \in Nat
      /\ open[t] \in Seq(Nat) /\ open \in [Threads -> Seq(Nat)] /\ L \in Nat /\ DOMAIN open[t] = 1 .. L
  BY DEF RingInv, Types
<1>4. rec \in ScopeRecord
  <2>1. par \in Nat
    BY <1>3, FrontLast DEF None
  <2> QED
    BY <1>2, <2>1 DEF ScopeRecord
<1> HIDE DEF par
<1>5. /\ DOMAIN scopes' = 1 .. z /\ z \notin DOMAIN scopes /\ scopes'[z] = rec
      /\ DOMAIN scopes' = DOMAIN scopes \cup {z} /\ \A y \in DOMAIN scopes : scopes'[y] = scopes[y]
  <2> HIDE DEF rec
  <2>1. /\ DOMAIN scopes' = 1 .. z /\ scopes'[z] = rec /\ \A y \in DOMAIN scopes : scopes'[y] = scopes[y]
    BY <1>1, <1>3, <1>4, Appended
  <2> QED
    BY <1>3, <2>1
<1>6. /\ \A u \in Threads : u # t => open'[u] = open[u] /\ sending'[u] = sending[u]
      /\ sending'[t] = "begin"
      /\ DOMAIN open'[t] = 1 .. L + 1 /\ Len(open'[t]) = L + 1 /\ open'[t][L + 1] = z
      /\ \A a \in 1 .. L : open'[t][a] = open[t][a]
  <2>1. open'[t] = Append(open[t], z) /\ \A u \in Threads : u # t => open'[u] = open[u]
    BY <1>1, <1>3
  <2>2. z \in Nat
    BY <1>3
  <2>3. /\ DOMAIN open'[t] = 1 .. L + 1 /\ Len(open'[t]) = L + 1 /\ open'[t][L + 1] = z
        /\ \A a \in 1 .. L : open'[t][a] = open[t][a]
    BY <1>3, <2>1, <2>2, Appended
  <2>4. sending'[t] = "begin" /\ \A u \in Threads : u # t => sending'[u] = sending[u]
    BY <1>1 DEF RingInv, Types
  <2> QED
    BY <2>1, <2>3, <2>4
<1>7. Last(open'[t]) = z
  BY <1>6 DEF Last
<1> HIDE DEF z, L
<1>8. ASSUME NEW u \in Threads, u # t
      PROVE  /\ UnsentOf(u)' = UnsentOf(u) /\ Last(open'[u]) = Last(open[u])
             /\ sending'[u] # "no" => Last(open[u]) \in DOMAIN scopes
  <2>1. sending[u] # "no" => Last(open[u]) \in DOMAIN scopes
    BY UnsentFacts
  <2> QED
    BY <1>5, <1>6, <1>8, <2>1 DEF UnsentOf, RingInv, Types
<1>9. ScopesKept /\ OthersWait(t)
  BY <1>5, <1>6, <1>8 DEF ScopesKept, OthersWait
<1>10. ASSUME NEW y \in DOMAIN scopes', NEW n \in Nat, n > 0
       PROVE  /\ y = z => (Owns(y, n)' <=> n = new)
              /\ y # z => y \in DOMAIN scopes /\ (Owns(y, n)' <=> Owns(y, n))
  <2>1. Owns(y, n)' <=> n = scopes'[y].beginQuery \/ n = scopes'[y].endQuery
    BY DEF Owns
  <2>2. ASSUME y = z PROVE Owns(y, n)' <=> n = new
    BY <1>5, <1>10, <2>1, <2>2
  <2>3. ASSUME y # z PROVE y \in DOMAIN scopes /\ (Owns(y, n)' <=> Owns(y, n))
    BY <1>5, <2>1, <2>3 DEF Owns
  <2> QED
    BY <2>2, <2>3
<1>11. /\ \A y \in DOMAIN scopes : scopes[y].beginQuery \in 1 .. m_head
       /\ \A y \in DOMAIN scopes : scopes[y].endQuery # 0 => scopes[y].endQuery \in scopes[y].beginQuery + 1 .. m_head
  BY DEF ServerInv, Numbered
<1>12. \A y \in DOMAIN scopes : ~Owns(y, new)
  BY <1>2, <1>11 DEF Owns
<1>13. HandedTo(t, z)
  <2>1. \A y \in DOMAIN scopes', n \in 1 .. m_head : Owns(y, n)' => y \in DOMAIN scopes /\ Owns(y, n)
    BY <1>2, <1>5, <1>10
  <2>2. \A y \in DOMAIN scopes', n \in Nat : Owns(y, n)' /\ n = m_head + 1 => y = z
    BY <1>2, <1>5, <1>10, <1>12
  <2>3. UnsentOf(t)' = new
    BY <1>5, <1>6, <1>7 DEF UnsentOf
  <2> QED
    BY <1>1, <1>5, <1>6, <2>1, <2>2, <2>3 DEF HandedTo
<1>14. /\ SentFirst' /\ ServerTypes' /\ Zones' /\ Parents' /\ Times' /\ Waits'
       /\ server'.refTime = m_refTimeGpu' /\ ServerAccepts'
  BY <1>1, <1>2, <1>9, <1>13, HandOutServer
<1>15. Numbered'
  <2>1. ASSUME NEW y \in DOMAIN scopes'
        PROVE  /\ scopes'[y].beginQuery \in 1 .. m_head'
               /\ scopes'[y].endQuery # 0 => scopes'[y].endQuery \in scopes'[y].beginQuery + 1 .. m_head'
    <3>1. CASE y = z
      BY <1>1, <1>2, <1>5, <3>1
    <3>2. CASE y # z
      <4>1. y \in DOMAIN scopes /\ scopes'[y] = scopes[y]
        BY <1>5, <3>2
      <4>2. \A n \in Nat : 1 .. m_head \subseteq 1 .. m_head' /\ n + 1 .. m_head \subseteq n + 1 .. m_head'
        BY <1>1, <1>2
      <4>3. scopes[y].beginQuery \in Nat
        BY <1>2, <1>11, <4>1
      <4> QED
        BY <1>11, <4>1, <4>2, <4>3
    <3> QED
      BY <3>1, <3>2
  <2>2. ASSUME NEW x \in DOMAIN scopes', NEW y \in DOMAIN scopes', NEW n \in 1 .. m_head',
               Owns(x, n)', Owns(y, n)'
        PROVE  x = y
    <3>1. n \in Nat /\ n > 0 /\ (n = new \/ n \in 1 .. m_head)
      BY <1>1, <1>2
    <3>2. CASE n = new
      BY <1>5, <1>10, <1>12, <2>2, <3>1, <3>2
    <3>3. CASE n # new
      <4>1. x \in DOMAIN scopes /\ y \in DOMAIN scopes /\ Owns(x, n) /\ Owns(y, n)
        BY <1>5, <1>10, <2>2, <3>1, <3>3
      <4> QED
        BY <3>1, <3>3, <4>1 DEF ServerInv, Numbered
    <3> QED
      BY <3>2, <3>3
  <2>3. ASSUME NEW n \in 1 .. m_head'
        PROVE  \E y \in DOMAIN scopes' : Owns(y, n)'
    <3>1. n \in Nat /\ n > 0 /\ (n = new \/ n \in 1 .. m_head)
      BY <1>1, <1>2
    <3>2. CASE n = new
      BY <1>5, <1>10, <3>1, <3>2
    <3>3. CASE n \in 1 .. m_head
      <4>1. PICK y \in DOMAIN scopes : Owns(y, n)
        BY <3>3 DEF ServerInv, Numbered
      <4> QED
        BY <1>5, <1>10, <3>1, <4>1
    <3> QED
      BY <3>1, <3>2, <3>3
  <2>4. ASSUME NEW u \in Threads, sending'[u] = "begin"
        PROVE  scopes'[Last(open'[u])].parent =
                    IF Len(open'[u]) = 1 THEN None ELSE open'[u][Len(open'[u]) - 1]
    <3>1. CASE u = t
      <4>1. open[t] = <<>> <=> L = 0
        BY <1>3 DEF L
      <4>2. par = IF L = 0 THEN None ELSE open[t][L]
        BY <1>3, <4>1 DEF par, Last, L
      <4>3. L # 0 => open'[t][L] = open[t][L]
        BY <1>3, <1>6
      <4>4. (L + 1) - 1 = L /\ (L + 1 = 1 <=> L = 0)
        BY <1>3
      <4>5. scopes'[Last(open'[t])].parent = par
        BY <1>5, <1>7
      <4> QED
        BY <1>6, <3>1, <4>2, <4>3, <4>4, <4>5
    <3>2. CASE u # t
      <4>1. sending[u] = "begin" /\ open'[u] = open[u] /\ scopes'[Last(open[u])] = scopes[Last(open[u])]
        BY <1>5, <1>6, <1>8, <2>4, <3>2
      <4> QED
        BY <4>1 DEF ServerInv, Numbered
    <3> QED
      BY <3>1, <3>2
  <2> QED
    BY <2>1, <2>2, <2>3, <2>4 DEF Numbered
<1>16. Stacks'
  <2> SUFFICES ASSUME NEW u \in Threads
               PROVE  /\ Len(server.stack[u]) = Len(open'[u]) - (IF sending'[u] = "begin" THEN 1 ELSE 0)
                      /\ \A a \in DOMAIN server.stack[u] :
                            /\ server.stack[u][a] \in DOMAIN server.zones
                            /\ server.zones[server.stack[u][a]].of = open'[u][a]
    BY <1>1 DEF Stacks
  <2>1. /\ Len(server.stack[u]) = Len(open[u]) - (IF sending[u] = "begin" THEN 1 ELSE 0)
        /\ \A a \in DOMAIN server.stack[u] :
            /\ server.stack[u][a] \in DOMAIN server.zones
            /\ server.zones[server.stack[u][a]].of = open[u][a]
    BY DEF ServerInv, Stacks
  <2>2. CASE u = t
    <3>1. Len(server.stack[t]) = L
      <4>1. sending[u] # "begin" /\ Len(open[u]) = L /\ L \in Nat
        BY <1>1, <1>3, <2>2 DEF L
      <4>2. Len(server.stack[u]) = L - 0
        BY <2>1, <4>1
      <4> QED
        BY <2>2, <4>1, <4>2
    <3>2. DOMAIN server.stack[t] = 1 .. L
      BY <3>1, ServerFields DEF ServerInv
    <3>3. L = Len(open'[t]) - (IF sending'[t] = "begin" THEN 1 ELSE 0)
      BY <1>3, <1>6
    <3> QED
      BY <1>6, <2>1, <2>2, <3>1, <3>2, <3>3
  <2>3. CASE u # t
    BY <1>6, <2>1, <2>3
  <2> QED
    BY <2>2, <2>3
<1> QED
  BY <1>14, <1>15, <1>16 DEF ServerInv

(* A zone is closed: its second number, of which the server does not know. *)
LEMMA CloseScopeServer ==
    ASSUME RingInv, ServerInv, NEW t \in Threads, CloseScope(t)
    PROVE  ServerInv'
<1> DEFINE new == m_head + 1
           z == Last(open[t])
<1>1. /\ HandOut(t) /\ sending[t] = "no" /\ sending' = [sending EXCEPT ![t] = "end"]
      /\ UNCHANGED <<m_queryCount, idx, queue, server, m_refTimeGpu, open>> /\ m_head' = new
      /\ scopes' = [scopes EXCEPT ![z].endQuery = new] /\ open[t] # <<>>
  BY DEF CloseScope, HandOut, fixed, col, gpu, wire
<1>2. /\ z \in DOMAIN scopes /\ scopes[z] \in ScopeRecord /\ scopes[z].endQuery = 0 /\ scopes[z].thread = t
  BY <1>1, Innermost
<1>3. m_head \in Nat /\ m_head + 1 <= m_tail + m_queryCount
  <2>1. z \in Unclosed /\ IsFiniteSet(Unclosed) /\ Cardinality(Unclosed) \in Nat
    BY <1>2, UnclosedFinite DEF Unclosed, RingInv
  <2>2. Cardinality(Unclosed) # 0
    BY <2>1, FS_EmptySet
  <2>3. m_head \in Nat /\ m_tail \in Nat /\ m_queryCount \in Nat
        /\ m_head + Cardinality(Unclosed) <= m_tail + m_queryCount
    BY DEF RingInv, Types, Window
  <2> QED
    BY <2>1, <2>2, <2>3
<1>4. /\ DOMAIN scopes' = DOMAIN scopes /\ scopes'[z].endQuery = new
      /\ \A y \in DOMAIN scopes : y # z => scopes'[y] = scopes[y]
      /\ \A y \in DOMAIN scopes : /\ scopes'[y].thread = scopes[y].thread
                                 /\ scopes'[y].beginQuery = scopes[y].beginQuery
                                 /\ scopes'[y].parent = scopes[y].parent
  <2> DEFINE r == [scopes[z] EXCEPT !.endQuery = new]
  <2>1. scopes \in Seq(ScopeRecord)
    BY DEF RingInv, Types
  <2>2. /\ r.thread = scopes[z].thread /\ r.endQuery = new
        /\ r.beginQuery = scopes[z].beginQuery /\ r.parent = scopes[z].parent
    BY <1>2 DEF ScopeRecord
  <2>3. scopes' = [scopes EXCEPT ![z] = r]
    BY <1>1
  <2> HIDE DEF r, z
  <2>4. DOMAIN scopes' = DOMAIN scopes /\ \A y \in DOMAIN scopes : scopes'[y] = IF y = z THEN r ELSE scopes[y]
    BY <1>2, <2>1, <2>3
  <2> QED
    BY <1>2, <2>2, <2>4
<1>5. /\ \A u \in Threads : u # t => sending'[u] = sending[u]
      /\ sending'[t] = "end"
  BY <1>1 DEF RingInv, Types
<1>6. Last(open'[t]) = z
  BY <1>1
<1> HIDE DEF z
<1>7. \A y \in DOMAIN scopes : y = z \/ scopes'[y].endQuery = scopes[y].endQuery
  BY <1>4
<1>8. ASSUME NEW u \in Threads, u # t
      PROVE  UnsentOf(u)' = UnsentOf(u)
  <2>1. CASE sending[u] = "no"
    BY <1>5, <1>8, <2>1 DEF UnsentOf
  <2>2. CASE sending[u] # "no"
    <3>1. Last(open[u]) \in DOMAIN scopes /\ scopes[Last(open[u])].thread = u
      BY <2>2, UnsentFacts
    <3>2. scopes'[Last(open[u])] = scopes[Last(open[u])]
      BY <1>2, <1>4, <1>8, <3>1
    <3>3. Last(open'[u]) = Last(open[u]) /\ sending'[u] = sending[u]
      BY <1>1, <1>5, <1>8
    <3> QED
      BY <3>2, <3>3 DEF UnsentOf
  <2> QED
    BY <2>1, <2>2
<1>9. ScopesKept /\ OthersWait(t)
  <2>1. ScopesKept
    BY <1>2, <1>4, <1>7 DEF ScopesKept
  <2> QED
    BY <1>5, <1>8, <2>1 DEF OthersWait
<1>10. /\ \A y \in DOMAIN scopes : scopes[y].beginQuery \in 1 .. m_head
       /\ \A y \in DOMAIN scopes : scopes[y].endQuery # 0 => scopes[y].endQuery \in scopes[y].beginQuery + 1 .. m_head
  BY DEF ServerInv, Numbered
<1>11. \A y \in DOMAIN scopes : ~Owns(y, new)
  BY <1>3, <1>10 DEF Owns
<1>12. ASSUME NEW y \in DOMAIN scopes, NEW n \in Nat, n > 0
       PROVE  /\ n # new => (Owns(y, n)' <=> Owns(y, n))
              /\ n = new => (Owns(y, n)' <=> y = z)
  <2>1. Owns(y, n)' <=> n = scopes'[y].beginQuery \/ n = scopes'[y].endQuery
    BY DEF Owns
  <2>2. ASSUME y # z PROVE Owns(y, n)' <=> Owns(y, n)
    BY <1>4, <2>1, <2>2 DEF Owns
  <2>3. ASSUME y = z PROVE Owns(y, n)' <=> Owns(y, n) \/ n = new
    BY <1>2, <1>4, <1>12, <2>1, <2>3 DEF Owns
  <2> QED
    BY <1>11, <2>2, <2>3
<1>13. HandedTo(t, z)
  <2>1. \A y \in DOMAIN scopes', n \in 1 .. m_head : Owns(y, n)' => y \in DOMAIN scopes /\ Owns(y, n)
    BY <1>3, <1>4, <1>12
  <2>2. \A y \in DOMAIN scopes', n \in Nat : Owns(y, n)' /\ n = m_head + 1 => y = z
    BY <1>3, <1>4, <1>12
  <2>3. UnsentOf(t)' = new
    BY <1>4, <1>5, <1>6 DEF UnsentOf
  <2> QED
    BY <1>1, <1>2, <1>4, <1>5, <2>1, <2>2, <2>3 DEF HandedTo
<1>14. /\ SentFirst' /\ ServerTypes' /\ Zones' /\ Parents' /\ Times' /\ Waits'
       /\ server'.refTime = m_refTimeGpu' /\ ServerAccepts'
  BY <1>1, <1>3, <1>9, <1>13, HandOutServer
<1>15. Numbered'
  <2>1. ASSUME NEW y \in DOMAIN scopes'
        PROVE  /\ scopes'[y].beginQuery \in 1 .. m_head'
               /\ scopes'[y].endQuery # 0 => scopes'[y].endQuery \in scopes'[y].beginQuery + 1 .. m_head'
    <3>1. y \in DOMAIN scopes /\ scopes[y].beginQuery \in 1 .. m_head /\ scopes'[y].beginQuery = scopes[y].beginQuery
      BY <1>4, <1>10
    <3>2. scopes[y].beginQuery \in Nat /\ 1 .. m_head \subseteq 1 .. m_head'
          /\ new \in scopes[y].beginQuery + 1 .. m_head'
          /\ scopes[y].beginQuery + 1 .. m_head \subseteq scopes[y].beginQuery + 1 .. m_head'
      BY <1>1, <1>3, <3>1
    <3> QED
      BY <1>4, <1>7, <1>10, <3>1, <3>2
  <2>2. ASSUME NEW x \in DOMAIN scopes', NEW y \in DOMAIN scopes', NEW n \in 1 .. m_head',
               Owns(x, n)', Owns(y, n)'
        PROVE  x = y
    <3>1. n \in Nat /\ n > 0 /\ (n = new \/ n \in 1 .. m_head)
      BY <1>1, <1>3
    <3>2. CASE n = new
      BY <1>4, <1>12, <2>2, <3>1, <3>2
    <3>3. CASE n # new
      <4>1. x \in DOMAIN scopes /\ y \in DOMAIN scopes /\ Owns(x, n) /\ Owns(y, n)
        BY <1>4, <1>12, <2>2, <3>1, <3>3
      <4> QED
        BY <3>1, <3>3, <4>1 DEF ServerInv, Numbered
    <3> QED
      BY <3>2, <3>3
  <2>3. ASSUME NEW n \in 1 .. m_head'
        PROVE  \E y \in DOMAIN scopes' : Owns(y, n)'
    <3>1. n \in Nat /\ n > 0 /\ (n = new \/ (n \in 1 .. m_head /\ n # new))
      BY <1>1, <1>3
    <3>2. CASE n = new
      BY <1>2, <1>4, <1>12, <3>1, <3>2
    <3>3. CASE n \in 1 .. m_head /\ n # new
      <4>1. PICK y \in DOMAIN scopes : Owns(y, n)
        BY <3>3 DEF ServerInv, Numbered
      <4> QED
        BY <1>4, <1>12, <3>1, <3>3, <4>1
    <3> QED
      BY <3>1, <3>2, <3>3
  <2>4. ASSUME NEW u \in Threads, sending'[u] = "begin"
        PROVE  scopes'[Last(open'[u])].parent =
                    IF Len(open'[u]) = 1 THEN None ELSE open'[u][Len(open'[u]) - 1]
    <3>1. sending[u] = "begin" /\ u # t
      BY <1>5, <2>4
    <3>2. Last(open[u]) \in DOMAIN scopes
      BY <3>1, UnsentFacts
    <3>3. scopes'[Last(open[u])].parent = scopes[Last(open[u])].parent
      BY <1>4, <3>2
    <3> QED
      BY <1>1, <3>1, <3>3 DEF ServerInv, Numbered
  <2> QED
    BY <2>1, <2>2, <2>3, <2>4 DEF Numbered
<1>16. Stacks'
  <2>1. \A u \in Threads : sending'[u] = "begin" <=> sending[u] = "begin"
    BY <1>1, <1>5
  <2> QED
    BY <1>1, <2>1 DEF ServerInv, Stacks
<1> QED
  BY <1>14, <1>15, <1>16 DEF ServerInv

-----------------------------------------------------------------------------
(* What is handed out and not reported has slots of its own.               *)
LEMMA PendingApart ==
    ASSUME RingInv, NEW n \in m_tail + idx + 1 .. m_head
    PROVE  /\ n \in Nat /\ n > 0 /\ Slot(n) \in QueryIds
           /\ \A m \in m_tail + idx + 1 .. m_head : m # n => Slot(m) # Slot(n)
<1>1. /\ m_head \in Nat /\ m_tail \in Nat /\ idx \in Nat /\ m_queryCount \in Nat /\ m_queryCount > 0
      /\ Types /\ m_head <= m_tail + m_queryCount
  <2>1. /\ m_head \in Nat /\ m_tail \in Nat /\ idx \in Nat /\ m_queryCount \in Nat /\ m_queryCount > 0
        /\ Types /\ m_head + Cardinality(Unclosed) <= m_tail + m_queryCount
    BY DEF RingInv, Types, Window
  <2>2. Cardinality(Unclosed) \in Nat
    BY UnclosedFinite DEF RingInv
  <2> QED
    BY <2>1, <2>2
<1>2. n \in Nat /\ n > 0
  BY <1>1
<1>3. ASSUME NEW m \in m_tail + idx + 1 .. m_head, m # n PROVE Slot(m) # Slot(n)
  <2>1. m \in Nat /\ m > 0
    BY <1>1
  <2>2. CASE m > n
    <3>1. m < n + m_queryCount
      BY <1>1
    <3> QED
      BY <1>1, <1>2, <2>1, <2>2, <3>1, SlotsDiffer
  <2>3. CASE m < n
    <3>1. n > m /\ n < m + m_queryCount
      BY <1>1, <2>3
    <3> QED
      BY <1>1, <1>2, <2>1, <3>1, SlotsDiffer
  <2> QED
    BY <1>2, <1>3, <2>1, <2>2, <2>3
<1> QED
  BY <1>1, <1>2, <1>3, SlotInPool

(* An event is queued: its number is no longer one of those the server has *)
(* not heard of, and every other is.                                       *)
LEMMA SentServer ==
    ASSUME RingInv, ServerInv, NEW t \in Threads, sending[t] # "no",
           UNCHANGED <<m_queryCount, m_head, m_tail, idx, scopes, queue, cmdbuf, stamps>>,
           sending' = [sending EXCEPT ![t] = "no"], \A u \in Threads : u # t => open'[u] = open[u]
    PROVE  /\ Numbered' /\ SentFirst'
           /\ \A n \in Nat : n > 0 => (n \in Unsent' <=> n \in Unsent /\ n # UnsentOf(t))
<1>1. sending'[t] = "no" /\ \A u \in Threads : u # t => sending'[u] = sending[u]
  BY DEF RingInv, Types
<1>2. \A u \in Threads : u # t => UnsentOf(u)' = UnsentOf(u) /\ open'[u] = open[u]
  BY <1>1 DEF UnsentOf
<1>3. \A z, n : Owns(z, n)' = Owns(z, n)
  BY DEF Owns
<1>4. Numbered'
  <2>1. \A u \in Threads : sending'[u] = "begin" => u # t
    BY <1>1
  <2>2. ASSUME NEW u \in Threads, sending'[u] = "begin"
        PROVE  scopes'[Last(open'[u])].parent =
                    IF Len(open'[u]) = 1 THEN None ELSE open'[u][Len(open'[u]) - 1]
    <3>1. sending[u] = "begin" /\ open'[u] = open[u]
      BY <1>1, <1>2, <2>2
    <3> QED
      BY <3>1 DEF ServerInv, Numbered
  <2> QED
    BY <1>3, <2>2 DEF ServerInv, Numbered
<1>5. SentFirst'
  <2>1. \A u \in Threads : sending'[u] # "no" =>
            u # t /\ sending[u] # "no" /\ UnsentOf(u)' = UnsentOf(u)
    BY <1>1, <1>2
  <2> QED
    BY <1>3, <2>1 DEF ServerInv, SentFirst
<1>6. ASSUME NEW n \in Nat, n > 0
      PROVE  n \in Unsent' <=> n \in Unsent /\ n # UnsentOf(t)
  <2>1. n \in Unsent' <=> \E u \in Threads : sending'[u] # "no" /\ UnsentOf(u)' = n
    BY <1>6 DEF Unsent, UnsentOf
  <2>2. n \in Unsent <=> \E u \in Threads : sending[u] # "no" /\ UnsentOf(u) = n
    BY <1>6, UnsentIs
  <2>3. \A u \in Threads : sending[u] # "no" /\ UnsentOf(u) = UnsentOf(t) => u = t
    BY UnsentApart
  <2> QED
    BY <1>1, <1>2, <2>1, <2>2, <2>3
<1> QED
  BY <1>4, <1>5, <1>6

(* A begin event: the thread's scope gets a zone, which waits for its      *)
(* query, whose slot nothing else waited for.                              *)
LEMMA SendBeginServer ==
    ASSUME RingInv, ServerInv, NEW t \in Threads, SendBegin(t)
    PROVE  ServerInv'
<1> DEFINE z == Last(open[t])
           b == scopes[z].beginQuery
           R == m_tail + idx
           k == Len(server.zones) + 1
           stack == server.stack[t]
<1>1. /\ sending[t] = "begin" /\ sending' = [sending EXCEPT ![t] = "no"]
      /\ UNCHANGED <<m_queryCount, m_head, m_tail, idx, scopes, open, queue, cmdbuf, stamps, m_refTimeGpu>>
      /\ server' = ProcessGpuZoneBegin(server, [thread |-> t, of |-> z, queryId |-> Slot(b)])
  BY DEF SendBegin, fixed, ring, col, gpu, Slot
<1>2. /\ UnsentOf(t) = b /\ b \in R + 1 .. m_head /\ b \in Nat /\ b > 0 /\ b \in Unsent
      /\ z \in DOMAIN scopes /\ Owns(z, b) /\ scopes[z].endQuery = 0 /\ z \in Nat
  <2>1. z \in DOMAIN scopes => z \in Nat
    BY DEF RingInv, Types
  <2> QED
    BY <1>1, <2>1, UnsentFacts
<1>3. /\ Slot(b) \in QueryIds /\ \A n \in R + 1 .. m_head : n # b => Slot(n) # Slot(b)
  BY <1>2, PendingApart
<1>4. server.query[Slot(b)] = None
  BY <1>2 DEF ServerInv, Waits
<1>5. /\ ServerTypes /\ ~server.fault /\ server.refTime = m_refTimeGpu
      /\ Len(server.zones) \in Nat /\ DOMAIN server.zones = 1 .. Len(server.zones)
      /\ stack \in Seq(Nat) /\ Len(stack) \in Nat /\ DOMAIN stack = 1 .. Len(stack)
  BY ServerFields DEF ServerInv, ServerAccepts
<1>6. /\ ServerTypes' /\ server'.refTime = server.refTime /\ ~server'.fault
      /\ DOMAIN server'.zones = 1 .. k
      /\ \A l \in DOMAIN server.zones : server'.zones[l] = server.zones[l]
      /\ server'.zones[k] = [of |-> z, parent |-> IF stack = <<>> THEN None ELSE Last(stack),
                             start |-> Untimed, end |-> Untimed]
      /\ \A u \in Threads : u # t => server'.stack[u] = server.stack[u]
      /\ DOMAIN server'.stack[t] = 1 .. Len(stack) + 1 /\ Len(server'.stack[t]) = Len(stack) + 1
      /\ server'.stack[t][Len(stack) + 1] = k
      /\ \A a \in DOMAIN stack : server'.stack[t][a] = stack[a]
      /\ server'.query[Slot(b)] = k
      /\ \A p \in QueryIds : p # Slot(b) => server'.query[p] = server.query[p]
  <2>1. m_queryCount' = m_queryCount
    BY <1>1
  <2>2. z \in Nat /\ Slot(b) \in QueryIds /\ ServerTypes
    BY <1>2, <1>3, <1>5
  <2>3. server' = ProcessGpuZoneBegin(server, [thread |-> t, of |-> z, queryId |-> Slot(b)])
    BY <1>1
  <2> HIDE DEF z, b, R
  <2>4. ~server.fault /\ server.query[Slot(b)] = None
    BY <1>4, <1>5
  <2> QED
    BY <2>1, <2>2, <2>3, <2>4, ZoneBegins
<1>7. /\ Numbered' /\ SentFirst'
      /\ \A n \in Nat : n > 0 => (n \in Unsent' <=> n \in Unsent /\ n # b)
  BY <1>1, <1>2, SentServer
<1>8. /\ \A n : Slot(n)' = Slot(n)
      /\ \A n : Reported(n)' = Reported(n)
      /\ \A y, n : Owns(y, n)' = Owns(y, n)
      /\ QueryIds' = QueryIds /\ m_tail' + idx' = R
  BY <1>1 DEF Slot, Reported, Owns, QueryIds
<1>9. \A l \in DOMAIN server.zones : /\ server.zones[l].of \in DOMAIN scopes
                                     /\ scopes[server.zones[l].of].beginQuery \notin Unsent
                                     /\ server.zones[l].of # z
  BY <1>2 DEF ServerInv, Zones
<1>10. DOMAIN server'.zones = DOMAIN server.zones \cup {k} /\ k \notin DOMAIN server.zones /\ k \in Nat
  BY <1>5, <1>6
<1>11. server'.zones[k].of = z /\ server'.zones[k].start = Untimed /\ server'.zones[k].end = Untimed
       /\ server'.zones[k].parent = IF stack = <<>> THEN None ELSE Last(stack)
  BY <1>6
<1>12. \A y \in DOMAIN scopes : scopes[y].beginQuery \in Nat /\ scopes[y].beginQuery > 0
  BY DEF ServerInv, Numbered
<1> HIDE DEF z, b, k, R
<1>13. /\ Len(stack) = Len(open[t]) - 1 /\ Len(open[t]) \in Nat /\ Len(open[t]) > 0
       /\ open[t][Len(open[t])] = z
       /\ \A a \in DOMAIN stack : /\ stack[a] \in DOMAIN server.zones
                                  /\ server.zones[stack[a]].of = open[t][a]
  <2>1. open[t] # <<>>
    BY <1>1 DEF RingInv, Scoped
  <2>2. Len(open[t]) \in Nat /\ Len(open[t]) > 0 /\ open[t][Len(open[t])] = z
    BY <2>1, Innermost DEF z
  <2>3. Len(stack) = Len(open[t]) - (IF sending[t] = "begin" THEN 1 ELSE 0)
    BY DEF ServerInv, Stacks
  <2> QED
    BY <1>1, <2>2, <2>3 DEF ServerInv, Stacks
<1>14. Stacks'
  <2> SUFFICES ASSUME NEW u \in Threads
               PROVE  /\ Len(server'.stack[u]) = Len(open[u]) - (IF sending'[u] = "begin" THEN 1 ELSE 0)
                      /\ \A a \in DOMAIN server'.stack[u] :
                            /\ server'.stack[u][a] \in DOMAIN server'.zones
                            /\ server'.zones[server'.stack[u][a]].of = open[u][a]
    BY <1>1 DEF Stacks
  <2>1. CASE u = t
    <3>1. sending'[t] = "no"
      BY <1>1 DEF RingInv, Types
    <3>2. Len(server'.stack[t]) = Len(open[t]) - 0
      BY <1>5, <1>6, <1>13
    <3>3. ASSUME NEW a \in DOMAIN server'.stack[t]
          PROVE  /\ server'.stack[t][a] \in DOMAIN server'.zones
                 /\ server'.zones[server'.stack[t][a]].of = open[t][a]
      <4>1. CASE a = Len(stack) + 1
        <5>1. a = Len(open[t])
          BY <1>5, <1>13, <4>1
        <5> QED
          BY <1>6, <1>10, <1>11, <1>13, <4>1, <5>1
      <4>2. CASE a \in DOMAIN stack
        <5>1. server'.stack[t][a] = stack[a]
          BY <1>6, <4>2
        <5>2. stack[a] \in DOMAIN server.zones /\ server.zones[stack[a]].of = open[t][a]
          BY <1>13, <4>2
        <5>3. stack[a] \in DOMAIN server'.zones
          BY <1>10, <5>2
        <5>4. server'.zones[stack[a]] = server.zones[stack[a]]
          BY <1>6, <5>2
        <5> QED
          BY <5>1, <5>2, <5>3, <5>4
      <4>3. a \in DOMAIN stack \/ a = Len(stack) + 1
        <5>1. a \in 1 .. Len(stack) + 1
          BY <1>6
        <5>2. Len(stack) \in Nat /\ DOMAIN stack = 1 .. Len(stack)
          BY <1>5
        <5> QED
          BY <5>1, <5>2
      <4> QED
        BY <4>1, <4>2, <4>3
    <3> QED
      BY <2>1, <3>1, <3>2, <3>3
  <2>2. CASE u # t
    <3>1. sending'[u] = sending[u]
      BY <1>1, <2>2 DEF RingInv, Types
    <3>2. /\ Len(server.stack[u]) = Len(open[u]) - (IF sending[u] = "begin" THEN 1 ELSE 0)
          /\ \A a \in DOMAIN server.stack[u] :
                /\ server.stack[u][a] \in DOMAIN server.zones
                /\ server.zones[server.stack[u][a]].of = open[u][a]
      BY DEF ServerInv, Stacks
    <3>3. server'.stack[u] = server.stack[u]
      BY <1>6, <2>2
    <3>4. \A l \in DOMAIN server.zones : l \in DOMAIN server'.zones /\ server'.zones[l] = server.zones[l]
      BY <1>6, <1>10
    <3> QED
      BY <3>1, <3>2, <3>3, <3>4
  <2> QED
    BY <2>1, <2>2
<1>15. Zones'
  <2>1. \A l \in DOMAIN server'.zones : /\ server'.zones[l].of \in DOMAIN scopes
                                        /\ scopes[server'.zones[l].of].beginQuery \notin Unsent'
    <3>1. b \notin Unsent'
      BY <1>2, <1>7
    <3>2. \A l \in DOMAIN server.zones : scopes[server.zones[l].of].beginQuery \notin Unsent'
      BY <1>7, <1>9, <1>12
    <3> QED
      BY <1>2, <1>6, <1>9, <1>10, <1>11, <3>1, <3>2 DEF b
  <2>2. \A l, m \in DOMAIN server'.zones : server'.zones[l].of = server'.zones[m].of => l = m
    BY <1>6, <1>9, <1>10, <1>11 DEF ServerInv, Zones
  <2> QED
    BY <1>1, <2>1, <2>2 DEF Zones
<1>16. Parents'
  <2> SUFFICES ASSUME NEW l \in DOMAIN server'.zones
               PROVE  IF scopes[server'.zones[l].of].parent = None THEN server'.zones[l].parent = None
                      ELSE /\ server'.zones[l].parent \in DOMAIN server'.zones
                           /\ server'.zones[server'.zones[l].parent].of = scopes[server'.zones[l].of].parent
    BY <1>1 DEF Parents
  <2>1. CASE l = k
    <3>1. scopes[z].parent = IF Len(open[t]) = 1 THEN None ELSE open[t][Len(open[t]) - 1]
      BY <1>1 DEF ServerInv, Numbered, z
    <3>2. CASE stack = <<>>
      <4>1. Len(open[t]) = 1
        BY <1>13, <3>2
      <4> QED
        BY <1>11, <2>1, <3>1, <3>2, <4>1
    <3>3. CASE stack # <<>>
      <4>1. Len(stack) > 0 /\ Last(stack) = stack[Len(stack)] /\ Len(stack) \in DOMAIN stack
        BY <1>5, <3>3 DEF Last
      <4>2. Len(open[t]) # 1 /\ Len(open[t]) - 1 = Len(stack)
        BY <1>5, <1>13, <4>1
      <4>3. scopes[z].parent = open[t][Len(stack)]
        BY <3>1, <4>2
      <4>4. /\ Last(stack) \in DOMAIN server.zones
            /\ server.zones[Last(stack)].of = scopes[z].parent
        BY <1>13, <4>1, <4>3
      <4>5. scopes[z].parent # None
        <5>1. scopes[z].parent \in DOMAIN scopes
          BY <1>9, <4>4
        <5> QED
          BY <5>1 DEF RingInv, Types, None
      <4> QED
        BY <1>6, <1>10, <1>11, <2>1, <3>3, <4>4, <4>5
    <3> QED
      BY <3>2, <3>3
  <2>2. CASE l \in DOMAIN server.zones
    <3>1. IF scopes[server.zones[l].of].parent = None THEN server.zones[l].parent = None
          ELSE /\ server.zones[l].parent \in DOMAIN server.zones
               /\ server.zones[server.zones[l].parent].of = scopes[server.zones[l].of].parent
      BY <2>2 DEF ServerInv, Parents
    <3> QED
      BY <1>6, <1>10, <2>2, <3>1
  <2> QED
    BY <1>10, <2>1, <2>2
<1>17. Times'
  <2> SUFFICES ASSUME NEW l \in DOMAIN server'.zones
               PROVE  LET scope == scopes[server'.zones[l].of]
                      IN  /\ server'.zones[l].start =
                                IF Reported(scope.beginQuery) THEN stamps[scope.beginQuery] ELSE Untimed
                          /\ server'.zones[l].end =
                                IF Reported(scope.endQuery) THEN stamps[scope.endQuery] ELSE Untimed
    BY <1>1, <1>8 DEF Times
  <2>1. CASE l = k
    <3>1. ~Reported(b) /\ ~Reported(0)
      BY <1>2 DEF Reported, R, RingInv, Types
    <3> QED
      BY <1>2, <1>11, <2>1, <3>1 DEF b
  <2>2. CASE l \in DOMAIN server.zones
    BY <1>6, <2>2 DEF ServerInv, Times
  <2> QED
    BY <1>10, <2>1, <2>2
<1>18. Waits'
  <2>1. ASSUME NEW n \in R + 1 .. m_head, NEW y \in DOMAIN scopes, Owns(y, n)
        PROVE  IF n \in Unsent' THEN server'.query[Slot(n)] = None
               ELSE /\ server'.query[Slot(n)] \in DOMAIN server'.zones
                    /\ server'.zones[server'.query[Slot(n)]].of = y
    <3>1. n \in Nat /\ n > 0 /\ Slot(n) \in QueryIds
      BY PendingApart DEF R
    <3>2. CASE n = b
      <4>1. y = z
        <5>1. b \in 1 .. m_head
          BY <1>2 DEF R, RingInv, Types
        <5> QED
          BY <1>2, <2>1, <3>2, <5>1 DEF ServerInv, Numbered
      <4>2. n \notin Unsent'
        BY <1>2, <1>7, <3>2
      <4> QED
        BY <1>6, <1>10, <1>11, <3>2, <4>1, <4>2
    <3>3. CASE n # b
      <4>1. IF n \in Unsent THEN server.query[Slot(n)] = None
            ELSE /\ server.query[Slot(n)] \in DOMAIN server.zones
                 /\ server.zones[server.query[Slot(n)]].of = y
        BY <2>1 DEF ServerInv, Waits, R
      <4>2. server'.query[Slot(n)] = server.query[Slot(n)] /\ (n \in Unsent' <=> n \in Unsent)
        BY <1>3, <1>6, <1>7, <3>1, <3>3
      <4> QED
        BY <1>6, <1>10, <4>1, <4>2
    <3> QED
      BY <3>2, <3>3
  <2>2. ASSUME NEW q \in QueryIds, \A n \in R + 1 .. m_head : Slot(n) # q
        PROVE  server'.query[q] = None
    <3>1. server.query[q] = None /\ q # Slot(b)
      BY <1>2, <2>2 DEF ServerInv, Waits, R
    <3> QED
      BY <1>6, <3>1
  <2> QED
    BY <1>1, <1>8, <2>1, <2>2 DEF Waits
<1> QED
  BY <1>1, <1>5, <1>6, <1>7, <1>14, <1>15, <1>16, <1>17, <1>18 DEF ServerInv, ServerAccepts

(* An end event: the innermost zone of the thread is left and waits for    *)
(* its second query, whose slot nothing else waited for.                   *)
LEMMA SendEndServer ==
    ASSUME RingInv, ServerInv, NEW t \in Threads, SendEnd(t)
    PROVE  ServerInv'
<1> DEFINE z == Last(open[t])
           e == scopes[z].endQuery
           R == m_tail + idx
           stack == server.stack[t]
           L == Len(open[t])
<1>1. /\ sending[t] = "end" /\ sending' = [sending EXCEPT ![t] = "no"]
      /\ UNCHANGED <<m_queryCount, m_head, m_tail, idx, scopes, queue, cmdbuf, stamps, m_refTimeGpu>>
      /\ server' = ProcessGpuZoneEnd(server, [thread |-> t, queryId |-> Slot(e)])
      /\ open' = [open EXCEPT ![t] = Front(@)]
  BY DEF SendEnd, fixed, ring, col, gpu, Slot
<1>2. /\ UnsentOf(t) = e /\ e \in R + 1 .. m_head /\ e \in Nat /\ e > 0 /\ e \in Unsent
      /\ z \in DOMAIN scopes /\ Owns(z, e)
  BY <1>1, UnsentFacts
<1>3. /\ Slot(e) \in QueryIds /\ \A n \in R + 1 .. m_head : n # e => Slot(n) # Slot(e)
  BY <1>2, PendingApart
<1>4. server.query[Slot(e)] = None
  BY <1>2 DEF ServerInv, Waits
<1>5. /\ ServerTypes /\ ~server.fault /\ server.refTime = m_refTimeGpu
      /\ stack \in Seq(Nat) /\ Len(stack) \in Nat /\ DOMAIN stack = 1 .. Len(stack)
  BY ServerFields DEF ServerInv, ServerAccepts
<1>6. /\ L \in Nat /\ L > 0 /\ DOMAIN open[t] = 1 .. L /\ open[t][L] = z
      /\ Len(Front(open[t])) = L - 1 /\ \A a \in 1 .. L - 1 : Front(open[t])[a] = open[t][a]
      /\ open'[t] = Front(open[t]) /\ \A u \in Threads : u # t => open'[u] = open[u]
  <2>1. open[t] # <<>> /\ open \in [Threads -> Seq(Nat)] /\ open[t] \in Seq(Nat)
    BY <1>1 DEF RingInv, Scoped, Types
  <2> QED
    BY <1>1, <2>1, FrontLast
<1>7. /\ Len(stack) = L /\ stack # <<>> /\ stack[L] \in DOMAIN server.zones /\ server.zones[stack[L]].of = z
      /\ \A a \in 1 .. L : /\ stack[a] \in DOMAIN server.zones
                           /\ server.zones[stack[a]].of = open[t][a]
  <2>1. /\ Len(stack) = L - (IF sending[t] = "begin" THEN 1 ELSE 0)
        /\ \A a \in DOMAIN stack : /\ stack[a] \in DOMAIN server.zones
                                   /\ server.zones[stack[a]].of = open[t][a]
    BY DEF ServerInv, Stacks
  <2>2. Len(stack) = L
    BY <1>1, <1>6, <2>1
  <2>3. L \in 1 .. L /\ stack # <<>>
    BY <1>5, <1>6, <2>2
  <2> HIDE DEF stack, L
  <2> QED
    BY <1>5, <1>6, <2>1, <2>2, <2>3
<1>8. /\ ServerTypes' /\ server'.refTime = server.refTime /\ server'.fault = server.fault
      /\ server'.zones = server.zones
      /\ \A u \in Threads : u # t => server'.stack[u] = server.stack[u]
      /\ Len(server'.stack[t]) = L - 1 /\ DOMAIN server'.stack[t] = 1 .. L - 1
      /\ \A a \in 1 .. L - 1 : server'.stack[t][a] = stack[a]
      /\ server'.query[Slot(e)] = stack[L]
      /\ \A p \in QueryIds : p # Slot(e) => server'.query[p] = server.query[p]
  <2> HIDE DEF e, L
  <2>1. m_queryCount' = m_queryCount
    BY <1>1
  <2>2. server' = ProcessGpuZoneEnd(server, [thread |-> t, queryId |-> Slot(e)])
    BY <1>1
  <2> QED
    BY <1>3, <1>4, <1>5, <1>7, <2>1, <2>2, ZoneEnds
<1>9. /\ Numbered' /\ SentFirst'
      /\ \A n \in Nat : n > 0 => (n \in Unsent' <=> n \in Unsent /\ n # e)
  BY <1>1, <1>2, <1>6, SentServer
<1>10. /\ \A n : Slot(n)' = Slot(n)
       /\ \A n : Reported(n)' = Reported(n)
       /\ \A y, n : Owns(y, n)' = Owns(y, n)
       /\ QueryIds' = QueryIds /\ m_tail' + idx' = R
  BY <1>1 DEF Slot, Reported, Owns, QueryIds
<1>11. \A y \in DOMAIN scopes : scopes[y].beginQuery \in Nat /\ scopes[y].beginQuery > 0
  BY DEF ServerInv, Numbered
<1> HIDE DEF z, e, R, L, stack
<1>12. Stacks'
  <2> SUFFICES ASSUME NEW u \in Threads
               PROVE  /\ Len(server'.stack[u]) = Len(open'[u]) - (IF sending'[u] = "begin" THEN 1 ELSE 0)
                      /\ \A a \in DOMAIN server'.stack[u] :
                            /\ server'.stack[u][a] \in DOMAIN server'.zones
                            /\ server'.zones[server'.stack[u][a]].of = open'[u][a]
    BY DEF Stacks
  <2>1. CASE u = t
    <3>1. sending'[t] = "no"
      BY <1>1 DEF RingInv, Types
    <3>2. Len(server'.stack[t]) = Len(open'[t]) - 0
      BY <1>6, <1>8
    <3>3. 1 .. L - 1 \subseteq 1 .. L
      BY <1>6
    <3> QED
      BY <1>6, <1>7, <1>8, <2>1, <3>1, <3>2, <3>3
  <2>2. CASE u # t
    <3>1. sending'[u] = sending[u]
      BY <1>1, <2>2 DEF RingInv, Types
    <3>2. /\ Len(server.stack[u]) = Len(open[u]) - (IF sending[u] = "begin" THEN 1 ELSE 0)
          /\ \A a \in DOMAIN server.stack[u] :
                /\ server.stack[u][a] \in DOMAIN server.zones
                /\ server.zones[server.stack[u][a]].of = open[u][a]
      BY DEF ServerInv, Stacks
    <3>3. server'.stack[u] = server.stack[u] /\ open'[u] = open[u]
      BY <1>6, <1>8, <2>2
    <3>4. server'.zones = server.zones
      BY <1>8
    <3> QED
      BY <3>1, <3>2, <3>3, <3>4
  <2> QED
    BY <2>1, <2>2
<1>13. Zones' /\ Parents' /\ Times'
  <2>1. \A y \in DOMAIN scopes : scopes[y].beginQuery \notin Unsent => scopes[y].beginQuery \notin Unsent'
    BY <1>9, <1>11
  <2>2. Zones'
    BY <1>1, <1>8, <2>1 DEF ServerInv, Zones
  <2>3. Parents'
    BY <1>1, <1>8 DEF ServerInv, Parents
  <2>4. Times'
    <3>1. scopes' = scopes /\ stamps' = stamps /\ server'.zones = server.zones
      BY <1>1, <1>8
    <3>2. \A n : Reported(n)' = Reported(n)
      BY <1>10
    <3> QED
      BY <3>1, <3>2 DEF ServerInv, Times
  <2> QED
    BY <2>2, <2>3, <2>4
<1>14. Waits'
  <2>1. ASSUME NEW n \in R + 1 .. m_head, NEW y \in DOMAIN scopes, Owns(y, n)
        PROVE  IF n \in Unsent' THEN server'.query[Slot(n)] = None
               ELSE /\ server'.query[Slot(n)] \in DOMAIN server'.zones
                    /\ server'.zones[server'.query[Slot(n)]].of = y
    <3>1. n \in Nat /\ n > 0 /\ Slot(n) \in QueryIds
      BY PendingApart DEF R
    <3>2. CASE n = e
      <4>1. y = z
        <5>1. e \in 1 .. m_head
          BY <1>2 DEF R, RingInv, Types
        <5> QED
          BY <1>2, <2>1, <3>2, <5>1 DEF ServerInv, Numbered
      <4>2. n \notin Unsent'
        BY <1>2, <1>9, <3>2
      <4> QED
        BY <1>7, <1>8, <3>2, <4>1, <4>2
    <3>3. CASE n # e
      <4>1. IF n \in Unsent THEN server.query[Slot(n)] = None
            ELSE /\ server.query[Slot(n)] \in DOMAIN server.zones
                 /\ server.zones[server.query[Slot(n)]].of = y
        BY <2>1 DEF ServerInv, Waits, R
      <4>2. server'.query[Slot(n)] = server.query[Slot(n)] /\ (n \in Unsent' <=> n \in Unsent)
        BY <1>3, <1>8, <1>9, <3>1, <3>3
      <4> QED
        BY <1>8, <4>1, <4>2
    <3> QED
      BY <3>2, <3>3
  <2>2. ASSUME NEW q \in QueryIds, \A n \in R + 1 .. m_head : Slot(n) # q
        PROVE  server'.query[q] = None
    <3>1. server.query[q] = None /\ q # Slot(e)
      BY <1>2, <2>2 DEF ServerInv, Waits, R
    <3> QED
      BY <1>8, <3>1
  <2> QED
    BY <1>1, <1>10, <2>1, <2>2 DEF Waits
<1> QED
  BY <1>1, <1>5, <1>8, <1>9, <1>12, <1>13, <1>14 DEF ServerInv, ServerAccepts

(* A time is reported: the zone that waits for the query is the one whose  *)
(* number it is; its begin is timed first, and then its end.               *)
LEMMA ReportServer ==
    ASSUME RingInv, ServerInv, CollectReport
    PROVE  ServerInv'
<1> DEFINE R == m_tail + idx
           n == m_tail + idx + 1
           k == server.query[Slot(n)]
           time == stamps[n]
<1>1. /\ UNCHANGED <<m_queryCount, m_head, m_tail, scopes, open, sending, queue, cmdbuf, stamps>>
      /\ idx' = idx + 1 /\ m_refTimeGpu' = time /\ time # NotReady /\ n <= m_head
      /\ server' = ProcessGpuTime(server, [queryId |-> Slot(n), delta |-> time - m_refTimeGpu])
  BY ReportRing DEF CollectReport, GpuTime, fixed, ring, app, gpu
<1>2. /\ m_tail \in Nat /\ idx \in Nat /\ m_head \in Nat /\ m_refTimeGpu \in Nat
      /\ stamps \in Seq(Nat) /\ m_head = Len(stamps)
  BY DEF RingInv, Types, Window
<1>3. n \in R + 1 .. m_head /\ n \in 1 .. m_head /\ n \in Nat /\ n > 0 /\ time \in Nat
  BY <1>1, <1>2
<1>4. Slot(n) \in QueryIds /\ \A m \in R + 1 .. m_head : m # n => Slot(m) # Slot(n)
  BY <1>3, PendingApart
<1>5. n \notin Unsent
  <2>1. \A u \in Threads : sending[u] # "no" => stamps[UnsentOf(u)] = NotReady
    BY DEF ServerInv, SentFirst
  <2>2. n \in Unsent <=> \E u \in Threads : sending[u] # "no" /\ UnsentOf(u) = n
    BY <1>3, UnsentIs
  <2> QED
    BY <1>1, <2>1, <2>2
<1>6. PICK z \in DOMAIN scopes : Owns(z, n)
  BY <1>3 DEF ServerInv, Numbered
<1>7. k \in DOMAIN server.zones /\ server.zones[k].of = z
  BY <1>3, <1>5, <1>6 DEF ServerInv, Waits
<1>8. /\ ServerTypes /\ ~server.fault /\ server.refTime = m_refTimeGpu
      /\ DOMAIN server.zones = 1 .. Len(server.zones)
  BY ServerFields DEF ServerInv, ServerAccepts
<1>9. /\ ServerTypes' /\ server'.refTime = time /\ server'.fault = server.fault
      /\ server'.stack = server.stack /\ server'.query[Slot(n)] = None
      /\ \A p \in QueryIds : p # Slot(n) => server'.query[p] = server.query[p]
      /\ DOMAIN server'.zones = DOMAIN server.zones
      /\ \A l \in DOMAIN server.zones : l # k => server'.zones[l] = server.zones[l]
      /\ server'.zones[k].of = server.zones[k].of /\ server'.zones[k].parent = server.zones[k].parent
      /\ server'.zones[k].start = IF server.zones[k].start = Untimed THEN time ELSE server.zones[k].start
      /\ server'.zones[k].end = IF server.zones[k].start = Untimed THEN server.zones[k].end ELSE time
  <2> HIDE DEF n, time
  <2>1. time - m_refTimeGpu \in Int /\ server.refTime + (time - m_refTimeGpu) = time
    BY <1>2, <1>3, <1>8
  <2>2. m_queryCount' = m_queryCount
    BY <1>1
  <2>3. server' = ProcessGpuTime(server, [queryId |-> Slot(n), delta |-> time - m_refTimeGpu])
    BY <1>1
  <2> DEFINE delta == time - m_refTimeGpu
  <2> HIDE DEF delta
  <2>4. delta \in Int /\ server.refTime + delta = time
    BY <2>1 DEF delta
  <2>5. server' = ProcessGpuTime(server, [queryId |-> Slot(n), delta |-> delta])
    BY <2>3 DEF delta
  <2>6. server.query[Slot(n)] \in DOMAIN server.zones
    BY <1>7
  <2> QED
    BY <1>4, <1>8, <2>2, <2>4, <2>5, <2>6, ZoneTimed
<1>10. \A l \in DOMAIN server.zones : /\ server'.zones[l].of = server.zones[l].of
                                      /\ server'.zones[l].parent = server.zones[l].parent
  BY <1>9
<1>11. /\ \A m : Slot(m)' = Slot(m)
       /\ \A y, m : Owns(y, m)' = Owns(y, m)
       /\ Unsent' = Unsent /\ QueryIds' = QueryIds /\ m_tail' + idx' = R + 1
       /\ \A u : UnsentOf(u)' = UnsentOf(u)
  BY <1>1, <1>2 DEF Slot, Owns, QueryIds, Unsent, UnsentOf
<1> DEFINE Told(m) == m # 0 /\ m <= R + 1
<1>12. \A m \in Nat : Told(m) <=> Reported(m) \/ m = n
  BY <1>2 DEF Reported
<1>13. Numbered' /\ SentFirst'
  <2>1. Numbered'
    BY <1>1, <1>11 DEF ServerInv, Numbered
  <2>2. SentFirst'
    BY <1>1, <1>11 DEF ServerInv, SentFirst
  <2> QED
    BY <2>1, <2>2
<1>14. /\ scopes[z].beginQuery \in 1 .. m_head /\ scopes[z].endQuery \in Nat
       /\ scopes[z].endQuery # 0 => scopes[z].endQuery \in scopes[z].beginQuery + 1 .. m_head
  BY ScopeTypes DEF ServerInv, Numbered
<1>15. ~Reported(n) /\ \A m \in Nat : m > 0 /\ m < n => Reported(m)
  BY <1>2 DEF Reported
<1> HIDE DEF n, time, k, Told
<1>16. Stacks'
  <2> SUFFICES ASSUME NEW u \in Threads
               PROVE  /\ Len(server'.stack[u]) = Len(open[u]) - (IF sending[u] = "begin" THEN 1 ELSE 0)
                      /\ \A a \in DOMAIN server'.stack[u] :
                            /\ server'.stack[u][a] \in DOMAIN server'.zones
                            /\ server'.zones[server'.stack[u][a]].of = open[u][a]
    BY <1>1 DEF Stacks
  <2>1. /\ Len(server.stack[u]) = Len(open[u]) - (IF sending[u] = "begin" THEN 1 ELSE 0)
        /\ \A a \in DOMAIN server.stack[u] :
            /\ server.stack[u][a] \in DOMAIN server.zones
            /\ server.zones[server.stack[u][a]].of = open[u][a]
    BY DEF ServerInv, Stacks
  <2>2. server'.stack = server.stack /\ DOMAIN server'.zones = DOMAIN server.zones
    BY <1>9
  <2> QED
    BY <1>10, <2>1, <2>2
<1>17. Zones'
  <2>1. scopes' = scopes /\ Unsent' = Unsent /\ DOMAIN server'.zones = DOMAIN server.zones
    BY <1>1, <1>9, <1>11
  <2> QED
    BY <1>10, <2>1 DEF ServerInv, Zones
<1>18. Parents'
  <2> SUFFICES ASSUME NEW l \in DOMAIN server.zones
               PROVE  IF scopes[server'.zones[l].of].parent = None THEN server'.zones[l].parent = None
                      ELSE /\ server'.zones[l].parent \in DOMAIN server'.zones
                           /\ server'.zones[server'.zones[l].parent].of = scopes[server'.zones[l].of].parent
    BY <1>1, <1>9 DEF Parents
  <2>1. IF scopes[server.zones[l].of].parent = None THEN server.zones[l].parent = None
        ELSE /\ server.zones[l].parent \in DOMAIN server.zones
             /\ server.zones[server.zones[l].parent].of = scopes[server.zones[l].of].parent
    BY DEF ServerInv, Parents
  <2> QED
    BY <1>9, <1>10, <2>1
<1>19. Times'
  <2> SUFFICES ASSUME NEW l \in DOMAIN server.zones
               PROVE  LET scope == scopes[server'.zones[l].of]
                      IN  /\ server'.zones[l].start =
                                IF Told(scope.beginQuery) THEN stamps[scope.beginQuery] ELSE Untimed
                          /\ server'.zones[l].end =
                                IF Told(scope.endQuery) THEN stamps[scope.endQuery] ELSE Untimed
    <3>1. scopes' = scopes /\ stamps' = stamps /\ DOMAIN server'.zones = DOMAIN server.zones
      BY <1>1, <1>9
    <3> QED
      BY <1>11, <3>1 DEF Times, Reported, Told
  <2>1. LET scope == scopes[server.zones[l].of]
        IN  /\ server.zones[l].start = IF Reported(scope.beginQuery) THEN stamps[scope.beginQuery] ELSE Untimed
            /\ server.zones[l].end = IF Reported(scope.endQuery) THEN stamps[scope.endQuery] ELSE Untimed
    BY DEF ServerInv, Times
  <2>2. server.zones[l].of \in DOMAIN scopes /\ (server.zones[l].of = z => l = k)
    BY <1>7 DEF ServerInv, Zones
  <2> DEFINE y == server.zones[l].of
             b == scopes[y].beginQuery
             e == scopes[y].endQuery
  <2>3. b \in Nat /\ e \in Nat /\ server'.zones[l].of = y
    BY <1>10, <2>2, ScopeTypes
  <2>4. CASE l # k
    <3>1. b # n /\ e # n
      <4>1. ~Owns(y, n)
        BY <1>3, <1>6, <2>2, <2>4 DEF ServerInv, Numbered
      <4> QED
        BY <4>1 DEF Owns
    <3> QED
      BY <1>9, <1>12, <2>1, <2>3, <2>4, <3>1
  <2>5. CASE l = k
    <3>1. y = z /\ (b = n \/ e = n) /\ b > 0 /\ (e # 0 => e > b)
      BY <1>6, <1>7, <1>14, <2>5 DEF Owns
    <3> HIDE DEF b, e, y
    <3>2. CASE b = n
      <4>1. e # n /\ server.zones[k].start = Untimed
        BY <1>3, <1>15, <2>1, <2>3, <2>5, <3>1, <3>2 DEF b, e, y
      <4>2. server'.zones[l].start = time /\ server'.zones[l].end = server.zones[l].end
        BY <1>9, <2>5, <4>1
      <4> QED
        BY <1>3, <1>12, <2>1, <2>3, <3>2, <4>1, <4>2 DEF b, e, y, time
    <3>3. CASE b # n
      <4>1. e = n /\ b < n
        BY <1>3, <2>3, <3>1, <3>3
      <4>2. Reported(b) /\ server.zones[k].start = stamps[b]
        BY <1>15, <2>1, <2>3, <2>5, <3>1, <4>1 DEF b, y
      <4>3. stamps[b] # Untimed
        <5>1. b \in 1 .. m_head
          BY <1>3, <1>2, <2>3, <3>1, <4>1
        <5>2. stamps[b] \in Nat
          BY <1>2, <5>1
        <5> QED
          BY <5>2 DEF Untimed
      <4>4. server'.zones[l].start = stamps[b] /\ server'.zones[l].end = time
        BY <1>9, <2>5, <4>2, <4>3
      <4> QED
        BY <1>3, <1>12, <2>3, <4>1, <4>2, <4>4 DEF b, e, y, time
    <3> QED
      BY <3>2, <3>3
  <2> QED
    BY <2>4, <2>5
<1>20. Waits'
  <2>1. R + 1 .. m_head = (R + 1 + 1 .. m_head) \cup {n} /\ \A m \in R + 1 + 1 .. m_head : m # n
    BY <1>2, <1>3 DEF R, n
  <2>2. ASSUME NEW m \in R + 1 + 1 .. m_head, NEW y \in DOMAIN scopes, Owns(y, m)
        PROVE  IF m \in Unsent THEN server'.query[Slot(m)] = None
               ELSE /\ server'.query[Slot(m)] \in DOMAIN server'.zones
                    /\ server'.zones[server'.query[Slot(m)]].of = y
    <3>1. m \in R + 1 .. m_head /\ m # n
      BY <2>1
    <3>2. Slot(m) \in QueryIds /\ Slot(m) # Slot(n)
      BY <1>4, <3>1, PendingApart DEF R
    <3>3. IF m \in Unsent THEN server.query[Slot(m)] = None
          ELSE /\ server.query[Slot(m)] \in DOMAIN server.zones
               /\ server.zones[server.query[Slot(m)]].of = y
      BY <2>2, <3>1 DEF ServerInv, Waits, R
    <3> QED
      BY <1>9, <1>10, <3>2, <3>3
  <2>3. ASSUME NEW q \in QueryIds, \A m \in R + 1 + 1 .. m_head : Slot(m) # q
        PROVE  server'.query[q] = None
    <3>1. CASE q = Slot(n)
      BY <1>9, <3>1
    <3>2. CASE q # Slot(n)
      <4>1. server.query[q] = None
        BY <2>1, <2>3, <3>2 DEF ServerInv, Waits, R
      <4> QED
        BY <1>9, <3>2, <4>1
    <3> QED
      BY <3>1, <3>2
  <2> QED
    BY <1>1, <1>11, <2>2, <2>3 DEF Waits
<1> QED
  BY <1>1, <1>8, <1>9, <1>13, <1>16, <1>17, <1>18, <1>19, <1>20 DEF ServerInv, ServerAccepts

-----------------------------------------------------------------------------
(* Every step keeps the server's state and the ring's together.            *)
LEMMA StepServer == RingInv /\ ServerInv /\ [Next]_vars => ServerInv'
<1> SUFFICES ASSUME RingInv, ServerInv, [Next]_vars PROVE ServerInv'
  OBVIOUS
<1>1. ASSUME NEW t \in Threads, Scope(t) PROVE ServerInv'
  BY <1>1, OpenScopeServer, SendBeginServer, CloseScopeServer, SendEndServer DEF Scope
<1>2. ASSUME NEW t \in Threads, Submit(t) PROVE ServerInv'
  BY <1>2, SubmitServer
<1>3. CASE GpuExecute
  BY <1>3, ExecuteServer
<1>4. CASE Collect
  BY <1>4, CollectServer, ReportServer DEF Collect
<1>5. CASE UNCHANGED vars
  BY <1>5, CollectServer
<1> QED
  BY <1>1, <1>2, <1>3, <1>4, <1>5 DEF Next

(* In every reachable state the server has what was sent and no more.      *)
LEMMA ServerInvariant == Spec => []ServerInv
<1>1. RingInv /\ RingInv' /\ ServerInv /\ [Next]_vars => ServerInv'
  BY StepServer
<1> QED
  BY InitServer, <1>1, RingInvariant, PTL DEF Spec

(* The server's assertions hold whatever the ring's size and the order of  *)
(* threads, GPU and collects: no begin or end meets a query that is taken, *)
(* no time a query that nobody waits for.                                  *)
THEOREM ServerNeverFaults == Spec => []ServerAccepts
<1>1. ServerInv => ServerAccepts
  BY DEF ServerInv
<1> QED
  BY <1>1, ServerInvariant, PTL

(* What the viewer draws is what the GPU did: each zone has the times of   *)
(* its own two queries and lies in the zone of the enclosing scope.        *)
THEOREM TimelineIsTrue == Spec => []TimelineIsReal
<1>1. ServerInv => TimelineIsReal
  <2> SUFFICES ASSUME ServerInv, NEW i \in DOMAIN server.zones
               PROVE  LET zone  == server.zones[i]
                          scope == scopes[zone.of]
                      IN  /\ zone.start # Untimed => zone.start = stamps[scope.beginQuery]
                          /\ zone.end # Untimed => scope.endQuery # 0 /\ zone.end = stamps[scope.endQuery]
                          /\ IF scope.parent = None THEN zone.parent = None
                             ELSE server.zones[zone.parent].of = scope.parent
    BY DEF TimelineIsReal
  <2>1. LET zone  == server.zones[i]
            scope == scopes[zone.of]
        IN  /\ zone.start = IF Reported(scope.beginQuery) THEN stamps[scope.beginQuery] ELSE Untimed
            /\ zone.end = IF Reported(scope.endQuery) THEN stamps[scope.endQuery] ELSE Untimed
    BY DEF ServerInv, Times
  <2>2. LET zone  == server.zones[i]
            scope == scopes[zone.of]
        IN  IF scope.parent = None THEN zone.parent = None
            ELSE server.zones[zone.parent].of = scope.parent
    BY DEF ServerInv, Parents
  <2>3. ~Reported(0)
    BY DEF Reported
  <2> QED
    BY <2>1, <2>2, <2>3
<1> QED
  BY <1>1, ServerInvariant, PTL
=============================================================================
