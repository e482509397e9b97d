----------------------- MODULE TracyQuerySpaceProofs -----------------------
(***************************************************************************)
(* For every script, frame size and size of the connection: while a        *)
(* session lasts no question of the server gets lost or is answered twice, *)
(* each one on its way holds a unit of the query space, and the server's   *)
(* sends never block.  The argument: a question is in exactly one of the   *)
(* places it can be in, each step moves it to the next one, and only the   *)
(* answer that Exec handles takes it away.                                 *)
(***************************************************************************)
EXTENDS TracySessionProofs, FiniteSetTheorems

(* The places a question can be in, those of the road from the server      *)
(* through the client and back, and what is in each.                       *)
Road == Producers \cup {"up", "frames", "buffer", "down", "unread", "current"}
Waiting == {"prio", "low"}
Places == Road \cup Waiting

Stock ==
    [a \in Places |->
        CASE a \in Producers -> Questions(queue[a])
          [] a = "up"        -> Questions(up)
          [] a = "frames"    -> Questions(m_symbolQueue)
          [] a = "buffer"    -> Questions(buffer)
          [] a = "down"      -> InFrames(down)
          [] a = "unread"    -> InFrames(Unread)
          [] a = "current"   -> Questions(current.frame)
          [] a = "prio"      -> Questions(prioQueue)
          [] a = "low"       -> Questions(lowQueue)]

In(F, S) == UNION {F[a] : a \in S}

(* No question is twice in a sequence, in one of frames, in two places.    *)
Single(s) == \A i, j \in DOMAIN s : s[i] = s[j] /\ s[i].kind \in QueryKinds => i = j
Separate(fs) ==
    /\ \A i \in DOMAIN fs : Single(fs[i])
    /\ \A i, j \in DOMAIN fs : i # j => Questions(fs[i]) \cap Questions(fs[j]) = {}
Disjoint(F) == \A a, b \in Places : a # b => F[a] \cap F[b] = {}

ClientSingle ==
    /\ Single(up) /\ Single(m_symbolQueue) /\ \A p \in Producers : Single(queue[p])
    /\ Single(buffer) /\ Separate(down)
ServerSingle ==
    /\ Separate(Unread) /\ Single(current.frame) /\ Single(prioQueue) /\ Single(lowQueue)
Scattered == ClientSingle /\ ServerSingle /\ Disjoint(Stock)

(* Which phases of the client and of the server go together: a server is   *)
(* connected only while the client knows it, and a client accepts once.    *)
Phases ==
    /\ exec \in {"connect", "handshake", "check", "wait", "process", "closed"}
    /\ worker \notin {"accept", "reject", "gone"} => clientEnd = "open"
    /\ worker = "lost" => ~ClientSees
    /\ worker = "accept" => reply # "welcome" /\ ~Connected
    /\ Connected \/ exec = "handshake" => serverEnd = "open"

(* Before a session there are no questions.                                *)
AllQuestions(s) == \A i \in DOMAIN s : s[i].kind \in QueryKinds
Begins ==
    /\ \A i \in DOMAIN script : script[i].kind \notin QueryKinds
    /\ worker = "accept" \/ (exec \in {"connect", "handshake"} /\ reply = "welcome") =>
          In(Stock, Places) = {}
    /\ exec \in {"connect", "handshake"} =>
          /\ up = <<>> /\ prioQueue = <<>> /\ lowQueue = <<>>
          /\ asked = {} /\ answered = {} /\ spaceLeft = QuerySpaceBase

(* All that is somewhere, P, was asked and not answered; what is on the    *)
(* road, R, is paid for with the query space: all of it, with nothing lost,*)
(* while the connection lasts.                                             *)
Bounded(P, R, ask, answer, space) ==
    /\ answer \subseteq ask /\ P \subseteq ask \ answer
    /\ IsFiniteSet(R) /\ space \in Nat /\ Cardinality(R) + space <= QuerySpaceBase
Exact(P, R, ask, answer, space) ==
    /\ ask \ answer \subseteq P
    /\ Cardinality(R) + space = QuerySpaceBase

(* In a session each question asked is in one place, or answered.          *)
Counted ==
    /\ Scattered
    /\ AllQuestions(up) /\ AllQuestions(prioQueue) /\ AllQuestions(lowQueue)
    /\ Bounded(In(Stock, Places), In(Stock, Road), asked, answered, spaceLeft)
    /\ Talking => Exact(In(Stock, Places), In(Stock, Road), asked, answered, spaceLeft)
    /\ exec # "process" /\ spaceLeft > 0 => prioQueue = <<>> /\ lowQueue = <<>>

SpaceInv ==
    /\ SessionInv /\ Phases /\ Begins
    /\ Connected => Counted
    /\ exec = "closed" => Len(up) <= QuerySpaceBase + 1

-----------------------------------------------------------------------------
(* The question a message is, if it is one.                                *)
Of(m) == {x \in {m} : x.kind \in QueryKinds}

(* The questions among messages.                                           *)
LEMMA QuestionsAre ==
  \A s : \A m : m \in Questions(s) <=> m.kind \in QueryKinds /\ \E i \in DOMAIN s : s[i] = m
BY DEF Questions, Range

(* What is empty asks nothing.                                             *)
LEMMA SingleEmpty == Questions(<<>>) = {} /\ Single(<<>>) /\ InFrames(<<>>) = {} /\ Separate(<<>>)
BY DEF Questions, Range, Single, InFrames, Separate

(* A sequence without questions has none twice.                            *)
LEMMA SingleNone == \A s : Questions(s) = {} => Single(s)
BY QuestionsAre DEF Single

(* A message is added to a sequence.                                       *)
LEMMA SingleAppend ==
  ASSUME NEW s \in Seq(AnyMsg), NEW m \in AnyMsg
  PROVE  /\ Questions(Append(s, m)) = Questions(s) \cup Of(m)
         /\ Single(s) /\ Questions(s) \cap Of(m) = {} => Single(Append(s, m))
<1> DEFINE t == Append(s, m)
<1>1. /\ Len(s) \in Nat /\ DOMAIN s = 1..Len(s) /\ DOMAIN t = 1..(Len(s) + 1)
      /\ \A i \in 1..Len(s) : t[i] = s[i]
      /\ t[Len(s) + 1] = m
  OBVIOUS
<1> HIDE DEF t
<1>2. \A i \in DOMAIN t : i \in DOMAIN s \/ i = Len(s) + 1
  BY <1>1
<1>3. \A i \in DOMAIN s : i \in DOMAIN t /\ t[i] = s[i] /\ i # Len(s) + 1
  BY <1>1
<1>4. Len(s) + 1 \in DOMAIN t
  BY <1>1
<1>5. Questions(t) = Questions(s) \cup Of(m)
  <2>1. \A x : x \in Questions(t) <=> x \in Questions(s) \/ x \in Of(m)
    BY <1>1, <1>2, <1>3, <1>4, QuestionsAre DEF Of
  <2> QED
    BY <2>1
<1>6. ASSUME Single(s), Questions(s) \cap Of(m) = {} PROVE Single(t)
  <2> SUFFICES ASSUME NEW i \in DOMAIN t, NEW j \in DOMAIN t, t[i] = t[j], t[i].kind \in QueryKinds
               PROVE  i = j
    BY DEF Single
  <2>1. \A k \in DOMAIN s : s[k].kind \in QueryKinds => s[k] # m
    BY <1>6, QuestionsAre DEF Of
  <2>2. CASE i \in DOMAIN s /\ j \in DOMAIN s
    BY <1>3, <1>6, <2>2 DEF Single
  <2>3. CASE i \notin DOMAIN s \/ j \notin DOMAIN s
    BY <1>1, <1>2, <1>3, <2>1, <2>3
  <2> QED
    BY <2>2, <2>3
<1> QED
  BY <1>5, <1>6 DEF t

(* The first message is taken from a sequence.                             *)
LEMMA SingleTail ==
  ASSUME NEW s \in Seq(AnyMsg), s # <<>>
  PROVE  /\ Questions(s) = Questions(Tail(s)) \cup Of(Head(s))
         /\ Single(s) => /\ Single(Tail(s))
                         /\ Questions(Tail(s)) = Questions(s) \ Of(Head(s))
<1> DEFINE t == Tail(s)
<1> DEFINE m == Head(s)
<1>1. /\ Len(s) \in Nat /\ Len(s) >= 1 /\ DOMAIN s = 1..Len(s) /\ DOMAIN t = 1..(Len(s) - 1)
      /\ \A i \in 1..(Len(s) - 1) : t[i] = s[i + 1]
      /\ m = s[1]
  OBVIOUS
<1> HIDE DEF t, m
<1>2. \A i \in DOMAIN t : i + 1 \in DOMAIN s /\ t[i] = s[i + 1] /\ i + 1 # 1
  BY <1>1
<1>3. \A i \in DOMAIN s : i = 1 \/ (i - 1 \in DOMAIN t /\ t[i - 1] = s[i])
  BY <1>1
<1>4. 1 \in DOMAIN s /\ s[1] = m
  BY <1>1
<1>5. Questions(s) = Questions(t) \cup Of(m)
  <2>1. \A x : x \in Questions(s) <=> x \in Questions(t) \/ x \in Of(m)
    BY <1>2, <1>3, <1>4, QuestionsAre DEF Of
  <2> QED
    BY <2>1
<1>6. ASSUME Single(s) PROVE Single(t) /\ Questions(t) \cap Of(m) = {}
  <2>1. Single(t)
    <3> SUFFICES ASSUME NEW i \in DOMAIN t, NEW j \in DOMAIN t, t[i] = t[j], t[i].kind \in QueryKinds
                 PROVE  i = j
      BY DEF Single
    <3>1. s[i + 1] = s[j + 1] /\ s[i + 1].kind \in QueryKinds
      BY <1>2
    <3>2. i + 1 = j + 1
      BY <1>2, <1>6, <3>1 DEF Single
    <3> QED
      BY <1>1, <3>2
  <2>2. \A i \in DOMAIN t : t[i].kind \in QueryKinds => t[i] # m
    BY <1>2, <1>4, <1>6 DEF Single
  <2> QED
    BY <2>1, <2>2, QuestionsAre DEF Of
<1> QED
  BY <1>5, <1>6 DEF t, m

(* Two sequences are concatenated.                                         *)
LEMMA SingleConcat ==
  ASSUME NEW s \in Seq(AnyMsg), NEW t \in Seq(AnyMsg)
  PROVE  /\ Questions(s \o t) = Questions(s) \cup Questions(t)
         /\ Single(s) /\ Single(t) /\ Questions(s) \cap Questions(t) = {} => Single(s \o t)
<1> DEFINE u == s \o t
<1>1. /\ Len(s) \in Nat /\ DOMAIN s = 1..Len(s) /\ Len(t) \in Nat /\ DOMAIN t = 1..Len(t)
      /\ DOMAIN u = 1..(Len(s) + Len(t))
      /\ \A i \in 1..Len(s) : u[i] = s[i]
      /\ \A i \in (Len(s) + 1)..(Len(s) + Len(t)) : u[i] = t[i - Len(s)]
  OBVIOUS
<1> HIDE DEF u
<1>2. \A i \in DOMAIN u : \/ i \in DOMAIN s /\ u[i] = s[i]
                          \/ i - Len(s) \in DOMAIN t /\ u[i] = t[i - Len(s)]
  BY <1>1
<1>3. \A i \in DOMAIN s : i \in DOMAIN u /\ u[i] = s[i]
  BY <1>1
<1>4. \A i \in DOMAIN t : i + Len(s) \in DOMAIN u /\ u[i + Len(s)] = t[i]
  BY <1>1
<1>5. Questions(u) = Questions(s) \cup Questions(t)
  <2>1. \A x : x \in Questions(u) <=> x \in Questions(s) \/ x \in Questions(t)
    BY <1>2, <1>3, <1>4, QuestionsAre
  <2> QED
    BY <2>1
<1>6. ASSUME Single(s), Single(t), Questions(s) \cap Questions(t) = {} PROVE Single(u)
  <2> SUFFICES ASSUME NEW i \in DOMAIN u, NEW j \in DOMAIN u, u[i] = u[j], u[i].kind \in QueryKinds
               PROVE  i = j
    BY DEF Single
  <2>1. \A k \in DOMAIN s : \A l \in DOMAIN t : s[k].kind \in QueryKinds => s[k] # t[l]
    BY <1>6, QuestionsAre
  <2>2. CASE i \in DOMAIN s /\ u[i] = s[i] /\ j \in DOMAIN s /\ u[j] = s[j]
    BY <1>6, <2>2 DEF Single
  <2>3. CASE /\ i - Len(s) \in DOMAIN t /\ u[i] = t[i - Len(s)]
             /\ j - Len(s) \in DOMAIN t /\ u[j] = t[j - Len(s)]
    <3>1. i - Len(s) = j - Len(s)
      BY <1>6, <2>3 DEF Single
    <3> QED
      BY <1>1, <3>1
  <2> QED
    BY <1>2, <2>1, <2>2, <2>3
<1> QED
  BY <1>5, <1>6 DEF u

(* A sequence is divided.                                                  *)
LEMMA SingleSplit ==
  ASSUME NEW s \in Seq(AnyMsg), NEW n \in 0..Len(s)
  PROVE  LET f == SubSeq(s, 1, n)
             g == SubSeq(s, n + 1, Len(s))
         IN  /\ f \in Seq(AnyMsg) /\ g \in Seq(AnyMsg)
             /\ DOMAIN f = 1..n /\ \A i \in 1..n : f[i] = s[i]
             /\ AllQuestions(s) => AllQuestions(f) /\ AllQuestions(g)
             /\ Questions(s) = Questions(f) \cup Questions(g)
             /\ Single(s) => Single(f) /\ Single(g) /\ Questions(f) \cap Questions(g) = {}
<1> DEFINE f == SubSeq(s, 1, n)
<1> DEFINE g == SubSeq(s, n + 1, Len(s))
<1>0. f = SubSeq(s, 1, n) /\ g = SubSeq(s, n + 1, Len(s))
  OBVIOUS
<1> HIDE DEF f, g
<1>1. /\ Len(s) \in Nat /\ DOMAIN s = 1..Len(s) /\ n \in Nat /\ n <= Len(s)
      /\ \A i \in 1..Len(s) : s[i] \in AnyMsg
  BY ElementOfSeq
<1>2. f \in Seq(AnyMsg) /\ DOMAIN f = 1..n /\ \A i \in 1..n : f[i] = s[i]
  <2>1. \A i \in 1..n : s[i] \in AnyMsg
    BY <1>1
  <2>2. /\ f \in Seq(AnyMsg) /\ Len(f) = IF 1 <= n THEN n - 1 + 1 ELSE 0
        /\ \A i \in 1..(n - 1 + 1) : f[i] = s[1 + i - 1]
    BY <1>0, <1>1, <2>1, SubSeqProperties
  <2>3. Len(f) = n
    BY <1>1, <2>2
  <2> QED
    BY <1>1, <2>2, <2>3
<1>3. /\ g \in Seq(AnyMsg) /\ DOMAIN g = 1..(Len(s) - n)
      /\ \A i \in 1..(Len(s) - n) : g[i] = s[n + i]
  <2> DEFINE k == n + 1
  <2> DEFINE l == Len(s)
  <2>1. k \in Int /\ l \in Int /\ k >= 1 /\ \A i \in k..l : s[i] \in AnyMsg
    <3>1. \A i \in (n + 1)..Len(s) : i \in 1..Len(s)
      BY <1>1
    <3> QED
      BY <1>1, <3>1
  <2>2. l - k + 1 = Len(s) - n /\ (~(k <= l) => Len(s) - n = 0)
    <3>1. \A x, y \in Nat : y <= x => x - (y + 1) + 1 = x - y /\ (~(y + 1 <= x) => x - y = 0)
      OBVIOUS
    <3> QED
      BY <1>1, <3>1
  <2>3. \A i \in Int : k + i - 1 = n + i
    BY <1>1
  <2>4. g = SubSeq(s, k, l)
    BY <1>0
  <2> HIDE DEF k, l
  <2>5. /\ g \in Seq(AnyMsg) /\ Len(g) = IF k <= l THEN l - k + 1 ELSE 0
        /\ \A i \in 1..(l - k + 1) : g[i] = s[k + i - 1]
    <3>1. \A i \in k..l : s[i] \in AnyMsg
      BY <2>1
    <3> QED
      BY <2>1, <2>4, <3>1, SubSeqProperties
  <2>6. Len(g) = Len(s) - n
    BY <2>2, <2>5
  <2>7. \A i \in 1..(Len(s) - n) : g[i] = s[n + i]
    BY <2>2, <2>3, <2>5
  <2> QED
    BY <1>1, <2>5, <2>6, <2>7
<1>4. \A i \in DOMAIN f : i \in DOMAIN s /\ f[i] = s[i]
  BY <1>1, <1>2
<1>5. \A i \in DOMAIN g : n + i \in DOMAIN s /\ g[i] = s[n + i]
  BY <1>1, <1>3
<1>6. \A i \in DOMAIN s : (i \in DOMAIN f /\ f[i] = s[i]) \/ (i - n \in DOMAIN g /\ g[i - n] = s[i])
  <2> SUFFICES ASSUME NEW i \in DOMAIN s, i \notin DOMAIN f
               PROVE  i - n \in DOMAIN g /\ g[i - n] = s[i]
    BY <1>4
  <2>1. i - n \in 1..(Len(s) - n) /\ n + (i - n) = i
    BY <1>1, <1>2
  <2> QED
    BY <1>3, <2>1
<1>7. Questions(s) = Questions(f) \cup Questions(g)
  <2>1. \A x : x \in Questions(s) <=> x \in Questions(f) \/ x \in Questions(g)
    BY <1>4, <1>5, <1>6, QuestionsAre
  <2> QED
    BY <2>1
<1>8. ASSUME Single(s) PROVE Single(f) /\ Single(g) /\ Questions(f) \cap Questions(g) = {}
  <2>1. Single(f)
    BY <1>4, <1>8 DEF Single
  <2>2. Single(g)
    <3> SUFFICES ASSUME NEW i \in DOMAIN g, NEW j \in DOMAIN g, g[i] = g[j], g[i].kind \in QueryKinds
                 PROVE  i = j
      BY DEF Single
    <3>1. n + i = n + j
      BY <1>5, <1>8 DEF Single
    <3> QED
      BY <1>1, <1>3, <3>1
  <2>3. \A i \in DOMAIN f, j \in DOMAIN g : f[i].kind \in QueryKinds => f[i] # g[j]
    <3> SUFFICES ASSUME NEW i \in DOMAIN f, NEW j \in DOMAIN g, f[i].kind \in QueryKinds, f[i] = g[j]
                 PROVE  FALSE
      OBVIOUS
    <3>1. i = n + j
      BY <1>4, <1>5, <1>8 DEF Single
    <3> QED
      BY <1>1, <1>2, <1>3, <3>1
  <2> QED
    BY <2>1, <2>2, <2>3, QuestionsAre
<1>9. AllQuestions(s) => AllQuestions(f) /\ AllQuestions(g)
  BY <1>4, <1>5 DEF AllQuestions
<1> QED
  BY <1>2, <1>3, <1>7, <1>8, <1>9 DEF f, g

(* The questions in frames.                                                *)
LEMMA InFramesAre ==
  \A fs : \A m : m \in InFrames(fs) <=> \E i \in DOMAIN fs : m \in Questions(fs[i])
BY DEF InFrames

(* Frames without questions have none twice.                               *)
LEMMA SeparateNone == \A fs : InFrames(fs) = {} => Separate(fs)
<1> SUFFICES ASSUME NEW fs, InFrames(fs) = {} PROVE Separate(fs)
  OBVIOUS
<1>1. \A i \in DOMAIN fs : Questions(fs[i]) = {}
  BY InFramesAre
<1> QED
  BY <1>1, SingleNone DEF Separate

(* A frame is added to frames.                                             *)
LEMMA FramesAppend ==
  ASSUME NEW fs \in Seq(Seq(AnyMsg)), NEW f \in Seq(AnyMsg)
  PROVE  /\ InFrames(Append(fs, f)) = InFrames(fs) \cup Questions(f)
         /\ Separate(fs) /\ Single(f) /\ Questions(f) \cap InFrames(fs) = {} =>
               Separate(Append(fs, f))
<1> DEFINE t == Append(fs, f)
<1>1. /\ Len(fs) \in Nat /\ DOMAIN fs = 1..Len(fs) /\ DOMAIN t = 1..(Len(fs) + 1)
      /\ \A i \in 1..Len(fs) : t[i] = fs[i]
      /\ t[Len(fs) + 1] = f
  OBVIOUS
<1> HIDE DEF t
<1>2. \A i \in DOMAIN t : i \in DOMAIN fs \/ i = Len(fs) + 1
  BY <1>1
<1>3. \A i \in DOMAIN fs : i \in DOMAIN t /\ t[i] = fs[i] /\ i # Len(fs) + 1
  BY <1>1
<1>4. Len(fs) + 1 \in DOMAIN t
  BY <1>1
<1>5. InFrames(t) = InFrames(fs) \cup Questions(f)
  <2>1. \A x : x \in InFrames(t) <=> x \in InFrames(fs) \/ x \in Questions(f)
    BY <1>1, <1>2, <1>3, <1>4, InFramesAre
  <2> QED
    BY <2>1
<1>6. ASSUME Separate(fs), Single(f), Questions(f) \cap InFrames(fs) = {} PROVE Separate(t)
  <2>1. \A i \in DOMAIN t : Single(t[i])
    BY <1>1, <1>2, <1>3, <1>6 DEF Separate
  <2>2. \A i \in DOMAIN fs : Questions(fs[i]) \cap Questions(f) = {}
    BY <1>6, InFramesAre
  <2>3. ASSUME NEW i \in DOMAIN t, NEW j \in DOMAIN t, i # j
        PROVE  Questions(t[i]) \cap Questions(t[j]) = {}
    <3>1. CASE i \in DOMAIN fs /\ j \in DOMAIN fs
      BY <1>3, <1>6, <2>3, <3>1 DEF Separate
    <3>2. CASE i \in DOMAIN fs /\ j = Len(fs) + 1
      BY <1>1, <1>3, <2>2, <3>2
    <3>3. CASE j \in DOMAIN fs /\ i = Len(fs) + 1
      BY <1>1, <1>3, <2>2, <3>3
    <3> QED
      BY <1>2, <2>3, <3>1, <3>2, <3>3
  <2> QED
    BY <2>1, <2>3 DEF Separate
<1> QED
  BY <1>5, <1>6 DEF t

(* The first frame is taken from frames.                                   *)
LEMMA FramesTail ==
  ASSUME NEW fs \in Seq(Seq(AnyMsg)), fs # <<>>
  PROVE  /\ InFrames(fs) = InFrames(Tail(fs)) \cup Questions(Head(fs))
         /\ Separate(fs) => /\ Separate(Tail(fs)) /\ Single(Head(fs))
                            /\ InFrames(Tail(fs)) = InFrames(fs) \ Questions(Head(fs))
<1> DEFINE t == Tail(fs)
<1> DEFINE f == Head(fs)
<1>1. /\ Len(fs) \in Nat /\ Len(fs) >= 1 /\ DOMAIN fs = 1..Len(fs)
      /\ DOMAIN t = 1..(Len(fs) - 1)
      /\ \A i \in 1..(Len(fs) - 1) : t[i] = fs[i + 1]
      /\ f = fs[1]
  OBVIOUS
<1> HIDE DEF t, f
<1>2. \A i \in DOMAIN t : i + 1 \in DOMAIN fs /\ t[i] = fs[i + 1] /\ i + 1 # 1
  BY <1>1
<1>3. \A i \in DOMAIN fs : i = 1 \/ (i - 1 \in DOMAIN t /\ t[i - 1] = fs[i])
  BY <1>1
<1>4. 1 \in DOMAIN fs /\ fs[1] = f
  BY <1>1
<1>5. InFrames(fs) = InFrames(t) \cup Questions(f)
  <2>1. ASSUME NEW x, x \in InFrames(fs) PROVE x \in InFrames(t) \/ x \in Questions(f)
    <3>1. PICK i \in DOMAIN fs : x \in Questions(fs[i])
      BY <2>1, InFramesAre
    <3>2. CASE i = 1
      BY <1>4, <3>1, <3>2
    <3>3. CASE i - 1 \in DOMAIN t /\ t[i - 1] = fs[i]
      BY <3>1, <3>3, InFramesAre
    <3> QED
      BY <1>3, <3>2, <3>3
  <2>2. ASSUME NEW x, x \in InFrames(t) PROVE x \in InFrames(fs)
    <3>1. PICK i \in DOMAIN t : x \in Questions(t[i])
      BY <2>2, InFramesAre
    <3> QED
      BY <1>2, <3>1, InFramesAre
  <2>3. \A x \in Questions(f) : x \in InFrames(fs)
    BY <1>4, InFramesAre
  <2> QED
    BY <2>1, <2>2, <2>3
<1>6. ASSUME Separate(fs) PROVE Separate(t) /\ Single(f) /\ InFrames(t) \cap Questions(f) = {}
  <2>1. Single(f) /\ \A i \in DOMAIN t : Single(t[i])
    BY <1>2, <1>4, <1>6 DEF Separate
  <2>2. ASSUME NEW i \in DOMAIN t, NEW j \in DOMAIN t, i # j
        PROVE  Questions(t[i]) \cap Questions(t[j]) = {}
    <3>1. i + 1 # j + 1
      BY <1>1, <2>2
    <3> QED
      BY <1>2, <1>6, <3>1 DEF Separate
  <2>3. \A i \in DOMAIN t : Questions(t[i]) \cap Questions(f) = {}
    BY <1>2, <1>4, <1>6 DEF Separate
  <2> QED
    BY <2>1, <2>2, <2>3, InFramesAre DEF Separate
<1> QED
  BY <1>5, <1>6 DEF t, f

(* The frames Network received.                                            *)
FramesOf(bs) == [i \in DOMAIN bs |-> bs[i].frame]

LEMMA FramesOfAppend ==
  ASSUME NEW bs \in Seq(NetBuffers), NEW b \in NetBuffers
  PROVE  /\ FramesOf(bs) \in Seq(Frames)
         /\ FramesOf(Append(bs, b)) = Append(FramesOf(bs), b.frame)
<1>1. /\ Len(bs) \in Nat /\ DOMAIN bs = 1..Len(bs)
      /\ DOMAIN Append(bs, b) = 1..(Len(bs) + 1)
      /\ \A i \in 1..Len(bs) : Append(bs, b)[i] = bs[i] /\ bs[i] \in NetBuffers
      /\ Append(bs, b)[Len(bs) + 1] = b
  OBVIOUS
<1>2. \A c \in NetBuffers : c.frame \in Frames
  BY DEF NetBuffers
<1>3. FramesOf(bs) \in Seq(Frames) /\ Len(FramesOf(bs)) = Len(bs)
  BY <1>1, <1>2 DEF FramesOf
<1>4. \A i \in 1..Len(bs) : FramesOf(bs)[i] = bs[i].frame
  BY <1>1 DEF FramesOf
<1>5. /\ Append(FramesOf(bs), b.frame) \in Seq(Frames)
      /\ DOMAIN Append(FramesOf(bs), b.frame) = 1..(Len(bs) + 1)
      /\ \A i \in 1..Len(bs) : Append(FramesOf(bs), b.frame)[i] = bs[i].frame
      /\ Append(FramesOf(bs), b.frame)[Len(bs) + 1] = b.frame
  BY <1>2, <1>3, <1>4, AppendProperties
<1>6. \A i \in 1..(Len(bs) + 1) : i \in 1..Len(bs) \/ i = Len(bs) + 1
  BY <1>1
<1>7. Append(FramesOf(bs), b.frame) = [i \in 1..(Len(bs) + 1) |-> Append(bs, b)[i].frame]
  <2> DEFINE t == Append(FramesOf(bs), b.frame)
  <2>1. t = [i \in DOMAIN t |-> t[i]]
    BY <1>5
  <2>2. DOMAIN t = 1..(Len(bs) + 1) /\ \A i \in 1..(Len(bs) + 1) : t[i] = Append(bs, b)[i].frame
    BY <1>1, <1>5, <1>6
  <2> HIDE DEF t
  <2>3. t = [i \in 1..(Len(bs) + 1) |-> Append(bs, b)[i].frame]
    BY <2>1, <2>2
  <2> QED
    BY <2>3 DEF t
<1> QED
  BY <1>1, <1>3, <1>7 DEF FramesOf

LEMMA FramesOfTail ==
  ASSUME NEW bs \in Seq(NetBuffers), bs # <<>>
  PROVE  /\ FramesOf(bs) \in Seq(Frames) /\ FramesOf(bs) # <<>>
         /\ FramesOf(Tail(bs)) = Tail(FramesOf(bs))
         /\ Head(bs).frame = Head(FramesOf(bs))
<1>1. /\ Len(bs) \in Nat /\ Len(bs) >= 1 /\ DOMAIN bs = 1..Len(bs)
      /\ DOMAIN Tail(bs) = 1..(Len(bs) - 1)
      /\ \A i \in 1..(Len(bs) - 1) : Tail(bs)[i] = bs[i + 1]
      /\ \A i \in 1..Len(bs) : bs[i] \in NetBuffers
      /\ Head(bs) = bs[1]
  OBVIOUS
<1>2. \A c \in NetBuffers : c.frame \in Frames
  BY DEF NetBuffers
<1>3. /\ FramesOf(bs) \in Seq(Frames) /\ Len(FramesOf(bs)) = Len(bs)
      /\ \A i \in 1..Len(bs) : FramesOf(bs)[i] = bs[i].frame
  BY <1>1, <1>2 DEF FramesOf
<1>4. FramesOf(bs) # <<>>
  BY <1>1, <1>3
<1>5. /\ Head(FramesOf(bs)) = FramesOf(bs)[1]
      /\ Tail(FramesOf(bs)) \in Seq(Frames) /\ DOMAIN Tail(FramesOf(bs)) = 1..(Len(bs) - 1)
      /\ \A i \in 1..(Len(bs) - 1) : Tail(FramesOf(bs))[i] = FramesOf(bs)[i + 1]
  BY <1>3, <1>4
<1>6. \A i \in 1..(Len(bs) - 1) : Tail(FramesOf(bs))[i] = Tail(bs)[i].frame
  <2> SUFFICES ASSUME NEW i \in 1..(Len(bs) - 1) PROVE Tail(FramesOf(bs))[i] = Tail(bs)[i].frame
    OBVIOUS
  <2>1. i + 1 \in 1..Len(bs)
    BY <1>1
  <2>2. Tail(FramesOf(bs))[i] = FramesOf(bs)[i + 1] /\ FramesOf(bs)[i + 1] = bs[i + 1].frame
    BY <1>3, <1>5, <2>1
  <2>3. Tail(bs)[i] = bs[i + 1]
    BY <1>1
  <2> QED
    BY <2>2, <2>3
<1>7. Tail(FramesOf(bs)) = [i \in 1..(Len(bs) - 1) |-> Tail(bs)[i].frame]
  <2> DEFINE t == Tail(FramesOf(bs))
  <2>1. t = [i \in DOMAIN t |-> t[i]]
    <3>1. \A u \in Seq(Frames) : u = [i \in DOMAIN u |-> u[i]]
      OBVIOUS
    <3> HIDE DEF t
    <3> QED
      BY <1>5, <3>1 DEF t
  <2>2. DOMAIN t = 1..(Len(bs) - 1) /\ \A i \in 1..(Len(bs) - 1) : t[i] = Tail(bs)[i].frame
    BY <1>5, <1>6
  <2> HIDE DEF t
  <2>3. t = [i \in 1..(Len(bs) - 1) |-> Tail(bs)[i].frame]
    BY <2>1, <2>2
  <2> QED
    BY <2>3 DEF t
<1>8. Head(bs).frame = Head(FramesOf(bs))
  BY <1>1, <1>3, <1>5
<1> QED
  BY <1>1, <1>3, <1>4, <1>7, <1>8 DEF FramesOf

-----------------------------------------------------------------------------
(* Questions move from place to place, whatever F and G hold there.        *)
LEMMA InAre == \A F, S : \A m : m \in In(F, S) <=> \E a \in S : m \in F[a]
BY DEF In

LEMMA PlacesAre ==
  /\ Places = Road \cup Waiting /\ Road \cap Waiting = {}
  /\ Waiting = {"prio", "low"}
  /\ "up" \in Road /\ "frames" \in Road /\ "buffer" \in Road /\ "down" \in Road
  /\ "unread" \in Road /\ "current" \in Road /\ Producers \subseteq Road
  /\ \A p \in Producers : p \notin {"up", "frames", "buffer", "down", "unread", "current"}
BY DEF Places, Road, Waiting, Producers

(* The questions M are moved from a to b.                                  *)
Moves(F, G, a, b, M) ==
    /\ a \in Places /\ b \in Places /\ a # b
    /\ M \subseteq F[a] /\ G[a] = F[a] \ M /\ G[b] = F[b] \cup M
    /\ \A c \in Places : c \notin {a, b} => G[c] = F[c]

LEMMA Moved ==
  ASSUME NEW F, NEW G, NEW a, NEW b, NEW M, Disjoint(F), Moves(F, G, a, b, M)
  PROVE  /\ Disjoint(G) /\ In(G, Places) = In(F, Places)
         /\ a \in Road /\ b \in Road => In(G, Road) = In(F, Road)
         /\ a \in Waiting /\ b \in Road =>
               In(G, Road) = In(F, Road) \cup M /\ In(F, Road) \cap M = {}
<1> USE DEF Moves
<1>1. Disjoint(G)
  BY DEF Disjoint
<1>2. \A S \in SUBSET Places : a \in S /\ b \in S => In(G, S) = In(F, S)
  <2> SUFFICES ASSUME NEW S \in SUBSET Places, a \in S, b \in S PROVE In(G, S) = In(F, S)
    OBVIOUS
  <2>1. \A m : m \in In(G, S) => m \in In(F, S)
    BY InAre
  <2>2. \A m : m \in In(F, S) => m \in In(G, S)
    BY InAre
  <2> QED
    BY <2>1, <2>2
<1>3. Road \subseteq Places /\ (a \in Waiting => a \notin Road)
  BY PlacesAre
<1>4. ASSUME a \in Waiting, b \in Road
      PROVE  In(G, Road) = In(F, Road) \cup M /\ In(F, Road) \cap M = {}
  <2>1. \A m : m \in In(G, Road) => m \in In(F, Road) \/ m \in M
    BY <1>3, <1>4, InAre
  <2>2. \A m : m \in In(F, Road) \/ m \in M => m \in In(G, Road)
    BY <1>3, <1>4, InAre
  <2>3. \A m : m \in In(F, Road) => m \notin M
    BY <1>3, <1>4, InAre DEF Disjoint
  <2> QED
    BY <2>1, <2>2, <2>3
<1> QED
  BY <1>1, <1>2, <1>3, <1>4

(* Some are lost.                                                          *)
LEMMA Fewer ==
  ASSUME NEW F, NEW G, Disjoint(F), \A c \in Places : G[c] \subseteq F[c]
  PROVE  /\ Disjoint(G)
         /\ In(G, Places) \subseteq In(F, Places) /\ In(G, Road) \subseteq In(F, Road)
<1>1. Disjoint(G)
  BY DEF Disjoint
<1>2. Road \subseteq Places
  BY PlacesAre
<1>3. \A S \in SUBSET Places : In(G, S) \subseteq In(F, S)
  BY InAre
<1> QED
  BY <1>1, <1>2, <1>3

(* Some are taken from a place on the road.                                *)
Takes(F, G, a, M) ==
    /\ a \in Road /\ M \subseteq F[a] /\ G[a] = F[a] \ M
    /\ \A c \in Places : c # a => G[c] = F[c]

LEMMA Taken ==
  ASSUME NEW F, NEW G, NEW a, NEW M, Disjoint(F), Takes(F, G, a, M)
  PROVE  /\ Disjoint(G)
         /\ In(G, Places) = In(F, Places) \ M /\ In(G, Road) = In(F, Road) \ M
         /\ M \subseteq In(F, Road)
<1> USE DEF Takes
<1>1. \A c \in Places : G[c] \subseteq F[c]
  OBVIOUS
<1>2. Road \subseteq Places
  BY PlacesAre
<1>3. \A c \in Places : c # a => F[c] \cap M = {}
  BY <1>2 DEF Disjoint
<1>4. \A S \in SUBSET Places : a \in S => In(G, S) = In(F, S) \ M
  <2> SUFFICES ASSUME NEW S \in SUBSET Places, a \in S PROVE In(G, S) = In(F, S) \ M
    OBVIOUS
  <2>1. \A m : m \in In(G, S) => m \in In(F, S) /\ m \notin M
    BY <1>3, InAre
  <2>2. \A m : m \in In(F, S) /\ m \notin M => m \in In(G, S)
    BY InAre
  <2> QED
    BY <2>1, <2>2
<1>5. M \subseteq In(F, Road)
  BY InAre
<1> QED
  BY <1>1, <1>2, <1>4, <1>5, Fewer

(* Some that were nowhere are added to a place.                            *)
Adds(F, G, b, M) ==
    /\ b \in Places /\ G[b] = F[b] \cup M
    /\ \A c \in Places : c # b => G[c] = F[c]

LEMMA Added ==
  ASSUME NEW F, NEW G, NEW b, NEW M, Disjoint(F), Adds(F, G, b, M), In(F, Places) \cap M = {}
  PROVE  /\ Disjoint(G) /\ In(G, Places) = In(F, Places) \cup M
         /\ b \in Road => In(G, Road) = In(F, Road) \cup M /\ In(F, Road) \cap M = {}
         /\ b \in Waiting => In(G, Road) = In(F, Road)
<1> USE DEF Adds
<1>1. \A c \in Places : F[c] \cap M = {}
  BY InAre
<1>2. Disjoint(G)
  BY <1>1 DEF Disjoint
<1>3. Road \subseteq Places /\ Road \cap Waiting = {}
  BY PlacesAre
<1>4. \A S \in SUBSET Places : b \in S => In(G, S) = In(F, S) \cup M
  <2> SUFFICES ASSUME NEW S \in SUBSET Places, b \in S PROVE In(G, S) = In(F, S) \cup M
    OBVIOUS
  <2>1. \A m : m \in In(G, S) => m \in In(F, S) \/ m \in M
    BY InAre
  <2>2. \A m : m \in In(F, S) \/ m \in M => m \in In(G, S)
    BY InAre
  <2> QED
    BY <2>1, <2>2
<1>5. In(F, Road) \cap M = {}
  BY <1>1, <1>3, InAre
<1>6. b \in Waiting => In(G, Road) = In(F, Road)
  <2> SUFFICES ASSUME b \in Waiting PROVE In(G, Road) = In(F, Road)
    OBVIOUS
  <2>1. \A c \in Road : G[c] = F[c]
    BY <1>3
  <2> QED
    BY <2>1 DEF In
<1> QED
  BY <1>2, <1>3, <1>4, <1>5, <1>6

(* What is where.                                                          *)
StockFacts ==
    /\ \A p \in Producers : Stock[p] = Questions(queue[p])
    /\ Stock["up"] = Questions(up) /\ Stock["frames"] = Questions(m_symbolQueue)
    /\ Stock["buffer"] = Questions(buffer) /\ Stock["down"] = InFrames(down)
    /\ Stock["unread"] = InFrames(FramesOf(m_netRead))
    /\ Stock["current"] = Questions(current.frame)
    /\ Stock["prio"] = Questions(prioQueue) /\ Stock["low"] = Questions(lowQueue)

LEMMA StockIs == StockFacts /\ StockFacts'
<1>1. /\ Producers \subseteq Places /\ {"up", "frames", "buffer", "down"} \subseteq Places
      /\ {"unread", "current", "prio", "low"} \subseteq Places
  BY PlacesAre
<1> QED
  BY <1>1 DEF StockFacts, Stock, FramesOf, Unread, Producers

(* A place is one of these.                                                *)
LEMMA PlaceCases ==
  \A c \in Places :
     c \in Producers \cup {"up", "frames", "buffer", "down", "unread", "current", "prio", "low"}
BY DEF Places, Road, Waiting

LEMMA OnTheRoad == In(Stock, Road) = OnTheWay
<1>1. \A m : m \in In(Stock, Road) <=> m \in OnTheWay
  <2> SUFFICES ASSUME NEW m PROVE m \in In(Stock, Road) <=> m \in OnTheWay
    OBVIOUS
  <2>1. FramesOf(m_netRead) = Unread
    BY DEF FramesOf, Unread
  <2>2. m \in In(Stock, Road) <=> \E a \in Road : m \in Stock[a]
    BY InAre
  <2>3. \A a : a \in Road <=> \/ a \in Producers \/ a = "up" \/ a = "frames" \/ a = "buffer"
                               \/ a = "down" \/ a = "unread" \/ a = "current"
    BY DEF Road
  <2>4. m \in OnTheWay <=>
          \/ m \in Questions(up) \/ m \in Questions(m_symbolQueue)
          \/ \E p \in Producers : m \in Questions(queue[p])
          \/ m \in Questions(buffer) \/ m \in InFrames(down) \/ m \in InFrames(Unread)
          \/ m \in Questions(current.frame)
    BY DEF OnTheWay
  <2>5. StockFacts
    BY StockIs
  <2>6. (\E a \in Road : m \in Stock[a]) <=>
          \/ \E p \in Producers : m \in Stock[p]
          \/ m \in Stock["up"] \/ m \in Stock["frames"] \/ m \in Stock["buffer"]
          \/ m \in Stock["down"] \/ m \in Stock["unread"] \/ m \in Stock["current"]
    BY <2>3
  <2>7. (\E p \in Producers : m \in Stock[p]) <=> \E p \in Producers : m \in Questions(queue[p])
    BY <2>5 DEF StockFacts
  <2> QED
    BY <2>1, <2>2, <2>4, <2>5, <2>6, <2>7 DEF StockFacts
<1> QED
  BY <1>1

-----------------------------------------------------------------------------
(* The client.  Questions go from place to place; without a connection, or *)
(* while it rejects, it may drop some.                                     *)
Less(F, G) == In(G, Places) \subseteq In(F, Places) /\ In(G, Road) \subseteq In(F, Road)
Same(F, G) == In(G, Places) = In(F, Places) /\ In(G, Road) = In(F, Road)
Passes == Less(Stock, Stock') /\ (ClientSees /\ worker # "reject" => Same(Stock, Stock'))

(* What stays in place.                                                    *)
LEMMA SameStock ==
  ASSUME NEW F, NEW G, Disjoint(F), \A c \in Places : G[c] = F[c]
  PROVE  Disjoint(G) /\ Less(F, G) /\ Same(F, G)
<1>1. Road \subseteq Places
  BY PlacesAre
<1>2. Disjoint(G)
  BY DEF Disjoint
<1>3. \A S \in SUBSET Places : In(G, S) = In(F, S)
  <2> SUFFICES ASSUME NEW S \in SUBSET Places PROVE In(G, S) = In(F, S)
    OBVIOUS
  <2>1. \A m : m \in In(G, S) <=> m \in In(F, S)
    BY InAre
  <2> QED
    BY <2>1
<1> QED
  BY <1>1, <1>2, <1>3 DEF Less, Same

(* A message goes from a to the buffer, which may have to be sent first.   *)
LEMMA ItemSent ==
  ASSUME NEW F, NEW G, Disjoint(F), NEW a \in Road, a \notin {"buffer", "down"},
         NEW M, M \subseteq F[a], G[a] = F[a] \ M,
         \A c \in Places : c \notin {a, "buffer", "down"} => G[c] = F[c],
         NEW fails \in BOOLEAN,
         \/ G["buffer"] = F["buffer"] \cup M /\ G["down"] = F["down"]
         \/ G["buffer"] = M /\ G["down"] = F["down"] \cup F["buffer"]
         \/ G["buffer"] = M /\ G["down"] = F["down"] /\ fails
  PROVE  Disjoint(G) /\ Less(F, G) /\ (~fails => Same(F, G))
<1>1. a \in Places /\ "buffer" \in Places /\ "down" \in Places /\ "buffer" \in Road /\ "down" \in Road
  BY PlacesAre
<1>2. CASE G["buffer"] = F["buffer"] \cup M /\ G["down"] = F["down"]
  <2>1. Moves(F, G, a, "buffer", M)
    BY <1>1, <1>2 DEF Moves
  <2>2. Disjoint(G) /\ In(G, Places) = In(F, Places) /\ In(G, Road) = In(F, Road)
    BY <1>1, <2>1, Moved
  <2> QED
    BY <2>2 DEF Less, Same
<1>3. CASE G["buffer"] = M /\ G["down"] = F["down"] \cup F["buffer"]
  <2> DEFINE H == [c \in Places |-> IF c = "buffer" THEN {}
                                    ELSE IF c = "down" THEN F["down"] \cup F["buffer"] ELSE F[c]]
  <2>1. /\ H["buffer"] = {} /\ H["down"] = F["down"] \cup F["buffer"]
        /\ \A c \in Places : c \notin {"buffer", "down"} => H[c] = F[c]
    BY <1>1
  <2> HIDE DEF H
  <2>2. H["buffer"] = F["buffer"] \ F["buffer"]
    BY <2>1
  <2>3. Disjoint(H) /\ In(H, Places) = In(F, Places) /\ In(H, Road) = In(F, Road)
    <3>1. Moves(F, H, "buffer", "down", F["buffer"])
      BY <1>1, <2>1, <2>2 DEF Moves
    <3> QED
      BY <1>1, <3>1, Moved
  <2>4. Moves(H, G, a, "buffer", M)
    BY <1>1, <1>3, <2>1 DEF Moves
  <2>5. Disjoint(G) /\ In(G, Places) = In(H, Places) /\ In(G, Road) = In(H, Road)
    BY <1>1, <2>3, <2>4, Moved
  <2> QED
    BY <2>3, <2>5 DEF Less, Same
<1>4. CASE G["buffer"] = M /\ G["down"] = F["down"] /\ fails
  <2> DEFINE H == [c \in Places |-> IF c = "buffer" THEN {} ELSE F[c]]
  <2>1. H["buffer"] = {} /\ \A c \in Places : c # "buffer" => H[c] = F[c]
    BY <1>1
  <2> HIDE DEF H
  <2>2. Disjoint(H) /\ In(H, Places) \subseteq In(F, Places) /\ In(H, Road) \subseteq In(F, Road)
    <3>1. \A c \in Places : H[c] \subseteq F[c]
      BY <2>1
    <3> QED
      BY <3>1, Fewer
  <2>3. Moves(H, G, a, "buffer", M)
    BY <1>1, <1>4, <2>1 DEF Moves
  <2>4. Disjoint(G) /\ In(G, Places) = In(H, Places) /\ In(G, Road) = In(H, Road)
    BY <1>1, <2>2, <2>3, Moved
  <2> QED
    BY <1>4, <2>2, <2>4 DEF Less
<1> QED
  BY <1>2, <1>3, <1>4

(* AppendData: what becomes of the buffer, of the frames sent and of the   *)
(* question appended, which is the last of the items.                      *)
LEMMA AppendedQuestions ==
  ASSUME Sends, Single(buffer), Separate(down),
         NEW items \in Seq(AnyMsg), Len(items) >= 1, NEW m, Questions(items) = Of(m), Single(items),
         \A i \in 1..Len(items) : i < Len(items) => items[i].kind \notin QueryKinds,
         Questions(buffer) \cap Of(m) = {}, InFrames(down) \cap Questions(buffer) = {},
         AppendData(items)
  PROVE  /\ Single(buffer') /\ Separate(down')
         /\ \/ /\ Questions(buffer') = Questions(buffer) \cup Of(m)
               /\ InFrames(down') = InFrames(down)
            \/ /\ Questions(buffer') = Of(m)
               /\ InFrames(down') = InFrames(down) \cup Questions(buffer)
            \/ /\ Questions(buffer') = Of(m) /\ InFrames(down') = InFrames(down)
               /\ ~ClientSees
<1> DEFINE fit == FrameSize - Len(buffer)
<1>1. /\ buffer \in Seq(AnyMsg) /\ Len(buffer) \in Nat /\ Len(buffer) <= FrameSize
      /\ FrameSize \in Nat /\ down \in Seq(Frames) /\ Len(items) \in Nat
  BY LinkAssumption DEF Sends, Frames_Client, Frames_Link, Frames
<1>3. CASE ~Overflows(items)
  <2>1. buffer' = buffer \o items /\ down' = down
    BY <1>3 DEF AppendData
  <2>2. /\ Questions(buffer \o items) = Questions(buffer) \cup Questions(items)
        /\ Single(buffer) /\ Single(items) /\ Questions(buffer) \cap Questions(items) = {} =>
              Single(buffer \o items)
    BY <1>1, SingleConcat
  <2> QED
    BY <2>1, <2>2
<1>4. CASE Overflows(items)
  <2>1. fit \in Nat /\ fit < Len(items)
    BY <1>1, <1>4 DEF Overflows
  <2> DEFINE f == SubSeq(items, 1, fit)
  <2> DEFINE g == SubSeq(items, fit + 1, Len(items))
  <2>2. /\ buffer' = g
        /\ \/ down' = Append(down, buffer \o f)
           \/ down' = down /\ ~ClientSees
    BY <1>4 DEF AppendData, CanSend, SendFails
  <2>3. /\ f \in Seq(AnyMsg) /\ Single(f) /\ Single(g)
        /\ DOMAIN f = 1..fit /\ \A i \in 1..fit : f[i] = items[i]
        /\ Questions(items) = Questions(f) \cup Questions(g)
    <3>1. fit \in 0..Len(items)
      BY <1>1, <2>1
    <3> HIDE DEF fit
    <3>2. /\ f \in Seq(AnyMsg) /\ g \in Seq(AnyMsg)
          /\ DOMAIN f = 1..fit /\ \A i \in 1..fit : f[i] = items[i]
          /\ Questions(items) = Questions(f) \cup Questions(g)
          /\ Single(items) => Single(f) /\ Single(g) /\ Questions(f) \cap Questions(g) = {}
      BY <3>1, SingleSplit
    <3> HIDE DEF f, g
    <3> QED
      BY <3>2
  <2>4. Questions(f) = {}
    <3>1. \A i \in 1..fit : i \in 1..Len(items) /\ i < Len(items)
      BY <1>1, <2>1
    <3> HIDE DEF f, fit
    <3>2. \A i \in DOMAIN f : f[i].kind \notin QueryKinds
      BY <2>3, <3>1
    <3>4. \A x : x \notin Questions(f)
      BY <3>2, QuestionsAre
    <3> QED
      BY <3>4
  <2> HIDE DEF f, g, fit
  <2>5. Single(buffer') /\ Questions(buffer') = Of(m)
    BY <2>2, <2>3, <2>4
  <2>6. CASE down' = Append(down, buffer \o f)
    <3>0. /\ Questions(buffer \o f) = Questions(buffer) \cup Questions(f)
          /\ Single(buffer) /\ Single(f) /\ Questions(buffer) \cap Questions(f) = {} =>
                Single(buffer \o f)
      BY <1>1, <2>3, SingleConcat
    <3>1. Questions(buffer \o f) = Questions(buffer) /\ Single(buffer \o f)
      BY <2>3, <2>4, <3>0
    <3>2. buffer \o f \in Seq(AnyMsg) /\ down \in Seq(Seq(AnyMsg))
      <4>1. Frames \subseteq Seq(AnyMsg)
        BY DEF Frames
      <4> QED
        BY <1>1, <2>3, <4>1, SeqMonotonic, ConcatProperties
    <3>3. /\ InFrames(down') = InFrames(down) \cup Questions(buffer)
          /\ Separate(down')
      BY <2>6, <3>1, <3>2, FramesAppend
    <3> QED
      BY <2>5, <3>3
  <2>7. CASE down' = down /\ ~ClientSees
    BY <2>5, <2>7
  <2> QED
    BY <2>2, <2>6, <2>7
<1> QED
  BY <1>3, <1>4

(* What a step of the client keeps.                                        *)
ClientKeeps == Scattered' /\ Passes

(* The server's places.                                                    *)
LEMMA ServerStock ==
  ASSUME UNCHANGED server
  PROVE  /\ ServerSingle => ServerSingle'
         /\ Stock'["unread"] = Stock["unread"] /\ Stock'["current"] = Stock["current"]
         /\ Stock'["prio"] = Stock["prio"] /\ Stock'["low"] = Stock["low"]
<1>1. UNCHANGED <<m_netRead, current, prioQueue, lowQueue>>
  BY DEF server, netState, queries
<1>2. Unread' = Unread
  BY <1>1 DEF Unread
<1> QED
  BY <1>1, <1>2, StockIs DEF StockFacts, ServerSingle

(* A step that moves no message.                                           *)
LEMMA IdleKeeps ==
  ASSUME Scattered, UNCHANGED server, UNCHANGED <<queue, m_symbolQueue, buffer, down, up>>
  PROVE  ClientKeeps
<1>1. ClientSingle'
  BY DEF Scattered, ClientSingle
<1>2. \A c \in Places : Stock'[c] = Stock[c]
  BY ServerStock, StockIs, PlaceCases DEF StockFacts
<1>3. Disjoint(Stock') /\ Less(Stock, Stock') /\ Same(Stock, Stock')
  BY <1>2, SameStock DEF Scattered
<1> QED
  BY <1>1, <1>3, ServerStock DEF Scattered, ClientKeeps, Passes

LEMMA DownType == SessionInv => down \in Seq(Seq(AnyMsg))
<1>1. Frames \subseteq Seq(AnyMsg)
  BY DEF Frames
<1> QED
  BY <1>1, SeqMonotonic DEF SessionInv, Frames_Link

(* CommitData sends the buffer, or loses it with the connection.           *)
LEMMA CommitKeeps ==
  ASSUME SessionInv, Scattered, UNCHANGED server, UNCHANGED <<queue, m_symbolQueue>>, Commit
  PROVE  ClientKeeps
<1>1. /\ buffer' = <<>> /\ up' = up /\ UNCHANGED <<queue, m_symbolQueue>>
      /\ \/ down' = Append(down, buffer)
         \/ down' = down /\ ~ClientSees
  BY DEF Commit, CanSend, SendFails
<1>2. /\ buffer \in Seq(AnyMsg) /\ down \in Seq(Seq(AnyMsg))
      /\ Single(buffer) /\ Separate(down)
  BY DownType DEF SessionInv, Frames_Client, Frames, Scattered, ClientSingle
<1>3. Stock["down"] = InFrames(down) /\ Stock["buffer"] = Questions(buffer)
  BY StockIs DEF StockFacts
<1>4. Stock["down"] \cap Stock["buffer"] = {}
  BY PlacesAre DEF Scattered, Disjoint
<1>5. /\ Stock'["buffer"] = {} /\ Stock'["down"] = InFrames(down')
      /\ \A c \in Places : c \notin {"buffer", "down"} => Stock'[c] = Stock[c]
  <2>1. StockFacts /\ StockFacts'
    BY StockIs
  <2>2. Stock'["buffer"] = {} /\ Stock'["down"] = InFrames(down')
    BY <1>1, <2>1, SingleEmpty DEF StockFacts
  <2>3. \A p \in Producers : Stock'[p] = Stock[p]
    BY <1>1, <2>1 DEF StockFacts
  <2>4. Stock'["up"] = Stock["up"] /\ Stock'["frames"] = Stock["frames"]
    BY <1>1, <2>1 DEF StockFacts
  <2> QED
    BY <2>2, <2>3, <2>4, ServerStock, PlaceCases
<1>6. CASE down' = Append(down, buffer)
  <2>1. InFrames(down') = InFrames(down) \cup Questions(buffer) /\ Separate(down')
    BY <1>2, <1>3, <1>4, <1>6, FramesAppend
  <2>2. ClientSingle'
    BY <1>1, <2>1, SingleEmpty DEF Scattered, ClientSingle
  <2>3. Moves(Stock, Stock', "buffer", "down", Stock["buffer"])
    BY <1>3, <1>5, <2>1, PlacesAre DEF Moves
  <2>4. Disjoint(Stock') /\ Same(Stock, Stock')
    BY <2>3, Moved, PlacesAre DEF Same, Scattered
  <2> QED
    BY <1>1, <2>2, <2>4, ServerStock DEF ClientKeeps, Passes, Scattered, Same, Less
<1>7. CASE down' = down /\ ~ClientSees
  <2>1. ClientSingle'
    BY <1>1, <1>7, SingleEmpty DEF Scattered, ClientSingle
  <2>2. \A c \in Places : Stock'[c] \subseteq Stock[c]
    BY <1>3, <1>5, <1>7
  <2>3. Disjoint(Stock') /\ Less(Stock, Stock')
    BY <2>2, Fewer DEF Less, Scattered
  <2> QED
    BY <1>1, <1>7, <2>1, <2>3, ServerStock DEF ClientKeeps, Passes, Scattered
<1> QED
  BY <1>1, <1>6, <1>7

(* An item goes from its queue to the buffer.                              *)
LEMMA DequeueKeeps ==
  ASSUME SessionInv, Scattered, UNCHANGED server, UNCHANGED m_symbolQueue,
         NEW p \in Producers, NEW next, NEW failed, Dequeue(p, next, failed)
  PROVE  ClientKeeps
<1> DEFINE m == Head(queue[p])
<1>1. /\ queue \in [Producers -> Seq(AnyMsg)] /\ queue[p] \in Seq(AnyMsg) /\ queue[p] # <<>>
      /\ queue' = [queue EXCEPT ![p] = Tail(@)] /\ up' = up /\ m_symbolQueue' = m_symbolQueue
      /\ AppendData(NextItems(p)) /\ NextItems(p) = Append(ThreadCtxCheck(p), m)
  BY DEF Dequeue, NextItems, SessionInv, Frames_Client
<1>2. m \in AnyMsg
  BY <1>1, HeadTailProperties
<1>3. /\ Questions(queue[p]) = Questions(Tail(queue[p])) \cup Of(m)
      /\ Single(Tail(queue[p])) /\ Questions(Tail(queue[p])) = Questions(queue[p]) \ Of(m)
  <2>1. Single(queue[p])
    BY DEF Scattered, ClientSingle
  <2> QED
    BY <1>1, <2>1, SingleTail
<1> HIDE DEF m
<1>4. /\ ThreadCtxCheck(p) \in Seq(AnyMsg) /\ Len(ThreadCtxCheck(p)) \in {0, 1}
      /\ Questions(ThreadCtxCheck(p)) = {} /\ Single(ThreadCtxCheck(p))
      /\ \A i \in DOMAIN ThreadCtxCheck(p) : ThreadCtxCheck(p)[i].kind \notin QueryKinds
  <2>1. Msg("context", p) \in AnyMsg /\ Msg("context", p).kind \notin QueryKinds
    BY ProducersAssumption DEF Msg, AnyMsg, Kinds, QueryKinds, UrgentKinds
  <2>2. /\ ThreadCtxCheck(p) \in Seq(AnyMsg) /\ Len(ThreadCtxCheck(p)) \in {0, 1}
        /\ \A i \in DOMAIN ThreadCtxCheck(p) : ThreadCtxCheck(p)[i].kind \notin QueryKinds
    BY <2>1 DEF ThreadCtxCheck
  <2>3. \A x : x \notin Questions(ThreadCtxCheck(p))
    BY <2>2, QuestionsAre
  <2>4. Questions(ThreadCtxCheck(p)) = {}
    BY <2>3
  <2> QED
    BY <2>2, <2>4, SingleNone
<1>5. /\ NextItems(p) \in Seq(AnyMsg) /\ Len(NextItems(p)) >= 1
      /\ Questions(NextItems(p)) = Of(m) /\ Single(NextItems(p))
      /\ \A i \in 1..Len(NextItems(p)) : i < Len(NextItems(p)) =>
            NextItems(p)[i].kind \notin QueryKinds
  <2>1. /\ NextItems(p) \in Seq(AnyMsg) /\ Len(NextItems(p)) = Len(ThreadCtxCheck(p)) + 1
        /\ \A i \in 1..Len(ThreadCtxCheck(p)) : NextItems(p)[i] = ThreadCtxCheck(p)[i]
    BY <1>1, <1>2, <1>4, AppendProperties
  <2>2. Questions(NextItems(p)) = Of(m) /\ Single(NextItems(p))
    BY <1>1, <1>2, <1>4, SingleAppend
  <2>3. DOMAIN ThreadCtxCheck(p) = 1..Len(ThreadCtxCheck(p))
    BY <1>4
  <2>4. \A i \in 1..Len(NextItems(p)) : i < Len(NextItems(p)) => i \in 1..Len(ThreadCtxCheck(p))
    BY <1>4, <2>1
  <2> QED
    BY <1>4, <2>1, <2>2, <2>3, <2>4
<1>6. /\ Stock[p] = Questions(queue[p]) /\ Stock["buffer"] = Questions(buffer)
      /\ Stock["down"] = InFrames(down)
      /\ Stock[p] \cap Stock["buffer"] = {} /\ Stock["down"] \cap Stock["buffer"] = {}
      /\ p \in Road /\ p \in Places /\ p \notin {"buffer", "down"}
  BY StockIs, PlacesAre DEF StockFacts, Scattered, Disjoint
<1>7. Single(buffer) /\ Separate(down) /\ Sends
  BY DEF Scattered, ClientSingle, SessionInv, Sends
<1>8. /\ Single(buffer') /\ Separate(down')
      /\ \/ Questions(buffer') = Questions(buffer) \cup Of(m) /\ InFrames(down') = InFrames(down)
         \/ /\ Questions(buffer') = Of(m)
            /\ InFrames(down') = InFrames(down) \cup Questions(buffer)
         \/ Questions(buffer') = Of(m) /\ InFrames(down') = InFrames(down) /\ ~ClientSees
  <2>1. Questions(buffer) \cap Of(m) = {} /\ InFrames(down) \cap Questions(buffer) = {}
    BY <1>3, <1>6
  <2> QED
    BY <1>1, <1>5, <1>7, <2>1, AppendedQuestions
<1>9. ClientSingle'
  BY <1>1, <1>3, <1>8 DEF Scattered, ClientSingle
<1>10. /\ Stock'[p] = Stock[p] \ Of(m) /\ Of(m) \subseteq Stock[p]
       /\ Stock'["buffer"] = Questions(buffer') /\ Stock'["down"] = InFrames(down')
       /\ \A c \in Places : c \notin {p, "buffer", "down"} => Stock'[c] = Stock[c]
  <2>1. StockFacts /\ StockFacts'
    BY StockIs
  <2>2. \A o \in Producers : o # p => Stock'[o] = Stock[o]
    BY <1>1, <2>1 DEF StockFacts
  <2>3. Stock'["up"] = Stock["up"] /\ Stock'["frames"] = Stock["frames"]
    BY <1>1, <2>1 DEF StockFacts
  <2>4. Stock'[p] = Questions(Tail(queue[p]))
    BY <1>1, <2>1 DEF StockFacts
  <2>5. Stock'["buffer"] = Questions(buffer') /\ Stock'["down"] = InFrames(down')
    BY <2>1 DEF StockFacts
  <2>6. \A c \in Places : c \notin {p, "buffer", "down"} => Stock'[c] = Stock[c]
    BY <2>2, <2>3, ServerStock, PlaceCases
  <2> QED
    BY <1>3, <1>6, <2>4, <2>5, <2>6
<1>11. Disjoint(Stock') /\ Less(Stock, Stock') /\ (ClientSees => Same(Stock, Stock'))
  <2> DEFINE fails == ~ClientSees
  <2>1. fails \in BOOLEAN
    BY DEF ClientSees
  <2>2. \/ Stock'["buffer"] = Stock["buffer"] \cup Of(m) /\ Stock'["down"] = Stock["down"]
        \/ Stock'["buffer"] = Of(m) /\ Stock'["down"] = Stock["down"] \cup Stock["buffer"]
        \/ Stock'["buffer"] = Of(m) /\ Stock'["down"] = Stock["down"] /\ fails
    BY <1>6, <1>8, <1>10
  <2>3. Disjoint(Stock)
    BY DEF Scattered
  <2> HIDE DEF fails
  <2>4. Disjoint(Stock') /\ Less(Stock, Stock') /\ (~fails => Same(Stock, Stock'))
    BY <1>6, <1>10, <2>1, <2>2, <2>3, ItemSent
  <2> QED
    BY <2>4 DEF fails
<1> QED
  BY <1>1, <1>9, <1>11, ServerStock DEF ClientKeeps, Passes, Scattered

(* An address goes from m_symbolQueue to a queue.                          *)
LEMMA ResolveKeeps ==
  ASSUME SessionInv, Scattered, UNCHANGED server, UNCHANGED <<buffer, down, up>>,
         NEW p \in Producers, Resolve(p)
  PROVE  ClientKeeps
<1> DEFINE m == Head(m_symbolQueue)
<1>1. /\ queue \in [Producers -> Seq(AnyMsg)] /\ queue[p] \in Seq(AnyMsg)
      /\ m_symbolQueue \in Seq(AnyMsg) /\ m_symbolQueue # <<>>
      /\ queue' = [queue EXCEPT ![p] = Append(@, m)] /\ m_symbolQueue' = Tail(m_symbolQueue)
  BY DEF Resolve, SessionInv, Frames_Client
<1>2. m \in AnyMsg
  BY <1>1, HeadTailProperties
<1>3. /\ Questions(m_symbolQueue) = Questions(Tail(m_symbolQueue)) \cup Of(m)
      /\ Single(m_symbolQueue')
      /\ Questions(m_symbolQueue') = Questions(m_symbolQueue) \ Of(m)
  <2>1. Single(m_symbolQueue)
    BY DEF Scattered, ClientSingle
  <2> QED
    BY <1>1, <2>1, SingleTail
<1> HIDE DEF m
<1>4. /\ Stock[p] = Questions(queue[p]) /\ Stock["frames"] = Questions(m_symbolQueue)
      /\ Stock[p] \cap Stock["frames"] = {}
      /\ p \in Road /\ p \in Places /\ p # "frames" /\ "frames" \in Places /\ "frames" \in Road
  BY StockIs, PlacesAre DEF StockFacts, Scattered, Disjoint
<1>5. Single(queue'[p]) /\ Questions(queue'[p]) = Questions(queue[p]) \cup Of(m)
  <2>1. Single(queue[p]) /\ Questions(queue[p]) \cap Of(m) = {}
    BY <1>3, <1>4 DEF Scattered, ClientSingle
  <2>2. queue'[p] = Append(queue[p], m)
    BY <1>1
  <2> QED
    BY <1>1, <1>2, <2>1, <2>2, SingleAppend
<1>6. ClientSingle'
  BY <1>1, <1>3, <1>5 DEF Scattered, ClientSingle
<1>7. Moves(Stock, Stock', "frames", p, Of(m))
  <2>1. StockFacts /\ StockFacts'
    BY StockIs
  <2>2. \A o \in Producers : o # p => Stock'[o] = Stock[o]
    BY <1>1, <2>1 DEF StockFacts
  <2>3. Stock'["up"] = Stock["up"] /\ Stock'["buffer"] = Stock["buffer"] /\ Stock'["down"] = Stock["down"]
    BY <2>1 DEF StockFacts
  <2>4. Stock'["frames"] = Stock["frames"] \ Of(m) /\ Stock'[p] = Stock[p] \cup Of(m)
    BY <1>3, <1>4, <1>5, <2>1 DEF StockFacts
  <2>5. \A c \in Places : c \notin {"frames", p} => Stock'[c] = Stock[c]
    BY <2>2, <2>3, ServerStock, PlaceCases
  <2> QED
    BY <1>3, <1>4, <2>4, <2>5 DEF Moves
<1>8. Disjoint(Stock') /\ Same(Stock, Stock')
  BY <1>4, <1>7, Moved DEF Same, Scattered
<1> QED
  BY <1>6, <1>8, ServerStock DEF ClientKeeps, Passes, Scattered, Same, Less

(* A packet goes to m_symbolQueue, or its answer to the buffer.            *)
LEMMA HandleKeeps ==
  ASSUME SessionInv, Scattered, UNCHANGED server, HandleServerQuery
  PROVE  ClientKeeps
<1> DEFINE m == Head(up)
<1>1. /\ up \in Seq(AnyMsg) /\ up # <<>> /\ up' = Tail(up) /\ queue' = queue
      /\ m_symbolQueue \in Seq(AnyMsg)
  BY DEF HandleServerQuery, HasQuery, SessionInv, Frames_Link, Frames_Client
<1>2. m \in AnyMsg
  BY <1>1, HeadTailProperties
<1>3. /\ Questions(up) = Questions(Tail(up)) \cup Of(m)
      /\ Single(up') /\ Questions(up') = Questions(up) \ Of(m)
  <2>1. Single(up)
    BY DEF Scattered, ClientSingle
  <2> QED
    BY <1>1, <2>1, SingleTail
<1>4. CASE m.kind \in ForSymbolWorker
  <2>1. m_symbolQueue' = Append(m_symbolQueue, m) /\ UNCHANGED <<buffer, down>>
    BY <1>4 DEF HandleServerQuery
  <2> HIDE DEF m
  <2>2. /\ Stock["up"] = Questions(up) /\ Stock["frames"] = Questions(m_symbolQueue)
        /\ Stock["up"] \cap Stock["frames"] = {}
        /\ {"up", "frames"} \subseteq Places /\ {"up", "frames"} \subseteq Road
    BY StockIs, PlacesAre DEF StockFacts, Scattered, Disjoint
  <2>3. /\ Single(m_symbolQueue')
        /\ Questions(m_symbolQueue') = Questions(m_symbolQueue) \cup Of(m)
    <3>1. Single(m_symbolQueue) /\ Questions(m_symbolQueue) \cap Of(m) = {}
      BY <1>3, <2>2 DEF Scattered, ClientSingle
    <3> QED
      BY <1>1, <1>2, <2>1, <3>1, SingleAppend
  <2>4. ClientSingle'
    BY <1>1, <1>3, <2>1, <2>3 DEF Scattered, ClientSingle
  <2>5. Moves(Stock, Stock', "up", "frames", Of(m))
    <3>1. StockFacts /\ StockFacts'
      BY StockIs
    <3>2. /\ \A o \in Producers : Stock'[o] = Stock[o]
          /\ Stock'["buffer"] = Stock["buffer"] /\ Stock'["down"] = Stock["down"]
      BY <1>1, <2>1, <3>1 DEF StockFacts
    <3>3. Stock'["up"] = Stock["up"] \ Of(m) /\ Stock'["frames"] = Stock["frames"] \cup Of(m)
      BY <1>3, <2>2, <2>3, <3>1 DEF StockFacts
    <3>4. \A c \in Places : c \notin {"up", "frames"} => Stock'[c] = Stock[c]
      BY <3>2, ServerStock, PlaceCases
    <3> QED
      BY <1>3, <2>2, <3>3, <3>4 DEF Moves
  <2>6. Disjoint(Stock') /\ Same(Stock, Stock')
    BY <2>2, <2>5, Moved DEF Same, Scattered
  <2> QED
    BY <1>1, <2>4, <2>6, ServerStock DEF ClientKeeps, Passes, Scattered, Same, Less
<1>5. CASE m.kind \notin ForSymbolWorker
  <2>1. AppendData(<<m>>) /\ m_symbolQueue' = m_symbolQueue
    BY <1>5 DEF HandleServerQuery
  <2> HIDE DEF m
  <2>2. /\ <<m>> \in Seq(AnyMsg) /\ Len(<<m>>) = 1
        /\ Questions(<<m>>) = Of(m) /\ Single(<<m>>)
    <3>1. <<m>> \in Seq(AnyMsg) /\ <<m>> = Append(<<>>, m) /\ <<>> \in Seq(AnyMsg)
      BY <1>2
    <3>2. Questions(Append(<<>>, m)) = Questions(<<>>) \cup Of(m)
      BY <1>2, <3>1, SingleAppend
    <3>3. Single(<<m>>)
      BY DEF Single
    <3> QED
      BY <3>1, <3>2, <3>3, SingleEmpty
  <2>3. /\ Stock["up"] = Questions(up) /\ Stock["buffer"] = Questions(buffer)
        /\ Stock["down"] = InFrames(down)
        /\ Stock["up"] \cap Stock["buffer"] = {} /\ Stock["down"] \cap Stock["buffer"] = {}
        /\ "up" \in Road /\ "up" \notin {"buffer", "down"}
    BY StockIs, PlacesAre DEF StockFacts, Scattered, Disjoint
  <2>4. /\ Single(buffer') /\ Separate(down')
        /\ \/ Questions(buffer') = Questions(buffer) \cup Of(m) /\ InFrames(down') = InFrames(down)
           \/ /\ Questions(buffer') = Of(m)
              /\ InFrames(down') = InFrames(down) \cup Questions(buffer)
           \/ Questions(buffer') = Of(m) /\ InFrames(down') = InFrames(down) /\ ~ClientSees
    <3>1. Questions(buffer) \cap Of(m) = {} /\ InFrames(down) \cap Questions(buffer) = {}
      BY <1>3, <2>3
    <3>2. Single(buffer) /\ Separate(down) /\ Sends
      BY DEF Scattered, ClientSingle, SessionInv, Sends
    <3>3. /\ Len(<<m>>) >= 1
          /\ \A i \in 1..Len(<<m>>) : i < Len(<<m>>) => <<m>>[i].kind \notin QueryKinds
      BY <2>2
    <3> QED
      BY <2>1, <2>2, <3>1, <3>2, <3>3, AppendedQuestions
  <2>5. ClientSingle'
    BY <1>1, <1>3, <2>1, <2>4 DEF Scattered, ClientSingle
  <2>6. /\ Stock'["up"] = Stock["up"] \ Of(m) /\ Of(m) \subseteq Stock["up"]
        /\ Stock'["buffer"] = Questions(buffer') /\ Stock'["down"] = InFrames(down')
        /\ \A c \in Places : c \notin {"up", "buffer", "down"} => Stock'[c] = Stock[c]
    <3>1. StockFacts /\ StockFacts'
      BY StockIs
    <3>2. /\ \A o \in Producers : Stock'[o] = Stock[o]
          /\ Stock'["frames"] = Stock["frames"]
      BY <1>1, <2>1, <3>1 DEF StockFacts
    <3>3. /\ Stock'["up"] = Questions(up')
          /\ Stock'["buffer"] = Questions(buffer') /\ Stock'["down"] = InFrames(down')
      BY <3>1 DEF StockFacts
    <3>4. \A c \in Places : c \notin {"up", "buffer", "down"} => Stock'[c] = Stock[c]
      BY <3>2, ServerStock, PlaceCases
    <3> QED
      BY <1>3, <2>3, <3>3, <3>4
  <2>7. Disjoint(Stock') /\ Less(Stock, Stock') /\ (ClientSees => Same(Stock, Stock'))
    <3> DEFINE fails == ~ClientSees
    <3>1. fails \in BOOLEAN
      BY DEF ClientSees
    <3>2. \/ Stock'["buffer"] = Stock["buffer"] \cup Of(m) /\ Stock'["down"] = Stock["down"]
          \/ Stock'["buffer"] = Of(m) /\ Stock'["down"] = Stock["down"] \cup Stock["buffer"]
          \/ Stock'["buffer"] = Of(m) /\ Stock'["down"] = Stock["down"] /\ fails
      BY <2>3, <2>4, <2>6
    <3>3. Disjoint(Stock)
      BY DEF Scattered
    <3> HIDE DEF fails
    <3>4. Disjoint(Stock') /\ Less(Stock, Stock') /\ (~fails => Same(Stock, Stock'))
      BY <2>3, <2>6, <3>1, <3>2, <3>3, ItemSent
    <3> QED
      BY <3>4 DEF fails
  <2> QED
    BY <1>1, <2>5, <2>7, ServerStock DEF ClientKeeps, Passes, Scattered
<1> QED
  BY <1>4, <1>5

(* An event of main is no question.                                        *)
LEMMA EventKeeps ==
  ASSUME SessionInv, Scattered, UNCHANGED server, QueueEvent,
         \A i \in DOMAIN script : script[i].kind \notin QueryKinds
  PROVE  ClientKeeps
<1> DEFINE m == script[made + 1]
<1>1. /\ queue \in [Producers -> Seq(AnyMsg)] /\ "main" \in Producers
      /\ made + 1 \in DOMAIN script /\ m \in AnyMsg
      /\ queue' = [queue EXCEPT !["main"] = Append(@, m)]
      /\ UNCHANGED <<m_symbolQueue, buffer, down, up>>
  <2>1. made + 1 \in 1..Len(script) /\ script \in Seq(AnyMsg)
    BY DEF QueueEvent, SessionInv, Frames_Client
  <2>2. m \in AnyMsg
    BY <2>1, ElementOfSeq
  <2> QED
    BY <2>1, <2>2 DEF QueueEvent, SessionInv, Frames_Client, Producers, link
<1>2. Of(m) = {}
  BY <1>1 DEF Of
<1> HIDE DEF m
<1>3. queue["main"] \in Seq(AnyMsg) /\ queue'["main"] = Append(queue["main"], m)
  BY <1>1
<1>4. Questions(queue'["main"]) = Questions(queue["main"]) /\ Single(queue'["main"])
  <2>1. /\ Questions(Append(queue["main"], m)) = Questions(queue["main"]) \cup Of(m)
        /\ Single(queue["main"]) /\ Questions(queue["main"]) \cap Of(m) = {} =>
              Single(Append(queue["main"], m))
    BY <1>1, <1>3, SingleAppend
  <2>2. Single(queue["main"])
    BY <1>1 DEF Scattered, ClientSingle
  <2> QED
    BY <1>2, <1>3, <2>1, <2>2
<1>5. \A o \in Producers : o # "main" => queue'[o] = queue[o]
  BY <1>1
<1>6. ClientSingle'
  BY <1>1, <1>4, <1>5 DEF Scattered, ClientSingle
<1>7. \A c \in Places : Stock'[c] = Stock[c]
  <2>1. StockFacts /\ StockFacts'
    BY StockIs
  <2>2. \A o \in Producers : Stock'[o] = Stock[o]
    BY <1>4, <1>5, <2>1 DEF StockFacts
  <2>3. /\ Stock'["up"] = Stock["up"] /\ Stock'["frames"] = Stock["frames"]
        /\ Stock'["buffer"] = Stock["buffer"] /\ Stock'["down"] = Stock["down"]
    BY <1>1, <2>1 DEF StockFacts
  <2> QED
    BY <2>2, <2>3, ServerStock, PlaceCases
<1>8. Disjoint(Stock') /\ Less(Stock, Stock') /\ Same(Stock, Stock')
  BY <1>7, SameStock DEF Scattered
<1> QED
  BY <1>1, <1>6, <1>8, ServerStock DEF ClientKeeps, Passes, Scattered

(* Without a server, what is queued is dropped.                            *)
LEMMA ClearKeeps ==
  ASSUME SessionInv, Scattered, UNCHANGED server, RejectClear
  PROVE  ClientKeeps
<1>1. /\ worker = "reject" /\ queue' = [p \in Producers |-> <<>>]
      /\ UNCHANGED <<m_symbolQueue, buffer, down, up>>
  BY DEF RejectClear, link
<1>2. ClientSingle'
  BY <1>1, SingleEmpty DEF Scattered, ClientSingle
<1>3. \A c \in Places : Stock'[c] \subseteq Stock[c]
  <2>1. StockFacts /\ StockFacts'
    BY StockIs
  <2>2. \A o \in Producers : Stock'[o] = {}
    BY <1>1, <2>1, SingleEmpty DEF StockFacts
  <2>3. /\ Stock'["up"] = Stock["up"] /\ Stock'["frames"] = Stock["frames"]
        /\ Stock'["buffer"] = Stock["buffer"] /\ Stock'["down"] = Stock["down"]
    BY <1>1, <2>1 DEF StockFacts
  <2> QED
    BY <2>2, <2>3, ServerStock, PlaceCases
<1>4. Disjoint(Stock') /\ Less(Stock, Stock')
  BY <1>3, Fewer DEF Less, Scattered
<1> QED
  BY <1>1, <1>2, <1>4, ServerStock DEF ClientKeeps, Passes, Scattered

(* The notice of termination is no question.                               *)
LEMMA TerminateKeeps ==
  ASSUME SessionInv, Scattered, UNCHANGED server, SendTerminate
  PROVE  ClientKeeps
<1>1. /\ UNCHANGED <<queue, m_symbolQueue, buffer, up>>
      /\ down' = down \/ down' = Append(down, <<Terminate>>)
  BY DEF SendTerminate
<1>2. CASE down' = down
  BY <1>1, <1>2, IdleKeeps
<1>3. CASE down' = Append(down, <<Terminate>>)
  <2>1. Terminate \in AnyMsg /\ Terminate.kind \notin QueryKinds
    BY DEF Terminate, Msg, AnyMsg, Kinds, QueryKinds, UrgentKinds
  <2>2. <<Terminate>> \in Seq(AnyMsg) /\ Questions(<<Terminate>>) = {}
    <3>1. <<Terminate>> \in Seq(AnyMsg) /\ <<Terminate>> = Append(<<>>, Terminate)
          /\ <<>> \in Seq(AnyMsg)
      BY <2>1
    <3>2. Questions(Append(<<>>, Terminate)) = Questions(<<>>) \cup Of(Terminate)
      BY <2>1, <3>1, SingleAppend
    <3>3. Of(Terminate) = {}
      BY <2>1 DEF Of
    <3> QED
      BY <3>1, <3>2, <3>3, SingleEmpty
  <2>3. Single(<<Terminate>>) /\ down \in Seq(Seq(AnyMsg)) /\ Separate(down)
    BY <2>2, SingleNone, DownType DEF Scattered, ClientSingle
  <2>4. InFrames(down') = InFrames(down) /\ Separate(down')
    BY <1>3, <2>2, <2>3, FramesAppend
  <2>5. ClientSingle'
    BY <1>1, <2>4 DEF Scattered, ClientSingle
  <2>6. \A c \in Places : Stock'[c] = Stock[c]
    BY <1>1, <2>4, StockIs, ServerStock, PlaceCases DEF StockFacts
  <2>7. Disjoint(Stock') /\ Less(Stock, Stock') /\ Same(Stock, Stock')
    BY <2>6, SameStock DEF Scattered
  <2> QED
    BY <1>1, <2>5, <2>7, ServerStock DEF ClientKeeps, Passes, Scattered
<1> QED
  BY <1>1, <1>2, <1>3

(* Every step of the client.                                               *)
LEMMA ClientStepKeeps ==
  ASSUME SessionInv, Scattered, UNCHANGED server, ClientStep,
         \A i \in DOMAIN script : script[i].kind \notin QueryKinds
  PROVE  ClientKeeps
<1> USE DEF link
<1>1. CASE Main
  <2>1. CASE QueueEvent
    BY <2>1, EventKeeps
  <2>2. CASE ShutdownProfiler \/ JoinThreads
    BY <2>2, IdleKeeps DEF ShutdownProfiler, JoinThreads
  <2> QED
    BY <1>1, <2>1, <2>2 DEF Main
<1>2. CASE SymbolWorker
  <2>1. UNCHANGED <<buffer, down, up>>
    BY <1>2 DEF SymbolWorker
  <2>2. CASE Resolve("symbols")
    BY <2>1, <2>2, ResolveKeeps DEF Producers
  <2>3. CASE UNCHANGED <<queue, m_symbolQueue>>
    BY <2>1, <2>3, IdleKeeps
  <2> QED
    BY <1>2, <2>2, <2>3 DEF SymbolWorker
<1>3. CASE AcceptExits \/ (\E version \in {"same", "other", "unread"} : Accept(version))
           \/ MainLeaves \/ Reject \/ RejectExits \/ AwaitSymbols \/ FinalExits \/ FinalPass
  <2>1. UNCHANGED <<queue, m_symbolQueue, buffer, down, up>>
    BY <1>3 DEF AcceptExits, Accept, MainLeaves, Reject, RejectExits, AwaitSymbols, FinalExits,
                FinalPass
  <2> QED
    BY <2>1, IdleKeeps
<1>4. CASE MainDequeue \/ DrainDequeue \/ FinalDequeue \/ FinalCommit
  <2>1. m_symbolQueue' = m_symbolQueue
    BY <1>4 DEF MainDequeue, DrainDequeue, FinalDequeue, FinalCommit
  <2>2. \/ \E p \in Producers : Dequeue(p, "mainQueries", "lost")
        \/ \E p \in Producers : Dequeue(p, "drainQueries", "gone")
        \/ \E p \in Producers : Dequeue(p, "finalCommit", "gone")
        \/ Commit /\ UNCHANGED queue
        \/ UNCHANGED <<queue, buffer, link>>
    BY <1>4 DEF MainDequeue, DrainDequeue, FinalDequeue, FinalCommit
  <2> QED
    BY <2>1, <2>2, DequeueKeeps, CommitKeeps, IdleKeeps
<1>5. CASE MainQueries \/ DrainQueries \/ FinalQueries
  BY <1>5, HandleKeeps DEF MainQueries, DrainQueries, FinalQueries
<1>6. CASE RejectClear
  BY <1>6, ClearKeeps
<1>7. CASE DrainSymbols \/ FinalSymbols
  <2>1. UNCHANGED <<buffer, down, up>>
    BY <1>7 DEF DrainSymbols, FinalSymbols
  <2>2. CASE Resolve("worker")
    BY <2>1, <2>2, ResolveKeeps DEF Producers
  <2>3. CASE UNCHANGED <<queue, m_symbolQueue>>
    BY <2>1, <2>3, IdleKeeps
  <2> QED
    BY <1>7, <2>2, <2>3 DEF DrainSymbols, FinalSymbols
<1>8. CASE SendTerminate
  BY <1>8, TerminateKeeps
<1> QED
  BY <1>1, <1>2, <1>3, <1>4, <1>5, <1>6, <1>7, <1>8 DEF ClientStep, Worker

(* What the client may do with the connection and the packets on it.       *)
ClientMoves ==
    /\ UNCHANGED <<script, serverEnd, lost>>
    /\ up' = up \/ (up # <<>> /\ up' = Tail(up))
    /\ worker = "gone" => worker' = "gone"
    /\ worker = "reject" => worker' \in {"reject", "gone"}
    /\ worker # "accept" =>
          /\ worker' # "accept"
          /\ clientEnd' = "open" => clientEnd = "open"
          /\ reply' = "welcome" => reply = "welcome"
    /\ worker = "accept" =>
          \/ worker' = "accept" /\ (reply' = "welcome" => reply = "welcome")
          \/ worker' = "gone"
          \/ worker' = "main" /\ clientEnd' = "open"
    /\ worker \notin {"accept", "reject", "gone"} =>
          clientEnd' = clientEnd \/ worker' \in {"reject", "gone"}
    /\ worker' = "lost" => worker = "lost" \/ ~ClientSees

LEMMA ClientStepMoves == ClientStep => ClientMoves
<1> SUFFICES ASSUME ClientStep PROVE ClientMoves
  OBVIOUS
<1> USE DEF link, program
<1>1. CASE Main \/ SymbolWorker
  BY <1>1 DEF ClientMoves, Main, QueueEvent, ShutdownProfiler, JoinThreads, SymbolWorker
<1>2. CASE AcceptExits
  BY <1>2 DEF ClientMoves, AcceptExits, Goto, StopListening
<1>3. CASE \E version \in {"same", "other", "unread"} : Accept(version)
  BY <1>3 DEF ClientMoves, Accept, Goto
<1>4. CASE MainDequeue
  BY <1>4 DEF ClientMoves, MainDequeue, Dequeue, AppendData, Commit, Goto, SendFails
<1>5. CASE MainQueries \/ DrainQueries \/ FinalQueries
  BY <1>5 DEF ClientMoves, MainQueries, DrainQueries, FinalQueries, HandleServerQuery, HasQuery,
              AppendData
<1>6. CASE MainLeaves
  BY <1>6 DEF ClientMoves, MainLeaves, Goto
<1>7. CASE RejectClear \/ Reject \/ RejectExits
  BY <1>7 DEF ClientMoves, RejectClear, Reject, RejectExits, Goto, StopListening
<1>8. CASE AwaitSymbols \/ DrainSymbols
  BY <1>8 DEF ClientMoves, AwaitSymbols, DrainSymbols, Goto
<1>9. CASE DrainDequeue
  BY <1>9 DEF ClientMoves, DrainDequeue, Dequeue, AppendData, Commit, Goto
<1>10. CASE SendTerminate
  BY <1>10 DEF ClientMoves, SendTerminate, Goto
<1>11. CASE FinalExits \/ FinalPass \/ FinalSymbols
  BY <1>11 DEF ClientMoves, FinalExits, FinalPass, FinalSymbols, Goto
<1>12. CASE FinalDequeue
  BY <1>12 DEF ClientMoves, FinalDequeue, Dequeue, AppendData, Goto
<1>13. CASE FinalCommit
  BY <1>13 DEF ClientMoves, FinalCommit, Commit, Goto
<1> QED
  BY <1>1, <1>2, <1>3, <1>4, <1>5, <1>6, <1>7, <1>8, <1>9, <1>10, <1>11, <1>12, <1>13
     DEF ClientStep, Worker

-----------------------------------------------------------------------------
(* What a step does to the account, whatever the sets are.                 *)
(* Some are lost, and space with them.                                     *)
LEMMA AccountLess ==
  ASSUME NEW P, NEW R, NEW ask, NEW answer, NEW s, NEW P1, NEW R1, NEW s1 \in Nat,
         Bounded(P, R, ask, answer, s), P1 \subseteq P, R1 \subseteq R, s1 <= s,
         QuerySpaceBase \in Nat
  PROVE  Bounded(P1, R1, ask, answer, s1)
<1>1. IsFiniteSet(R1) /\ Cardinality(R1) <= Cardinality(R)
  BY FS_Subset DEF Bounded
<1>2. Cardinality(R) \in Nat /\ Cardinality(R1) \in Nat
  BY <1>1, FS_CardinalityType DEF Bounded
<1> QED
  BY <1>1, <1>2 DEF Bounded

(* A question is answered.                                                 *)
LEMMA AccountAnswer ==
  ASSUME NEW P, NEW R, NEW ask, NEW answer, NEW s, NEW m \in R, m \in P,
         Bounded(P, R, ask, answer, s), QuerySpaceBase \in Nat
  PROVE  /\ Bounded(P \ {m}, R \ {m}, ask, answer \cup {m}, s + 1)
         /\ Exact(P, R, ask, answer, s) => Exact(P \ {m}, R \ {m}, ask, answer \cup {m}, s + 1)
<1>1. IsFiniteSet(R \ {m}) /\ Cardinality(R \ {m}) = Cardinality(R) - 1
  BY FS_RemoveElement DEF Bounded
<1>2. Cardinality(R) \in Nat /\ Cardinality(R \ {m}) \in Nat
  BY <1>1, FS_CardinalityType DEF Bounded
<1>3. s \in Nat /\ Cardinality(R \ {m}) + (s + 1) = Cardinality(R) + s
  BY <1>1, <1>2 DEF Bounded
<1>4. answer \cup {m} \subseteq ask /\ P \ {m} \subseteq ask \ (answer \cup {m})
  BY DEF Bounded
<1> QED
  BY <1>1, <1>2, <1>3, <1>4 DEF Bounded, Exact

(* A question is asked, and sent.                                          *)
LEMMA AccountSent ==
  ASSUME NEW P, NEW R, NEW ask, NEW answer, NEW s, NEW q, q \notin ask, R \cap {q} = {},
         Bounded(P, R, ask, answer, s), s > 0, QuerySpaceBase \in Nat
  PROVE  /\ Bounded(P \cup {q}, R \cup {q}, ask \cup {q}, answer, s - 1)
         /\ Exact(P, R, ask, answer, s) =>
               Exact(P \cup {q}, R \cup {q}, ask \cup {q}, answer, s - 1)
<1>1. IsFiniteSet(R \cup {q}) /\ Cardinality(R \cup {q}) = Cardinality(R) + 1
  BY FS_AddElement DEF Bounded
<1>2. Cardinality(R) \in Nat /\ Cardinality(R \cup {q}) \in Nat
  BY <1>1, FS_CardinalityType DEF Bounded
<1>3. s \in Nat /\ s - 1 \in Nat /\ Cardinality(R \cup {q}) + (s - 1) = Cardinality(R) + s
  BY <1>1, <1>2 DEF Bounded
<1>4. answer \subseteq ask \cup {q} /\ P \cup {q} \subseteq (ask \cup {q}) \ answer
  BY DEF Bounded
<1> QED
  BY <1>1, <1>2, <1>3, <1>4 DEF Bounded, Exact

(* A question is asked, and waits.                                         *)
LEMMA AccountWaits ==
  ASSUME NEW P, NEW R, NEW ask, NEW answer, NEW s, NEW q, q \notin ask,
         Bounded(P, R, ask, answer, s)
  PROVE  /\ Bounded(P \cup {q}, R, ask \cup {q}, answer, s)
         /\ Exact(P, R, ask, answer, s) => Exact(P \cup {q}, R, ask \cup {q}, answer, s)
BY DEF Bounded, Exact

(* A question is asked, and lost.                                          *)
LEMMA AccountLost ==
  ASSUME NEW P, NEW R, NEW ask, NEW answer, NEW s, NEW q, NEW s1 \in Nat, s1 <= s,
         Bounded(P, R, ask, answer, s), QuerySpaceBase \in Nat
  PROVE  Bounded(P, R, ask \cup {q}, answer, s1)
<1>1. Bounded(P, R, ask, answer, s1)
  BY AccountLess
<1> QED
  BY <1>1 DEF Bounded

(* Questions that waited are sent.                                         *)
LEMMA AccountQueued ==
  ASSUME NEW P, NEW R, NEW ask, NEW answer, NEW s, NEW M, R \cap M = {}, IsFiniteSet(M),
         Cardinality(M) <= s, Bounded(P, R, ask, answer, s), QuerySpaceBase \in Nat
  PROVE  /\ Bounded(P, R \cup M, ask, answer, s - Cardinality(M))
         /\ Exact(P, R, ask, answer, s) => Exact(P, R \cup M, ask, answer, s - Cardinality(M))
<1>1. /\ IsFiniteSet(R \cup M)
      /\ Cardinality(R \cup M) = Cardinality(R) + Cardinality(M) - Cardinality(R \cap M)
  BY FS_Union DEF Bounded
<1>2. Cardinality(R \cap M) = 0
  BY FS_EmptySet
<1>3. Cardinality(R) \in Nat /\ Cardinality(M) \in Nat /\ Cardinality(R \cup M) \in Nat
  BY <1>1, FS_CardinalityType DEF Bounded
<1>4. /\ s \in Nat /\ s - Cardinality(M) \in Nat
      /\ Cardinality(R \cup M) + (s - Cardinality(M)) = Cardinality(R) + s
  BY <1>1, <1>2, <1>3 DEF Bounded
<1> QED
  BY <1>1, <1>3, <1>4 DEF Bounded, Exact

(* A sequence of questions, none of them twice, has as many as its length. *)
LEMMA AsManyQuestions ==
  ASSUME NEW s \in Seq(AnyMsg), Single(s), AllQuestions(s)
  PROVE  IsFiniteSet(Questions(s)) /\ Cardinality(Questions(s)) = Len(s)
<1>1. Len(s) \in Nat /\ DOMAIN s = 1..Len(s) /\ s = [i \in 1..Len(s) |-> s[i]]
  OBVIOUS
<1>2. \A i \in 1..Len(s) : s[i] \in Questions(s)
  BY <1>1, QuestionsAre DEF AllQuestions
<1>3. s \in [1..Len(s) -> Questions(s)]
  BY <1>1, <1>2
<1>4. \A i, j \in 1..Len(s) : s[i] = s[j] => i = j
  BY <1>1 DEF Single, AllQuestions
<1>5. \A m \in Questions(s) : \E i \in 1..Len(s) : s[i] = m
  BY <1>1, QuestionsAre
<1>6. s \in Bijection(1..Len(s), Questions(s))
  BY <1>3, <1>4, <1>5 DEF Bijection, Injection, Surjection, IsInjective
<1>7. ExistsBijection(1..Len(s), Questions(s))
  BY <1>6 DEF ExistsBijection
<1> QED
  BY <1>1, <1>7, FS_NatBijection, FS_CountingElements

-----------------------------------------------------------------------------
(* The invariant, step by step.  The client first.                         *)
LEMMA BaseType == QuerySpaceBase \in Nat
BY LinkAssumption DEF QuerySpaceBase

(* Where there are no questions none is in two places.                     *)
LEMMA Blank == In(Stock, Places) = {} => Scattered
<1> SUFFICES ASSUME In(Stock, Places) = {} PROVE Scattered
  OBVIOUS
<1>1. \A c \in Places : Stock[c] = {}
  BY InAre
<1>2. StockFacts
  BY StockIs
<1>3. /\ \A p \in Producers : p \in Places
      /\ "up" \in Places /\ "frames" \in Places /\ "buffer" \in Places /\ "down" \in Places
      /\ "unread" \in Places /\ "current" \in Places /\ "prio" \in Places /\ "low" \in Places
  BY PlacesAre
<1>4. ClientSingle
  BY <1>1, <1>2, <1>3, SingleNone, SeparateNone DEF ClientSingle, StockFacts
<1>5. Unread = FramesOf(m_netRead)
  BY DEF Unread, FramesOf
<1>6. ServerSingle
  BY <1>1, <1>2, <1>3, <1>5, SingleNone, SeparateNone DEF ServerSingle, StockFacts
<1>7. Disjoint(Stock)
  BY <1>1 DEF Disjoint
<1> QED
  BY <1>4, <1>6, <1>7 DEF Scattered

(* The first message of a sequence of questions is taken.                  *)
LEMMA AllQuestionsTail ==
  ASSUME NEW s \in Seq(AnyMsg), s # <<>>
  PROVE  Len(Tail(s)) <= Len(s) /\ (AllQuestions(s) => AllQuestions(Tail(s)))
<1>1. /\ Len(s) \in Nat /\ Len(s) >= 1 /\ DOMAIN s = 1..Len(s)
      /\ Len(Tail(s)) = Len(s) - 1 /\ DOMAIN Tail(s) = 1..(Len(s) - 1)
      /\ \A i \in 1..(Len(s) - 1) : Tail(s)[i] = s[i + 1]
  OBVIOUS
<1>2. \A i \in 1..(Len(s) - 1) : i + 1 \in 1..Len(s)
  BY <1>1
<1> QED
  BY <1>1, <1>2 DEF AllQuestions

(* Which of a session's facts a step of the client can disturb.            *)
LEMMA ClientCounted ==
  ASSUME SpaceInv, ClientStep, UNCHANGED server, Connected
  PROVE  Counted'
<1>1. /\ ClientKeeps /\ Counted /\ Scattered
  <2>1. \A i \in DOMAIN script : script[i].kind \notin QueryKinds
    BY DEF SpaceInv, Begins
  <2>2. SessionInv /\ Counted /\ Scattered
    BY DEF SpaceInv, Counted
  <2> QED
    BY <2>1, <2>2, ClientStepKeeps
<1>2. ClientMoves
  BY ClientStepMoves
<1>3. /\ UNCHANGED <<exec, asked, answered, spaceLeft, prioQueue, lowQueue>>
      /\ Connected' = Connected
  BY DEF server, threadsOfServer, queries, Connected
<1>4. Talking' => Talking /\ ClientSees /\ worker # "reject"
  BY <1>2, <1>3 DEF SpaceInv, Phases, Talking, Connected, ClientMoves, ClientSees
<1>5. /\ Less(Stock, Stock') /\ (Talking' => Same(Stock, Stock'))
      /\ Scattered'
  BY <1>1, <1>4 DEF ClientKeeps, Passes
<1>6. AllQuestions(up') /\ AllQuestions(prioQueue') /\ AllQuestions(lowQueue')
  <2>1. up \in Seq(AnyMsg)
    BY DEF SpaceInv, SessionInv, Frames_Link
  <2> QED
    BY <1>1, <1>2, <1>3, <2>1, AllQuestionsTail DEF ClientMoves, Counted
<1>7. Bounded(In(Stock', Places), In(Stock', Road), asked, answered, spaceLeft)
  <2>1. Bounded(In(Stock, Places), In(Stock, Road), asked, answered, spaceLeft)
    BY <1>1 DEF Counted
  <2>2. spaceLeft \in Nat /\ spaceLeft <= spaceLeft
    BY <2>1 DEF Bounded
  <2> QED
    BY <1>5, <2>1, <2>2, AccountLess, BaseType DEF Less
<1>8. Talking' => Exact(In(Stock', Places), In(Stock', Road), asked, answered, spaceLeft)
  BY <1>1, <1>4, <1>5 DEF Counted, Same
<1> QED
  BY <1>1, <1>3, <1>5, <1>6, <1>7, <1>8 DEF Counted

(* A step of the client.                                                   *)
LEMMA ClientSpace == SpaceInv /\ ClientStep /\ UNCHANGED server => SpaceInv'
<1> SUFFICES ASSUME SpaceInv, ClientStep, UNCHANGED server PROVE SpaceInv'
  OBVIOUS
<1>1. ClientMoves /\ SessionInv /\ Phases /\ Begins
  BY ClientStepMoves DEF SpaceInv
<1>2. /\ UNCHANGED <<exec, asked, answered, spaceLeft, prioQueue, lowQueue>>
      /\ Connected' = Connected
  BY DEF server, threadsOfServer, queries, Connected
<1>3. SessionInv'
  BY <1>1, ClientInv
<1>4. Phases'
  BY <1>1, <1>2 DEF Phases, ClientMoves, ClientSees
<1>5. Begins'
  <2>1. In(Stock, Places) = {} => In(Stock', Places) = {}
    <3>1. In(Stock, Places) = {} => ClientKeeps
      BY <1>1, Blank, ClientStepKeeps DEF Begins
    <3> QED
      BY <3>1 DEF ClientKeeps, Passes, Less
  <2>2. /\ worker' = "accept" => worker = "accept"
        /\ reply' = "welcome" => worker = "accept" \/ reply = "welcome"
        /\ script' = script /\ (up = <<>> => up' = <<>>)
    BY <1>1 DEF ClientMoves
  <2> QED
    BY <1>1, <1>2, <2>1, <2>2 DEF Begins
<1>6. (Connected => Counted)'
  BY <1>2, ClientCounted
<1>7. exec' = "closed" => Len(up') <= QuerySpaceBase + 1
  <2>1. up \in Seq(AnyMsg) /\ (exec = "closed" => Len(up) <= QuerySpaceBase + 1)
    BY DEF SpaceInv, SessionInv, Frames_Link
  <2>2. Len(up') <= Len(up) /\ Len(up) \in Nat /\ Len(up') \in Nat
    <3>1. up # <<>> => Len(Tail(up)) <= Len(up) /\ Tail(up) \in Seq(AnyMsg)
      BY <2>1, AllQuestionsTail, HeadTailProperties
    <3>2. up' \in Seq(AnyMsg)
      BY <1>3 DEF SessionInv, Frames_Link
    <3> QED
      BY <1>1, <2>1, <3>1, <3>2, LenProperties DEF ClientMoves
  <2> QED
    BY <1>2, <2>1, <2>2, BaseType
<1> QED
  BY <1>3, <1>4, <1>5, <1>6, <1>7 DEF SpaceInv

-----------------------------------------------------------------------------
(* The server.  What the client keeps stays where it is.                   *)
LEMMA ClientStock ==
  ASSUME UNCHANGED client
  PROVE  /\ \A p \in Producers : Stock'[p] = Stock[p]
         /\ Stock'["frames"] = Stock["frames"] /\ Stock'["buffer"] = Stock["buffer"]
         /\ ClientSingle /\ Single(up') /\ Separate(down') => ClientSingle'
<1>1. UNCHANGED <<queue, m_symbolQueue, buffer>>
  BY DEF client
<1> QED
  BY <1>1, StockIs DEF StockFacts, ClientSingle

(* Exec ends a session: it is enough that its packets fit.                 *)
LEMMA ClosesSpace ==
  ASSUME SpaceInv, SessionInv', UNCHANGED client, UNCHANGED lost, UNCHANGED reply,
         UNCHANGED clientEnd, exec' = "closed", worker = "accept" => UNCHANGED Stock,
         worker = "lost" => ~ClientSees', Len(up') <= QuerySpaceBase + 1
  PROVE  SpaceInv'
<1>1. UNCHANGED <<worker, script>>
  BY DEF client, program
<1>2. ~Connected'
  BY DEF Connected
<1>3. Phases'
  BY <1>1, <1>2 DEF SpaceInv, Phases
<1>4. Begins'
  BY <1>1 DEF SpaceInv, Begins
<1> QED
  BY <1>2, <1>3, <1>4 DEF SpaceInv

(* Exec stays in a session: it is enough that its account is right.        *)
LEMMA StaysSpace ==
  ASSUME SpaceInv, SessionInv', UNCHANGED client, UNCHANGED <<lost, reply, clientEnd, serverEnd>>,
         Connected, Connected', Counted'
  PROVE  SpaceInv'
<1>1. UNCHANGED <<worker, script>>
  BY DEF client, program
<1>2. worker # "accept" /\ exec' \notin {"connect", "handshake", "closed"}
      /\ exec' \in {"check", "wait", "process"}
  BY DEF SpaceInv, Phases, Connected
<1>3. Phases'
  BY <1>1, <1>2 DEF SpaceInv, Phases, Connected, ClientSees
<1>4. Begins'
  BY <1>1, <1>2 DEF SpaceInv, Begins
<1> QED
  BY <1>2, <1>3, <1>4 DEF SpaceInv

(* The packets of a session are questions on the road.                     *)
LEMMA PacketsBounded ==
  ASSUME SessionInv, Counted
  PROVE  /\ up \in Seq(AnyMsg) /\ Len(up) \in Nat /\ spaceLeft \in Nat
         /\ Len(up) + spaceLeft <= QuerySpaceBase
<1>1. up \in Seq(AnyMsg) /\ Single(up) /\ AllQuestions(up)
  BY DEF SessionInv, Frames_Link, Counted, Scattered, ClientSingle
<1>2. Cardinality(Questions(up)) = Len(up) /\ Len(up) \in Nat
  BY <1>1, AsManyQuestions
<1>3. Questions(up) \subseteq In(Stock, Road)
  <2>1. Stock["up"] = Questions(up) /\ "up" \in Road
    BY StockIs, PlacesAre DEF StockFacts
  <2> QED
    BY <2>1, InAre
<1>4. /\ IsFiniteSet(In(Stock, Road)) /\ spaceLeft \in Nat
      /\ Cardinality(In(Stock, Road)) + spaceLeft <= QuerySpaceBase
  BY DEF Counted, Bounded
<1>5. Cardinality(Questions(up)) <= Cardinality(In(Stock, Road)) /\ Cardinality(In(Stock, Road)) \in Nat
  BY <1>3, <1>4, FS_Subset, FS_CardinalityType
<1> QED
  BY <1>1, <1>2, <1>4, <1>5, BaseType

(* A step that moves questions along the road, or none.                    *)
LEMMA RoadSpace ==
  ASSUME SpaceInv, SessionInv', UNCHANGED client, UNCHANGED <<lost, reply, clientEnd, serverEnd, up>>,
         Connected, Connected', UNCHANGED <<asked, answered, spaceLeft, prioQueue, lowQueue>>,
         exec = "process" => exec' = "process",
         Scattered', Same(Stock, Stock')
  PROVE  SpaceInv'
<1>1. UNCHANGED worker /\ (Talking' => Talking)
  BY DEF client, Talking
<1>2. Counted
  BY DEF SpaceInv
<1>3. Counted'
  BY <1>1, <1>2 DEF Counted, Same
<1> QED
  BY <1>3, StaysSpace

(* A step of Network, in a session or out of it.                           *)
LEMMA NetworkSpace ==
  ASSUME SpaceInv, SessionInv', UNCHANGED client,
         UNCHANGED <<exec, lost, reply, clientEnd, serverEnd, up>>,
         UNCHANGED <<asked, answered, spaceLeft, prioQueue, lowQueue>>,
         Scattered => Scattered' /\ Same(Stock, Stock')
  PROVE  SpaceInv'
<1>1. Connected' = Connected
  BY DEF Connected
<1>2. CASE Connected
  BY <1>1, <1>2, RoadSpace DEF SpaceInv, Counted
<1>3. CASE ~Connected
  <2>1. UNCHANGED <<worker, script>>
    BY DEF client, program
  <2>2. Phases'
    BY <1>1, <2>1 DEF SpaceInv, Phases, ClientSees
  <2>3. In(Stock, Places) = {} => In(Stock', Places) = {}
    BY Blank DEF Same
  <2>4. Begins'
    BY <2>1, <2>3 DEF SpaceInv, Begins
  <2> QED
    BY <1>1, <1>3, <2>2, <2>4 DEF SpaceInv
<1> QED
  BY <1>2, <1>3

(* Where no message is moved.                                              *)
LEMMA StillKeeps ==
  ASSUME Scattered, UNCHANGED client, UNCHANGED <<up, down, current, prioQueue, lowQueue>>,
         Separate(Unread'), InFrames(Unread') = InFrames(Unread)
  PROVE  Scattered' /\ Same(Stock, Stock')
<1>1. ServerSingle' /\ ClientSingle'
  BY ClientStock DEF Scattered, ServerSingle, ClientSingle
<1>2. \A c \in Places : Stock'[c] = Stock[c]
  <2>1. StockFacts /\ StockFacts' /\ Unread = FramesOf(m_netRead) /\ Unread' = FramesOf(m_netRead')
    BY StockIs DEF Unread, FramesOf
  <2>2. /\ Stock'["up"] = Stock["up"] /\ Stock'["down"] = Stock["down"]
        /\ Stock'["unread"] = Stock["unread"] /\ Stock'["current"] = Stock["current"]
        /\ Stock'["prio"] = Stock["prio"] /\ Stock'["low"] = Stock["low"]
    BY <2>1 DEF StockFacts
  <2> QED
    BY <2>2, ClientStock, PlaceCases
<1>3. Disjoint(Stock') /\ Same(Stock, Stock')
  BY <1>2, SameStock DEF Scattered
<1> QED
  BY <1>1, <1>3 DEF Scattered

(* The frames that were received.                                          *)
LEMMA UnreadIs ==
  /\ Unread = FramesOf(m_netRead) /\ Unread' = FramesOf(m_netRead')
  /\ SessionInv => Unread \in Seq(Seq(AnyMsg)) /\ Unread \in Seq(Frames)
<1>1. Unread = FramesOf(m_netRead) /\ Unread' = FramesOf(m_netRead')
  BY DEF Unread, FramesOf
<1>2. ASSUME SessionInv PROVE Unread \in Seq(Seq(AnyMsg)) /\ Unread \in Seq(Frames)
  <2>1. m_netRead \in Seq(NetBuffers) /\ EndOfStream \in NetBuffers
    BY <1>2, Empty DEF SessionInv, Frames_Server
  <2>2. FramesOf(m_netRead) \in Seq(Frames)
    BY <2>1, FramesOfAppend
  <2>3. Frames \subseteq Seq(AnyMsg)
    BY DEF Frames
  <2> QED
    BY <1>1, <2>2, <2>3, SeqMonotonic
<1> QED
  BY <1>1, <1>2

(* The notice that the stream has ended has no frame.                      *)
LEMMA EndOfStreamKeeps ==
  ASSUME SessionInv, Separate(Unread), m_netRead' = Append(m_netRead, EndOfStream)
  PROVE  Separate(Unread') /\ InFrames(Unread') = InFrames(Unread)
<1>1. m_netRead \in Seq(NetBuffers) /\ EndOfStream \in NetBuffers /\ EndOfStream.frame = <<>>
  BY Empty DEF SessionInv, Frames_Server, EndOfStream
<1>2. Unread' = Append(Unread, <<>>)
  BY <1>1, UnreadIs, FramesOfAppend
<1>3. Unread \in Seq(Seq(AnyMsg)) /\ <<>> \in Seq(AnyMsg)
  BY UnreadIs
<1> QED
  BY <1>2, <1>3, FramesAppend, SingleEmpty

(* Network waits for its credit, or finds the connection closed.           *)
LEMMA CreditSpace ==
  ASSUME SpaceInv, TakeCredit \/ ReceiveFails, UNCHANGED client
  PROVE  SpaceInv'
<1>1. SessionInv /\ SessionInv'
  <2>1. ServerStep
    BY DEF ServerStep, Network
  <2> QED
    BY <2>1, ServerStepInv DEF SpaceInv
<1>2. /\ UNCHANGED <<exec, current, lost, reply, clientEnd, serverEnd, up, down>>
      /\ UNCHANGED <<asked, answered, spaceLeft, prioQueue, lowQueue>>
      /\ m_netRead' = m_netRead \/ m_netRead' = Append(m_netRead, EndOfStream)
  BY DEF TakeCredit, ReceiveFails, link, queries
<1>3. ASSUME Scattered PROVE Scattered' /\ Same(Stock, Stock')
  <2>1. Separate(Unread)
    BY <1>3 DEF Scattered, ServerSingle
  <2>2. Separate(Unread') /\ InFrames(Unread') = InFrames(Unread)
    <3>1. CASE m_netRead' = m_netRead
      BY <2>1, <3>1 DEF Unread
    <3>2. CASE m_netRead' = Append(m_netRead, EndOfStream)
      BY <1>1, <2>1, <3>2, EndOfStreamKeeps
    <3> QED
      BY <1>2, <3>1, <3>2
  <2> QED
    BY <1>2, <1>3, <2>2, StillKeeps
<1> QED
  BY <1>1, <1>2, <1>3, NetworkSpace

(* Network receives a frame.                                               *)
LEMMA ReceiveSpace ==
  ASSUME SpaceInv, Receive, UNCHANGED client
  PROVE  SpaceInv'
<1> DEFINE f == Head(down)
<1> DEFINE b == [offset |-> m_bufferOffset, frame |-> f]
<1>1. SessionInv /\ SessionInv'
  <2>1. ServerStep
    BY DEF ServerStep, Network
  <2> QED
    BY <2>1, ServerStepInv DEF SpaceInv
<1>2. /\ UNCHANGED <<exec, current, lost, reply, clientEnd, serverEnd, up>>
      /\ UNCHANGED <<asked, answered, spaceLeft, prioQueue, lowQueue>>
      /\ down # <<>> /\ down' = Tail(down) /\ m_netRead' = Append(m_netRead, b)
  BY DEF Receive, queries
<1>3. /\ down \in Seq(Frames) /\ down \in Seq(Seq(AnyMsg)) /\ f \in Frames /\ f \in Seq(AnyMsg)
      /\ m_netRead \in Seq(NetBuffers) /\ b \in NetBuffers
  <2>1. down \in Seq(Frames) /\ down \in Seq(Seq(AnyMsg)) /\ m_netRead \in Seq(NetBuffers)
    BY <1>1, DownType DEF SessionInv, Frames_Link, Frames_Server
  <2>2. f \in Frames
    BY <1>2, <2>1, HeadTailProperties
  <2>3. b \in NetBuffers
    BY <1>1, <2>2 DEF NetBuffers, SessionInv, Credit
  <2> QED
    BY <2>1, <2>2, <2>3 DEF Frames
<1>4. Unread' = Append(Unread, f)
  <2>1. b.frame = f
    OBVIOUS
  <2> HIDE DEF b
  <2> QED
    BY <1>2, <1>3, <2>1, UnreadIs, FramesOfAppend
<1> HIDE DEF f, b
<1>5. ASSUME Scattered PROVE Scattered' /\ Same(Stock, Stock')
  <2>1. /\ InFrames(down) = InFrames(Tail(down)) \cup Questions(f)
        /\ Separate(down') /\ Single(f) /\ InFrames(down') = InFrames(down) \ Questions(f)
    <3>1. Separate(down)
      BY <1>5 DEF Scattered, ClientSingle
    <3> QED
      BY <1>2, <1>3, <3>1, FramesTail DEF f
  <2>2. /\ Stock["down"] = InFrames(down) /\ Stock["unread"] = InFrames(Unread)
        /\ Stock["down"] \cap Stock["unread"] = {}
        /\ {"down", "unread"} \subseteq Places /\ {"down", "unread"} \subseteq Road
    BY <1>5, StockIs, PlacesAre, UnreadIs DEF StockFacts, Scattered, Disjoint
  <2>3. InFrames(Unread') = InFrames(Unread) \cup Questions(f) /\ Separate(Unread')
    <3>1. Separate(Unread) /\ Questions(f) \cap InFrames(Unread) = {}
      BY <1>5, <2>1, <2>2 DEF Scattered, ServerSingle
    <3>2. Unread \in Seq(Seq(AnyMsg))
      BY <1>1, UnreadIs
    <3> QED
      BY <1>3, <1>4, <2>1, <3>1, <3>2, FramesAppend
  <2>4. ClientSingle' /\ ServerSingle'
    <3>1. ClientSingle /\ ServerSingle
      BY <1>5 DEF Scattered
    <3>2. Single(up')
      BY <1>2, <3>1 DEF ClientSingle
    <3> QED
      BY <1>2, <2>1, <2>3, <3>1, <3>2, ClientStock DEF ServerSingle
  <2>5. Moves(Stock, Stock', "down", "unread", Questions(f))
    <3>1. StockFacts /\ StockFacts'
      BY StockIs
    <3>2. /\ Stock'["up"] = Stock["up"] /\ Stock'["current"] = Stock["current"]
          /\ Stock'["prio"] = Stock["prio"] /\ Stock'["low"] = Stock["low"]
      BY <1>2, <3>1 DEF StockFacts
    <3>3. Stock'["down"] = Stock["down"] \ Questions(f)
      BY <2>1, <2>2, <3>1 DEF StockFacts
    <3>4. Stock'["unread"] = Stock["unread"] \cup Questions(f)
      BY <2>2, <2>3, <3>1, UnreadIs DEF StockFacts
    <3>5. \A c \in Places : c \notin {"down", "unread"} => Stock'[c] = Stock[c]
      BY <3>2, ClientStock, PlaceCases
    <3> QED
      BY <2>1, <2>2, <3>3, <3>4, <3>5 DEF Moves
  <2>6. Disjoint(Stock') /\ Same(Stock, Stock')
    BY <1>5, <2>2, <2>5, Moved DEF Same, Scattered
  <2> QED
    BY <2>4, <2>6 DEF Scattered
<1> QED
  BY <1>1, <1>2, <1>5, NetworkSpace

(* Nothing moves when no message does.                                     *)
LEMMA StockStays ==
  ASSUME UNCHANGED client, UNCHANGED <<up, down, m_netRead, current, prioQueue, lowQueue>>
  PROVE  Stock' = Stock
BY DEF client, Stock, Unread

(* A step of Exec keeps the types.                                         *)
LEMMA ExecInv == SpaceInv /\ Exec /\ UNCHANGED client => SessionInv /\ SessionInv'
<1> SUFFICES ASSUME SpaceInv, Exec, UNCHANGED client PROVE SessionInv /\ SessionInv'
  OBVIOUS
<1>1. ServerStep
  BY DEF ServerStep
<1> QED
  BY <1>1, ServerStepInv DEF SpaceInv

(* Exec connects, or gives up.                                             *)
LEMMA ConnectSpace ==
  ASSUME SpaceInv, Connect, UNCHANGED client
  PROVE  SpaceInv'
<1>1. SessionInv /\ SessionInv'
  BY ExecInv DEF Exec
<1>2. /\ exec = "connect" /\ UNCHANGED <<clientEnd, lost, reply, up, down>>
      /\ UNCHANGED <<m_netRead, current, asked, answered, spaceLeft, prioQueue, lowQueue>>
      /\ \/ exec' = "closed" /\ UNCHANGED serverEnd
         \/ clientEnd = "none" /\ exec' = "handshake" /\ serverEnd' = "open"
  BY DEF Connect, netState, queries
<1>3. UNCHANGED <<worker, script>> /\ Stock' = Stock
  BY <1>2, StockStays DEF client, program
<1>4. Phases'
  BY <1>2, <1>3 DEF SpaceInv, Phases, Connected, ClientSees
<1>5. In(Stock, Places)' = In(Stock, Places)
  BY <1>3
<1>6. Begins'
  BY <1>2, <1>3, <1>5 DEF SpaceInv, Begins
<1>7. ~Connected' /\ (exec' = "closed" => Len(up') <= QuerySpaceBase + 1)
  <2>1. up' = <<>>
    BY <1>2 DEF SpaceInv, Begins
  <2> QED
    BY <1>2, <2>1, BaseType DEF Connected
<1> QED
  BY <1>1, <1>4, <1>6, <1>7 DEF SpaceInv

(* The handshake: a session begins with nothing asked.                     *)
LEMMA HandshakeSpace ==
  ASSUME SpaceInv, Handshake, UNCHANGED client
  PROVE  SpaceInv'
<1>1. SessionInv /\ SessionInv'
  BY ExecInv DEF Exec
<1>2. /\ exec = "handshake" /\ UNCHANGED <<clientEnd, lost, reply, up, down>>
      /\ UNCHANGED <<m_netRead, current, asked, answered, spaceLeft, prioQueue, lowQueue>>
      /\ \/ reply = "welcome" /\ exec' = "check" /\ UNCHANGED serverEnd
         \/ exec' = "closed" /\ serverEnd' = "closed"
  BY DEF Handshake, queries, CloseSession
<1>3. UNCHANGED <<worker, script>> /\ Stock' = Stock
  BY <1>2, StockStays DEF client, program
<1>4. /\ up = <<>> /\ prioQueue = <<>> /\ lowQueue = <<>>
      /\ asked = {} /\ answered = {} /\ spaceLeft = QuerySpaceBase
  BY <1>2 DEF SpaceInv, Begins
<1>5. CASE exec' = "closed" /\ serverEnd' = "closed"
  <2>1. ~ClientSees' /\ Len(up') <= QuerySpaceBase + 1
    BY <1>2, <1>4, <1>5, BaseType DEF ClientSees
  <2> QED
    BY <1>1, <1>2, <1>3, <1>5, <2>1, ClosesSpace
<1>6. CASE reply = "welcome" /\ exec' = "check" /\ UNCHANGED serverEnd
  <2>1. worker # "accept" /\ serverEnd = "open"
    BY <1>2, <1>6 DEF SpaceInv, Phases
  <2>2. Phases'
    BY <1>2, <1>3, <1>6, <2>1 DEF SpaceInv, Phases, Connected, ClientSees
  <2>3. Begins'
    BY <1>2, <1>3, <1>6, <2>1 DEF SpaceInv, Begins
  <2>4. In(Stock, Places) = {} /\ In(Stock, Road) = {}
    <3>1. In(Stock, Places) = {}
      BY <1>2, <1>6 DEF SpaceInv, Begins
    <3>2. Road \subseteq Places
      BY PlacesAre
    <3>3. \A m : m \notin In(Stock, Road)
      BY <3>1, <3>2, InAre
    <3> QED
      BY <3>1, <3>3
  <2>5. Scattered /\ Scattered'
    <3>1. Scattered
      BY <2>4, Blank
    <3>2. Separate(Unread') /\ InFrames(Unread') = InFrames(Unread)
      BY <1>2, <3>1 DEF Scattered, ServerSingle, Unread
    <3> QED
      BY <1>2, <3>1, <3>2, StillKeeps
  <2>6. /\ Bounded(In(Stock', Places), In(Stock', Road), asked', answered', spaceLeft')
        /\ Exact(In(Stock', Places), In(Stock', Road), asked', answered', spaceLeft')
    BY <1>2, <1>3, <1>4, <2>4, FS_EmptySet, BaseType DEF Bounded, Exact
  <2>7. AllQuestions(up') /\ AllQuestions(prioQueue') /\ AllQuestions(lowQueue')
    BY <1>2, <1>4 DEF AllQuestions
  <2>8. Counted'
    BY <1>2, <1>4, <2>5, <2>6, <2>7 DEF Counted
  <2> QED
    BY <1>1, <1>6, <2>2, <2>3, <2>8 DEF SpaceInv
<1> QED
  BY <1>2, <1>5, <1>6

(* Exec ends the session, its last packet included.                        *)
LEMMA EndsSpace ==
  ASSUME SpaceInv, SessionInv', UNCHANGED client, UNCHANGED <<lost, reply, clientEnd>>, Connected,
         exec' = "closed", serverEnd' = "closed",
         NEW packets \in Seq(AnyMsg), Len(packets) <= spaceLeft + 1, Send(packets)
  PROVE  SpaceInv'
<1>1. up \in Seq(AnyMsg) /\ Len(up) \in Nat /\ spaceLeft \in Nat
      /\ Len(up) + spaceLeft <= QuerySpaceBase
  BY PacketsBounded DEF SpaceInv
<1>2. Len(up \o packets) = Len(up) + Len(packets) /\ Len(packets) \in Nat
  BY <1>1
<1>3. Len(up') <= QuerySpaceBase + 1
  BY <1>1, <1>2, BaseType DEF Send, Sent
<1>4. worker # "accept" /\ ~ClientSees'
  BY DEF SpaceInv, Phases, ClientSees
<1> QED
  BY <1>3, <1>4, ClosesSpace

(* Exec looks whether the viewer was closed.                               *)
LEMMA CheckSpace ==
  ASSUME SpaceInv, Check, UNCHANGED client
  PROVE  SpaceInv'
<1>1. SessionInv /\ SessionInv'
  BY ExecInv DEF Exec
<1>2. /\ exec = "check" /\ Connected /\ UNCHANGED <<clientEnd, lost, reply, down>>
      /\ UNCHANGED <<m_netRead, current, asked, answered, spaceLeft, prioQueue, lowQueue>>
      /\ \/ exec' = "closed" /\ serverEnd' = "closed" /\ Send(<<Terminate>>)
         \/ exec' = "wait" /\ UNCHANGED <<serverEnd, up>>
  BY DEF Check, CloseSession, netState, queries, Connected
<1>3. CASE exec' = "closed" /\ serverEnd' = "closed" /\ Send(<<Terminate>>)
  <2>1. <<Terminate>> \in Seq(AnyMsg)
    BY DEF Terminate, Msg, AnyMsg, Kinds
  <2>2. Len(<<Terminate>>) <= spaceLeft + 1
    BY <1>1 DEF SessionInv, Frames_Server
  <2> QED
    BY <1>1, <1>2, <1>3, <2>1, <2>2, EndsSpace
<1>4. CASE exec' = "wait" /\ UNCHANGED <<serverEnd, up>>
  <2>1. Scattered
    BY <1>2 DEF SpaceInv, Counted
  <2>2. Separate(Unread') /\ InFrames(Unread') = InFrames(Unread)
    BY <1>2, <2>1 DEF Scattered, ServerSingle, Unread
  <2>3. Scattered' /\ Same(Stock, Stock')
    BY <1>2, <1>4, <2>1, <2>2, StillKeeps
  <2>4. Connected'
    BY <1>4 DEF Connected
  <2> QED
    BY <1>1, <1>2, <1>4, <2>3, <2>4, RoadSpace
<1> QED
  BY <1>2, <1>3, <1>4

(* Exec takes a frame that Network received, or the end of the stream.     *)
LEMMA TakeFrameSpace ==
  ASSUME SpaceInv, TakeFrame, UNCHANGED client
  PROVE  SpaceInv'
<1> DEFINE b == Head(m_netRead)
<1>1. SessionInv /\ SessionInv'
  BY ExecInv DEF Exec
<1>2. /\ exec = "wait" /\ Connected /\ UNCHANGED <<clientEnd, lost, reply, up, down>>
      /\ UNCHANGED <<asked, answered, spaceLeft, prioQueue, lowQueue>>
      /\ m_netRead # <<>> /\ m_netRead' = Tail(m_netRead)
      /\ \/ exec' = "closed" /\ serverEnd' = "closed"
         \/ exec' = "process" /\ current' = b /\ UNCHANGED serverEnd
  BY DEF TakeFrame, CloseSession, queries, Connected
<1>3. CASE exec' = "closed" /\ serverEnd' = "closed"
  <2>1. <<>> \in Seq(AnyMsg) /\ Len(<<>>) <= spaceLeft + 1
    BY <1>1 DEF SessionInv, Frames_Server
  <2>2. Send(<<>>)
    BY <1>1, <1>2 DEF Send, Sent, SessionInv, Frames_Link
  <2> QED
    BY <1>1, <1>2, <1>3, <2>1, <2>2, EndsSpace
<1>4. CASE exec' = "process" /\ current' = b /\ UNCHANGED serverEnd
  <2> DEFINE f == Head(Unread)
  <2>1. /\ Unread \in Seq(Seq(AnyMsg)) /\ Unread # <<>> /\ Unread' = Tail(Unread)
        /\ b.frame = f
    <3>1. m_netRead \in Seq(NetBuffers)
      BY <1>1 DEF SessionInv, Frames_Server
    <3>2. /\ FramesOf(m_netRead) # <<>>
          /\ FramesOf(Tail(m_netRead)) = Tail(FramesOf(m_netRead))
          /\ Head(m_netRead).frame = Head(FramesOf(m_netRead))
      BY <1>2, <3>1, FramesOfTail
    <3>3. Unread = FramesOf(m_netRead) /\ Unread' = FramesOf(Tail(m_netRead))
      BY <1>2, UnreadIs
    <3> QED
      BY <1>1, <3>2, <3>3, UnreadIs
  <2> HIDE DEF f, b
  <2>2. Scattered /\ ClientSingle /\ ServerSingle
    BY <1>2 DEF SpaceInv, Counted, Scattered
  <2>3. /\ InFrames(Unread) = InFrames(Tail(Unread)) \cup Questions(f)
        /\ Separate(Unread') /\ Single(f) /\ InFrames(Unread') = InFrames(Unread) \ Questions(f)
    <3>1. Separate(Unread)
      BY <2>2 DEF ServerSingle
    <3> QED
      BY <2>1, <3>1, FramesTail DEF f
  <2>4. current.frame = <<>> /\ current'.frame = f
    <3>1. current = None
      BY <1>1, <1>2 DEF SessionInv, Credit
    <3> QED
      BY <1>4, <2>1, <3>1 DEF None
  <2>5. /\ Stock["unread"] = InFrames(Unread) /\ Stock["current"] = {}
        /\ {"unread", "current"} \subseteq Places /\ {"unread", "current"} \subseteq Road
    BY <2>4, StockIs, PlacesAre, UnreadIs, SingleEmpty DEF StockFacts
  <2>6. ClientSingle' /\ ServerSingle'
    <3>1. Single(up') /\ Separate(down')
      BY <1>2, <2>2 DEF ClientSingle
    <3> QED
      BY <1>2, <2>2, <2>3, <2>4, <3>1, ClientStock DEF ServerSingle
  <2>7. Moves(Stock, Stock', "unread", "current", Questions(f))
    <3>1. StockFacts /\ StockFacts'
      BY StockIs
    <3>2. /\ Stock'["up"] = Stock["up"] /\ Stock'["down"] = Stock["down"]
          /\ Stock'["prio"] = Stock["prio"] /\ Stock'["low"] = Stock["low"]
      BY <1>2, <3>1 DEF StockFacts
    <3>3. Stock'["unread"] = Stock["unread"] \ Questions(f)
      BY <2>3, <2>5, <3>1, UnreadIs DEF StockFacts
    <3>4. Stock'["current"] = Stock["current"] \cup Questions(f)
      BY <2>4, <2>5, <3>1 DEF StockFacts
    <3>5. \A c \in Places : c \notin {"unread", "current"} => Stock'[c] = Stock[c]
      BY <3>2, ClientStock, PlaceCases
    <3> QED
      BY <2>3, <2>5, <3>3, <3>4, <3>5 DEF Moves
  <2>8. Disjoint(Stock') /\ Same(Stock, Stock')
    BY <2>2, <2>5, <2>7, Moved DEF Same, Scattered
  <2>9. Scattered' /\ Connected'
    BY <1>4, <2>6, <2>8 DEF Scattered, Connected
  <2> QED
    BY <1>1, <1>2, <1>4, <2>8, <2>9, RoadSpace
<1> QED
  BY <1>2, <1>3, <1>4

(* Exec processes an item.  What is left when it is taken from the frame:  *)
Rest == [c \in Places |-> IF c = "current" THEN Questions(current'.frame) ELSE Stock[c]]

LEMMA RestIs ==
  ASSUME SessionInv, Scattered, NextItem
  PROVE  /\ Rest["current"] = Questions(current'.frame)
         /\ \A c \in Places : c # "current" => Rest[c] = Stock[c]
         /\ Single(current'.frame) /\ Of(Item) \subseteq In(Stock, Road)
         /\ Disjoint(Rest) /\ In(Rest, Places) = In(Stock, Places) \ Of(Item)
         /\ In(Rest, Road) = In(Stock, Road) \ Of(Item)
         /\ Takes(Stock, Rest, "current", Of(Item))
<1>1. /\ current.frame \in Seq(AnyMsg) /\ current.frame # <<>> /\ current'.frame = Tail(current.frame)
  BY DEF NextItem, SessionInv, Frames_Server, NetBuffers, Frames
<1>2. /\ Single(current'.frame)
      /\ Questions(current'.frame) = Questions(current.frame) \ Of(Item)
      /\ Of(Item) \subseteq Questions(current.frame)
  <2>1. Single(current.frame)
    BY DEF Scattered, ServerSingle
  <2>2. /\ Questions(current.frame) = Questions(Tail(current.frame)) \cup Of(Head(current.frame))
        /\ Single(Tail(current.frame))
        /\ Questions(Tail(current.frame)) = Questions(current.frame) \ Of(Head(current.frame))
    BY <1>1, <2>1, SingleTail
  <2> QED
    BY <1>1, <2>2 DEF Item
<1>3. /\ Rest["current"] = Questions(current'.frame)
      /\ \A c \in Places : c # "current" => Rest[c] = Stock[c]
  BY PlacesAre DEF Rest
<1>4. Takes(Stock, Rest, "current", Of(Item))
  <2>1. Stock["current"] = Questions(current.frame) /\ "current" \in Road
    BY StockIs, PlacesAre DEF StockFacts
  <2> QED
    BY <1>2, <1>3, <2>1 DEF Takes
<1>5. Disjoint(Stock)
  BY DEF Scattered
<1> QED
  BY <1>2, <1>3, <1>4, <1>5, Taken

(* It is enough that what was asked meanwhile is accounted for.            *)
LEMMA ItemSpace ==
  ASSUME SpaceInv, SessionInv', Connected, UNCHANGED client, NextItem,
         Single(up') /\ Single(prioQueue') /\ Single(lowQueue'),
         AllQuestions(up') /\ AllQuestions(prioQueue') /\ AllQuestions(lowQueue'),
         Disjoint(Stock'),
         Bounded(In(Stock', Places), In(Stock', Road), asked', answered', spaceLeft'),
         Talking => Exact(In(Stock', Places), In(Stock', Road), asked', answered', spaceLeft')
  PROVE  SpaceInv'
<1>1. /\ exec = "process" /\ UNCHANGED <<exec, m_netRead, clientEnd, serverEnd, lost, reply, down>>
  BY DEF NextItem, threadsOfServer
<1>2. Scattered /\ SessionInv
  BY DEF SpaceInv, Counted
<1>3. Connected' /\ (Talking' => Talking)
  BY <1>1 DEF Connected, Talking, client
<1>4. ClientSingle'
  <2>1. Separate(down')
    BY <1>1, <1>2 DEF Scattered, ClientSingle
  <2> QED
    BY <1>2, <2>1, ClientStock DEF Scattered
<1>5. ServerSingle'
  <2>1. Separate(Unread')
    BY <1>1, <1>2 DEF Scattered, ServerSingle, Unread
  <2> QED
    BY <1>2, <2>1, RestIs DEF ServerSingle
<1>6. Counted'
  BY <1>1, <1>3, <1>4, <1>5 DEF Counted, Scattered
<1> QED
  BY <1>1, <1>3, <1>6, StaysSpace

(* Where every question is after an item.                                  *)
LEMMA ItemStock ==
  ASSUME SessionInv, Scattered, UNCHANGED client, NextItem
  PROVE  /\ Stock'["up"] = Questions(up') /\ Rest["up"] = Questions(up)
         /\ Stock'["prio"] = Questions(prioQueue') /\ Rest["prio"] = Questions(prioQueue)
         /\ Stock'["low"] = Questions(lowQueue') /\ Rest["low"] = Questions(lowQueue)
         /\ \A c \in Places : c \notin {"up", "prio", "low"} => Stock'[c] = Rest[c]
<1>1. UNCHANGED <<m_netRead, down>>
  BY DEF NextItem
<1>2. StockFacts /\ StockFacts'
  BY StockIs
<1>3. /\ Rest["current"] = Questions(current'.frame)
      /\ \A c \in Places : c # "current" => Rest[c] = Stock[c]
  BY RestIs
<1>4. /\ {"up", "prio", "low"} \subseteq Places
      /\ Stock'["down"] = Stock["down"] /\ Stock'["unread"] = Stock["unread"]
      /\ Stock'["current"] = Rest["current"]
  BY <1>1, <1>2, <1>3, PlacesAre DEF StockFacts
<1>5. \A c \in Places : c \notin {"up", "prio", "low"} => Stock'[c] = Rest[c]
  BY <1>3, <1>4, ClientStock, PlaceCases
<1> QED
  BY <1>2, <1>3, <1>4, <1>5 DEF StockFacts

(* A question is added to questions.                                       *)
LEMMA QuestionAppend ==
  ASSUME NEW s \in Seq(AnyMsg), NEW q \in AnyMsg, q.kind \in QueryKinds
  PROVE  /\ Questions(Append(s, q)) = Questions(s) \cup {q}
         /\ Single(s) /\ q \notin Questions(s) => Single(Append(s, q))
         /\ AllQuestions(s) => AllQuestions(Append(s, q))
<1>1. Of(q) = {q}
  BY DEF Of
<1>2. /\ Questions(Append(s, q)) = Questions(s) \cup Of(q)
      /\ Single(s) /\ Questions(s) \cap Of(q) = {} => Single(Append(s, q))
  BY SingleAppend
<1>3. /\ Len(s) \in Nat /\ DOMAIN s = 1..Len(s) /\ DOMAIN Append(s, q) = 1..(Len(s) + 1)
      /\ \A i \in 1..Len(s) : Append(s, q)[i] = s[i]
      /\ Append(s, q)[Len(s) + 1] = q
  OBVIOUS
<1>4. \A i \in 1..(Len(s) + 1) : i \in 1..Len(s) \/ i = Len(s) + 1
  BY <1>3
<1>5. AllQuestions(s) => AllQuestions(Append(s, q))
  BY <1>3, <1>4 DEF AllQuestions
<1> QED
  BY <1>1, <1>2, <1>5

(* Exec's desk: where every question is while d is on it, when F tells what*)
(* is in the places that are not there.  The account is right all the time,*)
(* for an item that is not answered yet is still in its place.             *)
Laid(F, d) ==
    [c \in Places |-> CASE c = "up"   -> Questions(d.up)
                        [] c = "prio" -> Questions(d.prio)
                        [] c = "low"  -> Questions(d.low)
                        [] OTHER      -> F[c]]

DeskInv(F, d, answer) ==
    /\ IsDesk(d)
    /\ Single(d.up) /\ Single(d.prio) /\ Single(d.low)
    /\ AllQuestions(d.up) /\ AllQuestions(d.prio) /\ AllQuestions(d.low)
    /\ Disjoint(Laid(F, d))
    /\ Bounded(In(Laid(F, d), Places), In(Laid(F, d), Road), d.asked, answer, d.space)
    /\ Talking => Exact(In(Laid(F, d), Places), In(Laid(F, d), Road), d.asked, answer, d.space)

LEMMA LaidIs ==
  ASSUME NEW F, NEW d
  PROVE  /\ Laid(F, d)["up"] = Questions(d.up) /\ Laid(F, d)["prio"] = Questions(d.prio)
         /\ Laid(F, d)["low"] = Questions(d.low)
         /\ \A c \in Places : c \notin {"up", "prio", "low"} => Laid(F, d)[c] = F[c]
<1>1. "up" \in Places /\ "prio" \in Places /\ "low" \in Places
  BY PlacesAre
<1> QED
  BY <1>1 DEF Laid

LEMMA DeskFields ==
  ASSUME NEW d, IsDesk(d)
  PROVE  d.space \in Nat /\ d.prio \in Seq(AnyMsg) /\ d.low \in Seq(AnyMsg) /\ d.up \in Seq(AnyMsg)
BY DEF IsDesk

(* The desk as Exec finds it.                                              *)
LEMMA DeskStart == ASSUME SpaceInv, Connected PROVE DeskInv(Stock, Desk, answered)
<1>1. /\ SessionInv /\ Scattered /\ Single(up) /\ Single(prioQueue) /\ Single(lowQueue)
      /\ AllQuestions(up) /\ AllQuestions(prioQueue) /\ AllQuestions(lowQueue)
      /\ Bounded(In(Stock, Places), In(Stock, Road), asked, answered, spaceLeft)
      /\ Talking => Exact(In(Stock, Places), In(Stock, Road), asked, answered, spaceLeft)
  BY DEF SpaceInv, Counted, Scattered, ClientSingle, ServerSingle
<1>2. /\ Desk.up = up /\ Desk.prio = prioQueue /\ Desk.low = lowQueue
      /\ Desk.asked = asked /\ Desk.space = spaceLeft
  BY DEF Desk
<1>3. \A c \in Places : Laid(Stock, Desk)[c] = Stock[c]
  BY <1>2, LaidIs, StockIs DEF StockFacts
<1>4. Disjoint(Laid(Stock, Desk)) /\ Same(Stock, Laid(Stock, Desk))
  BY <1>1, <1>3, SameStock DEF Scattered
<1>5. IsDesk(Desk)
  BY <1>1, DeskIs
<1> QED
  BY <1>1, <1>2, <1>4, <1>5 DEF DeskInv, Same

(* Where a new question goes.                                              *)
LEMMA Placed ==
  ASSUME NEW F, NEW d, NEW e, NEW q, IsDesk(d), q.kind \in QueryKinds, NewQuestion(d, e, q),
         Single(d.up) /\ Single(d.prio) /\ Single(d.low),
         AllQuestions(d.up) /\ AllQuestions(d.prio) /\ AllQuestions(d.low),
         q \notin In(Laid(F, d), Places)
  PROVE  /\ Single(e.up) /\ Single(e.prio) /\ Single(e.low)
         /\ AllQuestions(e.up) /\ AllQuestions(e.prio) /\ AllQuestions(e.low)
         /\ \/ Adds(Laid(F, d), Laid(F, e), "up", {q}) /\ d.space > 0 /\ e.space = d.space - 1
            \/ /\ \A c \in Places : Laid(F, e)[c] = Laid(F, d)[c]
               /\ d.space > 0 /\ e.space = d.space - 1 /\ ~ServerSees
            \/ (\E b \in Waiting : Adds(Laid(F, d), Laid(F, e), b, {q})) /\ e.space = d.space
<1> DEFINE L == Laid(F, d)
<1> DEFINE G == Laid(F, e)
<1>1. /\ L["up"] = Questions(d.up) /\ L["prio"] = Questions(d.prio) /\ L["low"] = Questions(d.low)
      /\ G["up"] = Questions(e.up) /\ G["prio"] = Questions(e.prio) /\ G["low"] = Questions(e.low)
      /\ \A c \in Places : c \notin {"up", "prio", "low"} => G[c] = L[c]
  BY LaidIs
<1>2. "up" \in Places /\ "prio" \in Places /\ "low" \in Places /\ Waiting = {"prio", "low"}
  BY PlacesAre
<1>3. q \notin In(L, Places)
  OBVIOUS
<1> HIDE DEF L, G
<1>4. q \notin Questions(d.up) /\ q \notin Questions(d.prio) /\ q \notin Questions(d.low)
  BY <1>1, <1>2, <1>3, InAre
<1>5. \A s \in Seq(AnyMsg) :
         /\ Questions(Append(s, q)) = Questions(s) \cup {q}
         /\ Single(s) /\ q \notin Questions(s) => Single(Append(s, q))
         /\ AllQuestions(s) => AllQuestions(Append(s, q))
  BY QuestionAppend DEF NewQuestion
<1>6. d.prio \in Seq(AnyMsg) /\ d.low \in Seq(AnyMsg) /\ d.up \in Seq(AnyMsg)
  BY DeskFields
<1>7. CASE e.up = Append(d.up, q) /\ e.prio = d.prio /\ e.low = d.low
  <2>1. Adds(L, G, "up", {q})
    BY <1>1, <1>2, <1>5, <1>6, <1>7 DEF Adds
  <2> QED
    BY <1>4, <1>5, <1>6, <1>7, <2>1 DEF NewQuestion, L, G
<1>8. CASE e.up = d.up /\ e.prio = d.prio /\ e.low = d.low
  <2>1. \A c \in Places : G[c] = L[c]
    BY <1>1, <1>8
  <2>2. d.space > 0 /\ e.space = d.space - 1 /\ ~ServerSees
    <3>1. \A s \in Seq(AnyMsg) : Append(s, q) # s
      <4> SUFFICES ASSUME NEW s \in Seq(AnyMsg) PROVE Append(s, q) # s
        OBVIOUS
      <4>1. Len(Append(s, q)) = Len(s) + 1 /\ Len(s) \in Nat
        OBVIOUS
      <4> QED
        BY <4>1
    <3> QED
      BY <1>6, <1>8, <3>1 DEF NewQuestion
  <2> QED
    BY <1>8, <2>1, <2>2 DEF L, G
<1>9. CASE e.prio = Append(d.prio, q) /\ e.low = d.low /\ e.up = d.up /\ e.space = d.space
  <2>1. Adds(L, G, "prio", {q})
    BY <1>1, <1>2, <1>5, <1>6, <1>9 DEF Adds
  <2> QED
    BY <1>2, <1>4, <1>5, <1>6, <1>9, <2>1 DEF L, G
<1>10. CASE e.low = Append(d.low, q) /\ e.prio = d.prio /\ e.up = d.up /\ e.space = d.space
  <2>1. Adds(L, G, "low", {q})
    BY <1>1, <1>2, <1>5, <1>6, <1>10 DEF Adds
  <2> QED
    BY <1>2, <1>4, <1>5, <1>6, <1>10, <2>1 DEF L, G
<1> QED
  BY <1>7, <1>8, <1>9, <1>10 DEF NewQuestion

(* The account after a question is asked.                                  *)
LEMMA DeskAsk ==
  ASSUME NEW F, NEW d, NEW answer, DeskInv(F, d, answer), NEW kind \in QueryKinds, NEW ref
  PROVE  DeskInv(F, AskFor(d, kind, ref), answer)
<1> DEFINE e == AskFor(d, kind, ref)
<1> DEFINE q == Msg(kind, ref)
<1>1. IsDesk(d) /\ IsDesk(e) /\ (e = d \/ NewQuestion(d, e, q)) /\ q.kind \in QueryKinds
  BY AskForIs DEF DeskInv, Msg
<1> HIDE DEF e, q
<1>2. CASE e = d
  BY <1>2 DEF e
<1>3. CASE NewQuestion(d, e, q)
  <2> DEFINE L == Laid(F, d)
  <2> DEFINE G == Laid(F, e)
  <2> DEFINE P == In(L, Places)
  <2> DEFINE R == In(L, Road)
  <2>1. /\ Disjoint(L) /\ Bounded(P, R, d.asked, answer, d.space)
        /\ Talking => Exact(P, R, d.asked, answer, d.space)
        /\ d.space \in Nat /\ q \notin d.asked /\ e.asked = d.asked \cup {q}
    BY <1>1, <1>3, DeskFields DEF DeskInv, NewQuestion
  <2>2. q \notin P /\ In(L, Places) \cap {q} = {}
    BY <2>1 DEF Bounded
  <2>3. /\ Single(e.up) /\ Single(e.prio) /\ Single(e.low)
        /\ AllQuestions(e.up) /\ AllQuestions(e.prio) /\ AllQuestions(e.low)
        /\ \/ Adds(L, G, "up", {q}) /\ d.space > 0 /\ e.space = d.space - 1
           \/ /\ \A c \in Places : G[c] = L[c]
              /\ d.space > 0 /\ e.space = d.space - 1 /\ ~ServerSees
           \/ (\E b \in Waiting : Adds(L, G, b, {q})) /\ e.space = d.space
    BY <1>1, <1>3, <2>2, Placed DEF DeskInv
  <2>4. SUFFICES /\ Disjoint(G)
                 /\ Bounded(In(G, Places), In(G, Road), e.asked, answer, e.space)
                 /\ Talking => Exact(In(G, Places), In(G, Road), e.asked, answer, e.space)
    BY <1>1, <2>3 DEF DeskInv, e
  <2> HIDE DEF L, G
  <2>5. CASE Adds(L, G, "up", {q}) /\ d.space > 0 /\ e.space = d.space - 1
    <3>0. "up" \in Road /\ In(L, Places) \cap {q} = {} /\ Disjoint(L)
      BY <2>1, <2>2, PlacesAre
    <3>1. /\ Disjoint(G) /\ In(G, Places) = P \cup {q}
          /\ In(G, Road) = R \cup {q} /\ R \cap {q} = {}
      BY <2>5, <3>0, Added
    <3> HIDE DEF P, R
    <3>2. /\ Bounded(P \cup {q}, R \cup {q}, d.asked \cup {q}, answer, d.space - 1)
          /\ Exact(P, R, d.asked, answer, d.space) =>
                Exact(P \cup {q}, R \cup {q}, d.asked \cup {q}, answer, d.space - 1)
      BY <2>1, <2>5, <3>1, AccountSent, BaseType
    <3> QED
      BY <2>1, <2>5, <3>1, <3>2
  <2>6. CASE /\ \A c \in Places : G[c] = L[c]
             /\ d.space > 0 /\ e.space = d.space - 1 /\ ~ServerSees
    <3>1. Disjoint(G) /\ In(G, Places) = P /\ In(G, Road) = R
      BY <2>1, <2>6, SameStock DEF Same
    <3>2. ~Talking
      BY <2>6 DEF Talking, ServerSees
    <3> HIDE DEF P, R
    <3>3. Bounded(P, R, d.asked \cup {q}, answer, d.space - 1)
      <4>1. d.space - 1 \in Nat /\ d.space - 1 <= d.space
        BY <2>1, <2>6
      <4> QED
        BY <2>1, <4>1, AccountLost, BaseType
    <3> QED
      BY <2>1, <2>6, <3>1, <3>2, <3>3
  <2>7. CASE (\E b \in Waiting : Adds(L, G, b, {q})) /\ e.space = d.space
    <3>1. PICK b \in Waiting : Adds(L, G, b, {q})
      BY <2>7
    <3>a. Disjoint(L) /\ In(L, Places) \cap {q} = {}
      BY <2>1, <2>2
    <3>2. Disjoint(G) /\ In(G, Places) = P \cup {q} /\ In(G, Road) = R
      BY <3>a, <3>1, Added
    <3> HIDE DEF P, R
    <3>3. /\ Bounded(P \cup {q}, R, d.asked \cup {q}, answer, d.space)
          /\ Exact(P, R, d.asked, answer, d.space) =>
                Exact(P \cup {q}, R, d.asked \cup {q}, answer, d.space)
      BY <2>1, AccountWaits
    <3> QED
      BY <2>1, <2>7, <3>2, <3>3
  <2> QED
    BY <2>3, <2>5, <2>6, <2>7
<1> QED
  BY <1>1, <1>2, <1>3 DEF e

(* The item leaves its frame; if it is an answer, its space is given back. *)
LEMMA DeskPass ==
  ASSUME SpaceInv, Connected, NextItem, NEW d, DeskInv(Stock, d, answered)
  PROVE  /\ Item.kind \notin QueryKinds => DeskInv(Rest, d, answered)
         /\ Item.kind \in QueryKinds => DeskInv(Rest, GiveBack(d), answered \cup {Item})
<1> DEFINE L == Laid(Stock, d)
<1> DEFINE G == Laid(Rest, d)
<1>1. SessionInv /\ Scattered /\ "current" \in Road /\ "current" \in Places
  BY PlacesAre DEF SpaceInv, Counted
<1>2. /\ Rest["current"] = Stock["current"] \ Of(Item) /\ Of(Item) \subseteq Stock["current"]
      /\ \A c \in Places : c # "current" => Rest[c] = Stock[c]
  BY <1>1, RestIs DEF Takes
<1>3. Takes(L, G, "current", Of(Item))
  BY <1>1, <1>2, LaidIs DEF Takes
<1>4. /\ IsDesk(d) /\ Disjoint(L) /\ Bounded(In(L, Places), In(L, Road), d.asked, answered, d.space)
      /\ Talking => Exact(In(L, Places), In(L, Road), d.asked, answered, d.space)
  BY DEF DeskInv
<1>5. /\ Disjoint(G) /\ In(G, Places) = In(L, Places) \ Of(Item)
      /\ In(G, Road) = In(L, Road) \ Of(Item) /\ Of(Item) \subseteq In(L, Road)
  BY <1>3, <1>4, Taken
<1>6. ASSUME Item.kind \notin QueryKinds PROVE DeskInv(Rest, d, answered)
  <2>1. Of(Item) = {}
    BY <1>6 DEF Of
  <2>2. In(G, Places) = In(L, Places) /\ In(G, Road) = In(L, Road)
    BY <1>5, <2>1
  <2> HIDE DEF L
  <2>3. /\ Bounded(In(G, Places), In(G, Road), d.asked, answered, d.space)
        /\ Talking => Exact(In(G, Places), In(G, Road), d.asked, answered, d.space)
    BY <1>4, <2>2
  <2> QED
    BY <1>5, <2>3 DEF DeskInv
<1>7. ASSUME Item.kind \in QueryKinds PROVE DeskInv(Rest, GiveBack(d), answered \cup {Item})
  <2> DEFINE m == Item
  <2> DEFINE e == GiveBack(d)
  <2> DEFINE P == In(L, Places)
  <2> DEFINE R == In(L, Road)
  <2>1. Of(m) = {m}
    BY <1>7 DEF Of
  <2>2. R \subseteq P
    BY InAre, PlacesAre
  <2>3. m \in R /\ m \in P /\ In(G, Places) = P \ {m} /\ In(G, Road) = R \ {m}
    BY <1>5, <2>1, <2>2
  <2>4. /\ IsDesk(e) /\ e.space = d.space + 1
        /\ e.prio = d.prio /\ e.low = d.low /\ e.asked = d.asked /\ e.up = d.up
    BY <1>4, GiveBackIs
  <2>5. Laid(Rest, e) = G
    BY <2>4 DEF Laid
  <2>6. /\ Bounded(P, R, d.asked, answered, d.space)
        /\ Talking => Exact(P, R, d.asked, answered, d.space)
    BY <1>4
  <2> HIDE DEF P, R, m, e, L, G
  <2>7. /\ Bounded(P \ {m}, R \ {m}, d.asked, answered \cup {m}, d.space + 1)
        /\ Exact(P, R, d.asked, answered, d.space) =>
              Exact(P \ {m}, R \ {m}, d.asked, answered \cup {m}, d.space + 1)
    BY <2>3, <2>6, AccountAnswer, BaseType
  <2>8. /\ Bounded(In(G, Places), In(G, Road), e.asked, answered \cup {m}, e.space)
        /\ Talking => Exact(In(G, Places), In(G, Road), e.asked, answered \cup {m}, e.space)
    BY <2>3, <2>4, <2>6, <2>7
  <2>9. /\ Single(e.up) /\ Single(e.prio) /\ Single(e.low)
        /\ AllQuestions(e.up) /\ AllQuestions(e.prio) /\ AllQuestions(e.low)
    BY <2>4 DEF DeskInv
  <2>10. DeskInv(Rest, e, answered \cup {m})
    BY <1>5, <2>4, <2>5, <2>8, <2>9 DEF DeskInv
  <2> QED
    BY <2>10 DEF m, e
<1> QED
  BY <1>6, <1>7

(* The desk as Exec leaves it.                                             *)
LEMMA DeskLeft ==
  ASSUME SpaceInv, SessionInv', Connected, UNCHANGED client, NextItem,
         NEW d, SetDesk(d), DeskInv(Rest, d, answered')
  PROVE  SpaceInv'
<1>1. /\ spaceLeft' = d.space /\ prioQueue' = d.prio /\ lowQueue' = d.low
      /\ asked' = d.asked /\ up' = d.up
  BY DEF SetDesk
<1>2. SessionInv /\ Scattered
  BY DEF SpaceInv, Counted
<1>3. \A c \in Places : Stock'[c] = Laid(Rest, d)[c]
  BY <1>1, <1>2, ItemStock, LaidIs
<1> DEFINE L == Laid(Rest, d)
<1>4. Disjoint(L)
  BY DEF DeskInv
<1>5. Disjoint(Stock') /\ In(Stock', Places) = In(L, Places) /\ In(Stock', Road) = In(L, Road)
  <2> HIDE DEF L
  <2> QED
    BY <1>3, <1>4, SameStock DEF L, Same
<1>6. /\ Bounded(In(L, Places), In(L, Road), d.asked, answered', d.space)
      /\ Talking => Exact(In(L, Places), In(L, Road), d.asked, answered', d.space)
      /\ Single(d.up) /\ Single(d.prio) /\ Single(d.low)
      /\ AllQuestions(d.up) /\ AllQuestions(d.prio) /\ AllQuestions(d.low)
  BY DEF DeskInv
<1> HIDE DEF L
<1>7. /\ Bounded(In(Stock', Places), In(Stock', Road), asked', answered', spaceLeft')
      /\ Talking => Exact(In(Stock', Places), In(Stock', Road), asked', answered', spaceLeft')
  BY <1>1, <1>5, <1>6
<1>8. /\ Single(up') /\ Single(prioQueue') /\ Single(lowQueue')
      /\ AllQuestions(up') /\ AllQuestions(prioQueue') /\ AllQuestions(lowQueue')
  BY <1>1, <1>6
<1> QED
  BY <1>5, <1>7, <1>8, ItemSpace

(* The desk after an answer: asked before or after the space is given back.*)
LEMMA DeskHandled ==
  ASSUME SpaceInv, Connected, NextItem, Item.kind \in QueryKinds
  PROVE  DeskInv(Rest, Handled(Desk, Item), answered \cup {Item})
<1> DEFINE before(d) == DeskInv(Stock, d, answered)
<1> DEFINE after(d) == DeskInv(Rest, d, answered \cup {Item})
<1>1. before(Desk)
  BY DeskStart
<1>2. \A d : before(d) => after(GiveBack(d))
  BY DeskPass
<1>3. \A d, ref : before(d) => before(AddSourceLocation(d, ref))
  <2> SUFFICES ASSUME NEW d, NEW ref, before(d) PROVE before(AddSourceLocation(d, ref))
    OBVIOUS
  <2>1. \A c, r : before(c) => before(AskFor(c, "string", r))
    BY DeskAsk, KindsAre
  <2> HIDE DEF before
  <2> QED
    BY <2>1 DEF AddSourceLocation
<1>4. \A d, ref : before(d) => before(ProcessSymbolInformation(d, ref))
  <2>1. \A c, r : before(c) => before(AskFor(c, "code", r))
    BY DeskAsk, KindsAre
  <2> HIDE DEF before
  <2> QED
    BY <2>1 DEF ProcessSymbolInformation
<1>5. \A d, ref : after(d) => after(ProcessCallstackFrame(d, ref))
  <2> SUFFICES ASSUME NEW d, NEW ref, after(d) PROVE after(ProcessCallstackFrame(d, ref))
    OBVIOUS
  <2>1. \A F, c, answer, r : DeskInv(F, c, answer) => DeskInv(F, AskFor(c, "symbol", r), answer)
    BY DeskAsk, KindsAre
  <2>2. after(AskFor(d, "symbol", Symbols[ref]))
    BY <2>1
  <2> QED
    BY <2>2 DEF ProcessCallstackFrame
<1> HIDE DEF before, after
<1>6. after(Handled(Desk, Item))
  BY <1>1, <1>2, <1>3, <1>4, <1>5 DEF Handled
<1> QED
  BY <1>6 DEF after

(* Every item.                                                             *)
LEMMA DispatchSpace ==
  ASSUME SpaceInv, DispatchProcess, UNCHANGED client
  PROVE  SpaceInv'
<1>1. SessionInv /\ SessionInv'
  BY ExecInv DEF Exec
<1>2. NextItem
  BY DEF DispatchProcess, ProcessThreadContext, ProcessZoneBegin, ProcessZoneEnd,
         ProcessCallstack, ProcessAnswer, ProcessTerminate
<1>3. Connected
  BY <1>2 DEF NextItem, Connected
<1>4. DeskInv(Stock, Desk, answered)
  BY <1>3, DeskStart
<1>5. \A d, kind, ref : DeskInv(Stock, d, answered) /\ kind \in QueryKinds =>
                           DeskInv(Stock, AskFor(d, kind, ref), answered)
  BY DeskAsk
<1>6. ASSUME NEW d, DeskInv(Stock, d, answered), SetDesk(d), Item.kind \notin QueryKinds,
             answered' = answered
      PROVE  SpaceInv'
  <2>1. DeskInv(Rest, d, answered)
    BY <1>2, <1>3, <1>6, DeskPass
  <2>2. DeskInv(Rest, d, answered')
    BY <1>6, <2>1
  <2> QED
    BY <1>1, <1>2, <1>3, <1>6, <2>2, DeskLeft
<1>7. CASE ProcessThreadContext \/ ProcessTerminate
  <2>1. UNCHANGED <<spaceLeft, prioQueue, lowQueue, asked, up, answered>>
    BY <1>7 DEF ProcessThreadContext, ProcessTerminate, queries
  <2>2. SetDesk(Desk) /\ answered' = answered /\ Item.kind \notin QueryKinds
    BY <1>7, <2>1, KindsAre
       DEF SetDesk, Desk, ProcessThreadContext, ProcessTerminate, Terminate, Msg
  <2> QED
    BY <1>4, <1>6, <2>2
<1>8. CASE ProcessZoneBegin
  <2>1. DeskInv(Stock, GetCurrentThreadData(AskFor(Desk, "srcloc", Item.ref)), answered)
    BY <1>4, <1>5, KindsAre DEF GetCurrentThreadData
  <2> QED
    BY <1>6, <1>8, <2>1, KindsAre DEF ProcessZoneBegin
<1>9. CASE ProcessZoneEnd
  <2>1. DeskInv(Stock, GetCurrentThreadData(Desk), answered)
    BY <1>4, <1>5, KindsAre DEF GetCurrentThreadData
  <2> QED
    BY <1>6, <1>9, <2>1, KindsAre DEF ProcessZoneEnd
<1>10. CASE ProcessCallstack
  <2>1. DeskInv(Stock, GetCurrentThreadData(AskFor(Desk, "frame", Item.ref)), answered)
    BY <1>4, <1>5, KindsAre DEF GetCurrentThreadData
  <2> QED
    BY <1>6, <1>10, <2>1, KindsAre DEF ProcessCallstack
<1>11. CASE ProcessAnswer
  <2>1. /\ Item.kind \in QueryKinds /\ answered' = answered \cup {Item}
        /\ SetDesk(Handled(Desk, Item))
    BY <1>11 DEF ProcessAnswer
  <2>2. DeskInv(Rest, Handled(Desk, Item), answered \cup {Item})
    BY <1>2, <1>3, <2>1, DeskHandled
  <2>3. DeskInv(Rest, Handled(Desk, Item), answered')
    BY <2>1, <2>2
  <2> QED
    BY <1>1, <1>2, <1>3, <2>1, <2>3, DeskLeft
<1> QED
  BY <1>7, <1>8, <1>9, <1>10, <1>11 DEF DispatchProcess

-----------------------------------------------------------------------------
(* The end of a frame.  Two sequences of questions make one.               *)
LEMMA AllQuestionsConcat ==
  ASSUME NEW s \in Seq(AnyMsg), NEW t \in Seq(AnyMsg), AllQuestions(s), AllQuestions(t)
  PROVE  AllQuestions(s \o t)
<1> DEFINE u == s \o t
<1>1. /\ Len(s) \in Nat /\ DOMAIN s = 1..Len(s) /\ Len(t) \in Nat /\ DOMAIN t = 1..Len(t)
      /\ DOMAIN u = 1..(Len(s) + Len(t))
      /\ \A i \in 1..Len(s) : u[i] = s[i]
      /\ \A i \in (Len(s) + 1)..(Len(s) + Len(t)) : u[i] = t[i - Len(s)]
  OBVIOUS
<1> HIDE DEF u
<1>2. \A i \in DOMAIN u : \/ i \in DOMAIN s /\ u[i] = s[i]
                          \/ i - Len(s) \in DOMAIN t /\ u[i] = t[i - Len(s)]
  BY <1>1
<1>3. AllQuestions(u)
  BY <1>2 DEF AllQuestions
<1> QED
  BY <1>3 DEF u

(* The questions that waited: those that are sent and those that are not.  *)
PrioSent == SubSeq(prioQueue, 1, PrioToSend)
PrioKept == SubSeq(prioQueue, PrioToSend + 1, Len(prioQueue))
LowSent == SubSeq(lowQueue, 1, LowToSend)
LowKept == SubSeq(lowQueue, LowToSend + 1, Len(lowQueue))

LEMMA WaitingSplit ==
  ASSUME NEW s \in Seq(AnyMsg), NEW n \in 0..Len(s), Single(s), AllQuestions(s)
  PROVE  LET f == SubSeq(s, 1, n)
             g == SubSeq(s, n + 1, Len(s))
         IN  /\ f \in Seq(AnyMsg) /\ g \in Seq(AnyMsg) /\ Single(f) /\ Single(g)
             /\ AllQuestions(f) /\ AllQuestions(g)
             /\ Questions(f) \subseteq Questions(s) /\ Questions(g) = Questions(s) \ Questions(f)
             /\ Len(f) = n /\ IsFiniteSet(Questions(f)) /\ Cardinality(Questions(f)) = n
             /\ n = Len(s) => g = <<>>
<1> DEFINE f == SubSeq(s, 1, n)
<1> DEFINE g == SubSeq(s, n + 1, Len(s))
<1>1. /\ f \in Seq(AnyMsg) /\ g \in Seq(AnyMsg) /\ DOMAIN f = 1..n
      /\ AllQuestions(f) /\ AllQuestions(g)
      /\ Questions(s) = Questions(f) \cup Questions(g)
      /\ Single(f) /\ Single(g) /\ Questions(f) \cap Questions(g) = {}
  BY SingleSplit
<1>2. n = Len(s) => g = <<>>
  OBVIOUS
<1> HIDE DEF f, g
<1>3. Questions(f) \subseteq Questions(s) /\ Questions(g) = Questions(s) \ Questions(f)
  BY <1>1
<1>4. Len(f) = n
  <2>1. Len(f) \in Nat /\ DOMAIN f = 1..Len(f) /\ n \in Nat
    BY <1>1, LenProperties
  <2>2. \A i, j \in Nat : 1..i = 1..j => i = j
    <3> SUFFICES ASSUME NEW i \in Nat, NEW j \in Nat, 1..i = 1..j PROVE i = j
      OBVIOUS
    <3>1. i >= 1 => i \in 1..j
      OBVIOUS
    <3>2. j >= 1 => j \in 1..i
      OBVIOUS
    <3> QED
      BY <3>1, <3>2
  <2> QED
    BY <1>1, <2>1, <2>2
<1>5. IsFiniteSet(Questions(f)) /\ Cardinality(Questions(f)) = n
  BY <1>1, <1>4, AsManyQuestions
<1> QED
  BY <1>1, <1>2, <1>3, <1>4, <1>5 DEF f, g

LEMMA QueuedIs ==
  ASSUME SessionInv, Counted
  PROVE  /\ PrioSent \in Seq(AnyMsg) /\ Single(PrioSent) /\ AllQuestions(PrioSent)
         /\ LowSent \in Seq(AnyMsg) /\ Single(LowSent) /\ AllQuestions(LowSent)
         /\ Single(PrioKept) /\ AllQuestions(PrioKept) /\ Single(LowKept) /\ AllQuestions(LowKept)
         /\ Questions(PrioSent) \subseteq Questions(prioQueue)
         /\ Questions(PrioKept) = Questions(prioQueue) \ Questions(PrioSent)
         /\ Questions(LowSent) \subseteq Questions(lowQueue)
         /\ Questions(LowKept) = Questions(lowQueue) \ Questions(LowSent)
         /\ IsFiniteSet(Questions(PrioSent)) /\ Cardinality(Questions(PrioSent)) = PrioToSend
         /\ IsFiniteSet(Questions(LowSent)) /\ Cardinality(Questions(LowSent)) = LowToSend
         /\ PrioToSend \in Nat /\ LowToSend \in Nat /\ Len(Queued) = PrioToSend + LowToSend
         /\ PrioToSend + LowToSend <= spaceLeft
         /\ spaceLeft - Len(Queued) > 0 => PrioKept = <<>> /\ LowKept = <<>>
<1>1. /\ prioQueue \in Seq(AnyMsg) /\ lowQueue \in Seq(AnyMsg) /\ spaceLeft \in Nat
      /\ Len(prioQueue) \in Nat /\ Len(lowQueue) \in Nat
      /\ Single(prioQueue) /\ Single(lowQueue) /\ AllQuestions(prioQueue) /\ AllQuestions(lowQueue)
  BY DEF SessionInv, Frames_Server, Counted, Scattered, ServerSingle
<1>2. PrioToSend \in 0..Len(prioQueue) /\ spaceLeft - PrioToSend \in Nat
  BY <1>1 DEF PrioToSend, Least
<1>3. LowToSend \in 0..Len(lowQueue) /\ (spaceLeft - PrioToSend) - LowToSend \in Nat
  BY <1>1, <1>2 DEF LowToSend, Least
<1>4. /\ PrioSent \in Seq(AnyMsg) /\ Single(PrioSent) /\ Single(PrioKept)
      /\ AllQuestions(PrioSent) /\ AllQuestions(PrioKept)
      /\ Questions(PrioSent) \subseteq Questions(prioQueue)
      /\ Questions(PrioKept) = Questions(prioQueue) \ Questions(PrioSent)
      /\ Len(PrioSent) = PrioToSend
      /\ IsFiniteSet(Questions(PrioSent)) /\ Cardinality(Questions(PrioSent)) = PrioToSend
      /\ PrioToSend = Len(prioQueue) => PrioKept = <<>>
  BY <1>1, <1>2, WaitingSplit DEF PrioSent, PrioKept
<1>5. /\ LowSent \in Seq(AnyMsg) /\ Single(LowSent) /\ Single(LowKept)
      /\ AllQuestions(LowSent) /\ AllQuestions(LowKept)
      /\ Questions(LowSent) \subseteq Questions(lowQueue)
      /\ Questions(LowKept) = Questions(lowQueue) \ Questions(LowSent)
      /\ Len(LowSent) = LowToSend
      /\ IsFiniteSet(Questions(LowSent)) /\ Cardinality(Questions(LowSent)) = LowToSend
      /\ LowToSend = Len(lowQueue) => LowKept = <<>>
  BY <1>1, <1>3, WaitingSplit DEF LowSent, LowKept
<1>6. Len(Queued) = PrioToSend + LowToSend
  <2>1. Queued = PrioSent \o LowSent
    BY DEF Queued, PrioSent, LowSent
  <2> QED
    BY <1>4, <1>5, <2>1, ConcatProperties
<1>7. ASSUME spaceLeft - Len(Queued) > 0
      PROVE  PrioToSend = Len(prioQueue) /\ LowToSend = Len(lowQueue)
  <2>1. PrioToSend # spaceLeft
    BY <1>1, <1>2, <1>3, <1>6, <1>7
  <2>2. PrioToSend = Len(prioQueue)
    BY <2>1 DEF PrioToSend, Least
  <2>3. LowToSend # spaceLeft - PrioToSend
    BY <1>1, <1>2, <1>3, <1>6, <1>7
  <2>4. LowToSend = Len(lowQueue)
    BY <2>3 DEF LowToSend, Least
  <2> QED
    BY <2>2, <2>4
<1>8. PrioToSend \in Nat /\ LowToSend \in Nat /\ PrioToSend + LowToSend <= spaceLeft
  BY <1>1, <1>2, <1>3
<1> QED
  BY <1>4, <1>5, <1>6, <1>7, <1>8

(* The questions sent go from their queues to the connection.              *)
Go(F, G, Mp, Ml) ==
    /\ Mp \subseteq F["prio"] /\ G["prio"] = F["prio"] \ Mp
    /\ Ml \subseteq F["low"] /\ G["low"] = F["low"] \ Ml
    /\ G["up"] = F["up"] \cup (Mp \cup Ml)
    /\ \A c \in Places : c \notin {"up", "prio", "low"} => G[c] = F[c]

LEMMA QueuedMoves ==
  ASSUME NEW F, NEW G, NEW Mp, NEW Ml, Disjoint(F), Go(F, G, Mp, Ml)
  PROVE  /\ Disjoint(G) /\ In(G, Places) = In(F, Places)
         /\ In(G, Road) = (In(F, Road) \cup Mp) \cup Ml
         /\ In(F, Road) \cap Mp = {} /\ (In(F, Road) \cup Mp) \cap Ml = {}
<1> DEFINE H == [c \in Places |-> IF c = "prio" THEN F["prio"] \ Mp
                                  ELSE IF c = "up" THEN F["up"] \cup Mp ELSE F[c]]
<1>1. /\ "up" \in Places /\ "prio" \in Places /\ "low" \in Places
      /\ "up" \in Road /\ "prio" \in Waiting /\ "low" \in Waiting
  BY PlacesAre
<1>2. /\ H["prio"] = F["prio"] \ Mp /\ H["up"] = F["up"] \cup Mp
      /\ \A c \in Places : c \notin {"up", "prio"} => H[c] = F[c]
  BY <1>1
<1> HIDE DEF H
<1>3. Moves(F, H, "prio", "up", Mp)
  BY <1>1, <1>2 DEF Moves, Go
<1>4. /\ Disjoint(H) /\ In(H, Places) = In(F, Places)
      /\ In(H, Road) = In(F, Road) \cup Mp /\ In(F, Road) \cap Mp = {}
  BY <1>1, <1>3, Moved
<1>5. Moves(H, G, "low", "up", Ml)
  BY <1>1, <1>2 DEF Moves, Go
<1>6. /\ Disjoint(G) /\ In(G, Places) = In(H, Places)
      /\ In(G, Road) = In(H, Road) \cup Ml /\ In(H, Road) \cap Ml = {}
  BY <1>1, <1>4, <1>5, Moved
<1> QED
  BY <1>4, <1>6

(* They are paid for.                                                      *)
LEMMA QueuedAccount ==
  ASSUME NEW P, NEW R, NEW ask, NEW answer, NEW s, NEW Mp, NEW Ml, NEW n \in Nat, NEW l \in Nat,
         R \cap Mp = {}, (R \cup Mp) \cap Ml = {}, IsFiniteSet(Mp), Cardinality(Mp) = n,
         IsFiniteSet(Ml), Cardinality(Ml) = l, n + l <= s, Bounded(P, R, ask, answer, s)
  PROVE  /\ Bounded(P, (R \cup Mp) \cup Ml, ask, answer, s - (n + l))
         /\ Exact(P, R, ask, answer, s) => Exact(P, (R \cup Mp) \cup Ml, ask, answer, s - (n + l))
<1>1. s \in Nat /\ n <= s /\ l <= s - n /\ (s - n) - l = s - (n + l)
  BY DEF Bounded
<1>2. /\ Bounded(P, R \cup Mp, ask, answer, s - n)
      /\ Exact(P, R, ask, answer, s) => Exact(P, R \cup Mp, ask, answer, s - n)
  BY <1>1, AccountQueued, BaseType
<1> DEFINE T == R \cup Mp
<1> DEFINE r == s - n
<1>3. Bounded(P, T, ask, answer, r) /\ l <= r /\ T \cap Ml = {}
  BY <1>1, <1>2
<1> HIDE DEF T, r
<1>4. /\ Bounded(P, T \cup Ml, ask, answer, r - l)
      /\ Exact(P, T, ask, answer, r) => Exact(P, T \cup Ml, ask, answer, r - l)
  BY <1>3, AccountQueued, BaseType
<1> QED
  BY <1>1, <1>2, <1>4 DEF T, r

(* Exec is done with a frame.                                              *)
LEMMA FrameDoneSpace ==
  ASSUME SpaceInv, FrameDone, UNCHANGED client
  PROVE  SpaceInv'
<1>1. SessionInv /\ SessionInv'
  BY ExecInv DEF Exec
<1>2. /\ exec = "process" /\ current.frame = <<>> /\ current' = None /\ Connected
      /\ spaceLeft' = spaceLeft - Len(Queued) /\ prioQueue' = PrioKept /\ lowQueue' = LowKept
      /\ UNCHANGED <<m_netRead, asked, answered, clientEnd, lost, reply, down>>
      /\ \/ exec' = "closed" /\ serverEnd' = "closed" /\ Send(Append(Queued, Terminate))
         \/ exec' = "check" /\ UNCHANGED serverEnd /\ Send(Queued)
  BY DEF FrameDone, CloseSession, PrioKept, LowKept, Connected
<1>3. Counted /\ Scattered
  BY <1>2 DEF SpaceInv, Counted
<1>4. /\ PrioSent \in Seq(AnyMsg) /\ Single(PrioSent) /\ AllQuestions(PrioSent)
      /\ LowSent \in Seq(AnyMsg) /\ Single(LowSent) /\ AllQuestions(LowSent)
      /\ Single(PrioKept) /\ AllQuestions(PrioKept) /\ Single(LowKept) /\ AllQuestions(LowKept)
      /\ Questions(PrioSent) \subseteq Questions(prioQueue)
      /\ Questions(PrioKept) = Questions(prioQueue) \ Questions(PrioSent)
      /\ Questions(LowSent) \subseteq Questions(lowQueue)
      /\ Questions(LowKept) = Questions(lowQueue) \ Questions(LowSent)
      /\ IsFiniteSet(Questions(PrioSent)) /\ Cardinality(Questions(PrioSent)) = PrioToSend
      /\ IsFiniteSet(Questions(LowSent)) /\ Cardinality(Questions(LowSent)) = LowToSend
      /\ PrioToSend \in Nat /\ LowToSend \in Nat /\ Len(Queued) = PrioToSend + LowToSend
      /\ PrioToSend + LowToSend <= spaceLeft
      /\ spaceLeft - Len(Queued) > 0 => PrioKept = <<>> /\ LowKept = <<>>
  BY <1>1, <1>3, QueuedIs
<1>5. CASE exec' = "closed" /\ serverEnd' = "closed" /\ Send(Append(Queued, Terminate))
  <2>1. Terminate \in AnyMsg /\ Queued \in Seq(AnyMsg)
    BY <1>1, QueuedFits DEF Terminate, Msg, AnyMsg, Kinds
  <2>2. /\ Append(Queued, Terminate) \in Seq(AnyMsg)
        /\ Len(Append(Queued, Terminate)) = Len(Queued) + 1
    BY <2>1, AppendProperties
  <2>3. Len(Append(Queued, Terminate)) <= spaceLeft + 1
    BY <1>1, <1>4, <2>2 DEF SessionInv, Frames_Server
  <2> QED
    BY <1>1, <1>2, <1>5, <2>2, <2>3, EndsSpace
<1>6. CASE exec' = "check" /\ UNCHANGED serverEnd /\ Send(Queued)
  <2> DEFINE P == In(Stock, Places)
  <2> DEFINE R == In(Stock, Road)
  <2> DEFINE Mp == Questions(PrioSent)
  <2> DEFINE Ml == Questions(LowSent)
  <2>1. /\ Single(up) /\ AllQuestions(up) /\ up \in Seq(AnyMsg)
        /\ Bounded(P, R, asked, answered, spaceLeft)
        /\ Talking => Exact(P, R, asked, answered, spaceLeft)
    BY <1>1, <1>3 DEF Counted, Scattered, ClientSingle, SessionInv, Frames_Link
  <2>2. /\ Stock["up"] = Questions(up) /\ Stock'["up"] = Questions(up')
        /\ Stock["prio"] = Questions(prioQueue) /\ Stock'["prio"] = Stock["prio"] \ Mp
        /\ Stock["low"] = Questions(lowQueue) /\ Stock'["low"] = Stock["low"] \ Ml
        /\ \A c \in Places : c \notin {"up", "prio", "low"} => Stock'[c] = Stock[c]
    <3>1. StockFacts /\ StockFacts'
      BY StockIs
    <3>2. current'.frame = <<>>
      BY <1>2 DEF None
    <3>3. /\ Stock'["down"] = Stock["down"] /\ Stock'["unread"] = Stock["unread"]
          /\ Stock'["current"] = Stock["current"]
      BY <1>2, <3>1, <3>2 DEF StockFacts
    <3> QED
      BY <1>2, <1>4, <3>1, <3>3, ClientStock, PlaceCases DEF StockFacts
  <2>3. /\ Stock["up"] \cap Stock["prio"] = {} /\ Stock["up"] \cap Stock["low"] = {}
        /\ Stock["prio"] \cap Stock["low"] = {}
    BY <1>3, PlacesAre DEF Scattered, Disjoint
  <2>4. /\ Queued \in Seq(AnyMsg) /\ Single(Queued) /\ AllQuestions(Queued)
        /\ Questions(Queued) = Mp \cup Ml
    <3>1. Queued = PrioSent \o LowSent
      BY DEF Queued, PrioSent, LowSent
    <3>2. Mp \cap Ml = {}
      BY <1>4, <2>2, <2>3
    <3>3. PrioSent \o LowSent \in Seq(AnyMsg)
      BY <1>4, ConcatProperties
    <3>4. /\ Questions(PrioSent \o LowSent) = Questions(PrioSent) \cup Questions(LowSent)
          /\ Single(PrioSent \o LowSent)
      BY <1>4, <3>2, SingleConcat
    <3>5. AllQuestions(PrioSent \o LowSent)
      BY <1>4, AllQuestionsConcat
    <3> QED
      BY <3>1, <3>3, <3>4, <3>5
  <2>5. ASSUME up' = up \o Queued
        PROVE  /\ Single(up') /\ AllQuestions(up') /\ Disjoint(Stock')
               /\ Bounded(In(Stock', Places), In(Stock', Road), asked', answered', spaceLeft')
               /\ Talking => Exact(In(Stock', Places), In(Stock', Road), asked', answered', spaceLeft')
    <3>1. Single(up') /\ AllQuestions(up') /\ Questions(up') = Questions(up) \cup (Mp \cup Ml)
      <4>1. Questions(up) \cap Questions(Queued) = {}
        BY <1>4, <2>2, <2>3, <2>4
      <4>2. /\ Questions(up \o Queued) = Questions(up) \cup Questions(Queued)
            /\ Single(up \o Queued)
        BY <2>1, <2>4, <4>1, SingleConcat
      <4>3. AllQuestions(up \o Queued)
        BY <2>1, <2>4, AllQuestionsConcat
      <4> QED
        BY <2>4, <2>5, <4>2, <4>3
    <3>2. Mp \subseteq Stock["prio"] /\ Ml \subseteq Stock["low"] /\ Disjoint(Stock)
      BY <1>3, <1>4, <2>2 DEF Scattered
    <3>3. /\ Stock'["prio"] = Stock["prio"] \ Mp /\ Stock'["low"] = Stock["low"] \ Ml
          /\ Stock'["up"] = Stock["up"] \cup (Mp \cup Ml)
      BY <2>2, <3>1
    <3>4. \A c \in Places : c \notin {"up", "prio", "low"} => Stock'[c] = Stock[c]
      BY <2>2
    <3>5. IsFiniteSet(Mp) /\ Cardinality(Mp) = PrioToSend /\ IsFiniteSet(Ml) /\ Cardinality(Ml) = LowToSend
      BY <1>4
    <3> HIDE DEF Mp, Ml
    <3>6. /\ Disjoint(Stock') /\ In(Stock', Places) = P
          /\ In(Stock', Road) = (R \cup Mp) \cup Ml
          /\ R \cap Mp = {} /\ (R \cup Mp) \cap Ml = {}
      <4>1. Go(Stock, Stock', Mp, Ml)
        BY <3>2, <3>3, <3>4 DEF Go
      <4> QED
        BY <3>2, <4>1, QueuedMoves
    <3> HIDE DEF P, R
    <3>7. /\ Bounded(P, (R \cup Mp) \cup Ml, asked, answered, spaceLeft - (PrioToSend + LowToSend))
          /\ Exact(P, R, asked, answered, spaceLeft) =>
               Exact(P, (R \cup Mp) \cup Ml, asked, answered, spaceLeft - (PrioToSend + LowToSend))
      BY <1>4, <2>1, <3>5, <3>6, QueuedAccount
    <3>8. /\ Bounded(In(Stock', Places), In(Stock', Road), asked', answered', spaceLeft')
          /\ Talking => Exact(In(Stock', Places), In(Stock', Road), asked', answered', spaceLeft')
      <4>1. /\ asked' = asked /\ answered' = answered
            /\ spaceLeft' = spaceLeft - (PrioToSend + LowToSend)
        BY <1>2, <1>4
      <4> QED
        BY <2>1, <3>6, <3>7, <4>1
    <3> QED
      BY <3>1, <3>6, <3>8
  <2>6. ASSUME up' = up, ~ServerSees
        PROVE  /\ Single(up') /\ AllQuestions(up') /\ Disjoint(Stock')
               /\ Bounded(In(Stock', Places), In(Stock', Road), asked', answered', spaceLeft')
               /\ Talking => Exact(In(Stock', Places), In(Stock', Road), asked', answered', spaceLeft')
    <3>1. \A c \in Places : Stock'[c] \subseteq Stock[c]
      BY <2>2, <2>6
    <3>2. Disjoint(Stock') /\ In(Stock', Places) \subseteq P /\ In(Stock', Road) \subseteq R
      BY <1>3, <3>1, Fewer DEF Scattered
    <3> HIDE DEF P, R
    <3>3. spaceLeft' \in Nat /\ spaceLeft' <= spaceLeft
      BY <1>2, <1>4, <2>1 DEF Bounded
    <3>4. Bounded(In(Stock', Places), In(Stock', Road), asked, answered, spaceLeft')
      BY <2>1, <3>2, <3>3, AccountLess, BaseType
    <3>5. ~Talking
      BY <2>6 DEF Talking, ServerSees
    <3> QED
      BY <1>2, <2>1, <2>6, <3>2, <3>4, <3>5
  <2>7. /\ Single(up') /\ AllQuestions(up') /\ Disjoint(Stock')
        /\ Bounded(In(Stock', Places), In(Stock', Road), asked', answered', spaceLeft')
        /\ Talking => Exact(In(Stock', Places), In(Stock', Road), asked', answered', spaceLeft')
    <3> HIDE DEF P, R, Mp, Ml
    <3> QED
      BY <1>6, <2>5, <2>6 DEF Send, Sent
  <2> HIDE DEF P, R, Mp, Ml
  <2>8. Scattered'
    <3>1. Single(up') /\ Separate(down')
      BY <1>2, <1>3, <2>7 DEF Scattered, ClientSingle
    <3>2. ServerSingle'
      <4>1. Separate(Unread') /\ Single(current'.frame)
        BY <1>2, <1>3, SingleEmpty DEF Scattered, ServerSingle, Unread, None
      <4> QED
        BY <1>2, <1>4, <4>1 DEF ServerSingle
    <3> QED
      BY <1>3, <2>7, <3>1, <3>2, ClientStock DEF Scattered
  <2>9. Connected' /\ (Talking' => Talking)
    BY <1>2, <1>6 DEF Connected, Talking, client
  <2>10. Counted'
    BY <1>2, <1>4, <2>7, <2>8, <2>9 DEF Counted
  <2> QED
    BY <1>1, <1>2, <1>6, <2>9, <2>10, StaysSpace
<1> QED
  BY <1>2, <1>5, <1>6

(* Every step of the server.                                               *)
LEMMA ServerSpace == SpaceInv /\ ServerStep => SpaceInv'
<1> SUFFICES ASSUME SpaceInv, ServerStep PROVE SpaceInv'
  OBVIOUS
<1>1. UNCHANGED client
  BY DEF ServerStep
<1>2. CASE Exec
  BY <1>1, <1>2, ConnectSpace, HandshakeSpace, CheckSpace, TakeFrameSpace, DispatchSpace,
     FrameDoneSpace DEF Exec
<1>3. CASE Network
  BY <1>1, <1>3, CreditSpace, ReceiveSpace DEF Network
<1> QED
  BY <1>2, <1>3 DEF ServerStep

-----------------------------------------------------------------------------
(* The user and the network: what was on the connection is lost.           *)
LEMMA LoseSpace ==
  ASSUME SpaceInv, LoseConnection, UNCHANGED server, UNCHANGED client
  PROVE  SpaceInv'
<1>1. /\ lost' = TRUE /\ up' = <<>> /\ down' = <<>>
      /\ UNCHANGED <<clientEnd, serverEnd, reply, exec, m_netRead, current>>
      /\ UNCHANGED <<asked, answered, spaceLeft, prioQueue, lowQueue, worker, script>>
  BY DEF LoseConnection, server, threadsOfServer, netState, queries, client, program
<1>2. SessionInv'
  <2>1. Disturb
    BY DEF Disturb
  <2> QED
    BY <2>1, DisturbInv DEF SpaceInv
<1>3. \A c \in Places : Stock'[c] \subseteq Stock[c]
  <2>1. StockFacts /\ StockFacts'
    BY StockIs
  <2>2. /\ Stock'["up"] = {} /\ Stock'["down"] = {}
        /\ Stock'["unread"] = Stock["unread"] /\ Stock'["current"] = Stock["current"]
        /\ Stock'["prio"] = Stock["prio"] /\ Stock'["low"] = Stock["low"]
    BY <1>1, <2>1, SingleEmpty DEF StockFacts
  <2> QED
    BY <2>2, ClientStock, PlaceCases
<1>4. In(Stock, Places) = {} => In(Stock', Places) = {}
  BY <1>3, InAre
<1>5. Phases'
  BY <1>1 DEF SpaceInv, Phases, Connected, ClientSees
<1>6. Begins'
  BY <1>1, <1>4 DEF SpaceInv, Begins
<1>7. Connected' = Connected /\ ~Talking'
  BY <1>1 DEF Connected, Talking
<1>8. ASSUME Connected PROVE Counted'
  <2>1. Counted /\ Scattered /\ ClientSingle
    BY <1>8 DEF SpaceInv, Counted, Scattered
  <2>2. Disjoint(Stock') /\ In(Stock', Places) \subseteq In(Stock, Places)
        /\ In(Stock', Road) \subseteq In(Stock, Road)
    BY <1>3, <2>1, Fewer DEF Scattered
  <2>3. Scattered'
    <3>1. Single(up') /\ Separate(down')
      BY <1>1, SingleEmpty
    <3> QED
      BY <2>1, <2>2, <3>1, ClientStock, ServerStock DEF Scattered
  <2>4. Bounded(In(Stock', Places), In(Stock', Road), asked, answered, spaceLeft)
    <3>1. Bounded(In(Stock, Places), In(Stock, Road), asked, answered, spaceLeft)
      BY <2>1 DEF Counted
    <3>2. spaceLeft \in Nat /\ spaceLeft <= spaceLeft
      BY <3>1 DEF Bounded
    <3> QED
      BY <2>2, <3>1, <3>2, AccountLess, BaseType
  <2>5. AllQuestions(up') /\ AllQuestions(prioQueue') /\ AllQuestions(lowQueue')
    BY <1>1, <2>1 DEF Counted, AllQuestions
  <2> QED
    BY <1>1, <1>7, <2>1, <2>3, <2>4, <2>5 DEF Counted
<1>9. Len(up') <= QuerySpaceBase + 1
  BY <1>1, BaseType
<1> QED
  BY <1>2, <1>5, <1>6, <1>7, <1>8, <1>9 DEF SpaceInv

(* The viewer is closed.                                                   *)
LEMMA CloseViewerSpace ==
  ASSUME SpaceInv, CloseViewer, UNCHANGED client
  PROVE  SpaceInv'
<1>1. /\ UNCHANGED <<exec, lost, reply, clientEnd, serverEnd, up, down, m_netRead, current>>
      /\ UNCHANGED <<asked, answered, spaceLeft, prioQueue, lowQueue>>
  BY DEF CloseViewer, link, netState, queries
<1>2. SessionInv'
  <2>1. Disturb
    BY DEF Disturb
  <2> QED
    BY <2>1, DisturbInv DEF SpaceInv
<1>3. ASSUME Scattered PROVE Scattered' /\ Same(Stock, Stock')
  <2>1. Separate(Unread') /\ InFrames(Unread') = InFrames(Unread)
    BY <1>1, <1>3 DEF Scattered, ServerSingle, Unread
  <2> QED
    BY <1>1, <1>3, <2>1, StillKeeps
<1> QED
  BY <1>1, <1>2, <1>3, NetworkSpace

(* Another viewer: nothing is asked yet.                                   *)
LEMMA OpenViewerSpace ==
  ASSUME SpaceInv, OpenViewer
  PROVE  SpaceInv'
<1>1. /\ worker \in {"accept", "reject"} /\ exec' = "connect" /\ reply' = "none"
      /\ up' = <<>> /\ down' = <<>> /\ m_netRead' = <<>> /\ current' = None
      /\ prioQueue' = <<>> /\ lowQueue' = <<>> /\ asked' = {} /\ answered' = {}
      /\ spaceLeft' = QuerySpaceBase /\ UNCHANGED client
  BY DEF OpenViewer, ServerReset
<1>2. UNCHANGED <<worker, script>> /\ ~Connected'
  BY <1>1 DEF client, program, Connected
<1>3. SessionInv'
  BY OpenViewerInv DEF SpaceInv
<1>4. Phases'
  BY <1>1, <1>2 DEF Phases
<1>5. In(Stock, Places) = {} => In(Stock', Places) = {}
  <2>1. StockFacts /\ StockFacts'
    BY StockIs
  <2>2. FramesOf(m_netRead') = <<>>
    BY <1>1 DEF FramesOf
  <2>3. /\ Stock'["up"] = {} /\ Stock'["down"] = {} /\ Stock'["unread"] = {}
        /\ Stock'["current"] = {} /\ Stock'["prio"] = {} /\ Stock'["low"] = {}
    BY <1>1, <2>1, <2>2, SingleEmpty DEF StockFacts, None
  <2>4. \A c \in Places : Stock'[c] \subseteq Stock[c]
    BY <1>1, <2>3, ClientStock, PlaceCases
  <2>5. \A F, G : (\A c \in Places : G[c] \subseteq F[c]) => In(G, Places) \subseteq In(F, Places)
    BY InAre
  <2>6. In(Stock', Places) \subseteq In(Stock, Places)
    BY <2>4, <2>5
  <2> QED
    BY <2>6
<1>6. Begins'
  BY <1>1, <1>2, <1>5 DEF SpaceInv, Begins
<1> QED
  BY <1>1, <1>2, <1>3, <1>4, <1>6 DEF SpaceInv

(* Before the first session.                                               *)
LEMMA InitSpace == Init => SpaceInv
<1> SUFFICES ASSUME Init PROVE SpaceInv
  OBVIOUS
<1> USE DEF Init, LinkInit, ClientInit, ServerInit
<1>1. SessionInv
  BY InitInv
<1>2. ~Connected /\ Phases
  BY DEF Connected, Phases
<1>3. In(Stock, Places) = {}
  <2>1. StockFacts
    BY StockIs
  <2>2. FramesOf(m_netRead) = <<>>
    BY DEF FramesOf
  <2>3. \A c \in Places : Stock[c] = {}
    BY <2>1, <2>2, SingleEmpty, PlaceCases DEF StockFacts, None
  <2> QED
    BY <2>3, InAre
<1>4. \A i \in DOMAIN script : script[i].kind \notin QueryKinds
  <2> DEFINE Event == [kind : EventKinds, ref : Refs \cup {"none"}]
  <2>1. script \in Seq(Event)
    BY ScriptsAssumption
  <2>2. \A i \in DOMAIN script : script[i] \in Event
    <3> HIDE DEF Event
    <3> QED
      BY <2>1
  <2> QED
    BY <2>2 DEF EventKinds, QueryKinds, UrgentKinds
<1>5. Begins
  BY <1>3, <1>4 DEF Begins
<1> QED
  BY <1>1, <1>2, <1>5 DEF SpaceInv

(* Every step.                                                             *)
LEMMA NextSpace == SpaceInv /\ [Next]_vars => SpaceInv'
<1> SUFFICES ASSUME SpaceInv, [Next]_vars PROVE SpaceInv'
  OBVIOUS
<1>1. CASE UNCHANGED vars
  <2>1. UNCHANGED <<link, client, server>>
    BY <1>1 DEF vars
  <2>2. /\ UNCHANGED <<exec, lost, reply, clientEnd, serverEnd, up, down, m_netRead, current>>
        /\ UNCHANGED <<asked, answered, spaceLeft, prioQueue, lowQueue>>
    BY <2>1 DEF link, server, threadsOfServer, netState, queries
  <2>3. SessionInv'
    BY <1>1, NextInv DEF SpaceInv
  <2>4. ASSUME Scattered PROVE Scattered' /\ Same(Stock, Stock')
    <3>1. Separate(Unread') /\ InFrames(Unread') = InFrames(Unread)
      BY <2>2, <2>4 DEF Scattered, ServerSingle, Unread
    <3> QED
      BY <2>1, <2>2, <2>4, <3>1, StillKeeps
  <2> QED
    BY <2>1, <2>2, <2>3, <2>4, NetworkSpace
<1>2. CASE ClientStep /\ UNCHANGED server
  BY <1>2, ClientSpace
<1>3. CASE ServerStep
  BY <1>3, ServerSpace
<1>4. CASE Disturb
  BY <1>4, LoseSpace, CloseViewerSpace DEF Disturb
<1>5. CASE OpenViewer
  BY <1>5, OpenViewerSpace
<1> QED
  BY <1>1, <1>2, <1>3, <1>4, <1>5 DEF Next, Stopped

-----------------------------------------------------------------------------
(* What the invariant says of a session.                                   *)
LEMMA SpaceIsConserved == SpaceInv => QuerySpaceConserved
<1> SUFFICES ASSUME SpaceInv, Talking
             PROVE  /\ asked \ answered = Range(prioQueue) \cup Range(lowQueue) \cup OnTheWay
                    /\ spaceLeft + Cardinality(OnTheWay) = QuerySpaceBase
                    /\ spaceLeft > 0 /\ exec # "process" => prioQueue = <<>> /\ lowQueue = <<>>
  BY DEF QuerySpaceConserved
<1>1. Counted
  BY DEF SpaceInv, Talking
<1>2. /\ asked \ answered = In(Stock, Places)
      /\ Cardinality(In(Stock, Road)) + spaceLeft = QuerySpaceBase
      /\ IsFiniteSet(In(Stock, Road)) /\ spaceLeft \in Nat
  BY <1>1 DEF Counted, Bounded, Exact
<1>3. Cardinality(In(Stock, Road)) \in Nat
  BY <1>2, FS_CardinalityType
<1>4. Range(prioQueue) = Stock["prio"] /\ Range(lowQueue) = Stock["low"]
  <2>1. Range(prioQueue) = Questions(prioQueue) /\ Range(lowQueue) = Questions(lowQueue)
    BY <1>1 DEF Counted, AllQuestions, Questions, Range
  <2> QED
    BY <2>1, StockIs DEF StockFacts
<1>5. In(Stock, Places) = Stock["prio"] \cup Stock["low"] \cup In(Stock, Road)
  <2>1. \A c : c \in Places <=> c \in Road \/ c = "prio" \/ c = "low"
    BY DEF Places, Waiting
  <2>2. \A m : m \in In(Stock, Places) <=> m \in Stock["prio"] \/ m \in Stock["low"] \/ m \in In(Stock, Road)
    BY <2>1, InAre
  <2> QED
    BY <2>2
<1>6. In(Stock, Road) = OnTheWay
  BY OnTheRoad
<1> QED
  BY <1>1, <1>2, <1>3, <1>4, <1>5, <1>6 DEF Counted

LEMMA PacketsFit == SpaceInv => SendsNeverBlock
<1> SUFFICES ASSUME SpaceInv PROVE Len(up) <= SendBuf
  BY DEF SendsNeverBlock
<1>1. /\ QuerySpaceBase \in Nat /\ QuerySpaceBase + 1 <= SendBuf
      /\ SendBuf \in Nat
  BY LinkAssumption DEF QuerySpaceBase
<1>2. up \in Seq(AnyMsg) /\ Len(up) \in Nat
  BY LenProperties DEF SpaceInv, SessionInv, Frames_Link
<1>3. CASE Connected
  <2>1. spaceLeft \in Nat /\ Len(up) + spaceLeft <= QuerySpaceBase
    BY <1>3, PacketsBounded DEF SpaceInv
  <2> QED
    BY <1>1, <1>2, <2>1
<1>4. CASE exec \in {"connect", "handshake"}
  BY <1>1, <1>4 DEF SpaceInv, Begins
<1>5. CASE exec = "closed"
  BY <1>1, <1>2, <1>5 DEF SpaceInv
<1> QED
  BY <1>3, <1>4, <1>5 DEF SpaceInv, Phases, Connected

(* A question that the server asked is in one place until Exec handles its *)
(* answer, and what is on its way is paid for (TracyWorker.cpp:3172-3187). *)
THEOREM SpaceInvariant == Spec => []SpaceInv
<1> QED
  BY InitSpace, NextSpace, PTL DEF Spec

(* For every script, frame size and connection: while a session lasts, no  *)
(* question is lost or answered twice, and each on its way holds a unit of *)
(* m_serverQuerySpaceLeft (TracyWorker.cpp:3030-3060, 3172-3187).          *)
THEOREM EveryQuestionIsAccountedFor == Spec => []QuerySpaceConserved
<1> QED
  BY SpaceInvariant, SpaceIsConserved, PTL

(* For every size of the server's send buffer and every part of it kept    *)
(* for termination: no send of the server blocks, those that end the       *)
(* session included (m_serverQuerySpaceBase, TracyWorker.cpp:2828).        *)
THEOREM ServerNeverBlocks == Spec => []SendsNeverBlock
<1> QED
  BY SpaceInvariant, PacketsFit, PTL
=============================================================================
