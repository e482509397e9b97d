------------------------- MODULE MemoryHooksProofs -------------------------
(***************************************************************************)
(* Proofs about MemoryHooks for every set of threads, addresses and        *)
(* domains, and every use of the domain stack, also one that pushes        *)
(* Default.                                                                *)
(***************************************************************************)
EXTENDS MemoryHooks, TLAPS

Busy(t) == call[t] # Idle

(* The flags and Tracy's data as functions of how far main is; hooks reach *)
(* Tracy only while main works, and only main's run in the other stages.   *)
Lifecycle ==
    /\ g_tracyActive <=> (stage \in {"running", "stopping", "stopped", "exited"})
    /\ s_isProfilerStarted <=> (stage \in {"started", "running"})
    /\ s_profilerData <=> (stage \in {"starting", "started", "running", "stopping"})
    /\ \A t \in Threads :
        /\ t # Main /\ stage # "running" => call[t] = Idle
        /\ Busy(t) /\ call[t].at \in {"named", "plain"} => stage = "running"
        /\ Busy(t) /\ call[t].at \in {"named?", "plain?"} => g_tracyActive

(* A block is in the hands of the program or of one hook.                  *)
OneHolder ==
    /\ \A t \in Threads : Busy(t) =>
        /\ call[t].ptr \in DOMAIN heap /\ call[t].ptr \notin owned
        /\ call[t].domain = heap[call[t].ptr]
    /\ \A t, u \in Threads : Busy(t) /\ Busy(u) /\ call[t].ptr = call[u].ptr => t = u

(* What the server should have been told of the block of a hook by now.    *)
ToldNamed(c) == IF c.op = "new" THEN c.at \in {"plain?", "plain", "end"}
                ELSE c.at \in {"active?", "named?", "named"}
ToldPlain(c) == IF c.op = "new" THEN c.at = "end" ELSE c.at # "end"

Ledger ==
    /\ \A ptr \in Addresses, p \in Pools :
        stage = "running" /\ (ptr \notin DOMAIN heap \/ ptr \in early) => ptr \notin traced[p]
    /\ \A t \in Threads : Busy(t) /\ stage = "running" =>
        /\ call[t].ptr \notin early
        /\ call[t].ptr \in traced[AllPool] <=> ToldPlain(call[t])
        /\ \A d \in MemoryDomain :
            call[t].ptr \in traced[d] <=> d = call[t].domain /\ ToldNamed(call[t])

(* Before main works nothing has been traced and every block is early.     *)
NothingEarlier ==
    stage \in {"static", "starting", "started"} =>
        /\ early = DOMAIN heap
        /\ \A p \in Pools : traced[p] = {}

IInv == /\ TypeOK /\ Lifecycle /\ OneHolder /\ NothingEarlier
        /\ Ledger /\ LiveBlocksTraced /\ TraceNeverFaults

(* A thread that is somewhere in a hook has a well-formed call.            *)
LEMMA InHook ==
    ASSUME TypeOK, NEW t \in Threads, NEW places, At(t, Hooks, places)
    PROVE  /\ Busy(t) /\ call[t] \in Call /\ call[t].at \in places
           /\ call[t].op \in Hooks /\ call[t].ptr \in Addresses
           /\ call[t].domain \in MemoryDomain /\ call[t].at \in Places
<1>1. call[t].op \in Hooks /\ call[t].at \in places
  BY DEF At
<1>2. call[t] # Idle
  BY <1>1 DEF Idle, Hooks
<1>3. call[t] \in Call
  BY <1>2 DEF TypeOK
<1> QED
  BY <1>1, <1>2, <1>3 DEF Call, Busy

(* A step that only moves a hook to its next place keeps its call but for  *)
(* that place.                                                             *)
LEMMA GotoShape ==
    ASSUME TypeOK, NEW t \in Threads, NEW places, At(t, Hooks, places),
           NEW at \in Places, Goto(t, at)
    PROVE  /\ call' \in [Threads -> Call \cup {Idle}]
           /\ \A u \in Threads : u # t => call'[u] = call[u]
           /\ call'[t] \in Call /\ call'[t] # Idle
           /\ call'[t].op = call[t].op /\ call'[t].ptr = call[t].ptr
           /\ call'[t].domain = call[t].domain /\ call'[t].at = at
<1>1. call[t] \in Call /\ call[t].op \in Hooks
  BY InHook
<1>2. call'[t] = [call[t] EXCEPT !.at = at]
  BY DEF Goto, TypeOK
<1>3. /\ call'[t] \in Call
      /\ call'[t].op = call[t].op /\ call'[t].ptr = call[t].ptr
      /\ call'[t].domain = call[t].domain /\ call'[t].at = at
  BY <1>1, <1>2 DEF Call
<1>4. call'[t] # Idle
  BY <1>1, <1>3 DEF Hooks, Idle
<1>5. \A u \in Threads : u # t => call'[u] = call[u]
  BY DEF Goto, TypeOK
<1>6. call' \in [Threads -> Call \cup {Idle}]
  BY <1>1, <1>2, <1>3 DEF Goto, TypeOK
<1> QED
  BY <1>3, <1>4, <1>5, <1>6

(* The program starts with no block, no hook running and nothing traced.   *)
LEMMA InitInv == Init => IInv
<1> SUFFICES ASSUME Init PROVE IInv
  OBVIOUS
<1>1. TypeOK
  <2>1. stage \in Stages
    BY DEF Init, Stages
  <2>2. /\ g_memoryDomainStack \in [Threads -> Seq(Domains)]
        /\ scopes \in [Threads -> Seq(PushedDomains)]
    BY DEF Init
  <2>3. DOMAIN heap = {}
    BY DEF Init
  <2>4. call \in [Threads -> Call \cup {Idle}]
    BY DEF Init
  <2>5. traced \in [Pools -> SUBSET Addresses]
    BY DEF Init
  <2> QED
    BY <2>1, <2>2, <2>3, <2>4, <2>5 DEF Init, TypeOK
<1>2. \A t \in Threads : ~Busy(t)
  BY DEF Init, Busy
<1>3. Lifecycle
  BY <1>2 DEF Init, Lifecycle, Busy
<1>4. OneHolder
  BY <1>2 DEF OneHolder
<1>5. NothingEarlier
  BY DEF Init, NothingEarlier
<1>6. Ledger /\ LiveBlocksTraced /\ TraceNeverFaults
  BY <1>2 DEF Init, Ledger, LiveBlocksTraced, TraceNeverFaults, Busy
<1> QED
  BY <1>1, <1>3, <1>4, <1>5, <1>6 DEF IInv

(* Moving a hook to its next place disturbs neither the blocks nor, where  *)
(* the server has been told the same by both places, the ledger.           *)
LEMMA GotoKeepsInv ==
    ASSUME IInv, NEW t \in Threads, NEW places, At(t, Hooks, places),
           NEW at \in Places, Goto(t, at),
           UNCHANGED <<mainVars, domainVars, blockVars, traced, fault>>,
           at \in {"named", "plain"} => stage = "running",
           at \in {"named?", "plain?"} => g_tracyActive,
           stage = "running" => /\ ToldNamed(call'[t]) <=> ToldNamed(call[t])
                                /\ ToldPlain(call'[t]) <=> ToldPlain(call[t])
    PROVE  IInv'
<1> USE DEF IInv
<1>1. /\ UNCHANGED <<stage, g_tracyActive, s_isProfilerStarted, s_profilerData>>
      /\ UNCHANGED <<g_memoryDomainStack, scopes, heap, owned, early, traced, fault>>
  BY DEF mainVars, domainVars, blockVars
<1>2. /\ call' \in [Threads -> Call \cup {Idle}]
      /\ \A u \in Threads : u # t => call'[u] = call[u]
      /\ call'[t] # Idle
      /\ call'[t].ptr = call[t].ptr /\ call'[t].domain = call[t].domain /\ call'[t].at = at
  BY GotoShape
<1>3. call[t] # Idle /\ Busy(t)
  BY InHook DEF Busy
<1>4. TypeOK'
  BY <1>1, <1>2 DEF TypeOK
<1>5. Lifecycle'
  BY <1>1, <1>2, <1>3 DEF Lifecycle, Busy
<1>6. OneHolder'
  <2>1. \A u \in Threads : /\ Busy(u)' <=> Busy(u)
                           /\ call'[u].ptr = call[u].ptr /\ call'[u].domain = call[u].domain
    BY <1>2, <1>3 DEF Busy
  <2> QED
    BY <1>1, <2>1 DEF OneHolder
<1>7. NothingEarlier'
  BY <1>1 DEF NothingEarlier
<1>8. Ledger'
  <2>1. \A u \in Threads : Busy(u)' /\ stage' = "running" =>
            /\ Busy(u) /\ call'[u].ptr = call[u].ptr /\ call'[u].domain = call[u].domain
            /\ ToldNamed(call'[u]) <=> ToldNamed(call[u])
            /\ ToldPlain(call'[u]) <=> ToldPlain(call[u])
    BY <1>1, <1>2, <1>3 DEF Busy
  <2> QED
    BY <1>1, <2>1 DEF Ledger
<1>9. LiveBlocksTraced' /\ TraceNeverFaults'
  BY <1>1 DEF LiveBlocksTraced, TraceNeverFaults
<1> QED
  BY <1>4, <1>5, <1>6, <1>7, <1>8, <1>9

(* The steps of a hook that only look at a flag.                           *)
LEMMA FlagsInv ==
    ASSUME IInv, NEW t \in Threads, LoadTracyActive(t) \/ AskNamed(t) \/ AskPlain(t)
    PROVE  IInv'
<1> USE DEF IInv
<1>1. CASE LoadTracyActive(t)
  <2> DEFINE at == IF g_tracyActive THEN "named?" ELSE "end"
  <2>1. /\ At(t, Hooks, {"active?"}) /\ Goto(t, at) /\ at \in Places
        /\ UNCHANGED <<mainVars, domainVars, blockVars, traced, fault>>
    BY <1>1 DEF LoadTracyActive, Places
  <2>2. stage = "running" => at = "named?"
    BY DEF Lifecycle
  <2>3. call[t].at = "active?" /\ call'[t].op = call[t].op /\ call'[t].at = at
    BY <2>1, InHook, GotoShape
  <2>4. at \notin {"named", "plain"} /\ (at \in {"named?", "plain?"} => g_tracyActive)
    OBVIOUS
  <2>5. stage = "running" => /\ ToldNamed(call'[t]) <=> ToldNamed(call[t])
                             /\ ToldPlain(call'[t]) <=> ToldPlain(call[t])
    BY <2>2, <2>3 DEF ToldNamed, ToldPlain
  <2> HIDE DEF at
  <2> QED
    BY <2>1, <2>4, <2>5, GotoKeepsInv
<1>2. CASE AskNamed(t)
  <2> DEFINE at == IF MayTrace THEN "named" ELSE "plain?"
  <2>1. /\ At(t, Hooks, {"named?"}) /\ Goto(t, at) /\ at \in Places
        /\ UNCHANGED <<mainVars, domainVars, blockVars, traced, fault>>
    BY <1>2 DEF AskNamed, Places
  <2>2. stage = "running" => at = "named"
    BY DEF Lifecycle, MayTrace
  <2>3. call[t].at = "named?" /\ Busy(t) /\ call'[t].op = call[t].op /\ call'[t].at = at
    BY <2>1, InHook, GotoShape
  <2>4. /\ at \in {"named", "plain"} => stage = "running"
        /\ at \in {"named?", "plain?"} => g_tracyActive
    BY <2>3 DEF Lifecycle, MayTrace
  <2>5. stage = "running" => /\ ToldNamed(call'[t]) <=> ToldNamed(call[t])
                             /\ ToldPlain(call'[t]) <=> ToldPlain(call[t])
    BY <2>2, <2>3 DEF ToldNamed, ToldPlain
  <2> HIDE DEF at
  <2> QED
    BY <2>1, <2>4, <2>5, GotoKeepsInv
<1>3. CASE AskPlain(t)
  <2> DEFINE at == IF MayTrace THEN "plain" ELSE "end"
  <2>1. /\ At(t, Hooks, {"plain?"}) /\ Goto(t, at) /\ at \in Places
        /\ UNCHANGED <<mainVars, domainVars, blockVars, traced, fault>>
    BY <1>3 DEF AskPlain, Places
  <2>2. stage = "running" => at = "plain"
    BY DEF Lifecycle, MayTrace
  <2>3. call[t].at = "plain?" /\ Busy(t) /\ call'[t].op = call[t].op /\ call'[t].at = at
    BY <2>1, InHook, GotoShape
  <2>4. /\ at \in {"named", "plain"} => stage = "running"
        /\ at \in {"named?", "plain?"} => g_tracyActive
    BY <2>3 DEF Lifecycle, MayTrace
  <2>5. stage = "running" => /\ ToldNamed(call'[t]) <=> ToldNamed(call[t])
                             /\ ToldPlain(call'[t]) <=> ToldPlain(call[t])
    BY <2>2, <2>3 DEF ToldNamed, ToldPlain
  <2> HIDE DEF at
  <2> QED
    BY <2>1, <2>4, <2>5, GotoKeepsInv
<1> QED
  BY <1>1, <1>2, <1>3

(* Reporting a block: the server knows the block of a hook in a pool       *)
(* exactly when the hook has told it, so it never ends the session.        *)
LEMMA TraceInv ==
    ASSUME IInv, NEW t \in Threads, TraceNamed(t) \/ TracePlain(t)
    PROVE  IInv'
<1> USE DEF IInv
<1> DEFINE pool == IF TraceNamed(t) THEN call[t].domain ELSE AllPool
           from == IF TraceNamed(t) THEN "named" ELSE "plain"
           to   == IF TraceNamed(t) THEN "plain?" ELSE "end"
<1>1. /\ At(t, Hooks, {from}) /\ Report(t, pool) /\ Goto(t, to) /\ to \in Places
      /\ UNCHANGED <<mainVars, domainVars, blockVars>>
  BY DEF TraceNamed, TracePlain, Places
<1>2. /\ UNCHANGED <<stage, g_tracyActive, s_isProfilerStarted, s_profilerData>>
      /\ UNCHANGED <<g_memoryDomainStack, scopes, heap, owned, early>>
  BY <1>1 DEF mainVars, domainVars, blockVars
<1>3. /\ Busy(t) /\ call[t].at = from /\ call[t].op \in Hooks
      /\ call[t].ptr \in Addresses /\ call[t].domain \in MemoryDomain
  BY <1>1, InHook
<1>4. /\ call' \in [Threads -> Call \cup {Idle}]
      /\ \A u \in Threads : u # t => call'[u] = call[u]
      /\ Busy(t)'
      /\ call'[t].op = call[t].op /\ call'[t].ptr = call[t].ptr
      /\ call'[t].domain = call[t].domain /\ call'[t].at = to
  BY <1>1, GotoShape DEF Busy
<1>5. stage = "running" /\ g_tracyActive
  BY <1>3 DEF Lifecycle
<1>6. pool \in Pools /\ AllPool \notin MemoryDomain
  BY <1>3, DomainsAssumption DEF Pools, MemoryDomain
<1>7. /\ \A q \in Pools : q # pool => traced'[q] = traced[q]
      /\ traced'[pool] = IF call[t].op = "new" THEN traced[pool] \cup {call[t].ptr}
                         ELSE traced[pool] \ {call[t].ptr}
      /\ traced' \in [Pools -> SUBSET Addresses]
      /\ \A q \in Pools, ptr \in Addresses :
            ptr # call[t].ptr => (ptr \in traced'[q] <=> ptr \in traced[q])
  <2>1. traced \in [Pools -> SUBSET Addresses]
    BY DEF TypeOK
  <2>2. traced' = [traced EXCEPT ![pool] = IF call[t].op = "new" THEN traced[pool] \cup {call[t].ptr}
                                           ELSE traced[pool] \ {call[t].ptr}]
    BY <1>1 DEF Report
  <2> HIDE DEF pool
  <2> QED
    BY <1>3, <1>6, <2>1, <2>2
<1>8. call[t].ptr \in traced[pool] <=> call[t].op = "delete"
  BY <1>3, <1>5, <1>6 DEF Ledger, ToldNamed, ToldPlain, Hooks
<1>9. TraceNeverFaults'
  BY <1>1, <1>3, <1>8 DEF Report, TraceNeverFaults, Hooks
<1>10. \A u \in Threads : /\ Busy(u)' <=> Busy(u)
                          /\ call'[u].ptr = call[u].ptr /\ call'[u].domain = call[u].domain
                          /\ call'[u].op = call[u].op
  BY <1>3, <1>4 DEF Busy
<1>11. TypeOK'
  <2>1. fault' \in BOOLEAN
    BY <1>1 DEF Report
  <2> QED
    BY <1>2, <1>4, <1>7, <2>1 DEF TypeOK
<1>12. Lifecycle'
  BY <1>2, <1>4, <1>5, <1>10 DEF Lifecycle, Busy
<1>13. OneHolder'
  BY <1>2, <1>10 DEF OneHolder
<1>14. NothingEarlier'
  BY <1>2, <1>5 DEF NothingEarlier
<1>15. call[t].ptr \in DOMAIN heap /\ call[t].ptr \notin owned /\ call[t].ptr \notin early
  BY <1>3, <1>5 DEF OneHolder, Ledger
<1>16. Ledger'
  <2>1. ASSUME NEW ptr \in Addresses, NEW p \in Pools, ptr \notin DOMAIN heap \/ ptr \in early
        PROVE  ptr \notin traced'[p]
    BY <1>5, <1>7, <1>15, <2>1 DEF Ledger
  <2>2. ASSUME NEW u \in Threads, Busy(u)
        PROVE  /\ call'[u].ptr \notin early'
               /\ call'[u].ptr \in traced'[AllPool] <=> ToldPlain(call'[u])
               /\ \A d \in MemoryDomain :
                    call'[u].ptr \in traced'[d] <=> d = call'[u].domain /\ ToldNamed(call'[u])
    <3>1. CASE u # t
      <4>1. call[u].ptr # call[t].ptr /\ call'[u] = call[u] /\ call[u].ptr \in Addresses
        BY <1>3, <1>4, <2>2, <3>1 DEF OneHolder, Busy, TypeOK
      <4>2. /\ call[u].ptr \notin early
            /\ call[u].ptr \in traced[AllPool] <=> ToldPlain(call[u])
            /\ \A d \in MemoryDomain :
                    call[u].ptr \in traced[d] <=> d = call[u].domain /\ ToldNamed(call[u])
        BY <1>5, <2>2 DEF Ledger
      <4> QED
        BY <1>2, <1>7, <4>1, <4>2 DEF Pools
    <3>2. CASE u = t
      <4>1. /\ call[t].ptr \in traced[AllPool] <=> ToldPlain(call[t])
            /\ \A d \in MemoryDomain :
                    call[t].ptr \in traced[d] <=> d = call[t].domain /\ ToldNamed(call[t])
        BY <1>3, <1>5 DEF Ledger
      <4>2. CASE TraceNamed(t)
        <5>1. pool = call[t].domain /\ from = "named" /\ to = "plain?"
          BY <4>2
        <5>2. ToldNamed(call'[t]) <=> call[t].op = "new"
          BY <1>3, <1>4, <5>1 DEF ToldNamed, Hooks
        <5>3. ToldPlain(call'[t]) <=> ToldPlain(call[t])
          BY <1>3, <1>4, <5>1 DEF ToldPlain, Hooks
        <5>4. ~ToldNamed(call[t]) <=> call[t].op = "new"
          BY <1>3, <5>1 DEF ToldNamed, Hooks
        <5>5. call[t].ptr \in traced'[AllPool] <=> call[t].ptr \in traced[AllPool]
          BY <1>3, <1>6, <1>7, <5>1 DEF Pools
        <5>6. call[t].ptr \in traced'[pool] <=> call[t].op = "new"
          BY <1>7
        <5>7. ASSUME NEW d \in MemoryDomain
              PROVE  call[t].ptr \in traced'[d] <=> d = call[t].domain /\ ToldNamed(call'[t])
          BY <1>7, <4>1, <5>1, <5>2, <5>6 DEF Pools
        <5> QED
          BY <1>2, <1>4, <1>15, <3>2, <4>1, <5>3, <5>5, <5>7
      <4>3. CASE ~TraceNamed(t)
        <5>1. pool = AllPool /\ from = "plain" /\ to = "end"
          BY <4>3
        <5>2. ToldPlain(call'[t]) <=> call[t].op = "new"
          BY <1>3, <1>4, <5>1 DEF ToldPlain, Hooks
        <5>3. ToldNamed(call'[t]) <=> ToldNamed(call[t])
          BY <1>3, <1>4, <5>1 DEF ToldNamed, Hooks
        <5>4. call[t].ptr \in traced'[AllPool] <=> call[t].op = "new"
          BY <1>7, <5>1
        <5>5. \A d \in MemoryDomain : traced'[d] = traced[d]
          BY <1>6, <1>7, <5>1 DEF Pools
        <5> QED
          BY <1>2, <1>4, <1>15, <3>2, <4>1, <5>2, <5>3, <5>4, <5>5
      <4> QED
        BY <4>2, <4>3
    <3> QED
      BY <3>1, <3>2
  <2>3. \A u \in Threads : Busy(u)' <=> Busy(u)
    BY <1>10
  <2> QED
    BY <1>2, <2>1, <2>2, <2>3 DEF Ledger
<1>17. LiveBlocksTraced'
  <2>1. \A ptr \in owned \ early : ptr \in Addresses /\ ptr # call[t].ptr
    BY <1>15 DEF TypeOK
  <2> QED
    BY <1>2, <1>7, <2>1 DEF LiveBlocksTraced, Pools
<1> QED
  BY <1>9, <1>11, <1>12, <1>13, <1>14, <1>16, <1>17

(* A new block is unknown to the server: the block that had its address    *)
(* was reported before it was freed.                                       *)
LEMMA NewBlockInv ==
    ASSUME IInv, NEW t \in Threads, NewBlock(t)
    PROVE  IInv'
<1> USE DEF IInv
<1>1. PICK ptr \in Addresses \ DOMAIN heap :
        /\ heap' = [p \in DOMAIN heap \cup {ptr} |->
                        IF p = ptr THEN GetCurrentDomain(t) ELSE heap[p]]
        /\ early' = IF g_tracyActive THEN early ELSE early \cup {ptr}
        /\ call' = [call EXCEPT ![t] = [op |-> "new", ptr |-> ptr, at |-> "active?",
                                        domain |-> GetCurrentDomain(t)]]
  BY DEF NewBlock
<1>2. /\ UNCHANGED <<stage, g_tracyActive, s_isProfilerStarted, s_profilerData>>
      /\ UNCHANGED <<g_memoryDomainStack, scopes, owned, traced, fault>>
      /\ call[t] = Idle /\ (t # Main => stage = "running")
  BY DEF NewBlock, Runs, mainVars, domainVars
<1>3. GetCurrentDomain(t) \in MemoryDomain
  <2>1. g_memoryDomainStack[t] \in Seq(Domains)
    BY DEF TypeOK
  <2>2. CASE g_memoryDomainStack[t] = <<>>
    BY <2>2 DEF GetCurrentDomain, MemoryDomain
  <2>3. CASE g_memoryDomainStack[t] # <<>>
    <3>1. Len(g_memoryDomainStack[t]) \in 1 .. Len(g_memoryDomainStack[t])
      BY <2>1, <2>3
    <3>2. Last(g_memoryDomainStack[t]) \in Domains
      BY <2>1, <3>1 DEF Last
    <3> QED
      BY <2>3, <3>2 DEF GetCurrentDomain, MemoryDomain
  <2> QED
    BY <2>2, <2>3
<1>4. /\ call'[t] \in Call /\ call'[t] # Idle
      /\ call'[t].op = "new" /\ call'[t].ptr = ptr /\ call'[t].at = "active?"
      /\ call'[t].domain = heap'[ptr]
      /\ \A u \in Threads : u # t => call'[u] = call[u]
      /\ call' \in [Threads -> Call \cup {Idle}]
  BY <1>1, <1>3 DEF TypeOK, Call, Hooks, Places, Idle
<1>5. /\ DOMAIN heap' = DOMAIN heap \cup {ptr}
      /\ \A p \in DOMAIN heap : heap'[p] = heap[p]
      /\ heap'[ptr] \in MemoryDomain
  BY <1>1, <1>3
<1>6. TypeOK'
  BY <1>1, <1>2, <1>4, <1>5 DEF TypeOK
<1>7. Lifecycle'
  BY <1>2, <1>4 DEF Lifecycle, Busy
<1>8. OneHolder'
  BY <1>1, <1>2, <1>4, <1>5 DEF OneHolder, Busy, TypeOK
<1>9. NothingEarlier'
  BY <1>1, <1>2, <1>5 DEF NothingEarlier, Lifecycle
<1>10. Ledger'
  <2>1. stage = "running" => g_tracyActive /\ early' = early
    BY <1>1 DEF Lifecycle
  <2>2. stage = "running" => /\ ptr \notin early /\ \A p \in Pools : ptr \notin traced[p]
    BY <1>1 DEF Ledger, TypeOK
  <2>3. ~ToldNamed(call'[t]) /\ ~ToldPlain(call'[t])
    BY <1>4 DEF ToldNamed, ToldPlain
  <2>4. \A u \in Threads : u # t /\ Busy(u)' => Busy(u) /\ call'[u] = call[u]
    BY <1>4 DEF Busy
  <2> QED
    BY <1>2, <1>4, <1>5, <2>1, <2>2, <2>3, <2>4 DEF Ledger, Pools
<1>11. LiveBlocksTraced'
  BY <1>1, <1>2, <1>5 DEF LiveBlocksTraced, Lifecycle, TypeOK
<1>12. TraceNeverFaults'
  BY <1>2 DEF TraceNeverFaults
<1> QED
  BY <1>6, <1>7, <1>8, <1>9, <1>10, <1>11, <1>12

(* A block that is being deleted is no longer the program's, and the       *)
(* server knows it in both its pools.                                      *)
LEMMA DeleteBlockInv ==
    ASSUME IInv, NEW t \in Threads, DeleteBlock(t)
    PROVE  IInv'
<1> USE DEF IInv
<1>1. PICK ptr \in owned :
        /\ ptr \in early => ~(g_tracyActive /\ s_isProfilerStarted)
        /\ owned' = owned \ {ptr}
        /\ call' = [call EXCEPT ![t] = [op |-> "delete", ptr |-> ptr, at |-> "active?",
                                        domain |-> heap[ptr]]]
  BY DEF DeleteBlock
<1>2. /\ UNCHANGED <<stage, g_tracyActive, s_isProfilerStarted, s_profilerData>>
      /\ UNCHANGED <<g_memoryDomainStack, scopes, heap, early, traced, fault>>
      /\ call[t] = Idle /\ (t # Main => stage = "running")
  BY DEF DeleteBlock, Runs, mainVars, domainVars
<1>3. ptr \in DOMAIN heap /\ ptr \in Addresses /\ heap[ptr] \in MemoryDomain
  BY DEF TypeOK
<1>4. /\ call'[t] \in Call /\ call'[t] # Idle
      /\ call'[t].op = "delete" /\ call'[t].ptr = ptr /\ call'[t].at = "active?"
      /\ call'[t].domain = heap[ptr]
      /\ \A u \in Threads : u # t => call'[u] = call[u]
      /\ call' \in [Threads -> Call \cup {Idle}]
  BY <1>1, <1>3 DEF TypeOK, Call, Hooks, Places, Idle
<1>5. TypeOK'
  BY <1>1, <1>2, <1>4 DEF TypeOK
<1>6. Lifecycle'
  BY <1>2, <1>4 DEF Lifecycle, Busy
<1>7. OneHolder'
  BY <1>1, <1>2, <1>3, <1>4 DEF OneHolder, Busy
<1>8. NothingEarlier'
  BY <1>2 DEF NothingEarlier
<1>9. Ledger'
  <2>1. stage = "running" => ptr \in owned \ early
    BY <1>1 DEF Lifecycle
  <2>2. stage = "running" =>
            /\ ptr \in traced[AllPool]
            /\ \A d \in MemoryDomain : ptr \in traced[d] <=> heap[ptr] = d
    BY <2>1 DEF LiveBlocksTraced
  <2>3. ToldNamed(call'[t]) /\ ToldPlain(call'[t])
    BY <1>4 DEF ToldNamed, ToldPlain
  <2>4. \A u \in Threads : u # t /\ Busy(u)' => Busy(u) /\ call'[u] = call[u]
    BY <1>4 DEF Busy
  <2> QED
    BY <1>2, <1>4, <2>1, <2>2, <2>3, <2>4 DEF Ledger
<1>10. LiveBlocksTraced'
  BY <1>1, <1>2 DEF LiveBlocksTraced
<1>11. TraceNeverFaults'
  BY <1>2 DEF TraceNeverFaults
<1> QED
  BY <1>5, <1>6, <1>7, <1>8, <1>9, <1>10, <1>11

(* The block that operator new returns has been reported to both pools.    *)
LEMMA NewReturnsInv ==
    ASSUME IInv, NEW t \in Threads, NewReturns(t)
    PROVE  IInv'
<1> USE DEF IInv
<1> DEFINE ptr == call[t].ptr
<1>1. /\ At(t, {"new"}, {"end"}) /\ owned' = owned \cup {ptr}
      /\ call' = [call EXCEPT ![t] = Idle]
      /\ UNCHANGED <<stage, g_tracyActive, s_isProfilerStarted, s_profilerData>>
      /\ UNCHANGED <<g_memoryDomainStack, scopes, heap, early, traced, fault>>
  BY DEF NewReturns, mainVars, domainVars
<1>2. Busy(t) /\ call[t].op = "new" /\ call[t].at = "end" /\ ptr \in Addresses
  <2>1. At(t, Hooks, {"end"}) /\ call[t].op = "new"
    BY <1>1 DEF At, Hooks
  <2> QED
    BY <2>1, InHook
<1>3. /\ call'[t] = Idle /\ ~Busy(t)'
      /\ \A u \in Threads : u # t => call'[u] = call[u]
      /\ call' \in [Threads -> Call \cup {Idle}]
  BY <1>1 DEF TypeOK, Busy
<1>4. ptr \in DOMAIN heap /\ call[t].domain = heap[ptr]
  BY <1>2 DEF OneHolder
<1>5. \A u \in Threads : Busy(u)' => u # t /\ Busy(u) /\ call'[u] = call[u]
  BY <1>3 DEF Busy
<1>6. \A u \in Threads : Busy(u)' => call[u].ptr # ptr
  BY <1>2, <1>5 DEF OneHolder
<1> HIDE DEF ptr
<1>7. TypeOK'
  BY <1>1, <1>3, <1>4 DEF TypeOK
<1>8. Lifecycle'
  BY <1>1, <1>3, <1>5 DEF Lifecycle
<1>9. OneHolder'
  BY <1>1, <1>5, <1>6 DEF OneHolder
<1>10. NothingEarlier'
  BY <1>1 DEF NothingEarlier
<1>11. Ledger'
  BY <1>1, <1>5 DEF Ledger
<1>12. LiveBlocksTraced'
  <2>1. stage = "running" =>
            /\ ptr \in traced[AllPool]
            /\ \A d \in MemoryDomain : ptr \in traced[d] <=> heap[ptr] = d
    BY <1>2, <1>4 DEF Ledger, ToldNamed, ToldPlain, ptr
  <2> QED
    BY <1>1, <2>1 DEF LiveBlocksTraced
<1>13. TraceNeverFaults'
  BY <1>1 DEF TraceNeverFaults
<1> QED
  BY <1>7, <1>8, <1>9, <1>10, <1>11, <1>12, <1>13

(* The address that is freed is known to no pool.                          *)
LEMMA DeleteReturnsInv ==
    ASSUME IInv, NEW t \in Threads, DeleteReturns(t)
    PROVE  IInv'
<1> USE DEF IInv
<1> DEFINE ptr == call[t].ptr
<1>1. /\ At(t, {"delete"}, {"end"})
      /\ heap' = [p \in DOMAIN heap \ {ptr} |-> heap[p]]
      /\ early' = early \ {ptr}
      /\ call' = [call EXCEPT ![t] = Idle]
      /\ UNCHANGED <<stage, g_tracyActive, s_isProfilerStarted, s_profilerData>>
      /\ UNCHANGED <<g_memoryDomainStack, scopes, owned, traced, fault>>
  BY DEF DeleteReturns, mainVars, domainVars
<1>2. Busy(t) /\ call[t].op = "delete" /\ call[t].at = "end" /\ ptr \in Addresses
  <2>1. At(t, Hooks, {"end"}) /\ call[t].op = "delete"
    BY <1>1 DEF At, Hooks
  <2> QED
    BY <2>1, InHook
<1>3. /\ call'[t] = Idle /\ ~Busy(t)'
      /\ \A u \in Threads : u # t => call'[u] = call[u]
      /\ call' \in [Threads -> Call \cup {Idle}]
  BY <1>1 DEF TypeOK, Busy
<1>4. ptr \in DOMAIN heap /\ ptr \notin owned
  BY <1>2 DEF OneHolder
<1>5. \A u \in Threads : Busy(u)' => u # t /\ Busy(u) /\ call'[u] = call[u]
  BY <1>3 DEF Busy
<1>6. \A u \in Threads : Busy(u)' => call[u].ptr # ptr
  BY <1>2, <1>5 DEF OneHolder
<1>7. stage = "running" => \A p \in Pools : ptr \notin traced[p]
  BY <1>2 DEF Ledger, ToldNamed, ToldPlain, Pools, MemoryDomain
<1> HIDE DEF ptr
<1>8. DOMAIN heap' = DOMAIN heap \ {ptr} /\ \A p \in DOMAIN heap' : heap'[p] = heap[p]
  BY <1>1
<1>9. TypeOK'
  BY <1>1, <1>3, <1>4, <1>8 DEF TypeOK
<1>10. Lifecycle'
  BY <1>1, <1>3, <1>5 DEF Lifecycle
<1>11. OneHolder'
  BY <1>1, <1>5, <1>6, <1>8 DEF OneHolder
<1>12. NothingEarlier'
  BY <1>1, <1>8 DEF NothingEarlier
<1>13. Ledger'
  BY <1>1, <1>5, <1>7, <1>8 DEF Ledger
<1>14. LiveBlocksTraced'
  BY <1>1, <1>4, <1>8 DEF LiveBlocksTraced, TypeOK
<1>15. TraceNeverFaults'
  BY <1>1 DEF TraceNeverFaults
<1> QED
  BY <1>9, <1>10, <1>11, <1>12, <1>13, <1>14, <1>15

(* The domain stack of a thread concerns no block that exists.             *)
LEMMA DomainInv ==
    ASSUME IInv, NEW t \in Threads, PushMemoryDomain(t) \/ PopMemoryDomain(t)
    PROVE  IInv'
<1> USE DEF IInv
<1>1. /\ UNCHANGED <<stage, g_tracyActive, s_isProfilerStarted, s_profilerData>>
      /\ UNCHANGED <<heap, owned, early, call, traced, fault>>
  BY DEF PushMemoryDomain, PopMemoryDomain, mainVars, blockVars
<1>2. /\ g_memoryDomainStack' \in [Threads -> Seq(Domains)]
      /\ scopes' \in [Threads -> Seq(PushedDomains)]
  <2>1. /\ g_memoryDomainStack \in [Threads -> Seq(Domains)]
        /\ scopes \in [Threads -> Seq(PushedDomains)]
    BY DEF TypeOK
  <2>2. CASE PushMemoryDomain(t)
    <3>1. PICK id \in PushedDomains :
            /\ g_memoryDomainStack' =
                    IF id = Default THEN g_memoryDomainStack
                    ELSE [g_memoryDomainStack EXCEPT ![t] = Append(@, id)]
            /\ scopes' = [scopes EXCEPT ![t] = Append(@, id)]
      BY <2>2 DEF PushMemoryDomain
    <3>2. id # Default => id \in Domains
      BY DomainsAssumption
    <3> QED
      BY <2>1, <3>1, <3>2
  <2>3. CASE PopMemoryDomain(t)
    <3>1. \A S : \A s \in Seq(S) : s # <<>> => Front(s) \in Seq(S)
      BY DEF Front
    <3> QED
      BY <2>1, <2>3, <3>1 DEF PopMemoryDomain
  <2> QED
    BY <2>2, <2>3
<1>3. TypeOK'
  BY <1>1, <1>2 DEF TypeOK
<1>4. /\ Lifecycle' /\ OneHolder' /\ NothingEarlier'
      /\ Ledger' /\ LiveBlocksTraced' /\ TraceNeverFaults'
  BY <1>1 DEF Lifecycle, OneHolder, NothingEarlier, Ledger, LiveBlocksTraced, TraceNeverFaults, Busy
<1> QED
  BY <1>3, <1>4

(* main moves on only between two hooks of its own.  Tracing begins with   *)
(* no hook running and no block but early ones, and after it has ended     *)
(* nothing is said of the pools.                                           *)
LEMMA MainInv ==
    ASSUME IInv, CreateProfiler \/ StartProfiler \/ SetTracyActive
                 \/ StopProfiler \/ DestroyProfiler \/ Exit
    PROVE  IInv'
<1> USE DEF IInv
<1>1. UNCHANGED <<g_memoryDomainStack, scopes, heap, owned, early, call, traced, fault>>
  BY DEF CreateProfiler, StartProfiler, SetTracyActive, StopProfiler, DestroyProfiler, Exit,
         domainVars, blockVars
<1>2. /\ stage' \in Stages
      /\ stage' = "starting" => stage = "static"
      /\ stage' = "started" => stage = "starting"
      /\ stage' = "running" => stage = "started"
      /\ stage' # "static"
      /\ g_tracyActive' <=> stage' \in {"running", "stopping", "stopped", "exited"}
      /\ s_isProfilerStarted' <=> stage' \in {"started", "running"}
      /\ s_profilerData' <=> stage' \in {"starting", "started", "running", "stopping"}
      /\ g_tracyActive' \in BOOLEAN /\ s_isProfilerStarted' \in BOOLEAN /\ s_profilerData' \in BOOLEAN
  <2>1. CASE CreateProfiler
    BY <2>1 DEF CreateProfiler, MainAt, Lifecycle, TypeOK, Stages
  <2>2. CASE StartProfiler
    BY <2>2 DEF StartProfiler, MainAt, Lifecycle, TypeOK, Stages
  <2>3. CASE SetTracyActive
    BY <2>3 DEF SetTracyActive, MainAt, Lifecycle, TypeOK, Stages
  <2>4. CASE StopProfiler
    BY <2>4 DEF StopProfiler, MainAt, Lifecycle, TypeOK, Stages
  <2>5. CASE DestroyProfiler
    BY <2>5 DEF DestroyProfiler, MainAt, Lifecycle, TypeOK, Stages
  <2>6. CASE Exit
    BY <2>6 DEF Exit, MainAt, Lifecycle, TypeOK, Stages
  <2> QED
    BY <2>1, <2>2, <2>3, <2>4, <2>5, <2>6
<1>3. \A t \in Threads : ~Busy(t)
  <2>1. call[Main] = Idle /\ (stage = "running" => \A t \in Threads : call[t] = Idle)
    BY DEF CreateProfiler, StartProfiler, SetTracyActive, StopProfiler, DestroyProfiler, Exit, MainAt
  <2> QED
    BY <2>1 DEF Lifecycle, Busy
<1>4. \A t \in Threads : ~Busy(t)'
  BY <1>1, <1>3 DEF Busy
<1>5. TypeOK'
  BY <1>1, <1>2 DEF TypeOK
<1>6. Lifecycle'
  BY <1>2, <1>4 DEF Lifecycle, Busy
<1>7. OneHolder'
  BY <1>4 DEF OneHolder
<1>8. NothingEarlier'
  BY <1>1, <1>2 DEF NothingEarlier
<1>9. Ledger' /\ LiveBlocksTraced'
  <2>1. stage' = "running" => early = DOMAIN heap /\ \A p \in Pools : traced[p] = {}
    BY <1>2 DEF NothingEarlier
  <2>2. owned \subseteq DOMAIN heap
    BY DEF TypeOK
  <2> QED
    BY <1>1, <1>4, <2>1, <2>2 DEF Ledger, LiveBlocksTraced
<1>10. TraceNeverFaults'
  BY <1>1 DEF TraceNeverFaults
<1> QED
  BY <1>5, <1>6, <1>7, <1>8, <1>9, <1>10

(* IInv is inductive.                                                      *)
LEMMA StepInv == IInv /\ [Next]_vars => IInv'
<1> SUFFICES ASSUME IInv, [Next]_vars PROVE IInv'
  OBVIOUS
<1>1. ASSUME NEW t \in Threads, Hook(t) PROVE IInv'
  BY <1>1, NewBlockInv, DeleteBlockInv, FlagsInv, TraceInv, NewReturnsInv, DeleteReturnsInv DEF Hook
<1>2. ASSUME NEW t \in Threads, PushMemoryDomain(t) \/ PopMemoryDomain(t) PROVE IInv'
  BY <1>2, DomainInv
<1>3. CASE CreateProfiler \/ StartProfiler \/ SetTracyActive
           \/ StopProfiler \/ DestroyProfiler \/ Exit
  BY <1>3, MainInv
<1>4. CASE UNCHANGED vars
  BY <1>4 DEF vars, mainVars, domainVars, blockVars, IInv, TypeOK, Lifecycle, OneHolder,
              NothingEarlier, Ledger, LiveBlocksTraced, TraceNeverFaults, Busy
<1> QED
  BY <1>1, <1>2, <1>3, <1>4 DEF Next, Exited

(***************************************************************************)
(* Every variable keeps its type, for any heap and any number of threads:  *)
(* in particular a block the program owns, or a block from before tracing, *)
(* is one malloc handed out and free has not had back.                     *)
(***************************************************************************)
THEOREM HooksTypeCorrect == Spec => []TypeOK
<1>1. IInv => TypeOK
  BY DEF IInv
<1> QED
  BY <1>1, InitInv, StepInv, PTL DEF Spec

(***************************************************************************)
(* However many threads allocate and delete, whatever the size of the heap *)
(* and however fast malloc reuses an address, the memory events are ones   *)
(* the server accepts: no pool is told of a block twice, nor of the end of *)
(* a block it does not know.                                               *)
(***************************************************************************)
THEOREM TraceIsSound == Spec => []TraceNeverFaults
<1>1. IInv => TraceNeverFaults
  BY DEF IInv
<1> QED
  BY <1>1, InitInv, StepInv, PTL DEF Spec

(***************************************************************************)
(* While main works, the server's picture of the heap is exact: each block *)
(* the program holds is live in the default pool and in the pool of its    *)
(* own domain, whichever thread allocated it.                              *)
(***************************************************************************)
THEOREM TraceIsComplete == Spec => []LiveBlocksTraced
<1>1. IInv => LiveBlocksTraced
  BY DEF IInv
<1> QED
  BY <1>1, InitInv, StepInv, PTL DEF Spec

(***************************************************************************)
(* Tracy is entered only while its data exists.                            *)
(***************************************************************************)
THEOREM TracyIsAlive == Spec => []TracyUsedWhileAlive
<1>1. IInv => TracyUsedWhileAlive
  <2> SUFFICES ASSUME IInv, NEW t \in Threads, At(t, Hooks, {"named", "plain"})
               PROVE  s_profilerData
    BY DEF TracyUsedWhileAlive
  <2>1. Busy(t) /\ call[t].at \in {"named", "plain"}
    BY InHook DEF IInv
  <2> QED
    BY <2>1 DEF IInv, Lifecycle
<1> QED
  BY <1>1, InitInv, StepInv, PTL DEF Spec

(***************************************************************************)
(* If no caller pushes Default, domains nest on every thread: the stack is *)
(* exactly the scopes that are open.  (With Default it is not: the run     *)
(* memory_domains shows the step that breaks it.)                          *)
(***************************************************************************)
THEOREM NestingWithoutDefault ==
    ASSUME Default \notin PushedDomains
    PROVE  Spec => []DomainsNest
<1> DEFINE Same == g_memoryDomainStack = scopes /\ TypeOK
<1>1. Init => Same
  BY InitInv DEF IInv, Init
<1>2. Same /\ IInv /\ [Next]_vars => Same'
  <2> SUFFICES ASSUME Same, IInv, [Next]_vars PROVE Same'
    OBVIOUS
  <2>1. TypeOK'
    BY StepInv DEF IInv
  <2>2. ASSUME NEW t \in Threads, PushMemoryDomain(t) PROVE g_memoryDomainStack' = scopes'
    BY <2>2 DEF PushMemoryDomain
  <2>3. ASSUME NEW t \in Threads, PopMemoryDomain(t) PROVE g_memoryDomainStack' = scopes'
    BY <2>3 DEF PopMemoryDomain
  <2>4. ASSUME NEW t \in Threads, Hook(t) PROVE g_memoryDomainStack' = scopes'
    BY <2>4 DEF Hook, NewBlock, DeleteBlock, LoadTracyActive, AskNamed, TraceNamed, AskPlain,
                TracePlain, NewReturns, DeleteReturns, domainVars
  <2>5. CASE \/ CreateProfiler \/ StartProfiler \/ SetTracyActive
             \/ StopProfiler \/ DestroyProfiler \/ Exit
    BY <2>1, <2>5 DEF CreateProfiler, StartProfiler, SetTracyActive, StopProfiler, DestroyProfiler, Exit,
                domainVars
  <2>6. CASE UNCHANGED vars
    BY <2>1, <2>6 DEF vars, domainVars
  <2> QED
    BY <2>1, <2>2, <2>3, <2>4, <2>5, <2>6 DEF Next, Exited
<1>3. Same => DomainsNest
  BY DEF DomainsNest, GetCurrentDomain
<1> QED
  BY <1>1, <1>2, <1>3, InitInv, StepInv, PTL DEF Spec
=============================================================================
