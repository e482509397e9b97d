---------------------------- MODULE MemoryHooks ----------------------------
(***************************************************************************)
(* Profiler/Profiler.cpp: the replacement operator new and delete, which   *)
(* report every block to Tracy twice, once in the pool named after its     *)
(* memory domain and once in the default pool, and the thread-local stack  *)
(* of memory domains.  The hooks run on any thread, against the start and  *)
(* the shutdown of the profiler by main.  A step is one access to state    *)
(* that threads share.  The server that receives the events is external.   *)
(***************************************************************************)
EXTENDS Naturals, Sequences, FiniteSets, SequencesExt

CONSTANTS
    Threads,        \* threads that run the hooks
    Main,           \* the one that runs main
    Addresses,      \* addresses malloc may return: a bound
    Domains,        \* members of MemoryDomain but Default
    PushedDomains,  \* the domains callers give to PushMemoryDomain
    Default, AllPool,
    MaxDomainDepth  \* pushes a thread has open at once: a bound below kMaxDomainDepth

ASSUME ThreadsAssumption == Main \in Threads
ASSUME DomainsAssumption ==
    /\ Default \notin Domains /\ AllPool \notin Domains \cup {Default}
    /\ PushedDomains \subseteq Domains \cup {Default}
    /\ MaxDomainDepth \in 0 .. 16

MemoryDomain == Domains \cup {Default}
Pools == MemoryDomain \cup {AllPool}

VARIABLES
    stage,                  \* how far main is
    g_tracyActive,          \* set by SetTracyActive
    s_isProfilerStarted,    \* what IsProfilerStarted returns
    s_profilerData,         \* Tracy's data exists
    g_memoryDomainStack,    \* of each thread
    scopes,                 \* what each thread's callers pushed and have not popped
    heap,                   \* blocks malloc handed out and their header->domain
    owned,                  \* blocks that operator new has returned
    early,                  \* blocks made before tracing was active
    call,                   \* the hook each thread is in: its block, the domain in
                            \* the header of the block, and where the thread is
    traced,                 \* blocks the server believes live in each pool
    fault                   \* the server ended the session

mainVars == <<stage, g_tracyActive, s_isProfilerStarted, s_profilerData>>
domainVars == <<g_memoryDomainStack, scopes>>
blockVars == <<heap, owned, early>>
vars == <<mainVars, domainVars, blockVars, call, traced, fault>>

Idle == [op |-> "none"]
At(t, ops, places) == call[t].op \in ops /\ call[t].at \in places
Goto(t, at) == call' = [call EXCEPT ![t].at = at]

-----------------------------------------------------------------------------
Init ==
    /\ stage = "static"
    /\ g_tracyActive = FALSE /\ s_isProfilerStarted = FALSE /\ s_profilerData = FALSE
    /\ g_memoryDomainStack = [t \in Threads |-> <<>>]
    /\ scopes = [t \in Threads |-> <<>>]
    /\ heap = [ptr \in {} |-> Default]
    /\ owned = {} /\ early = {}
    /\ call = [t \in Threads |-> Idle]
    /\ traced = [p \in Pools |-> {}]
    /\ fault = FALSE

(* Only main runs before the profiler is active.  The other threads belong *)
(* to the Vulkan implementation and end when Cleanup destroys the device   *)
(* and the instance, before ProfilerShutdown.                              *)
Runs(t) ==
    /\ stage # "exited" /\ call[t] = Idle
    /\ t # Main => stage = "running"

-----------------------------------------------------------------------------
(* Domains.                                                                *)
GetCurrentDomain(t) ==
    IF g_memoryDomainStack[t] = <<>> THEN Default ELSE Last(g_memoryDomainStack[t])

PushMemoryDomain(t) ==
    /\ Runs(t) /\ Len(scopes[t]) < MaxDomainDepth
    /\ \E id \in PushedDomains :
        /\ g_memoryDomainStack' =
                IF id = Default THEN g_memoryDomainStack
                ELSE [g_memoryDomainStack EXCEPT ![t] = Append(@, id)]
        /\ scopes' = [scopes EXCEPT ![t] = Append(@, id)]
    /\ UNCHANGED <<mainVars, blockVars, call, traced, fault>>

(* Callers pop what they pushed.                                           *)
(* Mutant: the depth is reset.                                             *)
PopMemoryDomainAll(t) ==
    /\ Runs(t) /\ scopes[t] # <<>>
    /\ g_memoryDomainStack' = [g_memoryDomainStack EXCEPT ![t] = <<>>]
    /\ scopes' = [scopes EXCEPT ![t] = Front(@)]
    /\ UNCHANGED <<mainVars, blockVars, call, traced, fault>>

PopMemoryDomain(t) ==
    /\ Runs(t) /\ scopes[t] # <<>>
    /\ g_memoryDomainStack' =
            [g_memoryDomainStack EXCEPT ![t] = IF @ = <<>> THEN @ ELSE Front(@)]
    /\ scopes' = [scopes EXCEPT ![t] = Front(@)]
    /\ UNCHANGED <<mainVars, blockVars, call, traced, fault>>

-----------------------------------------------------------------------------
(* operator new and delete.                                                *)
NewBlock(t) ==
    /\ Runs(t)
    /\ \E ptr \in Addresses \ DOMAIN heap :
        /\ heap' = [p \in DOMAIN heap \cup {ptr} |->
                        IF p = ptr THEN GetCurrentDomain(t) ELSE heap[p]]
        /\ early' = IF g_tracyActive THEN early ELSE early \cup {ptr}
        /\ call' = [call EXCEPT ![t] = [op |-> "new", ptr |-> ptr, at |-> "active?",
                                        domain |-> GetCurrentDomain(t)]]
    /\ UNCHANGED <<mainVars, domainVars, owned, traced, fault>>

(* Any thread may delete a block.  Blocks from before SetTracyActive(true) *)
(* (those of the static g_DestroyStack) are not deleted while tracing: the *)
(* stack never grows past its first node, and _exit skips its destructor.  *)
(* Mutant: the block is freed before its end is reported.                  *)
DeleteBlockFreeFirst(t) ==
    /\ Runs(t)
    /\ \E ptr \in owned :
        /\ ptr \in early => ~(g_tracyActive /\ s_isProfilerStarted)
        /\ owned' = owned \ {ptr}
        /\ heap' = [p \in DOMAIN heap \ {ptr} |-> heap[p]]
        /\ call' = [call EXCEPT ![t] = [op |-> "delete", ptr |-> ptr, at |-> "active?",
                                        domain |-> heap[ptr]]]
    /\ UNCHANGED <<mainVars, domainVars, early, traced, fault>>

DeleteBlock(t) ==
    /\ Runs(t)
    /\ \E ptr \in owned :
        /\ ptr \in early => ~(g_tracyActive /\ s_isProfilerStarted)
        /\ owned' = owned \ {ptr}
        /\ call' = [call EXCEPT ![t] = [op |-> "delete", ptr |-> ptr, at |-> "active?",
                                        domain |-> heap[ptr]]]
    /\ UNCHANGED <<mainVars, domainVars, heap, early, traced, fault>>

Hooks == {"new", "delete"}

LoadTracyActive(t) ==
    /\ At(t, Hooks, {"active?"})
    /\ Goto(t, IF g_tracyActive THEN "named?" ELSE "end")
    /\ UNCHANGED <<mainVars, domainVars, blockVars, traced, fault>>

(* Each ProfilerTrace macro asks IsProfilerStarted before it calls Tracy.  *)
(* Mutant: it does not.                                                    *)
MayTraceUnasked == TRUE
MayTrace == s_isProfilerStarted

AskNamed(t) ==
    /\ At(t, Hooks, {"named?"})
    /\ Goto(t, IF MayTrace THEN "named" ELSE "plain?")
    /\ UNCHANGED <<mainVars, domainVars, blockVars, traced, fault>>

(* Mutant: only the named pool is told.                                    *)
AskPlainNever(t) ==
    /\ At(t, Hooks, {"plain?"})
    /\ Goto(t, "end")
    /\ UNCHANGED <<mainVars, domainVars, blockVars, traced, fault>>

AskPlain(t) ==
    /\ At(t, Hooks, {"plain?"})
    /\ Goto(t, IF MayTrace THEN "plain" ELSE "end")
    /\ UNCHANGED <<mainVars, domainVars, blockVars, traced, fault>>

(* Profiler::MemAlloc... and MemFree... append to the serial queue under   *)
(* m_serialLock; the server keeps the live blocks of each pool and ends    *)
(* the session on a block made twice or freed unknown.                     *)
Report(t, pool) ==
    LET ptr == call[t].ptr
    IN  IF call[t].op = "new"
        THEN /\ traced' = [traced EXCEPT ![pool] = @ \cup {ptr}]
             /\ fault' = (fault \/ ptr \in traced[pool])
        ELSE /\ traced' = [traced EXCEPT ![pool] = @ \ {ptr}]
             /\ fault' = (fault \/ ptr \notin traced[pool])

TraceNamed(t) ==
    /\ At(t, Hooks, {"named"})
    /\ Report(t, call[t].domain)
    /\ Goto(t, "plain?")
    /\ UNCHANGED <<mainVars, domainVars, blockVars>>

TracePlain(t) ==
    /\ At(t, Hooks, {"plain"})
    /\ Report(t, AllPool)
    /\ Goto(t, "end")
    /\ UNCHANGED <<mainVars, domainVars, blockVars>>

NewReturns(t) ==
    /\ At(t, {"new"}, {"end"})
    /\ owned' = owned \cup {call[t].ptr}
    /\ call' = [call EXCEPT ![t] = Idle]
    /\ UNCHANGED <<mainVars, domainVars, heap, early, traced, fault>>

DeleteReturns(t) ==
    /\ At(t, {"delete"}, {"end"})
    /\ heap' = [p \in DOMAIN heap \ {call[t].ptr} |-> heap[p]]
    /\ early' = early \ {call[t].ptr}
    /\ call' = [call EXCEPT ![t] = Idle]
    /\ UNCHANGED <<mainVars, domainVars, owned, traced, fault>>

-----------------------------------------------------------------------------
(* main, between the hooks it calls itself.                                *)
MainAt(from, to) == stage = from /\ call[Main] = Idle /\ stage' = to

CreateProfiler ==       \* StartupProfiler, up to the flag
    /\ MainAt("static", "starting")
    /\ s_profilerData' = TRUE
    /\ UNCHANGED <<g_tracyActive, s_isProfilerStarted, domainVars, blockVars, call, traced, fault>>

StartProfiler ==
    /\ MainAt("starting", "started")
    /\ s_isProfilerStarted' = TRUE
    /\ UNCHANGED <<g_tracyActive, s_profilerData, domainVars, blockVars, call, traced, fault>>

SetTracyActive ==
    /\ MainAt("started", "running")
    /\ g_tracyActive' = TRUE
    /\ UNCHANGED <<s_isProfilerStarted, s_profilerData, domainVars, blockVars, call, traced, fault>>

StopProfiler ==         \* ShutdownProfiler, its first statement
    /\ MainAt("running", "stopping")
    /\ \A t \in Threads : call[t] = Idle     \* the others have ended
    /\ s_isProfilerStarted' = FALSE
    /\ UNCHANGED <<g_tracyActive, s_profilerData, domainVars, blockVars, call, traced, fault>>

DestroyProfiler ==
    /\ MainAt("stopping", "stopped")
    /\ s_profilerData' = FALSE
    /\ UNCHANGED <<g_tracyActive, s_isProfilerStarted, domainVars, blockVars, call, traced, fault>>

Exit ==
    /\ MainAt("stopped", "exited")
    /\ UNCHANGED <<g_tracyActive, s_isProfilerStarted, s_profilerData, domainVars, blockVars, call,
                   traced, fault>>

Exited == stage = "exited" /\ UNCHANGED vars

Hook(t) ==
    \/ NewBlock(t) \/ DeleteBlock(t) \/ LoadTracyActive(t) \/ AskNamed(t) \/ TraceNamed(t)
    \/ AskPlain(t) \/ TracePlain(t) \/ NewReturns(t) \/ DeleteReturns(t)

Next ==
    \/ \E t \in Threads : Hook(t) \/ PushMemoryDomain(t) \/ PopMemoryDomain(t)
    \/ CreateProfiler \/ StartProfiler \/ SetTracyActive
    \/ StopProfiler \/ DestroyProfiler \/ Exit \/ Exited

Spec == Init /\ [][Next]_vars

-----------------------------------------------------------------------------
Stages == {"static", "starting", "started", "running", "stopping", "stopped", "exited"}
Places == {"active?", "named?", "named", "plain?", "plain", "end"}
Call == [op : Hooks, ptr : Addresses, domain : MemoryDomain, at : Places]

TypeOK ==
    /\ stage \in Stages
    /\ g_tracyActive \in BOOLEAN /\ s_isProfilerStarted \in BOOLEAN /\ s_profilerData \in BOOLEAN
    /\ g_memoryDomainStack \in [Threads -> Seq(Domains)]
    /\ scopes \in [Threads -> Seq(PushedDomains)]
    /\ DOMAIN heap \subseteq Addresses
    /\ \A ptr \in DOMAIN heap : heap[ptr] \in MemoryDomain
    /\ owned \subseteq DOMAIN heap /\ early \subseteq DOMAIN heap
    /\ call \in [Threads -> Call \cup {Idle}]
    /\ traced \in [Pools -> SUBSET Addresses]
    /\ fault \in BOOLEAN

(* "Each tracked memory-free event must also have a corresponding memory   *)
(* allocation event" (tracy/manual/tracy.md:1344): although blocks pass    *)
(* between threads and malloc reuses addresses at once, no pool is told of *)
(* a block twice or of the end of a block it does not know.                *)
TraceNeverFaults == ~fault

(* "Only call into Tracy when the profiler is known to be alive"           *)
(* (Profiler.cpp:82): a hook of main before StartupProfiler or after       *)
(* ShutdownProfiler never gets there, though g_tracyActive is never reset. *)
TracyUsedWhileAlive == \A t \in Threads : At(t, Hooks, {"named", "plain"}) => s_profilerData

(* While main works, the server has each block the program holds in the    *)
(* default pool and in the pool of the domain in its header, and no other. *)
LiveBlocksTraced ==
    stage = "running" =>
        \A ptr \in owned \ early :
            /\ ptr \in traced[AllPool]
            /\ \A d \in MemoryDomain : ptr \in traced[d] <=> heap[ptr] = d

(* "proper nesting support" (Profiler.cpp:32): the current domain is the   *)
(* one pushed by the innermost scope still open, on each thread.           *)
DomainsNest ==
    \A t \in Threads :
        GetCurrentDomain(t) = IF scopes[t] = <<>> THEN Default ELSE Last(scopes[t])
=============================================================================
