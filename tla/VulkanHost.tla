----------------------------- MODULE VulkanHost -----------------------------
(***************************************************************************)
(* src/main.cpp: the host program and the GPU queue it submits to.  Each   *)
(* function of main.cpp is the sequence of the Vulkan calls it makes, in   *)
(* order; main is their concatenation, and Cleanup runs the lambdas of     *)
(* g_DestroyStack.  A call is one step of the host, which may throw a      *)
(* vk::SystemError that nothing catches, except in the calls of VkCtx,     *)
(* whose failures are ignored; the GPU executes the commands of the        *)
(* submitted command buffers, one a step, in parallel with the host.       *)
(* Both builds are covered: `tracy` says whether PROFILER_ENABLE is 1.     *)
(***************************************************************************)
EXTENDS Naturals, Sequences, FiniteSets, SequencesExt

CONSTANT Queries        \* QueryCount, of Tracy's pool, and a bound: 65536 in the code

ASSUME QueriesAssumption == \E n \in 2 .. 1000 : Queries = 0 .. (n - 1)

VARIABLES
    tracy,          \* the build: Tracy is compiled in
    status,         \* "running", "shutdown" in ProfilerShutdown, "finished" by
                    \* _exit(0), or "aborted"
    viewer,         \* a viewer is connected to the program's Tracy client
    pc,             \* calls of main made so far
    g_DestroyStack, \* names of the functions whose lambdas are pushed
    step,           \* destroy calls made so far by the lambda on top
    live,           \* Vulkan objects that exist
    buffers,        \* contents of InBufferMemory and OutBufferMemory
    printed,        \* what the host read from them and printed
    recording,      \* the commands recorded into each command buffer
    state,          \* the Vulkan lifecycle state of each command buffer
    gpuQueue,       \* submitted batches that have not completed
    fence,          \* Ctx.Fence
    query,          \* state of the timestamp queries on the GPU
    m_queryCount,   \* VkCtx: the size of its query pool
    m_head, m_tail, \* VkCtx: queries handed out and queries collected
    ignored,        \* ghost: a call of VkCtx failed, and nothing came of it
    reported        \* queries whose time Collect sent to the profiler

hostVars == <<pc, g_DestroyStack, step, live, printed>>
gpuVars  == <<gpuQueue, fence, query>>
cmdVars  == <<recording, state>>
poolVars == <<m_queryCount, ignored>>
ctxVars  == <<m_head, m_tail, reported, poolVars>>
build    == <<tracy, viewer>>
vars == <<build, status, hostVars, buffers, cmdVars, gpuVars, ctxVars>>

-----------------------------------------------------------------------------
(* The objects of TContext and of the VkCtx, and the object whose          *)
(* destruction must come after theirs.                                     *)
CmdBuffers == {"CmdBuffer", "TracyCmdBuffer"}
PoolOf == [CmdBuffer |-> "CommandPool", TracyCmdBuffer |-> "TracyCommandPool",
           DescriptorSet |-> "DescriptorPool"]
DeviceObjects ==
    {"TracyCommandPool", "QueryPool", "InBuffer", "OutBuffer", "ParamsBuffer", "InBufferMemory",
     "OutBufferMemory", "ParamsBufferMemory", "ShaderModule", "DescriptorSetLayout",
     "PipelineLayout", "PipelineCache", "ComputePipeline", "DescriptorPool", "CommandPool", "Fence"}
Objects == {"Instance", "Device"} \cup DeviceObjects \cup DOMAIN PoolOf

Owner(o) == CASE o = "Instance"         -> {}
              [] o = "Device"           -> {"Instance"}
              [] o \in DeviceObjects    -> {"Device"}
              [] o \in DOMAIN PoolOf    -> {PoolOf[o]}

(* The objects a submitted command buffer uses until it completes.         *)
UsedBy(c) ==
    {c} \cup (IF tracy THEN {"QueryPool"} ELSE {})
        \cup (IF c = "TracyCmdBuffer" THEN {}
              ELSE {"ComputePipeline", "PipelineLayout", "DescriptorSet", "InBuffer", "OutBuffer",
                    "ParamsBuffer", "InBufferMemory", "OutBufferMemory", "ParamsBufferMemory"})

(* Pools created with eResetCommandBuffer: Tracy's (lines 168-170) but not *)
(* the compute one (line 381).                                             *)
(* Mutant: Tracy's pool is created like the compute one.                   *)
NoResettablePools == {}
ResettablePools == {"TracyCommandPool"}

-----------------------------------------------------------------------------
(* Vulkan calls.  `needs` are the objects whose handles the call is given; *)
(* calls of the C API, made by VkCtx, ignore failures and never throw.     *)
Call(op, obj, arg, needs) ==
    [op |-> op, obj |-> obj, arg |-> arg, needs |-> needs, throws |-> TRUE, traced |-> FALSE]
Raw(calls) == [i \in DOMAIN calls |-> [calls[i] EXCEPT !.throws = FALSE]]
Infallible(call) == [call EXCEPT !.throws = FALSE]

Create(o, uses)     == Call("create", o, {}, uses \cup Owner(o))
Use(o, uses)        == Call("use", o, {}, {o} \cup uses)
Fill(m, what)       == Call("fill", m, what, {m})
ReadBack(m)         == Call("read", m, {}, {m})
Push(f)             == Infallible(Call("push", f, {}, {}))
Begin(c)            == Call("begin", c, {}, {c})
End(c)              == Call("end", c, {}, {c})
Record(c, op, qs)   == Infallible(Call("record", c, [op |-> op, qs |-> qs], {c}))
ZoneStamp(c)        == Infallible(Call("zone", c, {}, {c, "QueryPool"}))
Submit(c, fences)   == Call("submit", c, fences, {c} \cup fences)
WaitForFences       == Call("waitFence", "Fence", {}, {"Fence"})
WaitIdle            == Call("waitIdle", "Device", {}, {"Device"})
AwaitQuery(q)       == Call("waitQuery", "QueryPool", q, {"QueryPool"})
ProfilerVkCollect(c) == Infallible(Call("collect", c, {}, {c, "QueryPool"}))

(* Calls that are compiled only with PROFILER_ENABLE.                      *)
IfTracy(calls) == [i \in DOMAIN calls |-> [calls[i] EXCEPT !.traced = TRUE]]

CreateInstance == <<Create("Instance", {}), Push("CreateInstance")>>

(* An empty list of devices is one of the ways the first call fails; a     *)
(* missing compute family only shows when createDevice rejects its index.  *)
SelectPhysicalDevice == <<Use("Instance", {})>>

CreateDevice == <<Create("Device", {}), Push("CreateDevice")>>

(* The constructor of VkCtx for a device without calibrated timestamps:    *)
(* reset every query of the pool, time query 0, and reset it again.  The   *)
(* pool may be smaller than Queries: RecordCmd then leaves the rest out.   *)
Pool == 0 .. (m_queryCount - 1)
RunOnce(command) ==
    LET T == "TracyCmdBuffer"
    IN  <<Begin(T), Record(T, command.op, command.qs), End(T), Submit(T, {}), WaitIdle>>
ResetQueries(qs) == RunOnce([op |-> "reset", qs |-> qs])
TimeQuery(q) == RunOnce([op |-> "timestamp", qs |-> {q}]) \o <<AwaitQuery(q)>>

(* Mutant: query 0 stays written.                                          *)
VkCtxNoLastReset == Raw(<<Create("QueryPool", {})>> \o ResetQueries(Queries) \o TimeQuery(0))
VkCtx == Raw(<<Create("QueryPool", {})>> \o ResetQueries(Queries) \o TimeQuery(0)
             \o ResetQueries({0}))

CreateTracyVulkanContext ==
    <<Create("TracyCommandPool", {}), Create("TracyCmdBuffer", {})>>
    \o IfTracy(VkCtx)
    \o <<Push("CreateTracyVulkanContext")>>

CreateBuffers ==
    <<Create("InBuffer", {}), Create("OutBuffer", {}), Create("ParamsBuffer", {}),
      Create("InBufferMemory", {"InBuffer"}), Create("OutBufferMemory", {"OutBuffer"}),
      Create("ParamsBufferMemory", {"ParamsBuffer"}),
      Fill("InBufferMemory", "keys"), Fill("ParamsBufferMemory", "count"),
      Use("InBuffer", {"InBufferMemory"}), Use("OutBuffer", {"OutBufferMemory"}),
      Use("ParamsBuffer", {"ParamsBufferMemory"}), Push("CreateBuffers")>>

CreatePipeline ==
    <<Create("ShaderModule", {}), Create("DescriptorSetLayout", {}),
      Create("PipelineLayout", {"DescriptorSetLayout"}), Create("PipelineCache", {}),
      Create("ComputePipeline", {"ShaderModule", "PipelineLayout", "PipelineCache"}),
      Push("CreatePipeline")>>

CreateDescriptorSets ==
    <<Create("DescriptorPool", {}), Create("DescriptorSet", {"DescriptorSetLayout"}),
      Infallible(Use("DescriptorSet", {"InBuffer", "OutBuffer", "ParamsBuffer"})),
      Push("CreateDescriptorSets")>>

Submission(fences, afterSubmit, afterCollect) ==
    LET C == "CmdBuffer"  T == "TracyCmdBuffer"
    IN  <<Create("CommandPool", {}), Create(C, {}), Begin(C)>>
        \o IfTracy(<<ZoneStamp(C)>>)
        \o <<Record(C, "dispatch", {})>>
        \o IfTracy(<<ZoneStamp(C)>>)
        \o <<End(C), Create("Fence", {}), Submit(C, fences)>> \o afterSubmit \o <<Begin(T)>>
        \o IfTracy(<<ProfilerVkCollect(T)>>)
        \o <<End(T), Submit(T, {})>> \o afterCollect
        \o <<ReadBack("InBufferMemory"), ReadBack("OutBufferMemory"), Push("SubmitWork")>>

(* Mutants: a wait is missing, or both; the fence is not given to submit.  *)
SubmitWorkNoFenceWait == Submission({"Fence"}, <<>>, <<WaitIdle>>)
SubmitWorkNoIdleWait  == Submission({"Fence"}, <<WaitForFences>>, <<>>)
SubmitWorkNoWaits     == Submission({"Fence"}, <<>>, <<>>)
SubmitWorkNoFence     == Submission({}, <<WaitForFences>>, <<WaitIdle>>)
SubmitWork            == Submission({"Fence"}, <<WaitForFences>>, <<WaitIdle>>)

(* Mutant: the descriptor set is allocated before its layout exists.       *)
mainDescriptorsFirst ==
    CreateInstance \o SelectPhysicalDevice \o CreateDevice \o CreateTracyVulkanContext
    \o CreateBuffers \o CreateDescriptorSets \o CreatePipeline \o SubmitWork
main == CreateInstance \o SelectPhysicalDevice \o CreateDevice \o CreateTracyVulkanContext
        \o CreateBuffers \o CreatePipeline \o CreateDescriptorSets \o SubmitWork
mainUntraced == SelectSeq(main, LAMBDA call : ~call.traced)
Program == IF tracy THEN main ELSE mainUntraced

(* The lambda each function pushes: the objects it destroys, in order.     *)
Destroy(o) == Infallible(Call("destroy", o, {}, {o} \cup Owner(o)))
DestroyAll(os) == [i \in DOMAIN os |-> Destroy(os[i])]
ResetPool(p) == Call("resetPool", p, {}, {p})

(* Mutant: the shader module is forgotten.                                 *)
PipelineLambdaNoModule ==
    DestroyAll(<<"ComputePipeline", "PipelineCache", "PipelineLayout", "DescriptorSetLayout">>)
PipelineLambda ==
    DestroyAll(<<"ComputePipeline", "PipelineCache", "PipelineLayout", "DescriptorSetLayout",
                 "ShaderModule">>)

Lambda ==
    [CreateInstance |-> DestroyAll(<<"Instance">>),
     CreateDevice |-> DestroyAll(<<"Device">>),
     CreateTracyVulkanContext |->
        IfTracy(<<Destroy("QueryPool")>>) \o <<Destroy("TracyCommandPool")>>,
     CreateBuffers |->
        DestroyAll(<<"InBufferMemory", "OutBufferMemory", "ParamsBufferMemory",
                     "InBuffer", "OutBuffer", "ParamsBuffer">>),
     CreatePipeline |-> PipelineLambda,
     CreateDescriptorSets |-> DestroyAll(<<"DescriptorPool">>),
     SubmitWork |-> <<Destroy("Fence"), ResetPool("CommandPool"), Destroy("CommandPool")>>]

-----------------------------------------------------------------------------
Init ==
    /\ tracy \in BOOLEAN
    /\ status = "running" /\ viewer = FALSE
    /\ pc = 0 /\ g_DestroyStack = <<>> /\ step = 0
    /\ live = {}
    /\ buffers = [m \in {"InBufferMemory", "OutBufferMemory", "ParamsBufferMemory"} |-> "junk"]
    /\ printed = [m \in {"InBufferMemory", "OutBufferMemory"} |-> "nothing"]
    /\ recording = [c \in CmdBuffers |-> <<>>]
    /\ state = [c \in CmdBuffers |-> "none"]
    /\ gpuQueue = <<>> /\ fence = FALSE
    /\ query = [q \in Queries |-> "junk"]
    /\ m_queryCount = Cardinality(Queries) /\ ignored = FALSE
    /\ m_head = 0 /\ m_tail = 0 /\ reported = <<>>

(* The call of main that is made next, and the destroy call of the lambda  *)
(* on top of the stack that Cleanup makes next.                            *)
Alive     == status \in {"running", "shutdown"}
InMain    == status = "running" /\ pc < Len(Program)
Top       == SelectSeq(Lambda[Last(g_DestroyStack)], LAMBDA call : call.traced => tracy)
InCleanup == status = "running" /\ pc = Len(Program) /\ g_DestroyStack # <<>> /\ step < Len(Top)
NextCall  == IF InMain THEN Program[pc + 1] ELSE Top[step + 1]

Advance(op) == InMain /\ NextCall.op = op /\ pc' = pc + 1
ToState(c, to) == state' = [state EXCEPT ![c] = to]

(* A driver that has no room for FewestQueries has room for none: a bound. *)
FewestQueries == 2
CreateObject ==
    /\ Advance("create")
    /\ NextCall.obj = "QueryPool" => m_queryCount >= FewestQueries
    /\ LET o == NextCall.obj
       IN  /\ live' = live \cup {o}
           /\ state' = IF o \in CmdBuffers THEN [state EXCEPT ![o] = "initial"] ELSE state
    /\ UNCHANGED <<build, status, g_DestroyStack, step, buffers, printed, recording, gpuVars, ctxVars>>

UseObject ==
    /\ Advance("use")
    /\ UNCHANGED <<build, status, g_DestroyStack, step, live, buffers, printed, cmdVars, gpuVars,
                   ctxVars>>

FillMemory ==
    /\ Advance("fill")
    /\ buffers' = [buffers EXCEPT ![NextCall.obj] = NextCall.arg]
    /\ UNCHANGED <<build, status, g_DestroyStack, step, live, printed, cmdVars, gpuVars, ctxVars>>

ReadMemory ==
    /\ Advance("read")
    /\ printed' = [printed EXCEPT ![NextCall.obj] = buffers[NextCall.obj]]
    /\ UNCHANGED <<build, status, g_DestroyStack, step, live, buffers, cmdVars, gpuVars, ctxVars>>

(* Mutant: the lambdas are kept in a queue.                                *)
PushLambdaAtBottom ==
    /\ Advance("push")
    /\ g_DestroyStack' = <<NextCall.obj>> \o g_DestroyStack
    /\ UNCHANGED <<build, status, step, live, buffers, printed, cmdVars, gpuVars, ctxVars>>

PushLambda ==
    /\ Advance("push")
    /\ g_DestroyStack' = Append(g_DestroyStack, NextCall.obj)
    /\ UNCHANGED <<build, status, step, live, buffers, printed, cmdVars, gpuVars, ctxVars>>

BeginCmd ==
    /\ Advance("begin")
    /\ ToState(NextCall.obj, "recording")
    /\ recording' = [recording EXCEPT ![NextCall.obj] = <<>>]
    /\ UNCHANGED <<build, status, g_DestroyStack, step, live, buffers, printed, gpuVars, ctxVars>>

EndCmd ==
    /\ Advance("end")
    /\ ToState(NextCall.obj, "executable")
    /\ UNCHANGED <<build, status, g_DestroyStack, step, live, buffers, printed, recording, gpuVars,
                   ctxVars>>

RecordCmd ==
    /\ Advance("record")
    /\ recording' = [recording EXCEPT ![NextCall.obj] =
                        Append(@, [NextCall.arg EXCEPT !.qs = @ \cap Pool])]
    /\ UNCHANGED <<build, status, g_DestroyStack, step, live, buffers, printed, state, gpuVars, ctxVars>>

(* VkCtxScope's constructor and destructor: take the next query and record *)
(* the writing of its timestamp.                                           *)
(* Mutant: the index is incremented first and not wrapped.                 *)
NextQueryIdUnwrapped == m_head + 1
NextQueryId == m_head % m_queryCount
RecordZoneStamp ==
    /\ Advance("zone")
    /\ m_head' = m_head + 1
    /\ recording' = [recording EXCEPT ![NextCall.obj] =
                        Append(@, [op |-> "timestamp", qs |-> {NextQueryId}])]
    /\ UNCHANGED <<build, status, g_DestroyStack, step, live, buffers, printed, state, gpuVars,
                   m_tail, reported, poolVars>>

SubmitCmd ==
    /\ Advance("submit")
    /\ LET c == NextCall.obj
       IN  /\ gpuQueue' = Append(gpuQueue, [cmd |-> c, todo |-> recording[c], fences |-> NextCall.arg])
           /\ ToState(c, "pending")
    /\ UNCHANGED <<build, status, g_DestroyStack, step, live, buffers, printed, recording, fence, query,
                   ctxVars>>

(* The blocking calls have no timeout (line 425).                          *)
Wait ==
    /\ \/ Advance("waitFence") /\ fence
       \/ Advance("waitIdle") /\ gpuQueue = <<>>
       \/ Advance("waitQuery") /\ query[NextCall.arg] = "written"
    /\ UNCHANGED <<build, status, g_DestroyStack, step, live, buffers, printed, cmdVars, gpuVars,
                   ctxVars>>

(* VkCtx::Collect: send the times that are available, up to the first that *)
(* is not, and record their reset.                                         *)
HandedOut == m_tail .. (m_head - 1)
CollectTimes(ready) ==
    /\ Advance("collect")
    /\ recording' = IF m_head = m_tail THEN recording
                    ELSE [recording EXCEPT ![NextCall.obj] = Append(@, [op |-> "reset", qs |-> ready])]
    /\ reported' = reported \o SetToSortSeq(ready, <)
    /\ m_tail' = m_tail + Cardinality(ready)
    /\ UNCHANGED <<build, status, g_DestroyStack, step, live, buffers, printed, state, gpuVars,
                   m_head, m_queryCount>>

Collect ==
    /\ CollectTimes({q \in HandedOut : \A p \in m_tail .. q : query[p] = "written"})
    /\ UNCHANGED ignored

(* A vk::SystemError leaves main: terminate() runs no lambda.              *)
Throw ==
    /\ InMain \/ InCleanup
    /\ NextCall.throws
    /\ status' = "aborted"
    /\ UNCHANGED <<build, hostVars, buffers, cmdVars, gpuVars, ctxVars>>

(* The calls of VkCtx ignore failures.  A call that failed has done nothing*)
(* and the next is made; after that a command may be recorded into a buffer*)
(* that was not begun, which Vulkan leaves undefined: it is there or not.  *)
IgnoreFailure ==
    /\ InMain
    /\ \/ ~NextCall.throws /\ NextCall.op \in {"begin", "end", "submit", "waitIdle", "waitQuery"}
       \/ NextCall.op = "record" /\ state[NextCall.obj] # "recording"
    /\ pc' = pc + 1
    /\ ignored' = TRUE
    /\ UNCHANGED <<build, status, g_DestroyStack, step, live, buffers, printed, cmdVars, gpuVars,
                   m_head, m_tail, reported, m_queryCount>>

(* CreateQueryPool tries again with half the size, without an end.         *)
RetryQueryPool ==
    /\ InMain /\ NextCall.op = "create" /\ NextCall.obj = "QueryPool"
    /\ m_queryCount' = m_queryCount \div 2
    /\ UNCHANGED <<build, status, hostVars, buffers, cmdVars, gpuVars, m_head, m_tail, reported,
                   ignored>>

(* When vkGetQueryPoolResults fails, m_res holds whatever it held: any     *)
(* number of the times, first ones first, passes for available.            *)
CollectFails ==
    /\ m_head > m_tail
    /\ \E cnt \in 0 .. (m_head - m_tail) : CollectTimes(m_tail .. (m_tail + cnt - 1))
    /\ ignored' = TRUE

Failure == Throw \/ IgnoreFailure \/ RetryQueryPool \/ CollectFails

(* One call of the lambda on top; destroying a pool frees what is in it.   *)
CleanupCall ==
    /\ InCleanup
    /\ step' = step + 1
    /\ LET o == NextCall.obj
           pooled == {c \in DOMAIN PoolOf : PoolOf[c] = o}
       IN  /\ live' = IF NextCall.op = "destroy" THEN live \ ({o} \cup pooled) ELSE live
           /\ state' = [c \in CmdBuffers |->
                            IF PoolOf[c] # o THEN state[c]
                            ELSE IF NextCall.op = "destroy" THEN "none" ELSE "initial"]
    /\ UNCHANGED <<build, status, pc, g_DestroyStack, buffers, printed, recording, gpuVars, ctxVars>>

(* The lambda has returned and is popped.                                  *)
PopLambda ==
    /\ status = "running" /\ pc = Len(Program) /\ g_DestroyStack # <<>> /\ ~InCleanup
    /\ g_DestroyStack' = Front(g_DestroyStack)
    /\ step' = 0
    /\ UNCHANGED <<build, status, pc, live, buffers, printed, cmdVars, gpuVars, ctxVars>>

(* ProfilerShutdown: with a viewer connected it blocks until that closes,  *)
(* because main's own zone is still open (TracySession's ShutdownEnds).    *)
ProfilerShutdown ==
    /\ status = "running" /\ pc = Len(Program) /\ g_DestroyStack = <<>>
    /\ status' = "shutdown"
    /\ UNCHANGED <<build, hostVars, buffers, cmdVars, gpuVars, ctxVars>>

Exit ==
    /\ status = "shutdown" /\ ~viewer
    /\ status' = "finished"
    /\ UNCHANGED <<build, hostVars, buffers, cmdVars, gpuVars, ctxVars>>

(* A viewer may connect while the client accepts one, and close again.     *)
ViewerConnects ==
    /\ tracy /\ status = "running" /\ ~viewer
    /\ viewer' = TRUE
    /\ UNCHANGED <<tracy, status, hostVars, buffers, cmdVars, gpuVars, ctxVars>>
ViewerCloses ==
    /\ viewer /\ Alive
    /\ viewer' = FALSE
    /\ UNCHANGED <<tracy, status, hostVars, buffers, cmdVars, gpuVars, ctxVars>>
Viewer == ViewerConnects \/ ViewerCloses

Host ==
    \/ CreateObject \/ UseObject \/ FillMemory \/ ReadMemory \/ PushLambda
    \/ BeginCmd \/ EndCmd \/ RecordCmd \/ RecordZoneStamp \/ SubmitCmd \/ Wait \/ Collect
    \/ CleanupCall \/ PopLambda \/ ProfilerShutdown \/ Exit

(* The GPU executes the batches of the queue in order; a command buffer    *)
(* begun with eOneTimeSubmit is invalid once it has completed.             *)
GpuCommand ==
    /\ Alive /\ gpuQueue # <<>> /\ Head(gpuQueue).todo # <<>>
    /\ LET command == Head(Head(gpuQueue).todo)
       IN  /\ gpuQueue' = [gpuQueue EXCEPT ![1].todo = Tail(@)]
           /\ query' = [q \in Queries |->
                            IF q \notin command.qs THEN query[q]
                            ELSE IF command.op = "reset" THEN "reset" ELSE "written"]
           /\ buffers' =
                IF command.op # "dispatch" THEN buffers
                ELSE [buffers EXCEPT !["OutBufferMemory"] =
                        IF /\ buffers["InBufferMemory"] = "keys"
                           /\ buffers["ParamsBufferMemory"] = "count"
                        THEN "result" ELSE "junk"]
    /\ UNCHANGED <<build, status, hostVars, cmdVars, fence, ctxVars>>

GpuComplete ==
    /\ Alive /\ gpuQueue # <<>> /\ Head(gpuQueue).todo = <<>>
    /\ gpuQueue' = Tail(gpuQueue)
    /\ ToState(Head(gpuQueue).cmd, "invalid")
    /\ fence' = (fence \/ Head(gpuQueue).fences # {})
    /\ UNCHANGED <<build, status, hostVars, buffers, recording, query, ctxVars>>

Gpu == GpuCommand \/ GpuComplete

Ended == ~Alive /\ UNCHANGED vars

Next == Host \/ Failure \/ Gpu \/ Viewer \/ Ended

(* The host thread runs, and the GPU executes what is submitted to it.  No *)
(* call has to fail: a wait ends because the GPU gets there.  Nothing makes*)
(* a viewer connect, or close.                                             *)
Spec == Init /\ [][Next]_vars /\ WF_vars(Host) /\ WF_vars(Gpu)

-----------------------------------------------------------------------------
Lambdas == {"CreateInstance", "CreateDevice", "CreateTracyVulkanContext", "CreateBuffers",
            "CreatePipeline", "CreateDescriptorSets", "SubmitWork"}
Command == [op : {"timestamp", "reset", "dispatch"}, qs : SUBSET Pool]
Batch == [cmd : CmdBuffers, todo : Seq(Command), fences : SUBSET {"Fence"}]

(* Every variable has its type; no command is for a query past the pool.   *)
TypeOK ==
    /\ tracy \in BOOLEAN /\ status \in {"running", "shutdown", "finished", "aborted"}
    /\ viewer \in BOOLEAN /\ m_queryCount \in 0 .. Cardinality(Queries) /\ ignored \in BOOLEAN
    /\ pc \in 0 .. Len(Program) /\ g_DestroyStack \in Seq(Lambdas) /\ step \in Nat
    /\ live \subseteq Objects
    /\ \A m \in DOMAIN buffers : buffers[m] \in {"junk", "keys", "count", "result"}
    /\ \A m \in DOMAIN printed : printed[m] \in {"nothing", "junk", "keys", "result"}
    /\ recording \in [CmdBuffers -> Seq(Command)]
    /\ state \in [CmdBuffers -> {"none", "initial", "recording", "executable", "pending", "invalid"}]
    /\ gpuQueue \in Seq(Batch) /\ fence \in BOOLEAN
    /\ query \in [Queries -> {"junk", "reset", "written"}]
    /\ m_head \in Nat /\ m_tail \in 0 .. m_head
    /\ reported \in Seq(Queries)

(* No Vulkan object outlives the device, instance or pool it belongs to,   *)
(* although each function pushes its lambda on its own and Cleanup knows   *)
(* nothing of who owns whom (lines 462-471).                               *)
NoOrphans == \A o \in live : Owner(o) \subseteq live

(* Every call is given handles of objects that exist: nothing is used      *)
(* before it is created, after it is destroyed, or destroyed twice.        *)
HandlesLive ==
    InMain \/ InCleanup =>
        /\ NextCall.needs \subseteq live
        /\ NextCall.op \in {"record", "submit"} => UsedBy(NextCall.obj) \subseteq live

(* Nothing a submitted command buffer uses is destroyed before the GPU is  *)
(* done with it: the waits of lines 422 and 435 come before Cleanup.       *)
InFlightObjectsLive ==
    \A i \in DOMAIN gpuQueue : UsedBy(gpuQueue[i].cmd) \cup gpuQueue[i].fences \subseteq live

(* Command buffers are begun, submitted and reset only in states Vulkan    *)
(* allows; Tracy's is begun again and again, which its pool must permit.   *)
(* When a call of VkCtx has failed unnoticed only the last part remains.   *)
CommandBuffersLegal ==
    /\ InMain /\ NextCall.op = "begin" /\ ~ignored =>
        \/ state[NextCall.obj] = "initial"
        \/ /\ state[NextCall.obj] \in {"executable", "invalid"}
           /\ PoolOf[NextCall.obj] \in ResettablePools
    /\ InMain /\ NextCall.op = "submit" /\ ~ignored => state[NextCall.obj] = "executable"
    /\ InCleanup /\ NextCall.op \in {"resetPool", "destroy"} =>
        \A c \in CmdBuffers : PoolOf[c] = NextCall.obj => state[c] # "pending"

(* Unless VkCtx ignored a failure, the GPU writes a timestamp only to a     *)
(* query that was reset before, also the one used for calibration, and     *)
(* whatever the size of the pool that could be created.                    *)
QueriesResetFirst ==
    gpuQueue # <<>> /\ ~ignored /\ Head(gpuQueue).todo # <<>> =>
        LET command == Head(Head(gpuQueue).todo)
        IN  command.op = "timestamp" => \A q \in command.qs : query[q] = "reset"

(* When the program ends the profiler has been told both times of the      *)
(* compute zone, once and in order, and their queries are free again,      *)
(* unless VkCtx ignored a failure.                                         *)
ZoneReported ==
    status \in {"shutdown", "finished"} /\ tracy /\ ~ignored =>
        reported = <<0, 1>> /\ m_tail = m_head /\ \A q \in Pool : query[q] = "reset"

(* A normal exit leaves no Vulkan object and no GPU work behind.           *)
NothingLeaks == status \in {"shutdown", "finished"} => live = {} /\ gpuQueue = <<>>

(* The program as OffloadedJob sees it: the dispatch is submitted, is      *)
(* executed, and only then is its output read.                             *)
Submitted == \E i \in 1 .. pc : Program[i].op = "submit" /\ Program[i].obj = "CmdBuffer"
InFlight  == \E i \in DOMAIN gpuQueue : gpuQueue[i].cmd = "CmdBuffer"

Job == INSTANCE OffloadedJob WITH
          phase <- IF ~Submitted THEN "idle" ELSE IF InFlight THEN "inFlight" ELSE "complete",
          shown <- printed["OutBufferMemory"],
          outcome <- IF status = "shutdown" THEN "running" ELSE status

(* Host and GPU together implement the job: exactly the result of the      *)
(* completed dispatch is printed, before a normal exit, in every schedule. *)
ImplementsJob == Job!Spec

(* Where the program may stay for ever: in ProfilerShutdown, with a viewer *)
(* connected; asking for ever smaller query pools; and where VkCtx waits   *)
(* for a timestamp that a failure kept from the GPU (TracyVulkan.hpp:154). *)
Stuck ==
    \/ status = "shutdown" /\ viewer
    \/ InMain /\ NextCall.obj = "QueryPool" /\ \/ m_queryCount < FewestQueries
                                               \/ NextCall.op = "waitQuery" /\ ignored

(* The program ends, or stays at one of the three places that Tracy has for*)
(* that: whatever call fails, thrown or ignored, main's own waits (lines   *)
(* 422 and 435) never last for ever on a GPU that executes what it is given*)
Ends == <>~Alive \/ <>[]Stuck
=============================================================================
