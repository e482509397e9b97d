---------------------------- MODULE GpuTimeline ----------------------------
(***************************************************************************)
(* src/tracy/server/TracyWorker.cpp: what the server keeps for a Vulkan    *)
(* context (GpuCtxData) and how the GPU events of the serial queue change  *)
(* it.  Events arrive in the order in which QueueSerial published them, so *)
(* a handler is an operator from the state and an event to the new state.  *)
(* Zones are numbered in the order of their begin events.  `fault` is set  *)
(* where the code asserts and, in a release build, follows a null pointer. *)
(* Left out: the CPU times of the zones, statistics, call stacks, the      *)
(* period and the calibration (a linear map of the time), and counters     *)
(* narrower than 64 bits (ctx->overflow).                                  *)
(***************************************************************************)
EXTENDS Integers, Sequences, SequencesExt

None == 0                       \* nullptr, and "no zone"
Untimed == -1                   \* a GPU time that was never set

NewContext(threads, queryIds) ==
    [query   |-> [q \in queryIds |-> None],   \* the zone a query id will time
     stack   |-> [t \in threads |-> <<>>],    \* open zones of each thread
     zones   |-> <<>>,
     refTime |-> 0,                           \* m_refTimeGpu
     fault   |-> FALSE]

(* ProcessGpuZoneBeginImplCommon: the zone is a child of the zone on top   *)
(* of its thread's stack.  `of` names the scope that sent the event.       *)
ProcessGpuZoneBegin(ctx, ev) ==
    LET zone  == Len(ctx.zones) + 1
        stack == ctx.stack[ev.thread]
    IN  [ctx EXCEPT
           !.zones = Append(@, [of |-> ev.of, parent |-> IF stack = <<>> THEN None ELSE Last(stack),
                                start |-> Untimed, end |-> Untimed]),
           !.stack[ev.thread] = Append(@, zone),
           !.query[ev.queryId] = zone,
           !.fault = @ \/ ctx.query[ev.queryId] # None]

ProcessGpuZoneEnd(ctx, ev) ==
    LET stack == ctx.stack[ev.thread]
    IN  IF stack = <<>> \/ ctx.query[ev.queryId] # None
          THEN [ctx EXCEPT !.fault = TRUE]
          ELSE [ctx EXCEPT !.stack[ev.thread] = Front(@), !.query[ev.queryId] = Last(stack)]

(* Mutant: the time of a zone that has started is taken for a new start.   *)
ProcessGpuTimeRestarts(ctx, ev) ==
    LET time == ctx.refTime + ev.delta
        zone == ctx.query[ev.queryId]
    IN  IF zone = None
          THEN [ctx EXCEPT !.fault = TRUE]
          ELSE [ctx EXCEPT !.refTime = time, !.query[ev.queryId] = None, !.zones[zone].start = time]
(* The time is sent as the difference to the time sent before (RefTime);   *)
(* the first of a zone's two times is its start.                           *)
ProcessGpuTime(ctx, ev) ==
    LET time == ctx.refTime + ev.delta
        zone == ctx.query[ev.queryId]
    IN  IF zone = None
          THEN [ctx EXCEPT !.fault = TRUE]
          ELSE [ctx EXCEPT
                  !.refTime = time,
                  !.query[ev.queryId] = None,
                  !.zones[zone] = IF @.start = Untimed THEN [@ EXCEPT !.start = time]
                                                       ELSE [@ EXCEPT !.end = time]]
=============================================================================
