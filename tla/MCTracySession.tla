-------------------------- MODULE MCTracySession --------------------------
(***************************************************************************)
(* The instances of TracySession that TLC checks.                          *)
(***************************************************************************)
EXTENDS TracySession, TLC

(* A named zone.                                                           *)
NamedZone == <<Msg("begin", "zone"), Msg("end", "zone")>>

(* ZoneTransientS: a call stack of one address, then its zone.  The address*)
(* has no symbol, so that the last answer comes from SymbolWorker, or it   *)
(* has one with code, which Worker sends.                                  *)
Addresses == {"unknown", "known"}
ZoneWithStack(a) == <<Msg("callstack", a), Msg("begin", "none"), Msg("end", "none")>>

ClosedZones == {NamedZone} \cup {ZoneWithStack(a) : a \in Addresses}

(* main of src/src/main.cpp: the profiler is shut down inside its zone.    *)
OpenZone == {<<Msg("begin", "zone")>>}

MCRefs == Producers \cup {"zone", "name", "file", "function"} \cup Addresses \cup {"symbol"}
MCSourceLocations == "zone" :> [name |-> "name", file |-> "file", function |-> "function"]
MCSymbols == "unknown" :> "none" @@ "known" :> "symbol"
=============================================================================
