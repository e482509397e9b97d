----------------------------- MODULE TracyLink -----------------------------
(***************************************************************************)
(* What the Tracy client (in the profiled program) and the Tracy server    *)
(* (in the viewer) share: one TCP connection and the messages on it        *)
(* (src/tracy/public/common/TracyProtocol.hpp, TracySocket.cpp).  A server *)
(* asks for what the client's events name, and the answer repeats the      *)
(* question, so questions and answers are the same records.                *)
(* Left out: the texts of source files (a viewer that finds them itself    *)
(* asks for none, CacheSource), kernel symbols, and that the items of one  *)
(* answer, which the client sends one after another, may be cut into two   *)
(* frames: an answer is one item.                                          *)
(***************************************************************************)
EXTENDS Naturals, Sequences, FiniteSets, SequencesExt

CONSTANTS
    Refs,           \* what a message can name: threads, strings, addresses
    SourceLocations,\* of a source location: its name, file and function
    Symbols,        \* of an address in a call stack: its symbol
    WithCode,       \* the symbols of which the server asks for the code
    FrameSize,      \* items in a full frame: TargetFrameSize
    LinkFrames,     \* frames the connection holds before Send blocks
    SendBuf,        \* packets the server's socket holds before Send blocks
    TerminateSlack  \* of these, kept for the termination request: 4

(* The null pointer, which names nothing, is "none".                       *)
ASSUME RefsAssumption ==
    /\ "none" \notin Refs
    /\ DOMAIN SourceLocations \subseteq Refs /\ DOMAIN Symbols \subseteq Refs
    /\ \A r \in DOMAIN SourceLocations :
          SourceLocations[r] \in [name : Refs \cup {"none"}, file : Refs \cup {"none"},
                                 function : Refs \cup {"none"}]
    /\ \A r \in DOMAIN Symbols : Symbols[r] \in Refs \cup {"none"}
    /\ WithCode \subseteq Refs

ASSUME LinkAssumption ==
    /\ FrameSize \in Nat /\ FrameSize > 1
    /\ LinkFrames \in Nat \ {0}
    /\ TerminateSlack \in Nat \ {0}
    /\ SendBuf \in Nat /\ SendBuf > TerminateSlack

VARIABLES
    clientEnd,  \* the client's socket: "none" (it listens), "open" or "closed"
    serverEnd,  \* the server's socket: "none", "open" or "closed"
    lost,       \* the connection was reset: nothing arrives any more
    reply,      \* the HandshakeStatus the client sent, or "none"
    down,       \* frames sent by the client and not received
    up          \* packets sent by the server and not received

link == <<clientEnd, serverEnd, lost, reply, down, up>>

LinkInit ==
    /\ clientEnd = "none" /\ serverEnd = "none" /\ lost = FALSE
    /\ reply = "none" /\ down = <<>> /\ up = <<>>

(* ServerQuery: of it the kinds that a zone, its source location and its   *)
(* thread cause, and those that a call stack does: its frames, their       *)
(* symbols, and the symbols' code.  The former have priority (IsQueryPrio).*)
UrgentKinds == {"srcloc", "string", "thread"}
QueryKinds == UrgentKinds \cup {"frame", "symbol", "code"}
IsQueryPrio(kind) == kind \in UrgentKinds
Msg(kind, ref) == [kind |-> kind, ref |-> ref]
Terminate == Msg("terminate", "none")

(* Socket::Send and Read: what one end sees of the other.                  *)
ClientSees == serverEnd = "open" /\ ~lost
ServerSees == clientEnd = "open" /\ ~lost

(* The connection is reset, by the network or by the viewer's death.       *)
LoseConnection ==
    /\ serverEnd = "open" /\ ~lost
    /\ lost' = TRUE
    /\ up' = <<>> /\ down' = <<>>
    /\ UNCHANGED <<clientEnd, serverEnd, reply>>
=============================================================================
