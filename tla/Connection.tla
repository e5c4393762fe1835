----------------------------- MODULE Connection -----------------------------
(***************************************************************************)
(* One websocket connection: the outbound queue of client.go, the write and *)
(* read pumps of ws.go, and the socket between them and the peer.           *)
(*                                                                         *)
(* Frames to the peer are numbered in the order the hub hands them over, so *)
(* a frame is its number.  A Go select with several ready cases takes any   *)
(* of them.  What the websocket library does is external: a failed write    *)
(* leaves the connection closed, a ping that timed out may or may not.      *)
(***************************************************************************)
EXTENDS Naturals, Sequences

CONSTANTS Buffer,     \* hub.Config.OutboundBuffer
          MaxFrames   \* bound: frames the hub hands over

ASSUME BufferAssumption == Buffer \in Nat \ {0} /\ MaxFrames \in Nat

(* Why a client was killed: the close codes of client.go and ws.go.         *)
SlowConsumer == 4001
ServerError == 4002
ProtocolError == 4003
TokenExpired == 4004
Codes == {SlowConsumer, ServerError, ProtocolError, TokenExpired}
Alive == 0

VARIABLES out,        \* Client.out
          code,       \* Client.code once Client.closed is closed, else Alive
          sock,       \* the connection: "open" or "closed"
          pump,       \* write pump: "select", "write", "ping" or "gone"
          inflight,   \* the frame the write pump is writing, as a sequence
          reader,     \* read pump: "read", "handle", "closing" or "gone"
          cancelled,  \* the handler's context
          token,      \* whether the token still verifies
          offered,    \* ghost: frames handed to send
          delivered,  \* ghost: frames the peer was sent, in order
          ticked      \* ghost: the write pump ended on its ticker

vars == <<out, code, sock, pump, inflight, reader, cancelled, token,
          offered, delivered, ticked>>

(* Client.Kill: only the first reason counts.                               *)
Kill(c) == code' = IF code = Alive THEN c ELSE code

TypeOK ==
    /\ out \in Seq(1 .. MaxFrames) /\ Len(out) <= Buffer
    /\ code \in Codes \union {Alive}
    /\ sock \in {"open", "closed"}
    /\ pump \in {"select", "write", "ping", "gone"}
    /\ inflight \in Seq(1 .. MaxFrames) /\ (pump = "write" <=> Len(inflight) = 1)
    /\ reader \in {"read", "handle", "closing", "gone"}
    /\ cancelled \in BOOLEAN /\ token \in BOOLEAN /\ ticked \in BOOLEAN
    /\ offered \in 0 .. MaxFrames
    /\ delivered \in Seq(1 .. MaxFrames)

Init ==
    /\ out = << >> /\ code = Alive /\ sock = "open"
    /\ pump = "select" /\ inflight = << >> /\ reader = "read"
    /\ cancelled = FALSE /\ token = TRUE
    /\ offered = 0 /\ delivered = << >> /\ ticked = FALSE

-----------------------------------------------------------------------------
(* The hub's side.                                                          *)

MutSendUnbounded(n) == out' = Append(out, n) /\ UNCHANGED code

MutSendSkips(n) ==
    \/ code # Alive /\ UNCHANGED <<out, code>>
    \/ Len(out) < Buffer /\ out' = Append(out, n) /\ UNCHANGED code
    \/ code = Alive /\ Len(out) = Buffer /\ UNCHANGED <<out, code>>

(* Client.send's select: a killed client may drop the frame, a queue with   *)
(* room may take it, and the default is left when neither is ready.         *)
Queue(n) ==
    \/ code # Alive /\ UNCHANGED <<out, code>>
    \/ Len(out) < Buffer /\ out' = Append(out, n) /\ UNCHANGED code
    \/ code = Alive /\ Len(out) = Buffer /\ Kill(SlowConsumer) /\ UNCHANGED out

(* A room, the registry or the session sends a frame.  They stop when the   *)
(* session has closed: while Close waits for the room to take the leave,    *)
(* the room still sends.                                                    *)
Send ==
    /\ reader # "gone"
    /\ offered < MaxFrames
    /\ offered' = offered + 1
    /\ Queue(offered + 1)
    /\ UNCHANGED <<sock, pump, inflight, reader, cancelled, token, delivered, ticked>>

(* The hub closes the connection: the registry shuts down, or the client's  *)
(* room lost its archive.                                                   *)
HubKill ==
    /\ reader # "gone"
    /\ Kill(ServerError)
    /\ UNCHANGED <<out, sock, pump, inflight, reader, cancelled, token, offered, delivered, ticked>>

-----------------------------------------------------------------------------
(* writePump: the cases of its select.                                      *)

PumpCancelled ==
    /\ pump = "select" /\ cancelled
    /\ pump' = "gone"
    /\ UNCHANGED <<out, code, sock, inflight, reader, cancelled, token, offered, delivered, ticked>>

MutPumpReturns ==
    /\ pump = "select" /\ code # Alive
    /\ pump' = "gone"
    /\ UNCHANGED <<out, code, sock, inflight, reader, cancelled, token, offered, delivered, ticked>>

PumpCloses ==
    /\ pump = "select" /\ code # Alive
    /\ sock' = "closed"
    /\ pump' = "gone"
    /\ UNCHANGED <<out, code, inflight, reader, cancelled, token, offered, delivered, ticked>>

PumpTakes ==
    /\ pump = "select" /\ out # << >>
    /\ inflight' = <<Head(out)>> /\ out' = Tail(out)
    /\ pump' = "write"
    /\ UNCHANGED <<code, sock, reader, cancelled, token, offered, delivered, ticked>>

WriteDone ==
    /\ pump = "write" /\ sock = "open"
    /\ delivered' = delivered \o inflight
    /\ inflight' = << >>
    /\ pump' = "select"
    /\ UNCHANGED <<out, code, sock, reader, cancelled, token, offered, ticked>>

(* The write timed out or the connection is gone.                           *)
WriteFails ==
    /\ pump = "write"
    /\ Kill(ServerError)
    /\ sock' = "closed"
    /\ inflight' = << >>
    /\ pump' = "gone"
    /\ UNCHANGED <<out, reader, cancelled, token, offered, delivered, ticked>>

(* The ticker: the token is verified again, then the peer is pinged.        *)
TickRejects ==
    /\ pump = "select" /\ ~token
    /\ Kill(TokenExpired)
    /\ pump' = "gone" /\ ticked' = TRUE
    /\ UNCHANGED <<out, sock, inflight, reader, cancelled, token, offered, delivered>>

TickPings ==
    /\ pump = "select" /\ token
    /\ pump' = "ping"
    /\ UNCHANGED <<out, code, sock, inflight, reader, cancelled, token, offered, delivered, ticked>>

PongArrives ==
    /\ pump = "ping" /\ sock = "open"
    /\ pump' = "select"
    /\ UNCHANGED <<out, code, sock, inflight, reader, cancelled, token, offered, delivered, ticked>>

PingFails ==
    /\ pump = "ping"
    /\ Kill(ServerError)
    /\ sock' \in {sock, "closed"}
    /\ pump' = "gone" /\ ticked' = TRUE
    /\ UNCHANGED <<out, inflight, reader, cancelled, token, offered, delivered>>

-----------------------------------------------------------------------------
(* readPump, and handleWebsocket's deferred calls when it returns.          *)

ReadFrame ==
    /\ reader = "read" /\ sock = "open"
    /\ reader' = "handle"
    /\ UNCHANGED <<out, code, sock, pump, inflight, cancelled, token, offered, delivered, ticked>>

Handled ==
    /\ reader = "handle"
    /\ reader' = "read"
    /\ UNCHANGED <<out, code, sock, pump, inflight, cancelled, token, offered, delivered, ticked>>

MutReadAgain ==
    /\ reader = "read" /\ sock = "closed" /\ code = Alive
    /\ Kill(ProtocolError)
    /\ reader' = "closing"
    /\ UNCHANGED <<out, sock, pump, inflight, cancelled, token, offered, delivered, ticked>>

(* Read fails on a closed connection.                                       *)
ReadFails ==
    /\ reader = "read" /\ sock = "closed"
    /\ Kill(ProtocolError)
    /\ reader' = "closing"
    /\ UNCHANGED <<out, sock, pump, inflight, cancelled, token, offered, delivered, ticked>>

ReadBinary ==
    /\ reader = "read" /\ sock = "open"
    /\ Kill(ProtocolError)
    /\ reader' = "closing"
    /\ UNCHANGED <<out, sock, pump, inflight, cancelled, token, offered, delivered, ticked>>

(* session.Close, then cancel, then conn.CloseNow.                          *)
HandlerReturns ==
    /\ reader = "closing"
    /\ cancelled' = TRUE
    /\ sock' = "closed"
    /\ reader' = "gone"
    /\ UNCHANGED <<out, code, pump, inflight, token, offered, delivered, ticked>>

-----------------------------------------------------------------------------
(* The outside.                                                             *)

PeerLeaves ==
    /\ sock = "open"
    /\ sock' = "closed"
    /\ UNCHANGED <<out, code, pump, inflight, reader, cancelled, token, offered, delivered, ticked>>

TokenDies ==
    /\ token
    /\ token' = FALSE
    /\ UNCHANGED <<out, code, sock, pump, inflight, reader, cancelled, offered, delivered, ticked>>

Pump ==
    \/ PumpCancelled \/ PumpCloses \/ PumpTakes \/ WriteDone \/ WriteFails
    \/ TickRejects \/ TickPings \/ PongArrives \/ PingFails

Reader == ReadFrame \/ Handled \/ ReadFails \/ ReadBinary \/ HandlerReturns

Next == Send \/ HubKill \/ Pump \/ Reader \/ PeerLeaves \/ TokenDies

(* A select repeats until it takes a case that ends it, and Go picks among  *)
(* the ready ones at random: strong fairness of those cases.  Writes and    *)
(* pings have deadlines, a handler ends.  Nothing is assumed of the peer,   *)
(* the ticker or the hub.                                                   *)
Fairness ==
    /\ SF_vars(PumpCloses) /\ SF_vars(PumpCancelled)
    /\ WF_vars(PumpTakes)
    /\ WF_vars(WriteDone \/ WriteFails)
    /\ WF_vars(PongArrives \/ PingFails)
    /\ WF_vars(Handled) /\ WF_vars(ReadFails) /\ WF_vars(HandlerReturns)

Spec == Init /\ [][Next]_vars /\ Fairness

-----------------------------------------------------------------------------
(* While a client has not been killed, every frame the hub handed over has  *)
(* been delivered, is being written or waits in the queue, in order: send   *)
(* and the write pump lose and reorder nothing on a live connection.        *)
NothingLostAlive ==
    code = Alive => delivered \o inflight \o out = [i \in 1 .. offered |-> i]

(* A slow consumer's socket is closed, and that does not depend on the      *)
(* peer, unless the write pump leaves on its ticker, before the kill or     *)
(* after it: with both ready its select may take the ticker, whose case     *)
(* returns without closing (KillClosesSocket is about what then happens).   *)
SlowConsumerClosed == (code = SlowConsumer) ~> (sock = "closed" \/ ticked)

(* Once the socket is closed both pumps end: no goroutine outlives its      *)
(* connection.                                                              *)
PumpsEnd == (sock = "closed") ~> (pump = "gone" /\ reader = "gone")

(* client.go, of Kill: "The transport observes Closed and closes the socket *)
(* with this code."                                                         *)
KillClosesSocket == (code # Alive) ~> (sock = "closed")
=============================================================================
