-------------------------- MODULE ConnectionProofs --------------------------
(***************************************************************************)
(* Proofs about Connection, for every size of the outbound queue and any    *)
(* number of frames.                                                        *)
(***************************************************************************)
EXTENDS Connection, Integers, TLAPS

(* What is delivered, in flight and queued, in this order, are the frames   *)
(* that were handed over: the first, the second and so on.                  *)
NoHole ==
    /\ offered = Len(delivered) + Len(inflight) + Len(out)
    /\ \A i \in 1 .. Len(delivered) : delivered[i] = i
    /\ \A i \in 1 .. Len(inflight) : inflight[i] = Len(delivered) + i
    /\ \A i \in 1 .. Len(out) : out[i] = Len(delivered) + Len(inflight) + i

(* A frame is in flight only while the pump writes it.                      *)
OneInFlight == inflight = << >> \/ Len(inflight) = 1

ConnectionInv ==
    /\ TypeOK
    /\ OneInFlight
    /\ code = Alive => NoHole

pipeVars == <<out, inflight, delivered, offered>>

(* What sequences of frames are made of, and what becomes of two of them.   *)
LEMMA FramesAreNumbers ==
    ASSUME NEW s \in Seq(1 .. MaxFrames)
    PROVE  /\ Len(s) \in Nat
           /\ \A i \in 1 .. Len(s) : s[i] \in 1 .. MaxFrames /\ s[i] \in Int
<1>1. Len(s) \in Nat /\ \A i \in 1 .. Len(s) : s[i] \in 1 .. MaxFrames
  <2> DEFINE Frame == 1 .. MaxFrames
  <2>1. s \in Seq(Frame)
    OBVIOUS
  <2> HIDE DEF Frame
  <2>2. Len(s) \in Nat /\ \A i \in 1 .. Len(s) : s[i] \in Frame
    BY <2>1
  <2> QED BY <2>2 DEF Frame
<1>2. \A n \in 1 .. MaxFrames : n \in Int
  BY BufferAssumption
<1> QED BY <1>1, <1>2

LEMMA Concatenated ==
    ASSUME NEW s \in Seq(1 .. MaxFrames), NEW t \in Seq(1 .. MaxFrames)
    PROVE  /\ s \o t \in Seq(1 .. MaxFrames)
           /\ Len(s \o t) = Len(s) + Len(t)
           /\ \A i \in 1 .. Len(s) : (s \o t)[i] = s[i]
           /\ \A i \in 1 .. Len(t) : (s \o t)[Len(s) + i] = t[i]
<1> DEFINE Frame == 1 .. MaxFrames
<1>1. s \in Seq(Frame) /\ t \in Seq(Frame)
  OBVIOUS
<1> HIDE DEF Frame
<1>2. /\ s \o t \in Seq(Frame)
      /\ Len(s \o t) = Len(s) + Len(t)
  BY <1>1
<1>3. \A i \in 1 .. Len(s) : (s \o t)[i] = s[i]
  BY <1>1
<1>4. \A i \in 1 .. Len(t) : (s \o t)[Len(s) + i] = t[i]
  BY <1>1
<1> QED BY <1>2, <1>3, <1>4 DEF Frame

LEMMA CodesNotAlive ==
    /\ SlowConsumer # Alive /\ ServerError # Alive
    /\ ProtocolError # Alive /\ TokenExpired # Alive
    /\ {SlowConsumer, ServerError, ProtocolError, TokenExpired} \subseteq Codes
BY DEF SlowConsumer, ServerError, ProtocolError, TokenExpired, Alive, Codes

(* A kill leaves a client that is not alive, with a code.                   *)
LEMMA KillType ==
    ASSUME NEW c \in Codes, c # Alive, code \in Codes \union {Alive}, Kill(c)
    PROVE  code' \in Codes /\ code' # Alive
<1>1. Alive \notin Codes
  BY DEF SlowConsumer, ServerError, ProtocolError, TokenExpired, Alive, Codes
<1> QED BY <1>1 DEF Kill

LEMMA InitConnection == Init => ConnectionInv
<1> SUFFICES ASSUME Init PROVE ConnectionInv
  OBVIOUS
<1>1. TypeOK
  <2>1. out = << >> /\ inflight = << >> /\ delivered = << >> /\ Len(<< >>) = 0
    BY DEF Init
  <2>2. << >> \in Seq(1 .. MaxFrames)
    OBVIOUS
  <2>3. offered \in 0 .. MaxFrames /\ 0 <= Buffer
    BY BufferAssumption DEF Init
  <2>4. Len(out) <= Buffer /\ (pump = "write" <=> Len(inflight) = 1)
    BY <2>1, <2>3 DEF Init
  <2>5. code \in Codes \union {Alive} /\ cancelled \in BOOLEAN /\ token \in BOOLEAN /\ ticked \in BOOLEAN
    BY DEF Init
  <2>6. out \in Seq(1 .. MaxFrames) /\ inflight \in Seq(1 .. MaxFrames) /\ delivered \in Seq(1 .. MaxFrames)
    BY <2>1, <2>2
  <2>7. sock \in {"open", "closed"} /\ pump \in {"select", "write", "ping", "gone"}
          /\ reader \in {"read", "handle", "closing", "gone"}
    BY DEF Init
  <2> QED BY <2>3, <2>4, <2>5, <2>6, <2>7 DEF TypeOK
<1>2. OneInFlight
  BY DEF Init, OneInFlight
<1>3. NoHole
  BY DEF Init, NoHole
<1> QED BY <1>1, <1>2, <1>3 DEF ConnectionInv

(* A step that leaves the frames alone loses none.                          *)
LEMMA Untouched ==
    ASSUME ConnectionInv, UNCHANGED pipeVars, TypeOK', code' = Alive => code = Alive
    PROVE  ConnectionInv'
<1>1. OneInFlight'
  BY DEF ConnectionInv, OneInFlight, pipeVars
<1>2. ASSUME code' = Alive PROVE NoHole'
  BY <1>2 DEF ConnectionInv, NoHole, pipeVars
<1> QED BY <1>1, <1>2 DEF ConnectionInv

(* A frame is put at the end of the queue.                                  *)
LEMMA QueuedInv ==
    ASSUME ConnectionInv, offered < MaxFrames, offered' = offered + 1,
           Len(out) < Buffer, out' = Append(out, offered + 1),
           UNCHANGED <<code, sock, pump, inflight, reader, cancelled, token, delivered, ticked>>
    PROVE  ConnectionInv'
<1>1. /\ offered \in Nat /\ MaxFrames \in Nat /\ Buffer \in Nat
      /\ out \in Seq(1 .. MaxFrames) /\ delivered \in Seq(1 .. MaxFrames)
      /\ inflight \in Seq(1 .. MaxFrames)
  BY BufferAssumption DEF ConnectionInv, TypeOK
<1>2. /\ Len(out') = Len(out) + 1
      /\ \A i \in 1 .. Len(out) : out'[i] = out[i]
      /\ out'[Len(out) + 1] = offered + 1
  BY <1>1
<1>3. out' \in Seq(1 .. MaxFrames)
  <2>1. offered + 1 \in 1 .. MaxFrames
    BY <1>1
  <2> QED BY <1>1, <2>1
<1>4. TypeOK'
  BY <1>1, <1>2, <1>3 DEF ConnectionInv, TypeOK
<1>5. OneInFlight'
  BY DEF ConnectionInv, OneInFlight
<1>6. \A i \in 1 .. Len(out') : i \in 1 .. Len(out) \/ i = Len(out) + 1
  BY <1>1, <1>2
<1>7. /\ \A i \in 1 .. Len(out) : out[i] \in Int
      /\ \A i \in 1 .. Len(delivered) : delivered[i] \in Int
      /\ \A i \in 1 .. Len(inflight) : inflight[i] \in Int
      /\ Len(out) \in Nat /\ Len(delivered) \in Nat /\ Len(inflight) \in Nat
  BY <1>1
<1>8. ASSUME code' = Alive PROVE NoHole'
  <2>1. NoHole
    BY <1>8 DEF ConnectionInv
  <2>2. offered' = Len(delivered') + Len(inflight') + Len(out')
    BY <1>2, <1>7, <2>1 DEF NoHole
  <2>3. /\ \A i \in 1 .. Len(delivered') : delivered'[i] = i
        /\ \A i \in 1 .. Len(inflight') : inflight'[i] = Len(delivered') + i
    BY <2>1 DEF NoHole
  <2>4. \A i \in 1 .. Len(out') : out'[i] = Len(delivered') + Len(inflight') + i
    <3> SUFFICES ASSUME NEW i \in 1 .. Len(out')
                 PROVE  out'[i] = Len(delivered) + Len(inflight) + i
      OBVIOUS
    <3>1. CASE i \in 1 .. Len(out)
      BY <1>2, <2>1, <3>1 DEF NoHole
    <3>2. CASE i = Len(out) + 1
      BY <1>2, <1>7, <2>1, <3>2 DEF NoHole
    <3> QED BY <1>6, <3>1, <3>2
  <2> QED BY <2>2, <2>3, <2>4 DEF NoHole
<1> QED BY <1>4, <1>5, <1>8 DEF ConnectionInv

(* A frame that is dropped is counted, and the client is not alive.         *)
LEMMA DroppedInv ==
    ASSUME ConnectionInv, offered < MaxFrames, offered' = offered + 1,
           code' \in Codes, code' # Alive,
           UNCHANGED <<out, sock, pump, inflight, reader, cancelled, token, delivered, ticked>>
    PROVE  ConnectionInv'
<1>1. offered \in Nat /\ MaxFrames \in Nat
  BY BufferAssumption DEF ConnectionInv, TypeOK
<1>2. TypeOK'
  BY <1>1 DEF ConnectionInv, TypeOK
<1>3. OneInFlight'
  BY DEF ConnectionInv, OneInFlight
<1> QED BY <1>2, <1>3 DEF ConnectionInv

LEMMA SendInv == ASSUME ConnectionInv, Send PROVE ConnectionInv'
<1>1. CASE Len(out) < Buffer /\ out' = Append(out, offered + 1) /\ UNCHANGED code
  BY <1>1, QueuedInv DEF Send
<1>2. CASE code # Alive /\ UNCHANGED <<out, code>>
  <2>1. code' \in Codes /\ code' # Alive
    BY <1>2 DEF ConnectionInv, TypeOK
  <2> QED BY <1>2, <2>1, DroppedInv DEF Send
<1>3. CASE Kill(SlowConsumer) /\ UNCHANGED out
  <2>1. code' \in Codes /\ code' # Alive
    BY <1>3, KillType, CodesNotAlive DEF ConnectionInv, TypeOK
  <2> QED BY <1>3, <2>1, DroppedInv DEF Send
<1> QED BY <1>1, <1>2, <1>3 DEF Send, Queue

(* The oldest queued frame goes into flight.                                *)
LEMMA TakesInv == ASSUME ConnectionInv, PumpTakes PROVE ConnectionInv'
<1>1. /\ out \in Seq(1 .. MaxFrames) /\ out # << >> /\ Buffer \in Nat
      /\ delivered \in Seq(1 .. MaxFrames) /\ inflight = << >>
  BY BufferAssumption DEF ConnectionInv, TypeOK, PumpTakes, OneInFlight
<1>2. /\ Len(out) \in Nat /\ Len(out) > 0 /\ Len(out') = Len(out) - 1
      /\ \A i \in 1 .. Len(out') : out'[i] = out[i + 1] /\ i + 1 \in 1 .. Len(out)
      /\ out' \in Seq(1 .. MaxFrames)
  BY <1>1 DEF PumpTakes
<1>3. /\ Len(inflight') = 1 /\ inflight'[1] = out[1] /\ 1 \in 1 .. Len(out)
      /\ inflight' \in Seq(1 .. MaxFrames)
  <2>1. Head(out) = out[1] /\ out[1] \in 1 .. MaxFrames
    BY <1>1, <1>2, FramesAreNumbers
  <2>2. inflight' = <<out[1]>>
    BY <2>1 DEF PumpTakes
  <2> QED BY <1>2, <2>1, <2>2
<1>4. TypeOK'
  BY <1>1, <1>2, <1>3 DEF ConnectionInv, TypeOK, PumpTakes
<1>5. OneInFlight'
  BY <1>3 DEF OneInFlight
<1>6. \A i \in 1 .. Len(inflight') : i = 1
  BY <1>3
<1>7. /\ \A i \in 1 .. Len(out) : out[i] \in Int
      /\ \A i \in 1 .. Len(delivered) : delivered[i] \in Int
      /\ Len(delivered) \in Nat /\ Len(inflight) = 0
      /\ delivered' = delivered /\ offered' = offered
  BY <1>1, FramesAreNumbers DEF PumpTakes
<1>8. ASSUME code' = Alive PROVE NoHole'
  <2>1. NoHole
    BY <1>8 DEF ConnectionInv, PumpTakes
  <2>2. offered' = Len(delivered') + Len(inflight') + Len(out')
    BY <1>2, <1>3, <1>7, <2>1 DEF NoHole
  <2>3. /\ \A i \in 1 .. Len(delivered') : delivered'[i] = i
        /\ \A i \in 1 .. Len(inflight') : inflight'[i] = Len(delivered') + i
    BY <1>3, <1>6, <1>7, <2>1 DEF NoHole
  <2>4. \A i \in 1 .. Len(out') : out'[i] = Len(delivered') + Len(inflight') + i
    <3> SUFFICES ASSUME NEW i \in 1 .. Len(out')
                 PROVE  out[i + 1] = Len(delivered) + 1 + i
      BY <1>2, <1>3, <1>7
    <3>1. i + 1 \in 1 .. Len(out)
      BY <1>2
    <3>2. out[i + 1] = Len(delivered) + Len(inflight) + (i + 1)
      BY <2>1, <3>1 DEF NoHole
    <3> QED BY <1>7, <3>2
  <2> QED BY <2>2, <2>3, <2>4 DEF NoHole
<1> QED BY <1>4, <1>5, <1>8 DEF ConnectionInv

(* What was in flight is delivered.                                         *)
LEMMA DoneInv == ASSUME ConnectionInv, WriteDone PROVE ConnectionInv'
<1>1. /\ out \in Seq(1 .. MaxFrames) /\ delivered \in Seq(1 .. MaxFrames)
      /\ inflight \in Seq(1 .. MaxFrames) /\ Len(inflight) = 1
  BY DEF ConnectionInv, TypeOK, WriteDone
<1>2. /\ Len(delivered) \in Nat /\ Len(delivered') = Len(delivered) + 1
      /\ \A i \in 1 .. Len(delivered) : delivered'[i] = delivered[i]
      /\ delivered'[Len(delivered) + 1] = inflight[1]
      /\ delivered' \in Seq(1 .. MaxFrames)
  <2>1. delivered' = delivered \o inflight /\ Len(delivered) \in Nat /\ 1 \in 1 .. Len(inflight)
    BY <1>1 DEF WriteDone
  <2>2. /\ delivered \o inflight \in Seq(1 .. MaxFrames)
        /\ Len(delivered \o inflight) = Len(delivered) + Len(inflight)
        /\ \A i \in 1 .. Len(delivered) : (delivered \o inflight)[i] = delivered[i]
        /\ \A i \in 1 .. Len(inflight) : (delivered \o inflight)[Len(delivered) + i] = inflight[i]
    BY <1>1, Concatenated
  <2>3. (delivered \o inflight)[Len(delivered) + 1] = inflight[1]
    BY <2>1, <2>2
  <2> QED BY <1>1, <2>1, <2>2, <2>3
<1>3. inflight' = << >> /\ Len(inflight') = 0 /\ out' = out /\ offered' = offered
  BY DEF WriteDone
<1>4. TypeOK'
  BY <1>2, <1>3 DEF ConnectionInv, TypeOK, WriteDone
<1>5. OneInFlight'
  BY <1>3 DEF OneInFlight
<1>6. \A i \in 1 .. Len(delivered') : i \in 1 .. Len(delivered) \/ i = Len(delivered) + 1
  BY <1>2
<1>7. /\ \A i \in 1 .. Len(out) : out[i] \in Int
      /\ \A i \in 1 .. Len(delivered) : delivered[i] \in Int
      /\ inflight[1] \in Int /\ 1 \in 1 .. Len(inflight) /\ Len(out) \in Nat
  <2>1. 1 \in 1 .. Len(inflight)
    BY <1>1
  <2> QED BY <1>1, <2>1, FramesAreNumbers
<1>8. ASSUME code' = Alive PROVE NoHole'
  <2>1. NoHole
    BY <1>8 DEF ConnectionInv, WriteDone
  <2>2. offered' = Len(delivered') + Len(inflight') + Len(out')
    BY <1>1, <1>2, <1>3, <1>7, <2>1 DEF NoHole
  <2>3. \A i \in 1 .. Len(delivered') : delivered'[i] = i
    BY <1>2, <1>6, <1>7, <2>1 DEF NoHole
  <2>4. \A i \in 1 .. Len(inflight') : inflight'[i] = Len(delivered') + i
    BY <1>3
  <2>5. \A i \in 1 .. Len(out') : out'[i] = Len(delivered') + Len(inflight') + i
    BY <1>1, <1>2, <1>3, <1>7, <2>1 DEF NoHole
  <2> QED BY <2>2, <2>3, <2>4, <2>5 DEF NoHole
<1> QED BY <1>4, <1>5, <1>8 DEF ConnectionInv

(* What was in flight is lost, and the client with it.                      *)
LEMMA FailsInv == ASSUME ConnectionInv, WriteFails PROVE ConnectionInv'
<1>1. code' \in Codes /\ code' # Alive
  BY KillType, CodesNotAlive DEF ConnectionInv, TypeOK, WriteFails
<1>2. inflight' = << >> /\ Len(inflight') = 0 /\ 1 .. Len(inflight') = {}
  BY DEF WriteFails
<1>3. TypeOK'
  BY <1>1, <1>2 DEF ConnectionInv, TypeOK, WriteFails
<1>4. OneInFlight'
  BY <1>2 DEF OneInFlight
<1> QED BY <1>1, <1>3, <1>4 DEF ConnectionInv

(* The other steps touch no frame and revive nobody.                        *)
LEMMA OtherInv ==
    ASSUME ConnectionInv,
           \/ HubKill \/ PumpCancelled \/ PumpCloses \/ TickRejects \/ TickPings
           \/ PongArrives \/ PingFails \/ Reader \/ PeerLeaves \/ TokenDies
           \/ UNCHANGED vars
    PROVE  ConnectionInv'
<1>1. UNCHANGED pipeVars
  BY DEF HubKill, PumpCancelled, PumpCloses, TickRejects, TickPings, PongArrives, PingFails,
         Reader, ReadFrame, Handled, ReadFails, ReadBinary, HandlerReturns,
         PeerLeaves, TokenDies, pipeVars, vars
<1>2. \/ UNCHANGED code
      \/ Kill(ServerError) \/ Kill(ProtocolError) \/ Kill(TokenExpired)
  BY DEF HubKill, PumpCancelled, PumpCloses, TickRejects, TickPings, PongArrives, PingFails,
         Reader, ReadFrame, Handled, ReadFails, ReadBinary, HandlerReturns,
         PeerLeaves, TokenDies, vars
<1>3. code' \in Codes \union {Alive} /\ (code' = Alive => code = Alive)
  BY <1>2, KillType, CodesNotAlive DEF ConnectionInv, TypeOK
<1>4. /\ sock' \in {"open", "closed"}
      /\ pump' \in {"select", "write", "ping", "gone"}
      /\ reader' \in {"read", "handle", "closing", "gone"}
  BY DEF ConnectionInv, TypeOK, HubKill, PumpCancelled, PumpCloses, TickRejects, TickPings,
         PongArrives, PingFails, Reader, ReadFrame, Handled, ReadFails, ReadBinary,
         HandlerReturns, PeerLeaves, TokenDies, vars
<1>5. cancelled' \in BOOLEAN /\ token' \in BOOLEAN /\ ticked' \in BOOLEAN
  BY DEF ConnectionInv, TypeOK, HubKill, PumpCancelled, PumpCloses, TickRejects, TickPings,
         PongArrives, PingFails, Reader, ReadFrame, Handled, ReadFails, ReadBinary,
         HandlerReturns, PeerLeaves, TokenDies, vars
<1>6. pump' = "write" <=> pump = "write"
  BY DEF HubKill, PumpCancelled, PumpCloses, TickRejects, TickPings,
         PongArrives, PingFails, Reader, ReadFrame, Handled, ReadFails, ReadBinary,
         HandlerReturns, PeerLeaves, TokenDies, vars
<1>7. TypeOK'
  BY <1>1, <1>3, <1>4, <1>5, <1>6 DEF ConnectionInv, TypeOK, pipeVars
<1> QED BY <1>1, <1>3, <1>7, Untouched

LEMMA NextConnection == ConnectionInv /\ [Next]_vars => ConnectionInv'
<1> SUFFICES ASSUME ConnectionInv, [Next]_vars PROVE ConnectionInv'
  OBVIOUS
<1>1. CASE Send
  BY <1>1, SendInv
<1>2. CASE PumpTakes
  BY <1>2, TakesInv
<1>3. CASE WriteDone
  BY <1>3, DoneInv
<1>4. CASE WriteFails
  BY <1>4, FailsInv
<1>5. CASE \/ HubKill \/ PumpCancelled \/ PumpCloses \/ TickRejects \/ TickPings
           \/ PongArrives \/ PingFails \/ Reader \/ PeerLeaves \/ TokenDies
           \/ UNCHANGED vars
  BY <1>5, OtherInv
<1> QED BY <1>1, <1>2, <1>3, <1>4, <1>5 DEF Next, Pump

(* The pipeline of frames keeps its shape on every connection.              *)
THEOREM ConnectionInductive == Spec => []ConnectionInv
BY InitConnection, NextConnection, PTL DEF Spec

(* Every variable of a connection keeps its type, and the queue its bound.  *)
THEOREM ConnectionTypeCorrect == Spec => []TypeOK
<1>1. ConnectionInv => TypeOK
  BY DEF ConnectionInv
<1> QED BY <1>1, ConnectionInductive, PTL

(* send and the write pump lose nothing on a live connection.               *)
THEOREM NothingLost == Spec => []NothingLostAlive
<1>1. ConnectionInv => NothingLostAlive
  <2> SUFFICES ASSUME ConnectionInv, code = Alive
               PROVE  delivered \o inflight \o out = [i \in 1 .. offered |-> i]
    BY DEF NothingLostAlive
  <2> DEFINE front == delivered \o inflight
             pipe == front \o out
  <2>1. NoHole
    BY DEF ConnectionInv
  <2>2. /\ delivered \in Seq(1 .. MaxFrames) /\ inflight \in Seq(1 .. MaxFrames)
        /\ out \in Seq(1 .. MaxFrames)
        /\ Len(delivered) \in Nat /\ Len(inflight) \in Nat /\ Len(out) \in Nat
    BY DEF ConnectionInv, TypeOK
  <2>3. /\ front \in Seq(1 .. MaxFrames)
        /\ Len(front) = Len(delivered) + Len(inflight)
        /\ \A i \in 1 .. Len(delivered) : front[i] = delivered[i]
        /\ \A i \in 1 .. Len(inflight) : front[Len(delivered) + i] = inflight[i]
    BY <2>2, Concatenated
  <2>4. \A i \in 1 .. Len(front) : front[i] = i
    <3> SUFFICES ASSUME NEW i \in 1 .. Len(front) PROVE front[i] = i
      OBVIOUS
    <3>1. CASE i \in 1 .. Len(delivered)
      BY <2>1, <2>3, <3>1 DEF NoHole
    <3>2. CASE i \notin 1 .. Len(delivered)
      <4>1. /\ i - Len(delivered) \in 1 .. Len(inflight)
            /\ Len(delivered) + (i - Len(delivered)) = i
        BY <2>2, <2>3, <3>2
      <4> HIDE DEF front
      <4> QED BY <2>1, <2>3, <4>1 DEF NoHole
    <3> QED BY <3>1, <3>2
  <2> HIDE DEF front
  <2>5. /\ pipe \in Seq(1 .. MaxFrames) /\ Len(pipe) = Len(front) + Len(out)
        /\ \A i \in 1 .. Len(front) : pipe[i] = front[i]
        /\ \A i \in 1 .. Len(out) : pipe[Len(front) + i] = out[i]
    BY <2>2, <2>3, Concatenated
  <2>6. Len(pipe) = offered
    BY <2>1, <2>3, <2>5 DEF NoHole
  <2>7. \A i \in 1 .. offered : pipe[i] = i
    <3> SUFFICES ASSUME NEW i \in 1 .. offered PROVE pipe[i] = i
      OBVIOUS
    <3>1. CASE i \in 1 .. Len(front)
      BY <2>4, <2>5, <3>1
    <3>2. CASE i \notin 1 .. Len(front)
      <4>1. i - Len(front) \in 1 .. Len(out) /\ Len(front) + (i - Len(front)) = i
        BY <2>2, <2>3, <2>5, <2>6, <3>2
      <4> HIDE DEF pipe
      <4> QED BY <2>1, <2>2, <2>3, <2>5, <4>1 DEF NoHole
    <3> QED BY <3>1, <3>2
  <2> HIDE DEF pipe
  <2>8. pipe = [i \in 1 .. offered |-> i]
    BY <2>5, <2>6, <2>7
  <2> QED BY <2>8 DEF pipe, front
<1> QED BY <1>1, ConnectionInductive, PTL
=============================================================================
