------------------------------ MODULE HubProofs ------------------------------
(***************************************************************************)
(* Proofs about Hub, for any number of clients, room names and rooms, any   *)
(* capacity of the activity channel and any number of join attempts.        *)
(*                                                                         *)
(* The properties speak of rooms, registry and sessions at once, and each   *)
(* goroutine changes only its own part.  The inductive invariant says what  *)
(* holds between the parts while a change is on its way from one to the     *)
(* other.                                                                   *)
(***************************************************************************)
EXTENDS Hub, TLAPS

(* A session deals with a room: it is in it, or was handed it for a join.   *)
Refers(c, i) == room[c] = i \/ got[c] = i

(* The room has told the session it is in, read or unread.                  *)
Subscribed(c, i) == room[c] = i \/ (got[c] = i /\ verdict[c] = "ok")

(* The room's goroutine may still write, or still has to evict itself.      *)
Up(i) == state[i] \notin {"refusing", "closed"}

(* A room with nothing to do and out of every session's reach.              *)
Orphan(i) ==
    /\ state[i] = "running" /\ members[i] = {}
    /\ \A c \in Clients : ~Refers(c, i)

(* What a session's place says of its other variables.                      *)
SessionInv ==
    \A c \in Clients :
        /\ got[c] # None <=> pc[c] \in {"roomJoin", "joinReply"}
        /\ room[c] # None => pc[c] \in {"idle", "submit", "leave", "closeLeave"}
        /\ pc[c] \in {"submit", "leave", "closeLeave"} => room[c] # None
        /\ got[c] # None => want[c] = name[got[c]]
        /\ verdict[c] = "ok" => pc[c] = "joinReply"

(* A room that is opening has somebody waiting for it, and one that is busy *)
(* somebody in it: neither can look unoccupied to a sweep.                  *)
RoomInv ==
    \A i \in Slots :
        /\ state[i] = "closed" => ~stopping[i]
        /\ state[i] \in {"opening", "evictOpen", "refusing", "closed"} => members[i] = {}
        /\ state[i] \in {"opening", "evictOpen"} =>
              \E c \in Clients : got[c] = i /\ pc[c] = "roomJoin"
        /\ state[i] \in {"handling", "notify", "evictFatal"} => \E c \in Clients : room[c] = i

(* A room's members are the sessions it has told so; a session that was     *)
(* told so and whose room has ended has had its client killed.              *)
MemberInv ==
    \A i \in Slots : \A c \in Clients :
        /\ c \in members[i] => Subscribed(c, i)
        /\ Subscribed(c, i) => IF state[i] = "closed" THEN c \in killed ELSE c \in members[i]

(* The registry's table holds rooms that are up, under their own names.     *)
TableInv ==
    \A n \in Names : LET i == table[n] IN
        i # None => phase = "run" /\ name[i] = n /\ Up(i) /\ ~stopping[i]

(* The registry records a session in the room it deals with, from before it *)
(* asks the room until after it left; while that room is up it is the one   *)
(* in the table.                                                            *)
RecordInv ==
    \A c \in Clients :
        IF phase = "run"
        THEN \A i \in Slots : Refers(c, i) =>
                recorded[c] = name[i] /\ (Up(i) => table[name[i]] = i)
        ELSE recorded[c] = Absent

(* A room that is up is in the table or was told to stop.                   *)
Tracked == \A i \in Slots : Up(i) => stopping[i] \/ table[name[i]] = i

(* A room is told to stop when nobody can reach it, or at the shutdown,     *)
(* which kills everybody who can.                                           *)
StopInv ==
    \A i \in Slots : stopping[i] =>
        /\ phase = "run" => Orphan(i)
        /\ \A c \in Clients : Refers(c, i) => c \in killed

(* Of two rooms of a name that are up, one has nothing to do for ever.      *)
OneWriter ==
    \A i, j \in Slots : i # j /\ name[i] = name[j] /\ Up(i) /\ Up(j) => Orphan(i) \/ Orphan(j)

(* A counter falls behind its file only in a room that will not use it.     *)
CounterInv ==
    \A i \in behind : state[i] = "evictFatal" \/ (Orphan(i) /\ stopping[i])

(* The inductive invariant.  MembersRecorded alone is not inductive: the    *)
(* record is made before the room is asked, so sessions on their way have   *)
(* to be followed (RecordInv), a sweep in between must find them recorded   *)
(* (RoomInv), and an eviction by name must not hit a successor (Tracked,    *)
(* OneWriter).                                                              *)
HubInv ==
    /\ TypeOK
    /\ SessionInv
    /\ RoomInv
    /\ MemberInv
    /\ TableInv
    /\ RecordInv
    /\ Tracked
    /\ StopInv
    /\ OneWriter
    /\ CounterInv

(* No room is up and no session has begun.                                  *)
LEMMA InitHub == Init => HubInv
<1> SUFFICES ASSUME Init PROVE HubInv
  OBVIOUS
<1>1. TypeOK
  BY HubAssumption DEF Init, TypeOK, States, PCs, None
<1>2. SessionInv /\ RoomInv
  BY DEF Init, SessionInv, RoomInv
<1>3. MemberInv
  BY HubAssumption DEF Init, MemberInv, Subscribed, None
<1>4. TableInv /\ Tracked /\ StopInv /\ OneWriter /\ CounterInv
  BY DEF Init, TableInv, Tracked, StopInv, OneWriter, CounterInv, Up
<1>5. RecordInv
  BY HubAssumption DEF Init, RecordInv, Refers, None
<1> QED BY <1>1, <1>2, <1>3, <1>4, <1>5 DEF HubInv

-----------------------------------------------------------------------------
(* Sessions and the registry.                                               *)

(* A session without a room tells the registry so (Add, Remove, RegLeave):  *)
(* nothing refers to what the record changes.                               *)
LEMMA CommandInv ==
    ASSUME HubInv, NEW c \in Clients, pc[c] \in {"new", "remove", "regLeave"},
           NEW next \in {"idle", "gone", "lookup"}, NEW r \in {Nowhere, Absent},
           recorded' = IF phase = "run" THEN [recorded EXCEPT ![c] = r] ELSE recorded,
           Goto(c, next),
           UNCHANGED <<phase, table, notes, roomVars, room, want, got, tries, verdict, killed>>
    PROVE  HubInv'
<1>1. TypeOK'
  BY DEF HubInv, TypeOK, Goto, roomVars, PCs
<1>2. SessionInv'
  BY DEF HubInv, Goto, roomVars, SessionInv
<1>3. RoomInv'
  BY DEF HubInv, Goto, roomVars, RoomInv
<1>4. RecordInv'
  BY HubAssumption DEF HubInv, roomVars, RecordInv, SessionInv, Refers, Up, None
<1>5. /\ MemberInv' /\ TableInv' /\ Tracked' /\ StopInv'
      /\ OneWriter' /\ CounterInv'
  BY DEF roomVars, HubInv, MemberInv, TableInv, Tracked, StopInv, OneWriter, CounterInv, Refers,
         Subscribed, Up, Orphan
<1> QED BY <1>1, <1>2, <1>3, <1>4, <1>5 DEF HubInv

(* A session starts on a frame, or waits for a reply that will not come     *)
(* (StartJoin, StartSubmit, StartClose, LookupDropped): only its place      *)
(* changes, and what it wants.                                              *)
LEMMA StartInv ==
    ASSUME HubInv, NEW c \in Clients, pc[c] \in {"idle", "lookup"},
           NEW next \in {"lookup", "leave", "submit", "closeLeave", "remove", "reply"},
           room[c] # None <=> next \in {"leave", "submit", "closeLeave"},
           NEW w \in Names \union {Invalid}, want' = [want EXCEPT ![c] = w], Goto(c, next),
           UNCHANGED <<registryVars, roomVars, room, got, tries, verdict, killed>>
    PROVE  HubInv'
<1>1. TypeOK'
  BY DEF HubInv, TypeOK, Goto, registryVars, roomVars, PCs
<1>2. SessionInv'
  BY DEF HubInv, Goto, roomVars, SessionInv, TypeOK
<1>3. RoomInv'
  BY DEF HubInv, Goto, roomVars, RoomInv
<1>4. /\ MemberInv' /\ TableInv' /\ RecordInv' /\ Tracked'
      /\ StopInv' /\ OneWriter' /\ CounterInv'
  BY DEF registryVars, roomVars, HubInv, MemberInv, TableInv, RecordInv, Tracked, StopInv,
         OneWriter, CounterInv, Refers, Subscribed, Up, Orphan
<1> QED BY <1>1, <1>2, <1>3, <1>4 DEF HubInv

(* A join the registry does not answer ends (LookupRefused, ReplyRefused).  *)
LEMMA RefusedInv ==
    ASSUME HubInv, NEW c \in Clients, pc[c] \in {"lookup", "reply"}, EndJoin(c),
           UNCHANGED <<registryVars, roomVars, room, killed>>
    PROVE  HubInv'
<1>1. TypeOK'
  BY HubAssumption DEF HubInv, TypeOK, EndJoin, Goto, registryVars, roomVars, None, PCs
<1>2. SessionInv'
  BY DEF HubInv, EndJoin, Goto, roomVars, SessionInv, TypeOK
<1>3. RoomInv'
  BY DEF HubInv, EndJoin, Goto, roomVars, RoomInv
<1>4. MemberInv'
  BY DEF HubInv, EndJoin, roomVars, MemberInv, SessionInv, Subscribed
<1>5. RecordInv'
  BY HubAssumption DEF HubInv, EndJoin, registryVars, roomVars, RecordInv, TypeOK, Refers, Up,
         None
<1>6. StopInv'
  BY HubAssumption DEF HubInv, EndJoin, registryVars, roomVars, StopInv, TypeOK, Refers, Orphan,
         None
<1>7. OneWriter'
  BY HubAssumption DEF HubInv, EndJoin, roomVars, OneWriter, TypeOK, Refers, Up, Orphan, None
<1>8. CounterInv'
  BY HubAssumption DEF HubInv, EndJoin, roomVars, CounterInv, TypeOK, Refers, Orphan, None
<1>9. TableInv' /\ Tracked'
  BY DEF HubInv, registryVars, roomVars, TableInv, Tracked, Up
<1> QED BY <1>1, <1>2, <1>3, <1>4, <1>5, <1>6, <1>7, <1>8, <1>9 DEF HubInv

(* Lookup, of a room that is there: it is not stopping, so every other room *)
(* of the name is out of reach.                                             *)
LEMMA KnownRoomInv ==
    ASSUME HubInv, NEW c \in Clients, pc[c] = "lookup", phase = "run", want[c] # Invalid,
           table[want[c]] # None, HandOut(c, table[want[c]]), Goto(c, "roomJoin"),
           UNCHANGED <<table, roomVars, phase, notes, room, want, tries, verdict, killed>>
    PROVE  HubInv'
<1>1. TypeOK'
  BY DEF HubInv, TypeOK, HandOut, Goto, roomVars, PCs
<1>2. SessionInv'
  BY DEF HubInv, HandOut, Goto, roomVars, SessionInv, TableInv, TypeOK
<1>3. RoomInv'
  BY DEF HubInv, HandOut, Goto, roomVars, RoomInv
<1>4. MemberInv'
  BY DEF HubInv, HandOut, roomVars, MemberInv, SessionInv, Subscribed
<1>5. RecordInv'
  BY HubAssumption DEF HubInv, HandOut, roomVars, RecordInv, SessionInv, TableInv, TypeOK,
         Refers, Up, None
<1>6. StopInv'
  BY DEF HubInv, HandOut, roomVars, StopInv, TableInv, TypeOK, Refers, Orphan
<1>7. OneWriter'
  BY DEF HubInv, HandOut, roomVars, OneWriter, TableInv, Tracked, StopInv, TypeOK, Refers, Up,
         Orphan
<1>8. CounterInv'
  BY DEF HubInv, HandOut, roomVars, CounterInv, TableInv, TypeOK, Refers, Orphan
<1>9. TableInv' /\ Tracked'
  BY DEF HubInv, roomVars, TableInv, Tracked, Up
<1> QED BY <1>1, <1>2, <1>3, <1>4, <1>5, <1>6, <1>7, <1>8, <1>9 DEF HubInv

(* Lookup, of a room that is not: its goroutine is started in a free slot.  *)
LEMMA NewRoomInv ==
    ASSUME HubInv, NEW c \in Clients, pc[c] = "lookup", phase = "run", want[c] # Invalid,
           table[want[c]] = None, NEW x \in Slots, Free(x), HandOut(c, x),
           table' = [table EXCEPT ![want[c]] = x], name' = [name EXCEPT ![x] = want[c]],
           state' = [state EXCEPT ![x] = "opening"], Goto(c, "roomJoin"),
           UNCHANGED <<members, stopping, behind, phase, notes, room, want, tries, verdict, killed>>
    PROVE  HubInv'
<1>1. TypeOK'
  BY DEF HubInv, TypeOK, HandOut, Goto, States, PCs
<1>2. SessionInv'
  BY DEF HubInv, HandOut, Goto, Free, SessionInv, RoomInv, RecordInv, TypeOK
<1>3. RoomInv'
  BY DEF HubInv, HandOut, Goto, Free, RoomInv, SessionInv, TypeOK
<1>4. MemberInv'
  BY DEF HubInv, HandOut, Free, MemberInv, SessionInv, Subscribed
<1>5. TableInv'
  BY DEF HubInv, Free, TableInv, RoomInv, TypeOK, Up
<1>6. RecordInv'
  BY HubAssumption DEF HubInv, HandOut, Free, RecordInv, SessionInv, TypeOK, Refers, Up, None
<1>7. Tracked'
  BY HubAssumption DEF HubInv, Tracked, TypeOK, Up, None
<1>8. StopInv'
  BY DEF HubInv, HandOut, Free, StopInv, Refers, Orphan
<1>9. OneWriter'
  BY HubAssumption DEF HubInv, HandOut, OneWriter, Tracked, StopInv, TypeOK, Refers, Up, Orphan,
         None
<1>10. CounterInv'
  BY DEF HubInv, HandOut, Free, CounterInv, Refers, Orphan
<1> QED BY <1>1, <1>2, <1>3, <1>4, <1>5, <1>6, <1>7, <1>8, <1>9, <1>10 DEF HubInv

(* Room.Leave.                                                              *)
LEMMA LeaveRoomInv ==
    ASSUME HubInv, NEW c \in Clients, LeaveRoom(c)
    PROVE  HubInv'
<1>1. TypeOK'
  BY DEF HubInv, TypeOK, LeaveRoom, Goto, registryVars, PCs
<1>2. SessionInv'
  BY DEF HubInv, LeaveRoom, Goto, SessionInv, TypeOK
<1>3. RoomInv'
  BY DEF HubInv, LeaveRoom, Goto, RoomInv, TypeOK
<1>4. MemberInv'
  BY HubAssumption DEF HubInv, LeaveRoom, MemberInv, SessionInv, RoomInv, TypeOK, Subscribed,
         None
<1>5. RecordInv'
  BY HubAssumption DEF HubInv, LeaveRoom, registryVars, RecordInv, TypeOK, Refers, Up, None
<1>6. StopInv'
  BY HubAssumption DEF HubInv, LeaveRoom, registryVars, StopInv, SessionInv, TypeOK, Refers,
         Orphan, None
<1>7. OneWriter'
  BY HubAssumption DEF HubInv, LeaveRoom, OneWriter, TypeOK, Refers, Up, Orphan, None
<1>8. CounterInv'
  BY HubAssumption DEF HubInv, LeaveRoom, CounterInv, TypeOK, Refers, Orphan, None
<1>9. TableInv' /\ Tracked'
  BY DEF HubInv, LeaveRoom, registryVars, TableInv, Tracked, Up
<1> QED BY <1>1, <1>2, <1>3, <1>4, <1>5, <1>6, <1>7, <1>8, <1>9 DEF HubInv

(* Room.Submit.                                                             *)
LEMMA SubmitInv ==
    ASSUME HubInv, NEW c \in Clients, Submit(c)
    PROVE  HubInv'
<1>1. TypeOK'
  BY DEF HubInv, TypeOK, Submit, Goto, registryVars, States, PCs
<1>2. SessionInv'
  BY DEF HubInv, Submit, Goto, SessionInv
<1>3. RoomInv'
  BY DEF HubInv, Submit, Goto, RoomInv, TypeOK
<1>4. MemberInv'
  BY DEF HubInv, Submit, MemberInv, TypeOK, Subscribed
<1>5. TableInv'
  BY DEF HubInv, Submit, registryVars, TableInv, TypeOK, Up
<1>6. RecordInv'
  BY DEF HubInv, Submit, registryVars, RecordInv, TypeOK, Refers, Up
<1>7. Tracked'
  BY DEF HubInv, Submit, registryVars, Tracked, TypeOK, Up
<1>8. StopInv'
  BY DEF HubInv, Submit, registryVars, StopInv, TypeOK, Refers, Orphan
<1>9. OneWriter'
  BY DEF HubInv, Submit, OneWriter, TypeOK, Refers, Up, Orphan
<1>10. CounterInv'
  BY DEF HubInv, Submit, CounterInv, SessionInv, TypeOK, Refers, Orphan
<1> QED BY <1>1, <1>2, <1>3, <1>4, <1>5, <1>6, <1>7, <1>8, <1>9, <1>10 DEF HubInv

(* Room.Join, the request.                                                  *)
LEMMA RegisterInv ==
    ASSUME HubInv, NEW c \in Clients, Register(c)
    PROVE  HubInv'
<1>1. TypeOK'
  BY DEF HubInv, TypeOK, Register, Goto, registryVars, PCs
<1>2. SessionInv'
  BY DEF HubInv, Register, Goto, SessionInv, TypeOK
<1>3. RoomInv'
  BY DEF HubInv, Register, Goto, RoomInv, TypeOK
<1>4. MemberInv'
  BY DEF HubInv, Register, MemberInv, SessionInv, TypeOK, Subscribed
<1>5. StopInv'
  BY DEF HubInv, Register, registryVars, StopInv, TypeOK, Refers, Orphan
<1>6. OneWriter'
  BY DEF HubInv, Register, OneWriter, TypeOK, Refers, Up, Orphan
<1>7. CounterInv'
  BY DEF HubInv, Register, CounterInv, TypeOK, Refers, Orphan
<1>8. TableInv' /\ RecordInv' /\ Tracked'
  BY DEF HubInv, Register, registryVars, TableInv, RecordInv, Tracked, Refers, Up
<1> QED BY <1>1, <1>2, <1>3, <1>4, <1>5, <1>6, <1>7, <1>8 DEF HubInv

(* Room.Join, the reply.                                                    *)
LEMMA JoinedInv ==
    ASSUME HubInv, NEW c \in Clients, Joined(c)
    PROVE  HubInv'
<1>1. TypeOK'
  BY HubAssumption DEF HubInv, TypeOK, Joined, EndJoin, Goto, registryVars, roomVars, PCs
<1>2. SessionInv'
  BY DEF HubInv, Joined, EndJoin, Goto, roomVars, SessionInv, TypeOK
<1>3. RoomInv'
  BY HubAssumption DEF HubInv, Joined, EndJoin, Goto, roomVars, RoomInv, SessionInv, None
<1>4. MemberInv'
  BY HubAssumption DEF HubInv, Joined, EndJoin, roomVars, MemberInv, SessionInv, TypeOK,
         Subscribed, None
<1>5. RecordInv'
  BY HubAssumption DEF HubInv, Joined, EndJoin, registryVars, roomVars, RecordInv, TypeOK,
         Refers, Up, None
<1>6. StopInv'
  BY HubAssumption DEF HubInv, Joined, EndJoin, registryVars, roomVars, StopInv, Refers, Orphan,
         None
<1>7. OneWriter'
  BY HubAssumption DEF HubInv, Joined, EndJoin, roomVars, OneWriter, Refers, Up, Orphan, None
<1>8. CounterInv'
  BY HubAssumption DEF HubInv, Joined, EndJoin, roomVars, CounterInv, TypeOK, Refers, Orphan,
         None
<1>9. TableInv' /\ Tracked'
  BY DEF HubInv, Joined, registryVars, roomVars, TableInv, Tracked, Up
<1> QED BY <1>1, <1>2, <1>3, <1>4, <1>5, <1>6, <1>7, <1>8, <1>9 DEF HubInv

(* The room ended first: whoever was subscribed in it was killed for it.    *)
LEMMA RetryInv ==
    ASSUME HubInv, NEW c \in Clients, Retry(c)
    PROVE  HubInv'
<1>1. TypeOK'
  BY HubAssumption DEF HubInv, TypeOK, Retry, EndJoin, Goto, registryVars, roomVars, PCs
<1>2. SessionInv'
  BY DEF HubInv, Retry, EndJoin, Goto, roomVars, SessionInv, TypeOK
<1>3. RoomInv'
  BY DEF HubInv, Retry, EndJoin, Goto, roomVars, RoomInv, TypeOK
<1>4. MemberInv'
  BY HubAssumption DEF HubInv, Retry, EndJoin, roomVars, MemberInv, SessionInv, RoomInv, TypeOK,
         Subscribed, None
<1>5. RecordInv'
  BY HubAssumption DEF HubInv, Retry, EndJoin, registryVars, roomVars, RecordInv, TypeOK,
         Refers, Up, None
<1>6. StopInv'
  BY HubAssumption DEF HubInv, Retry, EndJoin, registryVars, roomVars, StopInv, SessionInv,
         TypeOK, Refers, Orphan, None
<1>7. OneWriter'
  BY HubAssumption DEF HubInv, Retry, EndJoin, roomVars, OneWriter, TypeOK, Refers, Up, Orphan,
         None
<1>8. CounterInv'
  BY HubAssumption DEF HubInv, Retry, EndJoin, roomVars, CounterInv, TypeOK, Refers, Orphan,
         None
<1>9. TableInv' /\ Tracked'
  BY DEF HubInv, Retry, registryVars, roomVars, TableInv, Tracked, Up
<1> QED BY <1>1, <1>2, <1>3, <1>4, <1>5, <1>6, <1>7, <1>8, <1>9 DEF HubInv

-----------------------------------------------------------------------------
(* Rooms.                                                                   *)

(* A room goes on with its work (OpenRoom, OpenFails, Publish, HandleOther, *)
(* HandleFatal, Notify). It had something to do, so it is not out of reach, *)
(* and a counter that falls behind is none it will use.                     *)
LEMMA RoomMovesInv ==
    ASSUME HubInv, NEW x \in Slots, state[x] \in {"opening", "handling", "notify"},
           NEW next \in {"running", "notify", "evictOpen", "evictFatal"}, Enter(x, next),
           next = "evictOpen" => state[x] = "opening",
           next \in {"notify", "evictFatal"} => state[x] = "handling",
           notes' \in 0 .. ActivityCap, behind' \subseteq Slots, CounterInv',
           UNCHANGED <<phase, table, recorded, name, members, stopping, sessionVars, killed>>
    PROVE  HubInv'
<1>1. TypeOK'
  BY DEF HubInv, TypeOK, Enter, sessionVars, States
<1>2. RoomInv'
  BY DEF HubInv, Enter, sessionVars, RoomInv, TypeOK
<1>3. MemberInv'
  BY DEF HubInv, Enter, sessionVars, MemberInv, TypeOK, Subscribed
<1>4. TableInv'
  BY DEF HubInv, Enter, TableInv, TypeOK, Up
<1>5. RecordInv'
  BY DEF HubInv, Enter, sessionVars, RecordInv, TypeOK, Refers, Up
<1>6. Tracked'
  BY DEF HubInv, Enter, Tracked, TypeOK, Up
<1>7. StopInv'
  BY DEF HubInv, Enter, sessionVars, StopInv, TypeOK, Refers, Orphan
<1>8. OneWriter'
  BY DEF HubInv, Enter, sessionVars, OneWriter, TypeOK, Refers, Up, Orphan
<1>9. SessionInv' /\ CounterInv'
  BY DEF HubInv, sessionVars, SessionInv
<1> QED BY <1>1, <1>2, <1>3, <1>4, <1>5, <1>6, <1>7, <1>8, <1>9 DEF HubInv

(* A room that had something to do was not out of reach, so its counter had *)
(* not fallen behind.                                                       *)
LEMMA CounterKept ==
    ASSUME HubInv, NEW x \in Slots, state[x] \in {"opening", "handling", "notify"},
           NEW next, Enter(x, next), behind' \subseteq behind \union {x},
           x \in behind' => next = "evictFatal",
           UNCHANGED <<members, stopping, sessionVars>>
    PROVE  CounterInv'
  BY DEF HubInv, TypeOK, CounterInv, Orphan, Refers, Enter, sessionVars

(* A published frame passes the counters of the other rooms of its name     *)
(* that are up.  They have all been told to stop, with nobody in reach.     *)
LEMMA PublishInv ==
    ASSUME HubInv, NEW x \in Slots, Publish(x)
    PROVE  HubInv'
<1>1. state[x] = "handling" /\ Up(x) /\ ~Orphan(x)
  BY DEF Publish, Up, Orphan
<1>2. ASSUME NEW j \in Slots \ {x}, name[j] = name[x], Live(j)
      PROVE  Orphan(j) /\ stopping[j] /\ state'[j] = state[j]
  <2>1. Up(j) /\ state'[j] = state[j]
    BY <1>2 DEF Live, Up, Publish, Enter, HubInv, TypeOK
  <2>2. Orphan(j)
    BY <1>1, <1>2, <2>1 DEF HubInv, OneWriter
  <2>3. stopping[j] \/ table[name[j]] = j
    BY <2>1 DEF HubInv, Tracked
  <2>4. PICK c \in Clients : room[c] = x
    BY <1>1 DEF HubInv, RoomInv
  <2>5. phase = "run" => table[name[x]] = x
    BY <1>1, <2>4 DEF HubInv, RecordInv, Refers
  <2>6. phase # "run" => table[name[j]] = None
    BY DEF HubInv, TableInv, TypeOK
  <2>7. None \notin Slots
    BY HubAssumption DEF None
  <2> QED BY <1>2, <2>1, <2>2, <2>3, <2>5, <2>6, <2>7
<1>3. behind' = behind \union {j \in Slots \ {x} : name[j] = name[x] /\ Live(j)}
  BY DEF Publish
<1>4. behind' \subseteq Slots
  BY <1>3 DEF HubInv, TypeOK
<1>5. CounterInv'
  <2> SUFFICES ASSUME NEW i \in behind'
               PROVE  (state[i] = "evictFatal" \/ (Orphan(i) /\ stopping[i]))'
    BY DEF CounterInv
  <2>1. CASE i \in behind
    <3>1. state[i] = "evictFatal" \/ (Orphan(i) /\ stopping[i])
      BY <2>1 DEF HubInv, CounterInv
    <3>2. i # x
      BY <1>1, <3>1
    <3>3. state'[i] = state[i]
      BY <1>4, <3>2 DEF Publish, Enter, HubInv, TypeOK
    <3> QED BY <3>1, <3>3 DEF Publish, Orphan, Refers, sessionVars
  <2>2. CASE i \in Slots \ {x} /\ name[i] = name[x] /\ Live(i)
    BY <1>2, <2>2 DEF Publish, Orphan, Refers, sessionVars
  <2> QED BY <1>3, <2>1, <2>2
<1>6. /\ Enter(x, "notify") /\ notes' \in 0 .. ActivityCap
      /\ UNCHANGED <<phase, table, recorded, name, members, stopping, sessionVars, killed>>
  BY DEF Publish, registryVars, HubInv, TypeOK
<1> QED BY <1>1, <1>4, <1>5, <1>6, RoomMovesInv

(* The other steps of a room at work.                                       *)
LEMMA RoomWorkInv ==
    ASSUME HubInv, NEW x \in Slots,
           OpenRoom(x) \/ OpenFails(x) \/ HandleOther(x) \/ HandleFatal(x) \/ Notify(x)
    PROVE  HubInv'
<1>1. notes \in 0 .. ActivityCap /\ behind \subseteq Slots /\ ActivityCap \in Nat
  BY HubAssumption DEF HubInv, TypeOK
<1>2. state[x] \in {"opening", "handling", "notify"} => x \notin behind
  BY DEF HubInv, CounterInv, Orphan
<1>3. CASE OpenRoom(x)
  <2>1. /\ state[x] = "opening" /\ Enter(x, "running") /\ notes' = notes
        /\ behind' = behind \ {x}
        /\ UNCHANGED <<phase, table, recorded, name, members, stopping, sessionVars, killed>>
    BY <1>3 DEF OpenRoom, registryVars
  <2>2. CounterInv'
    BY <2>1, CounterKept
  <2> QED BY <1>1, <2>1, <2>2, RoomMovesInv
<1>4. CASE OpenFails(x)
  <2>1. /\ state[x] = "opening" /\ Enter(x, "evictOpen") /\ notes' = notes /\ behind' = behind
        /\ UNCHANGED <<phase, table, recorded, name, members, stopping, sessionVars, killed>>
    BY <1>4 DEF OpenFails, registryVars
  <2>2. CounterInv'
    BY <1>2, <2>1, CounterKept
  <2> QED BY <1>1, <2>1, <2>2, RoomMovesInv
<1>5. CASE HandleOther(x)
  <2>1. /\ state[x] = "handling" /\ Enter(x, "running") /\ notes' = notes /\ behind' = behind
        /\ UNCHANGED <<phase, table, recorded, name, members, stopping, sessionVars, killed>>
    BY <1>5 DEF HandleOther, registryVars
  <2>2. CounterInv'
    BY <1>2, <2>1, CounterKept
  <2> QED BY <1>1, <2>1, <2>2, RoomMovesInv
<1>6. CASE HandleFatal(x)
  <2>1. /\ state[x] = "handling" /\ Enter(x, "evictFatal") /\ notes' = notes
        /\ behind' = behind \union {x}
        /\ UNCHANGED <<phase, table, recorded, name, members, stopping, sessionVars, killed>>
    BY <1>6 DEF HandleFatal, registryVars
  <2>2. CounterInv'
    BY <2>1, CounterKept
  <2> QED BY <1>1, <2>1, <2>2, RoomMovesInv
<1>7. CASE Notify(x)
  <2>1. /\ state[x] = "notify" /\ Enter(x, "running") /\ behind' = behind
        /\ UNCHANGED <<phase, table, recorded, name, members, stopping, sessionVars, killed>>
    BY <1>7 DEF Notify
  <2>2. notes' \in 0 .. ActivityCap
    BY <1>1, <1>7 DEF Notify
  <2>3. CounterInv'
    BY <1>2, <2>1, CounterKept
  <2> QED BY <1>1, <2>1, <2>2, <2>3, RoomMovesInv
<1> QED BY <1>3, <1>4, <1>5, <1>6, <1>7

(* failOpen evicts by name: the name is still the room's own, since whoever *)
(* waits for it keeps it in the table.                                      *)
LEMMA EvictUnopenedInv ==
    ASSUME HubInv, NEW x \in Slots, EvictUnopened(x)
    PROVE  HubInv'
<1>1. TypeOK'
  BY DEF HubInv, TypeOK, EvictUnopened, Enter, Forget, sessionVars, States
<1>2. RoomInv'
  BY DEF HubInv, EvictUnopened, Enter, sessionVars, RoomInv
<1>3. MemberInv'
  BY DEF HubInv, EvictUnopened, Enter, sessionVars, MemberInv, SessionInv, Subscribed
<1>4. TableInv'
  BY DEF HubInv, EvictUnopened, Enter, Forget, TableInv, TypeOK, Up
<1>5. RecordInv'
  BY DEF HubInv, EvictUnopened, Enter, Forget, sessionVars, RecordInv, RoomInv, TypeOK, Refers,
         Up
<1>6. Tracked'
  BY DEF HubInv, EvictUnopened, Enter, Forget, Tracked, RoomInv, RecordInv, TypeOK, Refers, Up
<1>7. StopInv'
  BY DEF HubInv, EvictUnopened, Enter, sessionVars, StopInv, Refers, Orphan
<1>8. OneWriter'
  BY DEF HubInv, EvictUnopened, Enter, sessionVars, OneWriter, Refers, Up, Orphan
<1>9. CounterInv'
  BY DEF HubInv, EvictUnopened, Enter, sessionVars, CounterInv, Refers, Orphan
<1>10. SessionInv'
  BY DEF HubInv, EvictUnopened, sessionVars, SessionInv
<1> QED BY <1>1, <1>2, <1>3, <1>4, <1>5, <1>6, <1>7, <1>8, <1>9, <1>10 DEF HubInv

(* failOpen is done.                                                        *)
LEMMA StopRefusingInv ==
    ASSUME HubInv, NEW x \in Slots, StopRefusing(x)
    PROVE  HubInv'
<1>1. TypeOK'
  BY DEF HubInv, TypeOK, StopRefusing, End, registryVars, sessionVars, States
<1>2. RoomInv'
  BY DEF HubInv, StopRefusing, End, sessionVars, RoomInv, TypeOK
<1>3. MemberInv'
  BY DEF HubInv, StopRefusing, End, sessionVars, MemberInv, RoomInv, Subscribed
<1>4. TableInv'
  BY DEF HubInv, StopRefusing, End, registryVars, TableInv, Up
<1>5. RecordInv'
  BY DEF HubInv, StopRefusing, End, registryVars, sessionVars, RecordInv, Refers, Up
<1>6. Tracked'
  BY DEF HubInv, StopRefusing, End, registryVars, Tracked, Up
<1>7. StopInv'
  BY DEF HubInv, StopRefusing, End, registryVars, sessionVars, StopInv, Refers, Orphan
<1>8. OneWriter'
  BY DEF HubInv, StopRefusing, End, sessionVars, OneWriter, Refers, Up, Orphan
<1>9. CounterInv'
  BY DEF HubInv, StopRefusing, End, sessionVars, CounterInv, Refers, Orphan
<1>10. SessionInv'
  BY DEF HubInv, StopRefusing, registryVars, sessionVars, SessionInv
<1> QED BY <1>1, <1>2, <1>3, <1>4, <1>5, <1>6, <1>7, <1>8, <1>9, <1>10 DEF HubInv

(* failFatal evicts by name as well; whoever asked for the frame keeps the  *)
(* room in the table.                                                       *)
LEMMA EvictFailedInv ==
    ASSUME HubInv, NEW x \in Slots, EvictFailed(x)
    PROVE  HubInv'
<1>1. TypeOK'
  BY DEF HubInv, TypeOK, EvictFailed, End, Forget, sessionVars, States
<1>2. RoomInv'
  BY DEF HubInv, EvictFailed, End, sessionVars, RoomInv, TypeOK
<1>3. MemberInv'
  BY DEF HubInv, EvictFailed, End, sessionVars, MemberInv, TypeOK, Subscribed
<1>4. TableInv'
  BY DEF HubInv, EvictFailed, End, Forget, TableInv, TypeOK, Up
<1>5. RecordInv'
  BY DEF HubInv, EvictFailed, End, Forget, sessionVars, RecordInv, RoomInv, TypeOK, Refers, Up
<1>6. Tracked'
  BY DEF HubInv, EvictFailed, End, Forget, Tracked, RoomInv, RecordInv, TypeOK, Refers, Up
<1>7. StopInv'
  BY DEF HubInv, EvictFailed, End, sessionVars, StopInv, Refers, Orphan
<1>8. OneWriter'
  BY DEF HubInv, EvictFailed, End, sessionVars, OneWriter, Refers, Up, Orphan
<1>9. CounterInv'
  BY DEF HubInv, EvictFailed, End, sessionVars, CounterInv, Refers, Orphan
<1>10. SessionInv'
  BY DEF HubInv, EvictFailed, sessionVars, SessionInv
<1> QED BY <1>1, <1>2, <1>3, <1>4, <1>5, <1>6, <1>7, <1>8, <1>9, <1>10 DEF HubInv

(* A room that was told to stop ends without killing: whoever is in it was  *)
(* killed by the shutdown.                                                  *)
LEMMA StopRoomInv ==
    ASSUME HubInv, NEW x \in Slots, StopRoom(x)
    PROVE  HubInv'
<1>1. TypeOK'
  BY DEF HubInv, TypeOK, StopRoom, End, registryVars, sessionVars, States
<1>2. RoomInv'
  BY DEF HubInv, StopRoom, End, sessionVars, RoomInv, TypeOK
<1>3. MemberInv'
  BY DEF HubInv, StopRoom, End, sessionVars, MemberInv, StopInv, TypeOK, Refers, Subscribed
<1>4. TableInv'
  BY DEF HubInv, StopRoom, End, registryVars, TableInv, Up
<1>5. RecordInv'
  BY DEF HubInv, StopRoom, End, registryVars, sessionVars, RecordInv, Refers, Up
<1>6. Tracked'
  BY DEF HubInv, StopRoom, End, registryVars, Tracked, TypeOK, Up
<1>7. StopInv'
  BY DEF HubInv, StopRoom, End, registryVars, sessionVars, StopInv, TypeOK, Refers, Orphan
<1>8. OneWriter'
  BY DEF HubInv, StopRoom, End, sessionVars, OneWriter, Refers, Up, Orphan
<1>9. CounterInv'
  BY DEF HubInv, StopRoom, End, sessionVars, CounterInv, Refers, Orphan
<1>10. SessionInv'
  BY DEF HubInv, StopRoom, sessionVars, SessionInv
<1> QED BY <1>1, <1>2, <1>3, <1>4, <1>5, <1>6, <1>7, <1>8, <1>9, <1>10 DEF HubInv

-----------------------------------------------------------------------------
(* The registry.                                                            *)

(* An activity note is taken.                                               *)
LEMMA TakeNoteInv ==
    ASSUME HubInv, TakeNote
    PROVE  HubInv'
<1>1. TypeOK'
  BY HubAssumption DEF HubInv, TypeOK, TakeNote, roomVars, sessionVars
<1>2. /\ SessionInv' /\ RoomInv' /\ MemberInv' /\ TableInv'
      /\ RecordInv' /\ Tracked' /\ StopInv' /\ OneWriter' /\ CounterInv'
  BY DEF HubInv, TakeNote, roomVars, sessionVars, SessionInv, RoomInv, MemberInv, TableInv,
         RecordInv, Tracked, StopInv, OneWriter, CounterInv, Orphan, Refers, Subscribed, Up
<1> QED BY <1>1, <1>2 DEF HubInv

(* A sweep stops a room nobody is recorded in: nobody deals with it, so it  *)
(* is neither opening nor busy.                                             *)
LEMMA SweepInv ==
    ASSUME HubInv, NEW n \in Names, Sweep(n)
    PROVE  HubInv'
<1>1. TypeOK'
  BY DEF HubInv, TypeOK, Sweep, sessionVars
<1>2. RoomInv'
  BY DEF HubInv, Sweep, sessionVars, RoomInv, TableInv, Up
<1>3. TableInv'
  BY DEF HubInv, Sweep, TableInv, TypeOK, Up
<1>4. RecordInv'
  BY DEF HubInv, Sweep, Occupied, sessionVars, RecordInv, Refers, Up
<1>5. Tracked'
  BY DEF HubInv, Sweep, sessionVars, Tracked, TypeOK, Up
<1>6. StopInv'
  <2> DEFINE x == table[n]
  <2>1. /\ x \in Slots /\ name[x] = n /\ Up(x) /\ phase = "run" /\ phase' = phase
        /\ stopping' = [stopping EXCEPT ![x] = TRUE]
        /\ UNCHANGED <<state, members, room, got, killed>>
    BY DEF Sweep, HubInv, TypeOK, TableInv, sessionVars
  <2>2. \A c \in Clients : ~Refers(c, x)
    BY <2>1 DEF Sweep, Occupied, HubInv, RecordInv
  <2>3. members[x] = {}
    BY <2>1, <2>2 DEF HubInv, TypeOK, MemberInv, Subscribed, Refers
  <2>4. state[x] = "running"
    BY <2>1, <2>2 DEF HubInv, TypeOK, States, RoomInv, Up, Refers
  <2> HIDE DEF x
  <2> QED BY <2>1, <2>2, <2>3, <2>4 DEF HubInv, TypeOK, StopInv, Orphan, Refers
<1>7. CounterInv'
  BY DEF HubInv, Sweep, sessionVars, CounterInv, Refers, Orphan
<1>8. SessionInv' /\ MemberInv' /\ OneWriter'
  BY DEF HubInv, Sweep, sessionVars, SessionInv, MemberInv, OneWriter, Orphan, Refers,
         Subscribed, Up
<1> QED BY <1>1, <1>2, <1>3, <1>4, <1>5, <1>6, <1>7, <1>8 DEF HubInv

(* The shutdown stops every room in the table and kills everybody recorded, *)
(* members or on their way.                                                 *)
LEMMA ShutdownInv ==
    ASSUME HubInv, Shutdown
    PROVE  HubInv'
<1>1. TypeOK'
  BY DEF HubInv, TypeOK, Shutdown, sessionVars
<1>2. RoomInv'
  BY HubAssumption DEF HubInv, Shutdown, sessionVars, RoomInv, TableInv, TypeOK, Up, None
<1>3. MemberInv'
  BY DEF HubInv, Shutdown, sessionVars, MemberInv, Subscribed
<1>4. TableInv'
  BY DEF HubInv, Shutdown, TableInv
<1>5. RecordInv'
  BY DEF HubInv, Shutdown, RecordInv
<1>6. Tracked'
  BY DEF HubInv, Shutdown, Tracked, TypeOK, Up
<1>7. StopInv'
  BY NamesAssumption DEF HubInv, Shutdown, sessionVars, StopInv, RecordInv, TypeOK, Refers
<1>8. CounterInv'
  BY DEF HubInv, Shutdown, sessionVars, CounterInv, TypeOK, Refers, Orphan
<1>9. SessionInv' /\ OneWriter'
  BY DEF HubInv, Shutdown, sessionVars, SessionInv, OneWriter, Orphan, Refers, Up
<1> QED BY <1>1, <1>2, <1>3, <1>4, <1>5, <1>6, <1>7, <1>8, <1>9 DEF HubInv

(* The registry is done.                                                    *)
LEMMA DrainedInv ==
    ASSUME HubInv, Drained
    PROVE  HubInv'
<1>1. TypeOK'
  BY DEF HubInv, TypeOK, Drained, roomVars, sessionVars
<1>2. TableInv'
  BY DEF HubInv, Drained, TableInv
<1>3. RecordInv'
  BY DEF HubInv, Drained, RecordInv
<1>4. StopInv'
  BY DEF HubInv, Drained, roomVars, sessionVars, StopInv, Refers
<1>5. /\ SessionInv' /\ RoomInv' /\ MemberInv' /\ Tracked'
      /\ OneWriter' /\ CounterInv'
  BY DEF HubInv, Drained, roomVars, sessionVars, SessionInv, RoomInv, MemberInv, Tracked,
         OneWriter, CounterInv, Orphan, Refers, Subscribed, Up
<1> QED BY <1>1, <1>2, <1>3, <1>4, <1>5 DEF HubInv

-----------------------------------------------------------------------------
(* Every step preserves the invariant.                                      *)
LEMMA NextHub ==
    ASSUME HubInv, [Next]_vars
    PROVE  HubInv'
<1>1. ASSUME NEW c \in Clients, SessionStep(c) PROVE HubInv'
  <2>1. CASE Add(c) \/ Remove(c) \/ RegLeave(c)
    BY <2>1, CommandInv DEF Add, Remove, RegLeave
  <2>2. CASE Lookup(c)
    <3>1. CASE table[want[c]] # None
      BY <2>2, <3>1, KnownRoomInv DEF Lookup
    <3>2. CASE table[want[c]] = None
      <4>1. PICK x \in Slots :
               /\ Free(x) /\ HandOut(c, x)
               /\ table' = [table EXCEPT ![want[c]] = x]
               /\ name' = [name EXCEPT ![x] = want[c]]
               /\ state' = [state EXCEPT ![x] = "opening"]
               /\ UNCHANGED <<members, stopping, behind>>
        BY <2>2, <3>2 DEF Lookup
      <4>2. /\ pc[c] = "lookup" /\ phase = "run" /\ want[c] # Invalid /\ Goto(c, "roomJoin")
            /\ UNCHANGED <<phase, notes, room, want, tries, verdict, killed>>
        BY <2>2 DEF Lookup
      <4> QED BY <3>2, <4>1, <4>2, NewRoomInv
    <3> QED BY <3>1, <3>2
  <2>3. CASE LookupDropped(c)
    <3>1. want' = [want EXCEPT ![c] = want[c]] /\ want[c] \in Names \union {Invalid}
      BY <2>3 DEF LookupDropped, HubInv, TypeOK
    <3>2. room[c] = None
      BY <2>3 DEF LookupDropped, HubInv, SessionInv
    <3> QED BY <2>3, <3>1, <3>2, StartInv DEF LookupDropped
  <2>4. CASE LookupRefused(c) \/ ReplyRefused(c)
    BY <2>4, RefusedInv DEF LookupRefused, ReplyRefused
  <2>5. CASE LeaveRoom(c) \/ Submit(c) \/ Register(c) \/ Joined(c) \/ Retry(c)
    BY <2>5, LeaveRoomInv, SubmitInv, RegisterInv, JoinedInv, RetryInv
  <2> QED BY <1>1, <2>1, <2>2, <2>3, <2>4, <2>5 DEF SessionStep
<1>2. ASSUME NEW c \in Clients, ClientStep(c) PROVE HubInv'
  <2>1. want[c] \in Names \union {Invalid} /\ want = [want EXCEPT ![c] = want[c]]
    BY DEF HubInv, TypeOK
  <2>2. CASE \E n \in Names \union {Invalid} : StartJoin(c, n)
    BY <2>2, StartInv DEF StartJoin
  <2>3. CASE StartSubmit(c)
    BY <2>1, <2>3, StartInv DEF StartSubmit
  <2>4. CASE StartClose(c)
    BY <2>1, <2>4, StartInv DEF StartClose
  <2> QED BY <1>2, <2>2, <2>3, <2>4 DEF ClientStep
<1>3. ASSUME NEW x \in Slots, RoomStep(x) \/ StopRoom(x) PROVE HubInv'
  BY <1>3, RoomWorkInv, PublishInv, EvictUnopenedInv, StopRefusingInv, EvictFailedInv, StopRoomInv
     DEF RoomStep
<1>4. CASE (\E n \in Names : Sweep(n)) \/ TakeNote \/ Shutdown \/ Drained
  BY <1>4, SweepInv, TakeNoteInv, ShutdownInv, DrainedInv
<1>5. CASE UNCHANGED vars
  <2>1. TypeOK' /\ SessionInv' /\ RoomInv' /\ MemberInv' /\ TableInv'
    BY <1>5 DEF HubInv, vars, registryVars, roomVars, sessionVars, TypeOK, SessionInv, RoomInv,
                MemberInv, TableInv, Subscribed, Up
  <2>2. RecordInv' /\ Tracked' /\ StopInv' /\ OneWriter' /\ CounterInv'
    BY <1>5 DEF HubInv, vars, registryVars, roomVars, sessionVars, RecordInv, Tracked, StopInv,
                OneWriter, CounterInv, Refers, Up, Orphan
  <2> QED BY <2>1, <2>2 DEF HubInv
<1> QED BY <1>1, <1>2, <1>3, <1>4, <1>5 DEF Next

(* What the hub's goroutines maintain together.                             *)
THEOREM HubInductive == Spec => []HubInv
<1>1. HubInv /\ [Next]_vars => HubInv'
  BY NextHub
<1> QED BY InitHub, <1>1, PTL DEF Spec

(* Type correctness of registry, rooms and sessions.                        *)
THEOREM HubTypes == Spec => []TypeOK
<1>1. HubInv => TypeOK
  BY DEF HubInv
<1> QED BY <1>1, HubInductive, PTL

(* The registry's records never lag behind a room's members: no sweep       *)
(* closes a room under somebody (registry.go sweep, session.go join).       *)
THEOREM SweepsSafely == Spec => []MembersRecorded
<1>1. HubInv => MembersRecorded
  <2> SUFFICES ASSUME HubInv, NEW i \in Slots, Live(i), phase = "run", NEW c \in members[i]
               PROVE  recorded[c] = name[i] /\ table[name[i]] = i
    BY DEF MembersRecorded
  <2>1. c \in Clients /\ Up(i)
    BY DEF HubInv, TypeOK, Live, Up
  <2>2. Refers(c, i)
    BY <2>1 DEF HubInv, MemberInv, Subscribed, Refers
  <2> QED BY <2>1, <2>2 DEF HubInv, RecordInv
<1> QED BY <1>1, HubInductive, PTL

(* A room about to append is its archive's only writer, with a counter that *)
(* is the file's, also while a swept predecessor of its name still runs and *)
(* during the shutdown (room.go handle, registry.go sweep).                 *)
THEOREM WritesAlone == Spec => []SingleWriter
<1>1. HubInv => SingleWriter
  <2> SUFFICES ASSUME HubInv, NEW i \in Slots, state[i] = "handling"
               PROVE  /\ i \notin behind
                      /\ \A j \in Slots \ {i} : name[j] = name[i] =>
                            /\ state[j] \notin {"opening", "handling"}
                            /\ Live(j) => members[j] = {} /\ \A c \in Clients : j \notin {room[c], got[c]}
    BY DEF SingleWriter
  <2>1. Up(i) /\ ~Orphan(i)
    BY DEF Up, Orphan
  <2>2. i \notin behind
    BY <2>1 DEF HubInv, CounterInv
  <2>3. ASSUME NEW j \in Slots \ {i}, name[j] = name[i]
        PROVE  /\ state[j] \notin {"opening", "handling"}
               /\ Live(j) => members[j] = {} /\ \A c \in Clients : j \notin {room[c], got[c]}
    <3>1. Up(j) => Orphan(j)
      BY <2>1, <2>3 DEF HubInv, OneWriter
    <3> QED BY <3>1 DEF Up, Orphan, Live, Refers
  <2> QED BY <2>2, <2>3
<1> QED BY <1>1, HubInductive, PTL

(* An eviction by name never hits another room (room.go failOpen and        *)
(* failFatal, registry.go evictRoomCmd).                                    *)
THEOREM EvictsOwnName == Spec => []EvictsItself
<1>1. HubInv => EvictsItself
  <2> SUFFICES ASSUME HubInv, NEW i \in Slots, state[i] \in {"evictOpen", "evictFatal"}, phase = "run"
               PROVE  table[name[i]] = i
    BY DEF EvictsItself
  <2>1. PICK c \in Clients : Refers(c, i)
    BY DEF HubInv, RoomInv, Refers
  <2>2. Up(i)
    BY DEF Up
  <2> QED BY <2>1, <2>2 DEF HubInv, RecordInv
<1> QED BY <1>1, HubInductive, PTL

(* Every room goroutine can be reached by the registry's stop, or has been. *)
THEOREM RoomsTracked == Spec => []NoOrphanRoom
<1>1. HubInv => NoOrphanRoom
  <2> SUFFICES ASSUME HubInv, NEW i \in Slots, Live(i) \/ state[i] = "opening"
               PROVE  stopping[i] \/ (phase = "run" /\ table[name[i]] = i)
    BY DEF NoOrphanRoom
  <2>1. stopping[i] \/ table[name[i]] = i
    BY DEF HubInv, Tracked, Live, Up
  <2>2. table[name[i]] = i => phase = "run"
    BY HubAssumption DEF HubInv, TypeOK, TableInv, None
  <2> QED BY <2>1, <2>2
<1> QED BY <1>1, HubInductive, PTL

(* A session in a room that ended has a client that was killed, so the      *)
(* connection closes and the client comes back (room.go failFatal,          *)
(* registry.go shutdown).                                                   *)
THEOREM DeadRoomsNoticed == Spec => []DeadRoomNoticed
<1>1. HubInv => DeadRoomNoticed
  <2> SUFFICES ASSUME HubInv, NEW c \in Clients, room[c] # None
               PROVE  IF state[room[c]] = "closed" THEN c \in killed ELSE c \in members[room[c]]
    BY DEF DeadRoomNoticed
  <2>1. room[c] \in Slots
    BY DEF HubInv, TypeOK
  <2> QED BY <2>1 DEF HubInv, MemberInv, Subscribed
<1> QED BY <1>1, HubInductive, PTL
=============================================================================
