---------------------------- MODULE RelayProofs ----------------------------
(***************************************************************************)
(* TLAPS proofs about Relay, for any number of connections, rooms, names   *)
(* and frames, and, last, about the life of a room (RoomLife), for any     *)
(* TTL: the age that pruneRooms goes by is never ahead of the time the     *)
(* room has really been quiet.                                             *)
(***************************************************************************)
EXTENDS RoomLife, FiniteSetTheorems, TLAPS

-----------------------------------------------------------------------------
(* What the helpers preserve.                                              *)

(* A snapshot lists only complete members.                                 *)
LEMMA SnapshotType ==
  ASSUME TypeOK, NEW S \in SUBSET Conn
  PROVE  Snapshot(S) \in SUBSET Member
BY NullFresh DEF Snapshot, TypeOK, ConnData, Member

(* A frame to one connection keeps the queues well typed.                  *)
LEMMA ReplyType ==
  ASSUME TypeOK, NEW ws \in Conn, NEW m \in OutboundMsg, Reply(ws, m)
  PROVE  out' \in [Conn -> Seq(OutboundMsg)]
BY DEF Reply, TypeOK

(* Refreshing lastActivity changes no room's connections.                  *)
LEMMA TouchType ==
  ASSUME TypeOK, NEW ws \in Conn, InRoom(ws), Touch(ws)
  PROVE  /\ DOMAIN rooms' = DOMAIN rooms
         /\ rooms' \in [DOMAIN rooms -> Room]
         /\ \A r \in DOMAIN rooms : rooms'[r].conns = rooms[r].conns
<1>1. 0 \in 0 .. RoomTtl + 1
  BY LimitsNat
<1>2. QED
  BY <1>1 DEF TypeOK, InRoom, Touch, Room

(* Storing a well-formed ConnData.                                         *)
LEMMA StoreDataType ==
  ASSUME TypeOK, NEW ws \in Conn, NEW d \in ConnData, StoreData(ws, d)
  PROVE  /\ data' \in [Conn -> ConnData]
         /\ data'[ws] = d
         /\ \A c \in Conn \ {ws} : data'[c] = data[c]
BY DEF TypeOK, StoreData

(* Closing a socket.                                                       *)
LEMMA CloseSocketType ==
  ASSUME TypeOK, NEW ws \in Conn, CloseSocket(ws)
  PROVE  /\ sock' \in [Conn -> {"new", "open", "closing", "closed"}]
         /\ sock'[ws] = "closing"
         /\ \A c \in Conn \ {ws} : sock'[c] = sock[c]
BY DEF TypeOK, CloseSocket

-----------------------------------------------------------------------------
(* Type correctness, one lemma per handler.                                *)

(* A version mismatch costs the sender its socket and touches no room.     *)
LEMMA WrongVersionType ==
  ASSUME TypeOK, NEW ws \in Conn, NEW m, WrongVersion(ws, m)
  PROVE  TypeOK'
<1>1. out' \in [Conn -> Seq(OutboundMsg)]
  <2>1. [type |-> "error", reason |-> "version_mismatch"] \in OutboundMsg
    BY DEF OutboundMsg
  <2>2. QED
    BY <2>1, ReplyType DEF WrongVersion, Error
<1>2. QED
  BY <1>1, CloseSocketType DEF WrongVersion, TypeOK

(* handleCreate adds one empty room under a fresh id.                      *)
LEMMA CreateType ==
  ASSUME TypeOK, NEW ws \in Conn, NEW m \in CreateMsg, HandleCreate(ws, m)
  PROVE  TypeOK'
<1>1. CASE WrongVersion(ws, m)
  BY <1>1, WrongVersionType
<1>2. CASE Error(ws, "forbidden") /\ UNCHANGED <<rooms, created, sock, data>>
  <2>1. [type |-> "error", reason |-> "forbidden"] \in OutboundMsg
    BY DEF OutboundMsg
  <2>2. out' \in [Conn -> Seq(OutboundMsg)]
    BY <1>2, <2>1, ReplyType DEF Error
  <2>3. QED
    BY <1>2, <2>2 DEF TypeOK
<1>3. CASE /\ \E r \in RoomId \ created :
                /\ rooms' = [x \in DOMAIN rooms \cup {r} |->
                     IF x = r THEN [conns |-> {}, idle |-> 0] ELSE rooms[x]]
                /\ created' = created \cup {r}
                /\ Reply(ws, [type |-> "room_created", roomId |-> r,
                              roomSecret |-> r])
           /\ UNCHANGED <<sock, data>>
  <2>1. PICK r \in RoomId \ created :
          /\ rooms' = [x \in DOMAIN rooms \cup {r} |->
               IF x = r THEN [conns |-> {}, idle |-> 0] ELSE rooms[x]]
          /\ created' = created \cup {r}
          /\ Reply(ws, [type |-> "room_created", roomId |-> r, roomSecret |-> r])
    BY <1>3
  <2>2. [type |-> "room_created", roomId |-> r, roomSecret |-> r] \in OutboundMsg
    BY DEF OutboundMsg
  <2>3. out' \in [Conn -> Seq(OutboundMsg)]
    BY <2>1, <2>2, ReplyType
  <2>4. [conns |-> {}, idle |-> 0] \in Room
    BY LimitsNat DEF Room
  <2>5. rooms' \in [DOMAIN rooms' -> Room]
    BY <2>1, <2>4 DEF TypeOK
  <2>6. QED
    BY <1>3, <2>1, <2>3, <2>5 DEF TypeOK
<1>4. QED
  BY <1>1, <1>2, <1>3 DEF HandleCreate

(* handleJoin adds the socket to the room it names.                        *)
LEMMA JoinType ==
  ASSUME TypeOK, NEW ws \in Conn, NEW m \in JoinMsg, HandleJoin(ws, m)
  PROVE  TypeOK'
<1>1. CASE WrongVersion(ws, m)
  BY <1>1, WrongVersionType
<1>2. CASE /\ JoinRefusal(ws, m) # "none"
           /\ Error(ws, JoinRefusal(ws, m))
           /\ UNCHANGED <<rooms, created, sock, data>>
  <2>1. [type |-> "error", reason |-> JoinRefusal(ws, m)] \in OutboundMsg
    BY <1>2 DEF OutboundMsg, JoinRefusal
  <2>2. out' \in [Conn -> Seq(OutboundMsg)]
    BY <1>2, <2>1, ReplyType DEF Error
  <2>3. QED
    BY <1>2, <2>2 DEF TypeOK
<1>3. CASE /\ JoinRefusal(ws, m) = "none"
           /\ rooms' = [rooms EXCEPT ![m.roomId] =
                               [conns |-> @.conns \cup {ws}, idle |-> 0]]
           /\ StoreData(ws, [data[ws] EXCEPT !.roomId = m.roomId])
           /\ Reply(ws, [type |-> "joined",
                         members |-> Snapshot(rooms[m.roomId].conns)])
           /\ UNCHANGED <<created, sock>>
  <2>1. m.roomId \in DOMAIN rooms /\ m.roomId \in RoomId
    BY <1>3 DEF JoinRefusal, JoinMsg
  <2>2. Snapshot(rooms[m.roomId].conns) \in SUBSET Member
    BY <2>1, SnapshotType DEF TypeOK, Room
  <2>3. [type |-> "joined", members |-> Snapshot(rooms[m.roomId].conns)]
          \in OutboundMsg
    BY <2>2 DEF OutboundMsg
  <2>4. out' \in [Conn -> Seq(OutboundMsg)]
    BY <1>3, <2>3, ReplyType
  <2>5. [data[ws] EXCEPT !.roomId = m.roomId] \in ConnData
    BY <2>1 DEF TypeOK, ConnData
  <2>6. data' \in [Conn -> ConnData]
    BY <1>3, <2>5, StoreDataType
  <2>7. /\ DOMAIN rooms' = DOMAIN rooms
        /\ rooms' \in [DOMAIN rooms -> Room]
    BY <1>3, <2>1, LimitsNat DEF TypeOK, Room
  <2>8. QED
    BY <1>3, <2>4, <2>6, <2>7 DEF TypeOK
<1>4. QED
  BY <1>1, <1>2, <1>3 DEF HandleJoin
(* handleIdentify: silent drop, close, username_taken, or the new identity *)
(* announced to everyone else in the room.                                 *)
LEMMA IdentifyType ==
  ASSUME TypeOK, NEW ws \in Conn, NEW m \in IdentifyMsg, HandleIdentify(ws, m)
  PROVE  TypeOK'
<1> DEFINE u == Canon[m.username]
<1>1. CASE Drop
  BY <1>1 DEF TypeOK, Drop, vars
<1>2. CASE CloseSocket(ws) /\ UNCHANGED <<rooms, created, data, out>>
  BY <1>2, CloseSocketType DEF TypeOK
<1>3. CASE /\ InRoom(ws) /\ Touch(ws) /\ Error(ws, "username_taken")
           /\ UNCHANGED <<created, sock, data>>
  <2>1. [type |-> "error", reason |-> "username_taken"] \in OutboundMsg
    BY DEF OutboundMsg
  <2>2. out' \in [Conn -> Seq(OutboundMsg)]
    BY <1>3, <2>1, ReplyType DEF Error
  <2>3. QED
    BY <1>3, <2>2, TouchType DEF TypeOK
<1>4. CASE /\ InRoom(ws) /\ IdentifyValid(m) /\ Touch(ws)
           /\ StoreData(ws, [roomId |-> data[ws].roomId, username |-> u,
                             ek |-> m.ek, ratchetEk |-> m.ratchetEk,
                             claim |-> m.claim])
           /\ Fanout(Others(ws),
                LAMBDA c : [type |-> "peer_joined", username |-> u, ek |-> m.ek,
                            ratchetEk |-> m.ratchetEk, claim |-> m.claim])
           /\ UNCHANGED <<created, sock>>
  <2>1. /\ u \in Name /\ m.ek \in Ek /\ m.ratchetEk \in Ek /\ m.claim \in Claim
        /\ data[ws].roomId \in RoomId \cup {Null}
    BY <1>4, CanonType DEF IdentifyValid, IdentifyMsg, TypeOK, ConnData
  <2>2. [type |-> "peer_joined", username |-> u, ek |-> m.ek,
         ratchetEk |-> m.ratchetEk, claim |-> m.claim] \in OutboundMsg
    BY <2>1 DEF OutboundMsg
  <2>3. out' \in [Conn -> Seq(OutboundMsg)]
    BY <1>4, <2>2 DEF Fanout, TypeOK
  <2>4. data' \in [Conn -> ConnData]
    BY <1>4, <2>1 DEF StoreData, TypeOK, ConnData
  <2>5. QED
    BY <1>4, <2>3, <2>4, TouchType DEF TypeOK
<1>5. QED
  BY <1>1, <1>2, <1>3, <1>4 DEF HandleIdentify

(* handleRatchetStep stores the sender's new key and claim and forwards    *)
(* each named member its own payload.                                      *)
LEMMA RatchetStepType ==
  ASSUME TypeOK, NEW ws \in Conn, NEW m \in RatchetStepMsg,
         HandleRatchetStep(ws, m)
  PROVE  TypeOK'
<1>1. CASE Drop
  BY <1>1 DEF TypeOK, Drop, vars
<1>2. CASE ~Drop
  <2>1. /\ Identified(ws) /\ Touch(ws)
        /\ StoreKeys(ws, data[ws].ek, m.newEk, m.claim)
        /\ UNCHANGED <<created, sock>>
    BY <1>2 DEF HandleRatchetStep, Fanout
  <2>2. /\ data[ws].username \in Name /\ m.newEk \in Ek /\ m.sig \in Sig
        /\ m.claim \in Claim
        /\ \A n \in DOMAIN m.payloads : m.payloads[n] \in Payload
    <3>1. PICK S \in SUBSET Name : m.payloads \in [S -> Payload]
      BY DEF RatchetStepMsg
    <3>2. m.newEk \in Ek /\ m.sig \in Sig /\ m.claim \in Claim
      BY DEF RatchetStepMsg
    <3>3. data[ws].username \in Name
      BY <2>1 DEF Identified, TypeOK, ConnData
    <3>4. QED
      BY <3>1, <3>2, <3>3
  <2>3. \A c \in Conn : data[c].username \in DOMAIN m.payloads =>
          [type |-> "ratchet_step_fwd", from |-> data[ws].username,
           payload |-> m.payloads[data[c].username], newEk |-> m.newEk,
           sig |-> m.sig, claim |-> m.claim] \in OutboundMsg
    BY <2>2 DEF OutboundMsg
  <2>4. out' \in [Conn -> Seq(OutboundMsg)]
    <3>1. out' = [c \in Conn |->
            IF /\ c \in {x \in Others(ws) : data[x].username \in DOMAIN m.payloads}
               /\ sock[c] = "open"
            THEN Append(out[c],
                   [type |-> "ratchet_step_fwd", from |-> data[ws].username,
                    payload |-> m.payloads[data[c].username], newEk |-> m.newEk,
                    sig |-> m.sig, claim |-> m.claim])
            ELSE out[c]]
      BY <1>2 DEF HandleRatchetStep, Fanout
    <3>2. QED
      BY <2>3, <3>1 DEF TypeOK
  <2>5. data' \in [Conn -> ConnData]
    BY <2>1, <2>2 DEF StoreKeys, StoreData, TypeOK, ConnData
  <2>6. QED
    BY <2>1, <2>4, <2>5, TouchType DEF TypeOK, Identified
<1>3. QED
  BY <1>1, <1>2

(* handleEkUpdate.                                                         *)
LEMMA EkUpdateType ==
  ASSUME TypeOK, NEW ws \in Conn, NEW m \in EkUpdateMsg, HandleEkUpdate(ws, m)
  PROVE  TypeOK'
<1>1. CASE Drop
  BY <1>1 DEF TypeOK, Drop, vars
<1>2. CASE ~Drop
  <2>1. /\ Identified(ws) /\ Touch(ws)
        /\ StoreKeys(ws, data[ws].ek, m.ek, m.claim)
        /\ UNCHANGED <<created, sock>>
    BY <1>2 DEF HandleEkUpdate, Fanout
  <2>2. data[ws].username \in Name /\ m.ek \in Ek /\ m.claim \in Claim
    BY <2>1 DEF EkUpdateMsg, Identified, TypeOK, ConnData
  <2>3. [type |-> "ek_update_fwd", from |-> data[ws].username, ek |-> m.ek,
         claim |-> m.claim] \in OutboundMsg
    BY <2>2 DEF OutboundMsg
  <2>4. out' \in [Conn -> Seq(OutboundMsg)]
    <3>1. out' = [c \in Conn |->
            IF c \in Others(ws) /\ sock[c] = "open"
            THEN Append(out[c], [type |-> "ek_update_fwd",
                                 from |-> data[ws].username, ek |-> m.ek,
                                 claim |-> m.claim])
            ELSE out[c]]
      BY <1>2 DEF HandleEkUpdate, Fanout
    <3>2. QED
      BY <2>3, <3>1 DEF TypeOK
  <2>5. data' \in [Conn -> ConnData]
    BY <2>1, <2>2 DEF StoreKeys, StoreData, TypeOK, ConnData
  <2>6. QED
    BY <2>1, <2>4, <2>5, TouchType DEF TypeOK, Identified
<1>3. QED
  BY <1>1, <1>2

(* handleRelay.                                                            *)
LEMMA RelayType ==
  ASSUME TypeOK, NEW ws \in Conn, NEW m \in RelayMsg, HandleRelay(ws, m)
  PROVE  TypeOK'
<1>1. CASE Drop
  BY <1>1 DEF TypeOK, Drop, vars
<1>2. CASE ~Drop
  <2>1. Identified(ws) /\ Touch(ws) /\ UNCHANGED <<created, sock, data>>
    BY <1>2 DEF HandleRelay, Fanout
  <2>2. [type |-> "relay", from |-> data[ws].username, payload |-> m.payload]
          \in OutboundMsg
    BY <2>1 DEF RelayMsg, Identified, TypeOK, ConnData, OutboundMsg
  <2>3. out' \in [Conn -> Seq(OutboundMsg)]
    <3>1. CASE UNCHANGED out
      BY <3>1 DEF TypeOK
    <3>2. CASE \E c : out' = [x \in Conn |->
                 IF x \in {c} /\ sock[x] = "open"
                 THEN Append(out[x], [type |-> "relay", from |-> data[ws].username,
                                      payload |-> m.payload])
                 ELSE out[x]]
      BY <2>2, <3>2 DEF TypeOK
    <3>3. QED
      BY <1>2, <3>1, <3>2 DEF HandleRelay, Fanout
  <2>4. QED
    BY <2>1, <2>3, TouchType DEF TypeOK, Identified
<1>3. QED
  BY <1>1, <1>2

(* handleBroadcast.                                                        *)
LEMMA BroadcastType ==
  ASSUME TypeOK, NEW ws \in Conn, NEW m \in BroadcastMsg, HandleBroadcast(ws, m)
  PROVE  TypeOK'
<1>1. CASE Drop
  BY <1>1 DEF TypeOK, Drop, vars
<1>2. CASE ~Drop
  <2>1. Identified(ws) /\ Touch(ws) /\ UNCHANGED <<created, sock, data>>
    BY <1>2 DEF HandleBroadcast, Fanout
  <2>2. [type |-> "broadcast", from |-> data[ws].username,
         payload |-> m.payload, sig |-> m.sig] \in OutboundMsg
    BY <2>1 DEF BroadcastMsg, Identified, TypeOK, ConnData, OutboundMsg
  <2>3. out' = [c \in Conn |->
          IF c \in Others(ws) /\ sock[c] = "open"
          THEN Append(out[c], [type |-> "broadcast", from |-> data[ws].username,
                               payload |-> m.payload, sig |-> m.sig])
          ELSE out[c]]
    BY <1>2 DEF HandleBroadcast, Fanout
  <2>4. out' \in [Conn -> Seq(OutboundMsg)]
    BY <2>2, <2>3 DEF TypeOK
  <2>5. QED
    BY <2>1, <2>4, TouchType DEF TypeOK, Identified
<1>3. QED
  BY <1>1, <1>2

(* handleRekey.                                                            *)
LEMMA RekeyType ==
  ASSUME TypeOK, NEW ws \in Conn, NEW m \in RekeyMsg, HandleRekey(ws, m)
  PROVE  TypeOK'
<1>1. CASE Drop
  BY <1>1 DEF TypeOK, Drop, vars
<1>2. CASE ~Drop
  <2>1. /\ Identified(ws) /\ Touch(ws) /\ UNCHANGED <<created, sock>>
        /\ StoreKeys(ws, m.ek, m.ratchetEk, m.claim)
        /\ Reply(ws, [type |-> "rekeyed"])
    BY <1>2 DEF HandleRekey
  <2>2. m.ek \in Ek /\ m.ratchetEk \in Ek /\ m.claim \in Claim
    BY DEF RekeyMsg
  <2>3. data' \in [Conn -> ConnData]
    BY <2>1, <2>2 DEF StoreKeys, StoreData, TypeOK, ConnData
  <2>4. [type |-> "rekeyed"] \in OutboundMsg
    BY DEF OutboundMsg
  <2>5. out' \in [Conn -> Seq(OutboundMsg)]
    BY <2>1, <2>4, ReplyType
  <2>6. QED
    BY <2>1, <2>3, <2>5, TouchType DEF TypeOK, Identified
<1>3. QED
  BY <1>1, <1>2

(* handleClose.                                                            *)
LEMMA CloseType ==
  ASSUME TypeOK, NEW ws \in Conn, HandleClose(ws)
  PROVE  TypeOK'
<1>1. rooms' \in [DOMAIN rooms -> Room] /\ DOMAIN rooms' = DOMAIN rooms
  <2>1. CASE InRoom(ws)
    <3>1. rooms' = [rooms EXCEPT ![data[ws].roomId].conns = @ \ {ws}]
      BY <2>1 DEF HandleClose
    <3>2. QED
      BY <2>1, <3>1 DEF TypeOK, Room, InRoom
  <2>2. CASE ~InRoom(ws)
    BY <2>2 DEF HandleClose, TypeOK
  <2>3. QED
    BY <2>1, <2>2
<1>2. out' \in [Conn -> Seq(OutboundMsg)]
  <2>1. CASE Identified(ws)
    <3>1. [type |-> "peer_left", username |-> data[ws].username] \in OutboundMsg
      BY <2>1 DEF Identified, TypeOK, ConnData, OutboundMsg
    <3>2. out' = [c \in Conn |->
            IF c \in Others(ws) /\ sock[c] = "open"
            THEN Append(out[c], [type |-> "peer_left",
                                 username |-> data[ws].username])
            ELSE out[c]]
      BY <2>1 DEF HandleClose, Fanout
    <3>3. QED
      BY <3>1, <3>2 DEF TypeOK
  <2>2. CASE ~Identified(ws)
    BY <2>2 DEF HandleClose, TypeOK
  <2>3. QED
    BY <2>1, <2>2
<1>3. QED
  BY <1>1, <1>2 DEF HandleClose, TypeOK

(* The sweep and the clock.                                                *)
LEMMA PruneType ==
  ASSUME TypeOK, PruneRooms
  PROVE  TypeOK'
BY DEF TypeOK, PruneRooms

LEMMA TickType ==
  ASSUME TypeOK, Tick
  PROVE  TypeOK'
<1>1. \A i \in 0 .. RoomTtl + 1 : Older(i) \in 0 .. RoomTtl + 1
  BY LimitsNat DEF Older
<1>2. rooms' \in [DOMAIN rooms -> Room] /\ DOMAIN rooms' = DOMAIN rooms
  BY <1>1 DEF TypeOK, Tick, Room
<1>3. QED
  BY <1>2 DEF TypeOK, Tick

(* Opening a socket, and the client end of a queue.                        *)
LEMMA OpenType ==
  ASSUME TypeOK, NEW ws \in Conn, Open(ws)
  PROVE  TypeOK'
<1>1. Blank \in ConnData
  BY DEF Blank, ConnData
<1>2. data' \in [Conn -> ConnData]
  BY <1>1, StoreDataType DEF Open
<1>3. QED
  BY <1>2 DEF Open, TypeOK

LEMMA ReadType ==
  ASSUME TypeOK, NEW ws \in Conn, Deliver(ws) \/ Lose(ws)
  PROVE  TypeOK'
<1>1. out' \in [Conn -> Seq(OutboundMsg)]
  <2>1. CASE Deliver(ws)
    <3>1. Tail(out[ws]) \in Seq(OutboundMsg)
      BY <2>1 DEF Deliver, TypeOK
    <3>2. QED
      BY <2>1, <3>1 DEF Deliver, TypeOK
  <2>2. CASE Lose(ws)
    BY <2>2 DEF Lose, TypeOK
  <2>3. QED
    BY <2>1, <2>2
<1>2. QED
  BY <1>1 DEF Deliver, Lose, TypeOK

(* Every step keeps the types.                                             *)
LEMMA NextType ==
  ASSUME TypeOK, [Next]_vars
  PROVE  TypeOK'
<1>1. ASSUME NEW ws \in Conn, Message(ws)
      PROVE  TypeOK'
  BY <1>1, CreateType, JoinType, IdentifyType, RelayType, BroadcastType,
     RatchetStepType, EkUpdateType, RekeyType DEF Message, Handle
<1>2. CASE UNCHANGED vars
  BY <1>2 DEF vars, TypeOK
<1>3. QED
  BY <1>1, <1>2, OpenType, CloseType, PruneType, TickType, ReadType
     DEF Next, ServerStep

LEMMA InitType == Init => TypeOK
BY DEF Init, TypeOK, Blank, ConnData, Room

(* Every variable keeps its type for any number of connections, rooms and  *)
(* frames in flight: in particular no handler stores a value of a frame    *)
(* that it has not validated, and no frame is sent half filled.            *)
THEOREM TypeCorrect == Spec => []TypeOK
<1>1. TypeOK /\ [Next]_vars => TypeOK'
  BY NextType
<1>2. QED
  BY InitType, <1>1, PTL DEF Spec

-----------------------------------------------------------------------------
(* Frames that leave the roster of every room as it is.                    *)

Live(s) == s \in {"open", "closing"}

SameRoster ==
  /\ DOMAIN rooms' = DOMAIN rooms
  /\ \A r \in DOMAIN rooms : rooms'[r].conns = rooms[r].conns
  /\ \A c \in Conn : /\ data'[c].roomId = data[c].roomId
                     /\ data'[c].username = data[c].username
                     /\ Live(sock'[c]) <=> Live(sock[c])

(* Nothing changes at all.                                                 *)
LEMMA StutterSame ==
  ASSUME UNCHANGED vars
  PROVE  SameRoster
BY DEF vars, SameRoster

(* A frame that only refreshes lastActivity and fans out.                  *)
LEMMA TouchSame ==
  ASSUME TypeOK, NEW ws \in Conn, InRoom(ws), Touch(ws), UNCHANGED <<sock, data>>
  PROVE  SameRoster
BY TouchType DEF SameRoster

(* A frame that stores new keys for its sender.                            *)
LEMMA StoreKeysSame ==
  ASSUME TypeOK, NEW ws \in Conn, InRoom(ws), Touch(ws), UNCHANGED sock,
         NEW ek, NEW rek, NEW cl, StoreKeys(ws, ek, rek, cl)
  PROVE  SameRoster
<1>1. \A c \in Conn : /\ data'[c].roomId = data[c].roomId
                      /\ data'[c].username = data[c].username
  BY DEF StoreKeys, StoreData, TypeOK
<1>2. QED
  BY <1>1, TouchType DEF SameRoster

(* Closing the sender's socket, before its close event.                    *)
LEMMA CloseSocketSame ==
  ASSUME TypeOK, NEW ws \in Conn, sock[ws] = "open", CloseSocket(ws),
         UNCHANGED <<rooms, data>>
  PROVE  SameRoster
BY CloseSocketType DEF SameRoster, Live

(* The ratchet, relay, broadcast, ek_update and rekey frames.              *)
LEMMA TrafficSame ==
  ASSUME TypeOK, NEW ws \in Conn, NEW m,
         \/ HandleRelay(ws, m) \/ HandleBroadcast(ws, m)
         \/ HandleRatchetStep(ws, m) \/ HandleEkUpdate(ws, m)
         \/ HandleRekey(ws, m)
  PROVE  SameRoster
<1>1. CASE Drop
  BY <1>1, StutterSame DEF Drop
<1>2. CASE ~Drop
  <2>1. Identified(ws) /\ Touch(ws) /\ UNCHANGED sock
    BY <1>2 DEF HandleRelay, HandleBroadcast, HandleRatchetStep,
                HandleEkUpdate, HandleRekey, Fanout
  <2>2. CASE HandleRelay(ws, m) \/ HandleBroadcast(ws, m)
    <3>1. UNCHANGED data
      BY <1>2, <2>2 DEF HandleRelay, HandleBroadcast, Fanout
    <3>2. QED
      BY <2>1, <3>1, TouchSame DEF Identified
  <2>3. CASE HandleRatchetStep(ws, m)
    <3>1. StoreKeys(ws, data[ws].ek, m.newEk, m.claim)
      BY <1>2, <2>3 DEF HandleRatchetStep, Fanout
    <3>2. QED
      BY <2>1, <3>1, StoreKeysSame DEF Identified
  <2>4. CASE HandleEkUpdate(ws, m)
    <3>1. StoreKeys(ws, data[ws].ek, m.ek, m.claim)
      BY <1>2, <2>4 DEF HandleEkUpdate, Fanout
    <3>2. QED
      BY <2>1, <3>1, StoreKeysSame DEF Identified
  <2>5. CASE HandleRekey(ws, m)
    <3>1. StoreKeys(ws, m.ek, m.ratchetEk, m.claim)
      BY <1>2, <2>5 DEF HandleRekey
    <3>2. QED
      BY <2>1, <3>1, StoreKeysSame DEF Identified
  <2>6. QED
    BY <2>2, <2>3, <2>4, <2>5
<1>3. QED
  BY <1>1, <1>2

(* The clock and the client ends of the queues.                            *)
LEMMA BackgroundSame ==
  ASSUME TypeOK, NEW ws \in Conn, Tick \/ Deliver(ws) \/ Lose(ws)
  PROVE  SameRoster
BY DEF SameRoster, Tick, Deliver, Lose, TypeOK

-----------------------------------------------------------------------------
(* The inductive invariant.  UniqueNames is not inductive alone: that a    *)
(* joiner brings no name needs NamedIsPlaced, and that identify compares   *)
(* with every holder of a name needs NoStrandedMember.                     *)

NamedIsPlaced ==
  \A c \in Conn : data[c].roomId = Null => data[c].username = Null

IInv == TypeOK /\ NoStrandedMember /\ NamedIsPlaced /\ UniqueNames /\ Capacity

LEMMA SameRosterInv ==
  ASSUME IInv, SameRoster, TypeOK'
  PROVE  IInv'
<1>1. \A r \in DOMAIN rooms : rooms[r].conns \subseteq Conn
  BY DEF IInv, TypeOK, Room
<1>2. NoStrandedMember'
  <2>1. ASSUME NEW r \in DOMAIN rooms', NEW c \in rooms'[r].conns
        PROVE  Live(sock'[c]) /\ data'[c].roomId = r
    <3>1. r \in DOMAIN rooms /\ c \in rooms[r].conns /\ c \in Conn
      BY <1>1 DEF SameRoster
    <3>2. Live(sock[c]) /\ data[c].roomId = r
      BY <3>1 DEF IInv, NoStrandedMember, Live
    <3>3. QED
      BY <3>1, <3>2 DEF SameRoster
  <2>2. ASSUME NEW c \in Conn, Live(sock'[c]), data'[c].roomId # Null
        PROVE  /\ data'[c].roomId \in DOMAIN rooms'
               /\ c \in rooms'[data'[c].roomId].conns
    BY <2>2 DEF IInv, NoStrandedMember, SameRoster, Live, InRoom, RoomOf
  <2>3. QED
    BY <2>1, <2>2 DEF NoStrandedMember, Live, InRoom, RoomOf
<1>3. NamedIsPlaced'
  BY DEF IInv, NamedIsPlaced, SameRoster
<1>4. UniqueNames'
  <2>1. ASSUME NEW r \in DOMAIN rooms', NEW c \in rooms'[r].conns,
               NEW d \in rooms'[r].conns, c # d, data'[c].username # Null
        PROVE  data'[c].username # data'[d].username
    <3>1. r \in DOMAIN rooms /\ {c, d} \subseteq rooms[r].conns
      BY DEF SameRoster
    <3>2. c \in Conn /\ d \in Conn
      BY <1>1, <3>1
    <3>3. /\ data'[c].username = data[c].username
          /\ data'[d].username = data[d].username
      BY <3>2 DEF SameRoster
    <3>4. QED
      BY <2>1, <3>1, <3>3 DEF IInv, UniqueNames
  <2>2. QED
    BY <2>1 DEF UniqueNames
<1>5. Capacity'
  BY DEF IInv, Capacity, SameRoster
<1>6. QED
  BY <1>2, <1>3, <1>4, <1>5 DEF IInv

(* A new socket is in no room.                                             *)
LEMMA OpenInv ==
  ASSUME IInv, NEW ws \in Conn, Open(ws)
  PROVE  IInv'
<1>1. TypeOK'
  BY OpenType DEF IInv
<1>2. \A r \in DOMAIN rooms : rooms[r].conns \subseteq Conn \ {ws}
  BY DEF IInv, TypeOK, Room, NoStrandedMember, Open
<1>3. /\ \A c \in Conn \ {ws} : data'[c] = data[c] /\ sock'[c] = sock[c]
      /\ data'[ws] = Blank
      /\ UNCHANGED rooms
  BY DEF Open, StoreData, IInv, TypeOK
<1>4. NoStrandedMember'
  <2>1. \A r \in DOMAIN rooms : \A c \in rooms[r].conns :
          Live(sock'[c]) /\ data'[c].roomId = r
    BY <1>2, <1>3 DEF IInv, NoStrandedMember, Live
  <2>2. \A c \in Conn : (Live(sock'[c]) /\ data'[c].roomId # Null) =>
          /\ data'[c].roomId \in DOMAIN rooms
          /\ c \in rooms[data'[c].roomId].conns
    BY <1>3 DEF IInv, NoStrandedMember, Live, InRoom, RoomOf, Blank
  <2>3. QED
    BY <1>3, <2>1, <2>2 DEF NoStrandedMember, Live, InRoom, RoomOf
<1>5. NamedIsPlaced'
  BY <1>3 DEF IInv, NamedIsPlaced, Blank
<1>6. UniqueNames'
  <2>1. \A r \in DOMAIN rooms : \A c \in rooms[r].conns : data'[c] = data[c]
    BY <1>2, <1>3
  <2>2. QED
    BY <1>3, <2>1 DEF IInv, UniqueNames
<1>7. Capacity'
  BY <1>3 DEF IInv, Capacity
<1>8. QED
  BY <1>1, <1>4, <1>5, <1>6, <1>7 DEF IInv

(* A version mismatch leaves every roster alone.                           *)
LEMMA WrongVersionInv ==
  ASSUME IInv, NEW ws \in Conn, sock[ws] = "open", NEW m, WrongVersion(ws, m)
  PROVE  IInv'
<1>1. TypeOK'
  BY WrongVersionType DEF IInv
<1>2. SameRoster
  BY CloseSocketSame DEF WrongVersion, IInv
<1>3. QED
  BY <1>1, <1>2, SameRosterInv

(* A created room is empty.                                                *)
LEMMA CreateInv ==
  ASSUME IInv, NEW ws \in Conn, sock[ws] = "open", NEW m \in CreateMsg,
         HandleCreate(ws, m)
  PROVE  IInv'
<1>1. TypeOK'
  BY CreateType DEF IInv
<1>2. CASE WrongVersion(ws, m)
  BY <1>2, WrongVersionInv
<1>3. CASE UNCHANGED <<rooms, created, sock, data>>
  <2>1. SameRoster
    BY <1>3 DEF SameRoster
  <2>2. QED
    BY <1>1, <2>1, SameRosterInv
<1>4. CASE /\ \E r \in RoomId \ created :
                rooms' = [x \in DOMAIN rooms \cup {r} |->
                     IF x = r THEN [conns |-> {}, idle |-> 0] ELSE rooms[x]]
           /\ UNCHANGED <<sock, data>>
  <2>1. PICK r \in RoomId \ created :
          rooms' = [x \in DOMAIN rooms \cup {r} |->
               IF x = r THEN [conns |-> {}, idle |-> 0] ELSE rooms[x]]
    BY <1>4
  <2>2. r \notin DOMAIN rooms
    BY DEF IInv, TypeOK
  <2>3. /\ DOMAIN rooms' = DOMAIN rooms \cup {r}
        /\ \A x \in DOMAIN rooms : rooms'[x] = rooms[x]
        /\ rooms'[r].conns = {}
    BY <2>1, <2>2
  <2>4. NoStrandedMember'
    BY <1>4, <2>3 DEF IInv, NoStrandedMember, InRoom, RoomOf
  <2>5. NamedIsPlaced'
    BY <1>4 DEF IInv, NamedIsPlaced
  <2>6. UniqueNames'
    BY <1>4, <2>3 DEF IInv, UniqueNames
  <2>7. Capacity'
    BY <2>3, FS_EmptySet, LimitsNat DEF IInv, Capacity
  <2>8. QED
    BY <1>1, <2>4, <2>5, <2>6, <2>7 DEF IInv
<1>5. QED
  BY <1>2, <1>3, <1>4 DEF HandleCreate

(* A joiner brings no name and takes one free slot.                        *)
LEMMA JoinInv ==
  ASSUME IInv, NEW ws \in Conn, sock[ws] = "open", NEW m \in JoinMsg,
         HandleJoin(ws, m)
  PROVE  IInv'
<1>1. TypeOK'
  BY JoinType DEF IInv
<1>2. CASE WrongVersion(ws, m)
  BY <1>2, WrongVersionInv
<1>3. CASE UNCHANGED <<rooms, created, sock, data>>
  <2>1. SameRoster
    BY <1>3 DEF SameRoster
  <2>2. QED
    BY <1>1, <2>1, SameRosterInv
<1>4. CASE /\ JoinRefusal(ws, m) = "none"
           /\ rooms' = [rooms EXCEPT ![m.roomId] =
                                     [conns |-> @.conns \cup {ws}, idle |-> 0]]
           /\ StoreData(ws, [data[ws] EXCEPT !.roomId = m.roomId])
           /\ UNCHANGED sock
  <2>1. /\ data[ws].roomId = Null
        /\ m.roomId \in DOMAIN rooms
        /\ ~RoomFull(m.roomId)
    BY <1>4 DEF JoinRefusal
  <2>2. \A r \in DOMAIN rooms : rooms[r].conns \subseteq Conn
    BY DEF IInv, TypeOK, Room
  <2>3. \A r \in DOMAIN rooms : ws \notin rooms[r].conns
    BY <2>1, NullFresh DEF IInv, NoStrandedMember, TypeOK
  <2>4. /\ DOMAIN rooms' = DOMAIN rooms
        /\ rooms'[m.roomId].conns = rooms[m.roomId].conns \cup {ws}
        /\ \A r \in DOMAIN rooms \ {m.roomId} : rooms'[r] = rooms[r]
    BY <1>4, <2>1 DEF IInv, TypeOK
  <2>5. /\ \A c \in Conn \ {ws} : data'[c] = data[c]
        /\ data'[ws].roomId = m.roomId
        /\ data'[ws].username = data[ws].username
    BY <1>4 DEF StoreData, IInv, TypeOK, ConnData
  <2>6. data'[ws].username = Null
    BY <2>1, <2>5 DEF IInv, NamedIsPlaced
  <2>7. NoStrandedMember'
    <3>1. ASSUME NEW r \in DOMAIN rooms, NEW c \in rooms'[r].conns
          PROVE  Live(sock'[c]) /\ data'[c].roomId = r
      <4>1. CASE c = ws
        BY <1>4, <2>3, <2>4, <2>5, <4>1 DEF Live
      <4>2. CASE c # ws
        <5>1. c \in rooms[r].conns /\ c \in Conn \ {ws}
          BY <2>2, <2>4, <4>2
        <5>2. QED
          BY <1>4, <2>5, <5>1 DEF IInv, NoStrandedMember, Live
      <4>3. QED
        BY <4>1, <4>2
    <3>2. ASSUME NEW c \in Conn, Live(sock'[c]), data'[c].roomId # Null
          PROVE  /\ data'[c].roomId \in DOMAIN rooms
                 /\ c \in rooms'[data'[c].roomId].conns
      <4>1. CASE c = ws
        BY <2>1, <2>4, <2>5, <4>1
      <4>2. CASE c # ws
        <5>1. /\ data[c].roomId \in DOMAIN rooms
              /\ c \in rooms[data[c].roomId].conns
          BY <1>4, <2>5, <3>2, <4>2 DEF IInv, NoStrandedMember, Live, InRoom, RoomOf
        <5>2. QED
          BY <2>4, <2>5, <4>2, <5>1
      <4>3. QED
        BY <4>1, <4>2
    <3>3. QED
      BY <2>4, <3>1, <3>2 DEF NoStrandedMember, Live, InRoom, RoomOf
  <2>8. NamedIsPlaced'
    BY <2>5, <2>6 DEF IInv, NamedIsPlaced
  <2>9. UniqueNames'
    <3>1. ASSUME NEW r \in DOMAIN rooms, NEW c \in rooms'[r].conns,
                 NEW d \in rooms'[r].conns, c # d, data'[c].username # Null
          PROVE  data'[c].username # data'[d].username
      <4>1. c # ws
        BY <2>6, <3>1
      <4>2. c \in rooms[r].conns /\ c \in Conn \ {ws}
        BY <2>2, <2>4, <4>1
      <4>3. CASE d = ws
        BY <2>6, <3>1, <4>3
      <4>4. CASE d # ws
        <5>1. d \in rooms[r].conns /\ d \in Conn \ {ws}
          BY <2>2, <2>4, <4>4
        <5>2. QED
          BY <2>5, <3>1, <4>2, <5>1 DEF IInv, UniqueNames
      <4>5. QED
        BY <4>3, <4>4
    <3>2. QED
      BY <2>4, <3>1 DEF UniqueNames
  <2>10. Capacity'
    <3>1. ASSUME MaxRoomSize > 0, NEW r \in DOMAIN rooms
          PROVE  Cardinality(rooms'[r].conns) <= MaxRoomSize
      <4>1. CASE r = m.roomId
        <5>1. IsFiniteSet(rooms[r].conns)
          BY <2>2, ConnFinite, FS_Subset
        <5>2. Cardinality(rooms[r].conns) \in Nat
          BY <5>1, FS_CardinalityType
        <5>3. Cardinality(rooms[r].conns) < MaxRoomSize
          BY <2>1, <3>1, <4>1, <5>2, LimitsNat DEF RoomFull
        <5>4. Cardinality(rooms'[r].conns) = Cardinality(rooms[r].conns) + 1
          BY <2>3, <2>4, <4>1, <5>1, FS_AddElement
        <5>5. QED
          BY <5>2, <5>3, <5>4, LimitsNat
      <4>2. CASE r # m.roomId
        BY <2>4, <3>1, <4>2 DEF IInv, Capacity
      <4>3. QED
        BY <4>1, <4>2
    <3>2. QED
      BY <2>4, <3>1 DEF Capacity
  <2>11. QED
    BY <1>1, <2>7, <2>8, <2>9, <2>10 DEF IInv
<1>5. QED
  BY <1>2, <1>3, <1>4 DEF HandleJoin

(* A name is stored only after it was compared with every other member's.  *)
LEMMA IdentifyInv ==
  ASSUME IInv, NEW ws \in Conn, sock[ws] = "open", NEW m \in IdentifyMsg,
         HandleIdentify(ws, m)
  PROVE  IInv'
<1> DEFINE u == Canon[m.username]
<1>1. TypeOK'
  BY IdentifyType DEF IInv
<1>2. CASE Drop
  BY <1>1, <1>2, StutterSame, SameRosterInv DEF Drop
<1>3. CASE CloseSocket(ws) /\ UNCHANGED <<rooms, created, data, out>>
  BY <1>1, <1>3, CloseSocketSame, SameRosterInv DEF IInv
<1>4. CASE InRoom(ws) /\ Touch(ws) /\ UNCHANGED <<created, sock, data>>
  BY <1>1, <1>4, TouchSame, SameRosterInv DEF IInv
<1>5. CASE /\ InRoom(ws) /\ IdentifyValid(m) /\ ~NameTaken(ws, u)
           /\ Touch(ws)
           /\ StoreData(ws, [roomId |-> data[ws].roomId, username |-> u,
                             ek |-> m.ek, ratchetEk |-> m.ratchetEk,
                             claim |-> m.claim])
           /\ UNCHANGED <<created, sock>>
  <2>1. \A r \in DOMAIN rooms : rooms[r].conns \subseteq Conn
    BY DEF IInv, TypeOK, Room
  <2>2. /\ DOMAIN rooms' = DOMAIN rooms
        /\ \A r \in DOMAIN rooms : rooms'[r].conns = rooms[r].conns
    BY <1>5, TouchType DEF IInv
  <2>3. /\ \A c \in Conn \ {ws} : data'[c] = data[c]
        /\ data'[ws].roomId = data[ws].roomId
        /\ data'[ws].username = u
    BY <1>5 DEF StoreData, IInv, TypeOK
  <2>4. \A c \in Conn : data'[c].roomId = data[c].roomId
    BY <2>3
  <2>5. data[ws].roomId # Null
    BY <1>5, NullFresh DEF InRoom, IInv, TypeOK
  <2>6. NoStrandedMember'
    <3>1. \A r \in DOMAIN rooms : \A c \in rooms[r].conns :
            Live(sock[c]) /\ data'[c].roomId = r
      BY <2>1, <2>4 DEF IInv, NoStrandedMember, Live
    <3>2. \A c \in Conn : (Live(sock[c]) /\ data'[c].roomId # Null) =>
            /\ data'[c].roomId \in DOMAIN rooms
            /\ c \in rooms[data'[c].roomId].conns
      BY <2>4 DEF IInv, NoStrandedMember, Live, InRoom, RoomOf
    <3>3. QED
      BY <1>5, <2>2, <3>1, <3>2 DEF NoStrandedMember, Live, InRoom, RoomOf
  <2>7. NamedIsPlaced'
    BY <2>3, <2>4, <2>5 DEF IInv, NamedIsPlaced
  <2>8. UniqueNames'
    <3>1. ASSUME NEW r \in DOMAIN rooms, NEW c \in rooms[r].conns,
                 NEW d \in rooms[r].conns, c # d, data'[c].username # Null
          PROVE  data'[c].username # data'[d].username
      <4>1. c \in Conn /\ d \in Conn
        BY <2>1
      <4>2. \A e \in rooms[r].conns : data[e].roomId = r
        BY DEF IInv, NoStrandedMember
      <4>3. CASE c # ws /\ d # ws
        BY <2>3, <3>1, <4>1, <4>3 DEF IInv, UniqueNames
      <4>4. CASE c = ws
        BY <1>5, <2>3, <3>1, <4>1, <4>2, <4>4 DEF NameTaken, Others, RoomOf
      <4>5. CASE d = ws
        BY <1>5, <2>3, <3>1, <4>1, <4>2, <4>5 DEF NameTaken, Others, RoomOf
      <4>6. QED
        BY <4>3, <4>4, <4>5
    <3>2. QED
      BY <2>2, <3>1 DEF UniqueNames
  <2>9. Capacity'
    BY <2>2 DEF IInv, Capacity
  <2>10. QED
    BY <1>1, <2>6, <2>7, <2>8, <2>9 DEF IInv
<1>6. QED
  BY <1>2, <1>3, <1>4, <1>5 DEF HandleIdentify, Fanout

(* A close takes the socket out of the one room it is in.                  *)
LEMMA CloseInv ==
  ASSUME IInv, NEW ws \in Conn, HandleClose(ws)
  PROVE  IInv'
<1>1. TypeOK'
  BY CloseType DEF IInv
<1>2. \A r \in DOMAIN rooms : rooms[r].conns \subseteq Conn
  BY DEF IInv, TypeOK, Room
<1>3. /\ DOMAIN rooms' = DOMAIN rooms
      /\ \A r \in DOMAIN rooms : rooms'[r].conns = rooms[r].conns \ {ws}
  <2>1. \A r \in DOMAIN rooms : ws \in rooms[r].conns => data[ws].roomId = r
    BY DEF IInv, NoStrandedMember
  <2>2. CASE InRoom(ws)
    <3>1. rooms' = [rooms EXCEPT ![data[ws].roomId].conns = @ \ {ws}]
      BY <2>2 DEF HandleClose
    <3>2. data[ws].roomId \in DOMAIN rooms
      BY <2>2 DEF InRoom
    <3>3. \A r \in DOMAIN rooms \ {data[ws].roomId} :
            rooms'[r] = rooms[r] /\ ws \notin rooms[r].conns
      BY <2>1, <3>1 DEF IInv, TypeOK
    <3>4. rooms'[data[ws].roomId].conns = rooms[data[ws].roomId].conns \ {ws}
      BY <3>1, <3>2 DEF IInv, TypeOK, Room
    <3>5. DOMAIN rooms' = DOMAIN rooms
      BY <3>1
    <3>6. QED
      BY <3>3, <3>4, <3>5
  <2>3. CASE ~InRoom(ws)
    BY <2>1, <2>3 DEF HandleClose, InRoom
  <2>4. QED
    BY <2>2, <2>3
<1>4. /\ data' = data
      /\ sock'[ws] = "closed"
      /\ \A c \in Conn \ {ws} : sock'[c] = sock[c]
  BY DEF HandleClose, IInv, TypeOK
<1>5. NoStrandedMember'
  <2>1. \A r \in DOMAIN rooms : \A c \in rooms'[r].conns :
          Live(sock'[c]) /\ data[c].roomId = r
    BY <1>2, <1>3, <1>4 DEF IInv, NoStrandedMember, Live
  <2>2. \A c \in Conn : (Live(sock'[c]) /\ data[c].roomId # Null) =>
          /\ data[c].roomId \in DOMAIN rooms
          /\ c \in rooms'[data[c].roomId].conns
    BY <1>3, <1>4 DEF IInv, NoStrandedMember, Live, InRoom, RoomOf
  <2>3. QED
    BY <1>3, <1>4, <2>1, <2>2 DEF NoStrandedMember, Live, InRoom, RoomOf
<1>6. NamedIsPlaced'
  BY <1>4 DEF IInv, NamedIsPlaced
<1>7. UniqueNames'
  BY <1>3, <1>4 DEF IInv, UniqueNames
<1>8. Capacity'
  <2>1. ASSUME MaxRoomSize > 0, NEW r \in DOMAIN rooms
        PROVE  Cardinality(rooms'[r].conns) <= MaxRoomSize
    <3>1. IsFiniteSet(rooms[r].conns)
      BY <1>2, ConnFinite, FS_Subset
    <3>2. Cardinality(rooms'[r].conns) <= Cardinality(rooms[r].conns)
      BY <1>3, <3>1, FS_Subset
    <3>3. /\ Cardinality(rooms[r].conns) \in Nat
          /\ Cardinality(rooms'[r].conns) \in Nat
      BY <1>3, <3>1, FS_Subset, FS_CardinalityType
    <3>4. QED
      BY <2>1, <3>2, <3>3, LimitsNat DEF IInv, Capacity
  <2>2. QED
    BY <1>3, <2>1 DEF Capacity
<1>9. QED
  BY <1>1, <1>5, <1>6, <1>7, <1>8 DEF IInv

(* The sweep deletes empty rooms only.                                     *)
LEMMA PruneInv ==
  ASSUME IInv, PruneRooms
  PROVE  IInv'
<1>1. TypeOK'
  BY PruneType DEF IInv
<1>2. /\ DOMAIN rooms' = {r \in DOMAIN rooms : ~Expired(r)}
      /\ \A r \in DOMAIN rooms' : rooms'[r] = rooms[r]
      /\ \A r \in DOMAIN rooms \ DOMAIN rooms' : rooms[r].conns = {}
      /\ UNCHANGED <<sock, data>>
  BY DEF PruneRooms, Expired
<1>3. NoStrandedMember'
  <2>1. \A r \in DOMAIN rooms' : \A c \in rooms'[r].conns :
          Live(sock[c]) /\ data[c].roomId = r
    BY <1>2 DEF IInv, NoStrandedMember, Live
  <2>2. \A c \in Conn : (Live(sock[c]) /\ data[c].roomId # Null) =>
          /\ data[c].roomId \in DOMAIN rooms'
          /\ c \in rooms'[data[c].roomId].conns
    BY <1>2 DEF IInv, NoStrandedMember, Live, InRoom, RoomOf
  <2>3. QED
    BY <1>2, <2>1, <2>2 DEF NoStrandedMember, Live, InRoom, RoomOf
<1>4. NamedIsPlaced'
  BY <1>2 DEF IInv, NamedIsPlaced
<1>5. UniqueNames'
  BY <1>2 DEF IInv, UniqueNames
<1>6. Capacity'
  BY <1>2 DEF IInv, Capacity
<1>7. QED
  BY <1>1, <1>3, <1>4, <1>5, <1>6 DEF IInv

LEMMA InitInv == Init => IInv
BY InitType DEF Init, IInv, NoStrandedMember, NamedIsPlaced, UniqueNames, Capacity,
   Blank

LEMMA NextInv ==
  ASSUME IInv, [Next]_vars
  PROVE  IInv'
<1>1. TypeOK'
  BY NextType DEF IInv
<1>2. ASSUME NEW ws \in Conn, Message(ws)
      PROVE  IInv'
  <2>1. CASE \/ \E m \in CreateMsg : HandleCreate(ws, m)
             \/ \E m \in JoinMsg : HandleJoin(ws, m)
             \/ \E m \in IdentifyMsg : HandleIdentify(ws, m)
    BY <1>2, <2>1, CreateInv, JoinInv, IdentifyInv DEF Message
  <2>2. CASE \E m : \/ HandleRelay(ws, m) \/ HandleBroadcast(ws, m)
                    \/ HandleRatchetStep(ws, m) \/ HandleEkUpdate(ws, m)
                    \/ HandleRekey(ws, m)
    BY <1>1, <2>2, TrafficSame, SameRosterInv DEF IInv
  <2>3. QED
    BY <1>2, <2>1, <2>2 DEF Message, Handle
<1>3. CASE Tick \/ \E ws \in Conn : Deliver(ws) \/ Lose(ws)
  <2>1. CASE Tick
    <3>1. SameRoster
      BY <2>1 DEF SameRoster, Tick, IInv, TypeOK
    <3>2. QED
      BY <1>1, <3>1, SameRosterInv
  <2>2. CASE \E c \in Conn : Deliver(c) \/ Lose(c)
    BY <1>1, <2>2, BackgroundSame, SameRosterInv DEF IInv
  <2>3. QED
    BY <1>3, <2>1, <2>2
<1>4. CASE UNCHANGED vars
  BY <1>1, <1>4, StutterSame, SameRosterInv
<1>5. QED
  BY <1>2, <1>3, <1>4, OpenInv, CloseInv, PruneInv DEF Next, ServerStep

(* The invariant holds in every reachable state.                           *)
LEMMA Invariance == Spec => []IInv
<1>1. IInv /\ [Next]_vars => IInv'
  BY NextInv
<1>2. QED
  BY InitInv, <1>1, PTL DEF Spec

(* No two connections of a room ever share a username, for any number of   *)
(* connections, rooms and names.                                           *)
THEOREM NamesAreUnique == Spec => []UniqueNames
<1>1. IInv => UniqueNames
  BY DEF IInv
<1>2. QED
  BY Invariance, <1>1, PTL

(* No room ever exceeds a positive MaxRoomSize.                            *)
THEOREM RoomsAreBounded == Spec => []Capacity
<1>1. IInv => Capacity
  BY DEF IInv
<1>2. QED
  BY Invariance, <1>1, PTL

(* The two records of membership agree for every live connection.          *)
THEOREM NobodyIsStranded == Spec => []NoStrandedMember
<1>1. IInv => NoStrandedMember
  BY DEF IInv
<1>2. QED
  BY Invariance, <1>1, PTL

-----------------------------------------------------------------------------
(* The relay implements Directory.  Each step is a step of Directory on    *)
(* Members, or leaves Members as it is.                                    *)

NamesIn(r) == {data[c].username : c \in rooms[r].conns} \ {Null}

(* A step that changes the names of one room.                              *)
LEMMA MembersUpdate ==
  ASSUME NEW R \in DOMAIN rooms, NEW S, DOMAIN rooms' = DOMAIN rooms,
         \A r \in DOMAIN rooms \ {R} : NamesIn(r)' = NamesIn(r),
         NamesIn(R)' = S
  PROVE  /\ Members' = [Members EXCEPT ![R] = S]
         /\ DOMAIN Members = DOMAIN rooms
         /\ Members[R] = NamesIn(R)
<1>1. Members = [r \in DOMAIN rooms |-> NamesIn(r)]
  BY DEF Members, NamesIn
<1>2. Members' = [r \in DOMAIN rooms |-> NamesIn(r)']
  BY DEF Members, NamesIn
<1>3. QED
  BY <1>1, <1>2

LEMMA InitDir == Init => Dir!Init
BY DEF Init, Dir!Init, Members

(* An unchanged roster is a stutter of Directory.                          *)
LEMMA SameRosterDir ==
  ASSUME TypeOK, SameRoster
  PROVE  UNCHANGED Members
<1>1. \A r \in DOMAIN rooms : rooms[r].conns \subseteq Conn
  BY DEF TypeOK, Room
<1>2. ASSUME NEW r \in DOMAIN rooms
      PROVE  NamesIn(r)' = NamesIn(r)
  <2>1. \A c \in rooms[r].conns : data'[c].username = data[c].username
    BY <1>1 DEF SameRoster
  <2>2. rooms'[r].conns = rooms[r].conns
    BY DEF SameRoster
  <2>3. QED
    BY <2>1, <2>2 DEF NamesIn
<1>3. QED
  BY <1>2 DEF SameRoster, Members, NamesIn

LEMMA OpenDir ==
  ASSUME IInv, NEW ws \in Conn, Open(ws)
  PROVE  UNCHANGED Members
<1>1. \A r \in DOMAIN rooms : \A c \in rooms[r].conns : data'[c] = data[c]
  BY DEF IInv, TypeOK, Room, NoStrandedMember, Open, StoreData
<1>2. \A r \in DOMAIN rooms : NamesIn(r)' = NamesIn(r)
  BY <1>1 DEF Open, NamesIn
<1>3. QED
  BY <1>2 DEF Open, Members, NamesIn

LEMMA CreateDir ==
  ASSUME IInv, NEW ws \in Conn, sock[ws] = "open", NEW m \in CreateMsg,
         HandleCreate(ws, m)
  PROVE  Dir!Next \/ UNCHANGED Members
<1>1. CASE UNCHANGED <<rooms, data>>
  BY <1>1 DEF Members
<1>2. CASE \E r \in RoomId \ created :
             /\ rooms' = [x \in DOMAIN rooms \cup {r} |->
                  IF x = r THEN [conns |-> {}, idle |-> 0] ELSE rooms[x]]
             /\ UNCHANGED data
  <2>1. PICK r \in RoomId \ created :
          /\ rooms' = [x \in DOMAIN rooms \cup {r} |->
               IF x = r THEN [conns |-> {}, idle |-> 0] ELSE rooms[x]]
          /\ UNCHANGED data
    BY <1>2
  <2>2. r \notin DOMAIN rooms
    BY DEF IInv, TypeOK
  <2>3. /\ DOMAIN rooms' = DOMAIN rooms \cup {r}
        /\ \A x \in DOMAIN rooms : NamesIn(x)' = NamesIn(x)
        /\ NamesIn(r)' = {}
    BY <2>1, <2>2 DEF NamesIn
  <2>4. Members' = [x \in DOMAIN Members \cup {r} |->
                     IF x = r THEN {} ELSE Members[x]]
    BY <2>2, <2>3 DEF Members, NamesIn
  <2>5. Dir!Create(r)
    BY <2>2, <2>4 DEF Dir!Create, Members
  <2>6. QED
    BY <2>5 DEF Dir!Next
<1>3. QED
  BY <1>1, <1>2 DEF HandleCreate, WrongVersion

(* A joiner has no name yet.                                               *)
LEMMA JoinDir ==
  ASSUME IInv, NEW ws \in Conn, NEW m \in JoinMsg, HandleJoin(ws, m)
  PROVE  UNCHANGED Members
<1>1. CASE UNCHANGED <<rooms, data>>
  BY <1>1 DEF Members
<1>2. CASE /\ JoinRefusal(ws, m) = "none"
           /\ rooms' = [rooms EXCEPT ![m.roomId] =
                                     [conns |-> @.conns \cup {ws}, idle |-> 0]]
           /\ StoreData(ws, [data[ws] EXCEPT !.roomId = m.roomId])
  <2>1. data[ws].roomId = Null /\ m.roomId \in DOMAIN rooms
    BY <1>2 DEF JoinRefusal
  <2>2. /\ DOMAIN rooms' = DOMAIN rooms
        /\ rooms'[m.roomId].conns = rooms[m.roomId].conns \cup {ws}
        /\ \A r \in DOMAIN rooms \ {m.roomId} : rooms'[r] = rooms[r]
    BY <1>2, <2>1 DEF IInv, TypeOK
  <2>3. \A c \in Conn : data'[c].username = data[c].username
    BY <1>2 DEF StoreData, IInv, TypeOK, ConnData
  <2>4. data'[ws].username = Null
    BY <2>1, <2>3 DEF IInv, NamedIsPlaced
  <2>5. \A r \in DOMAIN rooms : rooms[r].conns \subseteq Conn
    BY DEF IInv, TypeOK, Room
  <2>6. \A r \in DOMAIN rooms : NamesIn(r)' = NamesIn(r)
    BY <2>2, <2>3, <2>4, <2>5 DEF NamesIn
  <2>7. QED
    BY <2>2, <2>6 DEF Members, NamesIn
<1>3. QED
  BY <1>1, <1>2 DEF HandleJoin, WrongVersion

(* A name is entered for a socket that had none, or replaces the old one.  *)
LEMMA IdentifyDir ==
  ASSUME IInv, NEW ws \in Conn, sock[ws] = "open", NEW m \in IdentifyMsg,
         HandleIdentify(ws, m)
  PROVE  Dir!Next \/ UNCHANGED Members
<1> DEFINE u == Canon[m.username]
<1>0. PICK R : R = data[ws].roomId
  OBVIOUS
<1>1. CASE Drop
  BY <1>1 DEF Drop, vars, Members
<1>2. CASE UNCHANGED <<rooms, data>>
  BY <1>2 DEF Members
<1>3. CASE InRoom(ws) /\ Touch(ws) /\ UNCHANGED <<created, sock, data>>
  BY <1>3, TouchSame, SameRosterDir DEF IInv
<1>4. CASE /\ InRoom(ws) /\ IdentifyValid(m) /\ ~NameTaken(ws, u)
           /\ Touch(ws)
           /\ StoreData(ws, [roomId |-> data[ws].roomId, username |-> u,
                             ek |-> m.ek, ratchetEk |-> m.ratchetEk,
                             claim |-> m.claim])
           /\ UNCHANGED <<created, sock>>
  <2>1. /\ DOMAIN rooms' = DOMAIN rooms
        /\ \A r \in DOMAIN rooms : rooms'[r].conns = rooms[r].conns
    BY <1>4, TouchType DEF IInv
  <2>2. /\ \A c \in Conn \ {ws} : data'[c] = data[c]
        /\ data'[ws].username = u
    BY <1>4 DEF StoreData, IInv, TypeOK
  <2>3. u \in Name /\ u # Null
    BY <1>4, CanonType, NullFresh DEF IdentifyValid, IdentifyMsg
  <2>4. \A r \in DOMAIN rooms : rooms[r].conns \subseteq Conn
    BY DEF IInv, TypeOK, Room
  <2>5. R \in DOMAIN rooms /\ ws \in rooms[R].conns
    BY <1>0, <1>4, NullFresh DEF IInv, NoStrandedMember, InRoom, RoomOf, TypeOK, Live
  <2>6. \A r \in DOMAIN rooms \ {R} : ws \notin rooms[r].conns
    BY <1>0 DEF IInv, NoStrandedMember
  <2>7. \A r \in DOMAIN rooms \ {R} : NamesIn(r)' = NamesIn(r)
    BY <2>1, <2>2, <2>4, <2>6 DEF NamesIn
  <2>8. \A c \in rooms[R].conns \ {ws} : data[c].username # u
    BY <1>0, <1>4 DEF NameTaken, Others, RoomOf
  <2>9. \A c \in rooms[R].conns \ {ws} :
          data[c].username # Null => data[c].username # data[ws].username
    BY <2>5 DEF IInv, UniqueNames
  <2>10. NamesIn(R)' = (NamesIn(R) \ {data[ws].username}) \cup {u}
    BY <2>1, <2>2, <2>3, <2>4, <2>5, <2>9 DEF NamesIn
  <2>11. /\ Members' = [Members EXCEPT ![R] =
                          (NamesIn(R) \ {data[ws].username}) \cup {u}]
         /\ DOMAIN Members = DOMAIN rooms
         /\ Members[R] = NamesIn(R)
    BY <2>1, <2>5, <2>7, <2>10, MembersUpdate
  <2>12. Members' = [Members EXCEPT ![R] = (@ \ {data[ws].username}) \cup {u}]
    BY <2>11
  <2>13. CASE data[ws].username = Null
    <3>1. u \notin Members[R]
      BY <2>3, <2>8, <2>11, <2>13 DEF NamesIn
    <3>2. Null \notin Members[R]
      BY <2>11 DEF NamesIn
    <3>3. Dir!Enter(R, u)
      BY <2>12, <2>13, <3>1, <3>2 DEF Dir!Enter
    <3>4. QED
      BY <2>3, <2>5, <2>11, <3>3 DEF Dir!Next
  <2>14. CASE data[ws].username = u
    <3>1. u \in NamesIn(R)
      BY <2>3, <2>5, <2>14 DEF NamesIn
    <3>2. (NamesIn(R) \ {data[ws].username}) \cup {u} = Members[R]
      BY <2>11, <2>14, <3>1
    <3>3. QED
      BY <2>11, <3>2 DEF Members
  <2>15. CASE data[ws].username # Null /\ data[ws].username # u
    <3>1. data[ws].username \in Name
      BY <2>15 DEF IInv, TypeOK, ConnData
    <3>2. data[ws].username \in Members[R]
      BY <2>5, <2>11, <2>15 DEF NamesIn
    <3>3. u \notin Members[R]
      BY <2>8, <2>11, <2>15 DEF NamesIn
    <3>4. Dir!Rename(R, data[ws].username, u)
      BY <2>12, <3>2, <3>3 DEF Dir!Rename
    <3>5. QED
      BY <2>3, <2>5, <2>11, <3>1, <3>4 DEF Dir!Next
  <2>16. QED
    BY <2>13, <2>14, <2>15
<1>5. QED
  BY <1>1, <1>2, <1>3, <1>4 DEF HandleIdentify, Fanout

(* The name of a closed socket leaves; one without a name takes none along.*)
LEMMA CloseDir ==
  ASSUME IInv, NEW ws \in Conn, HandleClose(ws)
  PROVE  Dir!Next \/ UNCHANGED Members
<1>0. PICK R, n : R = data[ws].roomId /\ n = data[ws].username
  OBVIOUS
<1>1. data' = data
  BY DEF HandleClose
<1>2. CASE ~InRoom(ws)
  BY <1>1, <1>2 DEF HandleClose, Members
<1>3. CASE InRoom(ws)
  <2>1. rooms' = [rooms EXCEPT ![R].conns = @ \ {ws}] /\ R \in DOMAIN rooms
    BY <1>0, <1>3 DEF HandleClose, InRoom
  <2>2. /\ DOMAIN rooms' = DOMAIN rooms
        /\ rooms'[R].conns = rooms[R].conns \ {ws}
        /\ \A r \in DOMAIN rooms \ {R} : rooms'[r] = rooms[r]
    BY <2>1 DEF IInv, TypeOK, Room
  <2>3. ws \in rooms[R].conns
    <3>1. sock[ws] \in {"open", "closing"} /\ data[ws].roomId # Null
      BY <1>3, NullFresh DEF HandleClose, InRoom, IInv, TypeOK
    <3>2. QED
      BY <1>0, <3>1 DEF IInv, NoStrandedMember, RoomOf
  <2>4. \A c \in rooms[R].conns \ {ws} : n # Null => data[c].username # n
    BY <1>0, <2>1, <2>3 DEF IInv, UniqueNames
  <2>5. NamesIn(R)' = NamesIn(R) \ {n}
    BY <1>0, <1>1, <2>2, <2>3, <2>4 DEF NamesIn
  <2>6. \A r \in DOMAIN rooms \ {R} : NamesIn(r)' = NamesIn(r)
    BY <1>1, <2>2 DEF NamesIn
  <2>7. /\ Members' = [Members EXCEPT ![R] = NamesIn(R) \ {n}]
        /\ DOMAIN Members = DOMAIN rooms
        /\ Members[R] = NamesIn(R)
    BY <2>1, <2>2, <2>5, <2>6, MembersUpdate
  <2>8. Members' = [Members EXCEPT ![R] = @ \ {n}]
    BY <2>7
  <2>9. CASE n = Null
    <3>1. NamesIn(R) \ {n} = NamesIn(R)
      BY <2>9 DEF NamesIn
    <3>2. QED
      BY <2>7, <3>1 DEF Members
  <2>10. CASE n # Null
    <3>1. n \in Name /\ n \in Members[R]
      BY <1>0, <2>3, <2>7, <2>10 DEF NamesIn, HandleClose, IInv, TypeOK, ConnData
    <3>2. Dir!Leave(R, n)
      BY <2>8, <3>1 DEF Dir!Leave
    <3>3. QED
      BY <2>1, <2>7, <3>1, <3>2 DEF Dir!Next
  <2>11. QED
    BY <2>9, <2>10
<1>4. QED
  BY <1>2, <1>3

(* The sweep removes rooms without a name in them.                         *)
LEMMA PruneDir ==
  ASSUME IInv, PruneRooms
  PROVE  Dir!Next
<1> DEFINE gone == {r \in DOMAIN rooms : Expired(r)}
<1>1. gone \in SUBSET DOMAIN Members
  BY DEF Members
<1>2. \A r \in gone : Members[r] = {}
  BY DEF Members, Expired
<1>3. Members' = [r \in DOMAIN Members \ gone |-> Members[r]]
  <2>1. /\ rooms' = [r \in DOMAIN rooms \ gone |-> rooms[r]]
        /\ data' = data
    BY DEF PruneRooms
  <2>2. QED
    BY <2>1 DEF Members
<1>4. Dir!Remove(gone)
  BY <1>2, <1>3 DEF Dir!Remove
<1>5. QED
  BY <1>1, <1>4 DEF Dir!Next

LEMMA NextDir ==
  ASSUME IInv, [Next]_vars
  PROVE  [Dir!Next]_Members
<1>1. ASSUME NEW ws \in Conn, Message(ws)
      PROVE  Dir!Next \/ UNCHANGED Members
  <2>1. CASE \/ \E m \in CreateMsg : HandleCreate(ws, m)
             \/ \E m \in JoinMsg : HandleJoin(ws, m)
             \/ \E m \in IdentifyMsg : HandleIdentify(ws, m)
    BY <1>1, <2>1, CreateDir, JoinDir, IdentifyDir DEF Message
  <2>2. CASE \E m : \/ HandleRelay(ws, m) \/ HandleBroadcast(ws, m)
                    \/ HandleRatchetStep(ws, m) \/ HandleEkUpdate(ws, m)
                    \/ HandleRekey(ws, m)
    BY <2>2, TrafficSame, SameRosterDir DEF IInv
  <2>3. QED
    BY <1>1, <2>1, <2>2 DEF Message, Handle
<1>2. CASE Tick
  <2>1. SameRoster
    BY <1>2 DEF SameRoster, Tick, IInv, TypeOK
  <2>2. QED
    BY <2>1, SameRosterDir DEF IInv
<1>3. CASE \E ws \in Conn : Deliver(ws) \/ Lose(ws)
  BY <1>3 DEF Deliver, Lose, Members
<1>4. CASE UNCHANGED vars
  BY <1>4 DEF vars, Members
<1>5. QED
  BY <1>1, <1>2, <1>3, <1>4, OpenDir, CloseDir, PruneDir DEF Next, ServerStep

(* The relay implements the abstract membership directory.                 *)
THEOREM ImplementsDirectory == Spec => DirSpec
<1>1. IInv /\ [Next]_vars => [Dir!Next]_Members
  BY NextDir
<1>2. QED
  BY InitDir, Invariance, <1>1, PTL DEF Spec, DirSpec, Dir!Spec

-----------------------------------------------------------------------------
(* The life of a room.                                                     *)

(* A room is at least as long out of use as its lastActivity says.         *)
LifeInv ==
  /\ TypeOK
  /\ quietFor \in [RoomId -> 0 .. RoomTtl + 1]
  /\ \A r \in DOMAIN rooms : rooms[r].idle <= quietFor[r]

(* The frame only concerned its sender: no room was touched, but one may   *)
(* have been created.                                                      *)
Unnoticed(ws) ==
  /\ data'[ws] = data[ws]
  /\ \A c \in Conn \ {ws} : out'[c] = out[c]
  /\ DOMAIN rooms \subseteq DOMAIN rooms'
  /\ \A r \in DOMAIN rooms : rooms'[r] = rooms[r]
  /\ \A r \in DOMAIN rooms' \ DOMAIN rooms : rooms'[r].idle = 0

(* The frame was activity of its sender's room, and of no other.           *)
Noticed(ws) ==
  /\ DOMAIN rooms' = DOMAIN rooms /\ created' = created
  /\ data'[ws].roomId \in DOMAIN rooms
  /\ rooms'[data'[ws].roomId].idle = 0
  /\ \A r \in DOMAIN rooms \ {data'[ws].roomId} : rooms'[r] = rooms[r]

-----------------------------------------------------------------------------
(* A frame that is dropped is not noticed.                                 *)
LEMMA DropUnnoticed == ASSUME NEW ws \in Conn, Drop PROVE Unnoticed(ws)
BY DEF Drop, vars, Unnoticed

(* Nor is one that only its sender gets an answer to.                      *)
LEMMA ReplyUnnoticed ==
  ASSUME TypeOK, NEW ws \in Conn, NEW m, Reply(ws, m), UNCHANGED <<rooms, data>>
  PROVE  Unnoticed(ws)
BY DEF Reply, TypeOK, Unnoticed

(* A handler that refreshes lastActivity and leaves its sender where it is *)
(* is noticed.                                                             *)
LEMMA TouchNoticed ==
  ASSUME TypeOK, NEW ws \in Conn, InRoom(ws), Touch(ws), created' = created,
         data'[ws].roomId = data[ws].roomId
  PROVE  Noticed(ws)
<1>1. /\ DOMAIN rooms' = DOMAIN rooms
      /\ rooms'[data[ws].roomId] = [rooms[data[ws].roomId] EXCEPT !.idle = 0]
      /\ \A r \in DOMAIN rooms \ {data[ws].roomId} : rooms'[r] = rooms[r]
  BY DEF TypeOK, InRoom, Touch
<1>2. rooms[data[ws].roomId] \in Room
  BY DEF TypeOK, InRoom
<1>3. rooms'[data[ws].roomId].idle = 0
  BY <1>1, <1>2 DEF Room
<1> QED
  BY <1>1, <1>3 DEF InRoom, Noticed

(* A new key of its sender does not move it to another room.               *)
LEMMA KeysStay ==
  ASSUME TypeOK, NEW ws \in Conn, NEW ek, NEW rek, NEW cl, StoreKeys(ws, ek, rek, cl)
  PROVE  data'[ws].roomId = data[ws].roomId
BY DEF TypeOK, StoreKeys, StoreData

(* handleCreate: the new room starts with no activity to look back on.     *)
LEMMA CreateLife ==
  ASSUME TypeOK, NEW ws \in Conn, NEW m \in CreateMsg, HandleCreate(ws, m)
  PROVE  Unnoticed(ws)
<1>1. CASE \E why : Error(ws, why) /\ UNCHANGED <<rooms, data>>
  BY <1>1, ReplyUnnoticed DEF Error
<1>2. CASE \E r \in RoomId \ created :
             /\ rooms' = [x \in DOMAIN rooms \cup {r} |->
                  IF x = r THEN [conns |-> {}, idle |-> 0] ELSE rooms[x]]
             /\ Reply(ws, [type |-> "room_created", roomId |-> r,
                           roomSecret |-> r])
             /\ UNCHANGED data
  <2>1. PICK r \in RoomId \ created :
          /\ rooms' = [x \in DOMAIN rooms \cup {r} |->
               IF x = r THEN [conns |-> {}, idle |-> 0] ELSE rooms[x]]
          /\ \E k : Reply(ws, k)
          /\ UNCHANGED data
    BY <1>2
  <2>2. r \notin DOMAIN rooms
    BY DEF TypeOK
  <2>3. \A c \in Conn \ {ws} : out'[c] = out[c]
    BY <2>1 DEF Reply, TypeOK
  <2> QED
    BY <2>1, <2>2, <2>3 DEF Unnoticed
<1> QED
  BY <1>1, <1>2 DEF HandleCreate, WrongVersion

(* handleJoin: a joiner wakes the room it enters.                          *)
LEMMA JoinLife ==
  ASSUME TypeOK, NEW ws \in Conn, NEW m \in JoinMsg, HandleJoin(ws, m)
  PROVE  Unnoticed(ws) \/ Noticed(ws)
<1>1. CASE \E why : Error(ws, why) /\ UNCHANGED <<rooms, data>>
  BY <1>1, ReplyUnnoticed DEF Error
<1>2. CASE /\ JoinRefusal(ws, m) = "none"
           /\ rooms' = [rooms EXCEPT ![m.roomId] =
                                     [conns |-> @.conns \cup {ws}, idle |-> 0]]
           /\ StoreData(ws, [data[ws] EXCEPT !.roomId = m.roomId])
           /\ created' = created
  <2>1. m.roomId \in DOMAIN rooms
    BY <1>2 DEF JoinRefusal
  <2>2. data'[ws].roomId = m.roomId
    BY <1>2 DEF StoreData, TypeOK, ConnData
  <2> QED
    BY <1>2, <2>1, <2>2 DEF TypeOK, Noticed
<1> QED
  BY <1>1, <1>2 DEF HandleJoin, WrongVersion

(* handleIdentify: also a name that is refused is activity.                *)
LEMMA IdentifyLife ==
  ASSUME TypeOK, NEW ws \in Conn, NEW m \in IdentifyMsg, HandleIdentify(ws, m)
  PROVE  Unnoticed(ws) \/ Noticed(ws)
<1> DEFINE u == Canon[m.username]
<1>1. CASE Drop
  BY <1>1, DropUnnoticed
<1>2. CASE UNCHANGED <<rooms, data, out>>
  BY <1>2 DEF Unnoticed
<1>3. CASE InRoom(ws) /\ Touch(ws) /\ UNCHANGED <<created, data>>
  BY <1>3, TouchNoticed
<1>4. CASE /\ InRoom(ws) /\ Touch(ws) /\ created' = created
           /\ StoreData(ws, [roomId |-> data[ws].roomId, username |-> u,
                             ek |-> m.ek, ratchetEk |-> m.ratchetEk,
                             claim |-> m.claim])
  <2>1. data'[ws].roomId = data[ws].roomId
    BY <1>4 DEF StoreData, TypeOK
  <2> QED
    BY <1>4, <2>1, TouchNoticed
<1> QED
  BY <1>1, <1>2, <1>3, <1>4 DEF HandleIdentify

(* The other handlers refresh lastActivity or drop the frame.              *)
LEMMA TrafficLife ==
  ASSUME TypeOK, NEW ws \in Conn, NEW m,
         \/ HandleRelay(ws, m) \/ HandleBroadcast(ws, m)
         \/ HandleRatchetStep(ws, m) \/ HandleEkUpdate(ws, m)
         \/ HandleRekey(ws, m)
  PROVE  Unnoticed(ws) \/ Noticed(ws)
<1>1. CASE Drop
  BY <1>1, DropUnnoticed
<1>2. CASE Identified(ws) /\ Touch(ws) /\ UNCHANGED <<created, data>>
  BY <1>2, TouchNoticed DEF Identified
<1>3. CASE /\ Identified(ws) /\ Touch(ws) /\ created' = created
           /\ \E ek, rek, cl : StoreKeys(ws, ek, rek, cl)
  BY <1>3, TouchNoticed, KeysStay DEF Identified
<1> QED
  BY <1>1, <1>2, <1>3
  DEF HandleRelay, HandleBroadcast, HandleRatchetStep, HandleEkUpdate, HandleRekey

(* Every frame is one or the other.                                        *)
LEMMA MessageLife ==
  ASSUME TypeOK, NEW ws \in Conn, Message(ws)
  PROVE  Unnoticed(ws) \/ Noticed(ws)
BY CreateLife, JoinLife, IdentifyLife, TrafficLife DEF Message, Handle

-----------------------------------------------------------------------------
(* A step of the room's clocks is a step of the server.                    *)
LEMMA LifeImpliesRelay == [LifeNext]_lifeVars => [Next]_vars
BY DEF LifeNext, TimePasses, Serve, Sweep, lifeVars, vars, Next, ServerStep

(* No room exists at the start.                                            *)
LEMMA InitLife == LifeInit => LifeInv
<1>1. 0 \in 0 .. RoomTtl + 1
  BY LimitsNat
<1> QED
  BY <1>1, InitType DEF LifeInit, LifeInv, Init

(* A frame resets the quiet time of the room it was activity of, or of the *)
(* room it created, and both have an age of zero.                          *)
LEMMA ServeLife ==
  ASSUME LifeInv, NEW ws \in Conn, Serve(ws), TypeOK'
  PROVE  LifeInv' /\ DOMAIN rooms \subseteq DOMAIN rooms'
<1>1. \A r \in RoomId : quietFor'[r] = IF r \in created' \ created \/ Used(r, ws)
                                       THEN 0 ELSE quietFor[r]
  BY DEF Serve
<1>2. quietFor' \in [RoomId -> 0 .. RoomTtl + 1]
  <2>1. 0 \in 0 .. RoomTtl + 1
    BY LimitsNat
  <2>2. quietFor' = [r \in RoomId |-> quietFor'[r]]
    BY DEF Serve
  <2> QED
    BY <1>1, <2>1, <2>2 DEF LifeInv
<1>3. /\ DOMAIN rooms' \subseteq RoomId /\ DOMAIN rooms \subseteq created
      /\ \A r \in DOMAIN rooms : rooms[r].idle \in Nat
      /\ \A r \in DOMAIN rooms : rooms[r].idle <= quietFor[r]
      /\ \A r \in RoomId : quietFor[r] \in Nat /\ quietFor'[r] \in Nat
  BY <1>2, LimitsNat DEF LifeInv, TypeOK, Room
<1>4. CASE Open(ws)
  <2>1. data'[ws].roomId = Null /\ UNCHANGED <<rooms, created>>
    BY <1>4 DEF Open, StoreData, Blank, LifeInv, TypeOK
  <2>2. \A r \in RoomId : quietFor'[r] = quietFor[r]
    BY <1>1, <2>1, NullFresh DEF Used
  <2>3. \A r \in DOMAIN rooms : rooms[r].idle <= quietFor'[r]
    BY <1>3, <2>1, <2>2
  <2> QED
    BY <1>2, <2>1, <2>3 DEF LifeInv
<1>5. CASE HandleClose(ws)
  <2>1. \A r \in RoomId : ~Used(r, ws)
    BY <1>5 DEF HandleClose, Used, LifeInv, TypeOK
  <2>2. created' = created
    BY <1>5 DEF HandleClose
  <2>3. /\ DOMAIN rooms' = DOMAIN rooms
        /\ \A r \in DOMAIN rooms : rooms'[r].idle = rooms[r].idle
    <3>1. CASE InRoom(ws)
      <4>1. /\ rooms' = [rooms EXCEPT ![data[ws].roomId].conns = @ \ {ws}]
            /\ \A r \in DOMAIN rooms : rooms[r] \in Room
        BY <1>5, <3>1 DEF HandleClose, LifeInv, TypeOK
      <4> QED
        BY <4>1 DEF Room
    <3>2. CASE ~InRoom(ws)
      BY <1>5, <3>2 DEF HandleClose
    <3> QED
      BY <3>1, <3>2
  <2> QED
    BY <1>1, <1>2, <1>3, <2>1, <2>2, <2>3 DEF LifeInv
<1>6. CASE Message(ws) /\ Unnoticed(ws)
  <2>1. \A r \in RoomId : ~Used(r, ws)
    BY <1>6 DEF Unnoticed, Used
  <2>2. \A r \in DOMAIN rooms : quietFor'[r] = quietFor[r]
    BY <1>1, <1>3, <2>1 DEF LifeInv, TypeOK
  <2> QED
    BY <1>2, <1>3, <1>6, <2>2 DEF Unnoticed, LifeInv
<1>7. CASE Message(ws) /\ Noticed(ws)
  <2>1. \A r \in DOMAIN rooms \ {data'[ws].roomId} : quietFor'[r] = quietFor[r]
    BY <1>1, <1>3, <1>7 DEF Noticed, Used, LifeInv, TypeOK
  <2> QED
    BY <1>2, <1>3, <1>7, <2>1 DEF Noticed, LifeInv
<1> QED
  BY <1>4, <1>5, <1>6, <1>7, MessageLife DEF Serve, LifeInv

(* The two clocks advance together, up to the same bound.                  *)
LEMMA TimeLife ==
  ASSUME LifeInv, TimePasses, TypeOK'
  PROVE  LifeInv' /\ DOMAIN rooms' = DOMAIN rooms
<1>1. \A i, j \in 0 .. RoomTtl + 1 :
        /\ Older(i) \in 0 .. RoomTtl + 1
        /\ i <= j => Older(i) <= Older(j)
  BY LimitsNat DEF Older
<1>2. /\ DOMAIN rooms' = DOMAIN rooms
      /\ \A r \in DOMAIN rooms : rooms'[r].idle = Older(rooms[r].idle)
      /\ quietFor' = [r \in RoomId |-> Older(quietFor[r])]
  BY DEF TimePasses, Tick
<1>3. \A r \in DOMAIN rooms : r \in RoomId /\ rooms[r].idle \in 0 .. RoomTtl + 1
  BY DEF LifeInv, TypeOK, Room
<1>4. quietFor' \in [RoomId -> 0 .. RoomTtl + 1]
  BY <1>1, <1>2 DEF LifeInv
<1>5. \A r \in DOMAIN rooms' : rooms'[r].idle <= quietFor'[r]
  BY <1>1, <1>2, <1>3 DEF LifeInv
<1> QED
  BY <1>2, <1>4, <1>5 DEF LifeInv

(* Every step keeps the ages in order, and only the sweep deletes a room.  *)
LEMMA NextLife ==
  ASSUME LifeInv, [LifeNext]_lifeVars
  PROVE  LifeInv' /\ (Sweep \/ DOMAIN rooms \subseteq DOMAIN rooms')
<1>1. TypeOK'
  BY LifeImpliesRelay, NextType DEF LifeInv
<1>2. CASE Sweep
  BY <1>1, <1>2 DEF Sweep, PruneRooms, LifeInv
<1>3. CASE \E ws \in Conn : (Deliver(ws) \/ Lose(ws)) /\ UNCHANGED quietFor
  BY <1>1, <1>3 DEF Deliver, Lose, LifeInv
<1>4. CASE UNCHANGED lifeVars
  BY <1>1, <1>4 DEF lifeVars, LifeInv
<1> QED
  BY <1>1, <1>2, <1>3, <1>4, TimeLife, ServeLife DEF LifeNext

(* A room is deleted only after the TTL has passed without any use of it,  *)
(* whatever its members did in the meantime (pruneRooms, and every handler *)
(* that refreshes lastActivity).                                           *)
THEOREM UsedRoomsAreKept == LifeSpec => UsedRoomKept
<1>1. ASSUME LifeInv, [LifeNext]_lifeVars, NEW r \in RoomId, Deleted(r)
      PROVE  quietFor[r] > RoomTtl
  <2>1. Sweep /\ r \in DOMAIN rooms /\ r \notin DOMAIN rooms'
    BY <1>1, NextLife DEF Deleted
  <2>2. rooms[r].idle > RoomTtl
    BY <2>1 DEF Sweep, PruneRooms, Expired
  <2>3. rooms[r].idle <= quietFor[r] /\ rooms[r].idle \in Nat /\ quietFor[r] \in Nat
    BY <1>1, <2>1, LimitsNat DEF LifeInv, TypeOK, Room
  <2> QED
    BY <2>2, <2>3, LimitsNat
<1>2. LifeInv /\ [LifeNext]_lifeVars
        => [\A r \in RoomId : Deleted(r) => quietFor[r] > RoomTtl]_lifeVars
  BY <1>1
<1>3. LifeInv /\ [LifeNext]_lifeVars => LifeInv'
  BY NextLife
<1> QED
  BY <1>2, <1>3, InitLife, PTL DEF LifeSpec, UsedRoomKept
=============================================================================
