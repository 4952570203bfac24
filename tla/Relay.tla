------------------------------- MODULE Relay -------------------------------
(***************************************************************************)
(* The COVCOM relay server (server/src): it sequences the frames of a      *)
(* room, enforces membership, and never reads a payload.                   *)
(*                                                                         *)
(* The server is one JavaScript thread.  A websocket callback runs to its  *)
(* end before the next one starts and no handler awaits, so every handler  *)
(* is one action.  Frames leave through one FIFO per connection, `out`,    *)
(* the order in which Bun writes them to the socket.                       *)
(*                                                                         *)
(* Payloads, keys, claims and signatures are opaque to the server; what it *)
(* looks at is their presence and their length.  Hence each has a set of   *)
(* all values and the subset of those that pass the length test.           *)
(***************************************************************************)
EXTENDS Naturals, Sequences, FiniteSets

CONSTANTS
  Conn,          \* websocket connections; one is opened and closed at most once
  RoomId,        \* the 128-bit room ids that createRoom can draw
  Name,          \* usernames that pass the server's validation
  RawName,       \* usernames as they appear in a frame
  Canon,         \* RawName -> Name, or Null when the trimmed name is refused
  Ek, GoodEk,    \* encapsulation keys in base64; those of exactly 1580 chars
  Claim, GoodClaim, \* claim envelopes; those of 1 to 4000 chars
  Sig, GoodSig,  \* signatures; those of 1 to 200 chars
  Payload,       \* opaque ciphertexts
  Token,         \* admin tokens
  AdminToken,    \* the configured token, Null when unset or empty
  Version, PROTOCOL_VERSION,
  MaxRoomSize,   \* 0 means unlimited
  RoomTtl,       \* in clock ticks, 0 means rooms are never pruned
  MaxUnread,     \* bound: no frame is handled while more frames are unread
  Null

ASSUME ConnFinite == IsFiniteSet(Conn)
ASSUME CanonType == Canon \in [RawName -> Name \cup {Null}]
ASSUME GoodSubsets == /\ GoodEk \subseteq Ek
                      /\ GoodClaim \subseteq Claim
                      /\ GoodSig \subseteq Sig
ASSUME NullFresh == Null \notin RoomId \cup Name \cup Ek \cup Claim \cup Token
ASSUME LimitsNat == MaxRoomSize \in Nat /\ RoomTtl \in Nat /\ MaxUnread \in Nat

VARIABLES
  rooms,    \* Map<roomId, Room>: a function on the ids of the existing rooms
  created,  \* every id createRoom ever drew; 128 random bits do not repeat
  sock,     \* readyState of each websocket, as the server sees it
  data,     \* ws.data, the ConnData of each websocket
  out       \* frames written to each websocket and not yet read by its client

vars == <<rooms, created, sock, data, out>>

-----------------------------------------------------------------------------
(* Frames from clients, as the InboundMsg union spells them.               *)

CreateMsg   == [type: {"create"}, adminToken: Token \cup {Null},
                protocolVersion: Version]
JoinMsg     == [type: {"join"}, roomId: RoomId, roomSecret: RoomId,
                protocolVersion: Version]
IdentifyMsg == [type: {"identify"}, username: RawName, ek: Ek, ratchetEk: Ek,
                claim: Claim]
RelayMsg    == [type: {"relay"}, to: Name, payload: Payload]
BroadcastMsg == [type: {"broadcast"}, payload: Payload, sig: Sig]
RatchetStepMsg == [type: {"ratchet_step"},
                   payloads: UNION {[S -> Payload] : S \in SUBSET Name},
                   newEk: Ek, sig: Sig, claim: Claim]
EkUpdateMsg == [type: {"ek_update"}, ek: Ek, claim: Claim]
RekeyMsg    == [type: {"rekey"}, ek: Ek, ratchetEk: Ek, claim: Claim]

(* Frames to clients, as the OutboundMsg union spells them.  A room's      *)
(* secret is as hard to guess as its id and never changes, so the id       *)
(* stands for it.                                                          *)
Member == [username: Name, ek: Ek, ratchetEk: Ek, claim: Claim]
OutboundMsg ==
  [type: {"error"}, reason: {"version_mismatch", "forbidden", "not_found",
                             "room_full", "username_taken"}]
    \cup [type: {"room_created"}, roomId: RoomId, roomSecret: RoomId]
    \cup [type: {"joined"}, members: SUBSET Member]
    \cup [type: {"peer_joined"}, username: Name, ek: Ek, ratchetEk: Ek,
          claim: Claim]
    \cup [type: {"peer_left"}, username: Name]
    \cup [type: {"relay"}, from: Name, payload: Payload]
    \cup [type: {"broadcast"}, from: Name, payload: Payload, sig: Sig]
    \cup [type: {"ratchet_step_fwd"}, from: Name, payload: Payload, newEk: Ek,
          sig: Sig, claim: Claim]
    \cup [type: {"ek_update_fwd"}, from: Name, ek: Ek, claim: Claim]
    \cup [type: {"rekeyed"}]

(* ConnData: all null from the upgrade until join and identify fill it.    *)
ConnData == [roomId: RoomId \cup {Null}, username: Name \cup {Null},
             ek: Ek \cup {Null}, ratchetEk: Ek \cup {Null},
             claim: Claim \cup {Null}]
Blank == [roomId |-> Null, username |-> Null, ek |-> Null, ratchetEk |-> Null,
          claim |-> Null]

(* Room.  Only the age of lastActivity matters, against the TTL, so `idle` *)
(* is now - lastActivity and stops counting just above the TTL.            *)
Room == [conns: SUBSET Conn, idle: 0 .. RoomTtl + 1]

TypeOK ==
  /\ created \subseteq RoomId
  /\ DOMAIN rooms \subseteq created
  /\ rooms \in [DOMAIN rooms -> Room]
  /\ sock \in [Conn -> {"new", "open", "closing", "closed"}]
  /\ data \in [Conn -> ConnData]
  /\ out \in [Conn -> Seq(OutboundMsg)]

Init ==
  /\ rooms = [r \in {} |-> Null]
  /\ created = {}
  /\ sock = [c \in Conn |-> "new"]
  /\ data = [c \in Conn |-> Blank]
  /\ out = [c \in Conn |-> <<>>]

-----------------------------------------------------------------------------
(* send(): JSON onto the socket.  A socket that is closing or closed takes *)
(* no more frames, though it may still be in its room.                     *)

Fanout(S, f(_)) ==
  out' = [c \in Conn |-> IF c \in S /\ sock[c] = "open"
                         THEN Append(out[c], f(c)) ELSE out[c]]
Reply(ws, m) == out' = [out EXCEPT ![ws] = Append(@, m)]
Error(ws, why) == Reply(ws, [type |-> "error", reason |-> why])

CloseSocket(ws) == sock' = [sock EXCEPT ![ws] = "closing"]
StoreData(ws, d) == data' = [data EXCEPT ![ws] = d]

(* Mutant of StoreKeys: the sealing key is not replaced.                   *)
StoreKeysOldEk(ws, ek, ratchetEk, claim) ==
  StoreData(ws, [data[ws] EXCEPT !.ratchetEk = ratchetEk, !.claim = claim])

StoreKeys(ws, ek, ratchetEk, claim) ==
  StoreData(ws, [roomId |-> data[ws].roomId, username |-> data[ws].username,
                 ek |-> ek, ratchetEk |-> ratchetEk, claim |-> claim])

InRoom(ws) == data[ws].roomId \in DOMAIN rooms
Identified(ws) == InRoom(ws) /\ data[ws].username # Null
RoomOf(ws) == rooms[data[ws].roomId]
Others(ws) == RoomOf(ws).conns \ {ws}
(* Mutant: activity is not noted.                                          *)
TouchNothing(ws) == UNCHANGED rooms
Touch(ws) == rooms' = [rooms EXCEPT ![data[ws].roomId].idle = 0]

(* A frame that a handler drops changes nothing.                           *)
Drop == UNCHANGED vars

Open(ws) ==
  /\ sock[ws] = "new"
  /\ sock' = [sock EXCEPT ![ws] = "open"]
  /\ StoreData(ws, Blank)
  /\ UNCHANGED <<rooms, created, out>>

WrongVersion(ws, m) ==
  /\ m.protocolVersion # PROTOCOL_VERSION
  /\ Error(ws, "version_mismatch")
  /\ CloseSocket(ws)
  /\ UNCHANGED <<rooms, created, data>>

TokenRefused(m) == AdminToken # Null /\ m.adminToken # AdminToken

HandleCreate(ws, m) ==
  \/ WrongVersion(ws, m)
  \/ /\ m.protocolVersion = PROTOCOL_VERSION
     /\ TokenRefused(m)
     /\ Error(ws, "forbidden")
     /\ UNCHANGED <<rooms, created, sock, data>>
  \/ /\ m.protocolVersion = PROTOCOL_VERSION
     /\ ~TokenRefused(m)
     /\ \E r \in RoomId \ created :
          /\ rooms' = [x \in DOMAIN rooms \cup {r} |->
                         IF x = r THEN [conns |-> {}, idle |-> 0] ELSE rooms[x]]
          /\ created' = created \cup {r}
          /\ Reply(ws, [type |-> "room_created", roomId |-> r, roomSecret |-> r])
     /\ UNCHANGED <<sock, data>>

(* Mutant: one too many.                                                   *)
RoomFullLate(r) == MaxRoomSize > 0 /\ Cardinality(rooms[r].conns) > MaxRoomSize
RoomFull(r) == MaxRoomSize > 0 /\ Cardinality(rooms[r].conns) >= MaxRoomSize

(* Mutant: a connection may join while it is in a room.                    *)
JoinRefusalNoRoom(ws, m) ==
  IF m.roomId \notin DOMAIN rooms THEN "not_found"
  ELSE IF m.roomSecret # m.roomId THEN "forbidden"
  ELSE IF RoomFull(m.roomId) THEN "room_full"
  ELSE "none"

(* The checks of handleJoin in the order it makes them.                    *)
JoinRefusal(ws, m) ==
  IF data[ws].roomId # Null THEN "forbidden"
  ELSE IF m.roomId \notin DOMAIN rooms THEN "not_found"
  ELSE IF m.roomSecret # m.roomId THEN "forbidden"
  ELSE IF RoomFull(m.roomId) THEN "room_full"
  ELSE "none"

(* Mutant: members that have not identified are listed as well.            *)
SnapshotAll(S) ==
  {[username |-> data[c].username, ek |-> data[c].ek,
    ratchetEk |-> data[c].ratchetEk, claim |-> data[c].claim] : c \in S}

(* What a late joiner is told: every connection that has identified.       *)
Snapshot(S) ==
  {[username |-> data[c].username, ek |-> data[c].ek,
    ratchetEk |-> data[c].ratchetEk, claim |-> data[c].claim] :
     c \in {x \in S : Null \notin {data[x].username, data[x].ek,
                                   data[x].ratchetEk, data[x].claim}}}

HandleJoin(ws, m) ==
  \/ WrongVersion(ws, m)
  \/ /\ m.protocolVersion = PROTOCOL_VERSION
     /\ JoinRefusal(ws, m) # "none"
     /\ Error(ws, JoinRefusal(ws, m))
     /\ UNCHANGED <<rooms, created, sock, data>>
  \/ /\ m.protocolVersion = PROTOCOL_VERSION
     /\ JoinRefusal(ws, m) = "none"
     /\ rooms' = [rooms EXCEPT ![m.roomId] =
                               [conns |-> @.conns \cup {ws}, idle |-> 0]]
     /\ StoreData(ws, [data[ws] EXCEPT !.roomId = m.roomId])
     /\ Reply(ws, [type |-> "joined",
                   members |-> Snapshot(rooms[m.roomId].conns)])
     /\ UNCHANGED <<created, sock>>

IdentifyValid(m) ==
  /\ Canon[m.username] # Null
  /\ m.ek \in GoodEk
  /\ m.ratchetEk \in GoodEk
  /\ m.claim \in GoodClaim

(* Mutant: a member whose socket is closing gives up its name at once.     *)
NameTakenLive(ws, u) ==
  \E c \in Others(ws) : data[c].username = u /\ sock[c] = "open"
NameTaken(ws, u) == \E c \in Others(ws) : data[c].username = u

HandleIdentify(ws, m) ==
  LET u == Canon[m.username] IN
  \/ (data[ws].roomId = Null \/ (IdentifyValid(m) /\ ~InRoom(ws))) /\ Drop
  \/ /\ data[ws].roomId # Null /\ ~IdentifyValid(m)
     /\ CloseSocket(ws)
     /\ UNCHANGED <<rooms, created, data, out>>
  \/ /\ InRoom(ws) /\ IdentifyValid(m) /\ NameTaken(ws, u)
     /\ Touch(ws)
     /\ Error(ws, "username_taken")
     /\ UNCHANGED <<created, sock, data>>
  \/ /\ InRoom(ws) /\ IdentifyValid(m) /\ ~NameTaken(ws, u)
     /\ Touch(ws)
     /\ StoreData(ws, [roomId |-> data[ws].roomId, username |-> u, ek |-> m.ek,
                       ratchetEk |-> m.ratchetEk, claim |-> m.claim])
     /\ Fanout(Others(ws),
               LAMBDA c : [type |-> "peer_joined", username |-> u, ek |-> m.ek,
                           ratchetEk |-> m.ratchetEk, claim |-> m.claim])
     /\ UNCHANGED <<created, sock>>

RatchetStepValid(m) ==
  m.newEk \in GoodEk /\ m.claim \in GoodClaim /\ m.sig \in GoodSig

HandleRatchetStep(ws, m) ==
  \/ ~(Identified(ws) /\ RatchetStepValid(m)) /\ Drop
  \/ /\ Identified(ws) /\ RatchetStepValid(m)
     /\ Touch(ws)
     /\ StoreKeys(ws, data[ws].ek, m.newEk, m.claim)
     /\ Fanout({c \in Others(ws) : data[c].username \in DOMAIN m.payloads},
               LAMBDA c : [type |-> "ratchet_step_fwd", from |-> data[ws].username,
                           payload |-> m.payloads[data[c].username],
                           newEk |-> m.newEk, sig |-> m.sig, claim |-> m.claim])
     /\ UNCHANGED <<created, sock>>

HandleEkUpdate(ws, m) ==
  \/ ~(Identified(ws) /\ m.claim \in GoodClaim) /\ Drop
  \/ /\ Identified(ws) /\ m.claim \in GoodClaim
     /\ Touch(ws)
     /\ StoreKeys(ws, data[ws].ek, m.ek, m.claim)
     /\ Fanout(Others(ws),
               LAMBDA c : [type |-> "ek_update_fwd", from |-> data[ws].username,
                           ek |-> m.ek, claim |-> m.claim])
     /\ UNCHANGED <<created, sock>>

(* The first member, in join order, whose username is `to`; the sender is  *)
(* not skipped, and no match means silence.                                *)
HandleRelay(ws, m) ==
  \/ ~Identified(ws) /\ Drop
  \/ /\ Identified(ws)
     /\ Touch(ws)
     /\ LET hits == {c \in RoomOf(ws).conns : data[c].username = m.to} IN
          \/ hits = {} /\ UNCHANGED out
          \/ \E c \in hits :
               Fanout({c}, LAMBDA x : [type |-> "relay", from |-> data[ws].username,
                                       payload |-> m.payload])
     /\ UNCHANGED <<created, sock, data>>

HandleBroadcast(ws, m) ==
  \/ ~(Identified(ws) /\ m.sig \in GoodSig) /\ Drop
  \/ /\ Identified(ws) /\ m.sig \in GoodSig
     /\ Touch(ws)
     /\ Fanout(Others(ws),
               LAMBDA c : [type |-> "broadcast", from |-> data[ws].username,
                           payload |-> m.payload, sig |-> m.sig])
     /\ UNCHANGED <<created, sock, data>>

HandleRekey(ws, m) ==
  \/ ~(Identified(ws) /\ m.claim \in GoodClaim) /\ Drop
  \/ /\ Identified(ws) /\ m.claim \in GoodClaim
     /\ Touch(ws)
     /\ StoreKeys(ws, m.ek, m.ratchetEk, m.claim)
     /\ Reply(ws, [type |-> "rekeyed"])
     /\ UNCHANGED <<created, sock>>

(* The websocket's close callback, for a lost client or after ws.close().  *)
HandleClose(ws) ==
  /\ sock[ws] \in {"open", "closing"}
  /\ sock' = [sock EXCEPT ![ws] = "closed"]
  /\ IF InRoom(ws)
     THEN rooms' = [rooms EXCEPT ![data[ws].roomId].conns = @ \ {ws}]
     ELSE UNCHANGED rooms
  /\ IF Identified(ws)
     THEN Fanout(Others(ws), LAMBDA c : [type |-> "peer_left",
                                         username |-> data[ws].username])
     ELSE UNCHANGED out
  /\ UNCHANGED <<created, data>>

(* Mutants: occupied rooms expire too; the test of the TTL is inverted.    *)
ExpiredIdle(r) == RoomTtl > 0 /\ rooms[r].idle > RoomTtl
ExpiredNever(r) == RoomTtl = 0 /\ rooms[r].conns = {} /\ rooms[r].idle > RoomTtl

(* The hourly sweep: one callback over every room.                         *)
Expired(r) == RoomTtl > 0 /\ rooms[r].conns = {} /\ rooms[r].idle > RoomTtl
PruneRooms ==
  /\ \E r \in DOMAIN rooms : Expired(r)
  /\ rooms' = [r \in {x \in DOMAIN rooms : ~Expired(x)} |-> rooms[r]]
  /\ UNCHANGED <<created, sock, data, out>>

(* An age counts up to just above the TTL.                                 *)
Older(age) == IF age <= RoomTtl THEN age + 1 ELSE age

Tick ==
  /\ \E r \in DOMAIN rooms : rooms[r].idle <= RoomTtl
  /\ rooms' = [r \in DOMAIN rooms |->
                 [conns |-> rooms[r].conns, idle |-> Older(rooms[r].idle)]]
  /\ UNCHANGED <<created, sock, data, out>>

-----------------------------------------------------------------------------
(* The dispatch of index.ts: the frame's type selects the handler.  The    *)
(* bound MaxUnread is the only thing here that is not in the code.          *)

Unread == UNION {{c} \X DOMAIN out[c] : c \in Conn}
QueueRoom == Cardinality(Unread) <= MaxUnread

Handle(ws) ==
  \/ \E m \in CreateMsg : HandleCreate(ws, m)
  \/ \E m \in JoinMsg : HandleJoin(ws, m)
  \/ \E m \in IdentifyMsg : HandleIdentify(ws, m)
  \/ \E m \in RelayMsg : HandleRelay(ws, m)
  \/ \E m \in BroadcastMsg : HandleBroadcast(ws, m)
  \/ \E m \in RatchetStepMsg : HandleRatchetStep(ws, m)
  \/ \E m \in EkUpdateMsg : HandleEkUpdate(ws, m)
  \/ \E m \in RekeyMsg : HandleRekey(ws, m)

Message(ws) == sock[ws] = "open" /\ QueueRoom /\ Handle(ws)

(* The client end of the socket reads a frame.  Frames written before the  *)
(* close are still delivered, or lost with the connection.                 *)
Deliver(ws) ==
  /\ out[ws] # <<>>
  /\ out' = [out EXCEPT ![ws] = Tail(@)]
  /\ UNCHANGED <<rooms, created, sock, data>>
Lose(ws) ==
  /\ sock[ws] = "closed" /\ out[ws] # <<>>
  /\ out' = [out EXCEPT ![ws] = <<>>]
  /\ UNCHANGED <<rooms, created, sock, data>>

ServerStep ==
  \/ \E ws \in Conn : Open(ws) \/ Message(ws) \/ HandleClose(ws)
  \/ PruneRooms
  \/ Tick

Next == ServerStep \/ \E ws \in Conn : Deliver(ws) \/ Lose(ws)

Spec == Init /\ [][Next]_vars

(* The clock advances and the cron job runs; nothing obliges a client.     *)
FairSpec == Spec /\ WF_vars(Tick) /\ WF_vars(PruneRooms)

-----------------------------------------------------------------------------
(* Two connections of a room never hold the same username, although the    *)
(* name is checked and stored by frames of different clients in any order, *)
(* a client may identify again under another name, and a connection whose  *)
(* socket is closing still occupies its name (handleIdentify).             *)
UniqueNames ==
  \A r \in DOMAIN rooms : \A c, d \in rooms[r].conns :
    (c # d /\ data[c].username # Null) => data[c].username # data[d].username

(* A room never holds more connections than its limit: the size is tested  *)
(* in handleJoin only, and slots are freed only by handleClose.            *)
Capacity ==
  MaxRoomSize > 0 =>
    \A r \in DOMAIN rooms : Cardinality(rooms[r].conns) <= MaxRoomSize

(* Membership is recorded twice, in room.conns and in ws.data.roomId.  The *)
(* two agree for every live connection, so neither the sweep nor a close   *)
(* leaves a client talking to a room that no longer exists (its frames     *)
(* would be dropped without an error), and no dead socket keeps a slot.    *)
NoStrandedMember ==
  /\ \A r \in DOMAIN rooms : \A c \in rooms[r].conns :
       sock[c] \in {"open", "closing"} /\ data[c].roomId = r
  /\ \A c \in Conn :
       (sock[c] \in {"open", "closing"} /\ data[c].roomId # Null)
         => InRoom(c) /\ c \in RoomOf(c).conns

(* A room that everybody has left is deleted in the end unless somebody    *)
(* comes back (pruneRooms on the hourly cron).                             *)
AbandonedRoomPruned ==
  \A r \in RoomId :
    (RoomTtl > 0 /\ r \in DOMAIN rooms /\ rooms[r].conns = {})
      ~> (r \notin DOMAIN rooms \/ rooms[r].conns # {})

(* The relay implements Directory: for every interleaving of joins,        *)
(* identifies, renames, closes and sweeps, the names of a room change by   *)
(* one at a time, a close frees the name of the closed connection and no   *)
(* other, and no room is deleted with a name in it.  (That a name has one  *)
(* holder is UniqueNames.)                                                 *)
Members == [r \in DOMAIN rooms |->
              {data[c].username : c \in rooms[r].conns} \ {Null}]
Dir == INSTANCE Directory WITH members <- Members
DirSpec == Dir!Spec
=============================================================================
