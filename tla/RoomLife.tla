------------------------------ MODULE RoomLife ------------------------------
(***************************************************************************)
(* How long the relay keeps a room: Relay with a clock per room that the   *)
(* server does not have.  It counts, independently of lastActivity, the    *)
(* ticks since the room was last used, up to just above the TTL.           *)
(***************************************************************************)
EXTENDS Relay

VARIABLES
  quietFor    \* ticks since a member's frame had an effect in the room

lifeVars == <<rooms, created, sock, data, out, quietFor>>

LifeInit ==
  /\ Init
  /\ quietFor = [r \in RoomId |-> 0]

(* The frame just handled was room life: its sender joined, changed what   *)
(* the room knows of it, or made another member receive something.         *)
Used(r, ws) ==
  /\ sock'[ws] = "open" /\ data'[ws].roomId = r
  /\ data'[ws] # data[ws] \/ \E c \in Conn \ {ws} : out'[c] # out[c]

TimePasses ==
  /\ Tick
  /\ quietFor' = [r \in RoomId |-> Older(quietFor[r])]

Serve(ws) ==
  /\ Open(ws) \/ Message(ws) \/ HandleClose(ws)
  /\ quietFor' = [r \in RoomId |->
                    IF r \in created' \ created \/ Used(r, ws) THEN 0
                    ELSE quietFor[r]]

Sweep == PruneRooms /\ UNCHANGED quietFor

LifeNext ==
  \/ TimePasses
  \/ \E ws \in Conn : Serve(ws)
  \/ Sweep
  \/ \E ws \in Conn : (Deliver(ws) \/ Lose(ws)) /\ UNCHANGED quietFor

LifeSpec == LifeInit /\ [][LifeNext]_lifeVars
LifeFairSpec == LifeSpec /\ WF_lifeVars(TimePasses) /\ WF_lifeVars(Sweep)

-----------------------------------------------------------------------------
Deleted(r) == r \in DOMAIN rooms /\ r \notin DOMAIN rooms'

(* A room is deleted only after the TTL has passed without any use of it:  *)
(* every handler through which a member can affect the room refreshes      *)
(* lastActivity (SERVER-SPEC.md, room lifecycle, "Activity").              *)
UsedRoomKept ==
  [][\A r \in RoomId : Deleted(r) => quietFor[r] > RoomTtl]_lifeVars
=============================================================================
