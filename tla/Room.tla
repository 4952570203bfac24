-------------------------------- MODULE Room --------------------------------
(***************************************************************************)
(* A room: the relay and its clients, terminal and web, each with a key    *)
(* session.  A client is one connection of one user.  A terminal user who  *)
(* reconnects is a new connection under the same name, since doConnect     *)
(* builds the session, the peer list and the counters anew; a web client   *)
(* that reconnects takes over what the lost one remembered.                *)
(*                                                                         *)
(* A client handles one frame at a time, to the end.  Its frames go up one *)
(* FIFO, the server's come down another; either end may fall behind.       *)
(***************************************************************************)
EXTENDS Relay, SequencesExt

CONSTANTS
  UserOf,        \* the username each connection identifies with
  Creator,       \* the connection that creates the room; the rest are invited
  Browsers,      \* which users may be the ones with the web client
  Resumes,       \* when a lost web client reconnects: see MayResume
  MaxRotations,  \* bound on the key rotations asked for by users
  MaxDepartures, \* bound on the connections that are lost or given up
  OneAtATime     \* users act only when no frame is in flight anywhere

(* Users have names that the server accepts, as their clients send them,   *)
(* trimmed (cli/src/tui/views.ts, web/src/views/landing.ts).               *)
ASSUME UserOfType == UserOf \in [Conn -> Name \cap RawName] /\ Creator \in Conn
ASSUME BrowsersType == Browsers \subseteq SUBSET Name
ASSUME ResumesType == Resumes \in {"never", "current", "always"}
ASSUME BoundsNat == /\ MaxRotations \in Nat /\ MaxDepartures \in Nat
                    /\ OneAtATime \in BOOLEAN

(* The sets keys are taken from: a session is the nth of its client.       *)
Sid == Conn \X Nat
Seed == [sid : Sid, nth : Nat]
RootKey == [seed : Seed, steps : Nat]
SealKey == [sid : Sid]
RatchetKey == [sid : Sid, gen : Nat]
ClaimEntry == [sid : Sid, seq : Nat]
Chain == [epoch : Nat, seed : Seed]

(* The fields of a key session.                                            *)
SessionType ==
  [sid : Sid, epoch : Nat, kp : Nat, spent : BOOLEAN, seq : Nat,
   disposed : BOOLEAN,
   encap : [Name -> RootKey \cup {Null}], decap : [Name -> RootKey \cup {Null}],
   eks : [Name -> RatchetKey \cup {Null}], sender : [Name -> Chain \cup {Null}],
   peers : [Name -> ClaimEntry \cup {Null}]]

ASSUME NullIsNoKey ==
  Null \notin RootKey \cup RatchetKey \cup ClaimEntry \cup Chain \cup SessionType

INSTANCE Client
T == INSTANCE TerminalClient
W == INSTANCE WebClient

VARIABLES
  up,         \* frames each client has sent and the server has not handled
  client,     \* the state of each client
  web,        \* the users with the web client
  rotations   \* rotations asked for so far

roomVars == <<rooms, created, sock, data, out, up, client, web, rotations>>

InBrowser(c) == UserOf[c] \in web

RoomInit ==
  /\ Init
  /\ web \in Browsers
  /\ up = [c \in Conn |-> <<>>]
  /\ client = [c \in Conn |-> Start(<<c, 0>>, UserOf[c])]
  /\ rotations = 0

Reactions(c, m) == IF InBrowser(c) THEN W!Reactions(client[c], m)
                                   ELSE T!Reactions(client[c], m)

-----------------------------------------------------------------------------
(* Connected for the client, or still for the server.                      *)
Online(c) == client[c].phase \in {"joining", "waiting", "ready"}
Attached(c) == sock[c] \in {"open", "closing"}

(* Nothing is in flight and no lost connection is still in its room.       *)
Quiet ==
  \A c \in Conn : /\ up[c] = <<>> /\ out[c] = <<>>
                  /\ Attached(c) => Online(c)
MayAct == OneAtATime => Quiet

Take(c, answer) ==
  /\ client' = [client EXCEPT ![c] = answer.client]
  /\ up' = [up EXCEPT ![c] = @ \o answer.sends]

(* A new connection.  What an earlier one of the user was to resume is     *)
(* given up, whether this one resumes it or starts from a fresh page.      *)
Begin(c, k, frame) ==
  /\ client' = [d \in Conn |->
       IF d = c THEN [k EXCEPT !.phase = "joining"]
       ELSE IF UserOf[d] = UserOf[c] /\ client[d].phase = "lost"
       THEN [client[d] EXCEPT !.phase = "gone"]
       ELSE client[d]]
  /\ up' = [up EXCEPT ![c] = @ \o <<frame>>]

InTheRoom(c) == Online(c) /\ Identified(c)

(* Whether the lost client d may reconnect: at any time ("always"), or     *)
(* only while all it remembers are still in the room ("current").          *)
MayResume(d) ==
  /\ client[d].phase = "lost"
  /\ \/ Resumes = "always"
     \/ /\ Resumes = "current"
        /\ client[d].peers \subseteq {UserOf[e] : e \in {e \in Conn : InTheRoom(e)}}

(* doCreate, or doJoin with an invite: the creator's screen shows it while *)
(* the creator waits, and it stays good.  A user has one connection at a   *)
(* time; coming back after a lost one is a join too (startReconnect,       *)
(* _attemptReconnect).                                                     *)
Dial(c) ==
  /\ MayAct
  /\ client[c].phase = "landing"
  /\ \A d \in Conn : UserOf[d] = UserOf[c] => ~Online(d)
  /\ Open(c)
  /\ \/ c = Creator /\ Begin(c, client[c], CreateFrame)
     \/ /\ c # Creator
        /\ \E d \in Conn :
             client[d].phase \notin {"landing", IF d = Creator THEN "joining" ELSE "landing"}
        /\ \E r \in DOMAIN rooms :
             \/ Begin(c, client[c], JoinFrame(r))
             \/ \E d \in Conn :
                  /\ UserOf[d] = UserOf[c] /\ MayResume(d)
                  /\ Begin(c, W!AttemptReconnect(client[c], client[d]), JoinFrame(r))
  /\ UNCHANGED <<web, rotations>>

(* A client reads on only when the server has its earlier frames.  Reading *)
(* touches nothing but the client's own ends of its two queues, so a later *)
(* read gives every behaviour an earlier one does.                         *)
Read(c) ==
  /\ Online(c) /\ up[c] = <<>>
  /\ Deliver(c)
  /\ \E answer \in Reactions(c, Head(out[c])) : Take(c, answer)
  /\ UNCHANGED <<web, rotations>>

(* The user rotates, or sends the message that triggers an auto-ratchet.   *)
Rotate(c) ==
  /\ MayAct
  /\ up[c] = <<>> /\ rotations < MaxRotations
  /\ client[c].phase = "ready" /\ client[c].peers # {}
  /\ \E answer \in RotateKeys(client[c]) : Take(c, answer)
  /\ rotations' = rotations + 1
  /\ UNCHANGED <<vars, web>>

(* The connection is lost or given up.  The server notices on its own time *)
(* and may handle frames that were under way.                              *)
Disconnect(c) ==
  /\ MayAct
  /\ Online(c)
  /\ Cardinality({d \in Conn : client[d].phase \in {"gone", "lost"}})
       < MaxDepartures
  /\ client' = [client EXCEPT ![c] = IF InBrowser(c) THEN W!OnWsClose(@)
                                                    ELSE T!Ended(@)]
  /\ UNCHANGED <<vars, up, web, rotations>>

Hangup(c) ==
  /\ client[c].phase \in {"gone", "lost"}
  /\ HandleClose(c)
  /\ up' = [up EXCEPT ![c] = <<>>]
  /\ UNCHANGED <<client, web, rotations>>

(* The server handles the next frame of a connection.                      *)
Dispatch(c, m) ==
  \/ m.type = "create" /\ HandleCreate(c, m)
  \/ m.type = "join" /\ HandleJoin(c, m)
  \/ m.type = "identify" /\ HandleIdentify(c, m)
  \/ m.type = "relay" /\ HandleRelay(c, m)
  \/ m.type = "ratchet_step" /\ HandleRatchetStep(c, m)
  \/ m.type = "ek_update" /\ HandleEkUpdate(c, m)
  \/ m.type = "rekey" /\ HandleRekey(c, m)

Serve(c) ==
  /\ sock[c] = "open" /\ up[c] # <<>>
  /\ Dispatch(c, Head(up[c]))
  /\ up' = [up EXCEPT ![c] = Tail(@)]
  /\ UNCHANGED <<client, web, rotations>>

RoomNext ==
  \E c \in Conn : \/ Dial(c) \/ Read(c) \/ Rotate(c) \/ Disconnect(c)
                  \/ Serve(c) \/ Hangup(c)
                  \/ Lose(c) /\ UNCHANGED <<up, client, web, rotations>>

RoomSpec == RoomInit /\ [][RoomNext]_roomVars

-----------------------------------------------------------------------------
(* What c holds about d is what d will use next: its epoch and seed, the   *)
(* root and the unused ratchet key of the next step, the last claim.       *)
InStep(c, d) ==
  LET s == client[c].session
      t == client[d].session
      n == UserOf[d]
  IN /\ s.sender[n] = [epoch |-> t.epoch, seed |-> CurrentSeed(t)]
     /\ s.decap[n] # Null /\ s.decap[n] = t.encap[UserOf[c]]
     /\ s.eks[n] = RatchetEk(t) /\ ~t.spent
     /\ s.peers[n] = [sid |-> t.sid, seq |-> t.seq - 1]

(* Once the frames of a join, a rotation or a departure are all handled,   *)
(* every two members of the room are ready and can read each other's next  *)
(* message and next ratchet step.                                          *)
KeysAgree ==
  Quiet => \A c, d \in Conn :
             (c # d /\ InTheRoom(c) /\ InTheRoom(d)) =>
               client[c].phase = "ready" /\ InStep(c, d)

(* What the server would tell the next joiner about a member is that       *)
(* member's current key, ratchet key and last claim, also after a lobby    *)
(* rekey (handleRekey, handleEkUpdate, handleRatchetStep).                 *)
SnapshotFresh ==
  Quiet => \A c \in Conn :
             LET s == client[c].session IN
             InTheRoom(c) => /\ data[c].ek = SealEk(s)
                           /\ data[c].ratchetEk = RatchetEk(s)
                           /\ data[c].claim = [sid |-> s.sid, seq |-> s.seq - 1]

(* A receiver counts a sender's epochs by itself, one for each step it     *)
(* opened.  Whatever steps were lost or refused on the way, the number it  *)
(* gives to a seed is the sender's (receiveRatchetStep).                   *)
EpochInStep ==
  \A c \in Conn : \A n \in Name :
    LET known == client[c].session.sender[n] IN
    known # Null => known.epoch = known.seed.nth

(* doRatchetStep never fails half way through its peers, with some roots   *)
(* moved on and no frame sent: every listed peer has a root and a key.     *)
RotateNeverThrows ==
  \A c \in Conn :
    (client[c].phase = "ready" /\ client[c].peers # {}) =>
      CanRatchet(client[c].session, client[c].peers)

(* The names of those of S that have identified.                           *)
NamesOf(S) == {data[d].username : d \in S} \ {Null}

(* The member list of a terminal client against the room.  Once the client *)
(* has read what it was sent, it lists nobody who is not in the room, and  *)
(* it lists everybody for as long as it has its first session: the         *)
(* snapshot of handleJoin and the events after it neither miss a member    *)
(* nor keep a departed one (handleJoin, handleIdentify, handleClose, the   *)
(* claims and phases that doConnect tests).  A lobby session is left out:  *)
(* while its rekey is under way, peer_joined is refused.                   *)
ListsAgree ==
  \A c \in Conn :
    (~InBrowser(c) /\ InTheRoom(c) /\ sock[c] = "open" /\ out[c] = <<>>) =>
      LET others == NamesOf(Others(c)) IN
      /\ client[c].peers \subseteq others
      /\ client[c].sessions = 1 => client[c].peers = others

(* A terminal client has a pinned claim, the identity later claims of a    *)
(* name are held to, of exactly the members it lists: no frame of one that *)
(* is not listed makes it pin a claim, and no claim outlives its member    *)
(* (the peers map of doConnect, SessionIdentity._peers).                   *)
PinnedAreListed ==
  \A c \in Conn :
    (~InBrowser(c) /\ Online(c) /\ client[c].sessions = 1) =>
      \A n \in Name :
        client[c].session.peers[n] # Null <=> n \in client[c].peers
=============================================================================
