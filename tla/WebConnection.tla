---------------------------- MODULE WebConnection ----------------------------
(***************************************************************************)
(* How a web client gets into a room, stays in it and comes back: the      *)
(* socket, the timer and the flags of CovcomSession (web/src/session.ts),  *)
(* against a network that fails and a server that notices late that a      *)
(* connection is gone.  What the frames do to the keys is WebClient's.     *)
(***************************************************************************)
EXTENDS Naturals

CONSTANTS
  MaxDrops,    \* bound on the connections the network loses
  MaxOutages,  \* bound on the times the server becomes unreachable
  MaxAsks      \* bound on the times the user creates or joins a room

ASSUME WebBounds == MaxDrops \in Nat /\ MaxOutages \in Nat /\ MaxAsks \in Nat

VARIABLES
  webPhase,      \* _phase
  webSock,       \* how far the one socket has got: see Stages
  webTimer,      \* _reconnectTimer is set
  webDelay,      \* _reconnectDelay, in doublings of RECONNECT_INITIAL_MS
  isReconnect, lost,   \* _isReconnect; _connectionLostAt is set
  ghosts,        \* connections the server still holds under the user's name
  reachable, drops, outages, asks

webVars == <<webPhase, webSock, webTimer, webDelay, isReconnect, lost, ghosts,
             reachable, drops, outages, asks>>
netVars == <<reachable, drops, outages, asks>>

(* opening: no TCP connection yet.  asking: `create` or `join` is sent.    *)
(* joined: the answer is on its way.  identifying: `identify` is.  taken:  *)
(* the refusal of the name is.  in: identified.                            *)
Stages == {"none", "opening", "asking", "joined", "identifying", "taken", "in"}

(* RECONNECT_MAX_MS is 30 times the initial delay, reached by 5 doublings. *)
MaxDelay == 5

WebInit ==
  /\ webPhase = "idle" /\ webSock = "none" /\ webTimer = FALSE /\ webDelay = 0
  /\ isReconnect = FALSE /\ lost = FALSE /\ ghosts = 0
  /\ reachable = TRUE /\ drops = 0 /\ outages = 0 /\ asks = 0

-----------------------------------------------------------------------------
(* What closing the socket leaves at the server: the connection, if it had *)
(* identified; if `identify` was under way, it may have arrived.           *)
Abandoned ==
  CASE webSock = "in" -> {ghosts + 1}
    [] webSock = "identifying" -> IF ghosts = 0 THEN {0, 1} ELSE {ghosts}
    [] OTHER -> {ghosts}

(* Mutant: the timer is left running.                                      *)
TeardownTimerKept(phase, sock) ==
  /\ webPhase' = phase /\ webSock' = sock /\ webDelay' = 0
  /\ isReconnect' = FALSE /\ lost' = FALSE /\ ghosts' \in Abandoned
  /\ UNCHANGED webTimer

(* _teardown; create and join call it first and then open their socket.    *)
Teardown(phase, sock) ==
  /\ webPhase' = phase /\ webSock' = sock /\ webTimer' = FALSE /\ webDelay' = 0
  /\ isReconnect' = FALSE /\ lost' = FALSE /\ ghosts' \in Abandoned

ScheduleReconnect == webTimer' = TRUE /\ webSock' = "none" /\ UNCHANGED webDelay

(* Mutant: a reconnect cut off before `joined` is not tried again.         *)
OnWsCloseOnce ==
  IF webPhase \in {"idle", "joining"}
  THEN IF isReconnect
       THEN /\ webSock' = "none" /\ ghosts' \in Abandoned
            /\ UNCHANGED <<webPhase, webTimer, webDelay, isReconnect, lost>>
       ELSE Teardown("idle", "none")
  ELSE /\ ScheduleReconnect
       /\ lost' = TRUE /\ ghosts' \in Abandoned
       /\ UNCHANGED <<webPhase, isReconnect>>

(* _onWsClose: fatal before the client is in the room the first time, else *)
(* the next attempt is scheduled.                                          *)
OnWsClose ==
  IF webPhase \in {"idle", "joining"}
  THEN IF isReconnect
       THEN /\ ScheduleReconnect
            /\ ghosts' \in Abandoned
            /\ UNCHANGED <<webPhase, isReconnect, lost>>
       ELSE Teardown("idle", "none")
  ELSE /\ ScheduleReconnect
       /\ lost' = TRUE /\ ghosts' \in Abandoned
       /\ UNCHANGED <<webPhase, isReconnect>>

-----------------------------------------------------------------------------
(* The user: create or join, from any screen, and leaving (dispose).       *)
Ask ==
  /\ asks < MaxAsks
  /\ \/ Teardown("idle", "opening")      \* create
     \/ Teardown("joining", "opening")   \* join
  /\ asks' = asks + 1
  /\ UNCHANGED <<reachable, drops, outages>>

DisposeSession ==
  /\ webPhase # "idle"
  /\ Teardown("idle", "none") /\ UNCHANGED netVars

(* Mutant: the attempt does not mark itself as a reconnect.                *)
AttemptReconnectUnmarked ==
  /\ webTimer
  /\ webTimer' = FALSE /\ webSock' = "opening"
  /\ webDelay' = IF webDelay = MaxDelay THEN MaxDelay ELSE webDelay + 1
  /\ UNCHANGED <<webPhase, isReconnect, lost, ghosts, netVars>>

(* _attemptReconnect, when the timer fires.                                *)
AttemptReconnect ==
  /\ webTimer
  /\ webTimer' = FALSE /\ webSock' = "opening" /\ isReconnect' = TRUE
  /\ webDelay' = IF webDelay = MaxDelay THEN MaxDelay ELSE webDelay + 1
  /\ UNCHANGED <<webPhase, lost, ghosts, netVars>>

(* The socket opens, or fails to.                                          *)
SocketOpens ==
  /\ webSock = "opening" /\ reachable /\ webSock' = "asking"
  /\ UNCHANGED <<webPhase, webTimer, webDelay, isReconnect, lost, ghosts, netVars>>
SocketFails ==
  /\ webSock = "opening" /\ ~reachable
  /\ OnWsClose /\ UNCHANGED netVars

(* The server answers; `room_created` makes the client join what it made.  *)
ServerAnswers ==
  /\ webSock = "asking" /\ reachable /\ webSock' = "joined"
  /\ webPhase' = IF webPhase = "idle" THEN "joining" ELSE webPhase
  /\ UNCHANGED <<webTimer, webDelay, isReconnect, lost, ghosts, netVars>>

(* _onJoined, for a room with or without members.                          *)
OnJoined ==
  /\ webSock = "joined" /\ reachable /\ webSock' = "identifying"
  /\ webPhase' \in {"waiting", "joining"}
  /\ IF isReconnect /\ lost THEN lost' = FALSE /\ webDelay' = 0
                            ELSE UNCHANGED <<lost, webDelay>>
  /\ UNCHANGED <<webTimer, isReconnect, ghosts, netVars>>

ServerIdentifies ==
  /\ webSock = "identifying" /\ reachable
  /\ webSock' = IF ghosts > 0 THEN "taken" ELSE "in"
  /\ UNCHANGED <<webPhase, webTimer, webDelay, isReconnect, lost, ghosts, netVars>>

(* _onError, for username_taken.                                           *)
OnError ==
  /\ webSock = "taken" /\ reachable
  /\ Teardown("idle", "none") /\ UNCHANGED netVars

(* The seeds are in, somebody arrives at a lone waiter, everybody leaves.  *)
PhaseMoves ==
  /\ webSock = "in" /\ reachable
  /\ \/ webPhase = "joining" /\ webPhase' = "ready"
     \/ webPhase = "waiting" /\ webPhase' = "joining"
     \/ webPhase = "ready" /\ webPhase' = "waiting"
  /\ UNCHANGED <<webSock, webTimer, webDelay, isReconnect, lost, ghosts, netVars>>

(* The network.                                                            *)
ConnectionDrops ==
  /\ webSock # "none" /\ drops < MaxDrops
  /\ OnWsClose
  /\ drops' = drops + 1 /\ UNCHANGED <<reachable, outages, asks>>
Outage ==
  /\ reachable /\ outages < MaxOutages
  /\ reachable' = FALSE /\ outages' = outages + 1
  /\ UNCHANGED <<webPhase, webSock, webTimer, webDelay, isReconnect, lost, ghosts,
                 drops, asks>>
Recovery ==
  /\ ~reachable /\ reachable' = TRUE
  /\ UNCHANGED <<webPhase, webSock, webTimer, webDelay, isReconnect, lost, ghosts,
                 drops, outages, asks>>

(* The server's close callback for a connection that went without a word.  *)
GhostGone ==
  /\ ghosts > 0 /\ ghosts' = ghosts - 1
  /\ UNCHANGED <<webPhase, webSock, webTimer, webDelay, isReconnect, lost, netVars>>

WebProgress ==
  \/ AttemptReconnect \/ SocketOpens \/ SocketFails \/ ServerAnswers \/ OnJoined
  \/ ServerIdentifies \/ OnError

WebNext ==
  \/ WebProgress \/ Recovery
  \/ Ask \/ DisposeSession \/ PhaseMoves \/ ConnectionDrops \/ Outage \/ GhostGone

(* Timers fire and frames are handled; an outage ends.                     *)
WebFairness == WF_webVars(WebProgress) /\ WF_webVars(Recovery)
WebSpec == WebInit /\ [][WebNext]_webVars /\ WebFairness

-----------------------------------------------------------------------------
(* A client that shows a room has one way back to it: its socket or its    *)
(* timer, never both and never neither, and on the landing page no timer   *)
(* is left to bring it back (_teardown, _onWsClose, _attemptReconnect).    *)
OneWayBack ==
  /\ webPhase # "idle" => (webTimer <=> webSock = "none")
  /\ webPhase = "idle" => ~webTimer

(* The banner "connection lost" is gone once the client is back, however   *)
(* many attempts were cut off on the way (_onJoined).                      *)
BannerCleared == webSock \in {"identifying", "taken", "in"} => ~lost

(* A client whose connection went comes back by itself, or ends on the     *)
(* landing page with an error; it never hangs between the two.  Timers     *)
(* fire, the network recovers and the server answers.                      *)
LostComesBack ==
  (webPhase # "idle" /\ webSock = "none") ~> (webSock = "in" \/ webPhase = "idle")
=============================================================================
