-------------------------- MODULE TerminalConnection --------------------------
(***************************************************************************)
(* How the terminal client gets into a room, stays in it, comes back and   *)
(* leaves: doCreate, doJoin, doConnect, startReconnect and leaveWaiting of *)
(* cli/src/state.ts.  Each attempt has a socket of its own, with handlers  *)
(* that outlive the attempt; all of them share the module variables        *)
(* `current` and _authSettled.  The screen drawn last stays until another  *)
(* is drawn.  The user keeps to one room and one name.                     *)
(***************************************************************************)
EXTENDS Naturals, FiniteSets

CONSTANTS
  Sock,      \* the sockets; their number bounds the attempts
  NoSock

ASSUME SockType == NoSock \notin Sock /\ IsFiniteSet(Sock)

VARIABLES
  current,    \* current: its phase, and its socket once there is a session
  settled,    \* _authSettled
  socks,      \* how far each socket has got: see SockStage
  kind,       \* whether doCreate, doJoin or startReconnect opened it
  others,     \* others are in the room, whose seeds are due or in
  retries,    \* reconnect loops that run (startReconnect)
  screen      \* what is drawn: the landing, create and join forms are "form"

\* No variable of the client: no action reads it, and Next keeps it.
VARIABLE overlap   \* the user has begun an attempt beside another, its loop or close

terminalVars == <<current, settled, socks, kind, others, retries, screen, overlap>>

(* As in WebConnection.  A socket the client has closed is closing until   *)
(* its onClose is called, with handlers and all; one that is gone and that *)
(* the server still holds under the user's name is a ghost.                *)
SockStage == {"free", "opening", "asking", "joined", "identifying", "taken", "in",
              "closing", "ghost", "closed"}
Alive(s) == socks[s] \in {"opening", "asking", "joined", "identifying", "taken", "in"}
Connected(s) == socks[s] \in {"identifying", "taken", "in"}   \* runs doConnect's handlers
InSession == current.phase \in {"waiting", "ready"}
UnderWay == {s \in Sock : Alive(s) \/ socks[s] = "closing"}

At(phase, s) == [phase |-> phase, sock |-> s]

TerminalInit ==
  /\ current = At("landing", NoSock) /\ settled = FALSE
  /\ socks = [s \in Sock |-> "free"]
  /\ kind = [s \in Sock |-> "join"]
  /\ others = [s \in Sock |-> FALSE]
  /\ retries = 0 /\ screen = "form" /\ overlap = FALSE

-----------------------------------------------------------------------------
(* What is left of a socket that closes, by what the server has of it.     *)
Remains(s) ==
  CASE socks[s] = "in" -> {"ghost"}
    [] socks[s] \in {"identifying", "closing"} -> {"ghost", "closed"}
    [] OTHER -> {"closed"}

(* Mutant: the attempt before is still taken for settled.                  *)
DoJoinSettledKept(s, k) ==
  /\ socks[s] = "free"
  /\ current' = At("joining", NoSock)
  /\ socks' = [socks EXCEPT ![s] = "opening"]
  /\ kind' = [kind EXCEPT ![s] = k]
  /\ UNCHANGED settled

(* doJoin, asked for by the user or by a reconnect loop.                   *)
DoJoin(s, k) ==
  /\ socks[s] = "free"
  /\ current' = At("joining", NoSock) /\ settled' = FALSE
  /\ socks' = [socks EXCEPT ![s] = "opening"]
  /\ kind' = [kind EXCEPT ![s] = k]

(* doCreate: the phase moves only when the server has made the room.       *)
DoCreate(s) ==
  /\ socks[s] = "free"
  /\ settled' = FALSE
  /\ socks' = [socks EXCEPT ![s] = "opening"]
  /\ kind' = [kind EXCEPT ![s] = "create"]
  /\ UNCHANGED current

(* The landing page and its forms, which stay up while an attempt runs.    *)
Submit ==
  /\ screen = "form"
  /\ \E s \in Sock : DoCreate(s) \/ DoJoin(s, "join")
  /\ UNCHANGED <<others, retries, screen>>

(* Cancel on a form: goLanding, and nothing is closed.                     *)
CancelForm ==
  /\ screen = "form"
  /\ current' = At("landing", NoSock)
  /\ UNCHANGED <<settled, socks, kind, others, retries, screen>>

(* Cancel on the waiting screen.  A socket that was lost stays as it is.   *)
LeaveWaiting ==
  /\ screen = "waiting" /\ current.phase = "waiting"
  /\ settled' = TRUE
  /\ socks' = [s \in Sock |-> IF s = current.sock /\ Connected(s)
                             THEN "closing" ELSE socks[s]]
  /\ current' = At("landing", NoSock) /\ screen' = "form"
  /\ UNCHANGED <<kind, others, retries>>

-----------------------------------------------------------------------------
Opens(s) ==
  /\ socks[s] = "opening" /\ socks' = [socks EXCEPT ![s] = "asking"]
  /\ UNCHANGED <<current, settled, kind, others, retries, screen>>

RelayAnswers(s) ==
  /\ socks[s] = "asking" /\ socks' = [socks EXCEPT ![s] = "joined"]
  /\ current' = IF kind[s] = "create" THEN At("joining", NoSock) ELSE current
  /\ UNCHANGED <<settled, kind, others, retries, screen>>

(* doConnect, whatever `current` is by now; an empty room shows the invite.*)
DoConnect(s) ==
  /\ socks[s] = "joined" /\ socks' = [socks EXCEPT ![s] = "identifying"]
  /\ current' = At("waiting", s)
  /\ \E present \in IF kind[s] = "create" THEN {FALSE} ELSE BOOLEAN :
       /\ others' = [others EXCEPT ![s] = present]
       /\ screen' = IF present THEN screen ELSE "waiting"
  /\ UNCHANGED <<settled, kind, retries>>

RelayIdentifies(s) ==
  /\ socks[s] = "identifying"
  /\ LET named == {t \in Sock : socks[t] \in {"in", "ghost"}}
         leaving == {t \in Sock : socks[t] = "closing"}
     IN \E stage \in (IF named = {} THEN {"in"} ELSE {})
                     \cup (IF named \cup leaving # {} THEN {"taken"} ELSE {}) :
          socks' = [socks EXCEPT ![s] = stage]
  /\ UNCHANGED <<current, settled, kind, others, retries, screen>>

(* The error username_taken: reportAuthFatal, on whatever screen it is.    *)
OnTaken(s) ==
  /\ socks[s] = "taken" /\ socks' = [socks EXCEPT ![s] = "closing"]
  /\ settled' = TRUE /\ current' = At("landing", NoSock)
  /\ UNCHANGED <<kind, others, retries, screen>>

(* The last seed: ready, and the chat is drawn unless this is a reconnect. *)
LastSeed(s) ==
  /\ socks[s] = "in" /\ others[s] /\ current.phase = "waiting"
  /\ current' = At("ready", s)
  /\ screen' = IF kind[s] = "again" THEN screen ELSE "chat"
  /\ UNCHANGED <<settled, socks, kind, others, retries>>

SomebodyJoins(s) ==
  /\ socks[s] = "in" /\ ~others[s] /\ current.phase = "waiting"
  /\ others' = [others EXCEPT ![s] = TRUE]
  /\ UNCHANGED <<current, settled, socks, kind, retries, screen>>
EverybodyLeaves(s) ==
  /\ socks[s] = "in" /\ others[s] /\ InSession
  /\ others' = [others EXCEPT ![s] = FALSE]
  /\ UNCHANGED <<current, settled, socks, kind, retries, screen>>

(* `rekeyed`, after doLobbyTransition.                                     *)
Rekeyed(s) ==
  /\ socks[s] = "in" /\ ~others[s] /\ current.phase = "ready"
  /\ current' = At("waiting", s) /\ screen' = "waiting"
  /\ UNCHANGED <<settled, socks, kind, others, retries>>

(* onClose, of a connection that is lost or that was closed before: that   *)
(* of doCreate and doJoin only reports it, that of doConnect starts a      *)
(* reconnect loop for whatever session is current by now, unless the flag  *)
(* still says that the close was meant.                                    *)
Lost(s) ==
  /\ Alive(s) \/ socks[s] = "closing"
  /\ \E rest \in Remains(s) : socks' = [socks EXCEPT ![s] = rest]
  /\ retries' = IF (Connected(s) \/ socks[s] = "closing") /\ ~settled /\ InSession
                THEN retries + 1 ELSE retries
  /\ UNCHANGED <<current, settled, kind, others, screen>>

(* Mutant: the loop goes on after it has joined.                           *)
AttemptGoesOn ==
  /\ retries > 0
  /\ \E s \in Sock : DoJoin(s, "again")
  /\ UNCHANGED <<others, retries, screen>>

(* The loop's health check succeeds; until then it goes round, with a      *)
(* delay that doubles up to 30 s.                                          *)
Attempt ==
  /\ retries > 0 /\ retries' = retries - 1
  /\ \E s \in Sock : DoJoin(s, "again")
  /\ UNCHANGED <<others, screen>>

GhostNoticed(s) ==
  /\ socks[s] = "ghost" /\ socks' = [socks EXCEPT ![s] = "closed"]
  /\ UNCHANGED <<current, settled, kind, others, retries, screen>>

(* Whatever moves but a submitted form.                                    *)
TerminalStep ==
  \/ CancelForm \/ LeaveWaiting \/ Attempt
  \/ \E s \in Sock :
       \/ Opens(s) \/ RelayAnswers(s) \/ DoConnect(s) \/ RelayIdentifies(s)
       \/ OnTaken(s) \/ LastSeed(s) \/ SomebodyJoins(s) \/ EverybodyLeaves(s)
       \/ Rekeyed(s) \/ Lost(s) \/ GhostNoticed(s)

TerminalNext ==
  \/ Submit /\ overlap' = (overlap \/ retries > 0 \/ UnderWay # {})
  \/ TerminalStep /\ UNCHANGED overlap

TerminalSpec == TerminalInit /\ [][TerminalNext]_terminalVars

-----------------------------------------------------------------------------
(* A client that counts itself in a room has the connection it thinks it   *)
(* has, or is on its way back: no session is left without either, whatever *)
(* was refused, lost, cancelled or left before (ws.onClose, _authSettled). *)
(* It may be, once the user has begun an attempt beside another, or before *)
(* a loop or a close had ended: of two sockets the second to close may     *)
(* find the flag set for the first.                                        *)
NoOrphanSession ==
  (~overlap /\ InSession) => Connected(current.sock) \/ retries > 0

(* However often the user submits and cancels: each connection, each close *)
(* still under way and each reconnect loop goes back to an attempt the     *)
(* user made, and no two to the same one (startReconnect, doJoin, onClose).*)
Asked == {s \in Sock : socks[s] # "free" /\ kind[s] # "again"}
OnePerAttempt == Cardinality(UnderWay) + retries <= Cardinality(Asked)

(* A close that the client asked for starts no reconnect loop              *)
(* (cli/src/state.ts:286-288 "_authSettled marks the close intentional so  *)
(* doConnect's onClose skips the reconnect path").  An attempt begun while *)
(* the close is under way resets the flag, and once it is in a session of  *)
(* its own the late onClose starts a loop beside it.                       *)
ClosedForGood ==
  [][\A s \in Sock : socks[s] = "closing" /\ socks'[s] # "closing"
                        => retries' = retries]_terminalVars

(* When the keys are there the chat is shown (docs/CLI-SPEC.md:62 "Waiting *)
(* advances to Chat automatically when a peer connects").  The code draws  *)
(* it on a first connection only, also when the screen that a reconnect    *)
(* left is the waiting screen.                                             *)
ChatShown == current.phase = "ready" => screen = "chat"
=============================================================================
