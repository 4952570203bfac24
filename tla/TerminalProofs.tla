---------------------------- MODULE TerminalProofs ----------------------------
(***************************************************************************)
(* Proofs about the terminal client: its connection (TerminalConnection),  *)
(* which screen is up and painted (Screens), the chat screen with its      *)
(* focus ring and its list (ChatScreen), the event log in its sidebar      *)
(* (EventSidebar), the file it sends (FileTransfer) and the lines of a     *)
(* message (TextWrap).  They share no state; each part has an invariant of *)
(* its own.                                                                *)
(***************************************************************************)
EXTENDS TerminalConnection, Screens, ChatScreen, EventSidebar, FileTransfer,
        TextWrap, Induction, FiniteSetTheorems, SequenceTheorems

-----------------------------------------------------------------------------
(* The connection.                                                         *)

Phases == {"landing", "joining", "waiting", "ready"}

TerminalTypes ==
  /\ current \in [phase : Phases, sock : Sock \cup {NoSock}]
  /\ settled \in BOOLEAN /\ overlap \in BOOLEAN
  /\ socks \in [Sock -> SockStage]
  /\ kind \in [Sock -> {"create", "join", "again"}]
  /\ retries \in Nat
  /\ InSession => current.sock \in Sock

(* One socket at most, and none while a reconnect loop runs.               *)
Solo == \A s, t \in UnderWay : s = t
Looping == retries > 0 => retries = 1 /\ UnderWay = {}

(* A socket that closes has no session beside it; one that is alive is the *)
(* session's if there is a session, and its close is not meant.            *)
Closing == \A s \in Sock : socks[s] = "closing" => ~InSession
Current ==
  \A s \in Sock : Alive(s) => ~settled /\ (InSession => Connected(s) /\ current.sock = s)
NoOrphan == InSession => Connected(current.sock) \/ retries > 0

OneByOne == Solo /\ Looping /\ Closing /\ Current /\ NoOrphan

(* As long as the user has not begun one attempt beside another, there is  *)
(* one at a time, whatever is cancelled, left, refused or lost.            *)
TerminalInv == TerminalTypes /\ (~overlap => OneByOne)

(* The client starts on the landing screen without any socket in use.      *)
LEMMA TerminalInitInv == TerminalInit => TerminalInv
<1> SUFFICES ASSUME TerminalInit PROVE TerminalInv
  OBVIOUS
<1>1. ~InSession /\ retries = 0 /\ \A s \in Sock : ~Alive(s) /\ socks[s] = "free"
  BY DEF TerminalInit, InSession, Alive, At
<1>2. settled \in BOOLEAN /\ overlap \in BOOLEAN
  BY Zenon DEF TerminalInit
<1>3. TerminalTypes
  BY <1>1, <1>2 DEF TerminalInit, TerminalTypes, SockStage, Phases, At
<1>4. UnderWay = {}
  BY <1>1 DEF UnderWay
<1> QED
  BY <1>1, <1>3, <1>4
  DEF TerminalInv, OneByOne, Solo, Looping, Closing, Current, NoOrphan

(* A socket that moves on.                                                 *)
LEMMA SockMoves ==
  ASSUME TerminalTypes, NEW s \in Sock, NEW stage \in SockStage,
         socks' = [socks EXCEPT ![s] = stage]
  PROVE  /\ socks' \in [Sock -> SockStage] /\ socks'[s] = stage
         /\ \A t \in Sock : t # s => socks'[t] = socks[t]
         /\ UnderWay' = IF stage \in {"opening", "asking", "joined", "identifying",
                                      "taken", "in", "closing"}
                        THEN UnderWay \cup {s} ELSE UnderWay \ {s}
<1>1. /\ socks' \in [Sock -> SockStage] /\ socks'[s] = stage
      /\ \A t \in Sock : t # s => socks'[t] = socks[t]
  BY DEF TerminalTypes
<1> QED BY <1>1 DEF UnderWay, Alive

(* A join or a create takes a socket that was free.                        *)
LEMMA DialTypes ==
  ASSUME TerminalTypes, NEW s \in Sock, NEW k \in {"join", "again"},
         DoJoin(s, k) \/ DoCreate(s)
  PROVE  /\ socks[s] = "free" /\ socks' = [socks EXCEPT ![s] = "opening"]
         /\ settled' = FALSE
         /\ kind' \in [Sock -> {"create", "join", "again"}]
         /\ current' \in [phase : Phases, sock : Sock \cup {NoSock}]
         /\ InSession' => DoCreate(s) /\ InSession /\ current'.sock \in Sock
BY DEF DoJoin, DoCreate, TerminalTypes, InSession, At, Phases

LEMMA TypesStep ==
  ASSUME TerminalTypes, [TerminalNext]_terminalVars PROVE TerminalTypes'
<1>1. ASSUME NEW s \in Sock, NEW k \in {"join", "again"}, DoJoin(s, k) \/ DoCreate(s),
             retries' \in Nat, overlap' \in BOOLEAN
      PROVE  TerminalTypes'
  <2>1. /\ socks' = [socks EXCEPT ![s] = "opening"] /\ settled' = FALSE
        /\ kind' \in [Sock -> {"create", "join", "again"}]
        /\ current' \in [phase : Phases, sock : Sock \cup {NoSock}]
        /\ InSession' => current'.sock \in Sock
    BY <1>1, DialTypes
  <2>2. socks' \in [Sock -> SockStage]
    BY <2>1, SockMoves DEF SockStage
  <2>3. settled' \in BOOLEAN
    BY <2>1, Zenon
  <2> QED BY <1>1, <2>1, <2>2, <2>3 DEF TerminalTypes
<1>2. CASE Submit /\ overlap' = (overlap \/ retries > 0 \/ UnderWay # {})
  <2>1. PICK s \in Sock : DoCreate(s) \/ DoJoin(s, "join")
    BY <1>2 DEF Submit
  <2>2. overlap' \in BOOLEAN
    BY <1>2, Zenon
  <2>3. retries' \in Nat
    BY <1>2 DEF Submit, TerminalTypes
  <2> QED BY <1>1, <2>1, <2>2, <2>3
<1>3. CASE Attempt /\ UNCHANGED overlap
  <2>1. PICK s \in Sock : DoJoin(s, "again")
    BY <1>3 DEF Attempt
  <2>2. retries' \in Nat /\ overlap' \in BOOLEAN
    BY <1>3 DEF Attempt, TerminalTypes
  <2> QED BY <1>1, <2>1, <2>2
<1>4. CASE (CancelForm \/ LeaveWaiting) /\ UNCHANGED overlap
  <2>1. settled' \in BOOLEAN
    <3>1. settled' \in {settled, TRUE} /\ settled \in BOOLEAN
      BY <1>4 DEF CancelForm, LeaveWaiting, TerminalTypes
    <3> QED BY <3>1, Zenon
  <2>2. socks' \in [Sock -> SockStage]
    BY <1>4 DEF CancelForm, LeaveWaiting, TerminalTypes, SockStage
  <2> QED
    BY <1>4, <2>1, <2>2
    DEF CancelForm, LeaveWaiting, TerminalTypes, InSession, Phases, At
<1>5. ASSUME NEW s \in Sock, NEW stage \in SockStage, socks' = [socks EXCEPT ![s] = stage],
             UNCHANGED <<kind, overlap>>, settled' \in BOOLEAN, retries' \in Nat,
             current' \in [phase : Phases, sock : Sock \cup {NoSock}],
             InSession' => current'.sock \in Sock
      PROVE  TerminalTypes'
  BY <1>5, SockMoves DEF TerminalTypes
<1>6. ASSUME NEW s \in Sock, UNCHANGED overlap,
             \/ Opens(s) \/ RelayAnswers(s) \/ RelayIdentifies(s) \/ GhostNoticed(s)
             \/ SomebodyJoins(s) \/ EverybodyLeaves(s)
      PROVE  TerminalTypes'
  <2>1. socks' \in [Sock -> SockStage]
    BY <1>6
    DEF Opens, RelayAnswers, RelayIdentifies, GhostNoticed, SomebodyJoins,
        EverybodyLeaves, TerminalTypes, SockStage
  <2> QED
    BY <1>6, <2>1
    DEF Opens, RelayAnswers, RelayIdentifies, GhostNoticed, SomebodyJoins,
        EverybodyLeaves, TerminalTypes, InSession, Phases, At
<1>7. ASSUME NEW s \in Sock, UNCHANGED overlap, DoConnect(s) \/ OnTaken(s)
      PROVE  TerminalTypes'
  <2>1. PICK stage \in {"identifying", "closing"} : socks' = [socks EXCEPT ![s] = stage]
    BY <1>7 DEF DoConnect, OnTaken
  <2>2. settled' \in BOOLEAN
    <3>1. settled' \in {settled, TRUE} /\ settled \in BOOLEAN
      BY <1>7 DEF DoConnect, OnTaken, TerminalTypes
    <3> QED BY <3>1, Zenon
  <2>3. /\ current' \in [phase : Phases, sock : Sock \cup {NoSock}]
        /\ InSession' => current'.sock \in Sock
    <3>1. current' \in {At("waiting", s), At("landing", NoSock)}
      BY <1>7 DEF DoConnect, OnTaken
    <3> QED BY <3>1 DEF InSession, Phases, At
  <2>4. stage \in SockStage /\ retries' \in Nat
    BY <1>7 DEF DoConnect, OnTaken, TerminalTypes, SockStage
  <2> QED BY <1>5, <1>7, <2>1, <2>2, <2>3, <2>4 DEF DoConnect, OnTaken
<1>8. ASSUME NEW s \in Sock, UNCHANGED overlap, LastSeed(s) \/ Rekeyed(s)
      PROVE  TerminalTypes'
  <2>1. /\ current' \in [phase : Phases, sock : Sock \cup {NoSock}]
        /\ InSession' => current'.sock \in Sock
    BY <1>8 DEF LastSeed, Rekeyed, InSession, Phases, At
  <2>2. UNCHANGED <<settled, socks, kind, retries, overlap>>
    BY <1>8 DEF LastSeed, Rekeyed
  <2> QED BY <2>1, <2>2 DEF TerminalTypes
<1>9. ASSUME NEW s \in Sock, UNCHANGED overlap, Lost(s) PROVE TerminalTypes'
  BY <1>9 DEF Lost, Remains, TerminalTypes, InSession, SockStage
<1>10. CASE UNCHANGED terminalVars
  BY <1>10 DEF terminalVars, TerminalTypes, InSession
<1> QED
  BY <1>2, <1>3, <1>4, <1>6, <1>7, <1>8, <1>9, <1>10 DEF TerminalNext, TerminalStep

-----------------------------------------------------------------------------
(* A join or a create that is begun with nothing under way, and no session *)
(* but the one it rejoins.                                                 *)
LEMMA DialAlone ==
  ASSUME TerminalTypes, NEW s \in Sock, NEW k \in {"join", "again"}, UnderWay = {},
         retries' = 0, DoJoin(s, k) \/ (DoCreate(s) /\ ~InSession)
  PROVE  OneByOne'
<1>1. socks' = [socks EXCEPT ![s] = "opening"] /\ ~settled' /\ ~InSession'
  <2>1. /\ socks' = [socks EXCEPT ![s] = "opening"] /\ settled' = FALSE
        /\ InSession' => DoCreate(s) /\ InSession
    BY DialTypes
  <2>2. ~InSession'
    BY <2>1 DEF DoJoin, At, InSession
  <2> QED BY <2>1, <2>2
<1>2. UnderWay' = {s}
  BY <1>1, SockMoves DEF SockStage
<1>3. \A t \in Sock : Alive(t)' => ~settled'
  BY <1>1
<1> QED
  BY <1>1, <1>2, <1>3 DEF OneByOne, Solo, Looping, Closing, Current, NoOrphan

(* What is known of the one socket under way.                              *)
LEMMA OnlyOne ==
  ASSUME OneByOne, TerminalTypes, NEW s \in UnderWay
  PROVE  UnderWay = {s} /\ retries = 0
<1>1. \A t \in UnderWay : t = s
  BY DEF OneByOne, Solo
<1> QED BY <1>1 DEF OneByOne, Looping, TerminalTypes

(* Nobody is under way and no loop runs: there is no session.              *)
LEMMA NothingLeft ==
  ASSUME OneByOne, TerminalTypes, UnderWay = {}, retries = 0
  PROVE  ~InSession
BY DEF OneByOne, NoOrphan, TerminalTypes, UnderWay, Connected, Alive

(* The user's cancels.                                                     *)
LEMMA CancelAlone ==
  ASSUME TerminalTypes, OneByOne, CancelForm \/ LeaveWaiting PROVE OneByOne'
<1>1. ~InSession' /\ retries' = retries
  BY DEF CancelForm, LeaveWaiting, InSession, At
<1>2. UnderWay' = UnderWay /\ \A s \in Sock : Alive(s)' => Alive(s) /\ ~settled'
  <2>1. CASE CancelForm
    BY <2>1 DEF CancelForm, UnderWay, Alive, OneByOne, Current
  <2>2. CASE LeaveWaiting
    <3>1. /\ InSession
          /\ \A s \in Sock : socks'[s] = IF s = current.sock /\ Connected(s)
                                         THEN "closing" ELSE socks[s]
      BY <2>2 DEF LeaveWaiting, InSession
    <3>2. \A s \in Sock : Alive(s) => s = current.sock /\ Connected(s)
      BY <3>1 DEF OneByOne, Current
    <3>3. \A s \in Sock : Connected(s) => Alive(s)
      BY DEF Connected, Alive
    <3>4. \A s \in Sock : ~Alive(s)'
      BY <3>1, <3>2 DEF Alive
    <3>5. \A s \in Sock : socks'[s] = "closing" <=> Alive(s) \/ socks[s] = "closing"
      BY <3>1, <3>2, <3>3
    <3> QED BY <3>4, <3>5 DEF UnderWay
  <2> QED BY <2>1, <2>2
<1> QED
  BY <1>1, <1>2 DEF OneByOne, Solo, Looping, Closing, Current, NoOrphan

(* The connection gets on, in the session it has or begins.                *)
LEMMA ProgressAlone ==
  ASSUME TerminalTypes, OneByOne, NEW s \in Sock, Alive(s),
         NEW stage \in {"asking", "joined", "identifying", "taken", "in"},
         socks' = [socks EXCEPT ![s] = stage], UNCHANGED <<settled, retries>>,
         InSession' => stage \notin {"asking", "joined"} /\ current'.sock = s
  PROVE  OneByOne'
<1>1. s \in UnderWay /\ ~settled
  BY DEF UnderWay, OneByOne, Current
<1>2. UnderWay = {s} /\ retries = 0
  BY <1>1, OnlyOne
<1>3. stage \in SockStage
  BY DEF SockStage
<1>4. UnderWay' = {s} /\ socks'[s] = stage
  BY <1>2, <1>3, SockMoves
<1>5. \A t \in Sock : Alive(t)' \/ socks'[t] = "closing" => t = s
  BY <1>4 DEF UnderWay
<1> QED
  BY <1>1, <1>2, <1>4, <1>5
  DEF OneByOne, Solo, Looping, Closing, Current, NoOrphan, Connected

LEMMA StepAlone == ASSUME TerminalTypes, OneByOne, TerminalStep PROVE OneByOne'
<1>1. CASE CancelForm \/ LeaveWaiting
  BY <1>1, CancelAlone
<1>2. CASE Attempt
  <2>1. retries' = 0 /\ UnderWay = {}
    BY <1>2 DEF Attempt, OneByOne, Looping
  <2>2. PICK s \in Sock : DoJoin(s, "again")
    BY <1>2 DEF Attempt
  <2> QED BY <2>1, <2>2, DialAlone
<1>3. ASSUME NEW s \in Sock, Opens(s) PROVE OneByOne'
  <2>1. Alive(s) /\ ~Connected(s) /\ InSession' = InSession
    BY <1>3 DEF Opens, Alive, Connected, InSession
  <2>2. ~InSession
    BY <2>1 DEF OneByOne, Current
  <2> QED BY <1>3, <2>1, <2>2, ProgressAlone DEF Opens
<1>4. ASSUME NEW s \in Sock, RelayAnswers(s) PROVE OneByOne'
  <2>1. Alive(s) /\ ~Connected(s)
    BY <1>4 DEF RelayAnswers, Alive, Connected
  <2>2. ~InSession
    BY <2>1 DEF OneByOne, Current
  <2>3. ~InSession'
    BY <1>4, <2>2 DEF RelayAnswers, InSession, At
  <2> QED BY <1>4, <2>1, <2>3, ProgressAlone DEF RelayAnswers
<1>5. ASSUME NEW s \in Sock, DoConnect(s) PROVE OneByOne'
  <2>1. Alive(s) /\ current'.sock = s
    BY <1>5 DEF DoConnect, Alive, At
  <2> QED BY <1>5, <2>1, ProgressAlone DEF DoConnect
<1>6. ASSUME NEW s \in Sock, RelayIdentifies(s) PROVE OneByOne'
  <2>1. Alive(s) /\ UNCHANGED <<current, settled, retries>>
    BY <1>6 DEF RelayIdentifies, Alive
  <2>2. InSession' => current'.sock = s
    BY <2>1 DEF InSession, OneByOne, Current
  <2>3. PICK stage \in {"in", "taken"} : socks' = [socks EXCEPT ![s] = stage]
    BY <1>6 DEF RelayIdentifies
  <2> QED BY <2>1, <2>2, <2>3, ProgressAlone
<1>7. ASSUME NEW s \in Sock, OnTaken(s) PROVE OneByOne'
  <2>1. s \in UnderWay /\ ~InSession' /\ retries' = retries
    BY <1>7 DEF OnTaken, UnderWay, Alive, InSession, At
  <2>2. UnderWay = {s} /\ retries = 0
    BY <2>1, OnlyOne
  <2>3. UnderWay' = {s} /\ socks'[s] = "closing"
    BY <1>7, <2>2, SockMoves DEF OnTaken, SockStage
  <2>4. \A t \in Sock : ~Alive(t)'
    <3>1. ~Alive(s)' /\ \A t \in Sock : Alive(t)' => t = s
      BY <2>3 DEF UnderWay, Alive
    <3> QED BY <3>1
  <2> QED
    BY <2>1, <2>2, <2>3, <2>4
    DEF OneByOne, Solo, Looping, Closing, Current, NoOrphan
<1>8. ASSUME NEW s \in Sock, LastSeed(s) \/ Rekeyed(s) PROVE OneByOne'
  <2>1. /\ Alive(s) /\ socks[s] = "in" /\ socks' = socks /\ current'.sock = s
        /\ UNCHANGED <<settled, retries>>
    BY <1>8 DEF LastSeed, Rekeyed, Alive, At
  <2>2. socks' = [socks EXCEPT ![s] = "in"]
    BY <2>1 DEF TerminalTypes
  <2> QED BY <2>1, <2>2, ProgressAlone
<1>9. ASSUME UNCHANGED <<current, settled, socks, retries>> PROVE OneByOne'
  BY <1>9
  DEF OneByOne, Solo, Looping, Closing, Current, NoOrphan, UnderWay, InSession,
      Connected, Alive
<1>10. ASSUME NEW s \in Sock, SomebodyJoins(s) \/ EverybodyLeaves(s) PROVE OneByOne'
  BY <1>9, <1>10 DEF SomebodyJoins, EverybodyLeaves
<1>11. ASSUME NEW s \in Sock, Lost(s) PROVE OneByOne'
  <2>1. s \in UnderWay /\ InSession' = InSession
    BY <1>11 DEF Lost, UnderWay, InSession
  <2>2. UnderWay = {s} /\ retries = 0
    BY <2>1, OnlyOne
  <2>3. UnderWay' = {}
    <3>1. PICK rest \in {"ghost", "closed"} : socks' = [socks EXCEPT ![s] = rest]
      BY <1>11 DEF Lost, Remains
    <3> QED BY <2>2, <3>1, SockMoves DEF SockStage
  <2>4. retries' = IF InSession THEN 1 ELSE 0
    <3>1. CASE InSession
      <4>1. Alive(s) /\ ~settled /\ Connected(s)
        BY <2>1, <3>1 DEF OneByOne, Closing, Current, UnderWay
      <4> QED BY <1>11, <2>2, <3>1, <4>1 DEF Lost
    <3>2. CASE ~InSession
      BY <1>11, <2>2, <3>2 DEF Lost
    <3> QED BY <3>1, <3>2
  <2>5. \A t \in Sock : ~Alive(t)' /\ socks'[t] # "closing"
    BY <2>3 DEF UnderWay
  <2> QED
    BY <2>1, <2>3, <2>4, <2>5
    DEF OneByOne, Solo, Looping, Closing, Current, NoOrphan
<1>12. ASSUME NEW s \in Sock, GhostNoticed(s) PROVE OneByOne'
  <2>1. /\ socks'[s] = "closed" /\ socks[s] = "ghost"
        /\ \A t \in Sock : t # s => socks'[t] = socks[t]
    BY <1>12, SockMoves DEF GhostNoticed, SockStage
  <2>2. \A t \in Sock : /\ Alive(t)' <=> Alive(t)
                        /\ Connected(t)' <=> Connected(t)
                        /\ (socks'[t] = "closing") <=> (socks[t] = "closing")
    BY <2>1 DEF Alive, Connected
  <2>3. UnderWay' = UnderWay
    BY <2>2 DEF UnderWay
  <2> QED
    BY <1>12, <2>2, <2>3
    DEF GhostNoticed, TerminalTypes, OneByOne, Solo, Looping, Closing, Current,
        NoOrphan, InSession
<1> QED
  BY <1>1, <1>2, <1>3, <1>4, <1>5, <1>6, <1>7, <1>8, <1>10, <1>11, <1>12
  DEF TerminalStep

(* Every step of the user, the loop, the network and the server keeps the  *)
(* invariant.                                                              *)
LEMMA TerminalStepInv ==
  ASSUME TerminalInv, [TerminalNext]_terminalVars PROVE TerminalInv'
<1>1. TerminalTypes'
  BY TypesStep DEF TerminalInv
<1>2. ASSUME ~overlap' PROVE OneByOne'
  <2>1. TerminalTypes /\ overlap \in BOOLEAN
    BY DEF TerminalInv, TerminalTypes
  <2>2. CASE Submit /\ overlap' = (overlap \/ retries > 0 \/ UnderWay # {})
    <3>1. ~overlap /\ ~(retries > 0) /\ UnderWay = {}
      BY <1>2, <2>2
    <3>2. OneByOne /\ retries = 0
      BY <2>1, <3>1 DEF TerminalInv, TerminalTypes
    <3>3. ~InSession /\ retries' = 0
      BY <2>1, <2>2, <3>1, <3>2, NothingLeft DEF Submit
    <3>4. PICK s \in Sock : DoCreate(s) \/ DoJoin(s, "join")
      BY <2>2 DEF Submit
    <3> QED BY <2>1, <3>1, <3>3, <3>4, DialAlone
  <2>3. CASE TerminalStep /\ UNCHANGED overlap
    BY <1>2, <2>1, <2>3, StepAlone DEF TerminalInv
  <2>4. CASE UNCHANGED terminalVars
    <3>1. OneByOne /\ UNCHANGED <<current, settled, socks, retries>>
      BY <1>2, <2>4 DEF terminalVars, TerminalInv
    <3> QED
      BY <3>1
      DEF OneByOne, Solo, Looping, Closing, Current, NoOrphan, UnderWay, InSession,
          Connected, Alive
  <2> QED BY <2>2, <2>3, <2>4 DEF TerminalNext
<1> QED BY <1>1, <1>2 DEF TerminalInv

LEMMA TerminalInvariant == TerminalSpec => []TerminalInv
<1>1. TerminalInv /\ [TerminalNext]_terminalVars => TerminalInv'
  BY TerminalStepInv
<1> QED BY TerminalInitInv, <1>1, PTL DEF TerminalSpec

(* For any user who does not begin an attempt beside another, with any     *)
(* number of attempts and whatever is cancelled or left meanwhile: a       *)
(* session that counts itself in a room has its connection or a reconnect  *)
(* loop, through every refusal, loss and departure (ws.onClose,            *)
(* _authSettled).                                                          *)
THEOREM NoSessionIsOrphaned == TerminalSpec => []NoOrphanSession
<1>1. TerminalInv => NoOrphanSession
  BY DEF TerminalInv, OneByOne, NoOrphan, NoOrphanSession
<1> QED BY TerminalInvariant, <1>1, PTL

-----------------------------------------------------------------------------
(* How many sockets are under way, beside how many attempts there were.    *)
LEMMA Counts ==
  ASSUME NEW T, T \subseteq Sock
  PROVE  /\ Cardinality(T) \in Nat
         /\ \A s \in Sock \ T : Cardinality(T \cup {s}) = Cardinality(T) + 1
         /\ \A s \in T : Cardinality(T \ {s}) = Cardinality(T) - 1
<1>1. IsFiniteSet(T)
  BY SockType, FS_Subset
<1>2. Cardinality(T) \in Nat
  BY <1>1, FS_CardinalityType
<1>3. ASSUME NEW s \in Sock \ T PROVE Cardinality(T \cup {s}) = Cardinality(T) + 1
  BY <1>1, <1>3, FS_AddElement
<1>4. ASSUME NEW s \in T PROVE Cardinality(T \ {s}) = Cardinality(T) - 1
  BY <1>1, <1>4, FS_RemoveElement
<1> QED BY <1>2, <1>3, <1>4

LEMMA Dialled ==
  ASSUME TerminalTypes, NEW s \in Sock, NEW k \in {"create", "join", "again"},
         socks[s] = "free", socks' = [socks EXCEPT ![s] = "opening"],
         kind' = [kind EXCEPT ![s] = k]
  PROVE  /\ Cardinality(UnderWay') = Cardinality(UnderWay) + 1
         /\ Cardinality(Asked') = Cardinality(Asked) + IF k = "again" THEN 0 ELSE 1
<1>1. /\ UnderWay' = UnderWay \cup {s} /\ socks'[s] = "opening"
      /\ \A t \in Sock : t # s => socks'[t] = socks[t]
  BY SockMoves DEF SockStage
<1>2. kind'[s] = k /\ \A t \in Sock : t # s => kind'[t] = kind[t]
  BY DEF TerminalTypes
<1>3. /\ UnderWay \subseteq Sock /\ s \notin UnderWay
      /\ Asked \subseteq Sock /\ s \notin Asked
  BY DEF UnderWay, Alive, Asked
<1>4. Asked' = IF k = "again" THEN Asked ELSE Asked \cup {s}
  BY <1>1, <1>2 DEF Asked
<1>5. /\ Cardinality(Asked) \in Nat
      /\ Cardinality(UnderWay \cup {s}) = Cardinality(UnderWay) + 1
      /\ Cardinality(Asked \cup {s}) = Cardinality(Asked) + 1
  BY <1>3, Counts
<1> QED BY <1>1, <1>4, <1>5

LEMMA CountKept ==
  ASSUME OnePerAttempt, UNCHANGED kind, retries' = retries,
         \A t \in Sock : socks'[t] = "free" <=> socks[t] = "free",
         UnderWay' = UnderWay
  PROVE  OnePerAttempt'
<1>1. Asked' = Asked
  BY DEF Asked
<1> QED BY <1>1 DEF OnePerAttempt

LEMMA AttemptsCounted ==
  ASSUME TerminalTypes, OnePerAttempt, [TerminalNext]_terminalVars
  PROVE  OnePerAttempt'
<1> DEFINE u == Cardinality(UnderWay)
           a == Cardinality(Asked)
<1>1. UnderWay \subseteq Sock /\ Asked \subseteq Sock
  BY DEF UnderWay, Asked
<1>2. u \in Nat /\ a \in Nat /\ retries \in Nat /\ u + retries <= a
  BY <1>1, Counts DEF OnePerAttempt, TerminalTypes
<1>3. CASE Submit
  <2>1. PICK s \in Sock : DoCreate(s) \/ DoJoin(s, "join")
    BY <1>3 DEF Submit
  <2>2. /\ socks[s] = "free" /\ socks' = [socks EXCEPT ![s] = "opening"]
        /\ \E k \in {"create", "join"} : kind' = [kind EXCEPT ![s] = k]
    BY <2>1 DEF DoCreate, DoJoin
  <2>3. Cardinality(UnderWay') = u + 1 /\ Cardinality(Asked') = a + 1
    BY <2>2, Dialled
  <2>4. retries' = retries
    BY <1>3 DEF Submit
  <2> HIDE DEF u, a
  <2> QED BY <1>2, <2>3, <2>4 DEF OnePerAttempt
<1>4. CASE Attempt
  <2>1. PICK s \in Sock : DoJoin(s, "again")
    BY <1>4 DEF Attempt
  <2>2. Cardinality(UnderWay') = u + 1 /\ Cardinality(Asked') = a + 0
    BY <2>1, Dialled DEF DoJoin
  <2>3. retries' = retries - 1
    BY <1>4 DEF Attempt
  <2> HIDE DEF u, a
  <2> QED BY <1>2, <2>2, <2>3 DEF OnePerAttempt
<1>5. ASSUME NEW s \in Sock, Lost(s) PROVE OnePerAttempt'
  <2>1. PICK rest \in {"ghost", "closed"} : socks' = [socks EXCEPT ![s] = rest]
    BY <1>5 DEF Lost, Remains
  <2>2. /\ UnderWay' = UnderWay \ {s} /\ s \in UnderWay
        /\ kind' = kind /\ retries' \in {retries, retries + 1}
        /\ socks'[s] # "free" /\ socks[s] # "free"
        /\ \A t \in Sock : t # s => socks'[t] = socks[t]
    BY <1>5, <2>1, SockMoves DEF Lost, SockStage, UnderWay, Alive
  <2>3. Asked' = Asked
    BY <2>2 DEF Asked
  <2>4. Cardinality(UnderWay') = u - 1
    BY <1>1, <2>2, Counts
  <2> HIDE DEF u, a
  <2>5. OnePerAttempt' <=> Cardinality(UnderWay') + retries' <= a
    BY <2>3 DEF OnePerAttempt, a
  <2> QED BY <1>2, <2>2, <2>4, <2>5
<1>6. ASSUME UNCHANGED <<socks, kind, retries>> PROVE OnePerAttempt'
  BY <1>6, CountKept DEF UnderWay, Alive
<1>7. CASE CancelForm \/ UNCHANGED terminalVars
  BY <1>6, <1>7 DEF CancelForm, terminalVars
<1>8. CASE LeaveWaiting
  <2>1. /\ UNCHANGED <<kind, retries>>
        /\ \A t \in Sock : socks'[t] = IF t = current.sock /\ Connected(t)
                                       THEN "closing" ELSE socks[t]
    BY <1>8 DEF LeaveWaiting
  <2>2. \A t \in Sock : Connected(t) => Alive(t) /\ socks[t] # "free"
    BY DEF Connected, Alive
  <2>3. \A t \in Sock : socks'[t] = "free" <=> socks[t] = "free"
    BY <2>1, <2>2
  <2>4. UnderWay' = UnderWay
    BY <2>1, <2>2 DEF UnderWay, Alive
  <2> QED BY <2>1, <2>3, <2>4, CountKept
<1>9. ASSUME NEW s \in Sock, NEW stage \in SockStage \ {"free"}, socks[s] # "free",
             socks' = [socks EXCEPT ![s] = stage], UNCHANGED <<kind, retries>>,
             (Alive(s) \/ socks[s] = "closing") <=> stage \notin {"ghost", "closed"}
      PROVE  OnePerAttempt'
  <2>1. /\ socks'[s] = stage /\ \A t \in Sock : t # s => socks'[t] = socks[t]
        /\ UnderWay' = IF stage \in {"opening", "asking", "joined", "identifying",
                                     "taken", "in", "closing"}
                       THEN UnderWay \cup {s} ELSE UnderWay \ {s}
    BY <1>9, SockMoves
  <2>2. s \in UnderWay <=> stage \notin {"ghost", "closed"}
    BY <1>9 DEF UnderWay
  <2>3. UnderWay' = UnderWay
    BY <1>9, <2>1, <2>2 DEF SockStage
  <2>4. \A t \in Sock : socks'[t] = "free" <=> socks[t] = "free"
    BY <1>9, <2>1
  <2> QED BY <1>9, <2>3, <2>4, CountKept
<1>10. ASSUME NEW s \in Sock,
              \/ Opens(s) \/ RelayAnswers(s) \/ DoConnect(s) \/ OnTaken(s)
              \/ GhostNoticed(s)
       PROVE  OnePerAttempt'
  BY <1>9, <1>10
  DEF Opens, RelayAnswers, DoConnect, OnTaken, GhostNoticed, SockStage, Alive
<1>11. ASSUME NEW s \in Sock, RelayIdentifies(s) PROVE OnePerAttempt'
  <2>1. PICK stage \in {"in", "taken"} : socks' = [socks EXCEPT ![s] = stage]
    BY <1>11 DEF RelayIdentifies
  <2> QED BY <1>9, <1>11, <2>1 DEF RelayIdentifies, SockStage, Alive
<1>12. ASSUME NEW s \in Sock,
              LastSeed(s) \/ SomebodyJoins(s) \/ EverybodyLeaves(s) \/ Rekeyed(s)
       PROVE  OnePerAttempt'
  BY <1>6, <1>12 DEF LastSeed, SomebodyJoins, EverybodyLeaves, Rekeyed
<1> QED
  BY <1>3, <1>4, <1>5, <1>7, <1>8, <1>10, <1>11, <1>12 DEF TerminalNext, TerminalStep

(* For any user, who may submit and cancel at any time, and with any       *)
(* number of attempts: the connections there are, the closes under way and *)
(* the reconnect loops are together no more than the attempts the user has *)
(* made (startReconnect, doJoin, onClose).                                 *)
THEOREM OneConnectionPerAttempt == TerminalSpec => []OnePerAttempt
<1>1. TerminalInit => OnePerAttempt
  <2> SUFFICES ASSUME TerminalInit PROVE OnePerAttempt
    OBVIOUS
  <2>1. UnderWay = {} /\ Asked = {} /\ retries = 0
    BY DEF TerminalInit, UnderWay, Alive, Asked
  <2> QED BY <2>1, FS_EmptySet DEF OnePerAttempt
<1>2. TerminalInv => TerminalTypes
  BY DEF TerminalInv
<1>3. TerminalTypes /\ OnePerAttempt /\ [TerminalNext]_terminalVars => OnePerAttempt'
  BY AttemptsCounted
<1> QED BY <1>1, <1>2, <1>3, TerminalInvariant, PTL DEF TerminalSpec

-----------------------------------------------------------------------------
(* The screens.                                                            *)

Widgets == {"username", "server", "advanced", "authToken", "create", "join", "cancel",
            "path", "browse", "invite", "copy", "download", "chat"}

ScreenTypes ==
  /\ up \in ScreenNames
  /\ modal \in [text : {"none", "notice", "quit"}, confirm : BOOLEAN]
  /\ form \in [focus : Widgets, token : BOOLEAN]
  /\ pending \in [browsing : {"none", "here", "gone"}, copying : BOOLEAN]

(* The handles are those of the screen that is up, a Browse that has not   *)
(* lost its form is on the form that has the button, and the confirmation  *)
(* is open only under a modal and right after Ctrl+C.                      *)
ScreenInv ==
  /\ ScreenTypes
  /\ handles = Handles(up)
  /\ form.focus = "browse" \/ pending.browsing = "here" => up = "join"
  /\ modal.confirm => pressed /\ modal.text # "none"
  /\ ScreenShown

(* Only the join form has a Browse button.                                 *)
LEMMA RingOf ==
  ASSUME NEW view \in ScreenNames, NEW token \in BOOLEAN,
         NEW i \in DOMAIN Ring(view, token)
  PROVE  /\ Ring(view, token)[i] \in Widgets
         /\ Ring(view, token)[i] = "browse" => view = "join"
BY DEF Ring, ScreenNames, Widgets

(* A screen starts on a widget of its own, and never on Browse.            *)
LEMMA RingStart ==
  ASSUME NEW view \in ScreenNames
  PROVE  Ring(view, FALSE)[1] \in Widgets \ {"browse"}
BY DEF Ring, ScreenNames, Widgets

(* The program starts on the landing page or the join form.                *)
LEMMA ScreenInitInv == ScreenInit => ScreenInv
<1> SUFFICES ASSUME ScreenInit PROVE ScreenInv
  OBVIOUS
<1>1. PICK view \in {"landing", "join"}, text \in {"none", "notice"} :
        /\ up = view
        /\ handles = [chat |-> FALSE, error |-> IF view = "join" THEN "join" ELSE "none"]
        /\ modal = [text |-> text, confirm |-> FALSE]
        /\ form = [focus |-> Ring(view, FALSE)[1], token |-> FALSE]
        /\ tty = [screen |-> view, modal |-> text]
        /\ pending = [browsing |-> "none", copying |-> FALSE]
  BY DEF ScreenInit
<1>2. form.focus \in Widgets \ {"browse"} /\ form.token = FALSE
  BY <1>1, RingStart DEF ScreenNames
<1> QED
  BY <1>1, <1>2
  DEF ScreenInv, ScreenTypes, ScreenShown, ScreenNames, Handles

(* A screen that comes up leaves nothing of the one before behind.         *)
LEMMA SetupViewInv ==
  ASSUME ScreenInv, NEW view \in ScreenNames, SetupView(view)
  PROVE  ScreenInv'
<1>1. form' = [focus |-> Ring(view, FALSE)[1], token |-> FALSE]
  BY DEF SetupView
<1>2. form'.focus \in Widgets \ {"browse"} /\ form' \in [focus : Widgets, token : BOOLEAN]
  BY <1>1, RingStart
<1>3. pending' \in [browsing : {"none", "gone"}, copying : BOOLEAN]
  BY DEF SetupView, ScreenInv, ScreenTypes
<1> QED
  BY <1>2, <1>3
  DEF SetupView, Repaint, ScreenInv, ScreenTypes, ScreenShown, Handles

(* An input that no modal swallows leaves the screen as it is.             *)
LEMMA InputInv ==
  ASSUME ScreenInv, NEW focus \in Widgets, NEW token \in BOOLEAN,
         Input(focus, token), focus = "browse" => up = "join",
         pending' \in [browsing : {"none", "here", "gone"}, copying : BOOLEAN],
         pending'.browsing = "here" => up = "join"
  PROVE  ScreenInv'
BY DEF Input, Repaint, ScreenInv, ScreenTypes, ScreenShown, Handles

(* Every input, every late result and every paint keeps the invariant.     *)
LEMMA ScreenStepInv == ScreenInv /\ [ScreenNext]_screenVars => ScreenInv'
<1> SUFFICES ASSUME ScreenInv, [ScreenNext]_screenVars PROVE ScreenInv'
  OBVIOUS
<1>1. CASE Navigate \/ ConnectionShows
  <2>1. PICK view \in ScreenNames : SetupView(view)
    BY <1>1 DEF Navigate, ConnectionShows, ScreenNames
  <2> QED BY <2>1, SetupViewInv
<1>2. CASE CtrlC
  <2>1. CASE modal.confirm
    BY <1>2, <2>1 DEF CtrlC, ScreenInv, ScreenTypes, ScreenShown, Handles
  <2>2. CASE ~modal.confirm
    <3>1. /\ modal' = [text |-> "quit", confirm |-> TRUE] /\ pressed' = TRUE
          /\ UNCHANGED <<up, handles, form, pending>> /\ Repaint
      BY <1>2, <2>2 DEF CtrlC
    <3>2. modal' \in [text : {"none", "notice", "quit"}, confirm : BOOLEAN]
      BY <3>1
    <3> QED
      BY <3>1, <3>2 DEF Repaint, ScreenInv, ScreenTypes, ScreenShown, Handles
  <2> QED BY <2>1, <2>2
<1>3. CASE Dismiss
  BY <1>3 DEF Dismiss, Repaint, ScreenInv, ScreenTypes, ScreenShown, Handles
<1>4. CASE MoveFocus
  <2>1. PICK i \in DOMAIN Ring(up, form.token) :
          Input(Ring(up, form.token)[i], form.token)
    BY <1>4 DEF MoveFocus
  <2>2. /\ Ring(up, form.token)[i] \in Widgets /\ form.token \in BOOLEAN
        /\ Ring(up, form.token)[i] = "browse" => up = "join"
    BY RingOf DEF ScreenInv, ScreenTypes
  <2>3. pending' = pending
    BY <1>4 DEF MoveFocus
  <2> QED BY <2>1, <2>2, <2>3, InputInv DEF ScreenInv, ScreenTypes
<1>5. CASE ToggleToken
  <2>1. Input("advanced", ~form.token) /\ pending' = pending
    BY <1>5 DEF ToggleToken
  <2> QED BY <2>1, InputInv DEF ScreenInv, ScreenTypes, Widgets
<1>6. CASE Browse
  <2>1. /\ Input("browse", form.token) /\ up = "join"
        /\ pending' \in [browsing : {"none", "here", "gone"}, copying : BOOLEAN]
    BY <1>6 DEF Browse, ScreenInv, ScreenTypes
  <2> QED BY <2>1, InputInv DEF ScreenInv, ScreenTypes, Widgets
<1>7. CASE CopyOrDownload
  <2>1. /\ Input(form.focus, form.token) /\ pending'.browsing = pending.browsing
        /\ pending' \in [browsing : {"none", "here", "gone"}, copying : BOOLEAN]
    BY <1>7 DEF CopyOrDownload, ScreenInv, ScreenTypes
  <2> QED BY <2>1, InputInv DEF ScreenInv, ScreenTypes
<1>8. CASE BrowseDone
  BY <1>8 DEF BrowseDone, ScreenInv, ScreenTypes, ScreenShown, Handles
<1>9. CASE CopyDone
  BY <1>9
  DEF CopyDone, ShowModal, Repaint, ScreenInv, ScreenTypes, ScreenShown, Handles
<1>10. CASE SystemError \/ EventShown
  BY <1>10
  DEF SystemError, EventShown, ScreenInv, ScreenTypes, ScreenShown, Handles
<1>11. CASE TerminalResized
  BY <1>11 DEF TerminalResized, Repaint, ScreenInv, ScreenTypes, ScreenShown, Handles
<1>12. CASE UNCHANGED screenVars
  BY <1>12 DEF screenVars, ScreenInv, ScreenTypes, ScreenShown, Handles
<1> QED
  BY <1>1, <1>2, <1>3, <1>4, <1>5, <1>6, <1>7, <1>8, <1>9, <1>10, <1>11, <1>12
  DEF ScreenNext

(* Every state of the screens satisfies the invariant.                     *)
LEMMA ScreenInvariant == ScreenSpec => []ScreenInv
BY ScreenInitInv, ScreenStepInv, PTL DEF ScreenSpec

(* The terminal shows the screen that gets the keys and its modal.         *)
THEOREM ScreenIsShown == ScreenSpec => []ScreenShown
<1>1. ScreenInv => ScreenShown
  BY DEF ScreenInv
<1> QED BY ScreenInvariant, <1>1, PTL

(* Ctrl+C ends the program only when pressed twice in a row (requestQuit). *)
THEOREM QuitIsConfirmed == ScreenSpec => QuitConfirmed
<1>1. ScreenInv /\ [ScreenNext]_screenVars
        => [(CtrlC /\ gone') => pressed]_screenVars
  BY DEF ScreenInv, ScreenNext, CtrlC
<1> QED BY ScreenInvariant, <1>1, PTL DEF ScreenSpec, QuitConfirmed

-----------------------------------------------------------------------------
(* The chat screen.                                                        *)

Modes == {"chat", "full", "side"}
ChatWidgets == {"chatInput", "sendBtn", "attachBtn", "rotateBtn", "msgArea",
                "sidebar", "pathInput", "cancelBtn"}
Rings == {ChatFocusIds(mode, picking) : mode \in Modes, picking \in BOOLEAN}

ChatRecord ==
  [items : Rings, focus : ChatWidgets, keys : BOOLEAN, picking : BOOLEAN,
   side : {"none", "event-log", "verify"}, sig : BOOLEAN \X Modes, wide : BOOLEAN]
ListRecord ==
  [msgs : Seq({"line", "long", "file"}), top : Int, auto : BOOLEAN, sel : Nat]

Cursor(l) == l \in ListRecord /\ l.sel <= Len(l.msgs)

(* The ring is that of the layout and the mode, and has the focus.         *)
RingFits(c) == c.items = ChatFocusIds(Layout(c), c.picking) /\ InRing(c, c.focus)

(* What a handler may hand to render: a ring that fits, or a layout that   *)
(* is not the one last drawn.                                              *)
Drawable(c) == c \in ChatRecord /\ (Sig(c) = c.sig => RingFits(c))

KeysOff(c) == c.keys => c.focus = "chatInput" /\ ~c.picking

AtEnd == Layout(chat) # "full" /\ list.auto => list.top >= MaxScroll(list)

ChatInv ==
  /\ chat \in ChatRecord /\ Cursor(list)
  /\ chat.sig = Sig(chat) /\ RingFits(chat)
  /\ KeysBarAtInput /\ SelectedShown /\ AtEnd

-----------------------------------------------------------------------------
(* A set of numbers that is not empty has a smallest one, and a biggest    *)
(* one when it is bounded.                                                 *)
LEMMA SmallestIs ==
  ASSUME NEW S \in SUBSET Nat, S # {}
  PROVE  Smallest(S) \in S /\ \A j \in S : Smallest(S) <= j
<1>1. PICK x \in S : \A y \in S : ~(<<y, x>> \in OpToRel(<, Nat))
  BY NatLessThanWellFounded, WFMin
<1>2. \A y \in S : x <= y
  <2> SUFFICES ASSUME NEW y \in S, y < x PROVE FALSE
    OBVIOUS
  <2>1. <<y, x>> \in OpToRel(<, Nat)
    BY DEF OpToRel
  <2> QED BY <1>1, <2>1
<1> QED BY <1>2 DEF Smallest

(* A set of bounded numbers has a largest one: reflect it and take the least. *)
LEMMA BiggestIs ==
  ASSUME NEW n \in Nat, NEW S \in SUBSET (1 .. n), S # {} PROVE Biggest(S) \in S
<1> DEFINE T == {n - i : i \in S}
<1>1. T \in SUBSET Nat
  OBVIOUS
<1>2. T # {}
  OBVIOUS
<1>3. PICK x \in T : \A y \in T : x <= y
  BY <1>1, <1>2, SmallestIs
<1>4. PICK i \in S : x = n - i
  BY <1>3
<1>5. \A j \in S : n - j \in T
  OBVIOUS
<1>6. \A j \in S : j <= i
  BY <1>3, <1>4, <1>5
<1> QED BY <1>6 DEF Biggest

(* The long messages before one are finitely many.                         *)
LEMMA FiniteLines ==
  ASSUME NEW l, NEW i \in Int PROVE IsFiniteSet({j \in 1..(i - 1) : l.msgs[j] = "long"})
<1>1. IsFiniteSet(1..(i - 1))
  BY FS_Interval
<1>2. {j \in 1..(i - 1) : l.msgs[j] = "long"} \subseteq 1..(i - 1)
  OBVIOUS
<1> QED BY <1>1, <1>2, FS_Subset

(* The lines of a list are numbers, and a message more does not move those *)
(* that were there.                                                        *)
LEMMA LineNumber ==
  ASSUME NEW l, NEW i \in Nat PROVE FirstLine(l, i) \in Nat /\ FirstLine(l, i) >= i
<1> DEFINE S == {j \in 1..(i - 1) : l.msgs[j] = "long"}
<1>1. IsFiniteSet(S)
  <2>1. i \in Int
    OBVIOUS
  <2> QED BY <2>1, FiniteLines
<1>2. Cardinality(S) \in Nat
  BY <1>1, FS_CardinalityType
<1>3. FirstLine(l, i) = i + Cardinality(S)
  BY DEF FirstLine
<1> HIDE DEF S
<1> QED BY <1>2, <1>3

(* The last scroll offset leaves the last page of lines.                   *)
LEMMA ScrollNumbers ==
  ASSUME NEW l, Cursor(l)
  PROVE  TotalLines(l) \in Nat /\ MaxScroll(l) \in Nat /\ TotalLines(l) <= MaxScroll(l) + ListHeight
<1>1. Len(l.msgs) + 1 \in Nat
  BY DEF Cursor, ListRecord
<1>2. FirstLine(l, Len(l.msgs) + 1) \in Nat /\ FirstLine(l, Len(l.msgs) + 1) >= 1
  BY <1>1, LineNumber
<1>3. TotalLines(l) \in Nat
  BY <1>2 DEF TotalLines
<1> QED BY <1>3, ChatBounds DEF MaxScroll

(* No message starts below the end.                                        *)
LEMMA LineInside ==
  ASSUME NEW l, Cursor(l) PROVE FirstLine(l, l.sel) - ListHeight <= MaxScroll(l)
<1> DEFINE S(i) == {j \in 1..(i - 1) : l.msgs[j] = "long"}
           n == Len(l.msgs) + 1
<1>1. l.sel \in Nat /\ n \in Nat /\ l.sel <= n - 1
  BY DEF Cursor, ListRecord
<1>2. IsFiniteSet(S(n)) /\ S(l.sel) \subseteq S(n)
  <2>1. n \in Int
    BY <1>1
  <2>2. S(l.sel) \subseteq S(n)
    BY <1>1
  <2> QED BY <2>1, <2>2, FiniteLines
<1>3. /\ Cardinality(S(l.sel)) \in Nat /\ Cardinality(S(n)) \in Nat
      /\ Cardinality(S(l.sel)) <= Cardinality(S(n))
  BY <1>2, FS_Subset, FS_CardinalityType
<1>4. FirstLine(l, l.sel) <= FirstLine(l, n) - 1
  <2>1. /\ FirstLine(l, l.sel) = l.sel + Cardinality(S(l.sel))
        /\ FirstLine(l, n) = n + Cardinality(S(n))
    BY DEF FirstLine
  <2> HIDE DEF S, n
  <2> QED BY <1>1, <1>3, <2>1
<1>5. FirstLine(l, l.sel) <= TotalLines(l)
  BY <1>4 DEF TotalLines
<1>6. FirstLine(l, l.sel) \in Nat
  BY <1>1, LineNumber
<1> QED BY <1>5, <1>6, ScrollNumbers, ChatBounds

(* A message more adds lines and keeps the offset legal.                   *)
LEMMA AppendLines ==
  ASSUME NEW l, Cursor(l), NEW k, Cursor(k), NEW msg, k.msgs = Append(l.msgs, msg),
         k.sel = l.sel
  PROVE  /\ FirstLine(k, k.sel) = FirstLine(l, l.sel)
         /\ MaxScroll(l) <= MaxScroll(k)
<1> DEFINE S(m, i) == {j \in 1..(i - 1) : m.msgs[j] = "long"}
           n == Len(l.msgs) + 1
<1>1. /\ l.sel \in Nat /\ n \in Nat /\ n \geq 1 /\ l.sel <= n - 1 /\ Len(k.msgs) = n
      /\ \A j \in 1 .. (n - 1) : k.msgs[j] = l.msgs[j]
  BY AppendProperties DEF Cursor, ListRecord
<1>2. S(k, k.sel) = S(l, l.sel)
  BY <1>1
<1>3. IsFiniteSet(S(k, n + 1)) /\ S(l, n) \subseteq S(k, n + 1)
  <2>1. n + 1 \in Int
    BY <1>1
  <2>2. S(l, n) \subseteq S(k, n + 1)
    BY <1>1
  <2> QED BY <2>1, <2>2, FiniteLines
<1>4. /\ Cardinality(S(l, n)) \in Nat /\ Cardinality(S(k, n + 1)) \in Nat
      /\ Cardinality(S(l, n)) <= Cardinality(S(k, n + 1))
  BY <1>3, FS_Subset, FS_CardinalityType
<1>5. FirstLine(l, n) <= FirstLine(k, n + 1)
  <2>1. /\ FirstLine(l, n) = n + Cardinality(S(l, n))
        /\ FirstLine(k, n + 1) = n + 1 + Cardinality(S(k, n + 1))
    BY DEF FirstLine
  <2> HIDE DEF S, n
  <2> QED BY <1>1, <1>4, <2>1
<1>6. TotalLines(l) <= TotalLines(k)
  BY <1>1, <1>5, LineNumber DEF TotalLines
<1>7. MaxScroll(l) <= MaxScroll(k)
  BY <1>6, ScrollNumbers, ChatBounds DEF MaxScroll
<1>8. FirstLine(k, k.sel) = FirstLine(l, l.sel)
  <2>1. /\ FirstLine(l, l.sel) = l.sel + Cardinality(S(l, l.sel))
        /\ FirstLine(k, k.sel) = k.sel + Cardinality(S(k, k.sel))
    BY DEF FirstLine
  <2> QED BY <1>2, <2>1
<1> QED BY <1>7, <1>8

-----------------------------------------------------------------------------
LEMMA RingOfMode ==
  ASSUME NEW mode \in Modes, NEW picking \in BOOLEAN
  PROVE  LET ids == ChatFocusIds(mode, picking) IN
         /\ ids \in Rings /\ Len(ids) \in 1 .. 6
         /\ \A i \in 1 .. Len(ids) : ids[i] \in ChatWidgets
         /\ DOMAIN ids = 1 .. Len(ids)
<1>1. ChatFocusIds(mode, picking) \in Rings
  BY DEF Rings
<1>2. CASE picking
  BY <1>1, <1>2 DEF ChatFocusIds, ChatWidgets
<1>3. CASE ~picking /\ mode = "full"
  BY <1>1, <1>3 DEF ChatFocusIds, ChatWidgets
<1>4. CASE ~picking /\ mode = "side"
  BY <1>1, <1>4 DEF ChatFocusIds, ChatWidgets
<1>5. CASE ~picking /\ mode = "chat"
  BY <1>1, <1>5 DEF ChatFocusIds, ChatWidgets
<1> QED BY <1>2, <1>3, <1>4, <1>5 DEF Modes

(* A ring of the chat screen has one to six of its widgets.                *)
LEMMA RingItems ==
  ASSUME NEW ids \in Rings
  PROVE  /\ Len(ids) \in 1 .. 6 /\ DOMAIN ids = 1 .. Len(ids)
         /\ \A i \in 1 .. Len(ids) : ids[i] \in ChatWidgets
<1>1. PICK mode \in Modes, picking \in BOOLEAN : ids = ChatFocusIds(mode, picking)
  BY DEF Rings
<1> QED BY <1>1, RingOfMode

(* The layout of the chat screen is one of its modes.                      *)
LEMMA LayoutMode == ASSUME NEW c PROVE Layout(c) \in Modes
BY DEF Layout, Modes

(* Where the focus goes when it is asked for a widget.                     *)
LEMMA SetByIdIs ==
  ASSUME NEW c \in ChatRecord, NEW id \in ChatWidgets
  PROVE  LET d == SetById(c, id) IN
         /\ d = [c EXCEPT !.focus = d.focus] /\ d \in ChatRecord
         /\ d.keys = c.keys /\ d.picking = c.picking
         /\ d.focus \in {c.focus, id}
         /\ InRing(c, id) => d.focus = id
         /\ Sig(d) = Sig(c) /\ Layout(d) = Layout(c)
         /\ RingFits(c) => RingFits(d)
<1>1. CASE InRing(c, id)
  BY <1>1 DEF SetById, ChatRecord, InRing, Sig, Layout, RingFits
<1>2. CASE ~InRing(c, id)
  BY <1>2 DEF SetById, ChatRecord
<1> QED BY <1>1, <1>2

(* A ring that is built anew fits, and keeps the focus where it can.       *)
LEMMA RebuildIs ==
  ASSUME NEW c \in ChatRecord
  PROVE  LET d == Rebuild(c) IN
         /\ d = [c EXCEPT !.items = d.items, !.focus = d.focus] /\ d \in ChatRecord
         /\ d.keys = c.keys /\ d.picking = c.picking /\ d.sig = c.sig
         /\ Sig(d) = Sig(c) /\ Layout(d) = Layout(c)
         /\ RingFits(d)
         /\ InRing(d, c.focus) => d.focus = c.focus
<1> DEFINE ids == ChatFocusIds(Layout(c), c.picking)
           b == [c EXCEPT !.items = ids, !.focus = ids[1]]
           d == Rebuild(c)
<1>1. /\ ids \in Rings /\ Len(ids) \in 1 .. 6 /\ DOMAIN ids = 1 .. Len(ids)
      /\ \A i \in 1 .. Len(ids) : ids[i] \in ChatWidgets
  BY LayoutMode, RingOfMode DEF ChatRecord
<1>2. ids[1] \in ChatWidgets /\ 1 \in DOMAIN ids
  BY <1>1
<1>3. d = SetById(b, c.focus)
  BY DEF Rebuild
<1> HIDE DEF ids, d
<1>4. /\ b \in ChatRecord /\ b.items = ids /\ b.focus = ids[1] /\ b.picking = c.picking
      /\ b.side = c.side /\ b.wide = c.wide
  BY <1>1, <1>2 DEF ChatRecord
<1> HIDE DEF b
<1>5. Layout(b) = Layout(c) /\ Sig(b) = Sig(c)
  BY <1>4 DEF Layout, Sig
<1>6. RingFits(b)
  BY <1>2, <1>4, <1>5 DEF RingFits, InRing, ids
<1>7. c.focus \in ChatWidgets
  BY DEF ChatRecord
<1>8. /\ d = [b EXCEPT !.focus = d.focus] /\ d \in ChatRecord
      /\ InRing(b, c.focus) => d.focus = c.focus
      /\ Sig(d) = Sig(b) /\ Layout(d) = Layout(b) /\ RingFits(d)
  BY <1>3, <1>4, <1>6, <1>7, SetByIdIs
<1>9. d.items = ids
  BY <1>4, <1>8 DEF ChatRecord
<1>10. d = [c EXCEPT !.items = d.items, !.focus = d.focus]
  BY <1>8, <1>9 DEF ChatRecord, b
<1>11. InRing(d, c.focus) => InRing(b, c.focus)
  BY <1>4, <1>9 DEF InRing
<1>12. d.keys = c.keys /\ d.picking = c.picking /\ d.sig = c.sig
  BY <1>8, <1>10 DEF ChatRecord
<1> QED BY <1>5, <1>8, <1>10, <1>11, <1>12 DEF d

(* The chat as it is drawn.                                                *)
Painted(c) == IF Sig(c) = c.sig THEN c ELSE Rebuild([c EXCEPT !.sig = Sig(c)])

(* After a paint the ring fits what is on screen, and the rest is as before. *)
LEMMA DrawnIs ==
  ASSUME NEW c, Drawable(c), KeysOff(c)
  PROVE  LET d == Painted(c) IN
         /\ d \in ChatRecord /\ d.sig = Sig(d) /\ RingFits(d)
         /\ d.keys = c.keys /\ d.picking = c.picking /\ Layout(d) = Layout(c)
         /\ d.keys /\ Layout(d) # "full" => d.focus = "chatInput" /\ ~d.picking
<1>1. c \in ChatRecord /\ Sig(c) \in BOOLEAN \X Modes
  BY LayoutMode DEF Drawable, ChatRecord, Sig
<1>2. CASE Sig(c) = c.sig
  BY <1>1, <1>2 DEF Painted, Drawable, KeysOff, ChatRecord
<1>3. CASE Sig(c) # c.sig
  <2> DEFINE b == [c EXCEPT !.sig = Sig(c)]
             d == Rebuild(b)
  <2>1. /\ b \in ChatRecord /\ b.sig = Sig(c) /\ Sig(b) = Sig(c) /\ Layout(b) = Layout(c)
        /\ b.keys = c.keys /\ b.picking = c.picking /\ b.focus = c.focus
    BY <1>1 DEF ChatRecord, Sig, Layout
  <2>2. /\ d = [b EXCEPT !.items = d.items, !.focus = d.focus] /\ d \in ChatRecord
        /\ Sig(d) = Sig(b) /\ Layout(d) = Layout(b)
        /\ RingFits(d)
        /\ InRing(d, c.focus) => d.focus = c.focus
    BY <2>1, RebuildIs
  <2>3. d.sig = b.sig /\ d.keys = b.keys /\ d.picking = b.picking
    BY <2>1, <2>2 DEF ChatRecord
  <2>4. Painted(c) = d
    BY <1>3 DEF Painted
  <2>5. ASSUME d.keys, Layout(d) # "full" PROVE d.focus = "chatInput" /\ ~d.picking
    <3>1. c.focus = "chatInput" /\ ~d.picking
      BY <2>1, <2>3, <2>5 DEF KeysOff
    <3>2. d.items = ChatFocusIds(Layout(d), FALSE)
      BY <2>2, <3>1 DEF RingFits, ChatRecord
    <3>3. d.items[1] = "chatInput" /\ 1 \in DOMAIN d.items
      BY <2>5, <3>2, LayoutMode DEF ChatFocusIds, Modes
    <3> QED BY <2>2, <3>1, <3>3 DEF InRing
  <2> HIDE DEF b, d
  <2> QED BY <2>1, <2>2, <2>3, <2>4, <2>5
<1> QED BY <1>2, <1>3

-----------------------------------------------------------------------------
(* What drawing makes of the list.                                         *)
LEMMA DrawListIs ==
  ASSUME NEW l, Cursor(l), NEW focused \in BOOLEAN
  PROVE  LET k == DrawList(l, focused)
             line == FirstLine(l, l.sel)
         IN /\ Cursor(k) /\ k.msgs = l.msgs /\ k.sel = l.sel
            /\ focused /\ l.sel # 0 => k.top < line /\ line <= k.top + ListHeight
            /\ k.auto => k.top >= MaxScroll(l)
            /\ l.auto /\ ~focused => k.top = MaxScroll(l)
            /\ ~l.auto /\ l.top <= MaxScroll(l)
               /\ (focused /\ l.sel # 0 => l.top < line /\ line <= l.top + ListHeight)
                 => k.top = l.top
<1> DEFINE max == MaxScroll(l)
           top == IF l.auto \/ l.top > max THEN max ELSE l.top
           line == FirstLine(l, l.sel)
           k == DrawList(l, focused)
<1>1. /\ max \in Nat /\ line \in Nat /\ line >= l.sel /\ line - ListHeight <= max
      /\ ListHeight \in Nat /\ ListHeight > 0
  BY ScrollNumbers, LineNumber, LineInside, ChatBounds DEF Cursor, ListRecord
<1>2. l.top \in Int /\ l.auto \in BOOLEAN /\ l.sel \in Nat
  BY DEF Cursor, ListRecord
<1>3. k = CASE focused /\ l.sel # 0 /\ line <= top ->
                 [l EXCEPT !.top = line - 1, !.auto = FALSE]
            [] focused /\ l.sel # 0 /\ line > top + ListHeight ->
                 [l EXCEPT !.top = line - ListHeight, !.auto = line - ListHeight >= max]
            [] OTHER -> [l EXCEPT !.top = top]
  BY DEF DrawList
<1> HIDE DEF max, line, k
<1>4. top \in Int /\ (l.auto => top = max) /\ (l.top > max => top = max)
      /\ (~l.auto /\ l.top <= max => top = l.top)
  BY <1>1, <1>2
<1> HIDE DEF top
<1>5. CASE focused /\ l.sel # 0 /\ line <= top
  <2>1. k = [l EXCEPT !.top = line - 1, !.auto = FALSE]
    BY <1>1, <1>3, <1>4, <1>5
  <2>2. line - 1 \in Int
    BY <1>1
  <2>3. Cursor(k) /\ k.msgs = l.msgs /\ k.sel = l.sel /\ k.top = line - 1 /\ k.auto = FALSE
    <3> HIDE DEF line
    <3>1. k.msgs = l.msgs /\ k.sel = l.sel
      BY <2>1 DEF Cursor, ListRecord
    <3>2. k.top = line - 1 /\ k.top \in Int
      BY <2>1, <2>2 DEF Cursor, ListRecord
    <3>3. k.auto = FALSE
      BY <2>1 DEF Cursor, ListRecord
    <3>4. k \in ListRecord
      BY <2>1, <2>2 DEF Cursor, ListRecord
    <3> QED BY <3>1, <3>2, <3>3, <3>4 DEF Cursor
  <2>4. k.top < line /\ line <= k.top + ListHeight
    BY <1>1, <2>3
  <2>5. ~(~l.auto /\ l.top <= max /\ l.top < line)
    BY <1>1, <1>2, <1>4, <1>5
  <2> QED BY <1>5, <2>3, <2>4, <2>5 DEF line, max, k
<1>6. CASE focused /\ l.sel # 0 /\ line > top + ListHeight
  <2> DEFINE end == line - ListHeight >= max
  <2>1. k = [l EXCEPT !.top = line - ListHeight, !.auto = end]
    BY <1>1, <1>3, <1>4, <1>6
  <2>2. line - ListHeight \in Int /\ end \in BOOLEAN
    BY <1>1
  <2>3. /\ Cursor(k) /\ k.msgs = l.msgs /\ k.sel = l.sel /\ k.top = line - ListHeight
        /\ k.auto = end
    <3> HIDE DEF end
    <3>1. k.msgs = l.msgs /\ k.sel = l.sel
      BY <2>1 DEF Cursor, ListRecord
    <3>2. k.top = line - ListHeight /\ k.top \in Int
      BY <2>1, <2>2 DEF Cursor, ListRecord
    <3>3. k.auto = end
      BY <2>1 DEF Cursor, ListRecord
    <3>4. k \in ListRecord
      BY <2>1, <2>2 DEF Cursor, ListRecord
    <3> QED BY <3>1, <3>2, <3>3, <3>4 DEF Cursor
  <2>4. k.top < line /\ line <= k.top + ListHeight
    BY <1>1, <2>3
  <2>5. ~(~l.auto /\ l.top <= max /\ line <= l.top + ListHeight)
    BY <1>1, <1>2, <1>4, <1>6
  <2>6. k.auto => k.top >= max
    BY <2>3
  <2> QED BY <1>6, <2>3, <2>4, <2>5, <2>6 DEF line, max, k
<1>7. CASE ~(focused /\ l.sel # 0 /\ (line <= top \/ line > top + ListHeight))
  <2>1. k = [l EXCEPT !.top = top]
    BY <1>3, <1>7
  <2>2. Cursor(k) /\ k.msgs = l.msgs /\ k.sel = l.sel /\ k.top = top /\ k.auto = l.auto
    BY <1>4, <2>1 DEF Cursor, ListRecord
  <2> QED BY <1>1, <1>2, <1>4, <1>7, <2>2 DEF line, max, k
<1> QED BY <1>5, <1>6, <1>7

(* A list that differs in its place only has the same lines.               *)
LEMMA SameLines ==
  ASSUME NEW l, NEW k, k.msgs = l.msgs, k.sel = l.sel
  PROVE  /\ FirstLine(k, k.sel) = FirstLine(l, l.sel)
         /\ MaxScroll(k) = MaxScroll(l)
<1>1. \A i : FirstLine(k, i) = FirstLine(l, i)
  BY DEF FirstLine
<1> QED BY <1>1 DEF MaxScroll, TotalLines

(* Whatever is drawn, the ring is that of the screen, and what is selected *)
(* is in view.                                                             *)
LEMMA DrawInv ==
  ASSUME NEW c, Drawable(c), KeysOff(c), NEW l, Cursor(l), Draw(c, l)
  PROVE  ChatInv'
<1> DEFINE d == Painted(c)
<1>1. /\ d \in ChatRecord /\ d.sig = Sig(d) /\ RingFits(d)
      /\ d.keys /\ Layout(d) # "full" => d.focus = "chatInput" /\ ~d.picking
  BY DrawnIs
<1>2. CASE Layout(d) = "full"
  <2>1. chat' = [d EXCEPT !.keys = FALSE] /\ list' = l
    BY <1>2 DEF Draw, Painted
  <2> HIDE DEF d
  <2>2. /\ chat' \in ChatRecord /\ chat'.sig = Sig(chat') /\ RingFits(chat')
        /\ ~chat'.keys /\ Layout(chat') = "full"
    BY <1>1, <1>2, <2>1 DEF ChatRecord, RingFits, InRing, Sig, Layout
  <2>3. chat'.focus # "msgArea"
    BY <2>2 DEF RingFits, InRing, ChatFocusIds, ChatRecord
  <2> QED
    BY <2>1, <2>2, <2>3 DEF ChatInv, KeysBarAtInput, SelectedShown, AtEnd
<1>3. CASE Layout(d) # "full"
  <2>1. chat' = d /\ list' = DrawList(l, d.focus = "msgArea")
    BY <1>3 DEF Draw, Painted
  <2> HIDE DEF d
  <2>2. /\ Cursor(list') /\ list'.msgs = l.msgs /\ list'.sel = l.sel
        /\ d.focus = "msgArea" /\ l.sel # 0 =>
             list'.top < FirstLine(l, l.sel) /\ FirstLine(l, l.sel) <= list'.top + ListHeight
        /\ list'.auto => list'.top >= MaxScroll(l)
    BY <2>1, DrawListIs
  <2>3. FirstLine(list', list'.sel) = FirstLine(l, l.sel) /\ MaxScroll(list') = MaxScroll(l)
    BY <2>2, SameLines
  <2> QED
    BY <1>1, <1>3, <2>1, <2>2, <2>3 DEF ChatInv, KeysBarAtInput, SelectedShown, AtEnd
<1> QED BY <1>2, <1>3

-----------------------------------------------------------------------------
(* What the handlers do before they draw.                                  *)
LEMMA TurnIs ==
  ASSUME NEW c \in ChatRecord, RingFits(c), NEW by \in {-1, 1}
  PROVE  LET d == Turn(c, by) IN
         d \in ChatRecord /\ RingFits(d) /\ d.keys = c.keys /\ d.picking = c.picking
<1> DEFINE I == {i \in 1..Len(c.items) : c.items[i] = c.focus}
           at == SelectInSeq(c.items, LAMBDA id : id = c.focus)
           n == Len(c.items)
           next == ((at - 1 + by + n) % n) + 1
           d == [c EXCEPT !.focus = c.items[next]]
<1>1. /\ n \in 1 .. 6 /\ DOMAIN c.items = 1 .. n
      /\ \A i \in 1 .. n : c.items[i] \in ChatWidgets
  BY RingItems DEF ChatRecord
<1>2. at = IF I # {} THEN Min(I) ELSE 0
  BY DEF SelectInSeq
<1>3. I # {}
  BY <1>1 DEF RingFits, InRing
<1>4. I \in SUBSET Nat /\ I \subseteq 1 .. n
  BY <1>1
<1>5. Min(I) \in 1 .. n
  <2> HIDE DEF I, n
  <2>1. Smallest(I) \in I /\ \A j \in I : Smallest(I) <= j
    BY <1>3, <1>4, SmallestIs
  <2> QED BY <1>4, <2>1 DEF Min
<1>6. at \in 1 .. n
  BY <1>2, <1>3, <1>5
<1>7. Turn(c, by) = d
  BY DEF Turn
<1> HIDE DEF at, n
<1>8. next \in 1 .. n
  BY <1>1, <1>6
<1> HIDE DEF next
<1>9. /\ d \in ChatRecord /\ d.items = c.items /\ d.focus = c.items[next]
      /\ d.keys = c.keys /\ d.picking = c.picking /\ Layout(d) = Layout(c)
  BY <1>1, <1>8 DEF ChatRecord, Layout
<1>10. RingFits(d)
  BY <1>1, <1>8, <1>9 DEF RingFits, InRing
<1> QED BY <1>7, <1>9, <1>10

(* Opening or closing the file picker rebuilds the ring.                   *)
LEMMA PickingIs ==
  ASSUME NEW c \in ChatRecord, NEW on \in BOOLEAN
  PROVE  LET d == Picking(c, on) IN
         d \in ChatRecord /\ RingFits(d) /\ d.keys = c.keys
<1> DEFINE b == [c EXCEPT !.picking = on]
<1>1. b \in ChatRecord /\ b.keys = c.keys
  BY DEF ChatRecord
<1>2. Picking(c, on) = Rebuild(b)
  BY DEF Picking
<1> HIDE DEF b
<1> QED BY <1>1, <1>2, RebuildIs

(* A sidebar that is toggled rebuilds the ring.                            *)
LEMMA ToggledIs ==
  ASSUME NEW c \in ChatRecord, NEW target \in {"event-log", "verify"}
  PROVE  LET d == Toggled(c, target) IN
         d \in ChatRecord /\ RingFits(d) /\ d.keys = c.keys
<1> DEFINE b == [c EXCEPT !.side = IF @ = target THEN "none" ELSE target]
           d == Rebuild(b)
<1>1. b \in ChatRecord /\ b.keys = c.keys
  BY DEF ChatRecord
<1>2. d \in ChatRecord /\ RingFits(d) /\ d.keys = c.keys
  <2> HIDE DEF b
  <2> QED BY <1>1, RebuildIs
<1>3. Toggled(c, target) \in {SetById(d, "sidebar"), SetById(d, "chatInput"), d}
  BY DEF Toggled
<1> HIDE DEF d
<1>4. ASSUME NEW id \in {"sidebar", "chatInput"}
      PROVE  SetById(d, id) \in ChatRecord /\ RingFits(SetById(d, id))
             /\ SetById(d, id).keys = c.keys
  <2>1. id \in ChatWidgets
    BY <1>4 DEF ChatWidgets
  <2> QED BY <1>2, <2>1, SetByIdIs
<1> QED BY <1>2, <1>3, <1>4

(* So does closing the sidebar.                                            *)
LEMMA ClosedIs ==
  ASSUME NEW c \in ChatRecord
  PROVE  LET d == Closed(c) IN
         d \in ChatRecord /\ RingFits(d) /\ d.keys = c.keys
<1> DEFINE b == [c EXCEPT !.side = "none"]
           d == Rebuild(b)
<1>1. b \in ChatRecord /\ b.keys = c.keys
  BY DEF ChatRecord
<1>2. d \in ChatRecord /\ RingFits(d) /\ d.keys = c.keys
  <2> HIDE DEF b
  <2> QED BY <1>1, RebuildIs
<1>3. Closed(c) = SetById(d, "chatInput") /\ "chatInput" \in ChatWidgets
  BY DEF Closed, ChatWidgets
<1> HIDE DEF d
<1> QED BY <1>2, <1>3, SetByIdIs

(* The cursor stays on a message.                                          *)
LEMMA SelectedIs ==
  ASSUME NEW l, Cursor(l), NEW S \in SUBSET Attachments(l), S # {}
  PROVE  /\ Cursor([l EXCEPT !.sel = Biggest(S)])
         /\ Cursor([l EXCEPT !.sel = Smallest(S)])
<1>1. Len(l.msgs) \in Nat /\ S \in SUBSET (1 .. Len(l.msgs))
  BY DEF Cursor, ListRecord, Attachments
<1>2. Biggest(S) \in S
  BY <1>1, BiggestIs
<1>3. Smallest(S) \in S
  <2>1. S \in SUBSET Nat
    BY <1>1
  <2> QED BY <2>1, SmallestIs
<1>4. \A i \in 1 .. Len(l.msgs) : Cursor([l EXCEPT !.sel = i])
  BY DEF Cursor, ListRecord
<1> QED BY <1>1, <1>2, <1>3, <1>4

(* A list that gets or loses the focus keeps a legal cursor.               *)
LEMMA RefocusedIs ==
  ASSUME NEW c, NEW l, Cursor(l) PROVE Cursor(Refocused(c, l))
<1>1. CASE c.focus = "msgArea"
  <2>1. CASE Attachments(l) = {}
    BY <1>1, <2>1 DEF Refocused, SelectLatest, Cursor, ListRecord
  <2>2. CASE Attachments(l) # {}
    BY <1>1, <2>2, SelectedIs DEF Refocused, SelectLatest
  <2> QED BY <2>1, <2>2
<1>2. CASE c.focus = "sidebar"
  BY <1>2 DEF Refocused
<1>3. CASE c.focus \notin {"msgArea", "sidebar"}
  BY <1>3 DEF Refocused, Cursor, ListRecord
<1> QED BY <1>1, <1>2, <1>3

(* A message more, with the cursor where it was.                           *)
LEMMA AppendedIs ==
  ASSUME NEW l, Cursor(l), NEW msg \in {"line", "long", "file"}, NEW auto \in BOOLEAN,
         NEW k, k = [l EXCEPT !.msgs = Append(@, msg), !.auto = auto]
  PROVE  Cursor(k)
<1> DEFINE msgs == Append(l.msgs, msg)
<1>1. msgs \in Seq({"line", "long", "file"}) /\ Len(msgs) = Len(l.msgs) + 1
  BY AppendProperties DEF Cursor, ListRecord
<1> HIDE DEF msgs
<1>2. k = [l EXCEPT !.msgs = msgs, !.auto = auto]
  BY DEF msgs
<1>3. k \in ListRecord /\ k.msgs = msgs /\ k.sel = l.sel
  BY <1>1, <1>2 DEF Cursor, ListRecord
<1>4. Len(l.msgs) \in Nat /\ l.sel \in Nat /\ l.sel <= Len(l.msgs)
  BY DEF Cursor, ListRecord
<1> QED BY <1>1, <1>3, <1>4 DEF Cursor, msgs

(* Scrolling keeps the offset within the lines.                            *)
LEMMA ScrollIs ==
  ASSUME NEW l, Cursor(l), NEW n \in Nat
  PROVE  Cursor(ScrollUp(l, n)) /\ Cursor(ScrollDown(l, n))
<1>1. Cursor(ScrollUp(l, n))
  <2> DEFINE top == IF l.top > n THEN l.top - n ELSE 0
  <2>1. top \in Int
    BY DEF Cursor, ListRecord
  <2>2. ScrollUp(l, n) = [l EXCEPT !.top = top, !.auto = FALSE]
    BY DEF ScrollUp
  <2> HIDE DEF top
  <2> QED BY <2>1, <2>2 DEF Cursor, ListRecord
<1>2. Cursor(ScrollDown(l, n))
  <2> DEFINE top == IF l.top + n > MaxScroll(l) THEN MaxScroll(l) ELSE l.top + n
             auto == l.auto \/ top >= MaxScroll(l)
  <2>1. top \in Int /\ auto \in BOOLEAN
    BY ScrollNumbers DEF Cursor, ListRecord
  <2>2. ScrollDown(l, n) = [l EXCEPT !.top = top, !.auto = auto]
    BY DEF ScrollDown, Cursor, ListRecord
  <2> HIDE DEF top, auto
  <2> QED BY <2>1, <2>2 DEF Cursor, ListRecord
<1> QED BY <1>1, <1>2

(* Moving the cursor keeps it on an attachment.                            *)
LEMMA MoveCursorIs ==
  ASSUME NEW l, Cursor(l), Attachments(l) # {}, NEW dir \in {-1, 1}
  PROVE  Cursor(MoveCursor(l, dir))
<1> DEFINE before == {i \in Attachments(l) : i < l.sel}
           after == {i \in Attachments(l) : i > l.sel}
<1>1. before \subseteq Attachments(l) /\ after \subseteq Attachments(l)
  OBVIOUS
<1>2. l.sel = 0 => after # {}
  BY DEF Attachments, Cursor, ListRecord
<1>3. \/ MoveCursor(l, dir) = l
      \/ before # {} /\ MoveCursor(l, dir) = [l EXCEPT !.sel = Biggest(before)]
      \/ after # {} /\ MoveCursor(l, dir) \in {[l EXCEPT !.sel = Biggest(after)],
                                             [l EXCEPT !.sel = Smallest(after)]}
  BY <1>2 DEF MoveCursor
<1>4. /\ before # {} => Cursor([l EXCEPT !.sel = Biggest(before)])
      /\ after # {} => Cursor([l EXCEPT !.sel = Biggest(after)])
      /\ after # {} => Cursor([l EXCEPT !.sel = Smallest(after)])
  <2> HIDE DEF before, after
  <2> QED BY <1>1, SelectedIs
<1> HIDE DEF before, after
<1> QED BY <1>3, <1>4

(* What the list does with a key keeps the cursor legal.                   *)
LEMMA ListKeysIs ==
  ASSUME NEW l, Cursor(l), NEW k \in ListKeys(l) PROVE Cursor(k)
BY ScrollIs, MoveCursorIs DEF ListKeys

-----------------------------------------------------------------------------
(* The chat opens with the focus on the input and an empty list.           *)
LEMMA ChatInitInv == ChatInit => ChatInv
<1> SUFFICES ASSUME ChatInit PROVE ChatInv
  OBVIOUS
<1>1. /\ chat.items = ChatFocusIds("chat", FALSE) /\ chat.focus = "chatInput"
      /\ chat.keys = FALSE /\ chat.picking = FALSE /\ chat.side = "none"
      /\ chat.sig = <<FALSE, "chat">>
      /\ Layout(chat) = "chat" /\ Sig(chat) = chat.sig
  BY DEF ChatInit, Layout, Sig
<1>2. chat \in ChatRecord
  <2>1. ChatFocusIds("chat", FALSE) \in Rings
    BY RingOfMode DEF Modes
  <2> QED BY <2>1 DEF ChatInit, ChatRecord, ChatWidgets, Modes
<1>3. RingFits(chat)
  BY <1>1 DEF RingFits, InRing, ChatFocusIds
<1>4. Cursor(list) /\ list.top = 0 /\ list.sel = 0 /\ Len(list.msgs) = 0
  BY DEF ChatInit, Cursor, ListRecord
<1>5. MaxScroll(list) = 0
  <2>1. {j \in 1 .. 0 : list.msgs[j] = "long"} = {}
    OBVIOUS
  <2>2. FirstLine(list, 1) = 1 + Cardinality({j \in 1 .. 0 : list.msgs[j] = "long"})
    BY DEF FirstLine
  <2>3. FirstLine(list, 1) = 1
    BY <2>1, <2>2, FS_EmptySet
  <2> QED BY <1>4, <2>3, ChatBounds DEF MaxScroll, TotalLines
<1> QED
  BY <1>1, <1>2, <1>3, <1>4, <1>5 DEF ChatInv, KeysBarAtInput, SelectedShown, AtEnd

(* The chat as it is may be drawn again, with any list.                    *)
LEMMA DrawableNow ==
  ASSUME ChatInv PROVE Drawable(chat) /\ KeysOff(chat) /\ Cursor(list)
BY DEF ChatInv, Drawable, KeysOff, KeysBarAtInput

(* A handler that has made the ring fit, and does not use the keys bar.    *)
LEMMA FitsInv ==
  ASSUME NEW c \in ChatRecord, RingFits(c), ~c.keys, NEW l, Cursor(l), Draw(c, l)
  PROVE  ChatInv'
BY DrawInv DEF Drawable, KeysOff

(* A step that moves the focus to a fitting ring keeps the invariant.      *)
LEMMA MovedInv ==
  ASSUME NEW c \in ChatRecord, RingFits(c), ~c.keys, Cursor(list), Moved(c)
  PROVE  ChatInv'
BY FitsInv, RefocusedIs DEF Moved

(* Every key, click, message and change of width keeps the invariant.      *)
LEMMA ChatStepInv == ChatInv /\ [ChatNext]_chatVars => ChatInv'
<1> SUFFICES ASSUME ChatInv, [ChatNext]_chatVars PROVE ChatInv'
  OBVIOUS
<1>1. chat \in ChatRecord /\ RingFits(chat) /\ chat.sig = Sig(chat) /\ Cursor(list)
  BY DEF ChatInv
<1>2. CASE AppendItem
  <2>1. PICK msg \in {"line", "long", "file"} :
          Draw(chat, [list EXCEPT !.msgs = Append(@, msg),
                                  !.auto = @ \/ chat.focus \notin {"msgArea", "sidebar"}])
    BY <1>2 DEF AppendItem
  <2> DEFINE auto == list.auto \/ chat.focus \notin {"msgArea", "sidebar"}
  <2>2. auto \in BOOLEAN
    BY <1>1 DEF Cursor, ListRecord
  <2>3. Draw(chat, [list EXCEPT !.msgs = Append(@, msg), !.auto = auto])
    BY <2>1
  <2> HIDE DEF auto
  <2> QED BY <1>1, <2>2, <2>3, AppendedIs, DrawableNow, DrawInv
<1>3. CASE PickerKey
  <2>1. chat.picking /\ ~chat.keys
    BY <1>3 DEF PickerKey, ChatInv, KeysBarAtInput
  <2>2. PICK c \in {Turn(chat, -1), Picking(chat, FALSE)} : Draw(c, list)
    BY <1>3 DEF PickerKey
  <2>3. c \in ChatRecord /\ RingFits(c) /\ ~c.keys
    BY <1>1, <2>1, <2>2, TurnIs, PickingIs
  <2> QED BY <1>1, <2>2, <2>3, FitsInv
<1>4. CASE KeysBarKey
  <2> DEFINE off == [chat EXCEPT !.keys = FALSE]
  <2>1. off \in ChatRecord /\ RingFits(off) /\ off.keys = FALSE
    BY <1>1 DEF ChatRecord, RingFits, InRing, Layout
  <2>2. \/ Draw(SetById(off, "chatInput"), list) \/ Draw(off, list)
        \/ \E target \in {"event-log", "verify"} : Moved(Toggled(off, target))
    BY <1>4 DEF KeysBarKey
  <2> HIDE DEF off
  <2>3. CASE Draw(SetById(off, "chatInput"), list)
    <3>1. "chatInput" \in ChatWidgets
      BY DEF ChatWidgets
    <3>2. /\ SetById(off, "chatInput") \in ChatRecord /\ RingFits(SetById(off, "chatInput"))
          /\ ~SetById(off, "chatInput").keys
      BY <2>1, <3>1, SetByIdIs
    <3> QED BY <1>1, <2>3, <3>2, FitsInv
  <2>4. CASE Draw(off, list)
    BY <1>1, <2>1, <2>4, FitsInv
  <2>5. CASE \E target \in {"event-log", "verify"} : Moved(Toggled(off, target))
    BY <1>1, <2>1, <2>5, ToggledIs, MovedInv
  <2> QED BY <2>2, <2>3, <2>4, <2>5
<1>5. CASE Escape
  <2>1. ~chat.keys /\ ~chat.picking
    BY <1>5 DEF Escape, Typing
  <2>2. CASE chat.focus = "chatInput"
    <3> DEFINE c == [chat EXCEPT !.keys = TRUE]
    <3>1. Draw(c, list)
      BY <1>5, <2>2 DEF Escape
    <3>2. /\ c \in ChatRecord /\ RingFits(c) /\ KeysOff(c)
      BY <1>1, <2>1, <2>2 DEF ChatRecord, RingFits, InRing, Layout, KeysOff
    <3> QED BY <1>1, <3>1, <3>2, DrawInv DEF Drawable
  <2>3. CASE chat.focus = "sidebar"
    <3>1. Moved(Closed(chat))
      BY <1>5, <2>3 DEF Escape
    <3> QED BY <1>1, <2>1, <3>1, ClosedIs, MovedInv
  <2>4. CASE chat.focus = "msgArea"
    <3>1. Moved(SetById(chat, "chatInput")) /\ "chatInput" \in ChatWidgets
      BY <1>5, <2>4 DEF Escape, ChatWidgets
    <3> QED BY <1>1, <2>1, <3>1, SetByIdIs, MovedInv
  <2>5. CASE chat.focus \notin {"chatInput", "sidebar", "msgArea"}
    <3>1. UNCHANGED <<chat, list>>
      BY <1>5, <2>5 DEF Escape, chatVars
    <3> QED BY <3>1 DEF ChatInv, KeysBarAtInput, SelectedShown, AtEnd
  <2> QED BY <2>2, <2>3, <2>4, <2>5
<1>6. CASE Tab
  <2>1. ~chat.keys
    BY <1>6 DEF Tab, Typing
  <2>2. CASE Layout(chat) = "full"
    <3>1. Moved(Closed(chat))
      BY <1>6, <2>2 DEF Tab
    <3> QED BY <1>1, <2>1, <3>1, ClosedIs, MovedInv
  <2>3. CASE Layout(chat) # "full"
    <3>1. PICK by \in {-1, 1} : Moved(Turn(chat, by))
      BY <1>6, <2>3 DEF Tab
    <3> QED BY <1>1, <2>1, <3>1, TurnIs, MovedInv
  <2> QED BY <2>2, <2>3
<1>7. CASE Command
  <2>1. ~chat.keys
    BY <1>7 DEF Command, Typing
  <2>2. PICK target \in {"event-log", "verify"} : Moved(Toggled(chat, target))
    BY <1>7 DEF Command
  <2> QED BY <1>1, <2>1, <2>2, ToggledIs, MovedInv
<1>8. CASE AttachPressed
  <2>1. ~chat.keys /\ Draw(Picking(chat, TRUE), list)
    BY <1>8 DEF AttachPressed, Typing
  <2> QED BY <1>1, <2>1, PickingIs, FitsInv
<1>9. CASE ListKey
  BY <1>1, <1>9, ListKeysIs, DrawableNow, DrawInv DEF ListKey
<1>10. CASE WheelOverList
  <2>1. Cursor(ScrollUp(list, 3)) /\ Cursor(ScrollDown(list, 3))
    BY <1>1, ScrollIs
  <2> QED BY <1>10, <2>1, DrawableNow, DrawInv DEF WheelOverList
<1>11. CASE Click
  <2> DEFINE off == [chat EXCEPT !.keys = FALSE]
  <2>1. off \in ChatRecord /\ RingFits(off) /\ off.keys = FALSE
    BY <1>1 DEF ChatRecord, RingFits, InRing, Layout
  <2>2. PICK id \in ChatWidgets :
          LET c == SetById(off, id)
          IN Draw(CASE id = "attachBtn" -> Picking(c, TRUE)
                    [] id = "cancelBtn" -> Picking(c, FALSE)
                    [] OTHER -> c, Refocused(c, list))
    BY <1>11 DEF Click, ChatWidgets
  <2> HIDE DEF off
  <2> DEFINE c == SetById(off, id)
  <2>3. c \in ChatRecord /\ RingFits(c) /\ ~c.keys
    BY <2>1, SetByIdIs
  <2>4. Cursor(Refocused(c, list))
    BY <1>1, RefocusedIs
  <2>5. PICK d \in {Picking(c, TRUE), Picking(c, FALSE), c} : Draw(d, Refocused(c, list))
    BY <2>2
  <2> HIDE DEF c
  <2>6. d \in ChatRecord /\ RingFits(d) /\ ~d.keys
    BY <2>3, <2>5, PickingIs
  <2> QED BY <2>4, <2>5, <2>6, FitsInv
<1>12. CASE Resize
  <2> DEFINE c == [chat EXCEPT !.wide = ~@]
  <2>1. c \in ChatRecord /\ KeysOff(c) /\ c.sig = chat.sig /\ c.picking = chat.picking
        /\ c.items = chat.items /\ c.focus = chat.focus
    BY <1>1, DrawableNow DEF ChatRecord, KeysOff
  <2>2. Draw(c, list)
    BY <1>12 DEF Resize
  <2> HIDE DEF c
  <2>3. ASSUME Sig(c) = c.sig PROVE RingFits(c)
    <3>1. Layout(c) = Layout(chat)
      BY <1>1, <2>1, <2>3 DEF Sig
    <3> QED BY <1>1, <2>1, <3>1 DEF RingFits, InRing
  <2> QED BY <1>1, <2>1, <2>2, <2>3, DrawInv DEF Drawable
<1>13. CASE UNCHANGED chatVars
  BY <1>13 DEF chatVars, ChatInv, KeysBarAtInput, SelectedShown, AtEnd
<1> QED
  BY <1>2, <1>3, <1>4, <1>5, <1>6, <1>7, <1>8, <1>9, <1>10, <1>11, <1>12, <1>13
  DEF ChatNext

(* Every state of the chat screen satisfies the invariant.                 *)
LEMMA ChatInvariant == ChatSpec => []ChatInv
BY ChatInitInv, ChatStepInv, PTL DEF ChatSpec

(* Whatever is toggled, clicked or resized, the keys go to a widget that   *)
(* is drawn, but for a file picker under a full-screen sidebar.            *)
THEOREM FocusIsShown == ChatSpec => []FocusShown
<1>1. ASSUME ChatInv PROVE FocusShown
  <2>1. Layout(chat) \in Modes /\ chat.picking \in BOOLEAN
    BY <1>1, LayoutMode DEF ChatInv, ChatRecord
  <2>2. /\ chat.items = ChatFocusIds(Layout(chat), chat.picking)
        /\ \E i \in DOMAIN chat.items : chat.items[i] = chat.focus
    BY <1>1 DEF ChatInv, RingFits, InRing
  <2> QED BY <2>1, <2>2 DEF FocusShown, OnScreen, ChatFocusIds, Modes
<1> QED BY ChatInvariant, <1>1, PTL

(* The keys bar is never up without the input in focus below it.           *)
THEOREM KeysBarIsAtInput == ChatSpec => []KeysBarAtInput
<1>1. ChatInv => KeysBarAtInput
  BY DEF ChatInv
<1> QED BY ChatInvariant, <1>1, PTL

(* For every height of the list and every run of messages: the attachment  *)
(* that Enter would save is in view (ScrollView.render).                   *)
THEOREM SelectedIsShown == ChatSpec => []SelectedShown
<1>1. ChatInv => SelectedShown
  BY DEF ChatInv
<1> QED BY ChatInvariant, <1>1, PTL

(* For every height and every run of messages: one that comes in leaves    *)
(* the view where it is for somebody who reads back, and is shown to       *)
(* somebody at the input (appendMessage, appendFile, ScrollView.render).   *)
THEOREM MessagesLand == ChatSpec => MessageLands
<1> DEFINE Lands ==
      (AppendItem /\ Layout(chat) # "full") =>
        IF chat.focus \in {"msgArea", "sidebar"}
        THEN list.top < MaxScroll(list) => list'.top = list.top
        ELSE list'.top + ListHeight >= TotalLines(list')
<1>1. ASSUME ChatInv, AppendItem, Layout(chat) # "full" PROVE Lands
  <2> DEFINE atList == chat.focus = "msgArea"
  <2>1. PICK msg \in {"line", "long", "file"}, auto \in BOOLEAN :
          /\ Draw(chat, [list EXCEPT !.msgs = Append(@, msg), !.auto = auto])
          /\ auto <=> list.auto \/ chat.focus \notin {"msgArea", "sidebar"}
    <3>1. (list.auto \/ chat.focus \notin {"msgArea", "sidebar"}) \in BOOLEAN
      BY <1>1 DEF ChatInv, Cursor, ListRecord
    <3> QED BY <1>1, <3>1 DEF AppendItem
  <2>2. Cursor(list) /\ chat.sig = Sig(chat)
    BY <1>1 DEF ChatInv
  <2> DEFINE l == [list EXCEPT !.msgs = Append(@, msg), !.auto = auto]
  <2>3. /\ Cursor(l) /\ l.msgs = Append(list.msgs, msg) /\ l.sel = list.sel
        /\ l.top = list.top /\ l.auto = auto
    <3>1. Cursor(l)
      BY <2>2, AppendedIs
    <3>2. /\ l.msgs = Append(list.msgs, msg) /\ l.sel = list.sel
          /\ l.top = list.top /\ l.auto = auto
      BY <2>2 DEF Cursor, ListRecord
    <3> QED BY <3>1, <3>2
  <2>4. list' = DrawList(l, atList)
    BY <1>1, <2>1, <2>2 DEF Draw
  <2> HIDE DEF l
  <2>5. /\ FirstLine(l, l.sel) = FirstLine(list, list.sel)
        /\ MaxScroll(list) <= MaxScroll(l)
    BY <2>2, <2>3, AppendLines
  <2>6. /\ Cursor(list') /\ list'.msgs = l.msgs /\ list'.sel = l.sel
        /\ l.auto /\ ~atList => list'.top = MaxScroll(l)
        /\ ~l.auto /\ l.top <= MaxScroll(l)
           /\ (atList /\ l.sel # 0 => l.top < FirstLine(l, l.sel)
                                      /\ FirstLine(l, l.sel) <= l.top + ListHeight)
             => list'.top = l.top
    <3> HIDE DEF atList
    <3>1. atList \in BOOLEAN
      BY DEF atList
    <3> QED BY <2>3, <2>4, <3>1, DrawListIs
  <2>7. /\ MaxScroll(list) \in Nat /\ MaxScroll(l) \in Nat /\ list.top \in Int
        /\ MaxScroll(list') = MaxScroll(l)
    BY <2>2, <2>3, <2>6, ScrollNumbers, SameLines DEF Cursor, ListRecord
  <2>8. CASE chat.focus \in {"msgArea", "sidebar"}
    <3>1. SUFFICES ASSUME list.top < MaxScroll(list) PROVE list'.top = list.top
      BY <2>8
    <3>2. ~l.auto
      <4>1. ~list.auto
        BY <1>1, <2>7, <3>1 DEF ChatInv, AtEnd
      <4>2. ~auto
        BY <2>1, <2>8, <4>1
      <4> QED BY <2>3, <4>2
    <3>3. l.top <= MaxScroll(l)
      BY <2>3, <2>5, <2>7, <3>1
    <3>4. atList /\ l.sel # 0 => l.top < FirstLine(l, l.sel)
                               /\ FirstLine(l, l.sel) <= l.top + ListHeight
      BY <1>1, <2>3, <2>5 DEF ChatInv, SelectedShown
    <3> QED BY <2>3, <2>6, <3>2, <3>3, <3>4
  <2>9. CASE chat.focus \notin {"msgArea", "sidebar"}
    <3>1. list'.top = MaxScroll(list')
      BY <2>1, <2>3, <2>6, <2>7, <2>9
    <3>2. TotalLines(list') <= MaxScroll(list') + ListHeight
      BY <2>6, ScrollNumbers
    <3> QED BY <2>9, <3>1, <3>2
  <2> QED BY <2>8, <2>9
<1>2. ChatInv /\ [ChatNext]_chatVars => [Lands]_chatVars
  BY <1>1
<1> QED BY ChatInvariant, <1>2, PTL DEF ChatSpec, MessageLands

-----------------------------------------------------------------------------
(* The event log in its sidebar: first its lines.                          *)

(* FlattenSeq, sequence by sequence.                                       *)
LEMMA Flattened ==
  ASSUME NEW X, NEW s \in Seq(Seq(X))
  PROVE  \E h \in [0 .. Len(s) -> Seq(X)] :
           /\ h[0] = <<>> /\ \A i \in 1 .. Len(s) : h[i] = h[i - 1] \o s[i]
           /\ FlattenSeq(s) = h[Len(s)]
<1> DEFINE n == Len(s)
           S == Seq(X)
           step == [x \in S \X (1 .. n) |-> x[1] \o s[x[2]]]
           flat == CHOOSE f : f = [i \in 1 .. n |-> IF i = 1 THEN s[i] ELSE f[i - 1] \o s[i]]
<1>1. n \in Nat /\ \A i \in 1 .. n : s[i] \in S
  OBVIOUS
<1>2. <<>> \in S /\ \A x \in S, i \in 1 .. n : x \o s[i] \in S
  BY <1>1
<1>3. FlattenSeq(s) = IF n = 0 THEN s ELSE flat[n]
  BY DEF FlattenSeq
<1>4. n = 0 => s = <<>>
  BY EmptySeq
<1>5. \A x \in S : <<>> \o x = x
  OBVIOUS
<1> HIDE DEF n, S
<1>6. step \in [S \X (1 .. n) -> S]
  BY <1>2
<1>7. PICK h \in [0 .. n -> S] : Runs(h, n, <<>>, step)
  BY <1>1, <1>2, <1>6, Iterated
<1>8. h[0] = <<>> /\ \A i \in 1 .. n : h[i] = h[i - 1] \o s[i]
  <2>1. ASSUME NEW i \in 1 .. n PROVE h[i] = h[i - 1] \o s[i]
    <3>1. i - 1 \in 0 .. n
      BY <1>1
    <3>2. h[i - 1] \in S /\ h[i] = step[<<h[i - 1], i>>]
      BY <1>7, <3>1 DEF Runs
    <3> QED BY <3>2
  <2> QED BY <1>7, <2>1 DEF Runs
<1> HIDE DEF step
<1>9. CASE n = 0
  <2>1. FlattenSeq(s) = <<>>
    BY <1>3, <1>4, <1>9
  <2>2. FlattenSeq(s) = h[n]
    BY <1>8, <1>9, <2>1
  <2> QED BY <1>8, <2>2 DEF n, S
<1>10. CASE n # 0
  <2> DEFINE g == [i \in 1 .. n |-> h[i]]
  <2>1. g = [i \in 1 .. n |-> IF i = 1 THEN s[i] ELSE g[i - 1] \o s[i]]
    <3>1. ASSUME NEW i \in 1 .. n PROVE h[i] = IF i = 1 THEN s[i] ELSE g[i - 1] \o s[i]
      <4>1. CASE i = 1
        <5>1. h[i] = h[i - 1] \o s[i] /\ s[i] \in S
          BY <1>1, <1>8
        <5>2. i - 1 = 0
          BY <4>1
        <5>3. h[i] = <<>> \o s[i]
          BY <1>8, <5>1, <5>2
        <5>4. h[i] = s[i]
          BY <1>5, <5>1, <5>3
        <5> QED BY <4>1, <5>4
      <4>2. CASE i # 1
        <5>1. i - 1 \in 1 .. n
          BY <1>1, <4>2
        <5> QED BY <1>8, <4>2, <5>1
      <4> QED BY <4>1, <4>2
    <3> QED BY <3>1
  <2> HIDE DEF g
  <2>2. flat = [i \in 1 .. n |-> IF i = 1 THEN s[i] ELSE flat[i - 1] \o s[i]]
    BY <2>1
  <2> HIDE DEF flat
  <2>3. flat[1] = s[1] /\ \A i \in 1 .. n : i # 1 => flat[i] = flat[i - 1] \o s[i]
    BY <1>1, <1>10, <2>2
  <2> DEFINE T == {i \in 0 .. n : i # 0 => flat[i] = h[i]}
  <2>4. 0 \in T
    BY <1>1
  <2>5. ASSUME NEW i \in 0 .. n, i < n, i \in T PROVE i + 1 \in T
    <3>1. i + 1 \in 1 .. n /\ (i + 1) - 1 = i
      BY <1>1, <2>5
    <3>2. CASE i = 0
      <4>0. i + 1 = 1 /\ 1 \in 1 .. n /\ 1 - 1 = 0
        BY <3>1, <3>2
      <4>1. h[1] = <<>> \o s[1] /\ s[1] \in S
        BY <1>1, <1>8, <4>0
      <4> QED BY <1>5, <2>3, <3>1, <3>2, <4>1
    <3>3. CASE i # 0
      <4>1. flat[i] = h[i] /\ i + 1 # 1
        BY <2>5, <3>3
      <4>2. flat[i + 1] = flat[i] \o s[i + 1] /\ h[i + 1] = h[i] \o s[i + 1]
        BY <1>8, <2>3, <3>1, <4>1
      <4>3. flat[i + 1] = h[i + 1]
        BY <4>1, <4>2
      <4> QED BY <1>1, <3>1, <4>3
    <3> QED BY <3>2, <3>3
  <2> HIDE DEF T
  <2>6. \A i \in 0 .. n : i \in T
    BY <1>1, <2>4, <2>5, CountUp
  <2>7. flat[n] = h[n]
    BY <1>1, <1>10, <2>6 DEF T
  <2>8. FlattenSeq(s) = h[n]
    BY <1>3, <1>10, <2>7
  <2> QED BY <1>8, <2>8 DEF n, S
<1> QED BY <1>9, <1>10

(* The lines of one entry.                                                 *)
Line == Nat \X Nat
Block(id, expanded) ==
  [k \in 1 .. (1 + IF id \in expanded THEN Details(id) ELSE 0) |-> <<id, k - 1>>]

LEMMA BlockIs ==
  ASSUME NEW id \in Nat, NEW E
  PROVE  /\ Block(id, E) \in Seq(Line)
         /\ Len(Block(id, E)) = 1 + IF id \in E THEN Details(id) ELSE 0
         /\ Details(id) \in 0 .. 2
         /\ \A k \in 1 .. Len(Block(id, E)) : Block(id, E)[k] = <<id, k - 1>>
<1>1. Details(id) \in 0 .. 2
  BY DEF Details
<1> DEFINE d == IF id \in E THEN Details(id) ELSE 0
<1>2. d \in 0 .. 2
  BY <1>1
<1> HIDE DEF d
<1>3. \A k \in 1 .. 1 + d : <<id, k - 1>> \in Line
  BY <1>2 DEF Line
<1>4. [k \in 1 .. 1 + d |-> <<id, k - 1>>] \in Seq(Line)
  BY <1>2, <1>3
<1>5. Block(id, E) = [k \in 1 .. 1 + d |-> <<id, k - 1>>]
  BY DEF Block, d
<1>6. Len(Block(id, E)) = 1 + d
  BY <1>2, <1>4, <1>5
<1>7. \A k \in 1 .. 1 + d : Block(id, E)[k] = <<id, k - 1>>
  BY <1>5
<1> QED BY <1>1, <1>4, <1>5, <1>6, <1>7 DEF d

(* The lines of a log, entry by entry.                                     *)
LEMMA LinesAre ==
  ASSUME NEW events \in Seq(Nat), NEW E
  PROVE  \E h \in [0 .. Len(events) -> Seq(Line)] :
           /\ h[0] = <<>>
           /\ \A i \in 1 .. Len(events) : h[i] = h[i - 1] \o Block(events[i], E)
           /\ EventLines(events, E) = h[Len(events)]
<1> DEFINE n == Len(events)
           s == [i \in DOMAIN events |-> Block(events[i], E)]
<1>1. n \in Nat /\ DOMAIN events = 1 .. n /\ \A i \in 1 .. n : events[i] \in Nat
  OBVIOUS
<1>2. EventLines(events, E) = FlattenSeq(s)
  BY DEF EventLines, Block
<1>3. \A i \in 1 .. n : Block(events[i], E) \in Seq(Line)
  BY <1>1, BlockIs
<1> HIDE DEF n
<1>4. /\ s \in Seq(Seq(Line)) /\ Len(s) = n
      /\ \A i \in 1 .. n : s[i] = Block(events[i], E)
  <2> DEFINE f == [i \in 1 .. n |-> Block(events[i], E)]
  <2>1. s = f
    BY <1>1
  <2>2. f \in Seq(Seq(Line)) /\ Len(f) = n
    BY <1>1, <1>3
  <2> QED BY <1>1, <2>1, <2>2
<1> HIDE DEF s
<1>5. PICK h \in [0 .. Len(s) -> Seq(Line)] :
         /\ h[0] = <<>> /\ \A i \in 1 .. Len(s) : h[i] = h[i - 1] \o s[i]
         /\ FlattenSeq(s) = h[Len(s)]
  BY <1>4, Flattened
<1> QED BY <1>2, <1>4, <1>5 DEF n

(* What an entry makes of the log when it comes last.                      *)
LEMMA LinesAppended ==
  ASSUME NEW events \in Seq(Nat), NEW id \in Nat, NEW E
  PROVE  EventLines(Append(events, id), E) = EventLines(events, E) \o Block(id, E)
<1> DEFINE longer == Append(events, id)
           n == Len(events)
<1>1. /\ longer \in Seq(Nat) /\ Len(longer) = n + 1 /\ n \in Nat /\ longer[n + 1] = id
      /\ \A i \in 1 .. n : longer[i] = events[i]
  OBVIOUS
<1>2. PICK h \in [0 .. n -> Seq(Line)] :
         /\ h[0] = <<>> /\ \A i \in 1 .. n : h[i] = h[i - 1] \o Block(events[i], E)
         /\ EventLines(events, E) = h[n]
  BY LinesAre
<1> HIDE DEF longer
<1>3. PICK g \in [0 .. Len(longer) -> Seq(Line)] :
         /\ g[0] = <<>>
         /\ \A i \in 1 .. Len(longer) : g[i] = g[i - 1] \o Block(longer[i], E)
         /\ EventLines(longer, E) = g[Len(longer)]
  BY <1>1, LinesAre
<1> HIDE DEF n
<1> DEFINE T == {i \in 0 .. n : g[i] = h[i]}
<1>4. 0 \in T
  BY <1>1, <1>2, <1>3
<1>5. ASSUME NEW i \in 0 .. n, i < n, i \in T PROVE i + 1 \in T
  <2>1. i + 1 \in 1 .. n /\ (i + 1) - 1 = i /\ i + 1 \in 1 .. Len(longer) /\ g[i] = h[i]
    BY <1>1, <1>5
  <2>2. /\ g[i + 1] = g[i] \o Block(longer[i + 1], E)
        /\ h[i + 1] = h[i] \o Block(events[i + 1], E)
        /\ longer[i + 1] = events[i + 1]
    BY <1>1, <1>2, <1>3, <2>1
  <2>3. i + 1 \in 0 .. n
    BY <1>1, <2>1
  <2> QED BY <2>1, <2>2, <2>3
<1> HIDE DEF T
<1>6. \A i \in 0 .. n : i \in T
  BY <1>1, <1>4, <1>5, CountUp
<1>7. g[n] = h[n]
  BY <1>1, <1>6 DEF T
<1>8. g[n + 1] = g[n] \o Block(id, E)
  <2>1. n + 1 \in 1 .. Len(longer) /\ (n + 1) - 1 = n
    BY <1>1
  <2> QED BY <1>1, <1>3, <2>1
<1> QED BY <1>1, <1>2, <1>3, <1>7, <1>8 DEF longer

(* The lines of other entries.                                             *)
NotOf(lines, id) == \A q \in DOMAIN lines : lines[q][1] # id

LEMMA BesideBlock ==
  ASSUME NEW A \in Seq(Line), NEW other \in Nat, NEW E, NEW id \in Nat, other # id,
         NotOf(A, id)
  PROVE  A \o Block(other, E) \in Seq(Line) /\ NotOf(A \o Block(other, E), id)
<1> DEFINE B == Block(other, E)
<1>1. B \in Seq(Line) /\ \A k \in 1 .. Len(B) : B[k] = <<other, k - 1>>
  BY BlockIs
<1> HIDE DEF B
<1>2. ASSUME NEW q \in DOMAIN (A \o B) PROVE (A \o B)[q][1] # id
  <2>1. CASE q <= Len(A)
    <3>1. (A \o B)[q] = A[q] /\ q \in DOMAIN A
      BY <1>1, <2>1
    <3> QED BY <3>1 DEF NotOf
  <2>2. CASE q > Len(A)
    <3>1. (A \o B)[q] = B[q - Len(A)] /\ q - Len(A) \in 1 .. Len(B)
      BY <1>1, <2>2
    <3>2. B[q - Len(A)] = <<other, (q - Len(A)) - 1>>
      BY <1>1, <3>1
    <3> QED BY <3>1, <3>2
  <2> QED BY <1>1, <2>1, <2>2
<1>3. A \o B \in Seq(Line)
  BY <1>1
<1> QED BY <1>2, <1>3 DEF NotOf, B

(* A concatenation that the provers take as it is.                         *)
Cat(a, b) == a \o b

LEMMA CatIs ==
  ASSUME NEW X, NEW a \in Seq(X), NEW b \in Seq(X), NEW c \in Seq(X)
  PROVE  Cat(a, b) \in Seq(X) /\ Cat(Cat(a, b), c) = Cat(a, Cat(b, c))
<1>1. (a \o b) \o c = a \o (b \o c)
  BY ConcatAssociative
<1>2. a \o b \in Seq(X)
  OBVIOUS
<1> QED BY <1>1, <1>2 DEF Cat

(* Opening or closing an entry changes its own lines and no other.         *)
Around(lines, toggled, id, E, F) ==
  \E A, B \in Seq(Line) : /\ lines = Cat(Cat(A, Block(id, E)), B)
                          /\ toggled = Cat(Cat(A, Block(id, F)), B)
                          /\ NotOf(A, id) /\ NotOf(B, id)

LEMMA AroundStays ==
  ASSUME NEW lines, NEW toggled, NEW id \in Nat, NEW E, NEW F, NEW e \in Nat, e # id,
         Around(lines, toggled, id, E, F)
  PROVE  Around(lines \o Block(e, E), toggled \o Block(e, E), id, E, F)
<1> DEFINE G == Block(e, E)
           C == Block(id, E)
           D == Block(id, F)
<1>1. C \in Seq(Line) /\ D \in Seq(Line) /\ G \in Seq(Line)
  BY BlockIs
<1>2. PICK A \in Seq(Line), B \in Seq(Line) :
         /\ lines = Cat(Cat(A, C), B) /\ toggled = Cat(Cat(A, D), B)
         /\ NotOf(A, id) /\ NotOf(B, id)
  BY DEF Around
<1>3. Cat(B, G) \in Seq(Line) /\ NotOf(Cat(B, G), id)
  BY <1>2, BesideBlock DEF Cat
<1> HIDE DEF C, D, G
<1>4. Cat(lines, G) = Cat(Cat(A, C), Cat(B, G)) /\ Cat(toggled, G) = Cat(Cat(A, D), Cat(B, G))
  BY <1>1, <1>2, CatIs
<1>5. \E X, Y \in Seq(Line) : /\ Cat(lines, G) = Cat(Cat(X, C), Y)
                             /\ Cat(toggled, G) = Cat(Cat(X, D), Y)
                             /\ NotOf(X, id) /\ NotOf(Y, id)
  BY <1>2, <1>3, <1>4
<1>6. Cat(lines, G) = lines \o G /\ Cat(toggled, G) = toggled \o G
  BY DEF Cat
<1> QED BY <1>5, <1>6 DEF Around, C, D, G

LEMMA LinesToggled ==
  ASSUME NEW events \in Seq(Nat), NEW at \in DOMAIN events, NEW id, id = events[at],
         \A i, j \in DOMAIN events : events[i] = events[j] => i = j,
         NEW E, NEW F, \A e : e # id => (e \in E <=> e \in F)
  PROVE  Around(EventLines(events, E), EventLines(events, F), id, E, F)
<1> DEFINE n == Len(events)
<1>1. n \in Nat /\ at \in 1 .. n /\ DOMAIN events = 1 .. n /\ id \in Nat
      /\ \A i \in 1 .. n : events[i] \in Nat
  OBVIOUS
<1>2. PICK h \in [0 .. n -> Seq(Line)] :
         /\ h[0] = <<>> /\ \A i \in 1 .. n : h[i] = h[i - 1] \o Block(events[i], E)
         /\ EventLines(events, E) = h[n]
  BY LinesAre
<1>3. PICK g \in [0 .. n -> Seq(Line)] :
         /\ g[0] = <<>> /\ \A i \in 1 .. n : g[i] = g[i - 1] \o Block(events[i], F)
         /\ EventLines(events, F) = g[n]
  BY LinesAre
<1> HIDE DEF n
<1> DEFINE Before(i) == i < at => h[i] = g[i] /\ NotOf(h[i], id)
           After(i) == i >= at => Around(h[i], g[i], id, E, F)
           T == {i \in 0 .. n : Before(i) /\ After(i)}
<1>4. 0 \in T
  <2>1. 0 \in 0 .. n /\ 0 < at /\ ~(0 >= at)
    <3> HIDE DEF T, Before, After
    <3>1. n \in Nat /\ at \in 1 .. n
      BY <1>1
    <3> QED BY <3>1
  <2>2. h[0] = <<>> /\ g[0] = <<>>
    BY <1>2, <1>3
  <2>3. NotOf(<<>>, id)
    BY DEF NotOf
  <2>4. Before(0) /\ After(0)
    BY <2>1, <2>2, <2>3
  <2> HIDE DEF Before, After
  <2> QED BY <2>1, <2>4
<1>5. ASSUME NEW i \in 0 .. n, i < n, i \in T PROVE i + 1 \in T
  <2>0. /\ i < at => h[i] = g[i] /\ NotOf(h[i], id)
        /\ i >= at => Around(h[i], g[i], id, E, F)
    <3>1. Before(i) /\ After(i)
      <4> HIDE DEF Before, After
      <4> QED BY <1>5
    <3> QED BY <3>1
  <2> HIDE DEF T
  <2>1. i + 1 \in 1 .. n /\ (i + 1) - 1 = i /\ i + 1 \in 0 .. n /\ h[i] \in Seq(Line)
        /\ g[i] \in Seq(Line) /\ i \in Nat /\ at \in Nat
    <3>1. i + 1 \in 1 .. n /\ (i + 1) - 1 = i /\ i + 1 \in 0 .. n /\ i \in Nat /\ at \in Nat
      BY <1>1, <1>5
    <3>2. h[i] \in Seq(Line) /\ g[i] \in Seq(Line)
      OBVIOUS
    <3> QED BY <3>1, <3>2
  <2> DEFINE e == events[i + 1]
  <2>2. e \in Nat /\ h[i + 1] = h[i] \o Block(e, E) /\ g[i + 1] = g[i] \o Block(e, F)
    BY <1>1, <1>2, <1>3, <2>1
  <2>3. i + 1 # at => e # id
    BY <1>1, <2>1
  <2>4. i + 1 = at => e = id
    OBVIOUS
  <2>5. e # id => Block(e, E) = Block(e, F)
    BY DEF Block
  <2> HIDE DEF e
  <2>6. ASSUME i + 1 < at PROVE h[i + 1] = g[i + 1] /\ NotOf(h[i + 1], id)
    <3>0. i < at /\ i + 1 # at
      BY <2>1, <2>6
    <3>1. h[i] = g[i] /\ NotOf(h[i], id) /\ e # id
      BY <2>0, <2>3, <3>0
    <3>2. NotOf(h[i] \o Block(e, E), id)
      BY <1>1, <2>1, <2>2, <3>1, BesideBlock
    <3> QED BY <2>2, <2>5, <3>1, <3>2
  <2>7. ASSUME i + 1 = at PROVE Around(h[i + 1], g[i + 1], id, E, F) /\ ~(i + 1 < at)
    <3>0. i < at
      BY <2>1, <2>7
    <3>1. h[i] = g[i] /\ NotOf(h[i], id)
      BY <2>0, <3>0
    <3>2. <<>> \in Seq(Line) /\ NotOf(<<>>, id)
      BY DEF NotOf
    <3>3. Block(id, E) \in Seq(Line) /\ Block(id, F) \in Seq(Line)
      BY <1>1, BlockIs
    <3>4. /\ h[i + 1] = Cat(Cat(h[i], Block(id, E)), <<>>)
          /\ g[i + 1] = Cat(Cat(h[i], Block(id, F)), <<>>)
      <4>1. \A x \in Seq(Line) : x \o <<>> = x
        OBVIOUS
      <4>2. h[i + 1] = Cat(h[i], Block(id, E)) /\ g[i + 1] = Cat(h[i], Block(id, F))
        BY <2>2, <2>4, <2>7, <3>1 DEF Cat
      <4>3. Cat(h[i], Block(id, E)) \in Seq(Line) /\ Cat(h[i], Block(id, F)) \in Seq(Line)
        BY <2>1, <3>3, CatIs
      <4> QED BY <4>1, <4>2, <4>3 DEF Cat
    <3>5. Around(h[i + 1], g[i + 1], id, E, F)
      BY <2>1, <3>1, <3>2, <3>4 DEF Around
    <3> QED BY <2>1, <2>7, <3>5
  <2>8. ASSUME i + 1 > at PROVE Around(h[i + 1], g[i + 1], id, E, F) /\ ~(i + 1 < at)
    <3>0. i >= at /\ i + 1 # at
      BY <2>1, <2>8
    <3>1. Around(h[i], g[i], id, E, F) /\ i + 1 # at
      BY <2>0, <3>0
    <3>2. Around(h[i] \o Block(e, E), g[i] \o Block(e, E), id, E, F) /\ Block(e, F) = Block(e, E)
      BY <1>1, <2>2, <2>3, <2>5, <3>1, AroundStays
    <3> QED BY <2>1, <2>2, <2>8, <3>2
  <2>9. i + 1 < at \/ i + 1 = at \/ i + 1 > at
    BY <2>1
  <2>10. i + 1 < at => ~(i + 1 >= at)
    BY <2>1
  <2>11. Before(i + 1) /\ After(i + 1)
    BY <2>6, <2>7, <2>8, <2>9, <2>10
  <2> HIDE DEF Before, After
  <2> QED BY <2>1, <2>11 DEF T
<1> HIDE DEF T
<1>6. \A i \in 0 .. n : i \in T
  BY <1>1, <1>4, <1>5, CountUp
<1>7. n \in 0 .. n /\ ~(n < at)
  BY <1>1
<1>8. Around(h[n], g[n], id, E, F)
  <2>1. After(n)
    <3> HIDE DEF Before, After
    <3> QED BY <1>6, <1>7 DEF T
  <2> QED BY <1>1, <1>7, <2>1
<1> QED BY <1>2, <1>3, <1>8

(* Where the last line of an entry is.                                     *)
LEMMA LastLineIs ==
  ASSUME NEW lines \in Seq(Line), NEW id
  PROVE  LET l == LastLine(lines, id) IN
         /\ l \in 0 .. Len(lines)
         /\ \A q \in DOMAIN lines : lines[q][1] = id => q <= l
         /\ l # 0 => lines[l][1] = id
<1> DEFINE I == {q \in 1 .. Len(lines) : lines[q][1] = id}
           n == Len(lines)
           l == LastLine(lines, id)
<1>1. n \in Nat /\ DOMAIN lines = 1 .. n /\ I \subseteq 1 .. n
  OBVIOUS
<1>2. l = IF I # {} THEN Max(I) ELSE 0
  BY DEF LastLine, SelectLastInSeq
<1>3. \A q \in 1 .. n : lines[q][1] = id <=> q \in I
  OBVIOUS
<1> HIDE DEF I, n, l
<1>4. CASE I = {}
  BY <1>1, <1>2, <1>3, <1>4 DEF l, n
<1>5. CASE I # {}
  <2> DEFINE D == {n - q : q \in I}
  <2>0. \A q \in I : n - q \in Nat
    BY <1>1
  <2>1. D \subseteq Nat /\ D # {}
    BY <1>5, <2>0
  <2>2. PICK d \in D : \A k \in D : d <= k
    <3> HIDE DEF D
    <3> QED BY <2>1, LeastNat
  <2>3. PICK top \in I : d = n - top
    BY <2>2
  <2>4. \A q \in I : n - top <= n - q
    BY <2>2, <2>3
  <2>5. \A q \in I : top >= q
    BY <1>1, <2>4
  <2>6. Max(I) \in I /\ \A q \in I : Max(I) >= q
    <3>1. \E x \in I : \A y \in I : x >= y
      BY <2>5
    <3> QED BY <3>1 DEF Max
  <2>7. l \in I /\ \A q \in I : l >= q
    BY <1>2, <1>5, <2>6
  <2>8. \A q \in I : q <= l
    BY <1>1, <2>7
  <2>9. l \in 0 .. n /\ (l # 0 => lines[l][1] = id)
    <3>1. l \in 1 .. n
      BY <1>1, <2>7
    <3>2. lines[l][1] = id
      BY <1>3, <2>7, <3>1
    <3> QED BY <1>1, <3>1, <3>2
  <2> QED BY <1>1, <1>3, <2>8, <2>9 DEF l, n
<1> QED BY <1>4, <1>5

(* The lines of a log are lines.                                           *)
LEMMA LinesType ==
  ASSUME NEW events \in Seq(Nat), NEW E
  PROVE  EventLines(events, E) \in Seq(Line) /\ Len(EventLines(events, E)) \in Nat
<1>1. PICK h \in [0 .. Len(events) -> Seq(Line)] : EventLines(events, E) = h[Len(events)]
  BY LinesAre
<1>2. Len(events) \in 0 .. Len(events)
  OBVIOUS
<1> QED BY <1>1, <1>2

-----------------------------------------------------------------------------
(* What the sidebar shows.                                                 *)

IsBar(b) ==
  b \in [mode : {b.mode}, top : Nat, auto : BOOLEAN, sel : {b.sel},
         expanded : {b.expanded}, drawn : {b.drawn}, total : Nat, height : Nat \ {0},
         focused : {b.focused}]

(* The body is a window on the lines of the log, at their end when the     *)
(* view goes along.                                                        *)
Window(lines, top, height) == SubSeq(lines, top + 1, Lesser(top + height, Len(lines)))
Shows(b, events) ==
  b.mode = "event-log" =>
    LET lines == EventLines(events, b.expanded)
        max == AtLeast0(Len(lines) - b.height)
    IN /\ b.total = Len(lines) /\ b.top <= max /\ (b.auto => b.top = max)
       /\ b.drawn = Window(lines, b.top, b.height)

(* The entries are numbered in the order they came.                        *)
InOrder ==
  /\ entries \in Seq(Nat \ {0}) /\ nextEntry \in Nat \ {0}
  /\ \A i \in DOMAIN entries : entries[i] < nextEntry
  /\ \A i, j \in DOMAIN entries : i < j => entries[i] < entries[j]

SideInv == IsBar(bar) /\ Shows(bar, entries) /\ InOrder

LEMMA RenderIs ==
  ASSUME NEW b, IsBar(b), NEW events \in Seq(Nat)
  PROVE  LET r == RenderEventLog(b, events)
             lines == EventLines(events, b.expanded)
             max == AtLeast0(Len(lines) - b.height)
         IN /\ IsBar(r) /\ r.mode = b.mode /\ r.auto = b.auto /\ r.expanded = b.expanded
            /\ r.height = b.height /\ r.total = Len(lines)
            /\ r.top = IF b.auto THEN max ELSE Lesser(b.top, max)
            /\ r.drawn = Window(lines, r.top, b.height)
            /\ r.top <= max /\ max \in Nat
<1> DEFINE lines == EventLines(events, b.expanded)
           n == Len(lines)
           max == AtLeast0(n - b.height)
           top == IF b.auto THEN max ELSE Lesser(b.top, max)
           drawn == Window(lines, top, b.height)
           heads == Headers(drawn)
           sel == IF b.focused /\ b.sel = 0 /\ heads # <<>> THEN Last(heads)[1] ELSE b.sel
           r == [b EXCEPT !.top = top, !.total = n, !.drawn = drawn, !.sel = sel]
<1>1. RenderEventLog(b, events) = r
  BY DEF RenderEventLog, Window
<1>2. n \in Nat
  BY LinesType
<1> HIDE DEF lines, n
<1>3. max \in Nat /\ top \in Nat /\ top <= max
  BY <1>2 DEF IsBar, AtLeast0, Lesser
<1> HIDE DEF max, top, drawn, sel
<1>4. /\ IsBar(r) /\ r.mode = b.mode /\ r.auto = b.auto /\ r.expanded = b.expanded
      /\ r.height = b.height /\ r.total = n /\ r.top = top /\ r.drawn = drawn
  BY <1>2, <1>3 DEF IsBar
<1> HIDE DEF r
<1> QED BY <1>1, <1>3, <1>4 DEF lines, n, max, top, drawn

(* Whatever a key has done, the sidebar is drawn.                          *)
LEMMA DrawnShows ==
  ASSUME NEW b, IsBar(b), NEW events \in Seq(Nat)
  PROVE  IsBar(Drawn(b, events)) /\ Shows(Drawn(b, events), events)
<1>1. CASE b.mode = "event-log"
  <2> DEFINE r == RenderEventLog(b, events)
             lines == EventLines(events, b.expanded)
             max == AtLeast0(Len(lines) - b.height)
  <2>1. /\ IsBar(r) /\ r.mode = b.mode /\ r.auto = b.auto /\ r.expanded = b.expanded
        /\ r.height = b.height /\ r.total = Len(lines)
        /\ r.top = IF b.auto THEN max ELSE Lesser(b.top, max)
        /\ r.drawn = Window(lines, r.top, b.height)
        /\ r.top <= max
    BY RenderIs
  <2>2. Drawn(b, events) = r
    BY <1>1 DEF Drawn
  <2> HIDE DEF r
  <2>3. r.auto => r.top = max
    BY <2>1
  <2>4. lines = EventLines(events, r.expanded) /\ max = AtLeast0(Len(lines) - r.height)
    BY <2>1
  <2> HIDE DEF lines, max
  <2> QED BY <2>1, <2>2, <2>3, <2>4 DEF Shows
<1>2. CASE b.mode # "event-log"
  BY <1>2 DEF Drawn, Shows
<1> QED BY <1>1, <1>2

(* The keys, the wheel and the other changes leave a sidebar.              *)
LEMMA BarMoved ==
  ASSUME NEW b, IsBar(b), NEW top \in Nat, NEW auto \in BOOLEAN, NEW sel
  PROVE  LET r == [b EXCEPT !.top = top, !.auto = auto, !.sel = sel] IN
         IsBar(r) /\ r.top = top /\ r.auto = auto /\ r.sel = sel /\ r.mode = b.mode
           /\ r.expanded = b.expanded /\ r.height = b.height
BY DEF IsBar

LEMMA PagedIs ==
  ASSUME NEW b, IsBar(b)
  PROVE  IsBar(PageDown(b)) /\ IsBar(PageUp(b)) /\ IsBar(WheelUp(b)) /\ IsBar(WheelDown(b))
<1>1. MaxTop(b) \in Nat /\ Page(b) \in Nat \ {0} /\ b.top \in Nat /\ b.auto \in BOOLEAN
  BY DEF IsBar, MaxTop, AtLeast0, Page
<1>2. /\ Lesser(b.top + Page(b), MaxTop(b)) \in Nat /\ AtLeast0(b.top - Page(b)) \in Nat
      /\ Lesser(b.top + 3, MaxTop(b)) \in Nat /\ AtLeast0(b.top - 3) \in Nat
  BY <1>1 DEF Lesser, AtLeast0
<1>3. IsBar(PageDown(b))
  BY <1>1, <1>2 DEF PageDown, IsBar
<1>4. IsBar(PageUp(b))
  BY <1>1, <1>2 DEF PageUp, IsBar
<1>5. IsBar(WheelUp(b))
  <2> DEFINE top == AtLeast0(b.top - 3)
             auto == top >= MaxTop(b)
  <2>1. top \in Nat /\ auto \in BOOLEAN
    BY <1>2
  <2>2. WheelUp(b) = [b EXCEPT !.top = top, !.auto = auto]
    BY DEF WheelUp
  <2> HIDE DEF top, auto
  <2> QED BY <2>1, <2>2 DEF IsBar
<1>6. IsBar(WheelDown(b))
  BY <1>1, <1>2 DEF WheelDown, IsBar
<1> QED BY <1>3, <1>4, <1>5, <1>6

LEMMA SelectionIs ==
  ASSUME NEW b, IsBar(b), NEW events, NEW dir
  PROVE  IsBar(MoveSelection(b, events, dir))
<1> DEFINE s == Selected(b, events, dir)
           q == [b EXCEPT !.sel = s, !.auto = FALSE]
<1> HIDE DEF s
<1>1. IsBar([b EXCEPT !.sel = 0]) /\ IsBar(q)
  BY DEF IsBar
<1>2. MoveSelection(b, events, dir) \in {[b EXCEPT !.sel = 0], EnsureVisible(q)}
  BY DEF MoveSelection, s
<1> HIDE DEF q
<1>3. EnsureVisible(q) \in {q, PageDown(q), PageUp(q)}
  BY DEF EnsureVisible
<1> QED BY <1>1, <1>2, <1>3, PagedIs

(* Opening or closing the entry chosen.                                    *)
LEMMA EntryToggledIs ==
  ASSUME NEW b, IsBar(b), NEW events \in Seq(Nat)
  PROVE  IsBar(ToggleExpanded(b, events))
<1> DEFINE E == IF b.sel \in b.expanded THEN b.expanded \ {b.sel} ELSE b.expanded \cup {b.sel}
           q == [b EXCEPT !.expanded = E]
<1> HIDE DEF E
<1>1. IsBar(q)
  BY DEF IsBar
<1>2. ToggleExpanded(b, events) = IF b.sel = 0 THEN b ELSE ScrolledIntoView(q, events)
  BY DEF ToggleExpanded, E
<1> HIDE DEF q
<1> DEFINE lines == EventLines(events, q.expanded)
           n == Len(lines)
           last == LastLine(lines, q.sel)
           max == AtLeast0(n - q.height)
           top == Lesser(last - q.height, max)
           auto == q.auto \/ top >= max
           r == [q EXCEPT !.top = top, !.auto = auto]
<1>3. lines \in Seq(Line) /\ n \in Nat
  BY LinesType
<1> HIDE DEF lines
<1>4. last \in Nat
  BY <1>3, LastLineIs
<1> HIDE DEF n, last
<1>5. ScrolledIntoView(q, events) = IF last = 0 \/ last <= q.top + q.height THEN q ELSE r
  BY DEF ScrolledIntoView, lines, n, last
<1>6. ASSUME ~(last <= q.top + q.height) PROVE IsBar(r)
  <2>1. max \in Nat
    BY <1>1, <1>3 DEF AtLeast0, IsBar
  <2>2. last - q.height \in Nat
    BY <1>1, <1>4, <1>6 DEF IsBar
  <2>3. top \in Nat /\ auto \in BOOLEAN
    BY <1>1, <2>1, <2>2 DEF Lesser, IsBar
  <2> HIDE DEF top, auto
  <2> QED BY <1>1, <2>3 DEF IsBar
<1> HIDE DEF r
<1> QED BY <1>1, <1>2, <1>5, <1>6

(* A log that gets longer, and no longer than it may.                      *)
LEMMA LogGrows ==
  ASSUME InOrder, LogEvent
  PROVE  InOrder' /\ entries' \in Seq(Nat)
<1> DEFINE longer == Append(entries, nextEntry)
           n == Len(entries)
<1>1. /\ entries' = IF Len(longer) > LogCap THEN Tail(longer) ELSE longer
      /\ nextEntry' = nextEntry + 1
  BY DEF LogEvent
<1>2. /\ n \in Nat /\ entries \in Seq(Nat \ {0}) /\ nextEntry \in Nat \ {0}
      /\ \A i \in 1 .. n : entries[i] < nextEntry
      /\ \A i, j \in 1 .. n : i < j => entries[i] < entries[j]
      /\ \A i \in 1 .. n : entries[i] \in Nat \ {0}
  BY DEF InOrder
<1>3. /\ longer \in Seq(Nat \ {0}) /\ Len(longer) = n + 1
      /\ longer[n + 1] = nextEntry /\ \A i \in 1 .. n : longer[i] = entries[i]
  BY <1>2
<1> HIDE DEF longer, n
<1>4. \A i \in 1 .. n + 1 : i \in 1 .. n \/ i = n + 1
  BY <1>2
<1>5. \A i \in 1 .. n + 1 : longer[i] < nextEntry + 1 /\ longer[i] \in Nat \ {0}
  <2>1. ASSUME NEW i \in 1 .. n PROVE longer[i] < nextEntry + 1 /\ longer[i] \in Nat \ {0}
    <3>1. longer[i] = entries[i] /\ entries[i] < nextEntry /\ entries[i] \in Nat
          /\ entries[i] \in Nat \ {0}
      BY <1>2, <1>3
    <3>2. \A k \in Nat : k < nextEntry => k < nextEntry + 1
      BY <1>2
    <3> QED BY <3>1, <3>2
  <2>2. longer[n + 1] < nextEntry + 1 /\ longer[n + 1] \in Nat \ {0}
    BY <1>2, <1>3
  <2> QED BY <1>4, <2>1, <2>2
<1>6. \A i, j \in 1 .. n + 1 : i < j => longer[i] < longer[j]
  <2>1. ASSUME NEW i \in 1 .. n + 1, NEW j \in 1 .. n + 1, i < j PROVE longer[i] < longer[j]
    <3>1. i \in 1 .. n
      BY <1>2, <2>1
    <3>2. CASE j \in 1 .. n
      BY <1>2, <1>3, <2>1, <3>1, <3>2
    <3>3. CASE j = n + 1
      BY <1>2, <1>3, <3>1, <3>3
    <3> QED BY <1>4, <3>2, <3>3
  <2> QED BY <2>1
<1>7. CASE entries' = longer
  <2>1. \A i \in DOMAIN entries' : entries'[i] < nextEntry'
    BY <1>1, <1>3, <1>5, <1>7
  <2>2. \A i, j \in DOMAIN entries' : i < j => entries'[i] < entries'[j]
    BY <1>3, <1>6, <1>7
  <2>3. entries' \in Seq(Nat \ {0}) /\ nextEntry' \in Nat \ {0} /\ entries' \in Seq(Nat)
    BY <1>1, <1>2, <1>3, <1>7
  <2> QED BY <2>1, <2>2, <2>3 DEF InOrder
<1>8. CASE entries' = Tail(longer)
  <2> DEFINE rest == Tail(longer)
  <2>1. /\ rest \in Seq(Nat \ {0}) /\ Len(rest) = n
        /\ \A i \in 1 .. n : rest[i] = longer[i + 1]
    BY <1>2, <1>3
  <2> HIDE DEF rest
  <2>2. \A i \in 1 .. n : i + 1 \in 1 .. n + 1
    BY <1>2
  <2>3. \A i \in 1 .. n : rest[i] < nextEntry + 1
    BY <1>5, <2>1, <2>2
  <2>4. ASSUME NEW i \in 1 .. n, NEW j \in 1 .. n, i < j PROVE rest[i] < rest[j]
    <3>1. i + 1 < j + 1 /\ i + 1 \in 1 .. n + 1 /\ j + 1 \in 1 .. n + 1
      BY <1>2, <2>4
    <3>2. longer[i + 1] < longer[j + 1]
      BY <1>6, <3>1
    <3> QED BY <2>1, <3>2
  <2>5. DOMAIN rest = 1 .. n /\ entries' = rest
    BY <1>8, <2>1 DEF rest
  <2>6. entries' \in Seq(Nat \ {0}) /\ nextEntry' \in Nat \ {0} /\ entries' \in Seq(Nat)
    <3>1. entries' \in Seq(Nat \ {0})
      BY <2>1, <2>5
    <3> QED BY <1>1, <1>2, <3>1
  <2>7. \A i \in DOMAIN entries' : entries'[i] < nextEntry'
    BY <1>1, <2>3, <2>5
  <2>8. \A i, j \in DOMAIN entries' : i < j => entries'[i] < entries'[j]
    BY <2>4, <2>5
  <2> QED BY <2>6, <2>7, <2>8 DEF InOrder
<1> QED BY <1>1, <1>7, <1>8

(* An empty sidebar.                                                       *)
LEMMA NewIs ==
  ASSUME NEW height \in Nat \ {0}, NEW events
  PROVE  IsBar(NewSidebar(height)) /\ Shows(NewSidebar(height), events)
BY DEF NewSidebar, IsBar, Shows

LEMMA SideInvFirst == SideInit => SideInv
<1> SUFFICES ASSUME SideInit PROVE SideInv
  OBVIOUS
<1>1. (CHOOSE h \in BodyHeights : TRUE) \in Nat \ {0}
  BY SidebarBounds
<1>2. InOrder
  BY DEF SideInit, InOrder
<1>3. bar = NewSidebar(CHOOSE h \in BodyHeights : TRUE)
  BY DEF SideInit
<1> QED BY <1>1, <1>2, <1>3, NewIs DEF SideInv

(* The log as it was, and the sidebar drawn.                               *)
LEMMA Redrawn ==
  ASSUME SideInv, NEW b, IsBar(b), bar' = Drawn(b, entries), UNCHANGED <<entries, nextEntry>>
  PROVE  SideInv'
<1>1. entries \in Seq(Nat)
  BY DEF SideInv, InOrder
<1>2. IsBar(bar') /\ Shows(bar', entries)
  BY <1>1, DrawnShows
<1>3. InOrder'
  BY DEF SideInv, InOrder
<1> QED BY <1>2, <1>3 DEF SideInv

LEMMA SideInvStep == SideInv /\ [SideNext]_sideVars => SideInv'
<1> SUFFICES ASSUME SideInv, [SideNext]_sideVars PROVE SideInv'
  OBVIOUS
<1>1. IsBar(bar) /\ entries \in Seq(Nat) /\ InOrder
  BY DEF SideInv, InOrder
<1>2. CASE LogEvent
  <2>1. InOrder' /\ entries' \in Seq(Nat) /\ bar' = Drawn(bar, entries')
    BY <1>1, <1>2, LogGrows DEF LogEvent
  <2>2. IsBar(bar') /\ Shows(bar', entries')
    BY <1>1, <2>1, DrawnShows
  <2> QED BY <2>1, <2>2 DEF SideInv
<1>3. CASE Remount
  <2>1. bar.height \in Nat \ {0} /\ bar' = NewSidebar(bar.height)
    BY <1>1, <1>3 DEF Remount, IsBar
  <2>2. IsBar(bar') /\ Shows(bar', entries')
    BY <2>1, NewIs
  <2>3. CASE UNCHANGED <<entries, nextEntry>>
    BY <1>1, <2>2, <2>3 DEF InOrder, SideInv
  <2>4. CASE entries' = <<>> /\ nextEntry' = 1
    <3>1. InOrder'
      BY <2>4 DEF InOrder
    <3> QED BY <2>2, <3>1 DEF SideInv
  <2> QED BY <1>3, <2>3, <2>4 DEF Remount
<1>4. CASE SetMode
  <2>1. PICK mode : bar' = Drawn([bar EXCEPT !.mode = mode, !.auto = @ \/ mode = "event-log",
                                            !.focused = @ /\ mode # "none"], entries)
    BY <1>4 DEF SetMode
  <2> DEFINE b == [bar EXCEPT !.mode = mode, !.auto = @ \/ mode = "event-log",
                              !.focused = @ /\ mode # "none"]
  <2>2. IsBar(b)
    BY <1>1 DEF IsBar
  <2> HIDE DEF b
  <2>3. bar' = Drawn(b, entries) /\ UNCHANGED <<entries, nextEntry>>
    BY <1>4, <2>1 DEF SetMode, b
  <2> QED BY <2>2, <2>3, Redrawn
<1>5. CASE FocusMoves
  <2> DEFINE b == [bar EXCEPT !.focused = ~@]
  <2>1. IsBar(b)
    BY <1>1 DEF IsBar
  <2>2. bar' = Drawn(b, entries) /\ UNCHANGED <<entries, nextEntry>>
    BY <1>5 DEF FocusMoves
  <2> HIDE DEF b
  <2> QED BY <2>1, <2>2, Redrawn
<1>6. CASE PaneResized
  <2>1. PICK h \in BodyHeights : bar' = Drawn([bar EXCEPT !.height = h], entries)
    BY <1>6 DEF PaneResized
  <2> DEFINE b == [bar EXCEPT !.height = h]
  <2>2. h \in Nat \ {0}
    BY SidebarBounds
  <2>3. IsBar(b)
    BY <1>1, <2>2 DEF IsBar
  <2>4. bar' = Drawn(b, entries) /\ UNCHANGED <<entries, nextEntry>>
    BY <1>6, <2>1 DEF PaneResized
  <2> HIDE DEF b
  <2> QED BY <2>3, <2>4, Redrawn
<1>7. ASSUME NEW b, IsBar(b), Pressed(b) PROVE SideInv'
  BY <1>7, Redrawn DEF Pressed
<1>8. CASE UpDown
  BY <1>1, <1>7, <1>8, SelectionIs DEF UpDown
<1>9. CASE PageKey
  BY <1>1, <1>7, <1>9, PagedIs DEF PageKey
<1>10. CASE HomeKey
  <2> DEFINE s == IF entries = <<>> THEN 0 ELSE Head(entries)
             b == [bar EXCEPT !.top = 0, !.auto = FALSE, !.sel = s]
  <2>1. Pressed(b)
    BY <1>10 DEF HomeKey
  <2> HIDE DEF s
  <2>2. IsBar(b)
    BY <1>1 DEF IsBar
  <2> HIDE DEF b
  <2> QED BY <1>7, <2>1, <2>2
<1>11. CASE EndKey
  <2> DEFINE s == IF entries = <<>> THEN 0 ELSE Last(entries)
             b == [bar EXCEPT !.auto = TRUE, !.sel = s]
  <2>1. Pressed(b)
    BY <1>11 DEF EndKey
  <2> HIDE DEF s
  <2>2. IsBar(b)
    BY <1>1 DEF IsBar
  <2> HIDE DEF b
  <2> QED BY <1>7, <2>1, <2>2
<1>12. CASE EnterKey
  BY <1>1, <1>7, <1>12, EntryToggledIs DEF EnterKey
<1>13. CASE Wheel
  BY <1>1, <1>7, <1>13, PagedIs DEF Wheel
<1>14. CASE UNCHANGED sideVars
  BY <1>14 DEF sideVars, SideInv, InOrder
<1> QED BY <1>2, <1>3, <1>4, <1>5, <1>6, <1>8, <1>9, <1>10, <1>11, <1>12, <1>13, <1>14
        DEF SideNext

(* Whatever is drawn is a window on the lines the log has now: at their    *)
(* end while the view goes along, and never past it; and the entries are   *)
(* numbered in the order they came (logEvent, _renderEventLog).            *)
THEOREM SidebarShows == SideSpec => []SideInv
BY SideInvFirst, SideInvStep, PTL DEF SideSpec

-----------------------------------------------------------------------------
LEMMA Joined ==
  ASSUME NEW s \in Seq(Line), NEW r \in Seq(Line), NEW m \in Nat, m = Len(s)
  PROVE  /\ Cat(s, r) \in Seq(Line) /\ Len(Cat(s, r)) = m + Len(r)
         /\ \A q \in 1 .. m : Cat(s, r)[q] = s[q]
         /\ \A k \in 1 .. Len(r) : Cat(s, r)[m + k] = r[k]
<1> DEFINE j == s \o r
<1>1. j \in Seq(Line) /\ Len(j) = m + Len(r) /\ Len(r) \in Nat
  OBVIOUS
<1>2. \A q \in 1 .. m : j[q] = s[q]
  OBVIOUS
<1>3. \A k \in 1 .. Len(r) : j[m + k] = r[k]
  <2>1. ASSUME NEW k \in 1 .. Len(r) PROVE j[m + k] = r[k]
    <3>1. m + k \in 1 .. m + Len(r) /\ m + k > m /\ (m + k) - m = k
      BY <1>1
    <3> QED BY <3>1
  <2> QED BY <2>1
<1> QED BY <1>1, <1>2, <1>3 DEF Cat

(* Without its first entry a log has the lines that follow the entry's.    *)
LEMMA LinesOfRest ==
  ASSUME NEW events \in Seq(Nat), events # <<>>, NEW E
  PROVE  EventLines(events, E) = Cat(Block(Head(events), E), EventLines(Tail(events), E))
<1> DEFINE rest == Tail(events)
           m == Len(rest)
           B == Block(Head(events), E)
<1>1. /\ m \in Nat /\ Len(events) = m + 1 /\ rest \in Seq(Nat) /\ Head(events) = events[1]
      /\ \A i \in 1 .. m : rest[i] = events[i + 1]
      /\ \A i \in 1 .. m + 1 : events[i] \in Nat
  OBVIOUS
<1>2. PICK h \in [0 .. Len(events) -> Seq(Line)] :
         /\ h[0] = <<>>
         /\ \A i \in 1 .. Len(events) : h[i] = h[i - 1] \o Block(events[i], E)
         /\ EventLines(events, E) = h[Len(events)]
  BY LinesAre
<1> HIDE DEF rest
<1>3. PICK g \in [0 .. m -> Seq(Line)] :
         /\ g[0] = <<>> /\ \A i \in 1 .. m : g[i] = g[i - 1] \o Block(rest[i], E)
         /\ EventLines(rest, E) = g[m]
  BY <1>1, LinesAre
<1>4. B \in Seq(Line) /\ 1 \in 1 .. m + 1
  BY <1>1, BlockIs
<1> HIDE DEF m
<1> DEFINE T == {i \in 0 .. m : h[i + 1] = Cat(B, g[i])}
<1>5. 0 \in T
  <2>1. h[1] = <<>> \o Block(events[1], E)
    <3>1. 1 \in 1 .. Len(events) /\ 1 - 1 = 0
      BY <1>1
    <3>2. h[1] = h[1 - 1] \o Block(events[1], E)
      BY <1>2, <3>1
    <3> QED BY <1>2, <3>1, <3>2
  <2>2. \A x \in Seq(Line) : <<>> \o x = x /\ x \o <<>> = x
    OBVIOUS
  <2>3. B = Block(events[1], E)
    BY <1>1
  <2> HIDE DEF B
  <2>4. h[1] = Cat(B, <<>>)
    BY <1>4, <2>1, <2>2, <2>3 DEF Cat
  <2> QED BY <1>1, <1>3, <2>4
<1> HIDE DEF B
<1>6. ASSUME NEW i \in 0 .. m, i < m, i \in T PROVE i + 1 \in T
  <2>1. /\ i + 1 \in 1 .. m /\ (i + 1) - 1 = i /\ i + 1 \in 0 .. m
        /\ (i + 1) + 1 \in 1 .. m + 1 /\ ((i + 1) + 1) - 1 = i + 1
        /\ h[i + 1] = Cat(B, g[i])
    BY <1>1, <1>6
  <2> DEFINE L == Block(rest[i + 1], E)
  <2>2. /\ g[i + 1] = Cat(g[i], L) /\ h[(i + 1) + 1] = Cat(h[i + 1], L)
    BY <1>1, <1>2, <1>3, <2>1 DEF Cat
  <2>3. L \in Seq(Line) /\ g[i] \in Seq(Line)
    <3>1. rest[i + 1] \in Nat
      BY <1>1, <2>1
    <3> QED BY <1>1, <3>1, BlockIs
  <2> HIDE DEF L
  <2>4. h[(i + 1) + 1] = Cat(B, g[i + 1])
    BY <1>4, <2>1, <2>2, <2>3, CatIs
  <2> QED BY <2>1, <2>4
<1> HIDE DEF T
<1>7. \A i \in 0 .. m : i \in T
  BY <1>1, <1>5, <1>6, CountUp
<1>8. h[m + 1] = Cat(B, g[m])
  BY <1>1, <1>7 DEF T
<1> QED BY <1>1, <1>2, <1>3, <1>8 DEF rest, B

(* A window on lines.                                                      *)
LEMMA WindowIs ==
  ASSUME NEW lines \in Seq(Line), NEW top \in Nat, NEW height \in Nat
  PROVE  LET n == Lesser(top + height, Len(lines))
             w == Window(lines, top, height)
         IN \A k \in 1 .. n - top : k \in DOMAIN w /\ w[k] = lines[top + k]
<1> DEFINE n == Lesser(top + height, Len(lines))
<1>1. n \in Nat /\ n <= Len(lines) /\ Len(lines) \in Nat
  BY DEF Lesser
<1> HIDE DEF n
<1> DEFINE w == SubSeq(lines, top + 1, n)
<1>2. Window(lines, top, height) = w
  BY DEF Window, n
<1>3. ASSUME NEW k \in 1 .. n - top PROVE k \in DOMAIN w /\ w[k] = lines[top + k]
  <2>1. top + 1 \in 1 .. Len(lines) + 1 /\ n \in top .. Len(lines)
    BY <1>1, <1>3
  <2>2. /\ Len(w) = n - (top + 1) + 1 /\ w \in Seq(Line)
        /\ \A i \in 1 .. n - (top + 1) + 1 : w[i] = lines[top + 1 + i - 1]
    BY <1>1, <2>1, SubSeqProperties
  <2>3. n - (top + 1) + 1 = n - top /\ top + 1 + k - 1 = top + k
    BY <1>1
  <2> HIDE DEF w
  <2> QED BY <1>1, <2>2, <2>3
<1> HIDE DEF w
<1> QED BY <1>2, <1>3 DEF n

LEMMA WindowOfMore ==
  ASSUME NEW lines \in Seq(Line), NEW more \in Seq(Line),
         NEW top \in Nat, NEW height \in Nat, top + height <= Len(lines)
  PROVE  Window(lines \o more, top, height) = Window(lines, top, height)
<1> DEFINE all == lines \o more
<1>1. /\ all \in Seq(Line) /\ Len(all) = Len(lines) + Len(more)
      /\ Len(lines) \in Nat /\ Len(more) \in Nat
      /\ \A i \in 1 .. Len(lines) : all[i] = lines[i]
  OBVIOUS
<1> HIDE DEF all
<1>2. Lesser(top + height, Len(all)) = top + height
  BY <1>1 DEF Lesser
<1>3. Lesser(top + height, Len(lines)) = top + height
  BY <1>1 DEF Lesser
<1>4. SubSeq(all, top + 1, top + height) = SubSeq(lines, top + 1, top + height)
  <2> DEFINE m == top + 1
             l == top + height
             x == SubSeq(all, m, l)
             y == SubSeq(lines, m, l)
  <2>1. m \in Int /\ l \in Int /\ \A i \in m .. l : i \in 1 .. Len(lines) /\ i \in 1 .. Len(all)
    BY <1>1
  <2>2. \A i \in m .. l : all[i] \in Line /\ lines[i] \in Line /\ all[i] = lines[i]
    BY <1>1, <2>1
  <2> HIDE DEF m, l
  <2>3. /\ x \in Seq(Line) /\ Len(x) = (IF m <= l THEN l - m + 1 ELSE 0)
        /\ \A i \in 1 .. l - m + 1 : x[i] = all[m + i - 1]
    BY <2>1, <2>2, SubSeqProperties
  <2>4. /\ y \in Seq(Line) /\ Len(y) = (IF m <= l THEN l - m + 1 ELSE 0)
        /\ \A i \in 1 .. l - m + 1 : y[i] = lines[m + i - 1]
    BY <2>1, <2>2, SubSeqProperties
  <2> HIDE DEF x, y
  <2>5. ASSUME NEW i \in 1 .. Len(x) PROVE x[i] = y[i]
    <3>1. i \in 1 .. l - m + 1 /\ m + i - 1 \in m .. l
      BY <2>1, <2>3, <2>5
    <3> QED BY <2>2, <2>3, <2>4, <3>1
  <2>6. x = y
    BY <2>3, <2>4, <2>5, SeqEqual
  <2> QED BY <2>6 DEF x, y, m, l
<1> QED BY <1>2, <1>3, <1>4 DEF Window, all

(* Only an event counts up.                                                *)
LEMMA OnlyEventsCount ==
  ASSUME SideInv, [SideNext]_sideVars, nextEntry' > nextEntry
  PROVE  LogEvent
<1>1. nextEntry \in Nat \ {0}
  BY DEF SideInv, InOrder
<1>2. nextEntry' # nextEntry /\ nextEntry' # 1
  BY <1>1
<1>3. ~Remount /\ ~(UNCHANGED sideVars)
  BY <1>2 DEF Remount, sideVars
<1>4. ~SetMode /\ ~FocusMoves /\ ~PaneResized
  BY <1>2 DEF SetMode, FocusMoves, PaneResized
<1>5. ~UpDown /\ ~PageKey /\ ~HomeKey /\ ~EndKey /\ ~EnterKey /\ ~Wheel
  BY <1>2 DEF UpDown, PageKey, HomeKey, EndKey, EnterKey, Wheel, Pressed
<1> QED BY <1>3, <1>4, <1>5 DEF SideNext

LEMMA BacklogStays ==
  ASSUME SideInv, [SideNext]_sideVars,
         bar.mode = "event-log", bar.top < MaxTop(bar),
         nextEntry' > nextEntry, Len(entries) < LogCap
  PROVE  bar'.drawn = bar.drawn
<1> DEFINE more == Append(entries, nextEntry)
           lines == EventLines(entries, bar.expanded)
           block == Block(nextEntry, bar.expanded)
           all == EventLines(more, bar.expanded)
           max == AtLeast0(Len(lines) - bar.height)
           most == AtLeast0(Len(all) - bar.height)
<1>1. /\ entries \in Seq(Nat) /\ nextEntry \in Nat /\ IsBar(bar)
      /\ LogCap \in Nat
  BY SidebarBounds DEF SideInv, InOrder
<1>2. /\ bar' = Drawn(bar, entries')
      /\ entries' = IF Len(more) > LogCap THEN Tail(more) ELSE more
  BY OnlyEventsCount DEF LogEvent
<1>3. more \in Seq(Nat) /\ Len(more) = Len(entries) + 1 /\ Len(entries) \in Nat
  BY <1>1
<1> HIDE DEF more
<1>4. entries' = more
  BY <1>1, <1>2, <1>3
<1>5. all = lines \o block
  BY <1>1, LinesAppended DEF more
<1>6. lines \in Seq(Line) /\ Len(lines) \in Nat /\ block \in Seq(Line)
  BY <1>1, LinesType, BlockIs
<1>7. /\ bar.total = Len(lines) /\ (bar.auto => bar.top = max)
      /\ bar.drawn = Window(lines, bar.top, bar.height)
  BY DEF SideInv, Shows
<1>8. bar'.top = (IF bar.auto THEN most ELSE Lesser(bar.top, most))
      /\ bar'.drawn = Window(all, bar'.top, bar.height)
  <2>1. bar' = RenderEventLog(bar, more)
    BY <1>2, <1>4 DEF Drawn
  <2> QED BY <1>1, <1>3, <2>1, RenderIs
<1> HIDE DEF lines, block, all
<1>9. /\ Len(all) = Len(lines) + Len(block) /\ Len(block) \in Nat
      /\ bar.top \in Nat /\ bar.height \in Nat /\ bar.auto \in BOOLEAN
  BY <1>1, <1>5, <1>6 DEF IsBar
<1>10. bar.top < max
  BY <1>7 DEF MaxTop
<1>11. ~bar.auto
  BY <1>7, <1>9, <1>10
<1>12. bar.top + bar.height <= Len(lines) /\ bar.top < most
  BY <1>6, <1>9, <1>10 DEF AtLeast0
<1>13. bar'.top = bar.top
  BY <1>8, <1>11, <1>12 DEF Lesser
<1>14. Window(all, bar.top, bar.height) = Window(lines, bar.top, bar.height)
  BY <1>5, <1>6, <1>9, <1>12, WindowOfMore
<1> QED BY <1>7, <1>8, <1>13, <1>14

(* When the log is full, the lines move by those of the entry that goes.   *)
LEMMA BacklogMoves ==
  ASSUME SideInv, [SideNext]_sideVars,
         bar.mode = "event-log", bar.top < MaxTop(bar),
         nextEntry' > nextEntry, ~(Len(entries) < LogCap),
         NEW i \in DOMAIN bar.drawn, i > OldestLines(bar)
  PROVE  InView(bar', bar.drawn[i])
<1> DEFINE more == Append(entries, nextEntry)
           kept == Tail(more)
           E == bar.expanded
           lines == EventLines(entries, E)
           block == Block(nextEntry, E)
           dropped == Block(Head(entries), E)
           all == EventLines(more, E)
           rest == EventLines(kept, E)
           n == Len(lines)
           r == Len(rest)
           k == Len(dropped)
           height == bar.height
           top == bar.top
           most == AtLeast0(r - height)
<1>1. /\ entries \in Seq(Nat) /\ nextEntry \in Nat /\ IsBar(bar)
      /\ LogCap \in Nat \ {0}
  BY SidebarBounds DEF SideInv, InOrder
<1>2. /\ bar' = Drawn(bar, entries')
      /\ entries' = IF Len(more) > LogCap THEN Tail(more) ELSE more
  BY OnlyEventsCount DEF LogEvent
<1>3. /\ more \in Seq(Nat) /\ Len(more) = Len(entries) + 1 /\ Len(entries) \in Nat
      /\ Len(entries) >= LogCap
  BY <1>1
<1>4. /\ Head(entries) \in Nat /\ Head(more) = Head(entries) /\ more # <<>>
      /\ kept \in Seq(Nat)
  BY <1>1, <1>3
<1> HIDE DEF more
<1>5. entries' = kept
  BY <1>1, <1>2, <1>3
<1> HIDE DEF kept
<1>6. lines \in Seq(Line) /\ n \in Nat /\ rest \in Seq(Line) /\ r \in Nat
  BY <1>1, <1>4, LinesType
<1>7. /\ block \in Seq(Line) /\ dropped \in Seq(Line) /\ k = OldestLines(bar)
      /\ Len(block) \in Nat \ {0}
  <2>1. /\ k = 1 + IF Head(entries) \in E THEN Details(Head(entries)) ELSE 0
        /\ block \in Seq(Line) /\ dropped \in Seq(Line)
        /\ Len(block) = 1 + IF nextEntry \in E THEN Details(nextEntry) ELSE 0
        /\ Details(nextEntry) \in 0 .. 2
    BY <1>1, <1>4, BlockIs
  <2>2. Len(block) \in Nat \ {0}
    BY <2>1
  <2> QED BY <2>1, <2>2 DEF OldestLines
<1>8. all = Cat(lines, block) /\ all = Cat(dropped, rest)
  <2>1. all = lines \o block
    BY <1>1, LinesAppended DEF more
  <2>2. all = Cat(Block(Head(more), E), rest)
    BY <1>3, <1>4, LinesOfRest DEF kept
  <2> QED BY <1>4, <2>1, <2>2 DEF Cat
<1>9. /\ bar.total = n /\ (bar.auto => top = AtLeast0(n - height))
      /\ bar.drawn = Window(lines, top, height)
  BY DEF SideInv, Shows
<1>10. /\ bar'.top = (IF bar.auto THEN most ELSE Lesser(top, most))
       /\ bar'.drawn = Window(rest, bar'.top, height)
  <2>1. bar' = RenderEventLog(bar, kept)
    BY <1>2, <1>5 DEF Drawn
  <2> QED BY <1>1, <1>4, <2>1, RenderIs
<1> HIDE DEF lines, block, all, rest, dropped
<1>11. top \in Nat /\ height \in Nat \ {0} /\ bar.auto \in BOOLEAN
  BY <1>1 DEF IsBar
<1> HIDE DEF n, r, k, top, height
<1>12. /\ Len(all) = n + Len(block) /\ Len(all) = k + r
       /\ \A q \in 1 .. n : all[q] = lines[q]
       /\ \A q \in 1 .. r : all[k + q] = rest[q]
       /\ k \in Nat
  <2>1. k \in Nat /\ k = Len(dropped) /\ n = Len(lines) /\ r = Len(rest)
    BY <1>7 DEF k, n, r
  <2>2. Len(Cat(lines, block)) = n + Len(block) /\ \A q \in 1 .. n : Cat(lines, block)[q] = lines[q]
    BY <1>6, <1>7, <2>1, Joined
  <2>3. Len(Cat(dropped, rest)) = k + r /\ \A q \in 1 .. r : Cat(dropped, rest)[k + q] = rest[q]
    <3>1. \A s, w \in Seq(Line) : \A m \in Nat : m = Len(s) =>
            /\ Len(Cat(s, w)) = m + Len(w)
            /\ \A q \in 1 .. Len(w) : Cat(s, w)[m + q] = w[q]
      BY Joined
    <3>2. dropped \in Seq(Line) /\ rest \in Seq(Line) /\ k \in Nat /\ k = Len(dropped)
      BY <1>6, <1>7, <2>1
    <3> QED BY ONLY <2>1, <3>1, <3>2
  <2> QED BY <1>8, <2>1, <2>2, <2>3
<1>13. top < AtLeast0(n - height)
  BY <1>9 DEF MaxTop, top, height
<1>14. ~bar.auto /\ top + height <= n
  BY <1>6, <1>9, <1>11, <1>13 DEF AtLeast0
<1>15. i \in 1 .. height /\ bar.drawn[i] = lines[top + i]
  <2>1. Lesser(top + height, n) = top + height
    BY <1>6, <1>11, <1>14 DEF Lesser
  <2>2. bar.drawn = SubSeq(lines, top + 1, top + height)
    BY <1>9, <2>1 DEF Window, n
  <2>3. Len(bar.drawn) = height /\ bar.drawn \in Seq(Line)
    <3> DEFINE w == SubSeq(lines, top + 1, top + height)
    <3>1. top + 1 \in 1 .. n + 1 /\ top + height \in top .. n
      BY <1>6, <1>11, <1>14
    <3>2. w \in Seq(Line) /\ Len(w) = (top + height) - (top + 1) + 1
      BY <1>6, <1>11, <1>14, <3>1, SubSeqProperties DEF n
    <3>3. (top + height) - (top + 1) + 1 = height
      BY <1>11
    <3> QED BY <2>2, <3>2, <3>3
  <2>4. i \in 1 .. height
    BY <2>3
  <2>5. \A j \in 1 .. (top + height) - top : bar.drawn[j] = lines[top + j]
    BY <1>6, <1>9, <1>11, <2>1, WindowIs DEF n
  <2> QED BY <1>11, <2>4, <2>5
<1> DEFINE now == bar'.top
           j == (top + i) - k - now
           end == Lesser(now + height, r)
<1>16. now = Lesser(top, most) /\ most \in Nat
  BY <1>6, <1>10, <1>11, <1>14 DEF AtLeast0
<1>17. /\ now \in Nat /\ now <= top
       /\ now = top \/ now >= r - height
  BY <1>6, <1>11, <1>16 DEF Lesser, AtLeast0
<1>18. i > k /\ r > n - k /\ r = n + Len(block) - k
  BY <1>6, <1>7, <1>12
<1> HIDE DEF now, most
<1>19. /\ (top + i) - k \in 1 .. r /\ k + ((top + i) - k) = top + i
       /\ top + i \in 1 .. n
       /\ j \in 1 .. end - now /\ now + j = (top + i) - k
  <2> DEFINE q == (top + i) - k
  <2>1. k \in Nat /\ n \in Nat /\ r \in Nat /\ i \in Nat /\ 1 <= i /\ i <= height
    BY <1>6, <1>11, <1>12, <1>15
  <2>2. q \in Int /\ k + q = top + i /\ top + i \in 1 .. n
    BY <1>11, <1>14, <2>1
  <2>3. q > now /\ q <= now + height /\ q <= r
    BY <1>11, <1>14, <1>17, <1>18, <2>1
  <2> HIDE DEF q
  <2>4. q \in 1 .. r /\ q - now \in 1 .. end - now /\ now + (q - now) = q
    BY <1>11, <1>17, <2>1, <2>2, <2>3 DEF Lesser
  <2> QED BY <2>2, <2>4 DEF q
<1>20. rest[now + j] = lines[top + i]
  <2>1. all[k + ((top + i) - k)] = rest[(top + i) - k]
    BY <1>12, <1>19
  <2>2. all[top + i] = lines[top + i]
    BY <1>12, <1>19
  <2> QED BY <1>19, <2>1, <2>2
<1>21. j \in DOMAIN bar'.drawn /\ bar'.drawn[j] = rest[now + j]
  <2>1. bar'.drawn = Window(rest, now, height)
    BY <1>10 DEF now
  <2>2. \A q \in 1 .. end - now :
          q \in DOMAIN Window(rest, now, height) /\ Window(rest, now, height)[q] = rest[now + q]
    BY <1>6, <1>11, <1>17, WindowIs DEF r
  <2> HIDE DEF j, end
  <2> QED BY <1>19, <2>1, <2>2
<1> QED BY <1>15, <1>20, <1>21 DEF InView

(* Somebody who reads back in the log keeps what is in view when another   *)
(* entry comes, for any log, any cap and any height of the pane: all of it *)
(* while the log grows, and when it is full all but as many lines as the   *)
(* entry has that goes (logEvent, _renderEventLog).                        *)
THEOREM BacklogKept == SideSpec => LogBacklogKept
<1>1. SideInv /\ [SideNext]_sideVars
        => [(bar.mode = "event-log" /\ bar.top < MaxTop(bar) /\ nextEntry' > nextEntry)
              => IF Len(entries) < LogCap THEN bar'.drawn = bar.drawn
                 ELSE \A i \in DOMAIN bar.drawn :
                        i > OldestLines(bar) => InView(bar', bar.drawn[i])]_sideVars
  BY BacklogStays, BacklogMoves
<1> QED BY <1>1, SideInvFirst, SideInvStep, PTL DEF SideSpec, LogBacklogKept

-----------------------------------------------------------------------------
(* A line of the log is the line of an entry that is kept.                 *)
LEMMA LinesOfEntries ==
  ASSUME NEW events \in Seq(Nat), NEW E, NEW id \in Nat,
         \A i \in DOMAIN events : events[i] # id
  PROVE  NotOf(EventLines(events, E), id)
<1> DEFINE n == Len(events)
<1>1. n \in Nat /\ DOMAIN events = 1 .. n /\ \A i \in 1 .. n : events[i] \in Nat
  OBVIOUS
<1>2. PICK h \in [0 .. n -> Seq(Line)] :
         /\ h[0] = <<>> /\ \A i \in 1 .. n : h[i] = h[i - 1] \o Block(events[i], E)
         /\ EventLines(events, E) = h[n]
  BY LinesAre
<1> HIDE DEF n
<1> DEFINE T == {i \in 0 .. n : NotOf(h[i], id)}
<1>3. 0 \in T
  BY <1>1, <1>2 DEF NotOf
<1>4. ASSUME NEW i \in 0 .. n, i < n, i \in T PROVE i + 1 \in T
  <2>1. i + 1 \in 1 .. n /\ (i + 1) - 1 = i /\ i + 1 \in 0 .. n /\ h[i] \in Seq(Line)
        /\ NotOf(h[i], id)
    BY <1>1, <1>4
  <2>2. h[i + 1] = h[i] \o Block(events[i + 1], E) /\ events[i + 1] # id
        /\ events[i + 1] \in Nat
    BY <1>1, <1>2, <2>1
  <2>3. NotOf(h[i + 1], id)
    BY <2>1, <2>2, BesideBlock
  <2> QED BY <2>1, <2>3
<1> HIDE DEF T
<1>5. \A i \in 0 .. n : i \in T
  BY <1>1, <1>3, <1>4, CountUp
<1>6. NotOf(h[n], id)
  BY <1>1, <1>5 DEF T
<1> QED BY <1>2, <1>6

(* Where the header and the last line of an entry are.                     *)
Opened(id, E) == IF id \in E THEN Details(id) ELSE 0

Placed(lines, A, B, id, d) ==
  /\ Len(lines) = Len(A) + 1 + d + Len(B)
  /\ \A p \in DOMAIN lines : lines[p] = <<id, 0>> => p = Len(A) + 1
  /\ LastLine(lines, id) = Len(A) + 1 + d
  /\ lines[Len(A) + 1 + d] = <<id, d>>

LEMMA LinesOfBlock ==
  ASSUME NEW A \in Seq(Line), NEW B \in Seq(Line), NEW id \in Nat, NEW E,
         NotOf(A, id), NotOf(B, id)
  PROVE  Placed(Cat(Cat(A, Block(id, E)), B), A, B, id, Opened(id, E))
<1> DEFINE C == Block(id, E)
           d == Opened(id, E)
           a == Len(A)
           lines == Cat(Cat(A, C), B)
<1>1. /\ C \in Seq(Line) /\ Len(C) = 1 + d /\ d \in Nat
      /\ \A k \in 1 .. Len(C) : C[k] = <<id, k - 1>>
  BY BlockIs DEF Opened
<1>2. a \in Nat /\ Len(B) \in Nat
  OBVIOUS
<1> HIDE DEF C, d
<1>3. /\ lines \in Seq(Line) /\ Len(lines) = a + 1 + d + Len(B)
      /\ \A q \in 1 .. a : lines[q] = A[q]
      /\ \A k \in 1 .. 1 + d : lines[a + k] = C[k]
      /\ \A k \in 1 .. Len(B) : lines[a + 1 + d + k] = B[k]
  <2> DEFINE AC == Cat(A, C)
             m == a + 1 + d
  <2>1. /\ AC \in Seq(Line) /\ Len(AC) = a + Len(C)
        /\ \A q \in 1 .. a : AC[q] = A[q]
        /\ \A k \in 1 .. Len(C) : AC[a + k] = C[k]
    BY <1>1, <1>2, Joined
  <2>2. m \in Nat /\ m = Len(AC)
    BY <1>1, <1>2, <2>1
  <2> HIDE DEF AC, m
  <2>3. /\ Cat(AC, B) \in Seq(Line) /\ Len(Cat(AC, B)) = m + Len(B)
        /\ \A q \in 1 .. m : Cat(AC, B)[q] = AC[q]
        /\ \A k \in 1 .. Len(B) : Cat(AC, B)[m + k] = B[k]
    BY <2>1, <2>2, Joined
  <2>4. lines = Cat(AC, B)
    BY DEF AC, C
  <2> HIDE DEF lines
  <2>5. /\ \A q \in 1 .. a : q \in 1 .. m
        /\ \A k \in 1 .. 1 + d : a + k \in 1 .. m
    BY <1>1, <1>2 DEF m
  <2>6. \A q \in 1 .. a : lines[q] = A[q]
    BY <2>1, <2>3, <2>4, <2>5
  <2>7. \A k \in 1 .. 1 + d : lines[a + k] = C[k]
    BY <1>1, <2>1, <2>3, <2>4, <2>5
  <2> QED BY <2>3, <2>4, <2>6, <2>7 DEF m
<1> HIDE DEF lines, a
<1>4. \A q \in 1 .. Len(lines) :
         \/ q \in 1 .. a \/ (q - a \in 1 .. 1 + d) \/ (q - (a + 1 + d) \in 1 .. Len(B))
  BY <1>1, <1>2, <1>3
<1>5. ASSUME NEW q \in 1 .. Len(lines), lines[q][1] = id PROVE q - a \in 1 .. 1 + d
  <2>1. ASSUME q \in 1 .. a PROVE lines[q][1] # id
    <3>1. lines[q] = A[q]
      BY <1>3, <2>1
    <3>2. q \in DOMAIN A
      BY <2>1 DEF a
    <3> QED BY <3>1, <3>2 DEF NotOf
  <2>2. ASSUME q - (a + 1 + d) \in 1 .. Len(B) PROVE lines[q][1] # id
    <3>1. q = a + 1 + d + (q - (a + 1 + d))
      BY <1>1, <1>2
    <3>2. lines[q] = B[q - (a + 1 + d)]
      BY <1>3, <2>2, <3>1
    <3> QED BY <2>2, <3>2 DEF NotOf
  <2> QED BY <1>4, <1>5, <2>1, <2>2
<1>6. \A k \in 1 .. 1 + d : lines[a + k] = <<id, k - 1>>
  BY <1>1, <1>3
<1>7. ASSUME NEW p \in DOMAIN lines, lines[p] = <<id, 0>> PROVE p = a + 1
  <2>1. p \in 1 .. Len(lines) /\ lines[p][1] = id
    BY <1>3, <1>7
  <2>2. p - a \in 1 .. 1 + d
    BY <1>5, <2>1
  <2>3. a + (p - a) = p
    BY <1>2, <2>1
  <2>4. lines[p] = <<id, (p - a) - 1>>
    BY <1>6, <2>2, <2>3
  <2>5. \A x : <<id, x>> = <<id, 0>> => x = 0
    OBVIOUS
  <2>6. (p - a) - 1 = 0
    BY <1>7, <2>4, <2>5
  <2> QED BY <1>2, <2>1, <2>6
<1>8. lines[a + 1 + d] = <<id, d>>
  <2>1. 1 + d \in 1 .. 1 + d /\ a + (1 + d) = a + 1 + d /\ (1 + d) - 1 = d
    BY <1>1, <1>2
  <2> QED BY <1>6, <2>1
<1>9. LastLine(lines, id) = a + 1 + d
  <2> DEFINE l == LastLine(lines, id)
  <2>1. /\ l \in 0 .. Len(lines) /\ (l # 0 => lines[l][1] = id)
        /\ \A q \in DOMAIN lines : lines[q][1] = id => q <= l
    BY <1>3, LastLineIs
  <2> HIDE DEF l
  <2>2. a + 1 + d \in DOMAIN lines
    BY <1>1, <1>2, <1>3
  <2>3. lines[a + 1 + d][1] = id
    BY <1>8
  <2>4. a + 1 + d <= l
    BY <2>1, <2>2, <2>3
  <2>5. l \in 1 .. Len(lines) /\ lines[l][1] = id
    BY <1>1, <1>2, <2>1, <2>4
  <2>6. l - a \in 1 .. 1 + d
    BY <1>5, <2>5
  <2>7. l \in Int /\ l <= a + 1 + d
    BY <1>1, <1>2, <2>5, <2>6
  <2>8. l = a + 1 + d
    BY <1>1, <1>2, <2>4, <2>7
  <2> QED BY <2>8 DEF l
<1> QED BY <1>3, <1>7, <1>8, <1>9 DEF Placed, lines, a, C, d

(* The entry toggled in view stays in view.                                *)
LEMMA EntryStaysInView ==
  ASSUME SideInv, EnterKey, InView(bar, <<bar.sel, 0>>)
  PROVE  InView(bar', <<bar.sel, IF bar.sel \in bar'.expanded THEN Details(bar.sel) ELSE 0>>)
<1> DEFINE id == bar.sel
           E == bar.expanded
           F == IF id \in E THEN E \ {id} ELSE E \cup {id}
           h == bar.height
           top == bar.top
           lines == EventLines(entries, E)
           toggled == EventLines(entries, F)
           n == Len(lines)
           q == [bar EXCEPT !.expanded = F]
<1>1. /\ entries \in Seq(Nat) /\ IsBar(bar) /\ bar.mode = "event-log"
      /\ \A i \in DOMAIN entries : entries[i] # 0
      /\ \A i, j \in DOMAIN entries : entries[i] = entries[j] => i = j
  <2>1. entries \in Seq(Nat \ {0}) /\ \A i, j \in DOMAIN entries : i < j => entries[i] < entries[j]
    BY DEF SideInv, InOrder
  <2>2. \A i \in DOMAIN entries : entries[i] \in Nat \ {0} /\ i \in Nat
    BY <2>1
  <2>3. \A i, j \in DOMAIN entries : entries[i] = entries[j] => i = j
    BY <2>1, <2>2
  <2>4. entries \in Seq(Nat)
    BY <2>1
  <2> QED BY <2>2, <2>3, <2>4 DEF SideInv, EnterKey, HasKeys
<1>2. top \in Nat /\ bar.auto \in BOOLEAN /\ h \in Nat \ {0}
  BY <1>1 DEF IsBar
<1>3. lines \in Seq(Line) /\ n \in Nat /\ toggled \in Seq(Line)
  BY <1>1, LinesType
<1>4. /\ bar.drawn = Window(lines, top, h)
      /\ top <= AtLeast0(n - h) /\ (bar.auto => top = AtLeast0(n - h))
  BY <1>1 DEF SideInv, Shows
<1>5. /\ IsBar(q) /\ q.expanded = F /\ q.sel = id /\ q.height = h /\ q.top = top
      /\ q.auto = bar.auto /\ q.mode = bar.mode
  BY <1>1 DEF IsBar
<1>6. \A e : e # id => (e \in E <=> e \in F)
  OBVIOUS
<1> HIDE DEF F, q
<1>7. id # 0 => ToggleExpanded(bar, entries) = ScrolledIntoView(q, entries)
  BY DEF ToggleExpanded, q, F
<1>8. bar' = Drawn(ToggleExpanded(bar, entries), entries)
  BY DEF EnterKey, Pressed
<1> HIDE DEF lines, toggled, n
(* The header that is in view. *)
<1>9. PICK p \in 1 .. n : top < p /\ p <= top + h /\ lines[p] = <<id, 0>>
  <2> DEFINE end == Lesser(top + h, n)
             w == SubSeq(lines, top + 1, end)
  <2>1. PICK k \in DOMAIN w : w[k] = <<id, 0>>
    BY <1>4 DEF InView, Window, n
  <2>2. end \in Nat /\ end <= n /\ end <= top + h
    BY <1>2, <1>3 DEF Lesser
  <2>3. CASE end < top + 1
    <3>1. w = <<>>
      <4> HIDE DEF end
      <4> QED BY <1>2, <1>3, <2>2, <2>3, SubSeqEmpty DEF n
    <3>2. DOMAIN w = {}
      <4> HIDE DEF w
      <4> QED BY <3>1
    <3>3. FALSE
      <4> HIDE DEF w
      <4> QED BY <2>1, <3>2
    <3> QED BY <3>3
  <2>4. CASE end >= top + 1
    <3>1. Len(w) = end - top /\ w \in Seq(Line)
      <4> HIDE DEF end
      <4>1. \A i \in top + 1 .. end : lines[i] \in Line
        BY <1>2, <1>3, <2>2 DEF n
      <4>2. top + 1 \in Int /\ end \in Int /\ top + 1 <= end
        BY <1>2, <2>2, <2>4
      <4>3. Len(w) = end - (top + 1) + 1 /\ w \in Seq(Line)
        BY <4>1, <4>2, SubSeqProperties
      <4> QED BY <1>2, <2>2, <4>3
    <3>2. k \in 1 .. end - top
      BY <2>1, <3>1
    <3>3. w[k] = lines[top + k]
      <4>1. end = Lesser(top + h, Len(lines)) /\ w = Window(lines, top, h) /\ h \in Nat
        BY <1>2 DEF Window, n
      <4> HIDE DEF w, end
      <4> QED BY <1>2, <1>3, <3>2, <4>1, WindowIs
    <3>4. top + k \in 1 .. n /\ top < top + k /\ top + k <= top + h
      <4> HIDE DEF end, w, top, h
      <4>1. k \in Nat /\ k >= 1 /\ k <= end - top /\ top \in Nat /\ end \in Nat /\ h \in Nat
        BY <1>2, <2>2, <3>2
      <4>2. top + k \in Nat /\ top + k >= 1 /\ top + k <= end
        BY <4>1
      <4> QED BY <1>3, <2>2, <4>1, <4>2
    <3> QED BY <2>1, <3>3, <3>4
  <2> HIDE DEF end
  <2> QED BY <1>2, <2>2, <2>3, <2>4
<1>10. id \in Nat /\ p \in DOMAIN lines /\ lines[p][1] = id
  <2>1. p \in DOMAIN lines /\ lines[p] \in Line
    <3>1. DOMAIN lines = 1 .. Len(lines) /\ \A x \in 1 .. Len(lines) : lines[x] \in Line
      BY <1>3
    <3> QED BY <1>9, <3>1 DEF n
  <2> QED BY <1>9, <2>1 DEF Line
<1>11. PICK at \in DOMAIN entries : entries[at] = id
  BY <1>1, <1>10, LinesOfEntries DEF NotOf, lines
<1>12. id # 0
  BY <1>1, <1>11
(* Its lines before and after. *)
<1>13. Around(lines, toggled, id, E, F)
  BY <1>1, <1>6, <1>11, LinesToggled DEF lines, toggled
<1>14. PICK A \in Seq(Line), B \in Seq(Line) :
          /\ lines = Cat(Cat(A, Block(id, E)), B) /\ toggled = Cat(Cat(A, Block(id, F)), B)
          /\ NotOf(A, id) /\ NotOf(B, id)
  BY <1>13 DEF Around
<1> DEFINE a == Len(A)
           rest == Len(B)
           c == Opened(id, E)
           d == Opened(id, F)
           last == a + 1 + d
<1>15. a \in Nat /\ rest \in Nat /\ c \in Nat /\ d \in Nat
  BY <1>10 DEF Details, Opened
<1>16. /\ n = a + 1 + c + rest
       /\ \A x \in DOMAIN lines : lines[x] = <<id, 0>> => x = a + 1
  <2>1. Placed(lines, A, B, id, c)
    BY <1>10, <1>14, LinesOfBlock
  <2> QED BY <2>1 DEF Placed, n
<1>17. Len(toggled) = a + 1 + d + rest /\ LastLine(toggled, id) = last /\ toggled[last] = <<id, d>>
  <2>1. Placed(toggled, A, B, id, d)
    BY <1>10, <1>14, LinesOfBlock
  <2> QED BY <2>1 DEF Placed
<1>18. a + 1 > top /\ a + 1 <= top + h
  <2>1. p = a + 1
    BY <1>9, <1>10, <1>16
  <2> QED BY <1>9, <2>1
(* The view after the key, and as it is drawn. *)
<1> HIDE DEF a, rest, c, d
<1> DEFINE max == AtLeast0(last + rest - h)
           moved == Lesser(last - h, max)
           top1 == IF last <= top + h THEN top ELSE moved
           auto1 == IF last <= top + h THEN bar.auto ELSE bar.auto \/ moved >= max
           top2 == IF auto1 THEN max ELSE Lesser(top1, max)
           s == ScrolledIntoView(q, entries)
<1>19. top2 \in Nat /\ top2 < last /\ last <= top2 + h
  <2> DEFINE auto == bar.auto
  <2>1. /\ top <= AtLeast0(n - h) /\ (auto => top = AtLeast0(n - h)) /\ auto \in BOOLEAN
        /\ top \in Nat /\ h \in Nat \ {0} /\ n \in Nat
    BY <1>2, <1>3, <1>4
  <2>2. /\ last = a + 1 + d /\ max = AtLeast0(last + rest - h)
        /\ moved = Lesser(last - h, max)
        /\ top1 = IF last <= top + h THEN top ELSE moved
        /\ auto1 = IF last <= top + h THEN auto ELSE auto \/ moved >= max
        /\ top2 = IF auto1 THEN max ELSE Lesser(top1, max)
    OBVIOUS
  <2> HIDE DEF top, h, auto, last, max, moved, top1, auto1, top2
  <2>3. CASE last <= top + h /\ auto
    <3>1. rest < h
      BY <1>15, <1>16, <1>18, <2>1, <2>3 DEF AtLeast0
    <3>2. max \in Nat /\ max < last /\ last <= max + h
      BY <1>15, <2>1, <2>2, <3>1 DEF AtLeast0
    <3>3. top2 = max
      BY <2>2, <2>3
    <3> QED BY <3>2, <3>3
  <2>4. CASE last <= top + h /\ ~auto
    BY <1>15, <1>16, <1>18, <2>1, <2>2, <2>4 DEF AtLeast0, Lesser
  <2>5. CASE ~(last <= top + h)
    BY <1>15, <1>16, <1>18, <2>1, <2>2, <2>5 DEF AtLeast0, Lesser
  <2> QED BY <2>3, <2>4, <2>5
<1>20. last # 0 /\ max = AtLeast0(Len(toggled) - h)
  <2>1. last # 0
    BY <1>15
  <2>2. Len(toggled) = last + rest
    BY <1>15, <1>17
  <2>3. max = AtLeast0(last + rest - h)
    OBVIOUS
  <2>4. last \in Nat /\ rest \in Nat /\ h \in Nat
    BY <1>2, <1>15
  <2> HIDE DEF last, h, max
  <2>5. last + rest - h = Len(toggled) - h
    BY <2>2, <2>4
  <2> QED BY <2>1, <2>3, <2>5
<1> HIDE DEF last, max
<1>21. s = IF last <= top + h THEN q
           ELSE [q EXCEPT !.top = moved, !.auto = @ \/ moved >= max]
  BY <1>5, <1>17, <1>20 DEF ScrolledIntoView, toggled
<1>22. /\ IsBar(s) /\ s.top = top1 /\ s.auto = auto1 /\ s.mode = "event-log"
       /\ s.expanded = F /\ s.height = h
  <2>1. IsBar(s)
    BY <1>1, <1>7, <1>12, EntryToggledIs
  <2>2. CASE last <= top + h
    BY <1>1, <1>5, <1>21, <2>1, <2>2
  <2>3. CASE ~(last <= top + h)
    <3> DEFINE auto == q.auto \/ moved >= max
               r == [q EXCEPT !.top = moved, !.auto = auto]
    <3>1. s = r
      BY <1>21, <2>3
    <3> HIDE DEF moved, auto
    <3>2. /\ r.top = moved /\ r.auto = auto /\ r.mode = q.mode
          /\ r.expanded = q.expanded /\ r.height = q.height
      BY <1>5 DEF IsBar
    <3> HIDE DEF r
    <3>3. auto = auto1 /\ moved = top1
      BY <1>5, <2>3 DEF auto
    <3> QED BY <1>1, <1>5, <2>1, <3>1, <3>2, <3>3
  <2> QED BY <2>2, <2>3
<1> HIDE DEF s, top1, auto1
<1>23. bar' = RenderEventLog(s, entries)
  BY <1>7, <1>8, <1>12, <1>22 DEF Drawn, s
<1>24. /\ bar'.expanded = F
       /\ bar'.top = (IF s.auto THEN AtLeast0(Len(toggled) - h)
                                ELSE Lesser(s.top, AtLeast0(Len(toggled) - h)))
       /\ bar'.drawn = Window(toggled, bar'.top, h)
  BY <1>1, <1>22, <1>23, RenderIs DEF toggled
<1>25. bar'.top = top2 /\ bar'.drawn = Window(toggled, top2, h)
  BY <1>20, <1>22, <1>24
<1> HIDE DEF top2
<1>26. \E i \in DOMAIN bar'.drawn : bar'.drawn[i] = <<id, d>>
  <2> DEFINE end == Lesser(top2 + h, Len(toggled))
             k == last - top2
  <2>1. last \in Nat /\ last <= Len(toggled) /\ Len(toggled) \in Nat
    BY <1>15, <1>17 DEF last
  <2>2. k \in 1 .. end - top2 /\ top2 + k = last
    BY <1>2, <1>19, <2>1 DEF Lesser
  <2> HIDE DEF k
  <2>3. k \in DOMAIN Window(toggled, top2, h) /\ Window(toggled, top2, h)[k] = toggled[top2 + k]
    BY <1>2, <1>3, <1>19, <2>2, WindowIs
  <2> QED BY <1>17, <1>25, <2>2, <2>3
<1> QED BY <1>24, <1>26 DEF InView, d, Opened

(* Opening or closing an entry whose header is in view leaves its last     *)
(* line in view, for any log and any height of the pane.                   *)
THEOREM EntriesInView == SideSpec => ExpandedInView
<1>1. SideInv /\ [SideNext]_sideVars
        => [(EnterKey /\ InView(bar, <<bar.sel, 0>>)) =>
              InView(bar', <<bar.sel, IF bar.sel \in bar'.expanded
                                      THEN Details(bar.sel) ELSE 0>>)]_sideVars
  BY EntryStaysInView
<1> QED BY <1>1, SideInvFirst, SideInvStep, PTL DEF SideSpec, ExpandedInView

-----------------------------------------------------------------------------
(* The file it sends, for any number of members, any file, window and ack  *)
(* interval.                                                               *)

(* WindowHeld speaks of what members have read, waitForCredit of what they *)
(* have acked.  Between the two: an ack in flight or taken is for a chunk  *)
(* that its member has read, and the last chunk sent had credit.           *)
AcksAreRead ==
  \A p \in Peer : /\ \A seq \in acks[p] : seq + 2 <= read[p]
                  /\ acked[p] = -1 \/ acked[p] + 2 <= read[p]
LastHadCredit == \A p \in recipients : sent - 2 - acked[p] <= WINDOW
Started == phase = "idle" <=> sent = 0
NotOverrun == phase = "sending" => sent <= Chunks
Unsent == sent = 0 => acked = [p \in Peer |-> -1]

IInv ==
  TransferTypeOK /\ AcksAreRead /\ LastHadCredit /\ Started /\ NotOverrun /\ Unsent

LEMMA InitInv == TransferInit => IInv
BY ChunksPos, WindowFitsAcks, TransferBounds
   DEF TransferInit, IInv, TransferTypeOK, Seq0, AcksAreRead, LastHadCredit, Started, NotOverrun,
       Unsent

LEMMA BeginInv ==
  ASSUME IInv, Begin
  PROVE  IInv'
BY ChunksPos, WindowFitsAcks
   DEF IInv, Begin, TransferTypeOK, Seq0, AcksAreRead, LastHadCredit, Started, NotOverrun,
       Unsent

LEMMA SendChunkInv ==
  ASSUME IInv, SendChunk
  PROVE  IInv'
<1>1. sent \in 1 .. Chunks
  BY ChunksPos DEF IInv, SendChunk, TransferTypeOK, Started, NotOverrun
<1>2. TransferTypeOK'
  BY <1>1, ChunksPos DEF IInv, SendChunk, TransferTypeOK, Seq0
<1>3. AcksAreRead'
  BY DEF IInv, SendChunk, AcksAreRead
<1>4. LastHadCredit'
  BY <1>1, WindowFitsAcks DEF IInv, SendChunk, TransferTypeOK, Seq0, LastHadCredit, Credit
<1>5. Started' /\ NotOverrun' /\ Unsent'
  BY <1>1, ChunksPos DEF SendChunk, Started, NotOverrun, Unsent, Final
<1>6. QED
  BY <1>2, <1>3, <1>4, <1>5 DEF IInv

LEMMA ReceiveAckInv ==
  ASSUME IInv, NEW p \in Peer, ReceiveAck(p)
  PROVE  IInv'
<1>1. PICK seq \in acks[p] :
        /\ acks' = [acks EXCEPT ![p] = @ \ {seq}]
        /\ acked' = IF phase = "sending" /\ p \in recipients /\ seq > acked[p]
                    THEN [acked EXCEPT ![p] = seq] ELSE acked
        /\ UNCHANGED <<phase, sent, recipients, members, departed, read, inbound,
                       complete, joins>>
  BY DEF ReceiveAck
<1>2. seq \in Seq0 /\ seq + 2 <= read[p]
  BY DEF IInv, TransferTypeOK, AcksAreRead
<1>3. TransferTypeOK'
  BY <1>1, <1>2 DEF IInv, TransferTypeOK
<1>4. AcksAreRead'
  BY <1>1, <1>2 DEF IInv, TransferTypeOK, AcksAreRead
<1>5. LastHadCredit'
  BY <1>1, <1>2, ChunksPos, WindowFitsAcks DEF IInv, TransferTypeOK, Seq0, LastHadCredit
<1>6. Started' /\ NotOverrun'
  BY <1>1 DEF IInv, Started, NotOverrun
<1>7. Unsent'
  BY <1>1 DEF IInv, Started, Unsent
<1>8. QED
  BY <1>3, <1>4, <1>5, <1>6, <1>7 DEF IInv

(* A member's frame moves read forward, and an ack is for what it just     *)
(* took.                                                                   *)
LEMMA ReceiveInv ==
  ASSUME IInv, NEW p \in Peer, ReceiveFrame(p)
  PROVE  IInv'
<1>1. read[p] < sent /\ Take(p)
      /\ UNCHANGED <<phase, sent, recipients, acked, members, departed, joins>>
  BY DEF ReceiveFrame, OnBegin, IgnoreChunk, OnChunk, IInv, TransferTypeOK
<1>2. read' \in [Peer -> 0 .. sent] /\ \A q \in Peer : read'[q] >= read[q]
  BY <1>1 DEF IInv, TransferTypeOK, Take
<1>3. \A q \in Peer : acks'[q] \subseteq Seq0
                     /\ \A seq \in acks'[q] : seq + 2 <= read'[q]
  <2>1. CASE UNCHANGED acks
    BY <1>2, <2>1 DEF IInv, TransferTypeOK, Seq0, AcksAreRead
  <2>2. CASE OnChunk(p) /\ acks' = [acks EXCEPT ![p] = @ \cup {read[p] - 1}]
    <3>1. read[p] - 1 \in Seq0 /\ read'[p] = read[p] + 1
      BY <2>2, ChunksPos DEF OnChunk, Take, IInv, TransferTypeOK, Seq0
    <3>2. QED
      BY <1>2, <2>2, <3>1 DEF IInv, TransferTypeOK, Seq0, AcksAreRead
  <2>3. QED
    BY <2>1, <2>2 DEF ReceiveFrame, OnBegin, IgnoreChunk, OnChunk
<1>4. TransferTypeOK'
  <2>1. acks' \in [Peer -> SUBSET Seq0]
    BY <1>3 DEF ReceiveFrame, OnBegin, IgnoreChunk, OnChunk, IInv, TransferTypeOK
  <2>2. inbound' \in [Peer -> -1 .. Chunks]
    BY <1>1, ChunksPos
       DEF ReceiveFrame, OnBegin, IgnoreChunk, OnChunk, IInv, TransferTypeOK
  <2>3. complete' \subseteq Peer
    BY DEF ReceiveFrame, OnBegin, IgnoreChunk, OnChunk, IInv, TransferTypeOK
  <2>4. QED
    BY <1>1, <1>2, <2>1, <2>2, <2>3 DEF IInv, TransferTypeOK
<1>5. AcksAreRead'
  <2>1. \A q \in Peer : acked'[q] = -1 \/ acked'[q] + 2 <= read'[q]
    BY <1>1, <1>2 DEF IInv, TransferTypeOK, Seq0, AcksAreRead
  <2>2. QED
    BY <1>3, <2>1 DEF AcksAreRead
<1>6. LastHadCredit' /\ Started' /\ NotOverrun' /\ Unsent'
  BY <1>1 DEF IInv, LastHadCredit, Started, NotOverrun, Unsent
<1>7. QED
  BY <1>4, <1>5, <1>6 DEF IInv

LEMMA LeaveInv ==
  ASSUME IInv, NEW p \in Peer, MemberLeaves(p) \/ PeerLeft(p)
  PROVE  IInv'
BY ChunksPos DEF IInv, MemberLeaves, PeerLeft, TransferTypeOK, AcksAreRead, LastHadCredit,
                 Started, NotOverrun, Unsent

(* A joiner's frames start where the transfer is.                          *)
LEMMA JoinInv ==
  ASSUME IInv, NEW p \in Peer, Join(p)
  PROVE  IInv'
<1>1. /\ read' \in [Peer -> 0 .. sent]
      /\ \A q \in Peer : read'[q] >= read[q]
  BY DEF Join, IInv, TransferTypeOK
<1>2. TransferTypeOK'
  BY <1>1, TransferBounds DEF Join, IInv, TransferTypeOK
<1>3. AcksAreRead'
  BY <1>1 DEF Join, IInv, TransferTypeOK, Seq0, AcksAreRead
<1>4. LastHadCredit' /\ Started' /\ NotOverrun' /\ Unsent'
  BY DEF Join, IInv, LastHadCredit, Started, NotOverrun, Unsent
<1>5. QED
  BY <1>2, <1>3, <1>4 DEF IInv

LEMMA NextInv ==
  ASSUME IInv, [TransferNext]_transferVars
  PROVE  IInv'
<1>1. CASE ConnectionLost
  BY <1>1 DEF IInv, ConnectionLost, TransferTypeOK, AcksAreRead, LastHadCredit, Started,
              NotOverrun, Unsent
<1>2. CASE UNCHANGED transferVars
  BY <1>2 DEF transferVars, IInv, TransferTypeOK, AcksAreRead, LastHadCredit, Started, NotOverrun,
              Unsent
<1>3. QED
  BY <1>1, <1>2, BeginInv, SendChunkInv, ReceiveAckInv, ReceiveInv, LeaveInv,
     JoinInv DEF TransferNext

LEMMA Invariance == TransferSpec => []IInv
<1>1. IInv /\ [TransferNext]_transferVars => IInv'
  BY NextInv
<1>2. QED
  BY InitInv, <1>1, PTL DEF TransferSpec

(* Every variable keeps its type.                                          *)
THEOREM TransferTypes == TransferSpec => []TransferTypeOK
<1>1. IInv => TransferTypeOK
  BY DEF IInv
<1>2. QED
  BY Invariance, <1>1, PTL

(* The relay never holds more than WINDOW + 1 frames of a transfer for a   *)
(* recipient, for any file, window, ack interval and number of members.    *)
THEOREM WindowIsHeld == TransferSpec => []WindowHeld
<1>1. ASSUME IInv, NEW p \in members \cap recipients
      PROVE  Backlog(p) <= WINDOW + 1
  <2>1. /\ p \in Peer /\ sent \in Nat /\ read[p] \in Nat /\ acked[p] \in Int
        /\ acked[p] >= -1
    BY <1>1, ChunksPos DEF IInv, TransferTypeOK, Seq0
  <2>2. sent - 2 - acked[p] <= WINDOW
    BY <1>1 DEF IInv, LastHadCredit
  <2>3. acked[p] = -1 \/ acked[p] + 2 <= read[p]
    BY <1>1, <2>1 DEF IInv, AcksAreRead
  <2>4. QED
    BY <2>1, <2>2, <2>3, WindowFitsAcks DEF Backlog
<1>2. IInv => WindowHeld
  BY <1>1 DEF WindowHeld
<1>3. QED
  BY Invariance, <1>2, PTL

-----------------------------------------------------------------------------
(* The breaking of lines.  First what each loop does with one element      *)
(* more: this, with SequenceByElement, is all that is used of it.          *)
Text == Seq(Glyphs)

(* The laws of concatenation, for texts.                                   *)
LEMMA TextConcat ==
  /\ \A s, t \in Text : s \o t \in Text
  /\ \A s \in Text : s \o <<>> = s /\ <<>> \o s = s
  /\ \A s, t, u \in Text : (s \o t) \o u = s \o (t \o u)
<1>1. \A s, t \in Text : s \o t \in Text
  BY ConcatProperties DEF Text
<1>2. \A s \in Text : s \o <<>> = s /\ <<>> \o s = s
  BY ConcatEmptySeq DEF Text
<1>3. \A s, t, u \in Text : (s \o t) \o u = s \o (t \o u)
  BY ConcatAssociative DEF Text
<1> QED BY <1>1, <1>2, <1>3

LEMMA GlyphColumns ==
  \A g \in Glyphs : CharWidth(g) \in 0 .. 2 /\ (CharWidth(g) = 0 <=> g = "mark")
<1> QED BY DEF Glyphs, CharWidth

(* A glyph more adds its columns.                                          *)
LEMMA DisplayWidthLoop ==
  /\ DisplayWidth(<<>>) = 0
  /\ \A s \in Text : DisplayWidth(s) \in Nat
  /\ \A s \in Text, g \in Glyphs : DisplayWidth(Append(s, g)) = DisplayWidth(s) + CharWidth(g)
<1> DEFINE upTo(s) == CHOOSE f : f = [n \in 0 .. Len(s) |->
                        IF n = 0 THEN 0 ELSE f[n - 1] + CharWidth(s[n])]
           step == [y \in Nat \X Glyphs |-> y[1] + CharWidth(y[2])]
<1>1. \A g \in Glyphs : CharWidth(g) \in Nat
  BY GlyphColumns
<1>2. step \in [Nat \X Glyphs -> Nat] /\ 0 \in Nat
  BY <1>1
<1>3. \A a \in Nat, g \in Glyphs : step[<<a, g>>] = a + CharWidth(g)
  OBVIOUS
<1>4. \A s : DisplayWidth(s) = upTo(s)[Len(s)]
  BY DEF DisplayWidth
<1> HIDE DEF step
<1>5. PICK F \in [Seq(Glyphs) -> Nat] : IsFold(F, Glyphs, Nat, 0, step)
  BY <1>2, Folded
<1>6. ASSUME NEW s \in Text PROVE upTo(s)[Len(s)] = F[s]
  <2>0. Len(s) \in Nat /\ \A n \in 1 .. Len(s) : s[n] \in Glyphs
    BY DEF Text
  <2>1. PICK h \in [0 .. Len(s) -> Nat] :
          h[0] = 0 /\ \A n \in 1 .. Len(s) : h[n] = step[<<h[n - 1], s[n]>>]
    BY <1>5 DEF IsFold, Text
  <2>2. \A n \in 0 .. Len(s) : n # 0 => n \in 1 .. Len(s) /\ n - 1 \in 0 .. Len(s)
    BY <2>0
  <2>3. h = [n \in 0 .. Len(s) |-> IF n = 0 THEN 0 ELSE h[n - 1] + CharWidth(s[n])]
    BY <1>3, <2>0, <2>1, <2>2
  <2> DEFINE u == upTo(s)
  <2>4. u = [n \in 0 .. Len(s) |-> IF n = 0 THEN 0 ELSE u[n - 1] + CharWidth(s[n])]
    BY <2>3
  <2> HIDE DEF u
  <2>5. RunsOver(u, s, 0, step, Nat)
    <3>1. u[0] = 0
      BY <2>0, <2>4
    <3>2. ASSUME NEW n \in 1 .. Len(s), u[n - 1] \in Nat
          PROVE  u[n] = step[<<u[n - 1], s[n]>>]
      <4>1. n \in 0 .. Len(s) /\ n # 0 /\ s[n] \in Glyphs
        BY <2>0
      <4>2. u[n] = u[n - 1] + CharWidth(s[n])
        BY <2>4, <4>1
      <4>3. step[<<u[n - 1], s[n]>>] = u[n - 1] + CharWidth(s[n])
        BY <1>3, <3>2, <4>1
      <4> QED BY <4>2, <4>3
    <3> QED BY <3>1, <3>2 DEF RunsOver
  <2> QED BY <1>5, <2>5 DEF u, IsFold, Text
<1> HIDE DEF upTo
<1>7. \A s \in Text : DisplayWidth(s) = F[s]
  BY <1>4, <1>6
<1>8. <<>> \in Text /\ \A s \in Text, g \in Glyphs : Append(s, g) \in Text
  BY DEF Text
<1>9. F[<<>>] = 0 /\ \A s \in Text, g \in Glyphs : F[Append(s, g)] = step[<<F[s], g>>]
  BY <1>5 DEF IsFold, Text
<1>10. \A s \in Text : F[s] \in Nat
  BY DEF Text
<1>11. ASSUME NEW s \in Text, NEW g \in Glyphs
       PROVE  DisplayWidth(Append(s, g)) = DisplayWidth(s) + CharWidth(g)
  <2>1. F[s] \in Nat
    BY <1>10
  <2>2. step[<<F[s], g>>] = F[s] + CharWidth(g)
    BY <1>3, <2>1
  <2>3. F[Append(s, g)] = F[s] + CharWidth(g)
    BY <1>9, <2>2
  <2> QED BY <1>7, <1>8, <2>3
<1> QED BY <1>7, <1>8, <1>9, <1>10, <1>11

(* A line more comes at the end.                                           *)
LEMMA FlattenLoop ==
  /\ FlattenSeq(<<>>) = <<>>
  /\ \A ls \in Seq(Text) : FlattenSeq(ls) \in Text
  /\ \A ls \in Seq(Text), l \in Text :
       FlattenSeq(Append(ls, l)) = FlattenSeq(ls) \o l
<1> DEFINE step == [y \in Text \X Text |-> y[1] \o y[2]]
<1>2. step \in [Text \X Text -> Text] /\ <<>> \in Text
  BY DEF Text
<1>3. \A a \in Text, l \in Text : step[<<a, l>>] = a \o l
  OBVIOUS
<1> HIDE DEF step
<1>5. PICK F \in [Seq(Text) -> Text] : IsFold(F, Text, Text, <<>>, step)
  BY <1>2, Folded
<1>6. ASSUME NEW s \in Seq(Text) PROVE FlattenSeq(s) = F[s]
  <2>1. PICK h \in [0 .. Len(s) -> Text] :
           /\ h[0] = <<>> /\ \A i \in 1 .. Len(s) : h[i] = h[i - 1] \o s[i]
           /\ FlattenSeq(s) = h[Len(s)]
    BY Flattened DEF Text
  <2>2. \A n \in 1 .. Len(s) : s[n] \in Text
    OBVIOUS
  <2>3. RunsOver(h, s, <<>>, step, Text)
    BY <1>3, <2>1, <2>2 DEF RunsOver
  <2> QED BY <1>5, <2>1, <2>3 DEF IsFold
<1>8. <<>> \in Seq(Text) /\ \A s \in Seq(Text), l \in Text : Append(s, l) \in Seq(Text)
  OBVIOUS
<1>9. F[<<>>] = <<>> /\ \A s \in Seq(Text), l \in Text : F[Append(s, l)] = step[<<F[s], l>>]
  BY <1>5 DEF IsFold
<1>10. \A s \in Seq(Text) : F[s] \in Text
  OBVIOUS
<1>11. ASSUME NEW s \in Seq(Text), NEW l \in Text
       PROVE  FlattenSeq(Append(s, l)) = FlattenSeq(s) \o l
  <2>1. F[s] \in Text
    BY <1>10
  <2>2. step[<<F[s], l>>] = F[s] \o l
    BY <1>3, <2>1
  <2>3. F[Append(s, l)] = F[s] \o l
    BY <1>9, <2>2
  <2> QED BY <1>6, <1>8, <2>3
<1> QED BY <1>6, <1>8, <1>9, <1>10, <1>11

(* A glyph more is kept unless it is a space.                              *)
LEMMA InkLoop ==
  /\ Ink(<<>>) = <<>>
  /\ \A s \in Text : Ink(s) \in Text
  /\ \A s \in Text, g \in Glyphs :
       Ink(Append(s, g)) = IF g = "space" THEN Ink(s) ELSE Append(Ink(s), g)
<1> DEFINE ink(g) == IF g = "space" THEN <<>> ELSE <<g>>
           inks(s) == [i \in DOMAIN s |-> ink(s[i])]
<1>1. \A g \in Glyphs : ink(g) \in Text
  BY DEF Text
<1>2. \A s : Ink(s) = FlattenSeq(inks(s))
  BY DEF Ink
<1>3. ASSUME NEW s \in Text
      PROVE  inks(s) \in Seq(Text) /\ Len(inks(s)) = Len(s)
             /\ \A i \in 1 .. Len(s) : inks(s)[i] = ink(s[i])
  <2>1. Len(s) \in Nat /\ DOMAIN s = 1 .. Len(s) /\ \A i \in 1 .. Len(s) : s[i] \in Glyphs
    BY DEF Text
  <2>2. \A i \in 1 .. Len(s) : ink(s[i]) \in Text
    BY <1>1, <2>1
  <2> HIDE DEF ink
  <2>3. inks(s) = [i \in 1 .. Len(s) |-> ink(s[i])]
    BY <2>1
  <2> QED BY <2>1, <2>2, <2>3
<1>4. inks(<<>>) = <<>>
  <2>1. <<>> \in Text /\ Len(<<>>) = 0
    BY DEF Text
  <2> HIDE DEF inks
  <2>2. inks(<<>>) \in Seq(Text) /\ Len(inks(<<>>)) = 0
    BY <1>3, <2>1
  <2> QED BY <2>2, EmptySeq
<1>5. ASSUME NEW s \in Text, NEW g \in Glyphs
      PROVE  inks(Append(s, g)) = Append(inks(s), ink(g))
  <2>1. /\ Append(s, g) \in Text /\ Len(Append(s, g)) = Len(s) + 1 /\ Len(s) \in Nat
        /\ \A i \in 1 .. Len(s) + 1 : Append(s, g)[i] = IF i <= Len(s) THEN s[i] ELSE g
    BY DEF Text
  <2> HIDE DEF ink, inks
  <2>2. /\ inks(s) \in Seq(Text) /\ Len(inks(s)) = Len(s)
        /\ \A i \in 1 .. Len(s) : inks(s)[i] = ink(s[i])
    BY <1>3
  <2>3. /\ inks(Append(s, g)) \in Seq(Text) /\ Len(inks(Append(s, g))) = Len(s) + 1
        /\ \A i \in 1 .. Len(s) + 1 : inks(Append(s, g))[i] = ink(Append(s, g)[i])
    BY <1>3, <2>1
  <2>4. /\ Append(inks(s), ink(g)) \in Seq(Text) /\ Len(Append(inks(s), ink(g))) = Len(s) + 1
        /\ \A i \in 1 .. Len(s) + 1 :
             Append(inks(s), ink(g))[i] = IF i <= Len(s) THEN ink(s[i]) ELSE ink(g)
    BY <1>1, <2>1, <2>2
  <2>5. \A i \in 1 .. Len(s) + 1 : inks(Append(s, g))[i] = Append(inks(s), ink(g))[i]
    BY <2>1, <2>3, <2>4
  <2> QED BY <2>3, <2>4, <2>5, SeqEqual
<1>6. ASSUME NEW s \in Text PROVE Ink(s) \in Text
  BY <1>2, <1>3, FlattenLoop
<1>7. ASSUME NEW s \in Text, NEW g \in Glyphs PROVE Ink(Append(s, g)) = Ink(s) \o ink(g)
  BY <1>1, <1>2, <1>3, <1>5, FlattenLoop
<1>8. ASSUME NEW s \in Text, NEW g \in Glyphs
      PROVE  Ink(Append(s, g)) = IF g = "space" THEN Ink(s) ELSE Append(Ink(s), g)
  <2>1. Ink(s) \in Seq(Glyphs)
    BY <1>6 DEF Text
  <2>2. Ink(s) \o <<>> = Ink(s) /\ Append(Ink(s), g) = Ink(s) \o <<g>>
    BY <2>1, ConcatEmptySeq, AppendIsConcat
  <2> QED BY <1>7, <2>2
<1> QED BY <1>2, <1>4, <1>6, <1>8, FlattenLoop

(* What one more element does to a concatenation.                          *)
LEMMA ConcatAppend ==
  ASSUME NEW X, NEW s \in Seq(X), NEW t \in Seq(X), NEW x \in X
  PROVE  s \o Append(t, x) = Append(s \o t, x)
<1>1. Append(t, x) = t \o <<x>> /\ <<x>> \in Seq(X)
  BY AppendIsConcat
<1>2. s \o t \in Seq(X) /\ Append(s \o t, x) = (s \o t) \o <<x>>
  BY ConcatProperties, AppendIsConcat
<1>3. (s \o t) \o <<x>> = s \o (t \o <<x>>)
  BY <1>1, ConcatAssociative
<1> QED BY <1>1, <1>2, <1>3

(* The columns of two texts add up.                                        *)
LEMMA WidthConcat ==
  ASSUME NEW s \in Text, NEW t \in Text
  PROVE  s \o t \in Text /\ DisplayWidth(s \o t) = DisplayWidth(s) + DisplayWidth(t)
<1> DEFINE T == {r \in Text : DisplayWidth(s \o r) = DisplayWidth(s) + DisplayWidth(r)}
<1>1. <<>> \in T
  <2>1. <<>> \in Text /\ s \o <<>> = s
    BY DEF Text
  <2> QED BY <2>1, DisplayWidthLoop
<1>2. ASSUME NEW r \in Text, NEW g \in Glyphs, r \in T PROVE Append(r, g) \in T
  <2>1. Append(r, g) \in Text /\ s \o r \in Text /\ s \o Append(r, g) = Append(s \o r, g)
    BY ConcatAppend DEF Text
  <2>2. /\ DisplayWidth(s \o Append(r, g)) = DisplayWidth(s \o r) + CharWidth(g)
        /\ DisplayWidth(Append(r, g)) = DisplayWidth(r) + CharWidth(g)
    BY <2>1, DisplayWidthLoop
  <2>3. DisplayWidth(s) \in Nat /\ DisplayWidth(r) \in Nat /\ CharWidth(g) \in Nat
    BY DisplayWidthLoop, GlyphColumns
  <2>4. DisplayWidth(s \o r) = DisplayWidth(s) + DisplayWidth(r)
    BY <1>2
  <2>5. DisplayWidth(s \o Append(r, g)) = DisplayWidth(s) + DisplayWidth(Append(r, g))
    BY <2>2, <2>3, <2>4
  <2> QED BY <2>1, <2>5
<1> HIDE DEF T
<1>3. \A r \in Text : r \in T
  BY <1>1, <1>2, SequenceByElement DEF Text
<1>4. s \o t \in Text
  BY DEF Text
<1> QED BY <1>3, <1>4 DEF T

LEMMA InkConcat ==
  ASSUME NEW s \in Text, NEW t \in Text
  PROVE  Ink(s \o t) = Ink(s) \o Ink(t)
<1> DEFINE T == {r \in Text : Ink(s \o r) = Ink(s) \o Ink(r)}
<1>1. <<>> \in T
  <2>1. <<>> \in Text /\ s \o <<>> = s /\ \A r \in Text : r \o <<>> = r
    BY DEF Text
  <2> QED BY <2>1, InkLoop
<1>2. ASSUME NEW r \in Text, NEW g \in Glyphs, r \in T PROVE Append(r, g) \in T
  <2>1. Append(r, g) \in Text /\ s \o r \in Text /\ s \o Append(r, g) = Append(s \o r, g)
    BY ConcatAppend DEF Text
  <2>2. Ink(s) \in Text /\ Ink(r) \in Text
    BY InkLoop
  <2>3. Ink(s) \o Append(Ink(r), g) = Append(Ink(s) \o Ink(r), g)
    BY <2>2, ConcatAppend DEF Text
  <2>4. /\ Ink(s \o Append(r, g)) = IF g = "space" THEN Ink(s \o r) ELSE Append(Ink(s \o r), g)
        /\ Ink(Append(r, g)) = IF g = "space" THEN Ink(r) ELSE Append(Ink(r), g)
    BY <2>1, InkLoop
  <2>5. Ink(s \o r) = Ink(s) \o Ink(r)
    BY <1>2
  <2>6. Ink(s \o Append(r, g)) = Ink(s) \o Ink(Append(r, g))
    BY <2>3, <2>4, <2>5
  <2> QED BY <2>1, <2>6
<1> HIDE DEF T
<1>3. \A r \in Text : r \in T
  BY <1>1, <1>2, SequenceByElement DEF Text
<1> QED BY <1>3 DEF T

LEMMA FlattenConcat ==
  ASSUME NEW s \in Seq(Text), NEW t \in Seq(Text)
  PROVE  FlattenSeq(s \o t) = FlattenSeq(s) \o FlattenSeq(t)
<1> DEFINE T == {r \in Seq(Text) : FlattenSeq(s \o r) = FlattenSeq(s) \o FlattenSeq(r)}
<1>1. <<>> \in T
  <2>1. <<>> \in Seq(Text) /\ s \o <<>> = s
    OBVIOUS
  <2>2. \A r \in Text : r \o <<>> = r
    BY DEF Text
  <2> QED BY <2>1, <2>2, FlattenLoop
<1>2. ASSUME NEW r \in Seq(Text), NEW l \in Text, r \in T PROVE Append(r, l) \in T
  <2>1. /\ Append(r, l) \in Seq(Text) /\ s \o r \in Seq(Text)
        /\ s \o Append(r, l) = Append(s \o r, l)
    BY ConcatAppend
  <2>2. FlattenSeq(s) \in Text /\ FlattenSeq(r) \in Text
    BY FlattenLoop
  <2>3. (FlattenSeq(s) \o FlattenSeq(r)) \o l = FlattenSeq(s) \o (FlattenSeq(r) \o l)
    BY <2>2, TextConcat
  <2>4. /\ FlattenSeq(s \o Append(r, l)) = FlattenSeq(s \o r) \o l
        /\ FlattenSeq(Append(r, l)) = FlattenSeq(r) \o l
    BY <2>1, FlattenLoop
  <2> QED BY <1>2, <2>1, <2>3, <2>4
<1> HIDE DEF T
<1>3. \A r \in Seq(Text) : r \in T
  BY <1>1, <1>2, SequenceByElement
<1> QED BY <1>3 DEF T

(* The columns of a text are those of its glyphs.                          *)
LEMMA CountAppend ==
  ASSUME NEW s \in Text, NEW g \in Glyphs, NEW x
  PROVE  /\ Count(s, x) \in Nat
         /\ Count(Append(s, g), x) = Count(s, x) + IF g = x THEN 1 ELSE 0
<1> DEFINE I(r) == {i \in DOMAIN r : r[i] = x}
<1>1. /\ Len(s) \in Nat /\ DOMAIN s = 1 .. Len(s) /\ DOMAIN Append(s, g) = 1 .. Len(s) + 1
      /\ \A i \in 1 .. Len(s) + 1 : Append(s, g)[i] = IF i <= Len(s) THEN s[i] ELSE g
  <2>1. Append(s, g) \in Seq(Glyphs) /\ Len(Append(s, g)) = Len(s) + 1
    BY DEF Text
  <2> QED BY <2>1 DEF Text
<1>2. IsFiniteSet(I(s))
  <2>1. IsFiniteSet(1 .. Len(s)) /\ I(s) \subseteq 1 .. Len(s)
    BY <1>1, FS_Interval
  <2> QED BY <2>1, FS_Subset
<1>3. I(Append(s, g)) = IF g = x THEN I(s) \cup {Len(s) + 1} ELSE I(s)
  BY <1>1
<1>4. Len(s) + 1 \notin I(s)
  BY <1>1
<1>5. Cardinality(I(s)) \in Nat
  BY <1>2, FS_CardinalityType
<1>6. Cardinality(I(s) \cup {Len(s) + 1}) = Cardinality(I(s)) + 1
  BY <1>2, <1>4, FS_AddElement
<1>7. Count(s, x) = Cardinality(I(s)) /\ Count(Append(s, g), x) = Cardinality(I(Append(s, g)))
  BY DEF Count
<1> HIDE DEF I
<1> QED BY <1>3, <1>5, <1>6, <1>7

Columns(s) == Count(s, "narrow") + Count(s, "space") + 2 * Count(s, "wide")

(* displayWidth counts what LinesFit counts, glyph by glyph.               *)
LEMMA WidthIsColumns == \A s \in Text : DisplayWidth(s) = Columns(s)
<1> DEFINE T == {s \in Text : DisplayWidth(s) = Columns(s)}
<1>1. <<>> \in T
  <2>1. \A x : Count(<<>>, x) = 0
    <3>1. \A x : {i \in DOMAIN <<>> : <<>>[i] = x} = {}
      OBVIOUS
    <3> QED BY <3>1, FS_EmptySet DEF Count
  <2>2. <<>> \in Text
    BY DEF Text
  <2> QED BY <2>1, <2>2, DisplayWidthLoop DEF Columns
<1>2. ASSUME NEW s \in Text, NEW g \in Glyphs, s \in T PROVE Append(s, g) \in T
  <2>1. \A x : /\ Count(s, x) \in Nat
              /\ Count(Append(s, g), x) = Count(s, x) + IF g = x THEN 1 ELSE 0
    BY CountAppend
  <2>2. DisplayWidth(Append(s, g)) = Columns(s) + CharWidth(g)
    BY <1>2, DisplayWidthLoop
  <2>3. /\ g = "narrow" => CharWidth(g) = 1
        /\ g = "space" => CharWidth(g) = 1
        /\ g = "wide" => CharWidth(g) = 2
        /\ g = "mark" => CharWidth(g) = 0
    BY DEF CharWidth
  <2>4. Columns(Append(s, g)) = Columns(s) + CharWidth(g)
    <3>1. g \in {"narrow", "space", "wide", "mark"}
      BY DEF Glyphs
    <3> QED BY <2>1, <2>3, <3>1 DEF Columns
  <2>5. Append(s, g) \in Text
    BY DEF Text
  <2> QED BY <2>2, <2>4, <2>5
<1> HIDE DEF T
<1>3. \A s \in Text : s \in T
  BY <1>1, <1>2, SequenceByElement DEF Text
<1> QED BY <1>3 DEF T

-----------------------------------------------------------------------------
(* charWrap.                                                               *)
Cut == [out : Seq(Text), cur : Text, used : Nat]
NoCut == [out |-> <<>>, cur |-> <<>>, used |-> 0]

LEMMA PutGlyphType ==
  \A acc \in Cut, g \in Glyphs, width \in Nat : PutGlyph(acc, g, width) \in Cut
<1> SUFFICES ASSUME NEW acc \in Cut, NEW g \in Glyphs, NEW width \in Nat
             PROVE  PutGlyph(acc, g, width) \in Cut
  OBVIOUS
<1>1. CharWidth(g) \in Nat
  BY GlyphColumns
<1>2. acc.out \in Seq(Text) /\ acc.cur \in Text /\ acc.used \in Nat
  BY DEF Cut
<1>3. Append(acc.out, acc.cur) \in Seq(Text) /\ <<g>> \in Text /\ Append(acc.cur, g) \in Text
  BY <1>2 DEF Text
<1>4. acc.used + CharWidth(g) \in Nat
  BY <1>1, <1>2
<1>5. [out |-> Append(acc.out, acc.cur), cur |-> <<g>>, used |-> CharWidth(g)] \in Cut
  BY <1>1, <1>3 DEF Cut
<1>6. [acc EXCEPT !.cur = Append(@, g), !.used = @ + CharWidth(g)] \in Cut
  BY <1>3, <1>4 DEF Cut
<1> QED BY <1>5, <1>6 DEF PutGlyph

(* charWrap is its loop: PutGlyph for one glyph more.                      *)
LEMMA CharWrapLoop ==
  ASSUME NEW width \in Nat
  PROVE  \E F \in [Text -> Cut] :
           /\ F[<<>>] = NoCut
           /\ \A s \in Text, g \in Glyphs : F[Append(s, g)] = PutGlyph(F[s], g, width)
           /\ \A s \in Text : CharWrap(s, width) = Append(F[s].out, F[s].cur)
<1> DEFINE upTo(s) == CHOOSE f : f = [n \in 0 .. Len(s) |->
                        IF n = 0 THEN [out |-> <<>>, cur |-> <<>>, used |-> 0]
                        ELSE PutGlyph(f[n - 1], s[n], width)]
           step == [y \in Cut \X Glyphs |-> PutGlyph(y[1], y[2], width)]
<1>1. NoCut \in Cut
  BY DEF NoCut, Cut, Text
<1>2. step \in [Cut \X Glyphs -> Cut]
  BY PutGlyphType
<1>3. \A a \in Cut, g \in Glyphs : step[<<a, g>>] = PutGlyph(a, g, width)
  OBVIOUS
<1>4. \A s : CharWrap(s, width) = Append(upTo(s)[Len(s)].out, upTo(s)[Len(s)].cur)
  BY DEF CharWrap
<1> HIDE DEF step
<1>5. PICK F \in [Seq(Glyphs) -> Cut] : IsFold(F, Glyphs, Cut, NoCut, step)
  BY <1>1, <1>2, Folded
<1>6. ASSUME NEW s \in Text PROVE upTo(s)[Len(s)] = F[s]
  <2>0. Len(s) \in Nat /\ \A n \in 1 .. Len(s) : s[n] \in Glyphs
    BY DEF Text
  <2>1. PICK h \in [0 .. Len(s) -> Cut] :
          h[0] = NoCut /\ \A n \in 1 .. Len(s) : h[n] = step[<<h[n - 1], s[n]>>]
    BY <1>5 DEF IsFold, Text
  <2>2. \A n \in 0 .. Len(s) : n # 0 => n \in 1 .. Len(s) /\ n - 1 \in 0 .. Len(s)
    BY <2>0
  <2>3. h = [n \in 0 .. Len(s) |-> IF n = 0 THEN NoCut ELSE PutGlyph(h[n - 1], s[n], width)]
    BY <1>3, <2>0, <2>1, <2>2
  <2> DEFINE u == upTo(s)
  <2>4. u = [n \in 0 .. Len(s) |-> IF n = 0 THEN NoCut ELSE PutGlyph(u[n - 1], s[n], width)]
    BY <2>3 DEF NoCut
  <2> HIDE DEF u
  <2>5. RunsOver(u, s, NoCut, step, Cut)
    <3>1. u[0] = NoCut
      BY <2>0, <2>4
    <3>2. ASSUME NEW n \in 1 .. Len(s), u[n - 1] \in Cut
          PROVE  u[n] = step[<<u[n - 1], s[n]>>]
      <4>1. n \in 0 .. Len(s) /\ n # 0 /\ s[n] \in Glyphs
        BY <2>0
      <4>2. u[n] = PutGlyph(u[n - 1], s[n], width)
        BY <2>4, <4>1
      <4>3. step[<<u[n - 1], s[n]>>] = PutGlyph(u[n - 1], s[n], width)
        BY <1>3, <3>2, <4>1
      <4> QED BY <4>2, <4>3
    <3> QED BY <3>1, <3>2 DEF RunsOver
  <2> QED BY <1>5, <2>5 DEF u, IsFold, Text
<1> HIDE DEF upTo
<1>7. \A s \in Text : CharWrap(s, width) = Append(F[s].out, F[s].cur)
  BY <1>4, <1>6
<1>8. F[<<>>] = NoCut /\ \A s \in Text, g \in Glyphs : F[Append(s, g)] = step[<<F[s], g>>]
  BY <1>5 DEF IsFold, Text
<1>9. F \in [Text -> Cut]
  BY DEF Text
<1>10. ASSUME NEW s \in Text, NEW g \in Glyphs
       PROVE  F[Append(s, g)] = PutGlyph(F[s], g, width)
  <2>1. F[s] \in Cut
    BY <1>9
  <2>2. step[<<F[s], g>>] = PutGlyph(F[s], g, width)
    BY <1>3, <2>1
  <2> QED BY <1>8, <2>2
<1> QED BY <1>7, <1>8, <1>9, <1>10

-----------------------------------------------------------------------------
(* Splitting at the spaces.                                                *)
SomeWords == Seq(Text) \ {<<>>}

LEMMA PutInWordType ==
  \A ws \in SomeWords, g \in Glyphs :
    /\ Len(ws) \in 1 .. Len(ws) /\ ws[Len(ws)] \in Text
    /\ PutInWord(ws, g) \in SomeWords
<1> SUFFICES ASSUME NEW ws \in SomeWords, NEW g \in Glyphs
             PROVE  /\ Len(ws) \in 1 .. Len(ws) /\ ws[Len(ws)] \in Text
                    /\ PutInWord(ws, g) \in SomeWords
  OBVIOUS
<1>1. ws \in Seq(Text) /\ Len(ws) \in Nat /\ Len(ws) # 0
  BY EmptySeq DEF SomeWords
<1>2. Len(ws) \in 1 .. Len(ws)
  BY <1>1
<1>3. ws[Len(ws)] \in Text
  BY <1>1, <1>2
<1>4. Append(ws[Len(ws)], g) \in Text /\ <<>> \in Text
  BY <1>3 DEF Text
<1>5. Append(ws, <<>>) \in Seq(Text) /\ Append(ws, <<>>) # <<>>
  BY <1>1, <1>4, AppendProperties
<1>6. /\ [ws EXCEPT ![Len(ws)] = Append(ws[Len(ws)], g)] \in Seq(Text)
      /\ Len([ws EXCEPT ![Len(ws)] = Append(ws[Len(ws)], g)]) = Len(ws)
  BY <1>1, <1>2, <1>4, ExceptSeq
<1>7. PutInWord(ws, g) \in Seq(Text) /\ PutInWord(ws, g) # <<>>
  <2>1. Len(<<>>) = 0
    BY EmptySeq
  <2> QED BY <1>1, <1>5, <1>6, <2>1 DEF PutInWord
<1> QED BY <1>2, <1>3, <1>7 DEF SomeWords

(* Splitting is its loop: PutInWord for one glyph more.                    *)
LEMMA WordsLoop ==
  /\ Words(<<>>) = <<<<>>>>
  /\ \A s \in Text : Words(s) \in SomeWords
  /\ \A s \in Text, g \in Glyphs : Words(Append(s, g)) = PutInWord(Words(s), g)
<1> DEFINE upTo(s) == CHOOSE f : f = [n \in 0 .. Len(s) |->
                        IF n = 0 THEN <<<<>>>> ELSE PutInWord(f[n - 1], s[n])]
           step == [y \in SomeWords \X Glyphs |-> PutInWord(y[1], y[2])]
<1>1. <<<<>>>> \in SomeWords
  BY DEF SomeWords, Text
<1>2. step \in [SomeWords \X Glyphs -> SomeWords]
  BY PutInWordType
<1>3. \A a \in SomeWords, g \in Glyphs : step[<<a, g>>] = PutInWord(a, g)
  OBVIOUS
<1>4. \A s : Words(s) = upTo(s)[Len(s)]
  BY DEF Words
<1> HIDE DEF step
<1>5. PICK F \in [Seq(Glyphs) -> SomeWords] : IsFold(F, Glyphs, SomeWords, <<<<>>>>, step)
  BY <1>1, <1>2, Folded
<1>6. ASSUME NEW s \in Text PROVE upTo(s)[Len(s)] = F[s]
  <2>0. Len(s) \in Nat /\ \A n \in 1 .. Len(s) : s[n] \in Glyphs
    BY DEF Text
  <2>1. PICK h \in [0 .. Len(s) -> SomeWords] :
          h[0] = <<<<>>>> /\ \A n \in 1 .. Len(s) : h[n] = step[<<h[n - 1], s[n]>>]
    BY <1>5 DEF IsFold, Text
  <2>2. \A n \in 0 .. Len(s) : n # 0 => n \in 1 .. Len(s) /\ n - 1 \in 0 .. Len(s)
    BY <2>0
  <2>3. h = [n \in 0 .. Len(s) |-> IF n = 0 THEN <<<<>>>> ELSE PutInWord(h[n - 1], s[n])]
    BY <1>3, <2>0, <2>1, <2>2
  <2> DEFINE u == upTo(s)
  <2>4. u = [n \in 0 .. Len(s) |-> IF n = 0 THEN <<<<>>>> ELSE PutInWord(u[n - 1], s[n])]
    BY <2>3
  <2> HIDE DEF u
  <2>5. RunsOver(u, s, <<<<>>>>, step, SomeWords)
    <3>1. u[0] = <<<<>>>>
      BY <2>0, <2>4
    <3>2. ASSUME NEW n \in 1 .. Len(s), u[n - 1] \in SomeWords
          PROVE  u[n] = step[<<u[n - 1], s[n]>>]
      <4>1. n \in 0 .. Len(s) /\ n # 0 /\ s[n] \in Glyphs
        BY <2>0
      <4>2. u[n] = PutInWord(u[n - 1], s[n])
        BY <2>4, <4>1
      <4>3. step[<<u[n - 1], s[n]>>] = PutInWord(u[n - 1], s[n])
        BY <1>3, <3>2, <4>1
      <4> QED BY <4>2, <4>3
    <3> QED BY <3>1, <3>2 DEF RunsOver
  <2> QED BY <1>5, <2>5 DEF u, IsFold, Text
<1> HIDE DEF upTo
<1>7. \A s \in Text : Words(s) = F[s]
  BY <1>4, <1>6
<1>8. F[<<>>] = <<<<>>>> /\ \A s \in Text, g \in Glyphs : F[Append(s, g)] = step[<<F[s], g>>]
  BY <1>5 DEF IsFold, Text
<1>9. F \in [Text -> SomeWords]
  BY DEF Text
<1>10. ASSUME NEW s \in Text, NEW g \in Glyphs
       PROVE  F[Append(s, g)] = PutInWord(F[s], g)
  <2>1. F[s] \in SomeWords
    BY <1>9
  <2>2. step[<<F[s], g>>] = PutInWord(F[s], g)
    BY <1>3, <2>1
  <2> QED BY <1>8, <2>2
<1>11. <<>> \in Text /\ \A s \in Text, g \in Glyphs : Append(s, g) \in Text
  BY DEF Text
<1> QED BY <1>7, <1>8, <1>9, <1>10, <1>11

-----------------------------------------------------------------------------
(* Putting words on lines.                                                 *)
Rows == [lines : Seq(Text), cur : Text]
NoRow == [lines |-> <<>>, cur |-> <<>>]

(* A sequence that is not empty: all but its last element, and that.       *)
LEMMA FrontThenLast ==
  ASSUME NEW X, NEW s \in Seq(X), s # <<>>
  PROVE  Front(s) \in Seq(X) /\ Last(s) \in X /\ s = Append(Front(s), Last(s))
<1>1. Len(s) \in Nat /\ Len(s) # 0
  BY EmptySeq
<1>2. Len(s) \in 1 .. Len(s)
  BY <1>1
<1>3. /\ SubSeq(s, 1, Len(s) - 1) \in Seq(X) /\ s[Len(s)] \in X
      /\ SubSeq(s, 1, Len(s)) = Append(SubSeq(s, 1, Len(s) - 1), s[Len(s)])
  BY <1>2, Shorter
<1>4. SubSeq(s, 1, Len(s)) = s
  BY SubSeqFull
<1> QED BY <1>3, <1>4 DEF Front, Last

LEMMA CharWrapType ==
  \A w \in Text, width \in Nat : CharWrap(w, width) \in SomeWords
<1> SUFFICES ASSUME NEW w \in Text, NEW width \in Nat PROVE CharWrap(w, width) \in SomeWords
  OBVIOUS
<1>1. PICK F \in [Text -> Cut] : \A s \in Text : CharWrap(s, width) = Append(F[s].out, F[s].cur)
  BY CharWrapLoop
<1>2. F[w].out \in Seq(Text) /\ F[w].cur \in Text
  BY DEF Cut
<1>3. Append(F[w].out, F[w].cur) \in Seq(Text) /\ Append(F[w].out, F[w].cur) # <<>>
  BY <1>2, AppendProperties
<1> QED BY <1>1, <1>3 DEF SomeWords

(* What WrapWord does: the three cases, on all the lines so far.           *)
Rowed(acc) == Append(acc.lines, acc.cur)
Before(acc) == IF acc.cur = <<>> THEN acc.lines ELSE Rowed(acc)
OneRow(acc, w) == IF acc.cur = <<>> THEN w ELSE (acc.cur \o <<"space">>) \o w

LEMMA WrapWordIs ==
  ASSUME NEW acc \in Rows, NEW w \in Text, NEW width \in Nat
  PROVE  /\ WrapWord(acc, w, width) \in Rows
         /\ Rowed(acc) \in Seq(Text) /\ Before(acc) \in Seq(Text) /\ OneRow(acc, w) \in Text
         /\ \/ /\ DisplayWidth(w) > width
               /\ Rowed(WrapWord(acc, w, width)) = Before(acc) \o CharWrap(w, width)
            \/ /\ DisplayWidth(w) <= width
               /\ Rowed(WrapWord(acc, w, width)) = Append(Rowed(acc), w)
            \/ /\ DisplayWidth(OneRow(acc, w)) <= width
               /\ Rowed(WrapWord(acc, w, width)) = Append(acc.lines, OneRow(acc, w))
<1> DEFINE segs == CharWrap(w, width)
           r == WrapWord(acc, w, width)
<1>1. acc.lines \in Seq(Text) /\ acc.cur \in Text
  BY DEF Rows
<1>2. Rowed(acc) \in Seq(Text) /\ Before(acc) \in Seq(Text)
  BY <1>1, AppendProperties DEF Rowed, Before
<1>3. OneRow(acc, w) \in Text
  <2>1. <<"space">> \in Text
    BY DEF Text, Glyphs
  <2>2. acc.cur \o <<"space">> \in Text
    BY <1>1, <2>1, ConcatProperties DEF Text
  <2>3. (acc.cur \o <<"space">>) \o w \in Text
    BY <2>2, ConcatProperties DEF Text
  <2> QED BY <2>3 DEF OneRow
<1>4. segs \in Seq(Text) /\ segs # <<>>
  BY CharWrapType DEF SomeWords
<1>5. Front(segs) \in Seq(Text) /\ Last(segs) \in Text /\ segs = Append(Front(segs), Last(segs))
  BY <1>4, FrontThenLast
<1>6. DisplayWidth(w) \in Nat /\ DisplayWidth(OneRow(acc, w)) \in Nat
  BY <1>3, DisplayWidthLoop
<1>7. CASE DisplayWidth(w) > width
  <2>1. r = [lines |-> Before(acc) \o Front(segs), cur |-> Last(segs)]
    BY <1>6, <1>7 DEF WrapWord, Before, Rowed, OneRow
  <2> HIDE DEF segs, r
  <2>2. Before(acc) \o Front(segs) \in Seq(Text)
    BY <1>2, <1>5, ConcatProperties
  <2>3. Before(acc) \o segs = Append(Before(acc) \o Front(segs), Last(segs))
    BY <1>2, <1>5, ConcatAppend
  <2>4. r \in Rows /\ r.lines = Before(acc) \o Front(segs) /\ r.cur = Last(segs)
    BY <1>5, <2>1, <2>2 DEF Rows
  <2>5. Rowed(r) = Before(acc) \o segs
    BY <2>3, <2>4 DEF Rowed
  <2> QED BY <1>2, <1>3, <1>7, <2>4, <2>5 DEF segs, r
<1>8. CASE DisplayWidth(w) <= width /\ DisplayWidth(OneRow(acc, w)) > width
  <2>1. ~(DisplayWidth(w) > width)
    BY <1>6, <1>8
  <2>2. r = [lines |-> Rowed(acc), cur |-> w]
    BY <1>8, <2>1 DEF WrapWord, Before, Rowed, OneRow
  <2> HIDE DEF segs, r
  <2>4. r \in Rows /\ r.lines = Rowed(acc) /\ r.cur = w
    BY <1>2, <2>2 DEF Rows
  <2>5. Rowed(r) = Append(Rowed(acc), w)
    BY <2>4 DEF Rowed
  <2> QED BY <1>2, <1>3, <1>8, <2>4, <2>5 DEF r
<1>9. CASE DisplayWidth(w) <= width /\ DisplayWidth(OneRow(acc, w)) <= width
  <2>1. ~(DisplayWidth(w) > width) /\ ~(DisplayWidth(OneRow(acc, w)) > width)
    BY <1>6, <1>9
  <2>2. r = [acc EXCEPT !.cur = OneRow(acc, w)]
    BY <2>1 DEF WrapWord, Before, Rowed, OneRow
  <2> HIDE DEF segs, r
  <2>4. r \in Rows /\ r.lines = acc.lines /\ r.cur = OneRow(acc, w)
    BY <1>3, <2>2 DEF Rows
  <2>5. Rowed(r) = Append(acc.lines, OneRow(acc, w))
    BY <2>4 DEF Rowed
  <2> QED BY <1>2, <1>3, <1>9, <2>4, <2>5 DEF r
<1>10. \/ DisplayWidth(w) > width
       \/ DisplayWidth(w) <= width /\ DisplayWidth(OneRow(acc, w)) > width
       \/ DisplayWidth(w) <= width /\ DisplayWidth(OneRow(acc, w)) <= width
  BY <1>6
<1> QED BY <1>7, <1>8, <1>9, <1>10

(* wordWrap is its loop: WrapWord for one word more.                       *)
LEMMA WordWrapLoop ==
  ASSUME NEW width \in Nat
  PROVE  \E F \in [Seq(Text) -> Rows] :
           /\ F[<<>>] = NoRow
           /\ \A ws \in Seq(Text), w \in Text : F[Append(ws, w)] = WrapWord(F[ws], w, width)
           /\ \A t \in Text :
                LET end == F[Words(t)]
                    lines == IF end.cur = <<>> THEN end.lines ELSE Append(end.lines, end.cur)
                IN  WordWrap(t, width) = IF lines = <<>> THEN <<<<>>>> ELSE lines
<1> DEFINE upTo(s) == CHOOSE f : f = [n \in 0 .. Len(s) |->
                        IF n = 0 THEN [lines |-> <<>>, cur |-> <<>>]
                        ELSE WrapWord(f[n - 1], s[n], width)]
           step == [y \in Rows \X Text |-> WrapWord(y[1], y[2], width)]
           made(end) ==
             LET lines == IF end.cur = <<>> THEN end.lines ELSE Append(end.lines, end.cur)
             IN  IF lines = <<>> THEN <<<<>>>> ELSE lines
<1>1. NoRow \in Rows
  BY DEF NoRow, Rows, Text
<1>2. step \in [Rows \X Text -> Rows]
  BY WrapWordIs
<1>3. \A a \in Rows, w \in Text : step[<<a, w>>] = WrapWord(a, w, width)
  OBVIOUS
<1>4. \A t : WordWrap(t, width) = made(upTo(Words(t))[Len(Words(t))])
  BY DEF WordWrap
<1> HIDE DEF step
<1>5. PICK F \in [Seq(Text) -> Rows] : IsFold(F, Text, Rows, NoRow, step)
  BY <1>1, <1>2, Folded
<1>6. ASSUME NEW s \in Seq(Text) PROVE upTo(s)[Len(s)] = F[s]
  <2>0. Len(s) \in Nat /\ \A n \in 1 .. Len(s) : s[n] \in Text
    OBVIOUS
  <2>1. PICK h \in [0 .. Len(s) -> Rows] :
          h[0] = NoRow /\ \A n \in 1 .. Len(s) : h[n] = step[<<h[n - 1], s[n]>>]
    BY <1>5 DEF IsFold
  <2>2. \A n \in 0 .. Len(s) : n # 0 => n \in 1 .. Len(s) /\ n - 1 \in 0 .. Len(s)
    BY <2>0
  <2>3. h = [n \in 0 .. Len(s) |-> IF n = 0 THEN NoRow ELSE WrapWord(h[n - 1], s[n], width)]
    BY <1>3, <2>0, <2>1, <2>2
  <2> DEFINE u == upTo(s)
  <2>4. u = [n \in 0 .. Len(s) |-> IF n = 0 THEN NoRow ELSE WrapWord(u[n - 1], s[n], width)]
    BY <2>3 DEF NoRow
  <2> HIDE DEF u
  <2>5. RunsOver(u, s, NoRow, step, Rows)
    <3>1. u[0] = NoRow
      BY <2>0, <2>4
    <3>2. ASSUME NEW n \in 1 .. Len(s), u[n - 1] \in Rows
          PROVE  u[n] = step[<<u[n - 1], s[n]>>]
      <4>1. n \in 0 .. Len(s) /\ n # 0 /\ s[n] \in Text
        BY <2>0
      <4>2. u[n] = WrapWord(u[n - 1], s[n], width)
        BY <2>4, <4>1
      <4>3. step[<<u[n - 1], s[n]>>] = WrapWord(u[n - 1], s[n], width)
        BY <1>3, <3>2, <4>1
      <4> QED BY <4>2, <4>3
    <3> QED BY <3>1, <3>2 DEF RunsOver
  <2> QED BY <1>5, <2>5 DEF u, IsFold
<1> HIDE DEF upTo
<1>7. \A t \in Text : WordWrap(t, width) = made(F[Words(t)])
  <2>1. \A t \in Text : Words(t) \in Seq(Text)
    BY WordsLoop DEF SomeWords
  <2> HIDE DEF made
  <2> QED BY <1>4, <1>6, <2>1
<1>8. F[<<>>] = NoRow /\ \A s \in Seq(Text), w \in Text : F[Append(s, w)] = step[<<F[s], w>>]
  BY <1>5 DEF IsFold
<1>10. ASSUME NEW s \in Seq(Text), NEW w \in Text
       PROVE  F[Append(s, w)] = WrapWord(F[s], w, width)
  <2>1. F[s] \in Rows
    OBVIOUS
  <2>2. step[<<F[s], w>>] = WrapWord(F[s], w, width)
    BY <1>3, <2>1
  <2> QED BY <1>8, <2>2
<1> QED BY <1>7, <1>8, <1>10

-----------------------------------------------------------------------------
(* How many of some lines begin with a mark.                               *)
MarkedIn(ls) == {i \in DOMAIN ls : Marked(ls[i])}
Starts(l) == IF Marked(l) THEN 1 ELSE 0

LEMMA MarkedFinite ==
  ASSUME NEW ls \in Seq(Text)
  PROVE  IsFiniteSet(MarkedIn(ls)) /\ Cardinality(MarkedIn(ls)) \in Nat
<1>1. IsFiniteSet(1 .. Len(ls)) /\ MarkedIn(ls) \subseteq 1 .. Len(ls)
  BY FS_Interval DEF MarkedIn
<1> QED BY <1>1, FS_Subset, FS_CardinalityType

(* A line more counts if it begins with a mark.                            *)
LEMMA MarkedAppend ==
  ASSUME NEW ls \in Seq(Text), NEW l \in Text
  PROVE  Cardinality(MarkedIn(Append(ls, l))) = Cardinality(MarkedIn(ls)) + Starts(l)
<1>1. /\ Len(ls) \in Nat /\ DOMAIN ls = 1 .. Len(ls) /\ DOMAIN Append(ls, l) = 1 .. Len(ls) + 1
      /\ \A i \in 1 .. Len(ls) + 1 : Append(ls, l)[i] = IF i <= Len(ls) THEN ls[i] ELSE l
  <2>1. Append(ls, l) \in Seq(Text) /\ Len(Append(ls, l)) = Len(ls) + 1
    OBVIOUS
  <2> QED BY <2>1
<1>2. MarkedIn(Append(ls, l)) =
        IF Marked(l) THEN MarkedIn(ls) \cup {Len(ls) + 1} ELSE MarkedIn(ls)
  BY <1>1 DEF MarkedIn
<1>3. Len(ls) + 1 \notin MarkedIn(ls)
  BY <1>1 DEF MarkedIn
<1>4. Cardinality(MarkedIn(ls) \cup {Len(ls) + 1}) = Cardinality(MarkedIn(ls)) + 1
  BY <1>3, MarkedFinite, FS_AddElement
<1> QED BY <1>2, <1>4, MarkedFinite DEF Starts

(* Of lines added together only the first may begin with a mark.           *)
LEMMA MarkedConcat ==
  ASSUME NEW ls \in Seq(Text), NEW ms \in Seq(Text), ms # <<>>, NEW w,
         Marked(ms[1]) => Marked(w),
         \A i \in DOMAIN ms : i # 1 => ~Marked(ms[i])
  PROVE  Cardinality(MarkedIn(ls \o ms)) <= Cardinality(MarkedIn(ls)) + Starts(w)
<1> DEFINE n == Len(ls)
           more == IF Marked(w) THEN MarkedIn(ls) \cup {n + 1} ELSE MarkedIn(ls)
<1>1. /\ n \in Nat /\ Len(ms) \in Nat /\ ls \o ms \in Seq(Text) /\ Len(ls \o ms) = n + Len(ms)
      /\ \A i \in 1 .. n + Len(ms) : (ls \o ms)[i] = IF i <= n THEN ls[i] ELSE ms[i - n]
      /\ DOMAIN ls = 1 .. n /\ DOMAIN ms = 1 .. Len(ms)
      /\ DOMAIN (ls \o ms) = 1 .. n + Len(ms)
  BY ConcatProperties
<1>2. MarkedIn(ls \o ms) \subseteq more
  <2>1. ASSUME NEW i \in 1 .. n + Len(ms), Marked((ls \o ms)[i]) PROVE i \in more
    <3>1. CASE i <= n
      BY <1>1, <2>1, <3>1 DEF MarkedIn
    <3>2. CASE i > n
      <4>1. i - n \in DOMAIN ms /\ Marked(ms[i - n])
        BY <1>1, <2>1, <3>2
      <4>2. i - n = 1
        BY <4>1
      <4>3. i = n + 1 /\ Marked(ms[1])
        BY <1>1, <4>1, <4>2
      <4> QED BY <4>3
    <3> QED BY <1>1, <3>1, <3>2
  <2> QED BY <1>1, <2>1 DEF MarkedIn
<1>3. n + 1 \notin MarkedIn(ls)
  BY <1>1 DEF MarkedIn
<1>4. IsFiniteSet(more) /\ Cardinality(more) = Cardinality(MarkedIn(ls)) + Starts(w)
  <2>1. /\ IsFiniteSet(MarkedIn(ls) \cup {n + 1})
        /\ Cardinality(MarkedIn(ls) \cup {n + 1}) = Cardinality(MarkedIn(ls)) + 1
    BY <1>3, MarkedFinite, FS_AddElement
  <2> QED BY <2>1, MarkedFinite DEF Starts
<1> HIDE DEF more
<1> QED BY <1>2, <1>4, FS_Subset

(* One glyph more does not change how a text that is not empty begins.     *)
LEMMA MarkedLonger ==
  ASSUME NEW s \in Text, NEW g \in Glyphs
  PROVE  Marked(Append(s, g)) <=> IF s = <<>> THEN g = "mark" ELSE Marked(s)
<1>1. /\ Append(s, g) \in Text /\ Append(s, g) # <<>> /\ Len(s) \in Nat
      /\ \A i \in 1 .. Len(s) + 1 : Append(s, g)[i] = IF i <= Len(s) THEN s[i] ELSE g
  BY AppendProperties DEF Text
<1>2. s = <<>> <=> Len(s) = 0
  BY EmptySeq DEF Text
<1>3. Append(s, g)[1] = IF s = <<>> THEN g ELSE s[1]
  BY <1>1, <1>2
<1> QED BY <1>1, <1>3 DEF Marked

LEMMA MarkedJoined ==
  ASSUME NEW s \in Text, s # <<>>, NEW t \in Text
  PROVE  s \o t # <<>> /\ (Marked(s \o t) <=> Marked(s))
<1>1. Len(s) \in Nat /\ Len(s) # 0 /\ Len(t) \in Nat
  BY EmptySeq DEF Text
<1>2. s \o t \in Text /\ Len(s \o t) = Len(s) + Len(t)
      /\ \A i \in 1 .. Len(s) + Len(t) : (s \o t)[i] = IF i <= Len(s) THEN s[i] ELSE t[i - Len(s)]
  BY ConcatProperties DEF Text
<1>3. (s \o t)[1] = s[1]
  BY <1>1, <1>2
<1>4. s \o t # <<>>
  <2>1. Len(<<>>) = 0
    BY EmptySeq
  <2> QED BY <1>1, <1>2, <2>1
<1> QED BY <1>3, <1>4 DEF Marked

(* The lines fit.                                                          *)
Fits(ls, width) == \A i \in DOMAIN ls : DisplayWidth(ls[i]) <= width

LEMMA FitsAppend ==
  ASSUME NEW ls \in Seq(Text), NEW l \in Text, NEW width
  PROVE  Fits(Append(ls, l), width) <=> Fits(ls, width) /\ DisplayWidth(l) <= width
<1>1. /\ Len(ls) \in Nat /\ DOMAIN ls = 1 .. Len(ls) /\ DOMAIN Append(ls, l) = 1 .. Len(ls) + 1
      /\ \A i \in 1 .. Len(ls) + 1 : Append(ls, l)[i] = IF i <= Len(ls) THEN ls[i] ELSE l
  <2>1. Append(ls, l) \in Seq(Text) /\ Len(Append(ls, l)) = Len(ls) + 1
    OBVIOUS
  <2> QED BY <2>1
<1>2. ASSUME Fits(Append(ls, l), width) PROVE Fits(ls, width) /\ DisplayWidth(l) <= width
  <2>1. \A i \in 1 .. Len(ls) : i \in 1 .. Len(ls) + 1 /\ Append(ls, l)[i] = ls[i]
    BY <1>1
  <2>2. Len(ls) + 1 \in 1 .. Len(ls) + 1 /\ Append(ls, l)[Len(ls) + 1] = l
    BY <1>1
  <2> QED BY <1>1, <1>2, <2>1, <2>2 DEF Fits
<1>3. ASSUME Fits(ls, width), DisplayWidth(l) <= width PROVE Fits(Append(ls, l), width)
  BY <1>1, <1>3 DEF Fits
<1> QED BY <1>2, <1>3

LEMMA FitsConcat ==
  ASSUME NEW ls \in Seq(Text), NEW ms \in Seq(Text), NEW width,
         Fits(ls, width), Fits(ms, width)
  PROVE  Fits(ls \o ms, width)
<1>1. /\ Len(ls) \in Nat /\ Len(ms) \in Nat /\ DOMAIN (ls \o ms) = 1 .. Len(ls) + Len(ms)
      /\ DOMAIN ls = 1 .. Len(ls) /\ DOMAIN ms = 1 .. Len(ms)
      /\ \A i \in 1 .. Len(ls) + Len(ms) :
           (ls \o ms)[i] = IF i <= Len(ls) THEN ls[i] ELSE ms[i - Len(ls)]
  <2>1. ls \o ms \in Seq(Text) /\ Len(ls \o ms) = Len(ls) + Len(ms)
    BY ConcatProperties
  <2> QED BY <2>1, ConcatProperties
<1>2. ASSUME NEW i \in 1 .. Len(ls) + Len(ms) PROVE DisplayWidth((ls \o ms)[i]) <= width
  <2>1. CASE i <= Len(ls)
    <3>1. i \in DOMAIN ls /\ (ls \o ms)[i] = ls[i]
      BY <1>1, <2>1
    <3> QED BY <3>1 DEF Fits
  <2>2. CASE ~(i <= Len(ls))
    <3>1. i - Len(ls) \in DOMAIN ms /\ (ls \o ms)[i] = ms[i - Len(ls)]
      BY <1>1, <2>2
    <3> QED BY <3>1 DEF Fits
  <2> QED BY <2>1, <2>2
<1> QED BY <1>1, <1>2 DEF Fits

-----------------------------------------------------------------------------
(* A word is cut into chunks that fit, hold its glyphs in order, and begin *)
(* with a mark only where the word does.                                   *)
CutInto(ls, s, width) ==
  /\ Fits(ls, width)
  /\ FlattenSeq(ls) = s
  /\ Marked(ls[1]) => Marked(s)
  /\ \A i \in DOMAIN ls : i # 1 => ~Marked(ls[i])

LEMMA GlyphAlone == \A g \in Glyphs : /\ <<g>> \in Text /\ DisplayWidth(<<g>>) = CharWidth(g)
                                      /\ Marked(<<g>>) <=> g = "mark"
<1> SUFFICES ASSUME NEW g \in Glyphs
             PROVE  /\ <<g>> \in Text /\ DisplayWidth(<<g>>) = CharWidth(g)
                    /\ Marked(<<g>>) <=> g = "mark"
  OBVIOUS
<1>1. <<>> \in Text /\ Append(<<>>, g) = <<g>> /\ <<g>> \in Text
  BY DEF Text
<1>2. DisplayWidth(<<g>>) = 0 + CharWidth(g)
  BY <1>1, DisplayWidthLoop
<1>3. CharWidth(g) \in Nat
  BY GlyphColumns
<1>4. <<g>> # <<>> /\ <<g>>[1] = g
  OBVIOUS
<1> QED BY <1>1, <1>2, <1>3, <1>4 DEF Marked

(* charWrap cuts a word so, by induction over its glyphs.                  *)
LEMMA WordIsCut ==
  ASSUME NEW width \in Nat \ {0, 1}, NEW w \in Text
  PROVE  CutInto(CharWrap(w, width), w, width)
<1>1. PICK F \in [Text -> Cut] :
        /\ F[<<>>] = NoCut
        /\ \A s \in Text, g \in Glyphs : F[Append(s, g)] = PutGlyph(F[s], g, width)
        /\ \A s \in Text : CharWrap(s, width) = Append(F[s].out, F[s].cur)
  BY CharWrapLoop
<1> DEFINE all(c) == Append(c.out, c.cur)
           Good(c, s) == /\ CutInto(all(c), s, width)
                         /\ c.used = DisplayWidth(c.cur) /\ c.used <= width
                         /\ c.cur = <<>> => s = <<>> /\ c.out = <<>>
                         /\ s = <<>> => c.cur = <<>>
           T == {s \in Text : Good(F[s], s)}
<1>2. <<>> \in T
  <2>1. <<>> \in Text /\ <<>> \in Seq(Text)
    BY DEF Text
  <2>2. FlattenSeq(Append(<<>>, <<>>)) = <<>>
    <3>1. FlattenSeq(Append(<<>>, <<>>)) = FlattenSeq(<<>>) \o <<>>
      BY <2>1, FlattenLoop
    <3> QED BY <2>1, <3>1, FlattenLoop, ConcatEmptySeq
  <2>3. Append(<<>>, <<>>) = <<<<>>>>
    OBVIOUS
  <2>4. DOMAIN <<<<>>>> = {1} /\ <<<<>>>>[1] = <<>>
    OBVIOUS
  <2>5. CutInto(<<<<>>>>, <<>>, width)
    BY <2>2, <2>3, <2>4, DisplayWidthLoop DEF CutInto, Fits, Marked
  <2>6. NoCut.out = <<>> /\ NoCut.cur = <<>> /\ NoCut.used = 0
    BY DEF NoCut
  <2>7. all(NoCut) = <<<<>>>>
    BY <2>6
  <2>8. Good(NoCut, <<>>)
    <3> HIDE DEF all
    <3> QED BY <2>5, <2>6, <2>7, DisplayWidthLoop
  <2> HIDE DEF Good
  <2> QED BY <1>1, <2>1, <2>8
<1>3. ASSUME NEW s \in Text, NEW g \in Glyphs, s \in T PROVE Append(s, g) \in T
  <2> DEFINE c == F[s]
             d == F[Append(s, g)]
             n == Len(c.out)
  <2>1. d = PutGlyph(c, g, width) /\ c \in Cut /\ Append(s, g) \in Text /\ Append(s, g) # <<>>
    BY <1>1, AppendProperties DEF Text
  <2>2. Good(c, s)
    BY <1>3
  <2> HIDE DEF T, c, d
  <2>3. c.out \in Seq(Text) /\ c.cur \in Text /\ c.used \in Nat
    BY <2>1 DEF Cut
  <2>4. all(c) \in Seq(Text) /\ all(c) # <<>>
    BY <2>3, AppendProperties
  <2>5. CharWidth(g) \in 0 .. 2 /\ (CharWidth(g) = 0 <=> g = "mark")
    BY GlyphColumns
  <2>6. /\ Fits(all(c), width) /\ FlattenSeq(all(c)) = s
        /\ Marked(all(c)[1]) => Marked(s)
        /\ \A i \in DOMAIN all(c) : i # 1 => ~Marked(all(c)[i])
    BY <2>2 DEF CutInto
  <2>7. CASE c.cur # <<>> /\ c.used + CharWidth(g) > width
    <3>1. d = [out |-> all(c), cur |-> <<g>>, used |-> CharWidth(g)]
      BY <2>1, <2>7 DEF PutGlyph
    <3>2. d.out = all(c) /\ d.cur = <<g>> /\ d.used = CharWidth(g)
      BY <3>1
    <3> HIDE DEF all
    <3>3. <<g>> \in Text /\ DisplayWidth(<<g>>) = CharWidth(g) /\ (Marked(<<g>>) <=> g = "mark")
      BY GlyphAlone
    <3>4. g # "mark" /\ CharWidth(g) <= width
      BY <2>2, <2>3, <2>5, <2>7
    <3>5. Fits(Append(all(c), <<g>>), width)
      BY <2>4, <2>6, <3>3, <3>4, FitsAppend
    <3>6. FlattenSeq(Append(all(c), <<g>>)) = Append(s, g)
      <4>1. FlattenSeq(Append(all(c), <<g>>)) = s \o <<g>>
        BY <2>4, <2>6, <3>3, FlattenLoop
      <4>2. s \o <<g>> = Append(s, g)
        BY AppendIsConcat DEF Text
      <4> QED BY <4>1, <4>2
    <3>7. /\ Append(all(c), <<g>>)[1] = all(c)[1]
          /\ \A i \in DOMAIN Append(all(c), <<g>>) :
               \/ i \in DOMAIN all(c) /\ Append(all(c), <<g>>)[i] = all(c)[i]
               \/ Append(all(c), <<g>>)[i] = <<g>>
      <4>1. Len(all(c)) \in Nat /\ Len(all(c)) # 0 /\ DOMAIN all(c) = 1 .. Len(all(c))
        BY <2>4, EmptySeq
      <4>2. /\ DOMAIN Append(all(c), <<g>>) = 1 .. Len(all(c)) + 1
            /\ \A i \in 1 .. Len(all(c)) + 1 :
                 Append(all(c), <<g>>)[i] = IF i <= Len(all(c)) THEN all(c)[i] ELSE <<g>>
        BY <2>4, <3>3, AppendProperties
      <4> QED BY <4>1, <4>2
    <3>8. s # <<>>
      BY <2>2, <2>7
    <3>9. Marked(s) => Marked(Append(s, g))
      BY <3>8, MarkedLonger
    <3>10. CutInto(Append(all(c), <<g>>), Append(s, g), width)
      BY <2>6, <3>3, <3>4, <3>5, <3>6, <3>7, <3>9 DEF CutInto
    <3>11. all(d) = Append(all(c), <<g>>)
      BY <3>2 DEF all
    <3>12. Good(d, Append(s, g))
      BY <2>1, <3>2, <3>3, <3>4, <3>10, <3>11
    <3> QED BY <2>1, <3>12 DEF T, d
  <2>8. CASE ~(c.cur # <<>> /\ c.used + CharWidth(g) > width)
    <3> DEFINE cur == Append(c.cur, g)
    <3>1. d = [c EXCEPT !.cur = cur, !.used = c.used + CharWidth(g)]
      BY <2>1, <2>8 DEF PutGlyph
    <3>2. d.out = c.out /\ d.cur = cur /\ d.used = c.used + CharWidth(g)
      BY <2>1, <3>1 DEF Cut
    <3>3. cur \in Text /\ cur # <<>> /\ DisplayWidth(cur) = DisplayWidth(c.cur) + CharWidth(g)
      <4>1. cur \in Text /\ cur # <<>>
        <5>1. \A k \in Text : Append(k, g) \in Text /\ Append(k, g) # <<>>
          BY AppendProperties DEF Text
        <5> QED BY <2>3, <5>1
      <4>2. DisplayWidth(cur) = DisplayWidth(c.cur) + CharWidth(g)
        BY <2>3, DisplayWidthLoop
      <4> QED BY <4>1, <4>2
    <3>4. Marked(cur) <=> IF c.cur = <<>> THEN g = "mark" ELSE Marked(c.cur)
      BY <2>3, MarkedLonger
    <3> HIDE DEF cur
    <3>5. DisplayWidth(cur) = d.used /\ d.used <= width
      <4>1. CASE c.cur = <<>>
        BY <2>2, <2>5, <3>2, <3>3, <4>1, DisplayWidthLoop
      <4>2. CASE c.cur # <<>>
        BY <2>2, <2>3, <2>5, <2>8, <3>2, <3>3, <4>2
      <4> QED BY <4>1, <4>2
    <3>6. Fits(c.out, width)
      BY <2>3, <2>6, FitsAppend
    <3>7. Fits(Append(c.out, cur), width)
      BY <2>3, <3>3, <3>5, <3>6, FitsAppend
    <3>8. FlattenSeq(Append(c.out, cur)) = Append(s, g)
      <4>1. FlattenSeq(Append(c.out, cur)) = FlattenSeq(c.out) \o cur /\ FlattenSeq(c.out) \in Text
        BY <2>3, <3>3, FlattenLoop
      <4>2. s = FlattenSeq(c.out) \o c.cur
        BY <2>3, <2>6, FlattenLoop
      <4>3. FlattenSeq(c.out) \o cur = Append(FlattenSeq(c.out) \o c.cur, g)
        <5>1. FlattenSeq(c.out) \in Seq(Glyphs) /\ c.cur \in Seq(Glyphs)
          BY <2>3, <4>1 DEF Text
        <5>2. cur = Append(c.cur, g)
          BY DEF cur
        <5>4. \A f, k \in Seq(Glyphs) : f \o Append(k, g) = Append(f \o k, g)
          BY ConcatAppend
        <5>3. FlattenSeq(c.out) \o Append(c.cur, g) = Append(FlattenSeq(c.out) \o c.cur, g)
          BY <5>1, <5>4
        <5> QED BY <5>2, <5>3
      <4> QED BY <4>1, <4>2, <4>3
    <3>9. /\ DOMAIN Append(c.out, cur) = DOMAIN all(c) /\ n \in Nat /\ n + 1 \in DOMAIN all(c)
          /\ DOMAIN all(c) = 1 .. n + 1
          /\ \A i \in DOMAIN all(c) : /\ all(c)[i] = IF i <= n THEN c.out[i] ELSE c.cur
                                     /\ Append(c.out, cur)[i] = IF i <= n THEN c.out[i] ELSE cur
      BY <2>3, <3>3, AppendProperties
    <3>10. CASE c.cur = <<>>
      <4>1. s = <<>> /\ c.out = <<>>
        BY <2>2, <3>10
      <4>2. n = 0
        BY <4>1, EmptySeq
      <4>3. DOMAIN Append(c.out, cur) = {1} /\ Append(c.out, cur)[1] = cur
        BY <3>9, <4>2
      <4>4. Marked(cur) => Marked(Append(s, g))
        BY <3>4, <3>10, <4>1, MarkedLonger
      <4> QED
        <5>1. CutInto(Append(c.out, cur), Append(s, g), width)
          BY <3>7, <3>8, <4>3, <4>4 DEF CutInto
        <5>2. Good(d, Append(s, g))
          BY <2>1, <3>2, <3>3, <3>5, <5>1
        <5> QED BY <2>1, <5>2 DEF T, d
    <3>11. CASE c.cur # <<>>
      <4>1. s # <<>>
        BY <2>2, <3>11
      <4>2. Marked(Append(s, g)) <=> Marked(s)
        BY <4>1, MarkedLonger
      <4>3. \A i \in DOMAIN all(c) : Marked(Append(c.out, cur)[i]) <=> Marked(all(c)[i])
        BY <3>4, <3>9, <3>11
      <4>4. 1 \in DOMAIN all(c)
        BY <3>9
      <4>5. CutInto(Append(c.out, cur), Append(s, g), width)
        <5> HIDE DEF all
        <5> QED BY <2>6, <3>7, <3>8, <3>9, <4>2, <4>3, <4>4 DEF CutInto
      <4>6. Good(d, Append(s, g))
        BY <2>1, <3>2, <3>3, <3>5, <4>5
      <4> QED BY <2>1, <4>6 DEF T, d
    <3> QED BY <3>10, <3>11
  <2> QED BY <2>7, <2>8
<1> HIDE DEF T
<1>4. \A s \in Text : s \in T
  BY <1>2, <1>3, SequenceByElement DEF Text
<1>5. Good(F[w], w)
  BY <1>4 DEF T
<1> QED BY <1>1, <1>5

-----------------------------------------------------------------------------
(* What holds of the words of a text.                                      *)
StartMarks(t) == {i \in DOMAIN t : t[i] = "mark" /\ (i = 1 \/ t[i - 1] = "space")}

LEMMA StartMarksAppend ==
  ASSUME NEW s \in Text, NEW g \in Glyphs
  PROVE  /\ IsFiniteSet(StartMarks(s)) /\ Cardinality(StartMarks(s)) \in Nat
         /\ Cardinality(StartMarks(Append(s, g))) =
              Cardinality(StartMarks(s))
                + IF g = "mark" /\ (s = <<>> \/ s[Len(s)] = "space") THEN 1 ELSE 0
<1> DEFINE n == Len(s)
           new == g = "mark" /\ (s = <<>> \/ s[Len(s)] = "space")
<1>1. /\ n \in Nat /\ DOMAIN s = 1 .. n /\ DOMAIN Append(s, g) = 1 .. n + 1
      /\ \A i \in 1 .. n + 1 : Append(s, g)[i] = IF i <= n THEN s[i] ELSE g
      /\ s = <<>> <=> n = 0
  BY AppendProperties, EmptySeq DEF Text
<1>2. IsFiniteSet(StartMarks(s))
  <2>1. IsFiniteSet(1 .. n) /\ StartMarks(s) \subseteq 1 .. n
    BY <1>1, FS_Interval DEF StartMarks
  <2> QED BY <2>1, FS_Subset
<1>3. \A i \in 1 .. n : i \in StartMarks(Append(s, g)) <=> i \in StartMarks(s)
  <2>1. \A i \in 1 .. n : /\ i \in 1 .. n + 1 /\ Append(s, g)[i] = s[i]
                         /\ i # 1 => i - 1 \in 1 .. n + 1 /\ Append(s, g)[i - 1] = s[i - 1]
    BY <1>1
  <2> QED BY <1>1, <2>1 DEF StartMarks
<1>4. n + 1 \in StartMarks(Append(s, g)) <=> new
  <2>1. n + 1 \in 1 .. n + 1 /\ Append(s, g)[n + 1] = g /\ (n + 1 = 1 <=> s = <<>>)
    BY <1>1
  <2>2. ASSUME s # <<>> PROVE (n + 1) - 1 = n /\ n \in 1 .. n + 1 /\ Append(s, g)[n] = s[n]
    <3>1. n # 0
      BY <1>1, <2>2
    <3> HIDE DEF n
    <3>2. (n + 1) - 1 = n /\ n \in 1 .. n + 1 /\ n <= n
      BY <1>1, <3>1
    <3> QED BY <1>1, <3>2
  <2> QED BY <1>1, <2>1, <2>2 DEF StartMarks
<1>5. StartMarks(Append(s, g)) = IF new THEN StartMarks(s) \cup {n + 1} ELSE StartMarks(s)
  <2>1. StartMarks(s) \subseteq 1 .. n /\ StartMarks(Append(s, g)) \subseteq 1 .. n + 1
    BY <1>1 DEF StartMarks
  <2>2. \A i \in 1 .. n + 1 : i \in 1 .. n \/ i = n + 1
    BY <1>1
  <2> HIDE DEF new, n
  <2>3. n + 1 \notin 1 .. n /\ \A i \in 1 .. n : i \in 1 .. n + 1
    BY <1>1
  <2>4. \A i \in StartMarks(Append(s, g)) : i \in StartMarks(s) \/ (i = n + 1 /\ new)
    BY <1>3, <1>4, <2>1, <2>2
  <2>5. \A i \in StartMarks(s) : i \in StartMarks(Append(s, g))
    BY <1>3, <2>1
  <2>6. CASE new
    BY <1>4, <2>4, <2>5, <2>6
  <2>7. CASE ~new
    BY <2>4, <2>5, <2>7
  <2> QED BY <2>6, <2>7
<1>6. n + 1 \notin StartMarks(s)
  BY <1>1 DEF StartMarks
<1>7. Cardinality(StartMarks(s)) \in Nat
  BY <1>2, FS_CardinalityType
<1>8. Cardinality(StartMarks(s) \cup {n + 1}) = Cardinality(StartMarks(s)) + 1
  BY <1>2, <1>6, FS_AddElement
<1> QED BY <1>2, <1>5, <1>7, <1>8

(* The words together are the text without its spaces; a word begins with  *)
(* a mark where the text does, or after a space.                           *)
LEMMA WordsKeep ==
  \A s \in Text :
    /\ Ink(FlattenSeq(Words(s))) = Ink(s)
    /\ Cardinality(MarkedIn(Words(s))) <= Cardinality(StartMarks(s))
<1> DEFINE Good(ws, s) ==
             /\ Ink(FlattenSeq(ws)) = Ink(s)
             /\ Cardinality(MarkedIn(ws)) <= Cardinality(StartMarks(s))
             /\ ws[Len(ws)] = <<>> => s = <<>> \/ s[Len(s)] = "space"
           T == {s \in Text : Good(Words(s), s)}
<1>0. <<>> \in Text /\ <<>> \in Seq(Text) /\ \A s \in Text : s \o <<>> = s
  BY DEF Text
<1>1. <<>> \in T
  <2>1. Append(<<>>, <<>>) = <<<<>>>>
    OBVIOUS
  <2>2. FlattenSeq(<<<<>>>>) = <<>>
    BY <1>0, <2>1, FlattenLoop
  <2>3. MarkedIn(<<<<>>>>) = {} /\ StartMarks(<<>>) = {}
    BY DEF MarkedIn, Marked, StartMarks
  <2>4. Cardinality(MarkedIn(<<<<>>>>)) <= Cardinality(StartMarks(<<>>))
    <3>1. Cardinality({}) = 0
      BY FS_EmptySet
    <3>2. Cardinality(MarkedIn(<<<<>>>>)) = 0 /\ Cardinality(StartMarks(<<>>)) = 0
      BY <2>3, <3>1
    <3> QED BY <3>2
  <2>5. Good(<<<<>>>>, <<>>)
    BY <2>2, <2>4
  <2> HIDE DEF Good
  <2> QED BY <1>0, <2>5, WordsLoop
<1>2. ASSUME NEW s \in Text, NEW g \in Glyphs, s \in T PROVE Append(s, g) \in T
  <2> DEFINE ws == Words(s)
             t == Append(s, g)
             n == Len(ws)
  <2>1. /\ Words(t) = PutInWord(ws, g) /\ ws \in SomeWords /\ t \in Text /\ t # <<>>
        /\ t[Len(t)] = g
    BY WordsLoop, AppendProperties DEF Text
  <2>2. ws \in Seq(Text) /\ ws # <<>> /\ n \in 1 .. n /\ ws[n] \in Text
    BY <2>1, PutInWordType DEF SomeWords
  <2>3. Good(ws, s)
    BY <1>2
  <2> HIDE DEF T, ws
  <2>4. FlattenSeq(ws) \in Text /\ Ink(t) = IF g = "space" THEN Ink(s) ELSE Append(Ink(s), g)
    BY <2>2, FlattenLoop, InkLoop
  <2>5. /\ Cardinality(StartMarks(s)) \in Nat
        /\ Cardinality(StartMarks(t)) =
             Cardinality(StartMarks(s))
               + IF g = "mark" /\ (s = <<>> \/ s[Len(s)] = "space") THEN 1 ELSE 0
    BY StartMarksAppend
  <2>6. Cardinality(MarkedIn(ws)) \in Nat
    BY <2>2, MarkedFinite
  <2> HIDE DEF t
  <2>7. CASE g = "space"
    <3>1. Words(t) = Append(ws, <<>>)
      BY <2>1, <2>7 DEF PutInWord
    <3>2. FlattenSeq(Append(ws, <<>>)) = FlattenSeq(ws)
      BY <1>0, <2>2, <2>4, FlattenLoop
    <3>3. Cardinality(MarkedIn(Append(ws, <<>>))) = Cardinality(MarkedIn(ws))
      BY <1>0, <2>2, <2>6, MarkedAppend DEF Starts, Marked
    <3>4. Cardinality(MarkedIn(ws)) <= Cardinality(StartMarks(t))
      BY <2>3, <2>5, <2>6, <2>7
    <3>5. Good(Words(t), t)
      BY <2>1, <2>3, <2>4, <2>7, <3>1, <3>2, <3>3, <3>4
    <3> QED BY <2>1, <3>5 DEF T, t
  <2>8. CASE g # "space"
    <3> DEFINE f == Front(ws)
               l == ws[n]
               k == Append(l, g)
    <3>1. f \in Seq(Text) /\ ws = Append(f, l)
      BY <2>2, FrontThenLast DEF Last
    <3>2. k \in Text /\ k # <<>>
      BY <2>2, AppendProperties DEF Text
    <3>3. Words(t) = Append(f, k)
      <4>1. Words(t) = [ws EXCEPT ![n] = k]
        BY <2>1, <2>8 DEF PutInWord
      <4>2. /\ [ws EXCEPT ![n] = k] \in Seq(Text) /\ Len([ws EXCEPT ![n] = k]) = n
            /\ \A i \in 1 .. n : [ws EXCEPT ![n] = k][i] = IF i = n THEN k ELSE ws[i]
        BY <2>2, <3>2, ExceptSeq
      <4> HIDE DEF f, l, k
      <4>3. /\ Append(f, l) \in Seq(Text) /\ Len(Append(f, l)) = Len(f) + 1 /\ Len(f) \in Nat
            /\ \A i \in 1 .. Len(f) + 1 : Append(f, l)[i] = IF i <= Len(f) THEN f[i] ELSE l
        <5>1. l \in Text
          BY <2>2 DEF l
        <5> QED BY <3>1, <5>1, AppendProperties
      <4>4. /\ Append(f, k) \in Seq(Text) /\ Len(Append(f, k)) = Len(f) + 1
            /\ \A i \in 1 .. Len(f) + 1 : Append(f, k)[i] = IF i <= Len(f) THEN f[i] ELSE k
        BY <3>1, <3>2, AppendProperties
      <4>5. n = Len(f) + 1
        BY <3>1, <4>3
      <4>6. \A i \in 1 .. n : [ws EXCEPT ![n] = k][i] = Append(f, k)[i]
        BY <3>1, <4>2, <4>3, <4>4, <4>5
      <4>7. [ws EXCEPT ![n] = k] = Append(f, k)
        BY <4>2, <4>4, <4>5, <4>6, SeqEqual
      <4> QED BY <4>1, <4>7
    <3>4. l \in Text /\ (Marked(k) <=> IF l = <<>> THEN g = "mark" ELSE Marked(l))
      BY <2>2, MarkedLonger
    <3>5. FlattenSeq(Append(f, k)) = Append(FlattenSeq(ws), g)
      <4>1. FlattenSeq(f) \in Seq(Glyphs) /\ l \in Seq(Glyphs)
        BY <3>1, <3>4, FlattenLoop DEF Text
      <4>2. FlattenSeq(f) \o Append(l, g) = Append(FlattenSeq(f) \o l, g)
        BY <4>1, ConcatAppend
      <4>3. FlattenSeq(Append(f, k)) = FlattenSeq(f) \o Append(l, g)
        BY <3>1, <3>2, FlattenLoop
      <4>4. FlattenSeq(ws) = FlattenSeq(f) \o l
        <5> HIDE DEF l, f
        <5> QED BY <3>1, <3>4, FlattenLoop
      <4> QED BY <4>2, <4>3, <4>4
    <3> HIDE DEF f, k
    <3>6. Ink(FlattenSeq(Append(f, k))) = Ink(t)
      BY <2>3, <2>4, <2>8, <3>5, InkLoop
    <3>7. /\ Cardinality(MarkedIn(Append(f, k))) = Cardinality(MarkedIn(f)) + Starts(k)
          /\ Cardinality(MarkedIn(ws)) = Cardinality(MarkedIn(f)) + Starts(l)
          /\ Cardinality(MarkedIn(f)) \in Nat
      <4> HIDE DEF l
      <4> QED BY <3>1, <3>2, <3>4, MarkedAppend, MarkedFinite
    <3>8. Cardinality(MarkedIn(Append(f, k))) <= Cardinality(StartMarks(t))
      <4> HIDE DEF n
      <4>1. CASE l = <<>>
        <5>1. Starts(l) = 0 /\ Starts(k) = IF g = "mark" THEN 1 ELSE 0
          BY <3>4, <4>1 DEF Starts, Marked
        <5>2. s = <<>> \/ s[Len(s)] = "space"
          BY <2>3, <4>1 DEF n
        <5> HIDE DEF l
        <5> QED BY <2>3, <2>5, <3>7, <5>1, <5>2
      <4>2. CASE l # <<>>
        <5>1. Starts(k) = Starts(l) /\ Starts(l) \in Nat
          BY <3>4, <4>2 DEF Starts
        <5> HIDE DEF l
        <5> QED BY <2>3, <2>5, <3>7, <5>1
      <4> QED BY <4>1, <4>2
    <3>9. Append(f, k)[Len(Append(f, k))] = k
      BY <3>1, <3>2, AppendProperties
    <3>10. Good(Words(t), t)
      BY <3>2, <3>3, <3>6, <3>8, <3>9
    <3> QED BY <2>1, <3>10 DEF T, t
  <2> QED BY <2>7, <2>8
<1> HIDE DEF T
<1>3. \A s \in Text : s \in T
  BY <1>1, <1>2, SequenceByElement DEF Text
<1> QED BY <1>3 DEF T

-----------------------------------------------------------------------------
(* What holds of the lines of some words.                                  *)
RowsOk(acc, ws, width) ==
  /\ Fits(Rowed(acc), width)
  /\ Ink(FlattenSeq(Rowed(acc))) = Ink(FlattenSeq(ws))
  /\ Cardinality(MarkedIn(Rowed(acc))) <= Cardinality(MarkedIn(ws))

(* A line that is empty yet does not count.                                *)
LEMMA BeforeIs ==
  ASSUME NEW acc \in Rows, NEW width \in Nat
  PROVE  /\ Before(acc) \in Seq(Text)
         /\ Fits(Before(acc), width) <=> Fits(Rowed(acc), width)
         /\ FlattenSeq(Before(acc)) = FlattenSeq(Rowed(acc))
         /\ Cardinality(MarkedIn(Before(acc))) = Cardinality(MarkedIn(Rowed(acc)))
<1>1. acc.lines \in Seq(Text) /\ acc.cur \in Text
  BY DEF Rows
<1>2. Before(acc) \in Seq(Text)
  BY <1>1, AppendProperties DEF Before, Rowed
<1>3. CASE acc.cur = <<>>
  <2>1. Before(acc) = acc.lines /\ Rowed(acc) = Append(acc.lines, <<>>)
    BY <1>3 DEF Before, Rowed
  <2>2. <<>> \in Text /\ DisplayWidth(<<>>) <= width /\ \A s \in Text : s \o <<>> = s
    BY DisplayWidthLoop DEF Text
  <2>3. Fits(Rowed(acc), width) <=> Fits(acc.lines, width)
    BY <1>1, <2>1, <2>2, FitsAppend
  <2>4. FlattenSeq(Rowed(acc)) = FlattenSeq(acc.lines)
    BY <1>1, <2>1, <2>2, FlattenLoop
  <2>5. Cardinality(MarkedIn(Rowed(acc))) = Cardinality(MarkedIn(acc.lines)) + Starts(<<>>)
    BY <1>1, <2>1, <2>2, MarkedAppend
  <2>6. Starts(<<>>) = 0 /\ Cardinality(MarkedIn(acc.lines)) \in Nat
    BY <1>1, MarkedFinite DEF Starts, Marked
  <2> QED BY <1>2, <2>1, <2>3, <2>4, <2>5, <2>6
<1>4. CASE acc.cur # <<>>
  BY <1>2, <1>4 DEF Before
<1> QED BY <1>3, <1>4

(* One word more keeps all three, in each of the three cases.              *)
LEMMA WrapWordKeeps ==
  ASSUME NEW width \in Nat \ {0, 1}, NEW acc \in Rows, NEW ws \in Seq(Text), NEW w \in Text,
         RowsOk(acc, ws, width)
  PROVE  RowsOk(WrapWord(acc, w, width), Append(ws, w), width)
<1> DEFINE A == Rowed(acc)
           B == Rowed(WrapWord(acc, w, width))
           segs == CharWrap(w, width)
<1>1. /\ WrapWord(acc, w, width) \in Rows /\ acc.lines \in Seq(Text) /\ acc.cur \in Text
      /\ A \in Seq(Text) /\ Before(acc) \in Seq(Text) /\ OneRow(acc, w) \in Text
  BY WrapWordIs DEF Rows
<1>2. \/ B = Before(acc) \o segs
      \/ DisplayWidth(w) <= width /\ B = Append(A, w)
      \/ DisplayWidth(OneRow(acc, w)) <= width /\ B = Append(acc.lines, OneRow(acc, w))
  BY WrapWordIs
<1>3. /\ Fits(A, width) /\ Ink(FlattenSeq(A)) = Ink(FlattenSeq(ws))
      /\ Cardinality(MarkedIn(A)) <= Cardinality(MarkedIn(ws))
  BY DEF RowsOk
<1>4. /\ Cardinality(MarkedIn(A)) \in Nat /\ Cardinality(MarkedIn(ws)) \in Nat
      /\ Starts(w) \in Nat
      /\ Cardinality(MarkedIn(Append(ws, w))) = Cardinality(MarkedIn(ws)) + Starts(w)
  BY <1>1, MarkedFinite, MarkedAppend DEF Starts
<1>5. FlattenSeq(A) \in Text /\ FlattenSeq(ws) \in Text
  BY <1>1, FlattenLoop
<1>6. Ink(FlattenSeq(Append(ws, w))) = Ink(FlattenSeq(A)) \o Ink(w)
  <2>1. FlattenSeq(Append(ws, w)) = FlattenSeq(ws) \o w
    BY FlattenLoop
  <2>2. Ink(FlattenSeq(ws) \o w) = Ink(FlattenSeq(ws)) \o Ink(w)
    BY <1>5, InkConcat
  <2> QED BY <1>3, <2>1, <2>2
<1>7. SUFFICES /\ Fits(B, width) /\ Ink(FlattenSeq(B)) = Ink(FlattenSeq(A)) \o Ink(w)
               /\ Cardinality(MarkedIn(B)) <= Cardinality(MarkedIn(A)) + Starts(w)
  <2>1. Cardinality(MarkedIn(B)) \in Nat
    BY <1>1, WrapWordIs, MarkedFinite DEF Rows, Rowed
  <2> HIDE DEF A
  <2>2. ASSUME Cardinality(MarkedIn(B)) <= Cardinality(MarkedIn(A)) + Starts(w)
        PROVE  Cardinality(MarkedIn(B)) <= Cardinality(MarkedIn(Append(ws, w)))
    <3> HIDE DEF B
    <3> QED BY <1>3, <1>4, <2>1, <2>2
  <2> QED BY <1>6, <2>2 DEF RowsOk
<1> HIDE DEF A, B, segs
<1>8. CASE B = Before(acc) \o segs
  <2>1. segs \in Seq(Text) /\ segs # <<>> /\ CutInto(segs, w, width)
    BY CharWrapType, WordIsCut DEF segs, SomeWords
  <2>2. /\ Fits(Before(acc), width) /\ FlattenSeq(Before(acc)) = FlattenSeq(A)
        /\ Cardinality(MarkedIn(Before(acc))) = Cardinality(MarkedIn(A))
    BY <1>3, BeforeIs DEF A
  <2>3. Fits(B, width)
    BY <1>1, <1>8, <2>1, <2>2, FitsConcat DEF CutInto
  <2>4. FlattenSeq(B) = FlattenSeq(A) \o w
    BY <1>1, <1>8, <2>1, <2>2, FlattenConcat DEF CutInto
  <2>5. Cardinality(MarkedIn(B)) <= Cardinality(MarkedIn(A)) + Starts(w)
    <3>1. /\ Marked(segs[1]) => Marked(w)
          /\ \A i \in DOMAIN segs : i # 1 => ~Marked(segs[i])
      BY <2>1 DEF CutInto
    <3> QED BY <1>1, <1>8, <2>1, <2>2, <3>1, MarkedConcat
  <2> QED BY <1>5, <2>3, <2>4, <2>5, InkConcat
<1>9. CASE DisplayWidth(w) <= width /\ B = Append(A, w)
  <2>1. Fits(B, width)
    BY <1>1, <1>3, <1>9, FitsAppend
  <2>2. FlattenSeq(B) = FlattenSeq(A) \o w
    BY <1>1, <1>9, FlattenLoop
  <2>3. Cardinality(MarkedIn(B)) = Cardinality(MarkedIn(A)) + Starts(w)
    BY <1>1, <1>9, MarkedAppend
  <2>4. Ink(FlattenSeq(B)) = Ink(FlattenSeq(A)) \o Ink(w)
    BY <1>5, <2>2, InkConcat
  <2>5. Cardinality(MarkedIn(B)) <= Cardinality(MarkedIn(A)) + Starts(w)
    BY <1>4, <2>3
  <2> QED BY <2>1, <2>4, <2>5
<1>10. CASE DisplayWidth(OneRow(acc, w)) <= width /\ B = Append(acc.lines, OneRow(acc, w))
  <2> DEFINE j == OneRow(acc, w)
             ls == acc.lines
  <2>1. A = Append(ls, acc.cur)
    BY DEF A, Rowed
  <2>2. Fits(ls, width)
    BY <1>1, <1>3, <2>1, FitsAppend
  <2>3. Fits(B, width)
    BY <1>1, <1>10, <2>2, FitsAppend
  <2>4. FlattenSeq(ls) \in Text /\ FlattenSeq(B) = FlattenSeq(ls) \o j
        /\ FlattenSeq(A) = FlattenSeq(ls) \o acc.cur
    BY <1>1, <1>10, <2>1, FlattenLoop
  <2>5. Ink(j) = Ink(acc.cur) \o Ink(w) /\ Starts(j) <= Starts(acc.cur) + Starts(w)
    <3>1. CASE acc.cur = <<>>
      <4>1. j = w
        BY <3>1 DEF OneRow
      <4>2. Ink(w) \in Text /\ Ink(acc.cur) = <<>> /\ Starts(acc.cur) \in Nat
        BY <3>1, InkLoop DEF Starts
      <4>3. <<>> \o Ink(w) = Ink(w)
        BY <4>2 DEF Text
      <4> QED BY <1>4, <4>1, <4>2, <4>3
    <3>2. CASE acc.cur # <<>>
      <4> DEFINE sp == <<"space">>
                 h == acc.cur \o sp
      <4>1. j = h \o w
        BY <3>2 DEF OneRow
      <4>0. sp \in Text
        BY DEF Text, Glyphs
      <4>2. sp \in Text /\ Ink(sp) = <<>>
        <5>1. "space" \in Glyphs /\ <<>> \in Text /\ Append(<<>>, "space") = sp
          BY DEF Glyphs, Text
        <5> HIDE DEF sp
        <5>2. Ink(sp) = <<>>
          BY <5>1, InkLoop
        <5> QED BY <4>0, <5>2
      <4> HIDE DEF sp
      <4>3. h \in Text
        BY <1>1, <4>2 DEF Text
      <4>4. Ink(h) = Ink(acc.cur)
        <5>1. Ink(acc.cur \o sp) = Ink(acc.cur) \o Ink(sp)
          BY <1>1, <4>2, InkConcat
        <5>2. Ink(acc.cur) \in Text
          BY <1>1, InkLoop
        <5>3. Ink(acc.cur) \o <<>> = Ink(acc.cur)
          BY <5>2, ConcatEmptySeq DEF Text
        <5> QED BY <4>2, <5>1, <5>3
      <4>5. h # <<>> /\ (Marked(h) <=> Marked(acc.cur))
        BY <1>1, <3>2, <4>2, MarkedJoined
      <4> HIDE DEF h
      <4>6. Ink(j) = Ink(acc.cur) \o Ink(w)
        BY <4>1, <4>3, <4>4, InkConcat
      <4>7. Marked(j) <=> Marked(acc.cur)
        BY <4>1, <4>3, <4>5, MarkedJoined
      <4>8. Starts(j) = Starts(acc.cur) /\ Starts(acc.cur) \in Nat
        BY <4>7 DEF Starts
      <4> QED BY <1>4, <4>6, <4>8
    <3> QED BY <3>1, <3>2
  <2>6. j \in Text
    BY <1>1
  <2> HIDE DEF j, ls
  <2>7. Ink(FlattenSeq(B)) = Ink(FlattenSeq(A)) \o Ink(w)
    <3>1. /\ Ink(FlattenSeq(B)) = Ink(FlattenSeq(ls)) \o (Ink(acc.cur) \o Ink(w))
          /\ Ink(FlattenSeq(A)) = Ink(FlattenSeq(ls)) \o Ink(acc.cur)
      <4>1. Ink(FlattenSeq(ls) \o j) = Ink(FlattenSeq(ls)) \o Ink(j)
        BY <2>4, <2>6, InkConcat
      <4>2. Ink(FlattenSeq(ls) \o acc.cur) = Ink(FlattenSeq(ls)) \o Ink(acc.cur)
        BY <1>1, <2>4, InkConcat
      <4> QED BY <2>4, <2>5, <4>1, <4>2
    <3>2. Ink(FlattenSeq(ls)) \in Text /\ Ink(acc.cur) \in Text /\ Ink(w) \in Text
      BY <1>1, <2>4, InkLoop
    <3>4. (Ink(FlattenSeq(ls)) \o Ink(acc.cur)) \o Ink(w)
            = Ink(FlattenSeq(ls)) \o (Ink(acc.cur) \o Ink(w))
      BY <3>2, TextConcat
    <3> QED BY <3>1, <3>4
  <2>8. /\ Cardinality(MarkedIn(ls)) \in Nat
        /\ Cardinality(MarkedIn(B)) = Cardinality(MarkedIn(ls)) + Starts(j)
        /\ Cardinality(MarkedIn(A)) = Cardinality(MarkedIn(ls)) + Starts(acc.cur)
    BY <1>1, <1>10, <2>1, <2>6, MarkedFinite, MarkedAppend DEF ls, j
  <2>9. Starts(j) \in Nat /\ Starts(acc.cur) \in Nat
    BY DEF Starts
  <2>10. Cardinality(MarkedIn(B)) <= Cardinality(MarkedIn(A)) + Starts(w)
    BY <1>4, <2>5, <2>8, <2>9
  <2> QED BY <2>3, <2>7, <2>10
<1> QED BY <1>2, <1>8, <1>9, <1>10

-----------------------------------------------------------------------------
(* What holds of the lines of any text at any width.                       *)
LEMMA WrapIsRight ==
  ASSUME NEW t \in Text, NEW width \in Nat \ {0, 1}
  PROVE  LET ls == WordWrap(t, width) IN
         /\ ls \in Seq(Text) /\ Fits(ls, width)
         /\ Ink(FlattenSeq(ls)) = Ink(t)
         /\ Cardinality(MarkedIn(ls)) <= Cardinality(StartMarks(t))
<1>1. PICK F \in [Seq(Text) -> Rows] :
        /\ F[<<>>] = NoRow
        /\ \A ws \in Seq(Text), w \in Text : F[Append(ws, w)] = WrapWord(F[ws], w, width)
        /\ \A s \in Text :
             LET end == F[Words(s)]
                 lines == IF end.cur = <<>> THEN end.lines ELSE Append(end.lines, end.cur)
             IN  WordWrap(s, width) = IF lines = <<>> THEN <<<<>>>> ELSE lines
  BY WordWrapLoop
<1>0. <<>> \in Text /\ <<>> \in Seq(Text) /\ <<<<>>>> \in Seq(Text)
  BY DEF Text
<1>2. /\ Fits(<<<<>>>>, width) /\ FlattenSeq(<<<<>>>>) = <<>> /\ FlattenSeq(<<>>) = <<>>
      /\ Cardinality(MarkedIn(<<<<>>>>)) = 0 /\ Cardinality(MarkedIn(<<>>)) = 0
  <2>1. Append(<<>>, <<>>) = <<<<>>>> /\ <<>> \o <<>> = <<>> /\ DOMAIN <<<<>>>> = {1}
        /\ <<<<>>>>[1] = <<>>
    OBVIOUS
  <2>2. FlattenSeq(<<<<>>>>) = <<>> /\ FlattenSeq(<<>>) = <<>>
    BY <1>0, <2>1, FlattenLoop
  <2>3. Fits(<<<<>>>>, width)
    BY <2>1, DisplayWidthLoop DEF Fits
  <2>4. MarkedIn(<<<<>>>>) = {} /\ MarkedIn(<<>>) = {}
    BY <2>1 DEF MarkedIn, Marked
  <2>5. Cardinality({}) = 0
    BY FS_EmptySet
  <2> QED BY <2>2, <2>3, <2>4, <2>5
<1> DEFINE T == {ws \in Seq(Text) : RowsOk(F[ws], ws, width)}
<1>3. <<>> \in T
  <2>1. Rowed(NoRow) = <<<<>>>>
    BY DEF Rowed, NoRow
  <2>2. RowsOk(NoRow, <<>>, width)
    BY <1>2, <2>1 DEF RowsOk
  <2> QED BY <1>0, <1>1, <2>2
<1>4. ASSUME NEW ws \in Seq(Text), NEW w \in Text, ws \in T PROVE Append(ws, w) \in T
  <2>1. F[ws] \in Rows /\ RowsOk(F[ws], ws, width)
    BY <1>4
  <2>2. RowsOk(WrapWord(F[ws], w, width), Append(ws, w), width)
    BY <2>1, WrapWordKeeps
  <2>3. F[Append(ws, w)] = WrapWord(F[ws], w, width) /\ Append(ws, w) \in Seq(Text)
    BY <1>1
  <2> QED BY <2>2, <2>3
<1> HIDE DEF T
<1>5. \A ws \in Seq(Text) : ws \in T
  BY <1>3, <1>4, SequenceByElement
<1> DEFINE ws == Words(t)
           end == F[ws]
<1>6. ws \in Seq(Text)
  BY WordsLoop DEF SomeWords
<1>7. /\ Ink(FlattenSeq(ws)) = Ink(t)
      /\ Cardinality(MarkedIn(ws)) <= Cardinality(StartMarks(t))
  BY WordsKeep
<1>8. WordWrap(t, width) = IF Before(end) = <<>> THEN <<<<>>>> ELSE Before(end)
  BY <1>1 DEF Before, Rowed
<1> HIDE DEF ws
<1>9. end \in Rows /\ RowsOk(end, ws, width)
  BY <1>5, <1>6 DEF T
<1> HIDE DEF end
<1>10. /\ Before(end) \in Seq(Text) /\ Fits(Before(end), width)
       /\ FlattenSeq(Before(end)) = FlattenSeq(Rowed(end))
       /\ Cardinality(MarkedIn(Before(end))) = Cardinality(MarkedIn(Rowed(end)))
  BY <1>9, BeforeIs DEF RowsOk
<1>11. /\ Ink(FlattenSeq(Before(end))) = Ink(t)
       /\ Cardinality(MarkedIn(Before(end))) <= Cardinality(StartMarks(t))
  <2>1. /\ Cardinality(MarkedIn(Before(end))) \in Nat /\ Cardinality(MarkedIn(ws)) \in Nat
        /\ Cardinality(StartMarks(t)) \in Nat
    <3>1. Cardinality(StartMarks(t)) \in Nat
      <4>1. "mark" \in Glyphs
        BY DEF Glyphs
      <4> QED BY <4>1, StartMarksAppend
    <3> QED BY <1>6, <1>10, <3>1, MarkedFinite
  <2>2. Cardinality(MarkedIn(Before(end))) <= Cardinality(MarkedIn(ws))
    BY <1>9, <1>10 DEF RowsOk
  <2>3. Cardinality(MarkedIn(Before(end))) <= Cardinality(StartMarks(t))
    BY <1>7, <2>1, <2>2
  <2> QED BY <1>7, <1>9, <1>10, <2>3 DEF RowsOk
<1>12. CASE Before(end) = <<>>
  <2>1. WordWrap(t, width) = <<<<>>>>
    BY <1>8, <1>12
  <2> QED BY <1>0, <1>2, <1>11, <1>12, <2>1
<1>13. CASE Before(end) # <<>>
  <2>1. WordWrap(t, width) = Before(end)
    BY <1>8, <1>13
  <2> QED BY <1>10, <1>11, <2>1
<1> QED BY <1>12, <1>13

WrapTypes == glyphs \in Text /\ wrapWidth \in WrapWidths

(* The text is one of glyphs, the width one of the widths.                 *)
THEOREM WrapInvariant == WrapSpec => []WrapTypes
<1>1. WrapInit => WrapTypes
  BY DEF WrapInit, WrapTypes, Text
<1>2. WrapTypes /\ [WrapNext]_wrapVars => WrapTypes'
  BY DEF WrapTypes, WrapNext, wrapVars, GlyphTyped, PaneNarrowed, Text
<1> QED BY <1>1, <1>2, PTL DEF WrapSpec

(* No line of any message is wider than the pane (LinesFit).               *)
THEOREM LinesAlwaysFit == WrapSpec => []LinesFit
<1>1. ASSUME WrapTypes PROVE LinesFit
  <2>1. glyphs \in Text /\ wrapWidth \in Nat \ {0, 1}
    BY <1>1, WrapBounds DEF WrapTypes
  <2>2. Wrapped \in Seq(Text) /\ Fits(Wrapped, wrapWidth)
    BY <2>1, WrapIsRight DEF Wrapped
  <2>3. ASSUME NEW i \in DOMAIN Wrapped PROVE Columns(Wrapped[i]) <= wrapWidth
    <3>1. Wrapped[i] \in Text /\ DisplayWidth(Wrapped[i]) <= wrapWidth
      BY <2>2, <2>3 DEF Fits
    <3> QED BY <3>1, WidthIsColumns
  <2> QED BY <2>3 DEF LinesFit, Columns
<1> QED BY <1>1, WrapInvariant, PTL

(* Nothing but spaces is lost from any message, or moved (TextKept).       *)
THEOREM TextAlwaysKept == WrapSpec => []TextKept
<1>1. ASSUME WrapTypes PROVE TextKept
  <2>1. glyphs \in Text /\ wrapWidth \in Nat \ {0, 1}
    BY <1>1, WrapBounds DEF WrapTypes
  <2> QED BY <2>1, WrapIsRight DEF Wrapped, TextKept
<1> QED BY <1>1, WrapInvariant, PTL

(* No line begins with a mark but where a word does (MarksStay).           *)
THEOREM MarksAlwaysStay == WrapSpec => []MarksStay
<1>1. ASSUME WrapTypes PROVE MarksStay
  <2>1. glyphs \in Text /\ wrapWidth \in Nat \ {0, 1}
    BY <1>1, WrapBounds DEF WrapTypes
  <2> QED BY <2>1, WrapIsRight DEF Wrapped, MarksStay, MarkedIn, StartMarks
<1> QED BY <1>1, WrapInvariant, PTL
=============================================================================
