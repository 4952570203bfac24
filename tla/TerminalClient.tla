--------------------------- MODULE TerminalClient ---------------------------
(***************************************************************************)
(* The frame handlers of the terminal client: doCreate, doJoin and         *)
(* doConnect of cli/src/state.ts.  The state is AppState with the locals   *)
(* of doConnect.  `session` is current.session; `lobby` is the session     *)
(* that takes over when `rekeyed` arrives, and is Null unless pendingRekey.*)
(***************************************************************************)
EXTENDS Client, SequencesExt

InPhase(k) == k.phase \in {"waiting", "ready"}

Counted(k) ==
  [k EXCEPT !.chainsExpected = IF k.phase = "ready" THEN @ ELSE @ + 1]

(* The loop of doConnect over the members.                                 *)
AllMet(k, members) ==
  LET met[i \in 0 .. Len(members)] ==
        IF i = 0 THEN k ELSE Counted(Meet(met[i - 1], members[i]))
  IN met[Len(members)]

(* doConnect, from the `joined` snapshot taken in any order.               *)
Connect(k, members) ==
  LET k0 == [k EXCEPT !.session = ClaimBuilt(@)]
  IN Answer([AllMet(k0, members) EXCEPT !.phase = "waiting"],
            <<IdentifyFrame(k)>>
              \o [i \in DOMAIN members |-> SeedFrame(k0, members[i])])

OnPeerJoined(k, m) ==
  IF InPhase(k) /\ Acceptable(k.session, m.username, m.claim)
  THEN Answer(Counted(Meet(k, m)), <<SeedFrame(k, m)>>)
  ELSE Silent(k)

OnSeed(k, m) ==
  LET k1 == [k EXCEPT !.session = UnwrapChainSeed(@, m.from, m.payload)]
  IN IF ~InPhase(k) \/ ~Unwraps(k.session, m.payload) THEN {Silent(k)}
     ELSE IF k.phase = "ready" THEN {Silent(k1)}
     ELSE CountSeed(k1)

OnRatchetStep(k, m) == IF k.phase = "ready" THEN TakeStep(k, m) ELSE Silent(k)

OnEkUpdate(k, m) == Silent(IF InPhase(k) THEN TakeEk(k, m) ELSE k)

(* doLobbyTransition: a new session, told to the server by `rekey`.  Until *)
(* `rekeyed` arrives the disposed one stays in place.                      *)
EnterLobby(k) ==
  LET s == Fresh(<<k.session.sid[1], k.sessions>>)
  IN Answer([k EXCEPT !.session = Dispose(@), !.lobby = ClaimBuilt(s),
                      !.sessions = @ + 1, !.chainsExpected = 0,
                      !.chainsReceived = 0],
            <<RekeyFrame(s)>>)

(* Mutant: the peer stays on the list.                                     *)
OnPeerLeftListed(k, m) ==
  IF InPhase(k) THEN Silent([k EXCEPT !.session = RemovePeer(@, m.username)])
  ELSE Silent(k)

OnPeerLeft(k, m) ==
  LET without == Forget(k, m.username)
  IN IF ~InPhase(k) THEN Silent(k)
     ELSE IF k.phase = "ready" /\ without.peers = {} THEN EnterLobby(without)
     ELSE Silent(without)

OnRekeyed(k) ==
  Silent(IF k.lobby = Null THEN k
         ELSE [k EXCEPT !.phase = "waiting", !.session = k.lobby, !.lobby = Null])

(* Connection and session are given up.                                    *)
Ended(k) == [k EXCEPT !.phase = "gone", !.session = Dispose(@)]

(* A taken name ends the connection; any other error is only shown.        *)
OnError(k, m) ==
  Silent(IF m.reason = "username_taken" /\ InPhase(k) THEN Ended(k) ELSE k)

Reactions(k, m) ==
  CASE m.type = "room_created" -> {Answer(k, <<JoinFrame(m.roomId)>>)}
    [] m.type = "joined" -> {Connect(k, q) : q \in SetToSeqs(m.members)}
    [] m.type = "peer_joined" -> {OnPeerJoined(k, m)}
    [] m.type = "relay" -> OnSeed(k, m)
    [] m.type = "ratchet_step_fwd" -> {OnRatchetStep(k, m)}
    [] m.type = "ek_update_fwd" -> {OnEkUpdate(k, m)}
    [] m.type = "peer_left" -> {OnPeerLeft(k, m)}
    [] m.type = "rekeyed" -> {OnRekeyed(k)}
    [] m.type = "error" -> {OnError(k, m)}
=============================================================================
