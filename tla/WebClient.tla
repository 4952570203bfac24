------------------------------ MODULE WebClient ------------------------------
(***************************************************************************)
(* The frame handlers of the web client, class CovcomSession of            *)
(* web/src/session.ts.  `peers` is _knownPeers, `rekeying` _pendingRekey,  *)
(* `reconnect` _isReconnect.  The phases idle and joining, up to `joined`, *)
(* are one phase here: nothing arrives in them but the answer waited for.  *)
(***************************************************************************)
EXTENDS Client, SequencesExt

InPhase(k) == k.phase \in {"waiting", "ready"}

(* The loop of _onJoined over the members.                                 *)
AllMet(k, members) ==
  LET met[i \in 0 .. Len(members)] ==
        IF i = 0 THEN k ELSE Meet(met[i - 1], members[i])
  IN met[Len(members)]

(* _onJoined: the peers known from the connection before stay known.  With *)
(* nobody there the client waits; otherwise it is joining until the seeds  *)
(* are in, and deaf to most frames meanwhile.                              *)
OnJoined(k, members) ==
  LET k0 == [k EXCEPT !.session = ClaimBuilt(@)]
  IN Answer([AllMet(k0, members) EXCEPT
                        !.phase = IF members = <<>> THEN "waiting" ELSE "joining",
                        !.chainsExpected = Len(members)],
            <<IdentifyFrame(k)>>
              \o [i \in DOMAIN members |-> SeedFrame(k0, members[i])])

(* One that waits alone is joining again until the newcomer's seed is in.  *)
OnPeerJoined(k, m) ==
  LET met == Meet(k, m)
  IN IF ~InPhase(k) \/ ~Acceptable(k.session, m.username, m.claim) THEN Silent(k)
     ELSE Answer(IF k.phase = "ready" THEN met
                 ELSE [met EXCEPT !.chainsExpected = @ + 1, !.phase = "joining"],
                 <<SeedFrame(k, m)>>)

(* A seed is taken in any phase, and counted only while joining.           *)
OnRelay(k, m) ==
  LET k1 == [k EXCEPT !.session = UnwrapChainSeed(@, m.from, m.payload)]
  IN IF ~Unwraps(k.session, m.payload) THEN {Silent(k)}
     ELSE IF k.phase = "joining" THEN CountSeed(k1)
     ELSE {Silent(k1)}

OnRatchetStepFwd(k, m) ==
  IF k.phase = "ready" THEN TakeStep(k, m) ELSE Silent(k)

OnEkUpdateFwd(k, m) == Silent(IF InPhase(k) THEN TakeEk(k, m) ELSE k)

(* _doLobbyTransition: the new session is in place at once, and the phase  *)
(* stays ready until `rekeyed` arrives.                                    *)
DoLobbyTransition(k) ==
  LET s == Fresh(<<k.session.sid[1], k.sessions>>)
  IN Answer([k EXCEPT !.session = ClaimBuilt(s), !.sessions = @ + 1,
                      !.chainsExpected = 0, !.chainsReceived = 0,
                      !.rekeying = TRUE],
            <<RekeyFrame(s)>>)

OnPeerLeft(k, m) ==
  LET without == Forget(k, m.username)
  IN IF ~InPhase(k) THEN Silent(k)
     ELSE IF k.phase = "ready" /\ without.peers = {} THEN DoLobbyTransition(without)
     ELSE Silent(without)

OnRekeyed(k) ==
  Silent(IF k.rekeying THEN [k EXCEPT !.rekeying = FALSE, !.phase = "waiting"]
         ELSE k)

(* Any error is fatal.                                                     *)
OnError(k) == [k EXCEPT !.phase = "gone", !.session = Dispose(@), !.peers = {}]

Reactions(k, m) ==
  CASE m.type = "room_created" -> {Answer(k, <<JoinFrame(m.roomId)>>)}
    [] m.type = "joined" -> {OnJoined(k, q) : q \in SetToSeqs(m.members)}
    [] m.type = "peer_joined" -> {OnPeerJoined(k, m)}
    [] m.type = "relay" -> OnRelay(k, m)
    [] m.type = "ratchet_step_fwd" -> {OnRatchetStepFwd(k, m)}
    [] m.type = "ek_update_fwd" -> {OnEkUpdateFwd(k, m)}
    [] m.type = "peer_left" -> {OnPeerLeft(k, m)}
    [] m.type = "rekeyed" -> {OnRekeyed(k)}
    [] m.type = "error" -> {Silent(OnError(k))}

(* _onWsClose.  A drop before the client got anywhere is fatal, unless it  *)
(* is reconnecting; otherwise it will try again, with the peers it knew.   *)
OnWsClose(k) ==
  IF k.phase = "joining" /\ ~k.reconnect THEN OnError(k)
  ELSE [k EXCEPT !.phase = "lost", !.session = Dispose(@),
                 !.chainsExpected = 0, !.chainsReceived = 0]

(* _attemptReconnect, on the next connection.                              *)
AttemptReconnect(k, before) ==
  [k EXCEPT !.peers = before.peers, !.reconnect = TRUE, !.rekeying = before.rekeying]
=============================================================================
