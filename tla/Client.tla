------------------------------- MODULE Client -------------------------------
(***************************************************************************)
(* What the terminal client (cli/src/state.ts) and the web client          *)
(* (web/src/session.ts) do alike.  Both drive the same Session; they       *)
(* differ in their phases, in what they ignore in which phase, and in what *)
(* they keep when a connection is lost: TerminalClient, WebClient.         *)
(*                                                                         *)
(* A handler takes the client's state `k` to an answer: the next state and *)
(* the frames sent.  Where the code's order of work is open (the order of  *)
(* a Map or Set), it takes it to a set of answers.                         *)
(***************************************************************************)
EXTENDS Session, Sequences

CONSTANT PROTOCOL_VERSION

Answer(k, frames) == [client |-> k, sends |-> frames]
Silent(k) == Answer(k, <<>>)

(* The state of a client: `lobby` is the terminal client's, `rekeying` and *)
(* `reconnect` are the web client's.  The keys of a peer's last ek_update  *)
(* that either keeps beside the session repeat those of the session.       *)
Start(sid, name) ==
  [phase |-> "landing", name |-> name, session |-> Fresh(sid), sessions |-> 1,
   peers |-> {}, chainsExpected |-> 0, chainsReceived |-> 0,
   lobby |-> Null, rekeying |-> FALSE, reconnect |-> FALSE]

CreateFrame ==
  [type |-> "create", adminToken |-> Null, protocolVersion |-> PROTOCOL_VERSION]
JoinFrame(r) ==
  [type |-> "join", roomId |-> r, roomSecret |-> r,
   protocolVersion |-> PROTOCOL_VERSION]
IdentifyFrame(k) ==
  [type |-> "identify", username |-> k.name, ek |-> SealEk(k.session),
   ratchetEk |-> RatchetEk(k.session), claim |-> ClaimOf(k.session)]
SeedFrame(k, m) ==
  [type |-> "relay", to |-> m.username, payload |-> SealedSeed(k.session, m.ek)]
RekeyFrame(s) ==
  [type |-> "rekey", ek |-> SealEk(s), ratchetEk |-> RatchetEk(s),
   claim |-> ClaimOf(s)]

-----------------------------------------------------------------------------
(* A member met in `joined` or in peer_joined, once its claim is accepted: *)
(* it gets our seed and goes on the list.                                  *)
Meet(k, m) ==
  LET accepted == AcceptClaim(k.session, m.username, m.claim)
      wrapped == WrapChainSeedFor(accepted, m.username)
  IN [k EXCEPT !.session = UpdatePeerRatchetEk(wrapped, m.username, m.ratchetEk),
               !.peers = @ \cup {m.username}]

(* doRatchetStep, _doRatchetStep: one step to every peer, announced with a *)
(* new claim.                                                              *)
RotateKeys(k) ==
  IF k.phase # "ready" \/ k.peers = {} THEN {Silent(k)}
  ELSE IF ~CanRatchet(k.session, k.peers)
  THEN {Silent([k EXCEPT !.session = s]) : s \in BrokenOff(k.session, k.peers)}
  ELSE LET s == CommitRatchetStep(k.session, k.peers)
       IN {Answer([k EXCEPT !.session = ClaimBuilt(s)],
                  <<[type |-> "ratchet_step",
                     payloads |-> [n \in k.peers |->
                                     PerformRatchetStep(k.session, n)],
                     newEk |-> RatchetEk(s), sig |-> s.sid,
                     claim |-> ClaimOf(s)]>>)}

(* The last of the seeds expected makes a client ready, and its welcome    *)
(* ratchet follows at once.                                                *)
CountSeed(k) ==
  LET k1 == [k EXCEPT !.chainsReceived = @ + 1]
  IN IF k1.chainsReceived >= k1.chainsExpected /\ k1.chainsExpected > 0
     THEN RotateKeys([k1 EXCEPT !.phase = "ready"])
     ELSE {Silent(k1)}

(* The claim is taken before the keys are tried.  A step that fails stops  *)
(* there; one that succeeds is answered with the replacement ratchet key.  *)
TakeStep(k, m) ==
  LET accepted == AcceptClaim(k.session, m.from, m.claim)
      tried == ReceiveRatchetStep(accepted, m.from, m.payload)
      s == UpdatePeerRatchetEk(tried, m.from, m.newEk)
  IN IF ~Acceptable(k.session, m.from, m.claim) THEN Silent(k)
     ELSE IF ~Opens(accepted, m.from, m.payload)
     THEN Silent([k EXCEPT !.session = tried])
     ELSE Answer([k EXCEPT !.session = ClaimBuilt(s)],
                 <<[type |-> "ek_update", ek |-> RatchetEk(s),
                    claim |-> ClaimOf(s)]>>)

TakeEk(k, m) ==
  LET accepted == AcceptClaim(k.session, m.from, m.claim)
  IN IF Acceptable(k.session, m.from, m.claim)
     THEN [k EXCEPT !.session = UpdatePeerRatchetEk(accepted, m.from, m.ek)]
     ELSE k

Forget(k, name) ==
  [k EXCEPT !.session = RemovePeer(@, name), !.peers = @ \ {name}]
=============================================================================
