------------------------------ MODULE Session ------------------------------
(***************************************************************************)
(* The key state of one client, class Session of lib/src/session.ts with   *)
(* its SessionIdentity (lib/src/identity.ts), as operators on a record.    *)
(*                                                                         *)
(* Keys are symbolic.  A session has an identity `sid` that stands for its *)
(* signing key and its sealing keypair.  A seed is the nth one drawn in a  *)
(* session.  A ratchet key is the gen-th one-shot KEM keypair of a session.*)
(* A root key is known by the seed it starts from and the number of        *)
(* encapsulations folded into it: each side's root moves on with every     *)
(* step it sends, or opens, and two roots are equal when both are.  A      *)
(* ciphertext opens under the key it was made for and under no other.      *)
(***************************************************************************)
EXTENDS Naturals

CONSTANTS Name, Null

Fresh(sid) ==
  [sid      |-> sid,
   epoch    |-> 0,                     \* _myEpoch
   kp       |-> 0,                     \* _kp, by generation
   spent    |-> FALSE,                 \* _kp has decapsulated already
   seq      |-> 0,                     \* _localSeq, of the next claim
   disposed |-> FALSE,
   encap    |-> [n \in Name |-> Null], \* _encapRoots
   decap    |-> [n \in Name |-> Null], \* _decapRoots
   eks      |-> [n \in Name |-> Null], \* _peerRatchetEks
   sender   |-> [n \in Name |-> Null], \* _senderState
   peers    |-> [n \in Name |-> Null]] \* SessionIdentity._peers: last claim

SealEk(s) == [sid |-> s.sid]            \* the `ek` of identify and rekey
RatchetEk(s) == [sid |-> s.sid, gen |-> s.kp]
CurrentSeed(s) == [sid |-> s.sid, nth |-> s.epoch]
Root(seed) == [seed |-> seed, steps |-> 0]
NextRoot(root) == [root EXCEPT !.steps = @ + 1]

-----------------------------------------------------------------------------
(* Claims: a signed log of the keys of a session, one entry per sequence   *)
(* number, each naming the hash of the one before.                         *)

ClaimOf(s) == [sid |-> s.sid, seq |-> s.seq]
ClaimBuilt(s) == [s EXCEPT !.seq = @ + 1]

(* The first claim seen of a peer is an anchor, whatever its number; later *)
(* ones must be of the same key and continue where the last one ended.     *)
Acceptable(s, peer, claim) ==
  /\ ~s.disposed
  /\ s.peers[peer] # Null => /\ claim.sid = s.peers[peer].sid
                             /\ claim.seq = s.peers[peer].seq + 1
AcceptClaim(s, peer, claim) == [s EXCEPT !.peers[peer] = claim]

-----------------------------------------------------------------------------
(* Seeds: a member hands its current seed and epoch to one peer, sealed to *)
(* the ek of that peer's session.                                          *)

SealedSeed(s, ek) == [ek |-> ek, epoch |-> s.epoch, seed |-> CurrentSeed(s)]
WrapChainSeedFor(s, peer) == [s EXCEPT !.encap[peer] = Root(CurrentSeed(s))]

Unwraps(s, blob) == ~s.disposed /\ blob.ek = SealEk(s)
UnwrapChainSeed(s, from, blob) ==
  [s EXCEPT !.decap[from] = Root(blob.seed),
            !.sender[from] = [epoch |-> blob.epoch, seed |-> blob.seed]]

UpdatePeerRatchetEk(s, peer, ek) == [s EXCEPT !.eks[peer] = ek]

-----------------------------------------------------------------------------
(* Ratchet steps: one new seed, encapsulated to the ratchet key of each    *)
(* peer.                                                                   *)

CanRatchet(s, peers) ==
  ~s.disposed /\ \A n \in peers : s.encap[n] # Null /\ s.eks[n] # Null

PerformRatchetStep(s, peer) ==
  [root |-> s.encap[peer], ek |-> s.eks[peer],
   seed |-> [sid |-> s.sid, nth |-> s.epoch + 1]]

(* The roots move as the steps are performed, the epoch with the commit.   *)
Stepped(s, peers) ==
  [s EXCEPT !.encap = [n \in Name |-> IF n \in peers THEN NextRoot(@[n])
                                                     ELSE @[n]]]
CommitRatchetStep(s, peers) == [Stepped(s, peers) EXCEPT !.epoch = @ + 1]

(* A step to every peer that fails at one without a root or a key: those   *)
(* that came before it, in whatever order, have moved on.                  *)
BrokenOff(s, peers) ==
  {Stepped(s, done) :
     done \in SUBSET {n \in peers : CanRatchet(s, {n})}}

(* What receiveRatchetStep needs to get to the new seed.                   *)
TriesDecap(s, from) == ~s.disposed /\ s.decap[from] # Null /\ ~s.spent
Opens(s, from, p) ==
  TriesDecap(s, from) /\ p.ek = RatchetEk(s) /\ p.root = s.decap[from]

(* Mutant: a step that fails is counted.                                   *)
ReceiveRatchetStepCounted(s, from, p) ==
  IF Opens(s, from, p)
  THEN [s EXCEPT !.sender[from] = [epoch |-> @.epoch + 1, seed |-> p.seed],
                 !.decap[from] = NextRoot(@),
                 !.kp = @ + 1]
  ELSE [s EXCEPT !.spent = @ \/ TriesDecap(s, from),
                 !.sender[from] = IF @ = Null THEN Null
                                  ELSE [@ EXCEPT !.epoch = @ + 1]]

(* The receiver numbers the sender's epochs itself.  Its keypair is used   *)
(* up by the attempt, and replaced only when the step succeeds.            *)
ReceiveRatchetStep(s, from, p) ==
  IF Opens(s, from, p)
  THEN [s EXCEPT !.sender[from] = [epoch |-> @.epoch + 1, seed |-> p.seed],
                 !.decap[from] = NextRoot(@),
                 !.kp = @ + 1]
  ELSE [s EXCEPT !.spent = @ \/ TriesDecap(s, from)]

-----------------------------------------------------------------------------
(* Mutant: the claim of the peer is not forgotten.                         *)
RemovePeerKeepsClaim(s, peer) ==
  [s EXCEPT !.encap[peer] = Null, !.decap[peer] = Null, !.eks[peer] = Null,
            !.sender[peer] = Null]

RemovePeer(s, peer) ==
  [s EXCEPT !.encap[peer] = Null, !.decap[peer] = Null, !.eks[peer] = Null,
            !.sender[peer] = Null, !.peers[peer] = Null]

Dispose(s) == [Fresh(s.sid) EXCEPT !.disposed = TRUE]
=============================================================================
