---------------------------- MODULE MessageKeys ----------------------------
(***************************************************************************)
(* The message keys of one sender at one receiver (class Session of        *)
(* lib/src/session.ts): the sender's chain numbers messages and file keys  *)
(* 1, 2, ... within an epoch, a ratchet step starts the next epoch, and    *)
(* the receiver derives the key of any (epoch, counter) that arrives, in   *)
(* any order and any number of times, from the current chain, from the     *)
(* chains it retired, or from the keys it skipped over.                    *)
(*                                                                         *)
(* Ratchet steps themselves arrive in order: each root opens the next.     *)
(* SkippedKeyStore is a library class; what is modelled of it is what      *)
(* session.ts and lib/test/session.test.ts rely on, and which keys it      *)
(* drops from a full cache is left open.                                   *)
(***************************************************************************)
EXTENDS Integers, FiniteSets

CONSTANTS
  EPOCH_KEEP_WINDOW,
  MaxSkip,       \* maxSkipPerResolve of a store: 50 in the program
  MaxCache,      \* maxCacheSize of a store: 100 in the program
  MaxEpoch,      \* bound on the ratchet steps
  MaxPerEpoch    \* bound on the messages of an epoch

ASSUME KeepNat == EPOCH_KEEP_WINDOW \in Nat
ASSUME StoreLimits == MaxSkip \in Nat /\ MaxCache \in Nat /\ MaxSkip <= MaxCache
ASSUME BoundsNat == MaxEpoch \in Nat /\ MaxPerEpoch \in Nat

VARIABLES
  epoch,    \* the sender's _myEpoch
  n,        \* messages sealed in it, _myChain.n
  pns,      \* the pn sent with the step out of each earlier epoch
  at,       \* the receiver's _senderState epoch
  chains,   \* epoch -> [n, keys]: _senderState at `at`, _oldSenderState below
  held,     \* file keys checked out and neither committed nor rolled back
  opened,   \* messages opened and files completed
  evicted   \* keys dropped from a full store

vars == <<epoch, n, pns, at, chains, held, opened, evicted>>

Epoch == 0 .. MaxEpoch
Counter == 1 .. MaxPerEpoch
Message == Epoch \X Counter
Chain == [n : 0 .. MaxPerEpoch, keys : SUBSET Counter]

TypeOK ==
  /\ epoch \in Epoch /\ n \in 0 .. MaxPerEpoch
  /\ pns \in [Epoch -> 0 .. MaxPerEpoch]
  /\ at \in 0 .. epoch
  /\ at \in DOMAIN chains /\ DOMAIN chains \subseteq 0 .. at
  /\ chains \in [DOMAIN chains -> Chain]
  /\ held \subseteq Message /\ opened \subseteq Message
  /\ evicted \subseteq Message

(* Both sides right after the seed of epoch 0 was wrapped and unwrapped.   *)
NewChain == [n |-> 0, keys |-> {}]
Init ==
  /\ epoch = 0 /\ n = 0 /\ pns = [e \in Epoch |-> 0]
  /\ at = 0 /\ chains = [e \in {0} |-> NewChain]
  /\ held = {} /\ opened = {} /\ evicted = {}

Sealed(m) == \/ m[1] < epoch /\ m[2] <= pns[m[1]]
             \/ m[1] = epoch /\ m[2] <= n

-----------------------------------------------------------------------------
(* The sender.                                                             *)

Seal ==
  /\ n < MaxPerEpoch
  /\ n' = n + 1
  /\ UNCHANGED <<epoch, pns, at, chains, held, opened, evicted>>

RatchetStep ==
  /\ epoch < MaxEpoch
  /\ pns' = [pns EXCEPT ![epoch] = n]
  /\ epoch' = epoch + 1
  /\ n' = 0
  /\ UNCHANGED <<at, chains, held, opened, evicted>>

-----------------------------------------------------------------------------
(* SkippedKeyStore.                                                        *)

(* What a store may keep of the keys S put in it.                          *)
Cached(S) == IF Cardinality(S) <= MaxCache THEN {S}
             ELSE {T \in SUBSET S : Cardinality(T) = MaxCache}

(* A counter behind the chain needs its key in the store; one ahead of it  *)
(* must not skip too many.                                                 *)
CanResolve(chain, c) ==
  IF c <= chain.n THEN c \in chain.keys ELSE c - chain.n - 1 <= MaxSkip

Resolvable(m) == m[1] \in DOMAIN chains /\ CanResolve(chains[m[1]], m[2])

(* Mutant: the chain stays where it was.                                   *)
ReachStays(chain, c) == chain.n
Reach(chain, c) == IF c <= chain.n THEN chain.n ELSE c

(* Mutant: off by one.                                                     *)
KeysFrom(chain, c) == chain.keys \cup chain.n .. c

(* The keys there are once the chain has stepped to c, c's own included.   *)
KeysTo(chain, c) == chain.keys \cup (chain.n + 1) .. c

(* Epoch e's chain steps to c, and its store keeps what it can of S.       *)
Keep(e, c, S) ==
  \E T \in Cached(S) :
    /\ chains' = [chains EXCEPT ![e] = [n |-> Reach(chains[e], c), keys |-> T]]
    /\ evicted' = evicted \cup ({e} \X (S \ T))

Checkout(m) ==
  /\ Sealed(m) /\ Resolvable(m)
  /\ Keep(m[1], m[2], KeysTo(chains[m[1]], m[2]) \ {m[2]})

PutBack(m) ==
  IF m[1] \in DOMAIN chains
  THEN Keep(m[1], m[2], KeysTo(chains[m[1]], m[2]) \cup {m[2]})
  ELSE UNCHANGED <<chains, evicted>>

-----------------------------------------------------------------------------
(* The receiver.                                                           *)

OpenMessage(m) ==
  /\ Checkout(m)
  /\ opened' = opened \cup {m}
  /\ UNCHANGED <<epoch, n, pns, at, held>>

(* A ciphertext that does not authenticate under the key of its counter.   *)
RejectMessage(m) ==
  /\ Sealed(m) /\ Resolvable(m)
  /\ PutBack(m)
  /\ UNCHANGED <<epoch, n, pns, at, held, opened>>

OpenFileKey(m) ==
  /\ Checkout(m)
  /\ held' = held \cup {m}
  /\ UNCHANGED <<epoch, n, pns, at, opened>>

(* The final chunk of a file, or its transfer given up.                    *)
Commit(m) ==
  /\ m \in held
  /\ held' = held \ {m} /\ opened' = opened \cup {m}
  /\ UNCHANGED <<epoch, n, pns, at, chains, evicted>>

Rollback(m) ==
  /\ m \in held
  /\ held' = held \ {m}
  /\ PutBack(m)
  /\ UNCHANGED <<epoch, n, pns, at, opened>>

(* Mutants: a window too small by one; no window.                          *)
WindowShort(newEpoch) ==
  {e \in DOMAIN chains : e > newEpoch - EPOCH_KEEP_WINDOW}
WindowAll(newEpoch) == DOMAIN chains

(* The old chain is run to the end of its epoch and retired with the keys  *)
(* T; epochs outside the window are wiped; a new chain starts.             *)
Window(newEpoch) == {e \in DOMAIN chains : e >= newEpoch - EPOCH_KEEP_WINDOW}
Ratcheted(T) ==
  [e \in Window(at + 1) \cup {at + 1} |->
     IF e = at + 1 THEN NewChain
     ELSE IF e = at THEN [n |-> Reach(chains[at], pns[at]), keys |-> T]
     ELSE chains[e]]

ReceiveRatchetStep ==
  /\ at < epoch
  /\ \E T \in Cached(KeysTo(chains[at], pns[at])) :
       /\ chains' = Ratcheted(T)
       /\ evicted' = evicted \cup ({at} \X (KeysTo(chains[at], pns[at]) \ T))
  /\ at' = at + 1
  /\ UNCHANGED <<epoch, n, pns, held, opened>>

Receive(m) == OpenMessage(m) \/ RejectMessage(m) \/ OpenFileKey(m)
Settle(m) == Commit(m) \/ Rollback(m)

Next ==
  \/ Seal \/ RatchetStep \/ ReceiveRatchetStep
  \/ \E m \in Message : Receive(m) \/ Settle(m)

Spec == Init /\ [][Next]_vars

-----------------------------------------------------------------------------
(* A key is good for one message: whatever is repeated, reordered, retried *)
(* or ratcheted meanwhile, what has been opened, or is held for a file,    *)
(* never resolves again (_resolveKeyCheckout, receiveRatchetStep).         *)
OpenedOnce == \A m \in held \cup opened : ~Resolvable(m)

(* No message is lost to reordering: one that has not been opened, of the  *)
(* current epoch or of the EPOCH_KEEP_WINDOW before it, still opens,       *)
(* unless a full store dropped its key or it is too far ahead.  Messages   *)
(* rejected or rolled back before keep their key (openMessage,             *)
(* receiveRatchetStep).                                                    *)
WithinReach ==
  \A m \in Message :
    (/\ Sealed(m) /\ m[1] \in (at - EPOCH_KEEP_WINDOW) .. at
     /\ m \notin held \cup opened \cup evicted)
      => \/ Resolvable(m)
         \/ m[1] = at /\ m[2] - chains[at].n - 1 > MaxSkip

(* A message that the sender's ratchet step overtook is not opened any     *)
(* more (docs/THREAT-MODEL.md:154-155 "Messages reordered across epoch     *)
(* boundaries fail key resolution and are discarded").  The code retires   *)
(* the chain with its unused keys, and they open it for EPOCH_KEEP_WINDOW  *)
(* epochs more.                                                            *)
EpochBoundary == \A m \in Message : Sealed(m) /\ m[1] < at => ~Resolvable(m)

(* What a receiver keeps for a sender is bounded, however long it goes on: *)
(* a window of chains, and a full store for each.                          *)
BoundedStores ==
  /\ Cardinality(DOMAIN chains) <= EPOCH_KEEP_WINDOW + 1
  /\ \A e \in DOMAIN chains : Cardinality(chains[e].keys) <= MaxCache
=============================================================================
