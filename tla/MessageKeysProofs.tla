------------------------- MODULE MessageKeysProofs -------------------------
(***************************************************************************)
(* Proofs about MessageKeys, for every keep window, store limit and number *)
(* of epochs and messages.                                                 *)
(***************************************************************************)
EXTENDS MessageKeys, FiniteSetTheorems, TLAPS

(* A message whose key is out is behind its chain and not in its store.    *)
SpentIsGone ==
  \A m \in held \cup opened :
    /\ m[1] <= at
    /\ m[1] \in DOMAIN chains =>
         m[2] <= chains[m[1]].n /\ m[2] \notin chains[m[1]].keys

(* Every key behind a chain is stored, out, or was dropped.                *)
Accounted ==
  \A e \in DOMAIN chains : \A c \in 1 .. chains[e].n :
    c \in chains[e].keys \/ <<e, c>> \in held \cup opened \cup evicted

(* The window is there, and its retired chains have been run to their end. *)
Retired ==
  /\ \A e \in 0 .. at : e >= at - EPOCH_KEEP_WINDOW => e \in DOMAIN chains
  /\ \A e \in DOMAIN chains : e < at => pns[e] <= chains[e].n

IInv ==
  /\ TypeOK
  /\ SpentIsGone
  /\ held \cap opened = {}
  /\ Accounted
  /\ Retired

-----------------------------------------------------------------------------
(* A store keeps only keys that were put in it.                            *)
LEMMA CachedSubset == ASSUME NEW S, NEW T \in Cached(S) PROVE T \subseteq S
BY DEF Cached

(* The keys a chain steps over, and where it ends up, stay in range.       *)
LEMMA StepTypes ==
  ASSUME NEW chain \in Chain, NEW c \in 0 .. MaxPerEpoch
  PROVE  /\ KeysTo(chain, c) \subseteq Counter
         /\ Reach(chain, c) \in 0 .. MaxPerEpoch
BY BoundsNat DEF Chain, KeysTo, Reach, Counter

(* The initial state satisfies the invariant.                              *)
LEMMA InitInv == Init => IInv
BY BoundsNat, KeepNat
DEF Init, IInv, TypeOK, SpentIsGone, Accounted, Retired, Epoch, Counter,
    Message, Chain, NewChain

(* What Keep does to the one chain it touches.                             *)
LEMMA KeepEffect ==
  ASSUME TypeOK, NEW e \in DOMAIN chains, NEW c \in Counter,
         NEW S, S \subseteq Counter, Keep(e, c, S)
  PROVE  /\ DOMAIN chains' = DOMAIN chains
         /\ chains' \in [DOMAIN chains -> Chain]
         /\ \A x \in DOMAIN chains : x # e => chains'[x] = chains[x]
         /\ chains'[e].n = Reach(chains[e], c)
         /\ chains'[e].keys \subseteq S
         /\ evicted' = evicted \cup ({e} \X (S \ chains'[e].keys))
         /\ evicted' \subseteq Message
<1>1. PICK T \in Cached(S) :
        /\ chains' = [chains EXCEPT ![e] = [n |-> Reach(chains[e], c), keys |-> T]]
        /\ evicted' = evicted \cup ({e} \X (S \ T))
  BY DEF Keep
<1>2. T \subseteq S
  BY CachedSubset
<1>3. Reach(chains[e], c) \in 0 .. MaxPerEpoch
  BY StepTypes DEF TypeOK, Counter
<1>4. /\ chains'[e] = [n |-> Reach(chains[e], c), keys |-> T]
      /\ [n |-> Reach(chains[e], c), keys |-> T] \in Chain
  BY <1>1, <1>2, <1>3 DEF Chain, TypeOK
<1>5. e \in Epoch
  BY BoundsNat DEF TypeOK, Epoch
<1>6. evicted' \subseteq Message
  BY <1>1, <1>5 DEF TypeOK, Message
<1> QED
  BY <1>1, <1>2, <1>4, <1>6 DEF TypeOK

(* What can be resolved is neither held nor opened.                        *)
LEMMA ResolvableIsFresh ==
  ASSUME IInv, NEW m \in held \cup opened
  PROVE  ~Resolvable(m)
BY DEF IInv, SpentIsGone, Resolvable, CanResolve

-----------------------------------------------------------------------------
(* A step of the sender changes nothing at the receiver.                   *)
LEMMA SenderStep ==
  ASSUME IInv, Seal \/ RatchetStep
  PROVE  IInv'
<1>1. TypeOK'
  <2>1. epoch' \in Epoch /\ n' \in 0 .. MaxPerEpoch /\ at \in 0 .. epoch'
    BY BoundsNat DEF IInv, TypeOK, Seal, RatchetStep, Epoch
  <2>2. pns' \in [Epoch -> 0 .. MaxPerEpoch]
    BY DEF IInv, TypeOK, Seal, RatchetStep
  <2>3. UNCHANGED <<at, chains, held, opened, evicted>>
    BY DEF Seal, RatchetStep
  <2> QED
    BY <2>1, <2>2, <2>3 DEF IInv, TypeOK
<1>2. SpentIsGone' /\ (held \cap opened = {})' /\ Accounted'
  BY DEF IInv, SpentIsGone, Accounted, Seal, RatchetStep
<1>3. ASSUME NEW e \in DOMAIN chains, e < at PROVE pns'[e] = pns[e]
  <2>1. at \in Nat /\ epoch \in Nat /\ at <= epoch /\ e \in Epoch
    BY BoundsNat DEF IInv, TypeOK, Epoch
  <2>2. pns \in [Epoch -> 0 .. MaxPerEpoch] /\ e # epoch
    BY <1>3, <2>1 DEF IInv, TypeOK, Epoch
  <2> QED
    BY <2>1, <2>2 DEF Seal, RatchetStep
<1>4. Retired'
  BY <1>3 DEF IInv, Retired, Seal, RatchetStep
<1> QED
  BY <1>1, <1>2, <1>4 DEF IInv

(* A key leaves its store, for a message or for a file.                    *)
LEMMA CheckoutStep ==
  ASSUME IInv, NEW m \in Message, OpenMessage(m) \/ OpenFileKey(m)
  PROVE  IInv'
<1> DEFINE e == m[1]
           c == m[2]
           S == KeysTo(chains[e], c) \ {c}
<1>1. /\ e \in DOMAIN chains /\ c \in Counter /\ e \in Epoch /\ m = <<e, c>>
      /\ Keep(e, c, S) /\ Resolvable(m)
      /\ held' \cup opened' = held \cup opened \cup {m}
      /\ \/ held' = held \cup {m} /\ opened' = opened
         \/ held' = held /\ opened' = opened \cup {m}
      /\ UNCHANGED <<epoch, n, pns, at>>
  BY DEF OpenMessage, OpenFileKey, Checkout, Resolvable, Message
<1>2. S \subseteq Counter /\ chains[e] \in Chain
  BY <1>1, StepTypes DEF IInv, TypeOK, Counter
<1>3. /\ DOMAIN chains' = DOMAIN chains
      /\ chains' \in [DOMAIN chains -> Chain]
      /\ \A x \in DOMAIN chains : x # e => chains'[x] = chains[x]
      /\ chains'[e].n = Reach(chains[e], c)
      /\ chains'[e].keys \subseteq S
      /\ evicted' = evicted \cup ({e} \X (S \ chains'[e].keys))
      /\ evicted' \subseteq Message
  BY <1>1, <1>2, KeepEffect DEF IInv
<1>4. m \notin held \cup opened
  BY <1>1, ResolvableIsFresh
<1>5. TypeOK'
  BY <1>1, <1>3 DEF IInv, TypeOK
<1>6. (held \cap opened = {})'
  BY <1>1, <1>4 DEF IInv
<1>7. SpentIsGone'
  <2> SUFFICES ASSUME NEW x \in held' \cup opened'
               PROVE  /\ x[1] <= at
                      /\ x[1] \in DOMAIN chains =>
                           x[2] <= chains'[x[1]].n /\ x[2] \notin chains'[x[1]].keys
    BY <1>1, <1>3 DEF SpentIsGone
  <2>1. x \in Message /\ x = <<x[1], x[2]>>
    BY <1>5 DEF TypeOK, Message
  <2>2. CASE x = m
    BY <1>1, <1>2, <1>3, <2>2 DEF IInv, TypeOK, Reach, Chain, Counter
  <2>3. CASE x # m /\ x[1] = e
    <3>1. x[2] # c /\ x \in held \cup opened
      BY <1>1, <2>1, <2>3
    <3>2. x[2] <= chains[e].n /\ x[2] \notin chains[e].keys
      BY <1>1, <2>3, <3>1 DEF IInv, SpentIsGone
    <3>3. x[2] \notin S
      BY <1>2, <2>1, <3>2 DEF KeysTo, Chain, Message, Counter
    <3> QED
      BY <1>1, <1>2, <1>3, <2>1, <2>3, <3>1, <3>2, <3>3
      DEF IInv, SpentIsGone, Reach, Chain, Message, Counter
  <2>4. CASE x[1] # e
    BY <1>1, <1>3, <2>4 DEF IInv, SpentIsGone
  <2> QED
    BY <2>2, <2>3, <2>4
<1>8. Accounted'
  <2> SUFFICES ASSUME NEW x \in DOMAIN chains, NEW d \in 1 .. chains'[x].n
               PROVE  d \in chains'[x].keys
                        \/ <<x, d>> \in held' \cup opened' \cup evicted'
    BY <1>3 DEF Accounted
  <2>1. CASE x # e
    BY <1>1, <1>3, <2>1 DEF IInv, Accounted
  <2>2. CASE x = e
    <3>1. d \in 1 .. chains[e].n \/ d \in (chains[e].n + 1) .. c
      BY <1>1, <1>2, <1>3, <2>2 DEF Reach, Chain, Counter
    <3>2. CASE d \in 1 .. chains[e].n
      <4>1. d \in chains[e].keys \/ <<e, d>> \in held \cup opened \cup evicted
        BY <1>1, <3>2 DEF IInv, Accounted
      <4>2. d \in chains[e].keys => d \in S \/ <<e, d>> = m
        BY <1>1 DEF KeysTo
      <4> QED
        BY <1>1, <1>3, <2>2, <4>1, <4>2
    <3>3. CASE d \in (chains[e].n + 1) .. c
      <4>1. d \in S \/ <<e, d>> = m
        BY <1>1, <3>3 DEF KeysTo
      <4> QED
        BY <1>1, <1>3, <2>2, <4>1
    <3> QED
      BY <3>1, <3>2, <3>3
  <2> QED
    BY <2>1, <2>2
<1>9. Retired'
  <2>1. chains'[e].n >= chains[e].n /\ chains'[e].n \in Int /\ chains[e].n \in Int
    BY <1>1, <1>2, <1>3 DEF Reach, Chain, Counter
  <2>2. \A x \in DOMAIN chains : x \in Epoch /\ pns[x] \in Int
    BY BoundsNat DEF IInv, TypeOK, Epoch
  <2> QED
    BY <1>1, <1>3, <2>1, <2>2 DEF IInv, Retired
<1> QED
  BY <1>5, <1>6, <1>7, <1>8, <1>9 DEF IInv

(* A key goes back to its store, after a failed decryption or with a file  *)
(* that was given up.                                                      *)
LEMMA PutBackStep ==
  ASSUME IInv, NEW m \in Message, RejectMessage(m) \/ Rollback(m)
  PROVE  IInv'
<1> DEFINE e == m[1]
           c == m[2]
           S == KeysTo(chains[e], c) \cup {c}
<1>1. /\ e \in Epoch /\ c \in Counter /\ m = <<e, c>>
      /\ PutBack(m)
      /\ held' = held \ {m} /\ opened' = opened /\ m \notin opened
      /\ UNCHANGED <<epoch, n, pns, at>>
  <2>1. CASE RejectMessage(m)
    BY <2>1, ResolvableIsFresh DEF RejectMessage, Message
  <2>2. CASE Rollback(m)
    BY <2>2 DEF Rollback, Message, IInv
  <2> QED
    BY <2>1, <2>2
<1>2. CASE e \notin DOMAIN chains
  <2>1. chains' = chains /\ evicted' = evicted
    BY <1>1, <1>2 DEF PutBack
  <2>2. TypeOK' /\ SpentIsGone' /\ (held \cap opened = {})' /\ Retired'
    BY <1>1, <2>1 DEF IInv, TypeOK, SpentIsGone, Retired
  <2>3. Accounted'
    <3> SUFFICES ASSUME NEW x \in DOMAIN chains, NEW d \in 1 .. chains[x].n
                 PROVE  d \in chains[x].keys
                          \/ <<x, d>> \in held' \cup opened' \cup evicted'
      BY <2>1 DEF Accounted
    <3>1. d \in chains[x].keys \/ <<x, d>> \in held \cup opened \cup evicted
      BY DEF IInv, Accounted
    <3>2. <<x, d>> # m
      BY <1>1, <1>2
    <3> QED
      BY <1>1, <2>1, <3>1, <3>2
  <2> QED
    BY <2>2, <2>3 DEF IInv
<1>3. CASE e \in DOMAIN chains
  <2>1. /\ Keep(e, c, S)
        /\ S \subseteq Counter /\ chains[e] \in Chain
    BY <1>1, <1>3, StepTypes DEF PutBack, IInv, TypeOK, Counter
  <2>2. /\ DOMAIN chains' = DOMAIN chains
        /\ chains' \in [DOMAIN chains -> Chain]
        /\ \A x \in DOMAIN chains : x # e => chains'[x] = chains[x]
        /\ chains'[e].n = Reach(chains[e], c)
        /\ chains'[e].keys \subseteq S
        /\ evicted' = evicted \cup ({e} \X (S \ chains'[e].keys))
        /\ evicted' \subseteq Message
    BY <1>1, <1>3, <2>1, KeepEffect DEF IInv
  <2>3. TypeOK'
    BY <1>1, <2>2 DEF IInv, TypeOK
  <2>4. (held \cap opened = {})'
    BY <1>1 DEF IInv
  <2>5. SpentIsGone'
    <3> SUFFICES ASSUME NEW x \in held' \cup opened'
                 PROVE  /\ x[1] <= at
                        /\ x[1] \in DOMAIN chains =>
                             x[2] <= chains'[x[1]].n /\ x[2] \notin chains'[x[1]].keys
      BY <1>1, <2>2 DEF SpentIsGone
    <3>1. x \in Message /\ x = <<x[1], x[2]>>
      BY <2>3 DEF TypeOK, Message
    <3>2. x \in held \cup opened /\ x # m
      BY <1>1
    <3>3. CASE x[1] = e
      <4>1. x[2] # c
        BY <1>1, <3>1, <3>2, <3>3
      <4>2. x[2] <= chains[e].n /\ x[2] \notin chains[e].keys
        BY <1>3, <3>2, <3>3 DEF IInv, SpentIsGone
      <4>3. x[2] \notin S
        BY <2>1, <3>1, <4>1, <4>2 DEF KeysTo, Chain, Message, Counter
      <4> QED
        BY <1>1, <2>1, <2>2, <3>1, <3>2, <3>3, <4>2, <4>3
        DEF IInv, SpentIsGone, Reach, Chain, Message, Counter
    <3>4. CASE x[1] # e
      BY <2>2, <3>2, <3>4 DEF IInv, SpentIsGone
    <3> QED
      BY <3>3, <3>4
  <2>6. Accounted'
    <3> SUFFICES ASSUME NEW x \in DOMAIN chains, NEW d \in 1 .. chains'[x].n
                 PROVE  d \in chains'[x].keys
                          \/ <<x, d>> \in held' \cup opened' \cup evicted'
      BY <2>2 DEF Accounted
    <3>1. CASE x # e
      BY <1>1, <2>2, <3>1 DEF IInv, Accounted
    <3>2. CASE x = e
      <4>1. d \in 1 .. chains[e].n \/ d \in (chains[e].n + 1) .. c
        BY <1>1, <2>1, <2>2, <3>2 DEF Reach, Chain, Counter
      <4>2. d \in S \/ <<e, d>> \in (held \ {m}) \cup opened \cup evicted
        BY <1>1, <3>2, <1>3, <4>1 DEF IInv, Accounted, KeysTo
      <4> QED
        BY <1>1, <2>2, <3>2, <4>2
    <3> QED
      BY <3>1, <3>2
  <2>7. Retired'
    <3>1. chains'[e].n >= chains[e].n /\ chains'[e].n \in Int /\ chains[e].n \in Int
      BY <1>1, <2>1, <2>2 DEF Reach, Chain, Counter
    <3>2. \A x \in DOMAIN chains : x \in Epoch /\ pns[x] \in Int
      BY BoundsNat DEF IInv, TypeOK, Epoch
    <3> QED
      BY <1>1, <2>2, <3>1, <3>2 DEF IInv, Retired
  <2> QED
    BY <2>3, <2>4, <2>5, <2>6, <2>7 DEF IInv
<1> QED
  BY <1>2, <1>3

(* A file is complete: its key was out already.                            *)
LEMMA CommitStep ==
  ASSUME IInv, NEW m \in Message, Commit(m)
  PROVE  IInv'
<1>1. TypeOK' /\ SpentIsGone' /\ (held \cap opened = {})' /\ Retired'
  BY DEF IInv, TypeOK, SpentIsGone, Retired, Commit
<1>2. Accounted'
  BY DEF IInv, Accounted, Commit
<1> QED
  BY <1>1, <1>2 DEF IInv

(* Which epochs stay in the window.                                        *)
LEMMA WindowMembers ==
  ASSUME NEW k
  PROVE  /\ Window(k) \subseteq DOMAIN chains
         /\ \A e \in DOMAIN chains : e >= k - EPOCH_KEEP_WINDOW => e \in Window(k)
BY DEF Window

(* A retired chain keeps what is accounted for; the new one has nothing    *)
(* behind it, and no key of its epoch was out before.                      *)
LEMMA ReceiveStep ==
  ASSUME IInv, ReceiveRatchetStep
  PROVE  IInv'
<1> DEFINE S == KeysTo(chains[at], pns[at])
           kept == Window(at + 1)
<1>1. PICK T \in Cached(S) : /\ chains' = Ratcheted(T)
                             /\ evicted' = evicted \cup ({at} \X (S \ T))
  BY DEF ReceiveRatchetStep
<1>2. /\ at < epoch /\ at' = at + 1 /\ UNCHANGED <<epoch, n, pns, held, opened>>
  BY DEF ReceiveRatchetStep
<1>3. /\ at \in Nat /\ epoch \in Nat /\ epoch \in Epoch /\ at \in Epoch
      /\ at \in DOMAIN chains /\ DOMAIN chains \subseteq 0 .. at
      /\ pns[at] \in 0 .. MaxPerEpoch /\ chains[at] \in Chain
  BY BoundsNat DEF IInv, TypeOK, Epoch
<1>4. /\ S \subseteq Counter /\ T \subseteq S
      /\ Reach(chains[at], pns[at]) \in 0 .. MaxPerEpoch
  BY <1>3, StepTypes, CachedSubset
<1>5. /\ DOMAIN chains' = kept \cup {at + 1}
      /\ chains'[at + 1] = NewChain
      /\ at \in kept => chains'[at] = [n |-> Reach(chains[at], pns[at]), keys |-> T]
      /\ \A e \in kept : e # at => chains'[e] = chains[e]
      /\ kept \subseteq DOMAIN chains /\ kept \subseteq 0 .. at
      /\ \A e \in DOMAIN chains : e >= (at + 1) - EPOCH_KEEP_WINDOW => e \in kept
  <2>1. /\ kept \subseteq DOMAIN chains
        /\ \A e \in DOMAIN chains : e >= (at + 1) - EPOCH_KEEP_WINDOW => e \in kept
    BY DEF Window
  <2>2. /\ kept \subseteq 0 .. at /\ at + 1 \notin kept /\ at # at + 1
    BY <1>3, <2>1
  <2>3. /\ DOMAIN chains' = kept \cup {at + 1}
        /\ \A e \in kept \cup {at + 1} :
             chains'[e] = IF e = at + 1 THEN NewChain
                          ELSE IF e = at
                          THEN [n |-> Reach(chains[at], pns[at]), keys |-> T]
                          ELSE chains[e]
    BY <1>1 DEF Ratcheted
  <2> QED
    BY <2>1, <2>2, <2>3
<1> HIDE DEF kept
<1>6. TypeOK'
  <2>1. chains' \in [DOMAIN chains' -> Chain]
    <3>1. NewChain \in Chain
      BY BoundsNat DEF NewChain, Chain
    <3>2. [n |-> Reach(chains[at], pns[at]), keys |-> T] \in Chain
      BY <1>4 DEF Chain
    <3>3. \A e \in kept : chains[e] \in Chain
      BY <1>5 DEF IInv, TypeOK
    <3>4. chains' = [e \in kept \cup {at + 1} |-> chains'[e]]
      BY <1>1 DEF Ratcheted, kept
    <3>5. \A e \in kept \cup {at + 1} : chains'[e] \in Chain
      BY <1>5, <3>1, <3>2, <3>3
    <3> QED
      BY <1>5, <3>4, <3>5
  <2>2. evicted' \subseteq Message
    BY <1>1, <1>3, <1>4 DEF IInv, TypeOK, Message
  <2>3. at' \in 0 .. epoch' /\ at' \in DOMAIN chains' /\ DOMAIN chains' \subseteq 0 .. at'
    BY <1>2, <1>3, <1>5
  <2> QED
    BY <1>2, <2>1, <2>2, <2>3 DEF IInv, TypeOK
<1>7. SpentIsGone'
  <2> SUFFICES ASSUME NEW x \in held \cup opened
               PROVE  /\ x[1] <= at + 1
                      /\ x[1] \in DOMAIN chains' =>
                           x[2] <= chains'[x[1]].n /\ x[2] \notin chains'[x[1]].keys
    BY <1>2 DEF SpentIsGone
  <2>1. x \in Message /\ x[1] \in Nat /\ x[2] \in Nat
    BY BoundsNat DEF IInv, TypeOK, Message, Epoch, Counter
  <2>2. x[1] <= at /\ x[1] # at + 1
    BY <1>3, <2>1 DEF IInv, SpentIsGone
  <2>3. CASE x[1] = at
    <3>1. x[2] <= chains[at].n /\ x[2] \notin chains[at].keys
      BY <1>3, <2>3 DEF IInv, SpentIsGone
    <3>2. x[2] \notin S /\ x[2] <= Reach(chains[at], pns[at])
      BY <1>3, <2>1, <3>1 DEF KeysTo, Reach, Chain
    <3> QED
      BY <1>3, <1>4, <1>5, <2>1, <2>2, <2>3, <3>2
  <2>4. CASE x[1] # at
    BY <1>3, <1>5, <2>1, <2>2, <2>4 DEF IInv, SpentIsGone
  <2> QED
    BY <2>3, <2>4
<1>8. Accounted'
  <2> SUFFICES ASSUME NEW x \in DOMAIN chains', NEW d \in 1 .. chains'[x].n
               PROVE  d \in chains'[x].keys
                        \/ <<x, d>> \in held \cup opened \cup evicted'
    BY <1>2 DEF Accounted
  <2>1. CASE x = at + 1
    BY <1>5, <2>1 DEF NewChain
  <2>2. CASE x \in kept /\ x = at
    <3>1. d \in 1 .. chains[at].n \/ d \in (chains[at].n + 1) .. pns[at]
      BY <1>3, <1>5, <2>2 DEF Reach, Chain
    <3>2. d \in S \/ <<at, d>> \in held \cup opened \cup evicted
      BY <1>3, <3>1 DEF IInv, Accounted, KeysTo
    <3> QED
      BY <1>1, <1>5, <2>2, <3>2
  <2>3. CASE x \in kept /\ x # at
    BY <1>1, <1>5, <2>3 DEF IInv, Accounted
  <2> QED
    BY <1>5, <2>1, <2>2, <2>3
<1>9. Retired'
  <2>1. ASSUME NEW e \in 0 .. at + 1, e >= (at + 1) - EPOCH_KEEP_WINDOW
        PROVE  e \in DOMAIN chains'
    <3>1. CASE e = at + 1
      BY <1>5, <3>1
    <3>2. CASE e # at + 1
      <4>1. e \in 0 .. at /\ e >= at - EPOCH_KEEP_WINDOW
        BY <1>3, <2>1, <3>2, KeepNat
      <4> QED
        BY <1>5, <2>1, <4>1 DEF IInv, Retired
    <3> QED
      BY <3>1, <3>2
  <2>2. ASSUME NEW e \in DOMAIN chains', e < at + 1
        PROVE  pns[e] <= chains'[e].n
    <3>1. e \in kept /\ e \in 0 .. at
      BY <1>3, <1>5, <2>2
    <3>2. CASE e = at
      BY <1>3, <1>5, <3>1, <3>2 DEF Reach, Chain
    <3>3. CASE e # at
      BY <1>3, <1>5, <3>1, <3>3 DEF IInv, Retired
    <3> QED
      BY <3>2, <3>3
  <2>3. \A e \in 0 .. at' : e >= at' - EPOCH_KEEP_WINDOW => e \in DOMAIN chains'
    BY <1>2, <2>1
  <2>4. \A e \in DOMAIN chains' : e < at' => pns'[e] <= chains'[e].n
    BY <1>2, <2>2
  <2> QED
    BY <2>3, <2>4 DEF Retired
<1> QED
  BY <1>2, <1>6, <1>7, <1>8, <1>9 DEF IInv

(* The invariant is inductive.                                             *)
LEMMA StepInv == IInv /\ [Next]_vars => IInv'
<1> SUFFICES ASSUME IInv, [Next]_vars PROVE IInv'
  OBVIOUS
<1>1. CASE Seal \/ RatchetStep
  BY <1>1, SenderStep
<1>2. CASE ReceiveRatchetStep
  BY <1>2, ReceiveStep
<1>3. ASSUME NEW m \in Message, Receive(m) PROVE IInv'
  BY <1>3, CheckoutStep, PutBackStep DEF Receive
<1>4. ASSUME NEW m \in Message, Settle(m) PROVE IInv'
  BY <1>4, CommitStep, PutBackStep DEF Settle
<1>5. CASE UNCHANGED vars
  BY <1>5 DEF vars, IInv, TypeOK, SpentIsGone, Accounted, Retired
<1> QED
  BY <1>1, <1>2, <1>3, <1>4, <1>5 DEF Next

(* The invariant holds in every reachable state.                           *)
LEMMA Invariance == Spec => []IInv
BY InitInv, StepInv, PTL DEF Spec

-----------------------------------------------------------------------------
(* The state always has its type (class Session).                          *)
THEOREM KeyTypes == Spec => []TypeOK
<1>1. IInv => TypeOK
  BY DEF IInv
<1> QED
  BY <1>1, Invariance, PTL

(* No key is used for a second message, in whatever order messages, files  *)
(* and ratchet steps arrive and however often (_resolveKeyCheckout).       *)
THEOREM KeysAreUsedOnce == Spec => []OpenedOnce
<1>1. IInv => OpenedOnce
  BY ResolvableIsFresh DEF OpenedOnce
<1> QED
  BY <1>1, Invariance, PTL

(* Every message of the keep window that has not been opened can be, until *)
(* a store overflows (receiveRatchetStep, openMessage).                    *)
THEOREM NothingIsLost == Spec => []WithinReach
<1>1. ASSUME IInv PROVE WithinReach
  <2> SUFFICES ASSUME NEW m \in Message, Sealed(m),
                      m[1] \in (at - EPOCH_KEEP_WINDOW) .. at,
                      m \notin held \cup opened \cup evicted
               PROVE  \/ Resolvable(m)
                      \/ m[1] = at /\ m[2] - chains[at].n - 1 > MaxSkip
    BY DEF WithinReach
  <2>1. /\ m[1] \in Nat /\ m[2] \in Nat \ {0} /\ m = <<m[1], m[2]>>
        /\ at \in Nat /\ epoch \in Nat /\ at <= epoch /\ m[1] \in Epoch
    BY <1>1, BoundsNat DEF IInv, TypeOK, Message, Epoch, Counter
  <2>2. m[1] \in DOMAIN chains /\ m[1] \in 0 .. at
    BY <1>1, <2>1, KeepNat DEF IInv, Retired
  <2>3. chains[m[1]].n \in Nat /\ pns[m[1]] \in Nat
    BY <1>1, <2>1, <2>2 DEF IInv, TypeOK, Chain
  <2>4. m[2] <= chains[m[1]].n => m[2] \in chains[m[1]].keys
    BY <1>1, <2>1, <2>2, <2>3 DEF IInv, Accounted
  <2>5. CASE m[1] = at
    BY <2>1, <2>2, <2>3, <2>4, <2>5, StoreLimits DEF Resolvable, CanResolve
  <2>6. CASE m[1] < at
    <3>1. m[2] <= pns[m[1]]
      BY <2>1, <2>6 DEF Sealed
    <3>2. pns[m[1]] <= chains[m[1]].n
      BY <1>1, <2>2, <2>6 DEF IInv, Retired
    <3> QED
      BY <2>1, <2>2, <2>3, <2>4, <3>1, <3>2 DEF Resolvable, CanResolve
  <2> QED
    BY <2>1, <2>2, <2>5, <2>6
<1> QED
  BY <1>1, Invariance, PTL
-----------------------------------------------------------------------------
(* The size of what is kept.  BoundedStores alone is not inductive: that a *)
(* ratchet step leaves few enough chains needs where they are.             *)
StoresInv ==
  /\ DOMAIN chains \subseteq (at - EPOCH_KEEP_WINDOW) .. at
  /\ \A e \in DOMAIN chains : Cardinality(chains[e].keys) <= MaxCache

(* A store that was put in order holds no more than it may.                *)
LEMMA CachedSize == ASSUME NEW S, NEW T \in Cached(S) PROVE Cardinality(T) <= MaxCache
BY StoreLimits DEF Cached

(* A new chain has an empty store.                                         *)
LEMMA NewChainSize == Cardinality(NewChain.keys) <= MaxCache
BY FS_EmptySet, StoreLimits DEF NewChain

(* Keeping a key puts the one store it touches in order.                   *)
LEMMA KeepStores ==
  ASSUME TypeOK, StoresInv, NEW e \in DOMAIN chains, NEW c, NEW S, Keep(e, c, S),
         at' = at
  PROVE  StoresInv'
<1>1. PICK T \in Cached(S) :
        chains' = [chains EXCEPT ![e] = [n |-> Reach(chains[e], c), keys |-> T]]
  BY DEF Keep
<1>2. /\ DOMAIN chains' = DOMAIN chains
      /\ chains'[e].keys = T
      /\ \A x \in DOMAIN chains : x # e => chains'[x] = chains[x]
  BY <1>1 DEF TypeOK
<1> QED
  BY <1>2, CachedSize DEF StoresInv

(* A ratchet step moves the window along and puts the old store in order.  *)
LEMMA RatchetStores ==
  ASSUME TypeOK, StoresInv, ReceiveRatchetStep PROVE StoresInv'
<1>1. PICK T \in Cached(KeysTo(chains[at], pns[at])) : chains' = Ratcheted(T)
  BY DEF ReceiveRatchetStep
<1>2. at' = at + 1 /\ at \in Nat
  BY DEF ReceiveRatchetStep, TypeOK
<1>3. DOMAIN chains' = Window(at + 1) \cup {at + 1}
  BY <1>1 DEF Ratcheted
<1>4. Window(at + 1) \subseteq (at + 1 - EPOCH_KEEP_WINDOW) .. at
  BY <1>2, KeepNat DEF Window, StoresInv
<1>5. DOMAIN chains' \subseteq (at' - EPOCH_KEEP_WINDOW) .. at'
  BY <1>2, <1>3, <1>4, KeepNat
<1>6. ASSUME NEW e \in DOMAIN chains' PROVE Cardinality(chains'[e].keys) <= MaxCache
  <2>1. e \in Window(at + 1) => e \in DOMAIN chains
    BY DEF Window
  <2>2. CASE e = at + 1
    <3>1. chains'[e] = NewChain
      BY <1>1, <1>3, <2>2 DEF Ratcheted
    <3> QED BY <3>1, NewChainSize
  <2>3. CASE e # at + 1 /\ e = at
    <3>1. chains'[e].keys = T
      BY <1>1, <1>3, <2>3 DEF Ratcheted
    <3> QED BY <3>1, CachedSize
  <2>4. CASE e # at + 1 /\ e # at
    <3>1. chains'[e] = chains[e] /\ e \in DOMAIN chains
      BY <1>1, <1>3, <2>1, <2>4 DEF Ratcheted
    <3> QED BY <3>1 DEF StoresInv
  <2> QED BY <2>2, <2>3, <2>4
<1> QED
  BY <1>5, <1>6 DEF StoresInv

(* The receiver starts with one chain.                                     *)
LEMMA InitStores == Init => StoresInv
<1> SUFFICES ASSUME Init PROVE StoresInv
  OBVIOUS
<1>1. DOMAIN chains = {0} /\ chains[0] = NewChain /\ at = 0
  BY DEF Init
<1> QED
  BY <1>1, NewChainSize, KeepNat DEF StoresInv

(* Every step keeps the stores in order.                                   *)
LEMMA StepStores == IInv /\ StoresInv /\ [Next]_vars => StoresInv'
<1> SUFFICES ASSUME TypeOK, StoresInv, [Next]_vars PROVE StoresInv'
  BY DEF IInv
<1>1. CASE Seal \/ RatchetStep \/ UNCHANGED vars
  BY <1>1 DEF Seal, RatchetStep, vars, StoresInv
<1>2. ASSUME NEW m \in Message, Receive(m) PROVE StoresInv'
  <2>1. m[1] \in DOMAIN chains /\ at' = at /\ \E S : Keep(m[1], m[2], S)
    BY <1>2
    DEF Receive, OpenMessage, RejectMessage, OpenFileKey, Checkout, PutBack, Resolvable
  <2> QED BY <2>1, KeepStores
<1>3. ASSUME NEW m \in Message, Settle(m) PROVE StoresInv'
  <2>1. CASE UNCHANGED <<at, chains>>
    BY <2>1 DEF StoresInv
  <2>2. CASE m[1] \in DOMAIN chains /\ at' = at /\ \E S : Keep(m[1], m[2], S)
    BY <2>2, KeepStores
  <2> QED BY <1>3, <2>1, <2>2 DEF Settle, Commit, Rollback, PutBack
<1> QED
  BY <1>1, <1>2, <1>3, RatchetStores DEF Next

(* However long a sender goes on, its receiver keeps a window of chains    *)
(* and a full store for each (receiveRatchetStep, SkippedKeyStore).        *)
THEOREM StoresAreBounded == Spec => []BoundedStores
<1>1. ASSUME TypeOK, StoresInv PROVE BoundedStores
  <2> DEFINE W == (at - EPOCH_KEEP_WINDOW) .. at
  <2>1. at \in Nat
    BY <1>1 DEF TypeOK
  <2>2. IsFiniteSet(W) /\ Cardinality(W) = EPOCH_KEEP_WINDOW + 1
    BY <2>1, KeepNat, FS_Interval
  <2>3. Cardinality(DOMAIN chains) <= EPOCH_KEEP_WINDOW + 1
    BY <1>1, <2>2, FS_Subset DEF StoresInv
  <2> QED BY <1>1, <2>3 DEF BoundedStores, StoresInv
<1>2. IInv => TypeOK
  BY DEF IInv
<1> QED
  BY <1>1, <1>2, InitStores, StepStores, Invariance, PTL DEF Spec
=============================================================================
