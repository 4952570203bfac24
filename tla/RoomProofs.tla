----------------------------- MODULE RoomProofs -----------------------------
(***************************************************************************)
(* Proofs about Room, for any number of users, connections, rotations and  *)
(* departures, in any order.                                               *)
(*                                                                         *)
(* A rotation that fails half way moves roots on and tells nobody, so that *)
(* the steps sent after it are numbered wrongly at the receiver, were they *)
(* to open.  They never do: the root of such a step is one that no         *)
(* receiver ever gets to.  Keys says why.  It is stated for sessions S,    *)
(* the steps P[n] under way to a user n and the seeds B under way, and     *)
(* there is a lemma for each thing a session can do to them.               *)
(*                                                                         *)
(* The last part shows when no rotation fails: a client that did not come  *)
(* back has a root and a ratchet key for each peer it lists (Whole), and   *)
(* a terminal client, whose session is disposed of while it waits in its   *)
(* lobby, never reads the list of members a second time (OneEntry).        *)
(***************************************************************************)
EXTENDS Room, Induction, SequenceTheorems, FiniteSetTheorems

StepType == [root : RootKey, ek : RatchetKey, seed : Seed]
SealedType == [ek : SealKey, epoch : Nat, seed : Seed]

(* The name the server knows a connection by.                              *)
Called(c) == Canon[UserOf[c]]

(* The seed a root key has got to, one for each step.                      *)
Top(root) == [sid |-> root.seed.sid, nth |-> root.seed.nth + root.steps]

(* A step from a root that is ahead of its seed.                           *)
Broken(p) == p.seed.nth <= Top(p.root).nth

(* The user has drawn this seed, in this session or in an earlier one.     *)
Drawn(S, seed) ==
  LET t == S[seed.sid[1]] IN
  \/ seed.sid[2] < t.sid[2]
  \/ seed.sid = t.sid /\ (t.disposed \/ seed.nth <= t.epoch)

(* A session's own roots start from its own seeds and are not behind.      *)
Rooted(s) ==
  \A n \in Name : s.encap[n] # Null =>
    /\ s.encap[n].seed.sid = s.sid
    /\ s.encap[n].seed.nth <= s.epoch /\ s.epoch <= Top(s.encap[n]).nth

(* What it holds of its peers it has under one number.                     *)
Numbered(s) ==
  \A n \in Name :
    /\ s.decap[n] = Null => s.sender[n] = Null
    /\ s.decap[n] # Null => s.sender[n] = [epoch |-> Top(s.decap[n]).nth,
                                         seed |-> Top(s.decap[n])]

SessionsOK(S) ==
  \A c \in Conn : S[c].sid[1] = c /\ Rooted(S[c]) /\ Numbered(S[c])
ChainsDrawn(S) ==
  \A c \in Conn : \A n \in Name :
    S[c].decap[n] # Null => Drawn(S, Top(S[c].decap[n]))
StepsDrawn(S, P) ==
  \A n \in Name : \A p \in P[n] :
    /\ Drawn(S, p.seed) /\ p.root.seed.sid = p.seed.sid
    /\ p.root.seed.nth < p.seed.nth /\ p.seed.nth <= Top(p.root).nth + 1
SeedsDrawn(S, B) == \A b \in B : b.epoch = b.seed.nth /\ Drawn(S, b.seed)

(* Once a root has sent a broken step it stays ahead.                      *)
StaysBroken(S, P) ==
  \A c \in Conn : \A n \in Name : \A p \in P[n] :
    (/\ ~S[c].disposed /\ Broken(p)
     /\ S[c].encap[n] # Null /\ S[c].encap[n].seed = p.root.seed) =>
      S[c].epoch < Top(S[c].encap[n]).nth
(* Hence of the steps under way from one root the good ones come first,    *)
GoodFirst(P) ==
  \A n \in Name : \A g, p \in P[n] :
    (~Broken(g) /\ Broken(p) /\ g.root.seed = p.root.seed) =>
      g.seed.nth < p.seed.nth
(* and no receiver can get to the root of a broken one.                    *)
NeverReached(S, P) ==
  \A c \in Conn : Called(c) \in Name =>
   \A p \in P[Called(c)] : \A m \in Name :
    (Broken(p) /\ S[c].decap[m] # Null /\ S[c].decap[m].seed = p.root.seed) =>
      Top(S[c].decap[m]).nth < p.seed.nth

Keys(S, P, B) ==
  /\ S \in [Conn -> SessionType] /\ P \in [Name -> SUBSET StepType]
  /\ B \subseteq SealedType
  /\ SessionsOK(S) /\ ChainsDrawn(S) /\ StepsDrawn(S, P) /\ SeedsDrawn(S, B)
  /\ StaysBroken(S, P) /\ GoodFirst(P) /\ NeverReached(S, P)

-----------------------------------------------------------------------------
(* What a session does.                                                    *)

(* t goes on where s was, or is a later session.                           *)
Later(s, t) ==
  /\ t.sid[1] = s.sid[1]
  /\ \/ s.sid[2] < t.sid[2]
     \/ s.sid = t.sid /\ (s.disposed => t.disposed) /\ (t.disposed \/ s.epoch <= t.epoch)

(* What was drawn stays so.                                                *)
LEMMA DrawnStays ==
  ASSUME NEW S \in [Conn -> SessionType], NEW c \in Conn, NEW t \in SessionType,
         NEW seed \in Seed, SessionsOK(S), Later(S[c], t), Drawn(S, seed)
  PROVE  Drawn([S EXCEPT ![c] = t], seed)
<1>1. /\ seed.sid \in Conn \X Nat /\ S[c].sid \in Conn \X Nat /\ t.sid \in Conn \X Nat
      /\ S[c].epoch \in Nat /\ t.epoch \in Nat /\ seed.nth \in Nat
  BY DEF Seed, Sid, SessionType
<1>2. /\ seed.sid[1] \in Conn /\ seed.sid[2] \in Nat /\ S[c].sid[2] \in Nat
      /\ t.sid[2] \in Nat
  BY <1>1
<1>3. CASE seed.sid[1] # c
  BY <1>2, <1>3 DEF Drawn
<1>4. CASE seed.sid[1] = c
  <2>1. [S EXCEPT ![c] = t][seed.sid[1]] = t /\ S[seed.sid[1]] = S[c]
    BY <1>4
  <2>2. Drawn(S, seed) <=> \/ seed.sid[2] < S[c].sid[2]
                           \/ seed.sid = S[c].sid /\ (S[c].disposed \/ seed.nth <= S[c].epoch)
    BY <2>1 DEF Drawn
  <2>3. Drawn([S EXCEPT ![c] = t], seed)
        <=> \/ seed.sid[2] < t.sid[2]
            \/ seed.sid = t.sid /\ (t.disposed \/ seed.nth <= t.epoch)
    BY <2>1 DEF Drawn
  <2>4. CASE S[c].sid[2] < t.sid[2]
    BY <1>1, <1>2, <2>2, <2>3, <2>4
  <2>5. CASE S[c].sid = t.sid /\ (S[c].disposed => t.disposed)
             /\ (t.disposed \/ S[c].epoch <= t.epoch)
    BY <1>1, <1>2, <2>2, <2>3, <2>5
  <2> QED BY <2>4, <2>5 DEF Later
<1> QED BY <1>3, <1>4

(* What is under way, and what the clients hold, stays drawn.              *)
LEMMA WorldStays ==
  ASSUME NEW S, NEW P, NEW B, Keys(S, P, B), NEW c \in Conn, NEW t \in SessionType,
         Later(S[c], t)
  PROVE  /\ [S EXCEPT ![c] = t] \in [Conn -> SessionType]
         /\ StepsDrawn([S EXCEPT ![c] = t], P) /\ SeedsDrawn([S EXCEPT ![c] = t], B)
         /\ \A d \in Conn : \A n \in Name :
              S[d].decap[n] # Null => Drawn([S EXCEPT ![c] = t], Top(S[d].decap[n]))
<1> DEFINE S2 == [S EXCEPT ![c] = t]
<1>1. S \in [Conn -> SessionType] /\ SessionsOK(S) /\ S2 \in [Conn -> SessionType]
  BY DEF Keys
<1>2. ASSUME NEW seed \in Seed, Drawn(S, seed) PROVE Drawn(S2, seed)
  BY <1>1, <1>2, DrawnStays
<1> HIDE DEF S2
<1>3. StepsDrawn(S2, P)
  <2> SUFFICES ASSUME NEW n \in Name, NEW p \in P[n]
               PROVE  /\ Drawn(S2, p.seed) /\ p.root.seed.sid = p.seed.sid
                      /\ p.root.seed.nth < p.seed.nth
                      /\ p.seed.nth <= Top(p.root).nth + 1
    BY DEF StepsDrawn
  <2>1. /\ Drawn(S, p.seed) /\ p.root.seed.sid = p.seed.sid
        /\ p.root.seed.nth < p.seed.nth /\ p.seed.nth <= Top(p.root).nth + 1
    BY DEF Keys, StepsDrawn
  <2>2. p.seed \in Seed
    BY DEF Keys, StepType
  <2> QED BY <1>2, <2>1, <2>2
<1>4. SeedsDrawn(S2, B)
  <2> SUFFICES ASSUME NEW b \in B PROVE b.epoch = b.seed.nth /\ Drawn(S2, b.seed)
    BY DEF SeedsDrawn
  <2>1. b.epoch = b.seed.nth /\ Drawn(S, b.seed) /\ b.seed \in Seed
    BY DEF Keys, SeedsDrawn, SealedType
  <2> QED BY <1>2, <2>1
<1>5. ASSUME NEW d \in Conn, NEW n \in Name, S[d].decap[n] # Null
      PROVE  Drawn(S2, Top(S[d].decap[n]))
  <2>1. S[d].decap[n] \in RootKey
    BY <1>1, <1>5 DEF SessionType
  <2>2. Top(S[d].decap[n]) \in Seed
    BY <2>1 DEF RootKey, Seed, Top
  <2>3. Drawn(S, Top(S[d].decap[n]))
    BY <1>5 DEF Keys, ChainsDrawn
  <2> QED BY <1>2, <2>2, <2>3
<1> QED BY <1>1, <1>3, <1>4, <1>5 DEF S2

(* Frames may be read or lost.                                             *)
LEMMA KeysFewer ==
  ASSUME NEW S, NEW P, NEW B, Keys(S, P, B), NEW P2 \in [Name -> SUBSET StepType],
         NEW B2, \A n \in Name : P2[n] \subseteq P[n], B2 \subseteq B
  PROVE  Keys(S, P2, B2)
<1>1. StepsDrawn(S, P2) /\ SeedsDrawn(S, B2) /\ B2 \subseteq SealedType
  BY DEF Keys, StepsDrawn, SeedsDrawn
<1>2. StaysBroken(S, P2) /\ GoodFirst(P2) /\ NeverReached(S, P2)
  <2>1. StaysBroken(S, P2)
    BY DEF Keys, StaysBroken
  <2>2. GoodFirst(P2)
    BY DEF Keys, GoodFirst
  <2>3. NeverReached(S, P2)
    BY DEF Keys, NeverReached
  <2> QED BY <2>1, <2>2, <2>3
<1> QED BY <1>1, <1>2 DEF Keys

(* The current seed may be sealed to anybody.                              *)
LEMMA KeysSealed ==
  ASSUME NEW S, NEW P, NEW B, Keys(S, P, B), NEW c \in Conn,
         NEW B2 \in SUBSET SealedType,
         \A b \in B2 : b \in B \/ (b.epoch = S[c].epoch /\ b.seed = CurrentSeed(S[c]))
  PROVE  Keys(S, P, B2)
<1>1. ASSUME NEW b \in B2, b.epoch = S[c].epoch, b.seed = CurrentSeed(S[c])
      PROVE  b.epoch = b.seed.nth /\ Drawn(S, b.seed)
  <2>1. S[c].sid[1] = c /\ S[c].epoch \in Nat
    BY DEF Keys, SessionsOK, SessionType
  <2>2. b.seed.sid = S[c].sid /\ b.seed.nth = S[c].epoch
    BY <1>1 DEF CurrentSeed
  <2> QED BY <1>1, <2>1, <2>2 DEF Drawn
<1>2. SeedsDrawn(S, B2)
  BY <1>1 DEF Keys, SeedsDrawn
<1> QED BY <1>2 DEF Keys

(* A step of one session keeps Keys, with nothing sent, if it does so for  *)
(* what that session itself holds.                                         *)
LEMMA KeysStep ==
  ASSUME NEW S, NEW P, NEW B, Keys(S, P, B), NEW c \in Conn, NEW t \in SessionType,
         Later(S[c], t), Rooted(t), Numbered(t),
         \A n \in Name : t.decap[n] # Null =>
           Drawn([S EXCEPT ![c] = t], Top(t.decap[n])),
         \A n \in Name : \A p \in P[n] :
           (/\ ~t.disposed /\ Broken(p)
            /\ t.encap[n] # Null /\ t.encap[n].seed = p.root.seed) =>
             t.epoch < Top(t.encap[n]).nth,
         Called(c) \in Name => \A p \in P[Called(c)] : \A m \in Name :
           (Broken(p) /\ t.decap[m] # Null /\ t.decap[m].seed = p.root.seed) =>
             Top(t.decap[m]).nth < p.seed.nth
  PROVE  Keys([S EXCEPT ![c] = t], P, B)
<1> DEFINE S2 == [S EXCEPT ![c] = t]
<1>1. /\ S2 \in [Conn -> SessionType] /\ StepsDrawn(S2, P) /\ SeedsDrawn(S2, B)
      /\ \A d \in Conn : \A n \in Name :
              S[d].decap[n] # Null => Drawn(S2, Top(S[d].decap[n]))
  BY WorldStays
<1>2. S \in [Conn -> SessionType] /\ P \in [Name -> SUBSET StepType]
      /\ B \subseteq SealedType /\ SessionsOK(S)
      /\ StaysBroken(S, P) /\ GoodFirst(P) /\ NeverReached(S, P)
  BY DEF Keys
<1>3. S2[c] = t /\ \A d \in Conn \ {c} : S2[d] = S[d]
  BY <1>2
<1>4. \A n \in Name : t.decap[n] # Null => Drawn(S2, Top(t.decap[n]))
  OBVIOUS
<1> HIDE DEF S2
<1>5. SessionsOK(S2)
  <2>1. S[c].sid[1] = c
    BY <1>2 DEF SessionsOK
  <2>2. t.sid[1] = c
    BY <2>1 DEF Later
  <2> QED BY <1>2, <1>3, <2>2 DEF SessionsOK
<1>6. ChainsDrawn(S2)
  BY <1>1, <1>3, <1>4 DEF ChainsDrawn
<1>7. StaysBroken(S2, P)
  <2> SUFFICES ASSUME NEW d \in Conn, NEW n \in Name, NEW p \in P[n], Broken(p),
                      ~S2[d].disposed, S2[d].encap[n] # Null, S2[d].encap[n].seed = p.root.seed
               PROVE  S2[d].epoch < Top(S2[d].encap[n]).nth
    BY DEF StaysBroken
  <2>1. CASE d = c
    BY <1>3, <2>1
  <2>2. CASE d # c
    BY <1>2, <1>3, <2>2 DEF StaysBroken
  <2> QED BY <2>1, <2>2
<1>8. NeverReached(S2, P)
  <2> SUFFICES ASSUME NEW d \in Conn, Called(d) \in Name, NEW p \in P[Called(d)],
                      NEW m \in Name, Broken(p),
                      S2[d].decap[m] # Null, S2[d].decap[m].seed = p.root.seed
               PROVE  Top(S2[d].decap[m]).nth < p.seed.nth
    BY DEF NeverReached
  <2>1. CASE d = c
    BY <1>3, <2>1
  <2>2. CASE d # c
    BY <1>2, <1>3, <2>2 DEF NeverReached
  <2> QED BY <2>1, <2>2
<1> QED BY <1>1, <1>2, <1>5, <1>6, <1>7, <1>8 DEF Keys, S2

(* A session forgets, is disposed of, replaced, or has nothing to do with  *)
(* what is said here.                                                      *)
LEMMA KeysForget ==
  ASSUME NEW S, NEW P, NEW B, Keys(S, P, B), NEW c \in Conn, NEW t \in SessionType,
         Later(S[c], t),
         \A n \in Name : \/ t.encap[n] = Null
                         \/ /\ t.encap[n] = S[c].encap[n]
                            /\ t.sid = S[c].sid /\ t.epoch = S[c].epoch,
         \A n \in Name : \/ t.decap[n] = Null /\ t.sender[n] = Null
                         \/ t.decap[n] = S[c].decap[n] /\ t.sender[n] = S[c].sender[n]
  PROVE  Keys([S EXCEPT ![c] = t], P, B)
<1>1. Rooted(S[c]) /\ Numbered(S[c]) /\ StaysBroken(S, P) /\ NeverReached(S, P)
  BY DEF Keys, SessionsOK
<1>2. Rooted(t)
  BY <1>1 DEF Rooted
<1>3. Numbered(t)
  BY <1>1 DEF Numbered
<1>4. \A n \in Name : t.decap[n] # Null => Drawn([S EXCEPT ![c] = t], Top(t.decap[n]))
  BY WorldStays
<1>5. \A n \in Name : \A p \in P[n] :
        (/\ ~t.disposed /\ Broken(p)
         /\ t.encap[n] # Null /\ t.encap[n].seed = p.root.seed) =>
           t.epoch < Top(t.encap[n]).nth
  <2>1. ASSUME NEW n \in Name, t.encap[n] # Null, ~t.disposed
        PROVE  ~S[c].disposed
    <3>1. t.sid = S[c].sid /\ S[c].sid \in Conn \X Nat
      BY <2>1 DEF Keys, SessionType, Sid
    <3>2. ~(S[c].sid[2] < t.sid[2])
      BY <3>1
    <3> QED BY <2>1, <3>2 DEF Later
  <2> QED BY <1>1, <2>1 DEF StaysBroken
<1>6. Called(c) \in Name => \A p \in P[Called(c)] : \A m \in Name :
        (Broken(p) /\ t.decap[m] # Null /\ t.decap[m].seed = p.root.seed) =>
           Top(t.decap[m]).nth < p.seed.nth
  BY <1>1 DEF NeverReached
<1> QED BY <1>2, <1>3, <1>4, <1>5, <1>6, KeysStep

(* Our seed is sealed for n: a root starts from it, and no step from this  *)
(* seed is under way yet.                                                  *)
LEMMA KeysWrap ==
  ASSUME NEW S, NEW P, NEW B, Keys(S, P, B), NEW c \in Conn, NEW t \in SessionType,
         NEW n \in Name, t.sid = S[c].sid, t.epoch = S[c].epoch,
         t.disposed = S[c].disposed, t.decap = S[c].decap, t.sender = S[c].sender,
         t.encap = [S[c].encap EXCEPT ![n] = Root(CurrentSeed(S[c]))]
  PROVE  Keys([S EXCEPT ![c] = t], P, B)
<1>1. /\ Rooted(S[c]) /\ Numbered(S[c]) /\ StaysBroken(S, P) /\ NeverReached(S, P)
      /\ StepsDrawn(S, P) /\ S[c] \in SessionType /\ S[c].sid[1] = c
      /\ P[n] \subseteq StepType
  BY DEF Keys, SessionsOK
<1>2. S[c].epoch \in Nat /\ S[c].sid \in Sid /\ S[c].encap \in [Name -> RootKey \cup {Null}]
  BY <1>1 DEF SessionType
<1>3. Later(S[c], t)
  BY <1>2 DEF Later
<1> DEFINE r == t.encap[n]
<1>4. /\ r.seed.sid = S[c].sid /\ r.seed.nth = S[c].epoch /\ r.steps = 0
      /\ \A m \in Name : m # n => t.encap[m] = S[c].encap[m]
  BY <1>2 DEF Root, CurrentSeed
<1>5. Top(r).nth = S[c].epoch
  BY <1>2, <1>4 DEF Top
<1> HIDE DEF r
<1>6. Rooted(t)
  <2> SUFFICES ASSUME NEW m \in Name, t.encap[m] # Null
               PROVE  /\ t.encap[m].seed.sid = t.sid
                      /\ t.encap[m].seed.nth <= t.epoch
                      /\ t.epoch <= Top(t.encap[m]).nth
    BY DEF Rooted
  <2>1. CASE m = n
    BY <1>2, <1>4, <1>5, <2>1 DEF r
  <2>2. CASE m # n
    BY <1>1, <1>4, <2>2 DEF Rooted
  <2> QED BY <2>1, <2>2
<1>7. Numbered(t)
  BY <1>1 DEF Numbered
<1>8. \A m \in Name : t.decap[m] # Null => Drawn([S EXCEPT ![c] = t], Top(t.decap[m]))
  BY <1>3, WorldStays
<1>9. ASSUME NEW m \in Name, NEW p \in P[m], Broken(p), t.encap[m] # Null,
             ~t.disposed, t.encap[m].seed = p.root.seed
      PROVE  t.epoch < Top(t.encap[m]).nth
  <2>1. CASE m # n
    BY <1>1, <1>4, <1>9, <2>1 DEF StaysBroken
  <2>2. CASE m = n
    <3>1. /\ Drawn(S, p.seed) /\ p.root.seed.sid = p.seed.sid
          /\ p.root.seed.nth < p.seed.nth
      BY <1>1, <2>2, <1>9 DEF StepsDrawn
    <3>2. p.root.seed.sid = S[c].sid /\ p.root.seed.nth = S[c].epoch
      BY <1>4, <1>9, <2>2 DEF r
    <3>3. p.seed \in Seed
      BY <1>1, <2>2, <1>9 DEF StepType
    <3>4. p.seed.nth \in Nat /\ p.seed.sid = S[c].sid /\ S[p.seed.sid[1]] = S[c]
          /\ S[c].sid[2] \in Nat
      BY <1>1, <1>2, <3>1, <3>2, <3>3 DEF Seed, Sid
    <3>5. S[c].disposed
      BY <1>2, <3>1, <3>2, <3>4 DEF Drawn
    <3> QED BY <1>9, <3>5
  <2> QED BY <2>1, <2>2
<1>10. Called(c) \in Name => \A p \in P[Called(c)] : \A m \in Name :
        (Broken(p) /\ t.decap[m] # Null /\ t.decap[m].seed = p.root.seed) =>
           Top(t.decap[m]).nth < p.seed.nth
  BY <1>1 DEF NeverReached
<1> QED BY <1>3, <1>6, <1>7, <1>8, <1>9, <1>10, KeysStep

(* A rotation fails half way: some roots move on.                          *)
LEMMA KeysBroken ==
  ASSUME NEW S, NEW P, NEW B, Keys(S, P, B), NEW c \in Conn, NEW t \in SessionType,
         NEW N \in SUBSET Name, \A n \in N : S[c].encap[n] # Null,
         t.sid = S[c].sid, t.epoch = S[c].epoch,
         t.disposed = S[c].disposed, t.decap = S[c].decap, t.sender = S[c].sender,
         t.encap = [n \in Name |-> IF n \in N THEN NextRoot(S[c].encap[n])
                                              ELSE S[c].encap[n]]
  PROVE  Keys([S EXCEPT ![c] = t], P, B)
<1>1. /\ Rooted(S[c]) /\ Numbered(S[c]) /\ StaysBroken(S, P) /\ NeverReached(S, P)
      /\ S[c] \in SessionType
  BY DEF Keys, SessionsOK
<1>2. S[c].epoch \in Nat /\ S[c].sid \in Sid /\ S[c].encap \in [Name -> RootKey \cup {Null}]
  BY <1>1 DEF SessionType
<1>3. Later(S[c], t)
  BY <1>2 DEF Later
<1>4. ASSUME NEW n \in Name, t.encap[n] # Null
      PROVE  /\ S[c].encap[n] # Null /\ t.encap[n].seed = S[c].encap[n].seed
             /\ Top(t.encap[n]).nth \in Nat /\ Top(S[c].encap[n]).nth \in Nat
             /\ Top(S[c].encap[n]).nth <= Top(t.encap[n]).nth
  <2>1. S[c].encap[n] # Null
    BY <1>4
  <2>2. S[c].encap[n] \in RootKey
    BY <1>2, <2>1
  <2>3. /\ S[c].encap[n].seed.nth \in Nat /\ S[c].encap[n].steps \in Nat
    BY <2>2 DEF RootKey, Seed
  <2>4. CASE n \in N
    <3>1. t.encap[n] = NextRoot(S[c].encap[n])
      BY <2>4
    <3>2. t.encap[n].seed = S[c].encap[n].seed /\ t.encap[n].steps = S[c].encap[n].steps + 1
      BY <3>1, <2>2 DEF NextRoot, RootKey
    <3> QED BY <2>1, <2>3, <3>2 DEF Top
  <2>5. CASE n \notin N
    BY <2>1, <2>3, <2>5 DEF Top
  <2> QED BY <2>4, <2>5
<1>5. Rooted(t)
  <2> SUFFICES ASSUME NEW m \in Name, t.encap[m] # Null
               PROVE  /\ t.encap[m].seed.sid = t.sid
                      /\ t.encap[m].seed.nth <= t.epoch
                      /\ t.epoch <= Top(t.encap[m]).nth
    BY DEF Rooted
  <2>1. /\ S[c].encap[m] # Null /\ t.encap[m].seed = S[c].encap[m].seed
        /\ Top(t.encap[m]).nth \in Nat /\ Top(S[c].encap[m]).nth \in Nat
        /\ Top(S[c].encap[m]).nth <= Top(t.encap[m]).nth
    BY <1>4
  <2>2. /\ S[c].encap[m].seed.sid = S[c].sid /\ S[c].encap[m].seed.nth <= S[c].epoch
        /\ S[c].epoch <= Top(S[c].encap[m]).nth
    BY <1>1, <2>1 DEF Rooted
  <2> QED BY <1>2, <2>1, <2>2
<1>6. Numbered(t)
  BY <1>1 DEF Numbered
<1>7. \A m \in Name : t.decap[m] # Null => Drawn([S EXCEPT ![c] = t], Top(t.decap[m]))
  BY <1>3, WorldStays
<1>8. ASSUME NEW m \in Name, NEW p \in P[m], ~t.disposed, Broken(p),
             t.encap[m] # Null, t.encap[m].seed = p.root.seed
      PROVE  t.epoch < Top(t.encap[m]).nth
  <2>1. /\ S[c].encap[m] # Null /\ t.encap[m].seed = S[c].encap[m].seed
        /\ Top(t.encap[m]).nth \in Nat /\ Top(S[c].encap[m]).nth \in Nat
        /\ Top(S[c].encap[m]).nth <= Top(t.encap[m]).nth
    BY <1>4, <1>8
  <2>2. S[c].epoch < Top(S[c].encap[m]).nth
    BY <1>1, <1>8, <2>1 DEF StaysBroken
  <2> QED BY <1>2, <2>1, <2>2
<1>9. Called(c) \in Name => \A p \in P[Called(c)] : \A m \in Name :
        (Broken(p) /\ t.decap[m] # Null /\ t.decap[m].seed = p.root.seed) =>
           Top(t.decap[m]).nth < p.seed.nth
  BY <1>1 DEF NeverReached
<1> QED BY <1>3, <1>5, <1>6, <1>7, <1>8, <1>9, KeysStep

(* A peer's seed is opened: it has been drawn before every step from it.   *)
LEMMA KeysUnwrap ==
  ASSUME NEW S, NEW P, NEW B, Keys(S, P, B), NEW c \in Conn, NEW t \in SessionType,
         NEW f \in Name, NEW b \in B,
         t.sid = S[c].sid, t.epoch = S[c].epoch,
         t.disposed = S[c].disposed, t.encap = S[c].encap,
         t.decap = [S[c].decap EXCEPT ![f] = Root(b.seed)],
         t.sender = [S[c].sender EXCEPT ![f] = [epoch |-> b.epoch, seed |-> b.seed]]
  PROVE  Keys([S EXCEPT ![c] = t], P, B)
<1>1. /\ Rooted(S[c]) /\ Numbered(S[c]) /\ StaysBroken(S, P) /\ NeverReached(S, P)
      /\ StepsDrawn(S, P) /\ S[c] \in SessionType /\ b \in SealedType
      /\ P \in [Name -> SUBSET StepType]
      /\ b.epoch = b.seed.nth /\ Drawn(S, b.seed) /\ S \in [Conn -> SessionType]
      /\ SessionsOK(S)
  BY DEF Keys, SessionsOK, SeedsDrawn
<1>2. /\ S[c].epoch \in Nat /\ S[c].sid \in Sid /\ b.seed \in Seed
      /\ S[c].decap \in [Name -> RootKey \cup {Null}]
      /\ S[c].sender \in [Name -> Chain \cup {Null}]
  BY <1>1 DEF SessionType, SealedType
<1>3. Later(S[c], t)
  BY <1>2 DEF Later
<1>4. /\ t.decap[f] = Root(b.seed) /\ t.sender[f] = [epoch |-> b.epoch, seed |-> b.seed]
      /\ \A m \in Name : m # f => t.decap[m] = S[c].decap[m] /\ t.sender[m] = S[c].sender[m]
  BY <1>2
<1>5. Root(b.seed) \in RootKey /\ Root(b.seed).seed = b.seed /\ Top(Root(b.seed)) = b.seed
  <2>1. /\ Root(b.seed) \in RootKey /\ Root(b.seed).seed = b.seed
        /\ Root(b.seed).steps = 0
    BY <1>2 DEF Root, RootKey
  <2>2. b.seed = [sid |-> b.seed.sid, nth |-> b.seed.nth] /\ b.seed.nth \in Nat
    BY <1>2 DEF Seed
  <2>3. b.seed.nth + 0 = b.seed.nth
    BY <2>2
  <2> QED BY <2>1, <2>2, <2>3 DEF Top
<1>6. Rooted(t)
  BY <1>1 DEF Rooted
<1>7. Numbered(t)
  <2> SUFFICES ASSUME NEW m \in Name
               PROVE  /\ t.decap[m] = Null => t.sender[m] = Null
                      /\ t.decap[m] # Null =>
                           t.sender[m] = [epoch |-> Top(t.decap[m]).nth,
                                          seed |-> Top(t.decap[m])]
    BY DEF Numbered
  <2>1. CASE m = f
    <3>1. t.decap[m] # Null
      BY <1>4, <1>5, <2>1, NullIsNoKey
    <3>2. Top(t.decap[m]) = b.seed
      BY <1>4, <1>5, <2>1
    <3>3. t.sender[m] = [epoch |-> b.seed.nth, seed |-> b.seed]
      BY <1>1, <1>4, <2>1
    <3> QED BY <3>1, <3>2, <3>3
  <2>2. CASE m # f
    BY <1>1, <1>4, <2>2 DEF Numbered
  <2> QED BY <2>1, <2>2
<1>8. ASSUME NEW m \in Name, t.decap[m] # Null
      PROVE  Drawn([S EXCEPT ![c] = t], Top(t.decap[m]))
  <2>1. CASE m = f
    <3>1. Drawn([S EXCEPT ![c] = t], b.seed)
      BY <1>1, <1>2, <1>3, DrawnStays
    <3> QED BY <3>1, <1>4, <1>5, <2>1
  <2>2. CASE m # f
    BY <1>3, <1>4, <1>8, <2>2, WorldStays
  <2> QED BY <2>1, <2>2
<1>9. \A m \in Name : \A p \in P[m] :
        (/\ ~t.disposed /\ Broken(p)
         /\ t.encap[m] # Null /\ t.encap[m].seed = p.root.seed) =>
           t.epoch < Top(t.encap[m]).nth
  BY <1>1 DEF StaysBroken
<1>10. ASSUME Called(c) \in Name, NEW p \in P[Called(c)], NEW m \in Name, Broken(p),
              t.decap[m] # Null, t.decap[m].seed = p.root.seed
       PROVE  Top(t.decap[m]).nth < p.seed.nth
  <2>1. CASE m = f
    <3>1. p.root.seed.nth < p.seed.nth
      BY <1>1, <1>10 DEF StepsDrawn
    <3>2. p.root.seed = b.seed /\ Top(t.decap[m]) = b.seed
      BY <1>4, <1>5, <1>10, <2>1
    <3> QED BY <3>1, <3>2
  <2>2. CASE m # f
    BY <1>1, <1>4, <1>10, <2>2 DEF NeverReached
  <2> QED BY <2>1, <2>2
<1> QED BY <1>3, <1>6, <1>7, <1>8, <1>9, <1>10, KeysStep

(* A step is opened.  It is a good one, since no receiver gets to the root *)
(* of a broken one, and those that are broken come later.                  *)
LEMMA KeysOpen ==
  ASSUME NEW S, NEW P, NEW B, Keys(S, P, B), NEW c \in Conn, NEW t \in SessionType,
         NEW f \in Name, Called(c) \in Name, NEW p \in P[Called(c)],
         S[c].decap[f] # Null, p.root = S[c].decap[f],
         t.sid = S[c].sid, t.epoch = S[c].epoch,
         t.disposed = S[c].disposed, t.encap = S[c].encap,
         t.decap = [S[c].decap EXCEPT ![f] = NextRoot(S[c].decap[f])],
         t.sender = [S[c].sender EXCEPT ![f] =
                       [epoch |-> S[c].sender[f].epoch + 1, seed |-> p.seed]]
  PROVE  Keys([S EXCEPT ![c] = t], P, B)
<1>1. /\ Rooted(S[c]) /\ Numbered(S[c]) /\ StaysBroken(S, P) /\ NeverReached(S, P)
      /\ GoodFirst(P) /\ S[c] \in SessionType /\ p \in StepType
      /\ P \in [Name -> SUBSET StepType]
      /\ S \in [Conn -> SessionType] /\ SessionsOK(S)
  BY DEF Keys, SessionsOK
<1>2. /\ Drawn(S, p.seed) /\ p.root.seed.sid = p.seed.sid
      /\ p.root.seed.nth < p.seed.nth /\ p.seed.nth <= Top(p.root).nth + 1
  BY DEF Keys, StepsDrawn
<1>3. /\ S[c].epoch \in Nat /\ S[c].sid \in Sid /\ p.seed \in Seed /\ p.root \in RootKey
      /\ S[c].decap \in [Name -> RootKey \cup {Null}]
      /\ S[c].sender \in [Name -> Chain \cup {Null}]
  BY <1>1 DEF SessionType, StepType
<1>4. Later(S[c], t)
  BY <1>3 DEF Later
<1>5. /\ t.decap[f] = NextRoot(p.root)
      /\ t.sender[f] = [epoch |-> S[c].sender[f].epoch + 1, seed |-> p.seed]
      /\ \A m \in Name : m # f => t.decap[m] = S[c].decap[m] /\ t.sender[m] = S[c].sender[m]
  BY <1>3
<1>6. /\ p.root.seed \in Seed /\ p.root.seed.nth \in Nat /\ p.root.steps \in Nat
      /\ p.seed.nth \in Nat
  BY <1>3 DEF RootKey, Seed
<1>7. Top(p.root).nth = p.root.seed.nth + p.root.steps /\ Top(p.root).sid = p.root.seed.sid
  BY DEF Top
<1>8. ~Broken(p)
  <2>1. SUFFICES ASSUME Broken(p) PROVE FALSE
    OBVIOUS
  <2>2. Top(p.root).nth < p.seed.nth
    BY <1>1, <2>1 DEF NeverReached
  <2> QED BY <1>6, <1>7, <2>1, <2>2 DEF Broken
<1>9. p.seed.nth = Top(p.root).nth + 1
  BY <1>2, <1>6, <1>7, <1>8 DEF Broken
<1>10. /\ NextRoot(p.root) \in RootKey /\ NextRoot(p.root).seed = p.root.seed
       /\ Top(NextRoot(p.root)) = p.seed
  <2>1. /\ NextRoot(p.root) \in RootKey /\ NextRoot(p.root).seed = p.root.seed
        /\ NextRoot(p.root).steps = p.root.steps + 1
    BY <1>3 DEF NextRoot, RootKey
  <2>2. p.seed = [sid |-> p.seed.sid, nth |-> p.seed.nth]
    BY <1>3 DEF Seed
  <2>3. p.root.seed.nth + (p.root.steps + 1) = p.seed.nth
    BY <1>6, <1>7, <1>9
  <2> QED BY <1>2, <2>1, <2>2, <2>3 DEF Top
<1>11. S[c].sender[f].epoch = Top(p.root).nth
  <2>1. S[c].sender[f] = [epoch |-> Top(S[c].decap[f]).nth, seed |-> Top(S[c].decap[f])]
    BY <1>1 DEF Numbered
  <2> QED BY <2>1
<1>12. Rooted(t)
  BY <1>1 DEF Rooted
<1>13. Numbered(t)
  <2> SUFFICES ASSUME NEW m \in Name
               PROVE  /\ t.decap[m] = Null => t.sender[m] = Null
                      /\ t.decap[m] # Null =>
                           t.sender[m] = [epoch |-> Top(t.decap[m]).nth,
                                          seed |-> Top(t.decap[m])]
    BY DEF Numbered
  <2>1. CASE m = f
    <3>1. t.decap[m] # Null
      BY <1>5, <1>10, <2>1, NullIsNoKey
    <3>2. Top(t.decap[m]) = p.seed
      BY <1>5, <1>10, <2>1
    <3>3. t.sender[m] = [epoch |-> p.seed.nth, seed |-> p.seed]
      BY <1>5, <1>9, <1>11, <2>1
    <3> QED BY <3>1, <3>2, <3>3
  <2>2. CASE m # f
    BY <1>1, <1>5, <2>2 DEF Numbered
  <2> QED BY <2>1, <2>2
<1>14. ASSUME NEW m \in Name, t.decap[m] # Null
       PROVE  Drawn([S EXCEPT ![c] = t], Top(t.decap[m]))
  <2>1. CASE m = f
    <3>1. Drawn([S EXCEPT ![c] = t], p.seed)
      BY <1>1, <1>2, <1>3, <1>4, DrawnStays
    <3> QED BY <3>1, <1>5, <1>10, <2>1
  <2>2. CASE m # f
    BY <1>4, <1>5, <1>14, <2>2, WorldStays
  <2> QED BY <2>1, <2>2
<1>15. \A m \in Name : \A q \in P[m] :
        (/\ ~t.disposed /\ Broken(q)
         /\ t.encap[m] # Null /\ t.encap[m].seed = q.root.seed) =>
           t.epoch < Top(t.encap[m]).nth
  BY <1>1 DEF StaysBroken
<1>16. ASSUME NEW q \in P[Called(c)], NEW m \in Name, Broken(q),
              t.decap[m] # Null, t.decap[m].seed = q.root.seed
       PROVE  Top(t.decap[m]).nth < q.seed.nth
  <2>1. CASE m = f
    <3>1. p.root.seed = q.root.seed /\ Top(t.decap[m]) = p.seed
      BY <1>5, <1>10, <1>16, <2>1
    <3>2. p.seed.nth < q.seed.nth
      BY <1>1, <1>8, <1>16, <3>1 DEF GoodFirst
    <3> QED BY <3>1, <3>2
  <2>2. CASE m # f
    BY <1>1, <1>5, <1>16, <2>2 DEF NeverReached
  <2> QED BY <2>1, <2>2
<1> QED BY <1>4, <1>12, <1>13, <1>14, <1>15, <1>16, KeysStep

(* A rotation: every root moves on, with the epoch.                        *)
LEMMA KeysRotate ==
  ASSUME NEW S, NEW P, NEW B, Keys(S, P, B), NEW c \in Conn, NEW t \in SessionType,
         NEW N \in SUBSET Name, \A n \in Name : S[c].encap[n] # Null <=> n \in N,
         ~S[c].disposed, ~t.disposed, t.sid = S[c].sid, t.epoch = S[c].epoch + 1,
         t.decap = S[c].decap, t.sender = S[c].sender,
         t.encap = [n \in Name |-> IF n \in N THEN NextRoot(S[c].encap[n])
                                              ELSE S[c].encap[n]],
         NEW P2 \in [Name -> SUBSET StepType],
         \A n \in Name : \A p \in P2[n] :
           \/ p \in P[n]
           \/ n \in N /\ p.root = S[c].encap[n]
              /\ p.seed = [sid |-> S[c].sid, nth |-> S[c].epoch + 1]
  PROVE  Keys([S EXCEPT ![c] = t], P2, B)
<1> DEFINE S2 == [S EXCEPT ![c] = t]
<1>1. /\ Rooted(S[c]) /\ Numbered(S[c]) /\ StaysBroken(S, P) /\ NeverReached(S, P)
      /\ GoodFirst(P) /\ S[c] \in SessionType /\ S \in [Conn -> SessionType]
      /\ P \in [Name -> SUBSET StepType]
      /\ SessionsOK(S) /\ S[c].sid[1] = c /\ StepsDrawn(S, P) /\ ChainsDrawn(S)
  BY DEF Keys, SessionsOK
<1>2. /\ S[c].epoch \in Nat /\ S[c].sid \in Conn \X Nat
      /\ S[c].encap \in [Name -> RootKey \cup {Null}]
      /\ S[c].sid[2] \in Nat /\ S[S[c].sid[1]] = S[c]
  BY <1>1 DEF SessionType, Sid
<1>3. Later(S[c], t)
  BY <1>2 DEF Later
<1>4. ASSUME NEW n \in Name, t.encap[n] # Null
      PROVE  /\ S[c].encap[n] # Null /\ t.encap[n].seed = S[c].encap[n].seed
             /\ Top(S[c].encap[n]).nth \in Nat
             /\ Top(t.encap[n]).nth = Top(S[c].encap[n]).nth + 1
  <2>1. n \in N /\ S[c].encap[n] # Null
    BY <1>4
  <2>2. S[c].encap[n] \in RootKey
    BY <1>2, <2>1
  <2>3. /\ S[c].encap[n].seed.nth \in Nat /\ S[c].encap[n].steps \in Nat
    BY <2>2 DEF RootKey, Seed
  <2>4. t.encap[n] = NextRoot(S[c].encap[n])
    BY <2>1
  <2>5. t.encap[n].seed = S[c].encap[n].seed /\ t.encap[n].steps = S[c].encap[n].steps + 1
    BY <2>4, <2>2 DEF NextRoot, RootKey
  <2> QED BY <2>1, <2>3, <2>5 DEF Top
<1>5. Rooted(t)
  <2> SUFFICES ASSUME NEW m \in Name, t.encap[m] # Null
               PROVE  /\ t.encap[m].seed.sid = t.sid
                      /\ t.encap[m].seed.nth <= t.epoch
                      /\ t.epoch <= Top(t.encap[m]).nth
    BY DEF Rooted
  <2>1. /\ S[c].encap[m] # Null /\ t.encap[m].seed = S[c].encap[m].seed
        /\ Top(S[c].encap[m]).nth \in Nat
        /\ Top(t.encap[m]).nth = Top(S[c].encap[m]).nth + 1
    BY <1>4
  <2>2. /\ S[c].encap[m].seed.sid = S[c].sid /\ S[c].encap[m].seed.nth <= S[c].epoch
        /\ S[c].epoch <= Top(S[c].encap[m]).nth
    BY <1>1, <2>1 DEF Rooted
  <2>3. S[c].encap[m].seed.nth \in Nat
    BY <1>2, <2>1 DEF RootKey, Seed
  <2> QED BY <1>2, <2>1, <2>2, <2>3
<1>6. Numbered(t)
  BY <1>1 DEF Numbered
<1>7. \A m \in Name : t.decap[m] # Null => Drawn(S2, Top(t.decap[m]))
  BY <1>3, WorldStays
<1>8. ASSUME NEW m \in Name, NEW p \in P[m], ~t.disposed, Broken(p),
             t.encap[m] # Null, t.encap[m].seed = p.root.seed
      PROVE  t.epoch < Top(t.encap[m]).nth
  <2>1. /\ S[c].encap[m] # Null /\ t.encap[m].seed = S[c].encap[m].seed
        /\ Top(S[c].encap[m]).nth \in Nat
        /\ Top(t.encap[m]).nth = Top(S[c].encap[m]).nth + 1
    BY <1>4, <1>8
  <2>2. S[c].epoch < Top(S[c].encap[m]).nth
    BY <1>1, <1>8, <2>1 DEF StaysBroken
  <2> QED BY <1>2, <2>1, <2>2
<1>9. Called(c) \in Name => \A p \in P[Called(c)] : \A m \in Name :
        (Broken(p) /\ t.decap[m] # Null /\ t.decap[m].seed = p.root.seed) =>
           Top(t.decap[m]).nth < p.seed.nth
  BY <1>1 DEF NeverReached
<1>10. Keys(S2, P, B)
  BY <1>3, <1>5, <1>6, <1>7, <1>8, <1>9, KeysStep
<1>11. S2[c] = t /\ (\A d \in Conn : d # c => S2[d] = S[d]) /\ S2 \in [Conn -> SessionType]
  BY <1>1
<1> HIDE DEF S2
(* Nothing under way was drawn as late as the new seed.                    *)
<1>12. ASSUME NEW n \in Name, NEW p \in P[n], p.root.seed.sid = S[c].sid
       PROVE  p.seed.nth <= S[c].epoch
  <2>1. Drawn(S, p.seed) /\ p.seed.sid = S[c].sid
    BY <1>1, <1>12 DEF StepsDrawn
  <2> QED BY <1>2, <2>1 DEF Drawn
<1> DEFINE New(n, p) == /\ n \in N /\ p.root = S[c].encap[n]
                        /\ p.seed = [sid |-> S[c].sid, nth |-> S[c].epoch + 1]
<1>13. \A n \in Name : \A p \in P2[n] : p \in P[n] \/ New(n, p)
  OBVIOUS
<1>14. ASSUME NEW n \in Name, NEW p \in P2[n], New(n, p)
       PROVE  /\ p.root.seed.sid = S[c].sid /\ p.seed.sid = S[c].sid
              /\ p.seed.nth = S[c].epoch + 1 /\ p.root.seed.nth <= S[c].epoch
              /\ p.root.seed.nth \in Nat /\ S[c].epoch <= Top(p.root).nth
              /\ Top(p.root).nth \in Nat
              /\ S[c].encap[n] # Null /\ p.root = S[c].encap[n]
  <2>1. S[c].encap[n] # Null /\ p.root = S[c].encap[n] /\ p.root \in RootKey
    BY <1>2, <1>14
  <2>2. p.root.seed.nth \in Nat /\ p.root.steps \in Nat
    BY <2>1 DEF RootKey, Seed
  <2> QED BY <1>1, <1>14, <2>1, <2>2 DEF Rooted, Top
<1> HIDE DEF New
<1>15. StepsDrawn(S2, P2)
  <2> SUFFICES ASSUME NEW n \in Name, NEW p \in P2[n]
               PROVE  /\ Drawn(S2, p.seed) /\ p.root.seed.sid = p.seed.sid
                      /\ p.root.seed.nth < p.seed.nth
                      /\ p.seed.nth <= Top(p.root).nth + 1
    BY DEF StepsDrawn
  <2>1. CASE p \in P[n]
    BY <1>10, <2>1 DEF Keys, StepsDrawn
  <2>2. CASE New(n, p)
    <3>1. /\ p.root.seed.sid = S[c].sid /\ p.seed.sid = S[c].sid
          /\ p.seed.nth = S[c].epoch + 1 /\ p.root.seed.nth <= S[c].epoch
          /\ p.root.seed.nth \in Nat /\ S[c].epoch <= Top(p.root).nth
          /\ Top(p.root).nth \in Nat
      BY <1>14, <2>2
    <3>2. S2[p.seed.sid[1]] = t
      BY <1>1, <1>11, <3>1
    <3>3. Drawn(S2, p.seed)
      BY <1>2, <3>1, <3>2 DEF Drawn
    <3> QED BY <1>2, <3>1, <3>3
  <2> QED BY <1>13, <2>1, <2>2
<1>16. StaysBroken(S2, P2)
  <2> SUFFICES ASSUME NEW d \in Conn, NEW n \in Name, NEW p \in P2[n], Broken(p),
                      ~S2[d].disposed, S2[d].encap[n] # Null,
                      S2[d].encap[n].seed = p.root.seed
               PROVE  S2[d].epoch < Top(S2[d].encap[n]).nth
    BY DEF StaysBroken
  <2>1. CASE p \in P[n]
    BY <1>10, <2>1 DEF Keys, StaysBroken
  <2>2. CASE New(n, p)
    <3>1. /\ p.root.seed.sid = S[c].sid /\ p.seed.nth = S[c].epoch + 1
          /\ S[c].encap[n] # Null /\ p.root = S[c].encap[n]
      BY <1>14, <2>2
    <3>2. S2[d].sid = S[c].sid
      BY <1>10, <3>1 DEF Keys, SessionsOK, Rooted
    <3>3. d = c
      BY <1>10, <1>1, <3>2 DEF Keys, SessionsOK
    <3>4. /\ Top(S[c].encap[n]).nth \in Nat
          /\ Top(t.encap[n]).nth = Top(S[c].encap[n]).nth + 1
      BY <1>4, <1>11, <3>3
    <3>5. S[c].epoch + 1 <= Top(S[c].encap[n]).nth
      BY <3>1 DEF Broken
    <3> QED BY <1>2, <1>11, <3>3, <3>4, <3>5
  <2> QED BY <1>13, <2>1, <2>2
<1>17. GoodFirst(P2)
  <2> SUFFICES ASSUME NEW n \in Name, NEW g \in P2[n], NEW p \in P2[n],
                      ~Broken(g), Broken(p), g.root.seed = p.root.seed
               PROVE  g.seed.nth < p.seed.nth
    BY DEF GoodFirst
  <2>1. CASE g \in P[n] /\ p \in P[n]
    BY <1>1, <2>1 DEF GoodFirst
  <2>2. CASE g \in P[n] /\ New(n, p)
    <3>1. p.root.seed.sid = S[c].sid /\ p.seed.nth = S[c].epoch + 1
      BY <1>14, <2>2
    <3>2. g.seed.nth <= S[c].epoch /\ g.seed.nth \in Nat
      BY <1>1, <1>12, <2>2, <3>1 DEF StepType, Seed
    <3> QED BY <1>2, <3>1, <3>2
  <2>3. CASE New(n, g) /\ p \in P[n]
    <3>1. /\ S[c].encap[n] # Null /\ g.root = S[c].encap[n]
          /\ g.seed.nth = S[c].epoch + 1 /\ Top(g.root).nth \in Nat
      BY <1>14, <2>3
    <3>2. S[c].epoch < Top(S[c].encap[n]).nth
      BY <1>1, <2>3, <3>1 DEF StaysBroken
    <3>3. Broken(g)
      BY <1>2, <3>1, <3>2 DEF Broken
    <3> QED BY <3>3
  <2>4. CASE New(n, g) /\ New(n, p)
    <3>1. g.root = p.root /\ g.seed.nth = p.seed.nth
      BY <1>14, <2>4
    <3> QED BY <3>1 DEF Broken
  <2> QED BY <1>13, <2>1, <2>2, <2>3, <2>4
<1>18. NeverReached(S2, P2)
  <2> SUFFICES ASSUME NEW d \in Conn, Called(d) \in Name, NEW p \in P2[Called(d)],
                      NEW m \in Name, Broken(p),
                      S2[d].decap[m] # Null, S2[d].decap[m].seed = p.root.seed
               PROVE  Top(S2[d].decap[m]).nth < p.seed.nth
    BY DEF NeverReached
  <2>1. CASE p \in P[Called(d)]
    BY <1>10, <2>1 DEF Keys, NeverReached
  <2>2. CASE New(Called(d), p)
    <3>1. p.root.seed.sid = S[c].sid /\ p.seed.nth = S[c].epoch + 1
      BY <1>14, <2>2
    <3>2. S2[d].decap[m] = S[d].decap[m]
      BY <1>11
    <3>3. Drawn(S, Top(S[d].decap[m])) /\ Top(S[d].decap[m]).sid = S[c].sid
      BY <1>1, <3>1, <3>2 DEF ChainsDrawn, Top
    <3>4. Top(S[d].decap[m]).nth <= S[c].epoch
      BY <1>2, <3>3 DEF Drawn
    <3>5. Top(S[d].decap[m]).nth \in Nat
      <4>1. S[d].decap[m] \in RootKey
        BY <1>1, <3>2 DEF SessionType
      <4> QED BY <4>1 DEF RootKey, Seed, Top
    <3> QED BY <1>2, <3>1, <3>2, <3>4, <3>5
  <2> QED BY <1>13, <2>1, <2>2
<1> QED BY <1>10, <1>15, <1>16, <1>17, <1>18 DEF Keys, S2

-----------------------------------------------------------------------------
(* Clients and frames.                                                     *)

ClientType ==
  [phase : {"joining", "waiting", "ready", "gone", "lost"}, name : Name,
   session : SessionType, sessions : Nat, peers : SUBSET Name,
   chainsExpected : Nat, chainsReceived : Nat,
   lobby : SessionType \cup {Null}, rekeying : BOOLEAN, reconnect : BOOLEAN]

MemberType == [username : Name, ek : SealKey, ratchetEk : RatchetKey, claim : ClaimEntry]

UpFrame(c) ==
  [type : {"create"}, adminToken : {Null}, protocolVersion : {PROTOCOL_VERSION}]
    \cup [type : {"join"}, roomId : RoomId, roomSecret : RoomId,
          protocolVersion : {PROTOCOL_VERSION}]
    \cup [type : {"identify"}, username : {UserOf[c]}, ek : SealKey,
          ratchetEk : RatchetKey, claim : ClaimEntry]
    \cup [type : {"relay"}, to : Name, payload : SealedType]
    \cup [type : {"ratchet_step"},
          payloads : UNION {[N -> StepType] : N \in SUBSET Name},
          newEk : RatchetKey, sig : Sid, claim : ClaimEntry]
    \cup [type : {"ek_update"}, ek : RatchetKey, claim : ClaimEntry]
    \cup [type : {"rekey"}, ek : SealKey, ratchetEk : RatchetKey, claim : ClaimEntry]

DownFrame(c) ==
  [type : {"error"}, reason : {"version_mismatch", "forbidden", "not_found",
                               "room_full", "username_taken"}]
    \cup [type : {"room_created"}, roomId : RoomId, roomSecret : RoomId]
    \cup [type : {"joined"}, members : {M \in SUBSET MemberType : IsFiniteSet(M)}]
    \cup [type : {"peer_joined"}, username : Name, ek : SealKey, ratchetEk : RatchetKey,
          claim : ClaimEntry]
    \cup [type : {"peer_left"}, username : Name]
    \cup [type : {"relay"}, from : Name, payload : SealedType]
    \cup [type : {"ratchet_step_fwd"}, from : Name,
          payload : {p \in StepType : Called(c) \in Name},
          newEk : RatchetKey, sig : Sid, claim : ClaimEntry]
    \cup [type : {"ek_update_fwd"}, from : Name, ek : RatchetKey, claim : ClaimEntry]
    \cup [type : {"rekeyed"}]

Empty(s) == \A n \in Name : s.encap[n] = Null /\ s.decap[n] = Null /\ s.sender[n] = Null

(* A client has roots for listed peers only, and draws its sessions in     *)
(* order; the one that waits in the lobby is later than the current one.   *)
ClientOK(c, k) ==
  /\ k \in ClientType /\ k.name = UserOf[c]
  /\ k.session.sid[1] = c /\ k.session.sid[2] < k.sessions
  /\ \A n \in Name : k.session.encap[n] # Null => n \in k.peers
  /\ k.lobby # Null =>
       /\ ~InBrowser(c) /\ k.lobby.sid[1] = c /\ k.session.sid[2] < k.lobby.sid[2]
       /\ k.lobby.sid[2] < k.sessions /\ Empty(k.lobby)

(* doRatchetStep would get through all the peers, and a change of a client *)
(* that leaves it so.                                                      *)
CanRotate(k) == \A n \in k.peers : k.session.encap[n] # Null /\ k.session.eks[n] # Null
Steady(k, q) ==
  /\ q.reconnect = k.reconnect /\ q.lobby = k.lobby
  /\ q.session.disposed = k.session.disposed
  /\ CanRotate(k) => CanRotate(q)

(* The frames that ask for a room, and the answers.                        *)
Asks(fs) == {i \in DOMAIN fs : fs[i].type \in {"create", "join"}}
Grants(fs) == {i \in DOMAIN fs : fs[i].type \in {"room_created", "joined"}}

(* The steps and seeds among the frames a client sends.                    *)
StepsIn(fs, n) ==
  {p \in StepType : \E i \in DOMAIN fs : fs[i].type = "ratchet_step"
                      /\ n \in DOMAIN fs[i].payloads /\ p = fs[i].payloads[n]}
SeedsIn(fs) ==
  {b \in SealedType : \E i \in DOMAIN fs : fs[i].type = "relay" /\ b = fs[i].payload}
WithSteps(P, fs) == [n \in Name |-> P[n] \cup StepsIn(fs, n)]

(* An answer that keeps everything in order.                               *)
Lawful(c, S, P, B, a) ==
  /\ ClientOK(c, a.client) /\ a.sends \in Seq(UpFrame(c))
  /\ Keys([S EXCEPT ![c] = a.client.session], WithSteps(P, a.sends),
          B \cup SeedsIn(a.sends))

(* What is sent has no steps, and no seeds but the current one.            *)
Plain(fs, s) ==
  \A i \in DOMAIN fs :
    /\ fs[i].type # "ratchet_step"
    /\ fs[i].type = "relay" =>
         fs[i].payload.epoch = s.epoch /\ fs[i].payload.seed = CurrentSeed(s)

(* Frames without steps, and with no seed but the current one, may be sent *)
(* at any time.                                                            *)
LEMMA KeysPlain ==
  ASSUME NEW S, NEW P, NEW B, NEW c \in Conn, NEW fs, NEW t,
         Keys([S EXCEPT ![c] = t], P, B), S \in [Conn -> SessionType], Plain(fs, t)
  PROVE  Keys([S EXCEPT ![c] = t], WithSteps(P, fs), B \cup SeedsIn(fs))
<1> DEFINE S2 == [S EXCEPT ![c] = t]
<1>1. S2[c] = t
  OBVIOUS
<1> HIDE DEF S2
<1>2. Keys(S2, P, B)
  BY DEF S2
<1>3. P \in [Name -> SUBSET StepType] /\ B \subseteq SealedType
  BY <1>2 DEF Keys
<1>4. \A n \in Name : StepsIn(fs, n) = {}
  BY DEF StepsIn, Plain
<1>5. WithSteps(P, fs) = P
  BY <1>3, <1>4 DEF WithSteps
<1>6. SeedsIn(fs) \subseteq SealedType
  BY DEF SeedsIn
<1>7. \A b \in B \cup SeedsIn(fs) : b \in B
        \/ (b.epoch = S2[c].epoch /\ b.seed = CurrentSeed(S2[c]))
  BY <1>1 DEF SeedsIn, Plain
<1>8. B \cup SeedsIn(fs) \in SUBSET SealedType
  BY <1>3, <1>6
<1>9. Keys(S2, P, B \cup SeedsIn(fs))
  BY <1>2, <1>7, <1>8, KeysSealed
<1> QED BY <1>5, <1>9 DEF S2

(* An answer that leaves the keys alone.                                   *)
LEMMA KeysSame ==
  ASSUME NEW S, NEW P, NEW B, Keys(S, P, B), NEW c \in Conn, NEW t \in SessionType,
         t.sid = S[c].sid, t.epoch = S[c].epoch, t.disposed = S[c].disposed,
         t.encap = S[c].encap, t.decap = S[c].decap, t.sender = S[c].sender
  PROVE  Keys([S EXCEPT ![c] = t], P, B)
<1>1. S[c].epoch \in Nat
  BY DEF Keys, SessionType
<1>2. Later(S[c], t)
  BY <1>1 DEF Later
<1> QED BY <1>2, KeysForget

(* A client that has met n: a root starts from its current seed.           *)
MetBy(c, k, n, q) ==
  /\ ClientOK(c, q)
  /\ q.session.sid = k.session.sid /\ q.session.epoch = k.session.epoch
  /\ q.session.disposed = k.session.disposed
  /\ q.session.decap = k.session.decap /\ q.session.sender = k.session.sender
  /\ q.session.encap = [k.session.encap EXCEPT ![n] = Root(CurrentSeed(k.session))]
  /\ q.phase = k.phase /\ Steady(k, q)

(* Meet changes what MetBy says and nothing else that is looked at here.   *)
LEMMA MeetFields ==
  ASSUME NEW c \in Conn, NEW k, ClientOK(c, k), NEW m, m.username \in Name,
         m.ratchetEk \in RatchetKey, m.claim \in ClaimEntry
  PROVE  MetBy(c, k, m.username, Meet(k, m))
<1> DEFINE n == m.username
           s == k.session
           s1 == AcceptClaim(s, n, m.claim)
           s2 == WrapChainSeedFor(s1, n)
           s3 == UpdatePeerRatchetEk(s2, n, m.ratchetEk)
<1>1. s \in SessionType /\ s.encap \in [Name -> RootKey \cup {Null}] /\ s.sid \in Sid
      /\ s.eks \in [Name -> RatchetKey \cup {Null}] /\ s.epoch \in Nat
  BY DEF ClientOK, ClientType, SessionType
<1>2. /\ s1 \in SessionType /\ s1.sid = s.sid /\ s1.epoch = s.epoch
      /\ s1.disposed = s.disposed /\ s1.decap = s.decap /\ s1.sender = s.sender
      /\ s1.encap = s.encap /\ s1.eks = s.eks
  BY <1>1 DEF AcceptClaim, SessionType
<1>3. CurrentSeed(s1) = CurrentSeed(s) /\ Root(CurrentSeed(s)) \in RootKey
  BY <1>1, <1>2 DEF CurrentSeed, Root, RootKey, Seed
<1> HIDE DEF s1
<1>4. /\ s2 \in SessionType /\ s2.sid = s.sid /\ s2.epoch = s.epoch
      /\ s2.disposed = s.disposed /\ s2.decap = s.decap /\ s2.sender = s.sender
      /\ s2.encap = [s.encap EXCEPT ![n] = Root(CurrentSeed(s))] /\ s2.eks = s.eks
  BY <1>2, <1>3 DEF WrapChainSeedFor, SessionType
<1> HIDE DEF s2
<1>5. /\ s3 \in SessionType /\ s3.sid = s.sid /\ s3.epoch = s.epoch
      /\ s3.disposed = s.disposed /\ s3.decap = s.decap /\ s3.sender = s.sender
      /\ s3.encap = [s.encap EXCEPT ![n] = Root(CurrentSeed(s))]
      /\ s3.eks = [s.eks EXCEPT ![n] = m.ratchetEk]
  BY <1>4 DEF UpdatePeerRatchetEk, SessionType
<1> HIDE DEF s3
<1>6. Meet(k, m) = [k EXCEPT !.session = s3, !.peers = @ \cup {n}]
  BY DEF Meet, s1, s2, s3
<1>7. /\ Meet(k, m) \in ClientType /\ Meet(k, m).session = s3
      /\ Meet(k, m).peers = k.peers \cup {n} /\ Meet(k, m).name = k.name
      /\ Meet(k, m).phase = k.phase /\ Meet(k, m).lobby = k.lobby
      /\ Meet(k, m).sessions = k.sessions /\ Meet(k, m).reconnect = k.reconnect
  <2> DEFINE q == [k EXCEPT !.session = s3, !.peers = @ \cup {n}]
  <2>1. k \in ClientType /\ s3 \in SessionType /\ n \in Name
    BY <1>5 DEF ClientOK
  <2>2. /\ q \in ClientType /\ q.session = s3
        /\ q.peers = k.peers \cup {n} /\ q.name = k.name
        /\ q.phase = k.phase /\ q.lobby = k.lobby /\ q.sessions = k.sessions
        /\ q.reconnect = k.reconnect
    <3> HIDE DEF n
    <3> QED BY <2>1 DEF ClientType
  <2> QED BY <1>6, <2>2
<1>8. ClientOK(c, Meet(k, m))
  BY <1>1, <1>5, <1>7 DEF ClientOK
<1>9. CanRotate(k) => CanRotate(Meet(k, m))
  <2>1. Root(CurrentSeed(s)) # Null /\ m.ratchetEk # Null
    BY <1>3, NullIsNoKey
  <2>2. k.peers \in SUBSET Name
    BY DEF ClientOK, ClientType
  <2> QED BY <1>1, <1>5, <1>7, <2>1, <2>2 DEF CanRotate
<1>10. Steady(k, Meet(k, m))
  BY <1>5, <1>7, <1>9 DEF Steady
<1> QED BY <1>5, <1>7, <1>8, <1>10 DEF MetBy

(* A member is met (joined, peer_joined): the root for it starts from the  *)
(* current seed.                                                           *)
LEMMA MeetKeys ==
  ASSUME NEW S, NEW P, NEW B, NEW c \in Conn, NEW k, ClientOK(c, k), Keys(S, P, B),
         S[c] = k.session, NEW m, m.username \in Name,
         m.ratchetEk \in RatchetKey, m.claim \in ClaimEntry
  PROVE  Keys([S EXCEPT ![c] = Meet(k, m).session], P, B)
<1> DEFINE t == Meet(k, m).session
<1>0. MetBy(c, k, m.username, Meet(k, m))
  BY MeetFields
<1>1. /\ t.sid = S[c].sid /\ t.epoch = S[c].epoch
      /\ t.disposed = S[c].disposed /\ t.decap = S[c].decap /\ t.sender = S[c].sender
      /\ t.encap = [S[c].encap EXCEPT ![m.username] = Root(CurrentSeed(S[c]))]
      /\ t \in SessionType
  BY <1>0 DEF MetBy, ClientOK, ClientType
<1> HIDE DEF t
<1>2. Keys([S EXCEPT ![c] = t], P, B)
  BY <1>1, KeysWrap
<1> QED BY <1>2 DEF t

(* An answer without steps and with no seeds but the current one.          *)
LEMMA PlainLawful ==
  ASSUME NEW S, NEW P, NEW B, NEW c \in Conn, NEW k, NEW fs \in Seq(UpFrame(c)),
         ClientOK(c, k), S \in [Conn -> SessionType],
         Keys([S EXCEPT ![c] = k.session], P, B), Plain(fs, k.session)
  PROVE  Lawful(c, S, P, B, Answer(k, fs))
<1>1. Answer(k, fs).client = k /\ Answer(k, fs).sends = fs
  BY DEF Answer
<1>2. Keys([S EXCEPT ![c] = k.session], WithSteps(P, fs), B \cup SeedsIn(fs))
  BY KeysPlain
<1> QED BY <1>1, <1>2 DEF Lawful

(* Nothing is sent.                                                        *)
LEMMA SilentLawful ==
  ASSUME NEW S, NEW P, NEW B, NEW c \in Conn, NEW k,
         ClientOK(c, k), S \in [Conn -> SessionType],
         Keys([S EXCEPT ![c] = k.session], P, B)
  PROVE  Lawful(c, S, P, B, Silent(k))
<1>1. << >> \in Seq(UpFrame(c)) /\ Plain(<< >>, k.session)
  BY DEF Plain
<1>2. Lawful(c, S, P, B, Answer(k, << >>))
  BY <1>1, PlainLawful
<1> QED BY <1>2 DEF Silent

(* Nothing happens.                                                        *)
LEMMA IdleLawful ==
  ASSUME NEW S, NEW P, NEW B, NEW c \in Conn, NEW k,
         ClientOK(c, k), Keys(S, P, B), S[c] = k.session
  PROVE  Lawful(c, S, P, B, Silent(k))
<1>1. S \in [Conn -> SessionType]
  BY DEF Keys
<1>2. [S EXCEPT ![c] = k.session] = S
  BY <1>1
<1> QED BY <1>1, <1>2, SilentLawful

(* The fields of a client with another session.                            *)
LEMMA WithSession ==
  ASSUME NEW c \in Conn, NEW k, ClientOK(c, k), NEW t \in SessionType,
         t.sid = k.session.sid,
         \A n \in Name : t.encap[n] # Null => k.session.encap[n] # Null
  PROVE  /\ ClientOK(c, [k EXCEPT !.session = t])
         /\ [k EXCEPT !.session = t].session = t
         /\ [k EXCEPT !.session = t].peers = k.peers
         /\ [k EXCEPT !.session = t].phase = k.phase
         /\ [k EXCEPT !.session = t].lobby = k.lobby
         /\ [k EXCEPT !.session = t].reconnect = k.reconnect
<1> DEFINE q == [k EXCEPT !.session = t]
<1>1. k \in ClientType
  BY DEF ClientOK
<1>2. /\ q \in ClientType /\ q.session = t /\ q.peers = k.peers /\ q.phase = k.phase
      /\ q.lobby = k.lobby /\ q.sessions = k.sessions /\ q.name = k.name
      /\ q.reconnect = k.reconnect
  BY <1>1 DEF ClientType
<1> HIDE DEF q
<1>3. ClientOK(c, q)
  BY <1>2 DEF ClientOK
<1> QED BY <1>2, <1>3 DEF q

(* The steps of a rotation, and the claim that goes with it.               *)
LEMMA SteppedFields ==
  ASSUME NEW s \in SessionType, NEW N \in SUBSET Name, \A n \in N : s.encap[n] # Null
  PROVE  /\ Stepped(s, N) \in SessionType
         /\ Stepped(s, N).sid = s.sid /\ Stepped(s, N).epoch = s.epoch
         /\ Stepped(s, N).disposed = s.disposed /\ Stepped(s, N).decap = s.decap
         /\ Stepped(s, N).sender = s.sender
         /\ Stepped(s, N).encap = [n \in Name |-> IF n \in N THEN NextRoot(s.encap[n])
                                                             ELSE s.encap[n]]
         /\ Stepped(s, N).eks = s.eks
         /\ \A n \in Name : Stepped(s, N).encap[n] # Null <=> s.encap[n] # Null
<1> DEFINE e == [n \in Name |-> IF n \in N THEN NextRoot(s.encap[n]) ELSE s.encap[n]]
<1>1. s.encap \in [Name -> RootKey \cup {Null}]
  BY DEF SessionType
<1>2. ASSUME NEW n \in N PROVE NextRoot(s.encap[n]) \in RootKey
  <2>1. s.encap[n] \in RootKey
    BY <1>1
  <2> QED BY <2>1 DEF NextRoot, RootKey
<1>3. e \in [Name -> RootKey \cup {Null}]
  BY <1>1, <1>2
<1>4. Stepped(s, N) = [s EXCEPT !.encap = e]
  BY DEF Stepped
<1>5. \A n \in Name : e[n] # Null <=> s.encap[n] # Null
  BY <1>2, NullIsNoKey
<1> DEFINE q == [s EXCEPT !.encap = e]
<1>6. /\ q \in SessionType /\ q.sid = s.sid /\ q.epoch = s.epoch
      /\ q.disposed = s.disposed /\ q.decap = s.decap /\ q.sender = s.sender
      /\ q.encap = e /\ q.eks = s.eks
  <2> HIDE DEF e
  <2> QED BY <1>3 DEF SessionType
<1> HIDE DEF q
<1>7. Stepped(s, N) = q
  BY <1>4 DEF q
<1> QED BY <1>5, <1>6, <1>7

(* Building a claim touches no key.                                        *)
LEMMA ClaimFields ==
  ASSUME NEW s \in SessionType
  PROVE  /\ ClaimBuilt(s) \in SessionType
         /\ ClaimBuilt(s).sid = s.sid /\ ClaimBuilt(s).epoch = s.epoch
         /\ ClaimBuilt(s).disposed = s.disposed /\ ClaimBuilt(s).decap = s.decap
         /\ ClaimBuilt(s).sender = s.sender /\ ClaimBuilt(s).encap = s.encap
         /\ ClaimBuilt(s).eks = s.eks
         /\ ClaimOf(s) \in ClaimEntry /\ RatchetEk(s) \in RatchetKey
         /\ SealEk(s) \in SealKey
BY DEF ClaimBuilt, SessionType, ClaimOf, ClaimEntry, RatchetEk, RatchetKey, SealEk, SealKey

(* A rotation keeps everything in order, also one that fails.              *)
LEMMA RotateLawful ==
  ASSUME NEW S, NEW P, NEW B, NEW c \in Conn, NEW k,
         ClientOK(c, k), Keys(S, P, B), S[c] = k.session, NEW a \in RotateKeys(k)
  PROVE  Lawful(c, S, P, B, a)
<1> DEFINE s == k.session
<1>1. /\ s \in SessionType /\ S \in [Conn -> SessionType] /\ k.peers \in SUBSET Name
      /\ P \in [Name -> SUBSET StepType] /\ B \subseteq SealedType
      /\ s.encap \in [Name -> RootKey \cup {Null}] /\ s.eks \in [Name -> RatchetKey \cup {Null}]
      /\ s.sid \in Sid /\ s.epoch \in Nat
  BY DEF ClientOK, ClientType, Keys, SessionType
<1>2. CASE k.phase # "ready" \/ k.peers = {}
  <2>1. a = Silent(k)
    BY <1>2 DEF RotateKeys
  <2> QED BY <2>1, IdleLawful
<1>3. CASE ~(k.phase # "ready" \/ k.peers = {}) /\ ~CanRatchet(s, k.peers)
  <2>1. PICK t \in BrokenOff(s, k.peers) : a = Silent([k EXCEPT !.session = t])
    BY <1>3 DEF RotateKeys
  <2>2. PICK N \in SUBSET {n \in k.peers : CanRatchet(s, {n})} : t = Stepped(s, N)
    BY <2>1 DEF BrokenOff
  <2>3. N \in SUBSET Name /\ \A n \in N : s.encap[n] # Null
    BY <1>1, <2>2 DEF CanRatchet
  <2>4. /\ t \in SessionType /\ t.sid = s.sid /\ t.epoch = s.epoch
        /\ t.disposed = s.disposed /\ t.decap = s.decap /\ t.sender = s.sender
        /\ t.encap = [n \in Name |-> IF n \in N THEN NextRoot(s.encap[n]) ELSE s.encap[n]]
        /\ \A n \in Name : t.encap[n] # Null => s.encap[n] # Null
    BY <1>1, <2>2, <2>3, SteppedFields
  <2>5. Keys([S EXCEPT ![c] = t], P, B)
    BY <2>3, <2>4, KeysBroken
  <2> DEFINE q == [k EXCEPT !.session = t]
  <2>6. ClientOK(c, q) /\ q.session = t
    BY <2>4, WithSession
  <2> HIDE DEF q
  <2>7. Lawful(c, S, P, B, Silent(q))
    BY <1>1, <2>5, <2>6, SilentLawful
  <2> QED BY <2>1, <2>7 DEF q
<1>4. CASE ~(k.phase # "ready" \/ k.peers = {}) /\ CanRatchet(s, k.peers)
  <2> DEFINE s1 == CommitRatchetStep(s, k.peers)
             t == ClaimBuilt(s1)
             f == [type |-> "ratchet_step",
                   payloads |-> [n \in k.peers |-> PerformRatchetStep(s, n)],
                   newEk |-> RatchetEk(s1), sig |-> s1.sid, claim |-> ClaimOf(s1)]
             q == [k EXCEPT !.session = t]
  <2>1. a = Answer(q, <<f>>)
    BY <1>4 DEF RotateKeys
  <2>2. ~s.disposed /\ \A n \in k.peers : s.encap[n] # Null /\ s.eks[n] # Null
    BY <1>4 DEF CanRatchet
  <2>3. /\ Stepped(s, k.peers) \in SessionType
        /\ Stepped(s, k.peers).sid = s.sid /\ Stepped(s, k.peers).epoch = s.epoch
        /\ Stepped(s, k.peers).disposed = s.disposed /\ Stepped(s, k.peers).decap = s.decap
        /\ Stepped(s, k.peers).sender = s.sender
        /\ Stepped(s, k.peers).encap =
             [n \in Name |-> IF n \in k.peers THEN NextRoot(s.encap[n]) ELSE s.encap[n]]
        /\ \A n \in Name : Stepped(s, k.peers).encap[n] # Null => s.encap[n] # Null
    BY <1>1, <2>2, SteppedFields
  <2>4. /\ s1 \in SessionType
        /\ s1.sid = s.sid /\ s1.epoch = s.epoch + 1
        /\ s1.disposed = s.disposed /\ s1.decap = s.decap /\ s1.sender = s.sender
        /\ s1.encap = Stepped(s, k.peers).encap
    BY <2>3 DEF CommitRatchetStep, SessionType
  <2> HIDE DEF s1
  <2>5. /\ t \in SessionType /\ t.sid = s.sid /\ t.epoch = s.epoch + 1
        /\ t.disposed = s.disposed /\ t.decap = s.decap /\ t.sender = s.sender
        /\ t.encap = [n \in Name |-> IF n \in k.peers THEN NextRoot(s.encap[n]) ELSE s.encap[n]]
        /\ ClaimOf(s1) \in ClaimEntry /\ RatchetEk(s1) \in RatchetKey /\ s1.sid \in Sid
        /\ \A n \in Name : t.encap[n] # Null => s.encap[n] # Null
    BY <1>1, <2>3, <2>4, ClaimFields
  <2> HIDE DEF t
  <2>6. ClientOK(c, q) /\ q.session = t
    BY <2>5, WithSession
  <2> HIDE DEF q
  <2>7. ASSUME NEW n \in k.peers
        PROVE  /\ PerformRatchetStep(s, n) \in StepType
               /\ PerformRatchetStep(s, n).root = s.encap[n]
               /\ PerformRatchetStep(s, n).seed = [sid |-> s.sid, nth |-> s.epoch + 1]
    <3>1. n \in Name /\ s.encap[n] \in RootKey /\ s.eks[n] \in RatchetKey
      BY <1>1, <2>2
    <3>2. [sid |-> s.sid, nth |-> s.epoch + 1] \in Seed
      BY <1>1 DEF Seed
    <3> QED BY <3>1, <3>2 DEF PerformRatchetStep, StepType
  <2>8. f \in UpFrame(c)
    <3> DEFINE ps == [n \in k.peers |-> PerformRatchetStep(s, n)]
    <3>1. ps \in [k.peers -> StepType]
      BY <2>7
    <3>2. ps \in UNION {[N -> StepType] : N \in SUBSET Name}
      BY <1>1, <3>1
    <3> HIDE DEF ps
    <3>3. f = [type |-> "ratchet_step", payloads |-> ps, newEk |-> RatchetEk(s1),
               sig |-> s1.sid, claim |-> ClaimOf(s1)]
      BY DEF ps
    <3> HIDE DEF f
    <3> QED BY <2>5, <3>2, <3>3 DEF UpFrame
  <2>9. /\ f.type = "ratchet_step"
        /\ f.payloads = [n \in k.peers |-> PerformRatchetStep(s, n)]
    OBVIOUS
  <2> HIDE DEF f
  <2>10. SeedsIn(<<f>>) = {}
    BY <2>9 DEF SeedsIn
  <2>11. WithSteps(P, <<f>>) \in [Name -> SUBSET StepType]
    BY <1>1 DEF WithSteps, StepsIn
  <2>12. ASSUME NEW n \in Name, NEW p \in WithSteps(P, <<f>>)[n]
         PROVE  \/ p \in P[n]
                \/ n \in k.peers /\ p.root = S[c].encap[n]
                   /\ p.seed = [sid |-> S[c].sid, nth |-> S[c].epoch + 1]
    <3>1. CASE p \in StepsIn(<<f>>, n)
      <4>1. n \in k.peers /\ p = PerformRatchetStep(s, n)
        BY <2>9, <3>1 DEF StepsIn
      <4> QED BY <2>7, <4>1
    <3>2. p \in P[n] \/ p \in StepsIn(<<f>>, n)
      BY <2>12 DEF WithSteps
    <3> QED BY <3>1, <3>2
  <2>13. \A n \in Name : S[c].encap[n] # Null <=> n \in k.peers
    BY <2>2 DEF ClientOK
  <2>14. Keys([S EXCEPT ![c] = t], WithSteps(P, <<f>>), B)
    <3> DEFINE P2 == WithSteps(P, <<f>>)
    <3>1. P2 \in [Name -> SUBSET StepType] /\ \A n \in Name : \A p \in P2[n] :
           \/ p \in P[n]
           \/ n \in k.peers /\ p.root = S[c].encap[n]
              /\ p.seed = [sid |-> S[c].sid, nth |-> S[c].epoch + 1]
      BY <2>11, <2>12
    <3> HIDE DEF P2
    <3>2. /\ ~S[c].disposed /\ ~t.disposed /\ t.sid = S[c].sid
          /\ t.epoch = S[c].epoch + 1 /\ t.decap = S[c].decap
          /\ t.sender = S[c].sender /\ t \in SessionType
          /\ t.encap = [n \in Name |-> IF n \in k.peers THEN NextRoot(S[c].encap[n])
                                                         ELSE S[c].encap[n]]
      BY <2>2, <2>5
    <3>3. k.peers \in SUBSET Name
      BY <1>1
    <3>4. Keys([S EXCEPT ![c] = t], P2, B)
      BY <2>13, <3>1, <3>2, <3>3, KeysRotate
    <3> QED BY <3>4 DEF P2
  <2>15. <<f>> \in Seq(UpFrame(c))
    BY <2>8
  <2>16. B \cup SeedsIn(<<f>>) = B
    BY <2>10
  <2>17. a.client = q /\ a.sends = <<f>>
    BY <2>1 DEF Answer
  <2> QED BY <2>6, <2>14, <2>15, <2>16, <2>17 DEF Lawful
<1> QED BY <1>2, <1>3, <1>4

-----------------------------------------------------------------------------
(* What a client does with a seed, a claim or a step that arrives.         *)

(* An answer given on top of another change of the same client.            *)
LEMMA LawfulAgain ==
  ASSUME NEW S, NEW P, NEW B, NEW c \in Conn, NEW t, NEW a,
         Lawful(c, [S EXCEPT ![c] = t], P, B, a)
  PROVE  Lawful(c, S, P, B, a)
<1>1. ASSUME NEW u PROVE [[S EXCEPT ![c] = t] EXCEPT ![c] = u] = [S EXCEPT ![c] = u]
  OBVIOUS
<1> QED BY <1>1 DEF Lawful

(* A seed that arrived is opened (unwrapChainSeed); it may have been       *)
(* sealed long ago.                                                        *)
LEMMA UnwrapKept ==
  ASSUME NEW S, NEW P, NEW B, NEW c \in Conn, NEW k, ClientOK(c, k), Keys(S, P, B),
         S[c] = k.session, NEW f \in Name, NEW b \in B
  PROVE  LET k1 == [k EXCEPT !.session = UnwrapChainSeed(@, f, b)]
         IN ClientOK(c, k1) /\ Keys([S EXCEPT ![c] = k1.session], P, B)
<1> DEFINE s == k.session
           t == UnwrapChainSeed(s, f, b)
<1>1. s \in SessionType /\ b \in SealedType
  BY DEF ClientOK, ClientType, Keys
<1>2. /\ t \in SessionType /\ t.sid = s.sid /\ t.epoch = s.epoch
      /\ t.disposed = s.disposed /\ t.encap = s.encap
      /\ t.decap = [s.decap EXCEPT ![f] = Root(b.seed)]
      /\ t.sender = [s.sender EXCEPT ![f] = [epoch |-> b.epoch, seed |-> b.seed]]
  BY <1>1 DEF UnwrapChainSeed, SessionType, SealedType, Root, RootKey, Chain
<1> HIDE DEF t
<1>3. Keys([S EXCEPT ![c] = t], P, B)
  BY <1>2, KeysUnwrap
<1> DEFINE q == [k EXCEPT !.session = t]
<1>4. ClientOK(c, q) /\ q.session = t
  BY <1>2, WithSession
<1>5. q = [k EXCEPT !.session = UnwrapChainSeed(@, f, b)]
  BY DEF t
<1> HIDE DEF q
<1>6. ClientOK(c, q) /\ Keys([S EXCEPT ![c] = q.session], P, B)
  BY <1>3, <1>4
<1> QED BY <1>5, <1>6

(* The seeds are counted, and the last one sets off the welcome ratchet.   *)
LEMMA CountSeedLawful ==
  ASSUME NEW S, NEW P, NEW B, NEW c \in Conn, NEW k, ClientOK(c, k), Keys(S, P, B),
         S[c] = k.session, NEW a \in CountSeed(k)
  PROVE  Lawful(c, S, P, B, a)
<1> DEFINE k1 == [k EXCEPT !.chainsReceived = @ + 1]
           k2 == [k1 EXCEPT !.phase = "ready"]
<1>1. k \in ClientType
  BY DEF ClientOK
<1>2. /\ k1 \in ClientType /\ k1.session = k.session /\ k1.peers = k.peers
      /\ k1.lobby = k.lobby /\ k1.sessions = k.sessions /\ k1.name = k.name
  BY <1>1 DEF ClientType
<1>3. a \in RotateKeys(k2) \/ a = Silent(k1)
  BY DEF CountSeed
<1> HIDE DEF k1
<1>4. /\ k2 \in ClientType /\ k2.session = k.session /\ k2.peers = k.peers
      /\ k2.lobby = k.lobby /\ k2.sessions = k.sessions /\ k2.name = k.name
  BY <1>2 DEF ClientType
<1> HIDE DEF k2
<1>5. ClientOK(c, k1) /\ ClientOK(c, k2)
  <2>1. ClientOK(c, k1)
    BY <1>2 DEF ClientOK
  <2>2. ClientOK(c, k2)
    BY <1>4 DEF ClientOK
  <2> QED BY <2>1, <2>2
<1>6. CASE a = Silent(k1)
  BY <1>2, <1>5, <1>6, IdleLawful
<1>7. CASE a \in RotateKeys(k2)
  BY <1>4, <1>5, <1>7, RotateLawful
<1> QED BY <1>3, <1>6, <1>7

(* Taking a claim, or a ratchet key, touches no root.                      *)
LEMMA AcceptFields ==
  ASSUME NEW s \in SessionType, NEW n \in Name, NEW x \in ClaimEntry
  PROVE  /\ AcceptClaim(s, n, x) \in SessionType
         /\ AcceptClaim(s, n, x).sid = s.sid /\ AcceptClaim(s, n, x).epoch = s.epoch
         /\ AcceptClaim(s, n, x).disposed = s.disposed
         /\ AcceptClaim(s, n, x).encap = s.encap /\ AcceptClaim(s, n, x).decap = s.decap
         /\ AcceptClaim(s, n, x).sender = s.sender /\ AcceptClaim(s, n, x).eks = s.eks
BY DEF AcceptClaim, SessionType

(* A ratchet key is put down.                                              *)
LEMMA EkRest ==
  ASSUME NEW s \in SessionType, NEW n \in Name, NEW ek \in RatchetKey
  PROVE  /\ UpdatePeerRatchetEk(s, n, ek) \in SessionType
         /\ UpdatePeerRatchetEk(s, n, ek).sid = s.sid
         /\ UpdatePeerRatchetEk(s, n, ek).epoch = s.epoch
         /\ UpdatePeerRatchetEk(s, n, ek).disposed = s.disposed
         /\ UpdatePeerRatchetEk(s, n, ek).encap = s.encap
         /\ UpdatePeerRatchetEk(s, n, ek).decap = s.decap
         /\ UpdatePeerRatchetEk(s, n, ek).sender = s.sender
BY DEF UpdatePeerRatchetEk, SessionType

LEMMA EkFields ==
  ASSUME NEW s \in SessionType, NEW n \in Name, NEW ek \in RatchetKey
  PROVE  /\ UpdatePeerRatchetEk(s, n, ek) \in SessionType
         /\ UpdatePeerRatchetEk(s, n, ek).sid = s.sid
         /\ UpdatePeerRatchetEk(s, n, ek).epoch = s.epoch
         /\ UpdatePeerRatchetEk(s, n, ek).disposed = s.disposed
         /\ UpdatePeerRatchetEk(s, n, ek).encap = s.encap
         /\ UpdatePeerRatchetEk(s, n, ek).decap = s.decap
         /\ UpdatePeerRatchetEk(s, n, ek).sender = s.sender
         /\ UpdatePeerRatchetEk(s, n, ek).eks = [s.eks EXCEPT ![n] = ek]
BY DEF UpdatePeerRatchetEk, SessionType

(* An ek_update arrives: the claim and the ratchet key of a peer.          *)
LEMMA TakeEkLawful ==
  ASSUME NEW S, NEW P, NEW B, NEW c \in Conn, NEW k, ClientOK(c, k), Keys(S, P, B),
         S[c] = k.session, NEW m, m.from \in Name, m.ek \in RatchetKey,
         m.claim \in ClaimEntry
  PROVE  Lawful(c, S, P, B, Silent(TakeEk(k, m)))
<1> DEFINE s == k.session
           t == UpdatePeerRatchetEk(AcceptClaim(s, m.from, m.claim), m.from, m.ek)
           q == [k EXCEPT !.session = t]
<1>1. s \in SessionType /\ S \in [Conn -> SessionType]
  BY DEF ClientOK, ClientType, Keys
<1>2. /\ t \in SessionType /\ t.sid = s.sid /\ t.epoch = s.epoch
      /\ t.disposed = s.disposed /\ t.encap = s.encap /\ t.decap = s.decap
      /\ t.sender = s.sender
  <2> DEFINE s1 == AcceptClaim(s, m.from, m.claim)
  <2>1. /\ s1 \in SessionType /\ s1.sid = s.sid /\ s1.epoch = s.epoch
        /\ s1.disposed = s.disposed /\ s1.encap = s.encap /\ s1.decap = s.decap
        /\ s1.sender = s.sender
    BY <1>1, AcceptFields
  <2>2. t = UpdatePeerRatchetEk(s1, m.from, m.ek)
    OBVIOUS
  <2> HIDE DEF s1, t
  <2> QED BY <2>1, <2>2, EkRest
<1>3. TakeEk(k, m) = k \/ TakeEk(k, m) = q
  BY DEF TakeEk
<1> HIDE DEF t
<1>4. ClientOK(c, q) /\ q.session = t
  BY <1>2, WithSession
<1> HIDE DEF q
<1>5. Keys([S EXCEPT ![c] = q.session], P, B)
  BY <1>2, <1>4, KeysSame
<1>6. Lawful(c, S, P, B, Silent(q))
  BY <1>1, <1>4, <1>5, SilentLawful
<1>7. Lawful(c, S, P, B, Silent(k))
  BY IdleLawful
<1> QED BY <1>3, <1>6, <1>7

(* What receiveRatchetStep does to the keys.                               *)
LEMMA ReceiveFields ==
  ASSUME NEW s \in SessionType, NEW f \in Name, NEW p \in StepType, Numbered(s)
  PROVE  LET t == ReceiveRatchetStep(s, f, p) IN
         /\ t \in SessionType /\ t.sid = s.sid /\ t.epoch = s.epoch
         /\ t.disposed = s.disposed /\ t.encap = s.encap
         /\ t.eks = s.eks
         /\ IF Opens(s, f, p)
            THEN /\ t.decap = [s.decap EXCEPT ![f] = NextRoot(s.decap[f])]
                 /\ t.sender = [s.sender EXCEPT ![f] =
                       [epoch |-> s.sender[f].epoch + 1, seed |-> p.seed]]
            ELSE t.decap = s.decap /\ t.sender = s.sender
<1>1. /\ s.decap \in [Name -> RootKey \cup {Null}] /\ s.sender \in [Name -> Chain \cup {Null}]
      /\ s.kp \in Nat /\ p.seed \in Seed
  BY DEF SessionType, StepType
<1>2. CASE Opens(s, f, p)
  <2> DEFINE d == [s.decap EXCEPT ![f] = NextRoot(s.decap[f])]
             e == [s.sender EXCEPT ![f] = [epoch |-> s.sender[f].epoch + 1, seed |-> p.seed]]
             t == [s EXCEPT !.sender = e, !.decap = d, !.kp = @ + 1]
  <2>1. s.decap[f] # Null
    BY <1>2 DEF Opens, TriesDecap
  <2>2. s.decap[f] \in RootKey
    BY <1>1, <2>1
  <2>3. d \in [Name -> RootKey \cup {Null}]
    <3>1. NextRoot(s.decap[f]) \in RootKey
      BY <2>2 DEF NextRoot, RootKey
    <3> QED BY <1>1, <3>1
  <2>4. e \in [Name -> Chain \cup {Null}]
    <3>1. s.sender[f] = [epoch |-> Top(s.decap[f]).nth, seed |-> Top(s.decap[f])]
      BY <2>1 DEF Numbered
    <3>2. Top(s.decap[f]).nth \in Nat
      BY <2>2 DEF Top, RootKey, Seed
    <3>3. s.sender[f].epoch \in Nat
      BY <3>1, <3>2
    <3>4. [epoch |-> s.sender[f].epoch + 1, seed |-> p.seed] \in Chain
      BY <1>1, <3>3 DEF Chain
    <3> QED BY <1>1, <3>4
  <2>5. ReceiveRatchetStep(s, f, p) = t
    BY <1>2 DEF ReceiveRatchetStep
  <2> DEFINE n == s.kp + 1
             u == [s EXCEPT !.sender = e, !.decap = d, !.kp = n]
  <2>a. t = u /\ n \in Nat
    BY <1>1
  <2> HIDE DEF d, e, n, t
  <2>6. /\ t \in SessionType /\ t.sid = s.sid /\ t.epoch = s.epoch
        /\ t.disposed = s.disposed /\ t.encap = s.encap /\ t.decap = d /\ t.sender = e
        /\ t.eks = s.eks
    <3>1. /\ u \in SessionType /\ u.sid = s.sid /\ u.epoch = s.epoch
          /\ u.disposed = s.disposed /\ u.encap = s.encap /\ u.decap = d /\ u.sender = e
          /\ u.eks = s.eks
      BY <2>3, <2>4, <2>a DEF SessionType
    <3> HIDE DEF u
    <3> QED BY <3>1, <2>a
  <2> QED BY <1>2, <2>5, <2>6 DEF d, e
<1>3. CASE ~Opens(s, f, p)
  <2> DEFINE b == s.spent \/ TriesDecap(s, f)
             t == [s EXCEPT !.spent = b]
  <2>1. b \in BOOLEAN
    OBVIOUS
  <2>2. ReceiveRatchetStep(s, f, p) = t
    BY <1>3 DEF ReceiveRatchetStep
  <2> HIDE DEF b
  <2>3. /\ t \in SessionType /\ t.sid = s.sid /\ t.epoch = s.epoch
        /\ t.disposed = s.disposed /\ t.encap = s.encap /\ t.decap = s.decap
        /\ t.sender = s.sender /\ t.eks = s.eks
    BY <2>1 DEF SessionType
  <2> HIDE DEF t
  <2> QED BY <1>3, <2>2, <2>3
<1> QED BY <1>2, <1>3

(* A ratchet step arrives, is opened or not, and may be answered.          *)
LEMMA TakeStepLawful ==
  ASSUME NEW S, NEW P, NEW B, NEW c \in Conn, NEW k, ClientOK(c, k), Keys(S, P, B),
         S[c] = k.session, Called(c) \in Name, NEW m, m.from \in Name,
         m.payload \in P[Called(c)], m.newEk \in RatchetKey, m.claim \in ClaimEntry
  PROVE  Lawful(c, S, P, B, TakeStep(k, m))
<1> DEFINE s == k.session
           s1 == AcceptClaim(s, m.from, m.claim)
           s2 == ReceiveRatchetStep(s1, m.from, m.payload)
           s3 == UpdatePeerRatchetEk(s2, m.from, m.newEk)
           s4 == ClaimBuilt(s3)
           f == [type |-> "ek_update", ek |-> RatchetEk(s3), claim |-> ClaimOf(s3)]
           q == [k EXCEPT !.session = s2]
           r == [k EXCEPT !.session = s4]
<1>1. /\ s \in SessionType /\ S \in [Conn -> SessionType] /\ Numbered(s)
      /\ m.payload \in StepType
  BY DEF ClientOK, ClientType, Keys, SessionsOK
<1>2. \/ TakeStep(k, m) = Silent(k)
      \/ TakeStep(k, m) = Silent(q) /\ ~Opens(s1, m.from, m.payload)
      \/ TakeStep(k, m) = Answer(r, <<f>>) /\ Opens(s1, m.from, m.payload)
  BY DEF TakeStep
<1>3. /\ s1 \in SessionType /\ s1.sid = s.sid /\ s1.epoch = s.epoch
      /\ s1.disposed = s.disposed /\ s1.encap = s.encap /\ s1.decap = s.decap
      /\ s1.sender = s.sender
  BY <1>1, AcceptFields
<1> HIDE DEF s1
<1>4. Numbered(s1)
  BY <1>1, <1>3 DEF Numbered
<1>5. /\ s2 \in SessionType /\ s2.sid = s.sid /\ s2.epoch = s.epoch
      /\ s2.disposed = s.disposed /\ s2.encap = s.encap
      /\ IF Opens(s1, m.from, m.payload)
         THEN /\ s2.decap = [s1.decap EXCEPT ![m.from] = NextRoot(s1.decap[m.from])]
              /\ s2.sender = [s1.sender EXCEPT ![m.from] =
                    [epoch |-> s1.sender[m.from].epoch + 1, seed |-> m.payload.seed]]
         ELSE s2.decap = s1.decap /\ s2.sender = s1.sender
  BY <1>1, <1>3, <1>4, ReceiveFields
<1> HIDE DEF s2
<1>6. /\ s3 \in SessionType /\ s3.sid = s2.sid /\ s3.epoch = s2.epoch
      /\ s3.disposed = s2.disposed /\ s3.encap = s2.encap /\ s3.decap = s2.decap
      /\ s3.sender = s2.sender
  <2>1. s2 \in SessionType
    BY <1>5
  <2> HIDE DEF q, r, f
  <2> QED BY <2>1, EkRest
<1> HIDE DEF s3
<1>7. /\ s4 \in SessionType /\ s4.sid = s3.sid /\ s4.epoch = s3.epoch
      /\ s4.disposed = s3.disposed /\ s4.encap = s3.encap /\ s4.decap = s3.decap
      /\ s4.sender = s3.sender
      /\ ClaimOf(s3) \in ClaimEntry /\ RatchetEk(s3) \in RatchetKey
  BY <1>6, ClaimFields
<1> HIDE DEF s4
<1>8. ClientOK(c, q) /\ q.session = s2
  BY <1>5, WithSession
<1>9. ClientOK(c, r) /\ r.session = s4
  BY <1>5, <1>6, <1>7, WithSession
<1> HIDE DEF q, r
<1>10. CASE ~Opens(s1, m.from, m.payload)
  <2>1. Keys([S EXCEPT ![c] = q.session], P, B)
    BY <1>3, <1>5, <1>8, <1>10, KeysSame
  <2>2. Lawful(c, S, P, B, Silent(q))
    BY <1>1, <1>8, <2>1, SilentLawful
  <2> QED BY <1>2, <1>10, <2>2, IdleLawful
<1>11. CASE Opens(s1, m.from, m.payload)
  <2>1. /\ S[c].decap[m.from] # Null /\ m.payload.root = S[c].decap[m.from]
    BY <1>3, <1>11 DEF Opens, TriesDecap
  <2>2. /\ s4.sid = S[c].sid /\ s4.epoch = S[c].epoch
        /\ s4.disposed = S[c].disposed /\ s4.encap = S[c].encap
        /\ s4.decap = [S[c].decap EXCEPT ![m.from] = NextRoot(S[c].decap[m.from])]
        /\ s4.sender = [S[c].sender EXCEPT ![m.from] =
                    [epoch |-> S[c].sender[m.from].epoch + 1, seed |-> m.payload.seed]]
    BY <1>3, <1>5, <1>6, <1>7, <1>11
  <2>3. Keys([S EXCEPT ![c] = s4], P, B)
    BY <1>7, <2>1, <2>2, KeysOpen
  <2>4. <<f>> \in Seq(UpFrame(c)) /\ Plain(<<f>>, r.session)
    <3>1. f \in UpFrame(c) /\ f.type = "ek_update"
      BY <1>7 DEF UpFrame
    <3> HIDE DEF f
    <3> QED BY <3>1 DEF Plain
  <2> HIDE DEF f
  <2>5. Lawful(c, S, P, B, Answer(r, <<f>>))
    BY <1>1, <1>9, <2>3, <2>4, PlainLawful
  <2> QED BY <1>2, <1>11, <2>5, IdleLawful
<1> QED BY <1>10, <1>11

-----------------------------------------------------------------------------
(* Both clients use the operators of Client and Session as they are,       *)
(* through instances of their own.                                         *)

(* Both clients use the operators of Client and Session as they are.       *)
LEMMA TerminalSame ==
  ASSUME NEW k, NEW m, NEW s, NEW n, NEW N, NEW fs
  PROVE  /\ T!Meet(k, m) = Meet(k, m) /\ T!Forget(k, n) = Forget(k, n)
         /\ T!SeedFrame(k, m) = SeedFrame(k, m) /\ T!IdentifyFrame(k) = IdentifyFrame(k)
         /\ T!RekeyFrame(s) = RekeyFrame(s) /\ T!JoinFrame(n) = JoinFrame(n)
         /\ T!ClaimBuilt(s) = ClaimBuilt(s) /\ T!Fresh(s) = Fresh(s)
         /\ T!Dispose(s) = Dispose(s) /\ T!Silent(k) = Silent(k)
         /\ T!Answer(k, fs) = Answer(k, fs)
         /\ T!UnwrapChainSeed(s, n, m) = UnwrapChainSeed(s, n, m)
         /\ T!Unwraps(s, m) = Unwraps(s, m)
         /\ T!Acceptable(s, n, m) = Acceptable(s, n, m)
BY DEF T!Meet, Meet, T!Forget, Forget, T!SeedFrame, SeedFrame, T!IdentifyFrame,
   IdentifyFrame, T!RekeyFrame, RekeyFrame, T!JoinFrame, JoinFrame, T!ClaimBuilt,
   ClaimBuilt, T!Fresh, Fresh, T!Dispose, Dispose, T!Silent, Silent, T!Answer, Answer,
   T!UnwrapChainSeed, UnwrapChainSeed, T!Unwraps, Unwraps, T!Acceptable, Acceptable,
   T!AcceptClaim, AcceptClaim, T!WrapChainSeedFor, WrapChainSeedFor,
   T!UpdatePeerRatchetEk, UpdatePeerRatchetEk, T!RemovePeer, RemovePeer,
   T!SealedSeed, SealedSeed, T!SealEk, SealEk, T!RatchetEk, RatchetEk, T!ClaimOf, ClaimOf,
   T!CurrentSeed, CurrentSeed, T!Root, Root

(* The same for the operators built on them.                               *)
LEMMA TerminalRotates ==
  ASSUME NEW k, NEW m
  PROVE  /\ T!RotateKeys(k) = RotateKeys(k) /\ T!CountSeed(k) = CountSeed(k)
         /\ T!TakeStep(k, m) = TakeStep(k, m) /\ T!TakeEk(k, m) = TakeEk(k, m)
<1>1. ASSUME NEW q PROVE T!RotateKeys(q) = RotateKeys(q)
  BY DEF T!RotateKeys, RotateKeys, T!CanRatchet, CanRatchet, T!BrokenOff, BrokenOff,
   T!Stepped, Stepped, T!NextRoot, NextRoot, T!CommitRatchetStep, CommitRatchetStep,
   T!PerformRatchetStep, PerformRatchetStep, T!ClaimBuilt,
   ClaimBuilt, T!Silent, Silent, T!Answer, Answer, T!RatchetEk, RatchetEk, T!ClaimOf, ClaimOf
<1>2. T!CountSeed(k) = CountSeed(k)
  BY <1>1 DEF T!CountSeed, CountSeed, T!Silent, Silent, T!Answer, Answer
<1>3. T!TakeStep(k, m) = TakeStep(k, m)
  BY DEF T!TakeStep, TakeStep, T!Silent, Silent, T!Answer, Answer, T!AcceptClaim, AcceptClaim,
   T!ReceiveRatchetStep, ReceiveRatchetStep, T!Opens, Opens, T!TriesDecap, TriesDecap,
   T!NextRoot, NextRoot, T!UpdatePeerRatchetEk, UpdatePeerRatchetEk, T!ClaimBuilt,
   ClaimBuilt, T!RatchetEk, RatchetEk, T!ClaimOf, ClaimOf, T!Acceptable, Acceptable
<1>4. T!TakeEk(k, m) = TakeEk(k, m)
  BY DEF T!TakeEk, TakeEk, T!AcceptClaim, AcceptClaim,
   T!UpdatePeerRatchetEk, UpdatePeerRatchetEk, T!Acceptable, Acceptable
<1> QED BY <1>1, <1>2, <1>3, <1>4

(* The web client likewise.                                                *)
LEMMA WebSame ==
  ASSUME NEW k, NEW m, NEW s, NEW n, NEW N, NEW fs
  PROVE  /\ W!Meet(k, m) = Meet(k, m) /\ W!Forget(k, n) = Forget(k, n)
         /\ W!SeedFrame(k, m) = SeedFrame(k, m) /\ W!IdentifyFrame(k) = IdentifyFrame(k)
         /\ W!RekeyFrame(s) = RekeyFrame(s) /\ W!JoinFrame(n) = JoinFrame(n)
         /\ W!ClaimBuilt(s) = ClaimBuilt(s) /\ W!Fresh(s) = Fresh(s)
         /\ W!Dispose(s) = Dispose(s) /\ W!Silent(k) = Silent(k)
         /\ W!Answer(k, fs) = Answer(k, fs)
         /\ W!UnwrapChainSeed(s, n, m) = UnwrapChainSeed(s, n, m)
         /\ W!Unwraps(s, m) = Unwraps(s, m)
         /\ W!Acceptable(s, n, m) = Acceptable(s, n, m)
BY DEF W!Meet, Meet, W!Forget, Forget, W!SeedFrame, SeedFrame, W!IdentifyFrame,
   IdentifyFrame, W!RekeyFrame, RekeyFrame, W!JoinFrame, JoinFrame, W!ClaimBuilt,
   ClaimBuilt, W!Fresh, Fresh, W!Dispose, Dispose, W!Silent, Silent, W!Answer, Answer,
   W!UnwrapChainSeed, UnwrapChainSeed, W!Unwraps, Unwraps, W!Acceptable, Acceptable,
   W!AcceptClaim, AcceptClaim, W!WrapChainSeedFor, WrapChainSeedFor,
   W!UpdatePeerRatchetEk, UpdatePeerRatchetEk, W!RemovePeer, RemovePeer,
   W!SealedSeed, SealedSeed, W!SealEk, SealEk, W!RatchetEk, RatchetEk, W!ClaimOf, ClaimOf,
   W!CurrentSeed, CurrentSeed, W!Root, Root

(* And for the operators built on them.                                    *)
LEMMA WebRotates ==
  ASSUME NEW k, NEW m
  PROVE  /\ W!RotateKeys(k) = RotateKeys(k) /\ W!CountSeed(k) = CountSeed(k)
         /\ W!TakeStep(k, m) = TakeStep(k, m) /\ W!TakeEk(k, m) = TakeEk(k, m)
<1>1. ASSUME NEW q PROVE W!RotateKeys(q) = RotateKeys(q)
  BY DEF W!RotateKeys, RotateKeys, W!CanRatchet, CanRatchet, W!BrokenOff, BrokenOff,
   W!Stepped, Stepped, W!NextRoot, NextRoot, W!CommitRatchetStep, CommitRatchetStep,
   W!PerformRatchetStep, PerformRatchetStep, W!ClaimBuilt,
   ClaimBuilt, W!Silent, Silent, W!Answer, Answer, W!RatchetEk, RatchetEk, W!ClaimOf, ClaimOf
<1>2. W!CountSeed(k) = CountSeed(k)
  BY <1>1 DEF W!CountSeed, CountSeed, W!Silent, Silent, W!Answer, Answer
<1>3. W!TakeStep(k, m) = TakeStep(k, m)
  BY DEF W!TakeStep, TakeStep, W!Silent, Silent, W!Answer, Answer, W!AcceptClaim, AcceptClaim,
   W!ReceiveRatchetStep, ReceiveRatchetStep, W!Opens, Opens, W!TriesDecap, TriesDecap,
   W!NextRoot, NextRoot, W!UpdatePeerRatchetEk, UpdatePeerRatchetEk, W!ClaimBuilt,
   ClaimBuilt, W!RatchetEk, RatchetEk, W!ClaimOf, ClaimOf, W!Acceptable, Acceptable
<1>4. W!TakeEk(k, m) = TakeEk(k, m)
  BY DEF W!TakeEk, TakeEk, W!AcceptClaim, AcceptClaim,
   W!UpdatePeerRatchetEk, UpdatePeerRatchetEk, W!Acceptable, Acceptable
<1> QED BY <1>1, <1>2, <1>3, <1>4

(* A new session, and one that is disposed of, hold no keys of anybody.    *)
LEMMA FreshFields ==
  ASSUME NEW sid \in Sid
  PROVE  /\ Fresh(sid) \in SessionType /\ Fresh(sid).sid = sid
         /\ Fresh(sid).epoch = 0 /\ ~Fresh(sid).disposed /\ Empty(Fresh(sid))
BY DEF Fresh, SessionType, Empty

(* A disposed session keeps its number and nothing else.                   *)
LEMMA DisposeFields ==
  ASSUME NEW s \in SessionType
  PROVE  /\ Dispose(s) \in SessionType /\ Dispose(s).sid = s.sid
         /\ Dispose(s).disposed /\ Empty(Dispose(s))
<1>1. s.sid \in Sid
  BY DEF SessionType
<1> QED BY <1>1 DEF Dispose, Fresh, SessionType, Empty

(* Nothing is under way from a session that holds nothing.                 *)
LEMMA KeysEmpty ==
  ASSUME NEW S, NEW P, NEW B, Keys(S, P, B), NEW c \in Conn, NEW t \in SessionType,
         Later(S[c], t), Empty(t)
  PROVE  Keys([S EXCEPT ![c] = t], P, B)
BY KeysForget DEF Empty

(* removePeer forgets one peer.                                            *)
LEMMA RemoveFields ==
  ASSUME NEW s \in SessionType, NEW n \in Name
  PROVE  LET t == RemovePeer(s, n) IN
         /\ t \in SessionType /\ t.sid = s.sid /\ t.epoch = s.epoch
         /\ t.disposed = s.disposed
         /\ t.encap = [s.encap EXCEPT ![n] = Null]
         /\ t.decap = [s.decap EXCEPT ![n] = Null]
         /\ t.sender = [s.sender EXCEPT ![n] = Null]
         /\ t.eks = [s.eks EXCEPT ![n] = Null]
<1> DEFINE e == [s.encap EXCEPT ![n] = Null]
           d == [s.decap EXCEPT ![n] = Null]
           k == [s.eks EXCEPT ![n] = Null]
           x == [s.sender EXCEPT ![n] = Null]
           p == [s.peers EXCEPT ![n] = Null]
           t == [s EXCEPT !.encap = e, !.decap = d, !.eks = k, !.sender = x, !.peers = p]
<1>1. /\ e \in [Name -> RootKey \cup {Null}] /\ d \in [Name -> RootKey \cup {Null}]
      /\ k \in [Name -> RatchetKey \cup {Null}] /\ x \in [Name -> Chain \cup {Null}]
      /\ p \in [Name -> ClaimEntry \cup {Null}]
  BY DEF SessionType
<1>2. RemovePeer(s, n) = t
  BY DEF RemovePeer
<1> HIDE DEF e, d, k, x, p
<1>3. /\ t \in SessionType /\ t.sid = s.sid /\ t.epoch = s.epoch
      /\ t.disposed = s.disposed /\ t.encap = e /\ t.decap = d /\ t.sender = x
      /\ t.eks = k
  BY <1>1 DEF SessionType
<1> HIDE DEF t
<1> QED BY <1>2, <1>3 DEF e, d, k, x

(* A peer has left: its roots and the number of its epoch go with it.      *)
LEMMA ForgetKept ==
  ASSUME NEW S, NEW P, NEW B, NEW c \in Conn, NEW k, ClientOK(c, k), Keys(S, P, B),
         S[c] = k.session, NEW n \in Name
  PROVE  /\ ClientOK(c, Forget(k, n))
         /\ Keys([S EXCEPT ![c] = Forget(k, n).session], P, B)
         /\ Forget(k, n).phase = k.phase /\ Forget(k, n).peers \subseteq k.peers
         /\ Steady(k, Forget(k, n))
<1> DEFINE s == k.session
           t == RemovePeer(s, n)
           q == [k EXCEPT !.session = t, !.peers = @ \ {n}]
<1>1. s \in SessionType /\ k \in ClientType
  BY DEF ClientOK, ClientType
<1>2. /\ t \in SessionType /\ t.sid = s.sid /\ t.epoch = s.epoch
      /\ t.disposed = s.disposed
      /\ t.encap = [s.encap EXCEPT ![n] = Null]
      /\ t.decap = [s.decap EXCEPT ![n] = Null]
      /\ t.sender = [s.sender EXCEPT ![n] = Null]
      /\ t.eks = [s.eks EXCEPT ![n] = Null]
  BY <1>1, RemoveFields
<1>3. Forget(k, n) = q
  BY DEF Forget
<1> HIDE DEF t
<1>4. /\ q \in ClientType /\ q.session = t /\ q.peers = k.peers \ {n} /\ q.name = k.name
      /\ q.phase = k.phase /\ q.lobby = k.lobby /\ q.sessions = k.sessions
      /\ q.reconnect = k.reconnect
  BY <1>1, <1>2 DEF ClientType
<1> HIDE DEF q
<1>5. /\ s.encap \in [Name -> RootKey \cup {Null}]
      /\ s.decap \in [Name -> RootKey \cup {Null}]
      /\ s.sender \in [Name -> Chain \cup {Null}] /\ s.epoch \in Nat
      /\ s.eks \in [Name -> RatchetKey \cup {Null}] /\ k.peers \in SUBSET Name
  BY <1>1 DEF SessionType, ClientType
<1>6. ClientOK(c, q)
  <2>1. \A x \in Name : t.encap[x] # Null => s.encap[x] # Null /\ x # n
    BY <1>2, <1>5
  <2> QED BY <1>2, <1>4, <2>1 DEF ClientOK
<1>7. Keys([S EXCEPT ![c] = t], P, B)
  <2>1. Later(S[c], t)
    BY <1>2, <1>5 DEF Later
  <2>2. \A x \in Name : \/ t.encap[x] = Null
                        \/ /\ t.encap[x] = S[c].encap[x]
                           /\ t.sid = S[c].sid /\ t.epoch = S[c].epoch
    BY <1>2, <1>5
  <2>3. \A x \in Name : \/ t.decap[x] = Null /\ t.sender[x] = Null
                        \/ t.decap[x] = S[c].decap[x] /\ t.sender[x] = S[c].sender[x]
    BY <1>2, <1>5
  <2> QED BY <1>2, <2>1, <2>2, <2>3, KeysForget
<1>8. Steady(k, q)
  <2>1. CanRotate(k) => CanRotate(q)
    BY <1>2, <1>4, <1>5 DEF CanRotate
  <2> QED BY <1>2, <1>4, <2>1 DEF Steady
<1> QED BY <1>3, <1>4, <1>6, <1>7, <1>8

-----------------------------------------------------------------------------
(* Lobbies, and the end of a connection.                                   *)

(* The session drawn for the lobby is new and empty, and its rekey frame   *)
(* is in order.                                                            *)
LEMMA LobbyFields ==
  ASSUME NEW c \in Conn, NEW k, ClientOK(c, k)
  PROVE  LET s == Fresh(<<k.session.sid[1], k.sessions>>) IN
         /\ s \in SessionType /\ s.sid[1] = c /\ s.sid[2] = k.sessions
         /\ Empty(s) /\ Empty(ClaimBuilt(s)) /\ ClaimBuilt(s) \in SessionType
         /\ ClaimBuilt(s).sid = s.sid
         /\ RekeyFrame(s) \in UpFrame(c) /\ RekeyFrame(s).type = "rekey"
<1> DEFINE i == <<k.session.sid[1], k.sessions>>
           s == Fresh(i)
<1>1. i \in Sid /\ i[1] = c /\ i[2] = k.sessions
  BY DEF ClientOK, ClientType, Sid
<1> HIDE DEF i
<1>2. s \in SessionType /\ s.sid = i /\ Empty(s)
  BY <1>1, FreshFields
<1> HIDE DEF s
<1>3. /\ ClaimBuilt(s) \in SessionType /\ ClaimBuilt(s).sid = s.sid
      /\ ClaimBuilt(s).encap = s.encap /\ ClaimBuilt(s).decap = s.decap
      /\ ClaimBuilt(s).sender = s.sender
      /\ ClaimOf(s) \in ClaimEntry /\ RatchetEk(s) \in RatchetKey /\ SealEk(s) \in SealKey
  BY <1>2, ClaimFields
<1>4. Empty(ClaimBuilt(s))
  BY <1>2, <1>3 DEF Empty
<1>5. RekeyFrame(s) \in UpFrame(c) /\ RekeyFrame(s).type = "rekey"
  BY <1>3 DEF RekeyFrame, UpFrame
<1>6. Fresh(<<k.session.sid[1], k.sessions>>) = s
  BY DEF s, i
<1> QED BY <1>1, <1>2, <1>3, <1>4, <1>5, <1>6

(* The terminal client, left alone, draws its next session and waits for   *)
(* `rekeyed` (doLobbyTransition).                                          *)
LEMMA EnterLobbyLawful ==
  ASSUME NEW S, NEW P, NEW B, NEW c \in Conn, NEW k, ClientOK(c, k), Keys(S, P, B),
         S[c] = k.session, ~InBrowser(c)
  PROVE  Lawful(c, S, P, B, T!EnterLobby(k))
<1> DEFINE s == Fresh(<<k.session.sid[1], k.sessions>>)
           d == Dispose(k.session)
           l == ClaimBuilt(s)
           n == k.sessions + 1
           q == [k EXCEPT !.session = d, !.lobby = l, !.sessions = n,
                          !.chainsExpected = 0, !.chainsReceived = 0]
           f == RekeyFrame(s)
<1>1. /\ k \in ClientType /\ k.session \in SessionType /\ k.sessions \in Nat
      /\ S \in [Conn -> SessionType] /\ k.session.sid \in Sid
  BY DEF ClientOK, ClientType, Keys, SessionType
<1>2. /\ d \in SessionType /\ d.sid = k.session.sid /\ d.disposed /\ Empty(d)
  BY <1>1, DisposeFields
<1>3. /\ l \in SessionType /\ l.sid[1] = c /\ l.sid[2] = k.sessions /\ Empty(l)
      /\ f \in UpFrame(c) /\ f.type = "rekey"
  BY LobbyFields
<1>4. T!EnterLobby(k) = Answer(q, <<f>>)
  BY TerminalSame DEF T!EnterLobby
<1> HIDE DEF d, l, f
<1>5. n \in Nat
  BY <1>1
<1>6. /\ q \in ClientType /\ q.session = d /\ q.peers = k.peers /\ q.name = k.name
      /\ q.lobby = l /\ q.sessions = k.sessions + 1
  <2>1. q.sessions = n
    BY <1>1 DEF ClientType
  <2> HIDE DEF n
  <2>2. /\ q \in ClientType /\ q.session = d /\ q.peers = k.peers /\ q.name = k.name
        /\ q.lobby = l
    BY <1>1, <1>2, <1>3, <1>5 DEF ClientType
  <2> QED BY <2>1, <2>2 DEF n
<1> HIDE DEF q
<1>7. ClientOK(c, q)
  <2>1. k.session.sid[1] = c /\ k.session.sid[2] < k.sessions /\ k.session.sid[2] \in Nat
        /\ k.name = UserOf[c]
    BY <1>1 DEF ClientOK, Sid
  <2> QED BY <1>1, <1>2, <1>3, <1>6, <2>1 DEF ClientOK, Empty
<1>8. Keys([S EXCEPT ![c] = q.session], P, B)
  <2>1. Later(S[c], d)
    BY <1>1, <1>2 DEF Later
  <2> QED BY <1>2, <1>6, <2>1, KeysEmpty
<1>9. <<f>> \in Seq(UpFrame(c)) /\ Plain(<<f>>, q.session)
  BY <1>3 DEF Plain
<1> QED BY <1>1, <1>4, <1>7, <1>8, <1>9, PlainLawful

(* The web client replaces its session at once (_doLobbyTransition).       *)
LEMMA LobbyTransitionLawful ==
  ASSUME NEW S, NEW P, NEW B, NEW c \in Conn, NEW k, ClientOK(c, k), Keys(S, P, B),
         S[c] = k.session, InBrowser(c)
  PROVE  Lawful(c, S, P, B, W!DoLobbyTransition(k))
<1> DEFINE s == Fresh(<<k.session.sid[1], k.sessions>>)
           l == ClaimBuilt(s)
           n == k.sessions + 1
           q == [k EXCEPT !.session = l, !.sessions = n,
                          !.chainsExpected = 0, !.chainsReceived = 0, !.rekeying = TRUE]
           f == RekeyFrame(s)
<1>1. /\ k \in ClientType /\ k.session \in SessionType /\ k.sessions \in Nat
      /\ S \in [Conn -> SessionType] /\ k.session.sid \in Sid
  BY DEF ClientOK, ClientType, Keys, SessionType
<1>3. /\ l \in SessionType /\ l.sid[1] = c /\ l.sid[2] = k.sessions /\ Empty(l)
      /\ f \in UpFrame(c) /\ f.type = "rekey"
  BY LobbyFields
<1>4. W!DoLobbyTransition(k) = Answer(q, <<f>>)
  BY WebSame DEF W!DoLobbyTransition
<1> HIDE DEF l, f
<1>5. n \in Nat
  BY <1>1
<1>6. /\ q \in ClientType /\ q.session = l /\ q.peers = k.peers /\ q.name = k.name
      /\ q.lobby = k.lobby /\ q.sessions = k.sessions + 1
  <2>1. q.sessions = n
    BY <1>1 DEF ClientType
  <2> HIDE DEF n
  <2>2. /\ q \in ClientType /\ q.session = l /\ q.peers = k.peers /\ q.name = k.name
        /\ q.lobby = k.lobby
    BY <1>1, <1>3, <1>5 DEF ClientType
  <2> QED BY <2>1, <2>2 DEF n
<1> HIDE DEF q
<1>7. ClientOK(c, q)
  <2>1. k.session.sid[1] = c /\ k.session.sid[2] < k.sessions /\ k.session.sid[2] \in Nat
        /\ k.name = UserOf[c]
    BY <1>1 DEF ClientOK, Sid
  <2> QED BY <1>1, <1>3, <1>6, <2>1 DEF ClientOK, Empty
<1>8. Keys([S EXCEPT ![c] = q.session], P, B)
  <2>1. k.session.sid[1] = c /\ k.session.sid[2] < k.sessions
    BY DEF ClientOK
  <2>2. Later(S[c], l)
    BY <1>3, <2>1 DEF Later
  <2> QED BY <1>3, <1>6, <2>2, KeysEmpty
<1>9. <<f>> \in Seq(UpFrame(c)) /\ Plain(<<f>>, q.session)
  BY <1>3 DEF Plain
<1> QED BY <1>1, <1>4, <1>7, <1>8, <1>9, PlainLawful

(* A client that gives up, or is cut off, has disposed of its session.     *)
LEMMA EndedKept ==
  ASSUME NEW S, NEW P, NEW B, NEW c \in Conn, NEW k, ClientOK(c, k), Keys(S, P, B),
         S[c] = k.session, NEW q \in ClientType, q.session = Dispose(k.session),
         q.name = k.name, q.lobby = k.lobby, q.sessions = k.sessions
  PROVE  ClientOK(c, q) /\ Keys([S EXCEPT ![c] = q.session], P, B)
<1>1. /\ k \in ClientType /\ k.session \in SessionType /\ S \in [Conn -> SessionType]
  BY DEF ClientOK, ClientType, Keys
<1> DEFINE d == Dispose(k.session)
<1>2. /\ d \in SessionType /\ d.sid = k.session.sid /\ d.disposed /\ Empty(d)
  BY <1>1, DisposeFields
<1>3. q.session = d
  OBVIOUS
<1> HIDE DEF d
<1>4. ClientOK(c, q)
  BY <1>2, <1>3 DEF ClientOK, Empty
<1>5. Later(S[c], d)
  BY <1>1, <1>2 DEF Later
<1> QED BY <1>2, <1>3, <1>4, <1>5, KeysEmpty

-----------------------------------------------------------------------------
(* What arrives, and the books a client keeps beside its keys.             *)

(* What a frame that arrives may carry.                                    *)
Arrives(c, P, B, m) ==
  /\ m \in DownFrame(c)
  /\ m.type = "ratchet_step_fwd" => m.payload \in P[Called(c)]
  /\ m.type = "relay" => m.payload \in B

(* What a frame from the server has in it, by type.                        *)
LEMMA FrameFields ==
  ASSUME NEW c, NEW m \in DownFrame(c)
  PROVE  /\ m.type = "room_created" => m.roomId \in RoomId
         /\ m.type = "joined" => m.members \in SUBSET MemberType /\ IsFiniteSet(m.members)
         /\ m.type = "peer_joined" => m \in [type : {"peer_joined"}, username : Name,
               ek : SealKey, ratchetEk : RatchetKey, claim : ClaimEntry]
         /\ m.type = "peer_left" => m.username \in Name
         /\ m.type = "relay" => m.from \in Name /\ m.payload \in SealedType
         /\ m.type = "ratchet_step_fwd" => /\ m.from \in Name /\ m.payload \in StepType
                                          /\ Called(c) \in Name
                                          /\ m.newEk \in RatchetKey /\ m.claim \in ClaimEntry
         /\ m.type = "ek_update_fwd" => /\ m.from \in Name /\ m.ek \in RatchetKey
                                        /\ m.claim \in ClaimEntry
BY DEF DownFrame

(* Our seed for a member, and how we introduce ourselves.                  *)
LEMMA SeedFrameFields ==
  ASSUME NEW c \in Conn, NEW k, ClientOK(c, k), NEW m, m.username \in Name,
         m.ek \in SealKey
  PROVE  /\ SeedFrame(k, m) \in UpFrame(c) /\ SeedFrame(k, m).type = "relay"
         /\ SeedFrame(k, m).payload.epoch = k.session.epoch
         /\ SeedFrame(k, m).payload.seed = CurrentSeed(k.session)
<1> DEFINE s == k.session
           b == SealedSeed(s, m.ek)
<1>1. s.sid \in Sid /\ s.epoch \in Nat
  BY DEF ClientOK, ClientType, SessionType
<1>2. b \in SealedType /\ b.epoch = s.epoch /\ b.seed = CurrentSeed(s)
  BY <1>1 DEF SealedSeed, CurrentSeed, SealedType, Seed
<1>3. SeedFrame(k, m) = [type |-> "relay", to |-> m.username, payload |-> b]
  BY DEF SeedFrame
<1> HIDE DEF b
<1> QED BY <1>2, <1>3 DEF UpFrame

(* An identify frame is in order.                                          *)
LEMMA IdentifyFields ==
  ASSUME NEW c \in Conn, NEW k, ClientOK(c, k)
  PROVE  IdentifyFrame(k) \in UpFrame(c) /\ IdentifyFrame(k).type = "identify"
<1>1. k.session \in SessionType /\ k.name = UserOf[c]
  BY DEF ClientOK, ClientType
<1>2. /\ ClaimOf(k.session) \in ClaimEntry /\ RatchetEk(k.session) \in RatchetKey
      /\ SealEk(k.session) \in SealKey
  BY <1>1, ClaimFields
<1> QED BY <1>1, <1>2 DEF IdentifyFrame, UpFrame

(* Counting and the phase touch no key.                                    *)
LEMMA BookKept ==
  ASSUME NEW c \in Conn, NEW k, ClientOK(c, k), NEW q \in ClientType,
         q.session = k.session, k.peers \subseteq q.peers, q.name = k.name,
         q.lobby = k.lobby, q.sessions = k.sessions
  PROVE  ClientOK(c, q)
BY DEF ClientOK

(* The terminal client's counting of expected seeds touches nothing else.  *)
LEMMA CountedFields ==
  ASSUME NEW k \in ClientType
  PROVE  /\ T!Counted(k) \in ClientType /\ T!Counted(k).session = k.session
         /\ T!Counted(k).peers = k.peers /\ T!Counted(k).name = k.name
         /\ T!Counted(k).lobby = k.lobby /\ T!Counted(k).sessions = k.sessions
         /\ T!Counted(k).phase = k.phase /\ T!Counted(k).reconnect = k.reconnect
<1> DEFINE n == IF k.phase = "ready" THEN k.chainsExpected ELSE k.chainsExpected + 1
           q == [k EXCEPT !.chainsExpected = n]
<1>1. n \in Nat
  BY DEF ClientType
<1>2. T!Counted(k) = q
  BY DEF T!Counted
<1> HIDE DEF n
<1>3. /\ q \in ClientType /\ q.session = k.session
      /\ q.peers = k.peers /\ q.name = k.name
      /\ q.lobby = k.lobby /\ q.sessions = k.sessions /\ q.phase = k.phase
      /\ q.reconnect = k.reconnect
  BY <1>1 DEF ClientType
<1> HIDE DEF q
<1> QED BY <1>2, <1>3

(* So does a change of phase.                                              *)
LEMMA PhaseKept ==
  ASSUME NEW k \in ClientType,
         NEW p \in {"joining", "waiting", "ready", "gone", "lost"}
  PROVE  LET q == [k EXCEPT !.phase = p] IN
         /\ q \in ClientType /\ q.session = k.session
         /\ q.peers = k.peers /\ q.name = k.name
         /\ q.lobby = k.lobby /\ q.sessions = k.sessions
         /\ q.phase = p /\ q.reconnect = k.reconnect
BY DEF ClientType

(* A peer that joined is met and gets the current seed.                    *)
LEMMA PeerJoinedLawful ==
  ASSUME NEW S, NEW P, NEW B, NEW c \in Conn, NEW k, ClientOK(c, k), Keys(S, P, B),
         S[c] = k.session, NEW m, m.username \in Name,
         m.ek \in SealKey, m.ratchetEk \in RatchetKey, m.claim \in ClaimEntry,
         NEW q, ClientOK(c, q), q.session = Meet(k, m).session
  PROVE  Lawful(c, S, P, B, Answer(q, <<SeedFrame(k, m)>>))
<1>1. S \in [Conn -> SessionType]
  BY DEF Keys
<1> DEFINE t == Meet(k, m).session
           f == SeedFrame(k, m)
<1>2. Keys([S EXCEPT ![c] = t], P, B)
  BY MeetKeys
<1>3. t.sid = k.session.sid /\ t.epoch = k.session.epoch
  <2>1. MetBy(c, k, m.username, Meet(k, m))
    BY MeetFields
  <2> QED BY <2>1 DEF MetBy
<1>4. q.session = t
  OBVIOUS
<1>5. /\ f \in UpFrame(c) /\ f.type = "relay"
      /\ f.payload.epoch = k.session.epoch
      /\ f.payload.seed = CurrentSeed(k.session)
  BY SeedFrameFields
<1> HIDE DEF t, f
<1>6. CurrentSeed(t) = CurrentSeed(k.session)
  BY <1>3 DEF CurrentSeed
<1>7. <<f>> \in Seq(UpFrame(c)) /\ Plain(<<f>>, q.session)
  BY <1>3, <1>4, <1>5, <1>6 DEF Plain
<1>8. Keys([S EXCEPT ![c] = q.session], P, B)
  BY <1>2, <1>4
<1>9. Lawful(c, S, P, B, Answer(q, <<f>>))
  BY <1>1, <1>7, <1>8, PlainLawful
<1> QED BY <1>9 DEF f

(* One that joins sends its identity first, then its seed to everybody in  *)
(* the room.                                                               *)
Greetings(k, k0, ms) ==
  <<IdentifyFrame(k)>> \o [i \in DOMAIN ms |-> SeedFrame(k0, ms[i])]

LEMMA JoinSends ==
  ASSUME NEW c \in Conn, NEW k, ClientOK(c, k), NEW k0, ClientOK(c, k0),
         k0.session.sid = k.session.sid, k0.session.epoch = k.session.epoch,
         NEW ms \in Seq(MemberType), NEW s, s.sid = k.session.sid,
         s.epoch = k.session.epoch
  PROVE  /\ Greetings(k, k0, ms) \in Seq(UpFrame(c))
         /\ Plain(Greetings(k, k0, ms), s) /\ Asks(Greetings(k, k0, ms)) = {}
<1> DEFINE g == [i \in DOMAIN ms |-> SeedFrame(k0, ms[i])]
           f == IdentifyFrame(k)
<1>1. f \in UpFrame(c) /\ f.type = "identify"
  BY IdentifyFields
<1>2. ASSUME NEW i \in DOMAIN ms
      PROVE  /\ g[i] \in UpFrame(c) /\ g[i].type = "relay"
             /\ g[i].payload.epoch = s.epoch /\ g[i].payload.seed = CurrentSeed(s)
  <2>1. ms[i] \in MemberType
    OBVIOUS
  <2>2. ms[i].username \in Name /\ ms[i].ek \in SealKey
    BY <2>1 DEF MemberType
  <2>3. g[i] = SeedFrame(k0, ms[i])
    OBVIOUS
  <2>4. /\ g[i] \in UpFrame(c) /\ g[i].type = "relay"
        /\ g[i].payload.epoch = k0.session.epoch
        /\ g[i].payload.seed = CurrentSeed(k0.session)
    BY <2>2, <2>3, SeedFrameFields
  <2>5. CurrentSeed(s) = CurrentSeed(k0.session)
    BY DEF CurrentSeed
  <2> QED BY <2>4, <2>5
<1>3. DOMAIN ms = 1 .. Len(ms) /\ Len(ms) \in Nat /\ DOMAIN g = DOMAIN ms
  OBVIOUS
<1> HIDE DEF f, g
<1>4. g \in Seq(UpFrame(c)) /\ Len(g) = Len(ms)
  <2>1. g \in [1 .. Len(ms) -> UpFrame(c)]
    <3>1. g = [i \in DOMAIN ms |-> g[i]]
      BY DEF g
    <3> QED BY <1>2, <1>3, <3>1
  <2> QED BY <2>1, <1>3, SeqDef
<1>5. <<f>> \in Seq(UpFrame(c)) /\ Len(<<f>>) = 1 /\ <<f>>[1] = f
  BY <1>1
<1> DEFINE fs == <<f>> \o g
<1>6. fs \in Seq(UpFrame(c))
  BY <1>4, <1>5
<1>7. ASSUME NEW i \in DOMAIN fs
      PROVE  fs[i] = f \/ \E j \in DOMAIN ms : fs[i] = g[j]
  <2>1. i \in 1 .. 1 + Len(g)
    BY <1>4, <1>5
  <2>2. CASE i = 1
    BY <1>4, <1>5, <2>2
  <2>3. CASE i # 1
    <3>1. i - 1 \in DOMAIN ms
      BY <1>3, <1>4, <2>1, <2>3
    <3>2. fs[i] = g[i - 1]
      BY <1>4, <1>5, <2>1, <2>3
    <3> QED BY <3>1, <3>2
  <2> QED BY <2>2, <2>3
<1> HIDE DEF fs
<1>8. Plain(fs, s)
  BY <1>1, <1>2, <1>7 DEF Plain
<1>9. Asks(fs) = {}
  BY <1>1, <1>2, <1>7 DEF Asks
<1> QED BY <1>6, <1>8, <1>9 DEF Greetings, fs, f, g

-----------------------------------------------------------------------------
(* Meeting the members of a room.                                          *)

(* The clients that k may become while it meets the members of a room.     *)
Kin(c, k, S, P, B) ==
  {q \in ClientType :
     /\ ClientOK(c, q) /\ q.session.sid = k.session.sid
     /\ q.session.epoch = k.session.epoch /\ Steady(k, q)
     /\ Keys([S EXCEPT ![c] = q.session], P, B)}

(* Meeting one member more.                                                *)
LEMMA MeetKin ==
  ASSUME NEW S \in [Conn -> SessionType], NEW P, NEW B, NEW c \in Conn, NEW k,
         NEW q \in Kin(c, k, S, P, B), NEW m \in MemberType
  PROVE  Meet(q, m) \in Kin(c, k, S, P, B)
<1> DEFINE S2 == [S EXCEPT ![c] = q.session]
           r == Meet(q, m)
<1>1. /\ ClientOK(c, q) /\ q.session.sid = k.session.sid
      /\ q.session.epoch = k.session.epoch /\ Keys(S2, P, B) /\ S2[c] = q.session
      /\ Steady(k, q)
  BY DEF Kin
<1>2. m.username \in Name /\ m.ratchetEk \in RatchetKey /\ m.claim \in ClaimEntry
  BY DEF MemberType
<1>3. MetBy(c, q, m.username, r)
  BY <1>1, <1>2, MeetFields
<1>4. [S2 EXCEPT ![c] = r.session] = [S EXCEPT ![c] = r.session]
  OBVIOUS
<1> HIDE DEF S2
<1>5. Keys([S2 EXCEPT ![c] = r.session], P, B)
  BY <1>1, <1>2, MeetKeys
<1> HIDE DEF r
<1>6. Keys([S EXCEPT ![c] = r.session], P, B)
  BY <1>4, <1>5
<1>7. r \in ClientType
  BY <1>3 DEF MetBy, ClientOK
<1>8. Steady(k, r)
  BY <1>1, <1>3 DEF MetBy, Steady
<1>9. r \in Kin(c, k, S, P, B)
  BY <1>1, <1>3, <1>6, <1>7, <1>8 DEF MetBy, Kin
<1> QED BY <1>9 DEF r

(* A change of the books alone.                                            *)
LEMMA BookKin ==
  ASSUME NEW S, NEW P, NEW B, NEW c \in Conn, NEW k,
         NEW q \in Kin(c, k, S, P, B), NEW r \in ClientType, r.session = q.session,
         r.peers = q.peers, r.name = q.name, r.lobby = q.lobby, r.sessions = q.sessions,
         r.reconnect = q.reconnect
  PROVE  r \in Kin(c, k, S, P, B)
<1>1. ClientOK(c, q)
  BY DEF Kin
<1>2. ClientOK(c, r)
  BY <1>1, BookKept
<1>3. Steady(k, q)
  BY DEF Kin
<1>4. Steady(k, r)
  BY <1>3 DEF Steady, CanRotate
<1> QED BY <1>2, <1>4 DEF Kin

(* Meeting all of them, one by one, keeps what meeting one keeps: the      *)
(* terminal client's way                                                   *)
LEMMA TerminalMeetsAll ==
  ASSUME NEW K, NEW k0 \in K, NEW ms \in Seq(MemberType),
         \A q \in K : \A m \in MemberType : T!Counted(Meet(q, m)) \in K
  PROVE  T!AllMet(k0, ms) \in K
<1> DEFINE n == Len(ms)
           step == [x \in K \X (1 .. n) |-> T!Counted(Meet(x[1], ms[x[2]]))]
           met == CHOOSE f : f = [i \in 0 .. n |->
                    IF i = 0 THEN k0 ELSE T!Counted(Meet(f[i - 1], ms[i]))]
<1>0. n \in Nat
  OBVIOUS
<1>1. ASSUME NEW q \in K, NEW i \in 1 .. n PROVE T!Counted(Meet(q, ms[i])) \in K
  <2>1. ms[i] \in MemberType
    OBVIOUS
  <2> QED BY <2>1
<1>2. k0 \in K
  OBVIOUS
<1>3. step \in [K \X (1 .. n) -> K]
  BY <1>1
<1>4. PICK h \in [0 .. n -> K] : Runs(h, n, k0, step)
  BY <1>0, <1>2, <1>3, Iterated
<1>5. h = [i \in 0 .. n |-> IF i = 0 THEN k0 ELSE T!Counted(Meet(h[i - 1], ms[i]))]
  <2>1. ASSUME NEW i \in 0 .. n
        PROVE  h[i] = IF i = 0 THEN k0 ELSE T!Counted(Meet(h[i - 1], ms[i]))
    <3>1. CASE i = 0
      BY <3>1, <1>4 DEF Runs
    <3>2. CASE i # 0
      <4>1. i \in 1 .. n /\ i - 1 \in 0 .. n
        BY <3>2, <1>0
      <4>2. h[i] = step[<<h[i - 1], i>>]
        BY <4>1, <1>4 DEF Runs
      <4>3. h[i - 1] \in K
        BY <4>1
      <4>4. step[<<h[i - 1], i>>] = T!Counted(Meet(h[i - 1], ms[i]))
        BY <4>1, <4>3
      <4> QED BY <3>2, <4>2, <4>4
    <3> QED BY <3>1, <3>2
  <2> QED BY <2>1
<1>6. met = [i \in 0 .. n |-> IF i = 0 THEN k0 ELSE T!Counted(Meet(met[i - 1], ms[i]))]
  BY <1>5
<1>7. T!AllMet(k0, ms) = met[n]
  <2>1. ASSUME NEW q, NEW m PROVE T!Meet(q, m) = Meet(q, m)
    BY TerminalSame
  <2> QED BY <2>1 DEF T!AllMet
<1> HIDE DEF met
<1>8. met[0] = k0 /\ \A i \in 1 .. n : met[i] = T!Counted(Meet(met[i - 1], ms[i]))
  BY <1>0, <1>6
<1> DEFINE U == {i \in 0 .. n : met[i] \in K}
<1>9. 0 \in U
  BY <1>0, <1>2, <1>8
<1>10. ASSUME NEW i \in 0 .. n, i < n, i \in U PROVE i + 1 \in U
  <2>1. i + 1 \in 1 .. n /\ (i + 1) - 1 = i /\ met[i] \in K
    BY <1>10, <1>0
  <2>2. met[i + 1] = T!Counted(Meet(met[i], ms[i + 1]))
    BY <2>1, <1>8
  <2>3. met[i + 1] \in K
    BY <2>1, <2>2, <1>1
  <2> QED BY <2>1, <2>3
<1> HIDE DEF U, n
<1>11. n \in U
  <2>1. \A i \in 0 .. n : i < n /\ i \in U => i + 1 \in U
    BY <1>10
  <2>2. \A i \in 0 .. n : i \in U
    BY <2>1, <1>0, <1>9, CountUp
  <2> QED BY <2>2, <1>0
<1>12. met[n] \in K
  BY <1>11 DEF U
<1> QED BY <1>7, <1>12

(* and the web client's.                                                   *)
LEMMA WebMeetsAll ==
  ASSUME NEW K, NEW k0 \in K, NEW ms \in Seq(MemberType),
         \A q \in K : \A m \in MemberType : Meet(q, m) \in K
  PROVE  W!AllMet(k0, ms) \in K
<1> DEFINE n == Len(ms)
           step == [x \in K \X (1 .. n) |-> Meet(x[1], ms[x[2]])]
           met == CHOOSE f : f = [i \in 0 .. n |->
                    IF i = 0 THEN k0 ELSE Meet(f[i - 1], ms[i])]
<1>0. n \in Nat
  OBVIOUS
<1>1. ASSUME NEW q \in K, NEW i \in 1 .. n PROVE Meet(q, ms[i]) \in K
  <2>1. ms[i] \in MemberType
    OBVIOUS
  <2> QED BY <2>1
<1>2. k0 \in K
  OBVIOUS
<1>3. step \in [K \X (1 .. n) -> K]
  BY <1>1
<1>4. PICK h \in [0 .. n -> K] : Runs(h, n, k0, step)
  BY <1>0, <1>2, <1>3, Iterated
<1>5. h = [i \in 0 .. n |-> IF i = 0 THEN k0 ELSE Meet(h[i - 1], ms[i])]
  <2>1. ASSUME NEW i \in 0 .. n
        PROVE  h[i] = IF i = 0 THEN k0 ELSE Meet(h[i - 1], ms[i])
    <3>1. CASE i = 0
      BY <3>1, <1>4 DEF Runs
    <3>2. CASE i # 0
      <4>1. i \in 1 .. n /\ i - 1 \in 0 .. n
        BY <3>2, <1>0
      <4>2. h[i] = step[<<h[i - 1], i>>]
        BY <4>1, <1>4 DEF Runs
      <4>3. h[i - 1] \in K
        BY <4>1
      <4>4. step[<<h[i - 1], i>>] = Meet(h[i - 1], ms[i])
        BY <4>1, <4>3
      <4> QED BY <3>2, <4>2, <4>4
    <3> QED BY <3>1, <3>2
  <2> QED BY <2>1
<1>6. met = [i \in 0 .. n |-> IF i = 0 THEN k0 ELSE Meet(met[i - 1], ms[i])]
  BY <1>5
<1>7. W!AllMet(k0, ms) = met[n]
  <2>1. ASSUME NEW q, NEW m PROVE W!Meet(q, m) = Meet(q, m)
    BY WebSame
  <2> QED BY <2>1 DEF W!AllMet
<1> HIDE DEF met
<1>8. met[0] = k0 /\ \A i \in 1 .. n : met[i] = Meet(met[i - 1], ms[i])
  BY <1>0, <1>6
<1> DEFINE U == {i \in 0 .. n : met[i] \in K}
<1>9. 0 \in U
  BY <1>0, <1>2, <1>8
<1>10. ASSUME NEW i \in 0 .. n, i < n, i \in U PROVE i + 1 \in U
  <2>1. i + 1 \in 1 .. n /\ (i + 1) - 1 = i /\ met[i] \in K
    BY <1>10, <1>0
  <2>2. met[i + 1] = Meet(met[i], ms[i + 1])
    BY <2>1, <1>8
  <2>3. met[i + 1] \in K
    BY <2>1, <2>2, <1>1
  <2> QED BY <2>1, <2>3
<1> HIDE DEF U, n
<1>11. n \in U
  <2>1. \A i \in 0 .. n : i < n /\ i \in U => i + 1 \in U
    BY <1>10
  <2>2. \A i \in 0 .. n : i \in U
    BY <2>1, <1>0, <1>9, CountUp
  <2> QED BY <2>2, <1>0
<1>12. met[n] \in K
  BY <1>11 DEF U
<1> QED BY <1>7, <1>12

(* In particular all stay kin.                                             *)
LEMMA TerminalAllMet ==
  ASSUME NEW S \in [Conn -> SessionType], NEW P, NEW B, NEW c \in Conn, NEW k,
         NEW k0 \in Kin(c, k, S, P, B), NEW ms \in Seq(MemberType)
  PROVE  T!AllMet(k0, ms) \in Kin(c, k, S, P, B)
<1> DEFINE K == Kin(c, k, S, P, B)
<1>1. ASSUME NEW q \in K, NEW m \in MemberType PROVE T!Counted(Meet(q, m)) \in K
  <2> DEFINE r == Meet(q, m)
             u == T!Counted(r)
  <2>1. r \in K
    BY MeetKin
  <2>2. r \in ClientType
    BY <2>1 DEF Kin
  <2> HIDE DEF r
  <2>3. /\ u \in ClientType /\ u.session = r.session /\ u.peers = r.peers
        /\ u.name = r.name /\ u.lobby = r.lobby /\ u.sessions = r.sessions
        /\ u.reconnect = r.reconnect
    BY <2>2, CountedFields
  <2> HIDE DEF u
  <2>4. u \in K
    BY <2>1, <2>3, BookKin
  <2> QED BY <2>4 DEF u, r
<1> HIDE DEF K
<1>2. k0 \in K => T!AllMet(k0, ms) \in K
  BY <1>1, TerminalMeetsAll
<1> QED BY <1>2 DEF K

LEMMA WebAllMet ==
  ASSUME NEW S \in [Conn -> SessionType], NEW P, NEW B, NEW c \in Conn, NEW k,
         NEW k0 \in Kin(c, k, S, P, B), NEW ms \in Seq(MemberType)
  PROVE  W!AllMet(k0, ms) \in Kin(c, k, S, P, B)
<1> DEFINE K == Kin(c, k, S, P, B)
<1>1. ASSUME NEW q \in K, NEW m \in MemberType PROVE Meet(q, m) \in K
  BY MeetKin
<1> HIDE DEF K
<1>2. k0 \in K => W!AllMet(k0, ms) \in K
  BY <1>1, WebMeetsAll
<1> QED BY <1>2 DEF K

-----------------------------------------------------------------------------
(* The snapshot of `joined`, in either client.                             *)

(* The claim of the identify frame is built.                               *)
LEMMA ClaimKin ==
  ASSUME NEW S, NEW P, NEW B, NEW c \in Conn, NEW k, ClientOK(c, k), Keys(S, P, B),
         S[c] = k.session, NEW k0, k0 = [k EXCEPT !.session = ClaimBuilt(@)]
  PROVE  k0 \in Kin(c, k, S, P, B)
<1> DEFINE t == ClaimBuilt(k.session)
           q == [k EXCEPT !.session = t]
<1>1. k.session \in SessionType
  BY DEF ClientOK, ClientType
<1>2. /\ t \in SessionType /\ t.sid = S[c].sid /\ t.epoch = S[c].epoch
      /\ t.disposed = S[c].disposed /\ t.encap = S[c].encap /\ t.decap = S[c].decap
      /\ t.sender = S[c].sender /\ t.eks = S[c].eks
  BY <1>1, ClaimFields
<1>3. k0 = q
  OBVIOUS
<1> HIDE DEF t
<1>4. /\ ClientOK(c, q) /\ q.session = t /\ q.peers = k.peers
      /\ q.lobby = k.lobby /\ q.reconnect = k.reconnect
  <2>1. t.sid = k.session.sid /\ \A n \in Name : t.encap[n] # Null => k.session.encap[n] # Null
    BY <1>2
  <2> QED BY <1>2, <2>1, WithSession
<1> HIDE DEF q
<1>5. Keys([S EXCEPT ![c] = t], P, B)
  BY <1>2, KeysSame
<1>6. q \in ClientType
  BY <1>4 DEF ClientOK
<1>7. Steady(k, q)
  BY <1>2, <1>4 DEF Steady, CanRotate
<1> QED BY <1>2, <1>3, <1>4, <1>5, <1>6, <1>7 DEF Kin

(* All are met, the books are brought up to date and the frames are sent.  *)
LEMMA JoinedLawful ==
  ASSUME NEW S, NEW P, NEW B, NEW c \in Conn, NEW k, ClientOK(c, k), Keys(S, P, B),
         NEW k0 \in Kin(c, k, S, P, B), NEW ms \in Seq(MemberType),
         NEW r \in Kin(c, k, S, P, B)
  PROVE  Lawful(c, S, P, B, Answer(r, Greetings(k, k0, ms)))
<1> DEFINE fs == Greetings(k, k0, ms)
<1>1. /\ ClientOK(c, r) /\ r.session.sid = k.session.sid
      /\ r.session.epoch = k.session.epoch
      /\ Keys([S EXCEPT ![c] = r.session], P, B)
      /\ ClientOK(c, k0) /\ k0.session.sid = k.session.sid
      /\ k0.session.epoch = k.session.epoch
  BY DEF Kin
<1> DEFINE s == r.session
<1>2. s.sid = k.session.sid /\ s.epoch = k.session.epoch
  BY <1>1
<1> HIDE DEF s
<1>3. fs \in Seq(UpFrame(c)) /\ Plain(fs, s) /\ Asks(fs) = {}
  BY <1>1, <1>2, JoinSends
<1> HIDE DEF fs
<1>4. Plain(fs, r.session) /\ S \in [Conn -> SessionType]
  BY <1>3 DEF s, Keys
<1>5. Lawful(c, S, P, B, Answer(r, fs))
  BY <1>1, <1>3, <1>4, PlainLawful
<1> QED BY <1>5 DEF fs

(* The terminal client (doConnect), whatever the order of the members.     *)
LEMMA ConnectLawful ==
  ASSUME NEW S, NEW P, NEW B, NEW c \in Conn, NEW k, ClientOK(c, k), Keys(S, P, B),
         S[c] = k.session, NEW ms \in Seq(MemberType)
  PROVE  LET a == T!Connect(k, ms)
         IN /\ Lawful(c, S, P, B, a) /\ Steady(k, a.client)
            /\ a.client.phase = "waiting" /\ Asks(a.sends) = {}
<1> DEFINE k0 == [k EXCEPT !.session = ClaimBuilt(@)]
           q == T!AllMet(k0, ms)
           r == [q EXCEPT !.phase = "waiting"]
           fs == Greetings(k, k0, ms)
<1>1. k0 = [k EXCEPT !.session = ClaimBuilt(@)]
  OBVIOUS
<1>2. T!Connect(k, ms) = Answer(r, fs)
  <2>1. ASSUME NEW x, NEW m PROVE T!SeedFrame(x, m) = SeedFrame(x, m)
    BY TerminalSame
  <2>2. T!IdentifyFrame(k) = IdentifyFrame(k) /\ T!ClaimBuilt(k.session) = ClaimBuilt(k.session)
    BY TerminalSame
  <2> QED BY <2>1, <2>2 DEF T!Connect, T!Answer, Answer, Greetings
<1> HIDE DEF k0
<1>3. S \in [Conn -> SessionType] /\ k0 \in Kin(c, k, S, P, B)
  BY <1>1, ClaimKin DEF Keys
<1>4. q \in Kin(c, k, S, P, B)
  BY <1>3, TerminalAllMet
<1> HIDE DEF q
<1>5. q \in ClientType
  BY <1>4 DEF Kin
<1>6. /\ r \in ClientType /\ r.session = q.session
      /\ r.peers = q.peers /\ r.name = q.name /\ r.lobby = q.lobby /\ r.sessions = q.sessions
      /\ r.reconnect = q.reconnect /\ r.phase = "waiting"
  BY <1>5, PhaseKept
<1> HIDE DEF r
<1>7. r \in Kin(c, k, S, P, B)
  BY <1>4, <1>6, BookKin
<1>8. Lawful(c, S, P, B, Answer(r, fs))
  BY <1>3, <1>7, JoinedLawful
<1>9. Steady(k, r) /\ ClientOK(c, k0) /\ k0.session.sid = k.session.sid
      /\ k0.session.epoch = k.session.epoch
  BY <1>3, <1>7 DEF Kin
<1>10. Asks(fs) = {}
  BY <1>9, JoinSends
<1> HIDE DEF fs
<1>11. Answer(r, fs).client = r /\ Answer(r, fs).sends = fs
  BY DEF Answer
<1> QED BY <1>2, <1>6, <1>8, <1>9, <1>10, <1>11

(* The web client (_onJoined), also when it reconnects.                    *)
LEMMA OnJoinedLawful ==
  ASSUME NEW S, NEW P, NEW B, NEW c \in Conn, NEW k, ClientOK(c, k), Keys(S, P, B),
         S[c] = k.session, NEW ms \in Seq(MemberType)
  PROVE  LET a == W!OnJoined(k, ms)
         IN Lawful(c, S, P, B, a) /\ Steady(k, a.client)
<1> DEFINE k0 == [k EXCEPT !.session = ClaimBuilt(@)]
           q == W!AllMet(k0, ms)
           p == IF ms = <<>> THEN "waiting" ELSE "joining"
           n == Len(ms)
           r == [q EXCEPT !.phase = p, !.chainsExpected = n]
           fs == Greetings(k, k0, ms)
<1>1. k0 = [k EXCEPT !.session = ClaimBuilt(@)]
  OBVIOUS
<1>2. W!OnJoined(k, ms) = Answer(r, fs)
  <2>1. ASSUME NEW x, NEW m PROVE W!SeedFrame(x, m) = SeedFrame(x, m)
    BY WebSame
  <2>2. W!IdentifyFrame(k) = IdentifyFrame(k) /\ W!ClaimBuilt(k.session) = ClaimBuilt(k.session)
    BY WebSame
  <2> QED BY <2>1, <2>2 DEF W!OnJoined, W!Answer, Answer, Greetings
<1> HIDE DEF k0
<1>3. S \in [Conn -> SessionType] /\ k0 \in Kin(c, k, S, P, B)
  BY <1>1, ClaimKin DEF Keys
<1>4. q \in Kin(c, k, S, P, B)
  BY <1>3, WebAllMet
<1> HIDE DEF q
<1>5. q \in ClientType /\ n \in Nat /\ p \in {"waiting", "joining"}
  BY <1>4 DEF Kin
<1> HIDE DEF n, p
<1>6. /\ r \in ClientType /\ r.session = q.session
      /\ r.peers = q.peers /\ r.name = q.name /\ r.lobby = q.lobby /\ r.sessions = q.sessions
      /\ r.reconnect = q.reconnect
  BY <1>5 DEF ClientType
<1> HIDE DEF r
<1>7. r \in Kin(c, k, S, P, B)
  BY <1>4, <1>6, BookKin
<1>8. Lawful(c, S, P, B, Answer(r, fs))
  BY <1>3, <1>7, JoinedLawful
<1>9. Steady(k, r)
  BY <1>7 DEF Kin
<1> HIDE DEF fs
<1>10. Answer(r, fs).client = r
  BY DEF Answer
<1> QED BY <1>2, <1>8, <1>9, <1>10

-----------------------------------------------------------------------------
(* What the reactions of the two clients are made of.                      *)

(* The members of a snapshot, listed in any order.                         *)
LEMMA MembersInAnyOrder ==
  ASSUME NEW M \in SUBSET MemberType, IsFiniteSet(M), NEW q \in SetToSeqs(M)
  PROVE  q \in Seq(MemberType)
<1>1. Cardinality(M) \in Nat
  BY FS_CardinalityType
<1>2. q \in [1 .. Cardinality(M) -> M]
  BY DEF SetToSeqs
<1> QED BY <1>1, <1>2, SeqDef

(* A seed arrives, with or without being counted.                          *)
LEMMA SeedOpened ==
  ASSUME NEW S, NEW P, NEW B, NEW c \in Conn, NEW k, ClientOK(c, k), Keys(S, P, B),
         S[c] = k.session, NEW f \in Name, NEW b \in B,
         NEW k1, k1 = [k EXCEPT !.session = UnwrapChainSeed(@, f, b)]
  PROVE  /\ Lawful(c, S, P, B, Silent(k1))
         /\ \A a \in CountSeed(k1) : Lawful(c, S, P, B, a)
<1>1. S \in [Conn -> SessionType]
  BY DEF Keys
<1>2. ClientOK(c, k1) /\ Keys([S EXCEPT ![c] = k1.session], P, B)
  BY UnwrapKept
<1>3. Lawful(c, S, P, B, Silent(k1))
  BY <1>1, <1>2, SilentLawful
<1>4. ASSUME NEW a \in CountSeed(k1) PROVE Lawful(c, S, P, B, a)
  <2> DEFINE S2 == [S EXCEPT ![c] = k1.session]
  <2>1. S2[c] = k1.session /\ Keys(S2, P, B)
    BY <1>1, <1>2
  <2> HIDE DEF S2
  <2>2. Lawful(c, S2, P, B, a)
    BY <1>2, <2>1, CountSeedLawful
  <2>3. Lawful(c, [S EXCEPT ![c] = k1.session], P, B, a)
    BY <2>2 DEF S2
  <2> QED BY <2>3, LawfulAgain
<1> QED BY <1>3, <1>4

(* peer_left: the peer is forgotten, and the last one to leave opens a     *)
(* lobby.                                                                  *)
LEMMA ForgetLawful ==
  ASSUME NEW S, NEW P, NEW B, NEW c \in Conn, NEW k, ClientOK(c, k), Keys(S, P, B),
         S[c] = k.session, NEW n \in Name
  PROVE  /\ Lawful(c, S, P, B, Silent(Forget(k, n)))
         /\ ~InBrowser(c) => Lawful(c, S, P, B, T!EnterLobby(Forget(k, n)))
         /\ InBrowser(c) => Lawful(c, S, P, B, W!DoLobbyTransition(Forget(k, n)))
<1> DEFINE q == Forget(k, n)
           S2 == [S EXCEPT ![c] = q.session]
<1>1. S \in [Conn -> SessionType]
  BY DEF Keys
<1>2. ClientOK(c, q) /\ Keys(S2, P, B)
  BY ForgetKept
<1>3. S2[c] = q.session
  BY <1>1
<1> HIDE DEF q
<1>4. Lawful(c, S, P, B, Silent(q))
  BY <1>1, <1>2, SilentLawful
<1>5. ASSUME NEW a, Lawful(c, S2, P, B, a) PROVE Lawful(c, S, P, B, a)
  BY <1>5, LawfulAgain
<1> HIDE DEF S2
<1>6. ASSUME ~InBrowser(c) PROVE Lawful(c, S, P, B, T!EnterLobby(q))
  <2>1. Lawful(c, S2, P, B, T!EnterLobby(q))
    BY <1>2, <1>3, <1>6, EnterLobbyLawful
  <2> QED BY <1>5, <2>1
<1>7. ASSUME InBrowser(c) PROVE Lawful(c, S, P, B, W!DoLobbyTransition(q))
  <2>1. Lawful(c, S2, P, B, W!DoLobbyTransition(q))
    BY <1>2, <1>3, <1>7, LobbyTransitionLawful
  <2> QED BY <1>5, <2>1
<1> QED BY <1>4, <1>6, <1>7 DEF q

(* The creator joins the room it was given.                                *)
LEMMA JoinAskedLawful ==
  ASSUME NEW S, NEW P, NEW B, NEW c \in Conn, NEW k, ClientOK(c, k), Keys(S, P, B),
         S[c] = k.session, NEW r \in RoomId
  PROVE  Lawful(c, S, P, B, Answer(k, <<JoinFrame(r)>>))
<1>1. S \in [Conn -> SessionType] /\ [S EXCEPT ![c] = k.session] = S
  BY DEF Keys
<1>2. JoinFrame(r) \in UpFrame(c) /\ JoinFrame(r).type = "join"
  BY DEF JoinFrame, UpFrame
<1>3. <<JoinFrame(r)>> \in Seq(UpFrame(c)) /\ Plain(<<JoinFrame(r)>>, k.session)
  BY <1>2 DEF Plain
<1> QED BY <1>1, <1>3, PlainLawful

(* The connection ends: the session is disposed of.                        *)
LEMMA EndedLawful ==
  ASSUME NEW S, NEW P, NEW B, NEW c \in Conn, NEW k, ClientOK(c, k), Keys(S, P, B),
         S[c] = k.session, NEW q \in ClientType, q.session = Dispose(k.session),
         q.name = k.name, q.lobby = k.lobby, q.sessions = k.sessions
  PROVE  Lawful(c, S, P, B, Silent(q))
<1>1. ClientOK(c, q) /\ Keys([S EXCEPT ![c] = q.session], P, B)
  BY EndedKept
<1>2. S \in [Conn -> SessionType]
  BY DEF Keys
<1> QED BY <1>1, <1>2, SilentLawful

(* Disposing of a session, in either client.                               *)
LEMMA DisposeType ==
  ASSUME NEW c \in Conn, NEW k, ClientOK(c, k)
  PROVE  /\ Dispose(k.session) \in SessionType /\ k \in ClientType
         /\ T!Dispose(k.session) = Dispose(k.session)
         /\ W!Dispose(k.session) = Dispose(k.session)
BY DisposeFields, TerminalSame, WebSame DEF ClientOK, ClientType

(* All three ways the clients have to end do the same with their keys      *)
(* (quit or a refused name, _onError, _onWsClose).                         *)
LEMMA EndedFields ==
  ASSUME NEW c \in Conn, NEW k, ClientOK(c, k), NEW q,
         \/ q = T!Ended(k) \/ q = W!OnError(k) \/ q = W!OnWsClose(k)
  PROVE  /\ q \in ClientType /\ q.session = Dispose(k.session)
         /\ q.name = k.name /\ q.lobby = k.lobby /\ q.sessions = k.sessions
<1> DEFINE d == Dispose(k.session)
<1>1. /\ d \in SessionType /\ k \in ClientType
      /\ T!Dispose(k.session) = d /\ W!Dispose(k.session) = d
  BY DisposeType
<1> HIDE DEF d
<1>2. CASE q = T!Ended(k)
  <2>1. q = [k EXCEPT !.phase = "gone", !.session = d]
    BY <1>1, <1>2 DEF T!Ended
  <2>2. /\ q \in ClientType /\ q.session = d
        /\ q.name = k.name /\ q.lobby = k.lobby /\ q.sessions = k.sessions
    BY <1>1, <2>1 DEF ClientType
  <2> QED BY <2>2 DEF d
<1>3. CASE q = W!OnError(k)
  <2>1. q = [k EXCEPT !.phase = "gone", !.session = d, !.peers = {}]
    BY <1>1, <1>3 DEF W!OnError
  <2>2. /\ q \in ClientType /\ q.session = d
        /\ q.name = k.name /\ q.lobby = k.lobby /\ q.sessions = k.sessions
    BY <1>1, <2>1 DEF ClientType
  <2> QED BY <2>2 DEF d
<1>4. CASE q = W!OnWsClose(k) /\ q # W!OnError(k)
  <2>1. q = [k EXCEPT !.phase = "lost", !.session = d,
                      !.chainsExpected = 0, !.chainsReceived = 0]
    BY <1>1, <1>4 DEF W!OnWsClose
  <2>2. /\ q \in ClientType /\ q.session = d
        /\ q.name = k.name /\ q.lobby = k.lobby /\ q.sessions = k.sessions
    BY <1>1, <2>1 DEF ClientType
  <2> QED BY <2>2 DEF d
<1> QED BY <1>2, <1>3, <1>4

-----------------------------------------------------------------------------
(* Every reaction is lawful.                                               *)

(* A frame is of one of the types of OutboundMsg.                          *)
LEMMA FrameTypes ==
  ASSUME NEW c, NEW m \in DownFrame(c)
  PROVE  m.type \in {"error", "room_created", "joined", "peer_joined", "peer_left",
                     "relay", "ratchet_step_fwd", "ek_update_fwd", "rekeyed"}
BY DEF DownFrame

(* The terminal client, whatever it is told.                               *)
LEMMA TerminalReacts ==
  ASSUME NEW S, NEW P, NEW B, NEW c \in Conn, NEW k, ClientOK(c, k), Keys(S, P, B),
         S[c] = k.session, ~InBrowser(c), NEW m, Arrives(c, P, B, m),
         NEW a \in T!Reactions(k, m)
  PROVE  Lawful(c, S, P, B, a)
<1>1. /\ m \in DownFrame(c) /\ S \in [Conn -> SessionType] /\ k \in ClientType
  BY DEF Arrives, Keys, ClientOK
<1>2. Lawful(c, S, P, B, Silent(k))
  BY IdleLawful
<1>3. T!Silent(k) = Silent(k)
  BY TerminalSame
<1>4. CASE m.type = "room_created"
  <2>1. a = T!Answer(k, <<T!JoinFrame(m.roomId)>>)
    BY <1>4 DEF T!Reactions
  <2>2. m.roomId \in RoomId
    BY <1>1, <1>4, FrameFields
  <2>3. a = Answer(k, <<JoinFrame(m.roomId)>>)
    BY <2>1, TerminalSame
  <2> QED BY <2>2, <2>3, JoinAskedLawful
<1>5. CASE m.type = "joined"
  <2>1. PICK q \in T!SetToSeqs(m.members) : a = T!Connect(k, q)
    BY <1>5 DEF T!Reactions
  <2>2. m.members \in SUBSET MemberType /\ IsFiniteSet(m.members)
    BY <1>1, <1>5, FrameFields
  <2>3. q \in SetToSeqs(m.members)
    BY <2>1 DEF T!SetToSeqs, SetToSeqs, T!Cardinality, Cardinality
  <2>4. q \in Seq(MemberType)
    BY <2>2, <2>3, MembersInAnyOrder
  <2> QED BY <2>1, <2>4, ConnectLawful
<1>6. CASE m.type = "peer_joined"
  <2>1. a = T!OnPeerJoined(k, m)
    BY <1>6 DEF T!Reactions
  <2>2. /\ m.username \in Name /\ m.ek \in SealKey /\ m.ratchetEk \in RatchetKey
        /\ m.claim \in ClaimEntry
    BY <1>1, <1>6, FrameFields
  <2> DEFINE r == Meet(k, m)
             q == T!Counted(r)
  <2>3. a = Silent(k) \/ a = Answer(q, <<SeedFrame(k, m)>>)
    BY <2>1, TerminalSame DEF T!OnPeerJoined
  <2>4. MetBy(c, k, m.username, r)
    BY <2>2, MeetFields
  <2>5. r \in ClientType /\ ClientOK(c, r)
    BY <2>4 DEF MetBy, ClientOK
  <2>6. r.session = Meet(k, m).session
    OBVIOUS
  <2> HIDE DEF r
  <2>7. /\ q \in ClientType /\ q.session = r.session /\ q.peers = r.peers
        /\ q.name = r.name /\ q.lobby = r.lobby /\ q.sessions = r.sessions
    BY <2>5, CountedFields
  <2> HIDE DEF q
  <2>8. ClientOK(c, q)
    BY <2>5, <2>7, BookKept
  <2>9. q.session = Meet(k, m).session
    BY <2>6, <2>7
  <2>10. Lawful(c, S, P, B, Answer(q, <<SeedFrame(k, m)>>))
    BY <2>2, <2>8, <2>9, PeerJoinedLawful
  <2> QED BY <1>2, <2>3, <2>10
<1>7. CASE m.type = "relay"
  <2> DEFINE k1 == [k EXCEPT !.session = UnwrapChainSeed(@, m.from, m.payload)]
  <2>1. a \in T!OnSeed(k, m)
    BY <1>7 DEF T!Reactions
  <2>2. m.from \in Name /\ m.payload \in B
    BY <1>1, <1>7, FrameFields DEF Arrives
  <2>3. a = Silent(k) \/ a = Silent(k1) \/ a \in CountSeed(k1)
    <3>1. T!CountSeed(k1) = CountSeed(k1)
      BY TerminalRotates
    <3> QED BY <2>1, <3>1, TerminalSame DEF T!OnSeed, Silent, Answer
  <2>4. k1 = [k EXCEPT !.session = UnwrapChainSeed(@, m.from, m.payload)]
    OBVIOUS
  <2> HIDE DEF k1
  <2>5. Lawful(c, S, P, B, Silent(k1)) /\ \A x \in CountSeed(k1) : Lawful(c, S, P, B, x)
    BY <2>2, <2>4, SeedOpened
  <2> QED BY <1>2, <2>3, <2>5
<1>8. CASE m.type = "ratchet_step_fwd"
  <2>1. a = TakeStep(k, m) \/ a = Silent(k)
    BY <1>8, <1>3, TerminalRotates DEF T!Reactions, T!OnRatchetStep
  <2>2. /\ m.from \in Name /\ m.newEk \in RatchetKey /\ m.claim \in ClaimEntry
        /\ Called(c) \in Name /\ m.payload \in P[Called(c)]
    BY <1>1, <1>8, FrameFields DEF Arrives
  <2>3. Lawful(c, S, P, B, TakeStep(k, m))
    BY <2>2, TakeStepLawful
  <2> QED BY <1>2, <2>1, <2>3
<1>9. CASE m.type = "ek_update_fwd"
  <2>1. a = Silent(TakeEk(k, m)) \/ a = Silent(k)
    <3>1. a = T!OnEkUpdate(k, m) /\ T!TakeEk(k, m) = TakeEk(k, m)
      BY <1>9, TerminalRotates DEF T!Reactions
    <3> QED BY <3>1, TerminalSame DEF T!OnEkUpdate, Silent, Answer
  <2>2. m.from \in Name /\ m.ek \in RatchetKey /\ m.claim \in ClaimEntry
    BY <1>1, <1>9, FrameFields
  <2>3. Lawful(c, S, P, B, Silent(TakeEk(k, m)))
    BY <2>2, TakeEkLawful
  <2> QED BY <1>2, <2>1, <2>3
<1>10. CASE m.type = "peer_left"
  <2> DEFINE q == Forget(k, m.username)
  <2>1. a = T!OnPeerLeft(k, m)
    BY <1>10 DEF T!Reactions
  <2>2. m.username \in Name
    BY <1>1, <1>10, FrameFields
  <2>3. a = Silent(k) \/ a = Silent(q) \/ a = T!EnterLobby(q)
    <3>1. T!Forget(k, m.username) = q /\ T!Silent(q) = Silent(q)
      BY TerminalSame
    <3> HIDE DEF q
    <3> QED BY <1>3, <2>1, <3>1 DEF T!OnPeerLeft
  <2>4. Lawful(c, S, P, B, Silent(q)) /\ Lawful(c, S, P, B, T!EnterLobby(q))
    BY <2>2, ForgetLawful
  <2> QED BY <1>2, <2>3, <2>4
<1>11. CASE m.type = "rekeyed"
  <2>1. a = T!OnRekeyed(k)
    BY <1>11 DEF T!Reactions
  <2> DEFINE q == [k EXCEPT !.phase = "waiting", !.session = k.lobby, !.lobby = Null]
  <2>2. a = Silent(k) \/ (k.lobby # Null /\ a = Silent(q))
    BY <2>1, TerminalSame DEF T!OnRekeyed, Silent, Answer
  <2>3. ASSUME k.lobby # Null PROVE Lawful(c, S, P, B, Silent(q))
    <3>1. /\ k.lobby \in SessionType /\ k.lobby.sid[1] = c
          /\ k.session.sid[2] < k.lobby.sid[2] /\ k.lobby.sid[2] < k.sessions
          /\ Empty(k.lobby) /\ k.session.sid[1] = c /\ k.name = UserOf[c]
      BY <2>3 DEF ClientOK, ClientType
    <3>2. /\ q \in ClientType /\ q.session = k.lobby /\ q.lobby = Null
          /\ q.name = k.name /\ q.sessions = k.sessions
      BY <1>1, <3>1 DEF ClientType
    <3> HIDE DEF q
    <3>3. ClientOK(c, q)
      BY <3>1, <3>2 DEF ClientOK, Empty
    <3>4. Later(S[c], q.session)
      BY <3>1, <3>2 DEF Later
    <3>5. Keys([S EXCEPT ![c] = q.session], P, B)
      BY <3>1, <3>2, <3>4, KeysEmpty
    <3> QED BY <1>1, <3>3, <3>5, SilentLawful
  <2> QED BY <1>2, <2>2, <2>3
<1>12. CASE m.type = "error"
  <2>1. a = T!OnError(k, m)
    BY <1>12 DEF T!Reactions
  <2> DEFINE q == T!Ended(k)
  <2>2. a = Silent(k) \/ a = Silent(q)
    BY <2>1, TerminalSame DEF T!OnError, Silent, Answer
  <2>3. q = T!Ended(k)
    OBVIOUS
  <2> HIDE DEF q
  <2>4. /\ q \in ClientType /\ q.session = Dispose(k.session)
        /\ q.name = k.name /\ q.lobby = k.lobby /\ q.sessions = k.sessions
    BY <2>3, EndedFields
  <2>5. Lawful(c, S, P, B, Silent(q))
    BY <2>4, EndedLawful
  <2> QED BY <1>2, <2>2, <2>5
<1> QED BY <1>1, <1>4, <1>5, <1>6, <1>7, <1>8, <1>9, <1>10, <1>11, <1>12, FrameTypes

(* The web client, whatever it is told.                                    *)
LEMMA WebReacts ==
  ASSUME NEW S, NEW P, NEW B, NEW c \in Conn, NEW k, ClientOK(c, k), Keys(S, P, B),
         S[c] = k.session, InBrowser(c), NEW m, Arrives(c, P, B, m),
         NEW a \in W!Reactions(k, m)
  PROVE  Lawful(c, S, P, B, a)
<1>1. /\ m \in DownFrame(c) /\ S \in [Conn -> SessionType] /\ k \in ClientType
  BY DEF Arrives, Keys, ClientOK
<1>2. Lawful(c, S, P, B, Silent(k))
  BY IdleLawful
<1>3. W!Silent(k) = Silent(k)
  BY WebSame
<1>4. CASE m.type = "room_created"
  <2>1. a = W!Answer(k, <<W!JoinFrame(m.roomId)>>)
    BY <1>4 DEF W!Reactions
  <2>2. m.roomId \in RoomId
    BY <1>1, <1>4, FrameFields
  <2>3. a = Answer(k, <<JoinFrame(m.roomId)>>)
    BY <2>1, WebSame
  <2> QED BY <2>2, <2>3, JoinAskedLawful
<1>5. CASE m.type = "joined"
  <2>1. PICK q \in W!SetToSeqs(m.members) : a = W!OnJoined(k, q)
    BY <1>5 DEF W!Reactions
  <2>2. m.members \in SUBSET MemberType /\ IsFiniteSet(m.members)
    BY <1>1, <1>5, FrameFields
  <2>3. q \in SetToSeqs(m.members)
    BY <2>1 DEF W!SetToSeqs, SetToSeqs, W!Cardinality, Cardinality
  <2>4. q \in Seq(MemberType)
    BY <2>2, <2>3, MembersInAnyOrder
  <2> QED BY <2>1, <2>4, OnJoinedLawful
<1>6. CASE m.type = "peer_joined"
  <2>1. a = W!OnPeerJoined(k, m)
    BY <1>6 DEF W!Reactions
  <2>2. /\ m.username \in Name /\ m.ek \in SealKey /\ m.ratchetEk \in RatchetKey
        /\ m.claim \in ClaimEntry
    BY <1>1, <1>6, FrameFields
  <2> DEFINE r == Meet(k, m)
             n == r.chainsExpected + 1
             q == [r EXCEPT !.chainsExpected = n, !.phase = "joining"]
  <2>3. \/ a = Silent(k) \/ a = Answer(q, <<SeedFrame(k, m)>>)
        \/ a = Answer(r, <<SeedFrame(k, m)>>)
    BY <2>1, WebSame DEF W!OnPeerJoined
  <2>4. MetBy(c, k, m.username, r)
    BY <2>2, MeetFields
  <2>5. r \in ClientType /\ ClientOK(c, r)
    BY <2>4 DEF MetBy, ClientOK
  <2>6. r.session = Meet(k, m).session
    OBVIOUS
  <2> HIDE DEF r
  <2>7. n \in Nat
    BY <2>5 DEF ClientType
  <2> HIDE DEF n
  <2>8. /\ q \in ClientType /\ q.session = r.session /\ q.peers = r.peers
        /\ q.name = r.name /\ q.lobby = r.lobby /\ q.sessions = r.sessions
    BY <2>5, <2>7 DEF ClientType
  <2> HIDE DEF q
  <2>9. ClientOK(c, q)
    BY <2>5, <2>8, BookKept
  <2>10. q.session = Meet(k, m).session
    BY <2>6, <2>8
  <2>11. Lawful(c, S, P, B, Answer(q, <<SeedFrame(k, m)>>))
    BY <2>2, <2>9, <2>10, PeerJoinedLawful
  <2>12. Lawful(c, S, P, B, Answer(r, <<SeedFrame(k, m)>>))
    BY <2>2, <2>5, <2>6, PeerJoinedLawful
  <2> QED BY <1>2, <2>3, <2>11, <2>12
<1>7. CASE m.type = "relay"
  <2> DEFINE k1 == [k EXCEPT !.session = UnwrapChainSeed(@, m.from, m.payload)]
  <2>1. a \in W!OnRelay(k, m)
    BY <1>7 DEF W!Reactions
  <2>2. m.from \in Name /\ m.payload \in B
    BY <1>1, <1>7, FrameFields DEF Arrives
  <2>3. a = Silent(k) \/ a = Silent(k1) \/ a \in CountSeed(k1)
    <3>1. W!CountSeed(k1) = CountSeed(k1)
      BY WebRotates
    <3> QED BY <2>1, <3>1, WebSame DEF W!OnRelay, Silent, Answer
  <2>4. k1 = [k EXCEPT !.session = UnwrapChainSeed(@, m.from, m.payload)]
    OBVIOUS
  <2> HIDE DEF k1
  <2>5. Lawful(c, S, P, B, Silent(k1)) /\ \A x \in CountSeed(k1) : Lawful(c, S, P, B, x)
    BY <2>2, <2>4, SeedOpened
  <2> QED BY <1>2, <2>3, <2>5
<1>8. CASE m.type = "ratchet_step_fwd"
  <2>1. a = TakeStep(k, m) \/ a = Silent(k)
    BY <1>8, <1>3, WebRotates DEF W!Reactions, W!OnRatchetStepFwd
  <2>2. /\ m.from \in Name /\ m.newEk \in RatchetKey /\ m.claim \in ClaimEntry
        /\ Called(c) \in Name /\ m.payload \in P[Called(c)]
    BY <1>1, <1>8, FrameFields DEF Arrives
  <2>3. Lawful(c, S, P, B, TakeStep(k, m))
    BY <2>2, TakeStepLawful
  <2> QED BY <1>2, <2>1, <2>3
<1>9. CASE m.type = "ek_update_fwd"
  <2>1. a = Silent(TakeEk(k, m)) \/ a = Silent(k)
    <3>1. a = W!OnEkUpdateFwd(k, m) /\ W!TakeEk(k, m) = TakeEk(k, m)
      BY <1>9, WebRotates DEF W!Reactions
    <3> QED BY <3>1, WebSame DEF W!OnEkUpdateFwd, Silent, Answer
  <2>2. m.from \in Name /\ m.ek \in RatchetKey /\ m.claim \in ClaimEntry
    BY <1>1, <1>9, FrameFields
  <2>3. Lawful(c, S, P, B, Silent(TakeEk(k, m)))
    BY <2>2, TakeEkLawful
  <2> QED BY <1>2, <2>1, <2>3
<1>10. CASE m.type = "peer_left"
  <2> DEFINE q == Forget(k, m.username)
  <2>1. a = W!OnPeerLeft(k, m)
    BY <1>10 DEF W!Reactions
  <2>2. m.username \in Name
    BY <1>1, <1>10, FrameFields
  <2>3. a = Silent(k) \/ a = Silent(q) \/ a = W!DoLobbyTransition(q)
    <3>1. W!Forget(k, m.username) = q /\ W!Silent(q) = Silent(q)
      BY WebSame
    <3> HIDE DEF q
    <3> QED BY <1>3, <2>1, <3>1 DEF W!OnPeerLeft
  <2>4. Lawful(c, S, P, B, Silent(q)) /\ Lawful(c, S, P, B, W!DoLobbyTransition(q))
    BY <2>2, ForgetLawful
  <2> QED BY <1>2, <2>3, <2>4
<1>11. CASE m.type = "rekeyed"
  <2>1. a = W!OnRekeyed(k)
    BY <1>11 DEF W!Reactions
  <2> DEFINE q == [k EXCEPT !.rekeying = FALSE, !.phase = "waiting"]
  <2>2. a = Silent(k) \/ a = Silent(q)
    BY <2>1, WebSame DEF W!OnRekeyed, Silent, Answer
  <2>3. /\ q \in ClientType /\ q.session = k.session /\ q.peers = k.peers
        /\ q.name = k.name /\ q.lobby = k.lobby /\ q.sessions = k.sessions
    BY <1>1 DEF ClientType
  <2> HIDE DEF q
  <2>4. ClientOK(c, q)
    BY <2>3, BookKept
  <2>5. Lawful(c, S, P, B, Silent(q))
    BY <2>3, <2>4, IdleLawful
  <2> QED BY <1>2, <2>2, <2>5
<1>12. CASE m.type = "error"
  <2> DEFINE q == W!OnError(k)
  <2>1. a = Silent(q)
    BY <1>12, WebSame DEF W!Reactions, Silent, Answer
  <2>2. q = W!OnError(k)
    OBVIOUS
  <2> HIDE DEF q
  <2>3. /\ q \in ClientType /\ q.session = Dispose(k.session)
        /\ q.name = k.name /\ q.lobby = k.lobby /\ q.sessions = k.sessions
    BY <2>2, EndedFields
  <2>4. Lawful(c, S, P, B, Silent(q))
    BY <2>3, EndedLawful
  <2> QED BY <2>1, <2>4
<1> QED BY <1>1, <1>4, <1>5, <1>6, <1>7, <1>8, <1>9, <1>10, <1>11, <1>12, FrameTypes

-----------------------------------------------------------------------------
(* What queues hold as frames are sent, read and forwarded.                *)

(* What frames hold, as they are sent, read and forwarded.                 *)
StepsOf(fs) ==
  {p \in StepType : \E i \in DOMAIN fs : fs[i].type = "ratchet_step_fwd"
                                          /\ p = fs[i].payload}

(* Frames sent add what they carry.                                        *)
LEMMA FramesAppended ==
  ASSUME NEW X, NEW fs \in Seq(X), NEW gs \in Seq(X), NEW n
  PROVE  /\ fs \o gs \in Seq(X)
         /\ StepsIn(fs \o gs, n) \subseteq StepsIn(fs, n) \cup StepsIn(gs, n)
         /\ SeedsIn(fs \o gs) \subseteq SeedsIn(fs) \cup SeedsIn(gs)
<1> DEFINE hs == fs \o gs
<1>1. hs \in Seq(X)
  OBVIOUS
<1>2. ASSUME NEW i \in DOMAIN hs
      PROVE  (\E j \in DOMAIN fs : hs[i] = fs[j]) \/ (\E j \in DOMAIN gs : hs[i] = gs[j])
  <2>1. i \in 1 .. Len(fs) + Len(gs) /\ Len(fs) \in Nat /\ Len(gs) \in Nat
    OBVIOUS
  <2>2. CASE i <= Len(fs)
    <3>1. i \in DOMAIN fs /\ hs[i] = fs[i]
      BY <2>1, <2>2
    <3> QED BY <3>1
  <2>3. CASE ~(i <= Len(fs))
    <3>1. i - Len(fs) \in DOMAIN gs /\ hs[i] = gs[i - Len(fs)]
      BY <2>1, <2>3
    <3> QED BY <3>1
  <2> QED BY <2>2, <2>3
<1> HIDE DEF hs
<1>3. StepsIn(hs, n) \subseteq StepsIn(fs, n) \cup StepsIn(gs, n)
  BY <1>2 DEF StepsIn
<1>4. SeedsIn(hs) \subseteq SeedsIn(fs) \cup SeedsIn(gs)
  BY <1>2 DEF SeedsIn
<1> QED BY <1>1, <1>3, <1>4 DEF hs

(* A frame forwarded adds what it carries.                                 *)
LEMMA FrameAdded ==
  ASSUME NEW X, NEW fs \in Seq(X), NEW g \in X
  PROVE  /\ Append(fs, g) \in Seq(X)
         /\ \A p \in StepsOf(Append(fs, g)) : p \in StepsOf(fs)
              \/ (g.type = "ratchet_step_fwd" /\ p = g.payload)
         /\ \A b \in SeedsIn(Append(fs, g)) : b \in SeedsIn(fs)
              \/ (g.type = "relay" /\ b = g.payload)
<1> DEFINE hs == Append(fs, g)
<1>1. hs \in Seq(X)
  OBVIOUS
<1>2. ASSUME NEW i \in DOMAIN hs
      PROVE  hs[i] = g \/ (\E j \in DOMAIN fs : hs[i] = fs[j])
  <2>1. i \in 1 .. Len(fs) + 1 /\ Len(fs) \in Nat
    OBVIOUS
  <2>2. CASE i <= Len(fs)
    <3>1. i \in DOMAIN fs /\ hs[i] = fs[i]
      BY <2>1, <2>2
    <3> QED BY <3>1
  <2>3. CASE ~(i <= Len(fs))
    BY <2>1, <2>3
  <2> QED BY <2>2, <2>3
<1> HIDE DEF hs
<1>3. \A p \in StepsOf(hs) : p \in StepsOf(fs) \/ (g.type = "ratchet_step_fwd" /\ p = g.payload)
  BY <1>2 DEF StepsOf
<1>4. \A b \in SeedsIn(hs) : b \in SeedsIn(fs) \/ (g.type = "relay" /\ b = g.payload)
  BY <1>2 DEF SeedsIn
<1> QED BY <1>1, <1>3, <1>4 DEF hs

(* A frame read adds nothing.                                              *)
LEMMA FrameTaken ==
  ASSUME NEW X, NEW fs \in Seq(X), fs # <<>>, NEW n
  PROVE  /\ Head(fs) \in X /\ Tail(fs) \in Seq(X)
         /\ \E i \in DOMAIN fs : Head(fs) = fs[i]
         /\ StepsIn(Tail(fs), n) \subseteq StepsIn(fs, n)
         /\ StepsOf(Tail(fs)) \subseteq StepsOf(fs)
         /\ SeedsIn(Tail(fs)) \subseteq SeedsIn(fs)
<1> DEFINE hs == Tail(fs)
<1>1. Head(fs) \in X /\ hs \in Seq(X)
  OBVIOUS
<1>2. ASSUME NEW i \in DOMAIN hs PROVE \E j \in DOMAIN fs : hs[i] = fs[j]
  <2>1. i \in 1 .. Len(fs) - 1 /\ Len(fs) \in Nat
    OBVIOUS
  <2>2. i + 1 \in DOMAIN fs /\ hs[i] = fs[i + 1]
    BY <2>1
  <2> QED BY <2>2
<1>3. 1 \in DOMAIN fs /\ Head(fs) = fs[1]
  OBVIOUS
<1> HIDE DEF hs
<1>4. StepsIn(hs, n) \subseteq StepsIn(fs, n)
  BY <1>2 DEF StepsIn
<1>5. StepsOf(hs) \subseteq StepsOf(fs)
  BY <1>2 DEF StepsOf
<1>6. SeedsIn(hs) \subseteq SeedsIn(fs)
  BY <1>2 DEF SeedsIn
<1> QED BY <1>1, <1>3, <1>4, <1>5, <1>6 DEF hs

(* An empty queue carries nothing.                                         *)
LEMMA NoFrames ==
  ASSUME NEW n
  PROVE  StepsIn(<<>>, n) = {} /\ StepsOf(<<>>) = {} /\ SeedsIn(<<>>) = {}
BY DEF StepsIn, StepsOf, SeedsIn

-----------------------------------------------------------------------------
(* The server.                                                             *)

(* What the server holds, and what it makes of a frame m: at most one frame *)
(* more for each, with what m carried for him.                             *)
KeyData == [roomId : RoomId \cup {Null}, username : Name \cup {Null},
            ek : SealKey \cup {Null}, ratchetEk : RatchetKey \cup {Null},
            claim : ClaimEntry \cup {Null}]
Held ==
  /\ rooms \in [DOMAIN rooms -> Room] /\ DOMAIN rooms \subseteq RoomId
  /\ data \in [Conn -> KeyData]
  /\ \A c \in Conn : data[c].username # Null => data[c].username = Called(c)
(* f is a function on the connections.                                     *)
IsOn(f) == f = [d \in Conn |-> f[d]]

Carried(m, d, g) ==
  /\ g \in DownFrame(d)
  /\ g.type = "ratchet_step_fwd" => /\ m.type = "ratchet_step"
                                    /\ Called(d) \in DOMAIN m.payloads
                                    /\ g.payload = m.payloads[Called(d)]
  /\ g.type = "relay" => m.type = "relay" /\ g.payload = m.payload
  /\ g.type \in {"room_created", "joined"} => m.type \in {"create", "join"}

Relayed(m) ==
  /\ Held'
  /\ IsOn(out')
  /\ \A d \in Conn : \/ out'[d] = out[d]
                     \/ \E g : Carried(m, d, g) /\ out'[d] = Append(out[d], g)

(* What a frame from a client has in it, by type.                          *)
LEMMA UpFields ==
  ASSUME NEW c \in Conn, NEW m \in UpFrame(c)
  PROVE  /\ m.type = "join" => m.roomId \in RoomId
         /\ m.type = "identify" => /\ m.username = UserOf[c] /\ m.ek \in SealKey
                                   /\ m.ratchetEk \in RatchetKey
                                   /\ m.claim \in ClaimEntry
         /\ m.type = "relay" => m.payload \in SealedType
         /\ m.type = "ratchet_step" => /\ \A n \in DOMAIN m.payloads :
                                            m.payloads[n] \in StepType
                                       /\ m.newEk \in RatchetKey /\ m.sig \in Sid
                                       /\ m.claim \in ClaimEntry
         /\ m.type = "ek_update" => m.ek \in RatchetKey /\ m.claim \in ClaimEntry
         /\ m.type = "rekey" => /\ m.ek \in SealKey /\ m.ratchetEk \in RatchetKey
                                /\ m.claim \in ClaimEntry
BY DEF UpFrame

(* A reply goes to one.                                                    *)
LEMMA Replied ==
  ASSUME NEW m, NEW c \in Conn, NEW g, IsOn(out),
         Held', Reply(c, g), Carried(m, c, g)
  PROVE  Relayed(m)
BY DEF Relayed, Reply, IsOn

(* A frame is fanned out to the open sockets of Q.                         *)
LEMMA FannedOut ==
  ASSUME NEW m, NEW Q, NEW f, IsOn(out),
         Held', out' = [c \in Conn |-> IF c \in Q /\ sock[c] = "open"
                                       THEN Append(out[c], f[c]) ELSE out[c]],
         \A d \in Conn : d \in Q => Carried(m, d, f[d])
  PROVE  Relayed(m)
BY DEF Relayed, IsOn

(* Nothing goes out.                                                       *)
LEMMA Unsent ==
  ASSUME NEW m, IsOn(out), Held', UNCHANGED out
  PROVE  Relayed(m)
BY DEF Relayed, IsOn

(* What the server holds stays typed through the steps that rooms and data *)
(* take.                                                                   *)
LEMMA HeldStays ==
  ASSUME Held, UNCHANGED <<rooms, data>>
  PROVE  Held'
BY DEF Held

(* Noting activity.                                                        *)
LEMMA TouchHeld ==
  ASSUME Held, NEW c \in Conn, InRoom(c), Touch(c)
  PROVE  rooms' \in [DOMAIN rooms' -> Room] /\ DOMAIN rooms' \subseteq RoomId
<1>1. 0 \in 0 .. RoomTtl + 1
  BY LimitsNat
<1>2. data[c].roomId \in DOMAIN rooms /\ rooms \in [DOMAIN rooms -> Room]
  BY DEF Held, InRoom
<1>3. rooms[data[c].roomId] \in Room
  BY <1>2
<1>4. [rooms[data[c].roomId] EXCEPT !.idle = 0] \in Room
  BY <1>1, <1>3 DEF Room
<1>5. rooms' = [rooms EXCEPT ![data[c].roomId] = [rooms[data[c].roomId] EXCEPT !.idle = 0]]
  BY DEF Touch
<1>6. rooms' \in [DOMAIN rooms -> Room] /\ DOMAIN rooms' = DOMAIN rooms
  BY <1>2, <1>4, <1>5
<1> QED BY <1>6 DEF Held

(* Storing the data of a connection.                                       *)
LEMMA StoreHeld ==
  ASSUME Held, NEW c \in Conn, NEW d \in KeyData, StoreData(c, d),
         d.username # Null => d.username = Called(c)
  PROVE  /\ data' \in [Conn -> KeyData]
         /\ \A e \in Conn : data'[e].username # Null => data'[e].username = Called(e)
BY DEF Held, StoreData

(* A new connection has no data.                                           *)
LEMMA OpenHeld ==
  ASSUME Held, NEW c \in Conn, Open(c)
  PROVE  Held'
<1>1. Blank \in KeyData /\ Blank.username = Null
  BY DEF Blank, KeyData
<1>2. StoreData(c, Blank) /\ UNCHANGED rooms
  BY DEF Open
<1>3. /\ data' \in [Conn -> KeyData]
      /\ \A e \in Conn : data'[e].username # Null => data'[e].username = Called(e)
  BY <1>1, <1>2, StoreHeld
<1> QED BY <1>2, <1>3 DEF Held

(* A closed one leaves its room.                                           *)
LEMMA CloseHeld ==
  ASSUME Held, NEW c \in Conn, HandleClose(c)
  PROVE  Held'
<1>1. UNCHANGED data
  BY DEF HandleClose
<1>2. CASE InRoom(c)
  <2>1. rooms' = [rooms EXCEPT ![data[c].roomId].conns = @ \ {c}]
    BY <1>2 DEF HandleClose
  <2>2. data[c].roomId \in DOMAIN rooms /\ rooms \in [DOMAIN rooms -> Room]
    BY <1>2 DEF Held, InRoom
  <2>3. rooms[data[c].roomId] \in Room
    BY <2>2
  <2>4. [rooms[data[c].roomId] EXCEPT !.conns = @ \ {c}] \in Room
    BY <2>3 DEF Room
  <2>5. rooms' = [rooms EXCEPT ![data[c].roomId]
                   = [rooms[data[c].roomId] EXCEPT !.conns = @ \ {c}]]
    BY <2>1
  <2>6. rooms' \in [DOMAIN rooms -> Room] /\ DOMAIN rooms' = DOMAIN rooms
    BY <2>2, <2>4, <2>5
  <2> QED BY <1>1, <2>6 DEF Held
<1>3. CASE ~InRoom(c)
  BY <1>1, <1>3, HeldStays DEF HandleClose
<1> QED BY <1>2, <1>3

(* The replies carry neither steps nor seeds.                              *)
LEMMA ReplyFrames ==
  ASSUME NEW c, NEW m
  PROVE  /\ m.type = "create" => \A r \in RoomId :
              Carried(m, c, [type |-> "room_created", roomId |-> r, roomSecret |-> r])
         /\ m.type = "join" => \A M \in SUBSET MemberType : IsFiniteSet(M) =>
              Carried(m, c, [type |-> "joined", members |-> M])
         /\ Carried(m, c, [type |-> "rekeyed"])
BY DEF Carried, DownFrame

(* An error is a reply too.                                                *)
LEMMA Refused ==
  ASSUME NEW c \in Conn, NEW m, IsOn(out), Held',
         NEW why \in {"version_mismatch", "forbidden", "not_found", "room_full",
                      "username_taken"},
         Error(c, why)
  PROVE  Relayed(m)
<1> DEFINE g == [type |-> "error", reason |-> why]
<1>1. g \in DownFrame(c) /\ g.type = "error"
  BY DEF DownFrame
<1>2. Reply(c, g)
  BY DEF Error
<1> HIDE DEF g
<1>3. Carried(m, c, g)
  BY <1>1 DEF Carried
<1> QED BY <1>2, <1>3, Replied

(* A snapshot lists identified members only, and finitely many.            *)
LEMMA SnapshotType ==
  ASSUME Held, NEW C \in SUBSET Conn
  PROVE  Snapshot(C) \in SUBSET MemberType /\ IsFiniteSet(Snapshot(C))
<1> DEFINE D == {x \in C : Null \notin {data[x].username, data[x].ek,
                                        data[x].ratchetEk, data[x].claim}}
           f == [x \in D |-> [username |-> data[x].username, ek |-> data[x].ek,
                              ratchetEk |-> data[x].ratchetEk, claim |-> data[x].claim]]
           M == Snapshot(C)
<1>1. D \subseteq Conn /\ IsFiniteSet(D)
  BY ConnFinite, FS_Subset
<1>2. M = {f[x] : x \in D}
  BY DEF Snapshot
<1>3. ASSUME NEW x \in D PROVE f[x] \in MemberType
  <2>1. data[x] \in KeyData /\ Null \notin {data[x].username, data[x].ek,
                                        data[x].ratchetEk, data[x].claim}
    BY DEF Held
  <2>2. /\ data[x].username \in Name /\ data[x].ek \in SealKey
        /\ data[x].ratchetEk \in RatchetKey /\ data[x].claim \in ClaimEntry
    BY <2>1 DEF KeyData
  <2> QED BY <2>2 DEF MemberType
<1>4. DOMAIN f = D
  OBVIOUS
<1> HIDE DEF f, M
<1>5. f \in Surjection(D, M)
  <2>1. f \in [D -> M]
    <3>1. f = [x \in D |-> f[x]]
      BY DEF f
    <3> QED BY <1>2, <3>1
  <2> QED BY <1>2, <2>1 DEF Surjection
<1>6. IsFiniteSet(M)
  BY <1>1, <1>5, FS_Surjection
<1> QED BY <1>2, <1>3, <1>6 DEF M

(* handleCreate.                                                           *)
LEMMA CreateRelayed ==
  ASSUME Held, IsOn(out), NEW c \in Conn, NEW m, m.type = "create", HandleCreate(c, m)
  PROVE  Relayed(m)
<1>1. CASE WrongVersion(c, m)
  <2>1. Held'
    BY <1>1, HeldStays DEF WrongVersion
  <2> QED BY <1>1, <2>1, Refused DEF WrongVersion
<1>2. CASE Error(c, "forbidden") /\ UNCHANGED <<rooms, created, sock, data>>
  BY <1>2, HeldStays, Refused
<1>3. ASSUME NEW r \in RoomId \ created,
             rooms' = [x \in DOMAIN rooms \cup {r} |->
                         IF x = r THEN [conns |-> {}, idle |-> 0] ELSE rooms[x]],
             Reply(c, [type |-> "room_created", roomId |-> r, roomSecret |-> r]),
             UNCHANGED data
      PROVE  Relayed(m)
  <2>1. [conns |-> {}, idle |-> 0] \in Room
    BY LimitsNat DEF Room
  <2>2. rooms' \in [DOMAIN rooms \cup {r} -> Room] /\ DOMAIN rooms' = DOMAIN rooms \cup {r}
    BY <1>3, <2>1 DEF Held
  <2>3. Held'
    BY <1>3, <2>2 DEF Held
  <2> QED BY <1>3, <2>3, ReplyFrames, Replied
<1> QED BY <1>1, <1>2, <1>3 DEF HandleCreate

(* handleJoin.                                                             *)
LEMMA JoinRelayed ==
  ASSUME Held, IsOn(out), NEW c \in Conn, NEW m \in UpFrame(c), m.type = "join",
         HandleJoin(c, m)
  PROVE  Relayed(m)
<1>1. CASE WrongVersion(c, m)
  <2>1. Held'
    BY <1>1, HeldStays DEF WrongVersion
  <2> QED BY <1>1, <2>1, Refused DEF WrongVersion
<1>2. CASE /\ JoinRefusal(c, m) # "none" /\ Error(c, JoinRefusal(c, m))
           /\ UNCHANGED <<rooms, created, sock, data>>
  <2>1. JoinRefusal(c, m) \in {"forbidden", "not_found", "room_full"}
    BY <1>2 DEF JoinRefusal
  <2>2. Held'
    BY <1>2, HeldStays
  <2> QED BY <1>2, <2>1, <2>2, Refused
<1>3. CASE /\ JoinRefusal(c, m) = "none"
           /\ rooms' = [rooms EXCEPT ![m.roomId] = [conns |-> @.conns \cup {c}, idle |-> 0]]
           /\ StoreData(c, [data[c] EXCEPT !.roomId = m.roomId])
           /\ Reply(c, [type |-> "joined", members |-> Snapshot(rooms[m.roomId].conns)])
  <2>1. m.roomId \in DOMAIN rooms
    BY <1>3 DEF JoinRefusal
  <2>2. rooms[m.roomId] \in Room /\ m.roomId \in RoomId /\ 0 \in 0 .. RoomTtl + 1
    BY <2>1, UpFields, LimitsNat DEF Held
  <2>3. [conns |-> rooms[m.roomId].conns \cup {c}, idle |-> 0] \in Room
    BY <2>2 DEF Room
  <2>4. rooms' \in [DOMAIN rooms -> Room] /\ DOMAIN rooms' = DOMAIN rooms
    BY <1>3, <2>1, <2>3 DEF Held
  <2> DEFINE d == [data[c] EXCEPT !.roomId = m.roomId]
  <2>5. d \in KeyData /\ d.username = data[c].username
    BY <2>2 DEF Held, KeyData
  <2>6. d.username # Null => d.username = Called(c)
    BY <2>5 DEF Held
  <2> HIDE DEF d
  <2>7. StoreData(c, d)
    BY <1>3 DEF d
  <2>8. Held'
    BY <2>4, <2>5, <2>6, <2>7, StoreHeld DEF Held
  <2>9. rooms[m.roomId].conns \in SUBSET Conn
    BY <2>2 DEF Room
  <2> QED BY <1>3, <2>8, <2>9, SnapshotType, ReplyFrames, Replied
<1> QED BY <1>1, <1>2, <1>3 DEF HandleJoin

(* handleIdentify: the others hear of the new member under the name it     *)
(* identified with.                                                        *)
LEMMA IdentifyRelayed ==
  ASSUME Held, IsOn(out), NEW c \in Conn, NEW m \in UpFrame(c), m.type = "identify",
         HandleIdentify(c, m)
  PROVE  Relayed(m)
<1> DEFINE u == Canon[m.username]
<1>0. /\ u = Called(c) /\ m.ek \in SealKey /\ m.ratchetEk \in RatchetKey
      /\ m.claim \in ClaimEntry /\ u \in Name \cup {Null}
  <2>1. /\ m.username = UserOf[c] /\ m.ek \in SealKey
        /\ m.ratchetEk \in RatchetKey /\ m.claim \in ClaimEntry
    BY UpFields
  <2> QED BY <2>1, UserOfType, CanonType DEF Called
<1>1. CASE Drop
  <2>1. UNCHANGED <<rooms, data>> /\ UNCHANGED out
    BY <1>1 DEF Drop, vars
  <2> QED BY <2>1, HeldStays, Unsent
<1>2. CASE UNCHANGED <<rooms, created, data, out>>
  BY <1>2, HeldStays, Unsent
<1>3. CASE /\ InRoom(c) /\ Touch(c) /\ Error(c, "username_taken")
           /\ UNCHANGED <<created, sock, data>>
  <2>1. Held'
    BY <1>3, TouchHeld DEF Held
  <2> QED BY <1>3, <2>1, Refused
<1>4. CASE /\ InRoom(c) /\ IdentifyValid(m) /\ Touch(c)
           /\ StoreData(c, [roomId |-> data[c].roomId, username |-> u, ek |-> m.ek,
                            ratchetEk |-> m.ratchetEk, claim |-> m.claim])
           /\ Fanout(Others(c),
               LAMBDA x : [type |-> "peer_joined", username |-> u, ek |-> m.ek,
                           ratchetEk |-> m.ratchetEk, claim |-> m.claim])
  <2> DEFINE d == [roomId |-> data[c].roomId, username |-> u, ek |-> m.ek,
                   ratchetEk |-> m.ratchetEk, claim |-> m.claim]
             g == [type |-> "peer_joined", username |-> u, ek |-> m.ek,
                   ratchetEk |-> m.ratchetEk, claim |-> m.claim]
             f == [x \in Conn |-> g]
             Q == Others(c)
  <2>1. u \in Name
    BY <1>0, <1>4 DEF IdentifyValid
  <2>2. d \in KeyData /\ d.username = Called(c)
    <3>1. data[c].roomId \in RoomId \cup {Null}
      BY DEF Held, KeyData
    <3> QED BY <1>0, <2>1, <3>1 DEF KeyData
  <2>3. StoreData(c, d)
    BY <1>4
  <2>4. \A x \in Conn : Carried(m, x, g)
    <3>1. g.type = "peer_joined" /\ \A x \in Conn : g \in DownFrame(x)
      BY <1>0, <2>1 DEF DownFrame
    <3> HIDE DEF g
    <3> QED BY <3>1 DEF Carried
  <2>5. out' = [x \in Conn |-> IF x \in Q /\ sock[x] = "open"
                               THEN Append(out[x], f[x]) ELSE out[x]]
    BY <1>4 DEF Fanout
  <2>6. \A x \in Conn : f[x] = g
    OBVIOUS
  <2> HIDE DEF d, g, f, Q
  <2>7. Held'
    BY <1>4, <2>2, <2>3, TouchHeld, StoreHeld DEF Held
  <2> QED BY <2>4, <2>5, <2>6, <2>7, FannedOut
<1> QED BY <1>1, <1>2, <1>3, <1>4 DEF HandleIdentify

(* What the server knows of one who has identified.                        *)
LEMMA IdentifiedFields ==
  ASSUME Held, NEW c \in Conn, Identified(c)
  PROVE  /\ InRoom(c) /\ data[c] \in KeyData
         /\ data[c].username \in Name /\ data[c].username = Called(c)
BY DEF Held, Identified, KeyData

(* A frame that is dropped.                                                *)
LEMMA DropRelayed ==
  ASSUME Held, IsOn(out), NEW m, Drop
  PROVE  Relayed(m)
<1>1. UNCHANGED <<rooms, data>> /\ UNCHANGED out
  BY DEF Drop, vars
<1> QED BY <1>1, HeldStays, Unsent

(* Only the activity is noted.                                             *)
LEMMA TouchOnly ==
  ASSUME Held, NEW c \in Conn, InRoom(c), Touch(c), UNCHANGED data
  PROVE  Held'
BY TouchHeld DEF Held

(* The keys and the claim of a member are replaced.                        *)
LEMMA KeysStored ==
  ASSUME Held, NEW c \in Conn, Identified(c), Touch(c),
         NEW ek \in SealKey \cup {Null}, NEW rek \in RatchetKey, NEW claim \in ClaimEntry,
         StoreKeys(c, ek, rek, claim)
  PROVE  Held'
<1> DEFINE d == [roomId |-> data[c].roomId, username |-> data[c].username,
                 ek |-> ek, ratchetEk |-> rek, claim |-> claim]
<1>1. d \in KeyData /\ d.username = Called(c)
  <2>1. data[c].roomId \in RoomId \cup {Null}
    BY DEF Held, KeyData
  <2> QED BY <2>1, IdentifiedFields DEF KeyData
<1>2. StoreData(c, d)
  BY DEF StoreKeys
<1> HIDE DEF d
<1>3. /\ data' \in [Conn -> KeyData]
      /\ \A e \in Conn : data'[e].username # Null => data'[e].username = Called(e)
  BY <1>1, <1>2, StoreHeld
<1>4. rooms' \in [DOMAIN rooms' -> Room] /\ DOMAIN rooms' \subseteq RoomId
  BY IdentifiedFields, TouchHeld
<1> QED BY <1>3, <1>4 DEF Held

(* handleRatchetStep: each of the others gets the payload under its own    *)
(* name, and nobody another one's.                                         *)
LEMMA StepRelayed ==
  ASSUME Held, IsOn(out), NEW c \in Conn, NEW m \in UpFrame(c), m.type = "ratchet_step",
         HandleRatchetStep(c, m)
  PROVE  Relayed(m)
<1>0. /\ DOMAIN m.payloads \subseteq Name
      /\ \A n \in DOMAIN m.payloads : m.payloads[n] \in StepType
      /\ m.newEk \in RatchetKey /\ m.sig \in Sid /\ m.claim \in ClaimEntry
  BY DEF UpFrame
<1>1. CASE Drop
  BY <1>1, DropRelayed
<1>2. CASE /\ Identified(c) /\ Touch(c)
           /\ StoreKeys(c, data[c].ek, m.newEk, m.claim)
           /\ Fanout({x \in Others(c) : data[x].username \in DOMAIN m.payloads},
               LAMBDA x : [type |-> "ratchet_step_fwd", from |-> data[c].username,
                           payload |-> m.payloads[data[x].username],
                           newEk |-> m.newEk, sig |-> m.sig, claim |-> m.claim])
  <2> DEFINE g(x) == [type |-> "ratchet_step_fwd", from |-> data[c].username,
                      payload |-> m.payloads[data[x].username],
                      newEk |-> m.newEk, sig |-> m.sig, claim |-> m.claim]
             f == [x \in Conn |-> g(x)]
             Q == {x \in Others(c) : data[x].username \in DOMAIN m.payloads}
  <2>1. data[c].username \in Name /\ data[c].ek \in SealKey \cup {Null}
    BY <1>2, IdentifiedFields DEF KeyData
  <2>2. Held'
    BY <1>0, <1>2, <2>1, KeysStored
  <2>3. ASSUME NEW x \in Conn, x \in Q PROVE Carried(m, x, f[x])
    <3>1. data[x].username \in DOMAIN m.payloads /\ data[x].username # Null
      BY <1>0, <2>3, NullFresh
    <3>2. data[x].username = Called(x)
      BY <3>1 DEF Held
    <3>3. Called(x) \in DOMAIN m.payloads /\ Called(x) \in Name
          /\ m.payloads[Called(x)] \in StepType
      BY <1>0, <3>1, <3>2
    <3>4. f[x] = [type |-> "ratchet_step_fwd", from |-> data[c].username,
                  payload |-> m.payloads[Called(x)],
                  newEk |-> m.newEk, sig |-> m.sig, claim |-> m.claim]
      BY <3>2
    <3> HIDE DEF f, Q, g
    <3>5. /\ f[x] \in DownFrame(x) /\ f[x].type = "ratchet_step_fwd"
          /\ f[x].payload = m.payloads[Called(x)]
      BY <1>0, <2>1, <3>3, <3>4 DEF DownFrame
    <3> QED BY <3>3, <3>5 DEF Carried
  <2>4. out' = [x \in Conn |-> IF x \in Q /\ sock[x] = "open"
                               THEN Append(out[x], f[x]) ELSE out[x]]
    BY <1>2 DEF Fanout
  <2> HIDE DEF f, Q, g
  <2> QED BY <2>2, <2>3, <2>4, FannedOut
<1> QED BY <1>1, <1>2 DEF HandleRatchetStep

(* handleEkUpdate.                                                         *)
LEMMA EkRelayed ==
  ASSUME Held, IsOn(out), NEW c \in Conn, NEW m \in UpFrame(c), m.type = "ek_update",
         HandleEkUpdate(c, m)
  PROVE  Relayed(m)
<1>0. m.ek \in RatchetKey /\ m.claim \in ClaimEntry
  BY UpFields
<1>1. CASE Drop
  BY <1>1, DropRelayed
<1>2. CASE /\ Identified(c) /\ Touch(c)
           /\ StoreKeys(c, data[c].ek, m.ek, m.claim)
           /\ Fanout(Others(c),
               LAMBDA x : [type |-> "ek_update_fwd", from |-> data[c].username,
                           ek |-> m.ek, claim |-> m.claim])
  <2> DEFINE g == [type |-> "ek_update_fwd", from |-> data[c].username,
                   ek |-> m.ek, claim |-> m.claim]
             f == [x \in Conn |-> g]
             Q == Others(c)
  <2>1. data[c].username \in Name /\ data[c].ek \in SealKey \cup {Null}
    BY <1>2, IdentifiedFields DEF KeyData
  <2>2. Held'
    BY <1>0, <1>2, <2>1, KeysStored
  <2>3. \A x \in Conn : Carried(m, x, g)
    <3>1. g.type = "ek_update_fwd" /\ \A x \in Conn : g \in DownFrame(x)
      BY <1>0, <2>1 DEF DownFrame
    <3> HIDE DEF g
    <3> QED BY <3>1 DEF Carried
  <2>4. out' = [x \in Conn |-> IF x \in Q /\ sock[x] = "open"
                               THEN Append(out[x], f[x]) ELSE out[x]]
    BY <1>2 DEF Fanout
  <2>5. \A x \in Conn : f[x] = g
    OBVIOUS
  <2> HIDE DEF f, Q, g
  <2> QED BY <2>2, <2>3, <2>4, <2>5, FannedOut
<1> QED BY <1>1, <1>2 DEF HandleEkUpdate

(* handleRekey.                                                            *)
LEMMA RekeyRelayed ==
  ASSUME Held, IsOn(out), NEW c \in Conn, NEW m \in UpFrame(c), m.type = "rekey",
         HandleRekey(c, m)
  PROVE  Relayed(m)
<1>0. m.ek \in SealKey /\ m.ratchetEk \in RatchetKey /\ m.claim \in ClaimEntry
  BY UpFields
<1>1. CASE Drop
  BY <1>1, DropRelayed
<1>2. CASE /\ Identified(c) /\ Touch(c)
           /\ StoreKeys(c, m.ek, m.ratchetEk, m.claim)
           /\ Reply(c, [type |-> "rekeyed"])
  <2>1. Held'
    BY <1>0, <1>2, KeysStored
  <2> QED BY <1>2, <2>1, ReplyFrames, Replied
<1> QED BY <1>1, <1>2 DEF HandleRekey

(* handleRelay: the first member of that name, whoever it is by now.       *)
LEMMA SeedRelayed ==
  ASSUME Held, IsOn(out), NEW c \in Conn, NEW m \in UpFrame(c), m.type = "relay",
         HandleRelay(c, m)
  PROVE  Relayed(m)
<1>0. m.payload \in SealedType
  BY UpFields
<1>1. CASE Drop
  BY <1>1, DropRelayed
<1>2. CASE Identified(c) /\ Touch(c) /\ UNCHANGED data /\ UNCHANGED out
  <2>1. Held'
    BY <1>2, IdentifiedFields, TouchOnly
  <2> QED BY <1>2, <2>1, Unsent
<1>3. ASSUME Identified(c), Touch(c), UNCHANGED data, NEW e,
             Fanout({e}, LAMBDA x : [type |-> "relay", from |-> data[c].username,
                                     payload |-> m.payload])
      PROVE  Relayed(m)
  <2> DEFINE g == [type |-> "relay", from |-> data[c].username, payload |-> m.payload]
             f == [x \in Conn |-> g]
             Q == {e}
  <2>1. data[c].username \in Name
    BY <1>3, IdentifiedFields
  <2>2. Held'
    BY <1>3, IdentifiedFields, TouchOnly
  <2>3. \A x \in Conn : Carried(m, x, g)
    <3>1. /\ g.type = "relay" /\ g.payload = m.payload
          /\ \A x \in Conn : g \in DownFrame(x)
      BY <1>0, <2>1 DEF DownFrame
    <3> HIDE DEF g
    <3> QED BY <3>1 DEF Carried
  <2>4. out' = [x \in Conn |-> IF x \in Q /\ sock[x] = "open"
                               THEN Append(out[x], f[x]) ELSE out[x]]
    BY <1>3 DEF Fanout
  <2>5. \A x \in Conn : f[x] = g
    OBVIOUS
  <2> HIDE DEF f, Q, g
  <2> QED BY <2>2, <2>3, <2>4, <2>5, FannedOut
<1> QED BY <1>1, <1>2, <1>3 DEF HandleRelay

(* Whatever the frame.                                                     *)
LEMMA DispatchRelayed ==
  ASSUME Held, IsOn(out), NEW c \in Conn, NEW m \in UpFrame(c), Dispatch(c, m)
  PROVE  Relayed(m)
BY CreateRelayed, JoinRelayed, IdentifyRelayed, SeedRelayed, StepRelayed, EkRelayed,
   RekeyRelayed DEF Dispatch

(* handleClose: the others are told who left.                              *)
LEMMA CloseRelayed ==
  ASSUME Held, IsOn(out), NEW c \in Conn, NEW m, HandleClose(c)
  PROVE  Relayed(m)
<1>1. Held'
  BY CloseHeld
<1>2. CASE Identified(c)
  <2> DEFINE g == [type |-> "peer_left", username |-> data[c].username]
             f == [x \in Conn |-> g]
             Q == Others(c)
  <2>1. data[c].username \in Name
    BY <1>2, IdentifiedFields
  <2>2. \A x \in Conn : Carried(m, x, g)
    <3>1. g.type = "peer_left" /\ \A x \in Conn : g \in DownFrame(x)
      BY <2>1 DEF DownFrame
    <3> HIDE DEF g
    <3> QED BY <3>1 DEF Carried
  <2>3. out' = [x \in Conn |-> IF x \in Q /\ sock[x] = "open"
                               THEN Append(out[x], f[x]) ELSE out[x]]
    BY <1>2 DEF HandleClose, Fanout
  <2>4. \A x \in Conn : f[x] = g
    OBVIOUS
  <2> HIDE DEF f, Q, g
  <2> QED BY <1>1, <2>2, <2>3, <2>4, FannedOut
<1>3. CASE ~Identified(c)
  <2>1. UNCHANGED out
    BY <1>3 DEF HandleClose
  <2> QED BY <1>1, <2>1, Unsent
<1> QED BY <1>2, <1>3

-----------------------------------------------------------------------------
(* The room.                                                               *)

(* The invariant of a room.                                                *)
Sessions == [c \in Conn |-> client[c].session]
UnderWay ==
  [n \in Name |-> {p \in StepType :
     \E c \in Conn : \/ p \in StepsIn(up[c], n)
                     \/ Called(c) = n /\ p \in StepsOf(out[c])}]
Sealed == {b \in SealedType : \E c \in Conn : b \in SeedsIn(up[c]) \cup SeedsIn(out[c])}

(* Before it is dialled a connection has nothing.                          *)
Running(c, k) == k = Start(<<c, 0>>, UserOf[c]) \/ ClientOK(c, k)
RoomTypes ==
  /\ Held /\ IsOn(out) /\ IsOn(up) /\ IsOn(client)
  /\ \A c \in Conn : /\ Running(c, client[c])
                     /\ up[c] \in Seq(UpFrame(c)) /\ out[c] \in Seq(DownFrame(c))
KeyInv == RoomTypes /\ Keys(Sessions, UnderWay, Sealed)

(* It is enough to know the sessions, and some sets that hold at least     *)
(* what is under way.                                                      *)
LEMMA KeyInvKept ==
  ASSUME NEW S, NEW P, NEW B, Keys(S, P, B),
         RoomTypes', Sessions' = S,
         \A c \in Conn : /\ \A n \in Name : StepsIn(up'[c], n) \subseteq P[n]
                         /\ Called(c) \in Name => StepsOf(out'[c]) \subseteq P[Called(c)]
                         /\ SeedsIn(up'[c]) \subseteq B /\ SeedsIn(out'[c]) \subseteq B
  PROVE  KeyInv'
<1>1. UnderWay' \in [Name -> SUBSET StepType]
  BY DEF UnderWay
<1>2. \A n \in Name : UnderWay'[n] \subseteq P[n]
  BY DEF UnderWay
<1>3. Sealed' \subseteq B
  BY DEF Sealed
<1>4. Keys(S, UnderWay', Sealed')
  BY <1>1, <1>2, <1>3, KeysFewer
<1> QED BY <1>4 DEF KeyInv

(* What each queue contributes.                                            *)
LEMMA UnderWayFields ==
  ASSUME NEW c \in Conn
  PROVE  /\ \A n \in Name : StepsIn(up[c], n) \subseteq UnderWay[n]
         /\ Called(c) \in Name => StepsOf(out[c]) \subseteq UnderWay[Called(c)]
         /\ SeedsIn(up[c]) \subseteq Sealed /\ SeedsIn(out[c]) \subseteq Sealed
BY DEF UnderWay, Sealed, StepsIn, StepsOf, SeedsIn

(* One client takes an answer; others may give up what they had kept for a *)
(* reconnect.                                                              *)
LEMMA AnswerKept ==
  ASSUME KeyInv, NEW c \in Conn, NEW a, Lawful(c, Sessions, UnderWay, Sealed, a),
         UNCHANGED web, Held', IsOn(out'), IsOn(client'),
         client'[c] = a.client,
         \A d \in Conn : d # c => /\ Running(d, client'[d])
                                  /\ client'[d].session = client[d].session,
         up' = [up EXCEPT ![c] = @ \o a.sends],
         \A d \in Conn : /\ out'[d] \in Seq(DownFrame(d))
                         /\ StepsOf(out'[d]) \subseteq StepsOf(out[d])
                         /\ SeedsIn(out'[d]) \subseteq SeedsIn(out[d])
  PROVE  KeyInv'
<1> DEFINE S2 == [Sessions EXCEPT ![c] = a.client.session]
           P2 == WithSteps(UnderWay, a.sends)
           B2 == Sealed \cup SeedsIn(a.sends)
<1>1. Keys(S2, P2, B2) /\ ClientOK(c, a.client) /\ a.sends \in Seq(UpFrame(c))
  BY DEF Lawful
<1>2. Sessions' = S2
  BY DEF Sessions
<1>3. /\ IsOn(up) /\ \A d \in Conn : up[d] \in Seq(UpFrame(d))
  BY DEF KeyInv, RoomTypes
<1>4. /\ IsOn(up') /\ up'[c] = up[c] \o a.sends
      /\ \A d \in Conn : d # c => up'[d] = up[d]
  BY <1>3 DEF IsOn
<1>5. /\ up'[c] \in Seq(UpFrame(c))
      /\ \A n \in Name : StepsIn(up'[c], n) \subseteq StepsIn(up[c], n) \cup StepsIn(a.sends, n)
      /\ SeedsIn(up'[c]) \subseteq SeedsIn(up[c]) \cup SeedsIn(a.sends)
  <2>1. up[c] \in Seq(UpFrame(c))
    BY <1>3
  <2> QED BY <1>1, <1>4, <2>1, FramesAppended
<1>6. RoomTypes'
  <2>1. \A d \in Conn : Running(d, client'[d])
    BY <1>1 DEF Running
  <2>2. \A d \in Conn : Running(d, client[d])'
    BY <2>1 DEF Running, ClientOK, InBrowser
  <2> QED BY <1>3, <1>4, <1>5, <2>2 DEF RoomTypes, UpFrame, DownFrame
<1>7. ASSUME NEW d \in Conn
      PROVE  /\ \A n \in Name : StepsIn(up'[d], n) \subseteq P2[n]
             /\ Called(d) \in Name => StepsOf(out'[d]) \subseteq P2[Called(d)]
             /\ SeedsIn(up'[d]) \subseteq B2 /\ SeedsIn(out'[d]) \subseteq B2
  <2>1. \A n \in Name : P2[n] = UnderWay[n] \cup StepsIn(a.sends, n)
    BY DEF WithSteps
  <2>2. /\ \A n \in Name : StepsIn(up[d], n) \subseteq UnderWay[n]
        /\ Called(d) \in Name => StepsOf(out[d]) \subseteq UnderWay[Called(d)]
        /\ SeedsIn(up[d]) \subseteq Sealed /\ SeedsIn(out[d]) \subseteq Sealed
    BY UnderWayFields
  <2> HIDE DEF P2
  <2>3. CASE d = c
    BY <1>5, <2>1, <2>2, <2>3
  <2>4. CASE d # c
    BY <1>4, <2>1, <2>2, <2>4
  <2> QED BY <2>3, <2>4
<1> HIDE DEF S2, P2, B2
<1> QED BY <1>1, <1>2, <1>6, <1>7, KeyInvKept

(* A step that changes no session and adds nothing to what is under way.   *)
LEMMA CarriedKept ==
  ASSUME KeyInv, UNCHANGED web, Held', IsOn(out'), IsOn(up'), IsOn(client'),
         \A c \in Conn :
           /\ Running(c, client'[c]) /\ client'[c].session = client[c].session
           /\ up'[c] \in Seq(UpFrame(c)) /\ out'[c] \in Seq(DownFrame(c))
           /\ \A n \in Name : StepsIn(up'[c], n) \subseteq UnderWay[n]
           /\ Called(c) \in Name => StepsOf(out'[c]) \subseteq UnderWay[Called(c)]
           /\ SeedsIn(up'[c]) \subseteq Sealed /\ SeedsIn(out'[c]) \subseteq Sealed
  PROVE  KeyInv'
<1>1. Keys(Sessions, UnderWay, Sealed)
  BY DEF KeyInv
<1>2. Sessions' = Sessions
  BY DEF Sessions
<1>3. RoomTypes'
  <2>1. \A d \in Conn : Running(d, client[d])'
    BY DEF Running, ClientOK, InBrowser
  <2> QED BY <2>1 DEF RoomTypes, UpFrame, DownFrame
<1> HIDE DEF Sessions, UnderWay, Sealed
<1> QED BY <1>1, <1>2, <1>3, KeyInvKept

(* What KeyInv says, each in its place.                                    *)
LEMMA TypesNow ==
  ASSUME KeyInv
  PROVE  /\ Held /\ IsOn(out) /\ IsOn(up) /\ IsOn(client)
         /\ \A c \in Conn : /\ Running(c, client[c])
                            /\ up[c] \in Seq(UpFrame(c)) /\ out[c] \in Seq(DownFrame(c))
                            /\ Sessions[c] = client[c].session
         /\ Keys(Sessions, UnderWay, Sealed)
BY DEF KeyInv, RoomTypes, Sessions

(* Frames are lost or read, and nothing else happens.                      *)
LEMMA OutOnly ==
  ASSUME KeyInv, UNCHANGED <<client, web, up>>, Held', IsOn(out'),
         \A c \in Conn : /\ out'[c] \in Seq(DownFrame(c))
                         /\ StepsOf(out'[c]) \subseteq StepsOf(out[c])
                         /\ SeedsIn(out'[c]) \subseteq SeedsIn(out[c])
  PROVE  KeyInv'
<1>1. \A c \in Conn :
           /\ Running(c, client'[c]) /\ client'[c].session = client[c].session
           /\ up'[c] \in Seq(UpFrame(c)) /\ out'[c] \in Seq(DownFrame(c))
           /\ \A n \in Name : StepsIn(up'[c], n) \subseteq UnderWay[n]
           /\ Called(c) \in Name => StepsOf(out'[c]) \subseteq UnderWay[Called(c)]
           /\ SeedsIn(up'[c]) \subseteq Sealed /\ SeedsIn(out'[c]) \subseteq Sealed
  BY TypesNow, UnderWayFields
<1>2. IsOn(up') /\ IsOn(client')
  BY TypesNow DEF IsOn
<1> QED BY <1>1, <1>2, CarriedKept

(* A connection is closed with frames unread.                              *)
LEMMA LoseKept ==
  ASSUME KeyInv, NEW c \in Conn, Lose(c), UNCHANGED <<up, client, web>>
  PROVE  KeyInv'
<1>1. out' = [out EXCEPT ![c] = <<>>] /\ UNCHANGED <<rooms, data>>
  BY DEF Lose
<1>2. Held'
  BY <1>1, TypesNow, HeldStays
<1>3. \A d \in Conn : out'[d] = out[d] \/ out'[d] = <<>>
  BY <1>1, TypesNow DEF IsOn
<1>4. ASSUME NEW d \in Conn
      PROVE  /\ out'[d] \in Seq(DownFrame(d))
             /\ StepsOf(out'[d]) \subseteq StepsOf(out[d])
             /\ SeedsIn(out'[d]) \subseteq SeedsIn(out[d])
  <2>1. CASE out'[d] = out[d]
    BY <2>1, TypesNow
  <2>2. CASE out'[d] = <<>>
    <3>1. out'[d] \in Seq(DownFrame(d))
      BY <2>2
    <3> QED BY <2>2, <3>1, NoFrames
  <2> QED BY <1>3, <2>1, <2>2
<1>5. IsOn(out')
  BY <1>1, TypesNow DEF IsOn
<1> QED BY <1>2, <1>4, <1>5, OutOnly

(* The server takes a frame off a queue, or drops the queue, and passes on *)
(* what it carried.                                                        *)
LEMMA RelayedKept ==
  ASSUME KeyInv, UNCHANGED <<client, web>>, NEW m, Relayed(m), NEW c \in Conn,
         NEW fs, up' = [up EXCEPT ![c] = fs], fs \in Seq(UpFrame(c)),
         \A n \in Name : StepsIn(fs, n) \subseteq StepsIn(up[c], n),
         SeedsIn(fs) \subseteq SeedsIn(up[c]),
         m.type = "ratchet_step" \/ m.type = "relay" =>
           \E i \in DOMAIN up[c] : m = up[c][i]
  PROVE  KeyInv'
<1>1. /\ IsOn(up') /\ up'[c] = fs
      /\ \A d \in Conn : d # c => up'[d] = up[d]
  BY TypesNow DEF IsOn
<1>2. ASSUME NEW d \in Conn
      PROVE  /\ up'[d] \in Seq(UpFrame(d))
             /\ \A n \in Name : StepsIn(up'[d], n) \subseteq UnderWay[n]
             /\ SeedsIn(up'[d]) \subseteq Sealed
  <2>1. /\ up[d] \in Seq(UpFrame(d)) /\ \A n \in Name : StepsIn(up[d], n) \subseteq UnderWay[n]
        /\ SeedsIn(up[d]) \subseteq Sealed
    BY TypesNow, UnderWayFields
  <2> QED BY <1>1, <2>1
<1>3. ASSUME NEW d \in Conn
      PROVE  /\ out'[d] \in Seq(DownFrame(d))
             /\ Called(d) \in Name => StepsOf(out'[d]) \subseteq UnderWay[Called(d)]
             /\ SeedsIn(out'[d]) \subseteq Sealed
  <2>1. /\ out[d] \in Seq(DownFrame(d))
        /\ Called(d) \in Name => StepsOf(out[d]) \subseteq UnderWay[Called(d)]
        /\ SeedsIn(out[d]) \subseteq Sealed
    BY TypesNow, UnderWayFields
  <2>2. CASE out'[d] = out[d]
    BY <2>1, <2>2
  <2>3. ASSUME NEW g, Carried(m, d, g), out'[d] = Append(out[d], g)
        PROVE  /\ out'[d] \in Seq(DownFrame(d))
               /\ Called(d) \in Name => StepsOf(out'[d]) \subseteq UnderWay[Called(d)]
               /\ SeedsIn(out'[d]) \subseteq Sealed
    <3>1. g \in DownFrame(d)
      BY <2>3 DEF Carried
    <3>2. /\ out'[d] \in Seq(DownFrame(d))
          /\ \A p \in StepsOf(out'[d]) : p \in StepsOf(out[d])
               \/ (g.type = "ratchet_step_fwd" /\ p = g.payload)
          /\ \A b \in SeedsIn(out'[d]) : b \in SeedsIn(out[d])
               \/ (g.type = "relay" /\ b = g.payload)
      BY <2>1, <2>3, <3>1, FrameAdded
    <3>3. ASSUME g.type = "ratchet_step_fwd", Called(d) \in Name
          PROVE  g.payload \in UnderWay[Called(d)]
      <4>1. /\ m.type = "ratchet_step" /\ Called(d) \in DOMAIN m.payloads
            /\ g.payload = m.payloads[Called(d)]
        BY <2>3, <3>3 DEF Carried
      <4>2. g.payload \in StepType
        BY <3>1, <3>3 DEF DownFrame
      <4>3. g.payload \in StepsIn(up[c], Called(d))
        BY <4>1, <4>2 DEF StepsIn
      <4> QED BY <3>3, <4>3, UnderWayFields
    <3>4. ASSUME g.type = "relay"
          PROVE  g.payload \in Sealed
      <4>1. m.type = "relay" /\ g.payload = m.payload
        BY <2>3, <3>4 DEF Carried
      <4>2. g.payload \in SealedType
        BY <3>1, <3>4 DEF DownFrame
      <4>3. g.payload \in SeedsIn(up[c])
        BY <4>1, <4>2 DEF SeedsIn
      <4> QED BY <4>3, UnderWayFields
    <3> QED BY <2>1, <3>2, <3>3, <3>4
  <2> QED BY <2>2, <2>3 DEF Relayed
<1>4. /\ IsOn(client')
      /\ \A d \in Conn : Running(d, client'[d]) /\ client'[d].session = client[d].session
  BY TypesNow DEF IsOn
<1>5. Held' /\ IsOn(out')
  BY DEF Relayed
<1> QED BY <1>1, <1>2, <1>3, <1>4, <1>5, CarriedKept

(* The server handles a frame.                                             *)
LEMMA ServeKept ==
  ASSUME KeyInv, NEW c \in Conn, Serve(c)
  PROVE  KeyInv'
<1> DEFINE m == Head(up[c])
           fs == Tail(up[c])
<1>1. up[c] # <<>> /\ up[c] \in Seq(UpFrame(c)) /\ Held /\ IsOn(out)
  BY TypesNow DEF Serve
<1>2. /\ m \in UpFrame(c) /\ fs \in Seq(UpFrame(c)) /\ \E i \in DOMAIN up[c] : m = up[c][i]
      /\ \A n \in Name : StepsIn(fs, n) \subseteq StepsIn(up[c], n)
      /\ SeedsIn(fs) \subseteq SeedsIn(up[c])
  BY <1>1, FrameTaken
<1>3. Dispatch(c, m) /\ up' = [up EXCEPT ![c] = fs] /\ UNCHANGED <<client, web>>
  BY DEF Serve
<1> HIDE DEF m, fs
<1>4. Relayed(m)
  BY <1>1, <1>2, <1>3, DispatchRelayed
<1> QED BY <1>2, <1>3, <1>4, RelayedKept

(* The server notices that a connection has ended.                         *)
LEMMA HangupKept ==
  ASSUME KeyInv, NEW c \in Conn, Hangup(c)
  PROVE  KeyInv'
<1> DEFINE m == [type |-> "close"]
<1>1. /\ HandleClose(c) /\ up' = [up EXCEPT ![c] = <<>>] /\ UNCHANGED <<client, web>>
  BY DEF Hangup
<1>2. m.type # "ratchet_step" /\ m.type # "relay"
  OBVIOUS
<1> HIDE DEF m
<1>3. Relayed(m)
  BY <1>1, TypesNow, CloseRelayed
<1>4. <<>> \in Seq(UpFrame(c))
  OBVIOUS
<1>5. /\ \A n \in Name : StepsIn(<<>>, n) \subseteq StepsIn(up[c], n)
      /\ SeedsIn(<<>>) \subseteq SeedsIn(up[c])
  BY NoFrames
<1> QED BY <1>1, <1>2, <1>3, <1>4, <1>5, RelayedKept

(* A connection that was dialled is in order.                              *)
LEMMA OnlineOK ==
  ASSUME KeyInv, NEW c \in Conn, client[c].phase # "landing"
  PROVE  ClientOK(c, client[c])
<1>1. Start(<<c, 0>>, UserOf[c]).phase = "landing"
  BY DEF Start
<1>2. Running(c, client[c])
  BY TypesNow
<1> QED BY <1>1, <1>2 DEF Running

(* One that was not dialled is as it started.                              *)
LEMMA LandingOK ==
  ASSUME KeyInv, NEW c \in Conn, client[c].phase = "landing"
  PROVE  client[c] = Start(<<c, 0>>, UserOf[c])
BY TypesNow DEF Running, ClientOK, ClientType

(* Taking an answer, with or without a frame read.                         *)
LEMMA TakeKept ==
  ASSUME KeyInv, NEW c \in Conn, NEW a, Lawful(c, Sessions, UnderWay, Sealed, a),
         Take(c, a), UNCHANGED web, UNCHANGED vars \/ Deliver(c)
  PROVE  KeyInv'
<1>1. /\ client' = [client EXCEPT ![c] = a.client] /\ IsOn(client)
      /\ up' = [up EXCEPT ![c] = @ \o a.sends] /\ IsOn(out) /\ Held
      /\ \A d \in Conn : Running(d, client[d]) /\ out[d] \in Seq(DownFrame(d))
  BY TypesNow DEF Take
<1>2. /\ IsOn(client') /\ client'[c] = a.client
      /\ \A d \in Conn : d # c => /\ Running(d, client'[d])
                                 /\ client'[d].session = client[d].session
  BY <1>1 DEF IsOn
<1>3. /\ UNCHANGED <<rooms, data>>
      /\ UNCHANGED out \/ (out[c] # <<>> /\ out' = [out EXCEPT ![c] = Tail(@)])
  BY DEF vars, Deliver
<1>4. Held'
  BY <1>1, <1>3, HeldStays
<1>5. IsOn(out')
  BY <1>1, <1>3 DEF IsOn
<1>6. ASSUME NEW d \in Conn
      PROVE  /\ out'[d] \in Seq(DownFrame(d))
             /\ StepsOf(out'[d]) \subseteq StepsOf(out[d])
             /\ SeedsIn(out'[d]) \subseteq SeedsIn(out[d])
  <2>1. out'[d] = out[d] \/ (d = c /\ out[c] # <<>> /\ out'[d] = Tail(out[d]))
    BY <1>1, <1>3 DEF IsOn
  <2>2. CASE out'[d] = out[d]
    BY <1>1, <2>2
  <2>3. CASE d = c /\ out[c] # <<>> /\ out'[d] = Tail(out[d])
    BY <1>1, <2>3, FrameTaken
  <2> QED BY <2>1, <2>2, <2>3
<1> QED BY <1>1, <1>2, <1>4, <1>5, <1>6, AnswerKept

(* What a client reads was under way to it, so its answer is lawful.       *)
LEMMA ReadLawful ==
  ASSUME KeyInv, NEW c \in Conn, Read(c), NEW a \in Reactions(c, Head(out[c]))
  PROVE  /\ ClientOK(c, client[c]) /\ Keys(Sessions, UnderWay, Sealed)
         /\ Sessions[c] = client[c].session
         /\ Arrives(c, UnderWay, Sealed, Head(out[c]))
         /\ Lawful(c, Sessions, UnderWay, Sealed, a)
<1> DEFINE m == Head(out[c])
<1>1. a \in Reactions(c, m)
  OBVIOUS
<1>2. client[c].phase # "landing" /\ Deliver(c) /\ UNCHANGED web
  BY DEF Read, Online
<1>3. out[c] # <<>> /\ out[c] \in Seq(DownFrame(c))
  BY <1>2, TypesNow DEF Deliver
<1>4. m \in DownFrame(c) /\ \E i \in DOMAIN out[c] : m = out[c][i]
  BY <1>3, FrameTaken
<1> HIDE DEF m
<1>5. ASSUME m.type = "ratchet_step_fwd" PROVE m.payload \in UnderWay[Called(c)]
  <2>1. m.payload \in StepType /\ Called(c) \in Name
    BY <1>4, <1>5 DEF DownFrame
  <2>2. m.payload \in StepsOf(out[c])
    BY <1>4, <1>5, <2>1 DEF StepsOf
  <2> QED BY <2>1, <2>2, UnderWayFields
<1>6. ASSUME m.type = "relay" PROVE m.payload \in Sealed
  <2>1. m.payload \in SealedType
    BY <1>4, <1>6 DEF DownFrame
  <2>2. m.payload \in SeedsIn(out[c])
    BY <1>4, <1>6, <2>1 DEF SeedsIn
  <2> QED BY <2>2, UnderWayFields
<1>7. Arrives(c, UnderWay, Sealed, m)
  BY <1>4, <1>5, <1>6 DEF Arrives
<1>8. ClientOK(c, client[c]) /\ Keys(Sessions, UnderWay, Sealed)
      /\ Sessions[c] = client[c].session
  BY <1>2, OnlineOK, TypesNow
<1>9. Lawful(c, Sessions, UnderWay, Sealed, a)
  <2>1. CASE InBrowser(c)
    <3>1. a \in W!Reactions(client[c], m)
      BY <1>1, <2>1 DEF Reactions
    <3> QED BY <1>7, <1>8, <2>1, <3>1, WebReacts
  <2>2. CASE ~InBrowser(c)
    <3>1. a \in T!Reactions(client[c], m)
      BY <1>1, <2>2 DEF Reactions
    <3> QED BY <1>7, <1>8, <2>2, <3>1, TerminalReacts
  <2> QED BY <2>1, <2>2
<1> QED BY <1>7, <1>8, <1>9 DEF m

(* A client reads a frame.                                                 *)
LEMMA ReadKept ==
  ASSUME KeyInv, NEW c \in Conn, Read(c)
  PROVE  KeyInv'
<1>1. PICK a \in Reactions(c, Head(out[c])) : Take(c, a)
  BY DEF Read
<1>2. Lawful(c, Sessions, UnderWay, Sealed, a)
  BY <1>1, ReadLawful
<1>3. Deliver(c) /\ UNCHANGED web
  BY DEF Read
<1> QED BY <1>1, <1>2, <1>3, TakeKept

(* The user rotates.                                                       *)
LEMMA RotateKept ==
  ASSUME KeyInv, NEW c \in Conn, Rotate(c)
  PROVE  KeyInv'
<1>1. PICK a \in RotateKeys(client[c]) : Take(c, a)
  BY DEF Rotate
<1>2. client[c].phase # "landing" /\ UNCHANGED vars /\ UNCHANGED web
  BY DEF Rotate
<1>3. ClientOK(c, client[c]) /\ Keys(Sessions, UnderWay, Sealed)
      /\ Sessions[c] = client[c].session
  BY <1>2, OnlineOK, TypesNow
<1>4. Lawful(c, Sessions, UnderWay, Sealed, a)
  BY <1>1, <1>3, RotateLawful
<1> QED BY <1>1, <1>2, <1>4, TakeKept

(* A client loses its connection or leaves.                                *)
LEMMA DisconnectKept ==
  ASSUME KeyInv, NEW c \in Conn, Disconnect(c)
  PROVE  KeyInv'
<1> DEFINE k == client[c]
           q == IF InBrowser(c) THEN W!OnWsClose(k) ELSE T!Ended(k)
<1>1. /\ k.phase # "landing" /\ UNCHANGED vars /\ UNCHANGED web /\ UNCHANGED up
      /\ client' = [client EXCEPT ![c] = q]
  BY DEF Disconnect, Online
<1>2. ClientOK(c, k) /\ Keys(Sessions, UnderWay, Sealed) /\ Sessions[c] = k.session
  BY <1>1, OnlineOK, TypesNow
<1>3. q = W!OnWsClose(k) \/ q = T!Ended(k)
  OBVIOUS
<1> HIDE DEF k, q
<1>4. /\ q \in ClientType /\ q.session = Dispose(k.session)
      /\ q.name = k.name /\ q.lobby = k.lobby /\ q.sessions = k.sessions
  BY <1>2, <1>3, EndedFields
<1>5. ClientOK(c, q) /\ Keys([Sessions EXCEPT ![c] = q.session], UnderWay, Sealed)
  BY <1>2, <1>4, EndedKept
<1>6. Lawful(c, Sessions, UnderWay, Sealed, Silent(q))
  BY <1>2, <1>5, SilentLawful DEF Keys
<1>7. Take(c, Silent(q))
  <2>1. IsOn(up) /\ up[c] \in Seq(UpFrame(c))
    BY TypesNow
  <2>2. up = [up EXCEPT ![c] = @ \o <<>>]
    BY <2>1 DEF IsOn
  <2> QED BY <1>1, <2>2 DEF Take, Silent, Answer
<1> QED BY <1>1, <1>6, <1>7, TakeKept

(* A connection as it is dialled, afresh or with what a lost one           *)
(* remembered (_attemptReconnect): its session is new in either case.      *)
LEMMA StartOK ==
  ASSUME NEW c \in Conn, NEW q,
         \/ q = Start(<<c, 0>>, UserOf[c])
         \/ \E k \in ClientType : q = W!AttemptReconnect(Start(<<c, 0>>, UserOf[c]), k)
  PROVE  /\ ClientOK(c, [q EXCEPT !.phase = "joining"])
         /\ [q EXCEPT !.phase = "joining"].session = Fresh(<<c, 0>>)
<1> DEFINE s == Fresh(<<c, 0>>)
           b == Start(<<c, 0>>, UserOf[c])
           X == [phase : {"landing", "joining"}, name : {UserOf[c]}, session : {s},
                 sessions : {1}, peers : SUBSET Name, chainsExpected : Nat,
                 chainsReceived : Nat, lobby : {Null}, rekeying : BOOLEAN,
                 reconnect : BOOLEAN]
           j == [q EXCEPT !.phase = "joining"]
<1>1. UserOf[c] \in Name
  BY UserOfType
<1>2. <<c, 0>> \in Sid
  BY DEF Sid
<1>3. s \in SessionType /\ s.sid = <<c, 0>> /\ Empty(s)
  BY <1>2, FreshFields
<1>4. b \in X
  <2> DEFINE t == Fresh(<<c, 0>>)
             n == UserOf[c]
  <2>1. b = [phase |-> "landing", name |-> n, session |-> t, sessions |-> 1,
             peers |-> {}, chainsExpected |-> 0, chainsReceived |-> 0,
             lobby |-> Null, rekeying |-> FALSE, reconnect |-> FALSE]
    BY DEF Start
  <2> HIDE DEF t, n, b
  <2> QED BY <2>1 DEF t, n
<1> HIDE DEF s, b
<1>5. q \in X
  <2>1. ASSUME NEW k \in ClientType, q = W!AttemptReconnect(b, k) PROVE q \in X
    <3>1. k.peers \in SUBSET Name /\ k.rekeying \in BOOLEAN
      BY DEF ClientType
    <3>2. q = [b EXCEPT !.peers = k.peers, !.reconnect = TRUE, !.rekeying = k.rekeying]
      BY <2>1 DEF W!AttemptReconnect
    <3> QED BY <1>4, <3>1, <3>2
  <2> QED BY <1>4, <2>1 DEF b
<1>6. j \in X /\ j.phase = "joining"
  BY <1>5
<1> HIDE DEF j
<1>7. /\ j \in ClientType /\ j.session = s /\ j.name = UserOf[c]
      /\ j.sessions = 1 /\ j.lobby = Null
  BY <1>1, <1>3, <1>6 DEF ClientType
<1>8. ClientOK(c, j)
  BY <1>3, <1>7 DEF ClientOK, Empty
<1> QED BY <1>7, <1>8 DEF s, j

(* What was kept for a reconnect is given up.                              *)
LEMMA GivenUp ==
  ASSUME NEW c \in Conn, NEW k, ClientOK(c, k)
  PROVE  /\ ClientOK(c, [k EXCEPT !.phase = "gone"])
         /\ [k EXCEPT !.phase = "gone"].session = k.session
<1> DEFINE q == [k EXCEPT !.phase = "gone"]
<1>1. k \in ClientType
  BY DEF ClientOK
<1>2. /\ q \in ClientType /\ q.session = k.session /\ q.name = k.name /\ q.peers = k.peers
      /\ q.sessions = k.sessions /\ q.lobby = k.lobby
  BY <1>1 DEF ClientType
<1> HIDE DEF q
<1>3. ClientOK(c, q)
  BY <1>2 DEF ClientOK
<1> QED BY <1>2, <1>3 DEF q

(* A connection is opened and asks to create or to join.                   *)
LEMMA BeginKept ==
  ASSUME KeyInv, NEW c \in Conn, client[c].phase = "landing",
         NEW q, \/ q = client[c]
                \/ \E k \in ClientType : q = W!AttemptReconnect(client[c], k),
         NEW frame \in UpFrame(c), frame.type \notin {"ratchet_step", "relay"},
         Begin(c, q, frame), Open(c), UNCHANGED web
  PROVE  KeyInv'
<1> DEFINE s == Fresh(<<c, 0>>)
           j == [q EXCEPT !.phase = "joining"]
           a == Answer(j, <<frame>>)
<1>1. client[c] = Start(<<c, 0>>, UserOf[c])
  BY LandingOK
<1>2. ClientOK(c, j) /\ j.session = s
  BY <1>1, StartOK
<1>3. client[c].session = s
  BY <1>1 DEF Start
<1> HIDE DEF j, s
<1>4. /\ IsOn(client) /\ IsOn(up) /\ Held /\ IsOn(out) /\ Sessions[c] = s
      /\ Keys(Sessions, UnderWay, Sealed)
      /\ \A d \in Conn : Running(d, client[d]) /\ out[d] \in Seq(DownFrame(d))
  BY <1>3, TypesNow
<1>5. [Sessions EXCEPT ![c] = j.session] = Sessions /\ Sessions \in [Conn -> SessionType]
  BY <1>2, <1>4 DEF Keys, Sessions
<1>6. <<frame>> \in Seq(UpFrame(c)) /\ Plain(<<frame>>, j.session)
  BY DEF Plain
<1>7. Keys([Sessions EXCEPT ![c] = j.session], UnderWay, Sealed)
  BY <1>4, <1>5
<1>8. Lawful(c, Sessions, UnderWay, Sealed, a)
  BY <1>2, <1>5, <1>6, <1>7, PlainLawful
<1>9. a.client = j /\ a.sends = <<frame>>
  BY DEF Answer
<1> HIDE DEF a
<1>10. /\ IsOn(client') /\ client'[c] = j
       /\ up' = [up EXCEPT ![c] = @ \o a.sends]
       /\ \A d \in Conn : d # c =>
            \/ client'[d] = client[d]
            \/ client[d].phase = "lost" /\ client'[d] = [client[d] EXCEPT !.phase = "gone"]
  BY <1>9 DEF Begin, IsOn, j
<1>11. ASSUME NEW d \in Conn, d # c
       PROVE  Running(d, client'[d]) /\ client'[d].session = client[d].session
  <2>1. CASE client'[d] = client[d]
    BY <1>4, <2>1
  <2>2. CASE client[d].phase = "lost" /\ client'[d] = [client[d] EXCEPT !.phase = "gone"]
    <3>1. ClientOK(d, client[d])
      BY <2>2, OnlineOK
    <3>2. /\ ClientOK(d, [client[d] EXCEPT !.phase = "gone"])
          /\ [client[d] EXCEPT !.phase = "gone"].session = client[d].session
      BY <3>1, GivenUp
    <3> QED BY <2>2, <3>2 DEF Running
  <2>3. client'[d] = client[d]
        \/ (client[d].phase = "lost" /\ client'[d] = [client[d] EXCEPT !.phase = "gone"])
    BY <1>10, <1>11
  <2> QED BY <2>1, <2>2, <2>3
<1>12. Held' /\ UNCHANGED out
  BY <1>4, OpenHeld DEF Open
<1>13. IsOn(out') /\ client'[c] = a.client
  BY <1>4, <1>9, <1>10, <1>12 DEF IsOn
<1>14. ASSUME NEW d \in Conn
       PROVE  /\ out'[d] \in Seq(DownFrame(d))
              /\ StepsOf(out'[d]) \subseteq StepsOf(out[d])
              /\ SeedsIn(out'[d]) \subseteq SeedsIn(out[d])
  BY <1>4, <1>12
<1> QED BY <1>8, <1>10, <1>11, <1>12, <1>13, <1>14, AnswerKept

(* doCreate, doJoin, startReconnect, _attemptReconnect.                    *)
LEMMA DialKept ==
  ASSUME KeyInv, NEW c \in Conn, Dial(c)
  PROVE  KeyInv'
<1>1. client[c].phase = "landing" /\ Open(c) /\ UNCHANGED web
  BY DEF Dial
<1>2. CASE Begin(c, client[c], CreateFrame)
  <2>1. CreateFrame \in UpFrame(c) /\ CreateFrame.type \notin {"ratchet_step", "relay"}
    BY DEF CreateFrame, UpFrame
  <2> QED BY <1>1, <1>2, <2>1, BeginKept
<1>3. ASSUME NEW r \in DOMAIN rooms,
             \/ Begin(c, client[c], JoinFrame(r))
             \/ \E d \in Conn :
                  /\ UserOf[d] = UserOf[c] /\ MayResume(d)
                  /\ Begin(c, W!AttemptReconnect(client[c], client[d]), JoinFrame(r))
      PROVE  KeyInv'
  <2>1. r \in RoomId
    BY TypesNow DEF Held
  <2>2. JoinFrame(r) \in UpFrame(c) /\ JoinFrame(r).type \notin {"ratchet_step", "relay"}
    BY <2>1 DEF JoinFrame, UpFrame
  <2>3. CASE Begin(c, client[c], JoinFrame(r))
    BY <1>1, <2>2, <2>3, BeginKept
  <2>4. ASSUME NEW d \in Conn, MayResume(d),
               Begin(c, W!AttemptReconnect(client[c], client[d]), JoinFrame(r))
        PROVE  KeyInv'
    <3>1. client[d] \in ClientType
      BY <2>4, OnlineOK DEF MayResume, ClientOK
    <3> DEFINE q == W!AttemptReconnect(client[c], client[d])
    <3>2. \E k \in ClientType : q = W!AttemptReconnect(client[c], k)
      BY <3>1
    <3> HIDE DEF q
    <3>3. Begin(c, q, JoinFrame(r))
      BY <2>4 DEF q
    <3> QED BY <1>1, <2>2, <3>2, <3>3, BeginKept
  <2> QED BY <1>3, <2>3, <2>4
<1> QED BY <1>2, <1>3 DEF Dial

(* At first there is nothing.                                              *)
LEMMA KeyInvFirst ==
  RoomInit => KeyInv
<1> SUFFICES ASSUME RoomInit PROVE KeyInv
  OBVIOUS
<1>1. /\ rooms = [r \in {} |-> Null] /\ data = [c \in Conn |-> Blank]
      /\ out = [c \in Conn |-> <<>>] /\ up = [c \in Conn |-> <<>>]
      /\ client = [c \in Conn |-> Start(<<c, 0>>, UserOf[c])]
  BY DEF RoomInit, Init
<1>2. Held
  <2>1. Blank \in KeyData /\ Blank.username = Null
    BY DEF Blank, KeyData
  <2>2. rooms \in [DOMAIN rooms -> Room] /\ DOMAIN rooms \subseteq RoomId
    BY <1>1
  <2> QED BY <1>1, <2>1, <2>2 DEF Held
<1>3. RoomTypes
  BY <1>1, <1>2 DEF RoomTypes, IsOn, Running
<1>4. ASSUME NEW c \in Conn
      PROVE  Sessions[c] \in SessionType /\ Sessions[c].sid = <<c, 0>> /\ Empty(Sessions[c])
  <2>1. <<c, 0>> \in Sid
    BY DEF Sid
  <2>2. Sessions[c] = Fresh(<<c, 0>>)
    BY <1>1 DEF Sessions, Start
  <2> QED BY <2>1, <2>2, FreshFields
<1>5. \A c \in Conn : /\ \A n \in Name : StepsIn(up[c], n) = {}
                      /\ StepsOf(out[c]) = {} /\ SeedsIn(up[c]) = {} /\ SeedsIn(out[c]) = {}
  BY <1>1, NoFrames
<1>6. /\ UnderWay \in [Name -> SUBSET StepType] /\ \A n \in Name : UnderWay[n] = {}
      /\ Sealed = {}
  BY <1>5 DEF UnderWay, Sealed
<1>7. Sessions \in [Conn -> SessionType]
  BY <1>4 DEF Sessions
<1>8. SessionsOK(Sessions) /\ ChainsDrawn(Sessions)
  BY <1>4 DEF SessionsOK, Rooted, Numbered, ChainsDrawn, Empty
<1>9. /\ StepsDrawn(Sessions, UnderWay) /\ SeedsDrawn(Sessions, Sealed)
      /\ StaysBroken(Sessions, UnderWay) /\ GoodFirst(UnderWay)
      /\ NeverReached(Sessions, UnderWay)
  BY <1>6 DEF StepsDrawn, SeedsDrawn, StaysBroken, GoodFirst, NeverReached
<1> HIDE DEF Sessions, UnderWay, Sealed
<1> QED BY <1>3, <1>6, <1>7, <1>8, <1>9 DEF KeyInv, Keys

(* Every step keeps KeyInv.                                                *)
LEMMA KeyInvStep ==
  KeyInv /\ [RoomNext]_roomVars => KeyInv'
<1> SUFFICES ASSUME KeyInv, [RoomNext]_roomVars PROVE KeyInv'
  OBVIOUS
<1>1. ASSUME NEW c \in Conn, Dial(c) PROVE KeyInv'
  BY <1>1, DialKept
<1>2. ASSUME NEW c \in Conn, Read(c) PROVE KeyInv'
  BY <1>2, ReadKept
<1>3. ASSUME NEW c \in Conn, Rotate(c) PROVE KeyInv'
  BY <1>3, RotateKept
<1>4. ASSUME NEW c \in Conn, Disconnect(c) PROVE KeyInv'
  BY <1>4, DisconnectKept
<1>5. ASSUME NEW c \in Conn, Serve(c) PROVE KeyInv'
  BY <1>5, ServeKept
<1>6. ASSUME NEW c \in Conn, Hangup(c) PROVE KeyInv'
  BY <1>6, HangupKept
<1>7. ASSUME NEW c \in Conn, Lose(c) /\ UNCHANGED <<up, client, web, rotations>> PROVE KeyInv'
  BY <1>7, LoseKept
<1>8. CASE UNCHANGED roomVars
  <2>1. UNCHANGED <<rooms, data>> /\ UNCHANGED <<client, web, up>> /\ UNCHANGED out
    BY <1>8 DEF roomVars
  <2>2. Held' /\ IsOn(out')
    BY <2>1, TypesNow, HeldStays
  <2> QED BY <2>1, <2>2, TypesNow, OutOnly
<1> QED BY <1>1, <1>2, <1>3, <1>4, <1>5, <1>6, <1>7, <1>8 DEF RoomNext

(* Whatever the users do, and however many connections are lost on the     *)
(* way, what clients hold and what is under way between them stays as Keys *)
(* says; in particular no step of a rotation that failed half way is ever  *)
(* opened (doRatchetStep, receiveRatchetStep).                             *)
THEOREM KeysInOrder == RoomSpec => []KeyInv
BY KeyInvFirst, KeyInvStep, PTL DEF RoomSpec

(* EpochInStep holds for any number of users, connections and rotations,   *)
(* of any kind of client, whenever web clients resume: the number a        *)
(* receiver gives to a seed is the one its sender gave it, so messages are *)
(* looked for under the right epoch (receiveRatchetStep, unwrapChainSeed,  *)
(* doRatchetStep).                                                         *)
THEOREM EpochsInStep == RoomSpec => []EpochInStep
<1>1. ASSUME KeyInv PROVE EpochInStep
  <2> SUFFICES ASSUME NEW c \in Conn, NEW n \in Name, client[c].session.sender[n] # Null
               PROVE  client[c].session.sender[n].epoch = client[c].session.sender[n].seed.nth
    BY DEF EpochInStep
  <2>1. Numbered(Sessions[c]) /\ Sessions[c] = client[c].session
    BY <1>1, TypesNow DEF Keys, SessionsOK
  <2> DEFINE s == Sessions[c]
             top == Top(s.decap[n])
  <2>2. /\ s.decap[n] # Null
        /\ s.sender[n] = [epoch |-> Top(s.decap[n]).nth, seed |-> Top(s.decap[n])]
    BY <2>1 DEF Numbered
  <2>3. /\ s.sender[n] = [epoch |-> top.nth, seed |-> top]
        /\ s.sender[n] = client[c].session.sender[n]
    BY <2>1, <2>2
  <2> HIDE DEF s, top
  <2> QED BY <2>3
<1>2. KeyInv => EpochInStep
  BY <1>1
<1> QED BY <1>2, KeysInOrder, PTL

-----------------------------------------------------------------------------
(* Rotations that go through.                                              *)

(* A client that did not come back can rotate among all its peers, or has  *)
(* none, because it waits in its lobby for `rekeyed`.                      *)
Whole(k) ==
  (~k.reconnect /\ k.phase \notin {"gone", "lost"}) =>
    /\ CanRotate(k)
    /\ IF k.lobby = Null THEN ~k.session.disposed
       ELSE /\ k.phase = "ready" /\ k.peers = {} /\ k.session.disposed
            /\ ~k.lobby.disposed

(* A terminal client asks for a room once and gets one answer, before it   *)
(* waits for seeds: never again in the lobby, where it would meet the      *)
(* members with a session that is disposed of.                             *)
OneEntry(k, asked, told) ==
  /\ ~k.reconnect /\ k.phase # "lost"
  /\ k.phase = "landing" => asked = <<>> /\ Grants(told) = {}
  /\ k.phase = "joining" =>
       \/ Len(asked) = 1 /\ Grants(told) = {}
       \/ asked = <<>> /\ \A i, j \in Grants(told) : i = j
  /\ k.phase \in {"waiting", "ready"} => Asks(asked) = {} /\ Grants(told) = {}

Ordered(c) ==
  /\ client[c].reconnect => Resumes # "never"
  /\ Whole(client[c])
  /\ ~InBrowser(c) => OneEntry(client[c], up[c], out[c])
RotateInv == KeyInv /\ \A c \in Conn : Ordered(c)

(* One change after another.                                               *)
LEMMA SteadyTwice ==
  ASSUME NEW k, NEW q, NEW r, Steady(k, q), Steady(q, r)
  PROVE  Steady(k, r)
BY DEF Steady

(* Another session with the same roots, and no ratchet key fewer.          *)
LEMMA SteadyWith ==
  ASSUME NEW c \in Conn, NEW k, ClientOK(c, k), NEW t \in SessionType,
         t.sid = k.session.sid, t.disposed = k.session.disposed,
         \A n \in Name : t.encap[n] # Null <=> k.session.encap[n] # Null,
         \A n \in Name : k.session.eks[n] # Null => t.eks[n] # Null
  PROVE  LET q == [k EXCEPT !.session = t] IN Steady(k, q) /\ q.phase = k.phase
<1> DEFINE q == [k EXCEPT !.session = t]
<1>1. /\ q.session = t /\ q.peers = k.peers /\ q.phase = k.phase
      /\ q.lobby = k.lobby /\ q.reconnect = k.reconnect
  BY WithSession
<1>2. k.peers \in SUBSET Name
  BY DEF ClientOK, ClientType
<1> HIDE DEF q
<1>3. Steady(k, q) /\ q.phase = k.phase
  BY <1>1, <1>2 DEF Steady, CanRotate
<1> QED BY <1>3 DEF q

(* An answer that leaves a client able to rotate, in phase p, and asks for *)
(* no room.                                                                *)
Calm(k, p, a) == Steady(k, a.client) /\ a.client.phase = p /\ Asks(a.sends) = {}

LEMMA CalmAnswer ==
  ASSUME NEW k, NEW q, NEW f, Steady(k, q), f.type \notin {"create", "join"}
  PROVE  Calm(k, q.phase, Silent(q)) /\ Calm(k, q.phase, Answer(q, <<f>>))
BY DEF Calm, Silent, Answer, Asks

(* doRatchetStep, also when it fails at a peer.                            *)
LEMMA RotateCalm ==
  ASSUME NEW c \in Conn, NEW k, ClientOK(c, k), NEW a \in RotateKeys(k)
  PROVE  Calm(k, k.phase, a)
<1> DEFINE s == k.session
<1>1. s \in SessionType /\ k.peers \in SUBSET Name
  BY DEF ClientOK, ClientType
<1>2. CASE a = Silent(k)
  <2>1. Steady(k, k) /\ [type |-> "none"].type \notin {"create", "join"}
    BY DEF Steady
  <2> QED BY <1>2, <2>1, CalmAnswer
<1>3. CASE ~(k.phase # "ready" \/ k.peers = {}) /\ ~CanRatchet(s, k.peers)
  <2>1. PICK t \in BrokenOff(s, k.peers) : a = Silent([k EXCEPT !.session = t])
    BY <1>3 DEF RotateKeys
  <2>2. PICK N \in SUBSET {n \in k.peers : CanRatchet(s, {n})} : t = Stepped(s, N)
    BY <2>1 DEF BrokenOff
  <2>3. N \in SUBSET Name /\ \A n \in N : s.encap[n] # Null
    BY <1>1, <2>2 DEF CanRatchet
  <2>4. /\ Stepped(s, N) \in SessionType /\ Stepped(s, N).sid = s.sid
        /\ Stepped(s, N).disposed = s.disposed /\ Stepped(s, N).eks = s.eks
        /\ \A n \in Name : Stepped(s, N).encap[n] # Null <=> s.encap[n] # Null
    BY <1>1, <2>3, SteppedFields
  <2>5. /\ t \in SessionType /\ t.sid = s.sid /\ t.disposed = s.disposed /\ t.eks = s.eks
        /\ \A n \in Name : t.encap[n] # Null <=> s.encap[n] # Null
    BY <2>2, <2>4
  <2> DEFINE q == [k EXCEPT !.session = t]
  <2>6. Steady(k, q) /\ q.phase = k.phase /\ [type |-> "none"].type \notin {"create", "join"}
    BY <2>5, SteadyWith
  <2> HIDE DEF q
  <2>7. Calm(k, k.phase, Silent(q))
    BY <2>6, CalmAnswer
  <2> QED BY <2>1, <2>7 DEF q
<1>4. CASE ~(k.phase # "ready" \/ k.peers = {}) /\ CanRatchet(s, k.peers)
  <2> DEFINE s1 == CommitRatchetStep(s, k.peers)
             t == ClaimBuilt(s1)
             f == [type |-> "ratchet_step",
                   payloads |-> [n \in k.peers |-> PerformRatchetStep(s, n)],
                   newEk |-> RatchetEk(s1), sig |-> s1.sid, claim |-> ClaimOf(s1)]
             q == [k EXCEPT !.session = t]
  <2>1. a = Answer(q, <<f>>)
    BY <1>4 DEF RotateKeys
  <2>2. \A n \in k.peers : s.encap[n] # Null
    BY <1>4 DEF CanRatchet
  <2>3. /\ Stepped(s, k.peers) \in SessionType /\ Stepped(s, k.peers).sid = s.sid
        /\ Stepped(s, k.peers).disposed = s.disposed /\ Stepped(s, k.peers).eks = s.eks
        /\ \A n \in Name : Stepped(s, k.peers).encap[n] # Null <=> s.encap[n] # Null
    BY <1>1, <2>2, SteppedFields
  <2>4. /\ s1 \in SessionType /\ s1.sid = s.sid /\ s1.disposed = s.disposed
        /\ s1.eks = s.eks /\ s1.encap = Stepped(s, k.peers).encap
    BY <2>3 DEF CommitRatchetStep, SessionType
  <2>5. f.type \notin {"create", "join"}
    OBVIOUS
  <2> HIDE DEF s1, f
  <2>6. /\ t \in SessionType /\ t.sid = s.sid /\ t.disposed = s.disposed
        /\ t.eks = s.eks /\ \A n \in Name : t.encap[n] # Null <=> s.encap[n] # Null
    BY <2>3, <2>4, ClaimFields
  <2> HIDE DEF t
  <2>7. Steady(k, q) /\ q.phase = k.phase
    BY <2>6, SteadyWith
  <2> HIDE DEF q
  <2> QED BY <2>1, <2>5, <2>7, CalmAnswer
<1>5. a = Silent(k) \/ ~(k.phase # "ready" \/ k.peers = {})
  BY DEF RotateKeys
<1> QED BY <1>2, <1>3, <1>4, <1>5

(* The seeds are counted.                                                  *)
LEMMA CountSeedCalm ==
  ASSUME NEW c \in Conn, NEW k, ClientOK(c, k), NEW a \in CountSeed(k)
  PROVE  Calm(k, k.phase, a) \/ Calm(k, "ready", a)
<1> DEFINE k1 == [k EXCEPT !.chainsReceived = @ + 1]
           k2 == [k1 EXCEPT !.phase = "ready"]
<1>1. k \in ClientType
  BY DEF ClientOK
<1>2. /\ k1 \in ClientType /\ k1.session = k.session /\ k1.peers = k.peers
      /\ k1.lobby = k.lobby /\ k1.sessions = k.sessions /\ k1.name = k.name
      /\ k1.phase = k.phase /\ k1.reconnect = k.reconnect
  BY <1>1 DEF ClientType
<1>3. a \in RotateKeys(k2) \/ a = Silent(k1)
  BY DEF CountSeed
<1> HIDE DEF k1
<1>4. /\ k2 \in ClientType /\ k2.session = k.session /\ k2.peers = k.peers
      /\ k2.lobby = k.lobby /\ k2.sessions = k.sessions /\ k2.name = k.name
      /\ k2.phase = "ready" /\ k2.reconnect = k.reconnect
  BY <1>2 DEF ClientType
<1> HIDE DEF k2
<1>5. Steady(k, k1) /\ Steady(k, k2)
  BY <1>2, <1>4 DEF Steady, CanRotate
<1>6. CASE a = Silent(k1)
  <2>1. [type |-> "none"].type \notin {"create", "join"}
    OBVIOUS
  <2> QED BY <1>2, <1>5, <1>6, <2>1, CalmAnswer
<1>7. CASE a \in RotateKeys(k2)
  <2>1. ClientOK(c, k2)
    BY <1>4, BookKept
  <2>2. Calm(k2, "ready", a)
    BY <1>4, <1>7, <2>1, RotateCalm
  <2> QED BY <1>5, <2>2, SteadyTwice DEF Calm
<1> QED BY <1>3, <1>6, <1>7

(* A seed arrives.                                                         *)
LEMMA UnwrapSteady ==
  ASSUME NEW c \in Conn, NEW k, ClientOK(c, k), NEW f \in Name, NEW b \in SealedType
  PROVE  LET k1 == [k EXCEPT !.session = UnwrapChainSeed(@, f, b)]
         IN ClientOK(c, k1) /\ Steady(k, k1) /\ k1.phase = k.phase
<1> DEFINE s == k.session
           t == UnwrapChainSeed(s, f, b)
           q == [k EXCEPT !.session = t]
<1>1. s \in SessionType
  BY DEF ClientOK, ClientType
<1>2. /\ t \in SessionType /\ t.sid = s.sid /\ t.disposed = s.disposed
      /\ t.encap = s.encap /\ t.eks = s.eks
  BY <1>1 DEF UnwrapChainSeed, SessionType, SealedType, Root, RootKey, Chain
<1> HIDE DEF t
<1>3. ClientOK(c, q) /\ Steady(k, q) /\ q.phase = k.phase
  BY <1>2, WithSession, SteadyWith
<1>4. q = [k EXCEPT !.session = UnwrapChainSeed(@, f, b)]
  BY DEF t
<1> HIDE DEF q
<1> QED BY <1>3, <1>4

(* A step arrives.                                                         *)
LEMMA TakeStepCalm ==
  ASSUME NEW c \in Conn, NEW k, ClientOK(c, k), Numbered(k.session), NEW m,
         m.from \in Name, m.payload \in StepType, m.newEk \in RatchetKey,
         m.claim \in ClaimEntry
  PROVE  Calm(k, k.phase, TakeStep(k, m))
<1> DEFINE s == k.session
           s1 == AcceptClaim(s, m.from, m.claim)
           s2 == ReceiveRatchetStep(s1, m.from, m.payload)
           s3 == UpdatePeerRatchetEk(s2, m.from, m.newEk)
           s4 == ClaimBuilt(s3)
           f == [type |-> "ek_update", ek |-> RatchetEk(s3), claim |-> ClaimOf(s3)]
           q == [k EXCEPT !.session = s2]
           r == [k EXCEPT !.session = s4]
<1>1. s \in SessionType
  BY DEF ClientOK, ClientType
<1>2. \/ TakeStep(k, m) = Silent(k)
      \/ TakeStep(k, m) = Silent(q)
      \/ TakeStep(k, m) = Answer(r, <<f>>)
  BY DEF TakeStep
<1>3. /\ s1 \in SessionType /\ s1.sid = s.sid /\ s1.disposed = s.disposed
      /\ s1.encap = s.encap /\ s1.decap = s.decap /\ s1.sender = s.sender
      /\ s1.eks = s.eks
  BY <1>1, AcceptFields
<1> HIDE DEF s1
<1>4. Numbered(s1)
  BY <1>3 DEF Numbered
<1>5. /\ s2 \in SessionType /\ s2.sid = s.sid /\ s2.disposed = s.disposed
      /\ s2.encap = s.encap /\ s2.eks = s.eks
  BY <1>3, <1>4, ReceiveFields
<1> HIDE DEF s2
<1>6. /\ s3 \in SessionType /\ s3.sid = s.sid /\ s3.disposed = s.disposed
      /\ s3.encap = s.encap /\ s3.eks = [s.eks EXCEPT ![m.from] = m.newEk]
  BY <1>5, EkFields
<1> HIDE DEF s3
<1>7. /\ s4 \in SessionType /\ s4.sid = s.sid /\ s4.disposed = s.disposed
      /\ s4.encap = s.encap /\ s4.eks = [s.eks EXCEPT ![m.from] = m.newEk]
  BY <1>6, ClaimFields
<1> HIDE DEF s4
<1>8. \A n \in Name : s.eks[n] # Null => s4.eks[n] # Null
  BY <1>1, <1>7, NullIsNoKey DEF SessionType
<1>9. Steady(k, k) /\ f.type \notin {"create", "join"}
  BY DEF Steady
<1> HIDE DEF f
<1>10. \A n \in Name : s4.encap[n] # Null <=> s.encap[n] # Null
  BY <1>7
<1>11. Steady(k, q) /\ q.phase = k.phase
  <2> HIDE DEF r
  <2> QED BY <1>5, SteadyWith
<1>12. Steady(k, r) /\ r.phase = k.phase
  <2>1. /\ s4 \in SessionType /\ s4.sid = k.session.sid
        /\ s4.disposed = k.session.disposed
    BY <1>7
  <2> HIDE DEF q
  <2> QED BY <2>1, <1>8, <1>10, SteadyWith
<1> HIDE DEF q, r
<1> QED BY <1>2, <1>9, <1>11, <1>12, CalmAnswer

(* A ratchet key arrives.                                                  *)
LEMMA TakeEkCalm ==
  ASSUME NEW c \in Conn, NEW k, ClientOK(c, k), NEW m, m.from \in Name,
         m.ek \in RatchetKey, m.claim \in ClaimEntry
  PROVE  Calm(k, k.phase, Silent(TakeEk(k, m)))
<1> DEFINE s == k.session
           s1 == AcceptClaim(s, m.from, m.claim)
           t == UpdatePeerRatchetEk(s1, m.from, m.ek)
           q == [k EXCEPT !.session = t]
<1>1. s \in SessionType
  BY DEF ClientOK, ClientType
<1>2. TakeEk(k, m) = k \/ TakeEk(k, m) = q
  BY DEF TakeEk
<1>3. /\ s1 \in SessionType /\ s1.sid = s.sid /\ s1.disposed = s.disposed
      /\ s1.encap = s.encap /\ s1.eks = s.eks
  BY <1>1, AcceptFields
<1> HIDE DEF s1
<1>4. /\ t \in SessionType /\ t.sid = s.sid /\ t.disposed = s.disposed
      /\ t.encap = s.encap /\ t.eks = [s.eks EXCEPT ![m.from] = m.ek]
  BY <1>3, EkFields
<1> HIDE DEF t
<1>5. \A n \in Name : s.eks[n] # Null => t.eks[n] # Null
  BY <1>1, <1>4, NullIsNoKey DEF SessionType
<1>6. Steady(k, q) /\ q.phase = k.phase
  <2>1. /\ t.sid = k.session.sid /\ t.disposed = k.session.disposed
        /\ \A n \in Name : t.encap[n] # Null <=> k.session.encap[n] # Null
    BY <1>4
  <2> QED BY <1>4, <1>5, <2>1, SteadyWith
<1>7. Steady(k, k) /\ [type |-> "none"].type \notin {"create", "join"}
  BY DEF Steady
<1> HIDE DEF q
<1> QED BY <1>2, <1>6, <1>7, CalmAnswer

(* What every answer keeps.                                                *)
Keeps(k, a) == a.client.reconnect = k.reconnect /\ Whole(a.client)

LEMMA CalmKeeps ==
  ASSUME NEW k, k.phase \notin {"gone", "lost"}, Whole(k), k.lobby = Null,
         NEW p, NEW a, Calm(k, p, a)
  PROVE  Keeps(k, a)
BY DEF Calm, Keeps, Steady, Whole

(* In the lobby a terminal client hears of nobody but those that leave.    *)
LEMMA TerminalDeaf ==
  ASSUME NEW k, NEW m, NEW a \in T!Reactions(k, m),
         \/ /\ k.session.disposed
            /\ m.type \in {"peer_joined", "relay", "ratchet_step_fwd", "ek_update_fwd"}
         \/ /\ k.phase = "joining" /\ k.lobby = Null
            /\ m.type \in {"peer_joined", "relay", "ratchet_step_fwd", "ek_update_fwd",
                           "peer_left", "rekeyed", "error"}
  PROVE  a = Silent(k)
<1>1. T!Silent(k) = Silent(k)
  BY TerminalSame
<1>2. CASE m.type = "peer_joined"
  <2>1. a = T!OnPeerJoined(k, m)
    BY <1>2 DEF T!Reactions
  <2> QED BY <1>1, <1>2, <2>1 DEF T!OnPeerJoined, T!InPhase, T!Acceptable
<1>3. CASE m.type = "relay"
  <2>1. a \in T!OnSeed(k, m)
    BY <1>3 DEF T!Reactions
  <2> QED BY <1>1, <1>3, <2>1 DEF T!OnSeed, T!InPhase, T!Unwraps
<1>4. CASE m.type = "ratchet_step_fwd"
  <2>1. a = T!OnRatchetStep(k, m)
    BY <1>4 DEF T!Reactions
  <2>2. k.session.disposed => T!TakeStep(k, m) = T!Silent(k)
    BY DEF T!TakeStep, T!Acceptable
  <2> QED BY <1>1, <1>4, <2>1, <2>2 DEF T!OnRatchetStep
<1>5. CASE m.type = "ek_update_fwd"
  <2>1. a = T!OnEkUpdate(k, m)
    BY <1>5 DEF T!Reactions
  <2>2. k.session.disposed => T!TakeEk(k, m) = k
    BY DEF T!TakeEk, T!Acceptable
  <2> QED BY <1>1, <1>5, <2>1, <2>2 DEF T!OnEkUpdate, T!InPhase
<1>6. CASE m.type = "peer_left"
  <2>1. a = T!OnPeerLeft(k, m)
    BY <1>6 DEF T!Reactions
  <2> QED BY <1>1, <1>6, <2>1 DEF T!OnPeerLeft, T!InPhase
<1>7. CASE m.type = "rekeyed"
  <2>1. a = T!OnRekeyed(k)
    BY <1>7 DEF T!Reactions
  <2> QED BY <1>1, <1>7, <2>1 DEF T!OnRekeyed
<1>8. CASE m.type = "error"
  <2>1. a = T!OnError(k, m)
    BY <1>8 DEF T!Reactions
  <2> QED BY <1>1, <1>8, <2>1 DEF T!OnError, T!InPhase
<1> QED BY <1>2, <1>3, <1>4, <1>5, <1>6, <1>7, <1>8

(* A peer that joined is met, and can be rotated to.                       *)
LEMMA MeetCalm ==
  ASSUME NEW c \in Conn, NEW k, ClientOK(c, k), NEW m, m.username \in Name,
         m.ek \in SealKey, m.ratchetEk \in RatchetKey, m.claim \in ClaimEntry,
         NEW q, Steady(Meet(k, m), q)
  PROVE  Calm(k, q.phase, Answer(q, <<SeedFrame(k, m)>>))
<1>1. Steady(k, Meet(k, m))
  BY MeetFields DEF MetBy
<1>2. Steady(k, q)
  BY <1>1, SteadyTwice
<1>3. SeedFrame(k, m).type \notin {"create", "join"}
  BY DEF SeedFrame
<1> QED BY <1>2, <1>3, CalmAnswer

(* Outside the lobby it hears of everybody, and keeps what it can rotate.  *)
LEMMA TerminalHears ==
  ASSUME NEW c \in Conn, NEW k, ClientOK(c, k), Numbered(k.session), ~InBrowser(c),
         k.phase \in {"waiting", "ready"}, NEW m \in DownFrame(c),
         NEW a \in T!Reactions(k, m),
         m.type \in {"peer_joined", "relay", "ratchet_step_fwd", "ek_update_fwd"}
  PROVE  Calm(k, "waiting", a) \/ Calm(k, "ready", a)
<1>1. T!Silent(k) = Silent(k) /\ k \in ClientType
  BY TerminalSame DEF ClientOK
<1>2. Calm(k, k.phase, Silent(k))
  <2>1. Steady(k, k) /\ [type |-> "none"].type \notin {"create", "join"}
    BY DEF Steady
  <2> QED BY <2>1, CalmAnswer
<1>3. CASE m.type = "peer_joined"
  <2> DEFINE r == Meet(k, m)
             q == T!Counted(r)
  <2>1. a = T!OnPeerJoined(k, m)
    BY <1>3 DEF T!Reactions
  <2>2. /\ m.username \in Name /\ m.ek \in SealKey /\ m.ratchetEk \in RatchetKey
        /\ m.claim \in ClaimEntry
    BY <1>3, FrameFields
  <2>3. a = Silent(k) \/ a = Answer(q, <<SeedFrame(k, m)>>)
    BY <2>1, TerminalSame DEF T!OnPeerJoined
  <2>4. MetBy(c, k, m.username, r)
    BY <2>2, MeetFields
  <2>5. r \in ClientType /\ r.phase = k.phase
    BY <2>4 DEF MetBy, ClientOK
  <2>6. r = Meet(k, m)
    OBVIOUS
  <2> HIDE DEF r
  <2>7. /\ q.session = r.session /\ q.peers = r.peers /\ q.lobby = r.lobby
        /\ q.phase = r.phase /\ q.reconnect = r.reconnect
    BY <2>5, CountedFields
  <2> HIDE DEF q
  <2>8. Steady(r, q)
    BY <2>7 DEF Steady, CanRotate
  <2>9. Steady(Meet(k, m), q)
    BY <2>6, <2>8
  <2>10. Calm(k, q.phase, Answer(q, <<SeedFrame(k, m)>>))
    BY <2>2, <2>9, MeetCalm
  <2> QED BY <1>2, <2>3, <2>5, <2>7, <2>10
<1>4. CASE m.type = "relay"
  <2> DEFINE k1 == [k EXCEPT !.session = UnwrapChainSeed(@, m.from, m.payload)]
  <2>1. a \in T!OnSeed(k, m)
    BY <1>4 DEF T!Reactions
  <2>2. m.from \in Name /\ m.payload \in SealedType
    BY <1>4, FrameFields
  <2>3. a = Silent(k) \/ a = Silent(k1) \/ a \in CountSeed(k1)
    <3>1. T!CountSeed(k1) = CountSeed(k1)
      BY TerminalRotates
    <3> QED BY <2>1, <3>1, TerminalSame DEF T!OnSeed, Silent, Answer
  <2>4. ClientOK(c, k1) /\ Steady(k, k1) /\ k1.phase = k.phase
    BY <2>2, UnwrapSteady
  <2> HIDE DEF k1
  <2>5. Calm(k, k.phase, Silent(k1))
    <3>1. [type |-> "none"].type \notin {"create", "join"}
      OBVIOUS
    <3> QED BY <2>4, <3>1, CalmAnswer
  <2>6. ASSUME NEW x \in CountSeed(k1) PROVE Calm(k, k.phase, x) \/ Calm(k, "ready", x)
    <3>1. Calm(k1, k1.phase, x) \/ Calm(k1, "ready", x)
      BY <2>4, CountSeedCalm
    <3> QED BY <2>4, <3>1, SteadyTwice DEF Calm
  <2> QED BY <1>2, <2>3, <2>5, <2>6
<1>5. CASE m.type = "ratchet_step_fwd"
  <2>1. a = TakeStep(k, m) \/ a = Silent(k)
    BY <1>5, <1>1, TerminalRotates DEF T!Reactions, T!OnRatchetStep
  <2>2. /\ m.from \in Name /\ m.newEk \in RatchetKey /\ m.claim \in ClaimEntry
        /\ m.payload \in StepType
    BY <1>5, FrameFields
  <2>3. Calm(k, k.phase, TakeStep(k, m))
    BY <2>2, TakeStepCalm
  <2> QED BY <1>2, <2>1, <2>3
<1>6. CASE m.type = "ek_update_fwd"
  <2>1. a = Silent(TakeEk(k, m)) \/ a = Silent(k)
    <3>1. a = T!OnEkUpdate(k, m) /\ T!TakeEk(k, m) = TakeEk(k, m)
      BY <1>6, TerminalRotates DEF T!Reactions
    <3> QED BY <3>1, TerminalSame DEF T!OnEkUpdate, Silent, Answer
  <2>2. m.from \in Name /\ m.ek \in RatchetKey /\ m.claim \in ClaimEntry
    BY <1>6, FrameFields
  <2>3. Calm(k, k.phase, Silent(TakeEk(k, m)))
    BY <2>2, TakeEkCalm
  <2> QED BY <1>2, <2>1, <2>3
<1> QED BY <1>3, <1>4, <1>5, <1>6

(* The lobby is entered alone, with another session in waiting.            *)
LEMMA EnterLobbyWhole ==
  ASSUME NEW c \in Conn, NEW k, ClientOK(c, k), k.phase = "ready", k.peers = {}
  PROVE  LET a == T!EnterLobby(k)
         IN Keeps(k, a) /\ a.client.phase = "ready" /\ Asks(a.sends) = {}
<1> DEFINE s == Fresh(<<k.session.sid[1], k.sessions>>)
           d == Dispose(k.session)
           l == ClaimBuilt(s)
           n == k.sessions + 1
           q == [k EXCEPT !.session = d, !.lobby = l, !.sessions = n,
                          !.chainsExpected = 0, !.chainsReceived = 0]
           f == RekeyFrame(s)
<1>1. k \in ClientType /\ k.session \in SessionType
  BY DEF ClientOK, ClientType
<1>2. d \in SessionType /\ d.disposed
  BY <1>1, DisposeFields
<1>3. s \in SessionType /\ ~s.disposed
  <2>1. <<k.session.sid[1], k.sessions>> \in Sid
    BY DEF ClientOK, ClientType, Sid
  <2> QED BY <2>1, FreshFields
<1>4. l \in SessionType /\ ~l.disposed
  BY <1>3, ClaimFields
<1>5. f.type \notin {"create", "join"}
  BY DEF RekeyFrame
<1>6. T!EnterLobby(k) = Answer(q, <<f>>)
  BY TerminalSame DEF T!EnterLobby
<1> HIDE DEF d, l, f, n
<1>7. /\ q.session = d /\ q.peers = k.peers /\ q.lobby = l /\ q.phase = k.phase
      /\ q.reconnect = k.reconnect
  BY <1>1 DEF ClientType
<1> HIDE DEF q
<1>8. l # Null
  BY <1>4, NullIsNoKey
<1>9. Keeps(k, Answer(q, <<f>>)) /\ q.phase = "ready"
  BY <1>2, <1>4, <1>7, <1>8 DEF Keeps, Answer, Whole, CanRotate
<1>10. Asks(<<f>>) = {}
  BY <1>5 DEF Asks
<1> QED BY <1>6, <1>9, <1>10 DEF Answer

(* What an answer of a terminal client leaves open of the order in which   *)
(* it asks for a room and enters it.                                       *)
InTurn(k, m, a) ==
  IF m.type = "room_created" THEN a.client = k /\ Len(a.sends) = 1
  ELSE IF m.type = "joined" THEN a.client.phase = "waiting" /\ Asks(a.sends) = {}
  ELSE IF k.phase = "joining" THEN a = Silent(k)
  ELSE a.client.phase \in {"waiting", "ready", "gone"} /\ Asks(a.sends) = {}

(* The terminal client, whatever it is told while it is connected.         *)
LEMMA TerminalStays ==
  ASSUME NEW S, NEW P, NEW B, NEW c \in Conn, NEW k, ClientOK(c, k), Keys(S, P, B),
         S[c] = k.session, ~InBrowser(c), NEW m, Arrives(c, P, B, m),
         NEW a \in T!Reactions(k, m), Whole(k), ~k.reconnect,
         k.phase \in {"joining", "waiting", "ready"},
         m.type = "joined" => k.phase = "joining"
  PROVE  Keeps(k, a) /\ InTurn(k, m, a)
<1>1. /\ m \in DownFrame(c) /\ k \in ClientType /\ Numbered(k.session)
      /\ k.session \in SessionType
  BY DEF Arrives, Keys, ClientOK, ClientType, SessionsOK
<1>2. Keeps(k, Silent(k)) /\ Asks(Silent(k).sends) = {} /\ Silent(k).client = k
  BY DEF Keeps, Silent, Answer, Asks
<1>3. k.phase = "joining" => k.lobby = Null
  BY DEF Whole
<1>4. CASE m.type = "room_created"
  <2>1. a = T!Answer(k, <<T!JoinFrame(m.roomId)>>)
    BY <1>4 DEF T!Reactions
  <2> QED BY <1>4, <2>1 DEF T!Answer, Keeps, InTurn
<1>5. CASE m.type = "joined"
  <2>1. PICK q \in T!SetToSeqs(m.members) : a = T!Connect(k, q)
    BY <1>5 DEF T!Reactions
  <2>2. m.members \in SUBSET MemberType /\ IsFiniteSet(m.members)
    BY <1>1, <1>5, FrameFields
  <2>3. q \in SetToSeqs(m.members)
    BY <2>1 DEF T!SetToSeqs, SetToSeqs, T!Cardinality, Cardinality
  <2>4. q \in Seq(MemberType)
    BY <2>2, <2>3, MembersInAnyOrder
  <2> DEFINE e == T!Connect(k, q)
  <2>5. Steady(k, e.client)
    BY <2>4, ConnectLawful
  <2>6. e.client.phase = "waiting"
    BY <2>4, ConnectLawful
  <2>7. Asks(e.sends) = {}
    BY <2>4, ConnectLawful
  <2>8. a = e
    BY <2>1
  <2> HIDE DEF e
  <2> QED BY <1>3, <1>5, <2>5, <2>6, <2>7, <2>8 DEF Keeps, InTurn, Whole, Steady
<1>6. CASE m.type \in {"peer_joined", "relay", "ratchet_step_fwd", "ek_update_fwd"}
  <2>1. CASE k.phase = "joining" \/ k.lobby # Null
    <3>1. a = Silent(k)
      BY <1>3, <1>6, <2>1, TerminalDeaf DEF Whole
    <3> QED BY <1>2, <1>6, <2>1, <3>1 DEF InTurn
  <2>2. CASE k.phase # "joining" /\ k.lobby = Null
    <3>1. Calm(k, "waiting", a) \/ Calm(k, "ready", a)
      BY <1>1, <1>6, <2>2, TerminalHears
    <3>2. Keeps(k, a)
      BY <2>2, <3>1, CalmKeeps
    <3> QED BY <1>6, <2>2, <3>1, <3>2 DEF InTurn, Calm
  <2> QED BY <2>1, <2>2
<1>7. CASE m.type \in {"peer_left", "rekeyed", "error"} /\ k.phase = "joining"
  <2>1. a = Silent(k)
    BY <1>3, <1>7, TerminalDeaf
  <2> QED BY <1>2, <1>7, <2>1 DEF InTurn
<1>8. CASE m.type = "peer_left" /\ k.phase # "joining"
  <2> DEFINE q == Forget(k, m.username)
  <2>1. a = T!OnPeerLeft(k, m)
    BY <1>8 DEF T!Reactions
  <2>2. m.username \in Name
    BY <1>1, <1>8, FrameFields
  <2>3. /\ ClientOK(c, q) /\ q.phase = k.phase /\ q.peers \subseteq k.peers
        /\ Steady(k, q)
    <3>1. ClientOK(c, q)
      BY <2>2, ForgetKept
    <3>2. q.phase = k.phase
      BY <1>1 DEF Forget, ClientType
    <3>3. q.peers \subseteq k.peers
      BY <2>2, ForgetKept
    <3>4. Steady(k, q)
      BY <2>2, ForgetKept
    <3> QED BY <3>1, <3>2, <3>3, <3>4
  <2>4. \/ a = Silent(k)
        \/ a = Silent(q) /\ ~(k.phase = "ready" /\ q.peers = {})
        \/ k.phase = "ready" /\ q.peers = {} /\ a = T!EnterLobby(q)
    <3>1. T!Forget(k, m.username) = q /\ T!Silent(q) = Silent(q) /\ T!Silent(k) = Silent(k)
      BY TerminalSame
    <3> HIDE DEF q
    <3> QED BY <2>1, <3>1 DEF T!OnPeerLeft
  <2> HIDE DEF q
  <2>5. CASE a = Silent(k)
    BY <1>2, <1>8, <2>5 DEF InTurn
  <2>6. CASE a = Silent(q) /\ ~(k.phase = "ready" /\ q.peers = {})
    <3>1. k.lobby = Null
      BY <2>3, <2>6 DEF Whole
    <3>2. Calm(k, k.phase, a)
      <4>1. [type |-> "none"].type \notin {"create", "join"}
        OBVIOUS
      <4> QED BY <2>3, <2>6, <4>1, CalmAnswer
    <3>3. Keeps(k, a)
      BY <3>1, <3>2, CalmKeeps
    <3> QED BY <1>8, <3>2, <3>3 DEF InTurn, Calm
  <2>7. CASE k.phase = "ready" /\ q.peers = {} /\ a = T!EnterLobby(q)
    <3>1. Keeps(q, a) /\ a.client.phase = "ready" /\ Asks(a.sends) = {}
      BY <2>3, <2>7, EnterLobbyWhole
    <3>2. q.reconnect = k.reconnect
      BY <2>3 DEF Steady
    <3> QED BY <1>8, <3>1, <3>2 DEF InTurn, Keeps
  <2> QED BY <2>4, <2>5, <2>6, <2>7
<1>9. CASE m.type = "rekeyed" /\ k.phase # "joining"
  <2>1. a = T!OnRekeyed(k)
    BY <1>9 DEF T!Reactions
  <2> DEFINE q == [k EXCEPT !.phase = "waiting", !.session = k.lobby, !.lobby = Null]
  <2>2. a = Silent(k) \/ (k.lobby # Null /\ a = Silent(q))
    BY <2>1, TerminalSame DEF T!OnRekeyed, Silent, Answer
  <2>3. ASSUME k.lobby # Null
        PROVE  /\ q.session = k.lobby /\ q.lobby = Null /\ q.phase = "waiting"
               /\ q.peers = k.peers /\ q.reconnect = k.reconnect
    BY <1>1 DEF ClientType
  <2> HIDE DEF q
  <2>4. ASSUME k.lobby # Null PROVE Keeps(k, Silent(q)) /\ q.phase = "waiting"
    BY <2>3, <2>4 DEF Whole, CanRotate, Keeps, Silent, Answer
  <2>5. Silent(q).client = q /\ Asks(Silent(q).sends) = {}
    BY DEF Silent, Answer, Asks
  <2> QED BY <1>2, <1>9, <2>2, <2>4, <2>5 DEF InTurn
<1>10. CASE m.type = "error" /\ k.phase # "joining"
  <2>1. a = T!OnError(k, m)
    BY <1>10 DEF T!Reactions
  <2> DEFINE q == T!Ended(k)
  <2>2. a = Silent(k) \/ a = Silent(q)
    BY <2>1, TerminalSame DEF T!OnError, Silent, Answer
  <2>3. q.phase = "gone" /\ q.reconnect = k.reconnect
    BY <1>1 DEF T!Ended, ClientType
  <2> HIDE DEF q
  <2>4. Keeps(k, Silent(q)) /\ Asks(Silent(q).sends) = {} /\ Silent(q).client = q
    BY <2>3 DEF Keeps, Whole, Silent, Answer, Asks
  <2> QED BY <1>2, <1>10, <2>2, <2>3, <2>4 DEF InTurn
<1> QED BY <1>1, <1>4, <1>5, <1>6, <1>7, <1>8, <1>9, <1>10, FrameTypes

(* A web client left alone replaces its session at once.                   *)
LEMMA LobbyTransitionWhole ==
  ASSUME NEW c \in Conn, NEW k, ClientOK(c, k), k.peers = {}, k.lobby = Null
  PROVE  Keeps(k, W!DoLobbyTransition(k))
<1> DEFINE s == Fresh(<<k.session.sid[1], k.sessions>>)
           l == ClaimBuilt(s)
           n == k.sessions + 1
           q == [k EXCEPT !.session = l, !.sessions = n,
                          !.chainsExpected = 0, !.chainsReceived = 0, !.rekeying = TRUE]
           f == RekeyFrame(s)
<1>1. k \in ClientType
  BY DEF ClientOK
<1>2. s \in SessionType /\ ~s.disposed
  <2>1. <<k.session.sid[1], k.sessions>> \in Sid
    BY DEF ClientOK, ClientType, Sid
  <2> QED BY <2>1, FreshFields
<1>3. ~l.disposed
  BY <1>2, ClaimFields
<1>4. W!DoLobbyTransition(k) = Answer(q, <<f>>)
  BY WebSame DEF W!DoLobbyTransition
<1> HIDE DEF l, f, n
<1>5. q.session = l /\ q.peers = k.peers /\ q.lobby = k.lobby /\ q.reconnect = k.reconnect
  BY <1>1 DEF ClientType
<1> HIDE DEF q
<1>6. Keeps(k, Answer(q, <<f>>))
  BY <1>3, <1>5 DEF Keeps, Answer, Whole, CanRotate
<1> QED BY <1>4, <1>6

(* The web client, whatever it is told while it is connected.              *)
LEMMA WebStays ==
  ASSUME NEW S, NEW P, NEW B, NEW c \in Conn, NEW k, ClientOK(c, k), Keys(S, P, B),
         S[c] = k.session, InBrowser(c), NEW m, Arrives(c, P, B, m),
         NEW a \in W!Reactions(k, m), Whole(k), k.phase \in {"joining", "waiting", "ready"}
  PROVE  Keeps(k, a)
<1>1. /\ m \in DownFrame(c) /\ k \in ClientType /\ Numbered(k.session)
      /\ k.session \in SessionType /\ k.lobby = Null
  BY DEF Arrives, Keys, ClientOK, ClientType, SessionsOK
<1>2. Keeps(k, Silent(k)) /\ W!Silent(k) = Silent(k)
  BY WebSame DEF Keeps, Silent, Answer
<1>3. ASSUME NEW q, Steady(k, q), NEW f PROVE Keeps(k, Silent(q)) /\ Keeps(k, Answer(q, f))
  BY <1>1, <1>3 DEF Keeps, Whole, Steady, Silent, Answer
<1>4. ASSUME NEW p, Calm(k, p, a) PROVE Keeps(k, a)
  BY <1>1, <1>4, CalmKeeps
<1>5. CASE m.type = "room_created"
  <2>1. a = W!Answer(k, <<W!JoinFrame(m.roomId)>>)
    BY <1>5 DEF W!Reactions
  <2> QED BY <2>1 DEF W!Answer, Keeps
<1>6. CASE m.type = "joined"
  <2>1. PICK q \in W!SetToSeqs(m.members) : a = W!OnJoined(k, q)
    BY <1>6 DEF W!Reactions
  <2>2. m.members \in SUBSET MemberType /\ IsFiniteSet(m.members)
    BY <1>1, <1>6, FrameFields
  <2>3. q \in SetToSeqs(m.members)
    BY <2>1 DEF W!SetToSeqs, SetToSeqs, W!Cardinality, Cardinality
  <2>4. q \in Seq(MemberType)
    BY <2>2, <2>3, MembersInAnyOrder
  <2>5. Steady(k, a.client)
    BY <2>1, <2>4, OnJoinedLawful
  <2> QED BY <1>1, <2>5 DEF Keeps, Whole, Steady
<1>7. CASE m.type = "peer_joined"
  <2> DEFINE r == Meet(k, m)
             n == r.chainsExpected + 1
             q == [r EXCEPT !.chainsExpected = n, !.phase = "joining"]
  <2>1. a = W!OnPeerJoined(k, m)
    BY <1>7 DEF W!Reactions
  <2>2. /\ m.username \in Name /\ m.ek \in SealKey /\ m.ratchetEk \in RatchetKey
        /\ m.claim \in ClaimEntry
    BY <1>1, <1>7, FrameFields
  <2>3. \/ a = Silent(k) \/ a = Answer(q, <<SeedFrame(k, m)>>)
        \/ a = Answer(r, <<SeedFrame(k, m)>>)
    BY <2>1, WebSame DEF W!OnPeerJoined
  <2>4. MetBy(c, k, m.username, r)
    BY <2>2, MeetFields
  <2>5. r \in ClientType /\ Steady(k, r)
    BY <2>4 DEF MetBy, ClientOK
  <2> HIDE DEF r
  <2>6. n \in Nat
    BY <2>5 DEF ClientType
  <2> HIDE DEF n
  <2>7. /\ q.session = r.session /\ q.peers = r.peers /\ q.lobby = r.lobby
        /\ q.reconnect = r.reconnect
    BY <2>5, <2>6 DEF ClientType
  <2> HIDE DEF q
  <2>8. Steady(k, q)
    BY <2>5, <2>7 DEF Steady, CanRotate
  <2> QED BY <1>2, <1>3, <2>3, <2>5, <2>8
<1>8. CASE m.type = "relay"
  <2> DEFINE k1 == [k EXCEPT !.session = UnwrapChainSeed(@, m.from, m.payload)]
  <2>1. a \in W!OnRelay(k, m)
    BY <1>8 DEF W!Reactions
  <2>2. m.from \in Name /\ m.payload \in SealedType
    BY <1>1, <1>8, FrameFields
  <2>3. a = Silent(k) \/ a = Silent(k1) \/ a \in CountSeed(k1)
    <3>1. W!CountSeed(k1) = CountSeed(k1)
      BY WebRotates
    <3> QED BY <2>1, <3>1, WebSame DEF W!OnRelay, Silent, Answer
  <2>4. ClientOK(c, k1) /\ Steady(k, k1)
    BY <2>2, UnwrapSteady
  <2> HIDE DEF k1
  <2>5. ASSUME a \in CountSeed(k1) PROVE Keeps(k, a)
    <3>1. Calm(k1, k1.phase, a) \/ Calm(k1, "ready", a)
      BY <2>4, <2>5, CountSeedCalm
    <3>2. Calm(k, k1.phase, a) \/ Calm(k, "ready", a)
      BY <2>4, <3>1, SteadyTwice DEF Calm
    <3> QED BY <1>4, <3>2
  <2> QED BY <1>2, <1>3, <2>3, <2>4, <2>5
<1>9. CASE m.type = "ratchet_step_fwd"
  <2>1. a = TakeStep(k, m) \/ a = Silent(k)
    BY <1>9, <1>2, WebRotates DEF W!Reactions, W!OnRatchetStepFwd
  <2>2. /\ m.from \in Name /\ m.newEk \in RatchetKey /\ m.claim \in ClaimEntry
        /\ m.payload \in StepType
    BY <1>1, <1>9, FrameFields
  <2>3. Calm(k, k.phase, TakeStep(k, m))
    BY <1>1, <2>2, TakeStepCalm
  <2> QED BY <1>2, <1>4, <2>1, <2>3
<1>10. CASE m.type = "ek_update_fwd"
  <2>1. a = Silent(TakeEk(k, m)) \/ a = Silent(k)
    <3>1. a = W!OnEkUpdateFwd(k, m) /\ W!TakeEk(k, m) = TakeEk(k, m)
      BY <1>10, WebRotates DEF W!Reactions
    <3> QED BY <3>1, WebSame DEF W!OnEkUpdateFwd, Silent, Answer
  <2>2. m.from \in Name /\ m.ek \in RatchetKey /\ m.claim \in ClaimEntry
    BY <1>1, <1>10, FrameFields
  <2>3. Calm(k, k.phase, Silent(TakeEk(k, m)))
    BY <2>2, TakeEkCalm
  <2> QED BY <1>2, <1>4, <2>1, <2>3
<1>11. CASE m.type = "peer_left"
  <2> DEFINE q == Forget(k, m.username)
  <2>1. a = W!OnPeerLeft(k, m)
    BY <1>11 DEF W!Reactions
  <2>2. m.username \in Name
    BY <1>1, <1>11, FrameFields
  <2>3. ClientOK(c, q)
    BY <2>2, ForgetKept
  <2>4. Steady(k, q)
    BY <2>2, ForgetKept
  <2>5. \/ a = Silent(k) \/ a = Silent(q)
        \/ q.peers = {} /\ a = W!DoLobbyTransition(q)
    <3>1. W!Forget(k, m.username) = q /\ W!Silent(q) = Silent(q)
      BY WebSame
    <3> HIDE DEF q
    <3> QED BY <1>2, <2>1, <3>1 DEF W!OnPeerLeft
  <2> HIDE DEF q
  <2>6. ASSUME q.peers = {} PROVE Keeps(k, W!DoLobbyTransition(q))
    <3>1. q.lobby = Null /\ q.reconnect = k.reconnect
      BY <1>1, <2>4 DEF Steady
    <3>2. Keeps(q, W!DoLobbyTransition(q))
      BY <2>3, <2>6, <3>1, LobbyTransitionWhole
    <3> QED BY <3>1, <3>2 DEF Keeps
  <2> QED BY <1>2, <1>3, <2>4, <2>5, <2>6
<1>12. CASE m.type = "rekeyed"
  <2> DEFINE q == [k EXCEPT !.rekeying = FALSE, !.phase = "waiting"]
  <2>1. a = Silent(k) \/ a = Silent(q)
    BY <1>12, WebSame DEF W!Reactions, W!OnRekeyed, Silent, Answer
  <2>2. /\ q.session = k.session /\ q.peers = k.peers /\ q.lobby = k.lobby
        /\ q.reconnect = k.reconnect
    BY <1>1 DEF ClientType
  <2> HIDE DEF q
  <2>3. Steady(k, q)
    BY <2>2 DEF Steady, CanRotate
  <2> QED BY <1>2, <1>3, <2>1, <2>3
<1>13. CASE m.type = "error"
  <2> DEFINE q == W!OnError(k)
  <2>1. a = Silent(q)
    BY <1>13, WebSame DEF W!Reactions, Silent, Answer
  <2>2. q.phase = "gone" /\ q.reconnect = k.reconnect
    BY <1>1 DEF W!OnError, ClientType
  <2> HIDE DEF q
  <2> QED BY <2>1, <2>2 DEF Keeps, Whole, Silent, Answer
<1> QED BY <1>1, <1>5, <1>6, <1>7, <1>8, <1>9, <1>10, <1>11, <1>12, <1>13, FrameTypes

(* The grants among the frames for a client, as one is added or taken.     *)
LEMMA GrantAdded ==
  ASSUME NEW X, NEW fs \in Seq(X), NEW g \in X
  PROVE  /\ Grants(Append(fs, g)) \subseteq Grants(fs) \cup {Len(fs) + 1}
         /\ g.type \notin {"room_created", "joined"} => Grants(Append(fs, g)) = Grants(fs)
<1> DEFINE hs == Append(fs, g)
<1>1. /\ Len(fs) \in Nat /\ DOMAIN fs = 1 .. Len(fs) /\ DOMAIN hs = 1 .. Len(fs) + 1
      /\ hs[Len(fs) + 1] = g /\ \A i \in DOMAIN fs : hs[i] = fs[i]
  OBVIOUS
<1> HIDE DEF hs
<1>2. \A i \in DOMAIN hs : i \in DOMAIN fs \/ i = Len(fs) + 1
  BY <1>1
<1>3. \A i \in DOMAIN fs : i \in DOMAIN hs
  BY <1>1
<1>4. Grants(hs) \subseteq Grants(fs) \cup {Len(fs) + 1}
  BY <1>1, <1>2 DEF Grants
<1>5. g.type \notin {"room_created", "joined"} => Grants(hs) = Grants(fs)
  BY <1>1, <1>2, <1>3 DEF Grants
<1> QED BY <1>4, <1>5 DEF hs

LEMMA GrantTaken ==
  ASSUME NEW X, NEW fs \in Seq(X), fs # <<>>
  PROVE  /\ Head(fs).type \in {"room_created", "joined"} => 1 \in Grants(fs)
         /\ \A i \in Grants(Tail(fs)) : i \in Nat \ {0} /\ i + 1 \in Grants(fs)
         /\ Head(fs).type \in {"create", "join"} => 1 \in Asks(fs)
         /\ \A i \in Asks(Tail(fs)) : i + 1 \in Asks(fs)
<1> DEFINE hs == Tail(fs)
<1>1. /\ Len(fs) \in Nat /\ DOMAIN fs = 1 .. Len(fs) /\ DOMAIN hs = 1 .. Len(fs) - 1
      /\ Head(fs) = fs[1] /\ 1 \in DOMAIN fs
  OBVIOUS
<1>2. \A i \in DOMAIN hs : hs[i] = fs[i + 1]
  OBVIOUS
<1> HIDE DEF hs
<1>3. \A i \in DOMAIN hs : i \in Nat \ {0} /\ i + 1 \in DOMAIN fs
  BY <1>1
<1>4. \A i \in Grants(hs) : i \in Nat \ {0} /\ i + 1 \in Grants(fs)
  BY <1>2, <1>3 DEF Grants
<1>5. \A i \in Asks(hs) : i + 1 \in Asks(fs)
  BY <1>2, <1>3 DEF Asks
<1> QED BY <1>1, <1>4, <1>5 DEF hs, Grants, Asks

LEMMA NoGrants == Grants(<<>>) = {} /\ Asks(<<>>) = {}
BY DEF Grants, Asks

(* A room is granted to the one that asked.                                *)
LEMMA RepliesOnly ==
  ASSUME NEW c \in Conn, NEW m, m.type \in {"create", "join"}, Dispatch(c, m),
         NEW d \in Conn, d # c, IsOn(out)
  PROVE  out'[d] = out[d]
<1>1. HandleCreate(c, m) \/ HandleJoin(c, m)
  BY DEF Dispatch
<1>2. ASSUME NEW g, Reply(c, g) PROVE out'[d] = out[d]
  BY <1>2 DEF Reply, IsOn
<1>3. ASSUME NEW why, Error(c, why) PROVE out'[d] = out[d]
  BY <1>2, <1>3 DEF Error
<1>4. ASSUME WrongVersion(c, m) PROVE out'[d] = out[d]
  BY <1>3, <1>4 DEF WrongVersion
<1>5. CASE HandleCreate(c, m)
  BY <1>2, <1>3, <1>4, <1>5 DEF HandleCreate
<1>6. CASE HandleJoin(c, m)
  BY <1>2, <1>3, <1>4, <1>6 DEF HandleJoin
<1> QED BY <1>1, <1>5, <1>6

(* What a server's step adds to the grants: at most one, for an ask, and   *)
(* only for the one that asked.                                            *)
LEMMA GrantsRelayed ==
  ASSUME NEW m, Relayed(m), NEW d \in Conn, out[d] \in Seq(DownFrame(d))
  PROVE  /\ Grants(out'[d]) \subseteq Grants(out[d]) \cup {Len(out[d]) + 1}
         /\ m.type \notin {"create", "join"} => Grants(out'[d]) = Grants(out[d])
<1>1. CASE out'[d] = out[d]
  BY <1>1
<1>2. ASSUME NEW g, Carried(m, d, g), out'[d] = Append(out[d], g)
      PROVE  /\ Grants(out'[d]) \subseteq Grants(out[d]) \cup {Len(out[d]) + 1}
             /\ m.type \notin {"create", "join"} => Grants(out'[d]) = Grants(out[d])
  <2>1. g \in DownFrame(d) /\ (g.type \in {"room_created", "joined"} => m.type \in {"create", "join"})
    BY <1>2 DEF Carried
  <2> QED BY <1>2, <2>1, GrantAdded
<1> QED BY <1>1, <1>2 DEF Relayed

(* What there is to show of a connection after a step.                     *)
LEMMA OrderedNext ==
  ASSUME NEW c \in Conn, UNCHANGED web, client'[c].reconnect => Resumes # "never",
         Whole(client'[c]), ~InBrowser(c) => OneEntry(client'[c], up'[c], out'[c])
  PROVE  Ordered(c)'
BY DEF Ordered, OneEntry, Whole, CanRotate, InBrowser, Asks, Grants

(* A step that passes a connection by, or only drops frames for it.        *)
LEMMA PassedBy ==
  ASSUME NEW c \in Conn, Ordered(c), UNCHANGED web, client'[c] = client[c],
         up'[c] = up[c], Grants(out'[c]) \subseteq Grants(out[c])
  PROVE  Ordered(c)'
<1>1. ~InBrowser(c) => OneEntry(client'[c], up'[c], out'[c])
  BY DEF Ordered, OneEntry
<1>2. (client'[c].reconnect => Resumes # "never") /\ Whole(client'[c])
  BY DEF Ordered
<1> QED BY <1>1, <1>2, OrderedNext

(* A connection is closed with frames unread.                              *)
LEMMA LoseOrdered ==
  ASSUME RotateInv, NEW c \in Conn, Lose(c), UNCHANGED <<up, client, web>>, NEW d \in Conn
  PROVE  Ordered(d)'
<1>1. out' = [out EXCEPT ![c] = <<>>] /\ IsOn(out) /\ Ordered(d)
  BY TypesNow DEF Lose, RotateInv
<1>2. out'[d] = out[d] \/ out'[d] = <<>>
  BY <1>1 DEF IsOn
<1>3. Grants(out'[d]) \subseteq Grants(out[d])
  BY <1>2, NoGrants
<1> QED BY <1>1, <1>3, PassedBy

(* The server handles a frame: the grant answers the only ask.             *)
LEMMA ServeOrdered ==
  ASSUME RotateInv, NEW c \in Conn, Serve(c), NEW d \in Conn
  PROVE  Ordered(d)'
<1> DEFINE m == Head(up[c])
           fs == Tail(up[c])
<1>1. /\ KeyInv /\ Ordered(d) /\ up[c] # <<>> /\ up[c] \in Seq(UpFrame(c)) /\ Held
      /\ IsOn(out) /\ IsOn(up) /\ out[d] \in Seq(DownFrame(d))
  BY TypesNow DEF Serve, RotateInv
<1>2. /\ m \in UpFrame(c)
      /\ m.type \in {"create", "join"} => 1 \in Asks(up[c])
      /\ \A i \in Asks(fs) : i + 1 \in Asks(up[c])
  BY <1>1, FrameTaken, GrantTaken
<1>3. Dispatch(c, m) /\ up' = [up EXCEPT ![c] = fs] /\ UNCHANGED <<client, web>>
  BY DEF Serve
<1>4. Len(up[c]) = 1 => fs = <<>>
  <2>1. fs \in Seq(UpFrame(c)) /\ (Len(up[c]) = 1 => Len(fs) = 0)
    BY <1>1
  <2> QED BY <2>1, EmptySeq
<1> HIDE DEF m, fs
<1>5. /\ Grants(out'[d]) \subseteq Grants(out[d]) \cup {Len(out[d]) + 1}
      /\ m.type \notin {"create", "join"} => Grants(out'[d]) = Grants(out[d])
  <2>1. Relayed(m)
    BY <1>1, <1>2, <1>3, DispatchRelayed
  <2> QED BY <1>1, <2>1, GrantsRelayed
<1>6. up'[c] = fs /\ (d # c => up'[d] = up[d])
  BY <1>1, <1>3 DEF IsOn
<1>7. CASE d # c
  <2>1. m.type \in {"create", "join"} => out'[d] = out[d]
    BY <1>1, <1>3, <1>7, RepliesOnly
  <2>2. Grants(out'[d]) \subseteq Grants(out[d])
    BY <1>5, <2>1
  <2> QED BY <1>1, <1>3, <1>6, <1>7, <2>2, PassedBy
<1>8. CASE d = c
  <2> DEFINE k == client[c]
  <2>1. ASSUME ~InBrowser(c) PROVE OneEntry(k, fs, out'[c])
    <3>1. OneEntry(k, up[c], out[c])
      BY <1>1, <1>8, <2>1 DEF Ordered
    <3>2. CASE k.phase = "joining"
      <4>1. Len(up[c]) = 1 /\ Grants(out[c]) = {}
        BY <1>1, <3>1, <3>2 DEF OneEntry
      <4>2. Grants(out'[c]) \subseteq {Len(out[c]) + 1}
        BY <1>5, <1>8, <4>1
      <4> QED BY <1>4, <3>1, <3>2, <4>1, <4>2 DEF OneEntry
    <3>3. CASE k.phase \in {"waiting", "ready"}
      <4>1. Asks(up[c]) = {} /\ Grants(out[c]) = {}
        BY <3>1, <3>3 DEF OneEntry
      <4>2. Asks(fs) = {} /\ Grants(out'[c]) = {}
        BY <1>2, <1>5, <1>8, <4>1
      <4> QED BY <3>1, <3>3, <4>2 DEF OneEntry
    <3>4. k.phase # "landing"
      BY <1>1, <3>1 DEF OneEntry
    <3> QED BY <3>1, <3>2, <3>3, <3>4 DEF OneEntry
  <2> QED BY <1>1, <1>3, <1>6, <1>8, <2>1, OrderedNext DEF Ordered
<1> QED BY <1>7, <1>8

(* The server notices that a connection has ended.                         *)
LEMMA HangupOrdered ==
  ASSUME RotateInv, NEW c \in Conn, Hangup(c), NEW d \in Conn
  PROVE  Ordered(d)'
<1> DEFINE m == [type |-> "close"]
<1>1. /\ KeyInv /\ Ordered(d) /\ Held /\ IsOn(out) /\ IsOn(up)
      /\ out[d] \in Seq(DownFrame(d))
  BY TypesNow DEF RotateInv
<1>2. /\ HandleClose(c) /\ up' = [up EXCEPT ![c] = <<>>] /\ UNCHANGED <<client, web>>
      /\ client[c].phase \in {"gone", "lost"}
  BY DEF Hangup
<1>3. m.type \notin {"create", "join"}
  OBVIOUS
<1> HIDE DEF m
<1>4. Relayed(m)
  BY <1>1, <1>2, CloseRelayed
<1>5. Grants(out'[d]) \subseteq Grants(out[d])
  BY <1>1, <1>3, <1>4, GrantsRelayed
<1>6. up'[d] = up[d] \/ d = c
  BY <1>1, <1>2 DEF IsOn
<1>7. CASE d = c
  <2>1. ~InBrowser(c) => OneEntry(client'[c], up'[c], out'[c])
    BY <1>1, <1>2, <1>7 DEF Ordered, OneEntry
  <2> QED BY <1>1, <1>2, <1>7, <2>1, OrderedNext DEF Ordered
<1> QED BY <1>1, <1>2, <1>5, <1>6, <1>7, PassedBy

(* One client takes an answer while the others look on.                    *)
LEMMA TakeOrdered ==
  ASSUME RotateInv, NEW c \in Conn, NEW a, Take(c, a), up[c] = <<>>,
         a.sends \in Seq(UpFrame(c)), UNCHANGED web, Keeps(client[c], a),
         ~InBrowser(c) => OneEntry(a.client, a.sends, out'[c]),
         \A d \in Conn : d # c => out'[d] = out[d],
         NEW d \in Conn
  PROVE  Ordered(d)'
<1>1. Ordered(d) /\ IsOn(up) /\ IsOn(client)
  BY TypesNow DEF RotateInv
<1>2. /\ client'[c] = a.client /\ up'[c] = up[c] \o a.sends
      /\ d # c => client'[d] = client[d] /\ up'[d] = up[d]
  BY <1>1 DEF Take, IsOn
<1>3. up'[c] = a.sends
  BY <1>2
<1>4. CASE d = c
  BY <1>1, <1>2, <1>3, <1>4, OrderedNext DEF Keeps, Ordered
<1>5. CASE d # c
  BY <1>1, <1>2, <1>5, PassedBy
<1> QED BY <1>4, <1>5

(* The user rotates.                                                       *)
LEMMA RotateOrdered ==
  ASSUME RotateInv, NEW c \in Conn, Rotate(c), NEW d \in Conn
  PROVE  Ordered(d)'
<1> DEFINE k == client[c]
<1>1. PICK a \in RotateKeys(k) : Take(c, a)
  BY DEF Rotate
<1>2. /\ KeyInv /\ Ordered(c) /\ k.phase = "ready" /\ k.peers # {} /\ up[c] = <<>>
      /\ UNCHANGED out /\ UNCHANGED web
  BY DEF Rotate, RotateInv, vars
<1>3. ClientOK(c, k) /\ Keys(Sessions, UnderWay, Sealed) /\ Sessions[c] = k.session
  BY <1>2, OnlineOK, TypesNow
<1> HIDE DEF k
<1>4. Calm(k, k.phase, a)
  BY <1>1, <1>3, RotateCalm
<1>5. Lawful(c, Sessions, UnderWay, Sealed, a)
  BY <1>1, <1>3, RotateLawful
<1>6. Whole(k) /\ (~InBrowser(c) => OneEntry(k, up[c], out[c]))
  BY <1>2 DEF Ordered, k
<1>7. Keeps(k, a)
  BY <1>2, <1>4, <1>6 DEF Calm, Keeps, Steady, Whole
<1>8. ~InBrowser(c) => OneEntry(a.client, a.sends, out'[c])
  BY <1>2, <1>4, <1>6, <1>7 DEF OneEntry, Calm, Keeps
<1>9. a.sends \in Seq(UpFrame(c))
  BY <1>5 DEF Lawful
<1> QED BY <1>1, <1>2, <1>7, <1>8, <1>9, TakeOrdered DEF k

(* A client loses its connection or leaves: it rotates no more.            *)
LEMMA DisconnectOrdered ==
  ASSUME RotateInv, NEW c \in Conn, Disconnect(c), NEW d \in Conn
  PROVE  Ordered(d)'
<1> DEFINE k == client[c]
           q == IF InBrowser(c) THEN W!OnWsClose(k) ELSE T!Ended(k)
<1>1. /\ k.phase # "landing" /\ UNCHANGED out /\ UNCHANGED web /\ UNCHANGED up
      /\ client' = [client EXCEPT ![c] = q] /\ IsOn(client) /\ KeyInv
      /\ Ordered(c) /\ Ordered(d)
  BY TypesNow DEF Disconnect, Online, RotateInv, vars
<1>2. k \in ClientType
  BY <1>1, OnlineOK DEF ClientOK
<1>3. /\ q.phase \in {"gone", "lost"} /\ q.reconnect = k.reconnect
      /\ ~InBrowser(c) => q.phase = "gone"
  <2>1. W!OnError(k).phase = "gone" /\ W!OnError(k).reconnect = k.reconnect
    BY <1>2 DEF W!OnError, ClientType
  <2>2. /\ W!OnWsClose(k).phase \in {"gone", "lost"}
        /\ W!OnWsClose(k).reconnect = k.reconnect
    BY <1>2, <2>1 DEF W!OnWsClose, ClientType
  <2>3. T!Ended(k).phase = "gone" /\ T!Ended(k).reconnect = k.reconnect
    BY <1>2 DEF T!Ended, ClientType
  <2> HIDE DEF k
  <2> QED BY <2>2, <2>3
<1> HIDE DEF q
<1>4. client'[c] = q /\ (d # c => client'[d] = client[d])
  BY <1>1 DEF IsOn
<1>5. CASE d = c
  <2>1. Whole(q)
    BY <1>3 DEF Whole
  <2>2. ~InBrowser(c) => OneEntry(q, up'[c], out'[c])
    BY <1>1, <1>3 DEF OneEntry, Ordered
  <2>3. q.reconnect => Resumes # "never"
    BY <1>1, <1>3 DEF Ordered
  <2> QED BY <1>1, <1>4, <1>5, <2>1, <2>2, <2>3, OrderedNext
<1>6. CASE d # c
  BY <1>1, <1>4, <1>6, PassedBy
<1> QED BY <1>5, <1>6

(* A client reads a frame; a terminal client a grant, at most once.        *)
LEMMA ReadOrdered ==
  ASSUME RotateInv, NEW c \in Conn, Read(c), NEW d \in Conn
  PROVE  Ordered(d)'
<1> DEFINE k == client[c]
           m == Head(out[c])
           told == Tail(out[c])
<1>1. PICK a \in Reactions(c, m) : Take(c, a)
  BY DEF Read
<1>2. /\ KeyInv /\ Ordered(c) /\ k.phase \in {"joining", "waiting", "ready"}
      /\ up[c] = <<>> /\ UNCHANGED web /\ out[c] # <<>> /\ out' = [out EXCEPT ![c] = Tail(@)]
  BY DEF Read, Online, Deliver, RotateInv
<1>3. /\ ClientOK(c, k) /\ Keys(Sessions, UnderWay, Sealed) /\ Sessions[c] = k.session
      /\ Arrives(c, UnderWay, Sealed, m) /\ Lawful(c, Sessions, UnderWay, Sealed, a)
  BY <1>1, <1>2, ReadLawful
<1>4. out[c] \in Seq(DownFrame(c)) /\ IsOn(out)
  BY <1>2, TypesNow
<1>5. /\ m.type \in {"room_created", "joined"} => 1 \in Grants(out[c])
      /\ \A i \in Grants(told) : i \in Nat \ {0} /\ i + 1 \in Grants(out[c])
  BY <1>2, <1>4, GrantTaken
<1>6. out'[c] = told /\ \A x \in Conn : x # c => out'[x] = out[x]
  BY <1>2, <1>4 DEF IsOn
<1>7. a.sends \in Seq(UpFrame(c))
  BY <1>3 DEF Lawful
<1>8. Whole(k) /\ (~InBrowser(c) => OneEntry(k, <<>>, out[c]))
  BY <1>2 DEF Ordered
<1>9. CASE InBrowser(c)
  <2>1. a \in W!Reactions(k, m)
    BY <1>1, <1>9 DEF Reactions
  <2> HIDE DEF k, m
  <2>2. Keeps(k, a)
    BY <1>2, <1>3, <1>8, <1>9, <2>1, WebStays
  <2> QED BY <1>1, <1>2, <1>6, <1>7, <1>9, <2>2, TakeOrdered DEF k
<1>10. CASE ~InBrowser(c)
  <2>1. a \in T!Reactions(k, m)
    BY <1>1, <1>10 DEF Reactions
  <2> HIDE DEF k, m, told
  <2>2. OneEntry(k, <<>>, out[c])
    BY <1>8, <1>10
  <2>3. m.type \in {"room_created", "joined"} => k.phase = "joining"
    BY <1>2, <1>5, <2>2 DEF OneEntry
  <2>4. Keeps(k, a) /\ InTurn(k, m, a)
    BY <1>2, <1>3, <1>8, <1>10, <2>1, <2>2, <2>3, TerminalStays DEF OneEntry
  <2>5. ~a.client.reconnect
    BY <2>2, <2>4 DEF Keeps, OneEntry
  <2>6. k.phase = "joining" => \A i, j \in Grants(out[c]) : i = j
    BY <2>2 DEF OneEntry
  <2>7. k.phase # "joining" => Grants(told) = {}
    BY <1>2, <1>5, <2>2 DEF OneEntry
  <2>8. \A i, j \in Grants(told) : i = j
    <3>1. ASSUME NEW i \in Grants(told), NEW j \in Grants(told) PROVE i = j
      <4>1. i \in Nat /\ j \in Nat /\ i + 1 \in Grants(out[c]) /\ j + 1 \in Grants(out[c])
        BY <1>5
      <4>2. i + 1 = j + 1
        BY <2>6, <2>7, <4>1
      <4> QED BY <4>1, <4>2
    <3> QED BY <3>1
  <2>9. m.type \in {"room_created", "joined"} => Grants(told) = {}
    <3>1. ASSUME m.type \in {"room_created", "joined"}, NEW i \in Grants(told) PROVE FALSE
      <4>1. i \in Nat \ {0} /\ i + 1 \in Grants(out[c]) /\ 1 \in Grants(out[c])
        BY <1>5, <3>1
      <4>2. i + 1 = 1
        BY <2>3, <2>6, <3>1, <4>1
      <4> QED BY <4>1, <4>2
    <3> QED BY <3>1
  <2>10. OneEntry(a.client, a.sends, told)
    <3>1. CASE m.type = "room_created"
      BY <2>3, <2>4, <2>5, <2>9, <3>1 DEF InTurn, OneEntry
    <3>2. CASE m.type = "joined"
      BY <2>4, <2>5, <2>9, <3>2 DEF InTurn, OneEntry
    <3>3. CASE m.type \notin {"room_created", "joined"} /\ k.phase = "joining"
      BY <2>4, <2>5, <2>8, <3>3 DEF InTurn, OneEntry, Silent, Answer
    <3>4. CASE m.type \notin {"room_created", "joined"} /\ k.phase # "joining"
      BY <2>4, <2>5, <2>7, <3>4 DEF InTurn, OneEntry
    <3> QED BY <3>1, <3>2, <3>3, <3>4
  <2> QED BY <1>1, <1>2, <1>6, <1>7, <1>10, <2>4, <2>10, TakeOrdered DEF k
<1> QED BY <1>9, <1>10

(* A connection as it is dialled can rotate: it knows no peers, unless it  *)
(* resumes.                                                                *)
LEMMA StartWhole ==
  ASSUME NEW c \in Conn, NEW q,
         \/ q = Start(<<c, 0>>, UserOf[c])
         \/ \E k \in ClientType : q = W!AttemptReconnect(Start(<<c, 0>>, UserOf[c]), k)
  PROVE  LET j == [q EXCEPT !.phase = "joining"] IN
         /\ Whole(j) /\ j.phase = "joining"
         /\ j.reconnect <=> q # Start(<<c, 0>>, UserOf[c])
<1> DEFINE s == Fresh(<<c, 0>>)
           b == Start(<<c, 0>>, UserOf[c])
           j == [q EXCEPT !.phase = "joining"]
           n == UserOf[c]
           X == [phase : {"landing", "joining"}, name : {n}, session : {s},
                 sessions : {1}, peers : SUBSET Name, chainsExpected : Nat,
                 chainsReceived : Nat, lobby : {Null}, rekeying : BOOLEAN,
                 reconnect : BOOLEAN]
<1>1. <<c, 0>> \in Sid
  BY DEF Sid
<1>2. ~s.disposed
  BY <1>1, FreshFields
<1>3. b = [phase |-> "landing", name |-> n, session |-> s, sessions |-> 1,
           peers |-> {}, chainsExpected |-> 0, chainsReceived |-> 0,
           lobby |-> Null, rekeying |-> FALSE, reconnect |-> FALSE]
  BY DEF Start
<1> HIDE DEF s, b, n
<1>4. b \in X /\ b.peers = {} /\ ~b.reconnect
  BY <1>3
<1>5. \/ q = b
      \/ \E k \in ClientType : q = W!AttemptReconnect(b, k)
  BY DEF b
<1>6. q \in X /\ (q.reconnect <=> q # b) /\ (q = b => q.peers = {})
  <2>1. ASSUME NEW k \in ClientType, q = W!AttemptReconnect(b, k)
        PROVE  q \in X /\ q.reconnect
    <3>1. k.peers \in SUBSET Name /\ k.rekeying \in BOOLEAN
      BY DEF ClientType
    <3>2. q = [b EXCEPT !.peers = k.peers, !.reconnect = TRUE, !.rekeying = k.rekeying]
      BY <2>1 DEF W!AttemptReconnect
    <3> QED BY <1>4, <3>1, <3>2
  <2> QED BY <1>4, <1>5, <2>1
<1>7. /\ j.phase = "joining" /\ j.reconnect = q.reconnect /\ j.peers = q.peers
      /\ j.session = s /\ j.lobby = Null
  BY <1>6
<1> HIDE DEF j, X
<1>8. Whole(j)
  BY <1>2, <1>6, <1>7 DEF Whole, CanRotate
<1> QED BY <1>6, <1>7, <1>8 DEF j, b

(* A connection is opened; only a web client resumes.                      *)
LEMMA BeginOrdered ==
  ASSUME RotateInv, NEW c \in Conn, client[c].phase = "landing",
         NEW q, \/ q = client[c]
                \/ /\ \E k \in ClientType : q = W!AttemptReconnect(client[c], k)
                   /\ InBrowser(c) /\ Resumes # "never",
         NEW frame, Begin(c, q, frame), UNCHANGED out, UNCHANGED web, NEW d \in Conn
  PROVE  Ordered(d)'
<1> DEFINE j == [q EXCEPT !.phase = "joining"]
<1>1. /\ KeyInv /\ Ordered(c) /\ Ordered(d) /\ IsOn(client) /\ IsOn(up)
      /\ client[c] = Start(<<c, 0>>, UserOf[c])
  BY LandingOK, TypesNow DEF RotateInv
<1>2. Whole(j) /\ j.phase = "joining" /\ (j.reconnect <=> q # client[c])
  BY <1>1, StartWhole
<1> HIDE DEF j
<1>3. /\ client'[c] = j /\ up'[c] = up[c] \o <<frame>>
      /\ d # c => up'[d] = up[d]
      /\ d # c => \/ client'[d] = client[d]
                  \/ client[d].phase = "lost" /\ client'[d] = [client[d] EXCEPT !.phase = "gone"]
  BY <1>1 DEF Begin, IsOn, j
<1>4. CASE d = c
  <2>1. ASSUME ~InBrowser(c) PROVE OneEntry(j, up'[c], out'[c])
    <3>1. up[c] = <<>> /\ Grants(out[c]) = {} /\ ~j.reconnect
      BY <1>1, <1>2, <2>1 DEF Ordered, OneEntry
    <3>2. Len(up'[c]) = 1
      BY <1>3, <3>1
    <3> QED BY <1>2, <3>1, <3>2 DEF OneEntry
  <2>2. j.reconnect => Resumes # "never"
    BY <1>2
  <2> QED BY <1>2, <1>3, <1>4, <2>1, <2>2, OrderedNext
<1>5. CASE d # c /\ client'[d] = client[d]
  BY <1>1, <1>3, <1>5, PassedBy
<1>6. CASE d # c /\ client[d].phase = "lost" /\ client'[d] = [client[d] EXCEPT !.phase = "gone"]
  <2>1. client[d] \in ClientType
    BY <1>1, <1>6, OnlineOK DEF ClientOK
  <2>2. client'[d].phase = "gone" /\ client'[d].reconnect = client[d].reconnect
    BY <1>6, <2>1 DEF ClientType
  <2>3. InBrowser(d)
    BY <1>1, <1>6 DEF Ordered, OneEntry
  <2>4. Whole(client'[d])
    BY <2>2 DEF Whole
  <2> QED BY <1>1, <2>2, <2>3, <2>4, OrderedNext DEF Ordered
<1> QED BY <1>3, <1>4, <1>5, <1>6

LEMMA DialOrdered ==
  ASSUME RotateInv, NEW c \in Conn, Dial(c), NEW d \in Conn
  PROVE  Ordered(d)'
<1>1. client[c].phase = "landing" /\ UNCHANGED out /\ UNCHANGED web
  BY DEF Dial, Open
<1>2. CASE Begin(c, client[c], CreateFrame)
  BY <1>1, <1>2, BeginOrdered
<1>3. ASSUME NEW r \in DOMAIN rooms,
             \/ Begin(c, client[c], JoinFrame(r))
             \/ \E e \in Conn :
                  /\ UserOf[e] = UserOf[c] /\ MayResume(e)
                  /\ Begin(c, W!AttemptReconnect(client[c], client[e]), JoinFrame(r))
      PROVE  Ordered(d)'
  <2>1. CASE Begin(c, client[c], JoinFrame(r))
    BY <1>1, <2>1, BeginOrdered
  <2>2. ASSUME NEW e \in Conn, UserOf[e] = UserOf[c], MayResume(e),
               Begin(c, W!AttemptReconnect(client[c], client[e]), JoinFrame(r))
        PROVE  Ordered(d)'
    <3>1. client[e].phase = "lost" /\ Resumes # "never"
      BY <2>2 DEF MayResume
    <3>2. client[e] \in ClientType
      BY <3>1, OnlineOK DEF ClientOK, RotateInv
    <3>3. InBrowser(c)
      BY <2>2, <3>1 DEF RotateInv, Ordered, OneEntry, InBrowser
    <3> DEFINE q == W!AttemptReconnect(client[c], client[e])
    <3>4. \E k \in ClientType : q = W!AttemptReconnect(client[c], k)
      BY <3>2
    <3> HIDE DEF q
    <3>5. Begin(c, q, JoinFrame(r))
      BY <2>2 DEF q
    <3> QED BY <1>1, <3>1, <3>3, <3>4, <3>5, BeginOrdered
  <2> QED BY <1>3, <2>1, <2>2
<1> QED BY <1>2, <1>3 DEF Dial

(* At first nothing is known and nothing is asked.                         *)
LEMMA RotateInvFirst ==
  RoomInit => RotateInv
<1> SUFFICES ASSUME RoomInit PROVE RotateInv
  OBVIOUS
<1>1. KeyInv
  BY KeyInvFirst
<1>2. ASSUME NEW c \in Conn PROVE Ordered(c)
  <2>1. /\ client[c] = Start(<<c, 0>>, UserOf[c]) /\ up[c] = <<>> /\ out[c] = <<>>
    BY DEF RoomInit, Init
  <2>2. /\ client[c].phase = "landing" /\ ~client[c].reconnect /\ client[c].peers = {}
        /\ client[c].lobby = Null /\ client[c].session = Fresh(<<c, 0>>)
    BY <2>1 DEF Start
  <2>3. <<c, 0>> \in Sid
    BY DEF Sid
  <2>4. ~client[c].session.disposed
    BY <2>2, <2>3, FreshFields
  <2>5. Whole(client[c])
    BY <2>2, <2>4 DEF Whole, CanRotate
  <2>6. OneEntry(client[c], up[c], out[c])
    BY <2>1, <2>2, NoGrants DEF OneEntry
  <2> QED BY <2>2, <2>5, <2>6 DEF Ordered
<1> QED BY <1>1, <1>2 DEF RotateInv

(* Every step keeps RotateInv.                                             *)
LEMMA RotateInvStep ==
  RotateInv /\ [RoomNext]_roomVars => RotateInv'
<1> SUFFICES ASSUME RotateInv, [RoomNext]_roomVars PROVE RotateInv'
  OBVIOUS
<1>1. KeyInv'
  BY KeyInvStep DEF RotateInv
<1>2. ASSUME NEW d \in Conn PROVE Ordered(d)'
  <2>1. ASSUME NEW c \in Conn, Dial(c) PROVE Ordered(d)'
    BY <2>1, DialOrdered
  <2>2. ASSUME NEW c \in Conn, Read(c) PROVE Ordered(d)'
    BY <2>2, ReadOrdered
  <2>3. ASSUME NEW c \in Conn, Rotate(c) PROVE Ordered(d)'
    BY <2>3, RotateOrdered
  <2>4. ASSUME NEW c \in Conn, Disconnect(c) PROVE Ordered(d)'
    BY <2>4, DisconnectOrdered
  <2>5. ASSUME NEW c \in Conn, Serve(c) PROVE Ordered(d)'
    BY <2>5, ServeOrdered
  <2>6. ASSUME NEW c \in Conn, Hangup(c) PROVE Ordered(d)'
    BY <2>6, HangupOrdered
  <2>7. ASSUME NEW c \in Conn, Lose(c) /\ UNCHANGED <<up, client, web, rotations>>
        PROVE  Ordered(d)'
    BY <2>7, LoseOrdered
  <2>8. CASE UNCHANGED roomVars
    BY <2>8, PassedBy DEF roomVars, RotateInv
  <2> QED BY <2>1, <2>2, <2>3, <2>4, <2>5, <2>6, <2>7, <2>8 DEF RoomNext
<1> QED BY <1>1, <1>2 DEF RotateInv

(* Whatever the users do, a terminal client enters its room once, and a    *)
(* client that did not come back has a root and a ratchet key for each     *)
(* peer it lists (doConnect, doLobbyTransition, doRatchetStep).            *)
THEOREM RotationsInOrder == RoomSpec => []RotateInv
BY RotateInvFirst, RotateInvStep, PTL DEF RoomSpec

(* A rotation gets through all the peers for any number of users and       *)
(* connections, unless the client came back with the peers that an earlier *)
(* connection knew (doRatchetStep, _doRatchetStep, _attemptReconnect).     *)
THEOREM RotationsGoThrough ==
  RoomSpec => [](\A c \in Conn :
                   (/\ ~client[c].reconnect
                    /\ client[c].phase = "ready" /\ client[c].peers # {})
                   => CanRatchet(client[c].session, client[c].peers))
<1>1. ASSUME RotateInv, NEW c \in Conn, ~client[c].reconnect, client[c].phase = "ready",
             client[c].peers # {}
      PROVE  CanRatchet(client[c].session, client[c].peers)
  BY <1>1 DEF RotateInv, Ordered, Whole, CanRotate, CanRatchet
<1>2. RotateInv => \A c \in Conn :
                     (/\ ~client[c].reconnect
                      /\ client[c].phase = "ready" /\ client[c].peers # {})
                     => CanRatchet(client[c].session, client[c].peers)
  BY <1>1
<1> QED BY <1>2, RotationsInOrder, PTL

(* RotateNeverThrows, for any number of users, connections and rotations   *)
(* of either kind of client, as long as lost web clients start afresh: no  *)
(* rotation ever stops half way through its peers (doRatchetStep,          *)
(* _doRatchetStep).                                                        *)
THEOREM RotationsNeverThrow ==
  ASSUME Resumes = "never"
  PROVE  RoomSpec => []RotateNeverThrows
<1>1. ASSUME RotateInv PROVE RotateNeverThrows
  <2>1. ASSUME NEW c \in Conn, client[c].phase = "ready", client[c].peers # {}
        PROVE  CanRatchet(client[c].session, client[c].peers)
    BY <1>1, <2>1 DEF RotateInv, Ordered, Whole, CanRotate, CanRatchet
  <2> QED BY <2>1 DEF RotateNeverThrows
<1>2. RotateInv => RotateNeverThrows
  BY <1>1
<1> QED BY <1>2, RotationsInOrder, PTL
=============================================================================
