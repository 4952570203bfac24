--------------------------- MODULE SnapshotProofs ---------------------------
(***************************************************************************)
(* What the server would tell the next joiner is true: SnapshotFresh, for  *)
(* any number of users, connections, rotations and departures.             *)
(*                                                                         *)
(* The server's copy of a member's keys lags behind the member by the      *)
(* frames under way, so nothing can be said of the copy alone.  SnapInv    *)
(* says what the copy will be once the first frame under way is served: a  *)
(* client reads only when its earlier frames have been served, hence one   *)
(* frame with keys is under way at most, and it is the first of its queue. *)
(***************************************************************************)
EXTENDS RoomProofs

(* The frames that tell the server keys, and the last claim of a session.  *)
KeyFrames == {"identify", "ratchet_step", "ek_update", "rekey"}
LastClaim(s) == [sid |-> s.sid, seq |-> s.seq - 1]

(* The server's data d is the session's, or will be when it has served f,  *)
(* or the first of the frames q if there are any.                          *)
Holds(d, s) == d.ek = SealEk(s) /\ d.ratchetEk = RatchetEk(s) /\ d.claim = LastClaim(s)
Brings(d, f, s) ==
  /\ f.type \notin KeyFrames => Holds(d, s)
  /\ f.type \in {"identify", "rekey"} =>
       f.ek = SealEk(s) /\ f.ratchetEk = RatchetEk(s) /\ f.claim = LastClaim(s)
  /\ f.type = "ratchet_step" =>
       d.ek = SealEk(s) /\ f.newEk = RatchetEk(s) /\ f.claim = LastClaim(s)
  /\ f.type = "ek_update" =>
       d.ek = SealEk(s) /\ f.ek = RatchetEk(s) /\ f.claim = LastClaim(s)
Due(d, q, s) == IF q = <<>> THEN Holds(d, s) ELSE Brings(d, q[1], s)

(* The session the server knows, or will: the one that waits in the lobby, *)
(* if there is one.                                                        *)
Cur(k) == IF k.lobby # Null THEN k.lobby ELSE k.session

FirstOnly(q) == \A i \in DOMAIN q : i # 1 => q[i].type \notin KeyFrames
Starts(q, t) == q # <<>> /\ q[1].type = t
Joins(q) == {i \in DOMAIN q : q[i].type = "joined"}
Rekeyed(q) == \E i \in DOMAIN q : q[i].type = "rekeyed"

(* A connection with a name is in its room.                                *)
Seated(c) == data[c].username # Null => InRoom(c)

(* Keys are told by the first frame only, and a connection joins and       *)
(* identifies once.                                                        *)
Enters(c) ==
  /\ FirstOnly(up[c])
  /\ client[c].phase = "landing" => up[c] = <<>> /\ Joins(out[c]) = {}
  /\ \A i, j \in Joins(out[c]) : i = j
  /\ data[c].roomId = Null => Joins(out[c]) = {} /\ ~Starts(up[c], "identify")
  /\ (data[c].roomId = Null \/ Joins(out[c]) # {} \/ Starts(up[c], "identify"))
       => data[c].username = Null
  /\ Joins(out[c]) # {} => ~Starts(up[c], "identify")
  /\ sock[c] = "closed" => ~Online(c)

(* What is due to the server is what the client goes on with.  In a lobby  *)
(* either the rekey or the answer to it is under way.                      *)
Booked(c) ==
  Online(c) =>
    /\ (data[c].username # Null \/ Starts(up[c], "identify"))
         => Due(data[c], up[c], Cur(client[c]))
    /\ client[c].lobby # Null =>
         /\ ~Starts(up[c], "identify")
         /\ data[c].username # Null => Starts(up[c], "rekey") \/ Rekeyed(out[c])

Entry(c) == Seated(c) /\ Enters(c) /\ Booked(c)
SnapInv == RotateInv /\ IsOn(sock) /\ \A c \in Conn : Entry(c)

-----------------------------------------------------------------------------
(* What a session does to its keys and its claims.                         *)

(* The keys and the next claim are the same.                               *)
Alike(s, t) == t.sid = s.sid /\ t.kp = s.kp /\ t.seq = s.seq

LEMMA AlikeTwice ==
  ASSUME NEW s, NEW t, NEW u, Alike(s, t), Alike(t, u)
  PROVE  Alike(s, u)
BY DEF Alike

LEMMA AlikeHolds ==
  ASSUME NEW s, NEW t, Alike(s, t), NEW d
  PROVE  Holds(d, t) <=> Holds(d, s)
BY DEF Alike, Holds, SealEk, RatchetEk, LastClaim

(* What a session learns of its peers touches none of them,                *)
LEMMA PeersAlike ==
  ASSUME NEW s \in SessionType, NEW n, NEW x
  PROVE  /\ Alike(s, AcceptClaim(s, n, x)) /\ Alike(s, UpdatePeerRatchetEk(s, n, x))
         /\ Alike(s, WrapChainSeedFor(s, n)) /\ Alike(s, UnwrapChainSeed(s, n, x))
         /\ Alike(s, RemovePeer(s, n))
<1>1. Alike(s, AcceptClaim(s, n, x))
  BY DEF Alike, AcceptClaim, SessionType
<1>2. Alike(s, UpdatePeerRatchetEk(s, n, x))
  BY DEF Alike, UpdatePeerRatchetEk, SessionType
<1>3. Alike(s, WrapChainSeedFor(s, n))
  BY DEF Alike, WrapChainSeedFor, SessionType
<1>4. Alike(s, UnwrapChainSeed(s, n, x))
  BY DEF Alike, UnwrapChainSeed, SessionType
<1>5. Alike(s, RemovePeer(s, n))
  BY DEF Alike, RemovePeer, SessionType
<1> QED BY <1>1, <1>2, <1>3, <1>4, <1>5

(* nor do the steps of a rotation,                                         *)
LEMMA StepsAlike ==
  ASSUME NEW s \in SessionType, NEW N
  PROVE  Alike(s, Stepped(s, N)) /\ Alike(s, CommitRatchetStep(s, N))
<1> DEFINE t == Stepped(s, N)
           e == [n \in Name |-> IF n \in N THEN NextRoot(s.encap[n]) ELSE s.encap[n]]
<1>1. t = [s EXCEPT !.encap = e]
  BY DEF Stepped
<1>2. Alike(s, t)
  BY <1>1 DEF Alike, SessionType
<1>3. CommitRatchetStep(s, N) = [s EXCEPT !.encap = e, !.epoch = s.epoch + 1]
  BY <1>1 DEF CommitRatchetStep, SessionType
<1>4. Alike(s, CommitRatchetStep(s, N))
  <2> HIDE DEF e
  <2> QED BY <1>3 DEF Alike, SessionType
<1> QED BY <1>2, <1>4

(* nor a step that does not open.                                          *)
LEMMA FailedAlike ==
  ASSUME NEW s \in SessionType, NEW n, NEW p, ~Opens(s, n, p)
  PROVE  Alike(s, ReceiveRatchetStep(s, n, p))
<1> DEFINE b == s.spent \/ TriesDecap(s, n)
<1>1. ReceiveRatchetStep(s, n, p) = [s EXCEPT !.spent = b]
  BY DEF ReceiveRatchetStep
<1> HIDE DEF b
<1> QED BY <1>1 DEF Alike, SessionType

(* A claim built is the last one from then on.                             *)
LEMMA ClaimNext ==
  ASSUME NEW s \in SessionType
  PROVE  /\ SealEk(ClaimBuilt(s)) = SealEk(s) /\ RatchetEk(ClaimBuilt(s)) = RatchetEk(s)
         /\ LastClaim(ClaimBuilt(s)) = ClaimOf(s)
<1> DEFINE n == s.seq + 1
           t == [s EXCEPT !.seq = n]
<1>1. s.seq \in Nat /\ n - 1 = s.seq
  BY DEF SessionType
<1>2. ClaimBuilt(s) = t
  BY DEF ClaimBuilt
<1> HIDE DEF n
<1>3. t.sid = s.sid /\ t.kp = s.kp /\ t.seq = n
  BY DEF SessionType
<1> HIDE DEF t
<1> QED BY <1>1, <1>2, <1>3 DEF SealEk, RatchetEk, LastClaim, ClaimOf

-----------------------------------------------------------------------------
(* What a client tells the server about the keys it goes on with.          *)

Stays(k, q) == q.lobby = k.lobby /\ Alike(k.session, q.session)

Alive(k) == k.phase \in {"joining", "waiting", "ready"}

(* An answer to a frame of type t, of one that has told the server d.      *)
Tells(d, k, t, a) ==
  /\ FirstOnly(a.sends)
  /\ Starts(a.sends, "identify") => t = "joined" /\ a.client.lobby = k.lobby
  /\ a.client.lobby # Null =>
       Starts(a.sends, "rekey") \/ (k.lobby # Null /\ t # "rekeyed")
  /\ (Alive(a.client) /\ (Holds(d, Cur(k)) \/ Starts(a.sends, "identify"))) =>
       Due(d, a.sends, Cur(a.client))

LEMMA StaysTwice ==
  ASSUME NEW k, NEW q, NEW r, Stays(k, q), Stays(q, r)
  PROVE  Stays(k, r)
BY DEF Stays, Alike

LEMMA StaysCur ==
  ASSUME NEW k, NEW q, Stays(k, q), NEW d
  PROVE  Holds(d, Cur(q)) <=> Holds(d, Cur(k))
BY AlikeHolds DEF Stays, Cur

(* One frame.                                                              *)
LEMMA OneFrame ==
  ASSUME NEW f, NEW d, NEW s
  PROVE  /\ FirstOnly(<<>>) /\ FirstOnly(<<f>>)
         /\ (Due(d, <<>>, s) <=> Holds(d, s)) /\ (Due(d, <<f>>, s) <=> Brings(d, f, s))
         /\ \A t : ~Starts(<<>>, t) /\ (Starts(<<f>>, t) <=> f.type = t)
<1>1. <<f>> # <<>> /\ <<f>>[1] = f /\ DOMAIN <<f>> = {1}
  OBVIOUS
<1>2. DOMAIN <<>> = {}
  OBVIOUS
<1>3. FirstOnly(<<>>) /\ FirstOnly(<<f>>)
  BY <1>1, <1>2 DEF FirstOnly
<1> QED BY <1>1, <1>3 DEF Due, Starts

(* Nothing is told and nothing has changed.                                *)
LEMMA StaysTells ==
  ASSUME NEW d, NEW k, NEW q, Stays(k, q), NEW t, t # "rekeyed" \/ k.lobby = Null,
         NEW f, f.type \notin KeyFrames
  PROVE  Tells(d, k, t, Silent(q)) /\ Tells(d, k, t, Answer(q, <<f>>))
<1>1. Holds(d, Cur(q)) <=> Holds(d, Cur(k))
  BY StaysCur
<1>2. f.type \notin {"identify", "ratchet_step", "ek_update", "rekey"}
  BY DEF KeyFrames
<1>3. Brings(d, f, Cur(q)) <=> Holds(d, Cur(q))
  BY <1>2 DEF Brings, KeyFrames
<1>4. /\ FirstOnly(<<>>) /\ FirstOnly(<<f>>)
      /\ (Due(d, <<>>, Cur(q)) <=> Holds(d, Cur(q)))
      /\ (Due(d, <<f>>, Cur(q)) <=> Brings(d, f, Cur(q)))
      /\ ~Starts(<<>>, "identify") /\ ~Starts(<<f>>, "identify")
  BY <1>2, OneFrame
<1> QED BY <1>1, <1>3, <1>4 DEF Tells, Stays, Silent, Answer

(* New keys are told in one frame.                                         *)
LEMMA KeyFrameTells ==
  ASSUME NEW d, NEW k, NEW q, NEW t, NEW f, f.type # "identify",
         q.lobby # Null => f.type = "rekey",
         Holds(d, Cur(k)) => Brings(d, f, Cur(q))
  PROVE  Tells(d, k, t, Answer(q, <<f>>))
<1>1. /\ FirstOnly(<<f>>) /\ (Due(d, <<f>>, Cur(q)) <=> Brings(d, f, Cur(q)))
      /\ ~Starts(<<f>>, "identify") /\ (Starts(<<f>>, "rekey") <=> f.type = "rekey")
  BY OneFrame
<1> QED BY <1>1 DEF Tells, Answer

(* A client with another session, outside the lobby.                       *)
LEMMA SessionAlike ==
  ASSUME NEW c \in Conn, NEW k, ClientOK(c, k), NEW t \in SessionType
  PROVE  /\ [k EXCEPT !.session = t].session = t
         /\ [k EXCEPT !.session = t].lobby = k.lobby
         /\ Alike(k.session, t) => Stays(k, [k EXCEPT !.session = t])
         /\ k.lobby = Null => Cur([k EXCEPT !.session = t]) = t
<1> DEFINE q == [k EXCEPT !.session = t]
<1>1. k \in ClientType
  BY DEF ClientOK
<1>2. q.session = t /\ q.lobby = k.lobby
  BY <1>1 DEF ClientType
<1> HIDE DEF q
<1>3. Alike(k.session, t) => Stays(k, q)
  BY <1>2 DEF Stays
<1>4. k.lobby = Null => Cur(q) = t
  BY <1>2 DEF Cur
<1> QED BY <1>2, <1>3, <1>4 DEF q

(* doRatchetStep, also when it fails at a peer.                            *)
LEMMA RotateTells ==
  ASSUME NEW c \in Conn, NEW k, ClientOK(c, k), k.lobby = Null, NEW d, NEW ty,
         NEW a \in RotateKeys(k)
  PROVE  Tells(d, k, ty, a)
<1> DEFINE s == k.session
<1>1. s \in SessionType /\ k.peers \in SUBSET Name
  BY DEF ClientOK, ClientType
<1>2. CASE a = Silent(k)
  <2>1. Stays(k, k) /\ [type |-> "none"].type \notin KeyFrames
    BY DEF Stays, Alike, KeyFrames
  <2> QED BY <1>2, <2>1, StaysTells
<1>3. CASE ~(k.phase # "ready" \/ k.peers = {}) /\ ~CanRatchet(s, k.peers)
  <2>1. PICK t \in BrokenOff(s, k.peers) : a = Silent([k EXCEPT !.session = t])
    BY <1>3 DEF RotateKeys
  <2>2. PICK N \in SUBSET {n \in k.peers : CanRatchet(s, {n})} : t = Stepped(s, N)
    BY <2>1 DEF BrokenOff
  <2>3. N \in SUBSET Name /\ \A n \in N : s.encap[n] # Null
    BY <1>1, <2>2 DEF CanRatchet
  <2>4. t \in SessionType
    BY <1>1, <2>2, <2>3, SteppedFields
  <2>5. Alike(s, t)
    BY <1>1, <2>2, StepsAlike
  <2> DEFINE q == [k EXCEPT !.session = t]
  <2>6. Stays(k, q) /\ [type |-> "none"].type \notin KeyFrames
    BY <2>4, <2>5, SessionAlike DEF KeyFrames
  <2> HIDE DEF q
  <2>7. Tells(d, k, ty, Silent(q))
    BY <2>6, StaysTells
  <2> QED BY <2>1, <2>7 DEF q
<1>4. CASE ~(k.phase # "ready" \/ k.peers = {}) /\ CanRatchet(s, k.peers)
  <2> DEFINE s1 == CommitRatchetStep(s, k.peers)
             t == ClaimBuilt(s1)
             f == [type |-> "ratchet_step",
                   payloads |-> [n \in k.peers |-> PerformRatchetStep(s, n)],
                   newEk |-> RatchetEk(s1), sig |-> s1.sid, claim |-> ClaimOf(s1)]
             q == [k EXCEPT !.session = t]
  <2>1. a = Answer(q, <<f>>)
    BY <1>4 DEF RotateKeys
  <2>2. \A n \in k.peers : s.encap[n] # Null
    BY <1>4 DEF CanRatchet
  <2>3. Stepped(s, k.peers) \in SessionType
    BY <1>1, <2>2, SteppedFields
  <2>4. s1 \in SessionType
    BY <2>3 DEF CommitRatchetStep, SessionType
  <2>5. Alike(s, s1)
    BY <1>1, StepsAlike
  <2>6. f.type = "ratchet_step" /\ f.newEk = RatchetEk(s1) /\ f.claim = ClaimOf(s1)
    OBVIOUS
  <2> HIDE DEF s1, f
  <2>7. /\ t \in SessionType
        /\ SealEk(t) = SealEk(s1) /\ RatchetEk(t) = RatchetEk(s1)
        /\ LastClaim(t) = ClaimOf(s1)
    BY <2>4, ClaimFields, ClaimNext
  <2> HIDE DEF t
  <2>8. q.lobby = k.lobby /\ Cur(q) = t /\ Cur(k) = s
    BY <2>7, SessionAlike DEF Cur
  <2> HIDE DEF q
  <2>9. Holds(d, Cur(k)) => Brings(d, f, Cur(q))
    BY <2>5, <2>6, <2>7, <2>8 DEF Holds, Brings, KeyFrames, Alike, SealEk
  <2> QED BY <2>1, <2>6, <2>8, <2>9, KeyFrameTells
<1>5. a = Silent(k) \/ ~(k.phase # "ready" \/ k.peers = {})
  BY DEF RotateKeys
<1> QED BY <1>2, <1>3, <1>4, <1>5

(* An answer of one that has stayed as it was.                             *)
LEMMA TellsAfter ==
  ASSUME NEW d, NEW k, NEW q, Stays(k, q), NEW t, NEW a, Tells(d, q, t, a)
  PROVE  Tells(d, k, t, a)
<1>1. Holds(d, Cur(q)) <=> Holds(d, Cur(k))
  BY StaysCur
<1> QED BY <1>1 DEF Tells, Stays

(* The seeds are counted.                                                  *)
LEMMA CountSeedTells ==
  ASSUME NEW c \in Conn, NEW k, ClientOK(c, k), k.lobby = Null, NEW d, NEW t,
         NEW a \in CountSeed(k)
  PROVE  Tells(d, k, t, a)
<1> DEFINE k1 == [k EXCEPT !.chainsReceived = @ + 1]
           k2 == [k1 EXCEPT !.phase = "ready"]
<1>1. k \in ClientType
  BY DEF ClientOK
<1>2. /\ k1 \in ClientType /\ k1.session = k.session /\ k1.peers = k.peers
      /\ k1.lobby = k.lobby /\ k1.sessions = k.sessions /\ k1.name = k.name
  BY <1>1 DEF ClientType
<1>3. a \in RotateKeys(k2) \/ a = Silent(k1)
  BY DEF CountSeed
<1> HIDE DEF k1
<1>4. /\ k2 \in ClientType /\ k2.session = k.session /\ k2.peers = k.peers
      /\ k2.lobby = k.lobby /\ k2.sessions = k.sessions /\ k2.name = k.name
  BY <1>2 DEF ClientType
<1> HIDE DEF k2
<1>5. Stays(k, k1) /\ Stays(k, k2)
  BY <1>2, <1>4 DEF Stays, Alike
<1>6. CASE a = Silent(k1)
  <2>1. [type |-> "none"].type \notin KeyFrames
    BY DEF KeyFrames
  <2> QED BY <1>5, <1>6, <2>1, StaysTells
<1>7. CASE a \in RotateKeys(k2)
  <2>1. ClientOK(c, k2)
    BY <1>4, BookKept
  <2>2. Tells(d, k2, t, a)
    BY <1>4, <1>7, <2>1, RotateTells
  <2> QED BY <1>5, <2>2, TellsAfter
<1> QED BY <1>3, <1>6, <1>7

(* A step arrives.                                                         *)
LEMMA TakeStepTells ==
  ASSUME NEW c \in Conn, NEW k, ClientOK(c, k), k.lobby = Null, Numbered(k.session),
         NEW m, m.from \in Name, m.payload \in StepType, m.newEk \in RatchetKey,
         m.claim \in ClaimEntry, NEW d, NEW ty
  PROVE  Tells(d, k, ty, TakeStep(k, m))
<1> DEFINE s == k.session
           s1 == AcceptClaim(s, m.from, m.claim)
           s2 == ReceiveRatchetStep(s1, m.from, m.payload)
           s3 == UpdatePeerRatchetEk(s2, m.from, m.newEk)
           s4 == ClaimBuilt(s3)
           f == [type |-> "ek_update", ek |-> RatchetEk(s3), claim |-> ClaimOf(s3)]
           q == [k EXCEPT !.session = s2]
           r == [k EXCEPT !.session = s4]
<1>1. s \in SessionType
  BY DEF ClientOK, ClientType
<1>2. \/ TakeStep(k, m) = Silent(k)
      \/ TakeStep(k, m) = Silent(q) /\ ~Opens(s1, m.from, m.payload)
      \/ TakeStep(k, m) = Answer(r, <<f>>)
  BY DEF TakeStep
<1>3. /\ s1 \in SessionType /\ s1.sid = s.sid
      /\ s1.decap = s.decap /\ s1.sender = s.sender /\ Alike(s, s1)
  BY <1>1, AcceptFields, PeersAlike
<1> HIDE DEF s1
<1>4. Numbered(s1)
  BY <1>3 DEF Numbered
<1>5. /\ s2 \in SessionType /\ s2.sid = s.sid
      /\ ~Opens(s1, m.from, m.payload) => Alike(s1, s2)
  BY <1>3, <1>4, ReceiveFields, FailedAlike
<1> HIDE DEF s2
<1>6. s3 \in SessionType /\ s3.sid = s.sid
  BY <1>5, EkFields
<1>7. f.type = "ek_update" /\ f.ek = RatchetEk(s3) /\ f.claim = ClaimOf(s3)
  OBVIOUS
<1> HIDE DEF s3, f
<1>8. /\ s4 \in SessionType
      /\ SealEk(s4) = SealEk(s3) /\ RatchetEk(s4) = RatchetEk(s3)
      /\ LastClaim(s4) = ClaimOf(s3)
  BY <1>6, ClaimFields, ClaimNext
<1> HIDE DEF s4
<1>9. Stays(k, k) /\ [type |-> "none"].type \notin KeyFrames
  BY DEF Stays, Alike, KeyFrames
<1>10. ~Opens(s1, m.from, m.payload) => Stays(k, q)
  <2> HIDE DEF r
  <2> QED BY <1>3, <1>5, AlikeTwice, SessionAlike
<1>11. r.lobby = k.lobby /\ Cur(r) = s4 /\ Cur(k) = s
  <2> HIDE DEF q
  <2> QED BY <1>8, SessionAlike DEF Cur
<1> HIDE DEF q, r
<1>12. Holds(d, Cur(k)) => Brings(d, f, Cur(r))
  BY <1>6, <1>7, <1>8, <1>11 DEF Holds, Brings, KeyFrames, SealEk
<1>13. Tells(d, k, ty, Answer(r, <<f>>))
  BY <1>7, <1>11, <1>12, KeyFrameTells
<1> QED BY <1>2, <1>9, <1>10, <1>13, StaysTells

(* A ratchet key arrives.                                                  *)
LEMMA TakeEkTells ==
  ASSUME NEW c \in Conn, NEW k, ClientOK(c, k), k.lobby = Null, NEW m, m.from \in Name,
         m.ek \in RatchetKey, m.claim \in ClaimEntry, NEW d, NEW ty
  PROVE  Tells(d, k, ty, Silent(TakeEk(k, m)))
<1> DEFINE s == k.session
           s1 == AcceptClaim(s, m.from, m.claim)
           t == UpdatePeerRatchetEk(s1, m.from, m.ek)
           q == [k EXCEPT !.session = t]
<1>1. s \in SessionType
  BY DEF ClientOK, ClientType
<1>2. TakeEk(k, m) = k \/ TakeEk(k, m) = q
  BY DEF TakeEk
<1>3. s1 \in SessionType /\ Alike(s, s1)
  BY <1>1, AcceptFields, PeersAlike
<1> HIDE DEF s1
<1>4. t \in SessionType /\ Alike(s1, t)
  BY <1>3, EkFields, PeersAlike
<1> HIDE DEF t
<1>5. Stays(k, q)
  BY <1>3, <1>4, AlikeTwice, SessionAlike
<1>6. Stays(k, k) /\ [type |-> "none"].type \notin KeyFrames
  BY DEF Stays, Alike, KeyFrames
<1> HIDE DEF q
<1> QED BY <1>2, <1>5, <1>6, StaysTells

-----------------------------------------------------------------------------
(* Joining, and being left alone.                                          *)

(* A member met changes nothing of this.                                   *)
LEMMA MeetStays ==
  ASSUME NEW c \in Conn, NEW k, ClientOK(c, k), NEW m, m.username \in Name,
         m.ratchetEk \in RatchetKey, m.claim \in ClaimEntry
  PROVE  Stays(k, Meet(k, m)) /\ ClientOK(c, Meet(k, m)) /\ Meet(k, m).phase = k.phase
<1> DEFINE n == m.username
           s == k.session
           s1 == AcceptClaim(s, n, m.claim)
           s2 == WrapChainSeedFor(s1, n)
           s3 == UpdatePeerRatchetEk(s2, n, m.ratchetEk)
           q == [k EXCEPT !.session = s3, !.peers = @ \cup {n}]
<1>1. s \in SessionType /\ k \in ClientType
  BY DEF ClientOK, ClientType
<1>2. s1 \in SessionType /\ Alike(s, s1)
  BY <1>1, AcceptFields, PeersAlike
<1> HIDE DEF s1
<1>3. s2 \in SessionType
  <2>1. s1.epoch \in Nat /\ s1.sid \in Sid /\ s1.encap \in [Name -> RootKey \cup {Null}]
    BY <1>2 DEF SessionType
  <2>2. Root(CurrentSeed(s1)) \in RootKey
    BY <2>1 DEF CurrentSeed, Root, RootKey, Seed
  <2> QED BY <1>2, <2>1, <2>2 DEF WrapChainSeedFor, SessionType
<1>4. Alike(s1, s2)
  BY <1>2, PeersAlike
<1> HIDE DEF s2
<1>5. Alike(s2, s3)
  BY <1>3, PeersAlike
<1> HIDE DEF s3
<1>6. Meet(k, m) = q
  BY DEF Meet, s1, s2, s3
<1>7. q.session = s3 /\ q.lobby = k.lobby
  <2> HIDE DEF n
  <2> QED BY <1>1 DEF ClientType
<1> HIDE DEF q
<1>8. Stays(k, q)
  BY <1>2, <1>4, <1>5, <1>7, AlikeTwice DEF Stays
<1>9. MetBy(c, k, m.username, Meet(k, m))
  BY MeetFields
<1> QED BY <1>6, <1>8, <1>9 DEF MetBy

(* The clients k may become without its keys being others.                 *)
Same(c, k) == {q \in ClientType : ClientOK(c, q) /\ Stays(k, q)}

LEMMA BookSame ==
  ASSUME NEW c \in Conn, NEW k, NEW q \in Same(c, k), NEW r \in ClientType,
         r.session = q.session, r.peers = q.peers, r.name = q.name,
         r.lobby = q.lobby, r.sessions = q.sessions
  PROVE  r \in Same(c, k)
<1>1. ClientOK(c, q) /\ Stays(k, q)
  BY DEF Same
<1>2. ClientOK(c, r)
  BY <1>1, BookKept
<1> QED BY <1>1, <1>2 DEF Same, Stays

LEMMA MeetSame ==
  ASSUME NEW c \in Conn, NEW k, NEW q \in Same(c, k), NEW m \in MemberType
  PROVE  Meet(q, m) \in Same(c, k)
<1>1. ClientOK(c, q) /\ Stays(k, q)
  BY DEF Same
<1>2. m.username \in Name /\ m.ratchetEk \in RatchetKey /\ m.claim \in ClaimEntry
  BY DEF MemberType
<1>3. Stays(q, Meet(q, m)) /\ ClientOK(c, Meet(q, m))
  BY <1>1, <1>2, MeetStays
<1> QED BY <1>1, <1>3, StaysTwice DEF Same, ClientOK

(* The members of the snapshot are met, in either client.                  *)
LEMMA AllMetSame ==
  ASSUME NEW c \in Conn, NEW k0, ClientOK(c, k0), NEW ms \in Seq(MemberType)
  PROVE  T!AllMet(k0, ms) \in Same(c, k0) /\ W!AllMet(k0, ms) \in Same(c, k0)
<1> DEFINE K == Same(c, k0)
<1>1. k0 \in K
  BY DEF Same, ClientOK, Stays, Alike
<1>2. ASSUME NEW q \in K, NEW m \in MemberType PROVE Meet(q, m) \in K
  BY MeetSame
<1>3. ASSUME NEW q \in K, NEW m \in MemberType PROVE T!Counted(Meet(q, m)) \in K
  <2> DEFINE r == Meet(q, m)
             u == T!Counted(r)
  <2>1. r \in K /\ r \in ClientType
    BY <1>2 DEF Same
  <2> HIDE DEF r
  <2>2. /\ u \in ClientType /\ u.session = r.session /\ u.peers = r.peers
        /\ u.name = r.name /\ u.lobby = r.lobby /\ u.sessions = r.sessions
    BY <2>1, CountedFields
  <2> HIDE DEF u
  <2>3. u \in K
    BY <2>1, <2>2, BookSame
  <2> QED BY <2>3 DEF u, r
<1> HIDE DEF K
<1>4. T!AllMet(k0, ms) \in K
  BY <1>1, <1>3, TerminalMeetsAll
<1>5. W!AllMet(k0, ms) \in K
  BY <1>1, <1>2, WebMeetsAll
<1> QED BY <1>4, <1>5 DEF K

(* The claim of the identify frame is built.                               *)
LEMMA ClaimOK ==
  ASSUME NEW c \in Conn, NEW k, ClientOK(c, k)
  PROVE  LET k0 == [k EXCEPT !.session = ClaimBuilt(@)] IN
         /\ ClientOK(c, k0) /\ k0.session = ClaimBuilt(k.session) /\ k0.lobby = k.lobby
<1> DEFINE t == ClaimBuilt(k.session)
           q == [k EXCEPT !.session = t]
<1>1. k.session \in SessionType
  BY DEF ClientOK, ClientType
<1>2. /\ t \in SessionType /\ t.sid = k.session.sid /\ t.encap = k.session.encap
  BY <1>1, ClaimFields
<1>3. q = [k EXCEPT !.session = ClaimBuilt(@)]
  OBVIOUS
<1> HIDE DEF t
<1>4. ClientOK(c, q) /\ q.session = t /\ q.lobby = k.lobby
  <2>1. t.sid = k.session.sid /\ \A n \in Name : t.encap[n] # Null => k.session.encap[n] # Null
    BY <1>2
  <2> QED BY <1>2, <2>1, WithSession
<1> HIDE DEF q
<1> QED BY <1>3, <1>4 DEF t

(* The identify frame tells the keys, and the seeds after it none.         *)
LEMMA GreetingsTell ==
  ASSUME NEW c \in Conn, NEW k, ClientOK(c, k), k.lobby = Null,
         NEW k0, k0.session = ClaimBuilt(k.session), NEW r, Stays(k0, r), r.lobby = Null,
         NEW ms \in Seq(MemberType), NEW d
  PROVE  Tells(d, k, "joined", Answer(r, Greetings(k, k0, ms)))
<1> DEFINE g == [i \in DOMAIN ms |-> SeedFrame(k0, ms[i])]
           f == IdentifyFrame(k)
           fs == <<f>> \o g
           t == k0.session
<1>1. /\ f.type = "identify" /\ f.ek = SealEk(k.session)
      /\ f.ratchetEk = RatchetEk(k.session) /\ f.claim = ClaimOf(k.session)
  BY DEF IdentifyFrame
<1>2. \A i \in DOMAIN ms : g[i].type = "relay"
  BY DEF SeedFrame
<1>3. DOMAIN ms = 1 .. Len(ms) /\ Len(ms) \in Nat /\ DOMAIN g = DOMAIN ms
  OBVIOUS
<1> HIDE DEF f, g
<1>4. g \in Seq({g[i] : i \in DOMAIN ms}) /\ Len(g) = Len(ms)
  <2>1. g \in [1 .. Len(ms) -> {g[i] : i \in DOMAIN ms}]
    <3>1. g = [i \in DOMAIN ms |-> g[i]]
      BY DEF g
    <3> QED BY <1>3, <3>1
  <2> QED BY <2>1, <1>3, SeqDef
<1>5. <<f>> \in Seq({f}) /\ Len(<<f>>) = 1 /\ <<f>>[1] = f
  OBVIOUS
<1>6. fs # <<>> /\ fs[1] = f /\ DOMAIN fs = 1 .. 1 + Len(ms)
  BY <1>3, <1>4, <1>5
<1>7. ASSUME NEW i \in DOMAIN fs, i # 1 PROVE fs[i].type = "relay"
  <2>1. i - 1 \in DOMAIN ms
    BY <1>3, <1>6, <1>7
  <2>2. fs[i] = g[i - 1]
    BY <1>3, <1>4, <1>5, <1>6, <1>7
  <2> QED BY <1>2, <2>1, <2>2
<1>8. Answer(r, fs) = Answer(r, Greetings(k, k0, ms))
  BY DEF Greetings, f, g
<1> HIDE DEF fs
<1>9. FirstOnly(fs) /\ Starts(fs, "identify")
  BY <1>1, <1>6, <1>7 DEF FirstOnly, Starts, KeyFrames
<1>10. k.session \in SessionType
  BY DEF ClientOK, ClientType
<1>11. /\ SealEk(t) = SealEk(k.session) /\ RatchetEk(t) = RatchetEk(k.session)
       /\ LastClaim(t) = ClaimOf(k.session)
  BY <1>10, ClaimNext
<1> HIDE DEF t
<1>12. /\ Alike(t, r.session) /\ Cur(r) = r.session
  BY DEF Stays, Cur, t
<1>13. /\ SealEk(r.session) = SealEk(t) /\ RatchetEk(r.session) = RatchetEk(t)
       /\ LastClaim(r.session) = LastClaim(t)
  BY <1>12 DEF Alike, SealEk, RatchetEk, LastClaim
<1>14. Due(d, fs, Cur(r))
  BY <1>1, <1>6, <1>11, <1>12, <1>13 DEF Due, Brings, KeyFrames
<1>15. Tells(d, k, "joined", Answer(r, fs))
  BY <1>9, <1>14 DEF Tells, Answer
<1> QED BY <1>8, <1>15

(* doConnect and _onJoined, whatever the order of the members.             *)
LEMMA ConnectTells ==
  ASSUME NEW c \in Conn, NEW k, ClientOK(c, k), k.lobby = Null,
         NEW ms \in Seq(MemberType), NEW d
  PROVE  Tells(d, k, "joined", T!Connect(k, ms))
<1> DEFINE k0 == [k EXCEPT !.session = ClaimBuilt(@)]
           q == T!AllMet(k0, ms)
           r == [q EXCEPT !.phase = "waiting"]
           fs == Greetings(k, k0, ms)
<1>1. T!Connect(k, ms) = Answer(r, fs)
  <2>1. ASSUME NEW x, NEW m PROVE T!SeedFrame(x, m) = SeedFrame(x, m)
    BY TerminalSame
  <2>2. T!IdentifyFrame(k) = IdentifyFrame(k) /\ T!ClaimBuilt(k.session) = ClaimBuilt(k.session)
    BY TerminalSame
  <2> QED BY <2>1, <2>2 DEF T!Connect, T!Answer, Answer, Greetings
<1>2. ClientOK(c, k0) /\ k0.session = ClaimBuilt(k.session) /\ k0.lobby = k.lobby
  BY ClaimOK
<1> HIDE DEF k0
<1>3. q \in Same(c, k0)
  BY <1>2, AllMetSame
<1> HIDE DEF q
<1>4. q \in ClientType
  BY <1>3 DEF Same
<1>5. r \in ClientType /\ r.session = q.session /\ r.lobby = q.lobby
  BY <1>4, PhaseKept
<1> HIDE DEF r
<1>6. Stays(k0, r) /\ r.lobby = Null
  BY <1>2, <1>3, <1>5 DEF Same, Stays
<1>7. Tells(d, k, "joined", Answer(r, fs))
  BY <1>2, <1>6, GreetingsTell
<1> QED BY <1>1, <1>7

LEMMA OnJoinedTells ==
  ASSUME NEW c \in Conn, NEW k, ClientOK(c, k), k.lobby = Null,
         NEW ms \in Seq(MemberType), NEW d
  PROVE  Tells(d, k, "joined", W!OnJoined(k, ms))
<1> DEFINE k0 == [k EXCEPT !.session = ClaimBuilt(@)]
           q == W!AllMet(k0, ms)
           p == IF ms = <<>> THEN "waiting" ELSE "joining"
           n == Len(ms)
           r == [q EXCEPT !.phase = p, !.chainsExpected = n]
           fs == Greetings(k, k0, ms)
<1>1. W!OnJoined(k, ms) = Answer(r, fs)
  <2>1. ASSUME NEW x, NEW m PROVE W!SeedFrame(x, m) = SeedFrame(x, m)
    BY WebSame
  <2>2. W!IdentifyFrame(k) = IdentifyFrame(k) /\ W!ClaimBuilt(k.session) = ClaimBuilt(k.session)
    BY WebSame
  <2> QED BY <2>1, <2>2 DEF W!OnJoined, W!Answer, Answer, Greetings
<1>2. ClientOK(c, k0) /\ k0.session = ClaimBuilt(k.session) /\ k0.lobby = k.lobby
  BY ClaimOK
<1> HIDE DEF k0
<1>3. q \in Same(c, k0)
  BY <1>2, AllMetSame
<1> HIDE DEF q
<1>4. q \in ClientType
  BY <1>3 DEF Same
<1> HIDE DEF n, p
<1>5. r.session = q.session /\ r.lobby = q.lobby
  BY <1>4 DEF ClientType
<1> HIDE DEF r
<1>6. Stays(k0, r) /\ r.lobby = Null
  BY <1>2, <1>3, <1>5 DEF Same, Stays
<1>7. Tells(d, k, "joined", Answer(r, fs))
  BY <1>2, <1>6, GreetingsTell
<1> QED BY <1>1, <1>7

(* A new session is told by rekey, as it will be when the claim is built,  *)
LEMMA RekeyBrings ==
  ASSUME NEW c \in Conn, NEW k, ClientOK(c, k), NEW d
  PROVE  LET s == Fresh(<<k.session.sid[1], k.sessions>>) IN
         /\ ClaimBuilt(s) \in SessionType /\ ClaimBuilt(s) # Null
         /\ RekeyFrame(s).type = "rekey" /\ Brings(d, RekeyFrame(s), ClaimBuilt(s))
<1> DEFINE s == Fresh(<<k.session.sid[1], k.sessions>>)
           l == ClaimBuilt(s)
           f == RekeyFrame(s)
<1>1. s \in SessionType
  BY LobbyFields
<1>2. /\ f.type = "rekey" /\ f.ek = SealEk(s)
      /\ f.ratchetEk = RatchetEk(s) /\ f.claim = ClaimOf(s)
  BY DEF RekeyFrame
<1> HIDE DEF s, f
<1>3. /\ l \in SessionType
      /\ SealEk(l) = SealEk(s) /\ RatchetEk(l) = RatchetEk(s)
      /\ LastClaim(l) = ClaimOf(s)
  BY <1>1, ClaimFields, ClaimNext
<1> HIDE DEF l
<1>4. l # Null
  BY <1>3, NullIsNoKey
<1>5. Brings(d, f, l)
  BY <1>2, <1>3 DEF Brings, KeyFrames
<1> QED BY <1>2, <1>3, <1>4, <1>5 DEF l, f, s

(* the terminal client's                                                   *)
LEMMA EnterLobbyTells ==
  ASSUME NEW c \in Conn, NEW k, ClientOK(c, k), NEW d, NEW k1, NEW t
  PROVE  Tells(d, k1, t, T!EnterLobby(k))
<1> DEFINE s == Fresh(<<k.session.sid[1], k.sessions>>)
           x == Dispose(k.session)
           l == ClaimBuilt(s)
           n == k.sessions + 1
           q == [k EXCEPT !.session = x, !.lobby = l, !.sessions = n,
                          !.chainsExpected = 0, !.chainsReceived = 0]
           f == RekeyFrame(s)
<1>1. k \in ClientType
  BY DEF ClientOK
<1>2. l # Null /\ f.type = "rekey" /\ Brings(d, f, l)
  BY RekeyBrings
<1>3. T!EnterLobby(k) = Answer(q, <<f>>)
  BY TerminalSame DEF T!EnterLobby
<1> HIDE DEF x, l, f, n
<1>4. q.lobby = l
  BY <1>1 DEF ClientType
<1> HIDE DEF q
<1>5. Cur(q) = l
  BY <1>2, <1>4 DEF Cur
<1>6. Tells(d, k1, t, Answer(q, <<f>>))
  BY <1>2, <1>5, KeyFrameTells
<1> QED BY <1>3, <1>6

(* and the web client's.                                                   *)
LEMMA LobbyTransitionTells ==
  ASSUME NEW c \in Conn, NEW k, ClientOK(c, k), k.lobby = Null, NEW d, NEW k1, NEW t
  PROVE  Tells(d, k1, t, W!DoLobbyTransition(k))
<1> DEFINE s == Fresh(<<k.session.sid[1], k.sessions>>)
           l == ClaimBuilt(s)
           n == k.sessions + 1
           q == [k EXCEPT !.session = l, !.sessions = n,
                          !.chainsExpected = 0, !.chainsReceived = 0, !.rekeying = TRUE]
           f == RekeyFrame(s)
<1>1. k \in ClientType
  BY DEF ClientOK
<1>2. f.type = "rekey" /\ Brings(d, f, l)
  BY RekeyBrings
<1>3. W!DoLobbyTransition(k) = Answer(q, <<f>>)
  BY WebSame DEF W!DoLobbyTransition
<1> HIDE DEF l, f, n
<1>4. q.session = l /\ q.lobby = k.lobby
  BY <1>1 DEF ClientType
<1> HIDE DEF q
<1>5. Cur(q) = l
  BY <1>4 DEF Cur
<1>6. Tells(d, k1, t, Answer(q, <<f>>))
  BY <1>2, <1>4, <1>5, KeyFrameTells
<1> QED BY <1>3, <1>6

(* A peer is forgotten.                                                    *)
LEMMA ForgetStays ==
  ASSUME NEW c \in Conn, NEW k, ClientOK(c, k), NEW n
  PROVE  Stays(k, Forget(k, n))
<1> DEFINE t == RemovePeer(k.session, n)
           p == k.peers \ {n}
           q == [k EXCEPT !.session = t, !.peers = p]
<1>1. k \in ClientType /\ k.session \in SessionType
  BY DEF ClientOK, ClientType
<1>2. Alike(k.session, t)
  BY <1>1, PeersAlike
<1>3. Forget(k, n) = q
  BY DEF Forget
<1> HIDE DEF t, p
<1>4. q.session = t /\ q.lobby = k.lobby
  BY <1>1 DEF ClientType
<1> HIDE DEF q
<1> QED BY <1>2, <1>3, <1>4 DEF Stays

-----------------------------------------------------------------------------
(* Whatever a client is told.                                              *)

(* Nothing happens, but in a lobby that is over.                           *)
LEMMA IdleTells ==
  ASSUME NEW d, NEW k, NEW t, t # "rekeyed" \/ k.lobby = Null
  PROVE  Tells(d, k, t, Silent(k))
<1>1. Stays(k, k) /\ [type |-> "none"].type \notin KeyFrames
  BY DEF Stays, Alike, KeyFrames
<1> QED BY <1>1, StaysTells

(* A client without a connection tells nothing.                            *)
LEMMA GoneTells ==
  ASSUME NEW d, NEW k, NEW q, q.phase = "gone", q.lobby = k.lobby, NEW t, t # "rekeyed"
  PROVE  Tells(d, k, t, Silent(q))
<1>1. FirstOnly(<<>>) /\ ~Starts(<<>>, "identify")
  BY OneFrame
<1> QED BY <1>1 DEF Tells, Silent, Answer, Alive

(* A peer that joined is met and gets a seed.                              *)
LEMMA MeetTells ==
  ASSUME NEW c \in Conn, NEW k, ClientOK(c, k), NEW m, m.username \in Name,
         m.ek \in SealKey, m.ratchetEk \in RatchetKey, m.claim \in ClaimEntry,
         NEW q, q.session = Meet(k, m).session, q.lobby = Meet(k, m).lobby, NEW d
  PROVE  Tells(d, k, "peer_joined", Answer(q, <<SeedFrame(k, m)>>))
<1>1. Stays(k, q)
  BY MeetStays DEF Stays
<1>2. SeedFrame(k, m).type \notin KeyFrames
  BY DEF SeedFrame, KeyFrames
<1> QED BY <1>1, <1>2, StaysTells

(* A seed arrives, in either client.                                       *)
LEMMA SeedTells ==
  ASSUME NEW c \in Conn, NEW k, ClientOK(c, k), k.lobby = Null, NEW f \in Name,
         NEW b \in SealedType, NEW d, NEW k1,
         k1 = [k EXCEPT !.session = UnwrapChainSeed(@, f, b)]
  PROVE  /\ Tells(d, k, "relay", Silent(k1))
         /\ \A a \in CountSeed(k1) : Tells(d, k, "relay", a)
<1> DEFINE t == UnwrapChainSeed(k.session, f, b)
           q == [k EXCEPT !.session = t]
<1>1. k.session \in SessionType
  BY DEF ClientOK, ClientType
<1>2. Alike(k.session, t) /\ t \in SessionType
  BY <1>1, PeersAlike DEF UnwrapChainSeed, SessionType, SealedType, Root, RootKey, Chain
<1>3. ClientOK(c, [k EXCEPT !.session = UnwrapChainSeed(@, f, b)])
  BY UnwrapSteady
<1>4. k1 = q
  OBVIOUS
<1>5. ClientOK(c, k1)
  BY <1>3
<1> HIDE DEF t
<1>6. Stays(k, q)
  BY <1>2, SessionAlike
<1> HIDE DEF q
<1>7. Stays(k, k1) /\ k1.lobby = Null
  BY <1>4, <1>6 DEF Stays
<1>8. [type |-> "none"].type \notin KeyFrames
  BY DEF KeyFrames
<1>9. Tells(d, k, "relay", Silent(k1))
  BY <1>7, <1>8, StaysTells
<1>10. ASSUME NEW a \in CountSeed(k1) PROVE Tells(d, k, "relay", a)
  <2>1. Tells(d, k1, "relay", a)
    BY <1>5, <1>7, CountSeedTells
  <2> QED BY <1>7, <2>1, TellsAfter
<1> QED BY <1>9, <1>10

(* What a terminal client hears outside the lobby.                         *)
LEMMA HearsTells ==
  ASSUME NEW c \in Conn, NEW k, ClientOK(c, k), Numbered(k.session), k.lobby = Null,
         NEW m \in DownFrame(c), NEW a \in T!Reactions(k, m), NEW d,
         m.type \in {"peer_joined", "relay", "ratchet_step_fwd", "ek_update_fwd"}
  PROVE  Tells(d, k, m.type, a)
<1>1. T!Silent(k) = Silent(k)
  BY TerminalSame
<1>2. Tells(d, k, m.type, Silent(k))
  BY IdleTells
<1>3. CASE m.type = "peer_joined"
  <2> DEFINE r == Meet(k, m)
             q == T!Counted(r)
  <2>1. a = T!OnPeerJoined(k, m)
    BY <1>3 DEF T!Reactions
  <2>2. /\ m.username \in Name /\ m.ek \in SealKey /\ m.ratchetEk \in RatchetKey
        /\ m.claim \in ClaimEntry
    BY <1>3, FrameFields
  <2>3. a = Silent(k) \/ a = Answer(q, <<SeedFrame(k, m)>>)
    BY <2>1, TerminalSame DEF T!OnPeerJoined
  <2>4. r \in ClientType /\ r = Meet(k, m)
    BY <2>2, MeetStays DEF ClientOK
  <2> HIDE DEF r
  <2>5. q.session = r.session /\ q.lobby = r.lobby
    BY <2>4, CountedFields
  <2> HIDE DEF q
  <2>6. q.session = Meet(k, m).session /\ q.lobby = Meet(k, m).lobby
    BY <2>4, <2>5
  <2>7. Tells(d, k, "peer_joined", Answer(q, <<SeedFrame(k, m)>>))
    BY <2>2, <2>6, MeetTells
  <2> QED BY <1>2, <1>3, <2>3, <2>7
<1>4. CASE m.type = "relay"
  <2> DEFINE k1 == [k EXCEPT !.session = UnwrapChainSeed(@, m.from, m.payload)]
  <2>1. a \in T!OnSeed(k, m)
    BY <1>4 DEF T!Reactions
  <2>2. m.from \in Name /\ m.payload \in SealedType
    BY <1>4, FrameFields
  <2>3. a = Silent(k) \/ a = Silent(k1) \/ a \in CountSeed(k1)
    <3>1. T!CountSeed(k1) = CountSeed(k1)
      BY TerminalRotates
    <3> QED BY <2>1, <3>1, TerminalSame DEF T!OnSeed, Silent, Answer
  <2>4. k1 = [k EXCEPT !.session = UnwrapChainSeed(@, m.from, m.payload)]
    OBVIOUS
  <2> HIDE DEF k1
  <2>5. Tells(d, k, "relay", Silent(k1)) /\ \A x \in CountSeed(k1) : Tells(d, k, "relay", x)
    BY <2>2, <2>4, SeedTells
  <2> QED BY <1>2, <1>4, <2>3, <2>5
<1>5. CASE m.type = "ratchet_step_fwd"
  <2>1. a = TakeStep(k, m) \/ a = Silent(k)
    BY <1>5, <1>1, TerminalRotates DEF T!Reactions, T!OnRatchetStep
  <2>2. /\ m.from \in Name /\ m.newEk \in RatchetKey /\ m.claim \in ClaimEntry
        /\ m.payload \in StepType
    BY <1>5, FrameFields
  <2>3. Tells(d, k, m.type, TakeStep(k, m))
    BY <2>2, TakeStepTells
  <2> QED BY <1>2, <2>1, <2>3
<1>6. CASE m.type = "ek_update_fwd"
  <2>1. a = Silent(TakeEk(k, m)) \/ a = Silent(k)
    <3>1. a = T!OnEkUpdate(k, m) /\ T!TakeEk(k, m) = TakeEk(k, m)
      BY <1>6, TerminalRotates DEF T!Reactions
    <3> QED BY <3>1, TerminalSame DEF T!OnEkUpdate, Silent, Answer
  <2>2. m.from \in Name /\ m.ek \in RatchetKey /\ m.claim \in ClaimEntry
    BY <1>6, FrameFields
  <2>3. Tells(d, k, m.type, Silent(TakeEk(k, m)))
    BY <2>2, TakeEkTells
  <2> QED BY <1>2, <2>1, <2>3
<1> QED BY <1>3, <1>4, <1>5, <1>6

(* The terminal client, whatever it is told while it is connected.         *)
LEMMA TerminalTells ==
  ASSUME NEW S, NEW P, NEW B, NEW c \in Conn, NEW k, ClientOK(c, k), Keys(S, P, B),
         S[c] = k.session, NEW m, Arrives(c, P, B, m),
         NEW a \in T!Reactions(k, m), Whole(k), ~k.reconnect, Alive(k),
         m.type = "joined" => k.phase = "joining", NEW d
  PROVE  Tells(d, k, m.type, a)
<1>1. /\ m \in DownFrame(c) /\ k \in ClientType /\ Numbered(k.session)
      /\ k.phase \in {"joining", "waiting", "ready"}
  BY DEF Arrives, Keys, ClientOK, SessionsOK, Alive
<1>2. k.phase = "joining" => k.lobby = Null
  BY DEF Whole
<1>3. T!Silent(k) = Silent(k)
  BY TerminalSame
<1>4. CASE m.type = "room_created"
  <2> DEFINE f == JoinFrame(m.roomId)
  <2>1. a = Answer(k, <<f>>)
    BY <1>4, TerminalSame DEF T!Reactions
  <2>2. f.type \notin KeyFrames
    BY DEF JoinFrame, KeyFrames
  <2> HIDE DEF f
  <2>3. Stays(k, k) /\ m.type # "rekeyed"
    BY <1>4 DEF Stays, Alike
  <2> QED BY <2>1, <2>2, <2>3, StaysTells
<1>5. CASE m.type = "joined"
  <2>1. PICK q \in T!SetToSeqs(m.members) : a = T!Connect(k, q)
    BY <1>5 DEF T!Reactions
  <2>2. m.members \in SUBSET MemberType /\ IsFiniteSet(m.members)
    BY <1>1, <1>5, FrameFields
  <2>3. q \in SetToSeqs(m.members)
    BY <2>1 DEF T!SetToSeqs, SetToSeqs, T!Cardinality, Cardinality
  <2>4. q \in Seq(MemberType)
    BY <2>2, <2>3, MembersInAnyOrder
  <2>5. Tells(d, k, "joined", T!Connect(k, q))
    BY <1>2, <1>5, <2>4, ConnectTells
  <2> QED BY <1>5, <2>1, <2>5
<1>6. CASE m.type \in {"peer_joined", "relay", "ratchet_step_fwd", "ek_update_fwd"}
  <2>1. CASE k.lobby # Null
    <3>1. a = Silent(k)
      BY <1>1, <1>6, <2>1, TerminalDeaf DEF Whole
    <3>2. m.type # "rekeyed"
      BY <1>6
    <3> QED BY <3>1, <3>2, IdleTells
  <2>2. CASE k.lobby = Null
    BY <1>1, <1>6, <2>2, HearsTells
  <2> QED BY <2>1, <2>2
<1>7. CASE m.type = "peer_left"
  <2> DEFINE q == Forget(k, m.username)
  <2>1. a = T!OnPeerLeft(k, m)
    BY <1>7 DEF T!Reactions
  <2>2. m.username \in Name
    BY <1>1, <1>7, FrameFields
  <2>3. ClientOK(c, q)
    BY <2>2, ForgetKept
  <2>4. Stays(k, q)
    BY ForgetStays
  <2>5. a = Silent(k) \/ a = Silent(q) \/ a = T!EnterLobby(q)
    <3>1. T!Forget(k, m.username) = q /\ T!Silent(q) = Silent(q)
      BY TerminalSame
    <3> HIDE DEF q
    <3> QED BY <1>3, <2>1, <3>1 DEF T!OnPeerLeft
  <2> HIDE DEF q
  <2>6. Tells(d, k, m.type, T!EnterLobby(q))
    BY <2>3, EnterLobbyTells
  <2>7. m.type # "rekeyed" /\ [type |-> "none"].type \notin KeyFrames
    BY <1>7 DEF KeyFrames
  <2>8. Tells(d, k, m.type, Silent(q))
    BY <2>4, <2>7, StaysTells
  <2>9. Tells(d, k, m.type, Silent(k))
    BY <2>7, IdleTells
  <2> QED BY <2>5, <2>6, <2>8, <2>9
<1>8. CASE m.type = "rekeyed"
  <2>1. a = T!OnRekeyed(k)
    BY <1>8 DEF T!Reactions
  <2> DEFINE q == [k EXCEPT !.phase = "waiting", !.session = k.lobby, !.lobby = Null]
  <2>2. (k.lobby = Null /\ a = Silent(k)) \/ (k.lobby # Null /\ a = Silent(q))
    BY <2>1, TerminalSame DEF T!OnRekeyed, Silent, Answer
  <2>3. q.session = k.lobby /\ q.lobby = Null
    BY <1>1 DEF ClientType
  <2> HIDE DEF q
  <2>4. CASE k.lobby # Null /\ a = Silent(q)
    <3>1. Cur(q) = Cur(k)
      BY <2>3, <2>4 DEF Cur
    <3>2. /\ FirstOnly(<<>>) /\ ~Starts(<<>>, "identify")
          /\ (Due(d, <<>>, Cur(q)) <=> Holds(d, Cur(q)))
      BY OneFrame
    <3> QED BY <2>3, <2>4, <3>1, <3>2 DEF Tells, Silent, Answer
  <2> QED BY <2>2, <2>4, IdleTells
<1>9. CASE m.type = "error"
  <2>1. a = T!OnError(k, m)
    BY <1>9 DEF T!Reactions
  <2> DEFINE q == T!Ended(k)
  <2>2. a = Silent(k) \/ a = Silent(q)
    BY <2>1, TerminalSame DEF T!OnError, Silent, Answer
  <2>3. q.phase = "gone" /\ q.lobby = k.lobby
    BY <1>1 DEF T!Ended, ClientType
  <2> HIDE DEF q
  <2> QED BY <1>9, <2>2, <2>3, IdleTells, GoneTells
<1> QED BY <1>1, <1>4, <1>5, <1>6, <1>7, <1>8, <1>9, FrameTypes

(* The web client, whatever it is told while it is connected.              *)
LEMMA WebTells ==
  ASSUME NEW S, NEW P, NEW B, NEW c \in Conn, NEW k, ClientOK(c, k), Keys(S, P, B),
         S[c] = k.session, InBrowser(c), NEW m, Arrives(c, P, B, m),
         NEW a \in W!Reactions(k, m), NEW d
  PROVE  Tells(d, k, m.type, a)
<1>1. /\ m \in DownFrame(c) /\ k \in ClientType /\ Numbered(k.session) /\ k.lobby = Null
  BY DEF Arrives, Keys, ClientOK, SessionsOK
<1>2. Tells(d, k, m.type, Silent(k)) /\ W!Silent(k) = Silent(k)
  BY <1>1, IdleTells, WebSame
<1>3. ASSUME NEW q, Stays(k, q) PROVE Tells(d, k, m.type, Silent(q))
  <2>1. [type |-> "none"].type \notin KeyFrames
    BY DEF KeyFrames
  <2> QED BY <1>1, <1>3, <2>1, StaysTells
<1>4. CASE m.type = "room_created"
  <2> DEFINE f == JoinFrame(m.roomId)
  <2>1. a = Answer(k, <<f>>)
    BY <1>4, WebSame DEF W!Reactions
  <2>2. f.type \notin KeyFrames
    BY DEF JoinFrame, KeyFrames
  <2> HIDE DEF f
  <2>3. Stays(k, k) /\ m.type # "rekeyed"
    BY <1>4 DEF Stays, Alike
  <2> QED BY <2>1, <2>2, <2>3, StaysTells
<1>5. CASE m.type = "joined"
  <2>1. PICK q \in W!SetToSeqs(m.members) : a = W!OnJoined(k, q)
    BY <1>5 DEF W!Reactions
  <2>2. m.members \in SUBSET MemberType /\ IsFiniteSet(m.members)
    BY <1>1, <1>5, FrameFields
  <2>3. q \in SetToSeqs(m.members)
    BY <2>1 DEF W!SetToSeqs, SetToSeqs, W!Cardinality, Cardinality
  <2>4. q \in Seq(MemberType)
    BY <2>2, <2>3, MembersInAnyOrder
  <2>5. Tells(d, k, "joined", W!OnJoined(k, q))
    BY <1>1, <2>4, OnJoinedTells
  <2> QED BY <1>5, <2>1, <2>5
<1>6. CASE m.type = "peer_joined"
  <2> DEFINE r == Meet(k, m)
             n == r.chainsExpected + 1
             q == [r EXCEPT !.chainsExpected = n, !.phase = "joining"]
  <2>1. a = W!OnPeerJoined(k, m)
    BY <1>6 DEF W!Reactions
  <2>2. /\ m.username \in Name /\ m.ek \in SealKey /\ m.ratchetEk \in RatchetKey
        /\ m.claim \in ClaimEntry
    BY <1>1, <1>6, FrameFields
  <2>3. \/ a = Silent(k) \/ a = Answer(q, <<SeedFrame(k, m)>>)
        \/ a = Answer(r, <<SeedFrame(k, m)>>)
    BY <2>1, WebSame DEF W!OnPeerJoined
  <2>4. r \in ClientType /\ r = Meet(k, m)
    BY <2>2, MeetStays DEF ClientOK
  <2> HIDE DEF r, n
  <2>5. q.session = r.session /\ q.lobby = r.lobby
    BY <2>4 DEF ClientType
  <2> HIDE DEF q
  <2>6. q.session = Meet(k, m).session /\ q.lobby = Meet(k, m).lobby
    BY <2>4, <2>5
  <2>7. Tells(d, k, "peer_joined", Answer(q, <<SeedFrame(k, m)>>))
    BY <2>2, <2>6, MeetTells
  <2>8. Tells(d, k, "peer_joined", Answer(r, <<SeedFrame(k, m)>>))
    BY <2>2, <2>4, MeetTells
  <2> QED BY <1>2, <1>6, <2>3, <2>7, <2>8
<1>7. CASE m.type = "relay"
  <2> DEFINE k1 == [k EXCEPT !.session = UnwrapChainSeed(@, m.from, m.payload)]
  <2>1. a \in W!OnRelay(k, m)
    BY <1>7 DEF W!Reactions
  <2>2. m.from \in Name /\ m.payload \in SealedType
    BY <1>1, <1>7, FrameFields
  <2>3. a = Silent(k) \/ a = Silent(k1) \/ a \in CountSeed(k1)
    <3>1. W!CountSeed(k1) = CountSeed(k1)
      BY WebRotates
    <3> QED BY <2>1, <3>1, WebSame DEF W!OnRelay, Silent, Answer
  <2>4. k1 = [k EXCEPT !.session = UnwrapChainSeed(@, m.from, m.payload)]
    OBVIOUS
  <2> HIDE DEF k1
  <2>5. Tells(d, k, "relay", Silent(k1)) /\ \A x \in CountSeed(k1) : Tells(d, k, "relay", x)
    BY <1>1, <2>2, <2>4, SeedTells
  <2> QED BY <1>2, <1>7, <2>3, <2>5
<1>8. CASE m.type = "ratchet_step_fwd"
  <2>1. a = TakeStep(k, m) \/ a = Silent(k)
    BY <1>8, <1>2, WebRotates DEF W!Reactions, W!OnRatchetStepFwd
  <2>2. /\ m.from \in Name /\ m.newEk \in RatchetKey /\ m.claim \in ClaimEntry
        /\ m.payload \in StepType
    BY <1>1, <1>8, FrameFields
  <2>3. Tells(d, k, m.type, TakeStep(k, m))
    BY <1>1, <2>2, TakeStepTells
  <2> QED BY <1>2, <2>1, <2>3
<1>9. CASE m.type = "ek_update_fwd"
  <2>1. a = Silent(TakeEk(k, m)) \/ a = Silent(k)
    <3>1. a = W!OnEkUpdateFwd(k, m) /\ W!TakeEk(k, m) = TakeEk(k, m)
      BY <1>9, WebRotates DEF W!Reactions
    <3> QED BY <3>1, WebSame DEF W!OnEkUpdateFwd, Silent, Answer
  <2>2. m.from \in Name /\ m.ek \in RatchetKey /\ m.claim \in ClaimEntry
    BY <1>1, <1>9, FrameFields
  <2>3. Tells(d, k, m.type, Silent(TakeEk(k, m)))
    BY <1>1, <2>2, TakeEkTells
  <2> QED BY <1>2, <2>1, <2>3
<1>10. CASE m.type = "peer_left"
  <2> DEFINE q == Forget(k, m.username)
  <2>1. a = W!OnPeerLeft(k, m)
    BY <1>10 DEF W!Reactions
  <2>2. m.username \in Name
    BY <1>1, <1>10, FrameFields
  <2>3. ClientOK(c, q)
    BY <2>2, ForgetKept
  <2>4. Stays(k, q)
    BY ForgetStays
  <2>5. a = Silent(k) \/ a = Silent(q) \/ a = W!DoLobbyTransition(q)
    <3>1. W!Forget(k, m.username) = q /\ W!Silent(q) = Silent(q)
      BY WebSame
    <3> HIDE DEF q
    <3> QED BY <1>2, <2>1, <3>1 DEF W!OnPeerLeft
  <2> HIDE DEF q
  <2>6. Tells(d, k, m.type, W!DoLobbyTransition(q))
    BY <1>1, <2>3, <2>4, LobbyTransitionTells DEF Stays
  <2> QED BY <1>2, <1>3, <2>4, <2>5, <2>6
<1>11. CASE m.type = "rekeyed"
  <2> DEFINE q == [k EXCEPT !.rekeying = FALSE, !.phase = "waiting"]
  <2>1. a = Silent(k) \/ a = Silent(q)
    BY <1>11, WebSame DEF W!Reactions, W!OnRekeyed, Silent, Answer
  <2>2. q.session = k.session /\ q.lobby = k.lobby
    BY <1>1 DEF ClientType
  <2> HIDE DEF q
  <2>3. Stays(k, q)
    BY <2>2 DEF Stays, Alike
  <2> QED BY <1>2, <1>3, <2>1, <2>3
<1>12. CASE m.type = "error"
  <2> DEFINE q == W!OnError(k)
  <2>1. a = Silent(q)
    BY <1>12, WebSame DEF W!Reactions, Silent, Answer
  <2>2. q.phase = "gone" /\ q.lobby = k.lobby
    BY <1>1 DEF W!OnError, ClientType
  <2> HIDE DEF q
  <2> QED BY <1>12, <2>1, <2>2, GoneTells
<1> QED BY <1>1, <1>4, <1>5, <1>6, <1>7, <1>8, <1>9, <1>10, <1>11, <1>12, FrameTypes

-----------------------------------------------------------------------------
(* Queues, as a frame is added or taken.                                   *)
LEMMA FrameLast ==
  ASSUME NEW X, NEW fs \in Seq(X), NEW g \in X
  PROVE  /\ Joins(Append(fs, g)) \subseteq Joins(fs) \cup {Len(fs) + 1}
         /\ g.type # "joined" => Joins(Append(fs, g)) = Joins(fs)
         /\ Rekeyed(fs) \/ g.type = "rekeyed" => Rekeyed(Append(fs, g))
<1> DEFINE hs == Append(fs, g)
<1>1. /\ Len(fs) \in Nat /\ DOMAIN fs = 1 .. Len(fs) /\ DOMAIN hs = 1 .. Len(fs) + 1
      /\ hs[Len(fs) + 1] = g /\ \A i \in DOMAIN fs : hs[i] = fs[i]
  OBVIOUS
<1> HIDE DEF hs
<1>2. \A i \in DOMAIN hs : i \in DOMAIN fs \/ i = Len(fs) + 1
  BY <1>1
<1>3. \A i \in DOMAIN fs : i \in DOMAIN hs
  BY <1>1
<1>4. Joins(hs) \subseteq Joins(fs) \cup {Len(fs) + 1}
  BY <1>1, <1>2 DEF Joins
<1>5. g.type # "joined" => Joins(hs) = Joins(fs)
  BY <1>1, <1>2, <1>3 DEF Joins
<1>6. Rekeyed(fs) => Rekeyed(hs)
  BY <1>1, <1>3 DEF Rekeyed
<1>7. g.type = "rekeyed" => Rekeyed(hs)
  <2>1. Len(fs) + 1 \in DOMAIN hs
    BY <1>1
  <2> QED BY <1>1, <2>1 DEF Rekeyed
<1> QED BY <1>4, <1>5, <1>6, <1>7 DEF hs

LEMMA FrameFirst ==
  ASSUME NEW X, NEW fs \in Seq(X), fs # <<>>
  PROVE  /\ Head(fs).type = "joined" => 1 \in Joins(fs)
         /\ \A i \in Joins(Tail(fs)) : i \in Nat \ {0} /\ i + 1 \in Joins(fs)
         /\ Rekeyed(fs) => Head(fs).type = "rekeyed" \/ Rekeyed(Tail(fs))
         /\ \A t : Starts(fs, t) <=> Head(fs).type = t
         /\ FirstOnly(fs) => \A i \in DOMAIN Tail(fs) : Tail(fs)[i].type \notin KeyFrames
<1> DEFINE hs == Tail(fs)
<1>1. /\ Len(fs) \in Nat /\ DOMAIN fs = 1 .. Len(fs) /\ DOMAIN hs = 1 .. Len(fs) - 1
      /\ Head(fs) = fs[1] /\ 1 \in DOMAIN fs
  OBVIOUS
<1>2. \A i \in DOMAIN hs : hs[i] = fs[i + 1]
  OBVIOUS
<1> HIDE DEF hs
<1>3. \A i \in DOMAIN hs : i \in Nat \ {0} /\ i + 1 \in DOMAIN fs /\ i + 1 # 1
  BY <1>1
<1>4. \A i \in Joins(hs) : i \in Nat \ {0} /\ i + 1 \in Joins(fs)
  BY <1>2, <1>3 DEF Joins
<1>5. Rekeyed(fs) => Head(fs).type = "rekeyed" \/ Rekeyed(hs)
  <2>1. ASSUME NEW i \in DOMAIN fs, fs[i].type = "rekeyed", i # 1 PROVE Rekeyed(hs)
    <3>1. i - 1 \in DOMAIN hs /\ i = (i - 1) + 1
      BY <1>1, <2>1
    <3>2. hs[i - 1] = fs[i]
      BY <1>2, <3>1
    <3> QED BY <2>1, <3>1, <3>2 DEF Rekeyed
  <2> QED BY <1>1, <2>1 DEF Rekeyed
<1>6. FirstOnly(fs) => \A i \in DOMAIN hs : hs[i].type \notin KeyFrames
  BY <1>2, <1>3 DEF FirstOnly
<1>7. \A t : Starts(fs, t) <=> Head(fs).type = t
  BY <1>1 DEF Starts
<1> QED BY <1>1, <1>4, <1>5, <1>6, <1>7 DEF hs, Joins

LEMMA NoJoins ==
  Joins(<<>>) = {} /\ ~Rekeyed(<<>>) /\ FirstOnly(<<>>) /\ \A t : ~Starts(<<>>, t)
BY DEF Joins, Rekeyed, FirstOnly, Starts

(* Frames without keys leave it to what the server has.                    *)
LEMMA KeysServed ==
  ASSUME NEW X, NEW fs \in Seq(X), \A i \in DOMAIN fs : fs[i].type \notin KeyFrames, NEW d
  PROVE  /\ FirstOnly(fs) /\ ~Starts(fs, "identify") /\ ~Starts(fs, "rekey")
         /\ \A s : Due(d, fs, s) <=> Holds(d, s)
<1>1. FirstOnly(fs)
  BY DEF FirstOnly
<1>2. fs # <<>> => 1 \in DOMAIN fs
  OBVIOUS
<1>3. fs # <<>> => fs[1].type \notin KeyFrames
  BY <1>2
<1>4. ~Starts(fs, "identify") /\ ~Starts(fs, "rekey")
  BY <1>3 DEF Starts, KeyFrames
<1>5. ASSUME NEW s PROVE Due(d, fs, s) <=> Holds(d, s)
  BY <1>3 DEF Due, Brings, KeyFrames
<1> QED BY <1>1, <1>4, <1>5

(* What there is to show of a connection after a step.                     *)
LEMMA EntryNext ==
  ASSUME NEW c \in Conn,
         data'[c].username # Null => data'[c].roomId \in DOMAIN rooms',
         FirstOnly(up'[c]),
         client'[c].phase = "landing" => up'[c] = <<>> /\ Joins(out'[c]) = {},
         \A i, j \in Joins(out'[c]) : i = j,
         data'[c].roomId = Null => Joins(out'[c]) = {} /\ ~Starts(up'[c], "identify"),
         (data'[c].roomId = Null \/ Joins(out'[c]) # {} \/ Starts(up'[c], "identify"))
           => data'[c].username = Null,
         Joins(out'[c]) # {} => ~Starts(up'[c], "identify"),
         sock'[c] = "closed" => ~Alive(client'[c]),
         Alive(client'[c]) =>
           /\ (data'[c].username # Null \/ Starts(up'[c], "identify"))
                => Due(data'[c], up'[c], Cur(client'[c]))
           /\ client'[c].lobby # Null =>
                /\ ~Starts(up'[c], "identify")
                /\ data'[c].username # Null => Starts(up'[c], "rekey") \/ Rekeyed(out'[c])
  PROVE  Entry(c)'
<1>1. Seated(c)'
  BY DEF Seated, InRoom
<1>2. Enters(c)'
  BY DEF Enters, FirstOnly, Starts, Joins, Alive, Online
<1>3. Booked(c)'
  BY DEF Booked, Alive, Online, Starts, Rekeyed, Due, Brings, Holds, Cur, LastClaim, SealEk,
         RatchetEk, KeyFrames
<1> QED BY <1>1, <1>2, <1>3 DEF Entry

(* A step that passes a connection by, or ends it, or only drops frames    *)
(* for it.                                                                 *)
LEMMA EntryKept ==
  ASSUME NEW c \in Conn, Entry(c), data'[c] = data[c],
         InRoom(c) => data[c].roomId \in DOMAIN rooms',
         client'[c] = client[c] \/ client'[c].phase \in {"gone", "lost"},
         up'[c] = up[c] \/ (up'[c] = <<>> /\ ~Alive(client'[c])),
         Joins(out'[c]) \subseteq Joins(out[c]),
         Rekeyed(out[c]) => Rekeyed(out'[c]) \/ ~Alive(client'[c]),
         sock'[c] = "closed" => sock[c] = "closed" \/ ~Alive(client'[c])
  PROVE  Entry(c)'
<1>1. /\ FirstOnly(up'[c]) /\ \A t : Starts(up'[c], t) => Starts(up[c], t)
      /\ up[c] = <<>> => up'[c] = <<>>
  BY NoJoins DEF Entry, Enters
<1>2. data[c].username # Null => data[c].roomId \in DOMAIN rooms'
  BY DEF Entry, Seated, InRoom
<1>3. client'[c].phase = "landing" => client[c].phase = "landing"
  OBVIOUS
<1>4. Alive(client'[c]) => /\ client'[c] = client[c] /\ Online(c) /\ up'[c] = up[c]
                           /\ Rekeyed(out[c]) => Rekeyed(out'[c])
  BY DEF Alive, Online
<1>5. sock'[c] = "closed" => ~Alive(client'[c])
  BY <1>4 DEF Entry, Enters
<1>6. Alive(client'[c]) =>
           /\ (data[c].username # Null \/ Starts(up'[c], "identify"))
                => Due(data[c], up'[c], Cur(client'[c]))
           /\ client'[c].lobby # Null =>
                /\ ~Starts(up'[c], "identify")
                /\ data[c].username # Null => Starts(up'[c], "rekey") \/ Rekeyed(out'[c])
  BY <1>4 DEF Entry, Booked
<1>7. /\ client[c].phase = "landing" => up[c] = <<>> /\ Joins(out[c]) = {}
      /\ \A i, j \in Joins(out[c]) : i = j
      /\ data[c].roomId = Null => Joins(out[c]) = {} /\ ~Starts(up[c], "identify")
      /\ (data[c].roomId = Null \/ Joins(out[c]) # {} \/ Starts(up[c], "identify"))
           => data[c].username = Null
      /\ Joins(out[c]) # {} => ~Starts(up[c], "identify")
  BY DEF Entry, Enters
<1>8. Joins(out'[c]) # {} => Joins(out[c]) # {}
  OBVIOUS
<1>9. \A i, j \in Joins(out'[c]) : i = j
  BY <1>7
<1>10. /\ client'[c].phase = "landing" => up'[c] = <<>> /\ Joins(out'[c]) = {}
       /\ data[c].roomId = Null => Joins(out'[c]) = {} /\ ~Starts(up'[c], "identify")
       /\ (data[c].roomId = Null \/ Joins(out'[c]) # {} \/ Starts(up'[c], "identify"))
            => data[c].username = Null
       /\ Joins(out'[c]) # {} => ~Starts(up'[c], "identify")
  BY <1>1, <1>3, <1>7, <1>8
<1> QED BY <1>1, <1>2, <1>5, <1>6, <1>9, <1>10, EntryNext

-----------------------------------------------------------------------------
(* The server.                                                             *)

(* The keys, claims and signatures that clients make have the lengths that *)
(* the server asks for.                                                    *)
AllGood ==
  /\ SealKey \cup RatchetKey \subseteq GoodEk
  /\ ClaimEntry \subseteq GoodClaim
  /\ Sid \subseteq GoodSig

(* What a frame of c changes for c: nothing, its room, or its keys.        *)
Told(c, m) ==
  \/ /\ data'[c] = data[c] /\ Joins(out'[c]) = Joins(out[c])
     /\ m.type \in {"ratchet_step", "ek_update", "rekey"} => data[c].username = Null
  \/ /\ m.type = "join" /\ data[c].roomId = Null /\ data'[c].roomId # Null
     /\ data'[c].username = data[c].username
     /\ Joins(out'[c]) \subseteq Joins(out[c]) \cup {Len(out[c]) + 1}
  \/ /\ m.type \in KeyFrames /\ InRoom(c) /\ data'[c].roomId = data[c].roomId
     /\ Joins(out'[c]) = Joins(out[c])
     /\ m.type # "identify" => data[c].username # Null
     /\ \A s : Brings(data[c], m, s) => Holds(data'[c], s)
     /\ m.type = "rekey" => Rekeyed(out'[c])

(* What it changes for the others, and of the rooms and sockets.           *)
Aside(c) ==
  /\ DOMAIN rooms \subseteq DOMAIN rooms'
  /\ \A d \in Conn : /\ d # c => data'[d] = data[d]
                     /\ sock'[d] = "closed" => sock[d] = "closed"

LEMMA StoreTold ==
  ASSUME Held, NEW c \in Conn, NEW e, StoreData(c, e)
  PROVE  data'[c] = e /\ \A d \in Conn : d # c => data'[d] = data[d]
BY DEF StoreData, Held

LEMMA TouchTold ==
  ASSUME NEW c \in Conn, Touch(c)
  PROVE  DOMAIN rooms' = DOMAIN rooms
BY DEF Touch

LEMMA CloseTold ==
  ASSUME IsOn(sock), NEW c \in Conn, UNCHANGED sock \/ CloseSocket(c), NEW d \in Conn,
         sock'[d] = "closed"
  PROVE  sock[d] = "closed"
BY DEF CloseSocket, IsOn

(* Nobody is told of a room but the one that asked.                        *)
LEMMA OutTold ==
  ASSUME NEW m, Relayed(m), NEW d \in Conn, out[d] \in Seq(DownFrame(d))
  PROVE  /\ m.type \notin {"create", "join"} => Joins(out'[d]) = Joins(out[d])
         /\ Rekeyed(out[d]) => Rekeyed(out'[d])
<1>1. CASE out'[d] = out[d]
  BY <1>1
<1>2. ASSUME NEW g, Carried(m, d, g), out'[d] = Append(out[d], g)
      PROVE  /\ m.type \notin {"create", "join"} => Joins(out'[d]) = Joins(out[d])
             /\ Rekeyed(out[d]) => Rekeyed(out'[d])
  <2>1. g \in DownFrame(d) /\ (g.type = "joined" => m.type \in {"create", "join"})
    BY <1>2 DEF Carried
  <2> QED BY <1>2, <2>1, FrameLast
<1> QED BY <1>1, <1>2 DEF Relayed

(* A reply, an error among them.                                           *)
LEMMA ReplyTold ==
  ASSUME IsOn(out), NEW c \in Conn, out[c] \in Seq(DownFrame(c)), NEW g \in DownFrame(c),
         Reply(c, g)
  PROVE  /\ Joins(out'[c]) \subseteq Joins(out[c]) \cup {Len(out[c]) + 1}
         /\ g.type # "joined" => Joins(out'[c]) = Joins(out[c])
         /\ g.type = "rekeyed" => Rekeyed(out'[c])
<1>1. out'[c] = Append(out[c], g)
  BY DEF Reply, IsOn
<1> QED BY <1>1, FrameLast

LEMMA ErrorTold ==
  ASSUME IsOn(out), NEW c \in Conn, out[c] \in Seq(DownFrame(c)),
         NEW why \in {"version_mismatch", "forbidden", "not_found", "room_full",
                      "username_taken"},
         Error(c, why)
  PROVE  Joins(out'[c]) = Joins(out[c])
<1> DEFINE g == [type |-> "error", reason |-> why]
<1>1. g \in DownFrame(c) /\ g.type # "joined"
  BY DEF DownFrame
<1>2. Reply(c, g)
  BY DEF Error
<1> HIDE DEF g
<1> QED BY <1>1, <1>2, ReplyTold

LEMMA CreateTold ==
  ASSUME Held, IsOn(out), IsOn(sock), NEW c \in Conn, out[c] \in Seq(DownFrame(c)),
         NEW m, m.type = "create", HandleCreate(c, m)
  PROVE  Told(c, m) /\ Aside(c)
<1>1. CASE WrongVersion(c, m)
  <2>1. Joins(out'[c]) = Joins(out[c]) /\ UNCHANGED <<rooms, data>> /\ CloseSocket(c)
    BY <1>1, ErrorTold DEF WrongVersion
  <2> QED BY <2>1, CloseTold DEF Told, Aside
<1>2. CASE Error(c, "forbidden") /\ UNCHANGED <<rooms, created, sock, data>>
  <2>1. Joins(out'[c]) = Joins(out[c])
    BY <1>2, ErrorTold
  <2> QED BY <1>2, <2>1, CloseTold DEF Told, Aside
<1>3. ASSUME NEW r \in RoomId \ created,
             rooms' = [x \in DOMAIN rooms \cup {r} |->
                         IF x = r THEN [conns |-> {}, idle |-> 0] ELSE rooms[x]],
             Reply(c, [type |-> "room_created", roomId |-> r, roomSecret |-> r]),
             UNCHANGED <<sock, data>>
      PROVE  Told(c, m) /\ Aside(c)
  <2> DEFINE g == [type |-> "room_created", roomId |-> r, roomSecret |-> r]
  <2>1. g \in DownFrame(c) /\ g.type # "joined" /\ Reply(c, g)
    BY <1>3 DEF DownFrame
  <2> HIDE DEF g
  <2>2. Joins(out'[c]) = Joins(out[c])
    BY <2>1, ReplyTold
  <2>3. DOMAIN rooms \subseteq DOMAIN rooms'
    BY <1>3
  <2> QED BY <1>3, <2>2, <2>3, CloseTold DEF Told, Aside
<1> QED BY <1>1, <1>2, <1>3 DEF HandleCreate

LEMMA JoinTold ==
  ASSUME Held, IsOn(out), IsOn(sock), NEW c \in Conn, out[c] \in Seq(DownFrame(c)),
         NEW m \in UpFrame(c), m.type = "join", HandleJoin(c, m)
  PROVE  Told(c, m) /\ Aside(c)
<1>1. CASE WrongVersion(c, m)
  <2>1. Joins(out'[c]) = Joins(out[c]) /\ UNCHANGED <<rooms, data>> /\ CloseSocket(c)
    BY <1>1, ErrorTold DEF WrongVersion
  <2> QED BY <2>1, CloseTold DEF Told, Aside
<1>2. CASE /\ JoinRefusal(c, m) # "none" /\ Error(c, JoinRefusal(c, m))
           /\ UNCHANGED <<rooms, created, sock, data>>
  <2>1. JoinRefusal(c, m) \in {"forbidden", "not_found", "room_full"}
    BY <1>2 DEF JoinRefusal
  <2>2. Joins(out'[c]) = Joins(out[c])
    BY <1>2, <2>1, ErrorTold
  <2> QED BY <1>2, <2>2, CloseTold DEF Told, Aside
<1>3. CASE /\ JoinRefusal(c, m) = "none"
           /\ rooms' = [rooms EXCEPT ![m.roomId] = [conns |-> @.conns \cup {c}, idle |-> 0]]
           /\ StoreData(c, [data[c] EXCEPT !.roomId = m.roomId])
           /\ Reply(c, [type |-> "joined", members |-> Snapshot(rooms[m.roomId].conns)])
           /\ UNCHANGED sock
  <2>1. m.roomId \in DOMAIN rooms /\ data[c].roomId = Null
    BY <1>3 DEF JoinRefusal
  <2>2. m.roomId # Null
    BY <2>1, NullFresh DEF Held
  <2> DEFINE e == [data[c] EXCEPT !.roomId = m.roomId]
  <2>3. e.roomId = m.roomId /\ e.username = data[c].username
    BY DEF Held, KeyData
  <2> HIDE DEF e
  <2>4. StoreData(c, e)
    BY <1>3 DEF e
  <2>5. data'[c] = e /\ \A d \in Conn : d # c => data'[d] = data[d]
    BY <2>4, StoreTold
  <2> DEFINE M == Snapshot(rooms[m.roomId].conns)
             g == [type |-> "joined", members |-> M]
  <2>6. g \in DownFrame(c)
    <3>1. rooms[m.roomId].conns \in SUBSET Conn
      BY <2>1 DEF Held, Room
    <3>2. M \in SUBSET MemberType /\ IsFiniteSet(M)
      BY <3>1, SnapshotType
    <3> HIDE DEF M
    <3> QED BY <3>2 DEF DownFrame
  <2>7. Reply(c, g)
    BY <1>3
  <2> HIDE DEF g, M
  <2>8. Joins(out'[c]) \subseteq Joins(out[c]) \cup {Len(out[c]) + 1}
    BY <2>6, <2>7, ReplyTold
  <2>9. DOMAIN rooms \subseteq DOMAIN rooms'
    BY <1>3
  <2>10. Told(c, m)
    BY <2>1, <2>2, <2>3, <2>5, <2>8 DEF Told
  <2> QED BY <1>3, <2>5, <2>9, <2>10, CloseTold DEF Aside
<1> QED BY <1>1, <1>2, <1>3 DEF HandleJoin

(* A frame that is dropped, or tells no keys, or only the activity.        *)
LEMMA NothingTold ==
  ASSUME NEW c \in Conn, NEW m, data' = data, Joins(out'[c]) = Joins(out[c]),
         m.type \in {"ratchet_step", "ek_update", "rekey"} => data[c].username = Null,
         DOMAIN rooms' = DOMAIN rooms, IsOn(sock), UNCHANGED sock \/ CloseSocket(c)
  PROVE  Told(c, m) /\ Aside(c)
BY CloseTold DEF Told, Aside

LEMMA IdentifyTold ==
  ASSUME Held, IsOn(out), IsOn(sock), NEW c \in Conn, out[c] \in Seq(DownFrame(c)),
         NEW m \in UpFrame(c), m.type = "identify", HandleIdentify(c, m), Relayed(m)
  PROVE  Told(c, m) /\ Aside(c)
<1> DEFINE u == Canon[m.username]
<1>1. Joins(out'[c]) = Joins(out[c])
  BY OutTold
<1>2. CASE UNCHANGED vars \/ (UNCHANGED <<rooms, created, data, out>> /\ CloseSocket(c))
  BY <1>1, <1>2, NothingTold DEF vars
<1>3. CASE InRoom(c) /\ Touch(c) /\ UNCHANGED <<created, sock, data>>
  BY <1>1, <1>3, TouchTold, NothingTold
<1>4. CASE /\ InRoom(c) /\ Touch(c) /\ UNCHANGED sock
           /\ StoreData(c, [roomId |-> data[c].roomId, username |-> u, ek |-> m.ek,
                            ratchetEk |-> m.ratchetEk, claim |-> m.claim])
  <2> DEFINE e == [roomId |-> data[c].roomId, username |-> u, ek |-> m.ek,
                   ratchetEk |-> m.ratchetEk, claim |-> m.claim]
  <2>1. data'[c] = e /\ \A d \in Conn : d # c => data'[d] = data[d]
    BY <1>4, StoreTold
  <2>2. \A s : Brings(data[c], m, s) => Holds(e, s)
    BY DEF Brings, Holds
  <2>3. e.roomId = data[c].roomId /\ m.type \in KeyFrames
    BY DEF KeyFrames
  <2> HIDE DEF e
  <2>4. Told(c, m)
    BY <1>1, <1>4, <2>1, <2>2, <2>3 DEF Told
  <2> QED BY <1>4, <2>1, <2>4, TouchTold DEF Aside
<1> QED BY <1>2, <1>3, <1>4 DEF HandleIdentify, Drop, Fanout

(* The keys of a member are stored as the frame brings them.               *)
LEMMA KeysTold ==
  ASSUME Held, IsOn(out), IsOn(sock), NEW c \in Conn, out[c] \in Seq(DownFrame(c)),
         NEW m, m.type \in {"ratchet_step", "ek_update", "rekey"}, Relayed(m),
         m.type = "rekey" => Rekeyed(out'[c]),
         Identified(c), Touch(c), UNCHANGED sock,
         NEW ek, NEW rek, NEW claim, StoreKeys(c, ek, rek, claim),
         \A s : Brings(data[c], m, s) =>
                  ek = SealEk(s) /\ rek = RatchetEk(s) /\ claim = LastClaim(s)
  PROVE  Told(c, m) /\ Aside(c)
<1>1. Joins(out'[c]) = Joins(out[c])
  BY OutTold
<1> DEFINE e == [roomId |-> data[c].roomId, username |-> data[c].username,
                 ek |-> ek, ratchetEk |-> rek, claim |-> claim]
<1>2. data'[c] = e /\ \A d \in Conn : d # c => data'[d] = data[d]
  BY StoreTold DEF StoreKeys
<1>3. \A s : Brings(data[c], m, s) => Holds(e, s)
  BY DEF Holds
<1>4. e.roomId = data[c].roomId /\ m.type \in KeyFrames
  BY DEF KeyFrames
<1> HIDE DEF e
<1>5. InRoom(c) /\ data[c].username # Null
  BY DEF Identified
<1>6. Told(c, m)
  BY <1>1, <1>2, <1>3, <1>4, <1>5 DEF Told
<1> QED BY <1>2, <1>6, TouchTold DEF Aside

(* One that is in its room without a name tells the server nothing.        *)
LEMMA StrangerTold ==
  ASSUME IsOn(sock), NEW c \in Conn, Seated(c), ~Identified(c), Drop, NEW m
  PROVE  Told(c, m) /\ Aside(c)
<1>1. UNCHANGED vars /\ data[c].username = Null
  BY DEF Seated, Identified, Drop
<1> QED BY <1>1, NothingTold DEF vars

LEMMA StepTold ==
  ASSUME AllGood, Held, IsOn(out), IsOn(sock), NEW c \in Conn, Seated(c),
         out[c] \in Seq(DownFrame(c)), NEW m \in UpFrame(c), m.type = "ratchet_step",
         HandleRatchetStep(c, m), Relayed(m)
  PROVE  Told(c, m) /\ Aside(c)
<1>1. RatchetStepValid(m)
  BY UpFields DEF AllGood, RatchetStepValid
<1>2. \A s : Brings(data[c], m, s) =>
        data[c].ek = SealEk(s) /\ m.newEk = RatchetEk(s) /\ m.claim = LastClaim(s)
  BY DEF Brings
<1>3. CASE ~Identified(c) /\ Drop
  BY <1>3, StrangerTold
<1>4. CASE /\ Identified(c) /\ Touch(c) /\ StoreKeys(c, data[c].ek, m.newEk, m.claim)
           /\ UNCHANGED sock
  BY <1>2, <1>4, KeysTold
<1> QED BY <1>1, <1>3, <1>4 DEF HandleRatchetStep, Fanout

LEMMA EkTold ==
  ASSUME AllGood, Held, IsOn(out), IsOn(sock), NEW c \in Conn, Seated(c),
         out[c] \in Seq(DownFrame(c)), NEW m \in UpFrame(c), m.type = "ek_update",
         HandleEkUpdate(c, m), Relayed(m)
  PROVE  Told(c, m) /\ Aside(c)
<1>1. m.claim \in GoodClaim
  BY UpFields DEF AllGood
<1>2. \A s : Brings(data[c], m, s) =>
        data[c].ek = SealEk(s) /\ m.ek = RatchetEk(s) /\ m.claim = LastClaim(s)
  BY DEF Brings
<1>3. CASE ~Identified(c) /\ Drop
  BY <1>3, StrangerTold
<1>4. CASE /\ Identified(c) /\ Touch(c) /\ StoreKeys(c, data[c].ek, m.ek, m.claim)
           /\ UNCHANGED sock
  BY <1>2, <1>4, KeysTold
<1> QED BY <1>1, <1>3, <1>4 DEF HandleEkUpdate, Fanout

LEMMA RekeyTold ==
  ASSUME AllGood, Held, IsOn(out), IsOn(sock), NEW c \in Conn, Seated(c),
         out[c] \in Seq(DownFrame(c)), NEW m \in UpFrame(c), m.type = "rekey",
         HandleRekey(c, m), Relayed(m)
  PROVE  Told(c, m) /\ Aside(c)
<1>1. m.claim \in GoodClaim
  BY UpFields DEF AllGood
<1>2. \A s : Brings(data[c], m, s) =>
        m.ek = SealEk(s) /\ m.ratchetEk = RatchetEk(s) /\ m.claim = LastClaim(s)
  BY DEF Brings
<1>3. CASE ~Identified(c) /\ Drop
  BY <1>3, StrangerTold
<1>4. CASE /\ Identified(c) /\ Touch(c) /\ StoreKeys(c, m.ek, m.ratchetEk, m.claim)
           /\ Reply(c, [type |-> "rekeyed"]) /\ UNCHANGED sock
  <2>1. [type |-> "rekeyed"] \in DownFrame(c)
    BY DEF DownFrame
  <2>2. Rekeyed(out'[c])
    BY <1>4, <2>1, ReplyTold
  <2> QED BY <1>2, <1>4, <2>2, KeysTold
<1> QED BY <1>1, <1>3, <1>4 DEF HandleRekey

LEMMA SeedTold ==
  ASSUME Held, IsOn(out), IsOn(sock), NEW c \in Conn, out[c] \in Seq(DownFrame(c)),
         NEW m, m.type = "relay", HandleRelay(c, m), Relayed(m)
  PROVE  Told(c, m) /\ Aside(c)
<1>1. Joins(out'[c]) = Joins(out[c])
  BY OutTold
<1>2. UNCHANGED vars \/ (Touch(c) /\ UNCHANGED <<created, sock, data>>)
  BY DEF HandleRelay, Drop, Fanout
<1> QED BY <1>1, <1>2, TouchTold, NothingTold DEF vars

(* Whatever the frame.                                                     *)
LEMMA DispatchTold ==
  ASSUME AllGood, Held, IsOn(out), IsOn(sock), NEW c \in Conn, Seated(c),
         \A d \in Conn : out[d] \in Seq(DownFrame(d)), NEW m \in UpFrame(c), Dispatch(c, m)
  PROVE  /\ Told(c, m) /\ Aside(c)
         /\ \A d \in Conn : /\ d # c => Joins(out'[d]) = Joins(out[d])
                            /\ Rekeyed(out[d]) => Rekeyed(out'[d])
<1>1. Relayed(m) /\ out[c] \in Seq(DownFrame(c))
  BY DispatchRelayed
<1>2. Told(c, m) /\ Aside(c)
  BY <1>1, CreateTold, JoinTold, IdentifyTold, SeedTold, StepTold, EkTold, RekeyTold
  DEF Dispatch
<1>3. ASSUME NEW d \in Conn
      PROVE  /\ d # c => Joins(out'[d]) = Joins(out[d])
             /\ Rekeyed(out[d]) => Rekeyed(out'[d])
  <2>1. d # c /\ m.type \in {"create", "join"} => out'[d] = out[d]
    BY RepliesOnly
  <2> QED BY <1>1, <2>1, OutTold
<1> QED BY <1>2, <1>3

-----------------------------------------------------------------------------
(* The steps.                                                              *)

(* A connection is closed with frames unread.                              *)
LEMMA LoseEntered ==
  ASSUME SnapInv, NEW c \in Conn, Lose(c), UNCHANGED <<up, client, web>>, NEW d \in Conn
  PROVE  Entry(d)'
<1>1. /\ out' = [out EXCEPT ![c] = <<>>] /\ IsOn(out) /\ Entry(d) /\ Entry(c)
      /\ sock[c] = "closed" /\ UNCHANGED <<rooms, sock, data>>
  BY TypesNow DEF Lose, SnapInv, RotateInv
<1>2. ~Alive(client[c])
  BY <1>1 DEF Entry, Enters, Online, Alive
<1>3. out'[d] = out[d] \/ (d = c /\ out'[d] = <<>>)
  BY <1>1 DEF IsOn
<1>4. Joins(out'[d]) \subseteq Joins(out[d])
  BY <1>3, NoJoins
<1>5. Rekeyed(out[d]) => Rekeyed(out'[d]) \/ ~Alive(client'[d])
  BY <1>2, <1>3
<1> QED BY <1>1, <1>4, <1>5, EntryKept DEF InRoom

(* A client loses its connection or leaves.                                *)
LEMMA DisconnectEntered ==
  ASSUME SnapInv, NEW c \in Conn, Disconnect(c), NEW d \in Conn
  PROVE  Entry(d)'
<1> DEFINE k == client[c]
           q == IF InBrowser(c) THEN W!OnWsClose(k) ELSE T!Ended(k)
<1>1. /\ k.phase # "landing" /\ UNCHANGED <<rooms, sock, data>> /\ UNCHANGED out
      /\ UNCHANGED up
      /\ client' = [client EXCEPT ![c] = q] /\ IsOn(client) /\ KeyInv /\ Entry(d)
  BY TypesNow DEF Disconnect, Online, SnapInv, RotateInv, vars
<1>2. k \in ClientType
  BY <1>1, OnlineOK DEF ClientOK
<1>3. q.phase \in {"gone", "lost"}
  <2>1. W!OnError(k).phase = "gone"
    BY <1>2 DEF W!OnError, ClientType
  <2>2. W!OnWsClose(k).phase \in {"gone", "lost"}
    BY <1>2, <2>1 DEF W!OnWsClose, ClientType
  <2>3. T!Ended(k).phase = "gone"
    BY <1>2 DEF T!Ended, ClientType
  <2> HIDE DEF k
  <2> QED BY <2>2, <2>3
<1> HIDE DEF q
<1>4. client'[d] = client[d] \/ client'[d].phase \in {"gone", "lost"}
  BY <1>1, <1>3 DEF IsOn
<1> QED BY <1>1, <1>4, EntryKept DEF InRoom

(* The server notices that a connection has ended.                         *)
LEMMA HangupEntered ==
  ASSUME SnapInv, NEW c \in Conn, Hangup(c), NEW d \in Conn
  PROVE  Entry(d)'
<1> DEFINE m == [type |-> "close"]
<1>1. /\ KeyInv /\ Entry(d) /\ Held /\ IsOn(out) /\ IsOn(up) /\ IsOn(sock)
      /\ out[d] \in Seq(DownFrame(d))
  BY TypesNow DEF SnapInv, RotateInv
<1>2. /\ HandleClose(c) /\ up' = [up EXCEPT ![c] = <<>>] /\ UNCHANGED client
      /\ client[c].phase \in {"gone", "lost"}
  BY DEF Hangup
<1>9. /\ UNCHANGED data /\ sock' = [sock EXCEPT ![c] = "closed"]
      /\ DOMAIN rooms' = DOMAIN rooms
  BY <1>2 DEF HandleClose, Fanout
<1>3. ~Alive(client[c])
  BY <1>2 DEF Alive
<1>4. m.type \notin {"create", "join"}
  OBVIOUS
<1> HIDE DEF m
<1>5. Relayed(m)
  BY <1>1, <1>2, CloseRelayed
<1>6. Joins(out'[d]) = Joins(out[d]) /\ (Rekeyed(out[d]) => Rekeyed(out'[d]))
  BY <1>1, <1>4, <1>5, OutTold
<1>7. up'[d] = up[d] \/ (d = c /\ up'[d] = <<>>)
  BY <1>1, <1>2 DEF IsOn
<1>8. sock'[d] = sock[d] \/ d = c
  BY <1>1, <1>9 DEF IsOn
<1> QED BY <1>1, <1>2, <1>3, <1>6, <1>7, <1>8, <1>9, EntryKept DEF InRoom

(* The server handles a frame: what was due of the keys it has now.        *)
LEMMA ServeEntered ==
  ASSUME AllGood, SnapInv, NEW c \in Conn, Serve(c), NEW d \in Conn
  PROVE  Entry(d)'
<1> DEFINE m == Head(up[c])
           fs == Tail(up[c])
           k == client[c]
<1>1. /\ Entry(d) /\ Entry(c) /\ up[c] # <<>> /\ up[c] \in Seq(UpFrame(c)) /\ Held
      /\ IsOn(out) /\ IsOn(up) /\ IsOn(sock)
      /\ \A e \in Conn : out[e] \in Seq(DownFrame(e))
  BY TypesNow DEF Serve, SnapInv, RotateInv
<1>2. m \in UpFrame(c)
  BY <1>1, FrameTaken
<1>3. Dispatch(c, m) /\ up' = [up EXCEPT ![c] = fs] /\ UNCHANGED client
  BY DEF Serve
<1>4. /\ \A t : Starts(up[c], t) <=> m.type = t
      /\ \A i \in DOMAIN fs : fs[i].type \notin KeyFrames
      /\ fs \in Seq(UpFrame(c))
  <2>1. FirstOnly(up[c])
    BY <1>1 DEF Entry, Enters
  <2> QED BY <1>1, <2>1, FrameFirst
<1>5. m = up[c][1]
  BY <1>1
<1> HIDE DEF m, fs, k
<1>6. /\ Told(c, m) /\ Aside(c)
      /\ \A e \in Conn : /\ e # c => Joins(out'[e]) = Joins(out[e])
                         /\ Rekeyed(out[e]) => Rekeyed(out'[e])
  <2>1. Seated(c)
    BY <1>1 DEF Entry
  <2> QED BY <1>1, <1>2, <1>3, <2>1, DispatchTold
<1>7. up'[c] = fs /\ (d # c => up'[d] = up[d])
  BY <1>1, <1>3 DEF IsOn
<1>8. CASE d # c
  BY <1>1, <1>3, <1>6, <1>7, <1>8, EntryKept DEF Aside, InRoom
<1>9. Entry(c)'
  <2>1. /\ FirstOnly(fs) /\ ~Starts(fs, "identify") /\ ~Starts(fs, "rekey")
        /\ \A s : Due(data'[c], fs, s) <=> Holds(data'[c], s)
    BY <1>4, KeysServed
  <2>2. k.phase # "landing" /\ client'[c] = k
    BY <1>1, <1>3 DEF Entry, Enters, k
  <2>3. sock'[c] = "closed" => ~Alive(k)
    BY <1>1, <1>6 DEF Entry, Enters, Aside, Online, Alive, k
  <2>4. /\ \A i, j \in Joins(out[c]) : i = j
        /\ data[c].roomId = Null => Joins(out[c]) = {} /\ m.type # "identify"
        /\ (data[c].roomId = Null \/ Joins(out[c]) # {} \/ m.type = "identify")
             => data[c].username = Null
        /\ Joins(out[c]) # {} => m.type # "identify"
        /\ data[c].username # Null => data[c].roomId \in DOMAIN rooms
    BY <1>1, <1>4 DEF Entry, Enters, Seated, InRoom
  <2>5. ASSUME Alive(k)
        PROVE  /\ (data[c].username # Null \/ m.type = "identify")
                    => Brings(data[c], m, Cur(k))
               /\ k.lobby # Null =>
                    /\ m.type # "identify"
                    /\ data[c].username # Null => m.type = "rekey" \/ Rekeyed(out[c])
    BY <1>1, <1>4, <1>5, <2>5 DEF Entry, Booked, Online, Alive, Due, k
  <2>6. CASE /\ data'[c] = data[c] /\ Joins(out'[c]) = Joins(out[c])
             /\ m.type \in {"ratchet_step", "ek_update", "rekey"} => data[c].username = Null
    <3>1. data[c].username # Null => m.type \notin KeyFrames
      BY <2>4, <2>6 DEF KeyFrames
    <3>2. Alive(k) /\ data[c].username # Null => Holds(data'[c], Cur(k))
      BY <2>5, <2>6, <3>1 DEF Brings
    <3>3. data[c].username # Null => data'[c].roomId \in DOMAIN rooms'
      BY <1>6, <2>4, <2>6 DEF Aside
    <3>4. Alive(k) /\ k.lobby # Null /\ data[c].username # Null => Rekeyed(out'[c])
      BY <1>6, <2>5, <3>1 DEF KeyFrames
    <3> QED BY <1>7, <2>1, <2>2, <2>3, <2>4, <2>6, <3>2, <3>3, <3>4, EntryNext
  <2>7. CASE /\ m.type = "join" /\ data[c].roomId = Null /\ data'[c].roomId # Null
             /\ data'[c].username = data[c].username
             /\ Joins(out'[c]) \subseteq Joins(out[c]) \cup {Len(out[c]) + 1}
    <3>1. data'[c].username = Null /\ \A i, j \in Joins(out'[c]) : i = j
      BY <2>4, <2>7
    <3> QED BY <1>7, <2>1, <2>2, <2>3, <2>7, <3>1, EntryNext
  <2>8. CASE /\ m.type \in KeyFrames /\ InRoom(c) /\ data'[c].roomId = data[c].roomId
             /\ Joins(out'[c]) = Joins(out[c])
             /\ m.type # "identify" => data[c].username # Null
             /\ \A s : Brings(data[c], m, s) => Holds(data'[c], s)
             /\ m.type = "rekey" => Rekeyed(out'[c])
    <3>1. data[c].roomId # Null /\ Joins(out[c]) = {}
      BY <2>4, <2>8
    <3>2. data'[c].roomId \in DOMAIN rooms'
      BY <1>6, <2>8 DEF Aside, InRoom
    <3>3. Alive(k) => Holds(data'[c], Cur(k))
      BY <2>5, <2>8
    <3>4. Alive(k) /\ k.lobby # Null => Rekeyed(out'[c])
      BY <1>6, <2>5, <2>8
    <3> QED BY <1>7, <2>1, <2>2, <2>3, <2>8, <3>1, <3>2, <3>3, <3>4, EntryNext
  <2> QED BY <1>6, <2>6, <2>7, <2>8 DEF Told
<1> QED BY <1>8, <1>9

(* One client takes an answer, with or without a frame read, while the     *)
(* others look on.                                                         *)
LEMMA TakeEntered ==
  ASSUME SnapInv, NEW c \in Conn, NEW a, Take(c, a), up[c] = <<>>, NEW t,
         UNCHANGED <<rooms, sock, data>>,
         a.sends \in Seq(UpFrame(c)), ClientOK(c, a.client),
         Tells(data[c], client[c], t, a), Online(c),
         t = "joined" => 1 \in Joins(out[c]) /\ client[c].lobby = Null,
         Rekeyed(out[c]) => t = "rekeyed" \/ Rekeyed(out'[c]),
         Joins(out[c]) # {} /\ Joins(out'[c]) # {} => t # "joined",
         \A i, j \in Joins(out'[c]) : i = j,
         Joins(out[c]) = {} => Joins(out'[c]) = {},
         \A d \in Conn : d # c => out'[d] = out[d],
         NEW d \in Conn
  PROVE  Entry(d)'
<1>1. Entry(d) /\ Entry(c) /\ IsOn(up) /\ IsOn(client)
  BY TypesNow DEF SnapInv, RotateInv
<1>2. /\ client'[c] = a.client /\ up'[c] = up[c] \o a.sends
      /\ d # c => client'[d] = client[d] /\ up'[d] = up[d]
  BY <1>1 DEF Take, IsOn
<1>3. up'[c] = a.sends
  BY <1>2
<1>4. CASE d # c
  BY <1>1, <1>2, <1>4, EntryKept DEF InRoom
<1>5. CASE d = c
  <2> DEFINE k == client[c]
             q == a.client
  <2>1. q.phase # "landing"
    BY DEF ClientOK, ClientType
  <2>2. /\ Alive(k) /\ sock[c] # "closed"
        /\ data[c].roomId = Null => Joins(out[c]) = {}
        /\ (data[c].roomId = Null \/ Joins(out[c]) # {}) => data[c].username = Null
        /\ data[c].username # Null => data[c].roomId \in DOMAIN rooms
    BY <1>1 DEF Entry, Enters, Seated, InRoom, Online, Alive
  <2>3. /\ data[c].username # Null => Holds(data[c], Cur(k))
        /\ k.lobby # Null /\ data[c].username # Null => Rekeyed(out[c])
    BY <1>1, NoJoins DEF Entry, Booked, Due
  <2> HIDE DEF k
  <2>4. /\ FirstOnly(a.sends)
        /\ Starts(a.sends, "identify") => t = "joined" /\ q.lobby = k.lobby
        /\ q.lobby # Null => Starts(a.sends, "rekey") \/ (k.lobby # Null /\ t # "rekeyed")
        /\ (Alive(q) /\ (Holds(data[c], Cur(k)) \/ Starts(a.sends, "identify")))
             => Due(data[c], a.sends, Cur(q))
    BY DEF Tells, k
  <2> HIDE DEF q
  <2>5. t = "joined" => /\ Joins(out[c]) # {} /\ k.lobby = Null /\ data[c].roomId # Null
                        /\ data[c].username = Null /\ Joins(out'[c]) = {}
    BY <2>2 DEF k
  <2>6. client'[c] = q
    BY <1>2 DEF q
  <2>7. q.lobby # Null =>
          /\ ~Starts(a.sends, "identify")
          /\ data[c].username # Null => Starts(a.sends, "rekey") \/ Rekeyed(out'[c])
    BY <2>3, <2>4, <2>5
  <2>8. (Alive(q) /\ (data[c].username # Null \/ Starts(a.sends, "identify")))
          => Due(data[c], a.sends, Cur(q))
    BY <2>3, <2>4
  <2>9. Entry(c)'
    BY <1>3, <2>1, <2>2, <2>4, <2>5, <2>6, <2>7, <2>8, EntryNext DEF q
  <2> QED BY <1>5, <2>9
<1> QED BY <1>4, <1>5

(* The user rotates.                                                       *)
LEMMA RotateEntered ==
  ASSUME SnapInv, NEW c \in Conn, Rotate(c), NEW d \in Conn
  PROVE  Entry(d)'
<1> DEFINE k == client[c]
<1>1. PICK a \in RotateKeys(k) : Take(c, a)
  BY DEF Rotate
<1>2. /\ KeyInv /\ Ordered(c) /\ k.phase = "ready" /\ k.peers # {} /\ up[c] = <<>>
      /\ UNCHANGED out /\ UNCHANGED <<rooms, sock, data>> /\ Entry(c)
  BY DEF Rotate, SnapInv, RotateInv, vars
<1>3. ClientOK(c, k) /\ Keys(Sessions, UnderWay, Sealed) /\ Sessions[c] = k.session
  BY <1>2, OnlineOK, TypesNow
<1>4. Lawful(c, Sessions, UnderWay, Sealed, a)
  BY <1>1, <1>3, RotateLawful
<1>5. k.lobby = Null
  <2>1. k.lobby # Null => ~InBrowser(c)
    BY <1>3 DEF ClientOK
  <2>2. ~InBrowser(c) => ~k.reconnect
    BY <1>2 DEF Ordered, OneEntry
  <2>3. ~k.reconnect => k.lobby = Null
    BY <1>2 DEF Ordered, Whole
  <2> QED BY <2>1, <2>2, <2>3
<1>6. Tells(data[c], k, "none", a)
  <2> HIDE DEF k
  <2> QED BY <1>1, <1>3, <1>5, RotateTells
<1>7. a.sends \in Seq(UpFrame(c)) /\ ClientOK(c, a.client)
  BY <1>4 DEF Lawful
<1>8. Online(c) /\ \A i, j \in Joins(out[c]) : i = j
  BY <1>2 DEF Online, Entry, Enters
<1> QED BY <1>1, <1>2, <1>6, <1>7, <1>8, TakeEntered

(* A client reads a frame.                                                 *)
LEMMA ReadEntered ==
  ASSUME SnapInv, NEW c \in Conn, Read(c), NEW d \in Conn
  PROVE  Entry(d)'
<1> DEFINE k == client[c]
           m == Head(out[c])
           told == Tail(out[c])
<1>1. PICK a \in Reactions(c, m) : Take(c, a)
  BY DEF Read
<1>2. /\ KeyInv /\ Ordered(c) /\ Entry(c) /\ Alive(k) /\ Online(c)
      /\ up[c] = <<>> /\ out[c] # <<>> /\ out' = [out EXCEPT ![c] = Tail(@)]
      /\ UNCHANGED <<rooms, sock, data>>
  BY DEF Read, Online, Alive, Deliver, SnapInv, RotateInv
<1>3. /\ ClientOK(c, k) /\ Keys(Sessions, UnderWay, Sealed) /\ Sessions[c] = k.session
      /\ Arrives(c, UnderWay, Sealed, m) /\ Lawful(c, Sessions, UnderWay, Sealed, a)
  BY <1>1, <1>2, ReadLawful
<1>4. out[c] \in Seq(DownFrame(c)) /\ IsOn(out)
  BY <1>2, TypesNow
<1>5. /\ m.type \in {"room_created", "joined"} => 1 \in Grants(out[c])
      /\ m.type = "joined" => 1 \in Joins(out[c])
      /\ \A i \in Joins(told) : i \in Nat \ {0} /\ i + 1 \in Joins(out[c])
      /\ Rekeyed(out[c]) => m.type = "rekeyed" \/ Rekeyed(told)
  BY <1>2, <1>4, GrantTaken, FrameFirst
<1>6. out'[c] = told /\ \A x \in Conn : x # c => out'[x] = out[x]
  BY <1>2, <1>4 DEF IsOn
<1>7. a.sends \in Seq(UpFrame(c)) /\ ClientOK(c, a.client)
  BY <1>3 DEF Lawful
<1>8. Whole(k) /\ (~InBrowser(c) => OneEntry(k, <<>>, out[c]))
  BY <1>2 DEF Ordered
<1>9. \A i, j \in Joins(out[c]) : i = j
  BY <1>2 DEF Entry, Enters
<1> HIDE DEF k, m, told
<1>10. m.type = "joined" => (~InBrowser(c) => k.phase = "joining") /\ k.lobby = Null
  <2>1. CASE InBrowser(c)
    BY <1>3, <2>1 DEF ClientOK
  <2>2. CASE ~InBrowser(c) /\ m.type = "joined"
    <3>1. OneEntry(k, <<>>, out[c]) /\ 1 \in Grants(out[c])
      BY <1>5, <1>8, <2>2
    <3>2. k.phase = "joining" /\ ~k.reconnect
      BY <1>2, <3>1 DEF OneEntry, Alive
    <3> QED BY <1>8, <3>2 DEF Whole
  <2> QED BY <2>1, <2>2
<1>11. Tells(data[c], k, m.type, a)
  <2>1. CASE InBrowser(c)
    <3>1. a \in W!Reactions(k, m)
      BY <1>1, <2>1 DEF Reactions, k, m
    <3> QED BY <1>3, <2>1, <3>1, WebTells
  <2>2. CASE ~InBrowser(c)
    <3>1. a \in T!Reactions(k, m)
      BY <1>1, <2>2 DEF Reactions, k, m
    <3>2. ~k.reconnect
      BY <1>8, <2>2 DEF OneEntry
    <3> QED BY <1>2, <1>3, <1>8, <1>10, <2>2, <3>1, <3>2, TerminalTells
  <2> QED BY <2>1, <2>2
<1>12. /\ \A i, j \in Joins(told) : i = j
       /\ Joins(out[c]) = {} => Joins(told) = {}
       /\ m.type = "joined" => Joins(told) = {}
  <2>1. ASSUME NEW i \in Joins(told), NEW j \in Joins(told) PROVE i = j
    <3>1. i \in Nat /\ j \in Nat /\ i + 1 = j + 1
      BY <1>5, <1>9
    <3> QED BY <3>1
  <2>2. ASSUME m.type = "joined", NEW i \in Joins(told) PROVE FALSE
    <3>1. i \in Nat \ {0} /\ i + 1 = 1
      BY <1>5, <1>9, <2>2
    <3> QED BY <3>1
  <2> QED BY <1>5, <2>1, <2>2
<1> QED BY <1>1, <1>2, <1>5, <1>6, <1>7, <1>10, <1>11, <1>12, TakeEntered DEF k

(* A connection is opened; what an earlier one of the user was to resume   *)
(* is given up.                                                            *)
LEMMA BeginEntered ==
  ASSUME SnapInv, NEW c \in Conn, client[c].phase = "landing", Open(c),
         NEW q, \/ q = client[c]
                \/ \E k \in ClientType : q = W!AttemptReconnect(client[c], k),
         NEW frame, frame.type \notin KeyFrames,
         Begin(c, q, frame), NEW d \in Conn
  PROVE  Entry(d)'
<1> DEFINE j == [q EXCEPT !.phase = "joining"]
<1>1. /\ KeyInv /\ Entry(c) /\ Entry(d) /\ IsOn(client) /\ IsOn(up) /\ IsOn(sock) /\ Held
      /\ client[c] = Start(<<c, 0>>, UserOf[c])
  BY LandingOK, TypesNow DEF SnapInv, RotateInv
<1>2. j.phase = "joining"
  BY <1>1, StartWhole
<1>3. /\ UNCHANGED <<rooms, out>> /\ sock' = [sock EXCEPT ![c] = "open"]
      /\ StoreData(c, Blank)
  BY DEF Open
<1>4. data'[c] = Blank /\ (d # c => data'[d] = data[d])
  BY <1>1, <1>3, StoreTold
<1>5. sock'[d] = sock[d] \/ sock'[d] = "open"
  BY <1>1, <1>3 DEF IsOn
<1> HIDE DEF j
<1>6. /\ client'[c] = j /\ up'[c] = up[c] \o <<frame>>
      /\ d # c => up'[d] = up[d]
      /\ d # c => \/ client'[d] = client[d]
                  \/ client[d].phase = "lost" /\ client'[d] = [client[d] EXCEPT !.phase = "gone"]
  BY <1>1 DEF Begin, IsOn, j
<1>7. CASE d = c
  <2>1. up[c] = <<>> /\ Joins(out[c]) = {}
    BY <1>1 DEF Entry, Enters
  <2>2. up'[c] = <<frame>>
    BY <1>6, <2>1
  <2>3. FirstOnly(<<frame>>) /\ (Starts(<<frame>>, "identify") <=> frame.type = "identify")
    BY DEF FirstOnly, Starts
  <2>4. frame.type # "identify"
    BY DEF KeyFrames
  <2>5. Blank.username = Null /\ Blank.roomId = Null
    BY DEF Blank
  <2>6. sock'[c] = "open"
    BY <1>1, <1>3, <1>5, <1>7 DEF Open, IsOn
  <2> QED BY <1>2, <1>3, <1>4, <1>6, <1>7, <2>1, <2>2, <2>3, <2>4, <2>5, <2>6, EntryNext
<1>8. CASE d # c
  <2>1. client'[d] = client[d] \/ client'[d].phase = "gone"
    <3>1. client[d].phase = "lost" => client[d] \in ClientType
      BY <1>1, OnlineOK DEF ClientOK
    <3> QED BY <1>6, <1>8, <3>1 DEF ClientType
  <2> QED BY <1>1, <1>3, <1>4, <1>5, <1>6, <1>8, <2>1, EntryKept DEF InRoom
<1> QED BY <1>7, <1>8

LEMMA DialEntered ==
  ASSUME SnapInv, NEW c \in Conn, Dial(c), NEW d \in Conn
  PROVE  Entry(d)'
<1>1. client[c].phase = "landing" /\ Open(c) /\ KeyInv
  BY DEF Dial, SnapInv, RotateInv
<1>2. CreateFrame.type \notin KeyFrames /\ \A r : JoinFrame(r).type \notin KeyFrames
  BY DEF CreateFrame, JoinFrame, KeyFrames
<1>3. CASE Begin(c, client[c], CreateFrame)
  BY <1>1, <1>2, <1>3, BeginEntered
<1>4. ASSUME NEW r \in DOMAIN rooms,
             \/ Begin(c, client[c], JoinFrame(r))
             \/ \E e \in Conn :
                  /\ UserOf[e] = UserOf[c] /\ MayResume(e)
                  /\ Begin(c, W!AttemptReconnect(client[c], client[e]), JoinFrame(r))
      PROVE  Entry(d)'
  <2>1. CASE Begin(c, client[c], JoinFrame(r))
    BY <1>1, <1>2, <2>1, BeginEntered
  <2>2. ASSUME NEW e \in Conn, MayResume(e),
               Begin(c, W!AttemptReconnect(client[c], client[e]), JoinFrame(r))
        PROVE  Entry(d)'
    <3>1. client[e] \in ClientType
      BY <1>1, <2>2, OnlineOK DEF MayResume, ClientOK
    <3> DEFINE q == W!AttemptReconnect(client[c], client[e])
    <3>2. \E k \in ClientType : q = W!AttemptReconnect(client[c], k)
      BY <3>1
    <3> HIDE DEF q
    <3>3. Begin(c, q, JoinFrame(r))
      BY <2>2 DEF q
    <3> QED BY <1>1, <1>2, <3>2, <3>3, BeginEntered
  <2> QED BY <1>4, <2>1, <2>2
<1> QED BY <1>3, <1>4 DEF Dial

(* At first nobody is in a room and nothing is under way.                  *)
LEMMA SnapInvFirst ==
  RoomInit => SnapInv
<1> SUFFICES ASSUME RoomInit PROVE SnapInv
  OBVIOUS
<1>1. RotateInv
  BY RotateInvFirst
<1>2. IsOn(sock)
  BY DEF RoomInit, Init, IsOn
<1>3. ASSUME NEW c \in Conn PROVE Entry(c)
  <2>1. /\ client[c] = Start(<<c, 0>>, UserOf[c]) /\ up[c] = <<>> /\ out[c] = <<>>
        /\ sock[c] = "new" /\ data[c] = Blank
    BY <1>3 DEF RoomInit, Init
  <2>2. data[c].username = Null /\ data[c].roomId = Null
    BY <2>1 DEF Blank
  <2>3. client[c].phase = "landing"
    BY <2>1 DEF Start
  <2> QED BY <2>1, <2>2, <2>3, NoJoins DEF Entry, Seated, Enters, Booked, Online
<1> QED BY <1>1, <1>2, <1>3 DEF SnapInv

(* Every step keeps SnapInv.                                               *)
LEMMA SnapInvStep ==
  ASSUME AllGood
  PROVE  SnapInv /\ [RoomNext]_roomVars => SnapInv'
<1> SUFFICES ASSUME SnapInv, [RoomNext]_roomVars PROVE SnapInv'
  OBVIOUS
<1>1. RotateInv'
  BY RotateInvStep DEF SnapInv
<1>2. ASSUME NEW d \in Conn PROVE Entry(d)'
  <2>1. ASSUME NEW c \in Conn, Dial(c) PROVE Entry(d)'
    BY <2>1, DialEntered
  <2>2. ASSUME NEW c \in Conn, Read(c) PROVE Entry(d)'
    BY <2>2, ReadEntered
  <2>3. ASSUME NEW c \in Conn, Rotate(c) PROVE Entry(d)'
    BY <2>3, RotateEntered
  <2>4. ASSUME NEW c \in Conn, Disconnect(c) PROVE Entry(d)'
    BY <2>4, DisconnectEntered
  <2>5. ASSUME NEW c \in Conn, Serve(c) PROVE Entry(d)'
    BY <2>5, ServeEntered
  <2>6. ASSUME NEW c \in Conn, Hangup(c) PROVE Entry(d)'
    BY <2>6, HangupEntered
  <2>7. ASSUME NEW c \in Conn, Lose(c) /\ UNCHANGED <<up, client, web, rotations>>
        PROVE  Entry(d)'
    BY <2>7, LoseEntered
  <2>8. CASE UNCHANGED roomVars
    <3>1. Entry(d) /\ UNCHANGED <<rooms, sock, data>> /\ UNCHANGED <<up, client>>
          /\ UNCHANGED out
      BY <2>8 DEF roomVars, SnapInv
    <3> QED BY <3>1, EntryKept DEF InRoom
  <2> QED BY <2>1, <2>2, <2>3, <2>4, <2>5, <2>6, <2>7, <2>8 DEF RoomNext
<1>3. IsOn(sock')
  <2>1. ASSUME NEW c \in Conn, Dial(c) PROVE IsOn(sock')
    BY <2>1 DEF Dial, Open, IsOn, SnapInv
  <2>2. ASSUME NEW c \in Conn, Read(c) \/ Lose(c) \/ Rotate(c) \/ Disconnect(c)
        PROVE  IsOn(sock')
    BY <2>2 DEF Read, Deliver, Lose, Rotate, Disconnect, vars, IsOn, SnapInv
  <2>3. ASSUME NEW c \in Conn, Hangup(c) PROVE IsOn(sock')
    <3>1. HandleClose(c)
      BY <2>3 DEF Hangup
    <3>2. sock' = [sock EXCEPT ![c] = "closed"]
      BY <3>1 DEF HandleClose, Fanout
    <3> QED BY <3>2 DEF IsOn, SnapInv
  <2>4. ASSUME NEW c \in Conn, Serve(c) PROVE IsOn(sock')
    <3> DEFINE m == Head(up[c])
    <3>1. Dispatch(c, m)
      BY <2>4 DEF Serve
    <3> HIDE DEF m
    <3>2. UNCHANGED sock \/ CloseSocket(c)
      <4>1. HandleCreate(c, m) => UNCHANGED sock \/ CloseSocket(c)
        BY DEF HandleCreate, WrongVersion
      <4>2. HandleJoin(c, m) => UNCHANGED sock \/ CloseSocket(c)
        BY DEF HandleJoin, WrongVersion
      <4>3. HandleIdentify(c, m) => UNCHANGED sock \/ CloseSocket(c)
        BY DEF HandleIdentify, Fanout, Drop, vars
      <4>4. HandleRelay(c, m) => UNCHANGED sock
        BY DEF HandleRelay, Fanout, Drop, vars
      <4>5. HandleRatchetStep(c, m) => UNCHANGED sock
        BY DEF HandleRatchetStep, Fanout, Drop, vars
      <4>6. HandleEkUpdate(c, m) => UNCHANGED sock
        BY DEF HandleEkUpdate, Fanout, Drop, vars
      <4>7. HandleRekey(c, m) => UNCHANGED sock
        BY DEF HandleRekey, Drop, vars
      <4> QED BY <3>1, <4>1, <4>2, <4>3, <4>4, <4>5, <4>6, <4>7 DEF Dispatch
    <3> QED BY <3>2 DEF CloseSocket, IsOn, SnapInv
  <2>5. CASE UNCHANGED roomVars
    BY <2>5 DEF roomVars, IsOn, SnapInv
  <2> QED BY <2>1, <2>2, <2>3, <2>4, <2>5 DEF RoomNext
<1>4. IsOn(sock)'
  BY <1>3 DEF IsOn
<1> QED BY <1>1, <1>2, <1>4 DEF SnapInv

(* With nothing under way what is due is there, and nobody is in a lobby.  *)
LEMMA SnapInvTells ==
  SnapInv => SnapshotFresh
<1> SUFFICES ASSUME SnapInv, Quiet, NEW c \in Conn, InTheRoom(c)
             PROVE  Holds(data[c], client[c].session)
  BY DEF SnapshotFresh, Holds, LastClaim
<1>1. /\ Entry(c) /\ up[c] = <<>> /\ out[c] = <<>> /\ Online(c)
      /\ data[c].username # Null
  BY DEF SnapInv, Quiet, InTheRoom, Identified
<1>2. client[c].lobby = Null
  BY <1>1, NoJoins DEF Entry, Booked
<1>3. Due(data[c], up[c], Cur(client[c]))
  BY <1>1 DEF Entry, Booked
<1> QED BY <1>1, <1>2, <1>3 DEF Due, Cur

(* What the server would tell the next joiner of a member is that member's *)
(* keys and last claim once nothing is under way, for any number of users, *)
(* rotations, departures and reconnects, after a lobby rekey too, provided *)
(* clients make keys, claims and signatures of the lengths that the server *)
(* asks for (handleIdentify, handleRatchetStep, handleEkUpdate,            *)
(* handleRekey, doLobbyTransition).                                        *)
THEOREM SnapshotsTrue ==
  ASSUME AllGood
  PROVE  RoomSpec => []SnapshotFresh
BY SnapInvFirst, SnapInvStep, SnapInvTells, PTL DEF RoomSpec
=============================================================================
