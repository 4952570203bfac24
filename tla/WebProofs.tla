------------------------------ MODULE WebProofs ------------------------------
(***************************************************************************)
(* The web client, for every size of its parameters: the way back of its   *)
(* connection (WebConnection), and what it shows (WebViews).               *)
(***************************************************************************)
EXTENDS WebConnection, WebViews, Induction, FiniteSetTheorems, SequenceTheorems

-----------------------------------------------------------------------------
(* The connection.                                                         *)

(* What the properties rest on: an idle session is no reconnect, and a     *)
(* session that lost its connection and has a socket again is one.         *)
WebInv ==
  /\ webPhase \in {"idle", "joining", "waiting", "ready"}
  /\ webSock \in Stages
  /\ webTimer \in BOOLEAN /\ isReconnect \in BOOLEAN /\ lost \in BOOLEAN
  /\ OneWayBack /\ BannerCleared
  /\ webPhase = "idle" => ~isReconnect /\ ~lost
  /\ lost /\ webSock # "none" => isReconnect
  /\ webPhase = "idle" => webSock \notin {"joined", "identifying", "taken", "in"}

(* The initial state satisfies the invariant (a new CovcomSession).        *)
LEMMA WebInitInv == WebInit => WebInv
BY DEF WebInit, WebInv, OneWayBack, BannerCleared, Stages

(* _onWsClose leaves the timer running exactly when the session goes on.   *)
LEMMA CloseKeepsInv ==
  ASSUME WebInv, webSock # "none", OnWsClose
  PROVE  WebInv'
<1>1. CASE webPhase \in {"idle", "joining"} /\ ~isReconnect
  BY <1>1 DEF OnWsClose, Teardown, WebInv, OneWayBack, BannerCleared, Stages
<1>2. CASE ~(webPhase \in {"idle", "joining"} /\ ~isReconnect)
  <2>1. webTimer' = TRUE /\ webSock' = "none" /\ webPhase' = webPhase
        /\ isReconnect' = isReconnect /\ lost' \in BOOLEAN
    BY <1>2 DEF OnWsClose, ScheduleReconnect, WebInv
  <2>2. webPhase # "idle"
    BY <1>2 DEF WebInv
  <2> QED BY <2>1, <2>2 DEF WebInv, OneWayBack, BannerCleared, Stages
<1> QED BY <1>1, <1>2

(* Every step of the session, the user, the network and the server keeps   *)
(* the invariant.                                                          *)
LEMMA WebStepInv == WebInv /\ [WebNext]_webVars => WebInv'
<1> SUFFICES ASSUME WebInv, [WebNext]_webVars PROVE WebInv'
  OBVIOUS
<1> USE DEF WebInv, OneWayBack, BannerCleared, Stages
<1>1. CASE AttemptReconnect
  BY <1>1 DEF AttemptReconnect
<1>2. CASE SocketOpens
  BY <1>2 DEF SocketOpens
<1>3. CASE SocketFails
  <2>1. webSock # "none" /\ OnWsClose
    BY <1>3 DEF SocketFails
  <2> QED BY <2>1, CloseKeepsInv
<1>4. CASE ServerAnswers
  BY <1>4 DEF ServerAnswers
<1>5. CASE OnJoined
  BY <1>5 DEF OnJoined
<1>6. CASE ServerIdentifies
  BY <1>6 DEF ServerIdentifies
<1>7. CASE OnError
  BY <1>7 DEF OnError, Teardown
<1>8. CASE Recovery
  BY <1>8 DEF Recovery
<1>9. CASE Ask
  BY <1>9 DEF Ask, Teardown
<1>10. CASE DisposeSession
  BY <1>10 DEF DisposeSession, Teardown
<1>11. CASE PhaseMoves
  BY <1>11 DEF PhaseMoves
<1>12. CASE ConnectionDrops
  <2>1. webSock # "none" /\ OnWsClose
    BY <1>12 DEF ConnectionDrops
  <2> QED BY <2>1, CloseKeepsInv
<1>13. CASE Outage
  BY <1>13 DEF Outage
<1>14. CASE GhostGone
  BY <1>14 DEF GhostGone
<1>15. CASE UNCHANGED webVars
  BY <1>15 DEF webVars
<1> QED
  BY <1>1, <1>2, <1>3, <1>4, <1>5, <1>6, <1>7, <1>8, <1>9, <1>10, <1>11, <1>12, <1>13,
     <1>14, <1>15 DEF WebNext, WebProgress

(* The invariant holds in every state.                                     *)
LEMMA WebInvariant == WebSpec => []WebInv
<1>1. WebInit => WebInv
  BY WebInitInv
<1>2. WebInv /\ [WebNext]_webVars => WebInv'
  BY WebStepInv
<1> QED BY <1>1, <1>2, PTL DEF WebSpec

(* A client that shows a room always has exactly one way back to it, and   *)
(* one on the landing page has no timer (_teardown, _onWsClose,            *)
(* _attemptReconnect of web/src/session.ts).                               *)
THEOREM OneWayBackAlways == WebSpec => []OneWayBack
<1>1. WebInv => OneWayBack
  BY DEF WebInv
<1> QED BY WebInvariant, <1>1, PTL

(* A client that is back in its room never shows "connection lost"         *)
(* (_onJoined of web/src/session.ts).                                      *)
THEOREM BannerClearedAlways == WebSpec => []BannerCleared
<1>1. WebInv => BannerCleared
  BY DEF WebInv
<1> QED BY WebInvariant, <1>1, PTL
-----------------------------------------------------------------------------
(* The views: what each of them may have drawn.                            *)
AllScreens == {"landing", "joining", "waiting", "ready"}
Sections == {"none", "event-log", "verify"}
Items == {"line", "warning"}
Panes == [local : Fp \cup {NoFp}, peers : [Peers -> Fp \cup {NoFp}]]
Forms == {"main", "create", "join"}
View ==
  [name : {"landing", "joining", "waiting", "chat"}, everReady : BOOLEAN,
   form : Forms, error : BOOLEAN, pending : {"none", "create", "join"},
   header : [fp : BOOLEAN, log : BOOLEAN, section : Sections],
   history : Seq(Items), bar : {"none", "lobby", "regular", "keys"},
   screen : AllScreens \cup {"none"}, rows : Seq(Nat), pane : Panes, section : Sections]

(* The log holds the entries before nextId, and no more than its cap.      *)
InOrder(s) ==
  /\ s.nextId \in Nat /\ s.nextId > Len(s.events) /\ Len(s.events) <= EventCap
  /\ \A i \in DOMAIN s.events : s.events[i] = s.nextId - 1 - Len(s.events) + i

(* The chat has drawn what the store holds.                                *)
ChatDrawn(s, v) ==
  /\ v.history = s.messages /\ v.rows = s.events /\ v.section = s.section
  /\ v.pane = [local |-> s.local, peers |-> s.peers]
  /\ v.screen = s.screen /\ (v.bar = "lobby" <=> s.screen = "waiting")

Mounted(s, v) ==
  /\ v.name = PickView(s.screen, v.everReady)
  /\ s.screen = "ready" => v.everReady
  /\ s.screen \in {"landing", "joining"} => ~v.everReady

Page == [store : Store, view : View]

(* A page between two dispatches: all but the header is as it should be.   *)
Good ==
  {p \in Page : /\ InOrder(p.store) /\ Mounted(p.store, p.view)
                /\ p.view.name = "chat" => ChatDrawn(p.store, p.view)}

HeaderShown(p) == p.view.header = Header(p.store, p.view)

(* The session has been asked for by one of the two forms.                 *)
SessionOf ==
  /\ session \in [phase : {"idle", "creating", "joining", "waiting", "seeding", "ready"},
                  mode : {"none", "create", "join"}, online : BOOLEAN, back : BOOLEAN,
                  again : BOOLEAN, lost : BOOLEAN, rekeying : BOOLEAN]
  /\ session # Gone => session.mode # "none"

(* Until the server has made the room the landing page stays.              *)
Creating ==
  session.phase = "creating" =>
    session.online /\ ~session.again /\ ~session.back /\ Screen = "landing"

ViewInv == page \in Good /\ HeaderShown(page) /\ SessionOf /\ Creating

-----------------------------------------------------------------------------
(* What is drawn follows what is stored.                                   *)

(* Rows from the k-th on, if it is the first to be kept.                   *)
LEMMA FromIs ==
  ASSUME NEW log \in Seq(Nat), NEW n \in Nat, Len(log) = n, NEW k \in 1 .. (n + 1)
  PROVE  From(log, k .. n) = SubSeq(log, k, n)
<1>1. CASE k = n + 1
  <2>1. k .. n = {} /\ SubSeq(log, k, n) = <<>>
    BY <1>1, SubSeqEmpty
  <2> QED BY <2>1 DEF From
<1>2. CASE k # n + 1
  <2>1. k \in k .. n /\ \A x \in k .. n : k <= x /\ x \in Int
    BY <1>2
  <2>2. Min(k .. n) = k
    BY <2>1 DEF Min
  <2> QED BY <2>1, <2>2 DEF From
<1> QED BY <1>1, <1>2

(* Two stretches of consecutive ids, the second no earlier and no shorter  *)
(* at its end than the first: the rows become the second.                  *)
LEMMA RowsFollow ==
  ASSUME NEW e \in Seq(Nat), NEW f \in Seq(Nat), NEW a \in Nat \ {0}, NEW c \in Nat,
         \A i \in 1 .. Len(e) : e[i] = a + i - 1,
         \A i \in 1 .. Len(f) : f[i] = c + i - 1,
         a <= c, c <= a + Len(e), a + Len(e) <= c + Len(f), Len(f) = 0 => Len(e) = 0
  PROVE  RowsAfter(e, f) = f
<1> DEFINE n == Len(e)
           m == Len(f)
           last == IF e = <<>> THEN 0 ELSE Last(e)
           K == {i \in DOMAIN e : e[i] >= Head(f)}
           J == {i \in DOMAIN f : f[i] > last}
           k == a + n - c
<1>1. n \in Nat /\ m \in Nat /\ DOMAIN e = 1 .. n /\ DOMAIN f = 1 .. m /\ k \in 0 .. m
  OBVIOUS
<1>0. n \in Nat /\ m \in Nat /\ k \in Nat /\ k <= m /\ a \in Nat /\ c \in Nat
      /\ c - a + 1 = n - k + 1
  BY <1>1
<1>2. CASE f = <<>>
  <2>1. e = <<>>
    BY <1>2
  <2> QED BY <1>2, <2>1 DEF RowsAfter, From
<1>3. CASE f # <<>>
  <2>1. Head(f) = c
    BY <1>3, <1>1
  <2>2. K = (c - a + 1) .. n
    BY <2>1, <1>1
  <2>3. J = (k + 1) .. m
    <3>1. CASE e = <<>>
      <4>1. n = 0 /\ a = c /\ last = 0 /\ k = 0
        BY <3>1, <1>1
      <4>2. \A i \in 1 .. m : f[i] > 0
        BY <4>1, <1>1
      <4> QED BY <4>1, <4>2, <1>1
    <3>2. CASE e # <<>>
      <4>1. n \in 1 .. n /\ last = e[n]
        BY <3>2, <1>1 DEF Last
      <4>2. last = a + n - 1
        BY <4>1
      <4>3. \A i \in 1 .. m : f[i] > last <=> i >= k + 1
        BY <4>2, <1>1
      <4> HIDE DEF last
      <4> QED BY <4>3, <1>1
    <3> QED BY <3>1, <3>2
  <2>4. From(e, K) = SubSeq(e, c - a + 1, n)
    <3>1. c - a + 1 \in 1 .. (n + 1)
      BY <1>1
    <3> QED BY <3>1, <2>2, <1>1, FromIs
  <2>5. From(f, J) = SubSeq(f, k + 1, m)
    <3>1. k + 1 \in 1 .. (m + 1)
      BY <1>1
    <3> QED BY <3>1, <2>3, <1>1, FromIs
  <2>6. SubSeq(e, c - a + 1, n) = SubSeq(f, 1, k)
    <3> DEFINE g == SubSeq(e, c - a + 1, n)
               h == SubSeq(f, 1, k)
    <3>1. /\ g \in Seq(Nat) /\ Len(g) = k
          /\ \A i \in 1 .. k : g[i] = e[c - a + i]
      <4>1. c - a + 1 \in Int /\ n \in Int /\ \A i \in (c - a + 1) .. n : e[i] \in Nat
        BY <1>1
      <4>2. /\ g \in Seq(Nat)
            /\ Len(g) = IF c - a + 1 <= n THEN n - (c - a + 1) + 1 ELSE 0
            /\ \A i \in 1 .. n - (c - a + 1) + 1 : g[i] = e[(c - a + 1) + i - 1]
        BY <4>1, SubSeqProperties
      <4>3. ASSUME NEW i \in 1 .. k PROVE g[i] = e[c - a + i]
        <5>1. i \in 1 .. n - (c - a + 1) + 1 /\ (c - a + 1) + i - 1 = c - a + i
          BY <1>1
        <5> HIDE DEF g
        <5> QED BY <5>1, <4>2
      <4>4. Len(g) = k
        <5> HIDE DEF g
        <5>1. CASE c - a + 1 <= n
          BY <5>1, <4>2, <1>1
        <5>2. CASE ~(c - a + 1 <= n)
          <6>1. k = 0
            <7> HIDE DEF n, m, k
            <7> QED BY <5>2, <1>0
          <6>2. Len(g) = 0
            BY <5>2, <4>2
          <6> QED BY <6>1, <6>2
        <5> QED BY <5>1, <5>2
      <4> HIDE DEF g
      <4> QED BY <4>2, <4>3, <4>4
    <3>2. /\ h \in Seq(Nat) /\ Len(h) = k
          /\ \A i \in 1 .. k : h[i] = f[i]
      <4>1. 1 \in Int /\ k \in Int /\ \A i \in 1 .. k : f[i] \in Nat
        BY <1>1
      <4>2. /\ h \in Seq(Nat)
            /\ Len(h) = IF 1 <= k THEN k - 1 + 1 ELSE 0
            /\ \A i \in 1 .. k - 1 + 1 : h[i] = f[1 + i - 1]
        BY <4>1, SubSeqProperties
      <4>3. ASSUME NEW i \in 1 .. k PROVE h[i] = f[i]
        <5>1. i \in 1 .. k - 1 + 1 /\ 1 + i - 1 = i
          BY <1>1
        <5> HIDE DEF h
        <5> QED BY <5>1, <4>2
      <4>4. Len(h) = k
        <5> HIDE DEF h
        <5>1. CASE 1 <= k
          BY <5>1, <4>2, <1>1
        <5>2. CASE ~(1 <= k)
          <6>1. k = 0
            <7> HIDE DEF n, m, k
            <7> QED BY <5>2, <1>0
          <6>2. Len(h) = 0
            BY <5>2, <4>2
          <6> QED BY <6>1, <6>2
        <5> QED BY <5>1, <5>2
      <4> HIDE DEF h
      <4> QED BY <4>2, <4>3, <4>4
    <3>3. \A i \in 1 .. k : e[c - a + i] = f[i]
      BY <1>1
    <3> HIDE DEF g, h
    <3>4. g \in Seq(Nat) /\ h \in Seq(Nat) /\ Len(g) = Len(h)
          /\ \A i \in 1 .. Len(g) : g[i] = h[i]
      BY <3>1, <3>2, <3>3
    <3>5. g = h
      BY <3>4, SeqEqual
    <3> QED BY <3>5 DEF g, h
  <2>7. SubSeq(f, 1, k) \o SubSeq(f, k + 1, m) = f
    <3>1. 1 \in 1 .. Len(f) + 1 /\ k \in 1 - 1 .. Len(f) /\ m \in k .. Len(f)
      BY <1>1
    <3> QED BY <3>1, ConcatAdjacentSubSeq, SubSeqFull
  <2>8. RowsAfter(e, f) = From(e, K) \o From(f, J)
    BY <1>3 DEF RowsAfter
  <2> QED BY <2>4, <2>5, <2>6, <2>7, <2>8
<1> QED BY <1>2, <1>3

(* Nothing new was logged: the rows stay.                                  *)
LEMMA RowsStay ==
  ASSUME NEW s \in Store, InOrder(s)
  PROVE  RowsAfter(s.events, s.events) = s.events
<1>1. s.events \in Seq(Nat) /\ s.nextId - Len(s.events) \in Nat \ {0}
  BY DEF Store, InOrder
<1>2. DEFINE e == s.events
             a == s.nextId - Len(s.events)
<1>3. \A i \in 1 .. Len(e) : e[i] = a + i - 1
  BY <1>1 DEF InOrder, Store
<1> HIDE DEF e, a
<1>4. e \in Seq(Nat) /\ a \in Nat \ {0}
  BY <1>1 DEF e, a
<1>5. RowsAfter(e, e) = e
  <2>1. Len(e) \in Nat /\ a <= a /\ a <= a + Len(e) /\ a + Len(e) <= a + Len(e)
    BY <1>4
  <2> QED BY <2>1, <1>3, <1>4, RowsFollow
<1> QED BY <1>5 DEF e

(* The log after one more entry is again a stretch of consecutive ids.     *)
LEMMA LogGrows ==
  ASSUME NEW e \in Seq(Nat), NEW id \in Nat, id > Len(e), Len(e) <= EventCap,
         \A i \in 1 .. Len(e) : e[i] = id - Len(e) + i - 1
  PROVE  \E c \in Nat :
           LET f == Capped(Append(e, id))
           IN /\ f \in Seq(Nat) /\ Len(f) >= 1 /\ Len(f) <= EventCap /\ c = id + 1 - Len(f)
              /\ \A i \in 1 .. Len(f) : f[i] = c + i - 1
              /\ id - Len(e) <= c /\ c <= id
<1> DEFINE f == Capped(Append(e, id))
           n == Len(e)
           g == Append(e, id)
<1>1. n \in Nat /\ EventCap \in Nat /\ EventCap >= 1
  BY EventBounds
<1>2. g \in Seq(Nat) /\ Len(g) = n + 1 /\ g[n + 1] = id /\ \A i \in 1 .. n : g[i] = e[i]
  BY AppendProperties
<1> HIDE DEF g
<1>3. ASSUME NEW i \in 1 .. n + 1 PROVE g[i] = id - n + i - 1
  <2>1. CASE i = n + 1
    BY <2>1, <1>1, <1>2
  <2>2. CASE i # n + 1
    <3>1. i \in 1 .. n
      BY <2>2, <1>1
    <3> QED BY <3>1, <1>2
  <2> QED BY <2>1, <2>2
<1>4. CASE n + 1 > EventCap
  <2>0. Len(g) > EventCap /\ n = EventCap
    BY <1>4, <1>1, <1>2
  <2>1. n = EventCap /\ f = Tail(g) /\ g # <<>>
    <3>1. f = IF Len(g) > EventCap THEN Tail(g) ELSE g
      BY DEF Capped, g
    <3>2. g # <<>>
      BY <1>1, <1>2
    <3> HIDE DEF f
    <3> QED BY <2>0, <3>1, <3>2
  <2>2. f \in Seq(Nat) /\ Len(f) = Len(g) - 1 /\ \A i \in 1 .. Len(f) : f[i] = g[i + 1]
    BY <2>1, <1>2, HeadTailProperties
  <2> HIDE DEF f
  <2>3. Len(f) = n
    BY <2>2, <1>2, <1>1
  <2> DEFINE c == id + 1 - n
  <2>4. ASSUME NEW i \in 1 .. n PROVE f[i] = c + i - 1
    <3>1. i + 1 \in 1 .. n + 1
      BY <1>1
    <3>2. f[i] = g[i + 1] /\ g[i + 1] = id - n + (i + 1) - 1
      BY <3>1, <2>2, <2>3, <1>3
    <3> QED BY <3>2, <1>1
  <2>5. c \in Nat /\ id - Len(e) <= c /\ c <= id /\ n >= 1 /\ c = id + 1 - Len(f)
    <3>1. n >= 1 /\ c = id + 1 - Len(f)
      BY <2>1, <2>3, <1>1
    <3> QED BY <3>1, <1>1
  <2> HIDE DEF c
  <2> QED BY <2>1, <2>2, <2>3, <2>4, <2>5, <1>1 DEF f
<1>5. CASE ~(n + 1 > EventCap)
  <2>1. f = g
    BY <1>5, <1>2 DEF Capped, g
  <2> HIDE DEF f
  <2> DEFINE c == id - n
  <2>2. c \in Nat /\ id - Len(e) <= c /\ c <= id /\ Len(f) >= 1 /\ c = id + 1 - Len(f)
        /\ Len(f) <= EventCap
    BY <2>1, <1>1, <1>2, <1>5
  <2>3. \A i \in 1 .. Len(f) : f[i] = c + i - 1
    BY <2>1, <1>2, <1>3
  <2> HIDE DEF c
  <2> QED BY <2>1, <2>2, <2>3, <1>2 DEF f
<1> QED BY <1>4, <1>5

(* One entry was logged: it comes last, and the first row goes when the    *)
(* log is full.                                                            *)
LEMMA RowsGrow ==
  ASSUME NEW s \in Store, InOrder(s), NEW t, t = Reduce(s, EventLogged)
  PROVE  t \in Store /\ InOrder(t) /\ RowsAfter(s.events, t.events) = t.events
<1> DEFINE e == s.events
           f == Capped(Append(s.events, s.nextId))
           id == s.nextId
<1>1. e \in Seq(Nat) /\ id \in Nat /\ id > Len(e) /\ Len(e) <= EventCap
  BY DEF Store, InOrder
<1>2. t = [s EXCEPT !.events = f, !.nextId = id + 1]
  BY DEF Reduce, EventLogged
<1>3. \A i \in 1 .. Len(e) : e[i] = id - Len(e) + i - 1
  BY <1>1 DEF InOrder
<1>4. PICK c \in Nat :
        /\ f \in Seq(Nat) /\ Len(f) >= 1 /\ Len(f) <= EventCap /\ c = id + 1 - Len(f)
        /\ \A i \in 1 .. Len(f) : f[i] = c + i - 1
        /\ id - Len(e) <= c /\ c <= id
  BY <1>1, <1>3, LogGrows
<1>5. t.events = f /\ t.nextId = id + 1 /\ t \in Store
  <2>1. f \in Seq(Nat) /\ id + 1 \in Nat
    BY <1>1, <1>4
  <2> HIDE DEF f
  <2> QED BY <1>2, <2>1 DEF Store
<1> HIDE DEF e, f, id
<1>6. RowsAfter(e, f) = f
  <2> DEFINE a == id - Len(e)
  <2>1. Len(e) \in Nat /\ Len(f) \in Nat
    BY <1>1, <1>4
  <2>2. a \in Nat \ {0} /\ a <= c /\ c <= a + Len(e) /\ a + Len(e) <= c + Len(f)
    BY <1>1, <1>4, <2>1
  <2>3. \A i \in 1 .. Len(e) : e[i] = a + i - 1
    BY <1>3
  <2>4. ~(Len(f) = 0)
    BY <1>4
  <2> HIDE DEF a
  <2> QED BY <2>2, <2>3, <2>4, <1>4, <1>1, RowsFollow
<1>7. InOrder(t)
  <2>1. Len(f) \in Nat /\ DOMAIN f = 1 .. Len(f)
    BY <1>4
  <2>2. \A i \in 1 .. Len(f) : f[i] = (id + 1) - 1 - Len(f) + i
    BY <1>4, <1>1, <2>1
  <2>3. id + 1 \in Nat /\ id + 1 > Len(f)
    BY <1>1, <1>4, <2>1
  <2> QED BY <2>1, <2>2, <2>3, <1>5, <1>4 DEF InOrder
<1> QED BY <1>5, <1>6, <1>7 DEF e

(* The messages only grow: what is new is appended to what is shown.       *)
LEMMA HistoryFollows ==
  ASSUME NEW m \in Seq(Items), NEW x \in Items
  PROVE  /\ HistoryAfter(m, m) = m
         /\ HistoryAfter(m, Append(m, x)) = Append(m, x)
<1> DEFINE g == Append(m, x)
           n == Len(m)
<1>1. HistoryAfter(m, m) = m
  BY DEF HistoryAfter
<1>2. g \in Seq(Items) /\ Len(g) = n + 1 /\ n \in Nat /\ \A i \in 1 .. n : g[i] = m[i]
  BY AppendProperties
<1> HIDE DEF g
<1>3. HistoryAfter(m, g) = m \o SubSeq(g, n + 1, n + 1)
  BY <1>2 DEF HistoryAfter
<1>4. m = SubSeq(g, 1, n)
  <2>1. /\ SubSeq(g, 1, n) \in Seq(Items)
        /\ Len(SubSeq(g, 1, n)) = IF 1 <= n THEN n - 1 + 1 ELSE 0
        /\ \A i \in 1 .. n - 1 + 1 : SubSeq(g, 1, n)[i] = g[1 + i - 1]
    <3>1. 1 \in Int /\ n \in Int /\ \A i \in 1 .. n : g[i] \in Items
      BY <1>2
    <3> QED BY <3>1, SubSeqProperties
  <2>2. Len(SubSeq(g, 1, n)) = n
    BY <2>1, <1>2
  <2>3. \A i \in 1 .. n : m[i] = SubSeq(g, 1, n)[i]
    BY <2>1, <1>2
  <2> QED BY <2>1, <2>2, <2>3, SeqEqual
<1>5. SubSeq(g, 1, n) \o SubSeq(g, n + 1, n + 1) = g
  <2>1. 1 \in 1 .. Len(g) + 1 /\ n \in 1 - 1 .. Len(g) /\ n + 1 \in n .. Len(g)
    BY <1>2
  <2> QED BY <2>1, <1>2, ConcatAdjacentSubSeq, SubSeqFull, ZenonT(40)
<1> QED BY <1>1, <1>3, <1>4, <1>5 DEF g

(* mountVerify's test misses no change: when it finds none, the pane       *)
(* already shows the fingerprints of the store.                            *)
LEMMA PaneFollows ==
  ASSUME NEW pane \in Panes, NEW s \in Store, ~PaneChanged(pane, s)
  PROVE  pane = [local |-> s.local, peers |-> s.peers]
<1>1. s.local = pane.local
  BY DEF PaneChanged
<1>2. \A n \in Listed(s.peers) : s.peers[n] = pane.peers[n]
  BY DEF PaneChanged
<1>3. Listed(s.peers) \subseteq Listed(pane.peers)
  BY <1>2 DEF Listed
<1>4. IsFiniteSet(Listed(pane.peers))
  BY PeersFinite, FS_Subset DEF Listed
<1>5. Cardinality(Listed(s.peers)) = Cardinality(Listed(pane.peers))
  BY DEF PaneChanged
<1>6. Listed(s.peers) = Listed(pane.peers)
  BY <1>3, <1>4, <1>5, FS_Subset
<1>7. \A n \in Peers : s.peers[n] = pane.peers[n]
  BY <1>2, <1>6 DEF Listed
<1>8. s.peers \in [Peers -> Fp \cup {NoFp}] /\ pane.peers \in [Peers -> Fp \cup {NoFp}]
  BY DEF Store, Panes
<1>9. s.peers = pane.peers
  BY <1>7, <1>8
<1> QED BY <1>1, <1>9 DEF Panes

-----------------------------------------------------------------------------
(* What the actions do to the store.                                       *)

(* What the chat has drawn of s, its listeners turn into t.                *)
Follows(s, t) ==
  /\ RowsAfter(s.events, t.events) = t.events
  /\ HistoryAfter(s.messages, t.messages) = t.messages

(* The actions that leave the screen alone, and those that change it.      *)
Quiet ==
  {PeerAdded(n, f) : n \in Peers, f \in Fp} \cup {PeerRemoved(n) : n \in Peers}
    \cup {LocalFingerprint(f) : f \in Fp} \cup {Appended(x) : x \in Items}
    \cup {EventLogged} \cup {SidebarToggle(x) : x \in {"event-log", "verify"}}
Gotos ==
  {Goto(x) : x \in {"joining", "waiting", "ready"}} \cup {GotoLanding(b) : b \in BOOLEAN}

(* An entry or a change that is not shown by itself: reduce keeps the      *)
(* store in order and changes no screen.                                   *)
LEMMA QuietReduces ==
  ASSUME NEW s \in Store, InOrder(s), NEW a \in Quiet
  PROVE  /\ Reduce(s, a) \in Store /\ InOrder(Reduce(s, a)) /\ Follows(s, Reduce(s, a))
         /\ Reduce(s, a).screen = s.screen /\ Reduce(s, a).error = s.error
         /\ a.type \notin {"GOTO", "RESET"}
<1> DEFINE t == Reduce(s, a)
<1>0. s.events \in Seq(Nat) /\ s.messages \in Seq(Items)
  BY DEF Store, Items
<1>1. ASSUME t \in Store, t.events = s.events, t.nextId = s.nextId,
             t.messages = s.messages
      PROVE  InOrder(t) /\ Follows(s, t)
  <2> HIDE DEF t
  <2>1. InOrder(t)
    BY <1>1 DEF InOrder
  <2>2. HistoryAfter(s.messages, s.messages) = s.messages
    BY DEF HistoryAfter
  <2> QED BY <2>1, <2>2, <1>1, RowsStay DEF Follows
<1>2. CASE \E n \in Peers, f \in Fp : a = PeerAdded(n, f)
  <2>1. PICK n \in Peers, f \in Fp : a = PeerAdded(n, f)
    BY <1>2
  <2>2. t = [s EXCEPT !.peers[n] = f] /\ a.type = "PEER_ADDED"
    BY <2>1 DEF Reduce, PeerAdded
  <2>3. t \in Store /\ t.events = s.events /\ t.nextId = s.nextId
        /\ t.messages = s.messages /\ t.screen = s.screen /\ t.error = s.error
    BY <2>2 DEF Store
  <2> QED BY <1>1, <2>2, <2>3
<1>3. CASE \E n \in Peers : a = PeerRemoved(n)
  <2>1. PICK n \in Peers : a = PeerRemoved(n)
    BY <1>3
  <2>2. t = [s EXCEPT !.peers[n] = NoFp] /\ a.type = "PEER_REMOVED"
    BY <2>1 DEF Reduce, PeerRemoved
  <2>3. t \in Store /\ t.events = s.events /\ t.nextId = s.nextId
        /\ t.messages = s.messages /\ t.screen = s.screen /\ t.error = s.error
    BY <2>2 DEF Store
  <2> QED BY <1>1, <2>2, <2>3
<1>4. CASE \E f \in Fp : a = LocalFingerprint(f)
  <2>1. PICK f \in Fp : a = LocalFingerprint(f)
    BY <1>4
  <2>2. t = [s EXCEPT !.local = f] /\ a.type = "LOCAL_FINGERPRINT"
    BY <2>1 DEF Reduce, LocalFingerprint
  <2>3. t \in Store /\ t.events = s.events /\ t.nextId = s.nextId
        /\ t.messages = s.messages /\ t.screen = s.screen /\ t.error = s.error
    BY <2>2 DEF Store
  <2> QED BY <1>1, <2>2, <2>3
<1>5. CASE \E x \in Items : a = Appended(x)
  <2>1. PICK x \in Items : a = Appended(x)
    BY <1>5
  <2>2. t = [s EXCEPT !.messages = Append(@, x)] /\ a.type = "APPENDED"
    BY <2>1 DEF Reduce, Appended
  <2>3. Append(s.messages, x) \in Seq(Items)
    BY <1>0, AppendProperties
  <2>4. t \in Store /\ t.events = s.events /\ t.nextId = s.nextId
        /\ t.messages = Append(s.messages, x) /\ t.screen = s.screen /\ t.error = s.error
    BY <2>2, <2>3 DEF Store, Items
  <2>5. HistoryAfter(s.messages, t.messages) = t.messages
    BY <2>4, <1>0, HistoryFollows
  <2> HIDE DEF t
  <2>6. InOrder(t)
    BY <2>4 DEF InOrder
  <2> QED BY <2>2, <2>4, <2>5, <2>6, RowsStay DEF Follows, t
<1>6. CASE a = EventLogged
  <2>1. t \in Store /\ InOrder(t) /\ RowsAfter(s.events, t.events) = t.events
    BY <1>6, RowsGrow
  <2>2. t.messages = s.messages /\ t.screen = s.screen /\ t.error = s.error
        /\ a.type = "EVENT_LOGGED"
    BY <1>6 DEF Reduce, EventLogged, Store
  <2>3. HistoryAfter(s.messages, s.messages) = s.messages
    BY DEF HistoryAfter
  <2> HIDE DEF t
  <2> QED BY <2>1, <2>2, <2>3 DEF Follows, t
<1>7. CASE \E x \in {"event-log", "verify"} : a = SidebarToggle(x)
  <2>1. PICK x \in {"event-log", "verify"} : a = SidebarToggle(x)
    BY <1>7
  <2>2. t = [s EXCEPT !.section = IF @ = x THEN "none" ELSE x] /\ a.type = "SIDEBAR_TOGGLE"
    BY <2>1 DEF Reduce, SidebarToggle
  <2>3. t \in Store /\ t.events = s.events /\ t.nextId = s.nextId
        /\ t.messages = s.messages /\ t.screen = s.screen /\ t.error = s.error
    BY <2>2 DEF Store
  <2> QED BY <1>1, <2>2, <2>3
<1> QED BY <1>2, <1>3, <1>4, <1>5, <1>6, <1>7 DEF Quiet

(* A change of screen changes nothing else.                                *)
LEMMA GotoReduces ==
  ASSUME NEW s \in Store, InOrder(s), NEW a \in Gotos
  PROVE  /\ Reduce(s, a) = [s EXCEPT !.screen = a.screen, !.error = a.error]
         /\ Reduce(s, a) \in Store /\ InOrder(Reduce(s, a)) /\ Follows(s, Reduce(s, a))
         /\ a.type = "GOTO" /\ a.screen \in AllScreens /\ a.error \in BOOLEAN
<1> DEFINE t == Reduce(s, a)
<1>1. a.type = "GOTO" /\ a.screen \in AllScreens /\ a.error \in BOOLEAN
  <2>1. CASE \E x \in {"joining", "waiting", "ready"} : a = Goto(x)
    BY <2>1 DEF Goto, AllScreens
  <2>2. CASE \E b \in BOOLEAN : a = GotoLanding(b)
    <3>1. PICK b \in BOOLEAN : a = GotoLanding(b)
      BY <2>2
    <3>2. a.type = "GOTO" /\ a.screen = "landing" /\ a.error = b
      BY <3>1 DEF GotoLanding
    <3> QED BY <3>2 DEF AllScreens
  <2> QED BY <2>1, <2>2 DEF Gotos
<1>2. t = [s EXCEPT !.screen = a.screen, !.error = a.error]
  BY <1>1 DEF Reduce
<1>3. t \in Store /\ t.events = s.events /\ t.nextId = s.nextId /\ t.messages = s.messages
  BY <1>1, <1>2 DEF Store, AllScreens
<1>4. HistoryAfter(s.messages, s.messages) = s.messages
  BY DEF HistoryAfter
<1> HIDE DEF t
<1>5. InOrder(t)
  BY <1>3 DEF InOrder
<1> QED BY <1>1, <1>2, <1>3, <1>4, <1>5, RowsStay DEF Follows, t

(* RESET empties all but the open panel.                                   *)
LEMMA ResetReduces ==
  ASSUME NEW s \in Store
  PROVE  /\ Reduce(s, Reset) = EmptyStore(s.section)
         /\ EmptyStore(s.section) \in Store /\ InOrder(EmptyStore(s.section))
<1>1. Reduce(s, Reset) = EmptyStore(s.section)
  BY DEF Reduce, Reset
<1>2. s.section \in {"none", "event-log", "verify"}
  BY DEF Store
<1>3. <<>> \in Seq(Nat) /\ <<>> \in Seq({"line", "warning"}) /\ Len(<<>>) = 0
  OBVIOUS
<1>4. NoPane.peers \in [Peers -> Fp \cup {NoFp}]
  BY DEF NoPane
<1>5. EmptyStore(s.section) \in Store
  BY <1>2, <1>3, <1>4 DEF EmptyStore, Store
<1>6. InOrder(EmptyStore(s.section))
  BY <1>3, EventBounds DEF EmptyStore, InOrder
<1> QED BY <1>1, <1>5, <1>6

-----------------------------------------------------------------------------
(* What the listeners draw.                                                *)

(* A chat that has drawn s, or was mounted on t, draws t.                  *)
LEMMA ChatFollows ==
  ASSUME NEW t \in Store, NEW u \in View, u.name = "chat",
         RowsAfter(u.rows, t.events) = t.events,
         HistoryAfter(u.history, t.messages) = t.messages,
         t.screen \in {"waiting", "ready"}, u.screen \in {"waiting", "ready"},
         u.bar = "lobby" <=> u.screen = "waiting",
         NEW w, w = ChatListeners(t, u)
  PROVE  /\ w \in View /\ ChatDrawn(t, w)
         /\ w.name = "chat" /\ w.everReady = u.everReady /\ w.header = u.header
         /\ w.pending = u.pending /\ (t.screen = u.screen => w.bar = u.bar)
<1> DEFINE new == [local |-> t.local, peers |-> t.peers]
<1>1. w = [u EXCEPT !.section = t.section, !.rows = RowsAfter(@, t.events),
                    !.pane = IF PaneChanged(@, t) THEN new ELSE @,
                    !.bar = BarAfter(u, t), !.screen = t.screen,
                    !.history = HistoryAfter(@, t.messages)]
  BY DEF ChatListeners
<1>2. new \in Panes /\ u.pane \in Panes
  BY DEF Store, View, Panes
<1>3. (IF PaneChanged(u.pane, t) THEN new ELSE u.pane) = new
  BY <1>2, PaneFollows
<1>4. BarAfter(u, t) = CASE t.screen = u.screen -> u.bar
                         [] t.screen # u.screen /\ t.screen = "waiting" -> "lobby"
                         [] t.screen # u.screen /\ u.screen = "waiting" -> "regular"
                         [] OTHER -> u.bar
  BY DEF BarAfter
<1>5. BarAfter(u, t) \in {"none", "lobby", "regular", "keys"}
      /\ (BarAfter(u, t) = "lobby" <=> t.screen = "waiting")
      /\ (t.screen = u.screen => BarAfter(u, t) = u.bar)
  <2>1. u.bar \in {"none", "lobby", "regular", "keys"}
    BY DEF View
  <2>2. CASE t.screen = u.screen
    BY <1>4, <2>1, <2>2
  <2>3. CASE t.screen # u.screen /\ t.screen = "waiting"
    BY <1>4, <2>3
  <2>4. CASE t.screen # u.screen /\ u.screen = "waiting"
    BY <1>4, <2>4
  <2> QED BY <2>2, <2>3, <2>4
<1> HIDE DEF new
<1>6. DEFINE bar == BarAfter(u, t)
<1>7. w = [u EXCEPT !.section = t.section, !.rows = t.events, !.pane = new,
                    !.bar = bar, !.screen = t.screen, !.history = t.messages]
  BY <1>1, <1>3
<1> HIDE DEF bar
<1>8. /\ t.section \in Sections /\ t.events \in Seq(Nat) /\ t.messages \in Seq(Items)
      /\ t.screen \in AllScreens \cup {"none"}
      /\ bar \in {"none", "lobby", "regular", "keys"}
  BY <1>5 DEF Store, Sections, Items, AllScreens, bar
<1>9. w \in View
  BY <1>2, <1>7, <1>8 DEF View
<1>10. /\ w.section = t.section /\ w.rows = t.events /\ w.pane = new /\ w.bar = bar
       /\ w.screen = t.screen /\ w.history = t.messages
       /\ w.name = "chat" /\ w.everReady = u.everReady /\ w.header = u.header
       /\ w.pending = u.pending
  BY <1>7 DEF View
<1> QED BY <1>5, <1>9, <1>10 DEF ChatDrawn, new, bar

(* The header's buttons are for the page that was mounted before it.       *)
LEMMA HeaderType ==
  ASSUME NEW t \in Store, NEW v \in View
  PROVE  /\ [v EXCEPT !.header = Header(t, v)] \in View
         /\ Header(t, v) \in [fp : BOOLEAN, log : BOOLEAN, section : Sections]
<1>1. t.section \in Sections
  BY DEF Store, Sections
<1>2. Header(t, v) \in [fp : BOOLEAN, log : BOOLEAN, section : Sections]
  BY <1>1 DEF Header
<1> QED BY <1>2 DEF View

(* The three pages that can be mounted anew.                               *)
LEMMA MountTypes ==
  ASSUME NEW t \in Store, NEW v \in View
  PROVE  /\ MountChat(t, v) \in View /\ MountLanding(t, v) \in View
         /\ Unmounted(v) \in View /\ Unmounted(v).name = "landing"
         /\ Unmounted(v).everReady = FALSE /\ Unmounted(v).pending = v.pending
         /\ Unmounted(v).header = v.header
         /\ \A n \in {"joining", "waiting"}, b \in BOOLEAN :
              [Unmounted(v) EXCEPT !.name = n, !.everReady = b] \in View
<1>1. NoPane \in Panes
  BY DEF NoPane, Panes
<1>2. /\ t.section \in Sections /\ t.events \in Seq(Nat) /\ t.messages \in Seq(Items)
      /\ t.screen \in AllScreens \cup {"none"} /\ t.error \in BOOLEAN
  BY DEF Store, Sections, Items, AllScreens
<1>3. MountChat(t, v) \in View
  BY <1>1, <1>2 DEF MountChat, View
<1>4. <<>> \in Seq(Nat) /\ <<>> \in Seq(Items)
  OBVIOUS
<1>5. NoView \in View
  BY <1>1, <1>4 DEF NoView, View, Sections, Forms, AllScreens
<1>6. Unmounted(v) \in View
  BY <1>5 DEF Unmounted, View
<1>8. /\ Unmounted(v).name = "landing" /\ Unmounted(v).everReady = FALSE
      /\ Unmounted(v).pending = v.pending /\ Unmounted(v).header = v.header
  BY DEF Unmounted, NoView
<1>7. MountLanding(t, v) \in View
  <2> DEFINE restored == t.error /\ v.pending # "none"
             form == IF restored THEN v.pending ELSE "main"
  <2>1. restored \in BOOLEAN /\ form \in Forms
    BY DEF Forms, View
  <2>2. MountLanding(t, v) = [Unmounted(v) EXCEPT !.form = form, !.error = restored]
    BY DEF MountLanding
  <2> HIDE DEF restored, form
  <2> QED BY <2>1, <2>2, <1>6 DEF View
<1> QED BY <1>3, <1>6, <1>7, <1>8, ZenonT(40) DEF View

(* The shell and the chat, after the store has become t: the page of t is  *)
(* mounted and a chat has drawn t.  Only the header, drawn before the      *)
(* shell acts, may speak of the page that was there.                       *)
LEMMA ListenersDraw ==
  ASSUME NEW p \in Good, NEW t \in Store, InOrder(t), NEW a,
         t.screen \in {"waiting", "ready"} => Follows(p.store, t),
         t.screen = "joining" => ~p.view.everReady,
         a.type \notin {"GOTO", "RESET"} => t.screen = p.store.screen,
         NEW w, w = ChatListeners(t, Shell(t, [p.view EXCEPT !.header = Header(t, p.view)], a))
  PROVE  /\ w \in View /\ Mounted(t, w) /\ (w.name = "chat" => ChatDrawn(t, w))
         /\ w.header = Header(t, p.view) /\ w.pending = p.view.pending
         /\ t.screen = p.store.screen /\ a.type \notin {"GOTO", "RESET"} =>
              /\ w.name = p.view.name /\ w.everReady = p.view.everReady
              /\ w.bar = p.view.bar
         /\ t.screen = "waiting" => w.everReady = p.view.everReady
         /\ t.screen = "landing" /\ a.type \in {"GOTO", "RESET"} =>
              /\ w.name = "landing"
              /\ t.error /\ p.view.pending # "none" =>
                   w.error /\ w.form = p.view.pending
<1> DEFINE v == p.view
           h == [p.view EXCEPT !.header = Header(t, p.view)]
           ever == CASE t.screen = "ready" -> TRUE
                     [] t.screen = "landing" -> FALSE
                     [] OTHER -> v.everReady
           name == PickView(t.screen, ever)
           same == name = v.name /\ (name = "chat" \/ a.type \notin {"GOTO", "RESET"})
<1>1. v \in View /\ p.store \in Store /\ Mounted(p.store, v)
      /\ (v.name = "chat" => ChatDrawn(p.store, v)) /\ InOrder(p.store)
  BY DEF Good, Page
<1>2. h \in View /\ h.name = v.name /\ h.everReady = v.everReady /\ h.history = v.history
      /\ h.rows = v.rows /\ h.bar = v.bar /\ h.screen = v.screen /\ h.pending = v.pending
      /\ h.header = Header(t, v)
  <2>1. h \in View
    BY <1>1, HeaderType
  <2> QED BY <2>1, <1>1 DEF View
<1>3. ever \in BOOLEAN /\ (t.screen = "ready" => ever)
      /\ (t.screen \in {"landing", "joining"} => ~ever)
      /\ (t.screen \in {"joining", "waiting"} => ever = v.everReady)
  BY <1>1 DEF View
<1>4. t.screen \in {"landing", "joining", "waiting", "ready"}
  BY DEF Store
<1>5. Shell(t, h, a) =
        IF same THEN [h EXCEPT !.everReady = ever]
        ELSE CASE name = "chat" -> MountChat(t, h)
               [] name = "landing" -> MountLanding(t, h)
               [] OTHER -> [Unmounted(h) EXCEPT !.name = name, !.everReady = ever]
  BY <1>2 DEF Shell
<1>6. /\ name = "chat" => t.screen \in {"waiting", "ready"} /\ ever
      /\ name = "landing" => t.screen = "landing"
      /\ name \in {"landing", "joining", "waiting", "chat"}
      /\ t.screen = "landing" => name = "landing"
  BY <1>3, <1>4 DEF PickView
<1>7. a.type \notin {"GOTO", "RESET"} => same /\ ever = v.everReady
  <2> SUFFICES ASSUME a.type \notin {"GOTO", "RESET"} PROVE name = v.name /\ ever = v.everReady
    OBVIOUS
  <2>1. t.screen = p.store.screen
    OBVIOUS
  <2>2. v.everReady \in BOOLEAN
    BY <1>1 DEF View
  <2>3. ever = v.everReady
    BY <2>1, <2>2, <1>1 DEF Mounted
  <2> QED BY <2>1, <2>3, <1>1 DEF Mounted
<1>8. RowsAfter(t.events, t.events) = t.events /\ HistoryAfter(t.messages, t.messages) = t.messages
  BY RowsStay DEF HistoryAfter
<1> HIDE DEF ever, name, h
<1>9. CASE same /\ name = "chat"
  <2> DEFINE u == [h EXCEPT !.everReady = ever]
  <2>1. Shell(t, h, a) = u
    BY <1>9, <1>5
  <2>2. u \in View /\ u.name = "chat" /\ u.everReady = ever /\ u.rows = v.rows /\ u.bar = v.bar
        /\ u.history = v.history /\ u.screen = v.screen /\ u.pending = v.pending
        /\ u.header = Header(t, v)
    BY <1>2, <1>3, <1>9 DEF View
  <2>3. v.name = "chat" /\ ChatDrawn(p.store, v) /\ p.store.screen \in {"waiting", "ready"}
    <3>1. v.name = "chat"
      BY <1>9
    <3>2. p.store.screen \in {"landing", "joining", "waiting", "ready"}
      BY <1>1 DEF Store
    <3> QED BY <3>1, <3>2, <1>1 DEF Mounted, PickView
  <2>4. RowsAfter(u.rows, t.events) = t.events /\ HistoryAfter(u.history, t.messages) = t.messages
    BY <2>2, <2>3, <1>6, <1>9 DEF ChatDrawn, Follows
  <2>5. u.screen \in {"waiting", "ready"} /\ (u.bar = "lobby" <=> u.screen = "waiting")
        /\ u.screen = p.store.screen
    BY <2>2, <2>3 DEF ChatDrawn
  <2>6. w = ChatListeners(t, u)
    BY <2>1 DEF h
  <2> HIDE DEF u
  <2>10. t.screen \in {"waiting", "ready"} /\ u.screen \in {"waiting", "ready"}
         /\ (u.bar = "lobby" <=> u.screen = "waiting") /\ u \in View /\ u.name = "chat"
    BY <2>2, <2>5, <1>6, <1>9
  <2>7. /\ w \in View /\ ChatDrawn(t, w) /\ w.name = "chat" /\ w.everReady = u.everReady
        /\ w.header = u.header /\ w.pending = u.pending /\ (t.screen = u.screen => w.bar = u.bar)
    BY <2>4, <2>6, <2>10, ChatFollows
  <2>8. Mounted(t, w)
    BY <2>2, <2>7, <1>3, <1>9 DEF Mounted, name
  <2> QED BY <2>2, <2>5, <2>7, <2>8, <1>3, <1>6, <1>7, <1>9
<1>10. CASE same /\ name # "chat"
  <2> DEFINE u == [h EXCEPT !.everReady = ever]
  <2>1. Shell(t, h, a) = u
    BY <1>10, <1>5
  <2>2. u \in View /\ u.name = name /\ u.everReady = ever /\ u.bar = v.bar
        /\ u.pending = v.pending /\ u.header = Header(t, v)
    BY <1>2, <1>3, <1>10 DEF View
  <2> HIDE DEF u
  <2>3. w = u
    BY <2>1, <2>2, <1>10 DEF ChatListeners, h
  <2>4. Mounted(t, w)
    BY <2>2, <2>3, <1>3, <1>10 DEF Mounted, name
  <2> QED BY <2>2, <2>3, <2>4, <1>3, <1>7, <1>10
<1>11. CASE ~same /\ name = "chat"
  <2> DEFINE u == MountChat(t, h)
  <2>1. Shell(t, h, a) = u
    BY <1>11, <1>5
  <2>2. u \in View
    BY <1>2, MountTypes
  <2>3. u.name = "chat" /\ u.everReady = TRUE /\ u.rows = t.events /\ u.history = t.messages
        /\ u.screen = t.screen /\ u.pending = v.pending /\ u.header = Header(t, v)
        /\ u.bar = (IF t.screen = "waiting" THEN "lobby" ELSE "regular")
    BY <1>2 DEF MountChat, View
  <2>4. w = ChatListeners(t, u)
    BY <2>1 DEF h
  <2> HIDE DEF u
  <2>5. /\ w \in View /\ ChatDrawn(t, w) /\ w.name = "chat" /\ w.everReady = u.everReady
        /\ w.header = u.header /\ w.pending = u.pending
    BY <2>2, <2>3, <2>4, <1>8, <1>6, <1>11, ChatFollows
  <2>6. Mounted(t, w)
    BY <2>3, <2>5, <1>3, <1>6, <1>11 DEF Mounted, PickView
  <2> QED BY <2>3, <2>5, <2>6, <1>3, <1>6, <1>7, <1>11
<1>12. CASE ~same /\ name = "landing"
  <2> DEFINE u == MountLanding(t, h)
  <2>1. Shell(t, h, a) = u
    BY <1>12, <1>5
  <2>2. u \in View
    BY <1>2, MountTypes
  <2>3. Unmounted(h) \in View /\ Unmounted(h).name = "landing" /\ Unmounted(h).everReady = FALSE
        /\ Unmounted(h).pending = v.pending /\ Unmounted(h).header = Header(t, v)
    BY <1>2, MountTypes
  <2>4. u.name = "landing" /\ u.everReady = FALSE /\ u.pending = v.pending
        /\ u.header = Header(t, v)
        /\ (t.error /\ v.pending # "none" => u.error /\ u.form = v.pending)
    BY <1>2, <2>3 DEF MountLanding, View
  <2> HIDE DEF u
  <2>5. w = u
    BY <2>1, <2>4 DEF ChatListeners, h
  <2>6. Mounted(t, w)
    BY <2>4, <2>5, <1>3, <1>6, <1>12 DEF Mounted, PickView
  <2> QED BY <2>2, <2>4, <2>5, <2>6, <1>6, <1>7, <1>12
<1>13. CASE ~same /\ name \notin {"chat", "landing"}
  <2> DEFINE u == [Unmounted(h) EXCEPT !.name = name, !.everReady = ever]
  <2>1. Shell(t, h, a) = u
    BY <1>13, <1>5
  <2>2. u \in View
    BY <1>2, <1>3, <1>6, <1>13, MountTypes
  <2>3. u.name = name /\ u.everReady = ever /\ u.pending = v.pending /\ u.header = Header(t, v)
    BY <1>2 DEF Unmounted, NoView, View
  <2> HIDE DEF u
  <2>4. w = u
    BY <2>1, <2>3, <1>13 DEF ChatListeners, h
  <2>5. Mounted(t, w)
    BY <2>3, <2>4, <1>3, <1>13 DEF Mounted, name
  <2> QED BY <2>2, <2>3, <2>4, <2>5, <1>3, <1>6, <1>7, <1>13
<1> QED BY <1>9, <1>10, <1>11, <1>12, <1>13

-----------------------------------------------------------------------------
(* What one dispatch, and what the events of the bridge, make of a page.   *)

(* q shows the same page as p: no view was mounted or unmounted.           *)
SamePage(p, q) ==
  /\ q.view.name = p.view.name /\ q.view.everReady = p.view.everReady
  /\ q.view.pending = p.view.pending /\ q.store.screen = p.store.screen

(* The header is right as soon as the dispatch before it has decided       *)
(* whether the chat is mounted.                                            *)
LEMMA HeaderRight ==
  ASSUME NEW p, NEW q, q.view.header = Header(q.store, p.view),
         (q.view.name = "chat") = (p.view.name = "chat")
  PROVE  HeaderShown(q)
BY DEF HeaderShown, Header

(* An action that changes no screen leaves the page whole.                 *)
LEMMA QuietDispatch ==
  ASSUME NEW p \in Good, NEW a \in Quiet, NEW q, q = Dispatch(p, a)
  PROVE  /\ q \in Good /\ HeaderShown(q) /\ SamePage(p, q) /\ q.view.bar = p.view.bar
         /\ q.store = Reduce(p.store, a)
<1> DEFINE t == Reduce(p.store, a)
           w == ChatListeners(t, Shell(t, [p.view EXCEPT !.header = Header(t, p.view)], a))
<1>1. q = [store |-> t, view |-> w]
  BY DEF Dispatch
<1>2. p.store \in Store /\ InOrder(p.store)
  BY DEF Good, Page
<1>3. /\ t \in Store /\ InOrder(t) /\ Follows(p.store, t) /\ t.screen = p.store.screen
      /\ a.type \notin {"GOTO", "RESET"}
  BY <1>2, QuietReduces
<1>4. t.screen = "joining" => ~p.view.everReady
  BY <1>3 DEF Good, Mounted
<1> HIDE DEF t
<1>5. /\ w \in View /\ Mounted(t, w) /\ (w.name = "chat" => ChatDrawn(t, w))
      /\ w.header = Header(t, p.view) /\ w.pending = p.view.pending
      /\ w.name = p.view.name /\ w.everReady = p.view.everReady /\ w.bar = p.view.bar
  BY <1>3, <1>4, ListenersDraw
<1> HIDE DEF w
<1>6. q \in Good
  BY <1>1, <1>3, <1>5 DEF Good, Page
<1>7. HeaderShown(q)
  BY <1>1, <1>5, HeaderRight
<1> QED BY <1>1, <1>3, <1>5, <1>6, <1>7 DEF SamePage, t

(* A change of screen mounts what belongs to it.                           *)
LEMMA GotoDispatch ==
  ASSUME NEW p \in Good, NEW a \in Gotos, a.screen = "joining" => ~p.view.everReady,
         NEW q, q = Dispatch(p, a)
  PROVE  /\ q \in Good /\ q.view.pending = p.view.pending
         /\ q.view.header = Header(q.store, p.view)
         /\ q.store = Reduce(p.store, a)
         /\ a.screen = "waiting" => q.view.everReady = p.view.everReady
         /\ a.screen = "landing" =>
              /\ q.view.name = "landing"
              /\ a.error /\ p.view.pending # "none" =>
                   q.view.error /\ q.view.form = p.view.pending
<1> DEFINE t == Reduce(p.store, a)
           w == ChatListeners(t, Shell(t, [p.view EXCEPT !.header = Header(t, p.view)], a))
<1>1. q = [store |-> t, view |-> w]
  BY DEF Dispatch
<1>2. p.store \in Store /\ InOrder(p.store)
  BY DEF Good, Page
<1>3. /\ t = [p.store EXCEPT !.screen = a.screen, !.error = a.error]
      /\ t \in Store /\ InOrder(t) /\ Follows(p.store, t) /\ a.type = "GOTO"
  BY <1>2, GotoReduces
<1>4. t.screen = a.screen /\ t.error = a.error
  BY <1>2, <1>3 DEF Store
<1>7. /\ t \in Store /\ InOrder(t)
      /\ t.screen \in {"waiting", "ready"} => Follows(p.store, t)
      /\ t.screen = "joining" => ~p.view.everReady
      /\ a.type \notin {"GOTO", "RESET"} => t.screen = p.store.screen
  BY <1>3, <1>4
<1>8. w = ChatListeners(t, Shell(t, [p.view EXCEPT !.header = Header(t, p.view)], a))
  OBVIOUS
<1> HIDE DEF t, w
<1>5. /\ w \in View /\ Mounted(t, w) /\ (w.name = "chat" => ChatDrawn(t, w))
      /\ w.header = Header(t, p.view) /\ w.pending = p.view.pending
      /\ t.screen = p.store.screen /\ a.type \notin {"GOTO", "RESET"} =>
           /\ w.name = p.view.name /\ w.everReady = p.view.everReady
           /\ w.bar = p.view.bar
      /\ t.screen = "waiting" => w.everReady = p.view.everReady
      /\ t.screen = "landing" /\ a.type \in {"GOTO", "RESET"} =>
           /\ w.name = "landing"
           /\ t.error /\ p.view.pending # "none" => w.error /\ w.form = p.view.pending
  BY <1>7, <1>8, ListenersDraw
<1>6. q \in Good
  BY <1>1, <1>7, <1>5 DEF Good, Page
<1>9. q.store = Reduce(p.store, a)
  BY <1>1 DEF t
<1> QED BY <1>1, <1>3, <1>4, <1>5, <1>6, <1>9

(* RESET goes to the landing page, whatever was open.                      *)
LEMMA ResetDispatch ==
  ASSUME NEW p \in Good, NEW q, q = Dispatch(p, Reset)
  PROVE  /\ q \in Good /\ q.view.name = "landing" /\ q.view.pending = p.view.pending
         /\ q.store = EmptyStore(p.store.section)
<1> DEFINE t == Reduce(p.store, Reset)
           w == ChatListeners(t, Shell(t, [p.view EXCEPT !.header = Header(t, p.view)], Reset))
<1>1. q = [store |-> t, view |-> w]
  BY DEF Dispatch
<1>2. p.store \in Store
  BY DEF Good, Page
<1>3. t = EmptyStore(p.store.section) /\ t \in Store /\ InOrder(t)
  BY <1>2, ResetReduces
<1>4. t.screen = "landing" /\ Reset.type = "RESET"
  BY <1>3 DEF EmptyStore, Reset
<1> HIDE DEF t
<1>5. /\ w \in View /\ Mounted(t, w) /\ (w.name = "chat" => ChatDrawn(t, w))
      /\ w.pending = p.view.pending
      /\ t.screen = "landing" /\ Reset.type \in {"GOTO", "RESET"} => w.name = "landing"
  BY <1>3, <1>4, ListenersDraw
<1> HIDE DEF w
<1>6. q \in Good
  BY <1>1, <1>3, <1>5 DEF Good, Page
<1> QED BY <1>1, <1>3, <1>4, <1>5, <1>6

(* A line in the chat and an entry in the log.                             *)
LEMMA SaidShown ==
  ASSUME NEW p \in Good, NEW x \in Items, NEW q, q = Said(p, x)
  PROVE  /\ q \in Good /\ HeaderShown(q) /\ SamePage(p, q)
         /\ q.store.messages = Append(p.store.messages, x)
         /\ q.store.peers = p.store.peers
<1> DEFINE m == Dispatch(p, Appended(x))
<1>1. Appended(x) \in Quiet /\ EventLogged \in Quiet
  BY DEF Quiet
<1>2. m \in Good /\ SamePage(p, m) /\ m.store = Reduce(p.store, Appended(x))
  BY <1>1, QuietDispatch
<1>3. p.store \in Store
  BY DEF Good, Page
<1>4. m.store.messages = Append(p.store.messages, x) /\ m.store.peers = p.store.peers
  BY <1>2, <1>3 DEF Reduce, Appended, Store
<1>5. q = Dispatch(m, EventLogged)
  BY DEF Said, Logged
<1> HIDE DEF m
<1>6. q \in Good /\ HeaderShown(q) /\ SamePage(m, q) /\ q.store = Reduce(m.store, EventLogged)
  BY <1>1, <1>2, <1>5, QuietDispatch
<1>7. m.store \in Store
  BY <1>2 DEF Good, Page
<1>8. q.store.messages = m.store.messages /\ q.store.peers = m.store.peers
  BY <1>6, <1>7 DEF Reduce, EventLogged, Store
<1> QED BY <1>2, <1>4, <1>6, <1>8 DEF SamePage

(* A peer is met, for the first time or again: it is listed with its       *)
(* fingerprint, and a changed one is announced.                            *)
LEMMA MetShown ==
  ASSUME NEW p \in Good, NEW n \in Peers, NEW f \in Fp, NEW q, q = Met(p, n, f)
  PROVE  /\ q \in Good /\ HeaderShown(q) /\ SamePage(p, q)
         /\ q.store.peers = [p.store.peers EXCEPT ![n] = f]
         /\ \E x \in Items :
              /\ q.store.messages = Append(p.store.messages, x)
              /\ p.store.peers[n] # NoFp /\ p.store.peers[n] # f => x = "warning"
<1> DEFINE m == Dispatch(p, PeerAdded(n, f))
<1>1. PeerAdded(n, f) \in Quiet
  BY DEF Quiet
<1>2. m \in Good /\ SamePage(p, m) /\ m.store = Reduce(p.store, PeerAdded(n, f))
  BY <1>1, QuietDispatch
<1>3. p.store \in Store
  BY DEF Good, Page
<1>4. m.store.messages = p.store.messages
      /\ m.store.peers = [p.store.peers EXCEPT ![n] = f]
  BY <1>2, <1>3 DEF Reduce, PeerAdded, Store
<1>5. \E x \in Items : q = Said(m, x)
                       /\ (p.store.peers[n] # NoFp /\ p.store.peers[n] # f => x = "warning")
  <2>1. CASE p.store.peers[n] # NoFp /\ p.store.peers[n] # f
    BY <2>1 DEF Met, OnPeerKnown, Items
  <2>2. CASE p.store.peers[n] = NoFp
    BY <2>2 DEF Met, OnPeerJoined, Items
  <2>3. CASE p.store.peers[n] # NoFp /\ p.store.peers[n] = f
    BY <2>3 DEF Met, OnPeerKnown, Items
  <2> QED BY <2>1, <2>2, <2>3
<1>6. PICK x \in Items : q = Said(m, x)
                         /\ (p.store.peers[n] # NoFp /\ p.store.peers[n] # f => x = "warning")
  BY <1>5
<1> HIDE DEF m
<1>7. /\ q \in Good /\ HeaderShown(q) /\ SamePage(m, q)
      /\ q.store.messages = Append(m.store.messages, x) /\ q.store.peers = m.store.peers
  BY <1>2, <1>6, SaidShown
<1> QED BY <1>2, <1>4, <1>6, <1>7 DEF SamePage

(* The way to the landing page, with an error or without: the form of the  *)
(* attempt comes back with the error.                                      *)
LEMMA LandingDispatch ==
  ASSUME NEW p \in Good, p.view.name = "landing", NEW b \in BOOLEAN,
         NEW q, q = Dispatch(p, GotoLanding(b))
  PROVE  /\ q \in Good /\ HeaderShown(q) /\ q.view.name = "landing"
         /\ q.store = [p.store EXCEPT !.screen = "landing", !.error = b]
         /\ b /\ p.view.pending # "none" => q.view.error /\ q.view.form = p.view.pending
<1> DEFINE a == GotoLanding(b)
<1>1. a \in Gotos /\ q = Dispatch(p, a)
  BY DEF Gotos
<1>2. a.screen = "landing" /\ a.error = b /\ a.type = "GOTO"
  BY DEF GotoLanding
<1>3. a.screen = "joining" => ~p.view.everReady
  BY <1>2
<1> HIDE DEF a
<1>4. /\ q \in Good /\ q.view.header = Header(q.store, p.view)
      /\ q.store = Reduce(p.store, a)
      /\ q.view.name = "landing"
      /\ a.error /\ p.view.pending # "none" => q.view.error /\ q.view.form = p.view.pending
  BY <1>1, <1>2, <1>3, GotoDispatch
<1>5. HeaderShown(q)
  BY <1>4, HeaderRight
<1>6. q.store = [p.store EXCEPT !.screen = "landing", !.error = b]
  BY <1>2, <1>4 DEF Reduce
<1> QED BY <1>2, <1>4, <1>5, <1>6

(* The end of an attempt or of a session, with its error.                  *)
LEMMA FatalShows ==
  ASSUME NEW p \in Good, NEW q, q = OnFatal(p)
  PROVE  /\ q \in Good /\ HeaderShown(q) /\ q.view.name = "landing"
         /\ p.view.pending # "none" => q.view.error /\ q.view.form = p.view.pending
         /\ q.store.peers = NoPane.peers
<1> DEFINE m == Logged(p)
           k == Dispatch(m, Reset)
<1>1. EventLogged \in Quiet
  BY DEF Quiet
<1>2. m \in Good /\ m.view.pending = p.view.pending
  BY <1>1, QuietDispatch DEF Logged, SamePage
<1> HIDE DEF m
<1>3. k \in Good /\ k.view.name = "landing" /\ k.view.pending = p.view.pending
      /\ k.store = EmptyStore(m.store.section)
  BY <1>2, ResetDispatch
<1>4. q = Dispatch(k, GotoLanding(TRUE))
  BY DEF OnFatal, m
<1> HIDE DEF k
<1>5. /\ q \in Good /\ HeaderShown(q) /\ q.view.name = "landing"
      /\ q.store = [k.store EXCEPT !.screen = "landing", !.error = TRUE]
      /\ k.view.pending # "none" => q.view.error /\ q.view.form = k.view.pending
  BY <1>3, <1>4, LandingDispatch
<1>6. q.store.peers = NoPane.peers
  BY <1>3, <1>5 DEF EmptyStore
<1> QED BY <1>3, <1>5, <1>6

(* The user leaves: the landing page without an error.                     *)
LEMMA LeavingShows ==
  ASSUME NEW p \in Good, NEW q, q = Leaving(p)
  PROVE  /\ q \in Good /\ HeaderShown(q) /\ q.store.error = FALSE
         /\ q.store.peers = NoPane.peers
<1> DEFINE k == Dispatch(p, Reset)
<1>1. k \in Good /\ k.view.name = "landing" /\ k.store = EmptyStore(p.store.section)
  BY ResetDispatch
<1>2. q = Dispatch(k, GotoLanding(FALSE))
  BY DEF Leaving
<1> HIDE DEF k
<1>3. /\ q \in Good /\ HeaderShown(q)
      /\ q.store = [k.store EXCEPT !.screen = "landing", !.error = FALSE]
  BY <1>1, <1>2, LandingDispatch
<1>4. q.store.peers = NoPane.peers /\ q.store.error = FALSE
  BY <1>1, <1>3 DEF EmptyStore
<1> QED BY <1>3, <1>4

(* A change of screen that is not to the landing page: the chat's contents *)
(* stay, and the way to the lobby mounts no chat and unmounts none.        *)
LEMMA GotoShows ==
  ASSUME NEW p \in Good, NEW x \in {"joining", "waiting", "ready"},
         x = "joining" => ~p.view.everReady, NEW q, q = Dispatch(p, Goto(x))
  PROVE  /\ q \in Good /\ (x = "waiting" => HeaderShown(q))
         /\ q.store.messages = p.store.messages /\ q.store.peers = p.store.peers
<1> DEFINE a == Goto(x)
<1>1. a \in Gotos /\ q = Dispatch(p, a)
  BY DEF Gotos
<1>2. a.screen = x /\ a.type = "GOTO" /\ a.screen # "landing"
  BY DEF Goto
<1>3. a.screen = "joining" => ~p.view.everReady
  BY <1>2
<1> HIDE DEF a
<1>4. /\ q \in Good /\ q.view.header = Header(q.store, p.view)
      /\ q.store = Reduce(p.store, a)
      /\ a.screen = "waiting" => q.view.everReady = p.view.everReady
  BY <1>1, <1>2, <1>3, GotoDispatch
<1>5. p.store \in Store
  BY DEF Good, Page
<1>6. /\ q.store.messages = p.store.messages /\ q.store.peers = p.store.peers
      /\ q.store.screen = x
  BY <1>2, <1>4, <1>5 DEF Reduce, Store
<1>7. ASSUME x = "waiting" PROVE HeaderShown(q)
  <2>1. Mounted(p.store, p.view) /\ Mounted(q.store, q.view)
    BY <1>4 DEF Good
  <2>2. q.view.everReady = p.view.everReady /\ p.view.everReady \in BOOLEAN
    BY <1>2, <1>4, <1>7 DEF Good, Page, View
  <2>3. p.store.screen \in {"landing", "joining", "waiting", "ready"}
    BY <1>5 DEF Store
  <2>4. (q.view.name = "chat") = (p.view.name = "chat")
    BY <2>1, <2>2, <2>3, <1>6, <1>7 DEF Mounted, PickView
  <2> QED BY <2>4, <1>4, HeaderRight
<1> QED BY <1>4, <1>6, <1>7

(* An entry in the log, and a fingerprint of the user's own.               *)
LEMMA LoggedShows ==
  ASSUME NEW p \in Good, NEW q, q = Logged(p)
  PROVE  /\ q \in Good /\ HeaderShown(q) /\ SamePage(p, q)
         /\ q.store.messages = p.store.messages /\ q.store.peers = p.store.peers
<1>1. EventLogged \in Quiet /\ q = Dispatch(p, EventLogged)
  BY DEF Quiet, Logged
<1>2. q \in Good /\ HeaderShown(q) /\ SamePage(p, q) /\ q.store = Reduce(p.store, EventLogged)
  BY <1>1, QuietDispatch
<1>3. p.store \in Store
  BY DEF Good, Page
<1> QED BY <1>2, <1>3 DEF Reduce, EventLogged, Store

(* A fingerprint of the user's own after a new session.                    *)
LEMMA LocalShows ==
  ASSUME NEW p \in Good, NEW f \in Fp, NEW q, q = Dispatch(p, LocalFingerprint(f))
  PROVE  /\ q \in Good /\ HeaderShown(q) /\ SamePage(p, q)
         /\ q.store.messages = p.store.messages /\ q.store.peers = p.store.peers
<1> DEFINE a == LocalFingerprint(f)
<1>1. a \in Quiet /\ q = Dispatch(p, a)
  BY DEF Quiet
<1>4. a.type = "LOCAL_FINGERPRINT"
  BY DEF LocalFingerprint
<1> HIDE DEF a
<1>2. q \in Good /\ HeaderShown(q) /\ SamePage(p, q) /\ q.store = Reduce(p.store, a)
  BY <1>1, QuietDispatch
<1>3. p.store \in Store
  BY DEF Good, Page
<1> QED BY <1>2, <1>3, <1>4 DEF Reduce, Store

(* A panel opened or closed.                                               *)
LEMMA ToggleShows ==
  ASSUME NEW p \in Good, NEW x \in {"event-log", "verify"},
         NEW q, q = Dispatch(p, SidebarToggle(x))
  PROVE  /\ q \in Good /\ HeaderShown(q) /\ SamePage(p, q) /\ q.view.bar = p.view.bar
         /\ q.store.messages = p.store.messages /\ q.store.peers = p.store.peers
<1> DEFINE a == SidebarToggle(x)
<1>1. a \in Quiet /\ q = Dispatch(p, a)
  BY DEF Quiet
<1>4. a.type = "SIDEBAR_TOGGLE"
  BY DEF SidebarToggle
<1> HIDE DEF a
<1>2. /\ q \in Good /\ HeaderShown(q) /\ SamePage(p, q) /\ q.view.bar = p.view.bar
      /\ q.store = Reduce(p.store, a)
  BY <1>1, QuietDispatch
<1>3. p.store \in Store
  BY DEF Good, Page
<1> QED BY <1>2, <1>3, <1>4 DEF Reduce, Store

(* A peer that left.                                                       *)
LEMMA LeftShows ==
  ASSUME NEW p \in Good, NEW n \in Peers, NEW q, q = OnPeerLeft(p, n)
  PROVE  /\ q \in Good /\ HeaderShown(q) /\ SamePage(p, q)
         /\ q.store.peers = [p.store.peers EXCEPT ![n] = NoFp]
<1> DEFINE a == PeerRemoved(n)
           m == Dispatch(p, a)
<1>1. a \in Quiet /\ q = Said(m, "line")
  BY DEF Quiet, OnPeerLeft
<1>2. a.type = "PEER_REMOVED" /\ a.username = n
  BY DEF PeerRemoved
<1> HIDE DEF a
<1>3. m \in Good /\ SamePage(p, m) /\ m.store = Reduce(p.store, a)
  BY <1>1, QuietDispatch
<1>4. p.store \in Store
  BY DEF Good, Page
<1>5. m.store.peers = [p.store.peers EXCEPT ![n] = NoFp]
  BY <1>2, <1>3, <1>4 DEF Reduce, Store
<1> HIDE DEF m
<1>6. "line" \in Items
  BY DEF Items
<1>7. q \in Good /\ HeaderShown(q) /\ SamePage(m, q) /\ q.store.peers = m.store.peers
  BY <1>1, <1>3, <1>6, SaidShown
<1> QED BY <1>3, <1>5, <1>7 DEF SamePage

(* Changes of the user to the form or to the bar.                          *)
LEMMA ViewEdited ==
  ASSUME NEW p \in Good, HeaderShown(p), NEW v \in View,
         v.name = p.view.name, v.everReady = p.view.everReady, v.header = p.view.header,
         v.name = "chat" => ChatDrawn(p.store, v), NEW q, q = [store |-> p.store, view |-> v]
  PROVE  q \in Good /\ HeaderShown(q)
<1>1. p.store \in Store /\ InOrder(p.store) /\ Mounted(p.store, p.view)
  BY DEF Good, Page
<1>2. Mounted(p.store, v)
  BY <1>1 DEF Mounted
<1>3. q \in Good
  BY <1>1, <1>2 DEF Good, Page
<1> QED BY <1>3 DEF HeaderShown, Header

-----------------------------------------------------------------------------
(* The warnings.                                                           *)

(* From s to t the messages grew, nobody left the list, and a fingerprint  *)
(* that is another one now is warned of in what is new.                    *)
Told(s, t) ==
  /\ Len(s.messages) <= Len(t.messages)
  /\ \A n \in Peers : s.peers[n] # NoFp =>
       /\ t.peers[n] # NoFp
       /\ t.peers[n] # s.peers[n] =>
            \E i \in 1 .. Len(t.messages) : i > Len(s.messages) /\ t.messages[i] = "warning"

(* What FpWarned says of one step.                                         *)
Warned(s, t) ==
  \A n \in Peers :
    (s.peers[n] # NoFp /\ t.peers[n] # NoFp /\ s.peers[n] # t.peers[n]) =>
      "warning" \in {t.messages[i] : i \in DOMAIN t.messages \ DOMAIN s.messages}

(* What was told covers what FpWarned asks for.                            *)
LEMMA ToldWarned ==
  ASSUME NEW s \in Store, NEW t \in Store, Told(s, t)
  PROVE  Warned(s, t)
<1>1. /\ DOMAIN s.messages = 1 .. Len(s.messages) /\ DOMAIN t.messages = 1 .. Len(t.messages)
      /\ Len(s.messages) \in Nat /\ Len(t.messages) \in Nat
  BY DEF Store
<1> SUFFICES ASSUME NEW n \in Peers, s.peers[n] # NoFp, t.peers[n] # NoFp,
                    s.peers[n] # t.peers[n]
             PROVE  \E i \in DOMAIN t.messages \ DOMAIN s.messages : t.messages[i] = "warning"
  BY DEF Warned
<1>2. PICK i \in 1 .. Len(t.messages) : i > Len(s.messages) /\ t.messages[i] = "warning"
  BY DEF Told
<1>3. i \in DOMAIN t.messages \ DOMAIN s.messages
  BY <1>1, <1>2
<1> QED BY <1>2, <1>3

(* One more peer met.                                                      *)
LEMMA ToldOn ==
  ASSUME NEW s \in Store, NEW t \in Store, NEW u \in Store, Told(s, t),
         NEW n \in Peers, NEW f \in Fp, NEW x \in Items,
         u.messages = Append(t.messages, x), u.peers = [t.peers EXCEPT ![n] = f],
         t.peers[n] # NoFp /\ t.peers[n] # f => x = "warning"
  PROVE  Told(s, u)
<1> DEFINE a == Len(s.messages)
           b == Len(t.messages)
<1>1. /\ a \in Nat /\ b \in Nat /\ a <= b /\ Len(u.messages) = b + 1
      /\ u.messages[b + 1] = x /\ \A i \in 1 .. b : u.messages[i] = t.messages[i]
  <2>1. s.messages \in Seq(Items) /\ t.messages \in Seq(Items)
    BY DEF Store, Items
  <2> QED BY <2>1, AppendProperties DEF Told
<1>2. t.peers \in [Peers -> Fp \cup {NoFp}]
  BY DEF Store
<1> SUFFICES ASSUME NEW m \in Peers, s.peers[m] # NoFp
             PROVE  /\ u.peers[m] # NoFp
                    /\ u.peers[m] # s.peers[m] =>
                         \E i \in 1 .. b + 1 : i > a /\ u.messages[i] = "warning"
  BY <1>1 DEF Told
<1>3. t.peers[m] # NoFp
  BY DEF Told
<1>4. ASSUME t.peers[m] # s.peers[m]
      PROVE  \E i \in 1 .. b + 1 : i > a /\ u.messages[i] = "warning"
  <2>1. PICK i \in 1 .. b : i > a /\ t.messages[i] = "warning"
    BY <1>4 DEF Told
  <2>2. i \in 1 .. b + 1 /\ u.messages[i] = "warning"
    BY <2>1, <1>1
  <2> QED BY <2>1, <2>2
<1>5. CASE m # n
  BY <1>2, <1>3, <1>4, <1>5
<1>6. CASE m = n /\ t.peers[n] = f
  BY <1>2, <1>3, <1>4, <1>6
<1>7. CASE m = n /\ t.peers[n] # f
  <2>1. x = "warning"
    BY <1>3, <1>7
  <2>2. b + 1 \in 1 .. b + 1 /\ b + 1 > a /\ u.messages[b + 1] = "warning"
    BY <1>1, <2>1
  <2>3. u.peers[m] # NoFp
    BY <1>2, <1>7, NoFpOutside
  <2> QED BY <2>2, <2>3
<1> QED BY <1>5, <1>6, <1>7

(* All the members that are there when the client joins.                   *)
LEMMA AllMetShown ==
  ASSUME NEW p \in Good, HeaderShown(p),
         NEW present \in [Peers -> Fp \cup {NoFp}], NEW order \in Seq(Listed(present)),
         NEW q, q = AllMet(p, order, present)
  PROVE  q \in Good /\ HeaderShown(q) /\ Told(p.store, q.store)
<1> DEFINE n == Len(order)
           met == CHOOSE f : f = [i \in 0 .. n |->
                    IF i = 0 THEN p ELSE Met(f[i - 1], order[i], present[order[i]])]
           S == {r \in Good : HeaderShown(r) /\ Told(p.store, r.store)}
           step == [a \in S \X (1 .. n) |-> Met(a[1], order[a[2]], present[order[a[2]]])]
<1>0. n \in Nat /\ \A i \in 1 .. n : order[i] \in Peers /\ present[order[i]] \in Fp
  BY DEF Listed
<1>1. ASSUME NEW r \in S, NEW i \in 1 .. n PROVE Met(r, order[i], present[order[i]]) \in S
  <2> DEFINE k == order[i]
             f == present[order[i]]
             u == Met(r, k, f)
  <2>1. k \in Peers /\ f \in Fp
    BY <1>0
  <2>2. r \in Good /\ Told(p.store, r.store)
    OBVIOUS
  <2>3. Met(r, order[i], present[order[i]]) = u
    OBVIOUS
  <2> HIDE DEF k, f, S
  <2>4. u = Met(r, k, f)
    OBVIOUS
  <2> HIDE DEF u
  <2>5. /\ u \in Good /\ HeaderShown(u)
        /\ u.store.peers = [r.store.peers EXCEPT ![k] = f]
        /\ \E x \in Items :
             /\ u.store.messages = Append(r.store.messages, x)
             /\ r.store.peers[k] # NoFp /\ r.store.peers[k] # f => x = "warning"
    BY <2>1, <2>2, <2>4, MetShown, SMTT(30)
  <2>6. PICK x \in Items :
             /\ u.store.messages = Append(r.store.messages, x)
             /\ r.store.peers[k] # NoFp /\ r.store.peers[k] # f => x = "warning"
    BY <2>5
  <2>7. p.store \in Store /\ r.store \in Store /\ u.store \in Store
    BY <2>2, <2>5 DEF Good, Page
  <2>8. Told(p.store, u.store)
    <3> DEFINE s == p.store
               t == r.store
               v == u.store
    <3>1. s \in Store /\ t \in Store /\ v \in Store /\ Told(s, t)
          /\ v.messages = Append(t.messages, x) /\ v.peers = [t.peers EXCEPT ![k] = f]
          /\ (t.peers[k] # NoFp /\ t.peers[k] # f => x = "warning")
      BY <2>2, <2>5, <2>6, <2>7
    <3> HIDE DEF s, t, v
    <3>2. Told(s, v)
      BY <3>1, <2>1, ToldOn
    <3> QED BY <3>2 DEF s, v
  <2> QED BY <2>3, <2>5, <2>8 DEF S
<1>2. p \in S
  <2>1. Len(p.store.messages) \in Nat
    BY DEF Good, Page, Store
  <2> QED BY <2>1 DEF Told
<1>3. step \in [S \X (1 .. n) -> S]
  BY <1>1
<1> HIDE DEF S
<1>4. PICK h \in [0 .. n -> S] : Runs(h, n, p, step)
  BY <1>0, <1>2, <1>3, Iterated
<1>5. h = [i \in 0 .. n |-> IF i = 0 THEN p ELSE Met(h[i - 1], order[i], present[order[i]])]
  <2>1. ASSUME NEW i \in 0 .. n
        PROVE  h[i] = IF i = 0 THEN p ELSE Met(h[i - 1], order[i], present[order[i]])
    <3>1. CASE i = 0
      BY <3>1, <1>4 DEF Runs
    <3>2. CASE i # 0
      <4>1. i \in 1 .. n /\ i - 1 \in 0 .. n
        BY <3>2, <1>0
      <4>2. h[i] = step[<<h[i - 1], i>>]
        BY <4>1, <1>4 DEF Runs
      <4>3. h[i - 1] \in S
        BY <4>1
      <4>4. step[<<h[i - 1], i>>] = Met(h[i - 1], order[i], present[order[i]])
        BY <4>1, <4>3
      <4> QED BY <3>2, <4>2, <4>4
    <3> QED BY <3>1, <3>2
  <2> QED BY <2>1
<1>6. met = [i \in 0 .. n |-> IF i = 0 THEN p ELSE Met(met[i - 1], order[i], present[order[i]])]
  BY <1>5
<1>7. q = met[n]
  BY DEF AllMet
<1> HIDE DEF met
<1>8. met[0] = p /\ \A i \in 1 .. n : met[i] = Met(met[i - 1], order[i], present[order[i]])
  BY <1>0, <1>6
<1> DEFINE T == {i \in 0 .. n : met[i] \in S}
<1>9. 0 \in T
  BY <1>0, <1>2, <1>8
<1>10. ASSUME NEW i \in 0 .. n, i < n, i \in T PROVE i + 1 \in T
  <2>1. i + 1 \in 1 .. n /\ (i + 1) - 1 = i /\ met[i] \in S
    BY <1>10, <1>0
  <2>2. met[i + 1] = Met(met[i], order[i + 1], present[order[i + 1]])
    BY <2>1, <1>8
  <2>3. met[i + 1] \in S
    BY <2>1, <2>2, <1>1
  <2> QED BY <2>1, <2>3
<1> HIDE DEF T, n
<1>11. n \in T
  <2>1. \A i \in 0 .. n : i < n /\ i \in T => i + 1 \in T
    BY <1>10
  <2>2. \A i \in 0 .. n : i \in T
    BY <2>1, <1>0, <1>9, CountUp
  <2> QED BY <2>2, <1>0
<1>12. met[n] \in S
  BY <1>11 DEF T
<1> QED BY <1>7, <1>12 DEF S

(* What every step makes of the page.                                      *)
PageStep(p, q) == q \in Good /\ HeaderShown(q) /\ Warned(p.store, q.store)

(* No warning is due while the list stays or is emptied.                   *)
LEMMA SameListWarned ==
  ASSUME NEW p, NEW q, q.store.peers = p.store.peers
  PROVE  Warned(p.store, q.store)
BY DEF Warned

(* Nor when the list is emptied.                                           *)
LEMMA EmptiedWarned ==
  ASSUME NEW p, NEW q, q.store.peers = NoPane.peers
  PROVE  Warned(p.store, q.store)
BY DEF Warned, NoPane

(* The form that is submitted, and the joining page of a join.             *)
LEMMA SubmitFormStep ==
  ASSUME page \in Good, HeaderShown(page), SubmitForm
  PROVE  PageStep(page, page')
<1>1. PICK mode \in {"create", "join"} :
        LET asked == [page EXCEPT !.view = [@ EXCEPT !.pending = mode, !.form = mode,
                                                     !.error = FALSE]]
        IN page' = IF mode = "create" THEN asked
                   ELSE Logged(Dispatch(asked, Goto("joining")))
  BY DEF SubmitForm
<1> DEFINE v == [page.view EXCEPT !.pending = mode, !.form = mode, !.error = FALSE]
           asked == [store |-> page.store, view |-> v]
<1>2. page \in Page /\ page.view \in View /\ page.view.name = "landing"
  BY DEF Good, Page, SubmitForm
<1>3. asked = [page EXCEPT !.view = v]
  BY <1>2 DEF Page
<1>4. v \in View /\ v.name = "landing" /\ v.everReady = page.view.everReady
      /\ v.header = page.view.header
  BY <1>2 DEF View, Forms
<1>5. page' = IF mode = "create" THEN asked ELSE Logged(Dispatch(asked, Goto("joining")))
  BY <1>1, <1>3
<1>6. asked.view = v /\ asked.store = page.store
  OBVIOUS
<1>7. asked = [store |-> page.store, view |-> v]
  OBVIOUS
<1> HIDE DEF v, asked
<1>8. asked \in Good /\ HeaderShown(asked)
  <2>1. v.name = page.view.name /\ (v.name = "chat" => ChatDrawn(page.store, v))
    BY <1>2, <1>4
  <2> QED BY <2>1, <1>4, <1>7, ViewEdited
<1>9. CASE mode = "create"
  BY <1>5, <1>6, <1>8, <1>9 DEF PageStep, Warned
<1>10. CASE mode = "join"
  <2> DEFINE m == Dispatch(asked, Goto("joining"))
  <2>1. ~asked.view.everReady
    <3>1. Mounted(asked.store, asked.view) /\ asked.store \in Store
      BY <1>8 DEF Good, Page
    <3> QED BY <3>1, <1>4, <1>6 DEF Mounted, PickView, Store
  <2>2. m \in Good /\ m.store.peers = asked.store.peers
    BY <2>1, <1>8, GotoShows
  <2>3. page' = Logged(m)
    BY <1>5, <1>10
  <2> HIDE DEF m
  <2>4. page' \in Good /\ HeaderShown(page') /\ page'.store.peers = m.store.peers
    BY <2>2, <2>3, LoggedShows
  <2> QED BY <2>2, <2>4, <1>6 DEF PageStep, Warned
<1> QED BY <1>9, <1>10

(* The form that is cancelled.                                             *)
LEMMA ShowMainStep ==
  ASSUME page \in Good, HeaderShown(page), ShowMain
  PROVE  PageStep(page, page')
<1> DEFINE v == [page.view EXCEPT !.form = "main", !.error = FALSE, !.pending = "none"]
<1>2. page \in Page /\ page.view \in View /\ page.view.name = "landing"
  BY DEF Good, Page, ShowMain
<1>3. page' = [store |-> page.store, view |-> v]
  BY <1>2 DEF Page, ShowMain
<1>4. v \in View /\ v.name = "landing" /\ v.everReady = page.view.everReady
      /\ v.header = page.view.header
  BY <1>2 DEF View, Forms
<1> HIDE DEF v
<1>5. page' \in Good /\ HeaderShown(page')
  <2>1. v.name = page.view.name /\ (v.name = "chat" => ChatDrawn(page.store, v))
    BY <1>2, <1>4
  <2> QED BY <2>1, <1>3, <1>4, ViewEdited
<1> QED BY <1>3, <1>5 DEF PageStep, Warned

(* Only the input gives way to the keys, so the lobby's bar stays.         *)
LEMMA EnterKeysStep ==
  ASSUME page \in Good, HeaderShown(page), EnterKeysMode
  PROVE  PageStep(page, page')
<1> DEFINE v == [page.view EXCEPT !.bar = "keys"]
<1>2. page \in Page /\ page.view \in View /\ page.view.bar = "regular"
  BY DEF Good, Page, EnterKeysMode
<1>3. page' = [store |-> page.store, view |-> v]
  BY <1>2 DEF Page, EnterKeysMode
<1>4. v \in View /\ v.name = page.view.name /\ v.everReady = page.view.everReady
      /\ v.header = page.view.header
  BY <1>2 DEF View
<1>5. v.name = "chat" => ChatDrawn(page.store, v)
  BY <1>2 DEF ChatDrawn, Good, View
<1> HIDE DEF v
<1>6. page' \in Good /\ HeaderShown(page')
  BY <1>3, <1>4, <1>5, ViewEdited
<1> QED BY <1>3, <1>6 DEF PageStep, Warned

(* The keys give way to the input, after the panel they have toggled.      *)
LEMMA ExitKeysStep ==
  ASSUME page \in Good, HeaderShown(page), ExitKeysMode
  PROVE  PageStep(page, page')
<1>1. PICK p \in {page} \cup {Dispatch(page, SidebarToggle(section)) :
                               section \in {"event-log", "verify"}} :
        page' = [p EXCEPT !.view.bar = "regular"]
  BY DEF ExitKeysMode
<1>2. p \in Good /\ HeaderShown(p) /\ p.view.bar = "keys" /\ p.store.peers = page.store.peers
  <2>0. page.view.bar = "keys"
    BY DEF ExitKeysMode
  <2>1. CASE p = page
    BY <2>0, <2>1
  <2>2. CASE \E x \in {"event-log", "verify"} : p = Dispatch(page, SidebarToggle(x))
    <3>1. PICK x \in {"event-log", "verify"} : p = Dispatch(page, SidebarToggle(x))
      BY <2>2
    <3>2. p \in Good /\ HeaderShown(p) /\ p.view.bar = page.view.bar
          /\ p.store.peers = page.store.peers
      BY <3>1, ToggleShows
    <3> QED BY <2>0, <3>2
  <2> QED BY <2>1, <2>2
<1> DEFINE v == [p.view EXCEPT !.bar = "regular"]
<1>3. p \in Page /\ p.view \in View
  BY <1>2 DEF Good, Page
<1>4. page' = [store |-> p.store, view |-> v]
  BY <1>1, <1>3 DEF Page
<1>5. v \in View /\ v.name = p.view.name /\ v.everReady = p.view.everReady
      /\ v.header = p.view.header
  BY <1>3 DEF View
<1>6. v.name = "chat" => ChatDrawn(p.store, v)
  BY <1>2, <1>3 DEF ChatDrawn, Good, View
<1> HIDE DEF v
<1>7. page' \in Good /\ HeaderShown(page')
  BY <1>2, <1>4, <1>5, <1>6, ViewEdited
<1> QED BY <1>2, <1>4, <1>7 DEF PageStep, Warned

(* The header's buttons.                                                   *)
LEMMA ToggleStep ==
  ASSUME page \in Good, Toggle
  PROVE  PageStep(page, page')
<1>1. PICK x \in {"event-log", "verify"} : page' = Dispatch(page, SidebarToggle(x))
  BY DEF Toggle
<1>2. page' \in Good /\ HeaderShown(page') /\ page'.store.peers = page.store.peers
  BY <1>1, ToggleShows
<1> QED BY <1>2 DEF PageStep, Warned

(* The room is made: the joining page.                                     *)
LEMMA OnRoomCreatedStep ==
  ASSUME page \in Good, OnRoomCreated, ~page.view.everReady
  PROVE  PageStep(page, page')
<1> DEFINE m == Dispatch(page, Goto("joining"))
<1>2. m \in Good /\ m.store.peers = page.store.peers
  BY GotoShows
<1>3. page' = Logged(m)
  BY DEF OnRoomCreated
<1> HIDE DEF m
<1>4. page' \in Good /\ HeaderShown(page') /\ page'.store.peers = m.store.peers
  BY <1>2, <1>3, LoggedShows
<1> QED BY <1>2, <1>4 DEF PageStep, Warned

(* A chat item: a line, and an entry in the log.                           *)
LEMMA ItemShows ==
  ASSUME NEW p \in Good, NEW q, q = OnChatItem(p)
  PROVE  q \in Good /\ HeaderShown(q) /\ q.store.peers = p.store.peers
         /\ Len(p.store.messages) <= Len(q.store.messages)
         /\ \A i \in 1 .. Len(p.store.messages) : q.store.messages[i] = p.store.messages[i]
<1>1. "line" \in Items /\ q = Said(p, "line")
  BY DEF Items, OnChatItem
<1>2. q \in Good /\ HeaderShown(q) /\ q.store.peers = p.store.peers
      /\ q.store.messages = Append(p.store.messages, "line")
  BY <1>1, SaidShown
<1>3. p.store.messages \in Seq(Items)
  BY DEF Good, Page, Store, Items
<1>4. /\ Len(q.store.messages) = Len(p.store.messages) + 1 /\ Len(p.store.messages) \in Nat
      /\ \A i \in 1 .. Len(p.store.messages) : q.store.messages[i] = p.store.messages[i]
  BY <1>1, <1>2, <1>3, AppendProperties
<1> QED BY <1>2, <1>4

(* The room is joined: whoever was listed before and is met again with     *)
(* another fingerprint has been warned of, also when "restored" follows.   *)
LEMMA SessionJoinedStep ==
  ASSUME page \in Good, SessionJoined
  PROVE  PageStep(page, page')
<1>1. PICK f \in Fp, present \in [Peers -> Fp \cup {NoFp}] :
      \E order \in SetToSeqs(Listed(present)) :
       LET met == AllMet(Dispatch(page, LocalFingerprint(f)), order, present)
           shown == IF Listed(present) = {} THEN Dispatch(met, Goto("waiting")) ELSE met
       IN page' = IF session.lost THEN OnConnection(shown) ELSE shown
  BY DEF SessionJoined
<1>2. PICK order \in SetToSeqs(Listed(present)) :
       LET met == AllMet(Dispatch(page, LocalFingerprint(f)), order, present)
           shown == IF Listed(present) = {} THEN Dispatch(met, Goto("waiting")) ELSE met
       IN page' = IF session.lost THEN OnConnection(shown) ELSE shown
  BY <1>1
<1> DEFINE first == Dispatch(page, LocalFingerprint(f))
           met == AllMet(first, order, present)
           shown == IF Listed(present) = {} THEN Dispatch(met, Goto("waiting")) ELSE met
<1>3. page' = IF session.lost THEN OnConnection(shown) ELSE shown
  BY <1>2
<1>4. order \in Seq(Listed(present))
  <2>1. IsFiniteSet(Listed(present))
    BY PeersFinite, FS_Subset DEF Listed
  <2>2. Cardinality(Listed(present)) \in Nat
    BY <2>1, FS_CardinalityType
  <2>3. order \in [1 .. Cardinality(Listed(present)) -> Listed(present)]
    BY DEF SetToSeqs
  <2> QED BY <2>2, <2>3
<1>5. /\ first \in Good /\ HeaderShown(first)
      /\ first.store.messages = page.store.messages /\ first.store.peers = page.store.peers
  BY LocalShows
<1> HIDE DEF first
<1>6. met \in Good /\ HeaderShown(met) /\ Told(first.store, met.store)
  BY <1>4, <1>5, AllMetShown
<1> HIDE DEF met
<1>7. /\ shown \in Good /\ HeaderShown(shown) /\ shown.store.peers = met.store.peers
      /\ shown.store.messages = met.store.messages
  <2>1. CASE Listed(present) = {}
    <3> DEFINE q == Dispatch(met, Goto("waiting"))
    <3>1. q \in Good /\ HeaderShown(q) /\ q.store.messages = met.store.messages
          /\ q.store.peers = met.store.peers
      BY <1>6, GotoShows
    <3> HIDE DEF q
    <3>2. shown = q
      BY <2>1 DEF q
    <3> HIDE DEF shown
    <3> QED BY <3>1, <3>2
  <2>2. CASE Listed(present) # {}
    BY <1>6, <2>2
  <2> QED BY <2>1, <2>2
<1> HIDE DEF shown
<1>8. Told(page.store, shown.store)
  BY <1>5, <1>6, <1>7 DEF Told
<1>9. page.store \in Store /\ shown.store \in Store
  BY <1>7 DEF Good, Page
<1>10. CASE ~session.lost
  <2>1. page' = shown
    BY <1>3, <1>10
  <2>2. Warned(page.store, shown.store)
    BY <1>8, <1>9, ToldWarned
  <2> QED BY <2>1, <2>2, <1>7 DEF PageStep
<1>11. CASE session.lost
  <2> DEFINE q == OnChatItem(shown)
  <2>1. page' = q
    BY <1>3, <1>11 DEF OnConnection
  <2>2. q \in Good /\ HeaderShown(q) /\ q.store.peers = shown.store.peers
        /\ Len(shown.store.messages) <= Len(q.store.messages)
        /\ \A i \in 1 .. Len(shown.store.messages) :
             q.store.messages[i] = shown.store.messages[i]
    BY <1>7, ItemShows
  <2> HIDE DEF q
  <2>3. q.store \in Store
    BY <2>2 DEF Good, Page
  <2>4. Told(page.store, q.store)
    <3>1. Len(page.store.messages) \in Nat /\ Len(shown.store.messages) \in Nat
          /\ Len(q.store.messages) \in Nat
      <4>1. \A s \in Store : Len(s.messages) \in Nat
        BY DEF Store
      <4> QED BY <4>1, <1>9, <2>3
    <3>2. Len(page.store.messages) <= Len(q.store.messages)
      BY <3>1, <2>2, <1>8, SMTT(30) DEF Told
    <3>3. ASSUME NEW n \in Peers, page.store.peers[n] # NoFp
          PROVE  /\ q.store.peers[n] # NoFp
                 /\ q.store.peers[n] # page.store.peers[n] =>
                      \E i \in 1 .. Len(q.store.messages) :
                        i > Len(page.store.messages) /\ q.store.messages[i] = "warning"
      <4>1. q.store.peers[n] # NoFp
        BY <2>2, <1>8, <3>3 DEF Told
      <4>2. ASSUME q.store.peers[n] # page.store.peers[n]
            PROVE  \E i \in 1 .. Len(q.store.messages) :
                     i > Len(page.store.messages) /\ q.store.messages[i] = "warning"
        <5>1. PICK i \in 1 .. Len(shown.store.messages) :
                i > Len(page.store.messages) /\ shown.store.messages[i] = "warning"
          BY <2>2, <1>8, <3>3, <4>2 DEF Told
        <5>2. i \in 1 .. Len(q.store.messages) /\ q.store.messages[i] = "warning"
          BY <5>1, <2>2, <3>1
        <5> QED BY <5>1, <5>2
      <4> QED BY <4>1, <4>2
    <3> QED BY <3>2, <3>3 DEF Told
  <2>5. Warned(page.store, q.store)
    BY <1>9, <2>3, <2>4, ToldWarned
  <2> QED BY <2>1, <2>2, <2>5 DEF PageStep
<1> QED BY <1>10, <1>11

(* One peer more, or one again.                                            *)
LEMMA OnSomebodyJoinedStep ==
  ASSUME page \in Good, OnSomebodyJoined
  PROVE  PageStep(page, page')
<1>1. PICK n \in Peers, f \in Fp : page' = Met(page, n, f)
  BY DEF OnSomebodyJoined
<1>2. /\ page' \in Good /\ HeaderShown(page')
      /\ page'.store.peers = [page.store.peers EXCEPT ![n] = f]
      /\ \E x \in Items :
           /\ page'.store.messages = Append(page.store.messages, x)
           /\ page.store.peers[n] # NoFp /\ page.store.peers[n] # f => x = "warning"
  BY <1>1, MetShown
<1>3. PICK x \in Items :
           /\ page'.store.messages = Append(page.store.messages, x)
           /\ page.store.peers[n] # NoFp /\ page.store.peers[n] # f => x = "warning"
  BY <1>2
<1> DEFINE s == page.store
           u == page'.store
<1>4. s \in Store /\ u \in Store /\ Len(s.messages) \in Nat
  BY <1>2 DEF Good, Page, Store
<1>5. u.messages = Append(s.messages, x) /\ u.peers = [s.peers EXCEPT ![n] = f]
      /\ (s.peers[n] # NoFp /\ s.peers[n] # f => x = "warning")
  BY <1>2, <1>3
<1>6. Told(s, s)
  BY <1>4 DEF Told
<1> HIDE DEF s, u
<1>7. Told(s, u)
  BY <1>4, <1>5, <1>6, ToldOn
<1>8. Warned(s, u)
  BY <1>4, <1>7, ToldWarned
<1> QED BY <1>2, <1>8 DEF PageStep, s, u

(* The last seed: the chat, and its line.                                  *)
LEMMA OnLastSeedStep ==
  ASSUME page \in Good, OnLastSeed
  PROVE  PageStep(page, page')
<1> DEFINE m == Dispatch(page, Goto("ready"))
<1>1. m \in Good /\ m.store.peers = page.store.peers
  BY GotoShows
<1>2. page' = OnChatItem(m)
  BY DEF OnLastSeed
<1> HIDE DEF m
<1>3. page' \in Good /\ HeaderShown(page') /\ page'.store.peers = m.store.peers
  BY <1>1, <1>2, ItemShows
<1> QED BY <1>1, <1>3 DEF PageStep, Warned

(* A peer that left, and the fingerprint of a new lobby's session.         *)
LEMMA OnSomebodyLeftStep ==
  ASSUME page \in Good, OnSomebodyLeft
  PROVE  PageStep(page, page')
<1>1. PICK n \in Peers :
        \/ page' = OnPeerLeft(page, n)
        \/ \E f \in Fp : page' = Dispatch(OnPeerLeft(page, n), LocalFingerprint(f))
  BY DEF OnSomebodyLeft, Listed
<1> DEFINE m == OnPeerLeft(page, n)
<1>2. /\ m \in Good /\ HeaderShown(m)
      /\ m.store.peers = [page.store.peers EXCEPT ![n] = NoFp]
  BY LeftShows
<1>3. page' = m \/ \E f \in Fp : page' = Dispatch(m, LocalFingerprint(f))
  BY <1>1
<1> HIDE DEF m
<1>4. page' \in Good /\ HeaderShown(page') /\ page'.store.peers = m.store.peers
  <2>1. CASE page' = m
    BY <1>2, <2>1
  <2>2. CASE \E f \in Fp : page' = Dispatch(m, LocalFingerprint(f))
    BY <1>2, <2>2, LocalShows
  <2> QED BY <1>3, <2>1, <2>2
<1>5. page.store.peers \in [Peers -> Fp \cup {NoFp}]
  BY DEF Good, Page, Store
<1>6. Warned(page.store, page'.store)
  BY <1>2, <1>4, <1>5 DEF Warned
<1> QED BY <1>4, <1>6 DEF PageStep

(* The lobby of a new session.                                             *)
LEMMA OnRekeyedStep ==
  ASSUME page \in Good, OnRekeyed
  PROVE  PageStep(page, page')
<1>1. page' = Dispatch(page, Goto("waiting"))
  BY DEF OnRekeyed
<1>2. page' \in Good /\ HeaderShown(page') /\ page'.store.peers = page.store.peers
  BY <1>1, GotoShows
<1> QED BY <1>2 DEF PageStep, Warned

(* A message, a file, a ratchet or a notice.                               *)
LEMMA OnItemStep ==
  ASSUME page \in Good, page' = OnChatItem(page)
  PROVE  PageStep(page, page')
<1>1. page' \in Good /\ HeaderShown(page') /\ page'.store.peers = page.store.peers
  BY ItemShows
<1> QED BY <1>1 DEF PageStep, Warned

(* The end with an error.                                                  *)
LEMMA OnFatalStep ==
  ASSUME page \in Good, page' = OnFatal(page)
  PROVE  PageStep(page, page')
<1>1. page' \in Good /\ HeaderShown(page') /\ page'.store.peers = NoPane.peers
  BY FatalShows
<1> QED BY <1>1, EmptiedWarned DEF PageStep

(* The user leaves.                                                        *)
LEMMA LeaveStep ==
  ASSUME page \in Good, Leave
  PROVE  PageStep(page, page')
<1>1. page' = Leaving(page)
  BY DEF Leave
<1>2. page' \in Good /\ HeaderShown(page') /\ page'.store.peers = NoPane.peers
  BY <1>1, LeavingShows
<1> QED BY <1>2, EmptiedWarned DEF PageStep

(* The connection goes: for good, unnoticed, or with a line.               *)
LEMMA OnDropStep ==
  ASSUME page \in Good, HeaderShown(page), OnDrop
  PROVE  PageStep(page, page')
<1>1. page' = OnFatal(page) \/ page' = page \/ page' = OnChatItem(page)
  BY DEF OnDrop, OnConnection
<1>2. CASE page' = page
  BY <1>2 DEF PageStep, Warned
<1> QED BY <1>1, <1>2, OnFatalStep, OnItemStep

(* Every step leaves a page that shows its store, with the warnings due.   *)
LEMMA PageSteps ==
  ASSUME page \in Good, HeaderShown(page), Creating, [ViewNext]_viewVars
  PROVE  PageStep(page, page')
<1>1. CASE SubmitForm
  BY <1>1, SubmitFormStep
<1>2. CASE ShowMain
  BY <1>2, ShowMainStep
<1>3. CASE OnRoomCreated
  <2>1. Screen = "landing"
    BY <1>3 DEF OnRoomCreated, Creating
  <2>2. ~page.view.everReady
    BY <2>1 DEF Good, Mounted, Screen
  <2> QED BY <1>3, <2>2, OnRoomCreatedStep
<1>4. CASE SessionJoined
  BY <1>4, SessionJoinedStep
<1>5. CASE OnSomebodyJoined
  BY <1>5, OnSomebodyJoinedStep
<1>6. CASE OnLastSeed
  BY <1>6, OnLastSeedStep
<1>7. CASE OnSomebodyLeft
  BY <1>7, OnSomebodyLeftStep
<1>8. CASE OnRekeyed
  BY <1>8, OnRekeyedStep
<1>9. CASE OnItem
  BY <1>9, OnItemStep DEF OnItem
<1>10. CASE OnDrop
  BY <1>10, OnDropStep
<1>11. CASE OnServerError
  BY <1>11, OnFatalStep DEF OnServerError
<1>12. CASE Leave
  BY <1>12, LeaveStep
<1>13. CASE Toggle
  BY <1>13, ToggleStep
<1>14. CASE EnterKeysMode
  BY <1>14, EnterKeysStep
<1>15. CASE ExitKeysMode
  BY <1>15, ExitKeysStep
<1>16. CASE OnReconnected \/ UNCHANGED viewVars
  <2>1. page' = page
    BY <1>16 DEF OnReconnected, viewVars
  <2> QED BY <2>1 DEF PageStep, Warned
<1> QED
  BY <1>1, <1>2, <1>3, <1>4, <1>5, <1>6, <1>7, <1>8, <1>9, <1>10, <1>11, <1>12, <1>13,
     <1>14, <1>15, <1>16 DEF ViewNext

(* Every step of the session keeps its type and the form it came from.     *)
LEMMA SessionSteps ==
  ASSUME SessionOf, [ViewNext]_viewVars
  PROVE  SessionOf'
<1> DEFINE Phases == {"idle", "creating", "joining", "waiting", "seeding", "ready"}
           Sessions ==
             [phase : Phases, mode : {"none", "create", "join"}, online : BOOLEAN,
              back : BOOLEAN, again : BOOLEAN, lost : BOOLEAN, rekeying : BOOLEAN]
<1>0. session \in Sessions /\ Gone \in Sessions
  BY DEF SessionOf, Gone
<1>1. ASSUME session' \in Sessions, session'.mode = session.mode, session # Gone
      PROVE  SessionOf'
  BY <1>1 DEF SessionOf
<1>2. CASE session' = Gone
  BY <1>0, <1>2 DEF SessionOf
<1>3. CASE session' = session
  BY <1>3 DEF SessionOf
<1>4. CASE SubmitForm
  <2>1. PICK mode \in {"create", "join"} :
          session' = [Gone EXCEPT !.mode = mode, !.online = TRUE,
                        !.phase = IF mode = "create" THEN "creating" ELSE "joining"]
    BY <1>4 DEF SubmitForm
  <2>2. session' \in Sessions /\ session'.mode = mode
    BY <1>0, <2>1
  <2>3. session'.mode # "none"
    BY <2>2
  <2> HIDE DEF Sessions
  <2> QED BY <2>2, <2>3 DEF SessionOf, Sessions
<1>5. session.online \/ session.phase # "idle" => session # Gone
  BY DEF Gone
<1>6. CASE OnRoomCreated
  <2>1. session' = [session EXCEPT !.phase = "joining"] /\ session # Gone
    BY <1>5, <1>6 DEF OnRoomCreated
  <2> QED BY <1>0, <1>1, <2>1
<1>7. CASE SessionJoined
  <2>1. /\ \E ph \in Phases :
             session' = [session EXCEPT !.back = FALSE, !.lost = FALSE, !.phase = ph]
        /\ session # Gone
    BY <1>5, <1>7 DEF SessionJoined
  <2> QED BY <1>0, <1>1, <2>1
<1>8. CASE OnSomebodyJoined
  <2>1. /\ \E ph \in Phases : session' = [session EXCEPT !.phase = ph]
        /\ session # Gone
    BY <1>0, <1>5, <1>8 DEF OnSomebodyJoined
  <2> QED BY <1>0, <1>1, <2>1
<1>9. CASE OnLastSeed
  <2>1. session' = [session EXCEPT !.phase = "ready"] /\ session # Gone
    BY <1>5, <1>9 DEF OnLastSeed
  <2> QED BY <1>0, <1>1, <2>1
<1>10. CASE OnSomebodyLeft
  <2>1. /\ \E b \in BOOLEAN : session' = [session EXCEPT !.rekeying = b]
        /\ session # Gone
    BY <1>0, <1>5, <1>10 DEF OnSomebodyLeft
  <2> QED BY <1>0, <1>1, <2>1
<1>11. CASE OnRekeyed
  <2>1. session' = [session EXCEPT !.phase = "waiting", !.rekeying = FALSE] /\ session # Gone
    BY <1>5, <1>11 DEF OnRekeyed
  <2> QED BY <1>0, <1>1, <2>1
<1>12. CASE OnDrop /\ session' # Gone
  <2>1. /\ \E b \in BOOLEAN : session' = [session EXCEPT !.online = FALSE, !.back = FALSE,
                                            !.rekeying = FALSE, !.lost = b]
        /\ session # Gone
    <3> DEFINE off == [session EXCEPT !.online = FALSE, !.back = FALSE, !.rekeying = FALSE]
    <3>1. session' = off \/ session' = [off EXCEPT !.lost = TRUE]
      BY <1>12 DEF OnDrop
    <3>2. off = [session EXCEPT !.online = FALSE, !.back = FALSE, !.rekeying = FALSE,
                                !.lost = session.lost]
      BY <1>0
    <3> QED BY <1>0, <1>5, <1>12, <3>1, <3>2 DEF OnDrop
  <2> QED BY <1>0, <1>1, <2>1
<1>13. CASE OnReconnected
  <2>1. session' = [session EXCEPT !.online = TRUE, !.back = TRUE, !.again = TRUE]
        /\ session # Gone
    BY <1>5, <1>13 DEF OnReconnected
  <2> QED BY <1>0, <1>1, <2>1
<1>14. CASE ShowMain \/ OnItem \/ Toggle \/ EnterKeysMode \/ ExitKeysMode \/ UNCHANGED viewVars
  BY <1>3, <1>14 DEF ShowMain, OnItem, Toggle, EnterKeysMode, ExitKeysMode, viewVars
<1>15. CASE OnServerError \/ Leave
  BY <1>2, <1>15 DEF OnServerError, Leave
<1> QED
  BY <1>2, <1>4, <1>6, <1>7, <1>8, <1>9, <1>10, <1>11, <1>12, <1>13, <1>14, <1>15
  DEF ViewNext

(* The landing page stays until the room has been made.                    *)
LEMMA CreatingSteps ==
  ASSUME page \in Good, SessionOf, Creating, [ViewNext]_viewVars
  PROVE  Creating'
<1>0. session \in [phase : {"idle", "creating", "joining", "waiting", "seeding", "ready"},
                   mode : {"none", "create", "join"}, online : BOOLEAN, back : BOOLEAN,
                   again : BOOLEAN, lost : BOOLEAN, rekeying : BOOLEAN]
  BY DEF SessionOf
<1>1. page \in Page /\ page.store \in Store /\ page.view \in View /\ Mounted(page.store, page.view)
  BY DEF Good, Page
<1>2. ASSUME session' = session, page'.store.screen = page.store.screen PROVE Creating'
  BY <1>2 DEF Creating, Screen
<1>3. CASE session'.phase # "creating"
  BY <1>3 DEF Creating
<1>4. CASE SubmitForm
  <2>1. PICK mode \in {"create", "join"} :
          /\ session' = [Gone EXCEPT !.mode = mode, !.online = TRUE,
                           !.phase = IF mode = "create" THEN "creating" ELSE "joining"]
          /\ LET asked == [page EXCEPT !.view = [@ EXCEPT !.pending = mode, !.form = mode,
                                                          !.error = FALSE]]
             IN page' = IF mode = "create" THEN asked
                        ELSE Logged(Dispatch(asked, Goto("joining")))
    BY <1>4 DEF SubmitForm
  <2>2. CASE mode = "join"
    BY <2>1, <2>2, <1>3 DEF Gone
  <2>3. CASE mode = "create"
    <3>1. page'.store = page.store
      BY <1>1, <2>1, <2>3 DEF Page
    <3>2. page.store.screen = "landing"
      BY <1>1, <1>4 DEF SubmitForm, Mounted, PickView, Store
    <3>3. session'.online /\ ~session'.again /\ ~session'.back
      BY <2>1 DEF Gone
    <3> QED BY <3>1, <3>2, <3>3 DEF Creating, Screen
  <2> QED BY <2>2, <2>3
<1>5. CASE ShowMain \/ EnterKeysMode
  BY <1>1, <1>2, <1>5 DEF ShowMain, EnterKeysMode, Page
<1>6. CASE Toggle
  <2>1. PICK x \in {"event-log", "verify"} : page' = Dispatch(page, SidebarToggle(x))
    BY <1>6 DEF Toggle
  <2>2. page'.store.screen = page.store.screen
    BY <2>1, ToggleShows DEF SamePage
  <2> QED BY <1>2, <1>6, <2>2 DEF Toggle
<1>7. CASE ExitKeysMode
  <2>1. PICK p \in {page} \cup {Dispatch(page, SidebarToggle(section)) :
                                 section \in {"event-log", "verify"}} :
          page' = [p EXCEPT !.view.bar = "regular"]
    BY <1>7 DEF ExitKeysMode
  <2>2. p \in Page /\ p.store.screen = page.store.screen
    <3>1. CASE p = page
      BY <1>1, <3>1
    <3>2. CASE \E x \in {"event-log", "verify"} : p = Dispatch(page, SidebarToggle(x))
      <4>1. p \in Good /\ SamePage(page, p)
        BY <3>2, ToggleShows
      <4> QED BY <4>1 DEF Good, SamePage
    <3> QED BY <2>1, <3>1, <3>2
  <2>3. page'.store.screen = page.store.screen
    BY <2>1, <2>2 DEF Page
  <2> QED BY <1>2, <1>7, <2>3 DEF ExitKeysMode
<1>8. CASE OnItem
  <2>1. page' = Said(page, "line") /\ "line" \in Items
    BY <1>8 DEF OnItem, OnChatItem, Items
  <2>2. page'.store.screen = page.store.screen
    BY <2>1, SaidShown DEF SamePage
  <2> QED BY <1>2, <1>8, <2>2 DEF OnItem
<1>9. CASE OnRoomCreated \/ SessionJoined \/ OnLastSeed \/ OnRekeyed \/ OnSomebodyJoined
  <2>1. session'.phase # "creating"
    <3>1. CASE OnRoomCreated
      BY <1>0, <3>1 DEF OnRoomCreated
    <3>2. CASE SessionJoined
      BY <1>0, <3>2 DEF SessionJoined
    <3>3. CASE OnLastSeed
      BY <1>0, <3>3 DEF OnLastSeed
    <3>4. CASE OnRekeyed
      BY <1>0, <3>4 DEF OnRekeyed
    <3>5. CASE OnSomebodyJoined
      BY <1>0, <3>5 DEF OnSomebodyJoined
    <3> QED BY <1>9, <3>1, <3>2, <3>3, <3>4, <3>5
  <2> QED BY <1>3, <2>1
<1>10. CASE OnSomebodyLeft
  <2>1. session'.phase = session.phase /\ session.phase # "creating"
    BY <1>0, <1>10 DEF OnSomebodyLeft
  <2> QED BY <1>3, <2>1
<1>11. CASE OnServerError \/ Leave
  <2>1. session' = Gone
    BY <1>11 DEF OnServerError, Leave
  <2> QED BY <1>3, <2>1 DEF Gone
<1>12. CASE OnDrop
  <2>1. CASE session' = Gone
    BY <1>3, <2>1 DEF Gone
  <2>2. CASE session' # Gone
    <3>1. session.phase # "creating"
      BY <1>12, <2>2 DEF OnDrop, Creating
    <3>2. session'.phase = session.phase
      BY <1>0, <1>12, <2>2 DEF OnDrop
    <3> QED BY <1>3, <3>1, <3>2
  <2> QED BY <2>1, <2>2
<1>13. CASE OnReconnected
  <2>1. session.phase # "creating"
    BY <1>13 DEF OnReconnected, Creating
  <2>2. session'.phase = session.phase
    BY <1>0, <1>13 DEF OnReconnected
  <2> QED BY <1>3, <2>1, <2>2
<1>14. CASE UNCHANGED viewVars
  BY <1>2, <1>14 DEF viewVars
<1> QED
  BY <1>4, <1>5, <1>6, <1>7, <1>8, <1>9, <1>10, <1>11, <1>12, <1>13, <1>14 DEF ViewNext

(* The landing page of a fresh load is shown as it should be.              *)
LEMMA ViewInitInv == ViewInit => ViewInv
<1> SUFFICES ASSUME ViewInit PROVE ViewInv
  OBVIOUS
<1>1. page = [store |-> EmptyStore("none"), view |-> NoView] /\ session = Gone
  BY DEF ViewInit
<1>2. NoPane \in Panes
  BY DEF NoPane, Panes
<1>3. <<>> \in Seq(Nat) /\ <<>> \in Seq(Items) /\ <<>> \in Seq({"line", "warning"})
      /\ Len(<<>>) = 0
  OBVIOUS
<1>4. NoView \in View
  BY <1>2, <1>3 DEF NoView, View, Sections, Forms, AllScreens
<1>5. EmptyStore("none") \in Store
  BY <1>2, <1>3 DEF EmptyStore, Store, Panes, NoPane
<1>6. InOrder(EmptyStore("none"))
  BY <1>3, EventBounds DEF EmptyStore, InOrder
<1>7. Mounted(EmptyStore("none"), NoView) /\ NoView.name # "chat"
  BY DEF Mounted, EmptyStore, NoView, PickView
<1>8. HeaderShown(page)
  <2>1. NoView.header = Header(EmptyStore("none"), NoView)
    <3>1. (EmptyStore("none").screen \in {"waiting", "ready"}) = FALSE
          /\ (NoView.name = "chat") = FALSE /\ EmptyStore("none").section = "none"
      BY DEF NoView, EmptyStore
    <3>2. NoView.header = [fp |-> FALSE, log |-> FALSE, section |-> "none"]
      BY DEF NoView
    <3> QED BY <3>1, <3>2 DEF Header
  <2> QED BY <1>1, <2>1 DEF HeaderShown
<1>9. page \in Good
  BY <1>1, <1>4, <1>5, <1>6, <1>7 DEF Good, Page
<1>10. SessionOf /\ Creating
  BY <1>1 DEF SessionOf, Creating, Gone
<1> QED BY <1>8, <1>9, <1>10 DEF ViewInv

(* Every step keeps the invariant.                                         *)
LEMMA ViewStepInv == ViewInv /\ [ViewNext]_viewVars => ViewInv'
<1> SUFFICES ASSUME ViewInv, [ViewNext]_viewVars PROVE ViewInv'
  OBVIOUS
<1>1. page \in Good /\ HeaderShown(page) /\ SessionOf /\ Creating
  BY DEF ViewInv
<1>2. page' \in Good /\ HeaderShown(page')
  BY <1>1, PageSteps DEF PageStep
<1>3. SessionOf'
  BY <1>1, SessionSteps
<1>4. Creating'
  BY <1>1, CreatingSteps
<1> QED BY <1>2, <1>3, <1>4 DEF ViewInv, HeaderShown

(* The invariant holds in every state.                                     *)
LEMMA ViewInvariant == ViewSpec => []ViewInv
<1> QED BY ViewInitInv, ViewStepInv, PTL DEF ViewSpec

(* The page is never behind the store, for every number of peers and every *)
(* cap of the log (dispatch of web/src/store.ts and the listeners of       *)
(* web/src/views/).                                                        *)
THEOREM StoreIsShown == ViewSpec => []ShowsTheStore
<1>1. ViewInv => ShowsTheStore
  BY DEF ViewInv, ShowsTheStore, Good, Mounted, HeaderShown, ChatDrawn
<1> QED BY ViewInvariant, <1>1, PTL

(* The invite while alone, the input or the keys otherwise (swapBar of     *)
(* web/src/views/chat.ts).                                                 *)
THEOREM BarAlwaysFits == ViewSpec => []BarFits
<1>1. ViewInv => BarFits
  BY DEF ViewInv, BarFits, Good, ChatDrawn, Screen
<1> QED BY ViewInvariant, <1>1, PTL

(* A failed attempt ends on its own form with the error (mountLanding of   *)
(* web/src/views/landing.ts, the bridge's `fatal`).                        *)
THEOREM FatalIsShown == ViewSpec => FatalShown
<1>1. ASSUME ViewInv, [ViewNext]_viewVars, session # Gone, session' = Gone,
             page'.store.error, page.view.pending = session.mode
      PROVE  /\ page'.view.name = "landing" /\ page'.view.error
             /\ page'.view.form = session.mode
  <2>0. page \in Good /\ session.mode # "none"
    BY <1>1 DEF ViewInv, SessionOf
  <2>1. page' = OnFatal(page) \/ page' = Leaving(page)
    <3>1. session' # session
      BY <1>1
    <3>2. ASSUME session'.online PROVE FALSE
      BY <1>1, <3>2 DEF Gone
    <3>3. session \in [phase : {"idle", "creating", "joining", "waiting", "seeding", "ready"},
                       mode : {"none", "create", "join"}, online : BOOLEAN, back : BOOLEAN,
                       again : BOOLEAN, lost : BOOLEAN, rekeying : BOOLEAN]
      BY <1>1 DEF ViewInv, SessionOf
    <3>4. CASE SubmitForm
      <4>1. session'.online
        BY <3>4 DEF SubmitForm, Gone
      <4> QED BY <3>2, <4>1
    <3>5. CASE OnRoomCreated
      <4>1. session'.phase = "joining"
        BY <3>3, <3>5 DEF OnRoomCreated
      <4> QED BY <1>1, <4>1 DEF Gone
    <3>6. CASE SessionJoined
      <4>1. session'.phase \in {"waiting", "seeding"}
        BY <3>3, <3>6 DEF SessionJoined
      <4> QED BY <1>1, <4>1 DEF Gone
    <3>7. CASE OnSomebodyJoined
      <4>1. session'.online
        BY <3>3, <3>7 DEF OnSomebodyJoined
      <4> QED BY <3>2, <4>1
    <3>8. CASE OnLastSeed
      <4>1. session'.online
        BY <3>3, <3>8 DEF OnLastSeed
      <4> QED BY <3>2, <4>1
    <3>9. CASE OnSomebodyLeft
      <4>1. session'.online
        BY <3>3, <3>9 DEF OnSomebodyLeft
      <4> QED BY <3>2, <4>1
    <3>10. CASE OnRekeyed
      <4>1. session'.online
        BY <3>3, <3>10 DEF OnRekeyed
      <4> QED BY <3>2, <4>1
    <3>11. CASE OnReconnected
      <4>1. session'.online
        BY <3>3, <3>11 DEF OnReconnected
      <4> QED BY <3>2, <4>1
    <3>12. CASE OnDrop
      <4>1. CASE page' = OnFatal(page)
        BY <4>1
      <4>2. CASE page' # OnFatal(page)
        <5> DEFINE off == [session EXCEPT !.online = FALSE, !.back = FALSE,
                                          !.rekeying = FALSE]
        <5>1. \/ session.phase = "seeding" /\ session' = off
              \/ session' = [off EXCEPT !.lost = TRUE]
          BY <3>12, <4>2 DEF OnDrop
        <5>2. session'.phase = "seeding" \/ session'.lost = TRUE
          BY <3>3, <5>1
        <5> QED BY <1>1, <5>2 DEF Gone
      <4> QED BY <4>1, <4>2
    <3>13. CASE OnServerError
      BY <3>13 DEF OnServerError
    <3>14. CASE Leave
      BY <3>14 DEF Leave
    <3>15. CASE ShowMain \/ OnItem \/ Toggle \/ EnterKeysMode \/ ExitKeysMode
                  \/ UNCHANGED viewVars
      BY <3>1, <3>15 DEF ShowMain, OnItem, Toggle, EnterKeysMode, ExitKeysMode, viewVars
    <3> QED
      BY <1>1, <3>4, <3>5, <3>6, <3>7, <3>8, <3>9, <3>10, <3>11, <3>12, <3>13, <3>14, <3>15
      DEF ViewNext
  <2>2. CASE page' = OnFatal(page)
    BY <2>0, <2>2, <1>1, FatalShows
  <2>3. CASE page' = Leaving(page)
    <3>1. page'.store.error = FALSE
      BY <2>0, <2>3, LeavingShows
    <3> QED BY <1>1, <3>1
  <2> QED BY <2>1, <2>2, <2>3
<1>2. ViewInv /\ [ViewNext]_viewVars =>
        [(/\ session # Gone /\ session' = Gone /\ page'.store.error
          /\ page.view.pending = session.mode) =>
           /\ page'.view.name = "landing" /\ page'.view.error
           /\ page'.view.form = session.mode]_viewVars
  BY <1>1
<1> QED BY ViewInvariant, <1>2, PTL DEF ViewSpec, FatalShown

(* No fingerprint on the list changes without a warning in the chat        *)
(* (peer-known of web/src/bridge.ts, _onJoined of web/src/session.ts).     *)
THEOREM ChangesAreWarned == ViewSpec => FpWarned
<1>1. ViewInv /\ [ViewNext]_viewVars => Warned(page.store, page'.store)
  BY PageSteps DEF ViewInv, PageStep
<1>2. ViewInv /\ [ViewNext]_viewVars =>
        [\A n \in Peers :
          LET before == page.store.peers[n]
              after == page'.store.peers[n]
          IN (before # NoFp /\ after # NoFp /\ before # after) =>
               "warning" \in {page'.store.messages[i] :
                                i \in DOMAIN page'.store.messages
                                        \ DOMAIN page.store.messages}]_viewVars
  BY <1>1 DEF Warned
<1> QED BY ViewInvariant, <1>2, PTL DEF ViewSpec, FpWarned
=============================================================================
