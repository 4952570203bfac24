------------------------------ MODULE WebViews ------------------------------
(***************************************************************************)
(* What a web client shows: the events of CovcomSession, the bridge that   *)
(* turns each into dispatches to the store, and the views that listen to   *)
(* the store (web/src/bridge.ts, store.ts, views/).  Every view keeps a    *)
(* copy of the part of the store it drew last and draws again only when    *)
(* its own test says that it has changed.                                  *)
(*                                                                         *)
(* A dispatch changes the store and then runs the listeners: first the     *)
(* header's, then the shell's, which mounts and unmounts the others, then  *)
(* those mounted, also those mounted just now.  Nothing else runs in       *)
(* between.                                                                *)
(***************************************************************************)
EXTENDS Naturals, SequencesExt

CONSTANTS
  Peers,        \* usernames of the others
  Fp,           \* fingerprints
  NoFp,
  EventCap,     \* EVENT_LOG_CAP
  MaxEvents     \* bound on the entries logged between two resets

ASSUME EventBounds == EventCap \in Nat \ {0} /\ MaxEvents \in Nat
ASSUME NoFpOutside == NoFp \notin Fp
ASSUME PeersFinite == IsFiniteSet(Peers)

VARIABLES
  page,       \* the store and the view, see Store and View
  session     \* of CovcomSession: what decides which events come next

viewVars == <<page, session>>

(* The peers listed are those of _knownPeers: both change together.        *)
Store ==
  [screen   : {"landing", "joining", "waiting", "ready"},
   error    : BOOLEAN,                          \* landing's error text
   peers    : [Peers -> Fp \cup {NoFp}],        \* NoFp: not listed
   local    : Fp \cup {NoFp},
   messages : Seq({"line", "warning"}),
   events   : Seq(Nat),                         \* their ids
   nextId   : Nat,
   section  : {"none", "event-log", "verify"}]  \* of the open sidebar

Listed(peers) == {n \in Peers : peers[n] # NoFp}
NoPane == [local |-> NoFp, peers |-> [n \in Peers |-> NoFp]]

EmptyStore(section) ==
  [screen |-> "landing", error |-> FALSE, peers |-> NoPane.peers, local |-> NoFp,
   messages |-> <<>>, events |-> <<>>, nextId |-> 1, section |-> section]

(* view.error: what the landing form shows.  pending: pendingForm, by its  *)
(* mode.  The fields from `history` on are the chat's.                     *)
NoView ==
  [name |-> "landing", everReady |-> FALSE,
   form |-> "main", error |-> FALSE, pending |-> "none",
   header |-> [fp |-> FALSE, log |-> FALSE, section |-> "none"],
   history |-> <<>>, bar |-> "none", screen |-> "none", rows |-> <<>>,
   pane |-> NoPane, section |-> "none"]

-----------------------------------------------------------------------------
(* The store: reduce, by the type of the action.                           *)

Goto(screen) == [type |-> "GOTO", screen |-> screen, error |-> FALSE]
GotoLanding(error) == [type |-> "GOTO", screen |-> "landing", error |-> error]
Reset == [type |-> "RESET"]
PeerAdded(n, f) == [type |-> "PEER_ADDED", username |-> n, fp |-> f]
PeerRemoved(n) == [type |-> "PEER_REMOVED", username |-> n]
LocalFingerprint(f) == [type |-> "LOCAL_FINGERPRINT", fp |-> f]
Appended(item) == [type |-> "APPENDED", item |-> item]  \* message, file, system, ratchet
EventLogged == [type |-> "EVENT_LOGGED"]
SidebarToggle(section) == [type |-> "SIDEBAR_TOGGLE", section |-> section]

Capped(log) == IF Len(log) > EventCap THEN Tail(log) ELSE log

Reduce(s, a) ==
  CASE a.type = "GOTO" -> [s EXCEPT !.screen = a.screen, !.error = a.error]
    [] a.type = "RESET" -> EmptyStore(s.section)
    [] a.type = "PEER_ADDED" -> [s EXCEPT !.peers[a.username] = a.fp]
    [] a.type = "PEER_REMOVED" -> [s EXCEPT !.peers[a.username] = NoFp]
    [] a.type = "LOCAL_FINGERPRINT" -> [s EXCEPT !.local = a.fp]
    [] a.type = "APPENDED" -> [s EXCEPT !.messages = Append(@, a.item)]
    [] a.type = "EVENT_LOGGED" ->
         [s EXCEPT !.events = Capped(Append(@, s.nextId)), !.nextId = @ + 1]
    [] a.type = "SIDEBAR_TOGGLE" ->
         [s EXCEPT !.section = IF @ = a.section THEN "none" ELSE a.section]

-----------------------------------------------------------------------------
(* The listeners.                                                          *)

PickView(screen, ever) ==
  IF screen = "ready" \/ (screen = "waiting" /\ ever) THEN "chat" ELSE screen

(* The header asks whether the chat is mounted, which the shell will only  *)
(* change after it.                                                        *)
Header(s, v) ==
  [fp |-> s.screen \in {"waiting", "ready"}, log |-> v.name = "chat",
   section |-> s.section]

(* mountChat draws what is there; mountVerify waits for a listener's turn. *)
MountChat(s, v) ==
  [v EXCEPT !.name = "chat", !.everReady = TRUE, !.history = s.messages,
            !.screen = s.screen, !.rows = s.events, !.pane = NoPane,
            !.bar = IF s.screen = "waiting" THEN "lobby" ELSE "regular",
            !.section = s.section]

Unmounted(v) == [NoView EXCEPT !.pending = v.pending, !.header = v.header]

(* Mutant: mounting the landing page uses the form up.                     *)
MountLandingOnce(s, v) ==
  LET restored == s.error /\ v.pending # "none"
  IN [Unmounted(v) EXCEPT !.form = IF restored THEN v.pending ELSE "main",
                          !.error = restored, !.pending = "none"]

(* mountLanding: after an error, back to the form the attempt came from.   *)
MountLanding(s, v) ==
  LET restored == s.error /\ v.pending # "none"
  IN [Unmounted(v) EXCEPT !.form = IF restored THEN v.pending ELSE "main",
                          !.error = restored]

(* The landing and waiting pages are mounted anew for every screen object. *)
Shell(s, v, a) ==
  LET ever == CASE s.screen = "ready" -> TRUE
                [] s.screen = "landing" -> FALSE
                [] OTHER -> v.everReady
      name == PickView(s.screen, ever)
  IN IF name = v.name /\ (name = "chat" \/ a.type \notin {"GOTO", "RESET"})
     THEN [v EXCEPT !.everReady = ever]
     ELSE CASE name = "chat" -> MountChat(s, v)
            [] name = "landing" -> MountLanding(s, v)
            [] OTHER -> [Unmounted(v) EXCEPT !.name = name, !.everReady = ever]

(* Rows go until one has not aged out; entries are appended from the first *)
(* that is newer than the last row.  Ids only rise.                        *)
From(log, kept) == IF kept = {} THEN <<>> ELSE SubSeq(log, Min(kept), Len(log))
RowsAfter(rows, events) ==
  LET headId == IF events = <<>> THEN 0 ELSE Head(events)
      lastId == IF rows = <<>> THEN 0 ELSE Last(rows)
  IN From(rows, {i \in DOMAIN rows : rows[i] >= headId})
       \o From(events, {i \in DOMAIN events : events[i] > lastId})

(* Mutant: the number of peers is not compared.                            *)
PaneChangedByName(pane, s) ==
  \/ s.local # pane.local
  \/ \E n \in Listed(s.peers) : s.peers[n] # pane.peers[n]

(* mountVerify's test, against what it drew last.                          *)
PaneChanged(pane, s) ==
  \/ s.local # pane.local
  \/ Cardinality(Listed(s.peers)) # Cardinality(Listed(pane.peers))
  \/ \E n \in Listed(s.peers) : s.peers[n] # pane.peers[n]

(* Mutant: only the lobby swaps the bar.                                   *)
BarAfterKept(v, s) ==
  IF s.screen # v.screen /\ s.screen = "waiting" THEN "lobby" ELSE v.bar

(* swapBar, when the name of the screen has changed.                       *)
BarAfter(v, s) ==
  CASE s.screen = v.screen -> v.bar
    [] s.screen # v.screen /\ s.screen = "waiting" -> "lobby"
    [] s.screen # v.screen /\ v.screen = "waiting" -> "regular"
    [] OTHER -> v.bar

(* messages is only appended to while the chat is mounted, so its length   *)
(* tells what is new.                                                      *)
HistoryAfter(history, messages) ==
  IF Len(messages) = Len(history) THEN history
  ELSE history \o SubSeq(messages, Len(history) + 1, Len(messages))

ChatListeners(s, v) ==
  IF v.name # "chat" THEN v
  ELSE [v EXCEPT !.section = s.section,
                 !.rows = RowsAfter(@, s.events),
                 !.pane = IF PaneChanged(@, s)
                          THEN [local |-> s.local, peers |-> s.peers] ELSE @,
                 !.bar = BarAfter(v, s), !.screen = s.screen,
                 !.history = HistoryAfter(@, s.messages)]

Dispatch(p, a) ==
  LET s == Reduce(p.store, a)
      headed == [p.view EXCEPT !.header = Header(s, p.view)]
  IN [store |-> s, view |-> ChatListeners(s, Shell(s, headed, a))]

-----------------------------------------------------------------------------
(* The bridge: what each session event dispatches, one after the other.    *)

Logged(p) == Dispatch(p, EventLogged)
Said(p, item) == Logged(Dispatch(p, Appended(item)))

OnPeerJoined(p, n, f) == Said(Dispatch(p, PeerAdded(n, f)), "line")

(* Mutant: the fingerprint is compared after the store has taken it.       *)
OnPeerKnownLate(p, n, f) ==
  LET q == Dispatch(p, PeerAdded(n, f))
  IN Said(q, IF q.store.peers[n] # f THEN "warning" ELSE "line")

OnPeerKnown(p, n, f) ==
  Said(Dispatch(p, PeerAdded(n, f)),
       IF p.store.peers[n] # f THEN "warning" ELSE "line")

(* _onJoined, _onPeerJoined: a peer listed already is reported as known.   *)
Met(p, n, f) ==
  IF p.store.peers[n] # NoFp THEN OnPeerKnown(p, n, f) ELSE OnPeerJoined(p, n, f)

(* The loop of _onJoined over the members, in the order the server lists.  *)
AllMet(p, order, present) ==
  LET met[i \in 0 .. Len(order)] ==
        IF i = 0 THEN p ELSE Met(met[i - 1], order[i], present[order[i]])
  IN met[Len(order)]

OnPeerLeft(p, n) == Said(Dispatch(p, PeerRemoved(n)), "line")
OnChatItem(p) == Said(p, "line")                 \* message, file, ratchet, info
OnConnection(p) == OnChatItem(p)                 \* connection-lost, -restored
OnFatal(p) == Dispatch(Dispatch(Logged(p), Reset), GotoLanding(TRUE))
Leaving(p) == Dispatch(Dispatch(p, Reset), GotoLanding(FALSE))  \* `leave`, Cancel

(* online: there is a socket.  back: it waits for `joined` again.  again:  *)
(* _isReconnect.  lost: _connectionLostAt.  rekeying: `rekeyed` is due.    *)
(* mode: whether it created the room or joins it.  seeding: _phase is      *)
(* joining, and the seeds of the members are due.                          *)
Gone == [phase |-> "idle", mode |-> "none", online |-> FALSE, back |-> FALSE,
         again |-> FALSE, lost |-> FALSE, rekeying |-> FALSE]

ViewInit ==
  /\ page = [store |-> EmptyStore("none"), view |-> NoView]
  /\ session = Gone

-----------------------------------------------------------------------------
(* The session, as far as its order of events goes.                        *)

Room4 == page.store.nextId + 4 <= MaxEvents + 1
Screen == page.store.screen

(* The form of the landing page calls create or join.  `create` leaves the *)
(* page as it is until the server has made the room.                       *)
SubmitForm ==
  /\ page.view.name = "landing" /\ Room4
  /\ \E mode \in {"create", "join"} :
       LET asked == [page EXCEPT !.view = [@ EXCEPT !.pending = mode, !.form = mode,
                                                    !.error = FALSE]]
       IN /\ session' = [Gone EXCEPT !.mode = mode, !.online = TRUE,
                           !.phase = IF mode = "create" THEN "creating" ELSE "joining"]
          /\ page' = IF mode = "create" THEN asked
                     ELSE Logged(Dispatch(asked, Goto("joining")))

(* Cancel of either form.                                                  *)
ShowMain ==
  /\ page.view.name = "landing" /\ page.view.form # "main"
  /\ page' = [page EXCEPT !.view.form = "main", !.view.error = FALSE,
                          !.view.pending = "none"]
  /\ UNCHANGED session

OnRoomCreated ==
  /\ session.phase = "creating" /\ Room4
  /\ session' = [session EXCEPT !.phase = "joining"]
  /\ page' = Logged(Dispatch(page, Goto("joining")))

(* _onJoined: a new session, so a new fingerprint, and the members.  The   *)
(* phase `joining` is not shown.                                           *)
SessionJoined ==
  /\ session.online /\ Room4
  /\ session.phase = "joining" \/ session.back
  /\ \E f \in Fp, present \in [Peers -> Fp \cup {NoFp}] :
     \E order \in SetToSeqs(Listed(present)) :
       LET met == AllMet(Dispatch(page, LocalFingerprint(f)), order, present)
           shown == IF Listed(present) = {} THEN Dispatch(met, Goto("waiting")) ELSE met
       IN /\ page' = IF session.lost THEN OnConnection(shown) ELSE shown
          /\ session' = [session EXCEPT !.back = FALSE, !.lost = FALSE,
               !.phase = IF Listed(present) = {} THEN "waiting" ELSE "seeding"]

OnSomebodyJoined ==
  /\ session.online /\ ~session.back /\ session.phase \in {"waiting", "ready"} /\ Room4
  /\ \E n \in Peers, f \in Fp : page' = Met(page, n, f)
  /\ session' = [session EXCEPT !.phase = IF @ = "waiting" THEN "seeding" ELSE @]

(* The welcome ratchet follows, or the notice that it failed.              *)
OnLastSeed ==
  /\ session.phase = "seeding" /\ session.online /\ Room4
  /\ page' = OnChatItem(Dispatch(page, Goto("ready")))
  /\ session' = [session EXCEPT !.phase = "ready"]

(* The last one to leave a ready client starts its lobby transition, with  *)
(* a new session; `rekeyed` ends it.                                       *)
OnSomebodyLeft ==
  /\ session.online /\ ~session.back /\ session.phase \in {"waiting", "ready"} /\ Room4
  /\ \E n \in Listed(page.store.peers) :
       LET left == OnPeerLeft(page, n)
           lobby == session.phase = "ready" /\ Listed(left.store.peers) = {}
       IN /\ session' = [session EXCEPT !.rekeying = @ \/ lobby]
          /\ IF lobby THEN \E f \in Fp : page' = Dispatch(left, LocalFingerprint(f))
                      ELSE page' = left

OnRekeyed ==
  /\ session.rekeying /\ session.online /\ ~session.back
  /\ page' = Dispatch(page, Goto("waiting"))
  /\ session' = [session EXCEPT !.phase = "waiting", !.rekeying = FALSE]

OnItem ==
  /\ session.online /\ Room4
  /\ page' = OnChatItem(page)
  /\ UNCHANGED session

(* The connection goes: for good in the first attempt to join, else until  *)
(* it is back; a loss while seeds are awaited is not announced.            *)
OnDrop ==
  /\ session.online /\ Room4
  /\ LET joining == session.back \/ session.phase \in {"creating", "joining", "seeding"}
         off == [session EXCEPT !.online = FALSE, !.back = FALSE, !.rekeying = FALSE]
     IN IF joining /\ ~session.again
        THEN session' = Gone /\ page' = OnFatal(page)
        ELSE IF session.phase = "seeding" THEN session' = off /\ UNCHANGED page
        ELSE /\ session' = [off EXCEPT !.lost = TRUE]
             /\ page' = OnConnection(page)

OnReconnected ==
  /\ ~session.online /\ session.phase # "idle"
  /\ session' = [session EXCEPT !.online = TRUE, !.back = TRUE, !.again = TRUE]
  /\ UNCHANGED page

OnServerError ==
  /\ session.online
  /\ session' = Gone /\ page' = OnFatal(page)

-----------------------------------------------------------------------------
(* The user.                                                               *)
Leave ==
  /\ page.view.name \in {"waiting", "chat"} /\ page.view.bar \in {"none", "regular"}
  /\ session' = Gone /\ page' = Leaving(page)

(* The two header buttons, while they are there, and the commands.         *)
Toggle ==
  /\ \E section \in {"event-log", "verify"} :
       /\ IF section = "verify" THEN page.view.header.fp ELSE page.view.header.log
       /\ page' = Dispatch(page, SidebarToggle(section))
  /\ UNCHANGED session

(* Escape in the input shows the keys; every key of theirs returns to it.  *)
EnterKeysMode ==
  /\ page.view.bar = "regular"
  /\ page' = [page EXCEPT !.view.bar = "keys"] /\ UNCHANGED session
ExitKeysMode ==
  /\ page.view.bar = "keys"
  /\ \E p \in {page} \cup {Dispatch(page, SidebarToggle(section)) :
                            section \in {"event-log", "verify"}} :
       page' = [p EXCEPT !.view.bar = "regular"]
  /\ UNCHANGED session

ViewNext ==
  \/ SubmitForm \/ ShowMain \/ OnRoomCreated \/ SessionJoined \/ OnSomebodyJoined \/ OnLastSeed \/ OnSomebodyLeft
  \/ OnRekeyed \/ OnItem \/ OnDrop \/ OnReconnected \/ OnServerError
  \/ Leave \/ Toggle \/ EnterKeysMode \/ ExitKeysMode

ViewSpec == ViewInit /\ [][ViewNext]_viewVars

-----------------------------------------------------------------------------
(* The page is never behind the store, although every view decides by a    *)
(* test of its own what to draw: the header its buttons, and the chat its  *)
(* messages, log rows, fingerprints and open panel (views/shell.ts,        *)
(* header-nav.ts, chat.ts, event-log.ts, verify.ts, sidebar.ts).           *)
ShowsTheStore ==
  LET s == page.store
      v == page.view
  IN /\ v.name = PickView(s.screen, v.everReady)
     /\ v.header = Header(s, v)
     /\ v.name = "chat" => /\ v.history = s.messages
                           /\ v.rows = s.events
                           /\ v.pane = [local |-> s.local, peers |-> s.peers]
                           /\ v.section = s.section

(* The chat has the invite at the bottom while alone in the room and the   *)
(* input, or the keys, otherwise: nobody can type to an empty room, and    *)
(* nobody is left without an input (swapBar, enterKeysMode).               *)
BarFits ==
  page.view.name = "chat" => (page.view.bar = "lobby" <=> Screen = "waiting")

(* An attempt that fails ends on the form it was made with, with the error *)
(* on it, although the page is mounted twice on the way (mountLanding) -   *)
(* unless the form was cancelled while the server was making the room.     *)
FatalShown ==
  [][(/\ session # Gone /\ session' = Gone /\ page'.store.error
      /\ page.view.pending = session.mode) =>
       /\ page'.view.name = "landing" /\ page'.view.error
       /\ page'.view.form = session.mode]_viewVars

(* A peer that stays on the list never changes its fingerprint without a   *)
(* warning in the chat, whatever reconnects or repeats (peer-known).       *)
FpWarned ==
  [][\A n \in Peers :
       LET before == page.store.peers[n]
           after == page'.store.peers[n]
       IN (before # NoFp /\ after # NoFp /\ before # after) =>
            "warning" \in {page'.store.messages[i] :
                             i \in DOMAIN page'.store.messages
                                     \ DOMAIN page.store.messages}]_viewVars
=============================================================================
