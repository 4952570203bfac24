# A verification development for COVCOM

COVCOM is an end-to-end encrypted chat: a relay server that knows rooms and
usernames and nothing of what is said, and two clients, one in the terminal and
one in the browser, that agree on keys through it. This directory holds TLA+
modules of the relay, of the key session in `lib/`, of both clients' handling of
the protocol, of how each connects, returns and shows what happens, of file
transfer and of the message keys; the TLC configurations that check them; and
TLAPS proofs of their main invariants.

To check: `tlc -workers 2 -config MCRelay.cfg MCRelay`, and likewise for each row
of the table of runs. To prove: `tlapm RelayProofs.tla`, and likewise `RoomProofs`,
`SnapshotProofs`, `TerminalProofs`, `WebProofs`, `MessageKeysProofs` and `Induction`.
From nothing, `RoomProofs` takes ten to fifteen minutes, `SnapshotProofs` six and
`RelayProofs`, `WebProofs` and `TerminalProofs` a few.

## The system

| component | where | state | operations |
|---|---|---|---|
| relay | `server/src/relay.ts`, `rooms.ts`, `index.ts` | rooms with their connections and last activity; per socket a room id, a username, two keys and a claim | eight frame handlers, the close callback, the hourly sweep |
| key session | `lib/src/session.ts` | own chain, epoch, seed and one-shot ratchet keypair; per peer two roots, a ratchet key, the current chain and the chains of earlier epochs with their skipped keys | wrap and unwrap a seed, seal and open, perform, commit and receive a ratchet step, remove a peer, dispose |
| identity | `lib/src/identity.ts` | signing key, number and hash of the last own claim; per peer the pinned key and its last claim | build and accept a claim, sign and verify |
| terminal client | `cli/src/state.ts`, `ws.ts` | a phase (landing, joining, waiting, ready), the session, the peer list, counters of expected and received seeds, `pendingRekey`, `_authSettled` | create, join, one branch per frame, send, rotate, lobby, leave, reconnect |
| web client | `web/src/session.ts` | the same protocol, with a phase of its own, the known peers, one socket, a reconnect timer and its delay, the flags `_isReconnect`, `_settled`, `_pendingRekey` | as the terminal client, plus `dispose` |
| file transfer | `lib/src/filetransfer.ts`, `cli/src/state.ts` | per outgoing file the recipients and their acks; per incoming file the next chunk and a checked-out key | begin, wait for credit, send a chunk, ack, reassemble, give up |
| web store, bridge and views | `web/src/store.ts`, `bridge.ts`, `views/` | screen, peers and fingerprints, messages, a capped event log, the open sidebar; per view what it drew last | one reducer, one dispatch or several per session event, subscribers |
| terminal UI | `cli/src/tui/`, `eventLog.ts` | the view that is up and the handles to it, a modal, the focus ring, the list with its cursor, the sidebar, a capped event log | keys, clicks, resize, messages and log entries that arrive, drawing |
| pure helpers | `lib/src/invite.ts`, `qr.ts`, `sanitize.ts`, `markup.ts`, `cli/src/args.ts`, `config.ts`, `server/src/flags.ts` | none | encode, decode, parse |

How they interact. Everything goes through the relay, over one websocket per
client. A client creates a room, or joins one with an invite, and is told who is
there (`joined`). It identifies with its username, its two public keys and a
signed claim; the others learn of it (`peer_joined`). Each side seals its chain
seed to the other (`relay`). A newcomer that has all the seeds it expects is
ready and rotates its keys at once (the "welcome ratchet"): one new seed, sealed
once per peer to that peer's one-shot ratchet key, fanned out by the relay
(`ratchet_step`). Whoever opens a step has used its ratchet key up and announces
the next (`ek_update`). A client whose last peer leaves goes to the lobby, where
it starts over with a new session (`rekey`, `rekeyed`).

Inside the web client the session emits events, the bridge turns them into
dispatches to the store, and the store calls the views that subscribed. Inside
the terminal client `state.ts` calls the views of `tui/views.ts`, which keep
module-level handles to what is on the screen, and the event log calls the
sidebar.

What is hard about it:

- The relay runs on one thread and its handlers never await, so a handler is
  atomic; but what clients send arrives in any order, sockets close at any time
  and a closing socket is still in its room.
- A client learns the same facts from a snapshot and from later events, and
  frames of several senders meet at one receiver. The ratchet key is one-shot:
  two steps under way to it cannot both be opened.
- A handler that throws is cut off where it is (`cli/src/ws.ts`): whatever it
  did before stays done.
- Sessions are replaced while frames for the old one are under way: by a lobby
  rekey, and when a user comes back after a lost connection. The two clients
  ignore different frames in different phases and forget different things when
  a connection is lost.
- Every attempt of the terminal client has a socket of its own, whose handlers
  outlive it and share `current` and `_authSettled` with those of the next.
- A lost connection may be noticed by the client long before the server, which
  then refuses the user's own name.
- Views of both clients decide by small tests of their own whether to draw
  again, and things that end late paint on what is up by then.
- A file is paced by acks of peers that read slowly, leave, or join half way;
  the relay has no back-pressure and drops what does not fit its buffer.
- Messages are opened late, repeated, around ratchet steps, and a file holds its
  key for minutes.

What makes each component correct:

- relay: one name, one member; rooms within their limit; the two records of
  membership agree; deletion only of rooms that are not in use, and in the end of
  every one that is not;
- member list: nobody on it who is gone, nobody missing once what was sent is read,
  and pinned claims of exactly those on it, as far as the client listens at all;
- session and clients: all members end up with each other's current keys, whichever
  client they have; what the relay tells a newcomer is current; no operation
  stops half way;
- connections: a client in a room has one connection or one way back to it, and a
  lost one ends in the room or on the landing page;
- what is shown: the page and the terminal show the state; keys go to what is
  visible; a reader is left where he reads; errors and changed fingerprints are
  shown;
- file transfer: bounded frames in the relay, no transfer that hangs;
- message keys: each key for one message, none lost within the window, bounded
  stores.

`PROJECT.json` lists the hazards one by one, at the line where each would bite,
with the property that would notice.

## The modules

| module | models | composed with |
|---|---|---|
| `Relay` | the server, whole | |
| `Directory` | what the server promises about membership, in five actions | refined by `Relay` (`DirSpec`) |
| `RoomLife` | how long each room has been out of use | extends `Relay` |
| `Session` | one client's key session and identity, as operators on a record | extended by `Client` |
| `Client` | what both clients do with a frame | extends `Session` |
| `TerminalClient`, `WebClient` | the frame handlers of `state.ts` and of `CovcomSession` | extend `Client` |
| `Room` | clients of both kinds, their network and the relay | extends `Relay`, instances both clients |
| `TerminalConnection` | the terminal client's attempts, sockets and reconnect loops | |
| `WebConnection` | the web client's socket, timer and flags | |
| `WebViews` | store, bridge and views of the web client | |
| `Screens` | the terminal's screens, modals and late painters | |
| `ChatScreen` | focus, layout, keys bar, picker and message list of the chat | |
| `EventSidebar` | the event log and the sidebar that shows it | |
| `TextWrap` | line breaking by terminal columns | |
| `FileTransfer` | sender, relay queues and receivers of one file | |
| `MessageKeys` | one sender's message keys at one receiver | |
| `RelayProofs`, `RoomProofs` | theorems about the relay and its rooms' lives, the keys of a room | extend `RoomLife`; `Room` |
| `SnapshotProofs` | what the relay holds of each member's keys | extends `RoomProofs` |
| `TerminalProofs` | theorems about the terminal's connection, screens, chat, event log and the file it sends | extends `TerminalConnection`, `Screens`, `ChatScreen`, `EventSidebar`, `FileTransfer` |
| `WebProofs` | theorems about the browser's connection and views | extends `WebConnection`, `WebViews` |
| `MessageKeysProofs` | theorems about message keys | extends `MessageKeys` |
| `Induction` | induction over the naturals and over sequences, for sets and for loops | used by `WebProofs`, `RoomProofs`, `TerminalProofs` |
| `MC*` | constants for TLC; `MCClient` and `MCTraffic` put parts that share no variable on one bench | |

### Relay

`rooms`, `sock`, `data` and `out` are the `Map` of rooms, the ready state, `ws.data`
and the outgoing queue of each socket. One action stands for one call of a
handler, from the first check to the last `send`; the disjuncts of an action are
the ways out of the function, in the order of its checks. Keys, claims,
signatures and payloads are opaque; what the server tests of them, their length,
is a subset (`GoodEk` of `Ek`, and so on). Usernames are trimmed and validated by
`Canon`. A room's secret never changes and cannot be guessed, so the room's id
stands for it; the branch for a wrong secret is kept. Time is the age of
`lastActivity`, which stops counting just above the TTL.
`PruneRooms` may run at any moment, which includes every hour.
Messages that are not JSON or of an unknown type are dropped by the dispatcher
and change nothing; they are left out.

`Directory` is what the server promises of names, in five actions: a room appears, a name
enters it, is changed, leaves it, and rooms go. `Relay` implements it (`DirSpec`).

### Session, clients and room

Keys are symbolic. A seed is the nth one of a session; a root key is the seed it
starts from and the number of steps folded into it; a ciphertext opens under the
key it was made for. This keeps what matters, whether both sides hold the same
keys, and leaves out how they are computed. A claim is its signer and its
number; `prevLogRoot` is determined by the two, since a signer makes one
claim of each number.

A client is one record. Each branch of its frame handler is an operator from the
record and a frame to the next record and the frames it sends (`Answer`); a frame
no branch takes, and one whose handler throws before it has changed anything, is
`Silent`. The loop over the members of a snapshot is a function of the number of members
handled (`AllMet`). What the two clients do alike is in `Client`. They differ where it
matters:

| | terminal (`TerminalClient`) | web (`WebClient`) |
|---|---|---|
| `joined` | `waiting`, takes peer frames at once | `joining` unless nobody is there, and deaf to `peer_joined`, `peer_left`, `ek_update` until the seeds are in |
| a peer joins one who waits alone | counts it | counts it and is `joining` again |
| the lobby | the disposed session stays current until `rekeyed` | the new session is in place at once |
| connection lost | everything is made anew by `doConnect` | `_knownPeers`, `_pendingRekey` survive |
| error frames | only a taken name is fatal | every one is fatal |

`Room` puts them together: `Read` applies the branch to the head of the client's
queue, `Serve` applies the relay's handler to the head of what the client has
sent, so that both directions are FIFO and any of the queues may lag. A lost
connection stays in its room until `Hangup`, the server's close callback; a user
who returns is a new connection with the same name, which for a web client takes
over what the lost one remembered (`AttemptReconnect`). Which users have the web
client is chosen at the start (`Browsers`); users have names that the server takes
(`UserOfType`), as the forms of both clients see to. The relay's handlers are those of
`Relay`, not a second copy. `broadcast` carries no key state and is left to
`MessageKeys` and `FileTransfer`. A client that is refused because the room is
full or gone stays on its joining screen, as in the code.

`ListsAgree` and `PinnedAreListed` are about the member list in `client[c].peers`, which the
handlers of `TerminalClient` change as `doConnect` does: a member whose claim is refused is not
listed, `peer_joined` counts only in `waiting` and `ready`, and a disposed session refuses
every claim. The list is therefore not simply what the relay has sent. Where the client
falls behind for good, the properties say nothing, and each of these limits is needed:

- a web client is deaf to `peer_joined` and `peer_left` until its seeds are in, and does not
  catch up;
- a terminal client that goes through its lobby refuses a `peer_joined` that arrives before
  `rekeyed`, and the newcomer is missing from then on. That it lists nobody who is gone
  is claimed of lobby sessions too; that it lists everybody, of the first session;
- `PinnedAreListed` needs no empty queue, since list and claims change together, but a
  session that is not in its lobby.

`OneAtATime` is the assumption the protocol document makes about users: TRUE lets
users act (dial, rotate, leave) only when nothing is in flight. The run `room`
needs it, `room_any` does without, `room_overlap` shows why it is needed.
`Resumes` says when a lost web client may come back: `"current"` only while all the
peers it remembers are in the room, which `web_return` shows to be needed.

### Connections

`TerminalConnection` has a set of sockets, one for each attempt, and how far each
has got, from `opening` to `in`. `current` and `settled` are the two module variables
their handlers share. A socket the client closes is `closing` until its `onClose`
runs, whatever has happened to `current` by then (`Lost`); what it may still receive
until then is left out. One that is gone while the
server holds it under the user's name is a `ghost`, and makes the next attempt fail
with `username_taken`. `Attempt` is a round of `startReconnect` whose health check
succeeds. The user may submit, cancel and submit again at any moment, also while another
attempt, its reconnect loop or its close is under way: nothing in the code prevents it.
`overlap` is a history variable that remembers whether that has happened; no action reads it.
`NoOrphanSession` is claimed until it happens, since afterwards two sockets share one flag and
the session may lose both; `OnePerAttempt` is claimed of every behaviour, and
`ClosedForGood` is what a late close violates.

`WebConnection` has one socket and one timer, as the class has; `Teardown`,
`OnWsClose` and `AttemptReconnect` are its methods of these names. Drops, outages and
recoveries are the network's; the delay is counted in doublings. What the frames
do to the keys is `WebClient`'s: here the phases only move.

### What is shown

`WebViews`: `page.store` is the store and `page.view` what each view has drawn last. An
action is one event of the session or one act of the user, with all its
dispatches; each dispatch runs the reducer and then the listeners in the order in
which they subscribed, those mounted meanwhile included. A view draws again when its own test
says so (`RowsAfter`, `PaneChanged`, `BarAfter`, `HistoryAfter`). `session` has as much of
`CovcomSession` as decides which events may come.

`Screens`: which view `setupView` installed last, the handles the rest of the program
paints through, the modal and `_quitConfirm`, and what was painted last. `ChatScreen`:
one action per kind of key, click, resize or message, each with the drawing that
follows it, since drawing itself corrects the focus ring, the keys bar and the
scroll position. `EventSidebar`: the same for the log, where the next key works on
the lines drawn last; an entry has none, one or two lines of detail. `TextWrap`: a
text is a sequence of glyphs that take none, one or two columns; `CharWrap` and
`WordWrap` are its loops, one operator for each round (`PutGlyph`, `PutInWord`, `WrapWord`).

### FileTransfer

`sent` counts frames; frame 0 is `file-begin`. The relay copies each broadcast
to each member in order, so a member's queue is the frames between `read[p]` and
`sent`. The sender's peer list lags behind the relay's membership by the
`peer_left` frames in `departed`, and by those whose `peer_joined` it has not seen.
Acks of one peer may overtake one another in the model and not in the program.
The model has the program's arithmetic with `WINDOW` and `ACK_INTERVAL` as
parameters.

### MessageKeys

`chains` holds, per epoch the receiver keeps, how far its chain has stepped and
which skipped keys its store has. `SkippedKeyStore`, `KDFChain` and the handle of
`resolve` are in the library leviathan-crypto, outside this repository: the
model has what `session.ts` and `lib/test/session.test.ts` rely on, and leaves open
which keys a full store drops. Ratchet steps arrive in order, since each root opens
only the next.

## The runs

| run | result | size | shows |
|---|---|---|---|
| `relay` | passes | 221 k states | type invariant, unique names, capacity, agreement of the two membership records, `Directory` |
| `room_life` | passes | 55 k | the sweep takes abandoned rooms, in the end, and no others |
| `room` | passes | 1.2 M | keys agree after each join, rotation, departure, reconnection and lobby, whichever client each user has |
| `room_any` | passes | 2.0 M | any interleaving: no half-done rotation, right epoch numbers, member lists and pinned claims right with frames in flight; a fresh snapshot whenever nothing is in flight |
| `room_overlap` | violation | | two close joins leave members without keys |
| `web_return` | violation | | a web client that remembers a peer who is gone stops half way through a rotation |
| `traffic` | passes | 787 k | messages: each key once, nothing lost, bounded stores; files: the window holds, a transfer ends |
| `message_epochs` | violation | | a message read after the ratchet step that followed it still opens |
| `file_unlisted` | violation | | the buffer of a member that the sender does not list is not bounded by the window |
| `terminal_screen` | violation | | a reconnect from the waiting screen never shows the chat |
| `terminal_close` | violation | | a close the client asked for starts a reconnect loop beside the next attempt |
| `client` | passes | 676 k | the parts of the clients on the bench: twenty properties of connections, page, screens, list, sidebar and lines |

The benches. `TerminalConnection`, `WebConnection`, `WebViews`, `Screens`, `ChatScreen`,
`EventSidebar` and `TextWrap` share no variable. `MCClient` starts each of them and
lets one of them move in each behaviour, so that the states of the parts add up and do not
multiply, and every property is checked on every behaviour of the part it is about.
`MCTraffic` does the same with `MessageKeys` and `FileTransfer`.

Bounds, and why they are enough:

- `relay`: three connections and a limit of two give a full room, a third that
  is refused and one that slips in after a close; two rooms, so that a connection
  may try a second; two names, one of them also with spaces around it.
  `MaxUnread = 0` means a frame is read before the server handles the next, which
  loses nothing: the server never looks at what it has sent. In `Room`, where unread
  frames matter, queues have no such limit. `RoomTtl = 1`: fresh, at the limit, above it.
  Connections are interchangeable in `relay`, which checks no liveness, so symmetry is sound.
- `room`: three users and a returning one is the least in which a step has two
  receivers and a session is replaced in a room that goes on; two rotations, so
  that a used-up key is needed again; departures unbounded in effect; all eight
  ways to give the three users one of the two clients.
- `room_any`: two users, one of whom returns, with a rotation and two departures at
  any moment; the one who waits for the other's return has either client. A third user at any
  moment is what `room_overlap` has, whose property fails. The new one's frames cross the
  snapshot, the identify and the departure of the other in every order, which is what the
  member list has to survive.
- `traffic`, the file: `WINDOW = 4`, `ACK_INTERVAL = 2` keep the program's
  ratio of two acks to a window (64 and 32), with seven chunks: the window fills,
  moves on, and the last ack falls between two regular ones. `BufferCap = 11` is
  Bun's 16 MiB in the same proportion: about 188 frames of 87 KB, not quite three
  windows.
- `traffic`, the messages: a window of one kept epoch and three epochs, so that an epoch
  expires; one key skipped at most and two kept, so that both limits are met;
  the proofs cover every other value.
- `client`: three sockets, so that an attempt follows one that was refused and one
  that still closes; three drops in two outages and two attempts by the user; two
  peers and two fingerprints, so that one peer changes while the other stays; a log
  cap of two in the page and four in the sidebar, both exceeded; panes of one line
  and of three against entries of up to three; a list of two lines with four messages of one or
  two lines or files; texts of up to five glyphs on two and three columns, so that
  a wide glyph meets the edge at every place of a word.

Deadlock is not checked: a system whose clients have all gone, or whose
bounds are used up, has stopped, and that is not an error.

Fairness. `AbandonedRoomPruned` assumes that time passes and that the hourly job
runs (`Bun.cron`), nothing of any client. `TransferEnds` assumes that the sender's
10 ms poll goes on, that both ends of an open socket are read, and that the
sender gets what the relay has for it; nobody has to stay, leave or answer. The property
then says that the sender stays in `waitForCredit` only if some recipient
that has given up the file (key unknown, chunk out of order) remains in the
room. That this case does hang the sender is how the code is written.
`LostComesBack` assumes that timers fire, that a socket opens or fails, that the
server answers, and that an outage ends; not that connections stay up. Its
`OnWsClose` case is the one that matters: an attempt that is cut off before `joined` must
set the timer again.

### Where the code and its documents differ

Each is a run that TLC must find violated; `PROJECT.json` quotes the lines.

1. `KeysAgree` under overlap: the protocol document says joins serialise. The
   relay serialises frames, not joins.
2. `RotateNeverThrows` after a web reconnect: the web specification says that
   `_onJoined` rebuilds the keys from scratch, but the list of peers to rotate to is
   not rebuilt.
3. `NoBufferOverflow`: the relay's buffer is to be held by the window, which paces the
   recipients that the sender lists at `file-begin`. A member whose `peer_joined` is still
   under way then is sent everything and is not waited for, nor is one that joins later. TLC's
   trace shows the first.
4. `ChatShown`: the waiting screen is to give way to the chat when a peer connects;
   after a reconnect it does not.
5. `EpochBoundary`: the threat model says that messages reordered across an epoch boundary
   are discarded. The chain they belong to is kept for `EPOCH_KEEP_WINDOW` epochs, and they
   open, which the library's own tests expect (`lib/test/session.test.ts`) and
   `WithinReach` states.
6. `ClosedForGood`: a comment says that `_authSettled` marks a close as intentional. The next
   attempt clears it, and a close reported after that starts a reconnect loop.

What no passing run catches: a web client is deaf to `peer_joined` while it waits for its own
seeds, so a member met in that gap never gets its seed. Where users act one at a time nobody
joins in the gap; where they act at any moment `KeysAgree` fails already for terminal clients
alone (`room_overlap`, which has no browser). `RotateNeverThrows` holds in spite of it, since
a client lists only whom it has met.

### Observations without a run of their own

Things the models do as the code does, found while writing them, that no
document contradicts as plainly, or that a property names as its exception.

Protocol and server:

- `handleClose` leaves `lastActivity` as it is, so members that were silent for the
  TTL and drop together lose their room at the next sweep, without the grace that
  `docs/SERVER-SPEC.md:294` describes.
- A ratchet step that fails to open leaves its claim accepted and the one-shot key used
  (`cli/src/state.ts:767`), although `ws.ts:52` speaks of an intact session.
- Three transfers at once put three windows into one recipient's buffer, more than the relay keeps.

Terminal connection:

- A waiting screen cancelled while a reconnect loop runs does not stop the loop;
  a form cancelled while its attempt runs does not close the socket; submitting
  twice opens two sockets, and a session may then end up without either:
  `NoOrphanSession` names this.
- A client whose ghost is still in the room is refused its own name and gives up;
  a reconnect cut off before `joined` is not tried again.

Web connection:

- A drop in `joining` is fatal also when a lone waiter had just been joined; the back-off is
  not reset by a drop soon after the return.
- Cancelling the create form while the server makes the room either hides the error or
  takes the user into the room after all. `FatalShown` names this.

Terminal screens:

- A file chooser that ends late paints the join form over the screen that is up,
  or replaces an invite pasted meanwhile; an error drawn on a form under a modal
  leaves the modal out. `ScreenShown` names both.
- Errors on the landing and waiting screens are drawn nowhere.
- A window that shrinks under an open sidebar and file picker leaves the focus on the
  hidden path field. `FocusShown` names it.
- With the log full, a reader's lines move up with each entry, by the lines of the one that
  goes. `LogBacklogKept` says that it is no more than that.

## The proofs

All hold for every value of the constants under the named assumptions at the head of
each module: `Conn` is finite; `Canon` gives a valid name or `Null`; `Null` is none of the
values it stands beside; limits are natural numbers; an ack interval is no larger than a
window. `PROJECT.json` lists the theorems with the property each one states.

Each part has one inductive invariant, from which its theorems follow; there is a lemma for
each helper of the model, one per action, and one that puts them together.

### Relay and rooms' lives

`RelayProofs`. The invariant is `IInv`, the conjunction of `TypeOK`,
`NoStrandedMember`, `NamedIsPlaced`, `UniqueNames` and `Capacity`. None of the
last three is inductive alone. `UniqueNames` speaks of connections in `room.conns` while
`handleIdentify` finds its room through `ws.data.roomId`: the two must agree
(`NoStrandedMember`), and a connection with a name must be in a room
(`NamedIsPlaced`), or else a join would bring a name in unchecked. `Capacity`
needs that a joining connection is in no room yet. `ImplementsDirectory` then maps every
step: a first identify is `Enter`, a second is `Rename`, the close of an identified connection
is `Leave` and frees that one name because of `UniqueNames`, a sweep is `Remove`, and all
else leaves the names alone.
`UsedRoomsAreKept` compares two clocks. `quietFor` is a room's age measured from outside,
and starts anew with every frame of a member; `lastActivity` is what the server looks at.
`LifeInv` says the server's is the younger, so a sweep that takes a room takes one that
nobody has used for as long as the TTL.

### The keys of a room

`RoomProofs` proves `EpochInStep`: the number a receiver gives to a seed is its sender's. The
sender does not send the number with a step, the receiver counts. A step that
is lost is no danger, since the next does not open. A rotation that fails half way is: it moves
some of the sender's roots on and leaves the epoch, so that the next step from such a root
carries a seed with a smaller number than the root it is made from. A receiver that
opened it would count wrongly ever after.

The argument is stated in `Keys(S, P, B)`, for the sessions `S` of all clients, the steps
`P[n]` under way to each user and the sealed seeds `B` under way, wherever they are. It
says what roots, seeds and numbers have to do with one another (`SessionsOK`), that
whatever anybody holds was drawn by its sender (`ChainsDrawn`, `StepsDrawn`,
`SeedsDrawn`), and three things about the steps that are numbered wrongly, the `Broken`
ones. A root that has sent one stays ahead of its epoch for good (`StaysBroken`). So of the
steps from one root the good ones came before (`GoodFirst`). And to open a broken one
a receiver would have to have opened as many steps from that root as were made, of which
one was never sent: no receiver's root gets to where a broken step starts
(`NeverReached`). A session that starts over has later seeds than all before (`Later`).

There is a lemma for each thing a session can do to `Keys`: seal its seed, meet a member,
rotate, fail in a rotation, open a step or a seed, forget, be disposed of. Then every
branch of both clients is shown `Lawful`: what it leaves and what it sends keep
`Keys`. The relay is not trusted with anything: all the proof needs of it is that it
copies payloads, each to connections of the name it is for (`Relayed`). `KeyInv` reads `P` and
`B` off both queues of every connection. No assumption is made on the kind of
clients, on the order of events, on `Resumes` or `OneAtATime`.

On top of `KeyInv`, `RoomProofs` proves that rotations go through: every peer that a
client lists has a root and a ratchet key, so that `doRatchetStep` does not throw half way
(`RotateInv`). The part that says so is `Whole`. It is not inductive alone. A terminal client
that is the last in its room waits in its lobby with a session that is disposed of; were it
to read `joined` there, it would list members for whom that session makes no keys.
`OneEntry` excludes this: the client asks for a room once, is answered once, and neither
a question nor an answer is under way once it waits for seeds or is in the chat. It
looks at both queues of the connection (`Asks`, `Grants`). The web client needs no such
clause, as it replaces its session at once.

`RotationsGoThrough` says it for every client that did not come back with the peers an
earlier connection knew, whenever others do. `RotationsNeverThrow` is `RotateNeverThrows`
for all clients, under the hypothesis `Resumes = "never"`, that of the run `room_any`. The
hypothesis is needed: with `Resumes = "always"` the run `web_return` violates the
property, see the findings. `NullIsNoKey` is the one assumption about the data: that "no
key" or "no session" is not one.

`SnapshotProofs` proves `SnapshotFresh`: what the relay would tell the next joiner of a
member is what that member uses. The relay's copy is behind the member by the frames under
way, so the invariant, `SnapInv`, says what the copy will be once they are served (`Due`).
It rests on a client reading only when its earlier frames have been served: then one
frame with keys is under way at most, the first of its queue (`FirstOnly`), and what it
brings, put into the copy, gives the member's keys (`Brings`). A client in its lobby counts
with the session that waits there (`Cur`), since that is the one that `rekey` announces;
and as long as it is in the lobby `rekey` or the answer to it is under way, so that
at a quiet moment nobody is. A client answers a frame so that this holds again
(`Tells`; one lemma for each branch of both clients), the server stores what it is brought
(`Told`). A client without a name has not told anything yet: `Enters` says that it joins
once and identifies once, after `joined`. The hypothesis `AllGood` says that the keys,
claims and signatures that clients make pass the server's tests of length; a frame that
did not would be dropped and the copy would be stale. Nothing is assumed of `Resumes`,
`OneAtATime` or the kinds of clients.

### Terminal client

`TerminalProofs` has independent parts: the connection, the screens, the chat, the sidebar, the
file it sends, and the lines of a message.

- `TerminalInv` holds until the user begins an attempt beside another, and the step that does
  sets `overlap`. Until then there is one connection at most (`Solo`); while a reconnect loop
  runs there is none (`Looping`); a socket that closes has no session beside it
  (`Closing`), so that its `onClose` cannot take one down; a connection is the session's, or
  has no session beside it, and its close is not meant (`Current`).
  `OnePerAttempt` needs no such limit. It counts what is under way and the loops that run
  against the attempts the user made: a loop ends where its attempt begins and
  starts where a socket ends, so that the difference only shrinks.
- `ScreenInv`: the handles that the rest of the program paints through are those of the
  screen that is up; a chooser that has not lost its form is on the join form, the only one
  with a Browse button; the question about quitting is open only under a modal and right
  after Ctrl+C.
- `ChatInv`: the focus ring is the one of the layout and of the mode (`Ring` never holds what
  is hidden), the cursor is a line of the list or none, the keys bar is that of what has
  the focus, the selected line is in the window. Each action draws at its end and drawing
  corrects the ring, so the lemma about drawing (`DrawInv`) asks little (`Drawable`) and
  each action only shows that much.
- `SideInv`: what the event log's pane shows is a window on the lines the log has now, at
  their end while the view goes along and never past it; the entries are numbered in order,
  so no number is there twice. `LogBacklogKept` then needs that an entry that comes last
  adds its lines at the end (`LinesAppended`) and that the oldest, when it goes, takes its
  own away from the front, `ExpandedInView` that opening or closing an
  entry replaces its own lines and leaves those before and after (`LinesToggled`), both by
  induction over the entries; the rest is arithmetic about the two places that move the
  view, `_scrollSelectedEntryIntoView` and `_renderEventLog`.
- The invariant of the file transfer is `TransferTypeOK` with: an ack, in flight or taken, is for a
  chunk its member has read past (`AcksAreRead`); the last chunk sent had credit with
  every recipient, `sent - 2 - acked[p] <= WINDOW` (`LastHadCredit`); and how `sent`
  follows the phase (`Started`, `NotOverrun`, `Unsent`). `WindowHeld` follows from the
  first two: what waits for a member is counted from what it has read, which is at least
  what it acknowledged.

- The lines of a message are a function of the text and the width, so `WrapTypes` only says
  that they are a text and a width; the work is in what three nested loops compute
  (`WrapIsRight`). The induction over the words (`WrapWordKeeps`) says of all lines so far, with
  the one begun: they fit; they hold what the words held, but for spaces; and no more of
  them begin with a mark than words do. The third holds because a cut comes only before a
  glyph that does not fit, and a mark always fits (`WordIsCut`, the induction over the glyphs
  of a word). That a chunk fits needs a pane of two columns or more, or a wide glyph would be
  over its edge (`WrapBounds`).
  `WidthIsColumns` says that `displayWidth` is the count that `LinesFit` is stated with.

### Web client

`WebProofs` has two parts. `WebInv` adds three facts to `OneWayBack` and
`BannerCleared`: an idle session is no reconnect and shows no banner; a session
with a banner and a socket is a reconnect; an idle session's socket has not got past
its first answer. The second is what `_onJoined` rests on when it clears the banner only for
a reconnect, and it is `_attemptReconnect` that keeps it, by setting the flag before it opens
the socket.

`ViewInv` says what each view has drawn, and that its own test for drawing again is good
enough: message rows are compared by their ids, which suffices because ids only grow
and rows are only added at the end (`RowsFollow`); the event log likewise, also when the cap has taken
its first entry away. A dispatch runs the reducer and then the listeners; the proof goes through the
kinds of dispatches, and each event of the session is a few of these in a row. `_onJoined`
has one or two per member, and is a loop: `Induction` carries the invariant through it.

### Message keys

`MessageKeysProofs`. The invariant is `TypeOK` with: a key opened or held is
in no store and behind its chain (`SpentIsGone`); `held` and `opened` are disjoint; every
counter behind a kept chain is held, opened, in the store or was dropped from it
(`Accounted`); an epoch left behind has been run to its end, and is kept while
the window has it (`Retired`). `OpenedOnce` follows from the first, `WithinReach` from
the last two. `StoresInv` adds that the kept epochs lie between the current one and
`EPOCH_KEEP_WINDOW` before it and that each store is within its limit; counting them
gives `BoundedStores`.

### How induction is done

The library's induction theorems take an operator as a parameter, which the provers at hand
cannot instantiate. `Induction` proves from the well-foundedness of the naturals that a
*set* of naturals that has 0 and the successor of each member is everything
(`CountUp`), and that a function defined on `0..n` by recursion satisfies its
recursion (`Iterated`). What is to be shown by induction is then written as a set. For
sequences, a set that has the empty one and each member with one element more is everything
(`SequenceByElement`), and a recursive function over the prefixes of a sequence computes
a function of the sequence that takes one step for one element more (`Folded`). Loops over
sequences are therefore written as recursive functions in the modules, not with the folds
of the community modules, about which the provers know nothing.

### Only model-checked

- Liveness: `AbandonedRoomPruned`, `TransferEnds`, `LostComesBack`. The prover has no
  fairness rules that apply to them and no `ENABLED`.
- `KeysAgree`. It speaks of quiet moments, and an invariant for it must say what each
  client will know of every other once all the frames in flight have been handled, in both
  directions and at the relay, for each way a join, a rotation and a departure can be under
  way; that these do not overlap is its hypothesis.
- `ListsAgree` and `PinnedAreListed`. An invariant must forecast the list through the frames
  on their way to a client, with its phase and its refusals at each.

## Not modelled, and why

- Cryptography, encodings and fingerprints: keys are symbolic. That the library
  computes what it should is not a question for these modules.
- Invites, QR codes, sanitising, markup, flags and configuration: stateless scans and
  tables, with vectors in the repository's tests.
- Drawing of cells, decoding of keys, editing in the text fields, the DOM, wording:
  no property is about them.
- Version mismatch screens: an attempt that ends so ends like one with a taken name.
- The web client's file transfer: the same window as the terminal's.
- The server's handling of frames its own clients never send, beyond what the
  types allow: `JSON.parse` failures and missing fields are dropped.
- Build, release and container files: tooling outside the running system.

## Plan

Done: relay, abstract directory, room lifetime, session, both
clients in one room with their member lists, both clients' connections, page and screens, event log, line
breaking, file transfer, message keys; proofs of all their safety properties but those
listed as only model-checked.

Next, in this order:

1. A proof of `PinnedAreListed` and `ListsAgree`, beside `SnapInv`.
2. A proof of `KeysAgree` when one thing happens at a time, on top of both.
3. Progress of the waiting phase when expected members leave (`state.ts:900`).
4. Text editing of the input fields, with its display offset.
