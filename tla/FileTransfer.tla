---------------------------- MODULE FileTransfer ----------------------------
(***************************************************************************)
(* One streamed file in a room: the sender's credit window (doSendFile and *)
(* waitForCredit of cli/src/state.ts over lib/src/filetransfer.ts), the    *)
(* members that reassemble it, and members that come and go meanwhile.     *)
(*                                                                         *)
(* The relay copies every frame of the transfer to every member and keeps  *)
(* their order.  Frame 0 is file-begin, frame i + 1 is chunk i.  So what   *)
(* waits at the relay for member p is frames read[p] .. sent - 1.          *)
(***************************************************************************)
EXTENDS Integers, FiniteSets

CONSTANTS
  Peer,          \* usernames other than the sender's
  Chunks,        \* number of chunks of the file; an empty file has one
  WINDOW, ACK_INTERVAL,
  BufferCap,     \* frames the relay keeps for one socket: Bun's 16 MiB hold
                 \* about 188 frames of 87 KB, not quite three windows
  MaxJoins       \* bound on members that arrive during the transfer

ASSUME ChunksPos == Chunks \in Nat \ {0}
ASSUME WindowFitsAcks ==
  /\ WINDOW \in Nat /\ ACK_INTERVAL \in Nat \ {0}
  /\ ACK_INTERVAL <= WINDOW
ASSUME TransferBounds == MaxJoins \in Nat /\ BufferCap \in Nat

VARIABLES
  phase,       \* of doSendFile: "idle", "sending", "done" or "failed"
  sent,        \* frames broadcast so far, file-begin included
  recipients,  \* sendingFiles[fileId].recipients
  acked,       \* sendingFiles[fileId].acked, -1 before the first ack
  members,     \* members at the relay, the sender not among them
  departed,    \* peer_left frames on their way to the sender
  read,        \* frames of the transfer each member has taken off its socket
  inbound,     \* nextSeq of each member's inboundFiles entry, -1 without one
  complete,    \* members that have reassembled the file
  acks,        \* acks on their way to the sender, per member
  joins

transferVars == <<phase, sent, recipients, acked, members, departed, read, inbound,
                  complete, acks, joins>>

Seq0 == 0 .. Chunks - 1
(* Mutant: one chunk more.                                                 *)
FinalLate(seq) == seq = Chunks
Final(seq) == seq = Chunks - 1

TransferTypeOK ==
  /\ phase \in {"idle", "sending", "done", "failed"}
  /\ sent \in 0 .. Chunks + 1
  /\ recipients \subseteq Peer
  /\ acked \in [Peer -> Seq0 \cup {-1}]
  /\ members \subseteq Peer
  /\ departed \subseteq Peer
  /\ read \in [Peer -> 0 .. sent]
  /\ inbound \in [Peer -> -1 .. Chunks]
  /\ complete \subseteq Peer
  /\ acks \in [Peer -> SUBSET Seq0]
  /\ joins \in 0 .. MaxJoins

TransferInit ==
  /\ phase = "idle" /\ sent = 0
  /\ recipients = {} /\ acked = [p \in Peer |-> -1]
  /\ members \in SUBSET Peer /\ departed = {}
  /\ read = [p \in Peer |-> 0]
  /\ inbound = [p \in Peer |-> -1]
  /\ complete = {}
  /\ acks = [p \in Peer |-> {}]
  /\ joins = 0

-----------------------------------------------------------------------------
(* The sender.                                                             *)

(* file-begin goes out and the recipients are fixed.  The list of peers    *)
(* still names those whose peer_left has not arrived, and not yet those    *)
(* whose peer_joined has not.  It is not empty: the client would be in the *)
(* lobby.                                                                  *)
Begin ==
  /\ phase = "idle"
  /\ phase' = "sending"
  /\ sent' = 1
  /\ \E known \in SUBSET members : recipients' = known \cup departed
  /\ recipients' # {}
  /\ UNCHANGED <<acked, members, departed, read, inbound, complete, acks, joins>>

(* Mutant: the fastest recipient sets the pace.                            *)
CreditFastest(seq) ==
  recipients = {} \/ \E p \in recipients : seq - acked[p] <= WINDOW

(* waitForCredit: no chunk is more than WINDOW ahead of the slowest ack.   *)
Credit(seq) == \A p \in recipients : seq - acked[p] <= WINDOW

SendChunk ==
  LET seq == sent - 1 IN
  /\ phase = "sending"
  /\ Credit(seq)
  /\ sent' = sent + 1
  /\ phase' = IF Final(seq) THEN "done" ELSE phase
  /\ UNCHANGED <<recipients, acked, members, departed, read, inbound, complete,
                 acks, joins>>

(* An ack counts for a current recipient and when it is news.              *)
ReceiveAck(p) ==
  \E seq \in acks[p] :
    /\ acks' = [acks EXCEPT ![p] = @ \ {seq}]
    /\ acked' = IF phase = "sending" /\ p \in recipients /\ seq > acked[p]
                THEN [acked EXCEPT ![p] = seq] ELSE acked
    /\ UNCHANGED <<phase, sent, recipients, members, departed, read, inbound,
                   complete, joins>>

(* Mutant: a recipient that has left is waited for.                        *)
PeerLeftWaited(p) ==
  /\ p \in departed /\ acks[p] = {}
  /\ departed' = departed \ {p}
  /\ UNCHANGED <<phase, sent, recipients, acked, members, read, inbound,
                 complete, acks, joins>>

(* peer_left, behind the acks that the peer had sent.  With nobody left on *)
(* its list the sender goes to the lobby and disposes its session, so that *)
(* signing the next chunk throws.  Only a peer that joined since           *)
(* file-begin can be on the list and not a recipient.                      *)
PeerLeft(p) ==
  /\ p \in departed /\ acks[p] = {}
  /\ departed' = departed \ {p}
  /\ recipients' = recipients \ {p}
  /\ \E lobby \in BOOLEAN :
       /\ lobby => recipients' = {}
       /\ members \cup departed' = {} => lobby
       /\ phase' = IF lobby /\ phase = "sending" THEN "failed" ELSE phase
  /\ UNCHANGED <<sent, acked, members, read, inbound, complete, acks, joins>>

(* The sender's own connection closes: the loop aborts at its next check.  *)
ConnectionLost ==
  /\ phase = "sending"
  /\ phase' = "failed"
  /\ UNCHANGED <<sent, recipients, acked, members, departed, read, inbound,
                 complete, acks, joins>>

-----------------------------------------------------------------------------
(* A member's side of the transfer, doReceiveMessage.                      *)

Take(p) == read' = [read EXCEPT ![p] = @ + 1]

(* file-begin opens an inbound transfer, unless the key does not resolve   *)
(* or the client is not ready and drops the frame.                         *)
OnBegin(p) ==
  /\ p \in members /\ sent > 0 /\ read[p] = 0
  /\ Take(p)
  /\ \E next \in {0, -1} : inbound' = [inbound EXCEPT ![p] = next]
  /\ UNCHANGED <<phase, sent, recipients, acked, members, departed, complete,
                 acks, joins>>

(* A chunk without a transfer, or out of order: no ack, and no transfer.   *)
IgnoreChunk(p) ==
  /\ p \in members /\ 0 < read[p] /\ read[p] < sent
  /\ inbound[p] # read[p] - 1
  /\ Take(p)
  /\ inbound' = [inbound EXCEPT ![p] = -1]
  /\ UNCHANGED <<phase, sent, recipients, acked, members, departed, complete,
                 acks, joins>>

AckDue(seq) == seq % ACK_INTERVAL = 0 \/ Final(seq)

OnChunk(p) ==
  LET seq == read[p] - 1 IN
  /\ p \in members /\ 0 < read[p] /\ read[p] < sent
  /\ inbound[p] = seq
  /\ Take(p)
  /\ inbound' = [inbound EXCEPT ![p] = IF Final(seq) THEN -1 ELSE seq + 1]
  /\ complete' = IF Final(seq) THEN complete \cup {p} ELSE complete
  /\ acks' = IF AckDue(seq) THEN [acks EXCEPT ![p] = @ \cup {seq}] ELSE acks
  /\ UNCHANGED <<phase, sent, recipients, acked, members, departed, joins>>

(* A member leaves: what waited for it is dropped, its acks still arrive.  *)
MemberLeaves(p) ==
  /\ p \in members
  /\ members' = members \ {p}
  /\ departed' = departed \cup {p}
  /\ inbound' = [inbound EXCEPT ![p] = -1]
  /\ UNCHANGED <<phase, sent, recipients, acked, read, complete, acks, joins>>

(* Somebody joins, or rejoins: the relay copies to it from now on.         *)
Join(p) ==
  /\ p \notin members /\ joins < MaxJoins
  /\ members' = members \cup {p}
  /\ read' = [read EXCEPT ![p] = sent]
  /\ joins' = joins + 1
  /\ UNCHANGED <<phase, sent, recipients, acked, departed, inbound, complete, acks>>

ReceiveFrame(p) == OnBegin(p) \/ IgnoreChunk(p) \/ OnChunk(p)

TransferNext ==
  \/ Begin \/ SendChunk \/ ConnectionLost
  \/ \E p \in Peer : \/ ReceiveAck(p) \/ PeerLeft(p) \/ ReceiveFrame(p)
                     \/ MemberLeaves(p) \/ Join(p)

TransferSpec == TransferInit /\ [][TransferNext]_transferVars

(* The sender polls every 10 ms, both ends of a socket are read, nobody    *)
(* has to stay or to leave.                                                *)
TransferFairness ==
  /\ WF_transferVars(SendChunk)
  /\ \A p \in Peer :
       /\ WF_transferVars(ReceiveAck(p)) /\ WF_transferVars(PeerLeft(p))
       /\ WF_transferVars(ReceiveFrame(p))

-----------------------------------------------------------------------------
Backlog(p) == sent - read[p]

(* Of the frames kept at the relay for a recipient that takes part, at     *)
(* most a window's worth and file-begin, however slow it reads and         *)
(* whichever acks are late (waitForCredit).                                *)
WindowHeld ==
  \A p \in members \cap recipients : Backlog(p) <= WINDOW + 1

(* A transfer never hangs between the window and the acks: the sender does *)
(* not stay in waitForCredit for ever unless a recipient that has given up *)
(* the file stays in the room.                                             *)
GaveUp(p) == read[p] > 0 /\ inbound[p] = -1 /\ p \notin complete
TransferEnds ==
  <>[](phase = "sending") => <>[](\E p \in members \cap recipients : GaveUp(p))

(* No member's buffer at the relay ever overflows (PROTOCOL.md, files: the *)
(* window "is what keeps its per-connection buffer from overflowing and    *)
(* dropping a chunk").  The code paces the recipients only, the peers it   *)
(* lists at file-begin: a member whose peer_joined is on its way by then   *)
(* gets the whole file and is not waited for, and one that joins later     *)
(* gets the rest of it unpaced.                                            *)
NoBufferOverflow == \A p \in members : Backlog(p) <= BufferCap
=============================================================================
