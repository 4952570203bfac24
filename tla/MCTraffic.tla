------------------------------ MODULE MCTraffic ------------------------------
(***************************************************************************)
(* A bench for what members send each other through the relay, which does  *)
(* not read it: in every behaviour the messages of one sender move, or the *)
(* frames of one file, and the others rest.                                *)
(***************************************************************************)
EXTENDS MessageKeys, FileTransfer

VARIABLE moves

TrafficInit ==
  /\ moves \in {"messages", "file"}
  /\ Init /\ TransferInit
  /\ moves # "file" => members = {}

TrafficNext ==
  \/ moves = "messages" /\ Next /\ UNCHANGED <<transferVars, moves>>
  \/ moves = "file" /\ TransferNext /\ UNCHANGED <<vars, moves>>

TrafficSpec ==
  /\ TrafficInit /\ [][TrafficNext]_<<moves, vars, transferVars>>
  /\ TransferFairness
=============================================================================
