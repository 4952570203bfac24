------------------------------ MODULE Directory ------------------------------
(***************************************************************************)
(* What the relay promises about membership, without connections, frames   *)
(* or clocks: rooms come and go, and each holds a set of usernames that    *)
(* changes by one name at a time.  A name is free before it is taken and   *)
(* gone once its one holder leaves.                                        *)
(***************************************************************************)
CONSTANTS RoomId, Name

VARIABLE members   \* the existing rooms, each with the names taken in it

Init == members = [r \in {} |-> {}]

Create(r) ==
  /\ r \notin DOMAIN members
  /\ members' = [x \in DOMAIN members \cup {r} |->
                   IF x = r THEN {} ELSE members[x]]

Enter(r, n) ==
  /\ n \notin members[r]
  /\ members' = [members EXCEPT ![r] = @ \cup {n}]

Leave(r, n) ==
  /\ n \in members[r]
  /\ members' = [members EXCEPT ![r] = @ \ {n}]

Rename(r, n, m) ==
  /\ n \in members[r] /\ m \notin members[r]
  /\ members' = [members EXCEPT ![r] = (@ \ {n}) \cup {m}]

(* Rooms are only ever taken away when no name is left in them.            *)
Remove(gone) ==
  /\ \A r \in gone : members[r] = {}
  /\ members' = [r \in DOMAIN members \ gone |-> members[r]]

Next ==
  \/ \E r \in RoomId : Create(r)
  \/ \E r \in DOMAIN members, n, m \in Name :
       Enter(r, n) \/ Leave(r, n) \/ Rename(r, n, m)
  \/ \E gone \in SUBSET DOMAIN members : Remove(gone)

Spec == Init /\ [][Next]_members
=============================================================================
