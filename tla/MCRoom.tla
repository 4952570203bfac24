------------------------------ MODULE MCRoom ------------------------------
(***************************************************************************)
(* TLC instance of Room.  The key sets cover every value the bounds allow. *)
(***************************************************************************)
EXTENDS Room, TLC

CONSTANTS c1, c2, c3, c4, a, b, x

MCCanon == [n \in Name |-> n]

MCThreeUsers == c1 :> a @@ c2 :> b @@ c3 :> x
MCFour == c1 :> a @@ c2 :> b @@ c3 :> x @@ c4 :> b
MCBackToTwo == c1 :> b @@ c2 :> a @@ c3 :> x @@ c4 :> a
MCReturning == c1 :> a @@ c2 :> b @@ c3 :> b

MCNobody == {{}}
MCJustA == {{a}}
MCNoneOrA == {{}, {a}}
MCAnyBrowsers == SUBSET Name

Sids == Conn \X (0 .. 3)
MCEk == [sid : Sids] \cup [sid : Sids, gen : 0 .. 15]
MCClaim == [sid : Sids, seq : 0 .. 30]
=============================================================================
