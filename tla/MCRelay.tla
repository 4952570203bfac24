------------------------------ MODULE MCRelay ------------------------------
(***************************************************************************)
(* TLC instance of Relay: clients send any well-formed frame at any time.  *)
(***************************************************************************)
EXTENDS Relay, TLC

CONSTANTS c1, c2, c3, n1, n2, padded, control, empty

(* `padded` is n1 between spaces; `control` holds a control character.     *)
MCName == {n1, n2}
MCRawName == {n1, n2, padded, control}
MCCanon == n1 :> n1 @@ n2 :> n2 @@ padded :> n1 @@ control :> Null

MCSymmetry == Permutations({c1, c2, c3})
=============================================================================
