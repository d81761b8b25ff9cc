----------------------------- MODULE MCResync ------------------------------
(***************************************************************************)
(* A small instance of Resync: three nodes of one content each, more than a *)
(* page has.                                                               *)
(***************************************************************************)
EXTENDS Resync

CONSTANTS m, n, o, a

ThreeNodes == {m, n, o}
ThreeTexts == [x \in ThreeNodes |-> {a}]
=============================================================================
