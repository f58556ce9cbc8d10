------------------------------ MODULE MCGateway ------------------------------
(***************************************************************************)
(* Instances of Gateway for TLC.                                           *)
(***************************************************************************)
EXTENDS GatewayProperties, TLC
CONSTANTS a1, a2, q1, q2

TwoAccounts   == {a1, a2}
OneRequest    == {q1}
TwoRequests   == {q1, q2}
AccountSymmetry == Permutations(Ids)
=============================================================================
