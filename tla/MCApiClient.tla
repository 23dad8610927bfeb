----------------------------- MODULE MCApiClient -----------------------------
(***************************************************************************)
(* An instance of ApiClient for TLC: a batch with an incomplete item       *)
(* between two good ones.                                                  *)
(***************************************************************************)
EXTENDS ApiClient
CONSTANTS c1, c2
GoodBadGood == <<c1, Bad, c2>>
AnyState == States
=============================================================================
