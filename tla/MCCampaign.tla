------------------------------ MODULE MCCampaign ------------------------------
(***************************************************************************)
(* Campaign with two modes in three rounds, one repetition, two attempts,  *)
(* and two things that go wrong.                                           *)
(***************************************************************************)
EXTENDS Campaign
=============================================================================
