---------------------------- MODULE MCLivePage ----------------------------
(***************************************************************************)
(* Model checking of LivePage.                                             *)
(***************************************************************************)
EXTENDS LivePage
=============================================================================
