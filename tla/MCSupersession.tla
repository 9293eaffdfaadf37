--------------------------- MODULE MCSupersession ---------------------------
(***************************************************************************)
(* Two researchers that ask for the same study, and three validators that  *)
(* answer one of them, of which one may walk away.                         *)
(***************************************************************************)
EXTENDS MCFinalisation, Supersession

TheLeaver == {v3}
=============================================================================
