------------------------- MODULE MCNip47Controller --------------------------
(***************************************************************************)
(* Nip47Controller with two connections, a request for each, and a process *)
(* that is killed once: enough for one handler to stop the listener of     *)
(* another, and for two writes of the apps file to cross.                  *)
(***************************************************************************)
EXTENDS Nip47Controller
=============================================================================
