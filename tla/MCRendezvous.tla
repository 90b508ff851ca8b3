---------------------------- MODULE MCRendezvous ----------------------------
(* Two rank threads as model values. *)
EXTENDS Rendezvous
CONSTANTS r1, r2
=============================================================================
