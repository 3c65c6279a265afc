---------------------------- MODULE MCSessions ----------------------------
(***************************************************************************)
(* A small instance of Sessions: two sessions, one of them with a grammar. *)
(***************************************************************************)
EXTENDS Sessions, TLC

CONSTANTS s1, s2

\* A session of up to three chunks, and one that ends or pauses after the first.
MCChunks == s1 :> 3 @@ s2 :> 1
=============================================================================
