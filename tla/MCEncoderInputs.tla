-------------------------- MODULE MCEncoderInputs --------------------------
(***************************************************************************)
(* A small instance of EncoderInputs: two requests that share an image;    *)
(* two text tokens between the images of one, twice the look-ahead; ia and *)
(* ib do not fit into the cache together.                                  *)
(***************************************************************************)
EXTENDS EncoderInputs, TLC

CONSTANTS ia, ib, ic

MCSize == ia :> 2 @@ ib :> 2 @@ ic :> 1
MCPromptLen == <<7, 11>>
MCFeatures ==
  << <<[start |-> 4, hash |-> ia]>>,
     <<[start |-> 0, hash |-> ic], [start |-> 4, hash |-> ib], [start |-> 8, hash |-> ia]>> >>
=============================================================================
