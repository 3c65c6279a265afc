------------------------- MODULE MCStructuredOutput -------------------------
(* StructuredOutput for TLC: a vocabulary of two words, the marker and the end. *)
EXTENDS StructuredOutput

MCSentences == {<<"a", "s">>, <<"a", "b", "s">>, <<"b", "b", "s">>}

\* Every kind of request and engine.
MCModes == ModeType
\* Preemption where schedule() sends the drafts that the worker holds.
MCPreemptable == {m \in ModeType : ~m.mm /\ ~m.async}
=============================================================================
