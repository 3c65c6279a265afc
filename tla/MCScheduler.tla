---------------------------- MODULE MCScheduler ----------------------------
(***************************************************************************)
(* Small instances of Scheduler.                                           *)
(***************************************************************************)
EXTENDS Scheduler, TLC

MCPrompt == [r \in Reqs |-> 3]
MCMaxTokens == [r \in Reqs |-> 4]
MCRank == CHOOSE f \in [Reqs -> 1 .. Cardinality(Reqs)] :
            \A x, y \in Reqs : f[x] = f[y] => x = y
Symmetry == Permutations(Reqs)

\* A rejected block may be sampled again for ever, and the worker then counts on.
RunnerBound == \A r \in Reqs : req[r].runner <= MaxModelLen + 2
=============================================================================
