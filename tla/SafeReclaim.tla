---------------------------- MODULE SafeReclaim ----------------------------
(***************************************************************************)
(* What the scheduler promises about KV blocks while batches overlap: a    *)
(* block that some step on the GPU may still touch is not in the pool, so  *)
(* nobody else can be given it.  Who holds a block outside the pool, and   *)
(* when a holder lets go, is left to the implementation (DeferredFree).    *)
(***************************************************************************)
EXTENDS Sequences

CONSTANT Blocks       \* the KV blocks

VARIABLES
  pool,               \* blocks that may be handed out
  flight              \* for each step on the GPU, oldest first, the blocks it uses

vars == <<pool, flight>>

\* The blocks used by the steps of f.
Busy(f) == UNION {f[i] : i \in DOMAIN f}

Init ==
  /\ pool = Blocks
  /\ flight = <<>>

\* Blocks are handed out.
Take ==
  /\ pool' \subseteq pool
  /\ UNCHANGED flight

\* A step starts; it uses only blocks that were handed out.
Start ==
  /\ \E used \in SUBSET (Blocks \ pool) : flight' = Append(flight, used)
  /\ UNCHANGED pool

\* Blocks come back; none is used by a step that is still running.
Return ==
  /\ pool \subseteq pool'
  /\ pool' \subseteq Blocks
  /\ (pool' \ pool) \cap Busy(flight') = {}
  /\ UNCHANGED flight

\* The oldest step ends, and with it blocks may come back.
End ==
  /\ flight # <<>>
  /\ flight' = Tail(flight)
  /\ pool \subseteq pool'
  /\ pool' \subseteq Blocks
  /\ (pool' \ pool) \cap Busy(flight') = {}

Next == Take \/ Start \/ Return \/ End

Spec == Init /\ [][Next]_vars
=============================================================================
