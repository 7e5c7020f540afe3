---------------------------- MODULE ServingSlot ----------------------------
(***************************************************************************)
(* What the core manager promises its clients about traffic: a single slot *)
(* that one core epoch at a time serves, never handed over directly from   *)
(* one epoch to another.                                                   *)
(***************************************************************************)
CONSTANT Epochs

VARIABLE serving

Init == serving = {}

Acquire(e) == serving = {} /\ serving' = {e}

Release == serving # {} /\ serving' = {}

Next == Release \/ \E e \in Epochs : Acquire(e)

Spec == Init /\ [][Next]_serving

=============================================================================
