----------------------------- MODULE MC_OSched -----------------------------
(* Instance of OSched for TLC.                                            *)
EXTENDS OSched, TLC

Ask(ti, pm, sh) == [tier |-> ti, permits |-> pm, shared |-> sh]

\* One request class per lane of the gateway on a two-slot device: text and
\* audio with one permit, diffusion with all, batched decode shared in the
\* background, and exclusive background with the one permit of an embedding call.
MCRequest ==
    {Ask(TIER_PAID, 1, FALSE), Ask(TIER_SUB, 2, FALSE), Ask(TIER_FREE, 1, FALSE),
     Ask(TIER_BACKGROUND, 1, TRUE), Ask(TIER_BACKGROUND, 1, FALSE)}

Symmetry == Permutations(Thread)
=============================================================================
