--------------------------- MODULE MCRateLimiter ---------------------------
(***************************************************************************)
(* Instances of RateLimiter for TLC: three sources share a table of two    *)
(* entries, a token takes two ticks to come back and five half tokens are  *)
(* the burst.  The count of drops is bounded.                              *)
(***************************************************************************)
EXTENDS RateLimiter, TLC

CONSTANTS s1, s2, s3, MaxDropped, MaxSpent

CountsBounded ==
    \A s \in Sources :
        /\ Tracked(s) => bucket[s].dropped <= MaxDropped
        /\ s \in Observed => watch[s].spent <= MaxSpent

Others == Permutations(Sources \ Observed)

=============================================================================
