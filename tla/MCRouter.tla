----------------------------- MODULE MCRouter -----------------------------
(* Router with one upstream, in three scenes:                              *)
(*   filters  two lookups over a restart that may bring other filters; the *)
(*            clock stands still, since evictions and deletions at any     *)
(*            time do what expiry would                                    *)
(*   clock    two lookups under the stricter filters, while time passes    *)
(*   crowd    three clients' lookups, and nobody else does anything        *)
EXTENDS Router

CONSTANTS r1, r2, r3,     \* lookups
          cache,          \* the upstream
          plain, vetoed   \* bodies: the stricter filters deny the second

VARIABLE scene

MCBodies == {plain, vetoed}
MCVerifies == [u \in Upstreams |-> Bodies]
Strict == [u \in Upstreams |-> {plain}]
MCConfigs == {[u \in Upstreams |-> Bodies], Strict}

MCInit ==
    /\ Init
    /\ scene \in {"filters", "clock", "crowd"}
    /\ scene # "filters" => allow = Strict /\ route.body # vetoed

\* What may happen in a scene.
Staged ==
    /\ scene # "crowd" => pc'[r3] = "new"
    /\ scene = "filters" => now' = 0
    /\ scene = "clock" => restarts' = 0 /\ route'.body # vetoed
    /\ scene = "crowd" =>
           /\ task' # task
           /\ hop' = hop
           /\ UNCHANGED restarts

MCNext == Next /\ Staged /\ UNCHANGED scene

MCSpec == MCInit /\ [][MCNext]_<<vars, scene>> /\ Fairness
===========================================================================
