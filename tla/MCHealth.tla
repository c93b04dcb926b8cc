----------------------------- MODULE MCHealth -----------------------------
(* One upstream, which the configuration may name or discovery add.        *)
(* Thresholds and backoffs are scaled down.  A behaviour is in one of two  *)
(* scenes, which keeps the product of the cases small: two recorders whose *)
(* answers and snapshots overtake each other, on a configured upstream,    *)
(* with room for one row in the channel and no orderly shutdown; or one    *)
(* recorder, whose rows pile up in the channel.                            *)
EXTENDS Health

CONSTANTS cache,    \* the upstream
          s1, s2    \* its recorders

VARIABLE scene

Scene ==
    CASE scene = "overtaking" -> /\ \A u \in Urls : Len(queue'[u]) <= 1
                                 /\ Serving' => configured' = Urls
                                 /\ worker' # "last"
      [] scene = "piling" -> \A u \in Urls : job'[u][s2] = Idle

MCInit == Init /\ scene \in {"overtaking", "piling"}

MCNext == Next /\ Scene /\ UNCHANGED scene

\* The fairness of Spec leaves no behaviour out: what a scene holds back is
\* enabled only until the worker or the other recorder takes its step.
MCSpec == MCInit /\ [][MCNext]_<<vars, scene>> /\ Fairness
===========================================================================
