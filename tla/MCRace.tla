------------------------------ MODULE MCRace ------------------------------
(* Race with three upstreams: two of one priority and one behind them.     *)
EXTENDS Race

CONSTANTS near, twin, far,   \* the upstreams
          body               \* the narinfo they may hold

MCUpstreams == {near, twin, far}
MCBodies == {body}
MCPriority == [u \in Upstreams |-> IF u = far THEN 20 ELSE 10]
MCMissingPriority == 2147483647

\* near's filters deny the body and far's keys do not verify it.  Only twin can
\* serve it, in near's group or, without a health entry, in the last one.
MCVerifies == [u \in Upstreams |-> IF u = far THEN {} ELSE MCBodies]
MCAccepts == [u \in Upstreams |-> IF u = near THEN {} ELSE MCBodies]
===========================================================================
