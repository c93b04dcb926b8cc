---------------------------- MODULE MCNarHedge ----------------------------
(* Four upstreams in two priority groups; one of each takes no hedges, and *)
(* one of them has no realisations.                                        *)
EXTENDS Realisation

CONSTANTS a, b, c, d

MCUpstreams == {a, b, c, d}
MCPriority == [u \in Upstreams |-> IF u \in {a, b} THEN 10 ELSE 20]
MCOptOut == {b, d}
MCPublishers == {a, b, c}

\* a and b have a key each, of one name.
Key(u) == [name |-> "cache", key |-> u]
MCKeys == [u \in Upstreams |-> IF u \in {a, b} THEN {Key(u)} ELSE {}]

\* Signed by a for what was asked, by a for something else, or damaged.
Signature(output) == [name |-> "cache", key |-> a, of |-> output]
MCBodies ==
    {[parses |-> TRUE, of |-> output, signatures |-> {Signature(output)}] :
        output \in {"asked", "other"}}
    \cup {[parses |-> FALSE, of |-> "asked", signatures |-> {}]}
===========================================================================
