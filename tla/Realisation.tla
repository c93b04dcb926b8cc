---------------------------- MODULE Realisation ----------------------------
(***************************************************************************)
(* A request for a content-addressed realisation (build_trace,             *)
(* legacy_realisation and realisation of crates/server/src/lib.rs), beside *)
(* the NAR requests of NarHedge: Server is a request of either kind.  All  *)
(* upstreams that publish realisations are asked at once, the first        *)
(* trusted answer is served, then the fallback cache is asked, and a miss  *)
(* is remembered in the negative cache.                                    *)
(*                                                                         *)
(* NarHedge's stage, outcome and fallback are those of the request; a      *)
(* fallback cache with realisations = false is none here.                  *)
(***************************************************************************)
EXTENDS NarHedge

CONSTANTS
    Publishers,   \* upstreams without realisations = false
    Keys,         \* Keys[u]: the public keys of u, [name, key]
    Bodies        \* what .doi files may say: [parses, of, signatures], a
                  \* signature being [name, key, of]

ASSUME PublishersAssumption == Publishers \subseteq Upstreams
ASSUME SourcesAssumption ==
    IsFiniteSet(Upstreams) /\ "fallback" \notin Upstreams

VARIABLES
    request,    \* nar, or realisation
    id,         \* BuildTrace or Legacy, the form of the path
    doi,        \* whether the path names a .doi, and a .drv in the new form
    hop,        \* Client, Peer or PeerOfPeer
    negative,   \* whether the path is in the negative cache
    attempts,   \* the JoinSet
    asked, misses,
    (* history *)
    said        \* said[u]: what u answered; "fallback" is the fallback cache

trace == <<request, id, doi, hop>>
realisationVars == <<trace, negative, attempts, asked, misses, said>>
serverVars == <<vars, realisationVars>>

Sources == Upstreams \cup {"fallback"}

---------------------------------------------------------------------------

ServerInit ==
    /\ Init
    /\ request \in {"nar", "realisation"}
    /\ id \in {"BuildTrace", "Legacy"}
    /\ doi \in BOOLEAN
    /\ hop \in {"Client", "Peer", "PeerOfPeer"}
    /\ negative \in BOOLEAN
    /\ request = "nar" =>
           id = "Legacy" /\ ~doi /\ hop = "Client" /\ ~negative
    /\ request = "realisation" =>
           method = "GET" /\ ~hedging /\ max_inflight = 1
    /\ attempts = {}
    /\ asked = 0
    /\ misses = 0
    /\ said = [u \in Sources |-> "none"]

NarUnchanged == UNCHANGED <<settings, first, candidates, running, eligible,
                            routed, asks, answer>>

\* The handler returns.
Respond(result) ==
    /\ stage' = "done"
    /\ outcome' = result
    /\ attempts' = {}

\* There is no such path, the request has come far enough, or the miss is
\* known.
Refuse ==
    /\ request = "realisation"
    /\ stage = "lookup"
    /\ ~doi \/ hop = "PeerOfPeer" \/ negative
    /\ Respond("NotFound")
    /\ NarUnchanged
    /\ UNCHANGED <<trace, negative, asked, misses, said>>

\* upstream_urls: those that are not Down, or all that are configured.
UpstreamUrls(up) == IF up = {} THEN Upstreams ELSE up

\* One attempt for each upstream that serves_realisations.  A known miss the
\* database fails to tell is none.
Ask(up) ==
    /\ request = "realisation"
    /\ stage = "lookup"
    /\ doi /\ hop # "PeerOfPeer"
    /\ stage' = "hedge"
    /\ attempts' = UpstreamUrls(up) \cap Publishers
    /\ asked' = Cardinality(attempts')
    /\ NarUnchanged
    /\ UNCHANGED <<outcome, trace, negative, misses, said>>

\* What a signature covers: the output that was asked for, or, in the old
\* form, the body's own words.
Fingerprint(body) == IF id = "BuildTrace" THEN "asked" ELSE body.of

\* verify_fingerprint, for a body's signatures.
Verify(body, key) ==
    \E s \in body.signatures : /\ s.name = key.name
                               /\ s.key = key.key
                               /\ s.of = Fingerprint(body)

\* realisation_trusted: without keys everything is.
Trusted(u, body) ==
    \/ Keys[u] = {}
    \/ body.parses /\ \E key \in Keys[u] : Verify(body, key)

\* An answer comes in.  One that is trusted is served at once.
Found(u, body) ==
    /\ stage = "hedge"
    /\ u \in attempts
    /\ said' = [said EXCEPT ![u] = "found"]
    /\ \/ /\ Trusted(u, body)
          /\ Respond("served")
       \/ /\ ~Trusted(u, body)
          /\ attempts' = attempts \ {u}
          /\ UNCHANGED <<stage, outcome>>
    /\ NarUnchanged
    /\ UNCHANGED <<trace, negative, asked, misses>>

Missing(u) ==
    /\ stage = "hedge"
    /\ u \in attempts
    /\ attempts' = attempts \ {u}
    /\ misses' = misses + 1
    /\ said' = [said EXCEPT ![u] = "missing"]
    /\ NarUnchanged
    /\ UNCHANGED <<stage, outcome, trace, negative, asked>>

\* Mutant: an answer that is not there is not there.
CountFailed(u) ==
    /\ stage = "hedge"
    /\ u \in attempts
    /\ attempts' = attempts \ {u}
    /\ misses' = misses + 1
    /\ said' = [said EXCEPT ![u] = "failed"]
    /\ NarUnchanged
    /\ UNCHANGED <<stage, outcome, trace, negative, asked>>

\* An error, a timeout or a panic is no miss.
Failed(u) ==
    /\ stage = "hedge"
    /\ u \in attempts
    /\ attempts' = attempts \ {u}
    /\ said' = [said EXCEPT ![u] = "failed"]
    /\ NarUnchanged
    /\ UNCHANGED <<stage, outcome, trace, negative, asked, misses>>

\* All attempts are over, and so is the one at the fallback cache.
AskFallback ==
    /\ request = "realisation"
    /\ stage = "hedge"
    /\ attempts = {}
    /\ \/ /\ ~fallback
          /\ stage' = "fallback"
          /\ UNCHANGED <<outcome, attempts, asked, misses, said>>
       \/ /\ fallback
          /\ asked' = asked + 1
          /\ \E answered \in {"found", "missing", "failed"} :
                /\ said' = [said EXCEPT !["fallback"] = answered]
                /\ misses' = IF answered = "missing" THEN misses + 1
                             ELSE misses
                /\ \/ answered = "found" /\ Respond("fallback")
                   \/ stage' = "fallback" /\ UNCHANGED <<outcome, attempts>>
    /\ NarUnchanged
    /\ UNCHANGED <<trace, negative>>

\* Only what all have denied, to a client, is remembered.  The write may fail.
Remember ==
    /\ request = "realisation"
    /\ stage = "fallback"
    /\ \/ negative' = (negative \/ (hop = "Client" /\ misses = asked))
       \/ UNCHANGED negative
    /\ Respond("NotFound")
    /\ NarUnchanged
    /\ UNCHANGED <<trace, asked, misses, said>>

Leave ==
    /\ request = "realisation"
    /\ stage # "done"
    /\ Respond("cancelled")
    /\ NarUnchanged
    /\ UNCHANGED <<trace, negative, asked, misses, said>>

Reply ==
    \E u \in Upstreams :
        \/ \E body \in Bodies : Found(u, body)
        \/ Missing(u)
        \/ Failed(u)

Realise ==
    \/ Refuse
    \/ \E up \in SUBSET Upstreams : Ask(up)
    \/ Reply
    \/ AskFallback
    \/ Remember

Nar == request = "nar" /\ UNCHANGED realisationVars

ServerNext ==
    \/ Nar /\ Next
    \/ Realise
    \/ Leave

\* Every attempt has a timeout, as those for a NAR.
ServerFairness ==
    /\ WF_serverVars(Nar /\ Lookup)
    /\ WF_serverVars(Nar /\ Attempt)
    /\ WF_serverVars(Nar /\ Hedge)
    /\ WF_serverVars(Nar /\ GiveUp)
    /\ WF_serverVars(Nar /\ SelectPanics)
    /\ WF_serverVars(Nar /\ Fallback)
    /\ WF_serverVars(Realise)

ServerSpec == ServerInit /\ [][ServerNext]_serverVars /\ ServerFairness

---------------------------------------------------------------------------
(* Properties *)

\* A realisation becomes known as missing, for every request of the next ten
\* minutes, only if each source that was asked for it said that it has none:
\* no timeout, no error and no answer that was not trusted is taken for that,
\* and no request from a peer leaves anything behind.
NegativeJustified ==
    [][negative' # negative =>
           /\ hop = "Client"
           /\ \A u \in Sources : said[u] \in {"none", "missing"}
           /\ Cardinality({u \in Sources : said[u] = "missing"}) = asked]_negative
===========================================================================
