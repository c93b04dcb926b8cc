----------------------------- MODULE MCStartup -----------------------------
(***************************************************************************)
(* Machines for Startup.  One file is started by two processes that crash  *)
(* and fail; every other file, a variation of it, by one that does not.    *)
(***************************************************************************)
EXTENDS Startup

CONSTANTS p, q   \* the processes

Url(scheme, host) ==
    [valid |-> TRUE, scheme |-> scheme, host |-> host, path |-> <<>>,
     query |-> <<>>]

MCDefaultUrl == Url("https", "cache.nixos.org")
MCPasswordFiles == [good |-> <<"p", "w", "\r", "\n">>, missing |-> None]
MCNetrc == [alpha |-> [login |-> "alice", password |-> <<"n">>],
            beta |-> [login |-> "", password |-> <<"n">>],
            default |-> [login |-> "bob", password |-> <<>>]]

---------------------------------------------------------------------------
(* Files *)

Upstream(url) ==
    [url |-> url, public_key |-> "", public_keys |-> <<>>, username |-> "",
     password |-> None, password_file |-> None, filters |-> <<>>,
     location |-> Http]

Rule(action, field, pattern) ==
    [action |-> action, field |-> field, pattern |-> pattern]

Base ==
    [upstreams |-> <<Upstream(Url("https", "alpha"))>>,
     fallback |-> [enabled |-> FALSE,
                   table |-> [Upstream(None) EXCEPT !.public_key = None]],
     listen |-> "localhost",
     settings |-> [s \in Settings |-> 1],
     alpha |-> 30,
     level |-> "directives",
     mesh |-> [enabled |-> TRUE, peers |-> <<"peer">>, key_path |-> "key"],
     discovery |-> [enabled |-> FALSE, service_name |-> "nix",
                    domain |-> "local", discovery_time |-> 1]]

With(upstream) == [Base EXCEPT !.upstreams = <<upstream>>]

CredentialFiles ==
    {With([Upstream(Url(scheme, host)) EXCEPT !.username = name,
                                              !.password = password]) :
        scheme \in {"https", "s3"}, host \in {"alpha", "beta", "gamma"},
        name \in {"", "carol"}, password \in {None, <<"f">>}}

PasswordFileFiles ==
    {With([Upstream(Url("https", "gamma")) EXCEPT !.password_file = path]) :
        path \in {"good", "missing"}}

Patterns == {<<"*">>, <<"a", "*">>, <<"*", "a", "*">>, <<"a", "*", "b", "*">>,
             <<"a">>, <<"a", "-", "b">>}

FilterFiles(patterns) ==
    {With([Upstream(Url("https", "alpha")) EXCEPT !.filters = rules]) :
        rules \in {<<Rule("Allow", "Name", x), Rule(act, field, y)>> :
                       x \in {<<"a", "*">>}, y \in patterns,
                       act \in {"Allow", "Deny"},
                       field \in {"Name", "Reference", "Deriver"}}
                  \cup {<<Rule("Deny", "Name", x)>> : x \in patterns}
                  \cup {<<Rule("Allow", "StorePath",
                               <<"/", "*", "a", "*">>)>>}}

\* A fallback, perhaps with the url of an upstream, next to two upstreams that
\* have rules.
FallbackFiles ==
    {[Base EXCEPT
        !.upstreams = <<[Upstream(Url("https", "alpha")) EXCEPT
                            !.filters = <<Rule("Deny", "Name", <<"b", "*">>)>>],
                        [Upstream(Url("s3", "beta")) EXCEPT
                            !.filters = <<Rule("Allow", "Name", <<"a">>)>>]>>,
        !.fallback = [enabled |-> on, table |->
                          [Upstream(u) EXCEPT !.public_key = k,
                                              !.username = "dave"]]] :
        on \in BOOLEAN,
        u \in {None, Url("https", "gamma"), Url("https", "alpha")},
        k \in {None, "good", "malformed"}}

S3Files ==
    {With(Upstream([Url("s3", host) EXCEPT !.query = pairs])) :
        host \in {None, "bucket"},
        pairs \in {<<<<"scheme", "http">>, <<"region", "eu">>>>,
                   <<<<"scheme", "ftp">>, <<"scheme", "http">>>>,
                   <<<<"addressing-style", "path">>>>,
                   <<<<"addressing-style", "odd">>>>}}

InvalidFiles ==
    {[Base EXCEPT !.settings[s] = 0] : s \in Settings}
    \cup {[Base EXCEPT !.alpha = x] : x \in {0, 100}}
    \cup {[Base EXCEPT !.level = "nonsense"],
          [Base EXCEPT !.listen = "bad"],
          [Base EXCEPT !.upstreams = <<>>],
          [Base EXCEPT !.mesh.peers = <<>>],
          [Base EXCEPT !.mesh.peers = <<"">>],
          [Base EXCEPT !.discovery.enabled = TRUE,
                       !.discovery.discovery_time = 0],
          [Base EXCEPT !.discovery.enabled = TRUE, !.discovery.domain = ""],
          With([Upstream(Url("ftp", "alpha")) EXCEPT !.username = "carol"]),
          With(Upstream([Url("https", "alpha") EXCEPT !.valid = FALSE])),
          With([Upstream(Url("https", "alpha")) EXCEPT !.public_key = "bare"]),
          With([Upstream(Url("https", "alpha")) EXCEPT
                   !.public_keys = <<"good", "malformed">>]),
          With([Upstream(Url("https", "alpha")) EXCEPT
                   !.filters = <<Rule("Deny", "Name", <<>>)>>])}

---------------------------------------------------------------------------
(* Machines *)

Env == [listen |-> "empty", level |-> "", netrc |-> "unset", home |-> "absent",
        activated |-> FALSE]

Setup(f, e) ==
    [file |-> f, env |-> e, commands |-> (p :> "Serve" @@ q :> "Check"),
     keyfile |-> NoKey, schema |-> {}, ipv6 |-> TRUE, foreign |-> {},
     faults |-> 0]

Tables == {"routes", "upstream_health", "negative_cache"}

RivalSetups ==
    {[Setup(Base, Env) EXCEPT !.commands = (p :> "Serve" @@ q :> other),
                              !.keyfile = key,
                              !.schema = tables,
                              !.faults = 2] :
        other \in {"Serve", "GenerateMeshKey"}, key \in {NoKey, Short},
        tables \in {{}, Tables}}
    \cup {[Setup([Base EXCEPT !.mesh.enabled = FALSE, !.listen = listen], Env)
            EXCEPT !.commands = (p :> "Serve" @@ q :> "Serve"),
                   !.schema = Tables,
                   !.faults = 1] : listen \in {"localhost", "any"}}

ListenSetups ==
    {[Setup([Base EXCEPT !.listen = listen, !.mesh.key_path = ""],
            [Env EXCEPT !.activated = on]) EXCEPT
         !.ipv6 = six, !.foreign = others] :
        listen \in {"localhost", "any", "::1", "empty"}, on \in BOOLEAN,
        six \in BOOLEAN, others \in {{}, {"127.0.0.1"}}}
    \cup {[Setup([Base EXCEPT !.listen = listen], Env) EXCEPT
              !.foreign = {"::1"}] : listen \in {"localhost", "any"}}

NetrcEnvs == {[Env EXCEPT !.netrc = n, !.home = h] :
                 n \in {"unset", "good", "broken"},
                 h \in {"absent", "good", "broken"}}

OverrideEnvs == {[Env EXCEPT !.listen = "any", !.level = "directives"],
                 [Env EXCEPT !.listen = "bad"],
                 [Env EXCEPT !.level = "nonsense"]}

MCSetups ==
    RivalSetups \cup ListenSetups
    \cup {Setup(f, e) : f \in CredentialFiles \cup PasswordFileFiles,
                        e \in NetrcEnvs}
    \cup {Setup(f, Env) : f \in FilterFiles(Patterns) \cup FallbackFiles
                                \cup S3Files \cup InvalidFiles}
    \cup {Setup(Base, e) : e \in OverrideEnvs}

\* The pattern of the example in docs/configuration.md.
MCSuffixSetups ==
    {Setup(f, Env) : f \in FilterFiles({<<"*", "-", "b">>})}

MCPasswordSetups ==
    {Setup(With([Upstream(Url("https", "gamma")) EXCEPT
                    !.username = "carol", !.password_file = "good"]), Env)}

MCNarinfos ==
    {[store_path |-> <<"/", "h", "-">> \o name,
      references |-> {<<"h", "-">> \o r : r \in {name, <<"a">>}},
      deriver |-> name \o <<"d">>] :
        name \in {<<"a">>, <<"b">>, <<"a", "-", "b">>, <<"b", "-", "a">>,
                  <<"a", "-", "b", "-", "b">>, <<"c", "a", "b">>}}
===========================================================================
