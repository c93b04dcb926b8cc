------------------------------- MODULE Config -------------------------------
(***************************************************************************)
(* Config::load and Config::validate (crates/config/src/lib.rs): a config  *)
(* file, the environment, password files and a netrc become the settings   *)
(* that serve runs with, or an error that keeps it from starting.          *)
(*                                                                         *)
(* A file is a record of what it says; a url is what Url::parse makes of   *)
(* it; a password is a sequence of characters, for its last newline.  Of a *)
(* key it matters whether it has a colon and whether it parses: it is      *)
(* "good", "malformed" (with a colon) or "bare".                           *)
(***************************************************************************)
EXTENDS Integers, Sequences, SequencesExt

CONSTANTS
    None,
    PasswordFiles,  \* path -> its text, None if it cannot be read
    Netrc,          \* host -> [login, password], of the netrc's entries
    DefaultUrl      \* https://cache.nixos.org

\* The settings that must be positive.
Settings == {"cache_priority", "read_timeout", "write_timeout", "ttl",
             "negative_ttl", "max_entries", "max_concurrent_races",
             "per_upstream_max_inflight", "in_memory_negative_ttl",
             "upstream_cooldown", "hedging_delay", "hedging_max_inflight",
             "gossip_interval"}

---------------------------------------------------------------------------
(* Where an upstream is *)

\* The last pair of a query with the key, as query_pairs hands them out.
Parameter(query, key, default) ==
    LET i == SelectLastInSeq(query, LAMBDA pair : pair[1] = key)
    IN IF i = 0 THEN default ELSE query[i][2]

S3Schemes == {"http", "https"}
S3AddressingStyles == {"auto", "path", "virtual"}

\* parse_s3_url returns an error for a value it does not know, even if a
\* later pair overrules it.
IsS3Url(url) ==
    /\ url.host # None
    /\ \A i \in DOMAIN url.query :
           /\ url.query[i][1] = "scheme" => url.query[i][2] \in S3Schemes
           /\ url.query[i][1] = "addressing-style"
                  => url.query[i][2] \in S3AddressingStyles

ParseS3Url(url) ==
    [kind |-> "S3",
     bucket |-> url.host,
     key_prefix |-> SelectSeq(url.path, LAMBDA part : part # ""),
     endpoint |-> Parameter(url.query, "endpoint", None),
     scheme |-> Parameter(url.query, "scheme", "https"),
     region |-> Parameter(url.query, "region", "us-east-1"),
     profile |-> Parameter(url.query, "profile", None),
     addressing_style |-> Parameter(url.query, "addressing-style", "auto")]

HasLocation(url) ==
    /\ url.valid
    /\ \/ url.scheme \in {"http", "https"}
       \/ url.scheme = "s3" /\ IsS3Url(url)

\* Location::parse, of a url that has one.
Http == [kind |-> "Http"]
Location(url) == IF url.scheme = "s3" THEN ParseS3Url(url) ELSE Http

---------------------------------------------------------------------------
(* Credentials *)

\* read_password_file: one newline at the end goes, with the \r before it.
ReadPasswordFile(path) ==
    LET text == PasswordFiles[path]
    IN IF text = <<>> \/ Last(text) # "\n" THEN text
       ELSE IF Len(text) > 1 /\ Last(Front(text)) = "\r"
            THEN Front(Front(text)) ELSE Front(text)

CanResolvePasswordFile(upstream) ==
    upstream.password_file # None =>
        /\ upstream.password = None
        /\ PasswordFiles[upstream.password_file] # None

\* The file's name stays where it is.
ResolvePasswordFile(upstream) ==
    IF upstream.password_file = None THEN upstream
    ELSE [upstream EXCEPT !.password =
              ReadPasswordFile(upstream.password_file)]

\* load_netrc: NETRC must be good if it is set, ~/.netrc is skipped if it is
\* not.
CanLoadNetrc(env) == env.netrc # "broken"
LoadNetrc(env) ==
    \/ env.netrc = "good"
    \/ env.netrc = "unset" /\ env.home = "good"

\* The entry of the host, or else the default one.
NetrcEntry(url) ==
    IF url.host \in DOMAIN Netrc THEN Netrc[url.host]
    ELSE IF "default" \in DOMAIN Netrc THEN Netrc["default"]
    ELSE [login |-> "", password |-> <<>>]

\* Mutant: a password the file names is kept.
ApplyNetrcLogin(upstream) ==
    LET entry == NetrcEntry(upstream.url)
    IN IF \/ upstream.username # ""
          \/ upstream.location # Http
          \/ ~upstream.url.valid
          \/ upstream.url.host = None
          \/ entry.login = ""
       THEN upstream
       ELSE [upstream EXCEPT
                 !.username = entry.login,
                 !.password = IF @ # None \/ entry.password = <<>> THEN @
                              ELSE entry.password]

\* apply_netrc, for one upstream: the login and the password of the entry
\* replace a missing username and whatever password there is.
ApplyNetrc(upstream) ==
    LET entry == NetrcEntry(upstream.url)
    IN IF \/ upstream.username # ""
          \/ upstream.location # Http
          \/ ~upstream.url.valid
          \/ upstream.url.host = None
          \/ entry.login = ""
       THEN upstream
       ELSE [upstream EXCEPT
                 !.username = entry.login,
                 !.password = IF entry.password = <<>> THEN None
                              ELSE entry.password]

---------------------------------------------------------------------------
(* The file *)

\* ListenAddr::from_str, after deserialize_listen: an empty address leaves
\* the sockets to systemd.
IsListen(raw) == raw # "bad"
ParseListen(raw) == IF raw = "empty" THEN None ELSE raw

\* FallbackCacheConfig::deserialize: without a url it is cache.nixos.org,
\* whose key is filled in unless there is one.
Fallback(table) ==
    IF table.url # None THEN [table EXCEPT !.public_key =
                                  IF @ = None THEN "" ELSE @]
    ELSE [table EXCEPT !.url = DefaultUrl,
                       !.public_key = IF @ = None THEN "good" ELSE @]

Located(upstream) == [upstream EXCEPT !.location = Location(upstream.url)]

CanParse(file) ==
    /\ IsListen(file.listen)
    /\ \A i \in DOMAIN file.upstreams : HasLocation(file.upstreams[i].url)
    /\ file.fallback.enabled => HasLocation(Fallback(file.fallback.table).url)

\* Config::parse.  A disabled fallback keeps the default location.
Parse(file) ==
    [file EXCEPT
        !.listen = ParseListen(@),
        !.upstreams = [i \in DOMAIN @ |-> Located(@[i])],
        !.fallback = [enabled |-> @.enabled,
                      table |-> IF @.enabled THEN Located(Fallback(@.table))
                                ELSE Fallback(@.table)]]

CanLoad(file, env) ==
    /\ CanParse(file)
    /\ IsListen(env.listen)
    /\ \A i \in DOMAIN file.upstreams :
           CanResolvePasswordFile(file.upstreams[i])
    /\ file.fallback.enabled => CanResolvePasswordFile(file.fallback.table)
    /\ CanLoadNetrc(env)

\* Password files are read, then the netrc is applied.
Resolved(upstream, used, env) ==
    LET own == IF used THEN ResolvePasswordFile(upstream) ELSE upstream
    IN IF LoadNetrc(env) THEN ApplyNetrc(own) ELSE own

\* Config::load: the environment overrides the file, then the credentials are
\* filled in, those of the fallback too.
Load(file, env) ==
    LET cfg == Parse(file)
    IN [cfg EXCEPT
           !.listen = IF env.listen = "empty" THEN @
                      ELSE ParseListen(env.listen),
           !.level = IF env.level = "" THEN @ ELSE env.level,
           !.upstreams = [i \in DOMAIN @ |-> Resolved(@[i], TRUE, env)],
           !.fallback.table = Resolved(@, cfg.fallback.enabled, env)]

---------------------------------------------------------------------------
(* Config::validate *)

\* validate_nix_public_key looks for the colon only.
ValidKey(key) == key \in {"good", "malformed"}

ValidateUpstream(upstream) ==
    /\ upstream.url.valid
    /\ upstream.public_key # "" => ValidKey(upstream.public_key)
    /\ \A i \in DOMAIN upstream.public_keys :
           ValidKey(upstream.public_keys[i])
    /\ upstream.password = None \/ upstream.password_file = None
    /\ \A i \in DOMAIN upstream.filters : upstream.filters[i].pattern # <<>>

Validate(cfg) ==
    /\ cfg.upstreams # <<>>
    /\ \A i \in DOMAIN cfg.upstreams : ValidateUpstream(cfg.upstreams[i])
    /\ cfg.fallback.enabled => ValidateUpstream(cfg.fallback.table)
    /\ \A s \in Settings : cfg.settings[s] > 0
    /\ cfg.alpha \in 1..99   \* latency_alpha in percent
    /\ cfg.level = "directives"
    /\ cfg.mesh.enabled => cfg.mesh.peers # <<>>
    /\ \A i \in DOMAIN cfg.mesh.peers : cfg.mesh.peers[i] # ""
    /\ cfg.discovery.enabled =>
           /\ cfg.discovery.service_name # ""
           /\ cfg.discovery.domain # ""
           /\ cfg.discovery.discovery_time > 0
===========================================================================
