------------------------------ MODULE Startup ------------------------------
(***************************************************************************)
(* What ncro does until it is ready (ncro/src/cli.rs): processes on one    *)
(* machine, each running serve, --check or --generate-mesh-key, load and   *)
(* validate the config file, migrate the database, register the upstreams, *)
(* take the mesh identity and bind the listening addresses.  systemd       *)
(* starts a serve that failed or was killed once more.                     *)
(*                                                                         *)
(* A setup is a machine as it may be found: the files, the environment,    *)
(* who else listens, and how many crashes and I/O errors will happen.      *)
(***************************************************************************)
EXTENDS Config, Filters, MeshKey, FiniteSets

CONSTANTS
    Setups,     \* [file, env, commands, keyfile, schema, ipv6, foreign,
                \*  faults]
    Narinfos    \* [store_path, references, deriver]

VARIABLES
    file, env, commands, ipv6, foreign,   \* the machine; it does not change
    faults,     \* crashes and I/O errors to come
    schema,     \* the tables and columns of the database file
    stage,      \* load, migrate, alter, register, mesh, node, bind, bind6,
                \* ready; off, failed, done
    error,      \* the step that a failed process could not do
    cfg,        \* the settings, None before they are loaded
    at,         \* the statement of the migration that comes next
    filters,    \* url -> rules, of the router
    backends,   \* url -> Backend
    sockets     \* the addresses a process listens on

machine == <<file, env, commands, ipv6, foreign>>
local == <<stage, error, cfg, at, filters, backends, sockets>>
vars == <<machine, faults, schema, local, keyVars>>

Columns == {"narinfo_bytes", "upstream_nar_url"}

\* The statements of migrate.
Migration == <<"routes", "upstream_health", "negative_cache",
               "narinfo_bytes", "upstream_nar_url">>

IPv4 == {"127.0.0.1", "0.0.0.0"}

\* A machine without IPv6 has nobody listening on it.
ASSUME SetupsAssumption ==
    \A s \in Setups :
        /\ s.commands \in [Processes -> {"Serve", "Check", "GenerateMeshKey"}]
        /\ s.faults \in Nat
        /\ s.schema \subseteq Range(Migration)
        /\ ~s.ipv6 => s.foreign \subseteq IPv4

IsUpstream(u) ==
    /\ DOMAIN u = {"url", "public_key", "public_keys", "username", "password",
                   "password_file", "filters", "location"}
    /\ \A i \in DOMAIN u.filters : u.filters[i].action \in {"Allow", "Deny"}

\* A file has its fields, and None is no file.
ASSUME FilesAssumption ==
    \A s \in Setups :
        /\ DOMAIN s.file = {"upstreams", "fallback", "listen", "settings",
                            "alpha", "level", "mesh", "discovery"}
        /\ s.file.upstreams \in Seq(Range(s.file.upstreams))
        /\ \A u \in Range(s.file.upstreams) \cup {s.file.fallback.table} :
               IsUpstream(u)
        /\ CanLoad(s.file, s.env) => Load(s.file, s.env) # None

---------------------------------------------------------------------------

Init ==
    /\ \E s \in Setups :
          /\ file = s.file
          /\ env = s.env
          /\ commands = s.commands
          /\ ipv6 = s.ipv6
          /\ foreign = s.foreign
          /\ faults = s.faults
          /\ schema = s.schema
          /\ keyfile = s.keyfile
    /\ KeyInit
    /\ stage = [p \in Processes |-> "off"]
    /\ error = [p \in Processes |-> None]
    /\ cfg = [p \in Processes |-> None]
    /\ at = [p \in Processes |-> 1]
    /\ filters = [p \in Processes |-> <<>>]
    /\ backends = [p \in Processes |-> <<>>]
    /\ sockets = [p \in Processes |-> {}]

\* p goes on to stage s.
Goto(p, s) ==
    /\ stage' = [stage EXCEPT ![p] = s]
    /\ UNCHANGED <<error, cfg, at, filters, backends, sockets, keyVars>>

\* An error is returned from main: the process ends, and what it had with it.
Exit(p, why) ==
    /\ stage' = [stage EXCEPT ![p] = "failed"]
    /\ error' = [error EXCEPT ![p] = why]
    /\ cfg' = [cfg EXCEPT ![p] = None]
    /\ at' = [at EXCEPT ![p] = 1]
    /\ filters' = [filters EXCEPT ![p] = <<>>]
    /\ backends' = [backends EXCEPT ![p] = <<>>]
    /\ sockets' = [sockets EXCEPT ![p] = {}]
    /\ NodeEnds(p)

\* The command line.
Launch(p) ==
    /\ stage[p] \in {"off", "failed"}
    /\ Goto(p, CASE commands[p] = "Serve" -> "load"
                 [] commands[p] = "Check" -> "check"
                 [] commands[p] = "GenerateMeshKey" -> "mesh")
    /\ UNCHANGED <<machine, faults, schema>>

\* Config::check: what the file says, without credentials and overrides.
Check(p) ==
    /\ stage[p] = "check"
    /\ IF CanParse(file) /\ Validate(Parse(file))
       THEN Goto(p, "done") ELSE Exit(p, "check")
    /\ UNCHANGED <<machine, faults, schema>>

LoadConfig(p) ==
    /\ stage[p] = "load"
    /\ IF ~CanLoad(file, env) THEN Exit(p, "load")
       ELSE IF ~Validate(Load(file, env)) THEN Exit(p, "validate")
       ELSE /\ stage' = [stage EXCEPT ![p] = "migrate"]
            /\ cfg' = [cfg EXCEPT ![p] = Load(file, env)]
            /\ UNCHANGED <<error, at, filters, backends, sockets, keyVars>>
    /\ UNCHANGED <<machine, faults, schema>>

---------------------------------------------------------------------------
(* Db::open *)

\* Mutant: the last statement is forgotten.
NextStatementEarly(p) ==
    /\ at' = [at EXCEPT ![p] = @ + 1]
    /\ stage' = [stage EXCEPT ![p] = IF at[p] + 1 = Len(Migration)
                                     THEN "register" ELSE "migrate"]
    /\ UNCHANGED <<error, cfg, filters, backends, sockets, keyVars>>

\* The statement is done with: on to the next, or out of Db::open.
NextStatement(p) ==
    /\ at' = [at EXCEPT ![p] = @ + 1]
    /\ stage' = [stage EXCEPT ![p] = IF at[p] = Len(Migration)
                                     THEN "register" ELSE "migrate"]
    /\ UNCHANGED <<error, cfg, filters, backends, sockets, keyVars>>

CreateTable(p) ==
    /\ stage[p] = "migrate"
    /\ Migration[at[p]] \notin Columns
    /\ schema' = schema \cup {Migration[at[p]]}
    /\ NextStatement(p)
    /\ UNCHANGED <<machine, faults>>

\* Mutant: the column is added whether it is there or not.
CheckNothing(p) ==
    /\ stage[p] = "migrate"
    /\ Migration[at[p]] \in Columns
    /\ Goto(p, "alter")
    /\ UNCHANGED <<machine, faults, schema>>

\* add_column_if_missing asks for the columns first.
CheckColumn(p) ==
    /\ stage[p] = "migrate"
    /\ Migration[at[p]] \in Columns
    /\ IF Migration[at[p]] \in schema THEN NextStatement(p)
       ELSE Goto(p, "alter")
    /\ UNCHANGED <<machine, faults, schema>>

\* ALTER TABLE fails if another process has added it by now.
AddColumn(p) ==
    /\ stage[p] = "alter"
    /\ IF Migration[at[p]] \in schema
       THEN Exit(p, "migrate") /\ UNCHANGED schema
       ELSE NextStatement(p) /\ schema' = schema \cup {Migration[at[p]]}
    /\ UNCHANGED <<machine, faults>>

---------------------------------------------------------------------------
(* Upstreams::register and Router::register_upstream *)

\* In the order serve registers them.
Registered(c) ==
    c.upstreams \o (IF c.fallback.enabled THEN <<c.fallback.table>>
                    ELSE <<>>)

\* The last one with the url is what the tables hold.
ByUrl(seq) ==
    [url \in {seq[i].url : i \in DOMAIN seq} |->
        seq[SelectLastInSeq(seq, LAMBDA u : u.url = url)]]

Backend(upstream) ==
    IF upstream.location = Http
    THEN [kind |-> "Http", username |-> upstream.username,
          password |-> upstream.password]
    ELSE [kind |-> "S3", username |-> "", password |-> None]

\* register_upstream_keys parses every key.
KeysParse(upstream) ==
    /\ upstream.public_key \in {"", "good"}
    /\ \A i \in DOMAIN upstream.public_keys :
           upstream.public_keys[i] = "good"

Register(p) ==
    /\ stage[p] = "register"
    /\ LET seq == Registered(cfg[p])
       IN IF \E i \in DOMAIN seq : ~KeysParse(seq[i]) THEN Exit(p, "register")
          ELSE /\ filters' = [filters EXCEPT ![p] =
                      [url \in DOMAIN ByUrl(seq) |-> ByUrl(seq)[url].filters]]
               /\ backends' = [backends EXCEPT ![p] =
                      [url \in DOMAIN ByUrl(seq) |->
                          Backend(ByUrl(seq)[url])]]
               /\ stage' = [stage EXCEPT ![p] =
                      IF cfg[p].mesh.enabled THEN "mesh" ELSE "bind"]
               /\ UNCHANGED <<error, cfg, at, sockets, keyVars>>
    /\ UNCHANGED <<machine, faults, schema>>

---------------------------------------------------------------------------
(* The mesh node *)

StartNode(p) ==
    /\ stage[p] = "mesh"
    /\ IF commands[p] = "Serve" /\ cfg[p].mesh.key_path = ""
       THEN Ephemeral(p) ELSE NodeNew(p)
    /\ stage' = [stage EXCEPT ![p] = "node"]
    /\ UNCHANGED <<machine, faults, schema, error, cfg, at, filters, backends,
                   sockets>>

Node(p) ==
    /\ stage[p] = "node"
    /\ NodeStep(p)
    /\ UNCHANGED <<machine, faults, schema, local>>

\* The UDP address of the config file is taken.
MeshInUse(p) ==
    \E q \in Processes \ {p} :
        stage[q] \in {"bind", "bind6", "ready"} /\ cfg[q].mesh.enabled

\* Node::new returns; --generate-mesh-key is done, serve starts to listen to
\* its peers.
NodeUp(p) ==
    /\ stage[p] = "node"
    /\ step[p] = "up"
    /\ IF commands[p] # "Serve" THEN Goto(p, "done")
       ELSE IF MeshInUse(p) THEN Exit(p, "mesh")
       ELSE Goto(p, "bind")
    /\ UNCHANGED <<machine, faults, schema>>

NodeFailed(p) ==
    /\ stage[p] = "node"
    /\ step[p] = "failed"
    /\ Exit(p, "mesh")
    /\ UNCHANGED <<machine, faults, schema>>

---------------------------------------------------------------------------
(* bind_listeners *)

\* Linux refuses an address that overlaps one somebody listens on; [::] takes
\* IPv4 too.
Overlap(a, b) ==
    \/ a = b
    \/ "::" \in {a, b}
    \/ a \in IPv4 /\ b \in IPv4 /\ "0.0.0.0" \in {a, b}

InUse(p, a) ==
    \E b \in UNION ({sockets[q] : q \in Processes \ {p}} \cup {foreign}) :
        Overlap(a, b)

\* Sockets from systemd come first; with neither there is nothing to do.
Adopt(p) ==
    /\ stage[p] = "bind"
    /\ \/ env.activated /\ Goto(p, "ready")
       \/ ~env.activated /\ cfg[p].listen = None /\ Exit(p, "bind")
    /\ UNCHANGED <<machine, faults, schema>>

\* The first address of the setting.  Without IPv6, [::] becomes 0.0.0.0 and
\* ::1 is refused.
FirstAddress(listen) ==
    CASE listen = "localhost" -> "127.0.0.1"
      [] listen = "any" -> IF ipv6 THEN "::" ELSE "0.0.0.0"
      [] OTHER -> listen

Bind(p) ==
    LET a == FirstAddress(cfg[p].listen)
    IN /\ stage[p] = "bind"
       /\ ~env.activated /\ cfg[p].listen # None
       /\ IF InUse(p, a) \/ (a \notin IPv4 /\ ~ipv6) THEN Exit(p, "bind")
          ELSE /\ stage' = [stage EXCEPT ![p] =
                      IF cfg[p].listen = "localhost" THEN "bind6"
                      ELSE "ready"]
               /\ sockets' = [sockets EXCEPT ![p] = {a}]
               /\ UNCHANGED <<error, cfg, at, filters, backends, keyVars>>
       /\ UNCHANGED <<machine, faults, schema>>

\* Mutant: any error of the second bind is a warning.
BindLoopbackLax(p) ==
    /\ stage[p] = "bind6"
    /\ IF ~ipv6 \/ InUse(p, "::1") THEN Goto(p, "ready")
       ELSE /\ stage' = [stage EXCEPT ![p] = "ready"]
            /\ sockets' = [sockets EXCEPT ![p] = @ \cup {"::1"}]
            /\ UNCHANGED <<error, cfg, at, filters, backends, keyVars>>
    /\ UNCHANGED <<machine, faults, schema>>

\* localhost: ::1 as well, unless the machine has no IPv6.  An address in use
\* is an error.
BindLoopback(p) ==
    /\ stage[p] = "bind6"
    /\ IF ~ipv6 THEN Goto(p, "ready")
       ELSE IF InUse(p, "::1") THEN Exit(p, "bind")
       ELSE /\ stage' = [stage EXCEPT ![p] = "ready"]
            /\ sockets' = [sockets EXCEPT ![p] = @ \cup {"::1"}]
            /\ UNCHANGED <<error, cfg, at, filters, backends, keyVars>>
    /\ UNCHANGED <<machine, faults, schema>>

---------------------------------------------------------------------------

Running == {"load", "check", "migrate", "alter", "register", "mesh", "node",
            "bind", "bind6", "ready"}

\* The process is killed, or a statement, a bind or the start of a daemon
\* fails.
Dies(p) ==
    /\ stage[p] \in Running
    /\ faults > 0
    /\ faults' = faults - 1
    /\ Exit(p, "killed")
    /\ UNCHANGED <<machine, schema>>

KeyDiskFails(p) ==
    /\ stage[p] = "node"
    /\ faults > 0
    /\ faults' = faults - 1
    /\ DiskFails(p)
    /\ UNCHANGED <<machine, schema, local>>

Step(p) ==
    \/ Check(p)
    \/ LoadConfig(p)
    \/ CreateTable(p)
    \/ CheckColumn(p)
    \/ AddColumn(p)
    \/ Register(p)
    \/ StartNode(p)
    \/ Node(p)
    \/ NodeUp(p)
    \/ NodeFailed(p)
    \/ Adopt(p)
    \/ Bind(p)
    \/ BindLoopback(p)

Next ==
    \E p \in Processes : Launch(p) \/ Step(p) \/ Dies(p) \/ KeyDiskFails(p)

\* The unit of a serve has Restart=on-failure (nix/module.nix).
Fairness ==
    \A p \in Processes :
        /\ WF_vars(Step(p))
        /\ WF_vars(commands[p] = "Serve" /\ Launch(p))

Spec == Init /\ [][Next]_vars /\ Fairness

---------------------------------------------------------------------------
(* Properties *)

Ready == {p \in Processes : stage[p] = "ready"}

\* Types, and that only a process that is ready, or about to be, listens.
TypeOK ==
    /\ KeyTypeOK
    /\ faults \in Nat
    /\ schema \subseteq Range(Migration)
    /\ stage \in [Processes -> Running \cup {"off", "failed", "done"}]
    /\ at \in [Processes -> 1..(Len(Migration) + 1)]
    /\ \A p \in Processes :
           /\ cfg[p] = None => stage[p] \notin {"migrate", "alter", "register",
                                                "bind", "bind6", "ready"}
           /\ sockets[p] # {} => stage[p] \in {"bind6", "ready"}
           /\ stage[p] = "ready" => Range(Migration) \subseteq schema

\* What the config file says of upstreams, the fallback cache included.
Written ==
    Range(file.upstreams)
        \cup (IF file.fallback.enabled THEN {Fallback(file.fallback.table)}
              ELSE {})

\* No other entry of the file has the url.  If there is one, the rules of the
\* last that is registered hold for both.
UrlOfItsOwn(own) == \A other \in Written : other.url = own.url => other = own

\* When ncro is ready, every upstream of the config file with a url of its own
\* has its filters, and they let through just what its rules mean.
FiltersAsWritten ==
    \A p \in Ready : \A own \in Range(file.upstreams) :
        UrlOfItsOwn(own) =>
            /\ own.url \in DOMAIN filters[p]
            /\ \A n \in Narinfos : AllowsNarinfo(filters[p][own.url], n)
                                    <=> Wanted(own.filters, n)

\* The username and the password that ncro sends to a url belong together:
\* both come from an entry of the config file for it and its password file,
\* or both from one entry of the netrc.  Nothing is sent to S3.
CredentialsPaired ==
    \A p \in Ready : \A url \in DOMAIN backends[p] : \E own \in Written :
        LET sent == backends[p][url]
        IN /\ own.url = url
           /\ \/ sent.username = ""
              \/ /\ sent.kind = "Http"
                 /\ sent.username = own.username
                 /\ sent.password = IF own.password_file = None
                                    THEN own.password
                                    ELSE ReadPasswordFile(own.password_file)
              \/ /\ sent.kind = "Http"
                 /\ own.username = ""
                 /\ \E host \in {url.host, "default"} \cap DOMAIN Netrc :
                        /\ sent.username = Netrc[host].login
                        /\ sent.password = IF Netrc[host].password = <<>>
                                           THEN None
                                           ELSE Netrc[host].password

\* What a client finds under the listen setting is this process: nobody else
\* has an address the setting stands for when ncro says it is ready.
WhollyBound ==
    \A p \in Ready :
        LET listen == IF env.listen = "empty" THEN file.listen ELSE env.listen
            names == CASE listen = "localhost" -> {"127.0.0.1", "::1"}
                       [] listen = "any" -> {"127.0.0.1", "0.0.0.0", "::1"}
                       [] OTHER -> {listen}
        IN ~env.activated => \A a \in names : ~InUse(p, a)

\* The config is one that serve can run with on this machine.
Startable ==
    /\ CanLoad(file, env)
    /\ Validate(Load(file, env))
    /\ \A i \in DOMAIN Registered(Load(file, env)) :
           KeysParse(Registered(Load(file, env))[i])
    /\ file.mesh.enabled /\ file.mesh.key_path # "" => keyfile # Short
    /\ \/ env.activated
       \/ /\ foreign = {}
          /\ Load(file, env).listen \notin {None} \cup IF ipv6 THEN {} ELSE {"::1"}

\* No crash, I/O error or rival start leaves anything behind, half a key or
\* half a migration, that keeps serve from getting ready ever after.
StartsAgain ==
    Startable /\ (\E p \in Processes : commands[p] = "Serve")
        => <>[](Ready # {})

---------------------------------------------------------------------------
(* What the documentation says, contradicted by the code *)

\* docs/configuration.md: password_file is the "File containing the HTTP Basic
\* Auth password"; the loaded config is refused only if what the file says, or
\* an override, is wrong.
PasswordFileUsable ==
    \A p \in Processes :
        error[p] = "validate" /\ env.level = "" => ~Validate(Parse(file))
===========================================================================
