--------------------------- MODULE StartupProofs ---------------------------
(***************************************************************************)
(* Proofs about MeshKey, for any number of processes, and about Startup,   *)
(* which implements it with its restarts, crashes and failures, on any     *)
(* machines: the key, the migration, the addresses, and what becomes of    *)
(* the entries of the config file.                                         *)
(***************************************************************************)
EXTENDS Startup, WellFoundedInduction, TLAPS

\* What the steps of write_new_key rely on: only a file that is written in
\* full is linked, and a process that linked its file owns the key's path.
KeyInv ==
    /\ KeyTypeOK
    /\ KeyShared
    /\ \A p \in Processes :
           /\ step[p] \in {"create", "write", "link", "cleanup"}
                  => seed[p] \in Seeds
           /\ step[p] = "link" => temp[p] = "full"
           /\ step[p] = "cleanup" /\ linked[p] => seed[p] = keyfile

LEMMA KeyInitInv == KeyInit => KeyInv
  BY NoKeyAssumption DEF KeyInit, KeyInv, KeyTypeOK, KeyShared, Seeds, Short

LEMMA KeyStepInv == KeyInv /\ [KeyNext]_keyVars => KeyInv'
<1> SUFFICES ASSUME KeyInv, [KeyNext]_keyVars
             PROVE  KeyInv'
  OBVIOUS
<1> USE NoKeyAssumption DEF KeyInv, KeyTypeOK, KeyShared, Seeds, Short
<1>1. ASSUME NEW p \in Processes, NodeNew(p)
      PROVE  KeyInv'
  BY <1>1 DEF NodeNew
<1>2. ASSUME NEW p \in Processes, Ephemeral(p)
      PROVE  KeyInv'
  BY <1>2 DEF Ephemeral
<1>3. ASSUME NEW p \in Processes, NodeStep(p)
      PROVE  KeyInv'
  <2>1. CASE ReadKey(p)
    BY <2>1 DEF ReadKey
  <2>2. CASE ReadShort(p)
    BY <2>2 DEF ReadShort
  <2>3. CASE ReadNothing(p)
    BY <2>3 DEF ReadNothing
  <2>4. CASE CreateTemp(p)
    BY <2>4 DEF CreateTemp
  <2>5. CASE WriteTemp(p)
    BY <2>5 DEF WriteTemp
  <2>6. CASE Link(p)
    <3>1. CASE keyfile = NoKey
      <4>1. announced = {}
        BY <3>1
      <4>2. keyfile' = seed[p] /\ keyfile' \in Seeds
        BY <2>6, <3>1 DEF Link
      <4> QED
        BY <2>6, <3>1, <4>1, <4>2 DEF Link
    <3>2. CASE keyfile # NoKey
      BY <2>6, <3>2 DEF Link
    <3> QED
      BY <3>1, <3>2
  <2>7. CASE Cleanup(p)
    <3>1. CASE linked[p]
      BY <2>7, <3>1 DEF Cleanup
    <3>2. CASE ~linked[p]
      BY <2>7, <3>2 DEF Cleanup
    <3> QED
      BY <3>1, <3>2
  <2> QED
    BY <1>3, <2>1, <2>2, <2>3, <2>4, <2>5, <2>6, <2>7 DEF NodeStep
<1>4. ASSUME NEW p \in Processes, DiskFails(p)
      PROVE  KeyInv'
  BY <1>4 DEF DiskFails
<1>5. ASSUME NEW p \in Processes, NodeEnds(p)
      PROVE  KeyInv'
  BY <1>5 DEF NodeEnds
<1>6. CASE UNCHANGED keyVars
  BY <1>6 DEF keyVars
<1> QED
  BY <1>1, <1>2, <1>3, <1>4, <1>5, <1>6 DEF KeyNext

\* However many processes read or create the key at once, and wherever they
\* fail or end, all of them have the identity that is in the file.
THEOREM KeySharedTheorem == KeySpec => []KeyShared
<1>1. KeyInit => KeyInv
  BY KeyInitInv
<1>2. KeyInv /\ [KeyNext]_keyVars => KeyInv'
  BY KeyStepInv
<1>3. KeyInv => KeyShared
  BY DEF KeyInv
<1> QED
  BY <1>1, <1>2, <1>3, PTL DEF KeySpec

---------------------------------------------------------------------------
(* Startup implements MeshKey *)

LEMMA ExitEndsNode ==
    ASSUME NEW p \in Processes, NEW why, Exit(p, why)
    PROVE  KeyNext
  BY DEF Exit, KeyNext

LEMMA GotoKeepsKey ==
    ASSUME NEW p \in Processes, NEW s, Goto(p, s)
    PROVE  UNCHANGED keyVars
  BY DEF Goto

LEMMA StatementKeepsKey ==
    ASSUME NEW p \in Processes, NextStatement(p)
    PROVE  UNCHANGED keyVars
  BY DEF NextStatement

\* Every step of Startup is a step of MeshKey or leaves its state alone.
LEMMA StepsImplementKey == [Next]_vars => [KeyNext]_keyVars
<1> SUFFICES ASSUME [Next]_vars
             PROVE  KeyNext \/ UNCHANGED keyVars
  BY DEF keyVars
<1> USE ExitEndsNode, GotoKeepsKey
<1>1. ASSUME NEW p \in Processes, Launch(p)
      PROVE  KeyNext \/ UNCHANGED keyVars
  BY <1>1 DEF Launch
<1>2. ASSUME NEW p \in Processes, Step(p)
      PROVE  KeyNext \/ UNCHANGED keyVars
  <2>1. CASE Check(p)
    BY <2>1 DEF Check
  <2>2. CASE LoadConfig(p)
    BY <2>2 DEF LoadConfig
  <2>3. CASE CreateTable(p)
    BY <2>3, StatementKeepsKey DEF CreateTable
  <2>4. CASE CheckColumn(p)
    BY <2>4, StatementKeepsKey DEF CheckColumn
  <2>5. CASE AddColumn(p)
    BY <2>5, StatementKeepsKey DEF AddColumn
  <2>6. CASE Register(p)
    BY <2>6 DEF Register
  <2>7. CASE StartNode(p)
    BY <2>7 DEF StartNode, KeyNext
  <2>8. CASE Node(p)
    BY <2>8 DEF Node, KeyNext
  <2>9. CASE NodeUp(p)
    BY <2>9 DEF NodeUp
  <2>10. CASE NodeFailed(p)
    BY <2>10 DEF NodeFailed
  <2>11. CASE Adopt(p)
    BY <2>11 DEF Adopt
  <2>12. CASE Bind(p)
    BY <2>12 DEF Bind
  <2>13. CASE BindLoopback(p)
    BY <2>13 DEF BindLoopback
  <2> QED
    BY <1>2, <2>1, <2>2, <2>3, <2>4, <2>5, <2>6, <2>7, <2>8, <2>9, <2>10,
       <2>11, <2>12, <2>13 DEF Step
<1>3. ASSUME NEW p \in Processes, Dies(p)
      PROVE  KeyNext \/ UNCHANGED keyVars
  BY <1>3 DEF Dies
<1>4. ASSUME NEW p \in Processes, KeyDiskFails(p)
      PROVE  KeyNext \/ UNCHANGED keyVars
  BY <1>4 DEF KeyDiskFails, KeyNext
<1>5. CASE UNCHANGED vars
  BY <1>5 DEF vars
<1> QED
  BY <1>1, <1>2, <1>3, <1>4, <1>5 DEF Next

\* However serve, --check and --generate-mesh-key interleave, crash and are
\* started again, what they do to the key file is what MeshKey allows.
THEOREM StartupImplementsMeshKey == Spec => KeySpec
<1>1. Init => KeyInit
  BY DEF Init
<1>2. [Next]_vars => [KeyNext]_keyVars
  BY StepsImplementKey
<1> QED
  BY <1>1, <1>2, PTL DEF Spec, KeySpec

\* So every identity a node ever had is the one in the file.
THEOREM StartupKeyShared == Spec => []KeyShared
  BY StartupImplementsMeshKey, KeySharedTheorem, PTL

---------------------------------------------------------------------------
(* How far each process has come *)

\* What the router and the upstreams hold once c is registered.
Rules(c) ==
    [url \in DOMAIN ByUrl(Registered(c)) |-> ByUrl(Registered(c))[url].filters]
Backends(c) ==
    [url \in DOMAIN ByUrl(Registered(c)) |-> Backend(ByUrl(Registered(c))[url])]

\* The machine is one of the setups; nothing changes it.
MachineInv ==
    \E s \in Setups :
        /\ file = s.file /\ env = s.env /\ commands = s.commands
        /\ ipv6 = s.ipv6 /\ foreign = s.foreign

Shapes ==
    /\ faults \in Nat
    /\ schema \subseteq Range(Migration)
    /\ stage = [p \in Processes |-> stage[p]] /\ DOMAIN stage = Processes
    /\ at = [p \in Processes |-> at[p]] /\ DOMAIN at = Processes
    /\ DOMAIN cfg = Processes
    /\ DOMAIN filters = Processes /\ DOMAIN backends = Processes
    /\ DOMAIN sockets = Processes

\* p is past Db::open.
Opened(p) ==
    \/ stage[p] \in {"register", "bind", "bind6", "ready"}
    \/ stage[p] \in {"mesh", "node"} /\ commands[p] = "Serve"

\* Every statement before the one that comes next has had its effect, and
\* what p has loaded and registered is still what the machine says.
ProcInv(p) ==
    /\ stage[p] \in Running \cup {"off", "failed", "done"}
    /\ at[p] \in 1..6
    /\ \A i \in 1..5 : i < at[p] => Migration[i] \in schema
    /\ stage[p] \in {"off", "failed", "load", "check"} => at[p] = 1
    /\ stage[p] \in {"migrate", "alter"} => at[p] \in 1..5
    /\ Opened(p) => at[p] = 6
    /\ Opened(p) \/ stage[p] \in {"migrate", "alter"} =>
           cfg[p] # None /\ cfg[p] = Load(file, env)
    /\ Opened(p) /\ stage[p] # "register" =>
           filters[p] = Rules(cfg[p]) /\ backends[p] = Backends(cfg[p])

StartInv ==
    /\ MachineInv
    /\ Shapes
    /\ \A p \in Processes : ProcInv(p)

LEMMA MigrationShape ==
    /\ Len(Migration) = 5
    /\ \A i \in 1..5 : Migration[i] \in Range(Migration)
    /\ \A x \in Range(Migration) : \E i \in 1..5 : x = Migration[i]
<1>1. Len(Migration) = 5 /\ DOMAIN Migration = 1..5
  BY DEF Migration
<1> QED
  BY <1>1 DEF Range

LEMMA StartInit == Init => StartInv
<1> SUFFICES ASSUME Init PROVE StartInv
  OBVIOUS
<1>1. MachineInv
  BY DEF Init, MachineInv
<1>2. Shapes
  BY SetupsAssumption DEF Init, Shapes
<1>3. ASSUME NEW p \in Processes
      PROVE  ProcInv(p)
  <2>1. stage[p] = "off" /\ at[p] = 1
    BY DEF Init
  <2> QED
    BY <2>1 DEF ProcInv, Opened
<1> QED
  BY <1>1, <1>2, <1>3 DEF StartInv

\* What a step of p leaves alone.
Moves(p) ==
    /\ UNCHANGED machine
    /\ schema \subseteq schema'
    /\ Shapes'
    /\ \A q \in Processes \ {p} :
           /\ stage'[q] = stage[q] /\ at'[q] = at[q] /\ cfg'[q] = cfg[q]
           /\ filters'[q] = filters[q] /\ backends'[q] = backends[q]
           /\ sockets'[q] = sockets[q]

\* A step of p that is right about p is right about everybody.
LEMMA MovesKeeps ==
    ASSUME StartInv, NEW p \in Processes, Moves(p), ProcInv(p)'
    PROVE  StartInv'
<1>1. MachineInv'
  BY DEF StartInv, MachineInv, Moves, machine
<1>2. ASSUME NEW q \in Processes \ {p}
      PROVE  ProcInv(q)'
  <2>1. ProcInv(q)
    BY DEF StartInv
  <2>2. /\ stage'[q] = stage[q] /\ at'[q] = at[q] /\ cfg'[q] = cfg[q]
        /\ filters'[q] = filters[q] /\ backends'[q] = backends[q]
        /\ schema \subseteq schema' /\ file' = file /\ env' = env
        /\ commands' = commands
    BY DEF Moves, machine
  <2>3. Opened(q)' = Opened(q)
    BY <2>2 DEF Opened
  <2> QED
    BY <2>1, <2>2, <2>3 DEF ProcInv
<1> QED
  BY <1>1, <1>2 DEF StartInv, Moves

LEMMA GotoMoves ==
    ASSUME StartInv, NEW p \in Processes, NEW s, Goto(p, s),
           UNCHANGED <<machine, faults, schema>>
    PROVE  /\ Moves(p)
           /\ stage'[p] = s /\ at'[p] = at[p] /\ cfg'[p] = cfg[p]
           /\ filters'[p] = filters[p] /\ backends'[p] = backends[p]
           /\ sockets'[p] = sockets[p]
  BY DEF Goto, StartInv, Shapes, Moves

LEMMA ExitMoves ==
    ASSUME StartInv, NEW p \in Processes, NEW why, Exit(p, why),
           UNCHANGED <<machine, schema>>, faults' \in Nat
    PROVE  /\ Moves(p) /\ ProcInv(p)'
           /\ stage'[p] = "failed" /\ sockets'[p] = {}
<1>1. Moves(p) /\ stage'[p] = "failed" /\ at'[p] = 1 /\ sockets'[p] = {}
  BY DEF Exit, StartInv, Shapes, Moves
<1> QED
  BY <1>1 DEF ProcInv, Opened

LEMMA StatementMoves ==
    ASSUME StartInv, NEW p \in Processes, NextStatement(p),
           stage[p] \in {"migrate", "alter"},
           Migration[at[p]] \in schema', schema \subseteq schema',
           schema' \subseteq Range(Migration), UNCHANGED <<machine, faults>>
    PROVE  Moves(p) /\ ProcInv(p)' /\ stage'[p] \in {"migrate", "register"}
                    /\ sockets'[p] = sockets[p]
<1>1. ProcInv(p) /\ Shapes
  BY DEF StartInv
<1>2. /\ Moves(p)
      /\ at'[p] = at[p] + 1 /\ cfg'[p] = cfg[p] /\ sockets'[p] = sockets[p]
      /\ stage'[p] = IF at[p] = 5 THEN "register" ELSE "migrate"
  BY MigrationShape DEF NextStatement, StartInv, Shapes, Moves
<1>3. at[p] \in 1..5 /\ cfg[p] # None /\ cfg[p] = Load(file, env)
  BY <1>1 DEF ProcInv
<1>4. file' = file /\ env' = env
  BY DEF machine
<1>5. \A i \in 1..5 : i < at'[p] => Migration[i] \in schema'
  <2> SUFFICES ASSUME NEW i \in 1..5, i < at'[p]
               PROVE  Migration[i] \in schema'
    OBVIOUS
  <2>1. CASE i = at[p]
    BY <2>1
  <2>2. CASE i < at[p]
    BY <1>1, <2>2 DEF ProcInv
  <2> QED
    BY <1>2, <1>3, <2>1, <2>2
<1>6. /\ at'[p] \in 1..6
      /\ stage'[p] \in {"migrate", "register"}
      /\ stage'[p] = "migrate" => at'[p] \in 1..5
      /\ stage'[p] = "register" => at'[p] = 6
  BY <1>2, <1>3
<1>7. cfg'[p] # None /\ cfg'[p] = Load(file', env')
  BY <1>2, <1>3, <1>4
<1> QED
  BY <1>2, <1>5, <1>6, <1>7 DEF ProcInv, Opened, Running

\* The commands a process may have been given, and what Load makes of a file.
LEMMA Machine ==
    ASSUME MachineInv
    PROVE  /\ \A p \in Processes :
                  commands[p] \in {"Serve", "Check", "GenerateMeshKey"}
           /\ CanLoad(file, env) => Load(file, env) # None
           /\ ~ipv6 => foreign \subseteq IPv4
  BY SetupsAssumption, FilesAssumption DEF MachineInv

LEMMA StepMoves ==
    ASSUME StartInv, NEW p \in Processes,
           Launch(p) \/ Step(p) \/ Dies(p) \/ KeyDiskFails(p)
    PROVE  Moves(p) /\ ProcInv(p)'
<1>0. ProcInv(p) /\ Shapes /\ MachineInv
  BY DEF StartInv
<1>1. ASSUME NEW s, Goto(p, s), UNCHANGED <<machine, faults, schema>>,
             s \in Running \cup {"done"},
             s = "check" \/ s = "load" => at[p] = 1,
             s \in {"mesh", "bind", "bind6", "ready"} =>
                 \/ Opened(p) /\ stage[p] # "register"
                 \/ s = "mesh" /\ commands[p] # "Serve",
             s = "alter" => stage[p] = "migrate",
             s \notin {"migrate", "register", "node"}
      PROVE  Moves(p) /\ ProcInv(p)'
  <2>1. /\ Moves(p)
        /\ stage'[p] = s /\ at'[p] = at[p] /\ cfg'[p] = cfg[p]
        /\ filters'[p] = filters[p] /\ backends'[p] = backends[p]
    BY <1>1, GotoMoves
  <2>2. file' = file /\ env' = env /\ commands' = commands /\ schema' = schema
    BY <1>1 DEF machine
  <2>3. CASE s \in {"check", "load", "done"}
    BY <1>0, <1>1, <2>1, <2>2, <2>3 DEF ProcInv, Opened
  <2>4. CASE s = "alter"
    BY <1>0, <1>1, <2>1, <2>2, <2>4 DEF ProcInv, Opened
  <2>5. CASE s \in {"mesh", "bind", "bind6", "ready"}
    BY <1>0, <1>1, <2>1, <2>2, <2>5 DEF ProcInv, Opened
  <2> QED
    BY <1>1, <2>1, <2>3, <2>4, <2>5 DEF Running
<1>2. ASSUME NEW why, Exit(p, why), UNCHANGED <<machine, faults, schema>>
      PROVE  Moves(p) /\ ProcInv(p)'
  BY <1>0, <1>2, ExitMoves DEF Shapes
<1>3. CASE Launch(p)
  <2>1. at[p] = 1
    BY <1>0, <1>3 DEF Launch, ProcInv
  <2>2. CASE commands[p] = "Serve"
    BY <1>1, <1>3, <2>1, <2>2 DEF Launch, Running
  <2>3. CASE commands[p] = "Check"
    BY <1>1, <1>3, <2>1, <2>3 DEF Launch, Running
  <2>4. CASE commands[p] = "GenerateMeshKey"
    BY <1>1, <1>3, <2>1, <2>4 DEF Launch, Running
  <2> QED
    BY <1>0, <2>2, <2>3, <2>4, Machine
<1>4. CASE Check(p)
  BY <1>1, <1>2, <1>4 DEF Check
<1>5. CASE LoadConfig(p)
  <2>1. CASE ~CanLoad(file, env) \/ ~Validate(Load(file, env))
    BY <1>2, <1>5, <2>1 DEF LoadConfig
  <2>2. CASE CanLoad(file, env) /\ Validate(Load(file, env))
    <3>1. /\ Moves(p)
          /\ stage'[p] = "migrate" /\ cfg'[p] = Load(file, env)
          /\ at'[p] = at[p] /\ schema' = schema
          /\ file' = file /\ env' = env
      BY <1>0, <1>5, <2>2 DEF LoadConfig, Shapes, Moves, machine
    <3>2. at[p] = 1 /\ Load(file, env) # None
      BY <1>0, <1>5, <2>2, Machine DEF LoadConfig, ProcInv
    <3> QED
      BY <3>1, <3>2 DEF ProcInv, Opened, Running
  <2> QED
    BY <2>1, <2>2
<1>6. CASE CreateTable(p)
  <2>1. at[p] \in 1..5
    BY <1>0, <1>6 DEF CreateTable, ProcInv
  <2>2. Migration[at[p]] \in Range(Migration)
    BY <2>1, MigrationShape
  <2>3. /\ schema' = schema \cup {Migration[at[p]]}
        /\ schema' \subseteq Range(Migration)
    BY <1>0, <1>6, <2>2 DEF CreateTable, Shapes
  <2> QED
    BY <1>6, <2>3, StatementMoves DEF CreateTable
<1>7. CASE CheckColumn(p)
  <2>1. CASE Migration[at[p]] \in schema
    BY <1>0, <1>7, <2>1, StatementMoves DEF CheckColumn, Shapes
  <2>2. CASE Migration[at[p]] \notin schema
    BY <1>1, <1>7, <2>2 DEF CheckColumn, Running
  <2> QED
    BY <2>1, <2>2
<1>8. CASE AddColumn(p)
  <2>1. CASE Migration[at[p]] \in schema
    BY <1>2, <1>8, <2>1 DEF AddColumn
  <2>2. CASE Migration[at[p]] \notin schema
    <3>1. at[p] \in 1..5
      BY <1>0, <1>8 DEF AddColumn, ProcInv
    <3>2. Migration[at[p]] \in Range(Migration)
      BY <3>1, MigrationShape
    <3>3. /\ schema' = schema \cup {Migration[at[p]]}
          /\ schema' \subseteq Range(Migration)
      BY <1>0, <1>8, <2>2, <3>2 DEF AddColumn, Shapes
    <3> QED
      BY <1>8, <2>2, <3>3, StatementMoves DEF AddColumn
  <2> QED
    BY <2>1, <2>2
<1>9. CASE Register(p)
  <2>1. CASE \E i \in DOMAIN Registered(cfg[p]) : ~KeysParse(Registered(cfg[p])[i])
    BY <1>2, <1>9, <2>1 DEF Register
  <2>2. CASE ~\E i \in DOMAIN Registered(cfg[p]) :
                  ~KeysParse(Registered(cfg[p])[i])
    <3>1. /\ Moves(p)
          /\ stage'[p] \in {"mesh", "bind"}
          /\ cfg'[p] = cfg[p] /\ at'[p] = at[p] /\ schema' = schema
          /\ file' = file /\ env' = env
          /\ filters'[p] = Rules(cfg[p]) /\ backends'[p] = Backends(cfg[p])
      BY <1>0, <1>9, <2>2
         DEF Register, Shapes, Moves, machine, Rules, Backends
    <3>2. /\ at[p] = 6 /\ cfg[p] # None /\ cfg[p] = Load(file, env)
          /\ \A i \in 1..5 : i < at[p] => Migration[i] \in schema
      BY <1>0, <1>9 DEF Register, ProcInv, Opened
    <3> QED
      BY <3>1, <3>2 DEF ProcInv, Opened, Running
  <2> QED
    BY <2>1, <2>2
<1>10. CASE StartNode(p)
  <2>1. /\ Moves(p)
        /\ stage[p] = "mesh" /\ stage'[p] = "node"
        /\ at'[p] = at[p] /\ cfg'[p] = cfg[p] /\ schema' = schema
        /\ filters'[p] = filters[p] /\ backends'[p] = backends[p]
        /\ file' = file /\ env' = env /\ commands' = commands
    BY <1>0, <1>10 DEF StartNode, Shapes, Moves, machine
  <2> QED
    BY <1>0, <2>1 DEF ProcInv, Opened, Running
<1>11. ASSUME UNCHANGED <<machine, schema, local>>, faults' \in Nat
       PROVE  Moves(p) /\ ProcInv(p)'
  BY <1>0, <1>11 DEF Shapes, Moves, machine, local, ProcInv, Opened
<1>12. CASE Node(p)
  BY <1>0, <1>11, <1>12 DEF Node, Shapes
<1>13. CASE NodeUp(p)
  <2>1. CASE commands[p] # "Serve"
    BY <1>1, <1>13, <2>1 DEF NodeUp
  <2>2. CASE commands[p] = "Serve" /\ MeshInUse(p)
    BY <1>2, <1>13, <2>2 DEF NodeUp
  <2>3. CASE commands[p] = "Serve" /\ ~MeshInUse(p)
    BY <1>1, <1>13, <2>3 DEF NodeUp, Opened, Running
  <2> QED
    BY <2>1, <2>2, <2>3
<1>14. CASE NodeFailed(p)
  BY <1>2, <1>14 DEF NodeFailed
<1>15. CASE Adopt(p)
  BY <1>1, <1>2, <1>15 DEF Adopt, Opened, Running
<1>16. ASSUME NEW s \in {"bind6", "ready"}, stage[p] \in {"bind", "bind6"},
              stage' = [stage EXCEPT ![p] = s],
              DOMAIN sockets' = DOMAIN sockets,
              \A q \in Processes \ {p} : sockets'[q] = sockets[q],
              UNCHANGED <<error, cfg, at, filters, backends, keyVars>>,
              UNCHANGED <<machine, faults, schema>>
       PROVE  Moves(p) /\ ProcInv(p)'
  <2>1. Moves(p) /\ stage'[p] = s
    BY <1>0, <1>16 DEF Shapes, Moves
  <2> QED
    BY <1>0, <1>16, <2>1 DEF ProcInv, Opened, Running, machine
<1>17. CASE Bind(p)
  <2>1. CASE Exit(p, "bind")
    BY <1>2, <1>17, <2>1 DEF Bind
  <2>2. CASE ~Exit(p, "bind")
    <3> DEFINE a == FirstAddress(cfg[p].listen)
    <3>1. PICK s \in {"bind6", "ready"} :
             /\ stage' = [stage EXCEPT ![p] = s]
             /\ sockets' = [sockets EXCEPT ![p] = {a}]
      BY <1>17, <2>2 DEF Bind
    <3> HIDE DEF a
    <3>2. /\ DOMAIN sockets' = DOMAIN sockets
          /\ \A q \in Processes \ {p} : sockets'[q] = sockets[q]
      BY <1>0, <3>1 DEF Shapes
    <3>3. /\ UNCHANGED <<error, cfg, at, filters, backends, keyVars>>
          /\ UNCHANGED <<machine, faults, schema>>
          /\ stage[p] = "bind"
      BY <1>17, <2>2 DEF Bind
    <3> QED
      BY <1>16, <3>1, <3>2, <3>3
  <2> QED
    BY <2>1, <2>2
<1>18. CASE BindLoopback(p)
  <2>1. CASE ~ipv6
    BY <1>1, <1>18, <2>1 DEF BindLoopback, Opened, Running
  <2>2. CASE ipv6 /\ InUse(p, "::1")
    BY <1>2, <1>18, <2>2 DEF BindLoopback
  <2>3. CASE ipv6 /\ ~InUse(p, "::1")
    <3>1. /\ stage' = [stage EXCEPT ![p] = "ready"]
          /\ sockets' = [sockets EXCEPT ![p] = @ \cup {"::1"}]
          /\ UNCHANGED <<error, cfg, at, filters, backends, keyVars>>
          /\ UNCHANGED <<machine, faults, schema>>
          /\ stage[p] = "bind6"
      BY <1>18, <2>3 DEF BindLoopback
    <3>2. /\ DOMAIN sockets' = DOMAIN sockets
          /\ \A q \in Processes \ {p} : sockets'[q] = sockets[q]
      BY <1>0, <3>1 DEF Shapes
    <3> QED
      BY <1>16, <3>1, <3>2
  <2> QED
    BY <2>1, <2>2, <2>3
<1>19. CASE Dies(p)
  BY <1>0, <1>19, ExitMoves DEF Dies, Shapes
<1>20. CASE KeyDiskFails(p)
  BY <1>0, <1>11, <1>20 DEF KeyDiskFails, Shapes
<1> QED
  BY <1>3, <1>4, <1>5, <1>6, <1>7, <1>8, <1>9, <1>10, <1>12, <1>13, <1>14,
     <1>15, <1>17, <1>18, <1>19, <1>20 DEF Step

LEMMA StartStep == StartInv /\ [Next]_vars => StartInv'
<1> SUFFICES ASSUME StartInv, [Next]_vars
             PROVE  StartInv'
  OBVIOUS
<1>1. ASSUME NEW p \in Processes,
             Launch(p) \/ Step(p) \/ Dies(p) \/ KeyDiskFails(p)
      PROVE  StartInv'
  BY <1>1, StepMoves, MovesKeeps
<1>2. CASE UNCHANGED vars
  BY <1>2 DEF vars, machine, local, StartInv, MachineInv, Shapes, ProcInv,
              Opened
<1> QED
  BY <1>1, <1>2 DEF Next

---------------------------------------------------------------------------
(* The listening addresses *)

Bound(listen) ==
    IF listen = "localhost"
    THEN IF ipv6 THEN {"127.0.0.1", "::1"} ELSE {"127.0.0.1"}
    ELSE {FirstAddress(listen)}

\* What p listens on is what its setting stands for, and nobody else's.
SocketInv(p) ==
    /\ stage[p] \notin {"bind6", "ready"} => sockets[p] = {}
    /\ stage[p] = "bind6" => /\ ~env.activated /\ cfg[p].listen = "localhost"
                             /\ cfg[p].listen # None
                             /\ sockets[p] = {"127.0.0.1"}
    /\ stage[p] = "ready" /\ ~env.activated =>
           cfg[p].listen # None /\ sockets[p] = Bound(cfg[p].listen)
    /\ ~ipv6 => sockets[p] \subseteq IPv4

NoRival(p) ==
    \A a \in sockets[p] :
        /\ \A q \in Processes \ {p} : \A b \in sockets[q] : ~Overlap(a, b)
        /\ \A b \in foreign : ~Overlap(a, b)

SocketsInv == \A p \in Processes : SocketInv(p) /\ NoRival(p)

LEMMA OverlapBothWays ==
    ASSUME NEW a, NEW b
    PROVE  Overlap(a, b) <=> Overlap(b, a)
<1>1. {a, b} = {b, a}
  OBVIOUS
<1> QED
  BY <1>1 DEF Overlap

LEMMA InUseMeans ==
    ASSUME NEW p, NEW a
    PROVE  ~InUse(p, a) <=>
               /\ \A q \in Processes \ {p} :
                      \A b \in sockets[q] : ~Overlap(a, b)
               /\ \A b \in foreign : ~Overlap(a, b)
  BY DEF InUse

LEMMA SocketsInit == Init => SocketsInv
  BY DEF Init, SocketsInv, SocketInv, NoRival

\* A step of p adds an address nobody uses, if any.
LEMMA SocketsMove ==
    ASSUME SocketsInv, NEW p \in Processes, Moves(p), SocketInv(p)',
           \/ sockets'[p] \subseteq sockets[p]
           \/ \E a : sockets'[p] = sockets[p] \cup {a} /\ ~InUse(p, a)
    PROVE  SocketsInv'
<1>0. /\ UNCHANGED machine
      /\ \A q \in Processes \ {p} :
             /\ stage'[q] = stage[q] /\ cfg'[q] = cfg[q]
             /\ sockets'[q] = sockets[q]
  BY DEF Moves
<1>1. ASSUME NEW q \in Processes \ {p}
      PROVE  SocketInv(q)'
  <2>1. Bound(cfg[q].listen)' = Bound(cfg[q].listen)
    BY <1>0 DEF Bound, FirstAddress, machine
  <2> QED
    BY <1>0, <2>1 DEF SocketInv, SocketsInv, machine
<1>2. ASSUME NEW a \in sockets'[p]
      PROVE  ~InUse(p, a)
  <2>1. \A b \in sockets[p] : ~InUse(p, b)
    BY InUseMeans DEF SocketsInv, NoRival
  <2> QED
    BY <1>2, <2>1
<1>3. NoRival(p)'
  BY <1>0, <1>2, InUseMeans DEF NoRival, machine
<1>4. ASSUME NEW q \in Processes \ {p}
      PROVE  NoRival(q)'
  <2>1. ASSUME NEW a \in sockets[q], NEW b \in sockets'[p]
        PROVE  ~Overlap(a, b)
    BY <1>2, <1>4, InUseMeans, OverlapBothWays
  <2> QED
    BY <1>0, <1>4, <2>1 DEF NoRival, SocketsInv, machine
<1> QED
  BY <1>1, <1>3, <1>4 DEF SocketsInv

LEMMA SocketsStep ==
    ASSUME StartInv, SocketsInv, NEW p \in Processes,
           Launch(p) \/ Step(p) \/ Dies(p) \/ KeyDiskFails(p)
    PROVE  SocketsInv'
<1>0. Moves(p) /\ SocketInv(p) /\ Shapes /\ DOMAIN sockets = Processes
  BY StepMoves DEF SocketsInv, StartInv, Shapes
<1>1. ASSUME sockets'[p] = {}, stage'[p] \notin {"bind6", "ready"}
      PROVE  SocketsInv'
  BY <1>0, <1>1, SocketsMove DEF SocketInv
<1>2. ASSUME NEW why, Exit(p, why)
      PROVE  SocketsInv'
  BY <1>0, <1>1, <1>2 DEF Exit, Shapes
<1>3. ASSUME NEW s, Goto(p, s), s \notin {"bind6", "ready"},
             stage[p] \notin {"bind6", "ready"}
      PROVE  SocketsInv'
  BY <1>0, <1>1, <1>3 DEF Goto, SocketInv, Shapes
<1>4. ASSUME NextStatement(p), stage[p] \in {"migrate", "alter"}
      PROVE  SocketsInv'
  BY <1>0, <1>1, <1>4 DEF NextStatement, SocketInv, Shapes
<1>5. CASE Launch(p)
  <2>1. PICK s \in {"load", "check", "mesh"} : Goto(p, s)
    BY <1>5, Machine DEF Launch, StartInv
  <2> QED
    BY <1>3, <1>5, <2>1 DEF Launch
<1>6. CASE Check(p)
  BY <1>2, <1>3, <1>6 DEF Check
<1>7. CASE LoadConfig(p)
  <2>1. \/ Exit(p, "load") \/ Exit(p, "validate")
        \/ stage' = [stage EXCEPT ![p] = "migrate"] /\ UNCHANGED sockets
    BY <1>7 DEF LoadConfig
  <2>2. ASSUME stage' = [stage EXCEPT ![p] = "migrate"] /\ UNCHANGED sockets
        PROVE  SocketsInv'
    BY <1>0, <1>1, <1>7, <2>2 DEF LoadConfig, SocketInv, Shapes
  <2> QED
    BY <1>2, <2>1, <2>2
<1>8. CASE CreateTable(p) \/ CheckColumn(p) \/ AddColumn(p)
  BY <1>2, <1>3, <1>4, <1>8 DEF CreateTable, CheckColumn, AddColumn
<1>9. CASE Register(p)
  <2>1. \/ Exit(p, "register")
        \/ /\ \E s \in {"mesh", "bind"} : stage' = [stage EXCEPT ![p] = s]
           /\ UNCHANGED sockets
    BY <1>9 DEF Register
  <2>2. ASSUME NEW s \in {"mesh", "bind"}, stage' = [stage EXCEPT ![p] = s],
               UNCHANGED sockets
        PROVE  SocketsInv'
    BY <1>0, <1>1, <1>9, <2>2 DEF Register, SocketInv, Shapes
  <2> QED
    BY <1>2, <2>1, <2>2
<1>10. CASE StartNode(p)
  BY <1>0, <1>1, <1>10 DEF StartNode, SocketInv, Shapes
<1>11. CASE Node(p) \/ KeyDiskFails(p)
  BY <1>0, <1>1, <1>11 DEF Node, KeyDiskFails, local, SocketInv
<1>12. CASE NodeUp(p) \/ NodeFailed(p)
  BY <1>2, <1>3, <1>12 DEF NodeUp, NodeFailed
<1>13. CASE Dies(p)
  BY <1>2, <1>13 DEF Dies
<1>14. CASE Adopt(p)
  <2>1. CASE Exit(p, "bind")
    BY <1>2, <2>1
  <2>2. CASE env.activated /\ Goto(p, "ready")
    <3>1. sockets'[p] = {} /\ stage'[p] = "ready" /\ env' = env
      BY <1>0, <1>14, <2>2 DEF Adopt, Goto, SocketInv, Shapes, machine
    <3> QED
      BY <1>0, <2>2, <3>1, SocketsMove DEF SocketInv
  <2> QED
    BY <1>14, <2>1, <2>2 DEF Adopt
<1>15. CASE Bind(p)
  <2> DEFINE a == FirstAddress(cfg[p].listen)
  <2>1. CASE InUse(p, a) \/ (a \notin IPv4 /\ ~ipv6)
    BY <1>2, <1>15, <2>1 DEF Bind
  <2>2. CASE ~(InUse(p, a) \/ (a \notin IPv4 /\ ~ipv6))
    <3>1. /\ sockets[p] = {} /\ sockets'[p] = {a} /\ cfg' = cfg
          /\ ~env.activated /\ cfg[p].listen # None
          /\ stage'[p] = IF cfg[p].listen = "localhost" THEN "bind6"
                         ELSE "ready"
          /\ UNCHANGED machine
      BY <1>0, <1>15, <2>2 DEF Bind, SocketInv, Shapes
    <3>2. SocketInv(p)'
      <4>1. CASE cfg[p].listen = "localhost"
        BY <3>1, <4>1 DEF SocketInv, FirstAddress, IPv4, machine
      <4>2. CASE cfg[p].listen # "localhost"
        <5>1. Bound(cfg[p].listen)' = {a}
          BY <3>1, <4>2 DEF Bound, FirstAddress, machine
        <5> HIDE DEF a
        <5> QED
          BY <2>2, <3>1, <4>2, <5>1 DEF SocketInv, machine
      <4> QED
        BY <4>1, <4>2
    <3>3. sockets'[p] = sockets[p] \cup {a} /\ ~InUse(p, a)
      BY <2>2, <3>1
    <3> HIDE DEF a
    <3> QED
      BY <1>0, <3>2, <3>3, SocketsMove
  <2> QED
    BY <2>1, <2>2
<1>16. CASE BindLoopback(p)
  <2>1. CASE ~ipv6
    <3>1. /\ sockets'[p] = sockets[p] /\ cfg' = cfg /\ stage[p] = "bind6"
          /\ stage'[p] = "ready" /\ UNCHANGED machine
      BY <1>0, <1>16, <2>1 DEF BindLoopback, Goto, Shapes
    <3>2. /\ Bound(cfg[p].listen)' = {"127.0.0.1"}
          /\ sockets'[p] = {"127.0.0.1"} /\ cfg[p].listen # None
          /\ ~env.activated
      BY <1>0, <2>1, <3>1 DEF SocketInv, Bound, machine
    <3>3. {"127.0.0.1"} \subseteq IPv4
      BY DEF IPv4
    <3>4. SocketInv(p)'
      BY <3>1, <3>2, <3>3 DEF SocketInv, machine
    <3> QED
      BY <1>0, <3>1, <3>4, SocketsMove
  <2>2. CASE ipv6 /\ InUse(p, "::1")
    BY <1>2, <1>16, <2>2 DEF BindLoopback
  <2>3. CASE ipv6 /\ ~InUse(p, "::1")
    <3>1. /\ sockets'[p] = sockets[p] \cup {"::1"} /\ cfg' = cfg
          /\ stage[p] = "bind6" /\ stage'[p] = "ready" /\ UNCHANGED machine
      BY <1>0, <1>16, <2>3 DEF BindLoopback, Shapes
    <3>2. /\ Bound(cfg[p].listen)' = {"127.0.0.1", "::1"}
          /\ sockets[p] = {"127.0.0.1"} /\ cfg[p].listen # None
          /\ ~env.activated
      BY <1>0, <2>3, <3>1 DEF SocketInv, Bound, machine
    <3>3. sockets'[p] = {"127.0.0.1", "::1"} /\ ipv6'
      BY <2>3, <3>1, <3>2 DEF machine
    <3>4. SocketInv(p)'
      BY <3>1, <3>2, <3>3 DEF SocketInv, machine
    <3> QED
      BY <1>0, <2>3, <3>1, <3>4, SocketsMove
  <2> QED
    BY <2>1, <2>2, <2>3
<1> QED
  BY <1>5, <1>6, <1>7, <1>8, <1>9, <1>10, <1>11, <1>12, <1>13, <1>14, <1>15,
     <1>16 DEF Step

---------------------------------------------------------------------------
(* The theorems *)

StartupInv == KeyInv /\ StartInv /\ SocketsInv

LEMMA StartupInvariant == Spec => []StartupInv
<1>1. Init => StartupInv
  BY KeyInitInv, StartInit, SocketsInit DEF StartupInv, Init
<1>2. StartupInv /\ [Next]_vars => StartupInv'
  <2> SUFFICES ASSUME StartupInv, [Next]_vars
               PROVE  StartupInv'
    OBVIOUS
  <2>1. KeyInv'
    BY KeyStepInv, StepsImplementKey DEF StartupInv
  <2>2. StartInv'
    BY StartStep DEF StartupInv
  <2>3. SocketsInv'
    <3>1. CASE UNCHANGED vars
      BY <3>1 DEF StartupInv, vars, machine, local, SocketsInv, SocketInv,
                  NoRival, Bound, FirstAddress
    <3>2. CASE Next
      BY <3>2, SocketsStep DEF StartupInv, Next
    <3> QED
      BY <3>1, <3>2
  <2> QED
    BY <2>1, <2>2, <2>3 DEF StartupInv
<1> QED
  BY <1>1, <1>2, PTL DEF Spec

\* The types hold on any machine, and what a process that is ready relies on
\* with them: it has its settings, and the database has every table and column,
\* whoever migrated it, was killed or lost a race while at it.
THEOREM StartupTypeCorrect == Spec => []TypeOK
<1>1. StartupInv => TypeOK
  <2> SUFFICES ASSUME StartupInv
               PROVE  TypeOK
    OBVIOUS
  <2>1. /\ KeyTypeOK /\ faults \in Nat /\ schema \subseteq Range(Migration)
        /\ stage \in [Processes -> Running \cup {"off", "failed", "done"}]
        /\ at \in [Processes -> 1..(Len(Migration) + 1)]
    <3>1. \A p \in Processes :
              /\ stage[p] \in Running \cup {"off", "failed", "done"}
              /\ at[p] \in 1..6
      BY DEF StartupInv, StartInv, ProcInv
    <3>2. /\ stage \in [Processes -> Running \cup {"off", "failed", "done"}]
          /\ at \in [Processes -> 1..6]
      BY <3>1 DEF StartupInv, StartInv, Shapes
    <3> QED
      BY <3>2, MigrationShape DEF StartupInv, KeyInv, StartInv, Shapes
  <2>2. ASSUME NEW p \in Processes
        PROVE  /\ cfg[p] = None => stage[p] \notin {"migrate", "alter",
                                        "register", "bind", "bind6", "ready"}
               /\ sockets[p] # {} => stage[p] \in {"bind6", "ready"}
               /\ stage[p] = "ready" => Range(Migration) \subseteq schema
    <3>1. ProcInv(p) /\ SocketInv(p)
      BY DEF StartupInv, StartInv, SocketsInv
    <3>2. ASSUME stage[p] = "ready"
          PROVE  Range(Migration) \subseteq schema
      <4>1. at[p] = 6
        BY <3>1, <3>2 DEF ProcInv, Opened
      <4>2. \A i \in 1..5 : i < 6
        OBVIOUS
      <4> QED
        BY <3>1, <4>1, <4>2, MigrationShape DEF ProcInv
    <3> QED
      BY <3>1, <3>2 DEF ProcInv, SocketInv, Opened
  <2> QED
    BY <2>1, <2>2 DEF TypeOK
<1> QED
  BY <1>1, StartupInvariant, PTL

---------------------------------------------------------------------------
(* The settings, field by field *)

LEMMA Parsed ==
    ASSUME NEW f,
           DOMAIN f = {"upstreams", "fallback", "listen", "settings", "alpha",
                       "level", "mesh", "discovery"}
    PROVE  /\ DOMAIN Parse(f) = DOMAIN f
           /\ Parse(f).listen = ParseListen(f.listen)
           /\ Parse(f).upstreams =
                  [i \in DOMAIN f.upstreams |-> Located(f.upstreams[i])]
           /\ Parse(f).fallback =
                  [enabled |-> f.fallback.enabled,
                   table |-> IF f.fallback.enabled
                             THEN Located(Fallback(f.fallback.table))
                             ELSE Fallback(f.fallback.table)]
  BY DEF Parse

LEMMA Loaded ==
    ASSUME NEW s \in Setups
    PROVE  LET c == Load(s.file, s.env)
               f == s.file.fallback
           IN /\ c.listen = IF s.env.listen = "empty"
                            THEN ParseListen(s.file.listen)
                            ELSE ParseListen(s.env.listen)
              /\ c.upstreams =
                     [i \in DOMAIN s.file.upstreams |->
                         Resolved(Located(s.file.upstreams[i]), TRUE, s.env)]
              /\ c.fallback.enabled = f.enabled
              /\ f.enabled => c.fallback.table =
                     Resolved(Located(Fallback(f.table)), f.enabled, s.env)
<1> DEFINE f == s.file
           P == Parse(f)
<1>1. DOMAIN f = {"upstreams", "fallback", "listen", "settings", "alpha",
                  "level", "mesh", "discovery"}
  BY FilesAssumption
<1>2. /\ DOMAIN P = DOMAIN f
      /\ P.listen = ParseListen(f.listen)
      /\ P.upstreams = [i \in DOMAIN f.upstreams |-> Located(f.upstreams[i])]
      /\ P.fallback = [enabled |-> f.fallback.enabled,
                       table |-> IF f.fallback.enabled
                                 THEN Located(Fallback(f.fallback.table))
                                 ELSE Fallback(f.fallback.table)]
  BY <1>1, Parsed
<1>3. /\ DOMAIN P.fallback = {"enabled", "table"}
      /\ P.fallback.enabled = f.fallback.enabled
      /\ f.fallback.enabled =>
             P.fallback.table = Located(Fallback(f.fallback.table))
  BY <1>2
<1> HIDE DEF P, f
<1>4. /\ Load(f, s.env).listen = IF s.env.listen = "empty" THEN P.listen
                                 ELSE ParseListen(s.env.listen)
      /\ Load(f, s.env).upstreams =
             [i \in DOMAIN P.upstreams |-> Resolved(P.upstreams[i], TRUE, s.env)]
      /\ Load(f, s.env).fallback.enabled = P.fallback.enabled
      /\ Load(f, s.env).fallback.table =
             Resolved(P.fallback.table, P.fallback.enabled, s.env)
  <2>1. Load(f, s.env) =
           [P EXCEPT
              !.listen = IF s.env.listen = "empty" THEN @
                         ELSE ParseListen(s.env.listen),
              !.level = IF s.env.level = "" THEN @ ELSE s.env.level,
              !.upstreams = [i \in DOMAIN @ |-> Resolved(@[i], TRUE, s.env)],
              !.fallback.table = Resolved(@, P.fallback.enabled, s.env)]
    BY DEF Load, P
  <2> QED
    BY <1>1, <1>2, <1>3, <2>1
<1>5. \A i \in DOMAIN f.upstreams : P.upstreams[i] = Located(f.upstreams[i])
  BY <1>2
<1>6. DOMAIN P.upstreams = DOMAIN f.upstreams
  BY <1>2
<1> QED
  BY <1>2, <1>3, <1>4, <1>5, <1>6 DEF f

---------------------------------------------------------------------------
(* The addresses of a process that is ready *)

LEMMA ListenLoaded ==
    ASSUME MachineInv, Load(file, env).listen # None
    PROVE  Load(file, env).listen =
               IF env.listen = "empty" THEN file.listen ELSE env.listen
<1>1. PICK s \in Setups : file = s.file /\ env = s.env
  BY DEF MachineInv
<1>2. Load(file, env).listen = IF env.listen = "empty"
                               THEN ParseListen(file.listen)
                               ELSE ParseListen(env.listen)
  BY <1>1, Loaded
<1> QED
  BY <1>2 DEF ParseListen

\* Without IPv6 nobody listens on an IPv6 address.
LEMMA OnlyIPv4 ==
    ASSUME StartInv, SocketsInv, ~ipv6
    PROVE  /\ \A q \in Processes : sockets[q] \subseteq IPv4
           /\ foreign \subseteq IPv4
<1>1. PICK s \in Setups : ipv6 = s.ipv6 /\ foreign = s.foreign
  BY DEF StartInv, MachineInv
<1> QED
  BY <1>1, SetupsAssumption DEF SocketsInv, SocketInv

LEMMA Overlaps ==
    /\ \A b : Overlap("::", b)
    /\ \A b \in IPv4 : Overlap("0.0.0.0", b) /\ ~Overlap("::1", b)
  BY DEF Overlap, IPv4

\* On any machine, however many processes bind, die and are started again:
\* when ncro is ready, no address its listen setting stands for is anybody
\* else's.
THEOREM StartupWhollyBound == Spec => []WhollyBound
<1>1. StartupInv => WhollyBound
  <2> SUFFICES ASSUME StartupInv, NEW p \in Processes, stage[p] = "ready",
                      ~env.activated
               PROVE  LET listen == IF env.listen = "empty" THEN file.listen
                                    ELSE env.listen
                          names == CASE listen = "localhost" ->
                                            {"127.0.0.1", "::1"}
                                     [] listen = "any" ->
                                            {"127.0.0.1", "0.0.0.0", "::1"}
                                     [] OTHER -> {listen}
                      IN \A a \in names : ~InUse(p, a)
    BY DEF WhollyBound, Ready
  <2> DEFINE listen == IF env.listen = "empty" THEN file.listen ELSE env.listen
  <2>1. /\ StartInv /\ SocketsInv /\ MachineInv
        /\ SocketInv(p) /\ NoRival(p) /\ ProcInv(p)
    BY DEF StartupInv, StartInv, SocketsInv
  <2>2. cfg[p] = Load(file, env) /\ cfg[p].listen # None
    BY <2>1 DEF ProcInv, Opened, SocketInv
  <2>3. cfg[p].listen = listen
    BY <2>1, <2>2, ListenLoaded
  <2>4. sockets[p] = Bound(listen)
    BY <2>1, <2>3 DEF SocketInv
  <2>5. \A a \in sockets[p] : ~InUse(p, a)
    BY <2>1, InUseMeans DEF NoRival
  <2> HIDE DEF listen
  <2>6. CASE listen = "localhost"
    <3>1. ~InUse(p, "127.0.0.1")
      BY <2>4, <2>5, <2>6 DEF Bound
    <3>2. ~InUse(p, "::1")
      <4>1. CASE ipv6
        BY <2>4, <2>5, <2>6, <4>1 DEF Bound
      <4>2. CASE ~ipv6
        BY <2>1, <4>2, OnlyIPv4, Overlaps, InUseMeans
      <4> QED
        BY <4>1, <4>2
    <3> QED
      BY <2>6, <3>1, <3>2 DEF listen
  <2>7. CASE listen = "any"
    <3>1. /\ \A q \in Processes \ {p} : sockets[q] = {}
          /\ foreign = {}
      <4>1. CASE ipv6
        <5>1. "::" \in sockets[p]
          BY <2>4, <2>7, <4>1 DEF Bound, FirstAddress
        <5> QED
          BY <2>1, <5>1, Overlaps DEF NoRival
      <4>2. CASE ~ipv6
        <5>1. "0.0.0.0" \in sockets[p]
          BY <2>4, <2>7, <4>2 DEF Bound, FirstAddress
        <5> QED
          BY <2>1, <4>2, <5>1, Overlaps, OnlyIPv4 DEF NoRival
      <4> QED
        BY <4>1, <4>2
    <3>2. \A a : ~InUse(p, a)
      BY <3>1, InUseMeans
    <3> QED
      BY <3>2
  <2>8. CASE listen \notin {"localhost", "any"}
    <3>1. sockets[p] = {listen}
      BY <2>4, <2>8 DEF Bound, FirstAddress
    <3> QED
      BY <2>5, <2>8, <3>1 DEF listen
  <2> QED
    BY <2>6, <2>7, <2>8
<1> QED
  BY <1>1, StartupInvariant, PTL

---------------------------------------------------------------------------
(* What is registered for a url *)

LEMMA Smallest ==
    ASSUME NEW T, T \subseteq Nat, T # {}
    PROVE  \E x \in T : \A y \in T : x <= y
<1> DEFINE R == OpToRel(<, Nat)
<1>1. IsWellFoundedOn(R, Nat)
  BY NatLessThanWellFounded
<1>2. \A x, y \in Nat : x < y => <<x, y>> \in R
  BY DEF OpToRel
<1> HIDE DEF R
<1>3. PICK x \in T : \A y \in T : ~(<<y, x>> \in R)
  BY <1>1, WFMin
<1>4. \A y \in T : x <= y
  <2> SUFFICES ASSUME NEW y \in T PROVE x <= y
    OBVIOUS
  <2>1. x \in Nat /\ y \in Nat
    OBVIOUS
  <2>2. ~(y < x)
    BY <1>2, <1>3, <2>1, Zenon
  <2> QED
    BY <2>1, <2>2
<1> QED
  BY <1>4

LEMMA Largest ==
    ASSUME NEW n \in Nat, NEW I \in SUBSET (1..n), I # {}
    PROVE  Max(I) \in I
<1> DEFINE T == {n - i : i \in I}
<1>0. \A i \in I : i \in Int /\ n - i \in Nat
  OBVIOUS
<1>1. T \subseteq Nat /\ T # {}
  BY <1>0, Zenon
<1> HIDE DEF T
<1>2. PICK t \in T : \A u \in T : t <= u
  BY <1>1, Smallest
<1>3. PICK x \in I : t = n - x
  BY <1>2 DEF T
<1>4. \A y \in I : x >= y
  BY <1>2, <1>3 DEF T
<1> QED
  BY <1>4 DEF Max

\* What the tables hold for a url is some upstream that has it.
LEMMA ByUrlHas ==
    ASSUME NEW S, NEW seq \in Seq(S), NEW url \in DOMAIN ByUrl(seq)
    PROVE  \E i \in DOMAIN seq : seq[i].url = url /\ ByUrl(seq)[url] = seq[i]
<1> DEFINE I == {i \in 1..Len(seq) : seq[i].url = url}
<1>1. PICK j \in DOMAIN seq : seq[j].url = url
  BY DEF ByUrl
<1>2. /\ Len(seq) \in Nat /\ DOMAIN seq = 1..Len(seq)
      /\ I \in SUBSET (1..Len(seq)) /\ I # {}
  BY <1>1
<1>3. Max(I) \in I
  <2> HIDE DEF I
  <2> QED
    BY <1>2, Largest
<1>4. SelectLastInSeq(seq, LAMBDA u : u.url = url) = Max(I)
  BY <1>1 DEF SelectLastInSeq
<1>5. ByUrl(seq)[url] = seq[Max(I)]
  BY <1>4, Zenon DEF ByUrl
<1>6. PICK m \in I : m = Max(I)
  BY <1>3
<1> QED
  BY <1>2, <1>5, <1>6

\* Located, the password file and the netrc leave the url and the filters of
\* an upstream alone, and take the credentials from one place.
LEMMA Resolving ==
    ASSUME NEW u, IsUpstream(u), NEW e
    PROVE  LET r == Resolved(Located(u), TRUE, e)
               entry == NetrcEntry(u.url)
           IN /\ r.url = u.url /\ r.filters = u.filters
              /\ \/ /\ r.username = u.username
                    /\ r.password = IF u.password_file = None THEN u.password
                                    ELSE ReadPasswordFile(u.password_file)
                 \/ /\ u.username = "" /\ entry.login # ""
                    /\ r.username = entry.login
                    /\ r.password = IF entry.password = <<>> THEN None
                                    ELSE entry.password
<1> DEFINE Fields == {"url", "public_key", "public_keys", "username",
                      "password", "password_file", "filters", "location"}
           l == Located(u)
           own == ResolvePasswordFile(l)
           entry == NetrcEntry(u.url)
<1>1. DOMAIN u = Fields
  BY DEF IsUpstream
<1>2. /\ DOMAIN l = Fields
      /\ l.url = u.url /\ l.filters = u.filters /\ l.username = u.username
      /\ l.password = u.password /\ l.password_file = u.password_file
  BY <1>1 DEF Located
<1> HIDE DEF l
<1>3. /\ DOMAIN own = Fields
      /\ own.url = u.url /\ own.filters = u.filters
      /\ own.username = u.username
      /\ own.password = IF u.password_file = None THEN u.password
                        ELSE ReadPasswordFile(u.password_file)
  BY <1>2 DEF ResolvePasswordFile
<1>4. Resolved(Located(u), TRUE, e) \in {own, ApplyNetrc(own)}
  BY DEF Resolved, l
<1> HIDE DEF own
<1>5. \/ ApplyNetrc(own) = own
      \/ /\ u.username = "" /\ entry.login # ""
         /\ ApplyNetrc(own) = [own EXCEPT
                !.username = entry.login,
                !.password = IF entry.password = <<>> THEN None
                             ELSE entry.password]
  BY <1>3 DEF ApplyNetrc
<1> HIDE DEF entry
<1>6. CASE Resolved(Located(u), TRUE, e) = own
  BY <1>3, <1>6
<1>7. CASE /\ u.username = "" /\ entry.login # ""
           /\ Resolved(Located(u), TRUE, e) = [own EXCEPT
                !.username = entry.login,
                !.password = IF entry.password = <<>> THEN None
                             ELSE entry.password]
  <2> DEFINE r == Resolved(Located(u), TRUE, e)
  <2>1. /\ r.url = u.url /\ r.filters = u.filters
        /\ r.username = entry.login
        /\ r.password = IF entry.password = <<>> THEN None
                        ELSE entry.password
    BY <1>3, <1>7
  <2> QED
    BY <1>7, <2>1 DEF entry
<1> QED
  BY <1>4, <1>5, <1>6, <1>7

LEMMA OneMore ==
    ASSUME NEW S, NEW a \in Seq(S), NEW x \in S
    PROVE  /\ \A i \in 1..Len(a) : (a \o <<x>>)[i] = a[i]
           /\ (a \o <<x>>)[Len(a) + 1] = x
  OBVIOUS

LEMMA FallbackKeeps ==
    ASSUME NEW t, IsUpstream(t)
    PROVE  IsUpstream(Fallback(t))
<1>1. DOMAIN Fallback(t) = DOMAIN t /\ Fallback(t).filters = t.filters
  BY DEF IsUpstream, Fallback
<1> QED
  BY <1>1 DEF IsUpstream

\* Every entry of the file is registered, and nothing else.
LEMMA RegisteredIsWritten ==
    ASSUME MachineInv
    PROVE  LET seq == Registered(Load(file, env))
               made == {Resolved(Located(own), TRUE, env) : own \in Written}
           IN /\ seq \in Seq(made)
              /\ {seq[i].url : i \in DOMAIN seq} = {own.url : own \in Written}
              /\ \A own \in Written : IsUpstream(own)
<1> DEFINE c == Load(file, env)
           seq == Registered(c)
           made == {Resolved(Located(own), TRUE, env) : own \in Written}
           ups == file.upstreams
           f == file.fallback
<1>1. PICK s \in Setups : file = s.file /\ env = s.env
  BY DEF MachineInv
<1>2. /\ c.upstreams = [i \in DOMAIN ups |-> Resolved(Located(ups[i]), TRUE, env)]
      /\ c.fallback.enabled = f.enabled
      /\ f.enabled => c.fallback.table =
             Resolved(Located(Fallback(f.table)), f.enabled, env)
  BY <1>1, Loaded
<1>3. ups \in Seq(Range(ups)) /\ (\A u \in Range(ups) \cup {f.table} : IsUpstream(u))
  BY <1>1, FilesAssumption
<1>4. \A own \in Written : IsUpstream(own)
  BY <1>3, FallbackKeeps DEF Written
<1>5. \A own \in Written : Resolved(Located(own), TRUE, env).url = own.url
  BY <1>4, Resolving
<1>6. Len(ups) \in Nat /\ DOMAIN ups = 1..Len(ups)
  BY <1>3
<1>7. \A i \in DOMAIN ups : ups[i] \in Written
  BY DEF Written, Range
<1> HIDE DEF c, f, ups
<1>8. /\ c.upstreams \in Seq(made) /\ Len(c.upstreams) = Len(ups)
      /\ \A i \in 1..Len(ups) : c.upstreams[i].url = ups[i].url
  <2>1. \A i \in 1..Len(ups) : Resolved(Located(ups[i]), TRUE, env) \in made
    BY <1>6, <1>7
  <2>2. \A i \in 1..Len(ups) : c.upstreams[i].url = ups[i].url
    BY <1>2, <1>5, <1>6, <1>7
  <2> HIDE DEF made
  <2>3. c.upstreams \in [1..Len(ups) -> made]
    BY <1>2, <1>6, <2>1
  <2> QED
    BY <1>6, <2>2, <2>3
<1>9. CASE f.enabled
  <2> DEFINE own == Fallback(f.table)
             t == Resolved(Located(own), TRUE, env)
  <2>1. own \in Written /\ Written = Range(ups) \cup {own}
    BY <1>9 DEF Written, f, ups
  <2>2. t \in made /\ t.url = own.url
    BY <1>5, <2>1
  <2>3. c.fallback.table = t
    BY <1>2, <1>9 DEF Resolved
  <2> HIDE DEF made, own, t
  <2>4. seq = c.upstreams \o <<t>>
    BY <1>2, <1>9, <2>3 DEF Registered
  <2>5. seq \in Seq(made) /\ Len(seq) = Len(ups) + 1
    BY <1>6, <1>8, <2>2, <2>4
  <2>6. /\ \A i \in 1..Len(ups) : seq[i] = c.upstreams[i]
        /\ seq[Len(ups) + 1] = t
    <3>1. /\ \A i \in 1..Len(c.upstreams) :
                 (c.upstreams \o <<t>>)[i] = c.upstreams[i]
          /\ (c.upstreams \o <<t>>)[Len(c.upstreams) + 1] = t
      BY <1>8, <2>2, OneMore
    <3> HIDE DEF seq
    <3> QED
      BY <1>8, <2>4, <3>1
  <2> HIDE DEF seq
  <2>7. DOMAIN seq = 1..(Len(ups) + 1)
    BY <2>5
  <2>8. {seq[i].url : i \in DOMAIN seq} = {o.url : o \in Written}
    <3>1. ASSUME NEW i \in DOMAIN seq
          PROVE  \E o \in Written : seq[i].url = o.url
      <4>1. CASE i = Len(ups) + 1
        BY <2>1, <2>2, <2>6, <4>1
      <4>2. CASE i \in 1..Len(ups)
        BY <1>6, <1>7, <1>8, <2>6, <4>2
      <4> QED
        BY <1>6, <2>7, <4>1, <4>2
    <3>2. ASSUME NEW o \in Written
          PROVE  \E i \in DOMAIN seq : seq[i].url = o.url
      <4>1. CASE o = own
        <5>1. Len(ups) + 1 \in DOMAIN seq
          BY <1>6, <2>7
        <5> QED
          BY <2>2, <2>6, <4>1, <5>1
      <4>2. CASE o \in Range(ups)
        <5>1. PICK i \in 1..Len(ups) : o = ups[i]
          BY <1>6, <4>2 DEF Range
        <5>2. i \in DOMAIN seq
          BY <1>6, <2>7
        <5> QED
          BY <1>8, <2>6, <5>1, <5>2
      <4> QED
        BY <2>1, <4>1, <4>2
    <3> QED
      BY <3>1, <3>2
  <2> QED
    BY <1>4, <2>5, <2>8 DEF made, seq, c
<1>10. CASE ~f.enabled
  <2>1. Written = Range(ups)
    BY <1>10 DEF Written, f, ups
  <2> HIDE DEF made
  <2>2. seq = c.upstreams \o <<>>
    BY <1>2, <1>10 DEF Registered
  <2>3. seq \in Seq(made) /\ Len(seq) = Len(ups)
    BY <1>6, <1>8, <2>2
  <2>4. \A i \in 1..Len(ups) : seq[i] = c.upstreams[i]
    BY <1>6, <1>8, <2>2
  <2> HIDE DEF seq
  <2>5. DOMAIN seq = DOMAIN ups
    BY <1>6, <2>3
  <2>6. {seq[i].url : i \in DOMAIN seq} = {o.url : o \in Written}
    BY <1>6, <1>8, <2>1, <2>4, <2>5 DEF Range
  <2> QED
    BY <1>4, <2>3, <2>6 DEF made, seq, c
<1> QED
  BY <1>9, <1>10

\* What a ready process holds for a url comes from an entry of the file.
LEMMA HeldFor ==
    ASSUME StartupInv, NEW p \in Processes, stage[p] = "ready"
    PROVE  /\ DOMAIN filters[p] = {own.url : own \in Written}
           /\ DOMAIN backends[p] = {own.url : own \in Written}
           /\ \A url \in {own.url : own \in Written} : \E own \in Written :
                  /\ own.url = url /\ IsUpstream(own)
                  /\ filters[p][url] = own.filters
                  /\ backends[p][url] =
                         Backend(Resolved(Located(own), TRUE, env))
<1> DEFINE seq == Registered(Load(file, env))
           made == {Resolved(Located(own), TRUE, env) : own \in Written}
           urls == {own.url : own \in Written}
<1>1. MachineInv /\ ProcInv(p)
  BY DEF StartupInv, StartInv
<1>2. /\ filters[p] = [url \in DOMAIN ByUrl(seq) |-> ByUrl(seq)[url].filters]
      /\ backends[p] = [url \in DOMAIN ByUrl(seq) |-> Backend(ByUrl(seq)[url])]
  BY <1>1 DEF ProcInv, Opened, Rules, Backends
<1>3. /\ seq \in Seq(made) /\ {seq[i].url : i \in DOMAIN seq} = urls
      /\ \A own \in Written : IsUpstream(own)
  BY <1>1, RegisteredIsWritten
<1> HIDE DEF seq
<1>4. DOMAIN ByUrl(seq) = urls
  BY <1>3 DEF ByUrl
<1>5. ASSUME NEW url \in urls
      PROVE  \E own \in Written :
                 /\ own.url = url /\ IsUpstream(own)
                 /\ filters[p][url] = own.filters
                 /\ backends[p][url] =
                        Backend(Resolved(Located(own), TRUE, env))
  <2>1. PICK i \in DOMAIN seq : seq[i].url = url /\ ByUrl(seq)[url] = seq[i]
    <3>1. seq \in Seq(made) /\ url \in DOMAIN ByUrl(seq)
      BY <1>3, <1>4
    <3> HIDE DEF made, urls
    <3> QED
      BY <3>1, ByUrlHas
  <2>2. seq[i] \in made
    <3> HIDE DEF made
    <3> QED
      BY <1>3
  <2>3. PICK own \in Written : seq[i] = Resolved(Located(own), TRUE, env)
    BY <2>2
  <2>4. seq[i].url = own.url /\ seq[i].filters = own.filters
    <3>1. IsUpstream(own)
      BY <1>3
    <3>2. /\ Resolved(Located(own), TRUE, env).url = own.url
          /\ Resolved(Located(own), TRUE, env).filters = own.filters
      BY <3>1, Resolving
    <3> QED
      BY <2>3, <3>2
  <2>5. filters[p][url] = seq[i].filters /\ backends[p][url] = Backend(seq[i])
    BY <1>2, <1>4, <2>1
  <2> QED
    BY <1>3, <2>1, <2>3, <2>4, <2>5
<1> QED
  BY <1>2, <1>4, <1>5

\* For any file, netrc and password files: what ncro sends to a url is a
\* username and a password that belong together, also where the fallback has
\* the url of an upstream.
THEOREM StartupCredentialsPaired == Spec => []CredentialsPaired
<1>1. StartupInv => CredentialsPaired
  <2> SUFFICES ASSUME StartupInv, NEW p \in Processes, stage[p] = "ready",
                      NEW url \in DOMAIN backends[p]
               PROVE  \E own \in Written :
        LET sent == backends[p][url]
        IN /\ own.url = url
           /\ \/ sent.username = ""
              \/ /\ sent.kind = "Http"
                 /\ sent.username = own.username
                 /\ sent.password = IF own.password_file = None
                                    THEN own.password
                                    ELSE ReadPasswordFile(own.password_file)
              \/ /\ sent.kind = "Http"
                 /\ own.username = ""
                 /\ \E host \in {url.host, "default"} \cap DOMAIN Netrc :
                        /\ sent.username = Netrc[host].login
                        /\ sent.password = IF Netrc[host].password = <<>>
                                           THEN None
                                           ELSE Netrc[host].password
    BY DEF CredentialsPaired, Ready
  <2> DEFINE sent == backends[p][url]
  <2>1. PICK own \in Written :
            /\ own.url = url /\ IsUpstream(own)
            /\ sent = Backend(Resolved(Located(own), TRUE, env))
    BY HeldFor
  <2> DEFINE r == Resolved(Located(own), TRUE, env)
             entry == NetrcEntry(url)
  <2>2. \/ /\ r.username = own.username
           /\ r.password = IF own.password_file = None THEN own.password
                           ELSE ReadPasswordFile(own.password_file)
        \/ /\ own.username = "" /\ entry.login # ""
           /\ r.username = entry.login
           /\ r.password = IF entry.password = <<>> THEN None
                           ELSE entry.password
    BY <2>1, Resolving
  <2> HIDE DEF r
  <2>3. \/ sent.username = ""
        \/ /\ sent.kind = "Http" /\ sent.username = r.username
           /\ sent.password = r.password
    <3>1. sent = Backend(r)
      BY <2>1 DEF r
    <3> HIDE DEF sent
    <3>2. CASE r.location = Http
      BY <3>1, <3>2 DEF Backend
    <3>3. CASE r.location # Http
      BY <3>1, <3>3 DEF Backend
    <3> QED
      BY <3>2, <3>3
  <2>4. entry.login # "" =>
            \E host \in {url.host, "default"} \cap DOMAIN Netrc :
                entry = Netrc[host]
    BY DEF NetrcEntry
  <2> HIDE DEF sent, entry
  <2> QED
    BY <2>1, <2>2, <2>3, <2>4 DEF sent
<1> QED
  BY <1>1, StartupInvariant, PTL

---------------------------------------------------------------------------
(* The filters of a process that is ready *)

\* On the patterns and the texts at hand, wildcard_match decides what a pattern
\* means.  It does not where the last piece of a pattern occurs before the end
\* of the text too (run startup_wildcard).
PatternsAgree ==
    \A own \in Written : \A i \in DOMAIN own.filters : \A n \in Narinfos :
        \A text \in Texts(own.filters[i], n) :
            WildcardMatch(own.filters[i].pattern, text)
                <=> Glob(own.filters[i].pattern, text)

\* Wherever the patterns do, the rules as a whole decide as they are meant to.
LEMMA RulesAgree ==
    ASSUME NEW rules, NEW n,
           \A i \in DOMAIN rules : rules[i].action \in {"Allow", "Deny"},
           \A i \in DOMAIN rules : \A text \in Texts(rules[i], n) :
               WildcardMatch(rules[i].pattern, text)
                   <=> Glob(rules[i].pattern, text)
    PROVE  AllowsNarinfo(rules, n) <=> Wanted(rules, n)
<1> DEFINE Means(i) == \E text \in Texts(rules[i], n) :
                           Glob(rules[i].pattern, text)
<1>1. \A i \in DOMAIN rules : FilterRuleMatches(rules[i], n) <=> Means(i)
  BY Zenon DEF FilterRuleMatches
<1>2. AllowsNarinfo(rules, n) <=>
          /\ ~\E i \in DOMAIN rules : FilterRuleMatches(rules[i], n)
                                       /\ rules[i].action = "Deny"
          /\ (\E i \in DOMAIN rules : rules[i].action = "Allow") =>
                 \E i \in DOMAIN rules : FilterRuleMatches(rules[i], n)
                                         /\ rules[i].action = "Allow"
  BY Zenon DEF AllowsNarinfo
<1>3. Wanted(rules, n) <=>
          /\ ~\E i \in DOMAIN rules : rules[i].action = "Deny" /\ Means(i)
          /\ \/ \A i \in DOMAIN rules : rules[i].action = "Deny"
             \/ \E i \in DOMAIN rules : rules[i].action = "Allow" /\ Means(i)
  BY Zenon DEF Wanted
<1> HIDE DEF Means
<1>4. (\A i \in DOMAIN rules : rules[i].action = "Deny")
          <=> ~\E i \in DOMAIN rules : rules[i].action = "Allow"
  BY SMT
<1> QED
  BY <1>1, <1>2, <1>3, <1>4, Zenon

\* For any file: an upstream with a url of its own does not lose its rules on
\* the way to the router, nor does it get others.  If another entry of the
\* file has the url, as the fallback cache may, nothing is said: the code
\* keeps one of the two.  What else goes wrong with a filter is a pattern that
\* wildcard_match misreads.
THEOREM StartupFilters == Spec => [](PatternsAgree => FiltersAsWritten)
<1>1. StartupInv => (PatternsAgree => FiltersAsWritten)
  <2> SUFFICES ASSUME StartupInv, PatternsAgree,
                      NEW p \in Processes, stage[p] = "ready",
                      NEW own \in Range(file.upstreams), UrlOfItsOwn(own)
               PROVE  /\ own.url \in DOMAIN filters[p]
                      /\ \A n \in Narinfos :
                             AllowsNarinfo(filters[p][own.url], n)
                                 <=> Wanted(own.filters, n)
    BY DEF FiltersAsWritten, Ready
  <2>1. own \in Written
    BY DEF Written
  <2>2. own.url \in DOMAIN filters[p]
    BY <2>1, HeldFor
  <2>3. IsUpstream(own) /\ filters[p][own.url] = own.filters
    <3>1. PICK other \in Written :
              /\ other.url = own.url /\ IsUpstream(other)
              /\ filters[p][own.url] = other.filters
      BY <2>1, HeldFor
    <3>2. other = own
      BY <3>1 DEF UrlOfItsOwn
    <3> QED
      BY <3>1, <3>2
  <2>4. ASSUME NEW n \in Narinfos
        PROVE  AllowsNarinfo(own.filters, n) <=> Wanted(own.filters, n)
    <3>1. \A i \in DOMAIN own.filters :
              own.filters[i].action \in {"Allow", "Deny"}
      BY <2>3 DEF IsUpstream
    <3>2. \A i \in DOMAIN own.filters :
              \A text \in Texts(own.filters[i], n) :
                  WildcardMatch(own.filters[i].pattern, text)
                      <=> Glob(own.filters[i].pattern, text)
      BY <2>1, Zenon DEF PatternsAgree
    <3> QED
      BY <3>1, <3>2, RulesAgree, Zenon
  <2> QED
    BY <2>2, <2>3, <2>4
<1> QED
  BY <1>1, StartupInvariant, PTL

---------------------------------------------------------------------------
(* What a process leaves behind *)

\* No step of anybody, a crash included, changes a key that is there, creates
\* half of one, or takes a table or a column away.
NothingHalf ==
    [][/\ keyfile' # keyfile => keyfile = NoKey /\ keyfile' \in Seeds
       /\ schema \subseteq schema']_vars

\* So what the next start finds is what it was, or whole: the safety that
\* StartsAgain rests on.
THEOREM StartupLeavesNothingHalf == Spec => NothingHalf
<1>1. StartupInv /\ [Next]_vars =>
          [/\ keyfile' # keyfile => keyfile = NoKey /\ keyfile' \in Seeds
           /\ schema \subseteq schema']_vars
  <2> SUFFICES ASSUME StartupInv, Next
               PROVE  /\ keyfile' # keyfile =>
                             keyfile = NoKey /\ keyfile' \in Seeds
                      /\ schema \subseteq schema'
    OBVIOUS
  <2>1. schema \subseteq schema'
    <3>1. PICK p \in Processes :
              Launch(p) \/ Step(p) \/ Dies(p) \/ KeyDiskFails(p)
      BY DEF Next
    <3> QED
      BY <3>1, StepMoves DEF Moves, StartupInv
  <2>2. [KeyNext]_keyVars /\ KeyInv
    BY StepsImplementKey DEF StartupInv
  <2>3. ASSUME KeyNext, keyfile' # keyfile
        PROVE  keyfile = NoKey /\ keyfile' \in Seeds
    <3>1. PICK p \in Processes : Link(p)
      BY <2>3 DEF KeyNext, NodeNew, Ephemeral, NodeStep, ReadKey, ReadShort,
                  ReadNothing, CreateTemp, WriteTemp, Cleanup, DiskFails,
                  NodeEnds
    <3> QED
      BY <2>2, <2>3, <3>1 DEF Link, KeyInv
  <2> QED
    BY <2>1, <2>2, <2>3 DEF keyVars
<1> QED
  BY <1>1, StartupInvariant, PTL DEF Spec, NothingHalf
===========================================================================
