------------------------------ MODULE MeshKey ------------------------------
(***************************************************************************)
(* The identity of a mesh node (Node::new and write_new_key of             *)
(* crates/mesh/src/lib.rs).  Processes that share a key file, serve and    *)
(* --generate-mesh-key say, read it, or create it: the seed goes to a      *)
(* temporary file, which is then linked to the key's path.  A process may  *)
(* die at any step.                                                        *)
(*                                                                         *)
(* A seed is the number of its draw: random seeds, and the names of the    *)
(* temporary files, never meet.  A temporary file that a dead process left *)
(* is never opened again.                                                  *)
(***************************************************************************)
EXTENDS Integers

CONSTANTS Processes, NoKey

ASSUME NoKeyAssumption == NoKey \notin Nat

Seeds == Nat \ {0}
Short == 0      \* a key file that is neither 32 nor 64 bytes long

VARIABLES
    keyfile,    \* NoKey, Short or a seed
    drawn,      \* how many seeds have been drawn
    step,       \* where Node::new is: off, read, create, write, link, cleanup,
                \* up, failed
    seed,       \* the seed a node has read or drawn for the file, or NoKey
    temp,       \* its temporary file: absent, partial, full
    linked,     \* whether write_result is Ok
    (* history *)
    announced   \* the seeds of all nodes with a key file so far

keyVars == <<keyfile, drawn, step, seed, temp, linked, announced>>

---------------------------------------------------------------------------

KeyInit ==
    /\ keyfile \in {NoKey, Short}
    /\ drawn = 0
    /\ step = [p \in Processes |-> "off"]
    /\ seed = [p \in Processes |-> NoKey]
    /\ temp = [p \in Processes |-> "absent"]
    /\ linked = [p \in Processes |-> FALSE]
    /\ announced = {}

\* Node::new with a path.
NodeNew(p) ==
    /\ step[p] \in {"off", "failed"}
    /\ step' = [step EXCEPT ![p] = "read"]
    /\ UNCHANGED <<keyfile, drawn, seed, temp, linked, announced>>

\* Node::new without a path: a random key until the process ends, which
\* nobody else ever has.
Ephemeral(p) ==
    /\ step[p] \in {"off", "failed"}
    /\ step' = [step EXCEPT ![p] = "up"]
    /\ UNCHANGED <<keyfile, drawn, seed, temp, linked, announced>>

ReadKey(p) ==
    /\ step[p] = "read"
    /\ keyfile \in Seeds
    /\ step' = [step EXCEPT ![p] = "up"]
    /\ seed' = [seed EXCEPT ![p] = keyfile]
    /\ announced' = announced \cup {keyfile}
    /\ UNCHANGED <<keyfile, drawn, temp, linked>>

ReadShort(p) ==
    /\ step[p] = "read"
    /\ keyfile = Short
    /\ step' = [step EXCEPT ![p] = "failed"]
    /\ UNCHANGED <<keyfile, drawn, seed, temp, linked, announced>>

\* There is no file: the process draws a seed.
ReadNothing(p) ==
    /\ step[p] = "read"
    /\ keyfile = NoKey
    /\ step' = [step EXCEPT ![p] = "create"]
    /\ drawn' = drawn + 1
    /\ seed' = [seed EXCEPT ![p] = drawn + 1]
    /\ UNCHANGED <<keyfile, temp, linked, announced>>

\* create_new, under a random name.
CreateTemp(p) ==
    /\ step[p] = "create"
    /\ step' = [step EXCEPT ![p] = "write"]
    /\ temp' = [temp EXCEPT ![p] = "partial"]
    /\ UNCHANGED <<keyfile, drawn, seed, linked, announced>>

\* write_all and sync_all.
WriteTemp(p) ==
    /\ step[p] = "write"
    /\ step' = [step EXCEPT ![p] = "link"]
    /\ temp' = [temp EXCEPT ![p] = "full"]
    /\ UNCHANGED <<keyfile, drawn, seed, linked, announced>>

\* Mutant: the temporary file is moved over whatever is there.
LinkOver(p) ==
    /\ step[p] = "link"
    /\ step' = [step EXCEPT ![p] = "cleanup"]
    /\ keyfile' = IF temp[p] = "full" THEN seed[p] ELSE Short
    /\ linked' = [linked EXCEPT ![p] = TRUE]
    /\ UNCHANGED <<drawn, seed, temp, announced>>

\* hard_link fails if another process was faster.
Link(p) ==
    /\ step[p] = "link"
    /\ step' = [step EXCEPT ![p] = "cleanup"]
    /\ IF keyfile = NoKey
       THEN /\ keyfile' = IF temp[p] = "full" THEN seed[p] ELSE Short
            /\ linked' = [linked EXCEPT ![p] = TRUE]
       ELSE /\ linked' = [linked EXCEPT ![p] = FALSE]
            /\ UNCHANGED keyfile
    /\ UNCHANGED <<drawn, seed, temp, announced>>

\* The temporary file goes in any case; then write_result counts.
Cleanup(p) ==
    /\ step[p] = "cleanup"
    /\ temp' = [temp EXCEPT ![p] = "absent"]
    /\ IF linked[p]
       THEN /\ step' = [step EXCEPT ![p] = "up"]
            /\ announced' = announced \cup {seed[p]}
            /\ UNCHANGED seed
       ELSE /\ step' = [step EXCEPT ![p] = "failed"]
            /\ seed' = [seed EXCEPT ![p] = NoKey]
            /\ UNCHANGED announced
    /\ UNCHANGED <<keyfile, drawn, linked>>

\* The disk fails: reading, creating and cleaning up return at once, writing
\* and linking clean up first.
DiskFails(p) ==
    /\ \/ /\ step[p] \in {"read", "create", "cleanup"}
          /\ step' = [step EXCEPT ![p] = "failed"]
          /\ seed' = [seed EXCEPT ![p] = NoKey]
          /\ temp' = [temp EXCEPT ![p] = "absent"]
          /\ UNCHANGED linked
       \/ /\ step[p] \in {"write", "link"}
          /\ step' = [step EXCEPT ![p] = "cleanup"]
          /\ linked' = [linked EXCEPT ![p] = FALSE]
          /\ UNCHANGED <<seed, temp>>
    /\ UNCHANGED <<keyfile, drawn, announced>>

\* The process ends.
NodeEnds(p) ==
    /\ step' = [step EXCEPT ![p] = "off"]
    /\ seed' = [seed EXCEPT ![p] = NoKey]
    /\ temp' = [temp EXCEPT ![p] = "absent"]
    /\ UNCHANGED <<keyfile, drawn, linked, announced>>

NodeStep(p) ==
    \/ ReadKey(p)
    \/ ReadShort(p)
    \/ ReadNothing(p)
    \/ CreateTemp(p)
    \/ WriteTemp(p)
    \/ Link(p)
    \/ Cleanup(p)

KeyNext ==
    \E p \in Processes :
        NodeNew(p) \/ Ephemeral(p) \/ NodeStep(p) \/ DiskFails(p) \/ NodeEnds(p)

KeySpec == KeyInit /\ [][KeyNext]_keyVars

---------------------------------------------------------------------------
(* Properties *)

KeyTypeOK ==
    /\ keyfile \in Nat \cup {NoKey}
    /\ drawn \in Nat
    /\ step \in [Processes -> {"off", "read", "create", "write", "link",
                               "cleanup", "up", "failed"}]
    /\ seed \in [Processes -> Seeds \cup {NoKey}]
    /\ temp \in [Processes -> {"absent", "partial", "full"}]
    /\ linked \in [Processes -> BOOLEAN]
    /\ announced \subseteq Seeds

\* Whichever processes create the key at once, and wherever they fail or die,
\* every identity a node has ever taken from the key's path is the one in the
\* file, so that peers that allow it recognise the node ever after.
KeyShared == announced \subseteq {keyfile}
===========================================================================
