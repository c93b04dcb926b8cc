---------------------------- MODULE MCDiscovery ----------------------------
(* Two peers that may share urls with each other and the configuration.    *)
EXTENDS Discovery, TLC

CONSTANTS n1, n2,            \* peers
          conf, lan1, lan2   \* a configured url and two others

MCNames == {n1, n2}
MCUrls == {conf, lan1, lan2}
MCConfigured == {conf}
===========================================================================
