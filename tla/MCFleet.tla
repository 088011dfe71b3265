------------------------------- MODULE MCFleet -------------------------------
(***************************************************************************)
(* One server, an application that runs anywhere and a model that needs a  *)
(* GPU, both of which ask for the same port of two.                        *)
(***************************************************************************)
EXTENDS Fleet

MCAllowed == [r \in Resources |-> IF r = "app" THEN ServerTypes ELSE NeedsGPU]
MCWanted == [r \in Resources |-> 1]
==============================================================================
