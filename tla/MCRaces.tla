------------------------------ MODULE MCRaces ------------------------------
(***************************************************************************)
(* The components in which threads or programs meet between the steps of a *)
(* function: the Contexts of processes, synchronous calls, and the values  *)
(* of a registry key.  They share no state, so a behaviour interleaves the *)
(* steps of one of them, while the others stay as they began.              *)
(*                                                                         *)
(*   Contexts    two threads of one process and one each of two others.    *)
(*   SynchCalls  three threads of one process, of which signals reach two. *)
(*   Registry    two programs, and texts of which two have one size and    *)
(*               one is longer, so that a value can change, grow and       *)
(*               shrink between the two queries.                           *)
(***************************************************************************)
EXTENDS Contexts, SynchCalls, Registry, TLC

CONSTANTS p1, p2, p3, a1, a2, b1, c1

VARIABLE part           \* the component at work

MCProcOf == a1 :> p1 @@ a2 :> p1 @@ b1 :> p2 @@ c1 :> p3

MCTexts == {"on", "no", "off"}
MCSize == [t \in MCTexts |-> IF t = "off" THEN 4 ELSE 3]

MCInit ==
    /\ part \in {"Contexts", "SynchCalls", "Registry"}
    /\ ContextsInit /\ CallsInit /\ RegistryInit

MCNext ==
    /\ UNCHANGED part
    /\ \/ part = "Contexts" /\ ContextsNext /\ UNCHANGED <<callVars, registryVars>>
       \/ part = "SynchCalls" /\ CallsNext /\ UNCHANGED <<contextVars, registryVars>>
       \/ part = "Registry" /\ RegistryNext /\ UNCHANGED <<contextVars, callVars>>

MCSpec == MCInit /\ [][MCNext]_<<part, contextVars, callVars, registryVars>>
=============================================================================
