-------------------------- MODULE MCPolicyWatcher --------------------------
(***************************************************************************)
(* PolicyWatcher with two policies of one tenant, one of another, and a    *)
(* text that does not compile.                                             *)
(***************************************************************************)
EXTENDS PolicyWatcher

CONSTANTS v1, v2, v3, bad, dev, acme, h1, h2, h3, h4

MCVersions == {v1, v2, v3, bad}
MCTenantOf == [v \in MCVersions |-> IF v = v3 THEN acme ELSE dev]
MCContentVersion ==
    [v \in MCVersions |-> CASE v = v1 -> h1 [] v = v2 -> h2 [] v = v3 -> h3 [] v = bad -> h4]
=============================================================================
