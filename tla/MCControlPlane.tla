--------------------------- MODULE MCControlPlane ---------------------------
(* Constants of ControlPlane for TLC. *)
EXTENDS ControlPlane

MCProviders == {"kaito", "dynamo"}
MCOneProvider == {"kaito"}
MCRank == [p \in Providers |-> IF p = "dynamo" THEN 2 ELSE 1]

AllKinds == {"fault", "restart", "degrade", "outage", "recreate", "edit",
             "pause", "delete", "workspace", "provider", "capability"}
=============================================================================
