---------------------------- MODULE MCDynamoShim ----------------------------
(* Constants of DynamoShim for TLC. *)
EXTENDS DynamoShim

MCOneName  == {"a"}
MCTwoNames == {"a", "a-b"}
MCClaims   == {"a-b-c"}
MCClaimOf  == [n \in Names |-> "a-b-c"]
=============================================================================
