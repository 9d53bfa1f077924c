----------------------------- MODULE MCChatStore -----------------------------
(* ChatStore on small instances.                                           *)
EXTENDS ChatStore, TLC

ReplicaSymmetry == Permutations(Replicas)

=============================================================================
