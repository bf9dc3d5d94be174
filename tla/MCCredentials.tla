---------------------------- MODULE MCCredentials ----------------------------
(* Instances of Credentials for TLC. *)
EXTENDS Credentials, TLC

RequestSymmetry == Permutations(Requests)
=============================================================================
