------------------------ MODULE MCTaskRegistration ------------------------
(* One task, its proposer and another; one request of PKH at a time.      *)
EXTENDS TaskRegistration, TLC

CONSTANTS t1, ann, bob

MCOwner == t1 :> ann
=============================================================================
