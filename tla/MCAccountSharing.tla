-------------------------- MODULE MCAccountSharing --------------------------
(* Instances of AccountSharing.  MaxStarts bounds how often each command   *)
(* is started.                                                             *)
EXTENDS AccountSharing, TLC

CONSTANTS MaxInvites, MaxRevokes, MaxJoins, MaxRequests

MaxStarts ==
    [invite |-> MaxInvites, revoke |-> MaxRevokes,
     join |-> MaxJoins, request |-> MaxRequests]

Symmetric == Permutations(Shells) \cup Permutations(Labels)
=============================================================================
