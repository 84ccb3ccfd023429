---------------------------- MODULE MCHostDaemon ----------------------------
(* A small instance of HostDaemon: complete TURN settings under the relay  *)
(* policy, and TURN without its credentials, which no connection accepts.  *)
EXTENDS HostDaemon

SomeIce ==
  {[stun |-> FALSE, turn |-> TRUE, creds |-> TRUE, policy |-> "relay"],
   [stun |-> TRUE, turn |-> TRUE, creds |-> FALSE, policy |-> "all"]}
=============================================================================
