-------------------------- MODULE MCAgentProcess --------------------------
(***************************************************************************)
(* AgentProcess on small instances.                                        *)
(***************************************************************************)
EXTENDS AgentProcess

\* The flags as deployed, and without removal or without the rule.
MCOptions ==
  {[iptables |-> TRUE, iptablesRemove |-> TRUE],
   [iptables |-> TRUE, iptablesRemove |-> FALSE],
   [iptables |-> FALSE, iptablesRemove |-> TRUE]}
=============================================================================
