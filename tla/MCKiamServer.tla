--------------------------- MODULE MCKiamServer ---------------------------
(***************************************************************************)
(* KiamServer on small instances.                                          *)
(***************************************************************************)
EXTENDS KiamServer, TLC

MCRole == CHOOSE x \in Roles : TRUE

\* Two sessions of one role, and a second role.
MCIdentities ==
  [role : Roles, session : {"s1"}] \cup [role : {MCRole}, session : {"s2"}]

\* Pods that run, with and without a role, that have no address yet, and
\* that are completed and still have theirs.
MCObjects ==
  [phase : {"Running"}, ip : IPs, namespace : Namespaces,
   identity : MCIdentities \cup {None}]
    \cup [phase : {"Pending"}, ip : {None}, namespace : Namespaces,
          identity : [role : {MCRole}, session : {"s1"}]]
    \cup [phase : {"Succeeded"}, ip : IPs, namespace : Namespaces,
          identity : [role : {MCRole}, session : {"s1"}]]

MCSymmetry == Permutations(Pods)
=============================================================================
