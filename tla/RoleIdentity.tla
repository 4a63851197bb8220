--------------------------- MODULE RoleIdentity ---------------------------
(***************************************************************************)
(* Role identities, pkg/aws/sts/role_identity.go.  A string is a sequence  *)
(* of tokens; only the separator of String() is told apart from the rest.  *)
(***************************************************************************)
EXTENDS Sequences

Separator == <<"|">>

\* The identities whose fields are made of the tokens T.  NewRoleIdentity
\* takes the fields as the pod's annotations have them.
RoleIdentities(T) == [arn : Seq(T), sessionName : Seq(T), externalID : Seq(T)]

\* Mutant: session name and external id are not told apart.
MutString(i) == i.arn \o Separator \o i.sessionName \o i.externalID

\* RoleIdentity.String(): "%s|%s|%s" of role ARN, session name, external id.
String(i) ==
  i.arn \o Separator \o i.sessionName \o Separator \o i.externalID

\* The separator is in neither the role nor the session name.  Nothing in the
\* code keeps it out of either.
Keyable(i) ==
  /\ \A n \in DOMAIN i.arn : i.arn[n] # Separator[1]
  /\ \A n \in DOMAIN i.sessionName : i.sessionName[n] # Separator[1]
=============================================================================
