------------------- MODULE MCCredentialsCacheRefinement -------------------
(***************************************************************************)
(* CredentialsCacheRefinement on a small instance.                         *)
(***************************************************************************)
EXTENDS CredentialsCacheRefinement

MCTokens == {"arn", "|"}

Identity(arn, sessionName, externalID) ==
  [arn |-> arn, sessionName |-> sessionName, externalID |-> externalID]

\* Two pods with the same role, one of them with an external id that contains
\* the separator.
MCIdentities ==
  {Identity(<<"arn">>, <<>>, <<>>), Identity(<<"arn">>, <<>>, <<"|">>)}
=============================================================================
