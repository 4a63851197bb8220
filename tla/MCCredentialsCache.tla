------------------------ MODULE MCCredentialsCache ------------------------
(***************************************************************************)
(* CredentialsCache on small instances.                                    *)
(***************************************************************************)
EXTENDS CredentialsCache, TLC

Identity(arn, sessionName, externalID) ==
  [arn |-> arn, sessionName |-> sessionName, externalID |-> externalID]

MCTokens == {"arn", "|"}

MCOneIdentity == {Identity(<<"arn">>, <<>>, <<>>)}

MCSymmetry == Permutations(Calls)
=============================================================================
