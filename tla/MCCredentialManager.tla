------------------------ MODULE MCCredentialManager ------------------------
(***************************************************************************)
(* CredentialManager on small instances.                                   *)
(***************************************************************************)
EXTENDS CredentialManager

MCIdentities == {"i1", "i2"}

\* Agents ask for the first role; the second is only prefetched.
MCAsked == {"i1"}

\* Calls for the first role overlap, so that one Future replaces another or
\* is stored while the eviction of another goes on.
MCFutures == {<<"i1", 1>>, <<"i1", 2>>, <<"i2", 1>>}

\* A pod that runs under one role or the other.
MCRunning == [phase : {"Running"}, identity : MCIdentities]

\* Without agents one Future at a time is enough; pods may be completed.
MCOneFuture == MCIdentities \X {1}

MCObjects == [phase : {"Running", "Succeeded"}, identity : MCIdentities]
=============================================================================
