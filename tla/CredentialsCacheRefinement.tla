-------------------- MODULE CredentialsCacheRefinement --------------------
(***************************************************************************)
(* The credentials cache implements CredentialsProvider.  A history        *)
(* variable records when each call was made; everything else the abstract  *)
(* specification talks about is a function of the cache's state.           *)
(***************************************************************************)
EXTENDS CredentialsCache

VARIABLE askedAt

varsR == <<vars, askedAt>>

InitR == Init /\ askedAt = [c \in Calls |-> 0]

RecordAsked ==
  askedAt' = [c \in Calls |->
                IF pc[c] = "idle" /\ pc'[c] # "idle" THEN now ELSE askedAt[c]]

NextR == Next /\ RecordAsked

SpecR == InitR /\ [][NextR]_varsR

FairSpecR == SpecR /\ Fairness

---------------------------------------------------------------------------
(* The refinement mapping                                                  *)

\* The credentials a settled Future carries.
CredentialsOf(f) == [identity |-> identity[f], at |-> issuedAt[f]]

Issued == {CredentialsOf(f) : f \in {g \in Calls : future[g] = "ok"}}

Status == [c \in Calls |->
             IF pc[c] \in {"idle", "ok", "err"} THEN pc[c] ELSE "pending"]

Answered == [c \in Calls |->
               IF pc[c] = "ok" THEN CredentialsOf(held[c]) ELSE None]

Provider == INSTANCE CredentialsProvider WITH
  issued <- Issued, status <- Status, asked <- identity, answer <- Answered

\* Every call of CredentialsForRole is answered as CredentialsProvider says:
\* by an error, or by credentials issued for an identity with the key of the
\* one it asked for that had session-refresh of their life left when it asked.
ImplementsProvider == Provider!Spec
=============================================================================
