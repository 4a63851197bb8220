------------------------------- MODULE Names -------------------------------
(***************************************************************************)
(* Pure functions on names: role ARNs (pkg/aws/sts/arn_resolver.go and     *)
(* resolver_detect_arn.go) and the session name sent to STS                *)
(* (pkg/aws/sts/cache.go), with the key of a role identity.                *)
(*                                                                         *)
(* An ARN or a role is a sequence of tokens, of which "arn", ":", "/" and  *)
(* "role" mean something; a session name is a sequence of bytes.           *)
(***************************************************************************)
EXTENDS Naturals, FiniteSets, SequencesExt, RoleIdentity

TrimPrefix(s, p) == IF IsPrefix(p, s) THEN SubSeq(s, Len(p) + 1, Len(s)) ELSE s

\* The n-th smallest number of a set.
Rank(S, i) == Cardinality({j \in S : j <= i})

Nth(S, n) == CHOOSE i \in S : Rank(S, i) = n

Colons(s) == {i \in DOMAIN s : s[i] = ":"}

\* Position of the n-th colon.
Colon(s, n) == Nth(Colons(s), n)

---------------------------------------------------------------------------
(* Roles                                                                   *)

\* Mutant: the part after the account is the name.
MutRoleFromArn(arn) == SubSeq(arn, Colon(arn, 5) + 1, Len(arn))

\* arn:aws:iam::account-id:role/role-name-with-path, where path and name may
\* have colons.  There have to be five of them before.
roleFromArn(arn) ==
  TrimPrefix(SubSeq(arn, Colon(arn, 5) + 1, Len(arn)), <<"role", "/">>)

\* Mutant: a leading slash is kept in the name.
MutResolve(prefix, role) ==
  IF IsPrefix(<<"arn", ":">>, role)
    THEN [ARN |-> role, Name |-> roleFromArn(role)]
    ELSE [ARN |-> prefix \o TrimPrefix(role, <<"/">>), Name |-> role]

\* For a role that is not empty; the empty one is an error.
Resolve(prefix, role) ==
  IF IsPrefix(<<"arn", ":">>, role)
    THEN [ARN |-> role, Name |-> roleFromArn(role)]
    ELSE LET name == TrimPrefix(role, <<"/">>)
         IN  [ARN |-> prefix \o name, Name |-> name]

Equals(a, b) == a = b

\* Of arn:aws:iam::account-id:instance-profile/role-name
BaseArn(instanceProfileArn) ==
  SubSeq(instanceProfileArn, 1, Colon(instanceProfileArn, 5) - 1)
    \o <<":", "role", "/">>

---------------------------------------------------------------------------
(* Session names                                                           *)

\* Bytes: a character of the pattern [\w+=,.@-], any other character of one
\* byte, and the first and second byte of one with two.
Bytes == {"ok", "bad", "lead", "cont"}

\* The bytes at which a character starts: all but those that complete one.
CharStarts(s) ==
  {i \in DOMAIN s : ~(s[i] = "cont" /\ i > 1 /\ s[i - 1] = "lead")}

\* Each character that does not fit becomes a hyphen; half of one, too.
Coerce(s) ==
  [n \in 1..Cardinality(CharStarts(s)) |->
     IF s[Nth(CharStarts(s), n)] = "ok" THEN "ok" ELSE "hyphen"]

\* Mutants: off by one, on either side.
MutTruncate(s)      == IF Len(s) > 65 THEN SubSeq(s, 1, 63) ELSE s
MutTruncateEarly(s) == IF Len(s) >= 64 THEN SubSeq(s, 1, 63) ELSE s

Truncate(s) == IF Len(s) > 64 THEN SubSeq(s, 1, 63) ELSE s

sanitizeSessionName(s) == Coerce(Truncate(s))

\* "kiam-"
Prefix == [i \in 1..5 |-> "ok"]

\* The pod's annotation or the configured name, after the prefix.
getSessionName(configured, annotated) ==
  sanitizeSessionName(
    Prefix \o IF annotated # <<>> THEN annotated ELSE configured)
=============================================================================
