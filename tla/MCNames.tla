------------------------------ MODULE MCNames ------------------------------
(***************************************************************************)
(* Names checked over bounded inputs: every initial state is an input.     *)
(***************************************************************************)
EXTENDS Names

CONSTANTS
  MaxRole,      \* longest role, in tokens
  MaxField,     \* longest field of a role identity, in tokens
  SessionLens   \* lengths of session names, in bytes

ASSUME BoundsAssumption ==
  MaxRole \in Nat /\ MaxField \in Nat /\ SessionLens \subseteq Nat

VARIABLE input

SeqsUpTo(S, n) == UNION {[1..k -> S] : k \in 0..n}

Account == <<"arn", ":", "aws", ":", "iam", ":", ":", "1", ":">>

Profile == Account \o <<"instance-profile", "/", "a">>

\* Roles as annotations give them: a name with or without path or leading
\* slash, or an ARN of this or of another account.
RoleNames == SeqsUpTo({"a", "b", "/", "role"}, MaxRole) \ {<<>>}

Roles ==
  RoleNames \cup {Account \o <<"role", "/">> \o n : n \in RoleNames}
        \cup {<<"arn", ":", "aws", ":", "iam", ":", ":", "2", ":", "role",
                "/">> \o n : n \in RoleNames}

Fields == SeqsUpTo({"a", "|"}, MaxField)

\* A role, a session name and an external id are whatever the annotations say,
\* the separator included.
Identities == [arn : Fields \ {<<>>}, sessionName : Fields, externalID : Fields]

\* Valid names, and those with one character of either other sort in them.
SessionNames ==
  LET valid(n) == [i \in 1..n |-> "ok"]
  IN  UNION {
        {valid(n)}
          \cup {[valid(n) EXCEPT ![i] = "bad"] : i \in 1..n}
          \cup {[valid(n) EXCEPT ![i] = "lead", ![i + 1] = "cont"] :
                  i \in {j \in 1..n : j < n}} : n \in SessionLens}

Init ==
  \/ input \in [kind : {"roles"}, a : Roles, b : Roles]
  \/ input \in [kind : {"keys"}, a : Identities, b : Identities]
  \/ input \in [kind : {"session"}, a : {<<>>, <<"ok", "bad">>},
                b : SessionNames]

Next == UNCHANGED input

Spec == Init /\ [][Next]_input

---------------------------------------------------------------------------
(* Properties                                                              *)

Resolved(role) == Resolve(BaseArn(Profile), role)

\* With a detected base ARN two ways to write a role are the same for
\* RequestingAnnotatedRolePolicy, which compares name and ARN, exactly if
\* they are the same ARN: neither a leading slash nor a full ARN in the
\* annotation makes a pod's own role look like another one.
SameRoleIffSameARN ==
  input.kind = "roles" =>
    (Equals(Resolved(input.a), Resolved(input.b))
       <=> Resolved(input.a).ARN = Resolved(input.b).ARN)

\* Two identities share the key under which credentials are cached only if
\* they are the same, or the separator stands in the role or the session name
\* of one of them: RoleIdentity.String() confuses no others, whatever external
\* ids contain.
KeyDeterminesIdentity ==
  /\ input.kind = "keys"
  /\ String(input.a) = String(input.b)
  => input.a = input.b \/ ~Keyable(input.a) \/ ~Keyable(input.b)

\* "Ensure the session name meets length requirements and also coerce any
\* character that doesn't meet the pattern" (sanitizeSessionName): 2 to 64
\* characters of the pattern, also when a character is cut in half.
SessionNameAccepted ==
  input.kind = "session" =>
    LET name == getSessionName(input.a, input.b)
    IN  /\ Len(name) \in 2..64
        /\ \A i \in DOMAIN name : name[i] \in {"ok", "hyphen"}

\* A session name that meets the requirements with its prefix is not changed.
SessionNameKept ==
  /\ input.kind = "session"
  /\ input.b # <<>>
  /\ Len(input.b) <= 59
  /\ \A i \in DOMAIN input.b : input.b[i] = "ok"
  => getSessionName(input.a, input.b) = Prefix \o input.b
=============================================================================
