------------------------ MODULE CredentialsProvider ------------------------
(***************************************************************************)
(* What a CredentialsProvider (pkg/aws/sts/interfaces.go) promises to the  *)
(* callers of CredentialsForRole, without a cache, Futures or goroutines:  *)
(* the answer is an error, or credentials that STS issued for an identity  *)
(* with the key of the one asked for (SameKeySameIdentity of               *)
(* RoleIdentityProofs says when that is the same one) and that had at      *)
(* least SessionRefresh of their life left when the call was made.         *)
(***************************************************************************)
EXTENDS Integers, RoleIdentity

CONSTANTS
  Calls,            \* invocations of CredentialsForRole
  Identities,       \* the role identities that callers ask for
  SessionDuration,  \* lifetime of issued credentials
  SessionRefresh,   \* least lifetime left when they are handed out
  None              \* no identity, no answer

VARIABLES
  now,       \* the wall clock
  issued,    \* the credentials STS has issued
  status,    \* "idle", "pending", "ok" or "err", for each call
  asked,     \* the identity each call asks for
  askedAt,   \* when the call was made
  answer     \* the credentials it returned, if any

vars == <<now, issued, status, asked, askedAt, answer>>

Init ==
  /\ now = 0
  /\ issued = {}
  /\ status = [c \in Calls |-> "idle"]
  /\ asked = [c \in Calls |-> None]
  /\ askedAt = [c \in Calls |-> 0]
  /\ answer = [c \in Calls |-> None]

Ask(c, i) ==
  /\ status[c] = "idle"
  /\ status' = [status EXCEPT ![c] = "pending"]
  /\ asked' = [asked EXCEPT ![c] = i]
  /\ askedAt' = [askedAt EXCEPT ![c] = now]
  /\ UNCHANGED <<now, issued, answer>>

Issue(g) ==
  /\ g.at <= now
  /\ issued' = issued \cup {g}
  /\ UNCHANGED <<now, status, asked, askedAt, answer>>

Answer(c, g) ==
  /\ status[c] = "pending"
  /\ g \in issued
  /\ String(g.identity) = String(asked[c])
  /\ g.at + SessionDuration >= askedAt[c] + SessionRefresh
  /\ status' = [status EXCEPT ![c] = "ok"]
  /\ answer' = [answer EXCEPT ![c] = g]
  /\ UNCHANGED <<now, issued, asked, askedAt>>

Fail(c) ==
  /\ status[c] = "pending"
  /\ status' = [status EXCEPT ![c] = "err"]
  /\ UNCHANGED <<now, issued, asked, askedAt, answer>>

Tick ==
  /\ now' = now + 1
  /\ UNCHANGED <<issued, status, asked, askedAt, answer>>

Next ==
  \/ \E c \in Calls :
       \/ \E i \in Identities : Ask(c, i)
       \/ \E g \in issued : Answer(c, g)
       \/ Fail(c)
  \/ \E i \in Identities : \E t \in 0 .. now :
       Issue([identity |-> i, at |-> t])
  \/ Tick

Spec == Init /\ [][Next]_vars
=============================================================================
