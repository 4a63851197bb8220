------------------------------- MODULE Agent -------------------------------
(***************************************************************************)
(* The agent's HTTP handlers (pkg/aws/metadata) and the gateway below them *)
(* (pkg/server/gateway.go): what becomes of a pod's request while the      *)
(* server comes and goes and gets to know the pod.                         *)
(*                                                                         *)
(* Handlers repeat a failed call with growing pauses as long as the next   *)
(* one comes before the context of the request ends, five seconds after it *)
(* arrived or when the client goes away; the gateway itself does not retry *)
(* (kMaxRetries is 0).  A call has no time-out but that context: one on a  *)
(* connection that is dead hangs, although the server may be back.         *)
(***************************************************************************)
EXTENDS Naturals

CONSTANTS
  Requests,     \* HTTP requests, each with a connection of its own
  FiveSeconds   \* number of ticks in five seconds

ASSUME AgentAssumption == FiveSeconds \in Nat \ {0}

handlerMaxDuration == FiveSeconds

VARIABLES
  server,   \* what a call about the pod that is made now would meet
  pc,       \* control point of each request
  kind,     \* what is asked for
  elapsed,  \* time since ServeHTTP
  wait,     \* time left of the pause before the next attempt
  gone,     \* the client has closed the connection
  cause,    \* history: why the request cannot be granted
  good      \* history: since when the server could answer an attempt

agentVars == <<server, pc, kind, elapsed, wait, gone, cause, good>>
historyVars == <<cause, good>>

\* The server is unreachable or fails, or its connection is dead; does not
\* know the pod yet; knows it without a role; refuses the role; grants it.
ServerStates == {"down", "unknown", "norole", "forbids", "grants"}

\* "other" asks neither the server nor the metadata API.
Kinds == {"role", "credentials", "deep", "health", "proxy", "other"}

\* Answered; cut off by the end of the process; lost with the process or the
\* connection.
Answered == {"200", "404", "500", "cut", "lost"}
Working  == {"call", "hung", "backoff", "meta"}

\* The client's address is malformed; the server's policy refuses the role.
Causes == {"none", "address", "forbidden"}

Ticks == 0..FiveSeconds

\* good is FiveSeconds + 1 when the server is not able to answer, and while
\* a call hangs.
Never == FiveSeconds + 1

AgentTypeOK ==
  /\ server \in ServerStates
  /\ pc \in [Requests -> {"idle", "connected"} \cup Working \cup Answered]
  /\ kind \in [Requests -> Kinds]
  /\ elapsed \in [Requests -> Ticks]
  /\ wait \in [Requests -> Ticks]
  /\ gone \in [Requests -> BOOLEAN]
  /\ cause \in [Requests -> Causes]
  /\ good \in [Requests -> 0..Never]

AgentInit ==
  /\ server \in ServerStates
  /\ pc = [r \in Requests |-> "idle"]
  /\ kind = [r \in Requests |-> "other"]
  /\ elapsed = [r \in Requests |-> 0]
  /\ wait = [r \in Requests |-> 0]
  /\ gone = [r \in Requests |-> FALSE]
  /\ cause = [r \in Requests |-> "none"]
  /\ good = [r \in Requests |-> Never]

AgentStart ==
  /\ pc' = [r \in Requests |-> "idle"]
  /\ kind' = [r \in Requests |-> "other"]
  /\ elapsed' = [r \in Requests |-> 0]
  /\ wait' = [r \in Requests |-> 0]
  /\ gone' = [r \in Requests |-> FALSE]
  /\ cause' = [r \in Requests |-> "none"]
  /\ good' = [r \in Requests |-> Never]
  /\ UNCHANGED server

---------------------------------------------------------------------------
(* The gateway                                                             *)

AsksServer(k) == k \in {"role", "credentials", "deep"}

\* What a call returns.  An empty role is an answer.
GetRole(s) ==
  CASE s \in {"forbids", "grants"} -> "ok"
    [] s = "norole"                -> "empty"
    [] s \in {"down", "unknown"}   -> "error"

\* A refusal is recognised by its message.
GetCredentials(s) ==
  CASE s = "grants"                         -> "ok"
    [] s = "forbids"                        -> "forbidden"
    [] s \in {"down", "unknown", "norole"}  -> "error"

Health(s) == IF s = "down" THEN "error" ELSE "ok"

Reply(k, s) ==
  CASE k = "role"        -> GetRole(s)
    [] k = "credentials" -> GetCredentials(s)
    [] k = "deep"        -> Health(s)

Able(k, s) == AsksServer(k) /\ Reply(k, s) = "ok"

---------------------------------------------------------------------------
(* The environment                                                         *)

\* History: since when the server has been able to answer request r, which
\* a call that hangs does not notice.
Watch(r, s) ==
  IF pc[r] \notin {"call", "backoff"} THEN good[r]
  ELSE IF ~Able(kind[r], s) THEN Never
  ELSE IF good[r] = Never THEN elapsed[r] ELSE good[r]

ServerChanges(s) ==
  /\ s # server
  /\ server' = s
  /\ good' = [r \in Requests |-> Watch(r, s)]
  /\ UNCHANGED <<pc, kind, elapsed, wait, gone, cause>>

ClientGone(r) ==
  /\ pc[r] \in Working
  /\ ~gone[r]
  /\ gone' = [gone EXCEPT ![r] = TRUE]
  /\ UNCHANGED <<server, pc, kind, elapsed, wait, historyVars>>

---------------------------------------------------------------------------
(* The handlers                                                            *)

Goto(r, label) == pc' = [pc EXCEPT ![r] = label]

Connect(r) ==
  /\ pc[r] = "idle"
  /\ Goto(r, "connected")
  /\ UNCHANGED <<server, kind, elapsed, wait, gone, historyVars>>

\* A connection on which no request has come is closed.
Disconnect(r) ==
  /\ pc[r] = "connected"
  /\ Goto(r, "lost")
  /\ UNCHANGED <<server, kind, elapsed, wait, gone, historyVars>>

\* buildHTTPServer's router chooses the handler and ServeHTTP starts the
\* request's clock.
ServeHTTP(r, k) ==
  /\ pc[r] = "connected"
  /\ kind' = [kind EXCEPT ![r] = k]
  /\ \/ AsksServer(k) /\ Goto(r, "call")
     \/ k \in {"health", "proxy"} /\ Goto(r, "meta")
  /\ good' = [good EXCEPT ![r] = IF Able(k, server) THEN 0 ELSE Never]
  /\ UNCHANGED <<server, elapsed, wait, gone, cause>>

AnswerAtOnce(r, a) ==
  /\ pc[r] = "connected"
  /\ Goto(r, a)
  /\ UNCHANGED <<server, kind, elapsed, wait, gone, historyVars>>

\* ping, and the redirect to the role's path or its error
Immediate(r) == \E a \in {"200", "500"} : AnswerAtOnce(r, a)

\* The form or the client's address of a request for a role or credentials
\* does not parse.
getClientIPError(r) ==
  /\ pc[r] = "connected"
  /\ \E k \in {"role", "credentials"} : kind' = [kind EXCEPT ![r] = k]
  /\ Goto(r, "500")
  /\ cause' = [cause EXCEPT ![r] = "address"]
  /\ UNCHANGED <<server, elapsed, wait, gone, good>>

\* The proxy handler does not let the route through.
Blocked(r) == AnswerAtOnce(r, "404")

\* The context that ServeHTTP makes is done.
Done(r) == gone[r] \/ elapsed[r] >= handlerMaxDuration

\* backoff.ExponentialBackOff from 5 ms by 1.5, each pause up to half as long
\* again at random: after the time t the next pause is at most 1.5 t + 7.5 ms,
\* so what starts within tick e is repeated by tick 2.5 (e + 1).
NextAttempt(e) == (5 * (e + 1)) \div 2

Pauses(r) == {w \in Ticks : elapsed[r] + w <= NextAttempt(elapsed[r])}

Answer(r, label) == Goto(r, label) /\ UNCHANGED wait

Pause(r, w) == Goto(r, "backoff") /\ wait' = [wait EXCEPT ![r] = w]

\* Mutant: a pause may last beyond the end of the context.
MutAgain(r) ==
  IF Done(r) THEN Answer(r, "500") ELSE \E w \in Pauses(r) : Pause(r, w)

\* backoff.Retry: a call has failed.  NextBackOff stops when the context is
\* done, or will be before the next pause is over.
Again(r) ==
  IF Done(r) THEN Answer(r, "500")
  ELSE \E w \in Pauses(r) :
         IF elapsed[r] + w >= handlerMaxDuration THEN Answer(r, "500")
                                                 ELSE Pause(r, w)

\* Mutant: any error is taken for a refusal.
MutErrorPermanent(reply) == reply # "ok"

Permanent(reply) == reply = "forbidden"

\* The credentials handler: GetCredentials returns to fetchCredentials.  What
\* it returns may be impossible to send when the client is gone.
FetchCredentials(r) ==
  LET reply == GetCredentials(server)
  IN  /\ pc[r] = "call"
      /\ kind[r] = "credentials"
      /\ cause' = [cause EXCEPT ![r] =
                     IF reply = "forbidden" THEN "forbidden" ELSE @]
      /\ \/ reply = "ok" /\ Answer(r, "200")
         \/ reply = "ok" /\ gone[r] /\ Answer(r, "500")
         \/ Permanent(reply) /\ Answer(r, "500")
         \/ reply # "ok" /\ ~Permanent(reply) /\ Again(r)
      /\ UNCHANGED <<server, kind, elapsed, gone, good>>

\* The role handler: GetRole returns to findRole.
FindRole(r) ==
  LET reply == GetRole(server)
  IN  /\ pc[r] = "call"
      /\ kind[r] = "role"
      /\ \/ reply = "ok" /\ Answer(r, "200")
         \/ reply = "empty" /\ Answer(r, "404")
         \/ reply = "error" /\ Again(r)
      /\ UNCHANGED <<server, kind, elapsed, gone, historyVars>>

\* Mutant: the error of the server's health check is not looked at.
MutFindServerHealth(r) ==
  /\ pc[r] = "call"
  /\ kind[r] = "deep"
  /\ Answer(r, "meta")
  /\ UNCHANGED <<server, kind, elapsed, gone, historyVars>>

\* The health handler: Health returns to findServerHealth.  The handler also
\* fails on an answer other than "ok", which the server never gives.
FindServerHealth(r) ==
  /\ pc[r] = "call"
  /\ kind[r] = "deep"
  /\ IF Health(server) = "ok" THEN Answer(r, "meta") ELSE Again(r)
  /\ UNCHANGED <<server, kind, elapsed, gone, historyVars>>

\* A call meets a dead connection or a server that does not answer: it stays
\* where it is although the server may come back.
Hang(r) ==
  /\ pc[r] = "call"
  /\ server = "down"
  /\ Goto(r, "hung")
  /\ UNCHANGED <<server, kind, elapsed, wait, gone, historyVars>>

\* It returns after all, with the server's answer or with an error.
Unhang(r) ==
  /\ pc[r] = "hung"
  /\ Answer(r, "call") \/ Again(r)
  /\ good' = [good EXCEPT ![r] =
                IF pc'[r] # "500" /\ Able(kind[r], server) THEN elapsed[r]
                                                           ELSE Never]
  /\ UNCHANGED <<server, kind, elapsed, gone, cause>>

\* backoff.Retry: the pause is over, the operation is tried again.
Retry(r) ==
  /\ pc[r] = "backoff"
  /\ wait[r] = 0
  /\ Goto(r, "call")
  /\ UNCHANGED <<server, kind, elapsed, wait, gone, historyVars>>

\* Mutant: calls are made without the context.
MutGiveUp(r) ==
  /\ pc[r] = "backoff"
  /\ Done(r)
  /\ Goto(r, "500")
  /\ UNCHANGED <<server, kind, elapsed, wait, gone, historyVars>>

\* The context ends a call, a pause or a request to the metadata API.  A
\* proxied request carries the client's context only.
GiveUp(r) ==
  /\ pc[r] \in Working
  /\ IF kind[r] = "proxy" THEN gone[r] ELSE Done(r)
  /\ Goto(r, "500")
  /\ wait' = [wait EXCEPT ![r] = 0]
  /\ UNCHANGED <<server, kind, elapsed, gone, historyVars>>

\* The metadata API answers a health check, or the request to it fails.
CheckMetadata(r) ==
  /\ pc[r] = "meta"
  /\ kind[r] # "proxy"
  /\ \E a \in {"200", "500"} : Goto(r, a)
  /\ UNCHANGED <<server, kind, elapsed, wait, gone, historyVars>>

\* A proxied request gets whatever status the metadata API sends.
Proxied(r) ==
  /\ pc[r] = "meta"
  /\ kind[r] = "proxy"
  /\ \E a \in {"200", "404", "500"} : Goto(r, a)
  /\ UNCHANGED <<server, kind, elapsed, wait, gone, historyVars>>

HandlerStep(r) ==
  FetchCredentials(r) \/ FindRole(r) \/ FindServerHealth(r)
    \/ Retry(r) \/ GiveUp(r)

---------------------------------------------------------------------------
(* Time                                                                    *)

Timed(r) == pc[r] \in Working /\ kind[r] # "proxy"

\* What is due is done before time goes on: an able server answers a call
\* that does not hang, a pause or a context ends.
HandlerDue(r) ==
  \/ pc[r] = "call" /\ Able(kind[r], server)
  \/ pc[r] = "backoff" /\ wait[r] = 0
  \/ Timed(r) /\ Done(r)

HandlerTick ==
  /\ \A r \in Requests : ~HandlerDue(r)
  /\ elapsed' = [r \in Requests |->
                   IF Timed(r) THEN elapsed[r] + 1 ELSE elapsed[r]]
  /\ wait' = [r \in Requests |->
                IF pc[r] = "backoff" THEN wait[r] - 1 ELSE wait[r]]
  /\ UNCHANGED <<server, pc, kind, gone, historyVars>>

---------------------------------------------------------------------------
(* Properties                                                              *)

\* A role or credentials are denied with an error only when the request is
\* malformed, the server's policy refuses the role, the client is gone, or so
\* much time has passed that another pause of the backoff could last beyond
\* the deadline: until then a handler does not give up, whatever fails.
FailsOnlyForCause ==
  \A r \in Requests :
    /\ pc[r] = "500"
    /\ kind[r] \in {"role", "credentials"}
    => \/ cause[r] # "none"
       \/ gone[r]
       \/ NextAttempt(elapsed[r]) >= handlerMaxDuration

\* "will only return ok if the agent is up AND it can communicate with Kiam
\* server successfully" (CHANGELOG, 3.4, of the deep health check): when a
\* request that asks the server is answered well, the server was able to.
OkOnlyFromServer ==
  \A r \in Requests :
    pc[r] = "200" /\ AsksServer(kind[r]) => good[r] # Never

\* A pod that the server gets to know, or a server that comes back, before
\* the deadline of a request that is still being tried is in time for it,
\* however long the pauses have grown: no pause outlasts the deadline, so the
\* request does not fail.  A call that hangs is no attempt that could notice.
RecoveryInTime ==
  \A r \in Requests :
    /\ pc[r] = "500"
    /\ kind[r] \in {"role", "credentials"}
    /\ ~gone[r]
    => cause[r] # "none" \/ good[r] >= handlerMaxDuration
=============================================================================
