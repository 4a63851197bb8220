---------------------------- MODULE KiamServer ----------------------------
(***************************************************************************)
(* The gRPC handlers GetPodCredentials and GetPodRole of                   *)
(* pkg/server/server.go with the policies of pkg/server/policy.go, over    *)
(* the pod cache and the namespace cache (pkg/k8s/namespace_cache.go).     *)
(*                                                                         *)
(* A handler finds the pod, decides on its snapshot, looks the namespace   *)
(* up and asks for credentials, one after the other, while two watches     *)
(* change the two caches independently.                                    *)
(*                                                                         *)
(* A role is the ARN its name resolves to; an identity is a role and the   *)
(* rest of the annotations (session name, external id).  The regular       *)
(* expression of a namespace is the set of roles it matches.  Logs and the *)
(* Kubernetes events recorded for errors are left out.                     *)
(***************************************************************************)
EXTENDS PodCache

CONSTANTS
  Requests,    \* gRPC requests
  IPs,         \* addresses of pods
  Roles,       \* role ARNs
  Sessions,    \* session names and external ids
  Namespaces   \* names of namespaces

Identities == [role : Roles, session : Sessions]

\* A namespace's annotation: missing, no regular expression, or one that
\* matches some roles.
Annotations ==
  [kind : {"empty", "invalid"}, roles : {{}}]
    \cup [kind : {"regexp"}, roles : SUBSET Roles]

ASSUME ServerAssumption ==
  /\ None \notin Roles
  /\ None \notin Identities
  /\ None \notin Annotations
  /\ \A o \in Objects :
       /\ o.ip \in IPs \cup {None}
       /\ o.namespace \in Namespaces
       /\ o.identity \in Identities \cup {None}

VARIABLES
  namespaces,  \* the namespace cache: annotation of each namespace, or None
  pc,          \* control point of each request
  ip,          \* argument Ip of the request
  role,        \* argument Role of the request; None is the empty string
  pod,         \* the object that GetPodByIP returned
  answer,      \* the identity whose credentials, or the role, was returned
  owned,       \* history: objects that alone had the address during the request
  permitted,   \* history: namespaces that permitted a role during the request
  entitled     \* history: the object that was entitled to the requested role
               \* throughout the request, if there is one

vars == <<pods, announced, namespaces, pc, ip, role, pod, answer, owned,
          permitted, entitled>>

requestVars == <<pc, ip, role, pod, answer>>
historyVars == <<owned, permitted, entitled>>

Answered ==
  {"ok", "role", "notFound", "error", "forbidden", "failed", "panic", "lost"}

TypeOK ==
  /\ PodTypeOK
  /\ namespaces \in [Namespaces -> Annotations \cup {None}]
  /\ pc \in [Requests -> {"idle", "find", "findRole", "annotated",
                          "namespace", "provider"} \cup Answered]
  /\ ip \in [Requests -> IPs \cup {None}]
  /\ role \in [Requests -> Roles \cup {None}]
  /\ pod \in [Requests -> Objects \cup {None}]
  /\ answer \in [Requests -> Identities \cup {None}]
  /\ owned \in [Requests -> SUBSET Objects]
  /\ permitted \in [Requests -> SUBSET (Namespaces \X Roles)]
  /\ entitled \in [Requests -> SUBSET Objects]

Init ==
  /\ PodInit
  /\ namespaces = [n \in Namespaces |-> None]
  /\ pc = [r \in Requests |-> "idle"]
  /\ ip = [r \in Requests |-> None]
  /\ role = [r \in Requests |-> None]
  /\ pod = [r \in Requests |-> None]
  /\ answer = [r \in Requests |-> None]
  /\ owned = [r \in Requests |-> {}]
  /\ permitted = [r \in Requests |-> {}]
  /\ entitled = [r \in Requests |-> {}]

---------------------------------------------------------------------------
(* The caches change                                                       *)

\* podIPIndex and findPodForIP
PodsForIP(a) ==
  {p \in Pods : /\ pods[p] # None
                /\ ~IsPodCompleted(pods[p])
                /\ pods[p].ip = a}

SoleOwner(a) ==
  {pods[p] : p \in {q \in Pods : PodsForIP(a) = {q}}}

Permissions ==
  {nx \in Namespaces \X Roles :
     namespaces[nx[1]] # None /\ nx[2] \in namespaces[nx[1]].roles}

\* The object that alone has the address, if it is annotated with the role
\* and its namespace permits that.
EntitledTo(a, x) ==
  {o \in SoleOwner(a) :
     HasRole(o) /\ o.identity.role = x /\ <<o.namespace, x>> \in Permissions}

Running(r) == pc[r] \notin Answered \cup {"idle"}

\* Every running request sees the new contents of the caches.
Observe ==
  /\ owned' = [r \in Requests |->
       owned[r] \cup IF Running(r) THEN SoleOwner(ip[r])' ELSE {}]
  /\ permitted' = [r \in Requests |->
       permitted[r] \cup IF Running(r) THEN Permissions' ELSE {}]
  /\ entitled' = [r \in Requests |->
       IF Running(r) THEN entitled[r] \cap EntitledTo(ip[r], role[r])'
       ELSE entitled[r]]

PodEvent ==
  /\ \/ \E p \in Pods, o \in Objects : OnAdd(p, o) \/ OnUpdate(p, o)
     \/ \E p \in Pods : OnDelete(p)
  /\ UNCHANGED <<namespaces, requestVars>>
  /\ Observe

NamespaceEvent ==
  /\ \E n \in Namespaces, a \in Annotations \cup {None} :
       a # namespaces[n] /\ namespaces' = [namespaces EXCEPT ![n] = a]
  /\ UNCHANGED <<podVars, requestVars>>
  /\ Observe

---------------------------------------------------------------------------
(* The handlers                                                            *)

Goto(r, label) == pc' = [pc EXCEPT ![r] = label]

Arrive(r, a, label) ==
  /\ pc[r] = "idle"
  /\ Goto(r, label)
  /\ ip' = [ip EXCEPT ![r] = a]
  /\ owned' = [owned EXCEPT ![r] = SoleOwner(a)]
  /\ permitted' = [permitted EXCEPT ![r] = Permissions]
  /\ UNCHANGED <<podVars, namespaces, pod, answer>>

RequestCredentials(r, a, x) ==
  /\ Arrive(r, a, "find")
  /\ role' = [role EXCEPT ![r] = x]
  /\ entitled' = [entitled EXCEPT ![r] = EntitledTo(a, x)]

RequestRole(r, a) ==
  /\ Arrive(r, a, "findRole")
  /\ UNCHANGED <<role, entitled>>

\* GetPodByIP finds exactly one uncompleted pod.
GetPodByIP(r, p) == PodsForIP(ip[r]) = {p}

\* Mutant: off by one.
MutMultiple(found) == found # {}

Multiple(found) == \E p, q \in found : p # q

\* Or none, or several: ErrPodNotFound, ErrMultipleRunningPods.
GetPodByIPError(r) ==
  /\ pc[r] \in {"find", "findRole"}
  /\ \/ PodsForIP(ip[r]) = {} /\ Goto(r, "notFound")
     \/ Multiple(PodsForIP(ip[r])) /\ Goto(r, "error")
  /\ UNCHANGED <<podVars, namespaces, ip, role, pod, answer, historyVars>>

FindPod(r) ==
  /\ pc[r] = "find"
  /\ \E p \in Pods :
       GetPodByIP(r, p) /\ pod' = [pod EXCEPT ![r] = pods[p]]
  /\ Goto(r, "annotated")
  /\ UNCHANGED <<podVars, namespaces, ip, role, answer, historyVars>>

\* GetPodRole returns the annotation, which may be empty.
GetPodRole(r) ==
  /\ pc[r] = "findRole"
  /\ \E p \in Pods :
       /\ GetPodByIP(r, p)
       /\ answer' = [answer EXCEPT ![r] = pods[p].identity]
  /\ Goto(r, "role")
  /\ UNCHANGED <<podVars, namespaces, ip, role, pod, historyVars>>

\* RequestingAnnotatedRolePolicy: an empty role does not resolve.
AnnotatedRolePolicy(r) ==
  /\ pc[r] = "annotated"
  /\ Goto(r, IF ~HasRole(pod[r]) \/ role[r] = None THEN "error"
             ELSE IF pod[r].identity.role = role[r] THEN "namespace"
             ELSE "forbidden")
  /\ UNCHANGED <<podVars, namespaces, ip, role, pod, answer, historyVars>>

\* Mutant: no annotation, no restriction.
MutPermits(a, x) == a.kind = "empty" \/ x \in a.roles

Permits(a, x) == a.kind # "empty" /\ x \in a.roles

\* NamespacePermittedRoleNamePolicy
NamespacePolicy(r) ==
  LET annotation == namespaces[pod[r].namespace]
  IN  /\ pc[r] = "namespace"
      /\ annotation # None
      /\ Goto(r, IF annotation.kind = "invalid" THEN "error"
                 ELSE IF Permits(annotation, role[r]) THEN "provider"
                 ELSE "forbidden")
      /\ UNCHANGED <<podVars, namespaces, ip, role, pod, answer, historyVars>>

\* FindNamespace returns nil for a namespace it does not know, and the
\* policy reads its annotations: the process panics, and with it go all
\* requests it is serving.  Requests still idle are for the next process.
NamespaceUnknown(r) ==
  /\ pc[r] = "namespace"
  /\ namespaces[pod[r].namespace] = None
  /\ pc' = [q \in Requests |->
              IF q = r THEN "panic" ELSE IF Running(q) THEN "lost" ELSE pc[q]]
  /\ UNCHANGED <<podVars, namespaces, ip, role, pod, answer, historyVars>>

\* Mutant: the rest of the identity comes from the pod that has the address
\* by now.
MutIdentity(r) ==
  IF \E p \in Pods : GetPodByIP(r, p) /\ HasRole(pods[p])
    THEN [(CHOOSE o \in SoleOwner(ip[r]) : TRUE).identity
            EXCEPT !.role = role[r]]
    ELSE [pod[r].identity EXCEPT !.role = role[r]]

\* NewRoleIdentity of the requested role and the snapshot's annotations
Identity(r) == [pod[r].identity EXCEPT !.role = role[r]]

\* The provider answers for the identity asked for (CredentialsProvider) ...
CredentialsForRole(r) ==
  /\ pc[r] = "provider"
  /\ answer' = [answer EXCEPT ![r] = Identity(r)]
  /\ Goto(r, "ok")
  /\ UNCHANGED <<podVars, namespaces, ip, role, pod, historyVars>>

\* ... or fails.
CredentialsError(r) ==
  /\ pc[r] = "provider"
  /\ Goto(r, "failed")
  /\ UNCHANGED <<podVars, namespaces, ip, role, pod, answer, historyVars>>

HandlerStep(r) ==
  \/ GetPodByIPError(r) \/ FindPod(r) \/ GetPodRole(r)
  \/ AnnotatedRolePolicy(r)
  \/ NamespacePolicy(r) \/ NamespaceUnknown(r)
  \/ CredentialsForRole(r) \/ CredentialsError(r)

Next ==
  \/ PodEvent
  \/ NamespaceEvent
  \/ \E r \in Requests :
       \/ \E a \in IPs :
            \/ \E x \in Roles \cup {None} : RequestCredentials(r, a, x)
            \/ RequestRole(r, a)
       \/ HandlerStep(r)

Spec == Init /\ [][Next]_vars

---------------------------------------------------------------------------
(* Properties                                                              *)

\* Credentials are for the role and the annotations that one pod had while it
\* alone had the address, and for a role its namespace permitted, both at
\* some moment of the request: a pod or a permission that was gone before the
\* request arrived is never used, nor are two pods' annotations mixed.  The
\* role that GetPodRole returns is such a pod's, too.
GrantedDuringRequest ==
  \A r \in Requests :
    /\ pc[r] = "ok" =>
         \E o \in owned[r] :
           /\ answer[r] = o.identity
           /\ <<o.namespace, answer[r].role>> \in permitted[r]
    /\ pc[r] = "role" => \E o \in owned[r] : answer[r] = o.identity

\* The converse: a pod that has the address to itself and stays annotated with
\* the requested role, in a namespace that keeps permitting it, is not turned
\* away by the lookup or by a policy, whatever else changes meanwhile.  Only
\* the provider may fail it, or another request's panic take it along.
EntitledNotRefused ==
  \A r \in Requests :
    entitled[r] # {} =>
      pc[r] \notin {"notFound", "error", "forbidden", "panic"}

\* "Without the namespace annotation the pod will be unable to assume any
\* roles" (README): the request of a pod whose namespace shows no annotation
\* is answered, by a refusal, and does not bring the server down.
RefusedWithoutAnnotation == \A r \in Requests : pc[r] # "panic"
=============================================================================
