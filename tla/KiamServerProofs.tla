------------------------- MODULE KiamServerProofs -------------------------
(***************************************************************************)
(* What GetPodCredentials grants, for any pods, requests, roles and        *)
(* namespaces.                                                             *)
(***************************************************************************)
EXTENDS KiamServer, TLAPS

---------------------------------------------------------------------------
(* The inductive invariant                                                 *)

\* The history of a running request contains the present.
HistoryIsCurrent ==
  \A r \in Requests : Running(r) =>
    /\ SoleOwner(ip[r]) \subseteq owned[r]
    /\ Permissions \subseteq permitted[r]

\* The snapshot is of a pod that alone had the address during the request.
SnapshotOwned ==
  \A r \in Requests :
    pc[r] \in {"annotated", "namespace", "provider"} => pod[r] \in owned[r]

\* Past the first policy the requested role is the annotated one.
RoleAnnotated ==
  \A r \in Requests :
    pc[r] \in {"namespace", "provider"} =>
      pod[r].identity # None /\ pod[r].identity.role = role[r]

\* Past the second one it was permitted during the request.
RolePermitted ==
  \A r \in Requests :
    pc[r] = "provider" => <<pod[r].namespace, role[r]>> \in permitted[r]

GInv ==
  /\ TypeOK
  /\ HistoryIsCurrent
  /\ SnapshotOwned
  /\ RoleAnnotated
  /\ RolePermitted
  /\ GrantedDuringRequest

\* Nothing runs before the first request.
LEMMA InitGInv == Init => GInv
<1> SUFFICES ASSUME Init PROVE GInv
  OBVIOUS
<1>1. TypeOK
  BY PodCacheAssumption DEF Init, PodInit, TypeOK, PodTypeOK
<1>2. \A r \in Requests : pc[r] = "idle"
  BY DEF Init
<1> QED
  BY <1>1, <1>2 DEF GInv, HistoryIsCurrent, SnapshotOwned, RoleAnnotated,
                    RolePermitted, GrantedDuringRequest, Running

\* An announcement never exceeds the channel.
LEMMA AnnounceType ==
  ASSUME PodTypeOK, NEW o \in Objects, announce(o)
  PROVE  announced' \in Seq(Objects) /\ Len(announced') <= PrefetchBufferSize
BY PodCacheAssumption DEF PodTypeOK, announce, Full

\* An event of the watch on pods preserves the type of the pod cache.
LEMMA PodEventType ==
  ASSUME PodTypeOK, PodEvent
  PROVE  PodTypeOK'
<1>1. CASE \E p \in Pods, o \in Objects : OnAdd(p, o)
  BY <1>1, AnnounceType DEF OnAdd, PodTypeOK
<1>2. CASE \E p \in Pods, o \in Objects : OnUpdate(p, o)
  BY <1>2 DEF OnUpdate, PodTypeOK
<1>3. CASE \E p \in Pods : OnDelete(p)
  BY <1>3 DEF OnDelete, PodTypeOK
<1> QED
  BY <1>1, <1>2, <1>3 DEF PodEvent

\* What an address and the namespaces show are objects and permissions.
LEMMA ObservedType ==
  ASSUME PodTypeOK, NEW a
  PROVE  /\ SoleOwner(a) \subseteq Objects
         /\ Permissions \subseteq Namespaces \X Roles
BY DEF PodTypeOK, SoleOwner, PodsForIP, Permissions

\* A change of the caches is observed by every running request and decides
\* nothing.
LEMMA CacheEventGInv ==
  ASSUME GInv, PodEvent \/ NamespaceEvent
  PROVE  GInv'
<1> USE DEF GInv
<1>1. UNCHANGED requestVars /\ Observe
  BY DEF PodEvent, NamespaceEvent
<1>2. PodTypeOK' /\ namespaces' \in [Namespaces -> Annotations \cup {None}]
  BY PodEventType DEF PodEvent, NamespaceEvent, TypeOK, PodTypeOK, podVars
<1>3. /\ \A r \in Requests : SoleOwner(ip[r])' \subseteq Objects
      /\ Permissions' \subseteq Namespaces \X Roles
  BY <1>2 DEF PodTypeOK, SoleOwner, PodsForIP, Permissions
<1>4. \A r \in Requests :
        /\ owned[r] \subseteq owned'[r]
        /\ permitted[r] \subseteq permitted'[r]
        /\ Running(r) => /\ SoleOwner(ip[r])' \subseteq owned'[r]
                         /\ Permissions' \subseteq permitted'[r]
  BY <1>1 DEF Observe
<1>5. TypeOK'
  <2>1. owned' \in [Requests -> SUBSET Objects]
    BY <1>1, <1>3 DEF Observe, TypeOK
  <2>2. permitted' \in [Requests -> SUBSET (Namespaces \X Roles)]
    BY <1>1, <1>3 DEF Observe, TypeOK
  <2>3. entitled' \in [Requests -> SUBSET Objects]
    BY <1>1 DEF Observe, TypeOK
  <2> QED
    BY <1>1, <1>2, <2>1, <2>2, <2>3 DEF TypeOK, requestVars
<1>6. HistoryIsCurrent'
  BY <1>1, <1>4 DEF HistoryIsCurrent, Running, requestVars
<1>7. SnapshotOwned' /\ RoleAnnotated' /\ RolePermitted'
  BY <1>1, <1>4 DEF SnapshotOwned, RoleAnnotated, RolePermitted, requestVars
<1>8. GrantedDuringRequest'
  BY <1>1, <1>4 DEF GrantedDuringRequest, requestVars
<1> QED
  BY <1>5, <1>6, <1>7, <1>8

\* A request starts with the present as its history.
LEMMA ArriveGInv ==
  ASSUME GInv, NEW r \in Requests, NEW a \in IPs,
         \/ \E x \in Roles \cup {None} : RequestCredentials(r, a, x)
         \/ RequestRole(r, a)
  PROVE  GInv'
<1> USE DEF GInv
<1>1. \E label \in {"find", "findRole"} : Arrive(r, a, label)
  BY DEF RequestCredentials, RequestRole
<1>2. /\ role' \in [Requests -> Roles \cup {None}]
      /\ \A q \in Requests : q # r => role'[q] = role[q]
  BY DEF RequestCredentials, RequestRole, TypeOK
<1>3. TypeOK'
  <2>1. PodTypeOK'
    BY <1>1 DEF Arrive, TypeOK, PodTypeOK, podVars
  <2>2. SoleOwner(a) \subseteq Objects /\ Permissions \subseteq Namespaces \X Roles
    BY ObservedType DEF TypeOK
  <2>3. /\ pc' \in [Requests -> {"idle", "find", "findRole", "annotated",
                                 "namespace", "provider"} \cup Answered]
        /\ ip' \in [Requests -> IPs \cup {None}]
    BY <1>1 DEF Arrive, Goto, TypeOK
  <2>4. /\ owned' \in [Requests -> SUBSET Objects]
        /\ permitted' \in [Requests -> SUBSET (Namespaces \X Roles)]
    BY <1>1, <2>2 DEF Arrive, TypeOK
  <2>5. UNCHANGED <<namespaces, pod, answer>>
    BY <1>1 DEF Arrive
  <2>6. entitled' \in [Requests -> SUBSET Objects]
    <3>1. \A x : EntitledTo(a, x) \subseteq Objects
      BY <2>2 DEF EntitledTo
    <3>2. \/ UNCHANGED entitled
          \/ \E x : entitled' = [entitled EXCEPT ![r] = EntitledTo(a, x)]
      BY DEF RequestCredentials, RequestRole
    <3> QED
      BY <3>1, <3>2 DEF TypeOK
  <2> QED
    BY <1>2, <2>1, <2>3, <2>4, <2>5, <2>6 DEF TypeOK
<1>4. HistoryIsCurrent'
  <2> SUFFICES ASSUME NEW q \in Requests, Running(q)'
               PROVE  /\ SoleOwner(ip[q])' \subseteq owned'[q]
                      /\ Permissions' \subseteq permitted'[q]
    BY DEF HistoryIsCurrent
  <2>1. CASE q = r
    BY <1>1, <2>1 DEF Arrive, TypeOK, Permissions, SoleOwner, PodsForIP, podVars
  <2>2. CASE q # r
    <3>1. Running(q) /\ ip'[q] = ip[q] /\ owned'[q] = owned[q]
                     /\ permitted'[q] = permitted[q]
      BY <1>1, <2>2 DEF Arrive, Goto, TypeOK, Running
    <3> QED
      BY <1>1, <3>1
         DEF Arrive, HistoryIsCurrent, Permissions, SoleOwner, PodsForIP, podVars
  <2> QED
    BY <2>1, <2>2
<1>5. /\ pc'[r] \in {"find", "findRole"}
      /\ UNCHANGED <<pod, answer>>
      /\ \A q \in Requests \ {r} :
           /\ pc'[q] = pc[q] /\ owned'[q] = owned[q]
           /\ permitted'[q] = permitted[q]
  BY <1>1 DEF Arrive, Goto, TypeOK
<1>6. SnapshotOwned' /\ RoleAnnotated' /\ RolePermitted'
  <2>1. SnapshotOwned'
    BY <1>5 DEF SnapshotOwned
  <2>2. RoleAnnotated'
    BY <1>2, <1>5 DEF RoleAnnotated
  <2>3. RolePermitted'
    BY <1>2, <1>5 DEF RolePermitted
  <2> QED
    BY <2>1, <2>2, <2>3
<1>7. GrantedDuringRequest'
  BY <1>5 DEF GrantedDuringRequest
<1> QED
  BY <1>3, <1>4, <1>6, <1>7

\* A handler's step leaves caches and history alone and only ends requests.
LEMMA HandlerHistory ==
  ASSUME GInv, NEW r \in Requests, HandlerStep(r)
  PROVE  HistoryIsCurrent' /\ PodTypeOK'
<1>1. UNCHANGED <<pods, announced, namespaces, ip, owned, permitted>>
  BY DEF HandlerStep, GetPodByIPError, FindPod, GetPodRole,
         AnnotatedRolePolicy, NamespacePolicy, NamespaceUnknown,
         CredentialsForRole, CredentialsError, podVars, historyVars
<1>2. \A q \in Requests : Running(q)' => Running(q)
  BY DEF HandlerStep, GetPodByIPError, FindPod, GetPodRole,
         AnnotatedRolePolicy, NamespacePolicy, NamespaceUnknown,
         CredentialsForRole, CredentialsError, Goto, Running, Answered, GInv,
         TypeOK
<1> QED
  BY <1>1, <1>2 DEF GInv, TypeOK, PodTypeOK, HistoryIsCurrent, SoleOwner,
                    PodsForIP, Permissions

\* A handler decides on a snapshot that the history has, and grants what it
\* decided.
LEMMA HandlerGInv ==
  ASSUME GInv, NEW r \in Requests, HandlerStep(r)
  PROVE  GInv'
<1> USE DEF GInv
<1>0. HistoryIsCurrent' /\ PodTypeOK'
  BY HandlerHistory
<1>1. CASE GetPodByIPError(r)
  BY <1>0, <1>1
     DEF GetPodByIPError, Goto, TypeOK, SnapshotOwned, RoleAnnotated,
         RolePermitted, GrantedDuringRequest, historyVars, Answered
<1>2. CASE FindPod(r)
  <2>1. PICK p \in Pods : GetPodByIP(r, p) /\ pod' = [pod EXCEPT ![r] = pods[p]]
    BY <1>2 DEF FindPod
  <2>2. pods[p] \in SoleOwner(ip[r]) /\ pods[p] \in Objects
    BY <2>1 DEF GetPodByIP, SoleOwner, PodsForIP, TypeOK, PodTypeOK
  <2>3. pods[p] \in owned[r]
    BY <1>2, <2>2 DEF FindPod, HistoryIsCurrent, Running, Answered
  <2>4. TypeOK'
    BY <1>0, <1>2, <2>1, <2>2 DEF FindPod, Goto, TypeOK, historyVars
  <2> QED
    BY <1>0, <1>2, <2>1, <2>3, <2>4
       DEF FindPod, Goto, TypeOK, SnapshotOwned, RoleAnnotated, RolePermitted,
           GrantedDuringRequest, historyVars
<1>3. CASE GetPodRole(r)
  <2>1. PICK p \in Pods : /\ GetPodByIP(r, p)
                          /\ answer' = [answer EXCEPT ![r] = pods[p].identity]
    BY <1>3 DEF GetPodRole
  <2>2. pods[p] \in SoleOwner(ip[r]) /\ pods[p] \in Objects
    BY <2>1 DEF GetPodByIP, SoleOwner, PodsForIP, TypeOK, PodTypeOK
  <2>3. pods[p].identity \in Identities \cup {None}
    BY <2>2, ServerAssumption
  <2>4. TypeOK'
    BY <1>0, <1>3, <2>1, <2>3 DEF GetPodRole, Goto, TypeOK, historyVars, Answered
  <2>5. pods[p] \in owned[r]
    BY <1>3, <2>2 DEF GetPodRole, HistoryIsCurrent, Running, Answered
  <2> QED
    BY <1>0, <1>3, <2>1, <2>4, <2>5
       DEF GetPodRole, Goto, TypeOK, SnapshotOwned, RoleAnnotated,
           RolePermitted, GrantedDuringRequest, historyVars
<1>4. CASE AnnotatedRolePolicy(r)
  BY <1>0, <1>4
     DEF AnnotatedRolePolicy, HasRole, Goto, TypeOK, SnapshotOwned,
         RoleAnnotated, RolePermitted, GrantedDuringRequest, historyVars,
         Answered
<1>5. CASE NamespacePolicy(r)
  <2>1. pod[r] \in Objects /\ role[r] \in Roles
    <3>1. pod[r] \in Objects
      BY <1>5 DEF NamespacePolicy, SnapshotOwned, TypeOK
    <3>2. pod[r].identity \in Identities /\ pod[r].identity.role = role[r]
      BY <1>5, <3>1, ServerAssumption DEF NamespacePolicy, RoleAnnotated
    <3> QED
      BY <3>1, <3>2 DEF Identities
  <2>2. pc'[r] = "provider" => <<pod[r].namespace, role[r]>> \in permitted[r]
    <3> SUFFICES ASSUME pc'[r] = "provider"
                 PROVE  <<pod[r].namespace, role[r]>> \in permitted[r]
      OBVIOUS
    <3>1. /\ namespaces[pod[r].namespace] # None
          /\ role[r] \in namespaces[pod[r].namespace].roles
      BY <1>5 DEF NamespacePolicy, Goto, Permits, TypeOK
    <3>2. <<pod[r].namespace, role[r]>> \in Permissions
      BY <2>1, <3>1, ServerAssumption DEF Permissions
    <3> QED
      BY <1>5, <3>2 DEF NamespacePolicy, HistoryIsCurrent, Running, Answered
  <2>3. TypeOK'
    BY <1>0, <1>5 DEF NamespacePolicy, Goto, TypeOK, historyVars, Answered
  <2> QED
    BY <1>0, <1>5, <2>2, <2>3
       DEF NamespacePolicy, Goto, TypeOK, SnapshotOwned, RoleAnnotated,
           RolePermitted, GrantedDuringRequest, historyVars
<1>6. CASE NamespaceUnknown(r)
  BY <1>0, <1>6
     DEF NamespaceUnknown, TypeOK, SnapshotOwned, RoleAnnotated, RolePermitted,
         GrantedDuringRequest, historyVars, Answered
<1>7. CASE CredentialsForRole(r)
  <2>1. pod[r] \in Objects /\ pod[r] \in owned[r]
    BY <1>7 DEF CredentialsForRole, SnapshotOwned, TypeOK
  <2>2. pod[r].identity \in Identities /\ pod[r].identity.role = role[r]
    BY <1>7, <2>1, ServerAssumption DEF CredentialsForRole, RoleAnnotated
  <2>3. Identity(r) = pod[r].identity
    BY <2>2 DEF Identity, Identities
  <2>4. TypeOK'
    BY <1>0, <1>7, <2>2, <2>3
       DEF CredentialsForRole, Goto, TypeOK, historyVars, Answered
  <2>5. GrantedDuringRequest'
    BY <1>7, <2>1, <2>2, <2>3
       DEF CredentialsForRole, Goto, TypeOK, RolePermitted,
           GrantedDuringRequest, historyVars
  <2> QED
    BY <1>0, <1>7, <2>4, <2>5
       DEF CredentialsForRole, Goto, TypeOK, SnapshotOwned, RoleAnnotated,
           RolePermitted, historyVars
<1>8. CASE CredentialsError(r)
  BY <1>0, <1>8
     DEF CredentialsError, Goto, TypeOK, SnapshotOwned, RoleAnnotated,
         RolePermitted, GrantedDuringRequest, historyVars, Answered
<1> QED
  BY <1>1, <1>2, <1>3, <1>4, <1>5, <1>6, <1>7, <1>8 DEF HandlerStep

\* Every step preserves the invariant.
LEMMA NextGInv == GInv /\ [Next]_vars => GInv'
<1> SUFFICES ASSUME GInv, [Next]_vars PROVE GInv'
  OBVIOUS
<1>1. CASE PodEvent \/ NamespaceEvent
  BY <1>1, CacheEventGInv
<1>2. CASE \E r \in Requests : \E a \in IPs :
             \/ \E x \in Roles \cup {None} : RequestCredentials(r, a, x)
             \/ RequestRole(r, a)
  BY <1>2, ArriveGInv
<1>3. CASE \E r \in Requests : HandlerStep(r)
  BY <1>3, HandlerGInv
<1>4. CASE UNCHANGED vars
  <2>1. TypeOK'
    BY <1>4 DEF vars, GInv, TypeOK, PodTypeOK
  <2>2. HistoryIsCurrent'
    BY <1>4 DEF vars, GInv, HistoryIsCurrent, SoleOwner, PodsForIP,
                Permissions, Running
  <2> QED
    BY <1>4, <2>1, <2>2
       DEF vars, GInv, SnapshotOwned, RoleAnnotated, RolePermitted,
           GrantedDuringRequest
<1> QED
  BY <1>1, <1>2, <1>3, <1>4 DEF Next

\* The invariant holds throughout.
LEMMA InductiveGInv == Spec => []GInv
BY InitGInv, NextGInv, PTL DEF Spec

---------------------------------------------------------------------------
(* Who is entitled throughout                                              *)

\* What was entitled since the request arrived is so now.
EntitledIsCurrent ==
  \A r \in Requests :
    Running(r) => entitled[r] \subseteq EntitledTo(ip[r], role[r])

\* It is the object that the handler decides on.
SnapshotEntitled ==
  \A r \in Requests :
    pc[r] \in {"annotated", "namespace", "provider"} =>
      entitled[r] \subseteq {pod[r]}

\* Nobody is entitled before the request arrives.
EntitledFromArrival ==
  \A r \in Requests : pc[r] = "idle" => entitled[r] = {}

EInv ==
  /\ GInv
  /\ EntitledFromArrival
  /\ EntitledIsCurrent
  /\ SnapshotEntitled
  /\ EntitledNotRefused

\* Nothing runs before the first request.
LEMMA InitEInv == Init => EInv
<1> SUFFICES ASSUME Init PROVE EInv
  OBVIOUS
<1>1. \A r \in Requests : pc[r] = "idle" /\ entitled[r] = {}
  BY DEF Init
<1> QED
  BY <1>1, InitGInv DEF EInv, EntitledFromArrival, EntitledIsCurrent,
                        SnapshotEntitled, EntitledNotRefused, Running

\* An entitled object is the sole owner's, with the role, in a namespace whose
\* annotation matches it.
LEMMA EntitledPasses ==
  ASSUME TypeOK, NEW a, NEW x, NEW o \in EntitledTo(a, x)
  PROVE  /\ \E p \in Pods : PodsForIP(a) = {p} /\ pods[p] = o
         /\ HasRole(o) /\ o.identity.role = x /\ x # None
         /\ namespaces[o.namespace] # None
         /\ namespaces[o.namespace].kind = "regexp"
         /\ Permits(namespaces[o.namespace], x)
<1>1. PICK p \in Pods : PodsForIP(a) = {p} /\ pods[p] = o
  BY DEF EntitledTo, SoleOwner
<1>2. o \in Objects
  BY <1>1 DEF PodsForIP, TypeOK, PodTypeOK
<1>3. HasRole(o) /\ o.identity.role = x /\ x # None
  BY <1>2, ServerAssumption DEF EntitledTo, HasRole, Identities
<1>4. /\ o.namespace \in Namespaces
      /\ namespaces[o.namespace] # None
      /\ x \in namespaces[o.namespace].roles
  BY <1>2, ServerAssumption DEF EntitledTo, Permissions
<1>5. namespaces[o.namespace] \in Annotations
  BY <1>4 DEF TypeOK
<1>6. namespaces[o.namespace].kind = "regexp"
  BY <1>4, <1>5 DEF Annotations
<1> QED
  BY <1>1, <1>3, <1>4, <1>6 DEF Permits

\* Whatever changes in the caches ends an entitlement or leaves it as it was.
LEMMA CacheEventEInv ==
  ASSUME EInv, PodEvent \/ NamespaceEvent
  PROVE  EInv'
<1> USE DEF EInv
<1>1. UNCHANGED requestVars /\ Observe
  BY DEF PodEvent, NamespaceEvent
<1>2. \A r \in Requests :
        /\ entitled'[r] \subseteq entitled[r]
        /\ Running(r) => entitled'[r] \subseteq EntitledTo(ip[r], role[r])'
  BY <1>1 DEF Observe
<1>3. EntitledIsCurrent'
  BY <1>1, <1>2 DEF EntitledIsCurrent, Running, requestVars
<1>4. EntitledFromArrival' /\ SnapshotEntitled' /\ EntitledNotRefused'
  BY <1>1, <1>2
     DEF EntitledFromArrival, SnapshotEntitled, EntitledNotRefused, requestVars
<1> QED
  BY <1>3, <1>4, CacheEventGInv

\* A request starts with the entitlement of the present, if it asks for
\* credentials.
LEMMA ArriveEInv ==
  ASSUME EInv, NEW r \in Requests, NEW a \in IPs,
         \/ \E x \in Roles \cup {None} : RequestCredentials(r, a, x)
         \/ RequestRole(r, a)
  PROVE  EInv'
<1> USE DEF EInv
<1>1. \E label \in {"find", "findRole"} : Arrive(r, a, label)
  BY DEF RequestCredentials, RequestRole
<1>2. \A q \in Requests :
        q # r => /\ pc'[q] = pc[q] /\ ip'[q] = ip[q] /\ role'[q] = role[q]
                 /\ pod'[q] = pod[q] /\ entitled'[q] = entitled[q]
  BY DEF RequestCredentials, RequestRole, Arrive, Goto, GInv, TypeOK
<1>3. \A b, x : EntitledTo(b, x)' = EntitledTo(b, x)
  BY <1>1 DEF Arrive, EntitledTo, SoleOwner, PodsForIP, Permissions, podVars
<1>4. pc'[r] \in {"find", "findRole"}
  BY <1>1 DEF Arrive, Goto, GInv, TypeOK
<1>5. entitled'[r] \subseteq EntitledTo(ip'[r], role'[r])
  <2>1. CASE RequestRole(r, a)
    BY <2>1 DEF RequestRole, Arrive, EntitledFromArrival
  <2> QED
    BY <2>1 DEF RequestCredentials, Arrive, GInv, TypeOK
<1>6. EntitledIsCurrent'
  BY <1>2, <1>3, <1>5 DEF EntitledIsCurrent, Running
<1>7. EntitledFromArrival' /\ SnapshotEntitled' /\ EntitledNotRefused'
  BY <1>2, <1>4 DEF EntitledFromArrival, SnapshotEntitled, EntitledNotRefused
<1> QED
  BY <1>6, <1>7, ArriveGInv

\* What a handler does to the request of one call: it leaves the others as
\* they are, or ends those that run with itself.
LEMMA HandlerOthers ==
  ASSUME GInv, NEW r \in Requests, HandlerStep(r)
  PROVE  \A q \in Requests :
           /\ ip'[q] = ip[q] /\ role'[q] = role[q] /\ entitled'[q] = entitled[q]
           /\ q # r => /\ pod'[q] = pod[q]
                       /\ pc'[q] = pc[q] \/ (Running(q) /\ pc'[q] = "lost")
<1>1. UNCHANGED <<ip, role, entitled>>
  BY DEF HandlerStep, GetPodByIPError, FindPod, GetPodRole,
         AnnotatedRolePolicy, NamespacePolicy, NamespaceUnknown,
         CredentialsForRole, CredentialsError, historyVars
<1>2. \A q \in Requests : q # r => pod'[q] = pod[q]
  BY DEF HandlerStep, GetPodByIPError, FindPod, GetPodRole,
         AnnotatedRolePolicy, NamespacePolicy, NamespaceUnknown,
         CredentialsForRole, CredentialsError, GInv, TypeOK
<1>3. \A q \in Requests :
        q # r => pc'[q] = pc[q] \/ (Running(q) /\ pc'[q] = "lost")
  <2>1. CASE NamespaceUnknown(r)
    BY <2>1 DEF NamespaceUnknown, Running
  <2>2. CASE ~NamespaceUnknown(r)
    <3>1. \A q \in Requests : q # r => pc'[q] = pc[q]
      BY <2>2 DEF HandlerStep, GetPodByIPError, FindPod, GetPodRole,
                  AnnotatedRolePolicy, NamespacePolicy, CredentialsForRole,
                  CredentialsError, Goto, GInv, TypeOK
    <3> QED
      BY <3>1
  <2> QED
    BY <2>1, <2>2
<1> QED
  BY <1>1, <1>2, <1>3

\* A handler takes its snapshot from the entitled object, if there is one, and
\* then neither the lookup nor a policy refuses it.
LEMMA HandlerEInv ==
  ASSUME EInv, NEW r \in Requests, HandlerStep(r)
  PROVE  EInv'
<1> USE DEF EInv
<1>1. GInv'
  BY HandlerGInv
<1>2. \A q \in Requests :
        /\ ip'[q] = ip[q] /\ role'[q] = role[q] /\ entitled'[q] = entitled[q]
        /\ q # r => /\ pod'[q] = pod[q]
                    /\ pc'[q] = pc[q] \/ (Running(q) /\ pc'[q] = "lost")
  BY HandlerOthers
<1>3. \A b, x : EntitledTo(b, x)' = EntitledTo(b, x)
  <2>1. UNCHANGED <<pods, namespaces>>
    BY DEF HandlerStep, GetPodByIPError, FindPod, GetPodRole,
           AnnotatedRolePolicy, NamespacePolicy, NamespaceUnknown,
           CredentialsForRole, CredentialsError, podVars
  <2> QED
    BY <2>1 DEF EntitledTo, SoleOwner, PodsForIP, Permissions
<1>4. Running(r) /\ pc'[r] # "idle"
  BY DEF HandlerStep, GetPodByIPError, FindPod, GetPodRole,
         AnnotatedRolePolicy, NamespacePolicy, NamespaceUnknown,
         CredentialsForRole, CredentialsError, Goto, Running, Answered, GInv,
         TypeOK
<1>5. \A o \in entitled[r] :
        /\ \E p \in Pods : PodsForIP(ip[r]) = {p} /\ pods[p] = o
        /\ HasRole(o) /\ o.identity.role = role[r] /\ role[r] # None
        /\ namespaces[o.namespace] # None
        /\ namespaces[o.namespace].kind = "regexp"
        /\ Permits(namespaces[o.namespace], role[r])
  <2> SUFFICES ASSUME NEW o \in entitled[r]
               PROVE  o \in EntitledTo(ip[r], role[r])
    BY EntitledPasses DEF GInv
  <2> QED
    BY <1>4 DEF EntitledIsCurrent
<1>6. EntitledFromArrival'
  BY <1>2, <1>4 DEF EntitledFromArrival
<1>7. EntitledIsCurrent'
  BY <1>2, <1>3, <1>4 DEF EntitledIsCurrent, Running, Answered
<1>8. /\ pc'[r] \in {"annotated", "namespace", "provider"} =>
           entitled[r] \subseteq {pod'[r]}
      /\ entitled[r] # {} =>
           pc'[r] \notin {"notFound", "error", "forbidden", "panic"}
  <2> USE DEF GInv, Goto, TypeOK
  <2>1. CASE GetPodByIPError(r)
    <3>1. pc'[r] \in {"notFound", "error"}
      BY <2>1 DEF GetPodByIPError
    <3>2. ~\E p \in Pods : PodsForIP(ip[r]) = {p}
      BY <2>1 DEF GetPodByIPError, Multiple
    <3> QED
      BY <1>5, <3>1, <3>2
  <2>2. CASE FindPod(r)
    <3>1. PICK p \in Pods : PodsForIP(ip[r]) = {p} /\ pod'[r] = pods[p]
      BY <2>2 DEF FindPod, GetPodByIP
    <3>2. entitled[r] \subseteq {pod'[r]}
      BY <1>5, <3>1
    <3> QED
      BY <2>2, <3>2 DEF FindPod
  <2>3. CASE GetPodRole(r)
    BY <2>3 DEF GetPodRole
  <2>4. CASE AnnotatedRolePolicy(r)
    <3>1. entitled[r] \subseteq {pod[r]} /\ pod'[r] = pod[r]
      BY <2>4 DEF AnnotatedRolePolicy, SnapshotEntitled
    <3>2. entitled[r] # {} => pc'[r] = "namespace"
      BY <1>5, <2>4, <3>1 DEF AnnotatedRolePolicy
    <3> QED
      BY <3>1, <3>2
  <2>5. CASE NamespacePolicy(r)
    <3>1. entitled[r] \subseteq {pod[r]} /\ pod'[r] = pod[r]
      BY <2>5 DEF NamespacePolicy, SnapshotEntitled
    <3>2. entitled[r] # {} => pc'[r] = "provider"
      BY <1>5, <2>5, <3>1 DEF NamespacePolicy
    <3> QED
      BY <3>1, <3>2
  <2>6. CASE NamespaceUnknown(r)
    <3>1. entitled[r] \subseteq {pod[r]} /\ pc'[r] = "panic"
      BY <2>6 DEF NamespaceUnknown, SnapshotEntitled
    <3>2. entitled[r] = {}
      BY <1>5, <2>6, <3>1 DEF NamespaceUnknown
    <3> QED
      BY <3>1, <3>2
  <2>7. CASE CredentialsForRole(r) \/ CredentialsError(r)
    BY <2>7 DEF CredentialsForRole, CredentialsError
  <2> QED
    BY <2>1, <2>2, <2>3, <2>4, <2>5, <2>6, <2>7 DEF HandlerStep
<1>9. SnapshotEntitled' /\ EntitledNotRefused'
  BY <1>2, <1>8 DEF SnapshotEntitled, EntitledNotRefused
<1> QED
  BY <1>1, <1>6, <1>7, <1>9

\* Every step preserves it.
LEMMA NextEInv == EInv /\ [Next]_vars => EInv'
<1> SUFFICES ASSUME EInv, [Next]_vars PROVE EInv'
  OBVIOUS
<1>1. CASE PodEvent \/ NamespaceEvent
  BY <1>1, CacheEventEInv
<1>2. CASE \E r \in Requests : \E a \in IPs :
             \/ \E x \in Roles \cup {None} : RequestCredentials(r, a, x)
             \/ RequestRole(r, a)
  BY <1>2, ArriveEInv
<1>3. CASE \E r \in Requests : HandlerStep(r)
  BY <1>3, HandlerEInv
<1>4. CASE UNCHANGED vars
  <2>1. GInv'
    BY <1>4, NextGInv DEF EInv
  <2>2. EntitledIsCurrent'
    BY <1>4 DEF vars, EInv, EntitledIsCurrent, EntitledTo, SoleOwner,
                PodsForIP, Permissions, Running
  <2> QED
    BY <1>4, <2>1, <2>2
       DEF vars, EInv, EntitledFromArrival, SnapshotEntitled,
           EntitledNotRefused
<1> QED
  BY <1>1, <1>2, <1>3, <1>4 DEF Next

---------------------------------------------------------------------------
(* The theorems                                                            *)

\* Whatever events and requests come, the channel of announced pods stays
\* within its buffer and a request's snapshot is an object of the cache.
THEOREM TypeCorrect == Spec => []TypeOK
BY InductiveGInv, PTL DEF GInv

\* GetPodCredentials returns credentials only for the annotations that one
\* pod had while it alone had the address, and for a role its namespace
\* permitted, both during the request, however pods and namespaces change
\* between the steps of the handler.
THEOREM GrantedDuringRequestCorrect == Spec => []GrantedDuringRequest
BY InductiveGInv, PTL DEF GInv

\* A pod that alone has the address, stays annotated with the requested role
\* and whose namespace keeps permitting it gets past the lookup and both
\* policies of GetPodCredentials, whatever other pods, namespaces and requests
\* do in between.
THEOREM EntitledNotRefusedCorrect == Spec => []EntitledNotRefused
<1>1. EInv => EntitledNotRefused
  BY DEF EInv
<1> QED
  BY <1>1, InitEInv, NextEInv, PTL DEF Spec
=============================================================================
