---------------------- MODULE CredentialManagerProofs ----------------------
(***************************************************************************)
(* Proofs about CredentialManager, for any pods, roles, managers, Futures  *)
(* and capacity of the channel of announced pods.                          *)
(***************************************************************************)
EXTENDS CredentialManager, TLAPS

---------------------------------------------------------------------------
(* The inductive invariant                                                 *)

\* announce lets only pods with a role pass that are not completed, and the
\* objects in the channel are snapshots: a manager never drops one.
AnnouncedWanted == \A n \in DOMAIN announced : Wanted(announced[n])

\* An item is a Future of its identity; one that has failed is known as lost.
ItemsInOrder ==
  \A i \in Identities :
    /\ item[i] # None => item[i][1] = i
    /\ item[i] # None /\ future[item[i]] = "err" => i \in lost
    /\ i \in stale => item[i] # None

\* A manager knows what it fetches and waits for a Future of that identity.
CallsInOrder ==
  \A m \in Managers :
    /\ at[m] # "select" => want[m] \in Identities
    /\ at[m] \in {"wait", "evict"} => held[m] \in Futures /\ held[m][1] = want[m]

\* What NoSilentLoss demands of a role in use.
Triggered(i) == Warm(i) \/ Queued(i) \/ Fetching(i) \/ Reporting(i)

MInv ==
  /\ TypeOK
  /\ AnnouncedWanted
  /\ ItemsInOrder
  /\ CallsInOrder
  /\ NoSilentLoss

\* Initially there are no pods.
LEMMA InitMInv == Init => MInv
<1> SUFFICES ASSUME Init PROVE MInv
  OBVIOUS
<1>1. TypeOK
  BY PodCacheAssumption
     DEF Init, PodInit, TypeOK, PodTypeOK, FutureStates, Stages, ExpiringBuffer
<1>2. AnnouncedWanted /\ ItemsInOrder /\ CallsInOrder
  BY DEF Init, PodInit, AnnouncedWanted, ItemsInOrder, CallsInOrder
<1>3. NoSilentLoss
  BY DEF Init, PodInit, NoSilentLoss, IsActivePodsForRole
<1> QED
  BY <1>1, <1>2, <1>3 DEF MInv

---------------------------------------------------------------------------
(* The channels                                                            *)

\* Receiving takes the first element and keeps the others.
LEMMA TailKeeps ==
  ASSUME NEW S, NEW s \in Seq(S), s # <<>>
  PROVE  /\ Tail(s) \in Seq(S)
         /\ Len(Tail(s)) = Len(s) - 1
         /\ Head(s) \in S
         /\ 1 \in DOMAIN s /\ s[1] = Head(s)
         /\ \A n \in DOMAIN s :
              s[n] = Head(s) \/ \E k \in DOMAIN Tail(s) : Tail(s)[k] = s[n]
         /\ \A k \in DOMAIN Tail(s) : \E n \in DOMAIN s : Tail(s)[k] = s[n]
<1>1. Len(s) \in Nat /\ Len(s) > 0 /\ DOMAIN s = 1..Len(s)
  OBVIOUS
<1>2. /\ Tail(s) \in Seq(S)
      /\ Len(Tail(s)) = Len(s) - 1
      /\ DOMAIN Tail(s) = 1..(Len(s) - 1)
      /\ \A k \in 1..(Len(s) - 1) : Tail(s)[k] = s[k + 1]
  BY <1>1
<1>3. Head(s) = s[1] /\ Head(s) \in S /\ 1 \in DOMAIN s
  BY <1>1
<1>4. ASSUME NEW n \in DOMAIN s
      PROVE  s[n] = Head(s) \/ \E k \in DOMAIN Tail(s) : Tail(s)[k] = s[n]
  <2>1. CASE n = 1
    BY <2>1, <1>3
  <2>2. CASE n # 1
    <3>1. n - 1 \in DOMAIN Tail(s) /\ Tail(s)[n - 1] = s[n]
      BY <2>2, <1>1, <1>2, <1>4
    <3> QED
      BY <3>1
  <2> QED
    BY <2>1, <2>2
<1>5. ASSUME NEW k \in DOMAIN Tail(s)
      PROVE  \E n \in DOMAIN s : Tail(s)[k] = s[n]
  <2>1. k + 1 \in DOMAIN s /\ Tail(s)[k] = s[k + 1]
    BY <1>1, <1>2, <1>5
  <2> QED
    BY <2>1
<1> QED
  BY <1>2, <1>3, <1>4, <1>5

\* Sending adds the last element and keeps the others.
LEMMA AppendKeeps ==
  ASSUME NEW S, NEW s \in Seq(S), NEW e \in S
  PROVE  /\ Append(s, e) \in Seq(S)
         /\ Len(Append(s, e)) = Len(s) + 1
         /\ \A n \in DOMAIN s :
              n \in DOMAIN Append(s, e) /\ Append(s, e)[n] = s[n]
         /\ \E n \in DOMAIN Append(s, e) : Append(s, e)[n] = e
         /\ \A n \in DOMAIN Append(s, e) :
              \/ n \in DOMAIN s /\ Append(s, e)[n] = s[n]
              \/ Append(s, e)[n] = e
<1>1. Append(s, e) \in Seq(S) /\ Len(Append(s, e)) = Len(s) + 1
  OBVIOUS
<1>2. /\ DOMAIN s = 1..Len(s) /\ Len(s) \in Nat
      /\ DOMAIN Append(s, e) = 1..(Len(s) + 1)
      /\ \A n \in 1..Len(s) : Append(s, e)[n] = s[n]
      /\ Append(s, e)[Len(s) + 1] = e
  OBVIOUS
<1>3. Len(s) + 1 \in DOMAIN Append(s, e)
  BY <1>2
<1>4. ASSUME NEW n \in DOMAIN Append(s, e)
      PROVE  \/ n \in DOMAIN s /\ Append(s, e)[n] = s[n]
             \/ Append(s, e)[n] = e
  BY <1>2, <1>4
<1>5. ASSUME NEW n \in DOMAIN s
      PROVE  n \in DOMAIN Append(s, e) /\ Append(s, e)[n] = s[n]
  BY <1>2, <1>5
<1> QED
  BY <1>1, <1>2, <1>3, <1>4, <1>5

---------------------------------------------------------------------------
(* The pods                                                                *)

\* What announce does to the channel: it stays as it is, or, when there is
\* room for a pod that is wanted, the pod comes last.
LEMMA AnnounceStep ==
  ASSUME MInv, NEW o \in Objects, announce(o)
  PROVE  /\ announced' \in Seq(Objects) /\ Len(announced') <= PrefetchBufferSize
         /\ AnnouncedWanted'
         /\ \A n \in DOMAIN announced :
              n \in DOMAIN announced' /\ announced'[n] = announced[n]
         /\ Wanted(o) /\ ~Full
              => \E n \in DOMAIN announced' : announced'[n] = o
<1> USE DEF MInv
<1>1. announced \in Seq(Objects) /\ Len(announced) <= PrefetchBufferSize
  BY DEF TypeOK, PodTypeOK
<1>2. CASE Wanted(o) /\ ~Full
  <2>1. announced' = Append(announced, o)
    BY <1>2 DEF announce, Wanted
  <2>2. AnnouncedWanted'
    <3> SUFFICES ASSUME NEW n \in DOMAIN announced'
                 PROVE  Wanted(announced'[n])
      BY DEF AnnouncedWanted, Wanted, HasRole, IsPodCompleted
    <3>1. \/ n \in DOMAIN announced /\ announced'[n] = announced[n]
          \/ announced'[n] = o
      BY <1>1, <2>1, AppendKeeps
    <3> QED
      BY <1>2, <3>1 DEF AnnouncedWanted
  <2>3. Len(announced') <= PrefetchBufferSize
    BY <1>1, <1>2, <2>1, PodCacheAssumption DEF Full
  <2> QED
    BY <1>1, <2>1, <2>2, <2>3, AppendKeeps
<1>3. CASE ~(Wanted(o) /\ ~Full)
  <2>1. announced' = announced
    BY <1>3 DEF announce, Wanted
  <2> QED
    BY <1>1, <1>3, <2>1 DEF AnnouncedWanted, Wanted, HasRole, IsPodCompleted
<1> QED
  BY <1>2, <1>3

\* An event of the pod cache leaves the credentials cache and the managers
\* as they are.
LEMMA PodStep ==
  ASSUME MInv, UNCHANGED <<cacheVars, managerVars, expiring>>, PodTypeOK',
         AnnouncedWanted', lost' \in SUBSET Identities, lost \subseteq lost',
         \A n \in DOMAIN announced :
           n \in DOMAIN announced' /\ announced'[n] = announced[n],
         \A i \in Identities :
           IsActivePodsForRole(i)' /\ i \notin lost' =>
             IsActivePodsForRole(i) \/ Queued(i)'
  PROVE  MInv'
<1> USE DEF MInv
<1>1. UNCHANGED <<item, stale, future, evicting, missed, at, want, held, expiring>>
  BY DEF cacheVars, managerVars
<1>2. TypeOK'
  BY <1>1 DEF TypeOK
<1>3. ItemsInOrder' /\ CallsInOrder'
  BY <1>1 DEF ItemsInOrder, CallsInOrder
<1>4. NoSilentLoss'
  <2> SUFFICES ASSUME NEW i \in Identities, IsActivePodsForRole(i)',
                      i \notin lost', ~Queued(i)'
               PROVE  (Warm(i) \/ Fetching(i) \/ Reporting(i))'
    BY DEF NoSilentLoss
  <2>1. IsActivePodsForRole(i) /\ i \notin lost
    OBVIOUS
  <2>2. ~Queued(i)
    BY <1>1 DEF Queued
  <2>3. Warm(i) \/ Fetching(i) \/ Reporting(i)
    BY <2>1, <2>2 DEF NoSilentLoss
  <2> QED
    BY <1>1, <2>3 DEF Warm, Fetching, Reporting, Evicting
<1> QED
  BY <1>2, <1>3, <1>4

\* An added pod is announced or recorded as lost.
LEMMA AddPodMInv ==
  ASSUME MInv, NEW p \in Pods, NEW o \in Objects, AddPod(p, o)
  PROVE  MInv'
<1> USE DEF MInv
<1>1. /\ pods[p] = None /\ pods' = [pods EXCEPT ![p] = o]
      /\ announce(o)
      /\ lost' = IF Wanted(o) /\ Full THEN lost \cup {o.identity} ELSE lost
      /\ UNCHANGED <<cacheVars, managerVars, expiring>>
  BY DEF AddPod, OnAdd
<1>2. Wanted(o) => o.identity \in Identities
  BY ManagerAssumption DEF Wanted, HasRole
<1>3. PodTypeOK'
  BY <1>1, AnnounceStep DEF TypeOK, PodTypeOK
<1>4. lost' \in SUBSET Identities /\ lost \subseteq lost'
  BY <1>1, <1>2 DEF TypeOK
<1>5. ASSUME NEW i \in Identities, IsActivePodsForRole(i)', i \notin lost'
      PROVE  IsActivePodsForRole(i) \/ Queued(i)'
  <2>1. IsActivePodsForRole(i) \/ (o.identity = i /\ ~IsPodCompleted(o))
    <3>1. PICK q \in Pods : /\ pods'[q] # None /\ pods'[q].identity = i
                            /\ ~IsPodCompleted(pods'[q])
      BY <1>5 DEF IsActivePodsForRole, IsPodCompleted
    <3>2. CASE q = p
      BY <1>1, <3>1, <3>2 DEF TypeOK, PodTypeOK
    <3>3. CASE q # p
      BY <1>1, <3>1, <3>3 DEF TypeOK, PodTypeOK, IsActivePodsForRole
    <3> QED
      BY <3>2, <3>3
  <2>2. CASE o.identity = i /\ ~IsPodCompleted(o)
    <3>1. Wanted(o) /\ ~Full
      BY <1>1, <1>5, <2>2, ManagerAssumption DEF Wanted, HasRole
    <3> QED
      BY <1>1, <2>2, <3>1, AnnounceStep DEF Queued
  <2> QED
    BY <2>1, <2>2
<1> QED
  BY <1>1, <1>3, <1>4, <1>5, AnnounceStep, PodStep

\* An update that gives a pod a role is recorded as lost.
LEMMA UpdatePodMInv ==
  ASSUME MInv, NEW p \in Pods, NEW o \in Objects, UpdatePod(p, o)
  PROVE  MInv'
<1> USE DEF MInv
<1>1. /\ pods[p] # None /\ pods' = [pods EXCEPT ![p] = o]
      /\ lost' = IF /\ Wanted(o)
                    /\ o.identity # pods[p].identity \/ IsPodCompleted(pods[p])
                   THEN lost \cup {o.identity} ELSE lost
      /\ announced' = announced
      /\ UNCHANGED <<cacheVars, managerVars, expiring>>
  BY DEF UpdatePod, OnUpdate
<1>2. Wanted(o) => o.identity \in Identities
  BY ManagerAssumption DEF Wanted, HasRole
<1>3. PodTypeOK'
  BY <1>1 DEF TypeOK, PodTypeOK
<1>4. lost' \in SUBSET Identities /\ lost \subseteq lost'
  BY <1>1, <1>2 DEF TypeOK
<1>5. AnnouncedWanted'
  BY <1>1 DEF AnnouncedWanted, Wanted, HasRole, IsPodCompleted
<1>6. ASSUME NEW i \in Identities, IsActivePodsForRole(i)', i \notin lost'
      PROVE  IsActivePodsForRole(i)
  <2>1. PICK q \in Pods : /\ pods'[q] # None /\ pods'[q].identity = i
                          /\ ~IsPodCompleted(pods'[q])
    BY <1>6 DEF IsActivePodsForRole, IsPodCompleted
  <2>2. CASE q = p
    <3>1. o.identity = i /\ ~IsPodCompleted(o)
      BY <1>1, <2>1, <2>2 DEF TypeOK, PodTypeOK
    <3>2. Wanted(o)
      BY <3>1, ManagerAssumption DEF Wanted, HasRole
    <3>3. pods[p].identity = i /\ ~IsPodCompleted(pods[p])
      BY <1>1, <1>6, <3>1, <3>2
    <3> QED
      BY <1>1, <3>3 DEF IsActivePodsForRole
  <2>3. CASE q # p
    BY <1>1, <2>1, <2>3 DEF TypeOK, PodTypeOK, IsActivePodsForRole
  <2> QED
    BY <2>2, <2>3
<1> QED
  BY <1>1, <1>3, <1>4, <1>5, <1>6, PodStep

\* A deleted pod makes no role active.
LEMMA DeletePodMInv ==
  ASSUME MInv, NEW p \in Pods, DeletePod(p)
  PROVE  MInv'
<1> USE DEF MInv
<1>1. /\ pods' = [pods EXCEPT ![p] = None]
      /\ announced' = announced /\ lost' = lost
      /\ UNCHANGED <<cacheVars, managerVars, expiring>>
  BY DEF DeletePod, OnDelete
<1>2. PodTypeOK' /\ AnnouncedWanted' /\ lost' \in SUBSET Identities
  BY <1>1 DEF TypeOK, PodTypeOK, AnnouncedWanted, Wanted, HasRole, IsPodCompleted
<1>3. \A i \in Identities : IsActivePodsForRole(i)' => IsActivePodsForRole(i)
  BY <1>1 DEF IsActivePodsForRole, IsPodCompleted, TypeOK, PodTypeOK
<1> QED
  BY <1>1, <1>2, <1>3, PodStep

---------------------------------------------------------------------------
(* The credentials cache                                                   *)

\* A step of the credentials cache or of a manager touches no pod: every role
\* that is not recorded as lost is to have a trigger as it had before.
LEMMA CacheStep ==
  ASSUME MInv, TypeOK', ItemsInOrder', CallsInOrder', UNCHANGED podVars,
         \A i \in Identities :
           i \notin lost' => Triggered(i)' \/ (i \notin lost /\ ~Triggered(i))
  PROVE  MInv'
<1>1. pods' = pods /\ announced' = announced
  BY DEF podVars
<1>2. AnnouncedWanted'
  BY <1>1 DEF MInv, AnnouncedWanted, Wanted, HasRole, IsPodCompleted
<1>3. ASSUME NEW i \in Identities, IsActivePodsForRole(i)', i \notin lost'
      PROVE  Triggered(i)'
  <2>1. IsActivePodsForRole(i)
    BY <1>1, <1>3 DEF IsActivePodsForRole, IsPodCompleted
  <2>2. i \notin lost => Triggered(i)
    BY <2>1 DEF MInv, NoSilentLoss, Triggered
  <2> QED
    BY <1>3, <2>2
<1>4. NoSilentLoss'
  BY <1>3 DEF NoSilentLoss, Triggered
<1> QED
  BY <1>2, <1>4 DEF MInv

\* Collecting garbage does not touch a Future that is in use.
LEMMA CollectKeeps ==
  ASSUME NEW new \in [Futures -> FutureStates], Collect(new)
  PROVE  /\ future' \in [Futures -> FutureStates]
         /\ \A f \in Futures :
              item'[f[1]] = f \/ f \in evicting' \/ (\E m \in Managers : held'[m] = f)
                => future'[f] = new[f]
BY DEF Collect, InUse, Referred, FutureStates

\* A Future belongs to an identity.
LEMMA FutureIdentity ==
  \A f \in Futures : f[1] \in Identities /\ f # None
BY ManagerAssumption

\* A Future is stored, by an agent's call or by a manager m: its identity has
\* a trigger now, and the Futures of the others are as they were.
LEMMA StoreMInv ==
  ASSUME MInv, NEW f \in Futures, Store(f),
         Collect([future EXCEPT ![f] = "running"]),
         missed' \in SUBSET Identities,
         UNCHANGED <<podVars, evicting, expiring>>,
         \/ UNCHANGED managerVars
         \/ \E m \in Managers : /\ at[m] = "set" /\ want[m] = f[1]
                                /\ Goto(m, "wait", want[m], f)
  PROVE  MInv'
<1> USE DEF MInv
<1> DEFINE new == [future EXCEPT ![f] = "running"]
<1>1. /\ item' = [item EXCEPT ![f[1]] = f]
      /\ stale' = stale \ {f[1]} /\ lost' = lost \ {f[1]}
      /\ f[1] \in Identities /\ f # None
      /\ UNCHANGED <<pods, announced, evicting, expiring>>
  BY FutureIdentity DEF Store, podVars
<1>2. /\ new \in [Futures -> FutureStates] /\ new[f] = "running"
      /\ \A g \in Futures : g # f => new[g] = future[g]
  BY DEF TypeOK, FutureStates
<1> HIDE DEF new
<1>3. /\ future' \in [Futures -> FutureStates]
      /\ \A g \in Futures :
           item'[g[1]] = g \/ g \in evicting' \/ (\E m \in Managers : held'[m] = g)
             => future'[g] = new[g]
  BY <1>2, CollectKeeps DEF new
<1>4. /\ item'[f[1]] = f /\ future'[f] = "running"
      /\ \A i \in Identities : i # f[1] => item'[i] = item[i]
  BY <1>1, <1>2, <1>3 DEF TypeOK
<1>5. ASSUME NEW i \in Identities, i # f[1], item[i] # None
      PROVE  item[i] \in Futures /\ item'[i] = item[i]
             /\ future'[item[i]] = future[item[i]]
  <2>1. item[i] \in Futures /\ item[i][1] = i
    BY <1>5 DEF TypeOK, ItemsInOrder
  <2> QED
    BY <1>2, <1>3, <1>4, <1>5, <2>1
<1>6. CASE UNCHANGED managerVars
  <2>1. UNCHANGED <<at, want, held>>
    BY <1>6 DEF managerVars
  <2>2. TypeOK' /\ CallsInOrder'
    BY <1>1, <1>3, <2>1 DEF TypeOK, PodTypeOK, CallsInOrder
  <2>3. ItemsInOrder'
    BY <1>1, <1>4, <1>5 DEF ItemsInOrder
  <2>4. ASSUME NEW i \in Identities, i # f[1], Triggered(i)
        PROVE  Triggered(i)'
    <3>1. CASE Warm(i)
      BY <1>5, <2>4, <3>1 DEF Warm, Triggered
    <3>2. CASE Queued(i) \/ Fetching(i)
      BY <1>1, <2>1, <3>2 DEF Queued, Fetching, Triggered
    <3>3. ASSUME NEW g \in Futures, g[1] = i, Evicting(g), future[g] # "err"
          PROVE  Triggered(i)'
      <4>1. g # f
        BY <2>4, <3>3
      <4>2. future'[g] = future[g] /\ Evicting(g)'
        BY <1>1, <1>2, <1>3, <2>1, <3>3, <4>1 DEF Evicting
      <4> QED
        BY <3>3, <4>2 DEF Triggered, Reporting
    <3> QED
      BY <2>4, <3>1, <3>2, <3>3 DEF Triggered, Reporting
  <2>5. Triggered(f[1])'
    BY <1>1, <1>4 DEF Triggered, Warm
  <2> QED
    BY <1>1, <2>2, <2>3, <2>4, <2>5, CacheStep
<1>7. ASSUME NEW m \in Managers, at[m] = "set", want[m] = f[1],
             Goto(m, "wait", want[m], f)
      PROVE  MInv'
  <2>1. /\ at' = [at EXCEPT ![m] = "wait"]
        /\ held' = [held EXCEPT ![m] = f]
        /\ want' = want
    BY <1>7 DEF Goto, TypeOK
  <2>2. TypeOK' /\ CallsInOrder'
    BY <1>1, <1>3, <1>7, <2>1 DEF TypeOK, PodTypeOK, Stages, CallsInOrder
  <2>3. ItemsInOrder'
    BY <1>1, <1>4, <1>5 DEF ItemsInOrder
  <2>4. ASSUME NEW i \in Identities, i # f[1], Triggered(i)
        PROVE  Triggered(i)'
    <3>1. CASE Warm(i)
      BY <1>5, <2>4, <3>1 DEF Warm, Triggered
    <3>2. CASE Queued(i) \/ Fetching(i)
      BY <1>1, <1>7, <2>1, <2>4, <3>2 DEF Queued, Fetching, Triggered, TypeOK
    <3>3. ASSUME NEW g \in Futures, g[1] = i, Evicting(g), future[g] # "err"
          PROVE  Triggered(i)'
      <4>1. g # f
        BY <2>4, <3>3
      <4>2. Evicting(g)'
        BY <1>1, <1>7, <2>1, <3>3 DEF Evicting, TypeOK
      <4>3. future'[g] = future[g]
        BY <1>2, <1>3, <4>1, <4>2 DEF Evicting
      <4> QED
        BY <3>3, <4>2, <4>3 DEF Triggered, Reporting
    <3> QED
      BY <2>4, <3>1, <3>2, <3>3 DEF Triggered, Reporting
  <2>5. Triggered(f[1])'
    BY <1>1, <1>4 DEF Triggered, Warm
  <2> QED
    BY <1>1, <2>2, <2>3, <2>4, <2>5, CacheStep
<1> QED
  BY <1>6, <1>7

\* An agent's call finds nothing: nothing changes that matters.
LEMMA AgentMissMInv ==
  ASSUME MInv, NEW i \in Identities, AgentMiss(i)
  PROVE  MInv'
<1> USE DEF MInv
<1>1. /\ missed' \in SUBSET Identities
      /\ UNCHANGED <<podVars, pods, announced, item, stale, future, evicting, at,
                     want, held, expiring, lost>>
  BY DEF AgentMiss, TypeOK, managerVars, podVars
<1>2. TypeOK' /\ ItemsInOrder' /\ CallsInOrder'
  BY <1>1 DEF TypeOK, PodTypeOK, ItemsInOrder, CallsInOrder
<1>3. \A j : Triggered(j)' <=> Triggered(j)
  BY <1>1 DEF Triggered, Warm, Queued, Fetching, Reporting, Evicting
<1> QED
  BY <1>1, <1>2, <1>3, CacheStep

\* An item is deleted by an agent's call or purged by the janitor: its Future
\* has not failed and will be reported, or the loss is known already.
LEMMA RemoveMInv ==
  ASSUME MInv, NEW i \in Identities, AgentDelete(i) \/ Purge(i)
  PROVE  MInv'
<1> USE DEF MInv
<1>1. /\ item' = [item EXCEPT ![i] = None]
      /\ stale' = stale \ {i}
      /\ evicting' = evicting \cup {item[i]}
      /\ UNCHANGED <<podVars, pods, announced, future, missed, at, want, held,
                     expiring, lost>>
  BY DEF AgentDelete, Purge, Remove, managerVars, podVars
<1>2. item[i] \in Futures /\ item[i][1] = i
  <2>1. item[i] # None
    BY DEF AgentDelete, Purge, ItemsInOrder
  <2> QED
    BY <2>1 DEF TypeOK, ItemsInOrder
<1>3. TypeOK' /\ CallsInOrder'
  BY <1>1, <1>2 DEF TypeOK, PodTypeOK, CallsInOrder
<1>4. ItemsInOrder'
  BY <1>1 DEF ItemsInOrder, TypeOK
<1>5. ASSUME NEW j \in Identities, Triggered(j), j \notin lost
      PROVE  Triggered(j)'
  <2>1. CASE Warm(j) /\ j = i
    <3>1. PICK f \in Futures : f = item[i]
      BY <1>2
    <3>2. f[1] = j /\ Evicting(f)' /\ future'[f] # "err"
      BY <1>1, <1>2, <2>1, <3>1 DEF Warm, Evicting
    <3> QED
      BY <3>2 DEF Triggered, Reporting
  <2>2. CASE Warm(j) /\ j # i
    BY <1>1, <2>2 DEF Triggered, Warm, TypeOK
  <2>3. CASE Queued(j) \/ Fetching(j)
    BY <1>1, <2>3 DEF Triggered, Queued, Fetching
  <2>4. CASE Reporting(j)
    BY <1>1, <2>4 DEF Triggered, Reporting, Evicting
  <2> QED
    BY <1>5, <2>1, <2>2, <2>3, <2>4 DEF Triggered
<1> QED
  BY <1>1, <1>3, <1>4, <1>5, CacheStep

\* A request to STS ends: with credentials, or with a loss if it matters.
LEMMA IssueMInv ==
  ASSUME MInv, NEW f \in Futures, Issue(f) \/ IssueErr(f)
  PROVE  MInv'
<1> USE DEF MInv
<1>1. /\ \/ future' = [future EXCEPT ![f] = "ok"] /\ lost' = lost
         \/ /\ future' = [future EXCEPT ![f] = "err"]
            /\ lost' = IF item[f[1]] = f \/ Evicting(f)
                         THEN lost \cup {f[1]} ELSE lost
      /\ UNCHANGED <<podVars, pods, announced, item, stale, evicting, missed, at,
                     want, held, expiring>>
  BY DEF Issue, IssueErr, managerVars, podVars
<1>2. /\ \/ future'[f] = "ok"
         \/ item[f[1]] = f \/ Evicting(f) => f[1] \in lost'
      /\ \A g \in Futures : g # f => future'[g] = future[g]
      /\ lost \subseteq lost' /\ lost' \in SUBSET Identities
      /\ future' \in [Futures -> FutureStates]
  BY <1>1, FutureIdentity DEF TypeOK, FutureStates
<1>3. TypeOK' /\ CallsInOrder'
  BY <1>1, <1>2 DEF TypeOK, PodTypeOK, CallsInOrder
<1>4. ItemsInOrder'
  BY <1>1, <1>2 DEF ItemsInOrder, TypeOK
<1>5. ASSUME NEW j \in Identities, Triggered(j), j \notin lost'
      PROVE  Triggered(j)'
  <2>1. CASE Warm(j)
    <3>1. item[j] \in Futures /\ item[j][1] = j
      BY <2>1 DEF Warm, TypeOK, ItemsInOrder
    <3>2. item[j] = f => future'[f] = "ok"
      BY <1>2, <1>5, <3>1
    <3> QED
      BY <1>1, <1>2, <2>1, <3>1, <3>2 DEF Triggered, Warm
  <2>2. CASE Queued(j) \/ Fetching(j)
    BY <1>1, <2>2 DEF Triggered, Queued, Fetching
  <2>3. ASSUME NEW g \in Futures, g[1] = j, Evicting(g), future[g] # "err"
        PROVE  Triggered(j)'
    <3>1. future'[g] # "err"
      BY <1>2, <1>5, <2>3
    <3>2. Evicting(g)'
      BY <1>1, <2>3 DEF Evicting
    <3> QED
      BY <2>3, <3>1, <3>2 DEF Triggered, Reporting
  <2> QED
    BY <1>5, <2>1, <2>2, <2>3 DEF Triggered, Reporting
<1> QED
  BY <1>1, <1>2, <1>3, <1>4, <1>5, CacheStep

\* The item is past its TTL: it is still there.
LEMMA ExpireMInv ==
  ASSUME MInv, NEW i \in Identities, Expire(i)
  PROVE  MInv'
<1> USE DEF MInv
<1>1. /\ stale' = stale \cup {i} /\ item[i] # None
      /\ UNCHANGED <<podVars, pods, announced, item, future, evicting, missed, at,
                     want, held, expiring, lost>>
  BY DEF Expire, Found, managerVars, podVars
<1>2. TypeOK' /\ ItemsInOrder' /\ CallsInOrder'
  BY <1>1 DEF TypeOK, PodTypeOK, ItemsInOrder, CallsInOrder
<1>3. \A j : Triggered(j)' <=> Triggered(j)
  BY <1>1 DEF Triggered, Warm, Queued, Fetching, Reporting, Evicting
<1> QED
  BY <1>1, <1>2, <1>3, CacheStep

\* What evicted sends: the identity is queued or recorded as lost, unless the
\* Future has failed.
LEMMA NotifyStep ==
  ASSUME MInv, NEW f \in Futures, Notify(f)
  PROVE  /\ expiring' \in Seq(Identities) /\ Len(expiring') <= ExpiringBuffer
         /\ lost' \in SUBSET Identities /\ lost \subseteq lost'
         /\ \A n \in DOMAIN expiring :
              n \in DOMAIN expiring' /\ expiring'[n] = expiring[n]
         /\ \/ future[f] = "err"
            \/ f[1] \in lost'
            \/ \E n \in DOMAIN expiring' : expiring'[n] = f[1]
<1>1. /\ expiring \in Seq(Identities) /\ Len(expiring) <= ExpiringBuffer
      /\ lost \in SUBSET Identities /\ f[1] \in Identities
  BY FutureIdentity DEF MInv, TypeOK
<1>2. CASE future[f] = "err" \/ ~(Len(expiring) < ExpiringBuffer)
  <2>1. /\ expiring' = expiring
        /\ lost' = lost \/ lost' = lost \cup {f[1]}
        /\ future[f] = "err" \/ f[1] \in lost'
    BY <1>2 DEF Notify
  <2> QED
    BY <1>1, <2>1
<1>3. CASE future[f] # "err" /\ Len(expiring) < ExpiringBuffer
  <2>1. expiring' = Append(expiring, f[1]) /\ lost' = lost
    BY <1>3 DEF Notify
  <2>2. Len(expiring') <= ExpiringBuffer
    BY <1>1, <1>3, <2>1 DEF ExpiringBuffer
  <2> QED
    BY <1>1, <2>1, <2>2, AppendKeeps
<1> QED
  BY <1>2, <1>3

\* A call or an eviction comes to its end, and the Future that it referred to
\* may be garbage: what had to be reported is, or the loss is recorded.
LEMMA ReleaseMInv ==
  ASSUME MInv, Collect(future), UNCHANGED <<podVars, item, stale, missed>>,
         at' \in [Managers -> Stages],
         want' \in [Managers -> Identities \cup {None}],
         held' \in [Managers -> Futures \cup {None}],
         evicting' \in SUBSET Futures,
         expiring' \in Seq(Identities), Len(expiring') <= ExpiringBuffer,
         lost' \in SUBSET Identities, lost \subseteq lost',
         CallsInOrder',
         \A n \in DOMAIN expiring :
           n \in DOMAIN expiring' /\ expiring'[n] = expiring[n],
         \A g \in Futures :
           Evicting(g) => \/ Evicting(g)' \/ future[g] = "err"
                          \/ g[1] \in lost' \/ Queued(g[1])',
         \A i \in Identities : Fetching(i) => Fetching(i)'
  PROVE  MInv'
<1> USE DEF MInv
<1>1. UNCHANGED <<pods, announced, item, stale, missed>>
  BY DEF podVars
<1>2. /\ future' \in [Futures -> FutureStates]
      /\ \A g \in Futures :
           item'[g[1]] = g \/ g \in evicting' \/ (\E m \in Managers : held'[m] = g)
             => future'[g] = future[g]
  <2>1. future \in [Futures -> FutureStates]
    BY DEF TypeOK
  <2> QED
    BY <2>1, CollectKeeps
<1>3. \A i \in Identities : item[i] # None =>
        item[i] \in Futures /\ future'[item[i]] = future[item[i]]
  BY <1>1, <1>2 DEF TypeOK, ItemsInOrder
<1>4. TypeOK'
  BY <1>1, <1>2 DEF TypeOK, PodTypeOK
<1>5. ItemsInOrder'
  BY <1>1, <1>3 DEF ItemsInOrder
<1>6. ASSUME NEW j \in Identities, Triggered(j), j \notin lost'
      PROVE  Triggered(j)'
  <2>1. CASE Warm(j)
    BY <1>1, <1>3, <2>1 DEF Triggered, Warm
  <2>2. CASE Queued(j) \/ Fetching(j)
    BY <1>1, <2>2 DEF Triggered, Queued
  <2>3. ASSUME NEW g \in Futures, g[1] = j, Evicting(g), future[g] # "err"
        PROVE  Triggered(j)'
    <3>1. Evicting(g)' \/ Queued(j)'
      BY <1>6, <2>3
    <3>2. Evicting(g)' => future'[g] = future[g]
      BY <1>2 DEF Evicting
    <3> QED
      BY <2>3, <3>1, <3>2 DEF Triggered, Reporting
  <2> QED
    BY <1>6, <2>1, <2>2, <2>3 DEF Triggered, Reporting
<1> QED
  BY <1>4, <1>5, <1>6, CacheStep

\* evicted returns in the janitor or in an agent's call.
LEMMA EvictedMInv ==
  ASSUME MInv, NEW f \in Futures, Evicted(f)
  PROVE  MInv'
<1>1. /\ Notify(f) /\ Collect(future)
      /\ evicting' = evicting \ {f}
      /\ UNCHANGED <<podVars, item, stale, missed, at, want, held>>
  BY DEF Evicted, managerVars
<1>2. /\ at' \in [Managers -> Stages]
      /\ want' \in [Managers -> Identities \cup {None}]
      /\ held' \in [Managers -> Futures \cup {None}]
      /\ evicting' \in SUBSET Futures
      /\ CallsInOrder'
  BY <1>1 DEF MInv, TypeOK, CallsInOrder
<1>3. \A g \in Futures : Evicting(g) => Evicting(g)' \/ g = f
  BY <1>1 DEF Evicting
<1>4. \A i \in Identities : Fetching(i) => Fetching(i)'
  BY <1>1 DEF Fetching
<1>5. future[f] = "err" \/ f[1] \in lost' \/ Queued(f[1])'
  BY <1>1, NotifyStep DEF Queued
<1> QED
  BY <1>1, <1>2, <1>3, <1>4, <1>5, NotifyStep, ReleaseMInv

---------------------------------------------------------------------------
(* The managers                                                            *)

\* A manager's look-up: it waits for the item's Future, or is about to store
\* one.
LEMMA CredentialsForRoleStep ==
  ASSUME MInv, NEW m \in Managers, NEW i \in Identities, at[m] = "select",
         CredentialsForRole(m, i)
  PROVE  /\ at' \in [Managers -> Stages]
         /\ want' \in [Managers -> Identities \cup {None}]
         /\ held' \in [Managers -> Futures \cup {None}]
         /\ UNCHANGED <<item, future, evicting>> => CallsInOrder'
         /\ Found(i) \/ Fetching(i)'
         /\ \A j \in Identities : Fetching(j) => Fetching(j)'
         /\ \A g \in Futures :
              evicting' = evicting /\ Evicting(g) => Evicting(g)'
<1> USE DEF MInv
<1>1. CASE Found(i)
  <2>1. /\ at' = [at EXCEPT ![m] = "wait"]
        /\ want' = [want EXCEPT ![m] = i]
        /\ held' = [held EXCEPT ![m] = item[i]]
    BY <1>1 DEF CredentialsForRole, Goto
  <2>2. item[i] \in Futures /\ item[i][1] = i
    BY <1>1 DEF Found, TypeOK, ItemsInOrder
  <2> QED
    BY <1>1, <2>1, <2>2 DEF TypeOK, Stages, CallsInOrder, Fetching, Evicting
<1>2. CASE ~Found(i)
  <2>1. /\ at' = [at EXCEPT ![m] = "set"]
        /\ want' = [want EXCEPT ![m] = i]
        /\ held' = [held EXCEPT ![m] = None]
    BY <1>2 DEF CredentialsForRole, Goto
  <2> QED
    BY <2>1 DEF TypeOK, Stages, CallsInOrder, Fetching, Evicting
<1> QED
  BY <1>1, <1>2

\* Afterwards that role has a trigger or is lost, and the others keep theirs.
LEMMA LookUpKeeps ==
  ASSUME MInv, NEW m \in Managers, NEW i \in Identities, at[m] = "select",
         CredentialsForRole(m, i), UNCHANGED <<item, future, evicting, lost>>
  PROVE  /\ i \in lost \/ Triggered(i)'
         /\ \A j \in Identities :
              Warm(j) \/ Fetching(j) \/ Reporting(j) => Triggered(j)'
<1>1. i \in lost \/ Triggered(i)'
  BY CredentialsForRoleStep DEF MInv, ItemsInOrder, Triggered, Found, Warm
<1>2. ASSUME NEW j \in Identities, Warm(j) \/ Fetching(j) \/ Reporting(j)
      PROVE  Triggered(j)'
  <2>1. CASE Warm(j)
    BY <2>1 DEF Warm, Triggered
  <2>2. CASE Fetching(j)
    BY <2>2, CredentialsForRoleStep DEF Triggered
  <2>3. CASE Reporting(j)
    BY <2>3, CredentialsForRoleStep DEF Triggered, Reporting
  <2> QED
    BY <1>2, <2>1, <2>2, <2>3
<1> QED
  BY <1>1, <1>2

\* A manager takes a pod off the channel, which is wanted, and asks for its
\* credentials.
LEMMA FetchCredentialsMInv ==
  ASSUME MInv, NEW m \in Managers, FetchCredentials(m)
  PROVE  MInv'
<1> USE DEF MInv
<1> DEFINE h == Head(announced)
<1>1. /\ at[m] = "select"
      /\ announced # <<>> /\ announced' = Tail(announced)
      /\ UNCHANGED <<pods, item, stale, future, evicting, missed, expiring, lost>>
  BY DEF FetchCredentials, cacheVars
<1>2. announced \in Seq(Objects) /\ Len(announced) <= PrefetchBufferSize
  BY DEF TypeOK, PodTypeOK
<1>3. /\ announced' \in Seq(Objects) /\ Len(announced') = Len(announced) - 1
      /\ h \in Objects
      /\ 1 \in DOMAIN announced /\ announced[1] = h
      /\ \A n \in DOMAIN announced :
           announced[n] = h \/ \E k \in DOMAIN announced' : announced'[k] = announced[n]
      /\ \A k \in DOMAIN announced' :
           \E n \in DOMAIN announced : announced'[k] = announced[n]
  BY <1>1, <1>2, TailKeeps
<1>4. Wanted(h)
  BY <1>3 DEF AnnouncedWanted
<1>5. h.identity \in Identities /\ CredentialsForRole(m, h.identity)
  BY <1>3, <1>4, ManagerAssumption DEF FetchCredentials, Wanted, HasRole
<1>6. TypeOK' /\ CallsInOrder'
  <2>1. Len(announced') <= PrefetchBufferSize
    BY <1>2, <1>3, PodCacheAssumption
  <2>2. PodTypeOK'
    BY <1>1, <1>3, <2>1 DEF TypeOK, PodTypeOK
  <2> QED
    BY <1>1, <1>5, <2>2, CredentialsForRoleStep DEF TypeOK
<1>7. AnnouncedWanted'
  BY <1>3 DEF AnnouncedWanted, Wanted, HasRole, IsPodCompleted
<1>8. ItemsInOrder'
  BY <1>1 DEF ItemsInOrder
<1>9. NoSilentLoss'
  <2> SUFFICES ASSUME NEW i \in Identities,
                      IsActivePodsForRole(i)', i \notin lost'
               PROVE  Triggered(i)'
    BY DEF NoSilentLoss, Triggered
  <2>1. Triggered(i)
    BY <1>1 DEF NoSilentLoss, Triggered, IsActivePodsForRole, IsPodCompleted
  <2>2. CASE i = h.identity
    BY <1>1, <1>5, <2>2, LookUpKeeps
  <2>3. CASE i # h.identity /\ Queued(i)
    BY <1>1, <1>3, <2>3 DEF Queued, Triggered
  <2>4. CASE Warm(i) \/ Fetching(i) \/ Reporting(i)
    BY <1>1, <1>5, <2>4, LookUpKeeps
  <2> QED
    BY <2>1, <2>2, <2>3, <2>4 DEF Triggered
<1> QED
  BY <1>6, <1>7, <1>8, <1>9

\* A manager takes a notification off the channel and asks for credentials
\* unless no pod uses the role any more.
LEMMA HandleExpiringMInv ==
  ASSUME MInv, NEW m \in Managers, HandleExpiring(m)
  PROVE  MInv'
<1> USE DEF MInv
<1> DEFINE h == Head(expiring)
<1>1. /\ at[m] = "select"
      /\ expiring # <<>> /\ expiring' = Tail(expiring)
      /\ UNCHANGED <<pods, announced, item, stale, future, evicting, missed, lost>>
  BY DEF HandleExpiring, podVars, cacheVars
<1>2. expiring \in Seq(Identities) /\ Len(expiring) <= ExpiringBuffer
  BY DEF TypeOK
<1>3. /\ expiring' \in Seq(Identities) /\ Len(expiring') = Len(expiring) - 1
      /\ h \in Identities
      /\ \A n \in DOMAIN expiring :
           expiring[n] = h \/ \E k \in DOMAIN expiring' : expiring'[k] = expiring[n]
  BY <1>1, <1>2, TailKeeps
<1>4. Len(expiring') <= ExpiringBuffer
  BY <1>2, <1>3 DEF ExpiringBuffer
<1>5. AnnouncedWanted' /\ PodTypeOK' /\ ItemsInOrder'
  BY <1>1 DEF TypeOK, PodTypeOK, AnnouncedWanted, Wanted, HasRole, IsPodCompleted,
              ItemsInOrder
<1>6. \A i : IsActivePodsForRole(i)' <=> IsActivePodsForRole(i)
  BY <1>1 DEF IsActivePodsForRole, IsPodCompleted
<1>7. \A i \in Identities : i # h /\ Queued(i) => Queued(i)'
  BY <1>1, <1>3 DEF Queued
<1>8. CASE IsActivePodsForRole(h)
  <2>1. CredentialsForRole(m, h)
    BY <1>8 DEF HandleExpiring
  <2>2. TypeOK' /\ CallsInOrder'
    BY <1>1, <1>3, <1>4, <1>5, <2>1, CredentialsForRoleStep DEF TypeOK
  <2>3. NoSilentLoss'
    <3> SUFFICES ASSUME NEW i \in Identities, IsActivePodsForRole(i)',
                        i \notin lost'
                 PROVE  Triggered(i)'
      BY DEF NoSilentLoss, Triggered
    <3>1. Triggered(i)
      BY <1>1, <1>6 DEF NoSilentLoss, Triggered
    <3>2. CASE i = h
      BY <1>1, <1>3, <2>1, <3>2, LookUpKeeps
    <3>3. CASE i # h /\ Queued(i)
      BY <1>7, <3>3 DEF Triggered
    <3>4. CASE Warm(i) \/ Fetching(i) \/ Reporting(i)
      BY <1>1, <1>3, <2>1, <3>4, LookUpKeeps
    <3> QED
      BY <3>1, <3>2, <3>3, <3>4 DEF Triggered
  <2> QED
    BY <1>5, <2>2, <2>3
<1>9. CASE ~IsActivePodsForRole(h)
  <2>1. UNCHANGED <<at, want, held>>
    BY <1>9 DEF HandleExpiring, managerVars
  <2>2. TypeOK' /\ CallsInOrder'
    BY <1>1, <1>3, <1>4, <1>5, <2>1 DEF TypeOK, CallsInOrder
  <2>3. NoSilentLoss'
    <3> SUFFICES ASSUME NEW i \in Identities, IsActivePodsForRole(i)',
                        i \notin lost'
                 PROVE  Triggered(i)'
      BY DEF NoSilentLoss, Triggered
    <3>1. Triggered(i) /\ i # h
      BY <1>1, <1>6, <1>9 DEF NoSilentLoss, Triggered
    <3>2. Queued(i) => Queued(i)'
      BY <1>7, <3>1
    <3> QED
      BY <1>1, <2>1, <3>1, <3>2 DEF Triggered, Warm, Fetching, Reporting, Evicting
  <2> QED
    BY <1>5, <2>2, <2>3
<1> QED
  BY <1>8, <1>9

\* A manager stores a Future.
LEMMA SetItemMInv ==
  ASSUME MInv, NEW m \in Managers, SetItem(m)
  PROVE  MInv'
<1>1. PICK f \in Futures :
        /\ at[m] = "set" /\ f[1] = want[m]
        /\ Store(f)
        /\ Goto(m, "wait", want[m], f)
        /\ UNCHANGED <<podVars, evicting, missed, expiring>>
        /\ Collect([future EXCEPT ![f] = "running"])
  BY DEF SetItem
<1>2. missed' \in SUBSET Identities
  BY <1>1 DEF MInv, TypeOK
<1> QED
  BY <1>1, <1>2, StoreMInv

\* A manager's call ends, after evicted if it deleted an item.
LEMMA ReturnMInv ==
  ASSUME MInv, NEW m \in Managers, Return(m) \/ ReturnEvicted(m)
  PROVE  MInv'
<1> USE DEF MInv
<1>1. /\ at[m] \in {"wait", "evict"}
      /\ Collect(future)
      /\ UNCHANGED <<podVars, item, stale, evicting, missed>>
      /\ at' = [at EXCEPT ![m] = "select"]
      /\ want' = [want EXCEPT ![m] = None]
      /\ held' = [held EXCEPT ![m] = None]
  BY DEF Return, ReturnEvicted, Goto
<1>2. held[m] \in Futures
  BY <1>1 DEF CallsInOrder
<1>3. /\ at' \in [Managers -> Stages]
      /\ want' \in [Managers -> Identities \cup {None}]
      /\ held' \in [Managers -> Futures \cup {None}]
      /\ evicting' \in SUBSET Futures
      /\ CallsInOrder'
      /\ \A i \in Identities : Fetching(i) => Fetching(i)'
  BY <1>1 DEF TypeOK, Stages, CallsInOrder, Fetching
<1>4. \A g \in Futures :
        Evicting(g) => Evicting(g)' \/ (at[m] = "evict" /\ g = held[m])
  BY <1>1 DEF Evicting, TypeOK
<1>5. CASE Return(m)
  <2>1. at[m] = "wait" /\ UNCHANGED <<expiring, lost>>
    BY <1>5 DEF Return
  <2>2. /\ expiring' \in Seq(Identities) /\ Len(expiring') <= ExpiringBuffer
        /\ lost' \in SUBSET Identities
    BY <2>1 DEF TypeOK
  <2> QED
    BY <1>1, <1>3, <1>4, <2>1, <2>2, ReleaseMInv
<1>6. CASE ReturnEvicted(m)
  <2>1. PICK f \in Futures : f = held[m]
    BY <1>2
  <2>2. Notify(f)
    BY <1>6, <2>1 DEF ReturnEvicted
  <2>3. future[f] = "err" \/ f[1] \in lost' \/ Queued(f[1])'
    BY <2>2, NotifyStep DEF Queued
  <2>4. \A g \in Futures :
          Evicting(g) => \/ Evicting(g)' \/ future[g] = "err"
                         \/ g[1] \in lost' \/ Queued(g[1])'
    BY <1>4, <2>1, <2>3
  <2>5. /\ expiring' \in Seq(Identities) /\ Len(expiring') <= ExpiringBuffer
        /\ lost' \in SUBSET Identities /\ lost \subseteq lost'
        /\ \A n \in DOMAIN expiring :
             n \in DOMAIN expiring' /\ expiring'[n] = expiring[n]
    BY <2>2, NotifyStep
  <2> QED
    BY <1>1, <1>3, <2>4, <2>5, ReleaseMInv
<1> QED
  BY <1>5, <1>6

\* A manager's call has failed and deletes the item that is there: evicted will
\* report it unless its Future has failed too, which is known.
LEMMA ReturnErrMInv ==
  ASSUME MInv, NEW m \in Managers, ReturnErr(m)
  PROVE  MInv'
<1> USE DEF MInv
<1> DEFINE i == want[m]
           f == item[i]
<1>1. /\ at[m] = "wait" /\ i \in Identities
      /\ Collect(future)
      /\ item' = [item EXCEPT ![i] = None]
      /\ stale' = stale \ {i}
      /\ UNCHANGED <<podVars, pods, announced, evicting, missed, expiring, lost>>
      /\ IF f # None THEN Goto(m, "evict", i, f) ELSE Goto(m, "select", None, None)
  BY DEF ReturnErr, Remove, CallsInOrder, podVars
<1>2. f # None => f \in Futures /\ f[1] = i
  BY <1>1 DEF TypeOK, ItemsInOrder
<1> HIDE DEF i, f
<1>3. /\ at' = [at EXCEPT ![m] = IF f # None THEN "evict" ELSE "select"]
      /\ want' = [want EXCEPT ![m] = IF f # None THEN i ELSE None]
      /\ held' = [held EXCEPT ![m] = f]
  BY <1>1 DEF Goto
<1>4. /\ future' \in [Futures -> FutureStates]
      /\ \A g \in Futures :
           item'[g[1]] = g \/ g \in evicting' \/ (\E n \in Managers : held'[n] = g)
             => future'[g] = future[g]
  <2>1. future \in [Futures -> FutureStates]
    BY DEF TypeOK
  <2> QED
    BY <1>1, <2>1, CollectKeeps
<1>5. TypeOK'
  <2>1. /\ item' \in [Identities -> Futures \cup {None}]
        /\ stale' \in SUBSET Identities
    BY <1>1 DEF TypeOK
  <2>2. /\ at' \in [Managers -> Stages]
        /\ want' \in [Managers -> Identities \cup {None}]
        /\ held' \in [Managers -> Futures \cup {None}]
    BY <1>1, <1>2, <1>3 DEF TypeOK, Stages
  <2> QED
    BY <1>1, <1>4, <2>1, <2>2 DEF TypeOK, PodTypeOK
<1>6. CallsInOrder'
  BY <1>1, <1>2, <1>3 DEF CallsInOrder, TypeOK
<1>7. \A j \in Identities : j # i =>
        /\ item'[j] = item[j]
        /\ item[j] # None =>
             item[j] \in Futures /\ future'[item[j]] = future[item[j]]
  BY <1>1, <1>4 DEF TypeOK, ItemsInOrder
<1>8. item'[i] = None
  BY <1>1 DEF TypeOK
<1>9. ItemsInOrder'
  BY <1>1, <1>7, <1>8 DEF ItemsInOrder
<1>10. ASSUME NEW j \in Identities, Triggered(j), j \notin lost'
       PROVE  Triggered(j)'
  <2>1. CASE Warm(j) /\ j = i
    <3>1. PICK g \in Futures : g = f /\ g[1] = j /\ future[g] # "err"
      BY <1>2, <2>1 DEF Warm, f
    <3>2. held'[m] = g /\ at'[m] = "evict"
      BY <1>2, <1>3, <2>1, <3>1 DEF Warm, f, TypeOK
    <3>3. Evicting(g)' /\ future'[g] # "err"
      BY <1>4, <3>1, <3>2 DEF Evicting
    <3> QED
      BY <3>1, <3>3 DEF Triggered, Reporting
  <2>2. CASE Warm(j) /\ j # i
    BY <1>7, <2>2 DEF Triggered, Warm
  <2>3. CASE Queued(j) \/ Fetching(j)
    BY <1>1, <1>3, <2>3 DEF Triggered, Queued, Fetching, TypeOK
  <2>4. ASSUME NEW g \in Futures, g[1] = j, Evicting(g), future[g] # "err"
        PROVE  Triggered(j)'
    <3>1. Evicting(g)'
      BY <1>1, <1>3, <2>4 DEF Evicting, TypeOK
    <3>2. future'[g] = future[g]
      BY <1>4, <3>1 DEF Evicting
    <3> QED
      BY <2>4, <3>1, <3>2 DEF Triggered, Reporting
  <2> QED
    BY <1>10, <2>1, <2>2, <2>3, <2>4 DEF Triggered, Reporting
<1> QED
  BY <1>1, <1>5, <1>6, <1>9, <1>10, CacheStep

\* An agent's call stores a Future.
LEMMA AgentStoreMInv ==
  ASSUME MInv, NEW f \in Futures, AgentStore(f)
  PROVE  MInv'
<1>1. /\ Store(f)
      /\ Collect([future EXCEPT ![f] = "running"])
      /\ UNCHANGED <<podVars, evicting, expiring>>
      /\ UNCHANGED managerVars
  BY DEF AgentStore
<1>2. missed' \in SUBSET Identities
  BY DEF AgentStore, MInv, TypeOK
<1> QED
  BY <1>1, <1>2, StoreMInv

\* Every step preserves the invariant.
LEMMA NextMInv == MInv /\ [Next]_vars => MInv'
<1> SUFFICES ASSUME MInv, [Next]_vars PROVE MInv'
  OBVIOUS
<1>1. CASE \E p \in Pods, o \in Objects : AddPod(p, o) \/ UpdatePod(p, o)
  BY <1>1, AddPodMInv, UpdatePodMInv
<1>2. CASE \E p \in Pods : DeletePod(p)
  BY <1>2, DeletePodMInv
<1>3. CASE \E i \in Identities :
             AgentMiss(i) \/ AgentDelete(i) \/ Expire(i) \/ Purge(i)
  BY <1>3, AgentMissMInv, RemoveMInv, ExpireMInv
<1>4. CASE \E f \in Futures :
             AgentStore(f) \/ Issue(f) \/ IssueErr(f) \/ Evicted(f)
  BY <1>4, AgentStoreMInv, IssueMInv, EvictedMInv
<1>5. CASE \E m \in Managers : FetchCredentials(m) \/ HandleExpiring(m) \/ Call(m)
  BY <1>5, FetchCredentialsMInv, HandleExpiringMInv, SetItemMInv, ReturnMInv,
     ReturnErrMInv DEF Call
<1>6. CASE UNCHANGED vars
  <2>1. UNCHANGED <<pods, announced, item, stale, future, evicting, missed,
                    expiring, at, want, held, lost>>
    BY <1>6 DEF vars, podVars, cacheVars, managerVars
  <2>2. TypeOK' /\ AnnouncedWanted' /\ ItemsInOrder' /\ CallsInOrder'
    BY <2>1 DEF MInv, TypeOK, PodTypeOK, AnnouncedWanted, Wanted, HasRole,
                IsPodCompleted, ItemsInOrder, CallsInOrder
  <2>3. NoSilentLoss'
    BY <2>1 DEF MInv, NoSilentLoss, IsActivePodsForRole, IsPodCompleted, Warm,
                Queued, Fetching, Reporting, Evicting
  <2> QED
    BY <2>2, <2>3 DEF MInv
<1> QED
  BY <1>1, <1>2, <1>3, <1>4, <1>5, <1>6 DEF Next

\* The invariant holds throughout.
LEMMA InductiveMInv == Spec => []MInv
BY InitMInv, NextMInv, PTL DEF Spec

---------------------------------------------------------------------------
(* The theorems                                                            *)

\* Channels keep to their capacities and the state is well-typed.
THEOREM TypeCorrect == Spec => []TypeOK
BY InductiveMInv, PTL DEF MInv

\* A role that pods use is without credentials only while a trigger to fetch
\* them is under way, or after one was lost: announce on a full channel, an
\* update that is not announced, evicted on a full channel, a failed request.
\* A call that deletes a healthy item, or replaces one, loses none.
THEOREM NoSilentLossCorrect == Spec => []NoSilentLoss
BY InductiveMInv, PTL DEF MInv
=============================================================================
