------------------------- MODULE CredentialManager -------------------------
(***************************************************************************)
(* Prefetching: the processes of pkg/prefetch/manager.go between the pod   *)
(* cache, which announces pods, and the credentials cache                  *)
(* (pkg/aws/sts/cache.go), which announces credentials that were removed.  *)
(*                                                                         *)
(* The managers' calls of the credentials cache go step by step: look-up,  *)
(* store, wait, delete, evicted.  The agents' calls do what calls can do   *)
(* to an item: store a Future after a miss, and delete whatever item is    *)
(* there after an error or the end of their context.  Keys, the time that  *)
(* credentials last and the gauge are left to CredentialsCache.            *)
(***************************************************************************)
EXTENDS PodCache

CONSTANTS
  Managers,    \* the parallel fetcher goroutines
  Identities,  \* role identities
  Futures,     \* pairs of an identity and a number; bounds how many Futures
               \* of an identity are in use at a time
  STSFails,    \* may a request to STS fail?
  Asked        \* the identities that agents ask for

ASSUME ManagerAssumption ==
  /\ None \notin Identities
  /\ Futures \subseteq Identities \X Nat
  /\ None \notin Futures
  /\ STSFails \in BOOLEAN
  /\ Asked \subseteq Identities
  /\ \A o \in Objects : o.identity \in Identities \cup {None}

VARIABLES
  item,      \* the credentials cache: the Future of each identity, or None
  stale,     \* identities whose item is past its TTL
  future,    \* what has become of each Future
  evicting,  \* Futures that the janitor or an agent's call took out of the
             \* cache and for which evicted has not returned
  missed,    \* identities for which an agent's call found no item and is
             \* about to store a Future
  expiring,  \* the channel credentialsCache.expiring
  at,        \* control point of each manager process
  want,      \* the identity it fetches, or None
  held,      \* the Future that it waits for, or None
  lost       \* history: identities whose trigger to fetch was lost

cacheVars   == <<item, stale, future, evicting, missed>>
managerVars == <<at, want, held>>
vars == <<podVars, cacheVars, managerVars, expiring, lost>>

ExpiringBuffer == 1

\* "free" is a Future that nobody refers to.
FutureStates == {"free", "running", "ok", "err"}

\* In the select; before the store; in Get; in evicted.
Stages == {"select", "set", "wait", "evict"}

TypeOK ==
  /\ PodTypeOK
  /\ item \in [Identities -> Futures \cup {None}]
  /\ stale \in SUBSET Identities
  /\ future \in [Futures -> FutureStates]
  /\ evicting \in SUBSET Futures
  /\ missed \in SUBSET Identities
  /\ expiring \in Seq(Identities) /\ Len(expiring) <= ExpiringBuffer
  /\ at \in [Managers -> Stages]
  /\ want \in [Managers -> Identities \cup {None}]
  /\ held \in [Managers -> Futures \cup {None}]
  /\ lost \in SUBSET Identities

Init ==
  /\ PodInit
  /\ item = [i \in Identities |-> None]
  /\ stale = {}
  /\ future = [f \in Futures |-> "free"]
  /\ evicting = {}
  /\ missed = {}
  /\ expiring = <<>>
  /\ at = [m \in Managers |-> "select"]
  /\ want = [m \in Managers |-> None]
  /\ held = [m \in Managers |-> None]
  /\ lost = {}

---------------------------------------------------------------------------
(* Pods come, change and go                                                *)

Wanted(o) == HasRole(o) /\ ~IsPodCompleted(o)

AddPod(p, o) ==
  /\ OnAdd(p, o)
  /\ lost' = IF Wanted(o) /\ Full THEN lost \cup {o.identity} ELSE lost
  /\ UNCHANGED <<cacheVars, managerVars, expiring>>

UpdatePod(p, o) ==
  /\ OnUpdate(p, o)
  /\ lost' = IF /\ Wanted(o)
                /\ o.identity # pods[p].identity \/ IsPodCompleted(pods[p])
               THEN lost \cup {o.identity} ELSE lost
  /\ UNCHANGED <<cacheVars, managerVars, expiring>>

DeletePod(p) ==
  /\ OnDelete(p)
  /\ UNCHANGED <<cacheVars, managerVars, expiring, lost>>

---------------------------------------------------------------------------
(* The credentials cache                                                   *)

Done(f) == future[f] \in {"ok", "err"}

Found(i) == item[i] # None /\ i \notin stale

\* A call or an eviction refers to the Future.
Referred(f) == f \in evicting \/ \E m \in Managers : held[m] = f

InUse(f) == item[f[1]] = f \/ Referred(f)

\* A Future that nobody refers to any more is garbage.
Collect(new) ==
  future' = [f \in Futures |-> IF InUse(f)' THEN new[f] ELSE "free"]

\* future.New and cache.Set, which replaces any item that is there by now.
Store(f) ==
  /\ ~Referred(f)
  /\ item' = [item EXCEPT ![f[1]] = f]
  /\ stale' = stale \ {f[1]}
  /\ lost' = lost \ {f[1]}

\* cache.Delete, and the janitor.
Remove(i) ==
  /\ item' = [item EXCEPT ![i] = None]
  /\ stale' = stale \ {i}

\* Mutant: a removed item is not reported.
MutNotify(f) == UNCHANGED <<expiring, lost>>

\* evicted, once the Future is done: credentials are reported unless the
\* channel is full, an error is not.
Notify(f) ==
  IF future[f] = "err" THEN UNCHANGED <<expiring, lost>>
  ELSE IF Len(expiring) < ExpiringBuffer
    THEN expiring' = Append(expiring, f[1]) /\ UNCHANGED lost
    ELSE lost' = lost \cup {f[1]} /\ UNCHANGED expiring

\* An agent's call on behalf of a pod finds no item ...
AgentMiss(i) ==
  /\ i \in Asked
  /\ IsActivePodsForRole(i)
  /\ ~Found(i)
  /\ missed' = missed \cup {i}
  /\ UNCHANGED <<podVars, item, stale, future, evicting, managerVars, expiring,
                 lost>>

\* ... and stores a Future.
AgentStore(f) ==
  /\ f[1] \in missed
  /\ missed' = missed \ {f[1]}
  /\ Store(f)
  /\ UNCHANGED <<podVars, evicting, managerVars, expiring>>
  /\ Collect([future EXCEPT ![f] = "running"])

\* The Future that an agent's call waits for has failed, or the call's
\* context has ended: it deletes the item that is there now, whatever became
\* of that one's Future.
AgentDelete(i) ==
  /\ i \in Asked
  /\ item[i] # None
  /\ Remove(i)
  /\ evicting' = evicting \cup {item[i]}
  /\ UNCHANGED <<podVars, future, missed, managerVars, expiring, lost>>

Issue(f) ==
  /\ future[f] = "running"
  /\ future' = [future EXCEPT ![f] = "ok"]
  /\ UNCHANGED <<podVars, item, stale, evicting, missed, managerVars, expiring,
                 lost>>

\* evicted runs for f, in whatever goroutine.
Evicting(f) == f \in evicting \/ \E m \in Managers : at[m] = "evict" /\ held[m] = f

\* A failed Future that is still the item, or whose eviction would have been
\* reported, is the loss of a trigger: nobody asks again.
IssueErr(f) ==
  /\ STSFails
  /\ future[f] = "running"
  /\ future' = [future EXCEPT ![f] = "err"]
  /\ lost' = IF item[f[1]] = f \/ Evicting(f) THEN lost \cup {f[1]} ELSE lost
  /\ UNCHANGED <<podVars, item, stale, evicting, missed, managerVars, expiring>>

\* The item passes its TTL, which is longer than a request to STS takes.
Expire(i) ==
  /\ Found(i)
  /\ future[item[i]] = "ok"
  /\ stale' = stale \cup {i}
  /\ UNCHANGED <<podVars, item, future, evicting, missed, managerVars, expiring,
                 lost>>

\* The janitor takes the item out; evicted is still to come.
Purge(i) ==
  /\ i \in stale
  /\ Remove(i)
  /\ evicting' = evicting \cup {item[i]}
  /\ UNCHANGED <<podVars, future, missed, managerVars, expiring, lost>>

Evicted(f) ==
  /\ f \in evicting
  /\ Done(f)
  /\ Notify(f)
  /\ evicting' = evicting \ {f}
  /\ UNCHANGED <<podVars, item, stale, missed, managerVars>>
  /\ Collect(future)

---------------------------------------------------------------------------
(* CredentialManager.Run: the two cases of the select, each of which calls *)
(* CredentialsForRole                                                      *)

Goto(m, stage, i, f) ==
  /\ at' = [at EXCEPT ![m] = stage]
  /\ want' = [want EXCEPT ![m] = i]
  /\ held' = [held EXCEPT ![m] = f]

\* The look-up: the item's Future is waited for, or a new one is to be stored.
CredentialsForRole(m, i) ==
  IF Found(i) THEN Goto(m, "wait", i, item[i]) ELSE Goto(m, "set", i, None)

\* fetchCredentials
FetchCredentials(m) ==
  /\ at[m] = "select"
  /\ announced # <<>>
  /\ announced' = Tail(announced)
  /\ IF IsPodCompleted(Head(announced))
       THEN UNCHANGED managerVars
       ELSE CredentialsForRole(m, Head(announced).identity)
  /\ UNCHANGED <<pods, cacheVars, expiring, lost>>

\* handleExpiring
HandleExpiring(m) ==
  /\ at[m] = "select"
  /\ expiring # <<>>
  /\ expiring' = Tail(expiring)
  /\ IF IsActivePodsForRole(Head(expiring))
       THEN CredentialsForRole(m, Head(expiring))
       ELSE UNCHANGED managerVars
  /\ UNCHANGED <<podVars, cacheVars, lost>>

SetItem(m) ==
  /\ at[m] = "set"
  /\ \E f \in Futures :
       /\ f[1] = want[m]
       /\ Store(f)
       /\ Goto(m, "wait", want[m], f)
       /\ UNCHANGED <<podVars, evicting, missed, expiring>>
       /\ Collect([future EXCEPT ![f] = "running"])

\* Mutant: a call that waits for the Future is not woken up.
MutReturn(m) ==
  /\ FALSE
  /\ UNCHANGED vars

\* The Future has credentials.
Return(m) ==
  /\ at[m] = "wait"
  /\ future[held[m]] = "ok"
  /\ Goto(m, "select", None, None)
  /\ UNCHANGED <<podVars, item, stale, evicting, missed, expiring, lost>>
  /\ Collect(future)

\* The Future has failed: the call deletes the item that is there now, if any,
\* and is in evicted then; the error is logged.
ReturnErr(m) ==
  /\ at[m] = "wait"
  /\ future[held[m]] = "err"
  /\ Remove(want[m])
  /\ IF item[want[m]] # None
       THEN Goto(m, "evict", want[m], item[want[m]])
       ELSE Goto(m, "select", None, None)
  /\ UNCHANGED <<podVars, evicting, missed, expiring, lost>>
  /\ Collect(future)

ReturnEvicted(m) ==
  /\ at[m] = "evict"
  /\ Done(held[m])
  /\ Notify(held[m])
  /\ Goto(m, "select", None, None)
  /\ UNCHANGED <<podVars, item, stale, evicting, missed>>
  /\ Collect(future)

\* A call of CredentialsForRole goes on.
Call(m) == SetItem(m) \/ Return(m) \/ ReturnErr(m) \/ ReturnEvicted(m)

Next ==
  \/ \E p \in Pods, o \in Objects : AddPod(p, o) \/ UpdatePod(p, o)
  \/ \E p \in Pods : DeletePod(p)
  \/ \E i \in Identities :
       AgentMiss(i) \/ AgentDelete(i) \/ Expire(i) \/ Purge(i)
  \/ \E f \in Futures :
       AgentStore(f) \/ Issue(f) \/ IssueErr(f) \/ Evicted(f)
  \/ \E m \in Managers : FetchCredentials(m) \/ HandleExpiring(m) \/ Call(m)

Spec == Init /\ [][Next]_vars

\* Every request to STS ends, the janitor runs every minute, goroutines are
\* scheduled and a select chooses at random between channels that are ready.
\* Only the bound on Futures disables a store, hence its strong fairness.
\* Pods may never come, agents may never ask, their calls never fail.
FairSpec ==
  /\ Spec
  /\ \A i \in Identities : WF_vars(Purge(i))
  /\ \A i \in Asked : SF_vars(\E f \in Futures : f[1] = i /\ AgentStore(f))
  /\ \A f \in Futures : WF_vars(Issue(f) \/ Evicted(f))
  /\ \A m \in Managers :
       /\ SF_vars(FetchCredentials(m)) /\ SF_vars(HandleExpiring(m))
       /\ SF_vars(Call(m))

---------------------------------------------------------------------------
(* Properties                                                              *)

\* The item's Future has not failed.
Warm(i) == item[i] # None /\ future[item[i]] # "err"

Live(i) == Found(i) /\ future[item[i]] = "ok"

\* A trigger is under way: in a channel, with a manager that is about to store
\* a Future, or in an eviction that will be reported.
Queued(i) ==
  \/ \E n \in DOMAIN announced : announced[n].identity = i
  \/ \E n \in DOMAIN expiring : expiring[n] = i

Fetching(i) == \E m \in Managers : at[m] = "set" /\ want[m] = i

Reporting(i) ==
  \E f \in Futures : f[1] = i /\ Evicting(f) /\ future[f] # "err"

\* A role in use is without credentials, whoever deleted them and in whatever
\* state, only while a trigger to fetch them is under way, or after one was
\* lost: to a full channel, to a failed request, or to an update that is not
\* announced.
NoSilentLoss ==
  \A i \in Identities :
    IsActivePodsForRole(i) /\ i \notin lost =>
      Warm(i) \/ Queued(i) \/ Fetching(i) \/ Reporting(i)

Failure(i) == AgentDelete(i) \/ \E f \in Futures : f[1] = i /\ IssueErr(f)

\* "stored in advance of Pods needing them" (README, Server): while pods use
\* a role its credentials are fetched again and again, unless a trigger to
\* fetch them is lost, when it is up to the agents' requests, or the requests
\* to STS or the agents' calls for that role never cease to fail.
KeepsRolesWarm ==
  \A i \in Identities :
    \/ []<><<Failure(i)>>_vars
    \/ IsActivePodsForRole(i)
         ~> Live(i) \/ ~IsActivePodsForRole(i) \/ i \in lost

\* "For any expiring credentials it checks whether pods are still active and
\* requests new ones" (CredentialManager).
ExpiringRefreshed ==
  \A i \in Identities :
    i \in stale /\ IsActivePodsForRole(i)
      ~> (Found(i) /\ Warm(i)) \/ ~IsActivePodsForRole(i)
=============================================================================
