------------------------- MODULE CredentialsCache -------------------------
(***************************************************************************)
(* The server's STS credentials cache: credentialsCache of                 *)
(* pkg/aws/sts/cache.go, the Future of pkg/future/future.go it stores, and *)
(* the go-cache map (with its janitor goroutine) it stores them in.        *)
(*                                                                         *)
(* Every element of Calls is one invocation of CredentialsForRole: a gRPC  *)
(* handler or a prefetch goroutine.  An invocation creates at most one     *)
(* Future, so the Future (and the credentials it yields) is named after    *)
(* the call that created it.                                               *)
(***************************************************************************)
EXTENDS Integers, Sequences, FiniteSets, RoleIdentity

CONSTANTS
  Calls,            \* invocations of CredentialsForRole
  Tokens,           \* what annotations are made of
  Identities,       \* the role identities that callers ask for
  SessionDuration,  \* lifetime of issued credentials, in ticks of the clock
  SessionRefresh,   \* how long before that the cache drops them
  MaxTime,          \* bound: the clock stops here
  None              \* no future, no entry

ASSUME ConstantsAssumption ==
  /\ SessionDuration \in Nat
  /\ SessionRefresh \in Nat
  /\ MaxTime \in Nat
  /\ None \notin Calls
  /\ None \notin [fut : Calls, exp : Nat]

\* Any identities, also ones that share a key because the separator of
\* RoleIdentity.String() is in a role or a session name.
ASSUME IdentitiesAssumption ==
  /\ "|" \in Tokens
  /\ Identities \subseteq RoleIdentities(Tokens)

VARIABLES
  now,        \* the wall clock
  cache,      \* go-cache items: key -> [fut, exp] or None
  future,     \* state of the Future created by each call
  issuedAt,   \* when STS issued the credentials of that Future
  pc,         \* control point of each call
  identity,   \* the identity argument of each call
  held,       \* the Future a call waits on, evicts or returned
  expiring,   \* the channel credentialsCache.expiring
  cacheSize,  \* the cacheSize gauge
  purging,    \* evicted items the janitor has still to report
  janitor     \* the Future the janitor is reporting now, or None

vars == <<now, cache, future, issuedAt, pc, identity, held, expiring,
          cacheSize, purging, janitor>>

callVars    == <<pc, identity, held>>
futureVars  == <<future, issuedAt>>
storeVars   == <<cache, cacheSize>>
janitorVars == <<purging, janitor>>

Keys     == {String(i) : i \in Identities}
Entries  == [fut : Calls, exp : Nat]
Returned == {"ok", "err"}
Settled  == {"ok", "err"}

TypeOK ==
  /\ now \in Nat
  /\ cache \in [Keys -> Entries \cup {None}]
  /\ future \in [Calls -> {"none", "running", "granted"} \cup Settled]
  /\ issuedAt \in [Calls -> Nat]
  /\ pc \in [Calls -> {"idle", "set", "count", "wait", "delete", "dec",
                         "evicted"} \cup Returned]
  /\ identity \in [Calls -> Identities \cup {None}]
  /\ held \in [Calls -> Calls \cup {None}]
  /\ expiring \in Seq(Calls)
  /\ cacheSize \in Int
  /\ purging \in SUBSET Calls
  /\ janitor \in Calls \cup {None}

Init ==
  /\ now = 0
  /\ cache = [k \in Keys |-> None]
  /\ future = [c \in Calls |-> "none"]
  /\ issuedAt = [c \in Calls |-> 0]
  /\ pc = [c \in Calls |-> "idle"]
  /\ identity = [c \in Calls |-> None]
  /\ held = [c \in Calls |-> None]
  /\ expiring = <<>>
  /\ cacheSize = 0
  /\ purging = {}
  /\ janitor = None

---------------------------------------------------------------------------
(* The go-cache map (external): an item whose Expiration is 0 never       *)
(* expires, and Set stores 0 for every duration that is not positive.      *)

\* Mutant: the items live as long as the credentials.
MutCacheTTL == SessionDuration

cacheTTL == SessionDuration - SessionRefresh

\* Mutant: the expiration lies before the present.
MutExpiration == now - cacheTTL

Expiration == IF cacheTTL > 0 THEN now + cacheTTL ELSE 0

Expired(e) == e.exp > 0 /\ now > e.exp

Found(k) == cache[k] # None /\ ~Expired(cache[k])

\* Mutant: items are stored under a key that leaves out the external id.
MutKey(c) == String([identity[c] EXCEPT !.externalID = <<>>])

key(c) == String(identity[c])

---------------------------------------------------------------------------
(* CredentialsForRole                                                      *)

Goto(c, label) == pc' = [pc EXCEPT ![c] = label]

Hold(c, f) == held' = [held EXCEPT ![c] = f]

\* Mutant: an item is good as long as the janitor has not removed it.
MutGetHit(c, i) ==
  /\ pc[c] = "idle"
  /\ cache[String(i)] # None
  /\ identity' = [identity EXCEPT ![c] = i]
  /\ Hold(c, cache[String(i)].fut)
  /\ Goto(c, "wait")
  /\ UNCHANGED <<now, storeVars, futureVars, expiring, janitorVars>>

\* The call starts and c.cache.Get hits: go on to wait for the Future found.
GetHit(c, i) ==
  /\ pc[c] = "idle"
  /\ Found(String(i))
  /\ identity' = [identity EXCEPT ![c] = i]
  /\ Hold(c, cache[String(i)].fut)
  /\ Goto(c, "wait")
  /\ UNCHANGED <<now, storeVars, futureVars, expiring, janitorVars>>

\* The call starts and c.cache.Get misses: future.New starts the goroutine
\* that calls STS.
GetMiss(c, i) ==
  /\ pc[c] = "idle"
  /\ ~Found(String(i))
  /\ identity' = [identity EXCEPT ![c] = i]
  /\ future' = [future EXCEPT ![c] = "running"]
  /\ Goto(c, "set")
  /\ UNCHANGED <<now, storeVars, issuedAt, held, expiring, janitorVars>>

\* c.cache.Set overwrites whatever is there, without a call of evicted.
SetEntry(c) ==
  /\ pc[c] = "set"
  /\ cache' = [cache EXCEPT ![key(c)] = [fut |-> c, exp |-> Expiration]]
  /\ Hold(c, c)
  /\ Goto(c, "count")
  /\ UNCHANGED <<now, cacheSize, futureVars, identity, expiring, janitorVars>>

\* cacheSize.Inc(), by when another call may have removed the item.
CountEntry(c) ==
  /\ pc[c] = "count"
  /\ cacheSize' = cacheSize + 1
  /\ Goto(c, "wait")
  /\ UNCHANGED <<now, cache, futureVars, identity, held, expiring, janitorVars>>

\* Future.Get yields credentials, which are returned.
GetValue(c) ==
  /\ pc[c] = "wait"
  /\ future[held[c]] = "ok"
  /\ Goto(c, "ok")
  /\ UNCHANGED <<now, storeVars, futureVars, identity, held, expiring,
                 janitorVars>>

\* Mutant: the error is returned and the item stays.
MutGetError(c) ==
  /\ pc[c] = "wait"
  /\ future[held[c]] = "err"
  /\ Goto(c, "err")
  /\ UNCHANGED <<now, storeVars, futureVars, identity, held, expiring,
                 janitorVars>>

\* Future.Get yields the Future's error.
GetError(c) ==
  /\ pc[c] = "wait"
  /\ future[held[c]] = "err"
  /\ Goto(c, "delete")
  /\ UNCHANGED <<now, storeVars, futureVars, identity, held, expiring,
                 janitorVars>>

\* Future.Get yields the error of the caller's context, which may end at any
\* time: a deadline, a client that went away, server shutdown.  When the
\* Future is done as well the select may take either case.
GetDone(c) ==
  /\ pc[c] = "wait"
  /\ Goto(c, "delete")
  /\ UNCHANGED <<now, storeVars, futureVars, identity, held, expiring,
                 janitorVars>>

\* Mutant: the item is taken off the gauge whether or not it is still there.
MutDeleteEntry(c) ==
  /\ pc[c] = "delete"
  /\ cache' = [cache EXCEPT ![key(c)] = None]
  /\ Hold(c, IF cache[key(c)] # None THEN cache[key(c)].fut ELSE c)
  /\ Goto(c, "dec")
  /\ UNCHANGED <<now, cacheSize, futureVars, identity, expiring, janitorVars>>

\* c.cache.Delete: removes whatever Future is under the key by now, and
\* goes on to call evicted for it in this goroutine.
DeleteEntry(c) ==
  /\ pc[c] = "delete"
  /\ IF cache[key(c)] # None
       THEN /\ cache' = [cache EXCEPT ![key(c)] = None]
            /\ Hold(c, cache[key(c)].fut)
            /\ Goto(c, "dec")
       ELSE /\ Hold(c, None)
            /\ Goto(c, "err")
            /\ UNCHANGED cache
  /\ UNCHANGED <<now, cacheSize, futureVars, identity, expiring, janitorVars>>

---------------------------------------------------------------------------
(* evicted: takes the item off the gauge, waits for the Future with a      *)
(* background context, then notifies without blocking.                     *)

ExpiringBuffer == 1

\* Mutant: the send blocks while the channel is full.
MutNotify(f) ==
  IF future[f] = "ok"
    THEN Len(expiring) < ExpiringBuffer /\ expiring' = Append(expiring, f)
    ELSE UNCHANGED expiring

Notify(f) ==
  expiring' = IF future[f] = "ok" /\ Len(expiring) < ExpiringBuffer
                THEN Append(expiring, f)
                ELSE expiring

\* evicted, called by the Delete of a failing call: cacheSize.Dec().
UncountEntry(c) ==
  /\ pc[c] = "dec"
  /\ cacheSize' = cacheSize - 1
  /\ Goto(c, "evicted")
  /\ UNCHANGED <<now, cache, futureVars, identity, held, expiring, janitorVars>>

\* The Future is done.
EvictedByCall(c) ==
  /\ pc[c] = "evicted"
  /\ future[held[c]] \in Settled
  /\ Notify(held[c])
  /\ Hold(c, None)
  /\ Goto(c, "err")
  /\ UNCHANGED <<now, storeVars, futureVars, identity, janitorVars>>

\* The janitor's DeleteExpired removes every expired item under one lock.
Purge ==
  LET expired == {k \in Keys : cache[k] # None /\ Expired(cache[k])}
  IN  /\ expired # {}
      /\ purging = {} /\ janitor = None
      /\ cache' = [k \in Keys |-> IF k \in expired THEN None ELSE cache[k]]
      /\ purging' = {cache[k].fut : k \in expired}
      /\ UNCHANGED <<now, futureVars, callVars, expiring, cacheSize, janitor>>

\* It then calls evicted for the removed items, one after the other.
EvictedByJanitor(f) ==
  /\ janitor = None
  /\ f \in purging
  /\ janitor' = f
  /\ purging' = purging \ {f}
  /\ cacheSize' = cacheSize - 1
  /\ UNCHANGED <<now, cache, futureVars, callVars, expiring>>

NotifyByJanitor ==
  /\ janitor # None
  /\ future[janitor] \in Settled
  /\ Notify(janitor)
  /\ janitor' = None
  /\ UNCHANGED <<now, storeVars, futureVars, callVars, purging>>

---------------------------------------------------------------------------
(* The issue goroutine of a Future, and STS.                               *)

\* STS issues the credentials; their lifetime starts.
Grant(c) ==
  /\ future[c] = "running"
  /\ future' = [future EXCEPT ![c] = "granted"]
  /\ issuedAt' = [issuedAt EXCEPT ![c] = now]
  /\ UNCHANGED <<now, storeVars, callVars, expiring, janitorVars>>

\* The answer arrives and the Future is done.
IssueOk(c) ==
  /\ future[c] = "granted"
  /\ future' = [future EXCEPT ![c] = "ok"]
  /\ UNCHANGED <<now, storeVars, issuedAt, callVars, expiring, janitorVars>>

\* Issue fails: STS refuses, the answer is lost, or the context of the
\* call that created the Future has ended.
IssueErr(c) ==
  /\ future[c] \in {"running", "granted"}
  /\ future' = [future EXCEPT ![c] = "err"]
  /\ issuedAt' = [issuedAt EXCEPT ![c] = 0]
  /\ UNCHANGED <<now, storeVars, callVars, expiring, janitorVars>>

---------------------------------------------------------------------------
(* The environment                                                         *)

\* The prefetch manager receives from Expiring().
Receive ==
  /\ expiring # <<>>
  /\ expiring' = Tail(expiring)
  /\ UNCHANGED <<now, storeVars, futureVars, callVars, janitorVars>>

\* Time passes.  The code between cache.Get and cache.Set does not block:
\* it takes no time at the scale of the clock.
Tick ==
  /\ now < MaxTime
  /\ \A c \in Calls : pc[c] # "set"
  /\ now' = now + 1
  /\ UNCHANGED <<storeVars, futureVars, callVars, expiring, janitorVars>>

\* Every call has returned and the bounded clock has run out.
Quiescent ==
  /\ now = MaxTime
  /\ \A c \in Calls : pc[c] \in Returned
  /\ UNCHANGED vars

CallStep(c) ==
  \/ SetEntry(c) \/ CountEntry(c)
  \/ GetValue(c) \/ GetError(c)
  \/ DeleteEntry(c) \/ UncountEntry(c) \/ EvictedByCall(c)

IssueStep(c) == Grant(c) \/ IssueOk(c) \/ IssueErr(c)

JanitorStep ==
  \/ Purge
  \/ \E f \in Calls : EvictedByJanitor(f)
  \/ NotifyByJanitor

Next ==
  \/ \E c \in Calls :
       \/ \E i \in Identities : GetHit(c, i) \/ GetMiss(c, i)
       \/ CallStep(c)
       \/ GetDone(c)
       \/ IssueStep(c)
  \/ JanitorStep
  \/ Receive
  \/ Tick
  \/ Quiescent

Spec == Init /\ [][Next]_vars

\* Goroutines are scheduled and every STS request ends, with credentials or
\* with an error.  No context is assumed to end, no client to call and nobody
\* to receive from Expiring().
Fairness ==
  /\ \A c \in Calls : WF_vars(CallStep(c)) /\ WF_vars(IssueStep(c))
  /\ WF_vars(JanitorStep)

---------------------------------------------------------------------------
(* Properties                                                              *)

\* Whichever call's Future a call waited on, it returns credentials issued for
\* an identity with its own key: the very identity it asked for, unless the
\* separator is in the role or session name of one of the two (README: kiam
\* was written because of "data races under load causing incorrect
\* credentials").
ServedForOwnIdentity ==
  \A c \in Calls : pc[c] = "ok" =>
    LET served == identity[held[c]]
    IN  /\ String(served) = String(identity[c])
        /\ Keyable(served) /\ Keyable(identity[c]) => served = identity[c]

\* A hit never yields credentials within session-refresh of the end of their
\* life: the item expires early enough even when STS was slow to answer.
FreshHit ==
  \A k \in Keys :
    /\ Found(k)
    /\ future[cache[k].fut] \in {"granted", "ok"}
    => issuedAt[cache[k].fut] + SessionDuration >= now + SessionRefresh

\* A failed Future outlives the call that created it nowhere in the cache:
\* once that call has returned, its item holds credentials.
NoPoisonedEntry ==
  \A k \in Keys :
    /\ cache[k] # None
    /\ pc[cache[k].fut] \in Returned
    => future[cache[k].fut] = "ok"

\* Every call of CredentialsForRole returns: neither evicted, which waits for
\* another call's Future with a background context, nor a full channel of
\* expiring credentials keeps it.
CallsReturn == \A c \in Calls : pc[c] # "idle" ~> pc[c] \in Returned

\* The janitor gets through the items it removed, and can purge again, even if
\* nobody receives.
JanitorReturns == purging # {} ~> purging = {} /\ janitor = None

\* "How soon STS Tokens should be refreshed before their expiration" (flag
\* session-refresh): a hit never yields credentials that have expired.
RefreshedBeforeExpiration ==
  \A k \in Keys :
    /\ Found(k)
    /\ future[cache[k].fut] \in {"granted", "ok"}
    => issuedAt[cache[k].fut] + SessionDuration >= now

\* Items are stored and counted, and removed and taken off, in separate steps,
\* and calls overwrite and delete each other's items: once every call has
\* returned and the janitor has reported what it removed, the gauge "Current
\* size of the metadata cache" is not below the number of items.
GaugeCoversItems ==
  (\A c \in Calls : pc[c] \in Returned \cup {"idle"}) /\ purging = {}
    => cacheSize >= Cardinality({k \in Keys : cache[k] # None})
=============================================================================
