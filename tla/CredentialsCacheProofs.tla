---------------------- MODULE CredentialsCacheProofs ----------------------
(***************************************************************************)
(* Safety of the credentials cache for every set of calls and identities,  *)
(* every session duration and every interleaving.                          *)
(***************************************************************************)
EXTENDS CredentialsCacheRefinement, RoleIdentityProofs, FiniteSetTheorems

---------------------------------------------------------------------------
(* The inductive invariant                                                 *)

\* A call has an identity once it has started; a Future exists only for a
\* call that has started.
Started ==
  \A c \in Calls :
    /\ pc[c] # "idle" => identity[c] \in Identities
    /\ pc[c] = "idle" => future[c] = "none"
    /\ pc[c] = "set" => future[c] # "none"

\* A waiting call holds a Future for its key: its own if it has one.
HoldsOwnKey ==
  \A c \in Calls :
    /\ pc[c] \in {"dec", "evicted"} => held[c] \in Calls
    /\ pc[c] \in {"count", "wait", "ok"} =>
         /\ held[c] \in Calls
         /\ future[held[c]] # "none"
         /\ pc[held[c]] # "idle"
         /\ String(identity[held[c]]) = String(identity[c])
         /\ future[c] # "none" => held[c] = c
    /\ pc[c] = "ok" => future[held[c]] = "ok"

\* An item is stored under the key of its creator's identity, while that
\* call waits or is about to delete it, or after it has returned credentials.
EntriesOwned ==
  \A k \in Keys : cache[k] # None =>
    LET f == cache[k].fut
    IN  /\ k = String(identity[f])
        /\ future[f] # "none"
        /\ pc[f] \in {"count", "wait", "delete", "ok"}

IInv == TypeOK /\ Started /\ HoldsOwnKey /\ EntriesOwned

\* An item expires cacheTTL after STS issued its credentials, or earlier.
EntriesExpireEarly ==
  \A k \in Keys : cache[k] # None =>
    LET e == cache[k]
    IN  /\ e.exp > 0
        /\ e.exp <= now + cacheTTL
        /\ future[e.fut] \in {"granted", "ok"} =>
             e.exp <= issuedAt[e.fut] + cacheTTL

\* No time passes between the creation of a Future and cache.Set.
SetAtOnce ==
  \A c \in Calls :
    pc[c] = "set" /\ future[c] \in {"granted", "ok"} => issuedAt[c] = now

FInv == IInv /\ EntriesExpireEarly /\ SetAtOnce

\* The Future a call waits for was fresh when the call was made.
FreshWhenAsked ==
  /\ askedAt \in [Calls -> Nat]
  /\ \A c \in Calls :
       /\ askedAt[c] <= now
       /\ pc[c] \in {"count", "wait"} /\ future[held[c]] \in {"granted", "ok"} =>
            issuedAt[held[c]] + cacheTTL >= askedAt[c]

\* STS has issued no credentials in the future.
IssuedInPast == \A c \in Calls : issuedAt[c] <= now

RInv == FInv /\ IssuedInPast /\ FreshWhenAsked
---------------------------------------------------------------------------
(* The invariant is inductive                                              *)

\* The key of a call that has started is a key of the cache.
LEMMA KeyInKeys ==
  ASSUME Started, NEW c \in Calls, pc[c] # "idle"
  PROVE  key(c) \in Keys
BY DEF Started, key, Keys

\* Before the first call the cache is empty.
LEMMA InitIInv == Init => IInv
BY ConstantsAssumption
   DEF Init, IInv, TypeOK, Started, HoldsOwnKey, EntriesOwned, Entries,
       Settled, Returned

\* No step of a call, of an STS request, of the janitor or of the
\* environment breaks it.
LEMMA NextIInv == IInv /\ [Next]_vars => IInv'
<1> SUFFICES ASSUME IInv, [Next]_vars PROVE IInv'
  OBVIOUS
<1> USE ConstantsAssumption
    DEF IInv, Goto, Hold, Settled, Returned, storeVars, futureVars, callVars,
        janitorVars
<1>1. ASSUME NEW c \in Calls, NEW i \in Identities, GetHit(c, i) PROVE IInv'
  <2> USE <1>1 DEF GetHit
  <2> DEFINE f == cache[String(i)].fut
  <2>1. /\ String(i) \in Keys
        /\ cache[String(i)] # None
        /\ f \in Calls
        /\ future[f] # "none"
    BY DEF Keys, Found, TypeOK, Entries, EntriesOwned
  <2>2. f # c /\ pc[f] # "idle" /\ String(identity[f]) = String(i)
    BY <2>1 DEF EntriesOwned, Started
  <2>3. TypeOK'
    BY <2>1 DEF TypeOK
  <2>4. Started'
    BY DEF TypeOK, Started
  <2>5. HoldsOwnKey'
    BY <2>1, <2>2 DEF TypeOK, Started, HoldsOwnKey
  <2>6. EntriesOwned'
    BY DEF TypeOK, Entries, Started, EntriesOwned
  <2>7. QED
    BY <2>3, <2>4, <2>5, <2>6
<1>2. ASSUME NEW c \in Calls, NEW i \in Identities, GetMiss(c, i) PROVE IInv'
  <2> USE <1>2 DEF GetMiss
  <2>1. TypeOK' /\ Started'
    BY DEF TypeOK, Started
  <2>2. HoldsOwnKey'
    BY DEF TypeOK, Started, HoldsOwnKey
  <2>3. EntriesOwned'
    BY DEF TypeOK, Entries, Started, EntriesOwned
  <2>4. QED
    BY <2>1, <2>2, <2>3
<1>3. ASSUME NEW c \in Calls, SetEntry(c) PROVE IInv'
  <2> USE <1>3 DEF SetEntry
  <2>1. key(c) \in Keys
    BY KeyInKeys
  <2>2. Expiration \in Nat
    BY DEF Expiration, cacheTTL, TypeOK
  <2>3. TypeOK' /\ Started'
    BY <2>1, <2>2 DEF TypeOK, Entries, Started
  <2>4. HoldsOwnKey'
    BY DEF TypeOK, Started, HoldsOwnKey
  <2>5. EntriesOwned'
    BY <2>1, <2>2 DEF TypeOK, Entries, Started, EntriesOwned, key
  <2>6. QED
    BY <2>3, <2>4, <2>5
<1>3a. ASSUME NEW c \in Calls, CountEntry(c) PROVE IInv'
  <2> USE <1>3a DEF CountEntry
  <2>1. TypeOK' /\ Started'
    BY DEF TypeOK, Started
  <2>2. HoldsOwnKey'
    BY DEF TypeOK, HoldsOwnKey
  <2>3. EntriesOwned'
    BY DEF TypeOK, Entries, EntriesOwned
  <2>4. QED
    BY <2>1, <2>2, <2>3
<1>4. ASSUME NEW c \in Calls, GetValue(c) PROVE IInv'
  BY <1>4 DEF GetValue, TypeOK, Entries, Started, HoldsOwnKey, EntriesOwned
<1>5. ASSUME NEW c \in Calls, GetError(c) \/ GetDone(c) PROVE IInv'
  <2> /\ pc[c] = "wait"
      /\ pc' = [pc EXCEPT ![c] = "delete"]
      /\ UNCHANGED <<now, storeVars, futureVars, identity, held, expiring,
                     janitorVars>>
    BY <1>5 DEF GetError, GetDone
  <2>1. TypeOK' /\ Started'
    BY DEF TypeOK, Started
  <2>2. HoldsOwnKey'
    BY DEF TypeOK, HoldsOwnKey
  <2>3. EntriesOwned'
    BY DEF TypeOK, Entries, EntriesOwned
  <2>4. QED
    BY <2>1, <2>2, <2>3
<1>6. ASSUME NEW c \in Calls, DeleteEntry(c) PROVE IInv'
  <2> USE <1>6 DEF DeleteEntry
  <2>1. key(c) \in Keys
    BY KeyInKeys
  <2>2. cache[key(c)] # None => cache[key(c)].fut \in Calls
    BY <2>1 DEF TypeOK, Entries
  <2>3. TypeOK' /\ Started' /\ HoldsOwnKey'
    <3>1. CASE cache[key(c)] # None
      <4>1. /\ cache' \in [Keys -> Entries \cup {None}]
            /\ held' \in [Calls -> Calls \cup {None}]
        BY <3>1, <2>1, <2>2 DEF TypeOK
      <4>2. /\ pc' = [pc EXCEPT ![c] = "dec"]
            /\ UNCHANGED <<now, cacheSize, future, issuedAt, identity, expiring,
                           purging, janitor>>
        BY <3>1
      <4>3. /\ pc[c] = "delete" /\ pc'[c] = "dec" /\ held'[c] \in Calls
            /\ \A d \in Calls \ {c} : pc'[d] = pc[d] /\ held'[d] = held[d]
            /\ UNCHANGED <<future, identity>>
        BY <3>1, <2>2 DEF TypeOK
      <4> HIDE <1>6 DEF DeleteEntry
      <4>4. TypeOK'
        BY <4>1, <4>2 DEF TypeOK
      <4>5. Started'
        BY <4>3 DEF Started
      <4>6. HoldsOwnKey'
        BY <4>3 DEF HoldsOwnKey
      <4>7. QED
        BY <4>4, <4>5, <4>6
    <3>2. CASE cache[key(c)] = None
      <4>1. TypeOK'
        BY <3>2 DEF TypeOK
      <4>2. Started'
        BY <3>2 DEF TypeOK, Started
      <4>3. HoldsOwnKey'
        <5>1. /\ pc[c] = "delete" /\ pc'[c] = "err"
              /\ \A d \in Calls \ {c} : pc'[d] = pc[d] /\ held'[d] = held[d]
              /\ UNCHANGED <<future, identity>>
          BY <3>2 DEF TypeOK
        <5>2. QED
          BY <5>1 DEF HoldsOwnKey
      <4>4. QED
        BY <4>1, <4>2, <4>3
    <3>3. QED
      BY <3>1, <3>2
  \* The item of c, if c has one, is the one that was removed.
  <2>4. EntriesOwned'
    <3> SUFFICES ASSUME NEW k \in Keys, cache'[k] # None
                 PROVE  /\ k = String(identity[cache[k].fut])
                        /\ future[cache[k].fut] # "none"
                        /\ pc'[cache[k].fut] \in {"count", "wait", "delete", "ok"}
                        /\ cache'[k] = cache[k]
      BY DEF EntriesOwned
    <3>1. k # key(c) /\ cache'[k] = cache[k] /\ cache[k] # None
      BY <2>1 DEF TypeOK
    <3>2. cache[k].fut \in Calls
      BY <3>1 DEF TypeOK, Entries
    <3>3. cache[k].fut # c
      BY <3>1 DEF EntriesOwned, key
    <3>4. QED
      BY <3>1, <3>2, <3>3 DEF EntriesOwned, TypeOK
  <2>5. QED
    BY <2>3, <2>4
<1>6a. ASSUME NEW c \in Calls, UncountEntry(c) PROVE IInv'
  <2> USE <1>6a DEF UncountEntry
  <2>1. TypeOK' /\ Started'
    BY DEF TypeOK, Started
  <2>2. HoldsOwnKey'
    BY DEF TypeOK, HoldsOwnKey
  <2>3. EntriesOwned'
    BY DEF TypeOK, Entries, EntriesOwned
  <2>4. QED
    BY <2>1, <2>2, <2>3
<1>7. ASSUME NEW c \in Calls, EvictedByCall(c) PROVE IInv'
  <2> USE <1>7 DEF EvictedByCall, Notify
  <2>1. held[c] \in Calls
    BY DEF HoldsOwnKey
  <2>2. TypeOK' /\ Started'
    BY <2>1 DEF TypeOK, Started
  <2>3. HoldsOwnKey' /\ EntriesOwned'
    BY DEF TypeOK, Entries, HoldsOwnKey, EntriesOwned
  <2>4. QED
    BY <2>2, <2>3
<1>8. ASSUME NEW c \in Calls, IssueStep(c) PROVE IInv'
  <2> USE <1>8 DEF IssueStep, Grant, IssueOk, IssueErr
  <2>1. TypeOK'
    <3>1. /\ future' \in [Calls -> {"none", "running", "granted", "ok", "err"}]
          /\ issuedAt' \in [Calls -> Nat]
      <4>1. CASE Grant(c)
        BY <4>1 DEF TypeOK
      <4>2. CASE IssueOk(c)
        BY <4>2 DEF TypeOK
      <4>3. CASE IssueErr(c)
        BY <4>3 DEF TypeOK
      <4>4. QED
        BY <4>1, <4>2, <4>3
    <3>2. QED
      BY <3>1 DEF TypeOK
  <2>2. HoldsOwnKey'
    BY DEF TypeOK, HoldsOwnKey
  <2>3. Started' /\ EntriesOwned'
    BY DEF TypeOK, Entries, Started, EntriesOwned
  <2>4. QED
    BY <2>1, <2>2, <2>3
<1>9. ASSUME Purge PROVE IInv'
  <2> USE <1>9 DEF Purge
  <2>1. /\ cache' \in [Keys -> Entries \cup {None}]
        /\ \A k \in Keys : cache'[k] \in {cache[k], None}
    BY DEF TypeOK
  <2>2. purging' \in SUBSET Calls
    BY DEF TypeOK, Entries
  <2>3. TypeOK' /\ Started' /\ HoldsOwnKey'
    BY <2>1, <2>2 DEF TypeOK, Started, HoldsOwnKey
  <2>4. EntriesOwned'
    BY <2>1 DEF EntriesOwned
  <2>5. QED
    BY <2>3, <2>4
<1>10. ASSUME NEW f \in Calls, EvictedByJanitor(f) PROVE IInv'
  BY <1>10 DEF EvictedByJanitor, TypeOK, Started, HoldsOwnKey, EntriesOwned
<1>11. ASSUME NotifyByJanitor PROVE IInv'
  BY <1>11 DEF NotifyByJanitor, Notify, TypeOK, Started, HoldsOwnKey,
               EntriesOwned
<1>12. ASSUME Receive PROVE IInv'
  BY <1>12 DEF Receive, TypeOK, Started, HoldsOwnKey, EntriesOwned
<1>13. ASSUME Tick PROVE IInv'
  BY <1>13 DEF Tick, TypeOK, Started, HoldsOwnKey, EntriesOwned
<1>14. CASE Quiescent \/ UNCHANGED vars
  BY <1>14 DEF Quiescent, vars, TypeOK, Started, HoldsOwnKey, EntriesOwned
<1>15. QED
  BY <1>1, <1>2, <1>3, <1>3a, <1>4, <1>5, <1>6, <1>6a, <1>7, <1>8, <1>9,
     <1>10, <1>11, <1>12, <1>13, <1>14
     DEF Next, CallStep, JanitorStep

\* Identities and entries stay consistent throughout.
LEMMA InductiveIInv == Spec => []IInv
BY InitIInv, NextIInv, PTL DEF Spec

---------------------------------------------------------------------------
(* Safety                                                                  *)

\* The state of the cache, of the Futures and of the calls is well-typed.
THEOREM TypeCorrect == Spec => []TypeOK
<1>1. IInv => TypeOK
  BY DEF IInv
<1>2. QED
  BY <1>1, InductiveIInv, PTL

\* CredentialsForRole never returns credentials that were issued for another
\* key, whatever calls run at the same time, and so never those of another
\* identity unless the separator is in a role or a session name.
THEOREM ServedForOwnIdentityCorrect == Spec => []ServedForOwnIdentity
<1>1. ASSUME IInv PROVE ServedForOwnIdentity
  <2> SUFFICES ASSUME NEW c \in Calls, pc[c] = "ok"
               PROVE  LET served == identity[held[c]]
                      IN  /\ String(served) = String(identity[c])
                          /\ Keyable(served) /\ Keyable(identity[c])
                               => served = identity[c]
    BY DEF ServedForOwnIdentity
  <2>1. /\ held[c] \in Calls /\ pc[held[c]] # "idle"
        /\ String(identity[held[c]]) = String(identity[c])
    BY <1>1 DEF IInv, HoldsOwnKey
  <2>2. /\ identity[held[c]] \in RoleIdentities(Tokens)
        /\ identity[c] \in RoleIdentities(Tokens)
    BY <1>1, <2>1, IdentitiesAssumption DEF IInv, Started
  <2>3. QED
    BY <2>1, <2>2, IdentitiesAssumption, SameKeySameIdentity
<1>2. QED
  BY <1>1, InductiveIInv, PTL

\* A failed Future does not stay in the cache after its creator returned.
THEOREM NoPoisonedEntryCorrect == Spec => []NoPoisonedEntry
<1>1. ASSUME IInv PROVE NoPoisonedEntry
  <2> SUFFICES ASSUME NEW k \in Keys, cache[k] # None,
                      pc[cache[k].fut] \in Returned
               PROVE  future[cache[k].fut] = "ok"
    BY DEF NoPoisonedEntry
  <2> DEFINE f == cache[k].fut
  <2>1. f \in Calls
    BY <1>1, ConstantsAssumption DEF IInv, TypeOK, Entries
  <2>2. future[f] # "none" /\ pc[f] = "ok"
    BY <1>1 DEF IInv, EntriesOwned, Returned
  <2>3. held[f] = f
    BY <1>1, <2>1, <2>2 DEF IInv, HoldsOwnKey
  <2>4. QED
    BY <1>1, <2>1, <2>2, <2>3 DEF IInv, HoldsOwnKey
<1>2. QED
  BY <1>1, InductiveIInv, PTL

---------------------------------------------------------------------------
(* Freshness, for a session-refresh shorter than the session               *)

\* An empty cache holds nothing that could be stale.
LEMMA InitFInv == Init => FInv
BY InitIInv DEF FInv, EntriesExpireEarly, SetAtOnce, Init

\* A step leaves every entry with an expiration early enough for its
\* credentials, provided that session-refresh is shorter than the session.
LEMMA NextFInv ==
  ASSUME SessionRefresh < SessionDuration, FInv, [Next]_vars
  PROVE  FInv'
<1>1. IInv /\ IInv'
  BY NextIInv DEF FInv
<1> USE <1>1, ConstantsAssumption
    DEF FInv, Goto, Hold, Settled, Returned, storeVars, futureVars, callVars,
        janitorVars
<1> cacheTTL \in Nat /\ cacheTTL > 0
  BY DEF cacheTTL
<1>2. ASSUME NEW c \in Calls, NEW i \in Identities, GetHit(c, i) PROVE FInv'
  BY <1>2 DEF GetHit, IInv, TypeOK, EntriesExpireEarly, SetAtOnce
<1>3. ASSUME NEW c \in Calls, NEW i \in Identities, GetMiss(c, i) PROVE FInv'
  <2> USE <1>3 DEF GetMiss
  <2>1. EntriesExpireEarly'
    BY DEF IInv, TypeOK, Started, EntriesExpireEarly, EntriesOwned, Entries
  <2>2. SetAtOnce'
    BY DEF IInv, TypeOK, SetAtOnce
  <2>3. QED
    BY <2>1, <2>2
<1>4. ASSUME NEW c \in Calls, SetEntry(c) PROVE FInv'
  <2> USE <1>4 DEF SetEntry
  <2>1. Expiration = now + cacheTTL /\ now \in Nat
    BY DEF Expiration, IInv, TypeOK
  <2>2. key(c) \in Keys
    BY KeyInKeys DEF IInv
  <2>3. \A k \in Keys : cache'[k] =
          IF k = key(c) THEN [fut |-> c, exp |-> now + cacheTTL] ELSE cache[k]
    BY <2>1, <2>2 DEF IInv, TypeOK
  <2>4. EntriesExpireEarly'
    BY <2>1, <2>3 DEF IInv, TypeOK, EntriesExpireEarly, SetAtOnce
  <2>5. SetAtOnce'
    BY DEF IInv, TypeOK, SetAtOnce
  <2>6. QED
    BY <2>4, <2>5
<1>5. ASSUME NEW c \in Calls,
             CountEntry(c) \/ GetValue(c) \/ GetError(c) \/ GetDone(c)
               \/ UncountEntry(c) \/ EvictedByCall(c)
      PROVE  FInv'
  <2>1. /\ UNCHANGED <<now, cache, future, issuedAt>>
        /\ \A d \in Calls : pc'[d] = "set" => pc[d] = "set"
    BY <1>5 DEF CountEntry, GetValue, GetError, GetDone, UncountEntry,
                EvictedByCall, IInv, TypeOK
  <2>2. QED
    BY <2>1 DEF EntriesExpireEarly, SetAtOnce
<1>6. ASSUME NEW c \in Calls, DeleteEntry(c) PROVE FInv'
  <2>1. \A k \in Keys : cache'[k] \in {cache[k], None}
    BY <1>6, KeyInKeys DEF DeleteEntry, IInv, TypeOK
  <2>2. /\ UNCHANGED <<now, future, issuedAt>>
        /\ \A d \in Calls : pc'[d] = "set" => pc[d] = "set"
    BY <1>6 DEF DeleteEntry, IInv, TypeOK
  <2>3. QED
    BY <2>1, <2>2 DEF EntriesExpireEarly, SetAtOnce
<1>7. ASSUME NEW c \in Calls, Grant(c) PROVE FInv'
  <2> USE <1>7 DEF Grant
  <2>1. EntriesExpireEarly'
    BY DEF IInv, TypeOK, Entries, EntriesExpireEarly
  <2>2. SetAtOnce'
    BY DEF IInv, TypeOK, SetAtOnce
  <2>3. QED
    BY <2>1, <2>2
<1>8. ASSUME NEW c \in Calls, IssueOk(c) PROVE FInv'
  BY <1>8 DEF IssueOk, IInv, TypeOK, Entries, EntriesExpireEarly, SetAtOnce
<1>9. ASSUME NEW c \in Calls, IssueErr(c) PROVE FInv'
  BY <1>9 DEF IssueErr, IInv, TypeOK, Entries, EntriesExpireEarly, SetAtOnce
<1>10. ASSUME Purge PROVE FInv'
  <2>1. \A k \in Keys : cache'[k] \in {cache[k], None}
    BY <1>10 DEF Purge, IInv, TypeOK
  <2>2. QED
    BY <1>10, <2>1 DEF Purge, EntriesExpireEarly, SetAtOnce
<1>11. ASSUME Tick PROVE FInv'
  <2>1. now' = now + 1 /\ now \in Nat
    BY <1>11 DEF Tick, IInv, TypeOK
  <2>2. EntriesExpireEarly'
    BY <1>11, <2>1 DEF Tick, IInv, TypeOK, Entries, EntriesExpireEarly
  <2>3. SetAtOnce'
    BY <1>11 DEF Tick, SetAtOnce
  <2>4. QED
    BY <2>2, <2>3
<1>12. CASE UNCHANGED <<now, cache, future, issuedAt, pc>>
  BY <1>12 DEF EntriesExpireEarly, SetAtOnce
<1>13. ASSUME NEW f \in Calls, EvictedByJanitor(f) PROVE FInv'
  BY <1>12, <1>13 DEF EvictedByJanitor
<1>14. CASE NotifyByJanitor \/ Receive \/ Quiescent \/ UNCHANGED vars
  BY <1>12, <1>14 DEF NotifyByJanitor, Receive, Quiescent, vars
<1>15. QED
  BY <1>2, <1>3, <1>4, <1>5, <1>6, <1>7, <1>8, <1>9, <1>10, <1>11, <1>13,
     <1>14
     DEF Next, CallStep, IssueStep, JanitorStep

\* Entries expire early enough throughout.
LEMMA InductiveFInv ==
  ASSUME SessionRefresh < SessionDuration
  PROVE  Spec => []FInv
<1>1. FInv /\ [Next]_vars => FInv'
  BY NextFInv
<1>2. QED
  BY <1>1, InitFInv, PTL DEF Spec

\* A hit yields credentials with session-refresh of their life left, however
\* long STS took to answer and however calls interleave.
THEOREM FreshHitCorrect ==
  ASSUME SessionRefresh < SessionDuration
  PROVE  Spec => []FreshHit
<1>1. ASSUME FInv PROVE FreshHit
  <2> SUFFICES ASSUME NEW k \in Keys, Found(k),
                      future[cache[k].fut] \in {"granted", "ok"}
               PROVE  issuedAt[cache[k].fut] + SessionDuration
                        >= now + SessionRefresh
    BY DEF FreshHit
  <2>1. /\ cache[k] \in Entries
        /\ now <= cache[k].exp
        /\ cache[k].exp <= issuedAt[cache[k].fut] + cacheTTL
    BY <1>1 DEF Found, Expired, FInv, IInv, TypeOK, Entries, EntriesExpireEarly
  <2>2. issuedAt[cache[k].fut] \in Nat /\ now \in Nat /\ cache[k].exp \in Nat
    BY <1>1, <2>1 DEF FInv, IInv, TypeOK, Entries
  <2>3. QED
    BY <2>1, <2>2, ConstantsAssumption DEF cacheTTL
<1>2. QED
  BY <1>1, InductiveFInv, PTL

---------------------------------------------------------------------------
(* The gauge                                                               *)

Items == {k \in Keys : cache[k] # None}

\* The calls that have stored their item and not yet counted it, and those
\* that have removed one and not yet taken it off.
Counting == {c \in Calls : pc[c] = "count"}

Uncounting == {c \in Calls : pc[c] = "dec"}

\* What the gauge will show once they have is not less than what there is to
\* take off it: the items, those the janitor has still to report and those
\* that calls have removed.  All these are finitely many at any time, however
\* many calls there may be.
GaugeInv ==
  /\ IsFiniteSet(Items) /\ IsFiniteSet(purging)
  /\ IsFiniteSet(Counting) /\ IsFiniteSet(Uncounting)
  /\ cacheSize + Cardinality(Counting)
       >= Cardinality(Items) + Cardinality(purging) + Cardinality(Uncounting)

\* Before the first call the gauge is zero and there are no items.
LEMMA InitGaugeInv == Init => GaugeInv
<1> SUFFICES ASSUME Init PROVE GaugeInv
  OBVIOUS
<1>1. /\ Items = {} /\ purging = {} /\ cacheSize = 0
      /\ Counting = {} /\ Uncounting = {}
  BY DEF Init, Items, Counting, Uncounting
<1>2. QED
  BY <1>1, FS_EmptySet DEF GaugeInv

\* Every step moves the gauge, and what is on its way to it, at least as far up
\* and at most as far down as what there is to take off.
LEMMA NextGaugeInv ==
  ASSUME IInv, GaugeInv, [Next]_vars
  PROVE  GaugeInv'
<1> USE DEF Goto, Hold, storeVars, futureVars, callVars, janitorVars
<1>1. /\ IsFiniteSet(Items) /\ Cardinality(Items) \in Nat
      /\ IsFiniteSet(purging) /\ Cardinality(purging) \in Nat
      /\ IsFiniteSet(Counting) /\ Cardinality(Counting) \in Nat
      /\ IsFiniteSet(Uncounting) /\ Cardinality(Uncounting) \in Nat
      /\ cacheSize \in Int
      /\ cacheSize + Cardinality(Counting)
           >= Cardinality(Items) + Cardinality(purging) + Cardinality(Uncounting)
  BY FS_CardinalityType DEF GaugeInv, IInv, TypeOK
<1>2. pc \in [Calls -> {"idle", "set", "count", "wait", "delete", "dec",
                        "evicted", "ok", "err"}]
  BY DEF IInv, TypeOK, Returned
<1>3. CASE UNCHANGED <<Items, cacheSize, purging, Counting, Uncounting>>
  BY <1>1, <1>3 DEF GaugeInv
\* One item at most is added, and one is to be counted.
<1>4. ASSUME NEW c \in Calls, SetEntry(c) PROVE GaugeInv'
  <2>1. key(c) \in Keys
    BY <1>4, KeyInKeys DEF SetEntry, IInv
  <2>2. Expiration \in Nat
    BY ConstantsAssumption DEF Expiration, cacheTTL, IInv, TypeOK
  <2>3. Items' = Items \cup {key(c)}
    BY <1>4, <2>1, <2>2, ConstantsAssumption DEF SetEntry, Items, IInv, TypeOK
  <2>4. /\ IsFiniteSet(Items')
        /\ Cardinality(Items') <= Cardinality(Items) + 1
        /\ Cardinality(Items') \in Nat
    <3>1. /\ IsFiniteSet(Items \cup {key(c)})
          /\ Cardinality(Items \cup {key(c)}) \in
               {Cardinality(Items), Cardinality(Items) + 1}
      BY <1>1, FS_AddElement
    <3>2. QED
      BY <1>1, <2>3, <3>1
  <2>5. Counting' = Counting \cup {c} /\ c \notin Counting
    BY <1>2, <1>4 DEF SetEntry, Counting
  <2>6. IsFiniteSet(Counting') /\ Cardinality(Counting') = Cardinality(Counting) + 1
    BY <1>1, <2>5, FS_AddElement
  <2>7. UNCHANGED <<Uncounting, purging, cacheSize>>
    BY <1>2, <1>4 DEF SetEntry, Uncounting
  <2>8. QED
    BY <1>1, <2>4, <2>6, <2>7 DEF GaugeInv
<1>5. ASSUME NEW c \in Calls, CountEntry(c) PROVE GaugeInv'
  <2>1. Counting' = Counting \ {c} /\ c \in Counting
    BY <1>2, <1>5 DEF CountEntry, Counting
  <2>2. IsFiniteSet(Counting') /\ Cardinality(Counting') = Cardinality(Counting) - 1
    BY <1>1, <2>1, FS_RemoveElement
  <2>3. UNCHANGED <<Items, Uncounting, purging>> /\ cacheSize' = cacheSize + 1
    BY <1>2, <1>5 DEF CountEntry, Uncounting, Items
  <2>4. QED
    BY <1>1, <2>2, <2>3 DEF GaugeInv
\* An item is to be taken off only by the call that finds it there.
<1>6. ASSUME NEW c \in Calls, DeleteEntry(c) PROVE GaugeInv'
  <2>1. key(c) \in Keys
    BY <1>6, KeyInKeys DEF DeleteEntry, IInv
  <2>2. CASE cache[key(c)] = None
    <3>1. UNCHANGED <<Items, cacheSize, purging, Counting, Uncounting>>
      BY <1>2, <1>6, <2>2 DEF DeleteEntry, Items, Counting, Uncounting
    <3>2. QED
      BY <1>3, <3>1
  <2>3. CASE cache[key(c)] # None
    <3>1. Items' = Items \ {key(c)} /\ key(c) \in Items
      BY <1>6, <2>1, <2>3 DEF DeleteEntry, Items, IInv, TypeOK
    <3>2. IsFiniteSet(Items') /\ Cardinality(Items') = Cardinality(Items) - 1
      BY <1>1, <3>1, FS_RemoveElement
    <3>3. Uncounting' = Uncounting \cup {c} /\ c \notin Uncounting
      BY <1>2, <1>6, <2>3 DEF DeleteEntry, Uncounting
    <3>4. /\ IsFiniteSet(Uncounting')
          /\ Cardinality(Uncounting') = Cardinality(Uncounting) + 1
      BY <1>1, <3>3, FS_AddElement
    <3>5. UNCHANGED <<Counting, purging, cacheSize>>
      BY <1>2, <1>6, <2>3 DEF DeleteEntry, Counting
    <3>6. QED
      BY <1>1, <3>2, <3>4, <3>5 DEF GaugeInv
  <2>4. QED
    BY <2>2, <2>3
<1>7. ASSUME NEW c \in Calls, UncountEntry(c) PROVE GaugeInv'
  <2>1. Uncounting' = Uncounting \ {c} /\ c \in Uncounting
    BY <1>2, <1>7 DEF UncountEntry, Uncounting
  <2>2. /\ IsFiniteSet(Uncounting')
        /\ Cardinality(Uncounting') = Cardinality(Uncounting) - 1
    BY <1>1, <2>1, FS_RemoveElement
  <2>3. UNCHANGED <<Items, Counting, purging>> /\ cacheSize' = cacheSize - 1
    BY <1>2, <1>7 DEF UncountEntry, Counting, Items
  <2>4. QED
    BY <1>1, <2>2, <2>3 DEF GaugeInv
\* The items that expire move to the janitor's list.  They stay counted.
<1>8. CASE Purge
  <2> DEFINE expired == {k \in Keys : cache[k] # None /\ Expired(cache[k])}
             f == [k \in expired |-> cache[k].fut]
  <2>1. /\ purging = {} /\ UNCHANGED <<cacheSize, pc>>
        /\ purging' = {cache[k].fut : k \in expired}
        /\ cache' = [k \in Keys |-> IF k \in expired THEN None ELSE cache[k]]
    BY <1>8 DEF Purge
  <2>2. Items' = Items \ expired /\ Items \cap expired = expired
    BY <2>1 DEF Items
  <2>3. /\ IsFiniteSet(expired) /\ IsFiniteSet(Items')
        /\ Cardinality(Items') = Cardinality(Items) - Cardinality(expired)
    <3> HIDE DEF expired
    <3>1. IsFiniteSet(Items \cap expired)
      BY <1>1, FS_Intersection
    <3>2. /\ IsFiniteSet(Items \ expired)
          /\ Cardinality(Items \ expired)
               = Cardinality(Items) - Cardinality(Items \cap expired)
      BY <1>1, FS_Difference
    <3>3. QED
      BY <2>2, <3>1, <3>2
  <2>4. f \in Surjection(expired, purging')
    BY <2>1 DEF Surjection
  <2>5. IsFiniteSet(purging') /\ Cardinality(purging') <= Cardinality(expired)
    BY <2>3, <2>4, FS_Surjection
  <2>6. /\ Cardinality(expired) \in Nat
        /\ Cardinality(purging') \in Nat
        /\ Cardinality(Items') \in Nat
    BY <2>3, <2>5, FS_CardinalityType
  <2>7. Cardinality(purging) = 0
    BY <2>1, FS_EmptySet
  <2>8. UNCHANGED <<Counting, Uncounting>>
    BY <2>1 DEF Counting, Uncounting
  <2> HIDE DEF expired, f
  <2>9. QED
    BY <1>1, <2>1, <2>3, <2>5, <2>6, <2>7, <2>8 DEF GaugeInv
\* The janitor takes each of them off once.
<1>9. ASSUME NEW f \in Calls, EvictedByJanitor(f) PROVE GaugeInv'
  <2>1. /\ IsFiniteSet(purging')
        /\ Cardinality(purging') = Cardinality(purging) - 1
    BY <1>1, <1>9, FS_RemoveElement DEF EvictedByJanitor
  <2>2. UNCHANGED <<Items, Counting, Uncounting>> /\ cacheSize' = cacheSize - 1
    BY <1>9 DEF EvictedByJanitor, Items, Counting, Uncounting
  <2>3. QED
    BY <1>1, <2>1, <2>2 DEF GaugeInv
\* The other steps touch nothing of this.
<1>10. ASSUME UNCHANGED <<cache, cacheSize, purging>>,
              \A d \in Calls : \A l \in {"count", "dec"} : pc'[d] = l <=> pc[d] = l
       PROVE  GaugeInv'
  <2>1. UNCHANGED <<Items, cacheSize, purging, Counting, Uncounting>>
    BY <1>10 DEF Items, Counting, Uncounting
  <2>2. QED
    BY <1>3, <2>1
<1>11. ASSUME NEW c \in Calls, NEW i \in Identities, GetHit(c, i) \/ GetMiss(c, i)
       PROVE  GaugeInv'
  BY <1>2, <1>10, <1>11 DEF GetHit, GetMiss
<1>12. ASSUME NEW c \in Calls,
              GetValue(c) \/ GetError(c) \/ GetDone(c) \/ EvictedByCall(c)
                \/ IssueStep(c)
       PROVE  GaugeInv'
  BY <1>2, <1>10, <1>12 DEF GetValue, GetError, GetDone, EvictedByCall,
                            IssueStep, Grant, IssueOk, IssueErr
<1>13. ASSUME NotifyByJanitor \/ Receive \/ Tick \/ Quiescent \/ UNCHANGED vars
       PROVE  GaugeInv'
  BY <1>2, <1>10, <1>13 DEF NotifyByJanitor, Receive, Tick, Quiescent, vars
<1>14. QED
  BY <1>4, <1>5, <1>6, <1>7, <1>8, <1>9, <1>11, <1>12, <1>13
     DEF Next, CallStep, JanitorStep

\* Once all calls have returned and the janitor has reported what it removed,
\* the gauge is not below the number of items: every item that is stored gets
\* counted, and Delete and the janitor take none off twice, in whatever order
\* the calls' steps on the map and on the gauge come.
THEOREM GaugeCoversItemsCorrect == Spec => []GaugeCoversItems
<1>1. IInv /\ GaugeInv /\ [Next]_vars => GaugeInv'
  BY NextGaugeInv
<1>2. ASSUME IInv, GaugeInv PROVE GaugeCoversItems
  <2> SUFFICES ASSUME \A c \in Calls : pc[c] \in Returned \cup {"idle"},
                      purging = {}
               PROVE  cacheSize >= Cardinality(Items)
    BY DEF GaugeCoversItems, Items
  <2>1. Counting = {} /\ Uncounting = {}
    BY DEF Counting, Uncounting, Returned
  <2>2. /\ Cardinality(Counting) = 0 /\ Cardinality(Uncounting) = 0
        /\ Cardinality(purging) = 0
    BY <2>1, FS_EmptySet
  <2>3. Cardinality(Items) \in Nat /\ cacheSize \in Int
    BY <1>2, FS_CardinalityType DEF GaugeInv, IInv, TypeOK
  <2>4. QED
    BY <1>2, <2>2, <2>3 DEF GaugeInv
<1>3. QED
  BY <1>1, <1>2, InitGaugeInv, InductiveIInv, PTL DEF Spec

---------------------------------------------------------------------------
(* The cache implements CredentialsProvider                                *)

\* No call has been made yet.
LEMMA InitRInv == InitR => RInv
BY InitFInv DEF InitR, RInv, IssuedInPast, FreshWhenAsked, Init

\* A step keeps the Future that a call waits on fresh for the time at which
\* the call was made.
LEMMA NextRInv ==
  ASSUME SessionRefresh < SessionDuration, RInv, [NextR]_varsR
  PROVE  RInv'
<1>1. [Next]_vars
  BY DEF NextR, varsR
<1>2. FInv /\ FInv'
  BY <1>1, NextFInv DEF RInv
<1> USE <1>2, ConstantsAssumption DEF RInv, FInv
<1> now \in Nat /\ cacheTTL \in Nat /\ cacheTTL > 0
  BY DEF IInv, TypeOK, cacheTTL
<1>3. CASE UNCHANGED varsR
  BY <1>3 DEF varsR, vars, IssuedInPast, FreshWhenAsked
<1> SUFFICES ASSUME Next, RecordAsked PROVE IssuedInPast' /\ FreshWhenAsked'
  BY <1>3 DEF NextR
<1>4. now' \in Nat /\ now' >= now
  BY DEF Next, CallStep, IssueStep, JanitorStep, GetHit, GetMiss, SetEntry,
         CountEntry, GetValue, GetError, GetDone, DeleteEntry, UncountEntry,
         EvictedByCall, Grant, IssueOk, IssueErr, Purge, EvictedByJanitor, NotifyByJanitor, Receive,
         Tick, Quiescent, vars
<1>a. IssuedInPast'
  <2>1. \A c \in Calls : issuedAt'[c] \in {issuedAt[c], now, 0}
    BY DEF Next, CallStep, IssueStep, JanitorStep, GetHit, GetMiss, SetEntry,
           CountEntry, GetValue, GetError, GetDone, DeleteEntry, UncountEntry,
           EvictedByCall, Grant, IssueOk, IssueErr, Purge, EvictedByJanitor, NotifyByJanitor,
           Receive, Tick, Quiescent, vars, futureVars, IInv, TypeOK
  <2>2. SUFFICES ASSUME NEW c \in Calls PROVE issuedAt'[c] <= now'
    BY DEF IssuedInPast
  <2>3. issuedAt[c] \in Nat /\ issuedAt[c] <= now
    BY DEF IssuedInPast, IInv, TypeOK
  <2>4. QED
    BY <1>4, <2>1, <2>3
<1> askedAt' \in [Calls -> Nat]
  BY DEF RecordAsked, FreshWhenAsked
<1> SUFFICES ASSUME NEW d \in Calls
             PROVE  /\ askedAt'[d] <= now'
                    /\ pc'[d] \in {"count", "wait"}
                         /\ future'[held'[d]] \in {"granted", "ok"}
                         => issuedAt'[held'[d]] + cacheTTL >= askedAt'[d]
  BY <1>a DEF FreshWhenAsked
<1>5. /\ askedAt'[d] = IF pc[d] = "idle" /\ pc'[d] # "idle"
                         THEN now ELSE askedAt[d]
      /\ askedAt'[d] \in Nat
      /\ askedAt'[d] <= now
  BY DEF RecordAsked, FreshWhenAsked
<1> SUFFICES ASSUME pc'[d] \in {"count", "wait"}, future'[held'[d]] \in {"granted", "ok"}
             PROVE  issuedAt'[held'[d]] + cacheTTL >= askedAt'[d]
  BY <1>4, <1>5
<1> USE DEF Goto, Hold, Settled, Returned, storeVars, futureVars, callVars,
        janitorVars
<1>6. ASSUME NEW c \in Calls, NEW i \in Identities, GetHit(c, i)
      PROVE  issuedAt'[held'[d]] + cacheTTL >= askedAt'[d]
  <2>1. CASE c = d
    <3> DEFINE e == cache[String(i)]
    <3>1. e \in Entries /\ held'[d] = e.fut /\ String(i) \in Keys /\ e # None
      BY <1>6, <2>1 DEF GetHit, Found, Keys, IInv, TypeOK
    <3>2. e.exp \in Nat /\ e.exp >= now /\ issuedAt[e.fut] \in Nat
      BY <1>6, <3>1 DEF GetHit, Found, Expired, Entries, EntriesExpireEarly,
                        IInv, TypeOK
    <3>3. e.exp <= issuedAt[e.fut] + cacheTTL
      BY <1>6, <3>1 DEF GetHit, EntriesExpireEarly
    <3>4. QED
      BY <1>5, <1>6, <3>1, <3>2, <3>3 DEF GetHit
  <2>2. CASE c # d
    BY <1>5, <1>6, <2>2 DEF GetHit, IInv, TypeOK, FreshWhenAsked
  <2>3. QED
    BY <2>1, <2>2
<1>7. ASSUME NEW c \in Calls, NEW i \in Identities, GetMiss(c, i)
      PROVE  issuedAt'[held'[d]] + cacheTTL >= askedAt'[d]
  <2>1. d # c /\ pc[d] \in {"count", "wait"} /\ held'[d] = held[d] /\ held[d] # c
    BY <1>7 DEF GetMiss, IInv, TypeOK, Started, HoldsOwnKey
  <2>2. QED
    BY <1>5, <1>7, <2>1 DEF GetMiss, IInv, TypeOK, HoldsOwnKey,
                            FreshWhenAsked
<1>8. ASSUME NEW c \in Calls, SetEntry(c)
      PROVE  issuedAt'[held'[d]] + cacheTTL >= askedAt'[d]
  BY <1>5, <1>8 DEF SetEntry, IInv, TypeOK, SetAtOnce, FreshWhenAsked
<1>9. ASSUME NEW c \in Calls, IssueStep(c)
      PROVE  issuedAt'[held'[d]] + cacheTTL >= askedAt'[d]
  <2>1. /\ pc[d] \in {"count", "wait"}
        /\ held'[d] = held[d] /\ held[d] \in Calls
    BY <1>9 DEF IssueStep, Grant, IssueOk, IssueErr, IInv, HoldsOwnKey
  <2>2. CASE Grant(c)
    BY <1>5, <2>1, <2>2 DEF Grant, IInv, TypeOK, FreshWhenAsked
  <2>3. CASE IssueOk(c)
    BY <1>5, <2>1, <2>3 DEF IssueOk, IInv, TypeOK, FreshWhenAsked
  <2>4. CASE IssueErr(c)
    BY <1>5, <2>1, <2>4 DEF IssueErr, IInv, TypeOK, FreshWhenAsked
  <2>5. QED
    BY <1>9, <2>2, <2>3, <2>4 DEF IssueStep
\* Every other step leaves the Futures and the calls that wait alone.
<1>10. CASE /\ UNCHANGED <<future, issuedAt>>
            /\ pc[d] \in {"count", "wait"} /\ held'[d] = held[d]
  BY <1>5, <1>10 DEF FreshWhenAsked
<1>11. ASSUME NEW c \in Calls,
              CountEntry(c) \/ GetValue(c) \/ GetError(c) \/ GetDone(c)
                \/ DeleteEntry(c) \/ UncountEntry(c) \/ EvictedByCall(c)
       PROVE  issuedAt'[held'[d]] + cacheTTL >= askedAt'[d]
  BY <1>10, <1>11 DEF CountEntry, GetValue, GetError, GetDone, DeleteEntry,
                      UncountEntry, EvictedByCall, IInv, TypeOK
<1>12. CASE JanitorStep \/ Receive \/ Tick \/ Quiescent
  BY <1>10, <1>12 DEF JanitorStep, Purge, EvictedByJanitor, NotifyByJanitor,
                      Receive, Tick, Quiescent, vars
<1>13. QED
  BY <1>6, <1>7, <1>8, <1>9, <1>11, <1>12 DEF Next, CallStep

\* The initial states of the cache are initial states of the provider.
LEMMA InitProvider == InitR => Provider!Init
BY DEF InitR, Init, Provider!Init, Issued, Status, Answered

\* Every step of the cache is a step of the provider, or none.
LEMMA NextProvider ==
  ASSUME SessionRefresh < SessionDuration, RInv, RInv', [NextR]_varsR
  PROVE  [Provider!Next]_(Provider!vars)
<1> USE ConstantsAssumption
    DEF RInv, FInv, IInv, Goto, Hold, Settled, Returned, storeVars,
        futureVars, callVars, janitorVars
<1>1. CASE UNCHANGED varsR
  BY <1>1 DEF varsR, vars, Provider!vars, Issued, Status, Answered,
              CredentialsOf
<1> SUFFICES ASSUME Next, RecordAsked PROVE [Provider!Next]_(Provider!vars)
  BY <1>1 DEF NextR
\* A step at which no call starts leaves askedAt alone.
<1>2. (\A c \in Calls : pc[c] = "idle" => pc'[c] = "idle") => askedAt' = askedAt
  BY DEF RecordAsked, FreshWhenAsked
<1>3. ASSUME NEW c \in Calls, NEW i \in Identities, GetHit(c, i) \/ GetMiss(c, i)
      PROVE  Provider!Ask(c, i)
  <2>1. /\ pc[c] = "idle" /\ pc'[c] \in {"set", "wait"}
        /\ \A d \in Calls \ {c} : pc'[d] = pc[d] /\ held'[d] = held[d]
                                 /\ future'[d] = future[d]
        /\ identity' = [identity EXCEPT ![c] = i]
        /\ UNCHANGED <<now, issuedAt>>
    BY <1>3 DEF GetHit, GetMiss, TypeOK
  <2>2. future[c] # "ok" /\ future'[c] # "ok"
    BY <1>3 DEF GetHit, GetMiss, TypeOK, Started
  <2>3. Issued' = Issued
    <3>1. \A f \in Calls : future'[f] = "ok" <=> future[f] = "ok"
      BY <2>1, <2>2
    <3>2. \A f \in Calls : future[f] = "ok" =>
            identity'[f] = identity[f] /\ issuedAt'[f] = issuedAt[f]
      BY <2>1, <2>2 DEF TypeOK
    <3>3. QED
      BY <3>1, <3>2 DEF Issued, CredentialsOf
  <2>4. Status' = [Status EXCEPT ![c] = "pending"] /\ Status[c] = "idle"
    BY <2>1 DEF Status
  <2>5. Answered' = Answered
    <3>1. \A d \in Calls : pc[d] = "ok" => held[d] \in Calls \ {c}
      BY <2>2 DEF HoldsOwnKey
    <3>2. QED
      BY <2>1, <3>1 DEF Answered, CredentialsOf, TypeOK
  <2>6. askedAt' = [askedAt EXCEPT ![c] = now]
    BY <2>1 DEF RecordAsked, FreshWhenAsked
  <2>7. QED
    BY <2>1, <2>3, <2>4, <2>5, <2>6 DEF Provider!Ask
<1>4. ASSUME NEW c \in Calls, GetValue(c)
      PROVE  \E g \in Issued : Provider!Answer(c, g)
  <2> DEFINE g == CredentialsOf(held[c])
  <2>1. held[c] \in Calls /\ String(identity[held[c]]) = String(identity[c])
    BY <1>4 DEF GetValue, HoldsOwnKey
  <2>2. /\ g \in Issued /\ g.at = issuedAt[held[c]]
        /\ String(g.identity) = String(identity[c])
    BY <1>4, <2>1 DEF GetValue, Issued, CredentialsOf
  <2>3. issuedAt[held[c]] + SessionDuration >= askedAt[c] + SessionRefresh
    BY <1>4, <2>1 DEF GetValue, FreshWhenAsked, TypeOK, cacheTTL
  <2>4. Status[c] = "pending" /\ Status' = [Status EXCEPT ![c] = "ok"]
    BY <1>4 DEF GetValue, Status, TypeOK
  <2>5. Answered' = [Answered EXCEPT ![c] = g]
    BY <1>4 DEF GetValue, Answered, CredentialsOf, TypeOK
  <2>6. Issued' = Issued /\ askedAt' = askedAt
    BY <1>2, <1>4 DEF GetValue, Issued, CredentialsOf, TypeOK
  <2>7. Provider!String(g.identity) = Provider!String(identity[c])
    BY <2>2, Zenon DEF String, Separator, Provider!String, Provider!Separator
  <2>8. Provider!Answer(c, g)
    BY <1>4, <2>2, <2>3, <2>4, <2>5, <2>6, <2>7 DEF GetValue, Provider!Answer
  <2>9. QED
    BY <2>2, <2>8
<1>5. ASSUME NEW c \in Calls, IssueOk(c)
      PROVE  \E i \in Identities : \E t \in 0 .. now :
               Provider!Issue([identity |-> i, at |-> t])
  <2>1. future[c] = "granted" /\ future' = [future EXCEPT ![c] = "ok"]
        /\ UNCHANGED <<now, issuedAt, pc, identity, held>>
    BY <1>5 DEF IssueOk
  <2>2. identity[c] \in Identities /\ issuedAt[c] \in 0 .. now
    BY <2>1 DEF Started, IssuedInPast, TypeOK
  <2>3. Issued' = Issued \cup {CredentialsOf(c)}
    <3>1. {f \in Calls : future'[f] = "ok"} = {f \in Calls : future[f] = "ok"} \cup {c}
      BY <2>1 DEF TypeOK
    <3>2. \A f \in Calls : CredentialsOf(f)' = CredentialsOf(f)
      BY <2>1 DEF CredentialsOf
    <3>3. QED
      BY <3>1, <3>2 DEF Issued
  <2>4. Status' = Status /\ Answered' = Answered /\ askedAt' = askedAt
    BY <1>2, <2>1 DEF Status, Answered, CredentialsOf
  <2>5. Provider!Issue(CredentialsOf(c))
    BY <2>1, <2>2, <2>3, <2>4 DEF Provider!Issue, CredentialsOf
  <2>6. QED
    BY <2>2, <2>5 DEF CredentialsOf
\* A failing call returns: without an item to remove, or after evicted.
<1>6. ASSUME NEW c \in Calls, DeleteEntry(c) \/ EvictedByCall(c), pc'[c] = "err"
      PROVE  Provider!Fail(c)
  <2>1. /\ pc[c] \in {"delete", "evicted"}
        /\ pc' = [pc EXCEPT ![c] = "err"]
        /\ \A d \in Calls \ {c} : held'[d] = held[d]
        /\ UNCHANGED <<now, future, issuedAt, identity>>
    BY <1>6 DEF DeleteEntry, EvictedByCall, TypeOK
  <2>2. Status[c] = "pending" /\ Status' = [Status EXCEPT ![c] = "err"]
    BY <2>1 DEF Status, TypeOK
  <2>3. Answered' = Answered /\ Issued' = Issued /\ askedAt' = askedAt
    BY <1>2, <2>1 DEF Answered, Issued, CredentialsOf, TypeOK
  <2>4. QED
    BY <2>1, <2>2, <2>3 DEF Provider!Fail
\* Any other step is invisible to the callers.
<1> DEFINE Invisible ==
      /\ \A c \in Calls :
           /\ \/ pc'[c] = pc[c]
              \/ /\ pc[c] \in {"set", "count", "wait", "delete", "dec"}
                 /\ pc'[c] \in {"count", "wait", "delete", "dec", "evicted"}
           /\ pc[c] = "ok" => held'[c] = held[c]
           /\ future'[c] = "ok" <=> future[c] = "ok"
           /\ future[c] = "ok" => issuedAt'[c] = issuedAt[c]
      /\ UNCHANGED <<now, identity>>
<1>7. Invisible => UNCHANGED Provider!vars
  <2> SUFFICES ASSUME Invisible PROVE UNCHANGED Provider!vars
    OBVIOUS
  <2>1. Status' = Status
    BY DEF Status
  <2>2. Issued' = Issued
    BY DEF Issued, CredentialsOf
  <2>3. Answered' = Answered
    BY DEF Answered, CredentialsOf, HoldsOwnKey
  <2>4. askedAt' = askedAt
    BY <1>2
  <2>5. QED
    BY <2>1, <2>2, <2>3, <2>4 DEF Provider!vars
<1>8. ASSUME NEW c \in Calls, SetEntry(c) \/ CountEntry(c) \/ UncountEntry(c)
      PROVE  Invisible
  BY <1>8 DEF SetEntry, CountEntry, UncountEntry, TypeOK
<1>9. ASSUME NEW c \in Calls, GetError(c) \/ GetDone(c) PROVE Invisible
  BY <1>9 DEF GetError, GetDone, TypeOK
<1>10. ASSUME NEW c \in Calls, DeleteEntry(c), pc'[c] # "err" PROVE Invisible
  BY <1>10 DEF DeleteEntry, TypeOK
<1>11. ASSUME NEW c \in Calls, Grant(c) \/ IssueErr(c) PROVE Invisible
  BY <1>11 DEF Grant, IssueErr, TypeOK
<1>12. ASSUME JanitorStep \/ Receive \/ Quiescent PROVE Invisible
  BY <1>12 DEF JanitorStep, Purge, EvictedByJanitor, NotifyByJanitor,
               Receive, Quiescent, vars
<1>13. ASSUME Tick PROVE Provider!Tick
  BY <1>2, <1>13 DEF Tick, Provider!Tick, Issued, Status, Answered,
                     CredentialsOf
<1>14. ASSUME NEW c \in Calls, EvictedByCall(c) PROVE pc'[c] = "err"
  BY <1>14 DEF EvictedByCall, TypeOK
<1> HIDE DEF Invisible
<1>15. QED
  BY <1>3, <1>4, <1>5, <1>6, <1>7, <1>8, <1>9, <1>10, <1>11, <1>12, <1>13,
     <1>14
     DEF Next, CallStep, IssueStep, Provider!Next

\* With a session-refresh shorter than the session, the cache implements the
\* abstract provider: every answer is an error or credentials for the key
\* asked for, with session-refresh of their life left.
THEOREM CacheImplementsProvider ==
  ASSUME SessionRefresh < SessionDuration
  PROVE  SpecR => ImplementsProvider
<1>1. RInv /\ [NextR]_varsR => RInv'
  BY NextRInv
<1>2. RInv /\ RInv' /\ [NextR]_varsR => [Provider!Next]_(Provider!vars)
  BY NextProvider
<1>3. QED
  BY <1>1, <1>2, InitRInv, InitProvider, PTL
     DEF SpecR, ImplementsProvider, Provider!Spec
=============================================================================
