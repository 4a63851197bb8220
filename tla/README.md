# Verification of kiam in TLA+

kiam lets pods of a Kubernetes cluster use AWS IAM roles. An *agent* on every
node intercepts the requests pods make to the EC2 metadata API and asks a
*server*, over gRPC with mutual TLS, for credentials of the role the pod is
annotated with. The server watches pods and namespaces, checks policy, gets
credentials from AWS STS, caches them and refreshes them before they expire.

This directory models the server, the agent and what lies between them. TLC
checks small instances, TLAPS proves the safety properties for all values of
the constants. `PROJECT.json` lists components, runs, the source lines behind
every definition, mutants, findings, hazards and theorems.

    tlc -workers 2 -config CredentialsCacheRefinement.cfg MCCredentialsCacheRefinement
    tlapm CredentialsCacheProofs.tla

## Inventory

| Component | State | Operations | Talks to |
|---|---|---|---|
| STS credentials cache (`pkg/aws/sts/cache.go`, `pkg/future`) | map key -> Future with a TTL, channel `expiring` (capacity 1), gauge `cacheSize` | `CredentialsForRole`, `evicted`, `Expiring` | STS through `STSGateway`; go-cache and its janitor goroutine; called by gRPC handlers and managers |
| Pod cache (`pkg/k8s/pod_cache.go`) | informer's indexer (by IP, by role identity), channel of announced pods | `OnAdd`, `OnUpdate`, `OnDelete`, `announce`, `IsActivePodsForRole`, `GetPodByIP` | API server; read by handlers and managers |
| Credential manager (`pkg/prefetch/manager.go`) | none but its goroutines | `Run`, `fetchCredentials`, `handleExpiring` | receives pods and expiring credentials, calls the credentials cache |
| Dynamic TLS (`pkg/server/tls.go`) | `latest`, `hash`, watcher, gauges | constructor, `read`, `watch`, `Close` | file system through fsnotify; read by every handshake |
| KiamServer (`pkg/server/server.go`) | none | `GetPodCredentials`, `GetPodRole`, `GetHealth`, `Serve`, `Stop` | pod and namespace cache, policies, credentials cache, events |
| Policies (`pkg/server/policy.go`), namespace cache (`pkg/k8s/namespace_cache.go`) | informer's indexer | `IsAllowedAssumeRole`, `FindNamespace` | API server |
| Gateway (`pkg/server/gateway*.go`) | connection | `GetRole`, `GetCredentials`, `Health`, `Close` | the server; it does not retry (`kMaxRetries` is 0) |
| Agent handlers (`pkg/aws/metadata`) | none | role name, credentials, health, proxy | pods over HTTP; the gateway, with retries and a deadline of 5 s |
| Agent process (`cmd/kiam/agent.go`, `iptables.go`) | the DNAT rule in the kernel, which outlives the process | add, serve, stop, remove | signals, the HTTP server |
| Server process (`cmd/kiam/server.go`, `server_builder.go`) | the goroutine that stops it, a cancellable context | configure, start in order, signal, graceful stop | all of the server's parts |
| Health command (`cmd/kiam/health.go`) | none | dial, `Health` until it succeeds | the gateway |
| ARN resolution, session names (`arn_resolver.go`, `resolver_detect_arn.go`, `cache.go`) | none | pure functions | policies, the cache's key, STS |
| STS endpoints, telemetry, flags, generated code | none | string construction, counters | |

What is hard here:

* **Concurrency.** Any number of gRPC handlers and managers call
  `CredentialsForRole` at once; look-up and store are separate steps; calls
  share Futures and delete each other's; the janitor removes items at the same
  time. The project's README names "data races under load causing incorrect
  credentials" as a reason for kiam's existence.
* **Failure.** Contexts end at any time, STS refuses, requests get lost. A
  Future runs under the context of the call that happened to create it.
* **Time.** Credentials must be replaced *before* they expire: the TTL runs
  from the store, the lifetime from the issue.
* **Bounded channels.** Both channels drop what does not fit.
* **Stale state.** A handler decides on a snapshot of the pod while pods,
  addresses and permissions change.
* **Torn state.** Three certificate files are read one after the other while
  they are replaced.
* **Retries against a deadline.** Pauses grow at random while the server comes
  and goes and gets to know the pod; a shutdown with the same time-out runs
  against them.
* **Crash and restart.** The rule in the kernel outlives a killed agent.
* **Start and stop.** The server's parts start one after the other while a
  signal may stop gRPC and cancel their context at any moment.

What makes each part correct:

* cache: credentials of the right identity, fresh on every hit, failed Futures
  not kept, calls and janitor return;
* prefetching: a role in use has credentials or a trigger to fetch them;
* TLS: no change is missed, valid files end up in use, `Close` returns;
* server handlers: what is granted was annotated and permitted during the
  request, and who is entitled throughout is not refused;
* agent's handlers: an answer within the deadline, failure only for a cause, a
  server that recovers in time noticed, success only from a server that was able
  to give it;
* agent's process: the rule is there, once, while the agent listens and while its
  shutdown waits;
  shutdown ends and cuts off no request with time left;
* server's process: calls are served from synced, live caches and survive a
  graceful stop; a received signal ends the process;
* names: one role is one ARN, which identities share a key is known, STS accepts
  what it gets.

## Modules

### RoleIdentity, CredentialsCache

`CredentialsCache` models `cache.go` and `future.go` in full detail. A call of
`CredentialsForRole` is an element of `Calls` with a control point `pc`:

| `pc` | where the code is | actions |
|---|---|---|
| `idle` | not called | `GetHit`, `GetMiss` (`cache.Get`, `future.New`) |
| `set` | before `cache.Set` | `SetEntry` |
| `count` | before `cacheSize.Inc` | `CountEntry` |
| `wait` | in `Future.Get(ctx)` | `GetValue`, `GetError`, `GetDone` |
| `delete` | before `cache.Delete` | `DeleteEntry` |
| `dec` | before `cacheSize.Dec` in `evicted`, called by its own `Delete` | `UncountEntry` |
| `evicted` | in `evicted`, waiting for the Future | `EvictedByCall` |
| `ok`, `err` | returned | |

A call creates at most one Future, so a Future is named after its creator. Its
goroutine is `Grant` (STS issues), `IssueOk` (the answer arrives) and
`IssueErr`; issue and arrival are separate because the credentials' life starts
with the first. The janitor is `Purge` (all expired items under one lock) and,
for each of them, `EvictedByJanitor` and `NotifyByJanitor`. `Receive` is the
reader of `Expiring()`.

The semantics of go-cache are taken from how the code uses it: `Get` does not
return an expired item, `Set` overwrites without `OnEvicted`, a TTL that is not
positive means no expiration, `Delete` calls `OnEvicted` in the caller.

Abstractions: time is a counter, and does not advance while a call is between
`cache.Get` and `cache.Set` (nothing blocks there); a context may end whenever its
call waits (`GetDone`), which covers deadlines, clients that disappear, and
shutdown. Storing and counting an item are two steps, and so are removing it and
taking it off the gauge, so in between the gauge is below the number of items, and
even below 0; `GaugeCoversItems` says that it does not stay so.

Keys are built by `RoleIdentity!String` from sequences of tokens. Nothing is
assumed about the identities in use: two of them may share a key, and then they do
share credentials, because neither the annotations nor `Resolve` keep the separator
out of a role or a session name. `Keyable` are the identities without it in these
two fields. `ServedForOwnIdentity` says that a call is served for its key, and for
its identity if both are keyable; `SameKeySameIdentity` is why.

### CredentialsProvider, CredentialsCacheRefinement

`CredentialsProvider` is what the interface of that name promises, with no
cache in it: a call is answered with an error, or with credentials that STS
issued for an identity with the key of the one asked for and that had `SessionRefresh` of their life
left when the call was made. `CredentialsCacheRefinement` adds a history
variable (`askedAt`), defines the mapping and states `ImplementsProvider`.

### PodCache, CredentialManager

`PodCache` has the indexer, `announce` and the informer's events; pod objects
are snapshots, so the channel may hold old ones. `CredentialManager` extends it
with the managers' goroutines and the credentials cache. A manager's call goes
step by step:

| `at` | where the code is | actions |
|---|---|---|
| `select` | in the select of `Run` | `FetchCredentials`, `HandleExpiring`, each with the look-up |
| `set` | before `cache.Set` | `SetItem` |
| `wait` | in `Future.Get(ctx)` | `Return`, `ReturnErr` with `cache.Delete` |
| `evict` | in `evicted`, called by its own `Delete` | `ReturnEvicted` |

A manager's context lives as long as the process. All other callers are the agents'
calls, which appear by what they can do to the cache: find no item and, any time
later, store a Future over whatever is there (`AgentMiss`, `AgentStore`), and delete
whatever is there (`AgentDelete`), be it healthy, since their own Future may have
failed or their own context ended at any moment. `AgentDelete` and the janitor's
`Purge` take the item out; `Evicted` waits for its Future and reports it as a step
of its own. An item does not pass its TTL while its request is pending. Keys, time
and the gauge are left to `CredentialsCache`. A Future is a pair of an identity and a
number; `Futures` bounds how many of an identity are in use, and one that neither
an item, a call nor an eviction refers to is free to be used again (`Collect`).
The indexer and the announcement change in one step. `lost` is a history variable
that records the places where a trigger to fetch is lost; one of them is
`OnUpdate`, which only logs, although `PodAnnouncer` (`pkg/k8s/interfaces.go`)
promises a pod "whenever there's a change/addition".

### DynamicTLS

`read` takes the three files in three steps (`ReadFile`, in the order cert, key,
CA) and then compares the hash, parses and stores (`Unchanged`, `ParseError`,
`Store`). The environment rewrites, truncates or removes single files
(`WriteFile`) or replaces all of them at once (`Flip`, what the kubelet does
with a mounted secret); every change raises an event while the watcher is open.
A file's content is the generation of the key pair it belongs to, or torn, or
missing. fsnotify's error channel, whose elements are only logged, and the
overflow of the kernel's event queue are not modelled.

### KiamServer

`GetPodCredentials` and `GetPodRole` with their policies, one step for each read
of shared state:

| `pc` | where the code is | actions |
|---|---|---|
| `find`, `findRole` | before `GetPodByIP` | `FindPod`, `GetPodRole`, `GetPodByIPError` |
| `annotated` | in `RequestingAnnotatedRolePolicy` | `AnnotatedRolePolicy` |
| `namespace` | in `NamespacePermittedRoleNamePolicy` | `NamespacePolicy`, `NamespaceUnknown` |
| `provider` | in `CredentialsForRole` | `CredentialsForRole`, `CredentialsError` |

`PodEvent` (the informer's events of `PodCache`) and `NamespaceEvent` change the
two caches at any time and independently, as the two watches do. The provider is
one step that answers for the identity asked for, which is what
`ServedForOwnIdentity` and `ImplementsProvider` establish for the cache. `owned`
and `permitted` are history variables: which objects alone had the request's
address, and what namespaces permitted, at some moment of the request. `entitled`
is one, too: the object, if any, that alone had the address, with the requested
role, in a namespace that permits it, at every moment of the request. An error of
the provider (`failed`) is told apart from one of the lookup or a policy (`error`).

Abstractions: a role is the ARN it resolves to, so `Equals`, which compares the
name too, is equality, and an empty role does not resolve; a regular expression
is the set of ARNs it matches. Both caches start empty, which is more than the
program allows (`Serve` waits for the first sync of each), and any synced state
is reached before the first request. After a panic, remaining requests meet a
restarted process whose caches hold what the watches last showed.

### Agent

What becomes of a pod's HTTP request. `server` abstracts the server to what it
would answer about the pod: unreachable, pod not known yet, no role, refuses,
grants; it changes at any time. `kind` is the route. Control points:

| `pc` | where the code is | actions |
|---|---|---|
| `connected` | connection accepted, no request yet | `ServeHTTP`, `Immediate`, `getClientIPError`, `Blocked`, `Disconnect` |
| `call` | in `GetRole`, `GetCredentials` or `Health` | `FindRole`, `FetchCredentials`, `FindServerHealth`, `Hang`, `GiveUp` |
| `hung` | there, on a dead connection | `Unhang`, `GiveUp` |
| `backoff` | in `backoff.Retry`'s pause | `Retry`, `GiveUp` |
| `meta` | waits for the metadata API | `CheckMetadata`, `Proxied`, `GiveUp` |
| `200`, `404`, `500` | answered | |
| `cut`, `lost` | the process ended by itself, or was killed; the connection closed | |

Time is in ticks, `FiveSeconds` of them in the handlers' deadline. A pause of the
exponential backoff (5 ms, factor 1.5, up to half as long again at random) is at
most 1.5 t + 7.5 ms after the time t, since the pauses before it add up to t; so
what starts within tick e is repeated by tick `NextAttempt(e)`, 2.5 (e + 1). Any
pause within that bound is allowed, including none, so several attempts may fall
into one tick. The version of backoff that kiam uses stops at once, with the error
of the last call, when the next pause would outlast the deadline (`Again`), so a
handler may fail well before it. What is due happens before time goes on: an able
server answers, unless the call hangs. A call has no time-out but the request's
context, and keepalive needs longer than that to notice a dead connection, so a
call that met one (`Hang`) may stay there to the deadline although the server is
back, or return at any time (`Unhang`), with an answer or an error. `good` (since
when the server could answer an attempt of the request) and `cause` (what is wrong
with the request itself) are history variables. That `healthHandler` also fails on an answer
other than "ok" is left out, since `GetHealth` gives no other.

### AgentProcess

`run` of `cmd/kiam/agent.go` around those handlers. `main` goes through `add`
(the rule), `notify`, `build` (gateway and web server), `select`, `stop`
(`Shutdown`), `deferred` and `remove`, with an exit for every early return;
`Serve` is a goroutine. `Kill` may come at any moment and `Start` begins a new
life, over whatever rule the last one left. A signal before `signal.Notify` kills
by default. A connection accepted before `Shutdown` may still bring a request
(`late`). `Remove`, `RemoveError` and `DeleteError` are the outcomes of
`rules.Remove`; the last is a panic, because the message about the retry uses the
`err` of `iptables.New`, which is nil. Requests are renewed with each process.
Errors of `Accept` once the agent listens are not modelled.

### ServerProcess

`cmd/kiam/server.go`, the builder, `Serve` and `Stop`. `main` is the main
goroutine, through the flags, each of the builder's functions, the managers, the
two caches and gRPC; `stopper` is the goroutine that waits for the signal, stops
gRPC gracefully, closes the listener and cancels the context. The signal's channel
has no buffer, so a signal is dropped unless `stopper` waits, which leaves the
state alone. Agents' calls are `rpcs`; what they do is the matter of `KiamServer`.
`probe` is the command `kiam health`. Informers and gRPC are external: an
informer lists when the API server answers, if ever. gRPC's `Serve` may also return
because `Accept` failed (`AcceptError`), which ends the process under its calls.

### Names

`Resolve`, `roleFromArn`, `BaseArn`, `sanitizeSessionName` and `getSessionName` as
functions on sequences of tokens or bytes; every initial state of `MCNames` is an
input. Colons and the characters to be replaced are found by their rank: `Nth` is
the n-th smallest number of a set of positions, so that `Colon(s, 5)` is where
`SplitAfterN` splits the sixth part off, and `Coerce` writes one character for
each position at which a character, or half of one, starts.

## Runs

| Run | Checks | Instance |
|---|---|---|
| `cache` | `TypeOK`, `ServedForOwnIdentity`, `FreshHit`, `NoPoisonedEntry`, `GaugeCoversItems`, `ImplementsProvider`, `CallsReturn`, `JanitorReturns` | 2 calls, 2 identities that differ in the external id only, one being the separator, lifetime 2, refresh 1, 2 ticks |
| `refresh_not_below_duration` | `RefreshedBeforeExpiration` is violated | refresh = lifetime |
| `prefetch` | `TypeOK`, `NoSilentLoss`, `KeepsRolesWarm` | 1 pod that may be replaced, 2 roles, of which agents ask for one, 1 manager, 3 Futures, channel of 1, failures |
| `two_roles_go_cold` | `ExpiringRefreshed` is violated | 2 pods, 2 roles, 1 manager, no agents, no failures |
| `tls` | `TypeOK`, `NoSilentStale`, `Converges`, `CloseReturns` | 2 generations, torn and missing files, 1 pending event |
| `server_grants` | `TypeOK`, `GrantedDuringRequest`, `EntitledNotRefused` | 1 request, 2 pods that may share an address, 1 namespace, 2 roles, 2 session names |
| `namespace_unknown` | `RefusedWithoutAnnotation` is violated | 2 requests, 1 pod |
| `agent` | `TypeOK`, `RuleRemoved`, `RuleWhileServing`, `DrainedBeforeExit`, `FailsOnlyForCause`, `OkOnlyFromServer`, `RecoveryInTime`, `RequestsAnswered`, `SignalEnds` | 1 request per life of the agent, any number of lives, 6 ticks in five seconds, 3 settings of the flags |
| `removal_not_retried` | `RemovalRetried` is violated | no requests |
| `server_process` | `TypeOK`, `ServedFromLiveCaches`, `NoCallCutOff`, `SignalEnds` | 2 calls, a probe, 2 managers, all settings of the flags |
| `no_assume_role` | `AssumeRoleOptional` is violated | the default of the flag |
| `names` | `SameRoleIffSameARN`, `KeyDeterminesIdentity`, `SessionNameAccepted`, `SessionNameKept` | roles of up to 2 tokens in three forms, fields of up to 2 tokens with the separator in any of them, session names around 64 bytes |

Why the bounds are enough. Two calls create, share, overwrite and delete each
other's Futures; for more of them the safety properties and the refinement are
proved. Lifetime 2 with refresh 1 makes an item live for one tick, so within two
ticks it is set, hit, expired and overwritten or purged. Two identities that
share a role show whether anything but the full key is used. Two roles are the
least that can compete for the channel of capacity 1, and a pod that is replaced
while its predecessor is announced fills a channel of 1. Two Futures of the role
that agents ask for are the least with which one is stored over another or during
another's eviction, and the role without agents is the one that only triggers keep
warm; more pods, Futures and managers are left to the proof. Two generations make every mixture of files; one
event pending while another is being handled is what lets a change race with a
read. Handlers share nothing but the caches, which they do not change, and a
panic, so one request meets every interleaving of its steps with cache events;
two pods make an address shared, passed on and reused. The agent's requests share
only the process, so one meets every order of its steps with those of the process,
the server and the client; with six ticks an attempt in the first two is repeated
before the deadline (`NextAttempt(1)` is 5) and a later one may find no time for it
(`NextAttempt(2)` is 7). Two calls let `GracefulStop`
wait for one while the other has ended. The names around 64 bytes include every
position of one character that does not fit, so also one cut in half. The clock
stops at `MaxTime` and fsnotify has at most `MaxEvents` events pending: both bounds
are guards, and the proofs hold for every value of them and of `FiveSeconds`.

### What the violated properties show

Each states a sentence of the repository's documentation or tests that the code
does not keep; `PROJECT.json` quotes them.

* `RefreshedBeforeExpiration`: nothing rejects a `session-refresh` that is not
  below `session-duration`; items then never expire.
* `ExpiringRefreshed` with two roles: `evicted` drops a notification that does
  not fit. What holds instead is `KeepsRolesWarm`, which excepts lost triggers and
  roles for which requests or agents' calls never cease to fail.
* `RefusedWithoutAnnotation`: `FindNamespace` returns nil for a namespace it
  does not know and the policy dereferences it; the server panics.
* `RemovalRetried`: the first failure to delete the rule dereferences a nil error
  in the message that announces the retry; the agent panics and the rule stays.
* `AssumeRoleOptional`: `WithAWSSTSGateway` resolves the role to assume, and
  `Resolve` refuses an empty one, before anything looks whether there is one.

Noted on the way, without a run: `cacheSize` drifts upwards, since a `Set` over an
item counts it again; the TLS update-error gauge stays at 1 when a file comes
back unchanged after a read error; the Content-Type of credentials is set
after the body is written (`handler_credentials.go:64`); `roleFromArn` needs five
colons in whatever begins with `arn:` and panics otherwise, which the function of
`Names` leaves out; with a base ARN that has a path, the name and the ARN of one
role do not compare equal. Identities with the separator in the role or the
session name can share the key, and with it the credentials, of another one: role
`x|a` with neither a session name nor an external id, and role `x` with session
name `a` and the external id `|`. The run `names` has such pairs, and `KeyDeterminesIdentity` says
that there are no others; nothing in the repository promises more.

### Fairness

`CredentialsCache!Fairness` assumes that goroutines are scheduled and that every
request to STS ends. It does *not* assume that contexts end, that clients call
or that anyone receives from `Expiring()`. The assumption about STS is needed:
`evicted` waits with `context.Background()`, so `CallsReturn` would fail if a
request never ended; the AWS SDK's time-outs justify it.
`CredentialManager!FairSpec` assumes weak fairness of STS and the janitor, which
runs every minute, and strong fairness of the two cases of a manager's `select`:
Go picks among ready cases at random, so a case that is ready again and again is
taken. Its stores are strongly fair because only the bound on Futures ever
disables them, which the code does not have. It assumes nothing about pods, nor
that agents ask, nor that failures cease: `KeepsRolesWarm` excepts a role for which
they go on for ever. `DynamicTLS!FairSpec` assumes only that the goroutine runs.
`AgentProcess!FairSpec` assumes that `run` and `Serve` are scheduled, that
handlers do what is due, and that time goes on (strongly, because steps that are
due hold the clock again and again); it does not assume that the server, the
metadata API or clients ever do anything. `ServerProcess!FairSpec` assumes that
both goroutines run and that calls end, which have deadlines; it does not assume
that the API server answers, so `SignalEnds` covers a server that is stuck in its
first sync.

Deadlock is checked everywhere: where the bounded system comes to its end it
does so by an explicit action (`Quiescent`, `Terminated`).

## Proofs

`CredentialsCacheProofs` proves, for any sets of calls and identities, any
durations and any bound on the clock:

* `TypeCorrect`, `ServedForOwnIdentityCorrect`, `NoPoisonedEntryCorrect`, from
  `ConstantsAssumption` and `IdentitiesAssumption`, which says no more than that
  identities have three fields made of tokens. `ServedForOwnIdentity` talks about
  returned calls only. The inductive invariant `IInv` adds that a call which has
  started has an identity (`Started`), that the Future a waiting or returned
  call holds was created for that key (`HoldsOwnKey`), and that every item is a
  Future whose creator has this very key (`EntriesOwned`). From the key to the
  identity leads `RoleIdentityProofs!SameKeySameIdentity`.
* `FreshHitCorrect`, assuming `SessionRefresh < SessionDuration`; without it the
  run `refresh_not_below_duration` is the counterexample. `FInv` adds that an
  item expires no later than its TTL after STS issued its credentials, issued
  yet or not (`EntriesExpireEarly`), and that for a Future not yet stored
  credentials can only have been issued at the present moment (`SetAtOnce`).
* `CacheImplementsProvider`, under the same assumption. `RInv` adds that nothing
  is issued in the future (`IssuedInPast`) and that the Future a call waits on
  was fresh when the call was made (`FreshWhenAsked`), though it may settle, be
  deleted or be replaced in the cache meanwhile. Identities may share keys. Initial states map to initial
  states, every step to a step of the provider or to a stuttering step.
* `GaugeCoversItemsCorrect`, for any set of calls, also an infinite one. The gauge
  itself is no invariant bound, since storing and counting are two steps. `GaugeInv`
  says that the gauge and the calls that have still to count are together not less
  than the items, the Futures being purged and the calls that have still to
  subtract; all of these are finitely many, without which their number would not
  be defined.

`RoleIdentityProofs` proves `SameKeySameIdentity`: `String()` gives the same key to
two identities only if they are the same or the separator is in the role or session
name of one of them, whatever the external ids. Two joined sequences with the first
separator at the same place have the same parts (`JoinInjective`), and the premise
makes the first two separators such.

`CredentialManagerProofs` proves `TypeCorrect` and `NoSilentLossCorrect` for any
pods, roles, managers, Futures and capacity. `MInv` adds that every pod in the
channel has a role and is not completed (`AnnouncedWanted`): the channel holds
snapshots, so the manager that receives one does fetch. It adds that an item is a
Future of its identity, and one that has failed is known as lost (`ItemsInOrder`),
and that a manager waits for a Future of the identity it fetches (`CallsInOrder`).
The argument for each step is that the trigger moves on: from the item to the
eviction that reports it, from there to the channel, from the channel to the
manager that is about to store, from there to the new item.

`DynamicTLSProofs` proves `TypeCorrect` and `NoSilentStaleCorrect`
for any set of generations and any bound on the events. `TLSInv` adds that what
was read so far is what is on disk unless an event is under way
(`ReadIsCurrent`), and that what was hashed last is in use unless the gauge
reports an error (`HashIsServed`), which is why storing the hash before parsing
does no harm.

`KiamServerProofs` proves `TypeCorrect`, `GrantedDuringRequestCorrect` and
`EntitledNotRefusedCorrect` for any pods, requests, addresses, roles and namespaces.
`GrantedDuringRequest` speaks of answered requests only;
`GInv` adds that the history of a running request contains the present
(`HistoryIsCurrent`), that the snapshot it decides on is in that history
(`SnapshotOwned`), and that each policy it has passed held for the snapshot
(`RoleAnnotated`, `RolePermitted`). For the converse `EInv` adds that an object
entitled so far is entitled now (`EntitledIsCurrent`) and is the snapshot on which
the handler decides (`SnapshotEntitled`): at each step the lookup finds it, or the
policy that reads the caches now sees what entitles it (`EntitledPasses`). That
another pod with the same rights takes over the address in the middle is not
enough, which is why `entitled` is an object and not a truth value: the snapshot
would be of the first pod, whose namespace may have stopped permitting the role.

`ServerProcessProofs` proves the three invariants of `ServerProcess` for any calls,
configurations and number of managers. `SInv` adds that each cache has synced
before `Serve` goes on (`SyncedInOrder`), that the context is cancelled by the stopper's
last step (`StopperInOrder`), and that calls run only until `GracefulStop` has
returned (`CallsWhileServing`), which is what keeps the end of the process from
cutting them off.

`AgentProcessProofs` proves the seven invariants of `AgentProcess` for any
requests, flags and number of ticks in five seconds, from `AgentAssumption` and
`OptionsAssumption`. For a request, `RInv` adds which kinds are where
(`KindInOrder`), that `good` tells whether the server is able now, and is `Never`
while a call hangs (`GoodMeansAble`), and that a pause ends before the deadline, so
that a call which is out of time met a server that was not able before
(`AttemptInTime`). For the process, `PInv` adds that the rule is there from `add` to
`remove` (`RuleKept`), that the agent listens only in `select` (`HttpInOrder`),
where connections may be open (`OpenInOrder`), that a request which is not late is
at least as old as the shutdown (`OlderThanStop`), and hence out of time when the
shutdown is (`ReturnedDrained`).

`NamesProofs` proves the four properties of `MCNames` for every value of its
bounds, from theorems about the functions themselves that assume nothing but the
form of their arguments:

* `KeyDeterminesIdentityCorrect` follows from `SameKeySameIdentity`.
* `NameIsRoleFromARN`, `EqualsIffSameARN`, `WaysToWriteARole`: for a base ARN detected
  from any profile ARN with five colons (`HasFifthColon`), `Equals`, which compares
  name and ARN, compares ARNs, and the name, the name after a slash and the ARN of
  a role are the same. The argument: sequences that agree up to a colon have it at
  the same rank (`SameColon`), and a member of a set is determined by its rank
  (`RankGrows`, `NthUnique`), so the fifth colon of the base ARN is that of the
  role's ARN whatever colons the name has.
* `SessionNameAlwaysAccepted`, `ValidSessionNameKept`: for all bytes of any length.
  `Coerce` writes at most one character for a byte and at least two for the prefix,
  and truncation leaves at most 64 bytes and the prefix.

Only model-checked: the liveness properties (`CallsReturn`, `JanitorReturns`,
`KeepsRolesWarm`, `Converges`, `CloseReturns`, `RequestsAnswered` and both
`SignalEnds`), since the prover handles neither fairness nor ENABLED. All
invariants, action properties and the refinement that the runs check are proved.

## Plan

Done: the credentials cache with its abstract specification, refinement and
proofs; prefetching; TLS; the server's handlers; the agent's handlers and process;
the server's process; names; proofs of all safety properties. Left: a formal
relation between the cache of `CredentialManager` and that of `CredentialsCache`.
Both have the same steps for a manager's call, but the agents' calls of the former
are effects without a caller, so the mapping needs a caller for each of them, as a
history variable; it would also let `KiamServer` call the cache itself.

## Not modelled

Log output and counters on which nothing depends, flags, the HTTP endpoints for
metrics and profiling, generated protocol code, test doubles, the Helm chart and
deployment manifests, the STS host name of a region, `earliestExpiry` and the two
gauges it feeds (functions of the stored certificate), and the libraries
(client-go's informers, go-cache, fsnotify, gRPC, net/http, backoff, iptables, the
AWS SDK), which appear as the code uses them.
