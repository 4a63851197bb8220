--------------------------- MODULE ServerProcess ---------------------------
(***************************************************************************)
(* The server's process: cmd/kiam/server.go, the builder                   *)
(* (pkg/server/server_builder.go), Serve and Stop (pkg/server/server.go)   *)
(* with the start of the caches and the managers, and the command          *)
(* "kiam health" that probes it.                                           *)
(*                                                                         *)
(* The main goroutine configures the parts, starts them one after the      *)
(* other and ends in gRPC's Serve; a second goroutine waits for a signal,  *)
(* stops gRPC gracefully and cancels the context of all other parts.       *)
(***************************************************************************)
EXTENDS Naturals

CONSTANTS
  RPCs,              \* calls of agents
  Configs,           \* the configurations that are tried
  parallelFetchers   \* flag fetchers: number of manager goroutines

ASSUME ConfigAssumption ==
  /\ Configs \subseteq [baseARN : BOOLEAN, autoDetect : BOOLEAN,
                        durationOk : BOOLEAN, assumeRole : BOOLEAN]
  /\ parallelFetchers \in Nat

VARIABLES
  config,     \* which flags are given, and sensible
  main,       \* control point of the main goroutine
  stopper,    \* control point of the goroutine that waits for the signal
  synced,     \* the caches whose first list is complete
  cancelled,  \* the context of caches and managers is cancelled
  managers,   \* number of running goroutines of CredentialManager.Run
  rpcs,       \* the calls
  probe,      \* the command kiam health
  received,   \* history: the stopper has received a signal
  fault       \* history: a flag was wrong or something outside failed

vars == <<config, main, stopper, synced, cancelled, managers, rpcs, probe,
          received, fault>>

Ended == {"exited", "fatal", "killed"}
Alive == main \notin Ended

TypeOK ==
  /\ config \in Configs
  /\ main \in {"check", "notify", "sts", "kube", "tls", "build", "managers",
               "pods", "namespaces", "grpc", "serving"} \cup Ended
  /\ stopper \in {"off", "spawned", "waiting", "graceful", "close", "cancel",
                  "done"}
  /\ synced \in SUBSET {"pods", "namespaces"}
  /\ cancelled \in BOOLEAN
  /\ managers \in 0..parallelFetchers
  /\ rpcs \in [RPCs -> {"idle", "running", "done", "cut", "lost"}]
  /\ probe \in {"idle", "dial", "check", "healthy", "unhealthy"}
  /\ received \in BOOLEAN
  /\ fault \in BOOLEAN

Init ==
  /\ config \in Configs
  /\ main = "check"
  /\ stopper = "off"
  /\ synced = {}
  /\ cancelled = FALSE
  /\ managers = 0
  /\ rpcs = [r \in RPCs |-> "idle"]
  /\ probe = "idle"
  /\ received = FALSE
  /\ fault = FALSE

---------------------------------------------------------------------------
(* Run: flags and builder                                                  *)

partVars == <<config, synced, cancelled, probe, received>>

\* The process is gone, and its calls with it.
End(how) ==
  /\ main' = how
  /\ rpcs' = [r \in RPCs |-> IF rpcs[r] # "running" THEN rpcs[r]
                             ELSE IF how = "killed" THEN "lost" ELSE "cut"]
  /\ UNCHANGED <<partVars, stopper, managers>>

Goto(from, to) ==
  /\ main = from
  /\ main' = to
  /\ UNCHANGED <<partVars, rpcs, fault>>

Valid == (config.autoDetect \/ config.baseARN) /\ config.durationOk

Check == Valid /\ Goto("check", "notify") /\ UNCHANGED <<stopper, managers>>

CheckError == main = "check" /\ ~Valid /\ End("fatal") /\ fault' = TRUE

Notify == Goto("notify", "sts") /\ UNCHANGED <<stopper, managers>>

\* The ARN of the role to assume is resolved whether or not there is one;
\* Resolve refuses an empty role.
WithAWSSTSGateway ==
  /\ config.assumeRole
  /\ Goto("sts", "kube")
  /\ UNCHANGED <<stopper, managers>>

ResolveError ==
  main = "sts" /\ ~config.assumeRole /\ End("fatal") /\ UNCHANGED fault

WithKubernetesClient == Goto("kube", "tls") /\ UNCHANGED <<stopper, managers>>

WithTLS == Goto("tls", "build") /\ UNCHANGED <<stopper, managers>>

\* Build listens on the address; Run starts the goroutine that stops.
Build ==
  /\ Goto("build", "managers")
  /\ stopper' = "spawned"
  /\ UNCHANGED managers

\* newRoleARNResolver, called by three of the builder's functions, does not get
\* the base ARN from the metadata API.
DetectError ==
  /\ main \in {"sts", "kube", "build"}
  /\ config.autoDetect
  /\ End("fatal")
  /\ fault' = TRUE

\* An unknown region, no kubeconfig, no certificates, the address is in use.
ConfigureError ==
  /\ main \in {"sts", "kube", "tls", "build"}
  /\ End("fatal")
  /\ fault' = TRUE

---------------------------------------------------------------------------
(* Serve                                                                   *)

\* Mutant: one goroutine too many.
MutRoutines == parallelFetchers + 1

Routines == parallelFetchers

\* The goroutines are started; when each first receives is up to the scheduler.
ManagersRun ==
  /\ Goto("managers", "pods")
  /\ managers' = Routines
  /\ UNCHANGED stopper

\* A manager ends with the context.
ManagerEnds ==
  /\ Alive
  /\ cancelled
  /\ managers > 0
  /\ managers' = managers - 1
  /\ UNCHANGED <<partVars, main, stopper, rpcs, fault>>

\* An informer that runs completes its first list (external).
Sync(c) ==
  /\ \/ main \in {"namespaces", "grpc", "serving"}
     \/ main = "pods" /\ c = "pods"
  /\ ~cancelled
  /\ c \notin synced
  /\ synced' = synced \cup {c}
  /\ UNCHANGED <<config, main, stopper, cancelled, managers, rpcs, probe,
                 received, fault>>

\* Mutant: does not wait for the pods.
MutPodsRun == Goto("pods", "namespaces") /\ UNCHANGED <<stopper, managers>>

PodsRun ==
  /\ "pods" \in synced
  /\ Goto("pods", "namespaces")
  /\ UNCHANGED <<stopper, managers>>

NamespacesRun ==
  /\ "namespaces" \in synced
  /\ Goto("namespaces", "grpc")
  /\ UNCHANGED <<stopper, managers>>

\* WaitForCacheSync returns because the context is cancelled.
RunError ==
  /\ main \in {"pods", "namespaces"}
  /\ cancelled
  /\ End("fatal")
  /\ UNCHANGED fault

\* gRPC has not been told to stop.
NotStopped == stopper \in {"spawned", "waiting"}

\* Serve returns at once if gRPC has been stopped before.
Serve ==
  \/ NotStopped /\ Goto("grpc", "serving") /\ UNCHANGED <<stopper, managers>>
  \/ ~NotStopped /\ main = "grpc" /\ End("exited") /\ UNCHANGED fault

\* Mutant: Serve returns as soon as the listener is closed.
MutServeReturns == main = "serving" /\ ~NotStopped /\ End("exited")
                     /\ UNCHANGED fault

\* Otherwise it returns when GracefulStop has returned, and the process ends.
ServeReturns ==
  /\ main = "serving"
  /\ stopper \in {"close", "cancel", "done"}
  /\ End("exited")
  /\ UNCHANGED fault

\* Or when accepting a connection fails for good, which ends the process under
\* the calls that are running.
AcceptError ==
  /\ main = "serving"
  /\ NotStopped
  /\ End("exited")
  /\ fault' = TRUE

---------------------------------------------------------------------------
(* Signals and Stop                                                        *)

\* Before Notify a signal's default action ends the process.  Afterwards it
\* is sent to a channel without a buffer, where it is dropped unless the
\* stopper is waiting; so is every signal after the first.
Signal ==
  /\ Alive
  /\ IF main \in {"check", "notify"}
       THEN End("killed") /\ UNCHANGED fault
       ELSE /\ stopper = "waiting"
            /\ stopper' = "graceful"
            /\ received' = TRUE
            /\ UNCHANGED <<config, main, synced, cancelled, managers, rpcs,
                           probe, fault>>

Stopper(from, to) ==
  /\ Alive
  /\ stopper = from
  /\ stopper' = to
  /\ UNCHANGED <<config, main, synced, managers, rpcs, probe, received, fault>>

Wait == Stopper("spawned", "waiting") /\ UNCHANGED cancelled

\* Mutant: running calls are not waited for.
MutGracefulStop == Stopper("graceful", "close") /\ UNCHANGED cancelled

GracefulStop ==
  /\ \A r \in RPCs : rpcs[r] # "running"
  /\ Stopper("graceful", "close")
  /\ UNCHANGED cancelled

\* The listener and the TLS configuration are closed.
Close == Stopper("close", "cancel") /\ UNCHANGED cancelled

\* Mutant: the context is never cancelled.
MutCancel == Stopper("cancel", "done") /\ UNCHANGED cancelled

Cancel == Stopper("cancel", "done") /\ cancelled' = TRUE

Kill == Alive /\ End("killed") /\ UNCHANGED fault

---------------------------------------------------------------------------
(* Calls and kiam health                                                   *)

Serving == main = "serving" /\ NotStopped

Arrive(r) ==
  /\ Serving
  /\ rpcs[r] = "idle"
  /\ rpcs' = [rpcs EXCEPT ![r] = "running"]
  /\ UNCHANGED <<partVars, main, stopper, managers, fault>>

Finish(r) ==
  /\ rpcs[r] = "running"
  /\ rpcs' = [rpcs EXCEPT ![r] = "done"]
  /\ UNCHANGED <<partVars, main, stopper, managers, fault>>

Probe(from, to) ==
  /\ probe = from
  /\ probe' = to
  /\ UNCHANGED <<config, main, stopper, synced, cancelled, managers, rpcs,
                 received, fault>>

\* Dialling blocks until the handshake.
Reachable == Serving

\* The gateway is built, which needs a server that answers; then Health is
\* called until it succeeds.  GetHealth says "ok" whenever it is called.
ProbeStart == Probe("idle", "dial")
ProbeDial  == Reachable /\ Probe("dial", "check")
GetHealth  == Reachable /\ Probe("check", "healthy")

\* Either time-out.
ProbeTimeout == Probe("dial", "unhealthy") \/ Probe("check", "unhealthy")

Terminated ==
  /\ ~Alive
  /\ UNCHANGED vars

Main ==
  \/ Check \/ CheckError \/ Notify
  \/ WithAWSSTSGateway \/ ResolveError \/ WithKubernetesClient \/ WithTLS
  \/ Build \/ DetectError \/ ConfigureError
  \/ ManagersRun \/ PodsRun \/ NamespacesRun \/ RunError
  \/ Serve \/ ServeReturns

Stop == Wait \/ GracefulStop \/ Close \/ Cancel

Next ==
  \/ Main \/ Stop \/ ManagerEnds
  \/ AcceptError \/ Signal \/ Kill
  \/ \E c \in {"pods", "namespaces"} : Sync(c)
  \/ \E r \in RPCs : Arrive(r) \/ Finish(r)
  \/ ProbeStart \/ ProbeDial \/ GetHealth \/ ProbeTimeout
  \/ Terminated

Spec == Init /\ [][Next]_vars

\* Goroutines are scheduled and calls end: their contexts have deadlines and
\* requests to AWS have time-outs.  The API server need not answer.
FairSpec ==
  /\ Spec
  /\ WF_vars(Main) /\ WF_vars(Stop)
  /\ \A r \in RPCs : WF_vars(Finish(r))

---------------------------------------------------------------------------
(* Properties                                                              *)

\* A call is only ever served from complete caches that are still watching:
\* not before the first lists, not after the context was cancelled.
ServedFromLiveCaches ==
  \A r \in RPCs :
    rpcs[r] = "running" => synced = {"pods", "namespaces"} /\ ~cancelled

\* Stopping gracefully answers every call that was accepted: unless the
\* listener fails, the process does not end under it, although its end does
\* not wait for the stopper.
NoCallCutOff == ~fault => \A r \in RPCs : rpcs[r] # "cut"

\* A role to assume is optional (default null in helm/kiam/README.md, and
\* TestWithEmptyAssumeRole): its absence does not end the process.
AssumeRoleOptional == main = "fatal" => fault \/ received

\* A signal that the stopper receives ends the process, also while caches
\* wait for an API server that does not answer.
SignalEnds == received ~> main \in Ended
=============================================================================
