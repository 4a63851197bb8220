------------------------ MODULE ServerProcessProofs ------------------------
(***************************************************************************)
(* Proofs about ServerProcess, for any calls, configurations and number of *)
(* manager goroutines.                                                     *)
(***************************************************************************)
EXTENDS ServerProcess, TLAPS

---------------------------------------------------------------------------
(* The inductive invariant                                                 *)

\* Serve goes on only after each cache has synced.
SyncedInOrder ==
  /\ main \in {"namespaces", "grpc", "serving"} => "pods" \in synced
  /\ main \in {"grpc", "serving"} => "namespaces" \in synced

\* The stopper cancels the context last, and there is none before Serve.
StopperInOrder ==
  /\ cancelled => stopper = "done"
  /\ main \in {"check", "notify", "sts", "kube", "tls", "build"}
       => stopper = "off"

\* Calls run only while gRPC serves and until GracefulStop has returned.
CallsWhileServing ==
  \A r \in RPCs :
    rpcs[r] = "running" =>
      main = "serving" /\ stopper \in {"spawned", "waiting", "graceful"}

SInv ==
  /\ TypeOK
  /\ SyncedInOrder
  /\ StopperInOrder
  /\ CallsWhileServing
  /\ NoCallCutOff

\* Nothing runs when the process starts.
LEMMA InitSInv == Init => SInv
<1> SUFFICES ASSUME Init PROVE SInv
  OBVIOUS
<1>1. managers \in 0..parallelFetchers
  BY ConfigAssumption DEF Init
<1>2. rpcs \in [RPCs -> {"idle", "running", "done", "cut", "lost"}]
  BY DEF Init
<1>3. TypeOK
  BY <1>1, <1>2 DEF Init, TypeOK
<1>4. SyncedInOrder /\ StopperInOrder
  BY DEF Init, SyncedInOrder, StopperInOrder
<1>5. CallsWhileServing /\ NoCallCutOff
  BY DEF Init, CallsWhileServing, NoCallCutOff
<1> QED
  BY <1>3, <1>4, <1>5 DEF SInv

\* The end of the process cuts no calls off if it is killed or if there are
\* none, and some only by a fault.
LEMMA EndSInv ==
  ASSUME SInv, NEW how \in Ended, End(how),
         \/ fault' = fault /\ (how = "killed" \/ \A r \in RPCs : rpcs[r] # "running")
         \/ fault' = TRUE
  PROVE  SInv'
<1> USE DEF SInv
<1>1. /\ main' = how
      /\ UNCHANGED <<config, synced, cancelled, probe, received, stopper, managers>>
  BY DEF End, partVars
<1>2. /\ rpcs' \in [RPCs -> {"idle", "running", "done", "cut", "lost"}]
      /\ \A r \in RPCs : rpcs'[r] # "running"
      /\ ~fault' => \A r \in RPCs : rpcs'[r] # "cut"
  BY DEF End, TypeOK, NoCallCutOff
<1>3. TypeOK'
  BY <1>1, <1>2 DEF TypeOK
<1>4. SyncedInOrder' /\ StopperInOrder'
  BY <1>1 DEF SyncedInOrder, StopperInOrder, Ended
<1> QED
  BY <1>1, <1>2, <1>3, <1>4 DEF CallsWhileServing, NoCallCutOff

\* The main goroutine's steps preserve the invariant.
LEMMA MainSInv ==
  ASSUME SInv, Main
  PROVE  SInv'
<1> USE DEF SInv
<1>1. CASE Check \/ Notify \/ WithAWSSTSGateway \/ WithKubernetesClient \/ WithTLS
  <2>1. /\ main \in {"check", "notify", "sts", "kube", "tls"}
        /\ main' \in {"notify", "sts", "kube", "tls", "build"}
        /\ UNCHANGED <<config, stopper, synced, cancelled, managers, rpcs, probe,
                       received, fault>>
    BY <1>1 DEF Check, Notify, WithAWSSTSGateway, WithKubernetesClient, WithTLS,
                Goto, partVars
  <2>2. TypeOK'
    BY <2>1 DEF TypeOK
  <2>3. SyncedInOrder' /\ StopperInOrder'
    BY <2>1 DEF SyncedInOrder, StopperInOrder
  <2>4. CallsWhileServing' /\ NoCallCutOff'
    BY <2>1 DEF CallsWhileServing, NoCallCutOff
  <2> QED
    BY <2>2, <2>3, <2>4
<1>2. CASE CheckError \/ ResolveError \/ DetectError \/ ConfigureError \/ RunError
  <2>1. \A r \in RPCs : rpcs[r] # "running"
    BY <1>2 DEF CheckError, ResolveError, DetectError, ConfigureError, RunError,
                CallsWhileServing
  <2>2. End("fatal") /\ (fault' = fault \/ fault' = TRUE)
    BY <1>2 DEF CheckError, ResolveError, DetectError, ConfigureError, RunError,
                TypeOK
  <2> QED
    BY <2>1, <2>2, EndSInv DEF Ended
<1>3. CASE Build
  BY <1>3 DEF Build, Goto, partVars, TypeOK, SyncedInOrder,
              StopperInOrder, CallsWhileServing, NoCallCutOff, Ended
<1>4. CASE ManagersRun
  <2>1. /\ main = "managers" /\ main' = "pods" /\ managers' = parallelFetchers
        /\ UNCHANGED <<config, stopper, synced, cancelled, rpcs, probe, received, fault>>
    BY <1>4 DEF ManagersRun, Routines, Goto, partVars
  <2>2. managers' \in 0..parallelFetchers
    BY <2>1, ConfigAssumption
  <2>3. TypeOK'
    BY <2>1, <2>2 DEF TypeOK
  <2>4. SyncedInOrder' /\ StopperInOrder'
    BY <2>1 DEF SyncedInOrder, StopperInOrder, Ended
  <2>5. CallsWhileServing' /\ NoCallCutOff'
    BY <2>1 DEF CallsWhileServing, NoCallCutOff
  <2> QED
    BY <2>3, <2>4, <2>5
<1>5. CASE PodsRun \/ NamespacesRun
  <2>1. /\ \/ main = "pods" /\ main' = "namespaces" /\ "pods" \in synced
           \/ main = "namespaces" /\ main' = "grpc" /\ "namespaces" \in synced
        /\ UNCHANGED <<config, stopper, synced, cancelled, managers, rpcs, probe,
                       received, fault>>
    BY <1>5 DEF PodsRun, NamespacesRun, Goto, partVars
  <2>2. TypeOK'
    BY <2>1 DEF TypeOK
  <2>3. SyncedInOrder' /\ StopperInOrder'
    BY <2>1 DEF SyncedInOrder, StopperInOrder, Ended
  <2>4. CallsWhileServing' /\ NoCallCutOff'
    BY <2>1 DEF CallsWhileServing, NoCallCutOff
  <2> QED
    BY <2>2, <2>3, <2>4
<1>6. CASE Serve
  <2>1. CASE NotStopped /\ Goto("grpc", "serving") /\ UNCHANGED <<stopper, managers>>
    BY <2>1 DEF Goto, partVars, TypeOK, SyncedInOrder, StopperInOrder, CallsWhileServing,
                NoCallCutOff, Ended
  <2>2. CASE main = "grpc" /\ End("exited") /\ UNCHANGED fault
    BY <2>2, EndSInv DEF CallsWhileServing, Ended, TypeOK
  <2> QED
    BY <1>6, <2>1, <2>2 DEF Serve
<1>7. CASE ServeReturns
  BY <1>7, EndSInv DEF ServeReturns, CallsWhileServing, Ended, TypeOK
<1> QED
  BY <1>1, <1>2, <1>3, <1>4, <1>5, <1>6, <1>7 DEF Main

\* So do the stopper's.
LEMMA StopSInv ==
  ASSUME SInv, Stop
  PROVE  SInv'
<1> USE DEF SInv
<1>1. /\ UNCHANGED <<config, main, synced, managers, rpcs, probe, received, fault>>
      /\ stopper' \in {"waiting", "close", "cancel", "done"}
      /\ stopper # "off" /\ stopper # "done"
      /\ cancelled' = cancelled \/ (cancelled' = TRUE /\ stopper' = "done")
  BY DEF Stop, Wait, GracefulStop, Close, Cancel, Stopper
<1>2. ~cancelled
  BY <1>1 DEF StopperInOrder
<1>3. cancelled' \in BOOLEAN /\ (cancelled' => stopper' = "done")
  <2>1. CASE cancelled' = cancelled
    BY <1>2, <2>1 DEF TypeOK
  <2>2. CASE cancelled' = TRUE /\ stopper' = "done"
    BY <2>2
  <2> QED
    BY <1>1, <2>1, <2>2
<1>4. \A r \in RPCs : rpcs[r] = "running" => stopper' = "waiting"
  BY DEF Stop, Wait, GracefulStop, Close, Cancel, Stopper, CallsWhileServing
<1>5. TypeOK'
  BY <1>1, <1>3 DEF TypeOK
<1>6. SyncedInOrder' /\ StopperInOrder'
  BY <1>1, <1>2, <1>3 DEF SyncedInOrder, StopperInOrder, Ended,
                          TypeOK
<1>7. CallsWhileServing' /\ NoCallCutOff'
  BY <1>1, <1>4 DEF CallsWhileServing, NoCallCutOff
<1> QED
  BY <1>5, <1>6, <1>7

\* So does everything else: managers, signals, informers, calls, probes.
LEMMA OtherSInv ==
  ASSUME SInv,
         \/ ManagerEnds \/ AcceptError \/ Signal \/ Kill
         \/ \E c \in {"pods", "namespaces"} : Sync(c)
         \/ \E r \in RPCs : Arrive(r) \/ Finish(r)
         \/ ProbeStart \/ ProbeDial \/ GetHealth \/ ProbeTimeout
  PROVE  SInv'
<1> USE DEF SInv
<1>1. CASE ManagerEnds
  BY <1>1, ConfigAssumption
     DEF ManagerEnds, partVars, TypeOK, SyncedInOrder,
         StopperInOrder, CallsWhileServing, NoCallCutOff,
         Ended
<1>2. CASE End("killed") /\ UNCHANGED fault
  BY <1>2, EndSInv DEF Ended, TypeOK
<1>2a. CASE AcceptError
  BY <1>2a, EndSInv DEF AcceptError, Ended
<1>3. CASE Signal /\ ~End("killed")
  <2>1. /\ stopper = "waiting" /\ stopper' = "graceful" /\ received' = TRUE
        /\ UNCHANGED <<config, main, synced, cancelled, managers, rpcs, probe, fault>>
    BY <1>3 DEF Signal
  <2> QED
    BY <2>1 DEF TypeOK, SyncedInOrder, StopperInOrder,
                CallsWhileServing, NoCallCutOff, Ended
<1>4. CASE \E c \in {"pods", "namespaces"} : Sync(c)
  BY <1>4 DEF Sync, TypeOK, SyncedInOrder, StopperInOrder,
              CallsWhileServing, NoCallCutOff, Ended
<1>5. CASE \E r \in RPCs : Arrive(r) \/ Finish(r)
  <2>1. PICK r \in RPCs : Arrive(r) \/ Finish(r)
    BY <1>5
  <2>2. UNCHANGED <<config, main, stopper, synced, cancelled, managers, probe,
                    received, fault>>
    BY <2>1 DEF Arrive, Finish, partVars
  <2>3. TypeOK' /\ CallsWhileServing' /\ NoCallCutOff'
    BY <2>1, <2>2 DEF Arrive, Finish, Serving, NotStopped, TypeOK,
                      CallsWhileServing, NoCallCutOff
  <2> QED
    BY <2>2, <2>3 DEF SyncedInOrder, StopperInOrder, Ended
<1>6. CASE ProbeStart \/ ProbeDial \/ GetHealth \/ ProbeTimeout
  <2>1. /\ UNCHANGED <<config, main, stopper, synced, cancelled, managers, rpcs,
                       received, fault>>
        /\ probe' \in {"idle", "dial", "check", "healthy", "unhealthy"}
        /\ probe' = "healthy" => main = "serving"
    BY <1>6 DEF ProbeStart, ProbeDial, GetHealth, ProbeTimeout, Probe, Reachable,
                Serving
  <2>2. main = "serving" => synced = {"pods", "namespaces"}
    BY DEF SyncedInOrder, TypeOK
  <2> QED
    BY <2>1, <2>2
       DEF TypeOK, SyncedInOrder, StopperInOrder,
           CallsWhileServing, NoCallCutOff, Ended
<1> QED
  BY <1>1, <1>2, <1>2a, <1>3, <1>4, <1>5, <1>6 DEF Signal, Kill

\* Every step preserves the invariant.
LEMMA NextSInv == SInv /\ [Next]_vars => SInv'
<1> SUFFICES ASSUME SInv, [Next]_vars PROVE SInv'
  OBVIOUS
<1>1. CASE UNCHANGED vars
  BY <1>1 DEF vars, SInv, TypeOK, SyncedInOrder,
              StopperInOrder, CallsWhileServing, NoCallCutOff, Ended
<1>2. CASE Next
  BY <1>1, <1>2, MainSInv, StopSInv, OtherSInv DEF Next, Terminated
<1> QED
  BY <1>1, <1>2

\* The invariant holds throughout.
LEMMA InductiveSInv == Spec => []SInv
BY InitSInv, NextSInv, PTL DEF Spec

---------------------------------------------------------------------------
(* The theorems                                                            *)

\* There are never more managers than fetchers, and the state is well-typed.
THEOREM TypeCorrect == Spec => []TypeOK
BY InductiveSInv, PTL DEF SInv

\* A graceful stop, at whatever moment the signal comes, lets every call that
\* was accepted finish before the process ends.
THEOREM NoCallCutOffCorrect == Spec => []NoCallCutOff
BY InductiveSInv, PTL DEF SInv

\* Calls are served from caches that have synced and whose context has not
\* been cancelled.
THEOREM ServedFromLiveCachesCorrect == Spec => []ServedFromLiveCaches
<1>1. SInv => ServedFromLiveCaches
  BY DEF SInv, ServedFromLiveCaches, CallsWhileServing, StopperInOrder,
         SyncedInOrder, TypeOK
<1> QED
  BY <1>1, InductiveSInv, PTL
=============================================================================
