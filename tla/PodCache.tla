----------------------------- MODULE PodCache -----------------------------
(***************************************************************************)
(* The server's view of the pods, pkg/k8s/pod_cache.go: an informer's      *)
(* indexer, fed by the watch on the API server, and the channel on which   *)
(* added pods are announced to the credential manager.                     *)
(*                                                                         *)
(* A pod object is a snapshot: an update replaces it, so whoever received  *)
(* it from the channel or found it in the indexer keeps the old one.       *)
(***************************************************************************)
EXTENDS Integers, Sequences, FiniteSets

CONSTANTS
  Pods,                \* names of pods
  Objects,             \* pod objects: records [phase, identity]
  PrefetchBufferSize,  \* capacity of the channel of announced pods
  Replacements,        \* may an update change a pod's role, or revive it?
  None                 \* no object; no role annotation

ASSUME PodCacheAssumption ==
  /\ PrefetchBufferSize \in Nat
  /\ Replacements \in BOOLEAN
  /\ None \notin Objects

VARIABLES
  pods,      \* the indexer: the object of each pod, or None
  announced  \* the channel PodCache.pods

podVars == <<pods, announced>>

PodTypeOK ==
  /\ pods \in [Pods -> Objects \cup {None}]
  /\ announced \in Seq(Objects) /\ Len(announced) <= PrefetchBufferSize

PodInit ==
  /\ pods = [p \in Pods |-> None]
  /\ announced = <<>>

---------------------------------------------------------------------------
(* Queries                                                                 *)

IsPodCompleted(o) == o.phase \in {"Succeeded", "Failed"}

\* PodRole(pod) # "": the object has an entry in the role identity index.
HasRole(o) == o.identity # None

IsActivePodsForRole(i) ==
  \E p \in Pods :
    pods[p] # None /\ pods[p].identity = i /\ ~IsPodCompleted(pods[p])

---------------------------------------------------------------------------
(* Informer events                                                         *)

\* Mutant: one pod too many.
MutFull == Len(announced) > PrefetchBufferSize

Full == Len(announced) >= PrefetchBufferSize

\* announce drops the pod when the channel is full.
announce(o) ==
  announced' = IF IsPodCompleted(o) \/ ~HasRole(o) \/ Full
                 THEN announced
                 ELSE Append(announced, o)

OnAdd(p, o) ==
  /\ pods[p] = None
  /\ pods' = [pods EXCEPT ![p] = o]
  /\ announce(o)

\* A pod keeps its role and never leaves a completed phase.  A changed
\* annotation, or a relist that finds another pod of the same name, shows up
\* as an update to any other object.
MayBecome(old, new) ==
  \/ Replacements
  \/ /\ new.identity = old.identity
     /\ IsPodCompleted(old) => IsPodCompleted(new)

\* OnUpdate logs and does not announce.
OnUpdate(p, o) ==
  /\ pods[p] # None
  /\ o # pods[p]
  /\ MayBecome(pods[p], o)
  /\ pods' = [pods EXCEPT ![p] = o]
  /\ UNCHANGED announced

OnDelete(p) ==
  /\ pods[p] # None
  /\ pods' = [pods EXCEPT ![p] = None]
  /\ UNCHANGED announced
=============================================================================
