------------------------- MODULE DynamicTLSProofs -------------------------
(***************************************************************************)
(* Proofs about DynamicTLS, for any set of generations and any bound on    *)
(* the events.                                                             *)
(***************************************************************************)
EXTENDS DynamicTLS, TLAPS

---------------------------------------------------------------------------
(* The inductive invariant                                                 *)

\* read holds contents of the files before the one it is about to read.
ReadSoFar ==
  /\ pc \in {"key", "ca", "sum"} => got["cert"] \in Contents
  /\ pc \in {"ca", "sum"} => got["key"] \in Contents
  /\ pc = "sum" => got["ca"] \in Contents

\* Without an event under way they are the contents on disk.
ReadIsCurrent ==
  ~closed /\ events = 0 =>
    /\ pc \in {"key", "ca", "sum"} => got["cert"] = disk["cert"]
    /\ pc \in {"ca", "sum"} => got["key"] = disk["key"]
    /\ pc = "sum" => got["ca"] = disk["ca"]

\* What was hashed last is in use, or the gauge reports the error.
HashIsServed ==
  /\ started /\ ~updateError => hash = latest
  /\ ~started => pc \in Files \cup {"sum", "failed"}
  /\ ~started /\ pc # "failed" => hash = None

TLSInv ==
  /\ TypeOK
  /\ ReadSoFar
  /\ ReadIsCurrent
  /\ HashIsServed
  /\ NoSilentStale

\* The invariant holds when newDynamicTLSConfig starts.
LEMMA InitTLSInv == Init => TLSInv
<1> SUFFICES ASSUME Init PROVE TLSInv
  OBVIOUS
<1>1. TypeOK
  BY DEF Init, Nothing, TypeOK, Files
<1>2. ReadSoFar /\ ReadIsCurrent /\ HashIsServed
  BY DEF Init, ReadSoFar, ReadIsCurrent, HashIsServed, Files
<1>3. NoSilentStale
  BY DEF Init, NoSilentStale
<1> QED
  BY <1>1, <1>2, <1>3 DEF TLSInv

\* Contents read to the end are a function over the files: they equal the
\* files on disk if they agree with them one by one.
LEMMA GotComplete ==
  ASSUME TypeOK, ReadSoFar, pc = "sum"
  PROVE  /\ got \in [Files -> Contents]
         /\ /\ got["cert"] = disk["cert"]
            /\ got["key"] = disk["key"]
            /\ got["ca"] = disk["ca"]
            => got = disk
BY DEF TypeOK, ReadSoFar, Files

\* Changes of the files preserve the invariant: each raises an event while
\* the watcher is open.
LEMMA DiskStepTLSInv ==
  ASSUME TLSInv,
         \/ \E f \in Files, c \in Contents \cup {Missing} : WriteFile(f, c)
         \/ \E g \in Generations : Flip(g)
         \/ UnrelatedEvent
  PROVE  TLSInv'
<1> USE DEF TLSInv
<1>1. /\ disk' \in [Files -> Contents \cup {Missing}]
      /\ UNCHANGED readerVars
      /\ events' \in Nat
      /\ ~closed => events' # 0
  BY DEF TypeOK, WriteFile, Flip, UnrelatedEvent, RaiseEvent, Watching, Contents,
         readerVars
<1>2. TypeOK'
  BY <1>1 DEF TypeOK, readerVars
<1>3. ReadSoFar' /\ ReadIsCurrent' /\ HashIsServed'
  BY <1>1 DEF ReadSoFar, ReadIsCurrent, HashIsServed, readerVars
<1>4. NoSilentStale'
  BY <1>1 DEF NoSilentStale, readerVars
<1> QED
  BY <1>2, <1>3, <1>4

\* Steps of the reading goroutine preserve the invariant.
LEMMA WatchStepTLSInv ==
  ASSUME TLSInv, WatchStep
  PROVE  TLSInv'
<1> USE DEF TLSInv
<1>1. CASE ReadFile
  <2>1. TypeOK'
    BY <1>1 DEF ReadFile, TypeOK, After, Files
  <2>2. ReadSoFar' /\ ReadIsCurrent'
    BY <1>1, TLSAssumption
       DEF ReadFile, TypeOK, ReadSoFar, ReadIsCurrent, After, Files, Contents
  <2>3. HashIsServed' /\ NoSilentStale'
    BY <1>1 DEF ReadFile, HashIsServed, NoSilentStale, After,
                Files
  <2> QED
    BY <2>1, <2>2, <2>3
<1>2. CASE ReadFileError
  BY <1>2 DEF ReadFileError, ReadFails, notifyFn, Nothing, TypeOK, ReadSoFar,
              ReadIsCurrent, HashIsServed, NoSilentStale,
              Files
<1>3. CASE Unchanged
  <2>1. got \in [Files -> Contents] /\ hash # None
    BY <1>3, GotComplete, TLSAssumption DEF Unchanged, Sum
  <2>2. started
    BY <1>3, <2>1 DEF Unchanged, HashIsServed
  <2>3. NoSilentStale'
    BY <1>3, <2>2, GotComplete
       DEF Unchanged, Sum, NoSilentStale, ReadIsCurrent, HashIsServed
  <2> QED
    BY <1>3, <2>2, <2>3
       DEF Unchanged, Nothing, TypeOK, ReadSoFar, ReadIsCurrent, HashIsServed, Files
<1>4. CASE ParseError
  BY <1>4, GotComplete
     DEF ParseError, Sum, ReadFails, notifyFn, Nothing, TypeOK, ReadSoFar, ReadIsCurrent,
         HashIsServed, NoSilentStale, Files
<1>5. CASE Store
  <2>1. got \in [Files -> Generations]
    BY <1>5, GotComplete DEF Store, Parses, KeyPair, Files
  <2>2. NoSilentStale'
    BY <1>5, GotComplete DEF Store, notifyFn, NoSilentStale, ReadIsCurrent
  <2>3. TypeOK'
    BY <1>5, <2>1, GotComplete DEF Store, Sum, notifyFn, Nothing, TypeOK
  <2> QED
    BY <1>5, <2>1, <2>2, <2>3
       DEF Store, Sum, notifyFn, Nothing, ReadSoFar, ReadIsCurrent, HashIsServed, Files
<1>6. CASE Receive
  BY <1>6 DEF Receive, TypeOK, ReadSoFar, ReadIsCurrent, HashIsServed,
              NoSilentStale, Files
<1>7. CASE End
  BY <1>7 DEF End, TypeOK, ReadSoFar, ReadIsCurrent, HashIsServed,
              NoSilentStale, Files
<1> QED
  BY <1>1, <1>2, <1>3, <1>4, <1>5, <1>6, <1>7 DEF WatchStep

\* Every step preserves the invariant.
LEMMA NextTLSInv == TLSInv /\ [Next]_vars => TLSInv'
<1> SUFFICES ASSUME TLSInv, [Next]_vars PROVE TLSInv'
  OBVIOUS
<1>1. CASE \/ \E f \in Files, c \in Contents \cup {Missing} : WriteFile(f, c)
           \/ \E g \in Generations : Flip(g)
           \/ UnrelatedEvent
  BY <1>1, DiskStepTLSInv
<1>2. CASE WatchStep
  BY <1>2, WatchStepTLSInv
<1>3. CASE Close
  BY <1>3 DEF Close, TLSInv, TypeOK, ReadSoFar, ReadIsCurrent, HashIsServed,
              NoSilentStale
<1>4. CASE UNCHANGED vars
  BY <1>4 DEF vars, TLSInv, TypeOK, ReadSoFar, ReadIsCurrent, HashIsServed,
              NoSilentStale
<1> QED
  BY <1>1, <1>2, <1>3, <1>4 DEF Next, Terminated

\* The invariant holds throughout.
LEMMA InductiveTLSInv == Spec => []TLSInv
BY InitTLSInv, NextTLSInv, PTL DEF Spec

---------------------------------------------------------------------------
(* The theorems                                                            *)

\* What is in use has always been parsed: certificates, key and CAs of some
\* generation, never a torn or missing file.
THEOREM TypeCorrect == Spec => []TypeOK
BY InductiveTLSInv, PTL DEF TLSInv

\* A change of the certificate files is never missed silently: when the
\* reload goroutine has nothing left to do and the error gauge is 0, the
\* certificates in use are those on disk.
THEOREM NoSilentStaleCorrect == Spec => []NoSilentStale
BY InductiveTLSInv, PTL DEF TLSInv
=============================================================================
