---------------------------- MODULE DynamicTLS ----------------------------
(***************************************************************************)
(* Reloading of TLS certificates, dynamicTLSConfig of pkg/server/tls.go:   *)
(* a goroutine re-reads three files, one after the other, whenever         *)
(* fsnotify reports an event in their directories, while somebody (the     *)
(* kubelet, an operator) replaces them all at once or one by one.          *)
(*                                                                         *)
(* A file's content is the generation of the key pair it belongs to.  The  *)
(* hash that removes duplicates is modelled as what it is computed from:   *)
(* no collisions.                                                          *)
(***************************************************************************)
EXTENDS Naturals

CONSTANTS
  Generations,  \* generations of the certificates
  Torn,         \* content that does not parse, such as a half-written file
  Missing,      \* no such file
  None,         \* nothing read, hashed or loaded yet
  MaxEvents     \* bound: events that fsnotify has still to deliver

Files    == {"cert", "key", "ca"}
Contents == Generations \cup {Torn}

ASSUME TLSAssumption ==
  /\ Torn \notin Generations
  /\ Missing \notin Contents
  /\ None \notin [Files -> Contents]
  /\ MaxEvents \in Nat

VARIABLES
  disk,         \* content of each file
  events,       \* number of fsnotify events not yet received
  pc,           \* the reader: the file it reads next, or what it does
  got,          \* the contents that read() has read so far
  hash,         \* dynamicTLSConfig.hash
  latest,       \* dynamicTLSConfig.latest
  updateError,  \* the gauge tls_certificate_update_error is 1
  started,      \* newDynamicTLSConfig has returned the configuration
  closed        \* the watcher is closed

vars == <<disk, events, pc, got, hash, latest, updateError, started, closed>>

readerVars == <<pc, got, hash, latest, updateError, started, closed>>

TypeOK ==
  /\ disk \in [Files -> Contents \cup {Missing}]
  /\ events \in Nat
  /\ pc \in Files \cup {"sum", "select", "failed", "ended"}
  /\ got \in [Files -> Contents \cup {Missing}]
  /\ hash \in [Files -> Contents] \cup {None}
  /\ latest \in [Files -> Generations] \cup {None}
  /\ updateError \in BOOLEAN
  /\ started \in BOOLEAN
  /\ closed \in BOOLEAN

Nothing == [f \in Files |-> Missing]

\* newDynamicTLSConfig watches the directories before it reads the files.
Init ==
  /\ disk \in [Files -> Contents \cup {Missing}]
  /\ events = 0
  /\ pc = "cert"
  /\ got = Nothing
  /\ hash = None
  /\ latest = None
  /\ updateError = FALSE
  /\ started = FALSE
  /\ closed = FALSE

---------------------------------------------------------------------------
(* The files and fsnotify (external)                                       *)

\* Mutant: the directories are watched only after the first read.
MutWatching == ~closed /\ started

Watching == ~closed

RaiseEvent ==
  /\ events < MaxEvents
  /\ events' = IF Watching THEN events + 1 ELSE events

\* One file is created, rewritten, truncated or removed.
WriteFile(f, c) ==
  /\ c # disk[f]
  /\ disk' = [disk EXCEPT ![f] = c]
  /\ RaiseEvent
  /\ UNCHANGED readerVars

\* The kubelet flips the symlink through which all three are reached.
Flip(g) ==
  /\ disk' = [f \in Files |-> g]
  /\ disk' # disk
  /\ RaiseEvent
  /\ UNCHANGED readerVars

\* An event for another file, or one more event for the same change.
UnrelatedEvent ==
  /\ RaiseEvent
  /\ UNCHANGED <<disk, readerVars>>

---------------------------------------------------------------------------
(* read                                                                    *)

After(f) == CASE f = "cert" -> "key" [] f = "key" -> "ca" [] f = "ca" -> "sum"

\* The function that tlsMetrics passes as notifyFn sets the gauge.
notifyFn(failed) == updateError' = failed

\* read returns to the constructor, which gives up and closes the watcher on
\* an error, or to watch, which reports the error to notifyFn.
ReadFails ==
  /\ got' = Nothing
  /\ IF started
       THEN /\ pc' = "select"
            /\ notifyFn(TRUE)
            /\ UNCHANGED closed
       ELSE /\ pc' = "failed"
            /\ closed' = TRUE
            /\ UNCHANGED updateError

ReadFile ==
  /\ pc \in Files
  /\ disk[pc] # Missing
  /\ got' = [got EXCEPT ![pc] = disk[pc]]
  /\ pc' = After(pc)
  /\ UNCHANGED <<disk, events, hash, latest, updateError, started, closed>>

ReadFileError ==
  /\ pc \in Files
  /\ disk[pc] = Missing
  /\ ReadFails
  /\ UNCHANGED <<disk, events, hash, latest, started>>

\* Mutant: only the certificate is hashed.
MutSum == [f \in Files |-> got["cert"]]

Sum == got

\* Mutant: the CA file is not looked at.
MutParses(d) == d["cert"] \in Generations /\ d["key"] = d["cert"]

\* tls.X509KeyPair
KeyPair(d) == d["cert"] \in Generations /\ d["key"] = d["cert"]

Parses(d) == KeyPair(d) /\ d["ca"] \in Generations

\* The contents have not changed since they were last hashed: not even
\* notifyFn is called.
Unchanged ==
  /\ pc = "sum"
  /\ hash = Sum
  /\ pc' = "select"
  /\ got' = Nothing
  /\ UNCHANGED <<disk, events, hash, latest, updateError, started, closed>>

ParseError ==
  /\ pc = "sum"
  /\ hash # Sum
  /\ hash' = Sum
  /\ ~Parses(got)
  /\ ReadFails
  /\ UNCHANGED <<disk, events, latest, started>>

Store ==
  /\ pc = "sum"
  /\ hash # Sum
  /\ hash' = Sum
  /\ Parses(got)
  /\ latest' = got
  /\ notifyFn(FALSE)
  /\ started' = TRUE
  /\ pc' = "select"
  /\ got' = Nothing
  /\ UNCHANGED <<disk, events, closed>>

---------------------------------------------------------------------------
(* watch and Close                                                         *)

\* After Close an event may still be delivered.
Receive ==
  /\ pc = "select"
  /\ events > 0
  /\ events' = events - 1
  /\ pc' = "cert"
  /\ UNCHANGED <<disk, got, hash, latest, updateError, started, closed>>

\* Mutant: the receive from a closed channel is taken for an event.
MutEnd ==
  /\ pc = "select"
  /\ closed
  /\ pc' = "cert"
  /\ UNCHANGED <<disk, events, got, hash, latest, updateError, started, closed>>

End ==
  /\ pc = "select"
  /\ closed
  /\ pc' = "ended"
  /\ UNCHANGED <<disk, events, got, hash, latest, updateError, started, closed>>

Close ==
  /\ started
  /\ ~closed
  /\ closed' = TRUE
  /\ UNCHANGED <<disk, events, pc, got, hash, latest, updateError, started>>

\* The constructor failed or the goroutine has ended.
Terminated ==
  /\ pc \in {"failed", "ended"}
  /\ UNCHANGED vars

WatchStep ==
  \/ ReadFile \/ ReadFileError
  \/ Unchanged \/ ParseError \/ Store
  \/ Receive \/ End

Next ==
  \/ \E f \in Files, c \in Contents \cup {Missing} : WriteFile(f, c)
  \/ \E g \in Generations : Flip(g)
  \/ UnrelatedEvent
  \/ WatchStep
  \/ Close
  \/ Terminated

Spec == Init /\ [][Next]_vars

\* The goroutine is scheduled.  Nobody need ever close the configuration.
FairSpec == Spec /\ WF_vars(WatchStep)

---------------------------------------------------------------------------
(* Properties                                                              *)

\* When the reader has nothing left to do and the gauge reports no error, the
\* certificates in use are the ones on disk: no change is missed silently,
\* neither one that races with a read nor one before the first event.
NoSilentStale ==
  /\ pc = "select"
  /\ events = 0
  /\ ~closed
  /\ ~updateError
  => latest = disk

\* Files that do not parse, or that were read while they changed, "will
\* immediately be reloaded again and will match" (tls_test.go): once the
\* files stay as they are and parse, they end up in use.
Converges ==
  \A d \in {d \in [Files -> Generations] : Parses(d)} :
    <>[](disk = d) => <>[](latest = d \/ pc = "failed" \/ closed)

\* Close, which waits for the goroutine, returns.
CloseReturns == started /\ closed ~> pc = "ended"
=============================================================================
