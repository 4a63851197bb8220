--------------------------- MODULE AgentProcess ---------------------------
(***************************************************************************)
(* The agent's process (cmd/kiam/agent.go), the DNAT rule it keeps in the  *)
(* kernel (cmd/kiam/iptables.go) and its HTTP server, composed with the    *)
(* handlers of module Agent: start, failures on the way, signals, graceful *)
(* shutdown, the deferred removal of the rule, kill and restart.           *)
(***************************************************************************)
EXTENDS Agent

CONSTANT Options  \* the flags iptables and iptables-remove that are tried

ASSUME OptionsAssumption ==
  Options \subseteq [iptables : BOOLEAN, iptablesRemove : BOOLEAN]

VARIABLES
  opts,      \* the flags
  main,      \* control point of run()
  http,      \* the HTTP server: "off", "starting", "listening", "failed"
  rule,      \* how many times the rule is in the kernel; outlives the process
  signal,    \* a signal waits in stopChan
  stopping,  \* time since Shutdown was called
  newFailed, \* history: iptables could not be set up in this life
  failures,  \* history: failed attempts to delete the rule in this life
  late       \* history: requests that arrived after Shutdown was called

faultVars == <<newFailed, failures, late>>
processVars == <<opts, main, http, rule, signal, stopping, newFailed,
                 failures, late>>
vars == <<agentVars, processVars>>

Ended == {"exited", "panicked", "killed"}
Alive == main \notin Ended \cup {"off"}

\* The rule is never in the kernel twice.
TypeOK ==
  /\ AgentTypeOK
  /\ opts \in Options
  /\ main \in {"off", "add", "notify", "build", "select", "stop", "deferred",
               "remove"} \cup Ended
  /\ http \in {"off", "starting", "listening", "failed"}
  /\ rule \in {0, 1}
  /\ signal \in BOOLEAN
  /\ stopping \in Ticks
  /\ newFailed \in BOOLEAN
  /\ failures \in Nat
  /\ late \in SUBSET Requests

Init ==
  /\ AgentInit
  /\ opts \in Options
  /\ main = "off"
  /\ http = "off"
  /\ rule = 0
  /\ signal = FALSE
  /\ stopping = 0
  /\ newFailed = FALSE
  /\ failures = 0
  /\ late = {}

---------------------------------------------------------------------------
(* Start                                                                   *)

\* A new process, with requests of its own.
Start ==
  /\ ~Alive
  /\ AgentStart
  /\ main' = IF opts.iptables THEN "add" ELSE "notify"
  /\ signal' = FALSE
  /\ stopping' = 0
  /\ newFailed' = FALSE
  /\ failures' = 0
  /\ late' = {}
  /\ UNCHANGED <<opts, http, rule>>

\* Mutant: the rule is appended whether or not it is there.
MutAppendUnique == rule + 1

AppendUnique == 1

\* rules.Add
Add ==
  /\ main = "add"
  /\ rule' = AppendUnique
  /\ main' = "notify"
  /\ UNCHANGED <<agentVars, opts, http, signal, stopping, faultVars>>

\* The removal has not been deferred yet.
AddError ==
  /\ main = "add"
  /\ newFailed' = TRUE
  /\ main' = "exited"
  /\ UNCHANGED <<agentVars, opts, http, rule, signal, stopping, failures,
                 late>>

\* signal.Notify
Notify ==
  /\ main = "notify"
  /\ main' = "build"
  /\ UNCHANGED <<agentVars, opts, http, rule, signal, stopping, faultVars>>

\* The gateway is built, which waits for a connection to the server until a
\* time-out, and so is the web server; Serve is started.
Build ==
  /\ main = "build"
  /\ main' = "select"
  /\ http' = "starting"
  /\ UNCHANGED <<agentVars, opts, rule, signal, stopping, faultVars>>

\* Mutant: the process ends without running what was deferred.
MutReturn == main' = "exited"

\* run returns; what it has deferred is still to come.
Return == main' = "deferred"

BuildError ==
  /\ main = "build"
  /\ Return
  /\ UNCHANGED <<agentVars, opts, http, rule, signal, stopping, faultVars>>

\* Server.Serve, in a goroutine: listens, or reports an error to errCh.
Serve ==
  /\ http = "starting"
  /\ http' \in {"listening", "failed"}
  /\ UNCHANGED <<agentVars, opts, main, rule, signal, stopping, faultVars>>

---------------------------------------------------------------------------
(* Stop                                                                    *)

\* Before signal.Notify the signal's default action ends the process.
Signal ==
  /\ Alive
  /\ ~signal
  /\ signal' = TRUE
  /\ main' = IF main \in {"add", "notify"} THEN "killed" ELSE main
  /\ UNCHANGED <<agentVars, opts, http, rule, stopping, faultVars>>

ServeError ==
  /\ main = "select"
  /\ http = "failed"
  /\ Return
  /\ UNCHANGED <<agentVars, opts, http, rule, signal, stopping, faultVars>>

\* Mutant: the rule is removed before the server is shut down.
MutStop ==
  /\ main = "select"
  /\ signal
  /\ main' = "stop"
  /\ http' = "off"
  /\ rule' = 0
  /\ UNCHANGED <<agentVars, opts, signal, stopping, faultVars>>

\* The select receives the signal; Shutdown closes the listener and waits for
\* the connections that are not idle.
Stop ==
  /\ main = "select"
  /\ signal
  /\ main' = "stop"
  /\ http' = "off"
  /\ UNCHANGED <<agentVars, opts, rule, signal, stopping, faultVars>>

Open(r) == pc[r] \in Working \cup {"connected"}

Drained ==
  /\ main = "stop"
  /\ \A r \in Requests : ~Open(r)
  /\ Return
  /\ UNCHANGED <<agentVars, opts, http, rule, signal, stopping, faultVars>>

\* Mutants: Shutdown waits too short, or without a time-out.
MutStopTimeout == FiveSeconds - 1
MutStopError   == FALSE /\ UNCHANGED vars

stopTimeout == FiveSeconds

StopExpired == stopping >= stopTimeout

StopError ==
  /\ main = "stop"
  /\ StopExpired
  /\ Return
  /\ UNCHANGED <<agentVars, opts, http, rule, signal, stopping, faultVars>>

\* The process is gone, and with it every request it was serving.
End(how) ==
  /\ main' = how
  /\ http' = "off"
  /\ pc' = [r \in Requests |-> IF ~Open(r) THEN pc[r]
                               ELSE IF how = "killed" THEN "lost" ELSE "cut"]
  /\ UNCHANGED <<server, kind, elapsed, wait, gone, cause, good>>

\* gateway.Close comes first, rules.Remove last.
Deferred ==
  /\ main = "deferred"
  /\ IF opts.iptables /\ opts.iptablesRemove
       THEN main' = "remove" /\ UNCHANGED <<agentVars, http>>
       ELSE End("exited")
  /\ UNCHANGED <<opts, rule, signal, stopping, faultVars>>

\* rules.Remove: iptables.New fails and run ignores it; ...
RemoveError ==
  /\ main = "remove"
  /\ newFailed' = TRUE
  /\ End("exited")
  /\ UNCHANGED <<opts, rule, signal, stopping, failures, late>>

\* ... or the rule is deleted; ...
Remove ==
  /\ main = "remove"
  /\ rule' = 0
  /\ End("exited")
  /\ UNCHANGED <<opts, signal, stopping, faultVars>>

\* ... or Delete fails, and the message about the retry dereferences the err
\* of iptables.New, which is nil: the deferred function panics.
DeleteError ==
  /\ main = "remove"
  /\ failures' = failures + 1
  /\ End("panicked")
  /\ UNCHANGED <<opts, rule, signal, stopping, newFailed, late>>

\* SIGKILL, or the node loses the process.
Kill ==
  /\ Alive
  /\ End("killed")
  /\ UNCHANGED <<opts, rule, signal, stopping, faultVars>>

---------------------------------------------------------------------------
(* The handlers in the process                                             *)

Accept(r) ==
  /\ http = "listening"
  /\ Connect(r)
  /\ UNCHANGED processVars

\* A connection that was accepted before Shutdown may still bring a request.
Request(r) ==
  /\ Alive
  /\ \/ \E k \in Kinds : ServeHTTP(r, k)
     \/ Immediate(r) \/ getClientIPError(r) \/ Blocked(r)
  /\ late' = IF main = "select" THEN late ELSE late \cup {r}
  /\ UNCHANGED <<opts, main, http, rule, signal, stopping, newFailed,
                 failures>>

\* A handler's own steps, and those of the connection to the server, the
\* metadata API and the client.
Handle(r) ==
  /\ Alive
  /\ \/ HandlerStep(r)
     \/ Hang(r) \/ Unhang(r)
     \/ CheckMetadata(r) \/ Proxied(r)
     \/ Disconnect(r) \/ ClientGone(r)
  /\ UNCHANGED processVars

HandleDue(r) ==
  /\ Alive
  /\ HandlerDue(r)
  /\ HandlerStep(r)
  /\ UNCHANGED processVars

Environment ==
  /\ \E s \in ServerStates : ServerChanges(s)
  /\ UNCHANGED processVars

Tick ==
  /\ ~(main = "stop" /\ StopExpired)
  /\ HandlerTick
  /\ stopping' = IF main = "stop" THEN stopping + 1 ELSE stopping
  /\ UNCHANGED <<opts, main, http, rule, signal, faultVars>>

Main ==
  \/ Add \/ AddError \/ Notify \/ Build \/ BuildError
  \/ ServeError \/ Stop \/ Drained \/ StopError
  \/ Deferred \/ RemoveError \/ Remove \/ DeleteError

Next ==
  \/ Start \/ Main \/ Serve \/ Signal \/ Kill
  \/ \E r \in Requests :
       Accept(r) \/ Request(r) \/ Handle(r)
  \/ Environment
  \/ Tick

Spec == Init /\ [][Next]_vars

\* Goroutines are scheduled, dialling has a time-out, time goes on, and a
\* server that is able to answer does, unless the call hangs already; neither
\* the metadata API nor clients need ever do anything.
FairSpec ==
  /\ Spec
  /\ WF_vars(Main) /\ WF_vars(Serve)
  /\ \A r \in Requests : WF_vars(HandleDue(r))
  /\ SF_vars(Tick)

---------------------------------------------------------------------------
(* Properties                                                              *)

\* "Remove iptables rules at shutdown" (flag iptables-remove): a process that
\* ended by itself, whatever failed on its way, leaves no rule behind, not
\* even one of a killed predecessor, unless iptables did not work.
RuleRemoved ==
  main = "exited" /\ opts.iptables /\ opts.iptablesRemove /\ ~newFailed
    => rule = 0

\* Requests reach the agent only while the rule is there: it is added before
\* the agent listens, and stays while Shutdown waits for requests to end.  Of
\* those still open when Shutdown has timed out it says nothing.
RuleWhileServing ==
  opts.iptables /\ (http = "listening" \/ main = "stop") => rule = 1

\* A graceful shutdown does not cut a request off that could still have been
\* answered: its own deadline comes first.  A proxied request has none, and
\* one that arrives during the shutdown has a later one.
DrainedBeforeExit ==
  \A r \in Requests :
    /\ pc[r] = "cut"
    /\ kind[r] \notin {"proxy", "other"}
    => r \in late \/ Done(r)

\* Every request but a proxied one is answered or goes down with the process.
RequestsAnswered ==
  \A r \in Requests :
    pc[r] \in Working /\ kind[r] # "proxy" ~> pc[r] \in Answered

\* A signal ends the process, in spite of requests that take forever.
SignalEnds == signal ~> main \in Ended

\* "Retries for removing the iptables rule" (CHANGELOG, 3.6): fewer than
\* maxAttempts failures to delete it do not leave the rule behind.
maxAttempts == 30
RemovalRetried ==
  main \in {"exited", "panicked"} /\ failures > 0 /\ failures < maxAttempts
    => rule = 0
=============================================================================
