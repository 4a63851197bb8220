------------------------ MODULE AgentProcessProofs ------------------------
(***************************************************************************)
(* Proofs about the agent, for any number of requests, any flags and any   *)
(* resolution of time: first the handlers, request by request, then the    *)
(* process around them.                                                    *)
(***************************************************************************)
EXTENDS AgentProcess, TLAPS

---------------------------------------------------------------------------
(* The inductive invariant of a request                                    *)

\* Which kinds of request are where; the clock starts with ServeHTTP.
KindInOrder(r) ==
  /\ pc[r] \in {"idle", "connected"} => kind[r] = "other" /\ elapsed[r] = 0
  /\ pc[r] \in {"call", "hung", "backoff"} => AsksServer(kind[r])
  /\ pc[r] = "meta" => kind[r] \in {"deep", "health", "proxy"}

\* good tells whether the server is able to answer now, or was when the deep
\* health check asked it; a call that hangs does not know.
GoodMeansAble(r) ==
  /\ pc[r] \in {"call", "backoff"} =>
       (good[r] # Never <=> Able(kind[r], server))
  /\ pc[r] = "hung" => good[r] = Never
  /\ pc[r] = "meta" /\ kind[r] = "deep" => good[r] # Never

\* A pause ends before the deadline, so that only a server that has become
\* able at the deadline itself finds a call out of time.
AttemptInTime(r) ==
  /\ pc[r] = "backoff" => elapsed[r] + wait[r] < FiveSeconds
  /\ pc[r] = "call" /\ elapsed[r] >= FiveSeconds => good[r] >= FiveSeconds

\* The properties of the handlers, of one request.
ResultJustified(r) ==
  /\ pc[r] = "200" /\ AsksServer(kind[r]) => good[r] # Never
  /\ pc[r] = "500" /\ kind[r] \in {"role", "credentials"} =>
       /\ \/ cause[r] # "none" \/ gone[r]
          \/ NextAttempt(elapsed[r]) >= FiveSeconds
       /\ cause[r] # "none" \/ gone[r] \/ good[r] >= FiveSeconds

RInv(r) ==
  /\ KindInOrder(r)
  /\ GoodMeansAble(r)
  /\ AttemptInTime(r)
  /\ ResultJustified(r)

AInv == AgentTypeOK /\ \A r \in Requests : RInv(r)

\* The next attempt does not come before the last one.
LEMMA NextAttemptBounds ==
  \A e \in Nat : NextAttempt(e) \in Nat /\ e <= NextAttempt(e)
BY DEF NextAttempt

\* A request that a step leaves alone keeps its invariant.
LEMMA Untouched ==
  ASSUME NEW q \in Requests, RInv(q), server' = server,
         pc'[q] = pc[q], kind'[q] = kind[q], elapsed'[q] = elapsed[q],
         wait'[q] = wait[q], gone'[q] = gone[q], cause'[q] = cause[q],
         good'[q] = good[q]
  PROVE  RInv(q)'
BY DEF RInv, KindInOrder, GoodMeansAble, AttemptInTime, ResultJustified, Done

\* Before the first request nothing has happened.
LEMMA InitAInv == AgentInit => AInv
<1> SUFFICES ASSUME AgentInit PROVE AInv
  OBVIOUS
<1>1. AgentTypeOK
  BY AgentAssumption DEF AgentInit, AgentTypeOK, Ticks, Kinds, Causes, Never
<1>2. ASSUME NEW r \in Requests PROVE RInv(r)
  BY DEF AgentInit, RInv, KindInOrder, GoodMeansAble, AttemptInTime,
         ResultJustified, Answered
<1> QED
  BY <1>1, <1>2 DEF AInv

\* A new process starts over.
LEMMA StartAInv ==
  ASSUME AInv, AgentStart
  PROVE  AInv'
<1>1. AgentTypeOK'
  BY AgentAssumption
     DEF AInv, AgentStart, AgentTypeOK, Ticks, Kinds, Causes, Never
<1>2. ASSUME NEW r \in Requests PROVE RInv(r)'
  BY DEF AgentStart, RInv, KindInOrder, GoodMeansAble, AttemptInTime,
         ResultJustified, Answered
<1> QED
  BY <1>1, <1>2 DEF AInv

\* The server changes: good is set to the present time, or reset.
LEMMA ServerChangesAInv ==
  ASSUME AInv, NEW s \in ServerStates, ServerChanges(s)
  PROVE  AInv'
<1> USE DEF AInv
<1>1. /\ server' = s
      /\ UNCHANGED <<pc, kind, elapsed, wait, gone, cause>>
      /\ \A r \in Requests : good'[r] = Watch(r, s)
  BY DEF ServerChanges
<1>2. \A r \in Requests : elapsed[r] \in 0..FiveSeconds /\ good[r] \in 0..(FiveSeconds + 1)
  BY DEF AgentTypeOK, Ticks, Never
<1>3. AgentTypeOK'
  <2>1. good' \in [Requests -> 0..Never]
    BY <1>2, AgentAssumption DEF ServerChanges, Watch, Never
  <2> QED
    BY <1>1, <2>1 DEF AgentTypeOK
<1>4. ASSUME NEW r \in Requests PROVE RInv(r)'
  <2>1. RInv(r)
    OBVIOUS
  <2>2. KindInOrder(r)'
    BY <1>1, <2>1 DEF RInv, KindInOrder
  <2>3. GoodMeansAble(r)'
    BY <1>1, <1>2, <2>1, AgentAssumption DEF RInv, GoodMeansAble, Watch, Never
  <2>4. AttemptInTime(r)'
    <3>1. \/ good'[r] = good[r]
          \/ good'[r] = elapsed[r]
          \/ good'[r] = FiveSeconds + 1
      BY <1>1 DEF Watch, Never
    <3> QED
      BY <1>1, <1>2, <2>1, <3>1, AgentAssumption DEF RInv, AttemptInTime
  <2>5. ResultJustified(r)'
    <3>1. pc[r] \notin {"call", "backoff"} => good'[r] = good[r]
      BY <1>1 DEF Watch
    <3> QED
      BY <1>1, <2>1, <3>1 DEF RInv, ResultJustified, Done, Answered
  <2> QED
    BY <2>2, <2>3, <2>4, <2>5 DEF RInv
<1> QED
  BY <1>3, <1>4

\* Time goes on: a request that waits comes nearer to its next attempt, and
\* none waits for a server that is able to answer.
LEMMA TickAInv ==
  ASSUME AInv, HandlerTick
  PROVE  AInv'
<1> USE DEF AInv
<1>1. /\ UNCHANGED <<server, pc, kind, gone, cause, good>>
      /\ \A r \in Requests :
           /\ ~HandlerDue(r)
           /\ elapsed'[r] = IF Timed(r) THEN elapsed[r] + 1 ELSE elapsed[r]
           /\ wait'[r] = IF pc[r] = "backoff" THEN wait[r] - 1 ELSE wait[r]
  BY DEF HandlerTick, historyVars
<1>2. \A r \in Requests :
        /\ elapsed[r] \in 0..FiveSeconds /\ wait[r] \in 0..FiveSeconds
        /\ Timed(r) => elapsed[r] < FiveSeconds
        /\ pc[r] = "backoff" => wait[r] > 0
  BY <1>1, AgentAssumption
     DEF AgentTypeOK, Ticks, HandlerDue, Done, handlerMaxDuration
<1>3. AgentTypeOK'
  <2>1. elapsed' \in [Requests -> Ticks] /\ wait' \in [Requests -> Ticks]
    BY <1>1, <1>2, AgentAssumption DEF HandlerTick, Ticks
  <2> QED
    BY <1>1, <2>1 DEF AgentTypeOK
<1>4. ASSUME NEW r \in Requests PROVE RInv(r)'
  <2>1. RInv(r)
    OBVIOUS
  <2>2. KindInOrder(r)'
    BY <1>1, <2>1 DEF RInv, KindInOrder, Timed, Working
  <2>3. GoodMeansAble(r)'
    BY <1>1, <2>1 DEF RInv, GoodMeansAble
  <2>4. AttemptInTime(r)'
    <3>1. CASE pc[r] = "backoff"
      <4>1. Timed(r)
        BY <2>1, <3>1 DEF RInv, KindInOrder, AsksServer, Timed, Working
      <4>2. elapsed'[r] + wait'[r] = elapsed[r] + wait[r]
        BY <1>1, <1>2, <3>1, <4>1
      <4> QED
        BY <1>1, <2>1, <3>1, <4>2 DEF RInv, AttemptInTime
    <3>2. CASE pc[r] = "call"
      <4>1. ~Able(kind[r], server)
        BY <1>1, <3>2 DEF HandlerDue
      <4>2. good[r] = FiveSeconds + 1
        BY <2>1, <3>2, <4>1 DEF RInv, GoodMeansAble, Never
      <4> QED
        BY <1>1, <3>2, <4>2, AgentAssumption DEF AttemptInTime
    <3> QED
      BY <1>1, <3>1, <3>2 DEF AttemptInTime
  <2>5. ResultJustified(r)'
    <3>1. pc[r] = "500" => elapsed'[r] = elapsed[r]
      BY <1>1 DEF Timed, Working
    <3> QED
      BY <1>1, <2>1, <3>1 DEF RInv, ResultJustified, Done
  <2> QED
    BY <2>2, <2>3, <2>4, <2>5 DEF RInv
<1> QED
  BY <1>3, <1>4

\* What a step leaves of the other requests.
OthersKeep(r) ==
  /\ server' = server
  /\ \A q \in Requests \ {r} :
       /\ pc'[q] = pc[q] /\ kind'[q] = kind[q] /\ elapsed'[q] = elapsed[q]
       /\ wait'[q] = wait[q] /\ gone'[q] = gone[q]
       /\ cause'[q] = cause[q] /\ good'[q] = good[q]

\* A step of one request need only be looked at there.
LEMMA OneRequest ==
  ASSUME AInv, NEW r \in Requests, OthersKeep(r), AgentTypeOK', RInv(r)'
  PROVE  AInv'
<1>1. ASSUME NEW q \in Requests, q # r PROVE RInv(q)'
  BY <1>1, Untouched DEF AInv, OthersKeep
<1> QED
  BY <1>1 DEF AInv

\* A connection opens or is closed, or the router answers.
LEMMA ConnectionAInv ==
  ASSUME AInv, NEW r \in Requests,
         Connect(r) \/ Disconnect(r) \/ Immediate(r) \/ Blocked(r)
  PROVE  AInv'
<1>1. PICK label \in {"connected", "lost", "200", "404", "500"} :
        /\ pc' = [pc EXCEPT ![r] = label]
        /\ pc[r] \in {"idle", "connected"}
        /\ UNCHANGED <<server, kind, elapsed, wait, gone, cause, good>>
  BY DEF Connect, Disconnect, Immediate, Blocked, AnswerAtOnce, Goto,
         historyVars
<1>2. AgentTypeOK'
  BY <1>1 DEF AInv, AgentTypeOK, Answered
<1>3. OthersKeep(r) /\ pc'[r] = label
  BY <1>1 DEF AInv, AgentTypeOK, OthersKeep
<1>4. RInv(r)'
  BY <1>1, <1>3 DEF AInv, RInv, KindInOrder, GoodMeansAble, AttemptInTime,
                    ResultJustified, Answered, AsksServer
<1> QED
  BY <1>2, <1>3, <1>4, OneRequest

\* A malformed request for a role or credentials is answered at once.
LEMMA ClientIPErrorAInv ==
  ASSUME AInv, NEW r \in Requests, getClientIPError(r)
  PROVE  AInv'
<1>1. PICK k \in {"role", "credentials"} :
        /\ pc' = [pc EXCEPT ![r] = "500"]
        /\ kind' = [kind EXCEPT ![r] = k]
        /\ cause' = [cause EXCEPT ![r] = "address"]
        /\ UNCHANGED <<server, elapsed, wait, gone, good>>
  BY DEF getClientIPError, Goto
<1>2. AgentTypeOK'
  BY <1>1 DEF AInv, AgentTypeOK, Answered, Kinds, Causes
<1>3. OthersKeep(r) /\ pc'[r] = "500" /\ cause'[r] = "address"
  BY <1>1 DEF AInv, AgentTypeOK, OthersKeep
<1>4. RInv(r)'
  BY <1>3 DEF RInv, KindInOrder, GoodMeansAble, AttemptInTime, ResultJustified
<1> QED
  BY <1>2, <1>3, <1>4, OneRequest

\* The clock of a request starts.
LEMMA ServeHTTPAInv ==
  ASSUME AInv, NEW r \in Requests, NEW k \in Kinds, ServeHTTP(r, k)
  PROVE  AInv'
<1> USE DEF AInv
<1>1. PICK label \in {"call", "meta"} :
        /\ pc[r] = "connected"
        /\ pc' = [pc EXCEPT ![r] = label]
        /\ kind' = [kind EXCEPT ![r] = k]
        /\ good' = [good EXCEPT ![r] = IF Able(k, server) THEN 0 ELSE Never]
        /\ UNCHANGED <<server, elapsed, wait, gone, cause>>
        /\ IF label = "call" THEN AsksServer(k) ELSE k \in {"health", "proxy"}
  BY DEF ServeHTTP, Goto
<1>2. AgentTypeOK'
  <2>1. /\ pc' \in [Requests -> {"idle", "connected"} \cup Working \cup Answered]
        /\ kind' \in [Requests -> Kinds]
    BY <1>1 DEF AgentTypeOK, Working
  <2>2. good' \in [Requests -> 0..Never]
    BY <1>1, AgentAssumption DEF AgentTypeOK, Never
  <2> QED
    BY <1>1, <2>1, <2>2 DEF AgentTypeOK
<1>3. /\ OthersKeep(r)
      /\ pc'[r] = label /\ kind'[r] = k
      /\ good'[r] = IF Able(k, server) THEN 0 ELSE Never
  BY <1>1 DEF AgentTypeOK, OthersKeep
<1>4. elapsed[r] = 0
  BY <1>1 DEF RInv, KindInOrder
<1>5. KindInOrder(r)'
  BY <1>1, <1>3 DEF KindInOrder
<1>6. GoodMeansAble(r)'
  <2>1. 0 # Never
    BY AgentAssumption DEF Never
  <2> QED
    BY <1>1, <1>3, <2>1 DEF GoodMeansAble
<1>7. AttemptInTime(r)'
  BY <1>1, <1>3, <1>4, AgentAssumption DEF AttemptInTime
<1>8. ResultJustified(r)'
  BY <1>1, <1>3, <1>4 DEF ResultJustified
<1> QED
  BY <1>2, <1>3, <1>5, <1>6, <1>7, <1>8, OneRequest DEF RInv

\* The client goes away.
LEMMA ClientGoneAInv ==
  ASSUME AInv, NEW r \in Requests, ClientGone(r)
  PROVE  AInv'
<1>1. /\ gone' = [gone EXCEPT ![r] = TRUE]
      /\ pc[r] \in Working
      /\ UNCHANGED <<server, pc, kind, elapsed, wait, cause, good>>
  BY DEF ClientGone, historyVars
<1>2. AgentTypeOK' /\ OthersKeep(r)
  BY <1>1 DEF AInv, AgentTypeOK, OthersKeep
<1>3. RInv(r)'
  BY <1>1 DEF AInv, RInv, KindInOrder, GoodMeansAble, AttemptInTime,
              ResultJustified, Done, Working
<1> QED
  BY <1>2, <1>3, OneRequest

\* The metadata API answers.
LEMMA MetadataAInv ==
  ASSUME AInv, NEW r \in Requests, CheckMetadata(r) \/ Proxied(r)
  PROVE  AInv'
<1>1. PICK a \in {"200", "404", "500"} :
        /\ pc' = [pc EXCEPT ![r] = a]
        /\ pc[r] = "meta"
        /\ UNCHANGED <<server, kind, elapsed, wait, gone, cause, good>>
  BY DEF CheckMetadata, Proxied, Goto, historyVars
<1>2. AgentTypeOK'
  BY <1>1 DEF AInv, AgentTypeOK, Answered
<1>3. OthersKeep(r) /\ pc'[r] = a
  BY <1>1 DEF AInv, AgentTypeOK, OthersKeep
<1>4. RInv(r)'
  BY <1>1, <1>3 DEF AInv, RInv, KindInOrder, GoodMeansAble, AttemptInTime,
                    ResultJustified, Answered, AsksServer
<1> QED
  BY <1>2, <1>3, <1>4, OneRequest

\* A failed call: a pause, or the end if none ends before the deadline.
LEMMA AgainChoices ==
  ASSUME AInv, NEW r \in Requests, Again(r)
  PROVE  \/ /\ pc' = [pc EXCEPT ![r] = "500"] /\ wait' = wait
            /\ gone[r] \/ NextAttempt(elapsed[r]) >= FiveSeconds
         \/ \E w \in Ticks :
              /\ pc' = [pc EXCEPT ![r] = "backoff"]
              /\ wait' = [wait EXCEPT ![r] = w]
              /\ elapsed[r] + w < FiveSeconds
<1>1. elapsed[r] \in Nat /\ NextAttempt(elapsed[r]) \in Nat
      /\ elapsed[r] <= NextAttempt(elapsed[r])
  BY AgentAssumption, NextAttemptBounds DEF AInv, AgentTypeOK, Ticks
<1>2. CASE Done(r)
  BY <1>1, <1>2, AgentAssumption
     DEF Again, Answer, Goto, Done, handlerMaxDuration
<1>3. CASE ~Done(r)
  <2>1. PICK w \in Pauses(r) :
          IF elapsed[r] + w >= handlerMaxDuration THEN Answer(r, "500")
                                                  ELSE Pause(r, w)
    BY <1>3 DEF Again
  <2>2. w \in Ticks /\ w \in Nat /\ elapsed[r] + w <= NextAttempt(elapsed[r])
    BY AgentAssumption DEF Pauses, Ticks
  <2>3. CASE elapsed[r] + w >= handlerMaxDuration
    BY <1>1, <2>1, <2>2, <2>3, AgentAssumption
       DEF Answer, Goto, handlerMaxDuration
  <2>4. CASE ~(elapsed[r] + w >= handlerMaxDuration)
    BY <1>1, <2>1, <2>2, <2>4, AgentAssumption
       DEF Pause, Goto, handlerMaxDuration
  <2> QED
    BY <2>3, <2>4
<1> QED
  BY <1>2, <1>3

\* After a failed call good is right: the server is not able to answer, or
\* the call hung until now.
LEMMA AgainAInv ==
  ASSUME AInv, NEW r \in Requests, pc[r] \in {"call", "hung"}, Again(r),
         UNCHANGED <<server, kind, elapsed, gone, cause>>,
         \A q \in Requests \ {r} : good'[q] = good[q],
         good' \in [Requests -> 0..Never],
         pc'[r] = "500" => good'[r] = Never,
         pc'[r] # "500" => (good'[r] # Never <=> Able(kind[r], server))
  PROVE  AInv'
<1> USE DEF AInv
<1>1. AsksServer(kind[r])
  BY DEF RInv, KindInOrder
<1>2. CASE /\ pc' = [pc EXCEPT ![r] = "500"] /\ wait' = wait
           /\ gone[r] \/ NextAttempt(elapsed[r]) >= FiveSeconds
  <2>1. AgentTypeOK'
    BY <1>2 DEF AgentTypeOK, Answered
  <2>2. OthersKeep(r) /\ pc'[r] = "500"
    BY <1>2 DEF AgentTypeOK, OthersKeep
  <2>3. good'[r] >= FiveSeconds
    BY <2>2, AgentAssumption DEF Never
  <2>4. RInv(r)'
    BY <1>2, <2>2, <2>3
       DEF RInv, KindInOrder, GoodMeansAble, AttemptInTime, ResultJustified
  <2> QED
    BY <2>1, <2>2, <2>4, OneRequest
<1>3. ASSUME NEW w \in Ticks,
             pc' = [pc EXCEPT ![r] = "backoff"],
             wait' = [wait EXCEPT ![r] = w],
             elapsed[r] + w < FiveSeconds
      PROVE  AInv'
  <2>1. AgentTypeOK'
    BY <1>3 DEF AgentTypeOK, Working
  <2>2. OthersKeep(r) /\ pc'[r] = "backoff" /\ wait'[r] = w
    BY <1>3 DEF AgentTypeOK, OthersKeep
  <2>3. RInv(r)'
    BY <1>1, <1>3, <2>2
       DEF RInv, KindInOrder, GoodMeansAble, AttemptInTime, ResultJustified
  <2> QED
    BY <2>1, <2>2, <2>3, OneRequest
<1> QED
  BY <1>2, <1>3, AgainChoices

\* A call that fails at once: the server is not able to answer.
LEMMA FailedCallAInv ==
  ASSUME AInv, NEW r \in Requests, pc[r] = "call", ~Able(kind[r], server),
         Again(r), UNCHANGED <<server, kind, elapsed, gone, cause, good>>
  PROVE  AInv'
<1>1. good[r] = Never /\ good \in [Requests -> 0..Never]
  BY DEF AInv, AgentTypeOK, RInv, GoodMeansAble
<1> QED
  BY <1>1, AgainAInv

\* A call hangs, and returns.
LEMMA HangAInv ==
  ASSUME AInv, NEW r \in Requests, Hang(r) \/ Unhang(r)
  PROVE  AInv'
<1> USE DEF AInv
<1>1. CASE Hang(r)
  <2>1. /\ pc[r] = "call" /\ server = "down"
        /\ pc' = [pc EXCEPT ![r] = "hung"]
        /\ UNCHANGED <<server, kind, elapsed, wait, gone, cause, good>>
    BY <1>1 DEF Hang, Goto, historyVars
  <2>2. AsksServer(kind[r]) /\ good[r] = Never
    BY <2>1 DEF RInv, KindInOrder, GoodMeansAble, Able, AsksServer, Reply,
                GetRole, GetCredentials, Health
  <2>3. AgentTypeOK'
    BY <2>1 DEF AgentTypeOK, Working
  <2>4. OthersKeep(r) /\ pc'[r] = "hung"
    BY <2>1 DEF AgentTypeOK, OthersKeep
  <2>5. RInv(r)'
    BY <2>1, <2>2, <2>4
       DEF RInv, KindInOrder, GoodMeansAble, AttemptInTime, ResultJustified
  <2> QED
    BY <2>3, <2>4, <2>5, OneRequest
<1>2. CASE Unhang(r)
  <2> DEFINE g == IF pc'[r] # "500" /\ Able(kind[r], server) THEN elapsed[r]
                                                             ELSE Never
  <2>1. /\ pc[r] = "hung"
        /\ good' = [good EXCEPT ![r] = g]
        /\ UNCHANGED <<server, kind, elapsed, gone, cause>>
    BY <1>2 DEF Unhang
  <2>2. AsksServer(kind[r]) /\ elapsed[r] \in 0..FiveSeconds
    BY <2>1 DEF RInv, KindInOrder, AgentTypeOK, Ticks
  <2>3. /\ g \in 0..Never /\ elapsed[r] # Never
        /\ pc'[r] = "500" => g = Never
        /\ pc'[r] # "500" => (g # Never <=> Able(kind[r], server))
    BY <2>2, AgentAssumption DEF Never
  <2>4. /\ good' \in [Requests -> 0..Never]
        /\ good'[r] = g
        /\ \A q \in Requests \ {r} : good'[q] = good[q]
    BY <2>1, <2>3 DEF AgentTypeOK
  <2>5. CASE Again(r)
    <3> HIDE DEF g
    <3> QED
      BY <2>1, <2>3, <2>4, <2>5, AgainAInv
  <2>6. CASE Answer(r, "call")
    <3>1. pc' = [pc EXCEPT ![r] = "call"] /\ wait' = wait
      BY <2>6 DEF Answer, Goto
    <3>2. AgentTypeOK'
      BY <2>1, <2>4, <3>1 DEF AgentTypeOK, Working
    <3>3. OthersKeep(r) /\ pc'[r] = "call"
      BY <2>1, <2>4, <3>1 DEF AgentTypeOK, OthersKeep
    <3>4. AttemptInTime(r)'
      BY <2>1, <2>2, <2>4, <3>3, AgentAssumption DEF AttemptInTime, Never
    <3>5. KindInOrder(r)' /\ GoodMeansAble(r)' /\ ResultJustified(r)'
      BY <2>1, <2>2, <2>3, <2>4, <3>3
         DEF KindInOrder, GoodMeansAble, ResultJustified
    <3> QED
      BY <3>2, <3>3, <3>4, <3>5, OneRequest DEF RInv
  <2> QED
    BY <1>2, <2>5, <2>6 DEF Unhang
<1> QED
  BY <1>1, <1>2

\* A call returns an answer: to a pod only if the server is able to give it.
LEMMA AnswerAInv ==
  ASSUME AInv, NEW r \in Requests, pc[r] = "call",
         NEW label \in {"200", "404", "meta"}, Answer(r, label),
         label = "200" => Able(kind[r], server),
         label = "meta" => kind[r] = "deep" /\ Able(kind[r], server),
         UNCHANGED <<server, kind, elapsed, gone, cause, good>>
  PROVE  AInv'
<1> USE DEF AInv
<1>1. pc' = [pc EXCEPT ![r] = label] /\ wait' = wait
  BY DEF Answer, Goto
<1>2. AgentTypeOK'
  BY <1>1 DEF AgentTypeOK, Answered, Working
<1>3. OthersKeep(r) /\ pc'[r] = label
  BY <1>1 DEF AgentTypeOK, OthersKeep
<1>4. label # "404" => good[r] # Never
  BY DEF RInv, GoodMeansAble
<1>5. RInv(r)'
  BY <1>3, <1>4 DEF RInv, KindInOrder, GoodMeansAble, AttemptInTime,
                    ResultJustified
<1> QED
  BY <1>2, <1>3, <1>5, OneRequest

\* The handlers' calls return.
LEMMA CallAInv ==
  ASSUME AInv, NEW r \in Requests,
         FetchCredentials(r) \/ FindRole(r) \/ FindServerHealth(r)
  PROVE  AInv'
<1> USE DEF AInv
<1>1. CASE FindRole(r)
  <2>1. /\ pc[r] = "call" /\ kind[r] = "role"
        /\ UNCHANGED <<server, kind, elapsed, gone, cause, good>>
        /\ Able(kind[r], server) <=> GetRole(server) = "ok"
    BY <1>1 DEF FindRole, historyVars, Able, AsksServer, Reply
  <2>2. \/ GetRole(server) = "ok" /\ Answer(r, "200")
        \/ GetRole(server) = "empty" /\ Answer(r, "404")
        \/ GetRole(server) = "error" /\ Again(r)
    BY <1>1 DEF FindRole
  <2> QED
    BY <2>1, <2>2, AnswerAInv, FailedCallAInv
<1>2. CASE FindServerHealth(r)
  <2>1. /\ pc[r] = "call" /\ kind[r] = "deep"
        /\ UNCHANGED <<server, kind, elapsed, gone, cause, good>>
        /\ Able(kind[r], server) <=> Health(server) = "ok"
    BY <1>2 DEF FindServerHealth, historyVars, Able, AsksServer, Reply
  <2>2. IF Health(server) = "ok" THEN Answer(r, "meta") ELSE Again(r)
    BY <1>2 DEF FindServerHealth
  <2> QED
    BY <2>1, <2>2, AnswerAInv, FailedCallAInv
<1>3. CASE FetchCredentials(r)
  <2>1. /\ pc[r] = "call" /\ kind[r] = "credentials"
        /\ UNCHANGED <<server, kind, elapsed, gone, good>>
        /\ Able(kind[r], server) <=> GetCredentials(server) = "ok"
    BY <1>3 DEF FetchCredentials, Able, AsksServer, Reply
  <2>2. CASE \/ GetCredentials(server) = "forbidden"
             \/ GetCredentials(server) = "ok" /\ gone[r] /\ Answer(r, "500")
    <3>1. /\ pc' = [pc EXCEPT ![r] = "500"] /\ wait' = wait
          /\ \E c \in Causes : cause' = [cause EXCEPT ![r] = c]
          /\ cause'[r] = "forbidden" \/ gone[r]
      BY <1>3, <2>2 DEF FetchCredentials, Permanent, Answer, Goto, AgentTypeOK,
                        Causes
    <3>2. AgentTypeOK'
      BY <2>1, <3>1 DEF AgentTypeOK, Answered
    <3>3. OthersKeep(r) /\ pc'[r] = "500"
      BY <2>1, <3>1 DEF AgentTypeOK, OthersKeep
    <3>4. RInv(r)'
      BY <2>1, <3>1, <3>3 DEF RInv, KindInOrder, GoodMeansAble, AttemptInTime,
                              ResultJustified
    <3> QED
      BY <3>2, <3>3, <3>4, OneRequest
  <2>3. CASE /\ GetCredentials(server) # "forbidden"
             /\ ~(GetCredentials(server) = "ok" /\ gone[r] /\ Answer(r, "500"))
    <3>1. cause' = cause
      BY <1>3, <2>3 DEF FetchCredentials, AgentTypeOK
    <3>2. \/ GetCredentials(server) = "ok" /\ Answer(r, "200")
          \/ GetCredentials(server) # "ok" /\ Again(r)
      BY <1>3, <2>3 DEF FetchCredentials, Permanent
    <3> QED
      BY <2>1, <3>1, <3>2, AnswerAInv, FailedCallAInv
  <2> QED
    BY <2>2, <2>3
<1> QED
  BY <1>1, <1>2, <1>3

\* A pause ends and the call is repeated, or the context ends either.
LEMMA RetryAInv ==
  ASSUME AInv, NEW r \in Requests, Retry(r) \/ GiveUp(r)
  PROVE  AInv'
<1> USE DEF AInv
<1>1. CASE Retry(r)
  <2>1. /\ pc[r] = "backoff" /\ wait[r] = 0
        /\ pc' = [pc EXCEPT ![r] = "call"]
        /\ UNCHANGED <<server, kind, elapsed, wait, gone, cause, good>>
    BY <1>1 DEF Retry, Goto, historyVars
  <2>2. AgentTypeOK'
    BY <2>1 DEF AgentTypeOK, Working
  <2>3. OthersKeep(r) /\ pc'[r] = "call"
    BY <2>1 DEF AgentTypeOK, OthersKeep
  <2>4. elapsed[r] < FiveSeconds
    BY <2>1, AgentAssumption DEF RInv, AttemptInTime, AgentTypeOK, Ticks
  <2>5. RInv(r)'
    BY <2>1, <2>3, <2>4, AgentAssumption
       DEF RInv, KindInOrder, GoodMeansAble, AttemptInTime, ResultJustified,
           AgentTypeOK, Ticks
  <2> QED
    BY <2>2, <2>3, <2>5, OneRequest
<1>2. CASE GiveUp(r)
  <2>1. /\ pc[r] \in Working
        /\ kind[r] # "proxy" => Done(r)
        /\ pc' = [pc EXCEPT ![r] = "500"]
        /\ wait' = [wait EXCEPT ![r] = 0]
        /\ UNCHANGED <<server, kind, elapsed, gone, cause, good>>
    BY <1>2 DEF GiveUp, Goto, historyVars
  <2>2. AgentTypeOK'
    BY <2>1, AgentAssumption DEF AgentTypeOK, Answered, Ticks
  <2>3. OthersKeep(r) /\ pc'[r] = "500"
    BY <2>1 DEF AgentTypeOK, OthersKeep
  <2>4. ResultJustified(r)'
    <3> SUFFICES ASSUME kind[r] \in {"role", "credentials"}, ~gone[r]
                 PROVE  /\ NextAttempt(elapsed[r]) >= FiveSeconds
                        /\ good[r] >= FiveSeconds
      BY <2>1, <2>3 DEF ResultJustified
    <3>1. elapsed[r] >= FiveSeconds /\ pc[r] \in {"call", "hung", "backoff"}
      BY <2>1 DEF RInv, KindInOrder, Working, Done, handlerMaxDuration
    <3>2. /\ elapsed[r] \in Nat /\ wait[r] \in Nat
          /\ NextAttempt(elapsed[r]) \in Nat
          /\ elapsed[r] <= NextAttempt(elapsed[r])
      BY AgentAssumption, NextAttemptBounds DEF AgentTypeOK, Ticks
    <3> QED
      BY <3>1, <3>2, AgentAssumption
         DEF RInv, GoodMeansAble, AttemptInTime, Never
  <2> QED
    BY <2>2, <2>3, <2>4, OneRequest
       DEF RInv, KindInOrder, GoodMeansAble, AttemptInTime
<1> QED
  BY <1>1, <1>2

\* The process ends.
LEMMA EndAInv ==
  ASSUME AInv, NEW how, End(how)
  PROVE  AInv'
<1> USE DEF AInv
<1>1. /\ UNCHANGED <<server, kind, elapsed, wait, gone, cause, good>>
      /\ \A r \in Requests : pc'[r] = pc[r] \/ pc'[r] \in {"cut", "lost"}
  BY DEF End
<1>2. AgentTypeOK'
  <2>1. pc' \in [Requests -> {"idle", "connected"} \cup Working \cup Answered]
    BY DEF AgentTypeOK, End, Answered
  <2> QED
    BY <1>1, <2>1 DEF AgentTypeOK
<1>3. ASSUME NEW r \in Requests PROVE RInv(r)'
  <2>1. CASE pc'[r] = pc[r]
    BY <1>1, <2>1, Untouched
  <2>2. CASE pc'[r] \in {"cut", "lost"}
    BY <1>1, <2>2 DEF RInv, KindInOrder, GoodMeansAble, AttemptInTime,
                      ResultJustified, Answered
  <2> QED
    BY <1>1, <2>1, <2>2
<1> QED
  BY <1>2, <1>3

---------------------------------------------------------------------------
(* The inductive invariant of the process                                  *)

\* The rule is there from rules.Add to rules.Remove.
RuleKept ==
  /\ opts.iptables
  /\ main \in {"notify", "build", "select", "stop", "deferred", "remove"}
  => rule = 1

\* The agent listens only while run() waits in its select.
HttpInOrder ==
  /\ http \in {"starting", "listening"} => main = "select"
  /\ main \in {"off", "add", "notify", "build", "stop"} \cup Ended => http = "off"

\* Connections are open only while the agent listens and afterwards.
OpenInOrder ==
  \A r \in Requests :
    Open(r) => http = "listening" \/ main \in {"stop", "deferred", "remove"}

\* The time of Shutdown starts with it.
ClockOfStop == main \in {"add", "notify", "build", "select"} => stopping = 0

\* A request that was there before Shutdown is at least as old.
OlderThanStop ==
  \A r \in Requests :
    /\ main = "stop"
    /\ Timed(r)
    /\ r \notin late
    => elapsed[r] >= stopping

\* Once run() has returned only such requests are left as are out of time.
ReturnedDrained ==
  \A r \in Requests :
    main \in {"deferred", "remove"} /\ Timed(r) => r \in late \/ Done(r)

RuleInv  == RuleKept /\ HttpInOrder /\ RuleRemoved
DrainInv == OpenInOrder /\ ClockOfStop /\ OlderThanStop /\ ReturnedDrained
              /\ DrainedBeforeExit

PInv ==
  /\ TypeOK
  /\ AInv
  /\ RuleInv
  /\ DrainInv

\* Clocks start within the bound of their type.
LEMMA ZeroTick == 0 \in Ticks
BY AgentAssumption DEF Ticks

\* There is no process at first, and no rule.
LEMMA InitPInv == Init => PInv
<1> SUFFICES ASSUME Init PROVE PInv
  OBVIOUS
<1>1. AInv
  BY InitAInv DEF Init
<1>2. TypeOK
  <2>1. AgentTypeOK
    BY <1>1 DEF AInv
  <2> QED
    BY <2>1, ZeroTick DEF Init, TypeOK
<1>3. RuleInv
  BY DEF Init, RuleInv, RuleKept, HttpInOrder, RuleRemoved
<1>4. DrainInv
  <2>1. main = "off" /\ \A r \in Requests : pc[r] = "idle"
    BY DEF Init, AgentInit
  <2> QED
    BY <2>1 DEF DrainInv, OpenInOrder, ClockOfStop, OlderThanStop,
                ReturnedDrained, DrainedBeforeExit, Open, Working
<1> QED
  BY <1>1, <1>2, <1>3, <1>4 DEF PInv

\* A process starts, over whatever rule its predecessor has left.
LEMMA StartPInv ==
  ASSUME PInv, Start
  PROVE  PInv'
<1> USE DEF PInv
<1>1. AInv'
  BY StartAInv DEF Start
<1>2. /\ main' = IF opts.iptables THEN "add" ELSE "notify"
      /\ signal' = FALSE /\ stopping' = 0 /\ newFailed' = FALSE
      /\ failures' = 0 /\ late' = {}
      /\ UNCHANGED <<opts, http, rule>>
      /\ main \in Ended \cup {"off"}
  BY DEF Start, Alive
<1>3. TypeOK'
  <2>1. AgentTypeOK'
    BY <1>1 DEF AInv
  <2> QED
    BY <1>2, <2>1, ZeroTick DEF TypeOK
<1>4. http = "off" /\ http' = "off"
  BY <1>2 DEF RuleInv, HttpInOrder
<1>5. main' \in {"add", "notify"} /\ (main' = "notify" => ~opts.iptables)
  BY <1>2
<1>6. RuleInv'
  BY <1>2, <1>4, <1>5 DEF RuleInv, RuleKept, HttpInOrder, RuleRemoved
<1>7. DrainInv'
  <2>1. \A r \in Requests : pc'[r] = "idle"
    BY DEF Start, AgentStart
  <2> QED
    BY <1>2, <1>5, <2>1
       DEF DrainInv, OpenInOrder, ClockOfStop, OlderThanStop, ReturnedDrained,
           DrainedBeforeExit, Open, Working
<1> QED
  BY <1>1, <1>3, <1>6, <1>7

\* Steps that do not touch requests keep their invariant and their ages.
LEMMA RequestsKeep ==
  ASSUME AInv, UNCHANGED agentVars
  PROVE  /\ AInv'
         /\ \A r \in Requests :
              /\ pc'[r] = pc[r] /\ kind'[r] = kind[r] /\ elapsed'[r] = elapsed[r]
              /\ Open(r)' <=> Open(r)
              /\ Timed(r)' <=> Timed(r)
              /\ Done(r)' <=> Done(r)
<1>1. AInv'
  <2>1. AgentTypeOK'
    BY DEF agentVars, AInv, AgentTypeOK
  <2>2. \A r \in Requests : RInv(r)'
    BY Untouched DEF agentVars, AInv
  <2> QED
    BY <2>1, <2>2 DEF AInv
<1> QED
  BY <1>1 DEF agentVars, Open, Timed, Done

\* run() until it waits, and the start of the HTTP server.
LEMMA StartingPInv ==
  ASSUME PInv, Add \/ AddError \/ Notify \/ Build \/ BuildError \/ Serve
  PROVE  PInv'
<1> USE DEF PInv
<1>1. UNCHANGED <<agentVars, opts, signal, stopping, failures, late>>
  BY DEF Add, AddError, Notify, Build, BuildError, Serve, faultVars
<1>2. /\ AInv'
      /\ \A r \in Requests :
           /\ pc'[r] = pc[r] /\ kind'[r] = kind[r] /\ elapsed'[r] = elapsed[r]
           /\ Open(r)' <=> Open(r)
           /\ Timed(r)' <=> Timed(r)
           /\ Done(r)' <=> Done(r)
  BY <1>1, RequestsKeep
<1>3. /\ \/ main = "add" /\ main' = "notify" /\ rule' = 1 /\ http' = http
            /\ newFailed' = newFailed
         \/ main = "add" /\ main' = "exited" /\ newFailed' = TRUE /\ rule' = rule
            /\ http' = http
         \/ main = "notify" /\ main' = "build" /\ UNCHANGED <<http, rule, newFailed>>
         \/ main = "build" /\ main' = "select" /\ http' = "starting"
            /\ UNCHANGED <<rule, newFailed>>
         \/ main = "build" /\ main' = "deferred" /\ UNCHANGED <<http, rule, newFailed>>
         \/ http = "starting" /\ http' \in {"listening", "failed"}
            /\ UNCHANGED <<main, rule, newFailed>>
  BY DEF Add, AddError, Notify, Build, BuildError, Serve, faultVars,
         AppendUnique, Return
<1>4. TypeOK'
  <2>1. AgentTypeOK'
    BY <1>2 DEF AInv
  <2> QED
    BY <1>1, <1>3, <2>1 DEF TypeOK, Ended
<1>5. RuleInv'
  BY <1>1, <1>3 DEF RuleInv, RuleKept, HttpInOrder, RuleRemoved, Ended
<1>6. \A r \in Requests : ~Open(r) /\ ~Timed(r)
  BY <1>3 DEF RuleInv, HttpInOrder, DrainInv, OpenInOrder, Open, Timed, Working
<1>7. DrainInv'
  BY <1>1, <1>2, <1>3, <1>6
     DEF RuleInv, HttpInOrder, DrainInv, OpenInOrder, ClockOfStop,
         OlderThanStop, ReturnedDrained, DrainedBeforeExit
<1> QED
  BY <1>2, <1>4, <1>5, <1>7

\* run() stops waiting, shuts the HTTP server down and returns.
LEMMA StoppingPInv ==
  ASSUME PInv,
         \/ Signal \/ ServeError \/ Stop \/ Drained \/ StopError
         \/ Deferred /\ main' = "remove"
  PROVE  PInv'
<1> USE DEF PInv
<1>1. UNCHANGED <<agentVars, opts, rule, stopping, newFailed, failures, late>>
  BY DEF Signal, ServeError, Stop, Drained, StopError, Deferred, faultVars, End,
         Ended
<1>2. /\ AInv'
      /\ \A r \in Requests :
           /\ pc'[r] = pc[r] /\ kind'[r] = kind[r] /\ elapsed'[r] = elapsed[r]
           /\ Open(r)' <=> Open(r)
           /\ Timed(r)' <=> Timed(r)
           /\ Done(r)' <=> Done(r)
  BY <1>1, RequestsKeep
<1>3. \/ /\ main' = main \/ (main \in {"add", "notify"} /\ main' = "killed")
         /\ http' = http
      \/ main = "select" /\ main' = "stop" /\ http' = "off"
      \/ main = "select" /\ main' = "deferred" /\ http = "failed" /\ http' = http
      \/ /\ main = "stop" /\ main' = "deferred" /\ http' = http
         /\ (\A r \in Requests : ~Open(r)) \/ StopExpired
      \/ main = "deferred" /\ main' = "remove" /\ http' = http
  BY DEF Signal, ServeError, Stop, Drained, StopError, Deferred, Return, End,
         Ended
<1>4. TypeOK'
  <2>1. AgentTypeOK'
    BY <1>2 DEF AInv
  <2>2. signal' \in BOOLEAN
    BY DEF Signal, ServeError, Stop, Drained, StopError, Deferred, TypeOK
  <2> QED
    BY <1>1, <1>3, <2>1, <2>2 DEF TypeOK, Ended
<1>5. RuleInv'
  BY <1>1, <1>3 DEF RuleInv, RuleKept, HttpInOrder, RuleRemoved, Ended
<1>6. DrainInv'
  <2>1. \A r \in Requests : elapsed[r] \in Nat /\ stopping \in Nat
    BY AgentAssumption DEF TypeOK, AgentTypeOK, Ticks
  <2>2. OpenInOrder' /\ ClockOfStop'
    BY <1>1, <1>2, <1>3
       DEF RuleInv, HttpInOrder, DrainInv, OpenInOrder, ClockOfStop
  <2>3. OlderThanStop'
    BY <1>1, <1>2, <1>3, <2>1 DEF DrainInv, ClockOfStop, OlderThanStop
  <2>4. ReturnedDrained'
    <3>1. main = "stop" /\ StopExpired =>
            \A r \in Requests : Timed(r) => r \in late \/ Done(r)
      BY <2>1, AgentAssumption
         DEF DrainInv, OlderThanStop, StopExpired, stopTimeout, Done,
             handlerMaxDuration
    <3>2. http = "failed" => \A r \in Requests : Open(r) => main # "select"
      BY DEF DrainInv, OpenInOrder
    <3>3. \A r \in Requests : Timed(r) => Open(r)
      BY DEF Timed, Open
    <3> QED
      BY <1>1, <1>2, <1>3, <3>1, <3>2, <3>3 DEF DrainInv, ReturnedDrained
  <2>5. DrainedBeforeExit'
    BY <1>1, <1>2 DEF DrainInv, DrainedBeforeExit
  <2> QED
    BY <2>2, <2>3, <2>4, <2>5 DEF DrainInv
<1> QED
  BY <1>2, <1>4, <1>5, <1>6

\* The process ends: by itself only after run() has returned.
LEMMA EndingPInv ==
  ASSUME PInv, NEW how \in Ended, End(how),
         how # "killed" => main \in {"deferred", "remove"},
         how = "exited" => \/ ~(opts.iptables /\ opts.iptablesRemove)
                           \/ newFailed' \/ rule' = 0,
         rule' \in {0, 1}, newFailed' \in BOOLEAN, failures' \in Nat,
         UNCHANGED <<opts, signal, stopping, late>>
  PROVE  PInv'
<1> USE DEF PInv
<1>1. AInv'
  BY EndAInv
<1>2. /\ main' = how /\ http' = "off"
      /\ UNCHANGED <<kind, elapsed, gone>>
      /\ \A r \in Requests :
           pc'[r] = IF ~Open(r) THEN pc[r]
                    ELSE IF how = "killed" THEN "lost" ELSE "cut"
  BY DEF End
<1>3. TypeOK'
  <2>1. AgentTypeOK'
    BY <1>1 DEF AInv
  <2> QED
    BY <1>2, <2>1 DEF TypeOK
<1>4. RuleInv'
  BY <1>2 DEF RuleInv, RuleKept, HttpInOrder, RuleRemoved, Ended
<1>5. \A r \in Requests : ~Open(r)' /\ ~Timed(r)'
  BY <1>2 DEF Open, Timed, Working
<1>6. DrainedBeforeExit'
  <2> SUFFICES ASSUME NEW r \in Requests, pc'[r] = "cut",
                      kind[r] \notin {"proxy", "other"}
               PROVE  r \in late \/ Done(r)
    BY <1>2 DEF DrainedBeforeExit, Done
  <2>1. CASE ~Open(r)
    BY <1>2, <2>1 DEF DrainInv, DrainedBeforeExit
  <2>2. CASE Open(r)
    <3>1. main \in {"deferred", "remove"}
      BY <1>2, <2>2
    <3>2. Timed(r)
      BY <2>2 DEF Open, Timed, AInv, RInv, KindInOrder
    <3> QED
      BY <3>1, <3>2 DEF DrainInv, ReturnedDrained
  <2> QED
    BY <2>1, <2>2
<1>7. DrainInv'
  BY <1>2, <1>5, <1>6
     DEF DrainInv, OpenInOrder, ClockOfStop, OlderThanStop, ReturnedDrained, Ended
<1> QED
  BY <1>1, <1>3, <1>4, <1>7

\* What run() has deferred, or a kill.
LEMMA EndPInv ==
  ASSUME PInv, Deferred \/ RemoveError \/ Remove \/ DeleteError \/ Kill
  PROVE  PInv'
<1> USE DEF PInv
<1>1. CASE Deferred
  <2>1. CASE opts.iptables /\ opts.iptablesRemove
    BY <1>1, <2>1, StoppingPInv DEF Deferred
  <2>2. CASE ~(opts.iptables /\ opts.iptablesRemove)
    BY <1>1, <2>2, EndingPInv DEF Deferred, faultVars, Ended, TypeOK
  <2> QED
    BY <2>1, <2>2
<1>2. CASE RemoveError
  BY <1>2, EndingPInv DEF RemoveError, Ended, TypeOK
<1>3. CASE Remove
  BY <1>3, EndingPInv DEF Remove, faultVars, Ended, TypeOK
<1>4. CASE DeleteError
  <2>1. failures' \in Nat
    BY <1>4 DEF DeleteError, TypeOK
  <2> QED
    BY <1>4, <2>1, EndingPInv DEF DeleteError, Ended, TypeOK
<1>5. CASE Kill
  BY <1>5, EndingPInv DEF Kill, faultVars, Ended, TypeOK
<1> QED
  BY <1>1, <1>2, <1>3, <1>4, <1>5

\* A handler's steps make no request younger and none late.
LEMMA HandlePInv ==
  ASSUME PInv, NEW r \in Requests, Accept(r) \/ Handle(r)
  PROVE  PInv'
<1> USE DEF PInv
<1>1. AInv'
  BY ConnectionAInv, ClientGoneAInv, MetadataAInv, CallAInv, HangAInv, RetryAInv
     DEF Accept, Handle, HandlerStep
<1>2. UNCHANGED <<opts, main, http, rule, signal, stopping, newFailed, failures, late>>
  BY DEF Accept, Handle, processVars
<1>3. /\ UNCHANGED <<kind, elapsed>>
      /\ \A q \in Requests : gone[q] => gone'[q]
      /\ \A q \in Requests :
           /\ pc'[q] \in Working => pc[q] \in Working
           /\ pc'[q] = "cut" => pc[q] = "cut"
           /\ pc'[q] = "connected" => pc[q] = "connected" \/ http = "listening"
  <2>1. CASE Accept(r) \/ Disconnect(r) \/ CheckMetadata(r) \/ Proxied(r)
    BY <2>1 DEF Accept, Connect, Disconnect, CheckMetadata, Proxied, Goto, AInv,
                AgentTypeOK, Working
  <2>2. CASE ClientGone(r)
    BY <2>2 DEF ClientGone, AInv, AgentTypeOK
  <2>3. CASE HandlerStep(r) \/ Hang(r) \/ Unhang(r)
    <3>1. PICK label \in Working \cup {"200", "404", "500"} :
            /\ pc[r] \in Working
            /\ pc' = [pc EXCEPT ![r] = label]
            /\ UNCHANGED <<kind, elapsed, gone>>
      BY <2>3 DEF HandlerStep, FetchCredentials, FindRole, FindServerHealth,
                  Hang, Unhang, Retry, GiveUp, Again, Pause, Answer, Goto,
                  Working
    <3> QED
      BY <3>1 DEF AInv, AgentTypeOK, Working
  <2> QED
    BY <2>1, <2>2, <2>3 DEF Handle
<1>4. TypeOK'
  BY <1>1, <1>2 DEF AInv, TypeOK
<1>5. RuleInv'
  BY <1>2 DEF RuleInv, RuleKept, HttpInOrder, RuleRemoved
<1>6. DrainInv'
  <2>1. \A q \in Requests : Timed(q)' => Timed(q)
    BY <1>3 DEF Timed
  <2>2. \A q \in Requests : Done(q) => Done(q)'
    BY <1>3 DEF Done
  <2>3. OpenInOrder' /\ ClockOfStop'
    BY <1>2, <1>3 DEF DrainInv, OpenInOrder, Open, ClockOfStop
  <2>4. OlderThanStop' /\ ReturnedDrained'
    BY <1>2, <1>3, <2>1, <2>2 DEF DrainInv, OlderThanStop, ReturnedDrained
  <2>5. DrainedBeforeExit'
    BY <1>2, <1>3, <2>2 DEF DrainInv, DrainedBeforeExit
  <2> QED
    BY <2>3, <2>4, <2>5 DEF DrainInv
<1> QED
  BY <1>1, <1>4, <1>5, <1>6

\* A request that comes during the shutdown is late.
LEMMA RequestPInv ==
  ASSUME PInv, NEW r \in Requests, Request(r)
  PROVE  PInv'
<1> USE DEF PInv
<1>1. AInv'
  BY ConnectionAInv, ClientIPErrorAInv, ServeHTTPAInv DEF Request
<1>2. /\ UNCHANGED <<opts, main, http, rule, signal, stopping, newFailed, failures>>
      /\ late' = IF main = "select" THEN late ELSE late \cup {r}
  BY DEF Request
<1>3. /\ UNCHANGED <<elapsed, gone>>
      /\ pc[r] = "connected" /\ pc'[r] \notin {"connected", "cut"}
      /\ \A q \in Requests : q # r => pc'[q] = pc[q] /\ kind'[q] = kind[q]
  BY DEF Request, ServeHTTP, Immediate, getClientIPError, Blocked, AnswerAtOnce,
         Goto, AInv, AgentTypeOK
<1>4. TypeOK'
  BY <1>1, <1>2 DEF AInv, TypeOK
<1>5. RuleInv'
  BY <1>2 DEF RuleInv, RuleKept, HttpInOrder, RuleRemoved
<1>6. DrainInv'
  <2>1. Open(r) /\ \A q \in Requests : q # r => (Open(q)' <=> Open(q))
    BY <1>3 DEF Open
  <2>2. \A q \in Requests : q # r => (Timed(q)' <=> Timed(q))
    BY <1>3 DEF Timed
  <2>3. \A q \in Requests : Done(q)' <=> Done(q)
    BY <1>3 DEF Done
  <2>4. OpenInOrder' /\ ClockOfStop'
    BY <1>2, <2>1 DEF DrainInv, OpenInOrder, ClockOfStop
  <2>5. OlderThanStop' /\ ReturnedDrained'
    BY <1>2, <1>3, <2>2, <2>3 DEF DrainInv, OlderThanStop, ReturnedDrained
  <2>6. DrainedBeforeExit'
    BY <1>2, <1>3, <2>3 DEF DrainInv, DrainedBeforeExit
  <2> QED
    BY <2>4, <2>5, <2>6 DEF DrainInv
<1> QED
  BY <1>1, <1>4, <1>5, <1>6

\* Time goes on for requests and Shutdown alike, or the server changes.
LEMMA TimePInv ==
  ASSUME PInv, Tick \/ Environment
  PROVE  PInv'
<1> USE DEF PInv
<1>1. AInv'
  BY TickAInv, ServerChangesAInv DEF Tick, Environment
<1>2. /\ UNCHANGED <<opts, main, http, rule, signal, newFailed, failures, late>>
      /\ UNCHANGED <<pc, kind, gone>>
  BY DEF Tick, Environment, HandlerTick, ServerChanges, processVars, faultVars
<1>3. /\ \A r \in Requests : elapsed[r] \in Nat
      /\ stopping \in Nat /\ stopping <= FiveSeconds
  BY AgentAssumption DEF TypeOK, AgentTypeOK, Ticks
<1>4. /\ stopping' = stopping \/ (main = "stop" /\ stopping' = stopping + 1)
      /\ \A r \in Requests : elapsed'[r] \in {elapsed[r], elapsed[r] + 1}
      /\ stopping' # stopping =>
           \A r \in Requests : Timed(r) => elapsed'[r] = elapsed[r] + 1
  BY DEF Tick, Environment, HandlerTick, ServerChanges, processVars
<1>5. stopping' \in Ticks
  BY <1>3, AgentAssumption
     DEF Tick, Environment, processVars, StopExpired, stopTimeout, Ticks
<1>6. TypeOK'
  BY <1>1, <1>2, <1>5 DEF AInv, TypeOK
<1>7. RuleInv'
  BY <1>2 DEF RuleInv, RuleKept, HttpInOrder, RuleRemoved
<1>8. DrainInv'
  <2>1. \A r \in Requests : (Open(r)' <=> Open(r)) /\ (Timed(r)' <=> Timed(r))
    BY <1>2 DEF Open, Timed
  <2>2. \A r \in Requests : Done(r) => Done(r)'
    BY <1>2, <1>3, <1>4, AgentAssumption DEF Done, handlerMaxDuration
  <2>3. OpenInOrder' /\ ClockOfStop'
    BY <1>2, <1>4, <2>1 DEF DrainInv, OpenInOrder, ClockOfStop
  <2>4. OlderThanStop'
    BY <1>2, <1>3, <1>4, <2>1 DEF DrainInv, OlderThanStop
  <2>5. ReturnedDrained' /\ DrainedBeforeExit'
    BY <1>2, <2>1, <2>2 DEF DrainInv, ReturnedDrained, DrainedBeforeExit
  <2> QED
    BY <2>3, <2>4, <2>5 DEF DrainInv
<1> QED
  BY <1>1, <1>6, <1>7, <1>8

\* Every step preserves the invariant.
LEMMA NextPInv == PInv /\ [Next]_vars => PInv'
<1> SUFFICES ASSUME PInv, [Next]_vars PROVE PInv'
  OBVIOUS
<1>1. CASE Start
  BY <1>1, StartPInv
<1>2. CASE Main \/ Serve \/ Signal \/ Kill
  BY <1>2, StartingPInv, StoppingPInv, EndPInv DEF Main
<1>3. CASE \E r \in Requests : Accept(r) \/ Request(r) \/ Handle(r)
  BY <1>3, HandlePInv, RequestPInv
<1>4. CASE Environment \/ Tick
  BY <1>4, TimePInv
<1>5. CASE UNCHANGED vars
  <2>1. UNCHANGED <<agentVars, opts, main, http, rule, signal, stopping,
                    newFailed, failures, late>>
    BY <1>5 DEF vars, processVars
  <2>2. /\ AInv'
        /\ \A r \in Requests :
             /\ pc'[r] = pc[r] /\ kind'[r] = kind[r] /\ elapsed'[r] = elapsed[r]
             /\ Open(r)' <=> Open(r)
             /\ Timed(r)' <=> Timed(r)
             /\ Done(r)' <=> Done(r)
    BY <2>1, RequestsKeep DEF PInv
  <2>3. TypeOK'
    BY <2>1, <2>2 DEF PInv, AInv, TypeOK
  <2>4. RuleInv'
    BY <2>1 DEF PInv, RuleInv, RuleKept, HttpInOrder, RuleRemoved
  <2>5. DrainInv'
    BY <2>1, <2>2
       DEF PInv, DrainInv, OpenInOrder, ClockOfStop, OlderThanStop,
           ReturnedDrained, DrainedBeforeExit
  <2> QED
    BY <2>2, <2>3, <2>4, <2>5 DEF PInv
<1> QED
  BY <1>1, <1>2, <1>3, <1>4, <1>5 DEF Next

\* The invariant holds throughout.
LEMMA InductivePInv == Spec => []PInv
BY InitPInv, NextPInv, PTL DEF Spec

---------------------------------------------------------------------------
(* The theorems                                                            *)

\* The rule is in the kernel at most once, whatever predecessors have left,
\* and no clock passes five seconds.
THEOREM TypeCorrect == Spec => []TypeOK
BY InductivePInv, PTL DEF PInv

\* An agent that ends by itself leaves no rule behind if it is to remove it
\* and iptables works, whatever failed before.
THEOREM RuleRemovedCorrect == Spec => []RuleRemoved
BY InductivePInv, PTL DEF PInv, RuleInv

\* The rule is there while the agent listens and while Shutdown waits.
THEOREM RuleWhileServingCorrect == Spec => []RuleWhileServing
<1>1. PInv => RuleWhileServing
  BY DEF PInv, RuleInv, RuleKept, HttpInOrder, RuleWhileServing
<1> QED
  BY <1>1, InductivePInv, PTL

\* Shutdown's time-out is long enough: it cuts off no request with time left,
\* unless it came late.
THEOREM DrainedBeforeExitCorrect == Spec => []DrainedBeforeExit
BY InductivePInv, PTL DEF PInv, DrainInv

\* A pod's request fails only when malformed, refused or abandoned, or when
\* its next attempt may come too late.
THEOREM FailsOnlyForCauseCorrect == Spec => []FailsOnlyForCause
<1>1. PInv => FailsOnlyForCause
  BY DEF PInv, AInv, RInv, ResultJustified, FailsOnlyForCause,
         handlerMaxDuration
<1> QED
  BY <1>1, InductivePInv, PTL

\* No good answer without a server that was able to give it.
THEOREM OkOnlyFromServerCorrect == Spec => []OkOnlyFromServer
<1>1. PInv => OkOnlyFromServer
  BY DEF PInv, AInv, RInv, ResultJustified, OkOnlyFromServer
<1> QED
  BY <1>1, InductivePInv, PTL

\* A server that recovers while a request is still being tried recovers in
\* time for it, whatever the ticks and however often it changes, unless the
\* request's call hangs.
THEOREM RecoveryInTimeCorrect == Spec => []RecoveryInTime
<1>1. PInv => RecoveryInTime
  BY DEF PInv, AInv, RInv, ResultJustified, RecoveryInTime, handlerMaxDuration
<1> QED
  BY <1>1, InductivePInv, PTL
=============================================================================
