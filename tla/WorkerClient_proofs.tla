------------------------ MODULE WorkerClient_proofs ------------------------
(* Each call of the worker-thread client is settled at most once, by its own *)
(* answer or by a fault, and leaves nothing behind, for any number of calls; *)
(* the metrics change nothing of this and tell what became of every call.    *)
EXTENDS MetricsMiddleware, DataLemmas

\* An entry and its timer come and go together, and belong to a call that was
\* sent and is not settled, or to one whose message could not be posted.
Linked ==
  /\ pending = timers
  /\ \A c \in Calls : phase[c] = "sent" => c \in pending
  /\ \A c \in pending : phase[c] \in {"sent", "threw"}

NotSent == {"idle", "waiting", "going"}

\* A call is posted once: one that waits for the thread has not run.
Once ==
  /\ \A i \in 1..Len(toWorker) : ran[toWorker[i].id] = "no"
  /\ \A i, j \in 1..Len(toWorker) : toWorker[i].id = toWorker[j].id => i = j
  /\ \A c \in Calls : phase[c] \in NotSent =>
       ran[c] = "no" /\ \A i \in 1..Len(toWorker) : toWorker[i].id # c
  /\ \A c \in working : ran[c] # "no"

\* What an answer on its way says is what became of its call.
Truthful == \A i \in 1..Len(toClient) : toClient[i].type = "bare" =>
  ran[toClient[i].id] = IF toClient[i].ok THEN "done" ELSE "failed"

IInv == TypeOK /\ Linked /\ Once /\ Truthful /\ AnswerIsItsOwn

----------------------------------------------------------------------------
(* Queues *)

\* What is left of a queue was in it, one place further back.
LEMMA TailOfQueue ==
  ASSUME NEW S, NEW q \in Seq(S), q # <<>>
  PROVE  /\ Head(q) \in S /\ Head(q) = q[1] /\ 1 \in 1..Len(q)
         /\ Tail(q) \in Seq(S)
         /\ \A i \in 1..Len(Tail(q)) : i + 1 \in 1..Len(q) /\ Tail(q)[i] = q[i + 1]
  OBVIOUS

\* An emptied channel is a queue of anything.
LEMMA EmptyQueue ==
  ASSUME NEW S
  PROVE  <<>> \in Seq(S)
  OBVIOUS

\* What is in a queue after an append was there before, or is new and last.
LEMMA AppendToQueue ==
  ASSUME NEW S, NEW q \in Seq(S), NEW m \in S
  PROVE  /\ Append(q, m) \in Seq(S)
         /\ \A i \in 1..Len(Append(q, m)) :
              \/ i \in 1..Len(q) /\ Append(q, m)[i] = q[i]
              \/ i = Len(q) + 1 /\ i \notin 1..Len(q) /\ Append(q, m)[i] = m
  OBVIOUS

\* Settle changes the phase of calls under way only, and to `how`.
LEMMA SettleKeeps ==
  ASSUME TypeOK, NEW C, NEW how \in Settled, Settle(C, how)
  PROVE  /\ phase' \in [Calls -> {"idle"} \cup UnderWay \cup Settled]
         /\ \A c \in Calls : \/ phase'[c] = phase[c]
                             \/ c \in C /\ phase[c] \in UnderWay /\ phase'[c] = how
  BY DEF TypeOK, Settle

----------------------------------------------------------------------------
(* Types *)

LEMMA InitTypes == Init => TypeOK
  BY EmptyQueue DEF Init, TypeOK

LEMMA ClientTypes == TypeOK /\ ClientStep => TypeOK'
<1> SUFFICES ASSUME TypeOK, ClientStep
             PROVE  TypeOK'
  OBVIOUS
<1>1. ASSUME NEW c \in Calls, Call(c)
      PROVE  TypeOK'
  BY <1>1 DEF TypeOK, Call, UnderWay, worker
<1>2. ASSUME NEW c \in Calls, SendCommand(c)
      PROVE  TypeOK'
  <2>1. toWorker' \in Seq(Requests)
    <3>1. [type |-> "bare", id |-> c] \in Requests
      BY DEF Requests
    <3> QED
      BY <1>2, <3>1, AppendToQueue DEF TypeOK, SendCommand
  <2>2. phase' \in [Calls -> {"idle"} \cup UnderWay \cup Settled]
    BY <1>2 DEF TypeOK, SendCommand, Settle, UnderWay, Settled
  <2> QED
    BY <1>2, <2>1, <2>2 DEF TypeOK, SendCommand, worker
<1>3. ASSUME NEW c \in Calls, Timeout(c)
      PROVE  TypeOK'
  BY <1>3, SettleKeeps DEF TypeOK, Timeout, worker, Settled
<1>4. CASE CheckReady
  BY <1>4 DEF TypeOK, CheckReady, worker
<1>5. CASE Ready
  BY <1>5, TailOfQueue DEF TypeOK, Ready, worker
<1>6. CASE handleWorkerResponse
  <2> DEFINE m == Head(toClient)
  <2>1. toClient' \in Seq(Answers \cup Greetings)
    BY <1>6, TailOfQueue DEF TypeOK, handleWorkerResponse
  <2>2. timers' \subseteq Calls /\ pending' \subseteq Calls
    BY <1>6 DEF TypeOK, handleWorkerResponse
  <2>3. heard' \subseteq Calls
    BY <1>6 DEF TypeOK, handleWorkerResponse, Found
  <2>4. phase' \in [Calls -> {"idle"} \cup UnderWay \cup Settled]
    <3>1. CASE Found(m) = {}
      BY <1>6, <3>1 DEF TypeOK, handleWorkerResponse
    <3>2. CASE Found(m) # {}
      <4>1. Settle(Found(m), IF m.ok THEN "resolved" ELSE "rejected")
        BY <1>6, <3>2 DEF handleWorkerResponse
      <4> QED
        BY <4>1 DEF TypeOK, Settle, Settled
    <3> QED
      BY <3>1, <3>2
  <2> QED
    BY <1>6, <2>1, <2>2, <2>3, <2>4 DEF TypeOK, handleWorkerResponse, worker
<1>7. CASE WorkerError
  BY <1>7, SettleKeeps DEF TypeOK, WorkerError, worker, Settled
<1>8. CASE WorkerExit
  BY <1>8 DEF TypeOK, WorkerExit, worker
<1>9. CASE Close
  BY <1>9 DEF TypeOK, Close, worker
<1>10. CASE DestroyFails
  BY <1>10 DEF TypeOK, DestroyFails, worker
<1>11. CASE Terminate
  BY <1>11, SettleKeeps DEF TypeOK, Terminate, worker, Settled
<1>12. CASE Terminated
  BY <1>12, EmptyQueue DEF TypeOK, Terminated
<1> QED
  BY <1>1, <1>2, <1>3, <1>4, <1>5, <1>6, <1>7, <1>8, <1>9, <1>10, <1>11, <1>12
     DEF ClientStep

LEMMA WorkerTypes == TypeOK /\ WorkerStep => TypeOK'
<1> SUFFICES ASSUME TypeOK, WorkerStep
             PROVE  TypeOK'
  OBVIOUS
<1>1. CASE Boot
  <2>1. /\ [type |-> "ready"] \in Answers \cup Greetings
        /\ [type |-> "event"] \in Answers \cup Greetings
    BY DEF Greetings
  <2>2. toClient' \in Seq(Answers \cup Greetings)
    <3>1. toClient \in Seq(Answers \cup Greetings)
      BY DEF TypeOK
    <3>2. \/ toClient' = Append(toClient, [type |-> "ready"])
          \/ toClient' = Append(toClient, [type |-> "event"])
      BY <1>1 DEF Boot
    <3> QED
      BY <2>1, <3>1, <3>2, AppendToQueue
  <2>3. toWorker' \in Seq(Requests)
    <3>1. toWorker \in Seq(Requests)
      BY DEF TypeOK
    <3>2. toWorker' = toWorker \/ (toWorker # <<>> /\ toWorker' = Tail(toWorker))
      BY <1>1 DEF Boot
    <3> QED
      BY <3>1, <3>2, TailOfQueue
  <2> QED
    BY <1>1, <2>2, <2>3 DEF TypeOK, Boot, client
<1>2. CASE handleRequest
  <2>1. toWorker' \in Seq(Requests) /\ Head(toWorker).id \in Calls
    <3>1. toWorker \in Seq(Requests) /\ toWorker # <<>> /\ toWorker' = Tail(toWorker)
      BY <1>2 DEF TypeOK, handleRequest
    <3>2. Head(toWorker) \in Requests /\ Tail(toWorker) \in Seq(Requests)
      BY <3>1, TailOfQueue
    <3> QED
      BY <3>1, <3>2 DEF Requests
  <2>2. ran' \in [Calls -> {"no", "done", "failed"}]
    BY <1>2, <2>1 DEF TypeOK, handleRequest, Outcomes
  <2>3. working' \subseteq Calls
    BY <1>2, <2>1 DEF TypeOK, handleRequest
  <2> QED
    BY <1>2, <2>1, <2>2, <2>3 DEF TypeOK, handleRequest, client
<1>3. ASSUME NEW c \in Calls, Respond(c)
      PROVE  TypeOK'
  <2> DEFINE m == [type |-> IF Speaks = "client" THEN "bare" ELSE "response",
                   id |-> c, ok |-> ran[c] = "done"]
  <2>1. m \in Answers \cup Greetings
    BY DEF Answers
  <2>2. toClient' \in Seq(Answers \cup Greetings)
    BY <1>3, <2>1, AppendToQueue DEF TypeOK, Respond
  <2> QED
    BY <1>3, <2>2 DEF TypeOK, Respond, client
<1>4. CASE Crash
  BY <1>4 DEF TypeOK, Crash, client
<1> QED
  BY <1>1, <1>2, <1>3, <1>4 DEF WorkerStep

\* The client's flags, calls and entries, the thread and both channels keep
\* their types through answers, timeouts, crashes and closes.
THEOREM TypeCorrect == Spec => []TypeOK
<1>1. TypeOK /\ UNCHANGED vars => TypeOK'
  BY DEF TypeOK, vars, client, worker
<1>2. TypeOK /\ [Next]_vars => TypeOK'
  BY <1>1, ClientTypes, WorkerTypes DEF Next
<1> QED
  BY InitTypes, <1>2, PTL DEF Spec
----------------------------------------------------------------------------
(* Entries, timers and phases *)

LEMMA InitLinked == Init => Linked
  BY DEF Init, Linked

LEMMA StepLinked == TypeOK /\ Linked /\ [Next]_vars => Linked'
<1> SUFFICES ASSUME TypeOK, Linked, [Next]_vars
             PROVE  Linked'
  OBVIOUS
<1>1. ASSUME NEW c \in Calls, Call(c)
      PROVE  Linked'
  BY <1>1 DEF TypeOK, Linked, Call
<1>2. ASSUME NEW c \in Calls, SendCommand(c)
      PROVE  Linked'
  <2>1. /\ phase'[c] \in {"sent", "threw"}
        /\ \A d \in Calls \ {c} : phase'[d] = phase[d]
    BY <1>2 DEF TypeOK, SendCommand, Settle, UnderWay
  <2> QED
    BY <1>2, <2>1 DEF TypeOK, Linked, SendCommand
<1>3. ASSUME NEW c \in Calls, Timeout(c)
      PROVE  Linked'
  BY <1>3 DEF TypeOK, Linked, Timeout, Settle, UnderWay
<1>4. CASE handleWorkerResponse
  <2> DEFINE m == Head(toClient)
  <2>1. CASE Found(m) = {}
    BY <1>4, <2>1 DEF TypeOK, Linked, handleWorkerResponse
  <2>2. CASE Found(m) # {}
    <3>1. /\ Settle(Found(m), IF m.ok THEN "resolved" ELSE "rejected")
          /\ timers' = timers \ Found(m) /\ pending' = pending \ Found(m)
      BY <1>4, <2>2 DEF handleWorkerResponse
    <3>2. \A c \in Calls \ Found(m) : phase'[c] = phase[c]
      BY <3>1 DEF TypeOK, Settle
    <3>3. \A c \in Found(m) : c \in Calls /\ phase'[c] # "sent"
      BY <3>1 DEF TypeOK, Settle, Found, UnderWay
    <3> QED
      BY <3>1, <3>2, <3>3 DEF TypeOK, Linked
  <2> QED
    BY <2>1, <2>2
<1>5. CASE WorkerError
  BY <1>5 DEF TypeOK, Linked, WorkerError, Settle, UnderWay
<1>6. CASE Terminate
  BY <1>6 DEF TypeOK, Linked, Terminate, Settle, UnderWay
<1>7. CASE UNCHANGED <<phase, pending, timers>>
  BY <1>7 DEF Linked
<1>8. \/ UNCHANGED <<phase, pending, timers>>
      \/ (\E c \in Calls : Call(c) \/ SendCommand(c) \/ Timeout(c))
      \/ handleWorkerResponse \/ WorkerError \/ Terminate
  BY DEF Next, ClientStep, WorkerStep, CheckReady, Ready, WorkerExit, Close,
         DestroyFails, Terminated, Boot, handleRequest, Respond, Crash, vars, client
<1> QED
  BY <1>1, <1>2, <1>3, <1>4, <1>5, <1>6, <1>7, <1>8

LEMMA LinkedInvariant == Spec => []Linked
  BY InitLinked, StepLinked, TypeCorrect, PTL DEF Spec

\* No call that was sent is forgotten: it keeps its entry and its timer until
\* its promise settles, whatever the thread and close() do meanwhile.
THEOREM NobodyIsForgotten == Spec => []NobodyForgotten
<1>1. Linked => NobodyForgotten
  BY DEF Linked, NobodyForgotten
<1> QED
  BY <1>1, LinkedInvariant, PTL

\* Whoever settles a call takes its entry and its timer away with it; only a
\* call whose message could not be posted keeps them, until the timer fires.
THEOREM NothingIsLeftOver == Spec => []NoLeftovers
<1>1. Linked => NoLeftovers
  BY DEF Linked, NoLeftovers
<1> QED
  BY <1>1, LinkedInvariant, PTL
----------------------------------------------------------------------------
(* Messages and what they say *)

LEMMA InitOnce == Init => Once /\ Truthful /\ AnswerIsItsOwn
  BY DEF Init, Once, Truthful, AnswerIsItsOwn, NotSent

\* Settling, or going on to wait, makes no call one that was not sent.
LEMMA SettledWasSent ==
  ASSUME TypeOK, Once, UNCHANGED <<toWorker, ran, working>>,
         \A c \in Calls : phase'[c] \in NotSent => phase[c] \in NotSent
  PROVE  Once'
  BY DEF Once

LEMMA StepOnce == TypeOK /\ Once /\ [Next]_vars => Once'
<1> SUFFICES ASSUME TypeOK, Once, [Next]_vars
             PROVE  Once'
  OBVIOUS
<1>1. ASSUME NEW c \in Calls, Call(c)
      PROVE  Once'
  BY <1>1, SettledWasSent DEF TypeOK, Call, worker, NotSent
<1>2. ASSUME NEW c \in Calls, SendCommand(c)
      PROVE  Once'
  <2>1. phase[c] \in NotSent /\ phase'[c] \notin NotSent
    BY <1>2 DEF TypeOK, SendCommand, Settle, NotSent, UnderWay
  <2>2. \A d \in Calls \ {c} : phase'[d] = phase[d]
    BY <1>2 DEF TypeOK, SendCommand, Settle
  <2>3. CASE toWorker' = toWorker
    BY <1>2, <2>1, <2>2, <2>3, SettledWasSent DEF SendCommand, worker
  <2>4. CASE toWorker' = Append(toWorker, [type |-> "bare", id |-> c])
    <3> DEFINE m == [type |-> "bare", id |-> c]
    <3>1. toWorker \in Seq(Requests) /\ m \in Requests
      BY DEF TypeOK, Requests
    <3>2. \A i \in 1..Len(toWorker') :
            \/ i \in 1..Len(toWorker) /\ toWorker'[i] = toWorker[i]
            \/ i = Len(toWorker) + 1 /\ i \notin 1..Len(toWorker) /\ toWorker'[i] = m
      BY <2>4, <3>1, AppendToQueue
    <3>3. ran' = ran /\ working' = working
      BY <1>2 DEF SendCommand, worker
    <3>4. ran[c] = "no" /\ \A i \in 1..Len(toWorker) : toWorker[i].id # c
      BY <2>1 DEF Once
    <3>5. m.id = c
      OBVIOUS
    <3> HIDE DEF m
    <3>6. \A i \in 1..Len(toWorker') : ran'[toWorker'[i].id] = "no"
      BY <3>2, <3>3, <3>4, <3>5 DEF Once
    <3>7. \A i, j \in 1..Len(toWorker') : toWorker'[i].id = toWorker'[j].id => i = j
      BY <3>2, <3>4, <3>5 DEF Once
    <3>8. \A d \in Calls : phase'[d] \in NotSent =>
            ran'[d] = "no" /\ \A i \in 1..Len(toWorker') : toWorker'[i].id # d
      BY <2>1, <2>2, <3>2, <3>3, <3>5 DEF Once
    <3> QED
      BY <3>3, <3>6, <3>7, <3>8 DEF Once
  <2>5. toWorker' = toWorker \/ toWorker' = Append(toWorker, [type |-> "bare", id |-> c])
    BY <1>2 DEF SendCommand
  <2> QED
    BY <2>3, <2>4, <2>5
<1>3. ASSUME NEW c \in Calls, Timeout(c)
      PROVE  Once'
  BY <1>3, SettledWasSent DEF TypeOK, Timeout, Settle, worker, NotSent
<1>4. CASE handleWorkerResponse
  <2>1. \A c \in Calls : phase'[c] \in NotSent => phase[c] \in NotSent
    <3>1. \/ phase' = phase
          \/ Settle(Found(Head(toClient)),
                    IF Head(toClient).ok THEN "resolved" ELSE "rejected")
      BY <1>4 DEF handleWorkerResponse
    <3> QED
      BY <3>1 DEF TypeOK, Settle, NotSent
  <2> QED
    BY <1>4, <2>1, SettledWasSent DEF handleWorkerResponse, worker
<1>5. CASE WorkerError
  BY <1>5, SettledWasSent DEF TypeOK, WorkerError, Settle, worker, NotSent
<1>6. CASE Terminate
  BY <1>6, SettledWasSent DEF TypeOK, Terminate, Settle, worker, NotSent
<1>7. CASE toWorker' = <<>> /\ working' = {} /\ UNCHANGED <<phase, ran>>
  BY <1>7 DEF Once
<1>8. CASE Boot
  <2>1. \/ toWorker' = toWorker
        \/ toWorker # <<>> /\ toWorker' = Tail(toWorker)
    BY <1>8 DEF Boot
  <2>2. CASE toWorker' = toWorker
    BY <1>8, <2>2 DEF Once, Boot, client
  <2>3. CASE toWorker # <<>> /\ toWorker' = Tail(toWorker)
    <3>1. \A i \in 1..Len(toWorker') :
            i + 1 \in 1..Len(toWorker) /\ toWorker'[i] = toWorker[i + 1]
      BY <2>3, TailOfQueue DEF TypeOK
    <3> QED
      <4>1. UNCHANGED <<phase, ran, working>>
        BY <1>8 DEF Boot, client
      <4>2. \A i \in 1..Len(toWorker') : ran'[toWorker'[i].id] = "no"
        BY <3>1, <4>1 DEF Once
      <4>3. \A i, j \in 1..Len(toWorker') : toWorker'[i].id = toWorker'[j].id => i = j
        BY <3>1 DEF Once
      <4>4. \A d \in Calls : phase'[d] \in NotSent =>
              ran'[d] = "no" /\ \A i \in 1..Len(toWorker') : toWorker'[i].id # d
        BY <3>1, <4>1 DEF Once
      <4> QED
        BY <4>1, <4>2, <4>3, <4>4 DEF Once
  <2> QED
    BY <2>1, <2>2, <2>3
<1>9. CASE handleRequest
  <2> DEFINE c == Head(toWorker).id
  <2>1. \A i \in 1..Len(toWorker') :
          i + 1 \in 1..Len(toWorker) /\ toWorker'[i] = toWorker[i + 1]
    BY <1>9, TailOfQueue DEF TypeOK, handleRequest
  <2>2. Head(toWorker) = toWorker[1] /\ 1 \in 1..Len(toWorker) /\ c \in Calls
    <3>1. toWorker \in Seq(Requests) /\ toWorker # <<>>
      BY <1>9 DEF TypeOK, handleRequest
    <3>2. Head(toWorker) \in Requests
      BY <3>1, TailOfQueue
    <3> QED
      BY <3>1, <3>2, TailOfQueue DEF Requests
  <2>3. \A d \in Calls \ {c} : ran'[d] = ran[d]
    BY <1>9 DEF TypeOK, handleRequest
  <2>4. \A i \in 1..Len(toWorker') : toWorker'[i].id # c /\ toWorker'[i].id \in Calls
    <3>1. \A i \in 1..Len(toWorker) : toWorker[i].id \in Calls
      <4>1. toWorker \in Seq(Requests)
        BY DEF TypeOK
      <4>2. \A i \in 1..Len(toWorker) : toWorker[i] \in Requests
        BY <4>1
      <4> QED
        BY <4>2 DEF Requests
    <3> QED
      BY <2>1, <2>2, <3>1 DEF Once
  <2>5. phase[c] \notin NotSent
    BY <2>2 DEF Once
  <2>6. \A d \in working' : ran'[d] # "no"
    <3>1. ran'[c] # "no" \/ (working' = working /\ ran' = ran)
      BY <1>9, <2>2 DEF TypeOK, handleRequest, Outcomes
    <3>2. working' \subseteq working \cup {c} /\ working \subseteq Calls
      BY <1>9 DEF TypeOK, handleRequest
    <3> QED
      BY <2>3, <3>1, <3>2 DEF Once
  <2>7. phase' = phase
    BY <1>9 DEF handleRequest, client
  <2> HIDE DEF c
  <2>8. \A i \in 1..Len(toWorker') : ran'[toWorker'[i].id] = "no"
    BY <2>1, <2>3, <2>4 DEF Once
  <2>9. \A i, j \in 1..Len(toWorker') : toWorker'[i].id = toWorker'[j].id => i = j
    BY <2>1 DEF Once
  <2>10. \A d \in Calls : phase'[d] \in NotSent =>
           ran'[d] = "no" /\ \A i \in 1..Len(toWorker') : toWorker'[i].id # d
    BY <2>1, <2>3, <2>5, <2>7 DEF Once
  <2> QED
    BY <2>6, <2>8, <2>9, <2>10 DEF Once
<1>10. CASE working' \subseteq working /\ UNCHANGED <<phase, toWorker, ran>>
  BY <1>10 DEF Once
<1>11. \/ (\E c \in Calls : Call(c) \/ SendCommand(c) \/ Timeout(c))
       \/ handleWorkerResponse \/ WorkerError \/ Terminate \/ Boot \/ handleRequest
       \/ toWorker' = <<>> /\ working' = {} /\ UNCHANGED <<phase, ran>>
       \/ working' \subseteq working /\ UNCHANGED <<phase, toWorker, ran>>
  BY DEF Next, ClientStep, WorkerStep, CheckReady, Ready, WorkerExit, Close,
         DestroyFails, Terminated, Respond, Crash, vars, client, worker
<1> QED
  BY <1>1, <1>2, <1>3, <1>4, <1>5, <1>6, <1>7, <1>8, <1>9, <1>10, <1>11

\* A step that runs no call and posts no answer leaves true answers true.
LEMMA TruthfulStays ==
  ASSUME TypeOK, Truthful, ran' = ran,
         \/ toClient' = toClient
         \/ toClient' = <<>>
         \/ toClient # <<>> /\ toClient' = Tail(toClient)
  PROVE  Truthful'
<1>1. CASE toClient' = toClient
  BY <1>1 DEF Truthful
<1>2. CASE toClient' = <<>>
  BY <1>2 DEF Truthful
<1>3. CASE toClient # <<>> /\ toClient' = Tail(toClient)
  <2>1. \A i \in 1..Len(toClient') :
          i + 1 \in 1..Len(toClient) /\ toClient'[i] = toClient[i + 1]
    BY <1>3, TailOfQueue DEF TypeOK
  <2> QED
    BY <2>1 DEF Truthful
<1> QED
  BY <1>1, <1>2, <1>3

\* What the thread runs was never answered: answers under way stay true, and
\* so does what the settled calls were told.
LEMMA RunsTruthfully ==
  ASSUME TypeOK, Once, Truthful, AnswerIsItsOwn, handleRequest
  PROVE  Truthful' /\ AnswerIsItsOwn'
<1>1. UNCHANGED <<toClient, phase, heard>>
  BY DEF handleRequest, client
<1>2. \A d \in Calls : ran[d] # "no" => ran'[d] = ran[d]
  <2>1. /\ toWorker \in Seq(Requests) /\ toWorker # <<>>
        /\ ran \in [Calls -> {"no", "done", "failed"}]
    BY DEF TypeOK, handleRequest
  <2>2. ran[Head(toWorker).id] = "no"
    BY <2>1, TailOfQueue DEF Once
  <2>3. \A d \in Calls : d # Head(toWorker).id => ran'[d] = ran[d]
    BY <2>1 DEF handleRequest
  <2> QED
    BY <2>2, <2>3
<1>3. \A i \in 1..Len(toClient) : toClient[i].type = "bare" => toClient[i].id \in Calls
  <2>1. toClient \in Seq(Answers \cup Greetings)
    BY DEF TypeOK
  <2>2. \A i \in 1..Len(toClient) : toClient[i] \in Answers \cup Greetings
    BY <2>1
  <2> QED
    BY <2>2 DEF Answers, Greetings
<1>4. Truthful'
  BY <1>1, <1>2, <1>3 DEF Truthful
<1>5. AnswerIsItsOwn'
  BY <1>1, <1>2 DEF AnswerIsItsOwn
<1> QED
  BY <1>4, <1>5

\* The thread answers with what the call came to.
LEMMA RespondsTruthfully ==
  ASSUME TypeOK, Once, Truthful, NEW c \in Calls, Respond(c)
  PROVE  Truthful'
<1> DEFINE m == [type |-> IF Speaks = "client" THEN "bare" ELSE "response",
                 id |-> c, ok |-> ran[c] = "done"]
<1>1. toClient \in Seq(Answers \cup Greetings) /\ m \in Answers \cup Greetings
  BY DEF TypeOK, Answers
<1>2. \A i \in 1..Len(toClient') :
        \/ i \in 1..Len(toClient) /\ toClient'[i] = toClient[i]
        \/ toClient'[i] = m
  BY <1>1, AppendToQueue DEF Respond
<1>3. ran' = ran /\ ran[c] \in {"done", "failed"}
  BY DEF TypeOK, Once, Respond
<1>4. m.id = c /\ m.ok = (ran[c] = "done")
  OBVIOUS
<1>5. ran[m.id] = IF m.ok THEN "done" ELSE "failed"
  BY <1>3, <1>4
<1> HIDE DEF m
<1> QED
  BY <1>2, <1>3, <1>5 DEF Truthful

\* The client gives each call what its own answer says.
LEMMA SettlesTruthfully ==
  ASSUME TypeOK, Truthful, AnswerIsItsOwn, handleWorkerResponse
  PROVE  AnswerIsItsOwn'
<1> DEFINE m == Head(toClient)
           how == IF m.ok THEN "resolved" ELSE "rejected"
<1>1. toClient \in Seq(Answers \cup Greetings) /\ toClient # <<>>
  BY DEF TypeOK, handleWorkerResponse
<1>2. m.type = "bare" => ran[m.id] = IF m.ok THEN "done" ELSE "failed"
  BY <1>1, TailOfQueue DEF Truthful
<1>3. ran' = ran
  BY DEF handleWorkerResponse, worker
<1>4. CASE Found(m) = {}
  BY <1>3, <1>4 DEF handleWorkerResponse, AnswerIsItsOwn
<1>5. CASE Found(m) # {}
  <2>1. Settle(Found(m), how)
    BY <1>5 DEF handleWorkerResponse
  <2>2. heard' \subseteq heard \cup {c \in Found(m) : m.ok}
    BY <1>5 DEF handleWorkerResponse
  <2>3. \A c \in Found(m) : m.type = "bare" /\ m.id = c
    BY DEF Found
  <2> HIDE DEF m
  <2>4. \A c \in Calls : phase'[c] = phase[c] \/ (c \in Found(m) /\ phase'[c] = how)
    BY <2>1 DEF TypeOK, Settle
  <2>5. \A c \in Calls : phase'[c] = "resolved" => ran'[c] = "done"
    BY <1>2, <1>3, <2>3, <2>4 DEF AnswerIsItsOwn
  <2>6. \A c \in Calls : phase'[c] = "rejected" => ran'[c] = "failed"
    BY <1>2, <1>3, <2>3, <2>4 DEF AnswerIsItsOwn
  <2>7. \A c \in Calls : c \in heard' => ran'[c] = "done"
    BY <1>2, <1>3, <2>2, <2>3 DEF AnswerIsItsOwn
  <2> QED
    BY <2>5, <2>6, <2>7 DEF AnswerIsItsOwn
<1> QED
  BY <1>4, <1>5

\* No other step gives a call an answer.
LEMMA OthersAnswerNobody ==
  ASSUME TypeOK, AnswerIsItsOwn, UNCHANGED <<ran, heard>>,
         \A c \in Calls : phase'[c] \in {"resolved", "rejected"} => phase'[c] = phase[c]
  PROVE  AnswerIsItsOwn'
  BY DEF AnswerIsItsOwn

LEMMA StepTruthful ==
  TypeOK /\ Once /\ Truthful /\ AnswerIsItsOwn /\ [Next]_vars
    => Truthful' /\ AnswerIsItsOwn'
<1> SUFFICES ASSUME TypeOK, Once, Truthful, AnswerIsItsOwn, [Next]_vars
             PROVE  Truthful' /\ AnswerIsItsOwn'
  OBVIOUS
<1>1. ASSUME NEW c \in Calls, Call(c) \/ SendCommand(c) \/ Timeout(c)
      PROVE  Truthful' /\ AnswerIsItsOwn'
  <2>1. UNCHANGED <<ran, heard, toClient>>
    BY <1>1 DEF Call, SendCommand, Timeout, worker
  <2>2. \A d \in Calls : phase'[d] \in {"resolved", "rejected"} => phase'[d] = phase[d]
    BY <1>1 DEF TypeOK, Call, SendCommand, Timeout, Settle
  <2> QED
    BY <2>1, <2>2, TruthfulStays, OthersAnswerNobody
<1>2. CASE handleWorkerResponse
  <2>1. ran' = ran /\ toClient # <<>> /\ toClient' = Tail(toClient)
    BY <1>2 DEF handleWorkerResponse, worker
  <2> QED
    BY <1>2, <2>1, TruthfulStays, SettlesTruthfully
<1>3. CASE WorkerError \/ Terminate
  <2>1. UNCHANGED <<ran, heard, toClient>>
    BY <1>3 DEF WorkerError, Terminate, worker
  <2>2. \A d \in Calls : phase'[d] \in {"resolved", "rejected"} => phase'[d] = phase[d]
    BY <1>3 DEF TypeOK, WorkerError, Terminate, Settle
  <2> QED
    BY <2>1, <2>2, TruthfulStays, OthersAnswerNobody
<1>4. CASE handleRequest
  BY <1>4, RunsTruthfully
<1>5. ASSUME NEW c \in Calls, Respond(c)
      PROVE  Truthful' /\ AnswerIsItsOwn'
  <2>1. UNCHANGED <<ran, heard, phase>>
    BY <1>5 DEF Respond, client
  <2> QED
    BY <1>5, <2>1, RespondsTruthfully, OthersAnswerNobody
<1>6. CASE Boot
  <2>1. UNCHANGED <<ran, heard, phase>>
    BY <1>6 DEF Boot, client
  <2>2. \E m \in Greetings : toClient' = Append(toClient, m)
    BY <1>6 DEF Boot, Greetings
  <2>3. PICK m \in Greetings : toClient' = Append(toClient, m)
    BY <2>2
  <2>4. toClient \in Seq(Answers \cup Greetings) /\ m \in Answers \cup Greetings
    BY DEF TypeOK
  <2>5. m.type # "bare"
    BY DEF Greetings
  <2>6. \A i \in 1..Len(toClient') :
          \/ i \in 1..Len(toClient) /\ toClient'[i] = toClient[i]
          \/ toClient'[i] = m
    BY <2>3, <2>4, AppendToQueue
  <2>7. Truthful'
    BY <2>1, <2>5, <2>6 DEF Truthful
  <2> QED
    BY <2>1, <2>7, OthersAnswerNobody
<1>7. CASE /\ UNCHANGED <<ran, heard, phase>>
           /\ \/ toClient' = toClient
              \/ toClient' = <<>>
              \/ toClient # <<>> /\ toClient' = Tail(toClient)
  BY <1>7, TruthfulStays, OthersAnswerNobody
<1>8. \/ (\E c \in Calls : Call(c) \/ SendCommand(c) \/ Timeout(c))
      \/ handleWorkerResponse \/ WorkerError \/ Terminate
      \/ handleRequest \/ (\E c \in Calls : Respond(c)) \/ Boot
      \/ CheckReady \/ Ready \/ WorkerExit \/ Close \/ DestroyFails
      \/ Terminated \/ Crash \/ UNCHANGED vars
  BY DEF Next, ClientStep, WorkerStep
<1>9. ASSUME \/ CheckReady \/ Ready \/ WorkerExit \/ Close \/ DestroyFails
             \/ Terminated \/ Crash \/ UNCHANGED vars
      PROVE  /\ UNCHANGED <<ran, heard, phase>>
             /\ \/ toClient' = toClient
                \/ toClient' = <<>>
                \/ toClient # <<>> /\ toClient' = Tail(toClient)
  BY <1>9 DEF CheckReady, Ready, WorkerExit, Close, DestroyFails, Terminated, Crash,
              vars, client, worker
<1> QED
  BY <1>1, <1>2, <1>3, <1>4, <1>5, <1>6, <1>7, <1>8, <1>9

\* However late answers are and whatever settled the call before them, a call
\* is only ever told what the thread did for that call.
THEOREM AnswersAreTheirOwn == Spec => []AnswerIsItsOwn
<1>1. Init => IInv
  BY InitTypes, InitLinked, InitOnce DEF IInv
<1>2. IInv /\ [Next]_vars => IInv'
  <2>1. TypeOK /\ [Next]_vars => TypeOK'
    <3>1. TypeOK /\ UNCHANGED vars => TypeOK'
      BY DEF TypeOK, vars, client, worker
    <3> QED
      BY <3>1, ClientTypes, WorkerTypes DEF Next
  <2> QED
    BY <2>1, StepLinked, StepOnce, StepTruthful DEF IInv
<1>3. IInv => AnswerIsItsOwn
  BY DEF IInv
<1> QED
  BY <1>1, <1>2, <1>3, PTL DEF Spec
----------------------------------------------------------------------------
(* Settled is settled *)

\* A promise settles once, and only a call under way settles.
LEMMA SettledForGood ==
  ASSUME TypeOK, [Next]_vars, NEW c \in Calls
  PROVE  /\ phase[c] \in Settled => phase'[c] = phase[c]
         /\ phase'[c] \in Settled => phase[c] # "idle"
<1>1. \/ phase' = phase
      \/ (\E d \in Calls : Call(d) \/ SendCommand(d) \/ Timeout(d))
      \/ handleWorkerResponse \/ WorkerError \/ Terminate
  BY DEF Next, ClientStep, WorkerStep, CheckReady, Ready, WorkerExit, Close,
         DestroyFails, Terminated, Boot, handleRequest, Respond, Crash, vars, client
<1>2. ASSUME NEW d \in Calls, Call(d) \/ SendCommand(d)
      PROVE  /\ phase[c] \in Settled => phase'[c] = phase[c]
             /\ phase'[c] \in Settled => phase[c] # "idle"
  BY <1>2 DEF TypeOK, Call, SendCommand, Settle, Settled, UnderWay
<1>3. ASSUME NEW d \in Calls, Timeout(d)
      PROVE  /\ phase[c] \in Settled => phase'[c] = phase[c]
             /\ phase'[c] \in Settled => phase[c] # "idle"
  BY <1>3 DEF TypeOK, Timeout, Settle, Settled, UnderWay
<1>4. CASE handleWorkerResponse
  BY <1>4 DEF TypeOK, handleWorkerResponse, Settle, Settled, UnderWay
<1>5. CASE WorkerError \/ Terminate
  BY <1>5 DEF TypeOK, WorkerError, Terminate, Settle, Settled, UnderWay
<1> QED
  BY <1>1, <1>2, <1>3, <1>4, <1>5 DEF Settled
----------------------------------------------------------------------------
(* The metrics *)

\* Every step of the metered client is one of the client, or changes none of it.
LEMMA MeteredStep == [MeteredNext]_<<vars, metrics>> => [Next]_vars
  BY DEF MeteredNext, Reset

\* The metrics only watch: what the client does with them around it, it also
\* does without them, so that all that is proved of the client holds here.
LEMMA MeteringChangesNothing == MeteredSpec => FairSpec
<1>1. MetricsInit => Init
  BY DEF MetricsInit
<1>2. MeteredSpec => Init /\ [][Next]_vars
  BY <1>1, MeteredStep, PTL DEF MeteredSpec
<1>3. MeteredSpec => Fairness
  BY PTL DEF MeteredSpec
<1> QED
  BY <1>2, <1>3, PTL DEF FairSpec, Spec

LEMMA MeteredTypes == MeteredSpec => []TypeOK
  BY MeteringChangesNothing, TypeCorrect, PTL DEF FairSpec

\* How many calls of a kind there are is a number.
LEMMA CallsCounted ==
  ASSUME NEW S \in SUBSET Calls
  PROVE  IsFiniteSet(S) /\ Cardinality(S) \in Nat
  BY MetricsAssumption, FS_Subset, FS_CardinalityType

LEMMA InitMetricsTypes == MetricsInit => MetricsTypeOK
<1> SUFFICES ASSUME MetricsInit
             PROVE  MetricsTypeOK
  OBVIOUS
<1>1. TypeOK
  BY InitTypes DEF MetricsInit
<1>2. 0 \in 0..MaxResets
  BY MetricsAssumption
<1> QED
  BY <1>1, <1>2 DEF MetricsInit, MetricsTypeOK

LEMMA StepMetricsTypes ==
  MetricsTypeOK /\ TypeOK' /\ [MeteredNext]_<<vars, metrics>> => MetricsTypeOK'
<1> SUFFICES ASSUME MetricsTypeOK, TypeOK', [MeteredNext]_<<vars, metrics>>
             PROVE  MetricsTypeOK'
  OBVIOUS
<1>1. CASE Record
  <2>1. /\ Returned \subseteq Calls /\ Thrown \subseteq Calls
        /\ \A k \in Used : /\ Counted(Returned, k) \subseteq Calls
                           /\ Counted(Thrown, k) \subseteq Calls
    BY DEF Returned, Thrown, Counted
  <2>2. \A k \in Used : /\ count[k] + Cardinality(Counted(Returned, k)) \in Nat
                        /\ errors[k] + Cardinality(Counted(Thrown, k)) \in Nat
    BY <2>1, CallsCounted DEF MetricsTypeOK
  <2>3. count' \in [Used -> Nat] /\ errors' \in [Used -> Nat]
    BY <1>1, <2>2 DEF Record
  <2>4. totalCommands' \in Nat /\ totalErrors' \in Nat
    BY <1>1, <2>1, CallsCounted DEF Record, MetricsTypeOK
  <2> QED
    BY <1>1, <2>3, <2>4 DEF Record, MetricsTypeOK
<1>2. CASE Reset
  BY <1>2, MetricsAssumption DEF Reset, MetricsTypeOK
<1>3. CASE UNCHANGED <<vars, metrics>>
  BY <1>3 DEF metrics, MetricsTypeOK, Used
<1> QED
  BY <1>1, <1>2, <1>3 DEF MeteredNext

\* The counters stay natural numbers, and a call holds on to a metrics object
\* that was once the present one.
THEOREM MetricsTypeCorrect == MeteredSpec => []MetricsTypeOK
  BY InitMetricsTypes, StepMetricsTypes, MeteredTypes, PTL DEF MeteredSpec
----------------------------------------------------------------------------
(* The totals *)

\* A set of calls grows by other calls.
LEMMA Grown ==
  ASSUME NEW S \in SUBSET Calls, NEW T \in SUBSET Calls, S \cap T = {}
  PROVE  Cardinality(S \cup T) = Cardinality(S) + Cardinality(T)
<1>1. IsFiniteSet(S) /\ IsFiniteSet(T)
  BY CallsCounted
<1>2. Cardinality(S \cup T) = Cardinality(S) + Cardinality(T) - Cardinality(S \cap T)
  BY <1>1, FS_Union
<1>3. Cardinality(S \cap T) = 0
  BY FS_EmptySet
<1>4. Cardinality(S) \in Nat /\ Cardinality(T) \in Nat
  BY CallsCounted
<1> QED
  BY <1>2, <1>3, <1>4

LEMMA InitTells == MetricsInit => MetricsTellCalls
<1> SUFFICES ASSUME MetricsInit
             PROVE  MetricsTellCalls
  OBVIOUS
<1>1. /\ {c \in Calls : phase[c] = "resolved"} = {}
      /\ {c \in Calls : phase[c] \in Settled \ {"resolved"}} = {}
  BY DEF MetricsInit, Init, Settled
<1> QED
  BY <1>1, FS_EmptySet DEF MetricsInit, MetricsTellCalls

LEMMA StepTells ==
  MetricsTypeOK /\ MetricsTellCalls /\ [MeteredNext]_<<vars, metrics>>
    => MetricsTellCalls'
<1> SUFFICES ASSUME MetricsTypeOK, MetricsTellCalls, [MeteredNext]_<<vars, metrics>>,
                    resets' = 0
             PROVE  /\ totalCommands' = Cardinality({c \in Calls : phase'[c] = "resolved"})
                    /\ totalErrors' = Cardinality(
                         {c \in Calls : phase'[c] \in Settled \ {"resolved"}})
  BY DEF MetricsTellCalls
<1> DEFINE good == {c \in Calls : phase[c] = "resolved"}
           bad  == {c \in Calls : phase[c] \in Settled \ {"resolved"}}
<1>1. CASE Next /\ Record
  <2>1. \A c \in Calls : /\ phase[c] \in Settled => phase'[c] = phase[c]
                         /\ phase'[c] \in Settled => phase[c] # "idle"
    BY <1>1, SettledForGood DEF MetricsTypeOK
  <2>2. \A c \in Calls : phase[c] \in {"idle"} \cup UnderWay \cup Settled
    BY DEF MetricsTypeOK, TypeOK
  <2>3. {c \in Calls : phase'[c] = "resolved"} = good \cup Returned
    BY <2>1, <2>2 DEF Returned, Settled
  <2>4. {c \in Calls : phase'[c] \in Settled \ {"resolved"}} = bad \cup Thrown
    BY <2>1, <2>2 DEF Thrown
  <2>5. good \cap Returned = {} /\ bad \cap Thrown = {}
    BY DEF Returned, Thrown, Settled, UnderWay
  <2>6. /\ Cardinality(good \cup Returned) = Cardinality(good) + Cardinality(Returned)
        /\ Cardinality(bad \cup Thrown) = Cardinality(bad) + Cardinality(Thrown)
    BY <2>5, Grown DEF Returned, Thrown
  <2>7. resets = 0
    BY <1>1 DEF Record
  <2> QED
    BY <1>1, <2>3, <2>4, <2>6, <2>7 DEF Record, MetricsTellCalls
<1>2. CASE Reset
  BY <1>2 DEF Reset, MetricsTypeOK
<1>3. CASE UNCHANGED <<vars, metrics>>
  BY <1>3 DEF vars, client, metrics, MetricsTellCalls
<1> QED
  BY <1>1, <1>2, <1>3 DEF MeteredNext

\* As long as nobody resets the metrics they count every answered call and every
\* call that failed, timed out or was cut off, each once.
THEOREM MetricsTellTheTruth == MeteredSpec => []MetricsTellCalls
  BY InitTells, StepTells, MetricsTypeCorrect, PTL DEF MeteredSpec
----------------------------------------------------------------------------
(* The counters of the commands against the totals *)

\* How many calls of S are counted for each command.
CountOf(S) == [k \in Used |-> Cardinality(Counted(S, k))]

\* The calls of S that are counted for some command.
Captured(S) == {c \in S : capturedIn[c] = resets}

LEMMA CountsAreNumbers ==
  ASSUME NEW S \in SUBSET Calls
  PROVE  /\ IsFiniteSet(Used)
         /\ CountOf(S) \in [Used -> Int]
         /\ \A k \in Used : CountOf(S)[k] \in Nat
<1>1. IsFiniteSet(Used)
  BY MetricsAssumption, ImageIsFinite DEF Used
<1>2. \A k \in Used : Counted(S, k) \in SUBSET Calls
  BY DEF Counted
<1>3. \A k \in Used : Cardinality(Counted(S, k)) \in Nat
  BY <1>2, CallsCounted
<1> QED
  BY <1>1, <1>3 DEF CountOf

\* Each captured call is counted for exactly one command.
LEMMA CountsAddUp ==
  ASSUME NEW S \in SUBSET Calls
  PROVE  SumFunction(CountOf(S)) = Cardinality(Captured(S))
<1> DEFINE G == {s \in SUBSET Calls : SumFunction(CountOf(s)) = Cardinality(Captured(s))}
<1>1. ASSUME NEW s \in SUBSET Calls, \A t \in SUBSET s : t # s => t \in G
      PROVE  s \in G
  <2>1. IsFiniteSet(Used) /\ CountOf(s) \in [Used -> Int]
    BY CountsAreNumbers
  <2>2. CASE s = {}
    <3>1. Captured(s) = {} /\ \A k \in Used : Counted(s, k) = {}
      BY <2>2 DEF Captured, Counted
    <3>2. Cardinality(Captured(s)) = 0 /\ \A k \in Used : CountOf(s)[k] = 0
      BY <3>1, FS_EmptySet DEF CountOf
    <3> QED
      BY <2>1, <3>2, SumOfZeros
  <2>3. CASE s # {}
    <3>1. PICK c \in s : TRUE
      BY <2>3
    <3> DEFINE r == s \ {c}
               x == CommandOf[c]
    <3>2. r \in SUBSET s /\ r # s /\ r \in SUBSET Calls /\ c \in Calls /\ x \in Used
      BY <3>1 DEF Used
    <3>3. SumFunction(CountOf(r)) = Cardinality(Captured(r))
      BY <1>1, <3>2
    <3>4. CountOf(r) \in [Used -> Int] /\ \A k \in Used : CountOf(r)[k] \in Nat
      BY <3>2, CountsAreNumbers
    <3>5. Captured(r) \in SUBSET Calls /\ Counted(r, x) \in SUBSET Calls
      BY <3>2 DEF Captured, Counted
    <3>6. /\ IsFiniteSet(Captured(r)) /\ Cardinality(Captured(r)) \in Nat
          /\ IsFiniteSet(Counted(r, x)) /\ Cardinality(Counted(r, x)) \in Nat
      BY <3>5, CallsCounted
    <3>7. CASE capturedIn[c] # resets
      <4>1. Captured(s) = Captured(r) /\ \A k \in Used : Counted(s, k) = Counted(r, k)
        BY <3>7 DEF Captured, Counted
      <4>2. CountOf(s) = CountOf(r)
        BY <4>1 DEF CountOf
      <4> QED
        BY <3>3, <4>1, <4>2
    <3>8. CASE capturedIn[c] = resets
      <4>1. /\ Captured(s) = Captured(r) \cup {c} /\ c \notin Captured(r)
            /\ Counted(s, x) = Counted(r, x) \cup {c} /\ c \notin Counted(r, x)
        BY <3>1, <3>8 DEF Captured, Counted
      <4>2. \A k \in Used : k # x => Counted(s, k) = Counted(r, k)
        BY DEF Counted
      <4>3. /\ Cardinality(Captured(s)) = Cardinality(Captured(r)) + 1
            /\ Cardinality(Counted(s, x)) = Cardinality(Counted(r, x)) + 1
        BY <3>6, <4>1, FS_AddElement
      <4>4. \A k \in Used : k # x => CountOf(s)[k] = CountOf(r)[k]
        BY <4>2 DEF CountOf
      <4>5. CountOf(s)[x] = CountOf(r)[x] + 1
        BY <3>2, <4>3 DEF CountOf
      <4>6. SumFunction(CountOf(s)) = SumFunction(CountOf(r)) - CountOf(r)[x] + CountOf(s)[x]
        <5> HIDE DEF x, r
        <5> QED
          BY <2>1, <3>2, <3>4, <4>4, SumOfChange
      <4>7. CountOf(r)[x] \in Nat
        BY <3>2, <3>4
      <4> HIDE DEF r, x
      <4> QED
        BY <3>3, <3>6, <4>3, <4>5, <4>6, <4>7
    <3> QED
      BY <3>7, <3>8
  <2> QED
    BY <2>2, <2>3
<1>2. IsFiniteSet(Calls)
  BY MetricsAssumption
<1>3. \A s \in SUBSET Calls : s \in G
  <2> HIDE DEF G
  <2> QED
    BY <1>1, <1>2, FromSmallerSets
<1> QED
  BY <1>3

\* Counting the calls of S raises a sum of counters by those of S captured.
LEMMA CountsRaise ==
  ASSUME NEW S \in SUBSET Calls, NEW f \in [Used -> Nat]
  PROVE  /\ SumFunction(f) \in Int
         /\ SumFunction([k \in Used |-> f[k] + Cardinality(Counted(S, k))])
              = SumFunction(f) + Cardinality(Captured(S))
         /\ Cardinality(Captured(S)) <= Cardinality(S)
<1> DEFINE h == [k \in Used |-> f[k] + Cardinality(Counted(S, k))]
<1>1. /\ IsFiniteSet(Used) /\ f \in [Used -> Int] /\ CountOf(S) \in [Used -> Int]
      /\ \A k \in Used : CountOf(S)[k] \in Nat
  BY CountsAreNumbers
<1>2. \A k \in Used : h[k] = f[k] + CountOf(S)[k] /\ h[k] \in Int
  BY <1>1 DEF CountOf
<1>3. h \in [Used -> Int]
  BY <1>2
<1> HIDE DEF h
<1>4. SumFunction(h) = SumFunction(f) + SumFunction(CountOf(S))
  BY <1>1, <1>2, <1>3, SumsAdd
<1>5. SumFunction(CountOf(S)) = Cardinality(Captured(S))
  BY CountsAddUp
<1>6. Cardinality(Captured(S)) <= Cardinality(S)
  BY CallsCounted, FS_Subset DEF Captured
<1> QED
  BY <1>1, <1>4, <1>5, <1>6, SumIsInt DEF h

\* Who is under way holds on to the present counters, unless a reset() came
\* while some call was.
CapturedHere ==
  ~straddled => \A c \in Calls : phase[c] \in UnderWay => capturedIn[c] = resets

TotalsInv == TotalsCoverCommands /\ CapturedHere

LEMMA InitTotals == MetricsInit => TotalsInv
<1> SUFFICES ASSUME MetricsInit
             PROVE  TotalsInv
  OBVIOUS
<1>1. IsFiniteSet(Used)
  BY MetricsAssumption, ImageIsFinite DEF Used
<1>2. SumFunction(count) = 0 /\ SumFunction(errors) = 0
  <2>1. /\ count \in [Used -> Int] /\ errors \in [Used -> Int]
        /\ \A k \in Used : count[k] = 0 /\ errors[k] = 0
    BY DEF MetricsInit
  <2> QED
    BY <1>1, <2>1, SumOfZeros
<1>3. TotalsCoverCommands
  BY <1>2 DEF MetricsInit, TotalsCoverCommands
<1>4. CapturedHere
  BY DEF MetricsInit, CapturedHere
<1> QED
  BY <1>3, <1>4 DEF TotalsInv

LEMMA RecordTotals ==
  ASSUME MetricsTypeOK, TotalsInv, Next, Record
  PROVE  TotalsInv'
<1>1. Returned \in SUBSET Calls /\ Thrown \in SUBSET Calls
  BY DEF Returned, Thrown
<1>2. count \in [Used -> Nat] /\ errors \in [Used -> Nat]
  BY DEF MetricsTypeOK
<1>3. /\ SumFunction(count) \in Int /\ SumFunction(errors) \in Int
      /\ SumFunction(count') = SumFunction(count) + Cardinality(Captured(Returned))
      /\ SumFunction(errors') = SumFunction(errors) + Cardinality(Captured(Thrown))
      /\ Cardinality(Captured(Returned)) <= Cardinality(Returned)
      /\ Cardinality(Captured(Thrown)) <= Cardinality(Thrown)
  BY <1>1, <1>2, CountsRaise DEF Record
<1>4. /\ totalCommands' = totalCommands + Cardinality(Returned)
      /\ totalErrors' = totalErrors + Cardinality(Thrown)
      /\ straddled' = straddled /\ resets' = resets
  BY DEF Record
<1>5. /\ Cardinality(Returned) \in Nat /\ Cardinality(Thrown) \in Nat
      /\ Cardinality(Captured(Returned)) \in Nat /\ Cardinality(Captured(Thrown)) \in Nat
      /\ totalCommands \in Nat /\ totalErrors \in Nat
  BY <1>1, CallsCounted DEF MetricsTypeOK, Captured
<1>6. ~straddled => Captured(Returned) = Returned /\ Captured(Thrown) = Thrown
  BY DEF TotalsInv, CapturedHere, Captured, Returned, Thrown
<1>7. /\ SumFunction(count') <= totalCommands' /\ SumFunction(errors') <= totalErrors'
      /\ ~straddled' => /\ SumFunction(count') = totalCommands'
                        /\ SumFunction(errors') = totalErrors'
  <2>1. /\ SumFunction(count) <= totalCommands /\ SumFunction(errors) <= totalErrors
        /\ ~straddled => /\ SumFunction(count) = totalCommands
                         /\ SumFunction(errors) = totalErrors
    BY DEF TotalsInv, TotalsCoverCommands
  <2>2. /\ SumFunction(count') <= totalCommands' /\ SumFunction(errors') <= totalErrors'
    BY <1>3, <1>4, <1>5, <2>1
  <2>3. ~straddled' => /\ SumFunction(count') = totalCommands'
                       /\ SumFunction(errors') = totalErrors'
    BY <1>3, <1>4, <1>5, <1>6, <2>1
  <2> QED
    BY <2>2, <2>3
<1>8. CapturedHere'
  <2> SUFFICES ASSUME ~straddled, NEW c \in Calls, phase'[c] \in UnderWay
               PROVE  capturedIn'[c] = resets
    BY <1>4 DEF CapturedHere
  <2>1. phase[c] \in {"idle"} \cup UnderWay
    BY SettledForGood DEF MetricsTypeOK, TypeOK, UnderWay, Settled
  <2>2. CASE phase[c] = "idle"
    BY <2>2 DEF Record, Begun, UnderWay
  <2>3. CASE phase[c] \in UnderWay
    <3>1. c \notin Begun /\ capturedIn[c] = resets
      BY <2>3 DEF Begun, UnderWay, TotalsInv, CapturedHere
    <3> QED
      BY <3>1 DEF Record
  <2> QED
    BY <2>1, <2>2, <2>3
<1> QED
  BY <1>7, <1>8 DEF TotalsInv, TotalsCoverCommands

LEMMA ResetKeepsTotals ==
  ASSUME MetricsTypeOK, TotalsInv, Reset
  PROVE  TotalsInv'
<1>1. IsFiniteSet(Used)
  BY MetricsAssumption, ImageIsFinite DEF Used
<1>2. SumFunction(count') = 0 /\ SumFunction(errors') = 0
  <2>1. /\ count' \in [Used -> Int] /\ errors' \in [Used -> Int]
        /\ \A k \in Used : count'[k] = 0 /\ errors'[k] = 0
    BY DEF Reset
  <2> QED
    BY <1>1, <2>1, SumOfZeros
<1>3. TotalsCoverCommands'
  BY <1>2 DEF Reset, TotalsCoverCommands
<1>4. CapturedHere'
  BY DEF Reset, CapturedHere, vars, client
<1> QED
  BY <1>3, <1>4 DEF TotalsInv

LEMMA StepTotals ==
  MetricsTypeOK /\ TotalsInv /\ [MeteredNext]_<<vars, metrics>> => TotalsInv'
<1> SUFFICES ASSUME MetricsTypeOK, TotalsInv, [MeteredNext]_<<vars, metrics>>
             PROVE  TotalsInv'
  OBVIOUS
<1>1. CASE UNCHANGED <<vars, metrics>>
  BY <1>1 DEF TotalsInv, TotalsCoverCommands, CapturedHere, vars, client, metrics
<1> QED
  BY <1>1, RecordTotals, ResetKeepsTotals DEF MeteredNext

\* However calls and resets interleave, the counters of the commands never
\* exceed the totals, and add up to them unless a reset() came while a call was
\* under way.
THEOREM TotalsCoverTheCommands == MeteredSpec => []TotalsCoverCommands
<1>1. TotalsInv => TotalsCoverCommands
  BY DEF TotalsInv
<1> QED
  BY <1>1, InitTotals, StepTotals, MetricsTypeCorrect, PTL DEF MeteredSpec
=============================================================================
