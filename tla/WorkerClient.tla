---------------------------- MODULE WorkerClient ----------------------------
(***************************************************************************)
(* The client that talks to a worker thread (client/SnapDB.ts), the thread, *)
(* and the two message channels between them.                               *)
(*                                                                          *)
(* The client and worker.ts do not speak the same language: each waits for  *)
(* the other's first message, and each drops the shape of message that the  *)
(* other posts.  Speaks chooses the thread: "worker.ts" is the one in this  *)
(* repository, "client" is one that speaks as the client expects it.        *)
(*                                                                          *)
(* A call is under way from its method's start until its promise settles.   *)
(* One step is one callback of the event loop with the microtasks after it. *)
(***************************************************************************)
EXTENDS Naturals, Sequences

CONSTANTS
  Calls,      \* the calls of commands, each made at most once
  CommandOf,  \* the command of each call
  Speaks,     \* the language of the thread: "client" or "worker.ts"
  CanCrash,   \* the thread may end in an uncaught error
  CanClose    \* the application may close the client

CommandType == {"SET", "GET", "DEL", "EXISTS", "EXPIRE", "TTL", "INCR", "DECR",
                "KEYS", "FLUSHALL", "INFO", "MGET", "MSET"}

ASSUME WorkerAssumption ==
  /\ CommandOf \in [Calls -> CommandType]
  /\ Speaks \in {"client", "worker.ts"}
  /\ CanCrash \in BOOLEAN /\ CanClose \in BOOLEAN

VARIABLES
  isReady,     \* a message of type 'ready' has arrived, and no close() since
  readied,     \* the promise that initializeWorker returned is resolved
  phase,       \* how far each call is, or how its promise settled
  pending,     \* calls with an entry in pendingRequests
  timers,      \* calls whose timer is armed
  closing,     \* how far close() is
  heard,       \* calls whose event reached the listeners of the client
  alarm,       \* the client has emitted 'error'
  thread,      \* the state of the worker thread
  working,     \* calls the thread has executed and not yet answered
  ran,         \* what executing each call came to
  toWorker,    \* messages posted to the thread
  toClient,    \* messages posted to the client
  trouble      \* the thread's 'error' and 'exit' events still to be delivered

client == <<isReady, readied, phase, pending, timers, closing, heard, alarm>>
worker == <<thread, working, ran>>
vars == <<client, worker, toWorker, toClient, trouble>>

UnderWay == {"waiting", "going", "sent"}
Settled == {"resolved", "rejected", "timeout", "crashed", "closing", "threw"}

Requests == [type : {"bare"}, id : Calls]
Answers == [type : {"bare", "response"}, id : Calls, ok : BOOLEAN]
Greetings == [type : {"ready", "event"}]

TypeOK ==
  /\ isReady \in BOOLEAN /\ readied \in BOOLEAN /\ alarm \in BOOLEAN
  /\ phase \in [Calls -> {"idle"} \cup UnderWay \cup Settled]
  /\ pending \subseteq Calls /\ timers \subseteq Calls /\ heard \subseteq Calls
  /\ closing \in {"open", "destroying", "terminating", "closed"}
  /\ thread \in {"booting", "serving", "dead"}
  /\ working \subseteq Calls
  /\ ran \in [Calls -> {"no", "done", "failed"}]
  /\ toWorker \in Seq(Requests)
  /\ toClient \in Seq(Answers \cup Greetings)
  /\ trouble \subseteq {"error", "exit"}

Init ==
  /\ isReady = FALSE /\ readied = FALSE /\ alarm = FALSE
  /\ phase = [c \in Calls |-> "idle"]
  /\ pending = {} /\ timers = {} /\ heard = {}
  /\ closing = "open"
  /\ thread = "booting"
  /\ working = {}
  /\ ran = [c \in Calls |-> "no"]
  /\ toWorker = <<>> /\ toClient = <<>>
  /\ trouble = {}

\* The promises of the calls of C settle as `how`; a settled one stays as it is.
Settle(C, how) ==
  phase' = [c \in Calls |-> IF c \in C /\ phase[c] \in UnderWay
                            THEN how ELSE phase[c]]
----------------------------------------------------------------------------
(* The client *)

\* A method of the client: the context, the middlewares, then ensureReady.  An
\* EXPIRE whose ttl is not positive is rejected before all that: it is no call.
Call(c) ==
  /\ phase[c] = "idle"
  /\ phase' = [phase EXCEPT ![c] = IF isReady THEN "going" ELSE "waiting"]
  /\ UNCHANGED <<isReady, readied, pending, timers, closing, heard, alarm,
                 worker, toWorker, toClient, trouble>>

\* checkReady polls; the first poll after 'ready' resolves the promise.
CheckReady ==
  /\ isReady /\ ~readied
  /\ readied' = TRUE
  /\ UNCHANGED <<isReady, phase, pending, timers, closing, heard, alarm,
                 worker, toWorker, toClient, trouble>>

\* Only these carry a value, which may be one that cannot be posted.
CarriesValue(c) == CommandOf[c] \in {"SET", "MSET"}

\* The executor of sendCommand's promise.  postMessage throws on a value that
\* cannot be cloned, and once close() has dropped the worker, but only after
\* the timer was armed and the entry was made.
SendCommand(c) ==
  /\ \/ phase[c] = "going"
     \/ phase[c] = "waiting" /\ readied
  /\ timers' = timers \cup {c}
  /\ pending' = pending \cup {c}
  /\ \/ /\ closing # "closed"
        /\ phase' = [phase EXCEPT ![c] = "sent"]
        /\ toWorker' = IF thread = "dead" THEN toWorker
                       ELSE Append(toWorker, [type |-> "bare", id |-> c])
     \/ /\ closing = "closed" \/ CarriesValue(c)
        /\ Settle({c}, "threw")
        /\ UNCHANGED toWorker
  /\ UNCHANGED <<isReady, readied, closing, heard, alarm, worker, toClient,
                 trouble>>

\* Mutant of Timeout: the caller is told and the entry stays.
TimeoutKeepsEntry(c) ==
  /\ c \in timers
  /\ timers' = timers \ {c}
  /\ Settle({c}, "timeout")
  /\ UNCHANGED <<isReady, readied, pending, closing, heard, alarm, worker,
                 toWorker, toClient, trouble>>

\* Mutant of Timeout: the entry goes and nobody tells the caller.
TimeoutSilent(c) ==
  /\ c \in timers
  /\ timers' = timers \ {c}
  /\ pending' = pending \ {c}
  /\ UNCHANGED <<isReady, readied, phase, closing, heard, alarm, worker,
                 toWorker, toClient, trouble>>

Timeout(c) ==
  /\ c \in timers
  /\ timers' = timers \ {c}
  /\ pending' = pending \ {c}
  /\ Settle({c}, "timeout")
  /\ UNCHANGED <<isReady, readied, closing, heard, alarm, worker, toWorker,
                 toClient, trouble>>

Ready ==
  /\ toClient # <<>> /\ Head(toClient).type = "ready"
  /\ isReady' = TRUE
  /\ toClient' = Tail(toClient)
  /\ UNCHANGED <<readied, phase, pending, timers, closing, heard, alarm,
                 worker, toWorker, trouble>>

\* The calls that emit an event once they are answered; EXPIRE does only when
\* the answer is true.
Emits(c) == CommandOf[c] \in {"SET", "GET", "DEL", "FLUSHALL"}
MayEmit(c) == Emits(c) \/ CommandOf[c] = "EXPIRE"

\* The entry that an answer finds in pendingRequests, by the id it carries.
Found(m) == {c \in pending : m.type = "bare" /\ m.id = c}

\* Mutant of handleWorkerResponse: an answer settles any call that waits.
AnswerAnyone ==
  /\ toClient # <<>> /\ Head(toClient).type # "ready"
  /\ toClient' = Tail(toClient)
  /\ IF pending = {}
       THEN UNCHANGED <<phase, pending, timers>>
       ELSE \E c \in pending :
              /\ timers' = timers \ {c}
              /\ pending' = pending \ {c}
              /\ Settle({c}, IF Head(toClient).ok THEN "resolved" ELSE "rejected")
  /\ UNCHANGED <<isReady, readied, closing, heard, alarm, worker, toWorker,
                 trouble>>

\* Anything that is not 'ready' is taken for an answer.  One whose id is not
\* in pendingRequests, or that has no id where the client looks, is dropped.
handleWorkerResponse ==
  /\ toClient # <<>> /\ Head(toClient).type # "ready"
  /\ toClient' = Tail(toClient)
  /\ LET m == Head(toClient)
     IN  /\ timers' = timers \ Found(m)
         /\ pending' = pending \ Found(m)
         /\ IF Found(m) = {}
              THEN UNCHANGED <<phase, heard>>
              ELSE /\ Settle(Found(m), IF m.ok THEN "resolved" ELSE "rejected")
                   /\ \/ heard' = heard \cup {c \in Found(m) : m.ok /\ MayEmit(c)}
                      \/ heard' = heard \cup {c \in Found(m) : m.ok /\ Emits(c)}
  /\ UNCHANGED <<isReady, readied, closing, alarm, worker, toWorker, trouble>>

\* Mutant of WorkerError: the map is cleared, the promises are forgotten.
WorkerErrorForgets ==
  /\ "error" \in trouble
  /\ trouble' = trouble \ {"error"}
  /\ timers' = timers \ pending
  /\ pending' = {}
  /\ UNCHANGED <<isReady, readied, phase, closing, heard, alarm, worker,
                 toWorker, toClient>>

\* The thread's 'error' event: what is pending is rejected, isReady stays.
WorkerError ==
  /\ "error" \in trouble
  /\ trouble' = trouble \ {"error"}
  /\ timers' = timers \ pending
  /\ pending' = {}
  /\ Settle(pending, "crashed")
  /\ UNCHANGED <<isReady, readied, closing, heard, alarm, worker, toWorker,
                 toClient>>

\* The thread's 'exit' event; the code of a crashed thread is not 0.
WorkerExit ==
  /\ "exit" \in trouble /\ "error" \notin trouble
  /\ trouble' = trouble \ {"exit"}
  /\ alarm' = TRUE
  /\ UNCHANGED <<isReady, readied, phase, pending, timers, closing, heard,
                 worker, toWorker, toClient>>

\* close() first awaits the destroy() of each plugin ...
Close ==
  /\ CanClose
  /\ closing = "open"
  /\ closing' = "destroying"
  /\ UNCHANGED <<isReady, readied, phase, pending, timers, heard, alarm, worker,
                 toWorker, toClient, trouble>>

\* ... one of which may fail: close() is rejected and the client goes on ...
DestroyFails ==
  /\ closing = "destroying"
  /\ closing' = "open"
  /\ UNCHANGED <<isReady, readied, phase, pending, timers, heard, alarm, worker,
                 toWorker, toClient, trouble>>

\* ... then it rejects what is pending and terminates the thread ...
Terminate ==
  /\ closing = "destroying"
  /\ closing' = "terminating"
  /\ timers' = timers \ pending
  /\ pending' = {}
  /\ Settle(pending, "closing")
  /\ UNCHANGED <<isReady, readied, heard, alarm, worker, toWorker, toClient,
                 trouble>>

\* ... and when the thread is gone, worker, isReady and listeners go too.  The
\* exit code of a terminated thread is not 0 either.
Terminated ==
  /\ closing = "terminating" /\ trouble = {}
  /\ closing' = "closed"
  /\ isReady' = FALSE
  /\ alarm' = (alarm \/ thread # "dead")
  /\ thread' = "dead"
  /\ working' = {} /\ toWorker' = <<>> /\ toClient' = <<>>
  /\ UNCHANGED <<readied, phase, pending, timers, heard, ran, trouble>>
----------------------------------------------------------------------------
(* The thread *)

\* worker.ts starts when it gets its first message, whatever that is; a thread
\* that speaks as the client expects it starts by itself.
Boot ==
  /\ thread = "booting"
  /\ thread' = "serving"
  /\ IF Speaks = "client"
       THEN /\ toClient' = Append(toClient, [type |-> "ready"])
            /\ UNCHANGED toWorker
       ELSE /\ toWorker # <<>>
            /\ toWorker' = Tail(toWorker)
            /\ toClient' = Append(toClient, [type |-> "event"])
  /\ UNCHANGED <<client, working, ran, trouble>>

\* Mutant of Outcomes: without the default case an unknown command just ends.
OutcomesFallThrough(c) ==
  IF CommandOf[c] \in {"MGET", "MSET"} THEN {"undefined"} ELSE {"done", "failed"}

\* executeCommand has no case for MGET and MSET; any other command may fail too.
Outcomes(c) ==
  IF CommandOf[c] \in {"MGET", "MSET"} THEN {"failed"} ELSE {"done", "failed"}

\* The message handler: worker.ts ignores what is not wrapped as a 'request'.
handleRequest ==
  /\ thread = "serving" /\ toWorker # <<>>
  /\ toWorker' = Tail(toWorker)
  /\ IF Speaks = "client"
       THEN LET c == Head(toWorker).id
            IN  /\ \E o \in Outcomes(c) : ran' = [ran EXCEPT ![c] = o]
                /\ working' = working \cup {c}
       ELSE UNCHANGED <<working, ran>>
  /\ UNCHANGED <<client, thread, toClient, trouble>>

\* sendResponse and sendError.
Respond(c) ==
  /\ thread = "serving" /\ c \in working
  /\ working' = working \ {c}
  /\ toClient' = Append(toClient,
                   [type |-> IF Speaks = "client" THEN "bare" ELSE "response",
                    id |-> c, ok |-> ran[c] = "done"])
  /\ UNCHANGED <<client, thread, ran, toWorker, trouble>>

\* An uncaught error in the thread, at whatever point it is.
Crash ==
  /\ CanCrash /\ thread # "dead"
  /\ thread' = "dead"
  /\ working' = {} /\ toWorker' = <<>>
  /\ trouble' = {"error", "exit"}
  /\ UNCHANGED <<client, ran, toClient>>

ClientStep ==
  \/ \E c \in Calls : Call(c) \/ SendCommand(c) \/ Timeout(c)
  \/ CheckReady \/ Ready \/ handleWorkerResponse
  \/ WorkerError \/ WorkerExit
  \/ Close \/ DestroyFails \/ Terminate \/ Terminated

WorkerStep ==
  \/ Boot \/ handleRequest \/ Crash
  \/ \E c \in Calls : Respond(c)

Next == ClientStep \/ WorkerStep

\* Timers fire, posted messages and events are delivered, the thread starts.
\* Nobody promises that the thread answers, or that the application calls.
Fairness ==
  /\ WF_vars(CheckReady)
  /\ \A c \in Calls : WF_vars(SendCommand(c)) /\ WF_vars(Timeout(c))
  /\ WF_vars(Ready) /\ WF_vars(handleWorkerResponse)
  /\ WF_vars(WorkerError) /\ WF_vars(WorkerExit) /\ WF_vars(Terminated)
  /\ WF_vars(Boot)

Spec == Init /\ [][Next]_vars
FairSpec == Spec /\ Fairness
----------------------------------------------------------------------------
(* Properties *)

\* Whatever arrives late, out of order or after a timeout, an answer settles
\* the call it answers and no other: a call resolves only if the thread did
\* it, and is rejected with the thread's error only if the thread failed.
AnswerIsItsOwn == \A c \in Calls :
  /\ phase[c] = "resolved" => ran[c] = "done"
  /\ phase[c] = "rejected" => ran[c] = "failed"
  /\ c \in heard => ran[c] = "done"

\* No call that was sent is ever forgotten: until its promise settles, its
\* entry is in pendingRequests and its timer is armed, through crashes of the
\* thread, failed closes and answers that come too late.
NobodyForgotten == \A c \in Calls :
  phase[c] = "sent" => c \in pending /\ c \in timers

\* A settled call leaves no entry and no timer behind, whoever settled it; the
\* one exception is a call whose message could not be posted, whose entry stays
\* until its timer fires.
NoLeftovers == \A c \in pending \cup timers : phase[c] \in {"sent", "threw"}

\* Every call settles, by answer, timeout, crash or close, unless the thread
\* was gone before the client had ever become ready.
CallsSettle == \A c \in Calls :
  phase[c] \in UnderWay ~> \/ phase[c] \in Settled
                           \/ ~readied /\ thread = "dead"

\* Every call settles: the client answers, or gives up after its timeout.
EveryCallSettles == \A c \in Calls : phase[c] \in UnderWay ~> phase[c] \in Settled
============================================================================
