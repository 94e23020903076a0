-------------------------- MODULE MetricsMiddleware --------------------------
(***************************************************************************)
(* The metrics middleware around the commands of the worker-thread client.  *)
(* It does nothing but watch each call begin and end, so it is composed with *)
(* the client by what a step of the client begins and ends.                  *)
(***************************************************************************)
EXTENDS WorkerClient, FiniteSets, Functions

CONSTANT MaxResets  \* calls of reset() (a bound)

ASSUME MetricsAssumption == MaxResets \in Nat /\ IsFiniteSet(Calls)

\* The commands in use; a command's counters are made at its first call.
Used == {CommandOf[c] : c \in Calls}

VARIABLES
  resets,         \* reset() calls so far: each makes a new metrics object
  capturedIn,     \* the metrics object whose counters a call holds on to
  count, errors,  \* the counters of each command, in the present object
  totalCommands, totalErrors,
  straddled       \* some reset() came while a call was under way

metrics == <<resets, capturedIn, count, errors, totalCommands, totalErrors,
             straddled>>

MetricsTypeOK ==
  /\ TypeOK
  /\ resets \in 0..MaxResets
  /\ capturedIn \in [Calls -> 0..MaxResets]
  /\ count \in [Used -> Nat] /\ errors \in [Used -> Nat]
  /\ totalCommands \in Nat /\ totalErrors \in Nat
  /\ straddled \in BOOLEAN

MetricsInit ==
  /\ Init
  /\ resets = 0 /\ straddled = FALSE
  /\ capturedIn = [c \in Calls |-> 0]
  /\ count = [k \in Used |-> 0] /\ errors = [k \in Used |-> 0]
  /\ totalCommands = 0 /\ totalErrors = 0

\* The calls that this step begins, and those whose next() it lets return or throw.
Begun == {c \in Calls : phase[c] = "idle" /\ phase'[c] # "idle"}
Returned == {c \in Calls : phase[c] \in UnderWay /\ phase'[c] = "resolved"}
Thrown == {c \in Calls : phase[c] \in UnderWay
                           /\ phase'[c] \in Settled \ {"resolved"}}

\* The calls of C that hold on to the present counters of command k.
Counted(C, k) == {c \in C : CommandOf[c] = k /\ capturedIn[c] = resets}

\* Mutant of Record: a call that throws is counted as a command, too.
RecordBoth ==
  /\ capturedIn' = [c \in Calls |-> IF c \in Begun THEN resets ELSE capturedIn[c]]
  /\ count' = [k \in Used |-> count[k] + Cardinality(Counted(Returned, k))]
  /\ errors' = [k \in Used |-> errors[k] + Cardinality(Counted(Thrown, k))]
  /\ totalCommands' = totalCommands + Cardinality(Returned \cup Thrown)
  /\ totalErrors' = totalErrors + Cardinality(Thrown)
  /\ UNCHANGED <<resets, straddled>>

\* The middleware looks up its command's counters before it awaits next(), and
\* the totals afterwards.
Record ==
  /\ capturedIn' = [c \in Calls |-> IF c \in Begun THEN resets ELSE capturedIn[c]]
  /\ count' = [k \in Used |-> count[k] + Cardinality(Counted(Returned, k))]
  /\ errors' = [k \in Used |-> errors[k] + Cardinality(Counted(Thrown, k))]
  /\ totalCommands' = totalCommands + Cardinality(Returned)
  /\ totalErrors' = totalErrors + Cardinality(Thrown)
  /\ UNCHANGED <<resets, straddled>>

\* Mutant of Reset: the totals start anew, the counters of the commands do not.
ResetTotals ==
  /\ resets < MaxResets
  /\ resets' = resets + 1
  /\ totalCommands' = 0 /\ totalErrors' = 0
  /\ straddled' = (straddled \/ \E c \in Calls : phase[c] \in UnderWay)
  /\ UNCHANGED <<vars, capturedIn, count, errors>>

Reset ==
  /\ resets < MaxResets
  /\ resets' = resets + 1
  /\ count' = [k \in Used |-> 0] /\ errors' = [k \in Used |-> 0]
  /\ totalCommands' = 0 /\ totalErrors' = 0
  /\ straddled' = (straddled \/ \E c \in Calls : phase[c] \in UnderWay)
  /\ UNCHANGED <<vars, capturedIn>>

MeteredNext ==
  \/ Next /\ Record
  \/ Reset

MeteredSpec == MetricsInit /\ [][MeteredNext]_<<vars, metrics>> /\ Fairness
----------------------------------------------------------------------------
(* Properties *)

\* Until the first reset() the metrics tell what became of the calls: those
\* answered, and those that failed, timed out, or were cut off.
MetricsTellCalls == resets = 0 =>
  /\ totalCommands = Cardinality({c \in Calls : phase[c] = "resolved"})
  /\ totalErrors = Cardinality({c \in Calls : phase[c] \in Settled \ {"resolved"}})

\* The counters of the commands never exceed the totals, and add up to them
\* unless some reset() came while a call was under way: that call is counted
\* in the old counters and in the new totals.
TotalsCoverCommands ==
  /\ SumFunction(count) <= totalCommands /\ SumFunction(errors) <= totalErrors
  /\ ~straddled => /\ SumFunction(count) = totalCommands
                   /\ SumFunction(errors) = totalErrors
============================================================================
