------------------------------- MODULE PubSub -------------------------------
(***************************************************************************)
(* The publish/subscribe plugin.  All of it is synchronous: the only way in  *)
(* which anything comes between two deliveries of one publish() is that a    *)
(* callback itself subscribes, unsubscribes, or destroys the plugin.         *)
(***************************************************************************)
EXTENDS Naturals, Sequences, FiniteSets

CONSTANTS
  Channels, Patterns, Callbacks,
  Matches,   \* the pairs of a pattern and a channel that it matches
  MaxId      \* how many subscriptions are made (a bound)

\* A channel and a pattern with one name are two things: the code keeps them in
\* separate Maps and marks each subscription with isPattern.
ASSUME PubSubAssumption ==
  /\ Matches \subseteq Patterns \X Channels
  /\ Channels \cap Patterns = {}
  /\ MaxId \in Nat

VARIABLES
  nextId,
  subscriptions,         \* what each live id stands for
  listeners,             \* the listeners of the EventEmitter `channels`
  patternSubscriptions,  \* the Map from a pattern to its array of ids
  subscriberCount,       \* 0 for a channel that is not in the Map
  frame,                 \* how far the publish() under way is
  told,                  \* how often it called each pattern subscription
  witnesses,             \* the ids that were live when it began
  disturbed              \* patterns that have lost a subscription since then

books == <<nextId, subscriptions, listeners, patternSubscriptions,
           subscriberCount>>
audit == <<told, witnesses, disturbed>>
vars == <<books, frame, audit>>

Ids == 1..MaxId
Subscription == [pattern : Channels \cup Patterns, callback : Callbacks]
Live == DOMAIN subscriptions
IsPattern(id) == subscriptions[id].pattern \in Patterns

\* An entry of the Map is dated by the id that created it: later entries come
\* later in the Map.  A pattern that is not in the Map has the empty entry.
NoEntry == [since |-> 0, ids |-> <<>>]
Idle == [stage |-> "idle"]
Frames ==
  {Idle}
    \cup [stage : {"exact"}, channel : Channels, todo : Seq(Callbacks),
          running : BOOLEAN]
    \cup [stage : {"pattern"}, channel : Channels, pattern : Patterns,
          since : Ids, index : Nat \ {0}, orphan : Seq(Ids)]

TypeOK ==
  /\ nextId \in 1..(MaxId + 1)
  /\ Live \subseteq 1..(nextId - 1)
  /\ \A id \in Live : subscriptions[id] \in Subscription
  /\ listeners \in [Channels -> Seq(Callbacks)]
  /\ patternSubscriptions \in [Patterns -> [since : 0..MaxId, ids : Seq(Ids)]]
  /\ subscriberCount \in [Channels -> Nat]
  /\ frame \in Frames
  /\ told \in [Ids -> Nat]
  /\ witnesses \subseteq Ids
  /\ disturbed \subseteq Patterns

Init ==
  /\ nextId = 1
  /\ subscriptions = <<>>
  /\ listeners = [c \in Channels |-> <<>>]
  /\ patternSubscriptions = [p \in Patterns |-> NoEntry]
  /\ subscriberCount = [c \in Channels |-> 0]
  /\ frame = Idle
  /\ told = [id \in Ids |-> 0]
  /\ witnesses = {}
  /\ disturbed = {}

\* The application's own code runs: outside of publish() or in a callback.
AppRuns == frame.stage = "exact" => frame.running

Without(f, x) == [y \in DOMAIN f \ {x} |-> f[y]]
WithSub(id, p, f) ==
  [y \in Live \cup {id} |-> IF y = id THEN [pattern |-> p, callback |-> f]
                            ELSE subscriptions[y]]
Remove(seq, i) == SubSeq(seq, 1, i - 1) \o SubSeq(seq, i + 1, Len(seq))
----------------------------------------------------------------------------
(* Subscribing *)

subscribe(c, f) ==
  /\ AppRuns /\ nextId <= MaxId
  /\ nextId' = nextId + 1
  /\ subscriptions' = WithSub(nextId, c, f)
  /\ listeners' = [listeners EXCEPT ![c] = Append(@, f)]
  /\ subscriberCount' = [subscriberCount EXCEPT ![c] = @ + 1]
  /\ UNCHANGED <<patternSubscriptions, frame, audit>>

\* EventEmitter.off: the listener added last of those that are this callback.
Off(seq, f) ==
  LET at == {i \in 1..Len(seq) : seq[i] = f}
  IN  IF at = {} THEN seq
      ELSE Remove(seq, CHOOSE i \in at : \A j \in at : j <= i)

\* Every listener that is this callback, for the mutant below.
OffAll(seq, f) == SelectSeq(seq, LAMBDA g : g # f)

\* Mutant of unsubscribe: every listener that is this callback is taken off.
UnsubscribeAll(id) ==
  /\ AppRuns /\ id \in Live /\ ~IsPattern(id)
  /\ LET s == subscriptions[id]
     IN  /\ listeners' = [listeners EXCEPT ![s.pattern] = OffAll(@, s.callback)]
         /\ subscriberCount' = [subscriberCount EXCEPT ![s.pattern] =
                                  IF @ > 1 THEN @ - 1 ELSE 0]
  /\ subscriptions' = Without(subscriptions, id)
  /\ UNCHANGED <<nextId, patternSubscriptions, frame, audit>>

unsubscribe(id) ==
  /\ AppRuns /\ id \in Live /\ ~IsPattern(id)
  /\ LET s == subscriptions[id]
     IN  /\ listeners' = [listeners EXCEPT ![s.pattern] = Off(@, s.callback)]
         /\ subscriberCount' = [subscriberCount EXCEPT ![s.pattern] =
                                  IF @ > 1 THEN @ - 1 ELSE 0]
  /\ subscriptions' = Without(subscriptions, id)
  /\ UNCHANGED <<nextId, patternSubscriptions, frame, audit>>

\* Mutant of psubscribe: the next subscription gets the same id.
PsubscribeReusesId(p, f) ==
  /\ AppRuns /\ nextId <= MaxId
  /\ subscriptions' = WithSub(nextId, p, f)
  /\ patternSubscriptions' = [patternSubscriptions EXCEPT ![p] =
       [since |-> IF @ = NoEntry THEN nextId ELSE @.since,
        ids |-> Append(@.ids, nextId)]]
  /\ UNCHANGED <<nextId, listeners, subscriberCount, frame, audit>>

\* Mutant of psubscribe: the newest subscription comes first.
PsubscribeInFront(p, f) ==
  /\ AppRuns /\ nextId <= MaxId
  /\ nextId' = nextId + 1
  /\ subscriptions' = WithSub(nextId, p, f)
  /\ patternSubscriptions' = [patternSubscriptions EXCEPT ![p] =
       [since |-> IF @ = NoEntry THEN nextId ELSE @.since,
        ids |-> <<nextId>> \o @.ids]]
  /\ UNCHANGED <<listeners, subscriberCount, frame, audit>>

psubscribe(p, f) ==
  /\ AppRuns /\ nextId <= MaxId
  /\ nextId' = nextId + 1
  /\ subscriptions' = WithSub(nextId, p, f)
  /\ patternSubscriptions' = [patternSubscriptions EXCEPT ![p] =
       [since |-> IF @ = NoEntry THEN nextId ELSE @.since,
        ids |-> Append(@.ids, nextId)]]
  /\ UNCHANGED <<listeners, subscriberCount, frame, audit>>

\* findIndex and splice: the array without the first of its ids that is this.
Splice(ids, id) ==
  LET at == {i \in 1..Len(ids) : ids[i] = id}
  IN  IF at = {} THEN ids ELSE Remove(ids, CHOOSE i \in at : \A j \in at : i <= j)

\* Mutant of punsubscribe: a pattern without subscriptions stays in the Map.
PunsubscribeKeepsEntry(id) ==
  /\ AppRuns /\ id \in Live /\ IsPattern(id)
  /\ LET p == subscriptions[id].pattern
     IN  /\ patternSubscriptions' = [patternSubscriptions EXCEPT
              ![p].ids = Splice(@, id)]
         /\ disturbed' = disturbed \cup {p}
  /\ subscriptions' = Without(subscriptions, id)
  /\ UNCHANGED <<nextId, listeners, subscriberCount, frame, told, witnesses>>

\* Mutant of punsubscribe: the id is forgotten, the array keeps it.
PunsubscribeIdOnly(id) ==
  /\ AppRuns /\ id \in Live /\ IsPattern(id)
  /\ disturbed' = disturbed \cup {subscriptions[id].pattern}
  /\ subscriptions' = Without(subscriptions, id)
  /\ UNCHANGED <<nextId, listeners, patternSubscriptions, subscriberCount, frame,
                 told, witnesses>>

punsubscribe(id) ==
  /\ AppRuns /\ id \in Live /\ IsPattern(id)
  /\ LET p    == subscriptions[id].pattern
         left == Splice(patternSubscriptions[p].ids, id)
     IN  /\ patternSubscriptions' = [patternSubscriptions EXCEPT ![p] =
              IF left = <<>> THEN NoEntry ELSE [@ EXCEPT !.ids = left]]
         /\ disturbed' = disturbed \cup {p}
  /\ subscriptions' = Without(subscriptions, id)
  /\ UNCHANGED <<nextId, listeners, subscriberCount, frame, told, witnesses>>

\* destroy(): an array that publish() is walking lives on, out of the Map.
destroy ==
  /\ AppRuns
  /\ subscriptions' = <<>>
  /\ listeners' = [c \in Channels |-> <<>>]
  /\ patternSubscriptions' = [p \in Patterns |-> NoEntry]
  /\ subscriberCount' = [c \in Channels |-> 0]
  /\ frame' = IF frame.stage = "pattern"
                   /\ patternSubscriptions[frame.pattern].since = frame.since
              THEN [frame EXCEPT !.orphan = patternSubscriptions[frame.pattern].ids]
              ELSE frame
  /\ UNCHANGED <<nextId, audit>>
----------------------------------------------------------------------------
(* Publishing *)

\* emit() walks a copy of the listeners; listenerCount was taken before.
publish(c) ==
  /\ frame = Idle
  /\ frame' = [stage |-> "exact", channel |-> c, todo |-> listeners[c],
               running |-> FALSE]
  /\ told' = [id \in Ids |-> 0]
  /\ witnesses' = Live
  /\ disturbed' = {}
  /\ UNCHANGED books

CallExact ==
  /\ frame.stage = "exact" /\ frame.todo # <<>>
  /\ frame' = [frame EXCEPT !.todo = Tail(@), !.running = TRUE]
  /\ UNCHANGED <<books, audit>>

\* The array that the inner loop walks: it is live.
Walked ==
  IF frame.stage # "pattern" THEN <<>>
  ELSE IF patternSubscriptions[frame.pattern].since = frame.since
       THEN patternSubscriptions[frame.pattern].ids
       ELSE frame.orphan

\* The entries of the Map that the outer loop has still to come to.
Ahead ==
  {p \in Patterns :
     /\ <<p, frame.channel>> \in Matches
     /\ patternSubscriptions[p].ids # <<>>
     /\ frame.stage = "pattern" => patternSubscriptions[p].since > frame.since}

ExactDone == frame.stage = "exact" => frame.todo = <<>>

\* Mutant of ArrayDone: the loop ends one short of the array.
ArrayDoneEarly == frame.stage = "pattern" => frame.index >= Len(Walked) - 1

ArrayDone == frame.stage = "pattern" => frame.index >= Len(Walked)

Tell(id) == told' = [told EXCEPT ![id] = @ + 1]

\* The next subscription of the array, by its index ...
CallNext ==
  /\ frame.stage = "pattern" /\ ~ArrayDone
  /\ frame' = [frame EXCEPT !.index = @ + 1]
  /\ Tell(Walked[frame.index + 1])
  /\ UNCHANGED <<books, witnesses, disturbed>>

\* ... or the first of the next entry of the Map that matches the channel.
NextPattern ==
  /\ frame # Idle /\ ExactDone /\ ArrayDone
  /\ \E p \in Ahead :
       /\ \A q \in Ahead :
            patternSubscriptions[p].since <= patternSubscriptions[q].since
       /\ frame' = [stage |-> "pattern", channel |-> frame.channel,
                    pattern |-> p, since |-> patternSubscriptions[p].since,
                    index |-> 1, orphan |-> <<>>]
       /\ Tell(patternSubscriptions[p].ids[1])
  /\ UNCHANGED <<books, witnesses, disturbed>>

Return ==
  /\ frame # Idle /\ ExactDone /\ ArrayDone /\ Ahead = {}
  /\ frame' = Idle
  /\ UNCHANGED <<books, audit>>

\* A callback throws: publish() throws, too, and the rest is not told.
CallbackThrows ==
  /\ frame # Idle /\ AppRuns
  /\ frame' = Idle
  /\ UNCHANGED <<books, audit>>

Next ==
  \/ \E c \in Channels, f \in Callbacks : subscribe(c, f)
  \/ \E p \in Patterns, f \in Callbacks : psubscribe(p, f)
  \/ \E id \in Ids : unsubscribe(id) \/ punsubscribe(id)
  \/ destroy
  \/ \E c \in Channels : publish(c)
  \/ CallExact \/ CallNext \/ NextPattern \/ Return \/ CallbackThrows

Spec == Init /\ [][Next]_vars
----------------------------------------------------------------------------
(* Properties *)

OfChannel(c) == {id \in Live : subscriptions[id].pattern = c}

\* pubsubNumsub and pubsubChannels tell the truth, and so does the emitter: a
\* channel has as many counted subscribers as live subscriptions, and each
\* callback is a listener as many times as it is subscribed.
BooksBalance == \A c \in Channels :
  /\ subscriberCount[c] = Cardinality(OfChannel(c))
  /\ \A f \in Callbacks :
       Cardinality({i \in 1..Len(listeners[c]) : listeners[c][i] = f})
         = Cardinality({id \in OfChannel(c) : subscriptions[id].callback = f})

\* A live pattern subscription is in exactly one place of its pattern's array,
\* nothing else is, and a pattern without subscriptions has no array.
PatternsFiled == \A p \in Patterns :
  LET e == patternSubscriptions[p]
  IN  /\ {e.ids[i] : i \in 1..Len(e.ids)} = OfChannel(p)
      /\ \A i, j \in 1..Len(e.ids) : i < j => e.ids[i] < e.ids[j]
      /\ e.since = 0 <=> e.ids = <<>>

\* However callbacks subscribe and unsubscribe, one publish() calls no pattern
\* subscription twice.
NobodyToldTwice == \A id \in Ids : told[id] <= 1

\* Once punsubscribe() has returned, its callback is not called again, not
\* even by the publish() that is under way; only destroy() is not so thorough.
QuietAfterPunsubscribe ==
  [][\A id \in Ids : told'[id] > told[id] =>
       id \in Live \/ (frame.stage = "pattern" /\ frame.orphan # <<>>)]_vars

\* A publish() that returns has told each pattern subscription that was there
\* from its begin to its end, unless its pattern lost another one meanwhile:
\* then the array moved up and one was passed over.
UndisturbedAreTold ==
  [][Return => \A id \in witnesses \cap Live :
       /\ IsPattern(id)
       /\ <<subscriptions[id].pattern, frame.channel>> \in Matches
       /\ subscriptions[id].pattern \notin disturbed
       => told[id] = 1]_vars
============================================================================
