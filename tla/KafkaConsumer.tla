---------------------------- MODULE KafkaConsumer ----------------------------
(***************************************************************************)
(* consumerGroupHandler: the batching loop all four consumers share, seen  *)
(* from one partition of a topic.  Every process of the group runs the     *)
(* same loop; the broker gives the partition to one of them at a time.     *)
(*                                                                         *)
(* ConsumeClaim collects messages until a batch is full, a timer fires or  *)
(* the session ends, and hands the batch to the handler.  processBatch     *)
(* marks the batch if the handler returns no error and otherwise leaves    *)
(* its offsets unmarked.  sarama commits the highest marked offset now and *)
(* then and at the end of the session.                                     *)
(*                                                                         *)
(* A message is its offset; what the handler does is its outcome.          *)
(***************************************************************************)
EXTENDS Integers

CONSTANTS
  Consumer,          \* the processes of the consumer group
  BatchSize,         \* KAFKA_BATCH_SIZE
  Poison,            \* offsets of messages no attempt can process
  MaxMessages,       \* bound: messages produced
  MaxInterruptions   \* bound: rebalances, evictions and crashes

ASSUME BatchSizeAssumption == BatchSize \in Nat \ {0}
ASSUME BoundsAssumption == MaxMessages \in Nat /\ MaxInterruptions \in Nat
ASSUME PoisonAssumption == Poison \subseteq Nat

VARIABLES
  end,            \* the offset the next message will get
  owner,          \* {c} if the broker gives the partition to c, {} while it has no owner
  committed,      \* the committed offset of the group, -1 if there is none
  base,           \* the offset at which the group last began without a committed one
  loop,           \* where each consumer is in ConsumeClaim and processBatch
  closing,        \* consumers whose session context is done
  low,            \* offset of the first message in the slice "messages"
  next,           \* offset of the message after the last in the slice
  marked,         \* the highest offset each session has marked, plus one
  handled,        \* messages some call of the handler has processed
  failed,         \* messages of the batches the handler returned an error for
  interruptions   \* how many interruptions there were

vars == <<end, owner, committed, base, loop, closing, low, next, marked, handled, failed,
          interruptions>>

broker == <<end, owner, committed, base, interruptions>>

outcome == <<handled, failed>>

Batch(c) == low[c]..(next[c] - 1)

Larger(a, b) == IF a < b THEN b ELSE a

Init ==
  /\ end = 0
  /\ owner = {}
  /\ committed = -1
  /\ base = 0
  /\ loop = [c \in Consumer |-> "out"]
  /\ closing = {}
  /\ low = [c \in Consumer |-> 0]
  /\ next = [c \in Consumer |-> 0]
  /\ marked = [c \in Consumer |-> -1]
  /\ handled = {}
  /\ failed = {}
  /\ interruptions = 0

-----------------------------------------------------------------------------
(***************************************************************************)
(* The broker.                                                             *)
(***************************************************************************)

Produce ==
  /\ end < MaxMessages
  /\ end' = end + 1
  /\ UNCHANGED <<owner, committed, base, loop, closing, low, next, marked, outcome, interruptions>>

\* Mutant: the claim begins at the committed offset even if there is none.
Bug_JoinWithoutOffset(c) ==
  /\ loop[c] = "out"
  /\ owner = {}
  /\ owner' = {c}
  /\ loop' = [loop EXCEPT ![c] = "collect"]
  /\ closing' = closing \ {c}
  /\ low' = [low EXCEPT ![c] = committed]
  /\ next' = [next EXCEPT ![c] = committed]
  /\ marked' = [marked EXCEPT ![c] = committed]
  /\ UNCHANGED <<end, committed, base, outcome, interruptions>>

\* Consume joins the group: the claim begins at the committed offset or, without one, at the
\* end of the log (OffsetNewest).
Join(c) ==
  LET start == IF committed < 0 THEN end ELSE committed
  IN  /\ loop[c] = "out"
      /\ owner = {}
      /\ owner' = {c}
      /\ base' = IF committed < 0 THEN end ELSE base
      /\ loop' = [loop EXCEPT ![c] = "collect"]
      /\ closing' = closing \ {c}
      /\ low' = [low EXCEPT ![c] = start]
      /\ next' = [next EXCEPT ![c] = start]
      /\ marked' = [marked EXCEPT ![c] = committed]
      /\ UNCHANGED <<end, committed, outcome, interruptions>>

\* The commit of the marked offset; the broker refuses it from any but the owner.
AutoCommit(c) ==
  /\ owner = {c}
  /\ marked[c] > committed
  /\ committed' = marked[c]
  /\ UNCHANGED <<end, owner, base, loop, closing, low, next, marked, outcome, interruptions>>

\* A rebalance: the owner is told to end its session and keeps the partition until then.
Rebalance(c) ==
  /\ interruptions < MaxInterruptions
  /\ owner = {c}
  /\ c \notin closing
  /\ closing' = closing \cup {c}
  /\ interruptions' = interruptions + 1
  /\ UNCHANGED <<end, owner, committed, base, loop, low, next, marked, outcome>>

\* The session times out: the partition is taken away while the consumer still runs.
Evict(c) ==
  /\ interruptions < MaxInterruptions
  /\ owner = {c}
  /\ owner' = {}
  /\ closing' = closing \cup {c}
  /\ interruptions' = interruptions + 1
  /\ UNCHANGED <<end, committed, base, loop, low, next, marked, outcome>>

Crash(c) ==
  /\ interruptions < MaxInterruptions
  /\ loop[c] # "out"
  /\ loop' = [loop EXCEPT ![c] = "out"]
  /\ owner' = owner \ {c}
  /\ interruptions' = interruptions + 1
  /\ UNCHANGED <<end, committed, base, closing, low, next, marked, outcome>>

-----------------------------------------------------------------------------
(***************************************************************************)
(* ConsumeClaim.                                                           *)
(***************************************************************************)

\* Mutant: a message counts as consumed once it is received.
Bug_DeliverMarks(c) ==
  /\ loop[c] = "collect"
  /\ next[c] < end
  /\ next' = [next EXCEPT ![c] = @ + 1]
  /\ marked' = [marked EXCEPT ![c] = Larger(@, next[c] + 1)]
  /\ loop' = [loop EXCEPT ![c] = IF next[c] + 1 - low[c] >= BatchSize THEN "handle" ELSE @]
  /\ UNCHANGED <<broker, closing, low, outcome>>

\* A message arrives; a full batch goes to the handler.
Deliver(c) ==
  /\ loop[c] = "collect"
  /\ next[c] < end
  /\ next' = [next EXCEPT ![c] = @ + 1]
  /\ loop' = [loop EXCEPT ![c] = IF next[c] + 1 - low[c] >= BatchSize THEN "handle" ELSE @]
  /\ UNCHANGED <<broker, closing, low, marked, outcome>>

\* Mutant: a batch that is not full waits for more messages.
Bug_TimerWaitsForFullBatch(c) ==
  /\ loop[c] = "collect"
  /\ next[c] - low[c] >= BatchSize
  /\ loop' = [loop EXCEPT ![c] = "handle"]
  /\ UNCHANGED <<broker, closing, low, next, marked, outcome>>

\* The timer fires: what has been collected goes to the handler.
Timer(c) ==
  /\ loop[c] = "collect"
  /\ low[c] < next[c]
  /\ loop' = [loop EXCEPT ![c] = "handle"]
  /\ UNCHANGED <<broker, closing, low, next, marked, outcome>>

\* The session is over: the loop is left, after one last batch if there is one.
Drain(c) ==
  /\ loop[c] = "collect"
  /\ c \in closing
  /\ loop' = [loop EXCEPT ![c] = IF low[c] < next[c] THEN "handleLast" ELSE "leave"]
  /\ UNCHANGED <<broker, closing, low, next, marked, outcome>>

\* The loop goes on after a batch, or is left after the last one.
Continue(c) == IF loop[c] \in {"handleLast", "markLast"} THEN "leave" ELSE "collect"

\* The handler processes the batch and returns no error.
HandlerSucceeds(c) ==
  /\ loop[c] \in {"handle", "handleLast"}
  /\ Batch(c) \cap Poison = {}
  /\ handled' = handled \cup Batch(c)
  /\ loop' = [loop EXCEPT ![c] = IF @ = "handle" THEN "mark" ELSE "markLast"]
  /\ UNCHANGED <<broker, closing, low, next, marked, failed>>

\* The handler returns an error: nothing is marked and the slice is emptied all the same.
HandlerFails(c) ==
  /\ loop[c] \in {"handle", "handleLast"}
  /\ failed' = failed \cup Batch(c)
  /\ low' = [low EXCEPT ![c] = next[c]]
  /\ loop' = [loop EXCEPT ![c] = Continue(c)]
  /\ UNCHANGED <<broker, closing, next, marked, handled>>

\* MarkMessage for each message of the batch; a mark never takes the offset back.
Mark(c) ==
  /\ loop[c] \in {"mark", "markLast"}
  /\ marked' = [marked EXCEPT ![c] = Larger(@, next[c])]
  /\ low' = [low EXCEPT ![c] = next[c]]
  /\ loop' = [loop EXCEPT ![c] = Continue(c)]
  /\ UNCHANGED <<broker, closing, next, outcome>>

\* The end of the session commits what is marked, if the partition is still its own.
Leave(c) ==
  /\ loop[c] = "leave"
  /\ loop' = [loop EXCEPT ![c] = "out"]
  /\ committed' = IF owner = {c} THEN Larger(committed, marked[c]) ELSE committed
  /\ owner' = owner \ {c}
  /\ UNCHANGED <<end, base, closing, low, next, marked, outcome, interruptions>>

-----------------------------------------------------------------------------
Next ==
  \/ Produce
  \/ \E c \in Consumer :
       \/ Join(c) \/ AutoCommit(c) \/ Rebalance(c) \/ Evict(c) \/ Crash(c)
       \/ Deliver(c) \/ Timer(c) \/ Drain(c)
       \/ HandlerSucceeds(c) \/ HandlerFails(c) \/ Mark(c) \/ Leave(c)

Spec == Init /\ [][Next]_vars

(***************************************************************************)
(* The broker delivers, timers fire, handlers return (every statement of   *)
(* theirs has a timeout) and a process that is out joins again: Consumer   *)
(* calls Consume in an endless loop.                                       *)
(***************************************************************************)
Fairness ==
  \A c \in Consumer : /\ WF_vars(Join(c))
                      /\ WF_vars(AutoCommit(c))
                      /\ WF_vars(Deliver(c))
                      /\ WF_vars(Timer(c))
                      /\ WF_vars(Drain(c))
                      /\ WF_vars(HandlerSucceeds(c) \/ HandlerFails(c))
                      /\ WF_vars(Mark(c))
                      /\ WF_vars(Leave(c))

FairSpec == Spec /\ Fairness

-----------------------------------------------------------------------------
(***************************************************************************)
(* Properties.                                                             *)
(***************************************************************************)

Stages == {"out", "collect", "handle", "handleLast", "mark", "markLast", "leave"}

\* Type invariant of the partition, the group and the loops.
TypeOK ==
  /\ end \in Nat
  /\ owner \in SUBSET Consumer
  /\ committed \in Nat \cup {-1}
  /\ base \in Nat
  /\ loop \in [Consumer -> Stages]
  /\ closing \in SUBSET Consumer
  /\ low \in [Consumer -> Nat]
  /\ next \in [Consumer -> Nat]
  /\ marked \in [Consumer -> Nat \cup {-1}]
  /\ handled \in SUBSET Nat
  /\ failed \in SUBSET Nat
  /\ interruptions \in Nat

Attempted == handled \cup failed

\* The group never passes over a message without calling the handler with it, whatever
\* rebalances, evictions and crashes come between delivery, handler, mark and commit.
NeverSkippedUntried == \A o \in base..(committed - 1) : o \in Attempted

\* Its inductive strengthening: what lies behind the slice of a loop, or behind its mark, has
\* been given to the handler, and a batch to be marked has been processed.
LoopOK(c) ==
  /\ low[c] <= next[c] /\ next[c] <= end /\ marked[c] <= end
  /\ \A o \in base..(low[c] - 1) : o \in Attempted
  /\ \A o \in base..(marked[c] - 1) : o \in Attempted
  /\ loop[c] \in {"mark", "markLast"} => Batch(c) \subseteq handled

IInv ==
  /\ TypeOK
  /\ NeverSkippedUntried
  /\ committed <= end
  /\ base <= end
  /\ \A c \in Consumer : LoopOK(c)

\* Once the group has a committed offset, every message at or after it gets to the handler.
EveryMessageIsTried ==
  \A o \in 0..(MaxMessages - 1) :
    (committed >= 0 /\ committed <= o /\ o < end) ~> (o \in Attempted)

\* What the comment in processBatch says of a failed batch: it is not marked, so that its
\* messages will be retried; the committed offset must not pass them before they are handled.
FailedIsRetried == \A o \in failed \ handled : committed <= o

=============================================================================
