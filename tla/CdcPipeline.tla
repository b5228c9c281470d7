------------------------------ MODULE CdcPipeline ------------------------------
(***************************************************************************)
(* The CDC transformer process: from the change log of the tables to the   *)
(* topic of domain events, on one partition of the log.                    *)
(*                                                                         *)
(* The consumer loop is KafkaConsumer's; here its handler is opened up.    *)
(* The handler drops what it cannot parse, does not monitor or cannot      *)
(* transform, and gives the events of the batch to Producer, which sends   *)
(* each message from a goroutine of its own, waits for all the results and *)
(* fails if one of them is an error.                                       *)
(*                                                                         *)
(* The topic appears as what a reader knows that ignores an event whose    *)
(* idempotency key it has seen.                                            *)
(***************************************************************************)
EXTENDS CdcTransformer, Sequences

CONSTANTS
  Consumer, BatchSize, MaxMessages, MaxInterruptions,   \* of KafkaConsumer
  Images,      \* Images[s]: the contents row s may have
  Sightless,   \* tables whose updates may come without the old content
  Unparsable,  \* offsets of the log that hold no record ParseCDCEvent can read
  MaxSecond,   \* bound: seconds the changes take
  Faulty       \* TRUE if sending may fail

ASSUME BatchSizeAssumption == BatchSize \in Nat \ {0}
ASSUME BoundsAssumption == MaxMessages \in Nat /\ MaxInterruptions \in Nat
ASSUME ImagesAssumption == Images \in [Subject -> SUBSET Image]
ASSUME SecondAssumption == MaxSecond \in Nat /\ Unparsable \subseteq Nat
ASSUME FaultyAssumption == Faulty \in BOOLEAN

VARIABLES
  end, owner, committed, base, loop, closing, low, next, marked, handled, failed,
  interruptions,   \* of KafkaConsumer
  rows,        \* rows[s]: the content of the row, NoImage if there is no such row
  log,         \* the records, that of offset o at log[o + 1]; Garbage does not parse
  stage,       \* where each consumer is in its handler
  unsent,      \* offsets of the events whose goroutine has not sent them yet
  errors,      \* consumers whose Producer has collected an error
  published,   \* offsets of the records whose event is in the topic
  view,        \* view[s]: what the reader knows of row s
  disturbed    \* TRUE once a send has failed or a batch had two events of one key

loopVars == <<end, owner, committed, base, loop, closing, low, next, marked, handled, failed,
              interruptions>>
tables == <<rows, log>>
handler == <<stage, unsent, errors>>
topic == <<published, view, disturbed>>
vars == <<loopVars, tables, handler, topic>>

\* Which batches fail is told here: the loop's own Poison has no part in it.
Loop == INSTANCE KafkaConsumer WITH Poison <- {}

Garbage == [subject |-> NoImage]

At(o) == log[o + 1]

Parses(o) == At(o) # Garbage /\ Valid(At(o))

\* The record becomes an event.
Tells(o) == Parses(o) /\ Publishable(At(o))

Events(S) == {o \in S : Tells(o)}

KeyAt(o) == Reference(At(o).subject)

Init ==
  /\ Loop!Init
  /\ rows = [s \in Subject |-> NoImage]
  /\ log = <<>>
  /\ stage = [c \in Consumer |-> "out"]
  /\ unsent = [c \in Consumer |-> {}]
  /\ errors = {}
  /\ published = {}
  /\ view = rows
  /\ disturbed = FALSE

-----------------------------------------------------------------------------
(***************************************************************************)
(* The tables and their log.                                               *)
(***************************************************************************)

Seconds == {log[i].second : i \in {j \in 1..Len(log) : log[j] # Garbage}}

\* Seconds are counted from the first change on and never go back.
Now(t) == IF Seconds = {} THEN t = 0 ELSE \A u \in Seconds : u <= t

Logged(r) == /\ Loop!Produce
             /\ (r = Garbage) <=> (end \in Unparsable)
             /\ log' = Append(log, r)
             /\ UNCHANGED <<handler, topic>>

\* A row is inserted, updated or deleted; the record holds the row before and after.  A data
\* point is written again only with another value, and then with the date of that one.
Change(s, new, before, t) ==
  /\ Logged([subject |-> s, before |-> before, after |-> new, second |-> t,
             op |-> IF rows[s] = NoImage THEN "c" ELSE IF new = NoImage THEN "d" ELSE "u"])
  /\ new # rows[s]
  /\ s \in Points => Content(new)["value"] # Content(rows[s])["value"]
  /\ before = rows[s] \/ (TableOf(s) \in Sightless /\ new # NoImage /\ before = NoImage)
  /\ Now(t)
  /\ rows' = [rows EXCEPT ![s] = new]

\* Debezium reads a row again, as it does when it starts without its position in the log.
Snapshot(s, t) ==
  /\ Logged([subject |-> s, before |-> NoImage, after |-> rows[s], second |-> t, op |-> "r"])
  /\ rows[s] # NoImage
  /\ Now(t)
  /\ UNCHANGED rows

Litter == Logged(Garbage) /\ UNCHANGED rows

-----------------------------------------------------------------------------
(***************************************************************************)
(* The handler of a batch.                                                 *)
(***************************************************************************)

\* Two events of the batch have one key: their goroutines race for the partition.
Races(S) == \E o, p \in Events(S) : o # p /\ KeyAt(o) = KeyAt(p)

\* processCDCMessagesBatch and handleCDCEventsBatch up to Producer: the batch is an error if
\* records did not parse and none is left; without events there is nothing to send.
Begin(c) ==
  LET batch == Loop!Batch(c)
      read == {o \in batch : Parses(o) /\ IsTableMonitored(At(o))}
      hopeless == read = {} /\ \E o \in batch : ~Parses(o)
  IN  /\ loop[c] \in {"handle", "handleLast"}
      /\ stage[c] = "out"
      /\ stage' = [stage EXCEPT ![c] = "send"]
      /\ unsent' = [unsent EXCEPT ![c] = Events(batch)]
      /\ errors' = IF hopeless THEN errors \cup {c} ELSE errors \ {c}
      /\ disturbed' = (disturbed \/ Races(batch))
      /\ UNCHANGED <<loopVars, tables, published, view>>

\* The message reaches the topic, before SendMessage returns or fails.
Append1(o) ==
  LET r == At(o)
      seen == {IdempotencyKey(At(p)) : p \in published}
  IN  /\ published' = published \cup {o}
      /\ view' = IF IdempotencyKey(r) \in seen THEN view
                 ELSE [view EXCEPT ![r.subject] = Applied(@, r)]

Took(c, o) == /\ stage[c] = "send"
              /\ o \in unsent[c]
              /\ unsent' = [unsent EXCEPT ![c] = @ \ {o}]
              /\ UNCHANGED <<loopVars, tables, stage>>

Send(c, o) == Took(c, o) /\ Append1(o) /\ UNCHANGED <<errors, disturbed>>

\* SendMessage returns an error; the message may be in the topic all the same.
SendFails(c, o) == /\ Faulty
                   /\ Took(c, o)
                   /\ errors' = errors \cup {c}
                   /\ disturbed' = TRUE
                   /\ Append1(o) \/ UNCHANGED <<published, view>>

\* Mutant: the errors of the sends are logged only.
Bug_Return(c) ==
  /\ stage[c] = "send"
  /\ unsent[c] = {}
  /\ stage' = [stage EXCEPT ![c] = "out"]
  /\ Loop!HandlerSucceeds(c)
  /\ UNCHANGED <<tables, unsent, errors, topic>>

\* Mutant: the results of the sends are not waited for.
Bug_ReturnEarly(c) ==
  /\ stage[c] = "send"
  /\ stage' = [stage EXCEPT ![c] = "out"]
  /\ IF c \in errors THEN Loop!HandlerFails(c) ELSE Loop!HandlerSucceeds(c)
  /\ UNCHANGED <<tables, unsent, errors, topic>>

\* All results are there: one error is an error of the batch.
Return(c) ==
  /\ stage[c] = "send"
  /\ unsent[c] = {}
  /\ stage' = [stage EXCEPT ![c] = "out"]
  /\ IF c \in errors THEN Loop!HandlerFails(c) ELSE Loop!HandlerSucceeds(c)
  /\ UNCHANGED <<tables, unsent, errors, topic>>

\* A crash takes the goroutines that have not sent with it.
Crash(c) ==
  /\ Loop!Crash(c)
  /\ stage' = [stage EXCEPT ![c] = "out"]
  /\ unsent' = [unsent EXCEPT ![c] = {}]
  /\ UNCHANGED <<tables, errors, topic>>

-----------------------------------------------------------------------------
Outside(action) == action /\ UNCHANGED <<tables, handler, topic>>

Join(c) == Outside(Loop!Join(c))
AutoCommit(c) == Outside(Loop!AutoCommit(c))
Interrupt(c) == Outside(Loop!Rebalance(c) \/ Loop!Evict(c))
Deliver(c) == Outside(Loop!Deliver(c))
Timer(c) == Outside(Loop!Timer(c))
Drain(c) == Outside(Loop!Drain(c))
Mark(c) == Outside(Loop!Mark(c))
Leave(c) == Outside(Loop!Leave(c))

Next ==
  \/ \E s \in Subject, t \in 0..MaxSecond :
       \/ \E new \in Images[s] \cup {NoImage}, before \in {rows[s], NoImage} : Change(s, new, before, t)
       \/ Snapshot(s, t)
  \/ Litter
  \/ \E c \in Consumer :
       \/ Join(c) \/ AutoCommit(c) \/ Interrupt(c) \/ Crash(c)
       \/ Deliver(c) \/ Timer(c) \/ Drain(c) \/ Mark(c) \/ Leave(c)
       \/ Begin(c) \/ Return(c)
       \/ \E o \in unsent[c] : Send(c, o) \/ SendFails(c, o)

Spec == Init /\ [][Next]_vars

-----------------------------------------------------------------------------
(***************************************************************************)
(* Properties.                                                             *)
(***************************************************************************)

\* Type invariant of the log, the handlers, the topic and its reader.
TypeOK ==
  /\ Loop!TypeOK
  /\ rows \in [Subject -> Image \cup {NoImage}]
  /\ log \in Seq(Record \cup {Garbage}) /\ Len(log) = end
  /\ stage \in [Consumer -> {"out", "send"}]
  /\ unsent \in [Consumer -> SUBSET Nat]
  /\ errors \in SUBSET Consumer
  /\ published \in SUBSET Nat
  /\ view \in [Subject -> Image \cup {NoImage}]
  /\ disturbed \in BOOLEAN

\* The pipeline is a consumer loop like any other: whatever its handler does with a batch
\* is, for the loop, one call that succeeds or fails.
LoopIsImplemented == Loop!Spec

\* A call of the handler that returned no error has left no event of its batch out: every
\* change that can be told is in the topic, whatever sends failed and processes crashed.
HandledIsPublished == Events(handled) \subseteq published

\* A change the group has passed is in the topic, or was in a batch whose handler failed.
PassedIsPublished == Events(base..(committed - 1)) \subseteq published \cup failed

\* While no send fails and no batch has two events of a key, the events of a key appear in
\* the order of their changes, even if an evicted process still sends old ones again.
InOrder == \A p \in published : \A o \in Events(base..(p - 1)) : KeyAt(o) = KeyAt(p) => o \in published

OrderedUnlessDisturbed == ~disturbed => InOrder

\* The records of row s that have become events, and the newest of them the reader can know.
Told(s) == {o \in published : At(o).subject = s}

Newest(S) == CHOOSE o \in S : \A p \in S : p <= o

\* What the first n records tell of row s.
RowAt(s, n) ==
  LET past == {o \in 0..(n - 1) : At(o) # Garbage /\ At(o).subject = s}
  IN  IF past = {} THEN NoImage ELSE At(Newest(past)).after

\* A record tells the next change of a row whose content was "old".
Continues(r, old) ==
  CASE r.op = "c" -> old = NoImage /\ r.before = NoImage /\ r.after # NoImage
    [] r.op = "u" -> old # NoImage /\ r.before \in {old, NoImage} /\ r.after # NoImage
    [] r.op = "d" -> old # NoImage /\ r.before = old /\ r.after = NoImage
    [] r.op = "r" -> old # NoImage /\ r.before = NoImage /\ r.after = old

\* The log tells the whole history of every row, each record going on where the last one ends.
LogTellsTheRows ==
  /\ \A s \in Subject : rows[s] = RowAt(s, end)
  /\ \A o \in 0..(end - 1) : At(o) # Garbage => Continues(At(o), RowAt(At(o).subject, o))

\* Its inductive strengthening, for a handler at work: what it has not sent is of its batch,
\* and what it has taken from it is in the topic unless an error says so.
BatchOK(c) ==
  /\ stage[c] = "out" => unsent[c] = {}
  /\ stage[c] = "send" =>
       LET told == Events(Loop!Batch(c))
       IN  /\ loop[c] \in {"handle", "handleLast"}
           /\ unsent[c] \subseteq told
           /\ c \notin errors => told \subseteq published \cup unsent[c]
           /\ ~disturbed => ~Races(Loop!Batch(c)) /\ (c \in errors => told = {})

IInv ==
  /\ TypeOK
  /\ Loop!IInv
  /\ HandledIsPublished
  /\ published \subseteq Events(0..(end - 1))
  /\ handled \cup failed \subseteq 0..(end - 1)
  /\ ~disturbed => Events(failed) = {}
  /\ \A c \in Consumer : BatchOK(c)
  /\ OrderedUnlessDisturbed
  /\ LogTellsTheRows

\* Every row's changes had keys of their own, and all of them could be told in full.
Distinct(s) ==
  \A o \in Events(0..(end - 1)) : At(o).subject = s =>
    /\ ~(At(o).op = "u" /\ At(o).before = NoImage /\ s \notin Points)
    /\ \A p \in Events(0..(end - 1)) : p # o => IdempotencyKey(At(o)) # IdempotencyKey(At(p))

\* The reader never believes of a row what the row never was: it knows the content the newest
\* event it has seen left, however often events were repeated after crashes and evictions.
ReaderFollowsTheRow ==
  ~disturbed /\ base = 0 =>
    \A s \in Subject : Distinct(s) =>
      view[s] = IF Told(s) = {} THEN NoImage ELSE At(Newest(Told(s))).after

=============================================================================
