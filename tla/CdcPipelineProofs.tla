--------------------------- MODULE CdcPipelineProofs ---------------------------
(***************************************************************************)
(* For every set of rows, log, batch size, number of processes and pattern *)
(* of failed sends, rebalances, evictions and crashes: a change the group  *)
(* has passed is in the topic unless its batch failed, and while nothing   *)
(* has disturbed them the events of a key are in the order of the changes  *)
(* and tell a reader the rows.                                             *)
(*                                                                         *)
(* The pipeline is shown to be a KafkaConsumer loop, step by step; what is *)
(* proved of that loop is then used here as it stands.                     *)
(***************************************************************************)
EXTENDS CdcPipeline, WellFoundedInduction, TLAPS

LP == INSTANCE KafkaConsumerProofs WITH Poison <- {}

-----------------------------------------------------------------------------
(***************************************************************************)
(* The loop's theorems.  LP and Loop are two instances of one module.      *)
(***************************************************************************)

LEMMA SameIInv == LP!IInv <=> Loop!IInv
BY DEF LP!IInv, LP!TypeOK, LP!Stages, LP!NeverSkippedUntried, LP!Attempted, LP!LoopOK, LP!Batch,
  Loop!IInv, Loop!TypeOK, Loop!Stages, Loop!NeverSkippedUntried, Loop!Attempted, Loop!LoopOK,
  Loop!Batch

LEMMA SameIInvPrime == (LP!IInv)' <=> (Loop!IInv)'
BY DEF LP!IInv, LP!TypeOK, LP!Stages, LP!NeverSkippedUntried, LP!Attempted, LP!LoopOK, LP!Batch,
  Loop!IInv, Loop!TypeOK, Loop!Stages, Loop!NeverSkippedUntried, Loop!Attempted, Loop!LoopOK,
  Loop!Batch

LEMMA SameNext == [LP!Next]_(LP!vars) <=> [Loop!Next]_loopVars
BY DEF LP!Next, LP!vars, LP!outcome, LP!broker, LP!Batch, LP!Larger, LP!Continue, LP!Produce,
  LP!Join, LP!AutoCommit, LP!Rebalance, LP!Evict, LP!Crash, LP!Deliver, LP!Timer, LP!Drain,
  LP!HandlerSucceeds, LP!HandlerFails, LP!Mark, LP!Leave, loopVars,
  Loop!Next, Loop!outcome, Loop!broker, Loop!Batch, Loop!Larger, Loop!Continue, Loop!Produce,
  Loop!Join, Loop!AutoCommit, Loop!Rebalance, Loop!Evict, Loop!Crash, Loop!Deliver, Loop!Timer,
  Loop!Drain, Loop!HandlerSucceeds, Loop!HandlerFails, Loop!Mark, Loop!Leave

LEMMA LoopInit == Loop!Init => Loop!IInv
<1>1. LP!BatchSizeAssumption /\ LP!BoundsAssumption /\ LP!PoisonAssumption
  BY BatchSizeAssumption, BoundsAssumption
     DEF LP!BatchSizeAssumption, LP!BoundsAssumption, LP!PoisonAssumption
<1>2. Loop!Init => LP!Init
  BY DEF Loop!Init, LP!Init
<1>3. LP!Init => LP!IInv
  BY LP!InvInit, <1>1
<1> QED
  BY <1>2, <1>3, SameIInv

LEMMA LoopInv == ASSUME Loop!IInv, [Loop!Next]_loopVars PROVE (Loop!IInv)'
<1>1. LP!BatchSizeAssumption /\ LP!BoundsAssumption /\ LP!PoisonAssumption
  BY BatchSizeAssumption, BoundsAssumption
     DEF LP!BatchSizeAssumption, LP!BoundsAssumption, LP!PoisonAssumption
<1>2. LP!IInv /\ [LP!Next]_(LP!vars)
  BY SameIInv, SameNext
<1>3. (LP!IInv)'
  BY LP!InvStep, <1>1, <1>2
<1> QED
  BY <1>3, SameIInvPrime

\* A step of the pipeline is a step of the loop, or leaves it alone.
LEMMA LoopStep == [Next]_vars => [Loop!Next]_loopVars
<1> SUFFICES ASSUME [Next]_vars PROVE Loop!Next \/ UNCHANGED loopVars
  OBVIOUS
<1>1. ASSUME NEW s \in Subject, NEW t \in 0..MaxSecond,
             NEW new \in Images[s] \cup {NoImage}, NEW before \in {rows[s], NoImage},
             Change(s, new, before, t)
      PROVE  Loop!Next
  BY <1>1 DEF Change, Logged, Loop!Next
<1>2. ASSUME NEW s \in Subject, NEW t \in 0..MaxSecond, Snapshot(s, t) PROVE Loop!Next
  BY <1>2 DEF Snapshot, Logged, Loop!Next
<1>3. CASE Litter
  BY <1>3 DEF Litter, Logged, Loop!Next
<1>4. ASSUME NEW c \in Consumer,
             \/ Join(c) \/ AutoCommit(c) \/ Interrupt(c) \/ Crash(c)
             \/ Deliver(c) \/ Timer(c) \/ Drain(c) \/ Mark(c) \/ Leave(c)
      PROVE  Loop!Next
  BY <1>4 DEF Join, AutoCommit, Interrupt, Crash, Deliver, Timer, Drain, Mark, Leave, Outside,
              Loop!Next
<1>5. ASSUME NEW c \in Consumer, Return(c) PROVE Loop!Next
  BY <1>5 DEF Return, Loop!Next
<1>6. ASSUME NEW c \in Consumer, Begin(c) PROVE UNCHANGED loopVars
  BY <1>6 DEF Begin
<1>7. ASSUME NEW c \in Consumer, NEW o \in unsent[c], Send(c, o) \/ SendFails(c, o)
      PROVE  UNCHANGED loopVars
  BY <1>7 DEF Send, SendFails, Took
<1>8. ASSUME UNCHANGED vars PROVE UNCHANGED loopVars
  BY <1>8 DEF vars
<1> QED
  BY <1>1, <1>2, <1>3, <1>4, <1>5, <1>6, <1>7, <1>8 DEF Next

\* The pipeline is a consumer loop: its handler is, for the loop, one call that succeeds or
\* fails, whatever it does in between.
THEOREM PipelineIsALoop == Spec => LoopIsImplemented
<1>1. Init => Loop!Init
  BY DEF Init
<1>2. [Next]_vars => [Loop!Next]_(Loop!vars)
  BY LoopStep DEF loopVars, Loop!vars
<1> QED
  BY <1>1, <1>2, PTL DEF Spec, LoopIsImplemented, Loop!Spec

-----------------------------------------------------------------------------
(***************************************************************************)
(* Types.                                                                  *)
(***************************************************************************)

LEMMA ContentType == ASSUME NEW i \in Image \cup {NoImage} PROVE Content(i) \in Image
BY DEF Content, Empty, Image

LEMMA PairsType ==
  ASSUME NEW F \in SUBSET Field, NEW old \in Image, NEW new \in Image
  PROVE  Pairs(F, old, new) \in [F -> [old : Value \cup {Null}, new : Value \cup {Null}]]
BY DEF Pairs, Image

\* The properties of an event are fields with values.
LEMMA ChangesType ==
  ASSUME NEW r \in Record
  PROVE  \E F \in SUBSET Field :
           Changes(r) \in [F -> [old : Value \cup {Null}, new : Value \cup {Null}]]
<1> DEFINE old == Content(r.before)
           new == Content(r.after)
<1>1. old \in Image /\ new \in Image /\ Empty \in Image
  BY ContentType DEF Record, Empty, Image
<1>2. r.op \in {"c", "u", "d", "r"}
  BY DEF Record
<1>3. \/ \E F \in SUBSET Field : Changes(r) = Pairs(F, Empty, new)
      \/ \E F \in SUBSET Field : Changes(r) = Pairs(F, old, Empty)
      \/ \E F \in SUBSET Field : Changes(r) = Pairs(F, old, new)
  <2>1. FieldsSet(new) \in SUBSET Field /\ FieldsSet(old) \in SUBSET Field
    BY DEF FieldsSet
  <2>2. {f \in Field : old[f] # new[f]} \in SUBSET Field
    OBVIOUS
  <2>3. CASE r.op \in {"c", "r"}
    <3>1. Changes(r) = Pairs(FieldsSet(new), Empty, new)
      BY <2>3 DEF Changes, Operation, InsertLike
    <3> QED
      BY <2>1, <3>1
  <2>4. CASE r.op = "d"
    <3>1. Changes(r) = Pairs(FieldsSet(old), old, Empty)
      BY <2>4 DEF Changes, Operation
    <3> QED
      BY <2>1, <3>1
  <2>5. CASE r.op = "u"
    <3>1. CASE old = Empty
      <4>1. Changes(r) = Pairs(FieldsSet(new), Empty, new)
        BY <2>5, <3>1 DEF Changes, Operation, InsertLike
      <4> QED
        BY <2>1, <4>1
    <3>2. CASE old # Empty
      <4>1. Changes(r) = Pairs({f \in Field : old[f] # new[f] \/ AlwaysTold(r, f)}, old, new)
        BY <2>5, <3>2 DEF Changes, Operation
      <4> QED
        BY <2>2, <4>1
    <3> QED
      BY <3>1, <3>2
  <2> QED
    BY <1>2, <2>3, <2>4, <2>5
<1>4. PICK F \in SUBSET Field, a \in Image, b \in Image : Changes(r) = Pairs(F, a, b)
  <2> HIDE DEF old, new
  <2> QED
    BY <1>1, <1>3
<1> QED
  BY <1>4, PairsType

\* What the reader makes of an event is again a content, or nothing.
LEMMA AppliedType ==
  ASSUME NEW r \in Record, NEW content \in Image \cup {NoImage}
  PROVE  Applied(content, r) \in Image \cup {NoImage}
<1>1. PICK F \in SUBSET Field :
        Changes(r) \in [F -> [old : Value \cup {Null}, new : Value \cup {Null}]]
  BY ChangesType
<1>2. Content(content) \in Image
  BY ContentType
<1>3. [f \in Field |-> IF f \in DOMAIN Changes(r) THEN Changes(r)[f].new ELSE Null] \in Image
  BY <1>1 DEF Image
<1>4. [f \in Field |-> IF f \in DOMAIN Changes(r) THEN Changes(r)[f].new ELSE Content(content)[f]]
        \in Image
  BY <1>1, <1>2 DEF Image
<1>5. EventType(r) \in {"created", "updated", "deleted"}
  BY DEF EventType, PointEventType, Operation, Record
<1> QED
  BY <1>3, <1>4, <1>5 DEF Applied

-----------------------------------------------------------------------------
(***************************************************************************)
(* What becomes of the log.                                                *)
(***************************************************************************)

\* The records that are there stay as they are.
LogKept == \A o \in 0..(end - 1) : At(o)' = At(o)

\* A record that stays as it is tells what it told, with the same key.
LEMMA SameRecord ==
  ASSUME LogKept PROVE \A o \in 0..(end - 1) : Tells(o)' = Tells(o) /\ KeyAt(o)' = KeyAt(o)
BY DEF LogKept, Tells, Parses, Publishable, Valid, IsTableMonitored, Transformable, TableOf, KeyAt,
       Reference

LEMMA LogOnlyGrows ==
  ASSUME TypeOK, NEW r, log' = Append(log, r) \/ log' = log PROVE LogKept
BY DEF TypeOK, LogKept, At

-----------------------------------------------------------------------------
(***************************************************************************)
(* The history of a row.                                                   *)
(***************************************************************************)

LEMMA NewestIsThere ==
  ASSUME NEW b \in Nat, NEW S \in SUBSET (0..b), S # {}
  PROVE  Newest(S) \in S /\ \A o \in S : o <= Newest(S)
<1> DEFINE Less == {ss \in Nat \X Nat : ss[1] < ss[2]}
           Behind == {b - o : o \in S}
<1>1. IsWellFoundedOn(Less, Nat)
  BY NatLessThanWellFounded DEF OpToRel
<1>0. \A o \in S : o \in Nat /\ b - o \in Nat
  OBVIOUS
<1>2. Behind \in SUBSET Nat /\ Behind # {}
  BY <1>0
<1>3. PICK d \in Behind : \A e \in Behind : ~(<<e, d>> \in Less)
  <2> HIDE DEF Less, Behind
  <2> QED
    BY <1>1, <1>2, WFMin
<1>4. PICK m \in S : d = b - m
  OBVIOUS
<1>5. ASSUME NEW o \in S, m < o PROVE FALSE
  <2>1. b - o \in Behind /\ b - o \in Nat /\ b - m \in Nat /\ b - o < b - m
    BY <1>0, <1>5
  <2>2. <<b - o, d>> \in Less
    BY <1>4, <2>1
  <2> QED
    BY <1>3, <2>1, <2>2
<1>6. \A o \in S : o <= m
  <2> SUFFICES ASSUME NEW o \in S PROVE o <= m
    OBVIOUS
  <2>1. o \in Nat /\ m \in Nat /\ ~(m < o)
    BY <1>0, <1>5
  <2> QED
    BY <2>1
<1> QED
  BY <1>4, <1>6 DEF Newest

\* The newest of a set that one offset tops.
LEMMA NewestIs ==
  ASSUME NEW S \in SUBSET Nat, NEW m \in S, \A o \in S : o <= m
  PROVE  Newest(S) = m
<1>1. Newest(S) \in S /\ \A o \in S : o <= Newest(S)
  BY DEF Newest
<1>2. Newest(S) \in Nat /\ m \in Nat /\ m <= Newest(S) /\ Newest(S) <= m
  BY <1>1
<1> QED
  BY <1>2

\* The records before offset n that are of row s.
Past(s, n) == {o \in 0..(n - 1) : At(o) # Garbage /\ At(o).subject = s}

LEMMA RowAtIs ==
  ASSUME NEW s, NEW n \in Nat
  PROVE  /\ Past(s, n) = {} => RowAt(s, n) = NoImage
         /\ Past(s, n) # {} => /\ RowAt(s, n) = At(Newest(Past(s, n))).after
                               /\ Newest(Past(s, n)) \in 0..(n - 1)
<1>1. RowAt(s, n) = IF Past(s, n) = {} THEN NoImage ELSE At(Newest(Past(s, n))).after
  BY DEF RowAt, Past
<1>2. ASSUME Past(s, n) # {} PROVE Newest(Past(s, n)) \in 0..(n - 1)
  <2>1. Past(s, n) \in SUBSET (0..n) /\ Past(s, n) \subseteq 0..(n - 1)
    BY DEF Past
  <2> QED
    BY <1>2, <2>1, NewestIsThere
<1> QED
  BY <1>1, <1>2

\* What records tell of a row stays.
LEMMA RowAtKept ==
  ASSUME LogKept, end \in Nat, NEW s, NEW n \in 0..end
  PROVE  RowAt(s, n)' = RowAt(s, n)
<1>1. \A o \in 0..(n - 1) : At(o)' = At(o)
  BY DEF LogKept
<1>2. Past(s, n)' = Past(s, n)
  BY <1>1 DEF Past
<1>3. n \in Nat
  OBVIOUS
<1>4. RowAt(s, n)' = IF Past(s, n)' = {} THEN NoImage ELSE log'[Newest(Past(s, n)') + 1].after
  BY DEF RowAt, Past, Newest, At
<1>5. RowAt(s, n) = IF Past(s, n) = {} THEN NoImage ELSE At(Newest(Past(s, n))).after
  BY DEF RowAt, Past
<1>6. CASE Past(s, n) = {}
  BY <1>2, <1>4, <1>5, <1>6
<1>7. CASE Past(s, n) # {}
  <2>1. PICK m \in 0..(n - 1) : m = Newest(Past(s, n))
    BY <1>3, <1>7, RowAtIs
  <2>2. At(m)' = At(m)
    BY <1>1, <2>1
  <2>3. RowAt(s, n)' = At(m)'.after
    BY <1>2, <1>4, <1>7, <2>1 DEF At
  <2>4. RowAt(s, n) = At(m).after
    BY <1>5, <1>7, <2>1
  <2> QED
    BY <2>2, <2>3, <2>4
<1> QED
  BY <1>6, <1>7

\* One more record tells of its own row only.
LEMMA RowAtNext ==
  ASSUME TypeOK, NEW r, log' = Append(log, r), NEW n \in Nat, n = end, NEW s
  PROVE  RowAt(s, n + 1)' = IF r # Garbage /\ r.subject = s THEN r.after ELSE RowAt(s, n)
<1>1. Len(log) = n /\ log \in Seq(Record \cup {Garbage})
  BY DEF TypeOK
<1>2. (\A o \in 0..(n - 1) : At(o)' = At(o)) /\ At(n)' = r
  BY <1>1 DEF At
<1>3. LogKept
  BY <1>2 DEF LogKept
<1>4. \A i \in Nat : RowAt(s, i)' = IF Past(s, i)' = {} THEN NoImage
                                    ELSE log'[Newest(Past(s, i)') + 1].after
  BY DEF RowAt, Past, Newest, At
<1>5. CASE r # Garbage /\ r.subject = s
  <2>1. \A o : o \in Past(s, n + 1)' <=> o \in 0..n /\ At(o)' # Garbage /\ At(o)'.subject = s
    BY DEF Past, Garbage
  <2>2. n \in Past(s, n + 1)' /\ Past(s, n + 1)' \in SUBSET Nat /\ \A o \in Past(s, n + 1)' : o <= n
    BY <1>2, <1>5, <2>1
  <2>3. Newest(Past(s, n + 1)') = n
    BY <2>2, NewestIs
  <2>4. RowAt(s, n + 1)' = log'[n + 1].after
    <3>1. n + 1 \in Nat /\ Past(s, n + 1)' # {}
      BY <2>2
    <3>2. RowAt(s, n + 1)' = log'[Newest(Past(s, n + 1)') + 1].after
      BY <1>4, <3>1
    <3> QED
      BY <2>3, <3>2
  <2> QED
    BY <1>2, <1>5, <2>4 DEF At
<1>6. CASE ~(r # Garbage /\ r.subject = s)
  <2>2. Past(s, n + 1)' = Past(s, n)'
    <3>1. \A o : o \in Past(s, n + 1)' <=> o \in 0..n /\ At(o)' # Garbage /\ At(o)'.subject = s
      BY DEF Past, Garbage
    <3>2. \A o : o \in Past(s, n)' <=> o \in 0..(n - 1) /\ At(o)' # Garbage /\ At(o)'.subject = s
      BY DEF Past, Garbage
    <3>3. \A o \in 0..n : o # n => o \in 0..(n - 1)
      OBVIOUS
    <3>4. \A o \in 0..(n - 1) : o \in 0..n
      OBVIOUS
    <3>5. \A o : o \in Past(s, n + 1)' <=> o \in Past(s, n)'
      BY <1>2, <1>6, <3>1, <3>2, <3>3, <3>4
    <3>6. \A o : o \in Past(s, n + 1)' => o \in 0..n
      BY <3>1
    <3> QED
      BY <3>5 DEF Past
  <2>3. RowAt(s, n + 1)' = RowAt(s, n)'
    BY <1>4, <2>2
  <2>4. RowAt(s, n)' = RowAt(s, n)
    BY <1>3, RowAtKept
  <2> QED
    BY <1>6, <2>3, <2>4
<1> QED
  BY <1>5, <1>6

-----------------------------------------------------------------------------
(***************************************************************************)
(* The inductive invariant.                                                *)
(***************************************************************************)

\* What of the invariant is not about types or the loop.
Rest == /\ HandledIsPublished
        /\ published \subseteq Events(0..(end - 1))
        /\ handled \cup failed \subseteq 0..(end - 1)
        /\ ~disturbed => Events(failed) = {}
        /\ \A c \in Consumer : BatchOK(c)
        /\ OrderedUnlessDisturbed

\* A batch has been received.
LEMMA BatchReceived ==
  ASSUME Loop!IInv, NEW c \in Consumer
  PROVE  Loop!Batch(c) \subseteq 0..(end - 1) /\ Loop!Batch(c) \subseteq Nat
BY DEF Loop!IInv, Loop!TypeOK, Loop!LoopOK, Loop!Batch

LEMMA LongerLog ==
  ASSUME NEW m \in Nat, NEW n \in Nat, m <= n PROVE \A o \in 0..(m - 1) : o \in 0..(n - 1)
OBVIOUS

\* A step that adds records, or moves a loop whose handler is not at work or dies, keeps it.
LEMMA Bystanders ==
  ASSUME IInv, Loop!IInv', LogKept, end <= end', base <= base',
         UNCHANGED <<handled, failed, published, disturbed, errors>>,
         \A d \in Consumer :
           \/ stage'[d] = "out" /\ unsent'[d] = {}
           \/ /\ stage'[d] = stage[d] /\ unsent'[d] = unsent[d]
              /\ stage[d] = "send" => loop'[d] = loop[d] /\ low'[d] = low[d] /\ next'[d] = next[d]
  PROVE  Rest'
<1>t. /\ end \in Nat /\ end' \in Nat /\ base \in Nat /\ base' \in Nat
      /\ published \subseteq Nat
  BY DEF IInv, TypeOK, Loop!IInv, Loop!TypeOK
<1>1. \A o \in 0..(end - 1) : Tells(o)' = Tells(o) /\ KeyAt(o)' = KeyAt(o)
  BY SameRecord
<1>2. \A o \in 0..(end - 1) : o \in 0..(end' - 1)
  BY <1>t, LongerLog
<1>3. HandledIsPublished'
  <2>1. \A o \in handled : o \in 0..(end - 1) /\ (Tells(o) => o \in published)
    BY DEF IInv, HandledIsPublished, Events
  <2>2. \A o \in handled' : Tells(o)' => o \in published'
    BY <1>1, <2>1
  <2> QED
    BY <2>2 DEF HandledIsPublished, Events
<1>4. (published \subseteq Events(0..(end - 1)))' /\ (handled \cup failed \subseteq 0..(end - 1))'
  BY <1>1, <1>2 DEF IInv, Events
<1>5. (~disturbed => Events(failed) = {})'
  BY <1>1 DEF IInv, Events
<1>6. ASSUME NEW d \in Consumer PROVE BatchOK(d)'
  <2>1. CASE stage'[d] = "out" /\ unsent'[d] = {}
    BY <2>1 DEF BatchOK
  <2>2. CASE /\ stage'[d] = stage[d] /\ unsent'[d] = unsent[d] /\ stage[d] = "send"
             /\ loop'[d] = loop[d] /\ low'[d] = low[d] /\ next'[d] = next[d]
    <3>1. Loop!Batch(d)' = Loop!Batch(d) /\ Loop!Batch(d) \subseteq 0..(end - 1)
      BY <2>2, BatchReceived DEF Loop!Batch, IInv
    <3>2. Events(Loop!Batch(d))' = Events(Loop!Batch(d))
      BY <1>1, <3>1 DEF Events
    <3>3. Races(Loop!Batch(d))' <=> Races(Loop!Batch(d))
      BY <1>1, <3>1, <3>2 DEF Races, Events
    <3>4. BatchOK(d)
      BY DEF IInv
    <3> QED
      BY <2>2, <3>2, <3>3, <3>4 DEF BatchOK
  <2>3. CASE stage'[d] = stage[d] /\ unsent'[d] = unsent[d] /\ stage[d] # "send"
    BY <2>3 DEF IInv, BatchOK
  <2> QED
    BY <2>1, <2>2, <2>3
<1>7. OrderedUnlessDisturbed'
  <2> SUFFICES ASSUME ~disturbed, NEW p \in published, NEW o \in base'..(p - 1),
                      Tells(o)', KeyAt(o)' = KeyAt(p)'
               PROVE  o \in published
    BY DEF OrderedUnlessDisturbed, InOrder, Events
  <2>1. p \in 0..(end - 1) /\ o \in base..(p - 1) /\ o \in 0..(end - 1)
    BY <1>t DEF IInv, Events
  <2> QED
    BY <1>1, <2>1 DEF IInv, OrderedUnlessDisturbed, InOrder, Events
<1> QED
  BY <1>3, <1>4, <1>5, <1>6, <1>7 DEF Rest


\* An event reaches the topic: what was published before it and has its key is of an earlier
\* batch, or the batch has two events of the key.
LEMMA SendInv ==
  ASSUME IInv, NEW c \in Consumer, NEW o \in unsent[c], Took(c, o),
         published' = published \cup {o} \/ published' = published,
         \/ published' = published \cup {o} /\ UNCHANGED <<errors, disturbed>>
         \/ errors' = errors \cup {c} /\ disturbed' = TRUE
  PROVE  Rest'
<1>t. /\ end \in Nat /\ base \in Nat /\ published \subseteq Nat
      /\ unsent \in [Consumer -> SUBSET Nat]
      /\ Loop!IInv
  BY DEF IInv, TypeOK, Loop!IInv, Loop!TypeOK
<1>u. /\ UNCHANGED <<loopVars, log, stage>>
      /\ unsent' = [unsent EXCEPT ![c] = @ \ {o}]
      /\ stage[c] = "send"
  BY DEF Took, tables
<1>k. UNCHANGED <<end, base, low, next, loop, handled, failed>>
  BY <1>u DEF loopVars
<1>e. \A p : Tells(p)' = Tells(p) /\ KeyAt(p)' = KeyAt(p)
  BY <1>u DEF Tells, Parses, KeyAt, At
<1>b. /\ o \in Events(Loop!Batch(c)) /\ o \in Events(0..(end - 1))
      /\ BatchOK(c)
  BY <1>u, <1>t, BatchReceived DEF IInv, BatchOK, Events
<1>3. HandledIsPublished' /\ (published \subseteq Events(0..(end - 1)))'
      /\ (handled \cup failed \subseteq 0..(end - 1))'
  <2>1. published \subseteq published' /\ published' \subseteq published \cup {o}
    OBVIOUS
  <2>2. Events(handled)' = Events(handled) /\ Events(0..(end - 1))' = Events(0..(end - 1))
    BY <1>e, <1>k DEF Events
  <2> QED
    BY <2>1, <2>2, <1>b, <1>k DEF IInv, HandledIsPublished
<1>5. (~disturbed => Events(failed) = {})'
  <2>1. Events(failed)' = Events(failed)
    BY <1>e, <1>k DEF Events
  <2> QED
    BY <2>1 DEF IInv
<1>6. ASSUME NEW d \in Consumer PROVE BatchOK(d)'
  <2>1. Loop!Batch(d)' = Loop!Batch(d)
    BY <1>k DEF Loop!Batch
  <2>2. Events(Loop!Batch(d))' = Events(Loop!Batch(d))
    BY <1>e, <2>1 DEF Events
  <2>3. Races(Loop!Batch(d))' <=> Races(Loop!Batch(d))
    BY <1>e, <2>1, <2>2 DEF Races
  <2>4. BatchOK(d)
    BY DEF IInv
  <2>5. CASE d # c
    BY <1>u, <1>k, <1>t, <2>2, <2>3, <2>4, <2>5 DEF BatchOK
  <2>6. CASE d = c
    BY <1>u, <1>k, <1>t, <2>2, <2>3, <2>4, <2>6 DEF BatchOK
  <2> QED
    BY <2>5, <2>6
<1>7. OrderedUnlessDisturbed'
  <2> SUFFICES ASSUME ~disturbed', NEW p \in published', NEW q \in base..(p - 1),
                      Tells(q), KeyAt(q) = KeyAt(p)
               PROVE  q \in published'
    BY <1>e, <1>k DEF OrderedUnlessDisturbed, InOrder, Events
  <2>1. ~disturbed /\ published' = published \cup {o} /\ UNCHANGED errors
    OBVIOUS
  <2>2. CASE p \in published
    BY <2>1, <2>2 DEF IInv, OrderedUnlessDisturbed, InOrder, Events
  <2>3. CASE p = o
    <3>1. CASE q < low[c]
      <4>1. q \in base..(low[c] - 1)
        BY <1>t, <1>b, <2>3, <3>1 DEF Events, Loop!IInv, Loop!TypeOK
      <4>2. q \in handled \/ q \in failed
        BY <4>1, <1>t DEF Loop!IInv, Loop!LoopOK, Loop!Attempted
      <4>3. q \notin failed
        BY <2>1 DEF IInv, Events
      <4> QED
        BY <4>2, <4>3 DEF IInv, HandledIsPublished, Events
    <3>2. CASE ~(q < low[c])
      <4>1. q \in Events(Loop!Batch(c)) /\ q # o
        BY <1>t, <1>b, <2>3, <3>2 DEF Events, Loop!IInv, Loop!TypeOK, Loop!Batch
      <4>2. Races(Loop!Batch(c))
        BY <4>1, <1>b, <2>3 DEF Races
      <4> QED
        BY <4>2, <1>b, <1>u, <2>1 DEF BatchOK
    <3> QED
      BY <3>1, <3>2
  <2> QED
    BY <2>1, <2>2, <2>3
<1> QED
  BY <1>3, <1>5, <1>6, <1>7 DEF Rest


\* The handler takes a batch.
LEMMA BeginInv == ASSUME IInv, NEW c \in Consumer, Begin(c) PROVE Rest'
<1>t. Loop!IInv /\ stage \in [Consumer -> {"out", "send"}] /\ unsent \in [Consumer -> SUBSET Nat]
  BY DEF IInv, TypeOK
<1>u. /\ UNCHANGED <<loopVars, log, published>>
      /\ loop[c] \in {"handle", "handleLast"}
      /\ stage' = [stage EXCEPT ![c] = "send"]
      /\ unsent' = [unsent EXCEPT ![c] = Events(Loop!Batch(c))]
      /\ disturbed' = (disturbed \/ Races(Loop!Batch(c)))
      /\ errors' \ {c} = errors \ {c}
      /\ c \in errors' => Events(Loop!Batch(c)) = {}
  BY DEF Begin, tables, Events, Tells, Publishable
<1>k. UNCHANGED <<end, base, low, next, loop, handled, failed>>
  BY <1>u DEF loopVars
<1>e. \A p : Tells(p)' = Tells(p) /\ KeyAt(p)' = KeyAt(p)
  BY <1>u DEF Tells, Parses, KeyAt, At
<1>1. /\ Events(handled)' = Events(handled)
      /\ Events(failed)' = Events(failed)
      /\ Events(0..(end - 1))' = Events(0..(end - 1))
  BY <1>e, <1>k DEF Events
<1>2. ~disturbed' => ~disturbed
  BY <1>u
<1>3. ASSUME NEW d \in Consumer PROVE BatchOK(d)'
  <2>1. Loop!Batch(d)' = Loop!Batch(d)
    BY <1>k DEF Loop!Batch
  <2>2. Events(Loop!Batch(d))' = Events(Loop!Batch(d))
    BY <1>e, <2>1 DEF Events
  <2>3. Races(Loop!Batch(d))' <=> Races(Loop!Batch(d))
    BY <1>e, <2>1, <2>2 DEF Races
  <2>4. BatchOK(d)
    BY DEF IInv
  <2>5. CASE d # c
    BY <1>u, <1>k, <1>t, <2>2, <2>3, <2>4, <2>5 DEF BatchOK
  <2>6. CASE d = c
    BY <1>u, <1>k, <1>t, <2>2, <2>3, <2>6 DEF BatchOK
  <2> QED
    BY <2>5, <2>6
<1>4. OrderedUnlessDisturbed'
  BY <1>2, <1>e, <1>k, <1>u DEF IInv, OrderedUnlessDisturbed, InOrder, Events
<1> QED
  BY <1>1, <1>2, <1>3, <1>4, <1>k, <1>u DEF IInv, Rest, HandledIsPublished

\* The handler returns: without an error its batch is in the topic; with one, the sends were
\* disturbed or the batch had nothing to tell.
LEMMA ReturnInv == ASSUME IInv, NEW c \in Consumer, Return(c) PROVE Rest'
<1>t. Loop!IInv /\ stage \in [Consumer -> {"out", "send"}] /\ unsent \in [Consumer -> SUBSET Nat]
      /\ Loop!TypeOK
  BY DEF IInv, TypeOK
<1>u. /\ UNCHANGED <<log, unsent, errors, published, disturbed>>
      /\ stage[c] = "send" /\ unsent[c] = {}
      /\ stage' = [stage EXCEPT ![c] = "out"]
      /\ IF c \in errors THEN Loop!HandlerFails(c) ELSE Loop!HandlerSucceeds(c)
  BY DEF Return, tables, topic
<1>k. /\ UNCHANGED <<end, base, next>>
      /\ \A d \in Consumer : d # c => low'[d] = low[d] /\ loop'[d] = loop[d]
  BY <1>u, <1>t DEF Loop!HandlerFails, Loop!HandlerSucceeds, Loop!broker, Loop!TypeOK
<1>e. \A p : Tells(p)' = Tells(p) /\ KeyAt(p)' = KeyAt(p)
  BY <1>u DEF Tells, Parses, KeyAt, At
<1>b. BatchOK(c) /\ Loop!Batch(c) \subseteq 0..(end - 1)
  BY <1>t, BatchReceived DEF IInv
<1>h. \/ handled' = handled \cup Loop!Batch(c) /\ failed' = failed /\ c \notin errors
      \/ handled' = handled /\ failed' = failed \cup Loop!Batch(c) /\ c \in errors
  BY <1>u DEF Loop!HandlerFails, Loop!HandlerSucceeds
<1>1. HandledIsPublished'
  <2>1. Events(handled)' = Events(handled')
    BY <1>e DEF Events
  <2>2. Events(handled') \subseteq published
    BY <1>h, <1>b, <1>u DEF IInv, HandledIsPublished, BatchOK, Events
  <2> QED
    BY <2>1, <2>2, <1>u DEF HandledIsPublished
<1>2. (~disturbed => Events(failed) = {})'
  <2>1. Events(failed)' = Events(failed')
    BY <1>e DEF Events
  <2>2. ~disturbed => Events(failed') = {}
    BY <1>h, <1>b, <1>u DEF IInv, BatchOK, Events
  <2> QED
    BY <2>1, <2>2, <1>u
<1>3. (published \subseteq Events(0..(end - 1)))' /\ (handled \cup failed \subseteq 0..(end - 1))'
  <2>1. Events(0..(end - 1))' = Events(0..(end - 1))
    BY <1>e, <1>k DEF Events
  <2> QED
    BY <2>1, <1>h, <1>b, <1>k, <1>u DEF IInv
<1>4. ASSUME NEW d \in Consumer PROVE BatchOK(d)'
  <2>1. CASE d # c
    <3>1. Loop!Batch(d)' = Loop!Batch(d)
      BY <1>k, <2>1 DEF Loop!Batch
    <3>2. Events(Loop!Batch(d))' = Events(Loop!Batch(d))
      BY <1>e, <3>1 DEF Events
    <3>3. Races(Loop!Batch(d))' <=> Races(Loop!Batch(d))
      BY <1>e, <3>1, <3>2 DEF Races
    <3>4. BatchOK(d)
      BY DEF IInv
    <3> QED
      BY <1>u, <1>k, <1>t, <2>1, <3>2, <3>3, <3>4 DEF BatchOK
  <2>2. CASE d = c
    BY <1>u, <1>t, <2>2 DEF BatchOK
  <2> QED
    BY <2>1, <2>2
<1>5. OrderedUnlessDisturbed'
  BY <1>e, <1>k, <1>u DEF IInv, OrderedUnlessDisturbed, InOrder, Events
<1> QED
  BY <1>1, <1>2, <1>3, <1>4, <1>5 DEF Rest


\* The tables change, or Debezium writes what is not a record.
LEMMA LogInv ==
  ASSUME IInv, Loop!IInv', NEW r, Logged(r) PROVE Rest'
<1>1. /\ log' = Append(log, r) /\ end' = end + 1
      /\ UNCHANGED <<base, handled, failed, published, disturbed, errors, stage, unsent, loop, low,
                     next>>
  BY DEF Logged, Loop!Produce, Loop!outcome, handler, topic
<1>2. LogKept /\ end <= end' /\ base <= base'
  BY <1>1, LogOnlyGrows DEF IInv, Loop!IInv, Loop!TypeOK
<1> QED
  BY <1>1, <1>2, Bystanders

\* The steps of the loop outside its handler, and a crash.
LEMMA OutsideInv ==
  ASSUME IInv, Loop!IInv', NEW c \in Consumer,
         \/ Join(c) \/ AutoCommit(c) \/ Interrupt(c) \/ Crash(c)
         \/ Deliver(c) \/ Timer(c) \/ Drain(c) \/ Mark(c) \/ Leave(c)
  PROVE  Rest'
<1>t. /\ Loop!TypeOK /\ base <= end
      /\ stage \in [Consumer -> {"out", "send"}] /\ unsent \in [Consumer -> SUBSET Nat]
      /\ \A d \in Consumer : BatchOK(d)
  BY DEF IInv, TypeOK, Loop!IInv
<1>1. /\ UNCHANGED <<end, log, handled, failed, published, disturbed, errors>>
      /\ base' = base \/ base' = end
      /\ \A d \in Consumer : d # c => loop'[d] = loop[d] /\ low'[d] = low[d] /\ next'[d] = next[d]
      /\ \A d \in Consumer : d # c => stage'[d] = stage[d] /\ unsent'[d] = unsent[d]
      /\ \/ stage'[c] = "out" /\ unsent'[c] = {}
         \/ /\ stage' = stage /\ unsent' = unsent
            /\ \/ loop[c] \notin {"handle", "handleLast"}
               \/ loop'[c] = loop[c] /\ low'[c] = low[c] /\ next'[c] = next[c]
  <2>1. CASE Crash(c)
    BY <2>1, <1>t DEF Crash, Loop!Crash, Loop!outcome, tables, topic, Loop!TypeOK
  <2>2. CASE Join(c)
    BY <2>2, <1>t DEF Join, Outside, Loop!Join, Loop!outcome, tables, handler, topic, Loop!TypeOK
  <2>3. CASE AutoCommit(c) \/ Interrupt(c)
    BY <2>3, <1>t DEF AutoCommit, Interrupt, Outside, Loop!AutoCommit, Loop!Rebalance, Loop!Evict,
                      Loop!outcome, tables, handler, topic
  <2>4. CASE Deliver(c) \/ Timer(c) \/ Drain(c)
    BY <2>4, <1>t DEF Deliver, Timer, Drain, Outside, Loop!Deliver, Loop!Timer, Loop!Drain,
                      Loop!outcome, Loop!broker, tables, handler, topic, Loop!TypeOK
  <2>5. CASE Mark(c) \/ Leave(c)
    BY <2>5, <1>t DEF Mark, Leave, Outside, Loop!Mark, Loop!Leave, Loop!outcome, Loop!broker,
                      tables, handler, topic, Loop!TypeOK
  <2> QED
    BY <2>1, <2>2, <2>3, <2>4, <2>5
<1>2. LogKept
  BY <1>1 DEF LogKept, At
<1>3. end <= end' /\ base <= base'
  BY <1>1, <1>t DEF Loop!TypeOK
<1>4. ASSUME NEW d \in Consumer
      PROVE  \/ stage'[d] = "out" /\ unsent'[d] = {}
             \/ /\ stage'[d] = stage[d] /\ unsent'[d] = unsent[d]
                /\ stage[d] = "send" => loop'[d] = loop[d] /\ low'[d] = low[d] /\ next'[d] = next[d]
  BY <1>1, <1>t DEF BatchOK
<1> QED
  BY <1>1, <1>2, <1>3, <1>4, Bystanders

-----------------------------------------------------------------------------
(***************************************************************************)
(* Types, once the invariant says which records the events are of.         *)
(***************************************************************************)

LEMMA TypeStep == ASSUME IInv, Loop!IInv', [Next]_vars PROVE TypeOK'
<1>t. TypeOK /\ (Loop!TypeOK)' /\ Len(log) = end /\ end \in Nat
  BY DEF IInv, TypeOK, Loop!IInv, Loop!TypeOK
<1>i. \A s \in Subject : Images[s] \subseteq Image
  BY ImagesAssumption
<1>l. ASSUME NEW r \in Record \cup {Garbage}, Logged(r), rows' \in [Subject -> Image \cup {NoImage}]
      PROVE  TypeOK'
  <2>1. log' \in Seq(Record \cup {Garbage}) /\ Len(log') = end'
    BY <1>l, <1>t DEF Logged, TypeOK, Loop!Produce
  <2> QED
    BY <1>l, <1>t, <2>1 DEF Logged, TypeOK, handler, topic
<1>1. ASSUME NEW s \in Subject, NEW t \in 0..MaxSecond,
             NEW new \in Images[s] \cup {NoImage}, NEW before \in {rows[s], NoImage},
             Change(s, new, before, t)
      PROVE  TypeOK'
  <2> DEFINE r == [subject |-> s, before |-> before, after |-> new, second |-> t,
                   op |-> IF rows[s] = NoImage THEN "c" ELSE IF new = NoImage THEN "d" ELSE "u"]
  <2>1. new \in Image \cup {NoImage} /\ before \in Image \cup {NoImage} /\ t \in Nat
    BY <1>t, <1>i, SecondAssumption DEF TypeOK
  <2>2. r \in Record
    BY <2>1 DEF Record
  <2>3. Logged(r) /\ rows' \in [Subject -> Image \cup {NoImage}]
    BY <1>1, <1>t, <2>1 DEF Change, TypeOK
  <2> QED
    BY <2>2, <2>3, <1>l
<1>2. ASSUME NEW s \in Subject, NEW t \in 0..MaxSecond, Snapshot(s, t) PROVE TypeOK'
  <2> DEFINE r == [subject |-> s, before |-> NoImage, after |-> rows[s], second |-> t, op |-> "r"]
  <2>1. r \in Record
    BY <1>t, SecondAssumption DEF Record, TypeOK
  <2>2. Logged(r) /\ rows' \in [Subject -> Image \cup {NoImage}]
    BY <1>2, <1>t DEF Snapshot, TypeOK
  <2> QED
    BY <2>1, <2>2, <1>l
<1>3. CASE Litter
  BY <1>3, <1>l, <1>t DEF Litter, TypeOK
<1>4. ASSUME NEW c \in Consumer,
             \/ Join(c) \/ AutoCommit(c) \/ Interrupt(c)
             \/ Deliver(c) \/ Timer(c) \/ Drain(c) \/ Mark(c) \/ Leave(c)
      PROVE  TypeOK'
  <2>1. UNCHANGED <<tables, handler, topic>>
    BY <1>4 DEF Join, AutoCommit, Interrupt, Deliver, Timer, Drain, Mark, Leave, Outside
  <2>2. end' = end
    BY <1>4 DEF Join, AutoCommit, Interrupt, Deliver, Timer, Drain, Mark, Leave, Outside, Loop!Join,
                Loop!AutoCommit, Loop!Rebalance, Loop!Evict, Loop!Deliver, Loop!Timer, Loop!Drain,
                Loop!Mark, Loop!Leave, Loop!broker
  <2> QED
    BY <1>t, <2>1, <2>2 DEF TypeOK, tables, handler, topic
<1>5. ASSUME NEW c \in Consumer, Crash(c) PROVE TypeOK'
  BY <1>5, <1>t DEF Crash, Loop!Crash, TypeOK, tables, topic
<1>6. ASSUME NEW c \in Consumer, Begin(c) PROVE TypeOK'
  <2>1. Events(Loop!Batch(c)) \in SUBSET Nat
    BY BatchReceived DEF IInv, Events
  <2>2. disturbed' \in BOOLEAN
    BY <1>6, <1>t DEF Begin, TypeOK, Races
  <2>3. UNCHANGED <<end, rows, log, published, view>>
    BY <1>6 DEF Begin, loopVars, tables
  <2>4. errors' \in SUBSET Consumer
    BY <1>6, <1>t DEF Begin, TypeOK
  <2> QED
    BY <1>6, <1>t, <2>1, <2>2, <2>3, <2>4 DEF Begin, TypeOK
<1>7. ASSUME NEW c \in Consumer, Return(c) PROVE TypeOK'
  <2>1. end' = end
    BY <1>7 DEF Return, Loop!HandlerFails, Loop!HandlerSucceeds, Loop!broker
  <2> QED
    BY <1>7, <1>t, <2>1 DEF Return, TypeOK, tables, topic
<1>8. ASSUME NEW c \in Consumer, NEW o \in unsent[c], Send(c, o) \/ SendFails(c, o) PROVE TypeOK'
  <2>1. o \in Events(Loop!Batch(c)) /\ Loop!Batch(c) \subseteq 0..(end - 1) /\ o \in Nat
    BY <1>8, BatchReceived DEF IInv, BatchOK, Send, SendFails, Took, Events
  <2>2. At(o) \in Record
    BY <1>t, <2>1 DEF Events, Tells, Parses, At, TypeOK
  <2>3. At(o).subject \in Subject
    BY <2>2 DEF Record
  <2>4. ASSUME Append1(o) PROVE view' \in [Subject -> Image \cup {NoImage}]
                                /\ published' \in SUBSET Nat
    <3>1. Applied(view[At(o).subject], At(o)) \in Image \cup {NoImage}
      BY <1>t, <2>2, <2>3, AppliedType DEF TypeOK
    <3> QED
      BY <1>t, <2>1, <2>4, <3>1 DEF Append1, TypeOK
  <2>5. view' \in [Subject -> Image \cup {NoImage}] /\ published' \in SUBSET Nat
    BY <1>8, <1>t, <2>4 DEF Send, SendFails, TypeOK
  <2>6. UNCHANGED <<end, rows, log, stage>> /\ unsent' \in [Consumer -> SUBSET Nat]
    BY <1>8, <1>t DEF Send, SendFails, Took, loopVars, tables, TypeOK
  <2>7. errors' \in SUBSET Consumer /\ disturbed' \in BOOLEAN
    BY <1>8, <1>t DEF Send, SendFails, TypeOK
  <2> QED
    BY <1>t, <2>5, <2>6, <2>7 DEF TypeOK
<1>9. ASSUME UNCHANGED vars PROVE TypeOK'
  BY <1>9, <1>t DEF vars, loopVars, tables, handler, topic, TypeOK
<1> QED
  BY <1>1, <1>2, <1>3, <1>4, <1>5, <1>6, <1>7, <1>8, <1>9 DEF Next

-----------------------------------------------------------------------------
(***************************************************************************)
(* The log tells the rows.                                                 *)
(***************************************************************************)

\* A record of one row's next change, or none, is added.
LEMMA LoggedHistory ==
  ASSUME IInv, NEW r \in Record \cup {Garbage}, Logged(r),
         \/ r = Garbage /\ rows' = rows
         \/ /\ r \in Record /\ r # Garbage
            /\ Continues(r, rows[r.subject])
            /\ \A s \in Subject : rows'[s] = IF s = r.subject THEN r.after ELSE rows[s]
  PROVE  LogTellsTheRows'
<1> PICK n \in Nat : n = end
  BY DEF IInv, TypeOK, Loop!TypeOK
<1>1. /\ TypeOK /\ log' = Append(log, r) /\ end' = n + 1
      /\ Len(log) = n /\ log \in Seq(Record \cup {Garbage})
  BY DEF IInv, TypeOK, Logged, Loop!Produce
<1>2. LogKept
  BY <1>1, LogOnlyGrows
<1>3. /\ \A s \in Subject : rows[s] = RowAt(s, n)
      /\ \A o \in 0..(n - 1) : At(o) # Garbage => Continues(At(o), RowAt(At(o).subject, o))
  BY DEF IInv, LogTellsTheRows
<1>4. \A s : RowAt(s, n + 1)' = IF r # Garbage /\ r.subject = s THEN r.after ELSE RowAt(s, n)
  BY <1>1, RowAtNext
<1>5. \A s \in Subject : rows'[s] = RowAt(s, n + 1)'
  BY <1>3, <1>4
<1>6. ASSUME NEW o \in 0..n, NEW q, q = At(o)', q # Garbage
      PROVE  Continues(q, RowAt(q.subject, o)')
  <2>2. RowAt(q.subject, o)' = RowAt(q.subject, o)
    <3>1. end \in Nat /\ o \in 0..end
      OBVIOUS
    <3> QED
      BY <1>2, <3>1, RowAtKept
  <2>3. CASE o = n
    <3>1. q = r
      BY <1>1, <1>6, <2>3 DEF At
    <3>2. r.subject \in Subject
      BY <1>6, <3>1 DEF Record
    <3> QED
      BY <1>3, <1>6, <2>2, <2>3, <3>1, <3>2
  <2>4. CASE o # n
    <3>1. o \in 0..(n - 1) /\ At(o) = q
      BY <1>1, <1>2, <1>6, <2>4 DEF LogKept
    <3> QED
      BY <1>3, <1>6, <2>2, <3>1
  <2> QED
    BY <2>3, <2>4
<1>7. \A s \in Subject : (rows[s] = RowAt(s, end))'
  BY <1>1, <1>5 DEF RowAt
<1>8. \A o \in 0..((n + 1) - 1) : (At(o) # Garbage => Continues(At(o), RowAt(At(o).subject, o)))'
  <2> SUFFICES ASSUME NEW o \in 0..n
               PROVE  (At(o) # Garbage => Continues(At(o), RowAt(At(o).subject, o)))'
    OBVIOUS
  <2>1. \A q : q = At(o)' /\ q # Garbage => Continues(q, RowAt(q.subject, o)')
    BY <1>6
  <2> QED
    BY <2>1 DEF RowAt, At, Continues, Garbage, Newest
<1> QED
  BY <1>1, <1>7, <1>8 DEF LogTellsTheRows

LEMMA HistoryStep == ASSUME IInv, [Next]_vars PROVE LogTellsTheRows'
<1>t. rows \in [Subject -> Image \cup {NoImage}]
  BY DEF IInv, TypeOK
<1>i. \A s \in Subject : Images[s] \subseteq Image
  BY ImagesAssumption
<1>1. ASSUME NEW s \in Subject, NEW t \in 0..MaxSecond,
             NEW new \in Images[s] \cup {NoImage}, NEW before \in {rows[s], NoImage},
             Change(s, new, before, t)
      PROVE  LogTellsTheRows'
  <2> DEFINE r == [subject |-> s, before |-> before, after |-> new, second |-> t,
                   op |-> IF rows[s] = NoImage THEN "c" ELSE IF new = NoImage THEN "d" ELSE "u"]
  <2>1. new \in Image \cup {NoImage} /\ before \in Image \cup {NoImage} /\ t \in Nat
    BY <1>t, <1>i, SecondAssumption
  <2>2. r \in Record /\ r # Garbage
    BY <2>1 DEF Record, Garbage
  <2>3. /\ Logged(r) /\ new # rows[s] /\ rows' = [rows EXCEPT ![s] = new]
        /\ before = rows[s] \/ (new # NoImage /\ before = NoImage)
    BY <1>1 DEF Change
  <2>4. Continues(r, rows[s])
    BY <2>3 DEF Continues
  <2>5. \A u \in Subject : rows'[u] = IF u = r.subject THEN r.after ELSE rows[u]
    BY <1>t, <2>3
  <2>6. r.subject = s
    OBVIOUS
  <2> HIDE DEF r
  <2> QED
    BY <2>2, <2>3, <2>4, <2>5, <2>6, LoggedHistory
<1>2. ASSUME NEW s \in Subject, NEW t \in 0..MaxSecond, Snapshot(s, t) PROVE LogTellsTheRows'
  <2> DEFINE r == [subject |-> s, before |-> NoImage, after |-> rows[s], second |-> t, op |-> "r"]
  <2>1. r \in Record /\ r # Garbage
    BY <1>t, SecondAssumption DEF Record, Garbage
  <2>2. Logged(r) /\ rows' = rows /\ rows[s] # NoImage
    BY <1>2 DEF Snapshot
  <2>3. Continues(r, rows[s]) /\ r.subject = s /\ r.after = rows[s]
    BY <2>2 DEF Continues
  <2>4. \A u \in Subject : rows'[u] = IF u = r.subject THEN r.after ELSE rows[u]
    BY <2>2, <2>3
  <2> HIDE DEF r
  <2> QED
    BY <2>1, <2>2, <2>3, <2>4, LoggedHistory
<1>3. CASE Litter
  BY <1>3, LoggedHistory DEF Litter
<1>4. ASSUME UNCHANGED <<rows, log, end>> PROVE LogTellsTheRows'
  <2>1. LogTellsTheRows
    BY DEF IInv
  <2> QED
    BY <1>4, <2>1 DEF LogTellsTheRows, RowAt, At
<1>5. ASSUME NEW c \in Consumer,
             \/ Join(c) \/ AutoCommit(c) \/ Interrupt(c) \/ Crash(c)
             \/ Deliver(c) \/ Timer(c) \/ Drain(c) \/ Mark(c) \/ Leave(c)
      PROVE  UNCHANGED <<rows, log, end>>
  BY <1>5 DEF Join, AutoCommit, Interrupt, Crash, Deliver, Timer, Drain, Mark, Leave, Outside,
              Loop!Join, Loop!AutoCommit, Loop!Rebalance, Loop!Evict, Loop!Crash, Loop!Deliver,
              Loop!Timer, Loop!Drain, Loop!Mark, Loop!Leave, Loop!broker, tables
<1>6. ASSUME NEW c \in Consumer, Begin(c) \/ Return(c) PROVE UNCHANGED <<rows, log, end>>
  BY <1>6 DEF Begin, Return, loopVars, tables, Loop!HandlerFails, Loop!HandlerSucceeds, Loop!broker
<1>7. ASSUME NEW c \in Consumer, NEW o \in unsent[c], Send(c, o) \/ SendFails(c, o)
      PROVE  UNCHANGED <<rows, log, end>>
  BY <1>7 DEF Send, SendFails, Took, loopVars, tables
<1>8. ASSUME UNCHANGED vars PROVE UNCHANGED <<rows, log, end>>
  BY <1>8 DEF vars, loopVars, tables
<1> QED
  BY <1>1, <1>2, <1>3, <1>4, <1>5, <1>6, <1>7, <1>8 DEF Next

-----------------------------------------------------------------------------
LEMMA InvInit == Init => IInv
<1> SUFFICES ASSUME Init PROVE IInv
  OBVIOUS
<1>1. Loop!IInv
  BY LoopInit DEF Init
<1>2. end = 0 /\ handled = {} /\ failed = {}
  BY DEF Init, Loop!Init
<1>3. TypeOK
  <2>1. log \in Seq(Record \cup {Garbage}) /\ Len(log) = end
    BY <1>2 DEF Init
  <2>2. rows \in [Subject -> Image \cup {NoImage}] /\ view \in [Subject -> Image \cup {NoImage}]
    BY DEF Init
  <2> QED
    BY <1>1, <2>1, <2>2 DEF Init, TypeOK, Loop!IInv
<1>4. LogTellsTheRows
  BY <1>2 DEF Init, LogTellsTheRows, RowAt
<1> QED
  BY <1>1, <1>2, <1>3, <1>4 DEF Init, IInv, HandledIsPublished, Events, BatchOK,
                               OrderedUnlessDisturbed, InOrder

LEMMA InvStep == ASSUME IInv, [Next]_vars PROVE IInv'
<1>1. (Loop!IInv)'
  BY LoopInv, LoopStep DEF IInv
<1>2. TypeOK'
  BY <1>1, TypeStep
<1> SUFFICES Rest'
  BY <1>1, <1>2, HistoryStep DEF IInv, Rest
<1>3. ASSUME NEW s \in Subject, NEW t \in 0..MaxSecond,
             NEW new \in Images[s] \cup {NoImage}, NEW before \in {rows[s], NoImage},
             Change(s, new, before, t)
      PROVE  Rest'
  BY <1>1, <1>3, LogInv DEF Change
<1>4. CASE Litter
  BY <1>1, <1>4, LogInv DEF Litter
<1>5. ASSUME NEW c \in Consumer,
             \/ Join(c) \/ AutoCommit(c) \/ Interrupt(c) \/ Crash(c)
             \/ Deliver(c) \/ Timer(c) \/ Drain(c) \/ Mark(c) \/ Leave(c)
      PROVE  Rest'
  BY <1>1, <1>5, OutsideInv
<1>6. ASSUME NEW c \in Consumer, Begin(c) \/ Return(c) PROVE Rest'
  BY <1>6, BeginInv, ReturnInv
<1>7. ASSUME NEW c \in Consumer, NEW o \in unsent[c], Send(c, o) \/ SendFails(c, o) PROVE Rest'
  BY <1>7, SendInv DEF Send, SendFails, Append1
<1>8. CASE UNCHANGED vars
  <2>1. LogKept /\ end <= end' /\ base <= base'
    BY <1>8 DEF vars, loopVars, tables, LogKept, At, IInv, Loop!IInv, Loop!TypeOK
  <2>2. UNCHANGED <<handled, failed, published, disturbed, errors, stage, unsent, loop, low, next>>
    BY <1>8 DEF vars, loopVars, handler, topic
  <2> QED
    BY <1>1, <2>1, <2>2, Bystanders
<1>9. ASSUME NEW s \in Subject, NEW t \in 0..MaxSecond, Snapshot(s, t) PROVE Rest'
  BY <1>1, <1>9, LogInv DEF Snapshot
<1> QED
  BY <1>3, <1>4, <1>5, <1>6, <1>7, <1>8, <1>9 DEF Next

\* The inductive invariant of the pipeline: types, the loop's invariant, and how the log, the
\* handlers and the topic fit together.
THEOREM Inductive == Spec => []IInv
<1>1. IInv /\ [Next]_vars => IInv'
  BY InvStep
<1> QED
  BY InvInit, <1>1, PTL DEF Spec

\* A change the group has passed is in the topic, or was in a batch whose handler failed.
THEOREM NoChangeIsLost == Spec => []PassedIsPublished
<1>1. IInv => PassedIsPublished
  BY DEF IInv, Loop!IInv, Loop!NeverSkippedUntried, Loop!Attempted, HandledIsPublished,
         PassedIsPublished, Events
<1> QED
  BY Inductive, <1>1, PTL

\* While no send has failed and no batch had two events of a key, the events of a key are in
\* the topic in the order of their changes.
THEOREM InOrderUnlessDisturbed == Spec => []OrderedUnlessDisturbed
<1>1. IInv => OrderedUnlessDisturbed
  BY DEF IInv
<1> QED
  BY Inductive, <1>1, PTL

-----------------------------------------------------------------------------
(***************************************************************************)
(* The reader.                                                             *)
(***************************************************************************)

\* A reader that knows what a row was learns from the event of its next change what it is.
LEMMA AppliedIsAfter ==
  ASSUME NEW r \in Record, NEW old \in Image \cup {NoImage}, Continues(r, old),
         r.op = "u" /\ r.before = NoImage => r.subject \in Points
  PROVE  Applied(old, r) = r.after
<1> DEFINE new == r.after
           told == Changes(r)
<1>0. r.op \in {"c", "u", "d", "r"} /\ new \in Image \cup {NoImage} /\ r.subject \in Subject
  BY DEF Record
<1>1. CASE r.op = "d"
  <2>1. EventType(r) = "deleted"
    BY <1>1 DEF Continues, EventType, PointEventType, Operation
  <2> QED
    BY <1>1, <2>1 DEF Applied, Continues
<1>2. ASSUME r.op # "d" PROVE new \in Image /\ new # NoImage /\ Content(new) = new
  BY <1>0, <1>2 DEF Continues, Content
<1>3. ASSUME r.op # "d", told = InsertLike(new), EventType(r) = "created"
      PROVE  Applied(old, r) = new
  <2>1. \A f \in Field : (f \in DOMAIN told <=> new[f] # Null) /\ (new[f] # Null => told[f].new = new[f])
    BY <1>3 DEF InsertLike, Pairs, FieldsSet
  <2>2. Applied(old, r) = [f \in Field |-> IF f \in DOMAIN told THEN told[f].new ELSE Null]
    BY <1>3 DEF Applied
  <2> HIDE DEF told, new
  <2>3. \A f \in Field : (IF f \in DOMAIN told THEN told[f].new ELSE Null) = new[f]
    BY <2>1
  <2>4. Applied(old, r) = [f \in Field |-> new[f]]
    BY <2>2, <2>3
  <2>5. new \in Image
    BY <1>2, <1>3
  <2> QED
    BY <2>4, <2>5 DEF Image
<1>4. CASE r.op \in {"c", "r"}
  <2>1. told = InsertLike(new)
    BY <1>2, <1>4 DEF Changes, Operation
  <2>2. EventType(r) = "created"
    BY <1>4 DEF Continues, EventType, PointEventType, Operation
  <2> QED
    BY <1>3, <1>4, <2>1, <2>2
<1>5. CASE r.op = "u" /\ r.before = NoImage
  <2>1. told = InsertLike(new)
    BY <1>2, <1>5 DEF Changes, Operation, Content
  <2>2. EventType(r) = "created"
    BY <1>5 DEF EventType, PointEventType
  <2> QED
    BY <1>3, <1>5, <2>1, <2>2
<1>6. CASE r.op = "u" /\ r.before # NoImage
  <2>1. r.before = old /\ old # NoImage /\ Content(old) = old /\ old \in Image
    BY <1>6 DEF Continues, Content
  <2>2. EventType(r) = "updated"
    BY <1>2, <1>6 DEF EventType, PointEventType, Operation
  <2>3. Applied(old, r) = [f \in Field |-> IF f \in DOMAIN told THEN told[f].new ELSE old[f]]
    BY <2>1, <2>2 DEF Applied
  <2>4. ASSUME NEW f \in Field
        PROVE  (IF f \in DOMAIN told THEN told[f].new ELSE old[f]) = new[f]
    <3>1. CASE old = Empty
      <4>1. told = InsertLike(new)
        BY <1>2, <1>6, <2>1, <3>1 DEF Changes, Operation
      <4>2. old[f] = Null
        BY <3>1 DEF Empty
      <4>3. (f \in DOMAIN told <=> new[f] # Null) /\ (new[f] # Null => told[f].new = new[f])
        BY <4>1 DEF InsertLike, Pairs, FieldsSet
      <4> HIDE DEF told, new
      <4> QED
        BY <4>2, <4>3
    <3>2. CASE old # Empty
      <4>1. told = Pairs({g \in Field : old[g] # new[g] \/ AlwaysTold(r, g)}, old, new)
        BY <1>2, <1>6, <2>1, <3>2 DEF Changes, Operation
      <4>2. (old[f] # new[f] => f \in DOMAIN told) /\ (f \in DOMAIN told => told[f].new = new[f])
        BY <4>1 DEF Pairs
      <4> HIDE DEF told, new
      <4> QED
        BY <4>2
    <3> QED
      BY <3>1, <3>2
  <2> HIDE DEF told, new
  <2>5. Applied(old, r) = [f \in Field |-> new[f]]
    BY <2>3, <2>4
  <2>6. new \in Image
    BY <1>2, <1>6
  <2> QED
    BY <2>5, <2>6 DEF Image, new
<1> QED
  BY <1>0, <1>1, <1>4, <1>5, <1>6

\* Of the records of one row, all become events or none.
LEMMA AllOrNone ==
  ASSUME IInv, NEW o \in 0..(end - 1), NEW p \in 0..(end - 1), Tells(o),
         At(p) # Garbage, At(p).subject = At(o).subject
  PROVE  Tells(p)
<1>1. At(p) \in Record
  BY DEF IInv, TypeOK, Loop!TypeOK, At
<1>2. Continues(At(p), RowAt(At(p).subject, p))
  BY DEF IInv, LogTellsTheRows
<1>3. Valid(At(p))
  BY <1>1, <1>2 DEF Continues, Valid, Record
<1> QED
  BY <1>3 DEF Tells, Parses, Publishable, IsTableMonitored, Transformable, TableOf

\* What the reader knows of row s.
Follows(s) == view[s] = IF Told(s) = {} THEN NoImage ELSE At(Newest(Told(s))).after

\* A new event finds the reader where the row was before the change.
LEMMA SendFollows ==
  ASSUME IInv, IInv', NEW c \in Consumer, NEW o \in unsent[c], Send(c, o),
         ~disturbed, base = 0, NEW s \in Subject, Distinct(s), Follows(s)
  PROVE  Follows(s)'
<1>1. /\ UNCHANGED <<end, base, log, disturbed>>
      /\ published' = published \cup {o}
      /\ stage[c] = "send"
  BY DEF Send, Took, Append1, loopVars, tables
<1>2. \A p : At(p)' = At(p) /\ (Tells(p)' <=> Tells(p)) /\ KeyAt(p)' = KeyAt(p)
  BY <1>1 DEF At, Tells, Parses, KeyAt
<1>3. o \in Events(0..(end - 1)) /\ published \subseteq Events(0..(end - 1))
  <2>1. BatchOK(c) /\ Loop!IInv
    BY DEF IInv
  <2>2. o \in Events(Loop!Batch(c))
    BY <1>1, <2>1 DEF BatchOK
  <2> QED
    BY <2>1, <2>2, BatchReceived DEF IInv, Events
<1>4. o \in Nat /\ end \in Nat /\ o \in 0..(end - 1) /\ Tells(o) /\ published \subseteq Nat
  BY <1>3 DEF Events, IInv, TypeOK, Loop!TypeOK
<1>5. At(o) \in Record /\ At(o).subject \in Subject /\ At(o) # Garbage
  <2>1. At(o) \in Record
    BY <1>4 DEF Tells, Parses, At, IInv, TypeOK
  <2> QED
    BY <1>4, <2>1 DEF Record, Tells, Parses
<1>6. /\ At(o).subject # s => view'[s] = view[s] /\ Told(s)' = Told(s)
      /\ o \in published => view'[s] = view[s] /\ Told(s)' = Told(s)
  <2>1. view \in [Subject -> Image \cup {NoImage}]
    BY DEF IInv, TypeOK
  <2>2. Told(s)' = {p \in published \cup {o} : At(p).subject = s}
    BY <1>1, <1>2 DEF Told
  <2>3. ASSUME At(o).subject # s PROVE view'[s] = view[s] /\ Told(s)' = Told(s)
    BY <1>5, <2>1, <2>2, <2>3 DEF Send, Append1, Told
  <2>4. ASSUME o \in published PROVE view'[s] = view[s] /\ Told(s)' = Told(s)
    BY <2>2, <2>4 DEF Send, Append1, Told
  <2> QED
    BY <2>3, <2>4
<1>7. CASE view'[s] = view[s] /\ Told(s)' = Told(s)
  <2>1. Follows(s)' <=> view'[s] = IF Told(s)' = {} THEN NoImage
                                   ELSE log'[Newest(Told(s)') + 1].after
    BY DEF Follows, At, Told, Newest
  <2>2. view[s] = IF Told(s) = {} THEN NoImage ELSE log[Newest(Told(s)) + 1].after
    BY DEF Follows, At
  <2> QED
    BY <1>1, <1>7, <2>1, <2>2
<1>8. CASE At(o).subject = s /\ o \notin published
  <2>1. \A p \in published : IdempotencyKey(At(p)) # IdempotencyKey(At(o))
    BY <1>3, <1>8 DEF Distinct
  <2>2. view'[s] = Applied(view[s], At(o))
    <3>1. view' = [view EXCEPT ![At(o).subject] = Applied(@, At(o))]
      BY <2>1 DEF Send, Append1
    <3> QED
      BY <1>8, <3>1 DEF IInv, TypeOK
  <2>3. InOrder /\ InOrder'
    BY <1>1 DEF IInv, OrderedUnlessDisturbed
  <2>4. \A p \in published : At(p).subject = s => p \in 0..(o - 1)
    <3> SUFFICES ASSUME NEW p \in published, At(p).subject = s, p \notin 0..(o - 1) PROVE FALSE
      OBVIOUS
    <3>0. p \in Nat /\ p # o /\ ~(p < o)
      BY <1>4, <1>8
    <3>1. o \in 0..(p - 1)
      BY <1>4, <3>0
    <3>2. o \in Events(base..(p - 1)) /\ KeyAt(o) = KeyAt(p)
      BY <1>4, <1>8, <3>0, <3>1 DEF Events, KeyAt
    <3> QED
      BY <1>8, <2>3, <3>2 DEF InOrder
  <2>5. ASSUME NEW p \in 0..(o - 1), At(p) # Garbage, At(p).subject = s PROVE p \in published
    <3>1. p \in 0..(end - 1) /\ p # o
      BY <1>4
    <3>2. Tells(p)
      BY <1>4, <1>8, <2>5, <3>1, AllOrNone
    <3>3. (p \in Events(base..(o - 1)))' /\ (KeyAt(p) = KeyAt(o))' /\ o \in published'
      BY <1>1, <1>2, <1>8, <2>5, <3>2 DEF Events, KeyAt
    <3>4. p \in published'
      BY <2>3, <3>3 DEF InOrder
    <3> QED
      BY <1>1, <3>1, <3>4
  <2>6. Told(s) = Past(s, o)
    <3>1. \A p \in published : At(p) # Garbage
      BY <1>3 DEF Events, Tells, Parses
    <3> QED
      BY <2>4, <2>5, <3>1 DEF Told, Past
  <2>7. view[s] = RowAt(s, o)
    BY <2>6 DEF Follows, RowAt, Past
  <2>8. Continues(At(o), view[s])
    BY <1>4, <1>5, <1>8, <2>7 DEF IInv, LogTellsTheRows
  <2>9. view'[s] = At(o).after
    <3>1. At(o).op = "u" /\ At(o).before = NoImage => At(o).subject \in Points
      BY <1>3, <1>8 DEF Distinct
    <3>2. view[s] \in Image \cup {NoImage}
      BY DEF IInv, TypeOK
    <3> QED
      BY <1>5, <2>2, <2>8, <3>1, <3>2, AppliedIsAfter
  <2>10. Told(s)' = Told(s) \cup {o}
    BY <1>1, <1>2, <1>8 DEF Told
  <2>11. Newest(Told(s)') = o
    <3>1. \A p \in Told(s) : p \in Nat /\ p <= o
      BY <1>4, <2>4 DEF Told
    <3>2. Told(s)' \in SUBSET Nat /\ o \in Told(s)' /\ \A p \in Told(s)' : p <= o
      BY <1>4, <2>10, <3>1
    <3> QED
      BY <3>2, NewestIs
  <2>12. Follows(s)' <=> view'[s] = IF Told(s)' = {} THEN NoImage
                                    ELSE log'[Newest(Told(s)') + 1].after
    BY DEF Follows, At, Told, Newest
  <2> QED
    BY <1>1, <2>9, <2>10, <2>11, <2>12 DEF At
<1> QED
  BY <1>6, <1>7, <1>8

\* Whatever does not publish leaves the reader where it is.
LEMMA ReaderStep == ASSUME IInv, ReaderFollowsTheRow, [Next]_vars PROVE ReaderFollowsTheRow'
<1>0. IInv'
  BY InvStep
<1> SUFFICES ASSUME ~disturbed', base' = 0, NEW s \in Subject, Distinct(s)'
             PROVE  Follows(s)'
  BY DEF ReaderFollowsTheRow, Follows
<1>1. /\ Loop!TypeOK /\ base <= end /\ published \subseteq Events(0..(end - 1))
      /\ \A c \in Consumer : BatchOK(c)
  BY DEF IInv, Loop!IInv
<1>2. /\ LogKept
      /\ end <= end'
      /\ base' = base \/ base' = end
      /\ ~disturbed
      /\ \/ UNCHANGED <<published, view>>
         \/ \E c \in Consumer : \E o \in unsent[c] : Send(c, o)
  <2>1. ASSUME NEW r, Logged(r)
        PROVE  /\ log' = Append(log, r) /\ end' = end + 1
               /\ UNCHANGED <<base, disturbed, published, view>>
    BY <2>1 DEF Logged, Loop!Produce, topic
  <2>l. ASSUME NEW r, Logged(r) PROVE LogKept /\ end <= end'
    <3>1. log' = Append(log, r) /\ end' = end + 1
      BY <2>l, <2>1
    <3>2. TypeOK
      BY DEF IInv
    <3> QED
      BY <1>1, <3>1, <3>2, LogOnlyGrows DEF Loop!TypeOK
  <2>2. ASSUME NEW u \in Subject, NEW t \in 0..MaxSecond,
               NEW new \in Images[u] \cup {NoImage}, NEW before \in {rows[u], NoImage},
               Change(u, new, before, t)
        PROVE  \E r : Logged(r)
    BY <2>2 DEF Change
  <2>3. ASSUME NEW u \in Subject, NEW t \in 0..MaxSecond, Snapshot(u, t) PROVE \E r : Logged(r)
    BY <2>3 DEF Snapshot
  <2>k. ASSUME UNCHANGED log PROVE LogKept
    BY <2>k DEF LogKept, At
  <2>5. ASSUME NEW c \in Consumer,
               \/ Join(c) \/ AutoCommit(c) \/ Interrupt(c) \/ Crash(c)
               \/ Deliver(c) \/ Timer(c) \/ Drain(c) \/ Mark(c) \/ Leave(c)
        PROVE  /\ UNCHANGED <<end, log, disturbed, published, view>>
               /\ base' = base \/ base' = end
    BY <2>5 DEF Join, AutoCommit, Interrupt, Crash, Deliver, Timer, Drain, Mark, Leave, Outside,
                Loop!Join, Loop!AutoCommit, Loop!Rebalance, Loop!Evict, Loop!Crash, Loop!Deliver,
                Loop!Timer, Loop!Drain, Loop!Mark, Loop!Leave, Loop!broker, tables, topic
  <2>6. ASSUME NEW c \in Consumer, Begin(c)
        PROVE  UNCHANGED <<end, base, log, disturbed, published, view>>
    <3>1. UNCHANGED <<end, base, log, published, view>>
      BY <2>6 DEF Begin, loopVars, tables
    <3>2. disturbed' = (disturbed \/ Races(Loop!Batch(c))) /\ disturbed \in BOOLEAN
      BY <2>6 DEF Begin, IInv, TypeOK
    <3>3. disturbed' = disturbed
      BY <3>2
    <3> QED
      BY <3>1, <3>3
  <2>r. ASSUME NEW c \in Consumer, Return(c)
        PROVE  UNCHANGED <<end, base, log, disturbed, published, view>>
    BY <2>r DEF Return, tables, topic, Loop!HandlerFails, Loop!HandlerSucceeds, Loop!broker
  <2>7. ASSUME NEW c \in Consumer, NEW o \in unsent[c], Send(c, o) \/ SendFails(c, o)
        PROVE  UNCHANGED <<end, base, log, disturbed>> /\ Send(c, o)
    BY <2>7 DEF Send, SendFails, Took, loopVars, tables
  <2>8. ASSUME UNCHANGED vars PROVE UNCHANGED <<end, base, log, disturbed, published, view>>
    BY <2>8 DEF vars, loopVars, tables, topic
  <2>9. end <= end
    BY <1>1 DEF Loop!TypeOK
  <2>10. \/ \E r : Logged(r)
         \/ /\ UNCHANGED <<end, log, disturbed, published, view>>
            /\ base' = base \/ base' = end
         \/ /\ UNCHANGED <<end, base, log, disturbed>>
            /\ \E c \in Consumer : \E o \in unsent[c] : Send(c, o)
    <3>1. \A c \in Consumer : \A o \in unsent[c] : Send(c, o) \/ SendFails(c, o) =>
            UNCHANGED <<end, base, log, disturbed>> /\ Send(c, o)
      BY <2>7
    <3>2. CASE Litter
      BY <3>2 DEF Litter
    <3> QED
      BY <2>2, <2>3, <2>5, <2>6, <2>r, <2>8, <3>1, <3>2 DEF Next
  <2> QED
    BY <2>1, <2>l, <2>k, <2>9, <2>10
<1>3. base = 0
  BY <1>1, <1>2 DEF Loop!TypeOK
<1>4. Distinct(s)
  <2>1. end \in Nat /\ end' \in Nat
    BY <1>0, <1>1 DEF Loop!TypeOK, IInv, TypeOK
  <2>2. \A o \in 0..(end - 1) : o \in 0..(end' - 1)
    <3>1. end <= end'
      BY <1>2
    <3> QED
      BY <2>1, <3>1, LongerLog
  <2>3. \A o \in 0..(end - 1) : At(o)' = At(o) /\ (Tells(o)' <=> Tells(o))
    BY <1>2, SameRecord DEF LogKept
  <2>4. \A o \in Events(0..(end - 1)) : o \in Events(0..(end - 1))' /\ At(o)' = At(o)
    BY <2>2, <2>3 DEF Events
  <2>5. \A o \in Events(0..(end - 1)) :
          /\ o \in Events(0..(end - 1))' /\ At(o)' = At(o)
          /\ IdempotencyKey(At(o))' = IdempotencyKey(At(o))
    BY <2>4 DEF IdempotencyKey, CurrentDate
  <2> SUFFICES ASSUME NEW o \in Events(0..(end - 1)), At(o).subject = s
               PROVE  /\ ~(At(o).op = "u" /\ At(o).before = NoImage /\ s \notin Points)
                      /\ \A p \in Events(0..(end - 1)) :
                           p # o => IdempotencyKey(At(o)) # IdempotencyKey(At(p))
    BY DEF Distinct
  <2>6. /\ o \in Events(0..(end - 1))' /\ At(o)' = At(o)
        /\ IdempotencyKey(At(o))' = IdempotencyKey(At(o))
    BY <2>5
  <2>7. /\ (~(At(o).op = "u" /\ At(o).before = NoImage /\ s \notin Points))'
        /\ \A p \in Events(0..(end - 1))' :
             p # o => IdempotencyKey(At(o))' # IdempotencyKey(At(p))'
    BY <2>6 DEF Distinct
  <2> QED
    BY <2>5, <2>6, <2>7
<1>5. Follows(s)
  BY <1>2, <1>3, <1>4 DEF ReaderFollowsTheRow, Follows
<1>6. CASE UNCHANGED <<published, view>>
  <2>1. published \subseteq 0..(end - 1) /\ end \in Nat /\ end - 1 \in Int
    BY <1>1 DEF Events, Loop!TypeOK
  <2>2. Told(s)' = Told(s)
    BY <1>2, <1>6, <2>1 DEF Told, LogKept
  <2>3. Follows(s)' <=> view'[s] = IF Told(s)' = {} THEN NoImage
                                   ELSE log'[Newest(Told(s)') + 1].after
    BY DEF Follows, At, Told, Newest
  <2>4. ASSUME Told(s) # {} PROVE log'[Newest(Told(s)) + 1] = log[Newest(Told(s)) + 1]
    <3>0. \A o \in 0..(end - 1) : o \in 0..end
      BY <2>1
    <3>1. Told(s) \in SUBSET (0..end)
      BY <2>1, <3>0 DEF Told
    <3>2. Newest(Told(s)) \in Told(s)
      BY <2>1, <2>4, <3>1, NewestIsThere
    <3>3. PICK m \in 0..(end - 1) : m = Newest(Told(s))
      BY <2>1, <3>2 DEF Told
    <3>4. At(m)' = At(m)
      BY <1>2, <3>3 DEF LogKept
    <3> QED
      BY <3>3, <3>4 DEF At
  <2> QED
    BY <1>5, <1>6, <2>2, <2>3, <2>4 DEF Follows, At
<1>7. CASE \E c \in Consumer : \E o \in unsent[c] : Send(c, o)
  BY <1>0, <1>2, <1>3, <1>4, <1>5, <1>7, SendFollows
<1> QED
  BY <1>2, <1>6, <1>7

\* The reader of the topic never believes of a row what the row never was: while nothing has
\* disturbed the sends, it knows what the newest event it has seen of the row left.
THEOREM ReaderFollows == Spec => []ReaderFollowsTheRow
<1>1. Init => ReaderFollowsTheRow
  BY DEF Init, ReaderFollowsTheRow, Told
<1>2. ReaderFollowsTheRow /\ IInv /\ [Next]_vars => ReaderFollowsTheRow'
  BY ReaderStep
<1> QED
  BY <1>1, <1>2, Inductive, PTL DEF Spec

=============================================================================
