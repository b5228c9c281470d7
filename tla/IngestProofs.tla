----------------------------- MODULE IngestProofs -----------------------------
(***************************************************************************)
(* For every topic, log, batch size, number of processes and pattern of    *)
(* failures, evictions and crashes: a message the handler has taken is in  *)
(* the tables, and stays there; the newest of a key is what they show; and *)
(* they change by calls of the abstract store only.                        *)
(*                                                                         *)
(* The process is shown to be a KafkaConsumer loop, step by step; what a   *)
(* batch leaves in the tables is proved in IngestBatchProofs.              *)
(***************************************************************************)
EXTENDS Ingest, IngestBatchProofs

LP == INSTANCE KafkaConsumerProofs WITH Poison <- {}

-----------------------------------------------------------------------------
(***************************************************************************)
(* The loop's theorems.  LP and Loop are two instances of one module.      *)
(***************************************************************************)

LEMMA SameIInv == LP!IInv <=> Loop!IInv
BY DEF LP!IInv, LP!TypeOK, LP!Stages, LP!NeverSkippedUntried, LP!Attempted, LP!LoopOK, LP!Batch,
  Loop!IInv, Loop!TypeOK, Loop!Stages, Loop!NeverSkippedUntried, Loop!Attempted, Loop!LoopOK,
  Loop!Batch

LEMMA SameIInvPrime == (LP!IInv)' <=> (Loop!IInv)'
BY DEF LP!IInv, LP!TypeOK, LP!Stages, LP!NeverSkippedUntried, LP!Attempted, LP!LoopOK, LP!Batch,
  Loop!IInv, Loop!TypeOK, Loop!Stages, Loop!NeverSkippedUntried, Loop!Attempted, Loop!LoopOK,
  Loop!Batch

LEMMA SameNext == [LP!Next]_(LP!vars) <=> [Loop!Next]_loopVars
BY DEF LP!Next, LP!vars, LP!outcome, LP!broker, LP!Batch, LP!Larger, LP!Continue, LP!Produce,
  LP!Join, LP!AutoCommit, LP!Rebalance, LP!Evict, LP!Crash, LP!Deliver, LP!Timer, LP!Drain,
  LP!HandlerSucceeds, LP!HandlerFails, LP!Mark, LP!Leave, loopVars,
  Loop!Next, Loop!outcome, Loop!broker, Loop!Batch, Loop!Larger, Loop!Continue, Loop!Produce,
  Loop!Join, Loop!AutoCommit, Loop!Rebalance, Loop!Evict, Loop!Crash, Loop!Deliver, Loop!Timer,
  Loop!Drain, Loop!HandlerSucceeds, Loop!HandlerFails, Loop!Mark, Loop!Leave

LEMMA LoopInit == Loop!Init => Loop!IInv
<1>1. LP!BatchSizeAssumption /\ LP!BoundsAssumption /\ LP!PoisonAssumption
  BY BatchSizeAssumption, BoundsAssumption
     DEF LP!BatchSizeAssumption, LP!BoundsAssumption, LP!PoisonAssumption
<1>2. Loop!Init => LP!Init
  BY DEF Loop!Init, LP!Init
<1>3. LP!Init => LP!IInv
  BY LP!InvInit, <1>1
<1> QED
  BY <1>2, <1>3, SameIInv

LEMMA LoopInv == ASSUME Loop!IInv, [Loop!Next]_loopVars PROVE (Loop!IInv)'
<1>1. LP!BatchSizeAssumption /\ LP!BoundsAssumption /\ LP!PoisonAssumption
  BY BatchSizeAssumption, BoundsAssumption
     DEF LP!BatchSizeAssumption, LP!BoundsAssumption, LP!PoisonAssumption
<1>2. LP!IInv /\ [LP!Next]_(LP!vars)
  BY SameIInv, SameNext
<1>3. (LP!IInv)'
  BY LP!InvStep, <1>1, <1>2
<1> QED
  BY <1>3, SameIInvPrime

\* A step of the process is a step of the loop, or leaves it alone.
LEMMA LoopStep == [Next]_vars => [Loop!Next]_loopVars
<1> SUFFICES ASSUME [Next]_vars PROVE Loop!Next \/ UNCHANGED loopVars
  OBVIOUS
<1>1. CASE Produce
  BY <1>1 DEF Produce, Loop!Next
<1>2. ASSUME NEW c \in Consumer, Commit(c) \/ Refuse(c) \/ Crash(c) PROVE Loop!Next
  BY <1>2 DEF Commit, Refuse, Crash, Loop!Next
<1>3. ASSUME NEW c \in Consumer, Member(c) \/ Interrupt(c) \/ Collect(c) \/ Mark(c)
      PROVE  Loop!Next
  BY <1>3 DEF Member, Interrupt, Collect, Mark, Outside, Loop!Next
<1>4. ASSUME (\E c \in Consumer : Begin(c)) \/ UNCHANGED vars PROVE UNCHANGED loopVars
  BY <1>4 DEF vars, Begin
<1> QED
  BY <1>1, <1>2, <1>3, <1>4 DEF Next

-----------------------------------------------------------------------------
(***************************************************************************)
(* What a batch leaves.                                                    *)
(***************************************************************************)

LEMMA Types ==
  ASSUME IInv
  PROVE  /\ end \in Nat /\ low \in [Consumer -> Nat] /\ next \in [Consumer -> Nat]
         /\ topic \in DOMAIN Offered /\ topic \in Topic
         /\ \A o \in 0..(end - 1) : At(o) \in Offered[topic]
         /\ stored \subseteq 0..(end - 1)
         /\ RowsFit(rows)
         /\ \A c \in Consumer : seen[c] \in SUBSET Entity /\ seen[c] \subseteq Known(rows)
         /\ \A c \in Consumer : low[c] <= next[c] /\ next[c] <= end /\ next[c] - low[c] <= BatchSize
         /\ BatchSize \in Nat
<1>1. /\ end \in Nat /\ low \in [Consumer -> Nat] /\ next \in [Consumer -> Nat]
      /\ topic \in DOMAIN Offered /\ topic \in Topic
      /\ stored \subseteq 0..(end - 1)
  BY OfferedAssumption DEF IInv, TypeOK, Loop!TypeOK
<1>2. ASSUME NEW o \in 0..(end - 1) PROVE At(o) \in Offered[topic]
  <2>1. log \in Seq(Offered[topic]) /\ o + 1 \in 1..Len(log)
    BY <1>1 DEF IInv, TypeOK
  <2> QED
    BY <2>1 DEF At
<1>3. RowsFit(rows)
  BY DEF IInv, TypeOK, RowsFit
<1>4. \A c \in Consumer : low[c] <= next[c] /\ next[c] <= end /\ next[c] - low[c] <= BatchSize
  BY DEF IInv, Loop!IInv, Loop!LoopOK, Bounded
<1>5. \A c \in Consumer : seen[c] \in SUBSET Entity /\ seen[c] \subseteq Known(rows)
  BY DEF IInv, TypeOK
<1> QED
  BY <1>1, <1>2, <1>3, <1>4, <1>5, BatchSizeAssumption

LEMMA PartOfSequence ==
  ASSUME NEW S, NEW s \in Seq(S), NEW a \in Nat, NEW b \in Nat, a <= b, b <= Len(s)
  PROVE  /\ DOMAIN SubSeq(s, a + 1, b) = 1..(b - a)
         /\ \A i \in 1..(b - a) : SubSeq(s, a + 1, b)[i] = s[a + i]
OBVIOUS

\* A valid batch has messages of its topic, each at its place.
LEMMA BatchIs ==
  ASSUME IInv, NEW c \in Consumer, ValidBatch(Messages(c))
  PROVE  LET n == next[c] - low[c]
         IN  /\ IsBatch(topic, Messages(c), n)
             /\ n <= BatchSize
             /\ Storable(n)
             /\ \A i \in 1..n : /\ low[c] + i - 1 \in Loop!Batch(c)
                                /\ Messages(c)[i] = At(low[c] + i - 1)
             /\ \A o \in Loop!Batch(c) : /\ o \in 0..(end - 1) /\ At(o) # Invalid
                                         /\ o - low[c] + 1 \in 1..n
                                         /\ At(o) = Messages(c)[o - low[c] + 1]
<1> DEFINE n == next[c] - low[c]
<1>1. n \in Nat /\ low[c] \in Nat /\ next[c] \in Nat /\ next[c] <= end /\ n <= BatchSize
      /\ BatchSize \in Nat /\ end \in Nat
  BY Types
<1>2. DOMAIN Messages(c) = 1..n /\ \A i \in 1..n : Messages(c)[i] = At(low[c] + i - 1)
  <2>1. /\ DOMAIN Messages(c) = 1..n
        /\ \A i \in 1..n : Messages(c)[i] = log[low[c] + i]
    <3>1. log \in Seq(Offered[topic]) /\ Len(log) = end /\ low[c] <= next[c]
      BY Types DEF IInv, TypeOK
    <3>2. PICK a \in Nat, b \in Nat : a = low[c] /\ b = next[c]
      BY <1>1
    <3>3. a <= b /\ b <= Len(log)
      BY <1>1, <3>1, <3>2
    <3>4. /\ DOMAIN SubSeq(log, a + 1, b) = 1..(b - a)
          /\ \A i \in 1..(b - a) : SubSeq(log, a + 1, b)[i] = log[a + i]
      BY <3>1, <3>3, PartOfSequence
    <3> QED
      BY <3>2, <3>4 DEF Messages
  <2>2. \A i \in 1..n : (low[c] + i - 1) + 1 = low[c] + i
    BY <1>1
  <2> QED
    BY <2>1, <2>2 DEF At
<1>3. \A i \in 1..n : low[c] + i - 1 \in Loop!Batch(c) /\ low[c] + i - 1 \in 0..(end - 1)
  BY <1>1 DEF Loop!Batch
<1>4. ASSUME NEW i \in 1..n PROVE Messages(c)[i] # Invalid /\ Messages(c)[i] \in MessageOf[topic]
  <2>1. Messages(c)[i] # Invalid
    BY <1>2 DEF ValidBatch
  <2>2. Messages(c)[i] \in Offered[topic] /\ topic \in DOMAIN Offered
    BY <1>2, <1>3, Types
  <2> QED
    BY <2>1, <2>2, OfferedAssumption
<1>5. ASSUME NEW o \in Loop!Batch(c)
      PROVE  /\ o \in 0..(end - 1) /\ At(o) # Invalid
             /\ o - low[c] + 1 \in 1..n
             /\ At(o) = Messages(c)[o - low[c] + 1]
  <2>1. o \in low[c]..(next[c] - 1)
    BY DEF Loop!Batch
  <2>2. o \in 0..(end - 1) /\ o - low[c] + 1 \in 1..n /\ low[c] + (o - low[c] + 1) - 1 = o
    BY <1>1, <2>1
  <2> QED
    BY <1>2, <1>4, <2>2
<1>6. Storable(n)
  <2>1. 0..(MaxDate + n) \subseteq 0..(MaxDate + BatchSize)
    BY <1>1, DateAssumption
  <2> QED
    BY <2>1, RawAssumption DEF Storable
<1> QED
  BY <1>1, <1>2, <1>3, <1>4, <1>5, <1>6 DEF IsBatch

\* No step takes from the tables what a message has left there.
RowsGrow ==
  /\ \A row \in Row : rows[row] # NoRow => rows'[row] # NoRow
  /\ topic = "entity-properties" =>
       \A e \in Entity : \A f : Has(rows, e, f) => Has(rows', e, f)

LEMMA LeftStays ==
  ASSUME IInv, NEW o \in stored, stored \subseteq stored', topic' = topic, RowsGrow,
         o \in overtaken => o \in overtaken',
         \A p \in 0..(end - 1) : At(p)' = At(p)
  PROVE  (At(o) # Invalid /\ HasLeftRows(o))'
<1>1. o \in 0..(end - 1) /\ stored \subseteq 0..(end - 1) /\ At(o)' = At(o)
      /\ At(o) # Invalid /\ HasLeftRows(o)
  BY Types DEF IInv
<1>2. At(o) \in MessageOf[topic] /\ topic \in Topic
  BY <1>1, Types, OfferedAssumption
<1>d. Dropped(o) => Dropped(o)'
  BY <1>1 DEF Dropped, Mates
<1>r. Renamed(o) => Renamed(o)'
  BY <1>1 DEF Renamed, Mates
<1>3. CASE topic = "entity-properties"
  <2>1. At(o).entity \in Entity
    BY <1>2, <1>3, MessageTypes DEF PropertyMessage
  <2>2. Has(rows, At(o).entity, At(o).field)
    BY <1>1, <1>3 DEF HasLeftRows, Has
  <2>3. Has(rows', At(o).entity, At(o).field)
    BY <1>3, <2>1, <2>2 DEF RowsGrow
  <2> QED
    BY <1>1, <1>3, <2>3 DEF HasLeftRows, Has
<1>4. CASE topic = "temporal-data"
  <2>1. PlaceOf(At(o)) \in Row
    <3>1. At(o).entity \in Entity /\ At(o).series \in Series /\ At(o).date \in Date
      BY <1>2, <1>4, MessageTypes DEF PointMessage
    <3>2. PeriodOf[At(o).series][At(o).date] \in Period \cup {NoPeriod}
      BY <3>1, PeriodAssumption
    <3> QED
      BY <3>1, <3>2 DEF PlaceOf, Row, Point
  <2>2. rows[PlaceOf(At(o))] # NoRow \/ Dropped(o)
    BY <1>1, <1>4 DEF HasLeftRows
  <2>3. rows'[PlaceOf(At(o))] # NoRow \/ Dropped(o)'
    BY <1>d, <2>1, <2>2 DEF RowsGrow
  <2>4. PlaceOf(At(o))' = PlaceOf(At(o))
    BY <1>1 DEF PlaceOf
  <2> QED
    BY <1>1, <1>4, <2>3, <2>4 DEF HasLeftRows
<1>5. CASE topic = "entities-edges"
  <2>1. At(o).entity \in Row
    BY <1>2, <1>5, MessageTypes DEF GraphMessage, Row
  <2>2. rows'[At(o).entity] # NoRow \/ Renamed(o)'
    BY <1>1, <1>5, <1>r, <2>1 DEF HasLeftRows, RowsGrow
  <2>3. ASSUME o \notin overtaken', NEW k \in DOMAIN At(o).edges, At(o).edges[k] # Incomplete
        PROVE  \E row \in LinkRows(At(o).entity, At(o).edges[k].to) : rows'[row] # NoRow
    <3>1. PICK row \in LinkRows(At(o).entity, At(o).edges[k].to) : rows[row] # NoRow
      BY <1>1, <1>5, <2>3 DEF HasLeftRows
    <3>2. row \in Row
      BY DEF LinkRows, Row
    <3> QED
      BY <3>1, <3>2 DEF RowsGrow
  <2> QED
    BY <1>1, <1>5, <2>2, <2>3 DEF HasLeftRows, LinkRows
<1> QED
  BY <1>1, <1>2, <1>3, <1>4, <1>5 DEF Topic

\* A transaction leaves rows for every message of its batch.
LEMMA StoresLeaves ==
  ASSUME IInv, NEW c \in Consumer, Stores(c), UNCHANGED <<topic, log>>
  PROVE  /\ RowsFit(rows') /\ RowsGrow
         /\ \A o \in Loop!Batch(c) : (At(o) # Invalid /\ HasLeftRows(o))'
<1> DEFINE n == next[c] - low[c]
           batch == Messages(c)
           Place(o) == o - low[c] + 1
<1>1. /\ IsBatch(topic, batch, n) /\ n <= BatchSize /\ Storable(n)
      /\ \A i \in 1..n : low[c] + i - 1 \in Loop!Batch(c) /\ batch[i] = At(low[c] + i - 1)
      /\ \A o \in Loop!Batch(c) : /\ o \in 0..(end - 1) /\ At(o) # Invalid
                                  /\ o - low[c] + 1 \in 1..n
                                  /\ At(o) = batch[o - low[c] + 1]
  BY BatchIs DEF Stores
<1> DEFINE before == seen[c]
           unseen == Unseen(RequestOf(topic, batch), rows, before)
<1>2. /\ rows' = Result(RequestOf(topic, batch), rows, before)
      /\ CanPass(RequestOf(topic, batch), rows, before)
      /\ before \in SUBSET Entity
      /\ \A o \in Loop!Batch(c) :
           o \in overtaken' <=> HasEnd(o, unseen) /\ (o \in stored => o \in overtaken)
      /\ Loop!Batch(c) \subseteq stored'
      /\ \A o : At(o)' = At(o)
      /\ RowsFit(rows) /\ topic \in Topic
      /\ low[c] \in Nat /\ next[c] \in Nat /\ BatchSize \in Nat
  BY Types DEF Stores, Request1, At
<1>m. ASSUME NEW o \in Loop!Batch(c), NEW i \in 1..n
      PROVE  \E p \in stored' : Mates(o, p) /\ At(p) = batch[i]
  <2> DEFINE p == low[c] + i - 1
  <2>1. p \in stored' /\ At(p) = batch[i]
    BY <1>1, <1>2
  <2>2. o - low[c] + 1 \in 1..n
    BY <1>1
  <2>3. o \in Loop!Batch(c) /\ o \in Int
    BY DEF Loop!Batch
  <2>4. Mates(o, p)
    BY <1>1, <1>2, <2>2, <2>3 DEF Mates
  <2> QED
    BY <2>1, <2>4
<1> HIDE DEF n, batch, before
<1>3. CASE topic = "entity-properties"
  <2>1. rows' = Result(PropertyRequest(batch), rows, before)
    BY <1>2, <1>3 DEF RequestOf
  <2>2. IsBatch("entity-properties", batch, n)
    BY <1>1, <1>3
  <2>3. /\ \A i \in 1..n : Has(rows', batch[i].entity, batch[i].field)
        /\ \A e \in Entity : \A f : Has(rows, e, f) => Has(rows', e, f)
    BY <1>1, <1>2, <2>1, <2>2, PropertiesStay
  <2>4. RowsFit(rows') /\ \A row \in Row : rows[row] # NoRow => rows'[row] # NoRow
    BY <1>1, <1>2, <2>1, <2>2, PropertyFits, RowsOnlyGrow
  <2>5. ASSUME NEW o \in Loop!Batch(c) PROVE (At(o) # Invalid /\ HasLeftRows(o))'
    <3>1. Has(rows', At(o).entity, At(o).field) /\ At(o) # Invalid
      BY <1>1, <2>3
    <3> QED
      BY <1>2, <1>3, <3>1 DEF HasLeftRows, Has
  <2> QED
    BY <2>3, <2>4, <2>5 DEF RowsGrow
<1>4. CASE topic = "temporal-data"
  <2>1. rows' = Result(PointRequest(batch), rows, before)
    BY <1>2, <1>4 DEF RequestOf
  <2>2. IsBatch("temporal-data", batch, n) /\ CanPass(PointRequest(batch), rows, before)
    BY <1>1, <1>2, <1>4 DEF RequestOf
  <2>3. \A i \in 1..n :
          \/ rows'[<<batch[i].entity, PeriodOf[batch[i].series][batch[i].date]>>] # NoRow
          \/ \E j \in 1..n : /\ batch[j].entity = batch[i].entity
                             /\ batch[j].series = batch[i].series
                             /\ batch[j].date > batch[i].date
    BY <1>1, <1>2, <2>1, <2>2, PointsStay
  <2>4. RowsFit(rows') /\ \A row \in Row : rows[row] # NoRow => rows'[row] # NoRow
    BY <1>1, <1>2, <2>1, <2>2, PointsStay, RowsOnlyGrow
  <2>5. ASSUME NEW o \in Loop!Batch(c) PROVE (At(o) # Invalid /\ HasLeftRows(o))'
    <3>1. PICK i \in 1..n : At(o) = batch[i] /\ At(o) # Invalid
      BY <1>1
    <3>2. CASE rows'[PlaceOf(At(o))] # NoRow
      BY <1>2, <1>4, <3>1, <3>2 DEF HasLeftRows, PlaceOf
    <3>3. CASE \E j \in 1..n : /\ batch[j].entity = batch[i].entity
                               /\ batch[j].series = batch[i].series
                               /\ batch[j].date > batch[i].date
      <4>1. Dropped(o)'
        BY <1>2, <1>m, <3>1, <3>3 DEF Dropped, Mates
      <4> QED
        BY <1>2, <1>4, <3>1, <4>1 DEF HasLeftRows
    <3> QED
      BY <2>3, <3>1, <3>2, <3>3 DEF PlaceOf
  <2> QED
    BY <1>4, <2>4, <2>5 DEF RowsGrow
<1>5. CASE topic = "entities-edges"
  <2>1. rows' = Result(GraphRequest(batch), rows, before)
    BY <1>2, <1>5 DEF RequestOf
  <2>2. IsBatch("entities-edges", batch, n)
    BY <1>1, <1>5
  <2> DEFINE LinkEnds(i, k) == {RefOf[batch[i].entity], RefOf[batch[i].edges[k].to]}
  <2>3. \A i \in 1..n :
          /\ \/ rows'[batch[i].entity] # NoRow
             \/ \E j \in 1..n : /\ batch[j].entity # batch[i].entity
                                /\ RefOf[batch[j].entity] = RefOf[batch[i].entity]
          /\ \A k : IsEdge(batch, i, k) /\ LinkEnds(i, k) \cap unseen = {} =>
               \E row \in Edge : /\ RefOf[row[1]] = RefOf[batch[i].entity]
                                 /\ RefOf[row[2]] = RefOf[batch[i].edges[k].to]
                                 /\ rows'[row] # NoRow
    BY <1>2, <1>5, <2>1, <2>2, GraphStays DEF RequestOf
  <2>4. RowsFit(rows') /\ \A row \in Row : rows[row] # NoRow => rows'[row] # NoRow
    BY <1>2, <2>1, <2>2, GraphRequestIs, RowsOnlyGrow
  <2>5. ASSUME NEW o \in Loop!Batch(c) PROVE (At(o) # Invalid /\ HasLeftRows(o))'
    <3>1. PICK i \in 1..n : At(o) = batch[i] /\ At(o) # Invalid
      BY <1>1
    <3>2. rows'[At(o).entity] # NoRow \/ Renamed(o)'
      <4>1. CASE rows'[batch[i].entity] # NoRow
        BY <3>1, <4>1
      <4>2. CASE \E j \in 1..n : /\ batch[j].entity # batch[i].entity
                                 /\ RefOf[batch[j].entity] = RefOf[batch[i].entity]
        BY <1>2, <1>m, <3>1, <4>2 DEF Renamed, Mates
      <4> QED
        BY <2>3, <4>1, <4>2
    <3>3. ASSUME o \notin overtaken', NEW k \in DOMAIN At(o).edges, At(o).edges[k] # Incomplete
          PROVE  \E row \in LinkRows(At(o).entity, At(o).edges[k].to) : rows'[row] # NoRow
      <4>1. IsEdge(batch, i, k)
        BY <3>1, <3>3 DEF IsEdge
      <4>2. CASE ~HasEnd(o, unseen)
        <5>1. LinkEnds(i, k) \cap unseen = {}
          BY <1>5, <3>1, <3>3, <4>2 DEF HasEnd
        <5>2. PICK row \in Edge : /\ RefOf[row[1]] = RefOf[batch[i].entity]
                                  /\ RefOf[row[2]] = RefOf[batch[i].edges[k].to]
                                  /\ rows'[row] # NoRow
          BY <2>3, <4>1, <5>1
        <5> QED
          BY <3>1, <5>2 DEF LinkRows
      <4>3. CASE HasEnd(o, unseen)
        <5>1. o \in stored /\ o \notin overtaken
          BY <1>2, <3>3, <4>3
        <5>2. PICK row \in LinkRows(At(o).entity, At(o).edges[k].to) : rows[row] # NoRow
          BY <1>5, <3>3, <5>1 DEF IInv, HasLeftRows
        <5>3. row \in Row
          BY DEF LinkRows, Row
        <5> QED
          BY <2>4, <5>2, <5>3
      <4> QED
        BY <4>2, <4>3
    <3> QED
      BY <1>2, <1>5, <3>1, <3>2, <3>3 DEF HasLeftRows, LinkRows
  <2> QED
    BY <1>5, <2>4, <2>5 DEF RowsGrow
<1> QED
  BY <1>2, <1>3, <1>4, <1>5 DEF Topic

-----------------------------------------------------------------------------
(***************************************************************************)
(* The inductive invariant.                                                *)
(***************************************************************************)

\* No loop collects more than a batch.
LEMMA BoundedStep ==
  ASSUME IInv, [Loop!Next]_loopVars PROVE \A c \in Consumer : Bounded(c)'
<1>t. /\ low \in [Consumer -> Nat] /\ next \in [Consumer -> Nat] /\ BatchSize \in Nat \ {0}
      /\ loop \in [Consumer -> Loop!Stages] /\ end \in Nat
      /\ committed \in Nat \cup {-1}
      /\ \A c \in Consumer : Bounded(c) /\ low[c] <= next[c]
  BY BatchSizeAssumption DEF IInv, Loop!IInv, Loop!TypeOK, Loop!LoopOK
<1> SUFFICES ASSUME NEW d \in Consumer PROVE Bounded(d)'
  OBVIOUS
<1>1. CASE Loop!Produce
  BY <1>1, <1>t DEF Loop!Produce, Bounded
<1>2. ASSUME NEW c \in Consumer, Loop!Join(c) PROVE Bounded(d)'
  <2>1. \/ d # c /\ loop'[d] = loop[d] /\ low'[d] = low[d] /\ next'[d] = next[d]
        \/ low'[d] = next'[d] /\ low'[d] \in Nat
    BY <1>2, <1>t DEF Loop!Join
  <2> QED
    BY <2>1, <1>t DEF Bounded
<1>3. ASSUME NEW c \in Consumer,
             Loop!AutoCommit(c) \/ Loop!Rebalance(c) \/ Loop!Evict(c)
      PROVE  Bounded(d)'
  BY <1>3, <1>t DEF Loop!AutoCommit, Loop!Rebalance, Loop!Evict, Bounded
<1>4. ASSUME NEW c \in Consumer, Loop!Deliver(c) PROVE Bounded(d)'
  BY <1>4, <1>t DEF Loop!Deliver, Bounded
<1>5. ASSUME NEW c \in Consumer,
             Loop!Crash(c) \/ Loop!Timer(c) \/ Loop!Drain(c) \/ Loop!Leave(c) \/ Loop!HandlerSucceeds(c)
      PROVE  Bounded(d)'
  <2>1. low' = low /\ next' = next /\ (loop'[d] = loop[d] \/ loop'[d] # "collect")
    BY <1>5, <1>t DEF Loop!Crash, Loop!Timer, Loop!Drain, Loop!Leave, Loop!HandlerSucceeds
  <2> QED
    BY <2>1, <1>t DEF Bounded
<1>6. ASSUME NEW c \in Consumer, Loop!HandlerFails(c) \/ Loop!Mark(c) PROVE Bounded(d)'
  <2>1. \/ d # c /\ loop'[d] = loop[d] /\ low'[d] = low[d] /\ next'[d] = next[d]
        \/ low'[d] = next'[d] /\ low'[d] \in Nat
    BY <1>6, <1>t DEF Loop!HandlerFails, Loop!Mark
  <2> QED
    BY <2>1, <1>t DEF Bounded
<1>7. CASE UNCHANGED loopVars
  BY <1>7, <1>t DEF loopVars, Bounded
<1> QED
  BY <1>1, <1>2, <1>3, <1>4, <1>5, <1>6, <1>7 DEF Loop!Next

\* What of the invariant is not about the loop.
Rest == /\ TypeOK
        /\ \A c \in Consumer : seen[c] \subseteq Known(rows)
        /\ handled \subseteq stored
        /\ \A o \in stored : At(o) # Invalid /\ HasLeftRows(o)

\* A step that stores nothing keeps what is stored; the log may grow.
LEMMA Bystanders ==
  ASSUME IInv, (Loop!IInv)', UNCHANGED <<topic, tables, handled>>,
         open' \in SUBSET Consumer, seen' \in [Consumer -> SUBSET Entity],
         \A c \in Consumer : seen'[c] \subseteq Known(rows),
         \/ log' = log /\ end' = end
         \/ \E m \in Offered[topic] : log' = Append(log, m) /\ end' = end + 1
  PROVE  Rest'
<1>t. /\ end \in Nat /\ log \in Seq(Offered[topic]) /\ Len(log) = end
      /\ stored \subseteq 0..(end - 1) /\ shadowed \subseteq stored /\ overtaken \subseteq stored
  BY Types DEF IInv, TypeOK
<1>1. \A p \in 0..(end - 1) : At(p)' = At(p)
  BY <1>t DEF At
<1>2. log' \in Seq(Offered[topic]) /\ Len(log') = end'
  <2>1. CASE log' = log /\ end' = end
    BY <1>t, <2>1
  <2>2. ASSUME NEW m \in Offered[topic], log' = Append(log, m), end' = end + 1
        PROVE  log' \in Seq(Offered[topic]) /\ Len(log') = end'
    BY <1>t, <2>2
  <2> QED
    BY <2>1, <2>2
<1>3. end' \in Nat /\ end <= end'
  BY <1>t
<1>4. TypeOK'
  <2>1. UNCHANGED <<topic, rows, stored, shadowed, overtaken>>
    BY DEF tables
  <2>2. stored' \in SUBSET (0..(end' - 1))
    <3>1. \A m, k \in Nat : m <= k => 0..(m - 1) \subseteq 0..(k - 1)
      OBVIOUS
    <3>2. 0..(end - 1) \subseteq 0..(end' - 1)
      BY <1>t, <1>3, <3>1
    <3> QED
      BY <1>t, <2>1, <3>2
  <2>3. shadowed' \in SUBSET stored' /\ overtaken' \in SUBSET stored'
    BY <1>t, <2>1
  <2>4. DOMAIN rows' = Row /\ \A row \in Row : rows'[row] \in Content(row) \cup {NoRow}
    BY <2>1 DEF IInv, TypeOK
  <2>5. (Loop!TypeOK)' /\ topic' \in DOMAIN Offered
    BY <2>1 DEF IInv, TypeOK, Loop!IInv
  <2> QED
    BY <1>2, <2>1, <2>2, <2>3, <2>4, <2>5 DEF TypeOK
<1>5. RowsGrow /\ stored' = stored /\ overtaken' = overtaken /\ rows' = rows
  BY DEF RowsGrow, tables
<1>6. \A o \in stored : (At(o) # Invalid /\ HasLeftRows(o))'
  BY <1>1, <1>5, LeftStays
<1> QED
  BY <1>4, <1>5, <1>6 DEF Rest, IInv, Known

\* A transaction that is over has no snapshot.
LEMMA EndsFit ==
  ASSUME IInv, NEW c \in Consumer, Ends(c)
  PROVE  /\ open' \in SUBSET Consumer /\ seen' \in [Consumer -> SUBSET Entity]
         /\ \A d \in Consumer : seen'[d] \subseteq Known(rows)
BY DEF IInv, TypeOK, Ends

\* A step that stores a batch.
LEMMA StoresInv ==
  ASSUME IInv, (Loop!IInv)', NEW c \in Consumer, Stores(c), UNCHANGED <<topic, log, end>>,
         handled' = handled \/ handled' = handled \cup Loop!Batch(c)
  PROVE  Rest'
<1>1. /\ RowsFit(rows') /\ RowsGrow
      /\ \A o \in Loop!Batch(c) : (At(o) # Invalid /\ HasLeftRows(o))'
  BY StoresLeaves
<1>2. \A p \in 0..(end - 1) : At(p)' = At(p)
  BY DEF At
<1>3. /\ stored' = stored \cup Loop!Batch(c)
      /\ shadowed' = (shadowed \ Loop!Batch(c)) \cup {o \in stored : o >= next[c]}
      /\ overtaken' \subseteq overtaken \cup Loop!Batch(c)
      /\ \A o \in overtaken : o \notin Loop!Batch(c) => o \in overtaken'
      /\ ValidBatch(Messages(c)) /\ Ends(c)
  BY DEF Stores
<1>4. Loop!Batch(c) \subseteq 0..(end - 1)
  BY <1>3, BatchIs
<1>5. shadowed' \subseteq stored' /\ overtaken' \subseteq stored'
  BY <1>3 DEF IInv, TypeOK
<1>6. TypeOK'
  BY <1>1, <1>3, <1>4, <1>5, EndsFit DEF IInv, TypeOK, RowsFit, Loop!IInv
<1>7. \A o \in stored \ Loop!Batch(c) : (At(o) # Invalid /\ HasLeftRows(o))'
  BY <1>1, <1>2, <1>3, LeftStays
<1>8. \A d \in Consumer : seen'[d] \subseteq Known(rows')
  BY <1>1, <1>3, EndsFit DEF RowsGrow, Known, Row
<1> QED
  BY <1>1, <1>3, <1>6, <1>7, <1>8 DEF Rest, IInv

LEMMA InvInit == Init => IInv
<1> SUFFICES ASSUME Init PROVE IInv
  OBVIOUS
<1>1. Loop!IInv
  BY LoopInit DEF Init
<1>2. end = 0 /\ handled = {} /\ low = [c \in Consumer |-> 0] /\ next = [c \in Consumer |-> 0]
  BY DEF Init, Loop!Init
<1>3. TypeOK
  <2>1. log \in Seq(Offered[topic]) /\ Len(log) = end
    BY <1>2 DEF Init
  <2>2. DOMAIN rows = Row /\ \A row \in Row : rows[row] \in Content(row) \cup {NoRow}
    BY DEF Init
  <2>3. /\ topic \in DOMAIN Offered /\ stored = {} /\ shadowed = {} /\ overtaken = {}
        /\ open = {} /\ seen \in [Consumer -> SUBSET Entity]
    BY DEF Init
  <2>4. stored \subseteq 0..(end - 1)
    BY <1>2, <2>3
  <2> QED
    BY <1>1, <2>1, <2>2, <2>3, <2>4 DEF TypeOK, Loop!IInv
<1>4. \A c \in Consumer : Bounded(c) /\ seen[c] \subseteq Known(rows)
  BY <1>2, BatchSizeAssumption DEF Bounded, Init
<1> QED
  BY <1>1, <1>2, <1>3, <1>4 DEF Init, IInv

LEMMA InvStep == ASSUME IInv, [Next]_vars PROVE IInv'
<1>1. (Loop!IInv)' /\ \A c \in Consumer : Bounded(c)'
  BY LoopInv, LoopStep, BoundedStep DEF IInv
<1> SUFFICES Rest'
  BY <1>1 DEF IInv, Rest
<1>s. /\ open \in SUBSET Consumer /\ seen \in [Consumer -> SUBSET Entity]
      /\ \A c \in Consumer : seen[c] \subseteq Known(rows)
  BY DEF IInv, TypeOK
<1>2. CASE Produce
  <2>1. UNCHANGED <<topic, tables, statements, handled>> /\ end' = end + 1
    BY <1>2 DEF Produce, Loop!Produce, Loop!outcome
  <2> QED
    BY <1>1, <1>s, <1>2, <2>1, Bystanders DEF Produce, statements
<1>3. ASSUME NEW c \in Consumer, Begin(c) PROVE Rest'
  <2>1. /\ UNCHANGED <<topic, tables, handled, log, end>>
        /\ open' = open \cup {c} /\ seen' = [seen EXCEPT ![c] = Known(rows)]
    BY <1>3 DEF Begin, loopVars
  <2>2. Known(rows) \in SUBSET Entity
    BY DEF Known
  <2> QED
    BY <1>1, <1>s, <2>1, <2>2, Bystanders
<1>4. ASSUME NEW c \in Consumer, Commit(c) PROVE Rest'
  <2>1. /\ Stores(c) /\ UNCHANGED <<topic, log, end>>
        /\ handled' = handled \/ handled' = handled \cup Loop!Batch(c)
    BY <1>4 DEF Commit, Loop!HandlerSucceeds, Loop!HandlerFails, Loop!broker
  <2> QED
    BY <1>1, <2>1, StoresInv
<1>5. ASSUME NEW c \in Consumer, Refuse(c) \/ Crash(c) PROVE Rest'
  <2>1. UNCHANGED <<topic, log, tables, end, handled>> /\ Ends(c)
    BY <1>5 DEF Refuse, Crash, Loop!HandlerFails, Loop!Crash, Loop!broker, Loop!outcome
  <2> QED
    BY <1>1, <2>1, EndsFit, Bystanders
<1>6. ASSUME NEW c \in Consumer, Member(c) \/ Interrupt(c) \/ Collect(c) \/ Mark(c) PROVE Rest'
  <2>1. UNCHANGED <<topic, log, tables, statements, end, handled>>
    BY <1>6 DEF Member, Interrupt, Collect, Mark, Outside, Loop!Join, Loop!AutoCommit, Loop!Leave,
                Loop!Rebalance, Loop!Evict, Loop!Deliver, Loop!Timer, Loop!Drain,
                Loop!Mark, Loop!broker, Loop!outcome
  <2> QED
    BY <1>1, <1>s, <2>1, Bystanders DEF statements
<1>7. CASE UNCHANGED vars
  BY <1>1, <1>s, <1>7, Bystanders DEF vars, loopVars, statements
<1> QED
  BY <1>2, <1>3, <1>4, <1>5, <1>6, <1>7 DEF Next

\* The inductive invariant of the process: types, the loop's invariant, the size of batches,
\* that what an open statement has seen is there, and that what has been stored is still in
\* the tables, but for the links a statement did not find the ends of.
THEOREM Inductive == Spec => []IInv
<1>1. IInv /\ [Next]_vars => IInv'
  BY InvStep
<1> QED
  BY InvInit, <1>1, PTL DEF Spec

\* A message the handler has taken without an error is in the tables from then on, whatever
\* batches fail, are stored twice, or are stored late by a process that was evicted: a link
\* unless another call inserted one of its ends under the statement that stored it, which
\* SyncGraph (graph_write_repository.go:104-123) then does not find.
THEOREM NothingHandledIsLost == Spec => []HandledIsStored
<1>1. IInv => HandledIsStored
  BY DEF IInv, HandledIsStored
<1> QED
  BY Inductive, <1>1, PTL

\* Every message the group has passed is in the tables, or was in a batch whose handler failed:
\* no crash, eviction or late mark makes the committed offset pass a message nobody has tried.
THEOREM NothingPassedIsLost == Spec => []PassedIsStored
<1>1. IInv => PassedIsStored
  BY DEF IInv, PassedIsStored, Loop!IInv, Loop!NeverSkippedUntried, Loop!Attempted
<1> QED
  BY Inductive, <1>1, PTL

\* The process is a consumer loop, so that what KafkaConsumerProofs has of every loop holds of it.
THEOREM IngestIsALoop == Spec => LoopIsImplemented
<1>1. Init => Loop!Init
  BY DEF Init
<1>2. [Next]_vars => [Loop!Next]_(Loop!vars)
  BY LoopStep DEF loopVars, Loop!vars
<1> QED
  BY <1>1, <1>2, PTL DEF Spec, LoopIsImplemented, Loop!Spec

-----------------------------------------------------------------------------
(***************************************************************************)
(* The statement of a batch is a call of the store.                        *)
(***************************************************************************)

\* GraphStore has its own copies of the operators of GraphRows.
LEMMA SameWords ==
  /\ \A row, old, new : Store!Upserted(row, old, new) = Upserted(row, old, new)
  /\ \A q : /\ Store!IsSync(q) <=> IsSync(q)
            /\ Store!Named(q) = Named(q)
            /\ \A ids : Store!DependentTasks(q, ids) = DependentTasks(q, ids)
            /\ \A e : Store!Merged(q, e) = Merged(q, e)
<1>1. \A row, old, new : Store!Upserted(row, old, new) = Upserted(row, old, new)
  BY DEF Store!Upserted, Store!MergeInTable, Store!Over, Store!Edge, Upserted, MergeInTable, Over, Edge
<1>2. ASSUME NEW q
      PROVE  /\ Store!IsSync(q) <=> IsSync(q)
             /\ Store!Named(q) = Named(q)
  BY DEF Store!IsSync, Store!Named, IsSync, Named
<1>3. ASSUME NEW q, NEW ids
      PROVE  Store!DependentTasks(q, ids) = DependentTasks(q, ids)
  BY DEF Store!DependentTasks, Store!LinkTasks, Store!PointTasks, Store!IsSync,
         DependentTasks, LinkTasks, PointTasks, IsSync
<1>4. ASSUME NEW q, NEW e
      PROVE  Store!Merged(q, e) = Merged(q, e)
  BY DEF Store!Merged, Store!Documents, Store!Mentions, Store!Last, Merged, Documents, Mentions, Last
<1> QED
  BY <1>1, <1>2, <1>3, <1>4

\* An upsert of an entity is one of EntityTasks, any other one a dependent one.
LEMMA TaskOfRow ==
  ASSUME NEW q, Fits(q), NEW before, NEW sight \in SUBSET Entity,
         NEW t \in Tasks(q, before, sight)
  PROVE  IF t.row \in Entity
         THEN t \in EntityTasks(q, sight)
         ELSE t \in DependentTasks(q, Entity)
<1>1. t \in EntityTasks(q, sight) \/ t \in DependentTasks(q, Found(q, before, sight))
  BY DEF Tasks, EntityUpserts
<1>2. CASE t \in EntityTasks(q, sight)
  <2>1. t.row \in Named(q)
    BY <1>2 DEF EntityTasks
  <2> QED
    BY <1>2, <2>1, NamedFit
<1>3. CASE t \in DependentTasks(q, Found(q, before, sight))
  <2>1. t \in DependentTasks(q, Entity)
    BY <1>3, FoundFit, DependentTasksGrow
  <2>2. t.row \notin Entity
    <3>1. CASE IsSync(q)
      <4>1. t \in [row : Entity \X Entity, new : LinkType, part : DOMAIN q.links]
        BY <2>1, <3>1 DEF DependentTasks, LinkTasks
      <4> QED
        BY <4>1, RowAssumption DEF Edge
    <3>2. CASE ~IsSync(q)
      <4>1. PICK d \in Entity \X DOMAIN q.points : t.row = <<d[1], q.points[d[2]].period>>
        BY <2>1, <3>2 DEF DependentTasks, PointTasks
      <4>2. t.row \in Point
        BY <3>2, <4>1 DEF Fits, Point
      <4> QED
        BY <4>2, RowAssumption
    <3> QED
      BY <3>1, <3>2
  <2> QED
    BY <2>1, <2>2
<1> QED
  BY <1>1, <1>2, <1>3

LEMMA ResultIsAnOutcome ==
  ASSUME NEW q, Fits(q), NEW before, NEW sight \in SUBSET Entity, sight \subseteq Known(before),
         CanPass(q, before, sight), NEW row \in Row
  PROVE  Result(q, before, sight)[row] \in Store!Outcomes(q, row, before[row])
<1> DEFINE own == {t \in Tasks(q, before, sight) : t.row = row}
           old == before[row]
           new == Result(q, before, sight)[row]
<1>1. (new = old /\ own = {}) \/ \E t \in own : new = Upserted(row, old, t.new)
  BY ResultOf
<1>2. CASE row \notin Entity
  <2>1. CASE new = old
    BY <1>2, <2>1 DEF Store!Outcomes
  <2>2. CASE \E t \in own : new = Upserted(row, old, t.new)
    <3>1. PICK t \in own : new = Upserted(row, old, t.new)
      BY <2>2
    <3>2. t \in DependentTasks(q, Entity) /\ t.row = row
      BY <1>2, <3>1, TaskOfRow
    <3> QED
      BY <1>2, <3>1, <3>2, SameWords DEF Store!Outcomes
  <2> QED
    BY <1>1, <2>1, <2>2
<1>3. CASE row \in Entity
  <2>1. \A t \in own : t \in EntityTasks(q, sight) /\ t.row = row
    BY <1>3, TaskOfRow
  <2>2. CASE row \notin Named(q)
    <3>1. own = {}
      BY <2>1, <2>2 DEF EntityTasks
    <3> QED
      BY <1>1, <1>3, <2>2, <3>1, SameWords DEF Store!Outcomes
  <2>3. CASE row \in Named(q) /\ IsSync(q)
    <3>1. [row |-> row, new |-> Merged(q, row), part |-> 0] \in own
      BY <2>3 DEF Tasks, EntityUpserts, EntityTasks
    <3>2. \A t \in own : t.new = Merged(q, row)
      BY <2>1, <2>3 DEF EntityTasks
    <3>3. new = Upserted(row, old, Merged(q, row))
      BY <1>1, <3>1, <3>2
    <3> QED
      BY <1>3, <2>3, <3>3, SameWords DEF Store!Outcomes
  <2>4. CASE row \in Named(q) /\ ~IsSync(q)
    <3>1. CASE old = NoRow
      <4>1. [row |-> row, new |-> Null, part |-> 0] \in own
        <5>1. row \notin sight
          BY <3>1 DEF Known
        <5> QED
          BY <1>3, <2>4, <5>1 DEF Tasks, EntityUpserts, EntityTasks
      <4>2. \A t \in own : t.new = Null
        BY <2>1, <2>4 DEF EntityTasks
      <4>3. new = Null
        BY <1>1, <3>1, <4>1, <4>2 DEF Upserted
      <4> QED
        BY <1>3, <2>4, <3>1, <4>3, SameWords DEF Store!Outcomes
    <3>2. CASE old # NoRow
      <4>1. own = {}
        BY <1>3, <2>4, <3>2 DEF CanPass, Duplicated
      <4> QED
        BY <1>1, <1>3, <2>4, <3>2, <4>1, SameWords DEF Store!Outcomes
    <3> QED
      BY <3>1, <3>2
  <2> QED
    BY <2>2, <2>3, <2>4
<1> QED
  BY <1>2, <1>3

LEMMA BatchFits ==
  ASSUME IInv, NEW c \in Consumer, ValidBatch(Messages(c))
  PROVE  Fits(Request1(c))
<1> DEFINE batch == Messages(c)
           n == next[c] - low[c]
<1>1. IsBatch(topic, batch, n) /\ Storable(n) /\ topic \in Topic
  BY BatchIs, Types
<1> HIDE DEF batch, n
<1>2. CASE topic = "entity-properties"
  BY <1>1, <1>2, PropertyFits DEF Request1, RequestOf, batch
<1>3. CASE topic = "temporal-data"
  BY <1>1, <1>3, PointsStay DEF Request1, RequestOf, batch
<1>4. CASE topic = "entities-edges"
  BY <1>1, <1>4, GraphRequestIs DEF Request1, RequestOf, batch
<1> QED
  BY <1>1, <1>2, <1>3, <1>4 DEF Topic

LEMMA StoresIsACall == ASSUME IInv, NEW c \in Consumer, Stores(c) PROVE IsCall(c)
<1>1. /\ ValidBatch(Messages(c)) /\ CanPass(Request1(c), rows, seen[c])
      /\ rows' = Result(Request1(c), rows, seen[c])
      /\ seen[c] \in SUBSET Entity /\ seen[c] \subseteq Known(rows)
  BY Types DEF Stores
<1>2. Fits(Request1(c))
  BY <1>1, BatchFits
<1>3. \A row \in Row :
        Result(Request1(c), rows, seen[c])[row] \in Store!Outcomes(Request1(c), row, rows[row])
  BY <1>1, <1>2, ResultIsAnOutcome
<1>4. Store!Row = Row
  BY DEF Store!Row, Store!Edge, Store!Point, Row, Edge, Point
<1> QED
  BY <1>1, <1>3, <1>4 DEF IsCall

\* The tables change only as a call of the store changes them, with the request of a batch that
\* a loop has collected: what GraphWriteProofs has of concurrent calls is what becomes of it.
THEOREM BatchesAreCalls == Spec => StoresAreCalls
<1>1. ASSUME IInv, [Next]_vars, rows' # rows \/ stored' # stored
      PROVE  \E c \in Consumer : IsCall(c)
  <2>1. \E c \in Consumer : Stores(c)
    BY <1>1 DEF Next, vars, tables, Produce, Begin, Commit, Refuse, Crash, Member, Interrupt,
                Collect, Mark, Outside
  <2> QED
    BY <1>1, <2>1, StoresIsACall
<1>2. IInv /\ [Next]_vars =>
        [rows' # rows \/ stored' # stored => \E c \in Consumer : IsCall(c)]_vars
  BY <1>1
<1> QED
  BY Inductive, <1>2, PTL DEF Spec, StoresAreCalls

-----------------------------------------------------------------------------
(***************************************************************************)
(* Newer wins.  NewestWins is inductive beside IInv: a batch shows its own *)
(* messages, and what it is not about it leaves alone; what it is about    *)
(* and lies behind it becomes shadowed.                                    *)
(***************************************************************************)

\* What excuses a message from being shown.
Excused(o) == \/ \E p \in stored : p > o /\ SamePlace(At(o), At(p))
              \/ topic = "temporal-data" /\ Dropped(o)

Supposed == /\ topic # "entities-edges" /\ InDateOrder
            /\ topic = "temporal-data" => NoSharedReference

LEMMA NewestWinsIs ==
  NewestWins <=> (Supposed => \A o \in stored \ shadowed : Excused(o) \/ Shows(o))
BY DEF NewestWins, Supposed, Excused

LEMMA NewestWinsIsPrime ==
  NewestWins' <=> (Supposed' => \A o \in stored' \ shadowed' : Excused(o)' \/ Shows(o)')
BY DEF NewestWins, Supposed, Excused

\* What a longer log is supposed to be, its beginning is; and an excuse stays one.
LEMMA SupposedBefore ==
  ASSUME end \in Nat, end' \in Nat, end <= end', topic' = topic,
         \A p \in 0..(end - 1) : At(p)' = At(p), Supposed'
  PROVE  Supposed
<1>1. \A p \in 0..(end - 1) : p \in 0..(end' - 1)
  <2>1. \A m, n \in Nat : m <= n => \A p \in 0..(m - 1) : p \in 0..(n - 1)
    OBVIOUS
  <2> QED
    BY <2>1
<1>2. InDateOrder
  <2> SUFFICES ASSUME NEW p \in 0..(end - 1), NEW o \in 0..(p - 1),
                      At(o) # Invalid, At(p) # Invalid, SameKey(At(o), At(p))
               PROVE  Rank(At(o)) < Rank(At(p)) \/ (At(o).date = NoDate /\ At(p).date = NoDate)
    BY DEF InDateOrder
  <2>1. o \in 0..(end - 1)
    OBVIOUS
  <2>2. At(o)' = At(o) /\ At(p)' = At(p)
    BY <2>1
  <2>3. SameKey(At(o), At(p))'
    BY <2>2 DEF SameKey
  <2>4. Rank(At(o))' = Rank(At(o)) /\ Rank(At(p))' = Rank(At(p))
    BY <2>2 DEF Rank
  <2> QED
    BY <1>1, <2>2, <2>3, <2>4 DEF Supposed, InDateOrder
<1>3. ASSUME topic = "temporal-data" PROVE NoSharedReference
  <2> SUFFICES ASSUME NEW o \in 0..(end - 1), NEW p \in 0..(end - 1),
                      At(o) # Invalid, At(p) # Invalid, RefOf[At(o).entity] = RefOf[At(p).entity]
               PROVE  At(o).entity = At(p).entity
    BY DEF NoSharedReference
  <2>1. At(o)' = At(o) /\ At(p)' = At(p)
    OBVIOUS
  <2> QED
    BY <1>1, <1>3, <2>1 DEF Supposed, NoSharedReference
<1> QED
  BY <1>2, <1>3 DEF Supposed

LEMMA ExcusedStays ==
  ASSUME NEW o \in stored, stored \subseteq 0..(end - 1), stored \subseteq stored', topic' = topic,
         \A p \in 0..(end - 1) : At(p)' = At(p), Excused(o)
  PROVE  Excused(o)'
<1>1. \A p \in stored : At(p)' = At(p)
  OBVIOUS
<1>2. ASSUME NEW p \in stored, p > o, SamePlace(At(o), At(p)) PROVE Excused(o)'
  <2>1. SamePlace(At(o), At(p))'
    BY <1>1, <1>2 DEF SamePlace, SameKey, PlaceOf
  <2> QED
    BY <1>2, <2>1 DEF Excused
<1>3. ASSUME topic = "temporal-data", Dropped(o) PROVE Excused(o)'
  <2>1. Dropped(o)'
    BY <1>1, <1>3 DEF Dropped, Mates
  <2> QED
    BY <1>3, <2>1 DEF Excused
<1> QED
  BY <1>2, <1>3 DEF Excused

LEMMA NewestInit == Init => NewestWins
BY DEF Init, NewestWins

LEMMA NewestBystanders ==
  ASSUME IInv, NewestWins, UNCHANGED <<topic, tables>>,
         \/ log' = log /\ end' = end
         \/ \E m \in Offered[topic] : log' = Append(log, m) /\ end' = end + 1
  PROVE  NewestWins'
<1>t. /\ end \in Nat /\ log \in Seq(Offered[topic]) /\ Len(log) = end
      /\ stored \subseteq 0..(end - 1) /\ topic \in Topic
  BY Types DEF IInv, TypeOK
<1>1. \A p \in 0..(end - 1) : At(p)' = At(p)
  BY <1>t DEF At
<1>2. end' \in Nat /\ end <= end'
  BY <1>t
<1>3. rows' = rows /\ stored' = stored /\ shadowed' = shadowed /\ topic' = topic
  BY DEF tables
<1> SUFFICES ASSUME Supposed', NEW o \in stored' \ shadowed' PROVE Excused(o)' \/ Shows(o)'
  BY NewestWinsIsPrime
<1>4. Supposed
  BY <1>t, <1>1, <1>2, <1>3, SupposedBefore
<1>5. o \in stored /\ o \notin shadowed /\ At(o)' = At(o)
  BY <1>t, <1>1, <1>3
<1>6. Excused(o) \/ Shows(o)
  BY <1>4, <1>5, NewestWinsIs
<1>7. Excused(o) => Excused(o)'
  BY <1>t, <1>1, <1>3, <1>5, ExcusedStays
<1>8. Shows(o) => Shows(o)'
  BY <1>3, <1>5 DEF Shows, PlaceOf
<1> QED
  BY <1>6, <1>7, <1>8

\* In a batch the messages of a key come in the order of the dates it gives them.
LEMMA BatchInOrder ==
  ASSUME IInv, NEW c \in Consumer, ValidBatch(Messages(c)), InDateOrder, topic # "entities-edges",
         NEW o \in Loop!Batch(c), NEW p \in Loop!Batch(c), o < p, SameKey(At(o), At(p))
  PROVE  DateIn(Messages(c), o - low[c] + 1) < DateIn(Messages(c), p - low[c] + 1)
<1> DEFINE batch == Messages(c)
           n == next[c] - low[c]
           j == o - low[c] + 1
           i == p - low[c] + 1
<1>1. /\ IsBatch(topic, batch, n) /\ low[c] \in Nat
      /\ o \in 0..(end - 1) /\ At(o) # Invalid /\ j \in 1..n /\ At(o) = batch[j]
      /\ p \in 0..(end - 1) /\ At(p) # Invalid /\ i \in 1..n /\ At(p) = batch[i]
  BY BatchIs, Types
<1>2. Rank(batch[j]) < Rank(batch[i]) \/ (batch[j].date = NoDate /\ batch[i].date = NoDate)
  <2>1. o \in 0..(p - 1)
    BY <1>1
  <2> QED
    BY <1>1, <2>1 DEF InDateOrder
<1>3. j < i /\ j \in Nat /\ i \in Nat
  BY <1>1
<1>4. topic \in {"entity-properties", "temporal-data"}
  BY Types DEF Topic
<1>5. ASSUME NEW k \in 1..n PROVE batch[k].date \in 0..MaxDate \cup {NoDate}
  <2>1. batch[k] \in MessageOf[topic]
    BY <1>1 DEF IsBatch
  <2>2. CASE topic = "entity-properties"
    BY <2>1, <2>2, MessageTypes DEF PropertyMessage, Date
  <2>3. CASE topic = "temporal-data"
    BY <2>1, <2>3, MessageTypes DEF PointMessage, Date
  <2> QED
    BY <1>4, <2>2, <2>3
<1>6. batch[j].date \in 0..MaxDate \cup {NoDate} /\ batch[i].date \in 0..MaxDate \cup {NoDate}
  BY <1>1, <1>5
<1> HIDE DEF batch, j, i
<1> QED
  BY <1>2, <1>3, <1>6, DateAssumption DEF DateIn, Rank, Date, batch, j, i

\* A step that stores a batch.
LEMMA NewestStores ==
  ASSUME IInv, NewestWins, NEW c \in Consumer, Stores(c), UNCHANGED <<topic, log, end>>
  PROVE  NewestWins'
<1> DEFINE batch == Messages(c)
           n == next[c] - low[c]
           before == seen[c]
<1>t. /\ before \in SUBSET Entity
      /\ end \in Nat /\ low[c] \in Nat /\ next[c] \in Nat /\ low[c] <= next[c]
      /\ stored \subseteq 0..(end - 1) /\ RowsFit(rows) /\ topic \in Topic
  BY Types
<1>1. \A p : At(p)' = At(p)
  BY DEF At
<1>2. /\ ValidBatch(batch) /\ CanPass(RequestOf(topic, batch), rows, before)
      /\ rows' = Result(RequestOf(topic, batch), rows, before)
      /\ stored' = stored \cup Loop!Batch(c)
      /\ shadowed' = (shadowed \ Loop!Batch(c)) \cup {o \in stored : o >= next[c]}
      /\ topic' = topic /\ end' = end
  BY DEF Stores, Request1
<1>3. /\ IsBatch(topic, batch, n) /\ Storable(n) /\ n <= BatchSize
      /\ \A i \in 1..n : low[c] + i - 1 \in Loop!Batch(c) /\ batch[i] = At(low[c] + i - 1)
      /\ \A o \in Loop!Batch(c) : /\ o \in 0..(end - 1) /\ At(o) # Invalid
                                  /\ o - low[c] + 1 \in 1..n
                                  /\ At(o) = batch[o - low[c] + 1]
  BY <1>2, BatchIs
<1> SUFFICES ASSUME Supposed', NEW o \in stored' \ shadowed', ~Excused(o)' PROVE Shows(o)'
  BY NewestWinsIsPrime
<1>4. Supposed
  BY <1>t, <1>1, <1>2, SupposedBefore
<1>5. o \in 0..(end - 1) /\ At(o) # Invalid /\ At(o) \in MessageOf[topic]
  <2>1. o \in 0..(end - 1) /\ At(o) # Invalid
    BY <1>t, <1>2, <1>3 DEF IInv
  <2> QED
    BY <2>1, Types, OfferedAssumption
<1>6. ASSUME NEW p \in Loop!Batch(c), p > o PROVE ~SamePlace(At(o), At(p))
  <2>1. p \in stored'
    BY <1>2
  <2>2. SamePlace(At(o), At(p))' <=> SamePlace(At(o), At(p))
    BY <1>1, <1>2 DEF SamePlace, SameKey, PlaceOf
  <2> QED
    BY <1>6, <2>1, <2>2 DEF Excused
<1>7. topic \in {"entity-properties", "temporal-data"}
  BY <1>t, <1>4 DEF Supposed, Topic
<1>8. o \notin Loop!Batch(c) => o < low[c] /\ Shows(o)
  <2> SUFFICES ASSUME o \notin Loop!Batch(c) PROVE o < low[c] /\ Shows(o)
    OBVIOUS
  <2>1. o \in stored /\ o \notin shadowed /\ ~(o >= next[c])
    BY <1>2
  <2>2. o < low[c]
    BY <1>t, <1>5, <2>1 DEF Loop!Batch
  <2>3. ~Excused(o)
    BY <1>t, <1>1, <1>2, <2>1, ExcusedStays
  <2> QED
    BY <1>4, <2>1, <2>2, <2>3, NewestWinsIs
<1>9. CASE topic = "entity-properties"
  <2>1. rows' = Result(PropertyRequest(batch), rows, before) /\ IsBatch("entity-properties", batch, n)
    BY <1>2, <1>3, <1>9 DEF RequestOf
  <2>2. CASE o \in Loop!Batch(c)
    <3> DEFINE i == o - low[c] + 1
    <3>1. i \in 1..n /\ At(o) = batch[i] /\ i \in Nat
      BY <1>3, <2>2
    <3>2. ASSUME NEW j \in FieldRivals(batch, i)
          PROVE  j <= i /\ (j < i => DateIn(batch, j) < DateIn(batch, i))
      <4> DEFINE p == low[c] + j - 1
      <4>1. j \in 1..n /\ batch[j].entity = batch[i].entity /\ batch[j].field = batch[i].field
        BY <2>1 DEF FieldRivals, IsBatch
      <4>2. p \in Loop!Batch(c) /\ At(p) = batch[j] /\ p - low[c] + 1 = j /\ j \in Nat
        BY <1>t, <1>3, <4>1
      <4>3. SameKey(At(o), At(p)) /\ SameKey(At(p), At(o)) /\ SamePlace(At(o), At(p))
        BY <1>9, <3>1, <4>1, <4>2 DEF SamePlace, SameKey
      <4>4. ~(p > o)
        BY <1>6, <4>2, <4>3
      <4>5. j <= i
        BY <1>t, <1>5, <3>1, <4>2, <4>4
      <4>6. ASSUME j < i PROVE DateIn(batch, j) < DateIn(batch, i)
        <5>1. p < o
          BY <1>t, <1>5, <4>6, <4>2
        <5> HIDE DEF p
        <5>2. DateIn(batch, p - low[c] + 1) < DateIn(batch, o - low[c] + 1)
          BY <1>2, <1>4, <1>9, <2>2, <4>2, <4>3, <5>1, BatchInOrder DEF Supposed
        <5> QED
          BY <4>2, <5>2
      <4> QED
        BY <4>5, <4>6
    <3> HIDE DEF i, batch, n, before
    <3>3. rows'[batch[i].entity][batch[i].field][1] = batch[i].value
      BY <1>t, <1>3, <2>1, <3>1, <3>2, PropertyShown
    <3> QED
      BY <1>1, <1>2, <1>9, <3>1, <3>3 DEF Shows
  <2>3. CASE o \notin Loop!Batch(c)
    <3> DEFINE e == At(o).entity
               x == At(o).field
    <3>1. e \in Entity
      BY <1>5, <1>9, MessageTypes DEF PropertyMessage
    <3>2. Has(rows, e, x)
      <4>1. HasLeftRows(o)
        BY <1>2, <2>3 DEF IInv
      <4> QED
        BY <1>9, <4>1 DEF HasLeftRows, Has
    <3>3. ASSUME NEW j \in 1..n, batch[j].entity = e, batch[j].field = x PROVE FALSE
      <4> DEFINE p == low[c] + j - 1
      <4>1. p \in Loop!Batch(c) /\ At(p) = batch[j] /\ p > o
        BY <1>t, <1>3, <1>5, <1>8, <2>3
      <4> HIDE DEF p
      <4>2. SamePlace(At(o), At(p))
        BY <1>9, <3>3, <4>1 DEF SamePlace, SameKey
      <4> QED
        BY <1>6, <4>1, <4>2
    <3> HIDE DEF batch, n, before
    <3>4. rows'[e][x] = rows[e][x]
      BY <1>t, <1>3, <2>1, <3>1, <3>2, <3>3, PropertyKept
    <3> QED
      BY <1>1, <1>2, <1>8, <1>9, <2>3, <3>4 DEF Shows
  <2> QED
    BY <2>2, <2>3
<1>10. CASE topic = "temporal-data"
  <2>1. /\ rows' = Result(PointRequest(batch), rows, before) /\ CanPass(PointRequest(batch), rows, before)
        /\ IsBatch("temporal-data", batch, n)
    BY <1>2, <1>3, <1>10 DEF RequestOf
  <2>a. Alone(batch, At(o).entity)
    <3> SUFFICES ASSUME NEW j \in 1..n, RefOf[batch[j].entity] = RefOf[At(o).entity]
                 PROVE  batch[j].entity = At(o).entity
      BY <2>1 DEF Alone, IsBatch
    <3> DEFINE p == low[c] + j - 1
    <3>1. p \in Loop!Batch(c) /\ batch[j] = At(p)
      BY <1>3
    <3> HIDE DEF p
    <3>2. p \in 0..(end - 1) /\ At(p) # Invalid
      BY <1>3, <3>1
    <3> QED
      BY <1>4, <1>5, <1>10, <3>1, <3>2 DEF Supposed, NoSharedReference
  <2>2. CASE o \in Loop!Batch(c)
    <3> DEFINE i == o - low[c] + 1
    <3>1. i \in 1..n /\ At(o) = batch[i] /\ i \in Nat
      BY <1>3, <2>2
    <3>2. ASSUME NEW j \in SeriesRivals(batch, i)
          PROVE  j <= i /\ (j < i => DateIn(batch, j) < DateIn(batch, i))
      <4> DEFINE p == low[c] + j - 1
      <4>1. j \in 1..n /\ batch[j].entity = batch[i].entity /\ batch[j].series = batch[i].series
        BY <2>1 DEF SeriesRivals, IsBatch
      <4>2. p \in Loop!Batch(c) /\ At(p) = batch[j] /\ p - low[c] + 1 = j /\ j \in Nat
        BY <1>t, <1>3, <4>1
      <4>3. SameKey(At(o), At(p)) /\ SameKey(At(p), At(o))
        BY <1>10, <3>1, <4>1, <4>2 DEF SameKey
      <4>4. DateIn(batch, j) = batch[j].date /\ DateIn(batch, i) = batch[i].date
        BY <2>1, <3>1, <4>1, PointTypes
      <4> HIDE DEF batch, n, before
      <4>5. ASSUME o < p PROVE FALSE
        <5>1. DateIn(batch, o - low[c] + 1) < DateIn(batch, p - low[c] + 1)
          <6> HIDE DEF p
          <6> QED
            BY <1>2, <1>4, <1>10, <2>2, <4>2, <4>3, <4>5, BatchInOrder DEF Supposed, batch
        <5>2. At(p).date > At(o).date
          <6>1. batch[i].date \in 0..MaxDate /\ batch[j].date \in 0..MaxDate /\ MaxDate \in Nat
            BY <2>1, <3>1, <4>1, PointTypes, DateAssumption
          <6> QED
            BY <3>1, <4>2, <4>4, <5>1, <6>1
        <5>3. Mates(o, p)
          <6>1. n \in Nat /\ n <= BatchSize /\ BatchSize \in Nat
            BY <1>3, <2>1, Types DEF IsBatch
          <6>2. o - p = i - j /\ p - o = j - i
            BY <1>t, <1>5, <4>2
          <6>3. i - j < n /\ j - i < n
            BY <3>1, <4>1, <6>1
          <6> HIDE DEF i, p
          <6> QED
            BY <3>1, <4>2, <6>1, <6>2, <6>3 DEF Mates
        <5>4. p \in stored' /\ At(p).entity = At(o).entity /\ At(p).series = At(o).series
          BY <1>2, <3>1, <4>1, <4>2
        <5> HIDE DEF p
        <5>5. Dropped(o)'
          BY <1>1, <5>2, <5>3, <5>4 DEF Dropped, Mates
        <5> QED
          BY <1>2, <1>10, <5>5 DEF Excused
      <4>6. j <= i
        BY <1>t, <1>5, <3>1, <4>2, <4>5
      <4>7. ASSUME j < i PROVE DateIn(batch, j) < DateIn(batch, i)
        <5>1. p < o
          BY <1>t, <1>5, <4>7, <4>2
        <5> HIDE DEF p
        <5>2. DateIn(batch, p - low[c] + 1) < DateIn(batch, o - low[c] + 1)
          BY <1>2, <1>4, <1>10, <2>2, <4>2, <4>3, <5>1, BatchInOrder DEF Supposed, batch
        <5> QED
          BY <4>2, <5>2
      <4> QED
        BY <4>6, <4>7
    <3>3. Alone(batch, batch[i].entity)
      BY <2>a, <3>1
    <3> HIDE DEF i, batch, n, before
    <3> DEFINE row == <<batch[i].entity, PeriodOf[batch[i].series][batch[i].date]>>
    <3>4. rows'[row] # NoRow /\ rows'[row].value = batch[i].value
      <4>1. /\ Result(PointRequest(batch), rows, before)[row] # NoRow
            /\ Result(PointRequest(batch), rows, before)[row].value = batch[i].value
        BY <1>t, <1>3, <2>1, <3>1, <3>2, <3>3, PointShown
      <4> HIDE DEF row
      <4> QED
        BY <2>1, <4>1
    <3> QED
      BY <1>1, <1>2, <1>10, <3>1, <3>4 DEF Shows, PlaceOf
  <2>3. CASE o \notin Loop!Batch(c)
    <3> DEFINE e == At(o).entity
               s == At(o).series
               d == At(o).date
    <3>1. e \in Entity /\ s \in Series /\ d \in Date
      BY <1>5, <1>10, MessageTypes DEF PointMessage
    <3>2. ~\E j \in 1..n : /\ batch[j].entity = e /\ batch[j].series = s
                           /\ PeriodOf[batch[j].series][batch[j].date] = PeriodOf[s][d]
      <4> SUFFICES ASSUME NEW j \in 1..n, batch[j].entity = e, batch[j].series = s,
                          PeriodOf[batch[j].series][batch[j].date] = PeriodOf[s][d]
                   PROVE  FALSE
        OBVIOUS
      <4> DEFINE p == low[c] + j - 1
      <4>1. p \in Loop!Batch(c) /\ At(p) = batch[j] /\ p > o
        BY <1>t, <1>3, <1>5, <1>8, <2>3
      <4> HIDE DEF p
      <4>2. SamePlace(At(o), At(p))
        BY <1>10, <4>1 DEF SamePlace, SameKey, PlaceOf
      <4> QED
        BY <1>6, <4>1, <4>2
    <3>3. Alone(batch, e)
      BY <2>a
    <3> HIDE DEF batch, n, before, e, s, d
    <3>4. rows'[<<e, PeriodOf[s][d]>>] = rows[<<e, PeriodOf[s][d]>>]
      BY <1>t, <2>1, <3>1, <3>2, <3>3, PointKept
    <3>5. PlaceOf(At(o)) = <<e, PeriodOf[s][d]>>
      BY DEF PlaceOf, e, s, d
    <3>6. PlaceOf(At(o))' = PlaceOf(At(o))
      BY <1>1 DEF PlaceOf
    <3> QED
      BY <1>1, <1>2, <1>8, <1>10, <2>3, <3>4, <3>5, <3>6 DEF Shows
  <2> QED
    BY <2>2, <2>3
<1> QED
  BY <1>7, <1>9, <1>10

LEMMA NewestStep == ASSUME IInv, NewestWins, [Next]_vars PROVE NewestWins'
<1>1. CASE Produce
  BY <1>1, NewestBystanders DEF Produce, Loop!Produce, Loop!outcome
<1>2. ASSUME NEW c \in Consumer, Begin(c) PROVE NewestWins'
  BY <1>2, NewestBystanders DEF Begin, loopVars
<1>3. ASSUME NEW c \in Consumer, Commit(c) PROVE NewestWins'
  <2>1. Stores(c) /\ UNCHANGED <<topic, log, end>>
    BY <1>3 DEF Commit, Loop!HandlerSucceeds, Loop!HandlerFails, Loop!broker
  <2> QED
    BY <2>1, NewestStores
<1>4. ASSUME NEW c \in Consumer, Refuse(c) \/ Crash(c) PROVE NewestWins'
  <2>1. UNCHANGED <<topic, log, tables, end>>
    BY <1>4 DEF Refuse, Crash, Loop!HandlerFails, Loop!Crash, Loop!broker, Loop!outcome
  <2> QED
    BY <2>1, NewestBystanders
<1>5. ASSUME NEW c \in Consumer, Member(c) \/ Interrupt(c) \/ Collect(c) \/ Mark(c)
      PROVE  NewestWins'
  <2>1. UNCHANGED <<topic, log, tables, end>>
    BY <1>5 DEF Member, Interrupt, Collect, Mark, Outside, Loop!Join, Loop!AutoCommit, Loop!Leave,
                Loop!Rebalance, Loop!Evict, Loop!Deliver, Loop!Timer, Loop!Drain,
                Loop!Mark, Loop!broker, Loop!outcome
  <2> QED
    BY <2>1, NewestBystanders
<1>6. CASE UNCHANGED vars
  BY <1>6, NewestBystanders DEF vars, loopVars
<1> QED
  BY <1>1, <1>2, <1>3, <1>4, <1>5, <1>6 DEF Next

\* Of the messages of a field or period that come in the order of their dates, the newest that
\* is stored is the one the tables show, however often batches come again and in whatever
\* company, as long as nothing before it has been stored again without it.
THEOREM NewerWins == Spec => []NewestWins
<1>1. IInv /\ NewestWins /\ [Next]_vars => NewestWins'
  BY NewestStep
<1> QED
  BY Inductive, NewestInit, <1>1, PTL DEF Spec

=============================================================================
