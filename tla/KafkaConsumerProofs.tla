------------------------- MODULE KafkaConsumerProofs -------------------------
(***************************************************************************)
(* For every number of processes, batch size, log and pattern of           *)
(* rebalances, evictions and crashes: the group never passes over a        *)
(* message without having called the handler with it.                      *)
(***************************************************************************)
EXTENDS KafkaConsumer, TLAPS

-----------------------------------------------------------------------------
(***************************************************************************)
(* Types.                                                                  *)
(***************************************************************************)

\* Every step of the loop and of the broker keeps the types.
LEMMA TypeStep == ASSUME TypeOK, [Next]_vars PROVE TypeOK'
<1> USE DEF TypeOK, Stages
<1>1. ASSUME Produce PROVE TypeOK'
  BY <1>1 DEF Produce, outcome
<1>2. ASSUME NEW c \in Consumer, Join(c) PROVE TypeOK'
  BY <1>2 DEF Join, outcome
<1>3. ASSUME NEW c \in Consumer, AutoCommit(c) PROVE TypeOK'
  BY <1>3 DEF AutoCommit, outcome
<1>4. ASSUME NEW c \in Consumer, Rebalance(c) PROVE TypeOK'
  BY <1>4 DEF Rebalance, outcome
<1>5. ASSUME NEW c \in Consumer, Evict(c) PROVE TypeOK'
  BY <1>5 DEF Evict, outcome
<1>6. ASSUME NEW c \in Consumer, Crash(c) PROVE TypeOK'
  BY <1>6 DEF Crash, outcome
<1>7. ASSUME NEW c \in Consumer, Deliver(c) PROVE TypeOK'
  BY <1>7 DEF Deliver, broker, outcome
<1>8. ASSUME NEW c \in Consumer, Timer(c) \/ Drain(c) PROVE TypeOK'
  BY <1>8 DEF Timer, Drain, broker, outcome
<1>9. ASSUME NEW c \in Consumer, HandlerSucceeds(c) PROVE TypeOK'
  <2>1. Batch(c) \subseteq Nat
    BY DEF Batch
  <2> QED
    BY <1>9, <2>1 DEF HandlerSucceeds, broker
<1>10. ASSUME NEW c \in Consumer, HandlerFails(c) PROVE TypeOK'
  <2>1. Batch(c) \subseteq Nat
    BY DEF Batch
  <2> QED
    BY <1>10, <2>1 DEF HandlerFails, Continue, broker
<1>11. ASSUME NEW c \in Consumer, Mark(c) PROVE TypeOK'
  BY <1>11 DEF Mark, Continue, Larger, broker, outcome
<1>12. ASSUME NEW c \in Consumer, Leave(c) PROVE TypeOK'
  BY <1>12 DEF Leave, Larger, outcome
<1>13. ASSUME UNCHANGED vars PROVE TypeOK'
  BY <1>13 DEF vars
<1> QED
  BY <1>1, <1>2, <1>3, <1>4, <1>5, <1>6, <1>7, <1>8, <1>9, <1>10, <1>11, <1>12, <1>13 DEF Next

LEMMA TypeInit == Init => TypeOK
BY DEF Init, TypeOK, Stages

\* The state of the partition, of the group and of every loop keeps its type.
THEOREM TypeCorrect == Spec => []TypeOK
<1>1. TypeOK /\ [Next]_vars => TypeOK'
  BY TypeStep
<1> QED
  BY TypeInit, <1>1, PTL DEF Spec

-----------------------------------------------------------------------------
(***************************************************************************)
(* What only grows, and what a step leaves alone.                          *)
(***************************************************************************)

\* The log, the group's first offset and what the handler was given only grow.
Grows == /\ end <= end'
         /\ base <= base'
         /\ handled \subseteq handled'
         /\ failed \subseteq failed'

\* A step that leaves the log alone and forgets no attempt is such a step.
LEMMA SameLog ==
  ASSUME TypeOK, end' = end, base' = base, handled \subseteq handled', failed \subseteq failed'
  PROVE  Grows
BY DEF TypeOK, Grows

\* A loop whose slice, mark and stage do not change keeps its invariant.
LEMMA Bystander ==
  ASSUME TypeOK, TypeOK', Grows, NEW d \in Consumer, LoopOK(d),
         low'[d] = low[d], next'[d] = next[d], marked'[d] = marked[d],
         loop'[d] = loop[d] \/ loop'[d] \notin {"mark", "markLast"}
  PROVE  LoopOK(d)'
<1>1. low'[d] <= next'[d] /\ next'[d] <= end' /\ marked'[d] <= end'
  BY DEF TypeOK, Grows, LoopOK
<1>2. base'..(low'[d] - 1) \subseteq base..(low[d] - 1)
  BY DEF TypeOK, Grows
<1>3. base'..(marked'[d] - 1) \subseteq base..(marked[d] - 1)
  BY DEF TypeOK, Grows
<1>4. Batch(d)' = Batch(d)
  BY DEF Batch
<1>5. Attempted \subseteq Attempted'
  BY DEF Attempted, Grows
<1> QED
  BY <1>1, <1>2, <1>3, <1>4, <1>5 DEF LoopOK, Grows

\* Without a new commit, the group passes over nothing new.
LEMMA SameCommit ==
  ASSUME TypeOK, TypeOK', Grows, NeverSkippedUntried, committed' = committed
  PROVE  NeverSkippedUntried'
<1>1. base'..(committed' - 1) \subseteq base..(committed - 1)
  BY DEF TypeOK, Grows
<1> QED
  BY <1>1 DEF NeverSkippedUntried, Attempted, Grows

\* A commit up to a mark passes over nothing that the handler was not given.
LEMMA CommitOfMark ==
  ASSUME TypeOK, TypeOK', Grows, IInv, NEW c \in Consumer, committed' = marked[c]
  PROVE  NeverSkippedUntried' /\ committed' <= end'
<1>1. base'..(committed' - 1) \subseteq base..(marked[c] - 1)
  BY DEF TypeOK, Grows
<1> QED
  BY <1>1 DEF NeverSkippedUntried, Attempted, Grows, IInv, LoopOK, TypeOK

-----------------------------------------------------------------------------
(***************************************************************************)
(* The inductive invariant, one step per action.                           *)
(***************************************************************************)

LEMMA InvInit == Init => IInv
BY TypeInit DEF Init, IInv, NeverSkippedUntried, LoopOK, Batch, TypeOK

LEMMA InvStep == ASSUME IInv, [Next]_vars PROVE IInv'
<1>t. TypeOK /\ TypeOK'
  BY TypeStep DEF IInv
<1> SUFFICES /\ NeverSkippedUntried' /\ (committed <= end)' /\ (base <= end)'
             /\ \A d \in Consumer : LoopOK(d)'
  BY <1>t DEF IInv
<1>i. /\ NeverSkippedUntried /\ committed <= end /\ base <= end
      /\ \A d \in Consumer : LoopOK(d)
  BY DEF IInv
<1>1. CASE Produce
  <2>1. Grows /\ committed' = committed /\ base' = base
    BY <1>1, <1>t DEF Produce, Grows, outcome, TypeOK
  <2>2. \A d \in Consumer : LoopOK(d)'
    BY <1>1, <1>t, <1>i, <2>1, Bystander DEF Produce
  <2> QED
    BY <1>t, <1>i, <2>1, <2>2, SameCommit DEF Grows, TypeOK
<1>2. ASSUME NEW c \in Consumer, Join(c)
      PROVE  /\ NeverSkippedUntried' /\ (committed <= end)' /\ (base <= end)'
             /\ \A d \in Consumer : LoopOK(d)'
  <2>1. Grows /\ committed' = committed /\ base' <= end'
    BY <1>2, <1>t, <1>i DEF Join, Grows, outcome, TypeOK
  <2>2. ASSUME NEW d \in Consumer, d # c PROVE LoopOK(d)'
    BY <1>2, <1>t, <1>i, <2>1, <2>2, Bystander DEF Join, TypeOK
  <2>3. LoopOK(c)'
    <3>1. CASE committed < 0
      <4>1. /\ low'[c] = end /\ next'[c] = end /\ marked'[c] = -1 /\ end' = end
            /\ base' = end /\ loop'[c] = "collect"
        BY <1>2, <3>1 DEF Join, TypeOK, IInv
      <4>2. base'..(low'[c] - 1) = {} /\ base'..(marked'[c] - 1) = {}
        BY <4>1 DEF TypeOK, IInv
      <4> QED
        BY <4>1, <4>2, <1>t DEF LoopOK, TypeOK
    <3>2. CASE ~(committed < 0)
      <4>1. /\ low'[c] = committed /\ next'[c] = committed /\ marked'[c] = committed
            /\ end' = end /\ base' = base /\ loop'[c] = "collect"
        BY <1>2, <3>2 DEF Join, TypeOK, IInv
      <4>2. Attempted' = Attempted
        BY <1>2 DEF Join, Attempted, outcome
      <4>3. low'[c] <= next'[c] /\ next'[c] <= end' /\ marked'[c] <= end'
        BY <4>1, <1>i, <1>t DEF TypeOK
      <4> QED
        BY <4>1, <4>2, <4>3, <1>i DEF LoopOK, NeverSkippedUntried
    <3> QED
      BY <3>1, <3>2
  <2> QED
    BY <1>t, <1>i, <2>1, <2>2, <2>3, SameCommit DEF Grows, TypeOK
<1>3. ASSUME NEW c \in Consumer, AutoCommit(c)
      PROVE  /\ NeverSkippedUntried' /\ (committed <= end)' /\ (base <= end)'
             /\ \A d \in Consumer : LoopOK(d)'
  <2>1. Grows /\ committed' = marked[c] /\ base' = base /\ end' = end
    BY <1>3, <1>t DEF AutoCommit, Grows, outcome, TypeOK
  <2>2. \A d \in Consumer : LoopOK(d)'
    BY <1>3, <1>t, <1>i, <2>1, Bystander DEF AutoCommit
  <2> QED
    BY <1>t, <1>i, <2>1, <2>2, CommitOfMark
<1>4. ASSUME NEW c \in Consumer, Rebalance(c) \/ Evict(c) \/ Crash(c)
      PROVE  /\ NeverSkippedUntried' /\ (committed <= end)' /\ (base <= end)'
             /\ \A d \in Consumer : LoopOK(d)'
  <2>1. Grows /\ committed' = committed /\ base' = base /\ end' = end
    <3>1. /\ committed' = committed /\ base' = base /\ end' = end
          /\ handled \subseteq handled' /\ failed \subseteq failed'
      BY <1>4 DEF Rebalance, Evict, Crash, outcome
    <3> QED
      BY <1>t, <3>1, SameLog
  <2>2. ASSUME NEW d \in Consumer PROVE LoopOK(d)'
    <3>1. low' = low /\ next' = next /\ marked' = marked
      BY <1>4 DEF Rebalance, Evict, Crash
    <3>2. loop'[d] = loop[d] \/ loop'[d] = "out"
      BY <1>4, <1>t DEF Rebalance, Evict, Crash, TypeOK
    <3> QED
      BY <1>t, <1>i, <2>1, <3>1, <3>2, Bystander
  <2> QED
    BY <1>t, <1>i, <2>1, <2>2, SameCommit
<1>5. ASSUME NEW c \in Consumer, Deliver(c)
      PROVE  /\ NeverSkippedUntried' /\ (committed <= end)' /\ (base <= end)'
             /\ \A d \in Consumer : LoopOK(d)'
  <2>1. Grows /\ committed' = committed /\ base' = base /\ end' = end
    <3>1. /\ committed' = committed /\ base' = base /\ end' = end
          /\ handled \subseteq handled' /\ failed \subseteq failed'
      BY <1>5 DEF Deliver, broker, outcome
    <3> QED
      BY <1>t, <3>1, SameLog
  <2>2. ASSUME NEW d \in Consumer, d # c PROVE LoopOK(d)'
    BY <1>5, <1>t, <1>i, <2>1, <2>2, Bystander DEF Deliver, TypeOK
  <2>3. LoopOK(c)'
    <3>1. /\ low' = low /\ marked' = marked /\ Attempted' = Attempted
          /\ next'[c] = next[c] + 1 /\ next[c] < end
          /\ loop'[c] \notin {"mark", "markLast"}
      BY <1>5, <1>t DEF Deliver, Attempted, outcome, TypeOK
    <3>2. low'[c] <= next'[c] /\ next'[c] <= end' /\ marked'[c] <= end'
      BY <1>t, <1>i, <2>1, <3>1 DEF LoopOK, TypeOK
    <3> QED
      BY <1>i, <2>1, <3>1, <3>2 DEF LoopOK
  <2> QED
    BY <1>t, <1>i, <2>1, <2>2, <2>3, SameCommit
<1>6. ASSUME NEW c \in Consumer, Timer(c) \/ Drain(c)
      PROVE  /\ NeverSkippedUntried' /\ (committed <= end)' /\ (base <= end)'
             /\ \A d \in Consumer : LoopOK(d)'
  <2>1. Grows /\ committed' = committed /\ base' = base /\ end' = end
    <3>1. /\ committed' = committed /\ base' = base /\ end' = end
          /\ handled \subseteq handled' /\ failed \subseteq failed'
      BY <1>6 DEF Timer, Drain, broker, outcome
    <3> QED
      BY <1>t, <3>1, SameLog
  <2>2. ASSUME NEW d \in Consumer PROVE LoopOK(d)'
    <3>1. low' = low /\ next' = next /\ marked' = marked
      BY <1>6 DEF Timer, Drain
    <3>2. loop'[d] = loop[d] \/ loop'[d] \in {"handle", "handleLast", "leave"}
      BY <1>6, <1>t DEF Timer, Drain, TypeOK
    <3> QED
      BY <1>t, <1>i, <2>1, <3>1, <3>2, Bystander
  <2> QED
    BY <1>t, <1>i, <2>1, <2>2, SameCommit
<1>7. ASSUME NEW c \in Consumer, HandlerSucceeds(c)
      PROVE  /\ NeverSkippedUntried' /\ (committed <= end)' /\ (base <= end)'
             /\ \A d \in Consumer : LoopOK(d)'
  <2>1. Grows /\ committed' = committed /\ base' = base /\ end' = end
    <3>1. /\ committed' = committed /\ base' = base /\ end' = end
          /\ handled \subseteq handled' /\ failed \subseteq failed'
      BY <1>7 DEF HandlerSucceeds, broker
    <3> QED
      BY <1>t, <3>1, SameLog
  <2>2. ASSUME NEW d \in Consumer, d # c PROVE LoopOK(d)'
    BY <1>7, <1>t, <1>i, <2>1, <2>2, Bystander DEF HandlerSucceeds, TypeOK
  <2>3. LoopOK(c)'
    <3>1. low' = low /\ next' = next /\ marked' = marked /\ Attempted \subseteq Attempted'
      BY <1>7 DEF HandlerSucceeds, Attempted
    <3>2. Batch(c)' \subseteq handled'
      BY <1>7, <3>1 DEF HandlerSucceeds, Batch
    <3> QED
      BY <1>t, <1>i, <2>1, <3>1, <3>2 DEF LoopOK, TypeOK
  <2> QED
    BY <1>t, <1>i, <2>1, <2>2, <2>3, SameCommit
<1>8. ASSUME NEW c \in Consumer, HandlerFails(c)
      PROVE  /\ NeverSkippedUntried' /\ (committed <= end)' /\ (base <= end)'
             /\ \A d \in Consumer : LoopOK(d)'
  <2>1. Grows /\ committed' = committed /\ base' = base /\ end' = end
    <3>1. /\ committed' = committed /\ base' = base /\ end' = end
          /\ handled \subseteq handled' /\ failed \subseteq failed'
      BY <1>8 DEF HandlerFails, broker
    <3> QED
      BY <1>t, <3>1, SameLog
  <2>2. ASSUME NEW d \in Consumer, d # c PROVE LoopOK(d)'
    BY <1>8, <1>t, <1>i, <2>1, <2>2, Bystander DEF HandlerFails, TypeOK
  <2>3. LoopOK(c)'
    <3>1. /\ low'[c] = next[c] /\ next' = next /\ marked' = marked
          /\ loop'[c] \notin {"mark", "markLast"}
      BY <1>8, <1>t DEF HandlerFails, Continue, TypeOK
    <3>2. Attempted' = Attempted \cup Batch(c)
      BY <1>8 DEF HandlerFails, Attempted
    <3>3. \A o \in base..(next[c] - 1) : o \in base..(low[c] - 1) \/ o \in Batch(c)
      BY <1>t DEF Batch, TypeOK
    <3>4. \A o \in base'..(low'[c] - 1) : o \in Attempted'
      BY <1>i, <2>1, <3>1, <3>2, <3>3 DEF LoopOK
    <3>5. low'[c] <= next'[c] /\ next'[c] <= end' /\ marked'[c] <= end'
      BY <1>t, <1>i, <2>1, <3>1 DEF LoopOK, TypeOK
    <3> QED
      BY <1>i, <2>1, <3>1, <3>2, <3>4, <3>5 DEF LoopOK
  <2> QED
    BY <1>t, <1>i, <2>1, <2>2, <2>3, SameCommit
<1>9. ASSUME NEW c \in Consumer, Mark(c)
      PROVE  /\ NeverSkippedUntried' /\ (committed <= end)' /\ (base <= end)'
             /\ \A d \in Consumer : LoopOK(d)'
  <2>1. Grows /\ committed' = committed /\ base' = base /\ end' = end
    <3>1. /\ committed' = committed /\ base' = base /\ end' = end
          /\ handled \subseteq handled' /\ failed \subseteq failed'
      BY <1>9 DEF Mark, broker, outcome
    <3> QED
      BY <1>t, <3>1, SameLog
  <2>2. ASSUME NEW d \in Consumer, d # c PROVE LoopOK(d)'
    BY <1>9, <1>t, <1>i, <2>1, <2>2, Bystander DEF Mark, TypeOK
  <2>3. LoopOK(c)'
    <3>1. /\ low'[c] = next[c] /\ next' = next
          /\ marked'[c] = Larger(marked[c], next[c])
          /\ loop'[c] \notin {"mark", "markLast"}
          /\ Attempted' = Attempted
      BY <1>9, <1>t DEF Mark, Continue, Attempted, outcome, TypeOK
    <3>2. \A o \in base..(next[c] - 1) : o \in base..(low[c] - 1) \/ o \in Batch(c)
      BY <1>t DEF Batch, TypeOK
    <3>3. \A o \in base..(next[c] - 1) : o \in Attempted
      BY <1>9, <1>i, <3>2 DEF Mark, LoopOK, Attempted
    <3>4. marked'[c] = marked[c] \/ marked'[c] = next[c]
      BY <3>1 DEF Larger
    <3>5. \A o \in base'..(marked'[c] - 1) : o \in Attempted'
      BY <1>i, <2>1, <3>1, <3>3, <3>4 DEF LoopOK
    <3>6. low'[c] <= next'[c] /\ next'[c] <= end' /\ marked'[c] <= end'
      BY <1>t, <1>i, <2>1, <3>1, <3>4 DEF LoopOK, TypeOK
    <3>7. \A o \in base'..(low'[c] - 1) : o \in Attempted'
      BY <2>1, <3>1, <3>3
    <3> QED
      BY <3>1, <3>5, <3>6, <3>7 DEF LoopOK
  <2> QED
    BY <1>t, <1>i, <2>1, <2>2, <2>3, SameCommit
<1>10. ASSUME NEW c \in Consumer, Leave(c)
       PROVE  /\ NeverSkippedUntried' /\ (committed <= end)' /\ (base <= end)'
              /\ \A d \in Consumer : LoopOK(d)'
  <2>1. Grows /\ base' = base /\ end' = end
    BY <1>10, <1>t DEF Leave, Grows, outcome, TypeOK
  <2>2. ASSUME NEW d \in Consumer PROVE LoopOK(d)'
    <3>1. low' = low /\ next' = next /\ marked' = marked
      BY <1>10 DEF Leave
    <3>2. loop'[d] = loop[d] \/ loop'[d] = "out"
      BY <1>10, <1>t DEF Leave, TypeOK
    <3> QED
      BY <1>t, <1>i, <2>1, <3>1, <3>2, Bystander
  <2>3. committed' = committed \/ committed' = marked[c]
    BY <1>10 DEF Leave, Larger
  <2> QED
    BY <1>t, <1>i, <2>1, <2>2, <2>3, SameCommit, CommitOfMark
<1>11. CASE UNCHANGED vars
  BY <1>11, <1>i, <1>t
  DEF vars, NeverSkippedUntried, Attempted, LoopOK, Batch
<1> QED
  BY <1>1, <1>2, <1>3, <1>4, <1>5, <1>6, <1>7, <1>8, <1>9, <1>10, <1>11 DEF Next

\* What lies behind every slice, every mark and the committed offset was given to the handler.
THEOREM Inductive == Spec => []IInv
<1>1. IInv /\ [Next]_vars => IInv'
  BY InvStep
<1> QED
  BY InvInit, <1>1, PTL DEF Spec

\* The committed offset of the group never passes a message the handler was not called with.
THEOREM NothingIsSkipped == Spec => []NeverSkippedUntried
<1>1. IInv => NeverSkippedUntried
  BY DEF IInv
<1> QED
  BY Inductive, <1>1, PTL

=============================================================================
