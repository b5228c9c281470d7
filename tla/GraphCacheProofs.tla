-------------------------- MODULE GraphCacheProofs --------------------------
(***************************************************************************)
(* Proofs about GraphCache for every set of entities, queries, callers and *)
(* writers: type correctness, and the coherence of the answers that were   *)
(* cached without interference.                                            *)
(***************************************************************************)
EXTENDS GraphCache, TLAPS

USE DEF Writer, Key

(***************************************************************************)
(* Helpers.                                                                *)
(***************************************************************************)

\* The empty entry, the idle call and the two inactive invalidations have their types.
LEMMA ConstantsTyped ==
  /\ NoEntry \in Entry
  /\ Idle \in CallType
  /\ NotStarted \in InvType
  /\ Finished \in InvType
<1>1. NoEntry \in Entry
  BY DEF NoEntry, Entry
<1>2. (CHOOSE q \in Query : TRUE) \in Query
  BY QueryAssumption
<1>3. Idle \in CallType
  BY <1>1, <1>2 DEF Idle, CallType
<1>4. NotStarted \in InvType /\ Finished \in InvType
  BY DEF NotStarted, Finished, InvType
<1> QED
  BY <1>1, <1>3, <1>4

\* An answer is a set of entities (QueryTree returns rows of the table entities).
LEMMA AnswerTyped ==
  ASSUME TypeOK, NEW q \in Query, NEW S \in SUBSET Writer
  PROVE  Answer(q, S) \in SUBSET Entity
<1>1. UNION {changed[w] : w \in S \cap GraphWriter} \in SUBSET Entity
  BY DEF TypeOK
<1> QED
  BY <1>1, MembersAssumption DEF Answer

\* Marking entries as disturbed keeps the cache well typed.
LEMMA DisturbTyped ==
  ASSUME cache \in [Query -> Entry], NEW Q, Disturb(Q)
  PROVE  cache' \in [Query -> Entry]
  BY DEF Disturb, Entry

\* The type invariant is preserved by every step.
LEMMA TypeStep == TypeOK /\ [Next]_vars => TypeOK'
<1> SUFFICES ASSUME TypeOK, [Next]_vars PROVE TypeOK'
  OBVIOUS
<1> USE ConstantsTyped
<1>1. ASSUME NEW w \in Writer, NEW ids \in SUBSET Entity, NEW rows \in SUBSET ids,
             Execute(w, ids, rows)
      PROVE  TypeOK'
  <2>1. cache' \in [Query -> Entry]
    BY <1>1, DisturbTyped DEF Execute, TypeOK
  <2>2. req' \in [Reader -> CallType]
    BY <1>1 DEF Execute, TypeOK, CallType, Entry
  <2>3. inv' \in [Writer -> InvType]
    BY <1>1 DEF Execute, TypeOK, InvType
  <2> QED
    BY <1>1, <2>1, <2>2, <2>3 DEF Execute, TypeOK
<1>2. ASSUME NEW w \in Writer, Commit(w) PROVE TypeOK'
  BY <1>2 DEF Commit, TypeOK
<1>3. ASSUME NEW w \in Writer, Rollback(w) PROVE TypeOK'
  BY <1>3 DEF Rollback, TypeOK
<1>4. ASSUME NEW w \in Writer, Crash(w) PROVE TypeOK'
  <2>1. cache' \in [Query -> Entry]
    BY <1>4, DisturbTyped DEF Crash, TypeOK
  <2> QED
    BY <1>4, <2>1 DEF Crash, TypeOK
<1>5. ASSUME Replay PROVE TypeOK'
  BY <1>5 DEF Replay, TypeOK
<1>6. ASSUME NEW w \in Writer, NEW e \in Entity, ReadRegistry(w, e) PROVE TypeOK'
  BY <1>6 DEF ReadRegistry, database, TypeOK, InvType
<1>7. ASSUME NEW w \in Writer, ReadRegistryFails(w) PROVE TypeOK'
  <2>1. cache' \in [Query -> Entry]
    BY <1>7, DisturbTyped DEF ReadRegistryFails, TypeOK
  <2> QED
    BY <1>7, <2>1 DEF ReadRegistryFails, database, TypeOK
<1>8. ASSUME NEW w \in Writer, NEW k \in Key, DeleteKey(w, k) PROVE TypeOK'
  BY <1>8 DEF DeleteKey, database, TypeOK, InvType, Without
<1>9. ASSUME NEW w \in Writer, NEW k \in Key, DeleteKeyFails(w, k) PROVE TypeOK'
  <2>1. cache' \in [Query -> Entry]
    BY <1>9, DisturbTyped DEF DeleteKeyFails, TypeOK
  <2> QED
    BY <1>9, <2>1 DEF DeleteKeyFails, database, TypeOK, InvType, Without
<1>10. ASSUME NEW r \in Reader, NEW q \in Query, Lookup(r, q) PROVE TypeOK'
  BY <1>10 DEF Lookup, database, TypeOK, CallType, Idle
<1>11. ASSUME NEW r \in Reader, ReadGraph(r) PROVE TypeOK'
  <2>1. req[r] \in CallType /\ replayed \in SUBSET Writer
    BY DEF TypeOK
  <2>2. Answer(req[r].query, replayed) \in SUBSET Entity
    BY <2>1, AnswerTyped DEF CallType
  <2>3. req' \in [Reader -> CallType]
    BY <1>11, <2>1, <2>2 DEF ReadGraph, TypeOK, CallType, Entry
  <2> QED
    BY <1>11, <2>3 DEF ReadGraph, database, TypeOK
<1>12. ASSUME NEW r \in Reader, ReadTemporal(r) PROVE TypeOK'
  <2>1. req[r] \in CallType /\ req[r].entry \in Entry /\ replayed \in SUBSET Writer
    BY DEF TypeOK, CallType
  <2>2. PICK lost \in {FALSE, Faulty} : req' = [req EXCEPT ![r] = Answered(req[r], lost)]
    BY <1>12 DEF ReadTemporal
  <2>3. lost \in BOOLEAN
    BY FaultyAssumption
  <2>4. {req[r].query} \cup req[r].entry.ids \in SUBSET Key
    BY <2>1 DEF CallType, Entry
  <2>5. Answered(req[r], lost) \in CallType
    BY <2>1, <2>3, <2>4 DEF Answered, CallType, Entry
  <2>6. req' \in [Reader -> CallType]
    BY <2>2, <2>5 DEF TypeOK
  <2> QED
    BY <1>12, <2>6 DEF ReadTemporal, database, TypeOK
<1>13. ASSUME NEW r \in Reader, QueryFails(r) PROVE TypeOK'
  BY <1>13 DEF QueryFails, database, TypeOK
<1>14. ASSUME NEW r \in Reader, NEW k \in Key, FillCommand(r, k) PROVE TypeOK'
  <2>1. req' \in [Reader -> CallType]
    BY <1>14 DEF FillCommand, TypeOK, CallType, After
  <2>2. cache' \in [Query -> Entry] /\ registry' \in [Entity -> SUBSET Query]
    BY <1>14 DEF FillCommand, TypeOK, CallType
  <2> QED
    BY <1>14, <2>1, <2>2 DEF FillCommand, database, TypeOK
<1>15. ASSUME NEW r \in Reader, NEW k \in Key, FillCommandFails(r, k) PROVE TypeOK'
  <2>1. req' \in [Reader -> CallType]
    <3> DEFINE call == After(req[r], k)
    <3>1. call \in CallType /\ call.entry \in Entry
      BY DEF TypeOK, CallType, After
    <3>2. [call.entry EXCEPT !.disturbed = TRUE] \in Entry
      BY <3>1 DEF Entry
    <3>3. req' = [req EXCEPT ![r] =
                    IF call = Idle THEN Idle
                    ELSE [call EXCEPT !.entry = [call.entry EXCEPT !.disturbed = TRUE]]]
      BY <1>15 DEF FillCommandFails
    <3> HIDE DEF call
    <3>4. [call EXCEPT !.entry = [call.entry EXCEPT !.disturbed = TRUE]] \in CallType
      BY <3>1, <3>2 DEF CallType
    <3> QED
      BY <3>3, <3>4 DEF TypeOK
  <2>2. cache' \in [Query -> Entry]
    BY <1>15, DisturbTyped DEF FillCommandFails, TypeOK
  <2> QED
    BY <1>15, <2>1, <2>2 DEF FillCommandFails, database, TypeOK
<1>16. ASSUME NEW q \in Query, Expire(q) PROVE TypeOK'
  BY <1>16 DEF Expire, database, TypeOK
<1>17. ASSUME NEW e \in Entity, ExpireRegistry(e) PROVE TypeOK'
  <2>1. cache' \in [Query -> Entry]
    BY <1>17, DisturbTyped DEF ExpireRegistry, TypeOK
  <2> QED
    BY <1>17, <2>1 DEF ExpireRegistry, database, TypeOK
<1>18. CASE UNCHANGED vars
  BY <1>18 DEF vars, TypeOK
<1> QED
  BY <1>1, <1>2, <1>3, <1>4, <1>5, <1>6, <1>7, <1>8, <1>9, <1>10, <1>11, <1>12, <1>13,
     <1>14, <1>15, <1>16, <1>17, <1>18 DEF Next, SyncGraph, UpsertDataPoints

\* Every reachable state of the cache, the calls and the writes is well typed.
THEOREM TypeCorrect == Spec => []TypeOK
<1>1. Init => TypeOK
  BY ConstantsTyped DEF Init, TypeOK
<1> QED
  BY <1>1, TypeStep, PTL DEF Spec

-----------------------------------------------------------------------------
(***************************************************************************)
(* The write-ahead log of the replica.                                     *)
(***************************************************************************)

\* A commit adds its writer to the pending ones.
LEMMA PendingCommit ==
  ASSUME TypeOK, NEW w \in Writer, Commit(w), NEW v \in Writer
  PROVE  Pending(v)' <=> Pending(v) \/ v = w
<1>1. wal \in Seq(Writer) /\ wal' = Append(wal, w)
  BY DEF TypeOK, Commit
<1>2. /\ DOMAIN wal = 1..Len(wal)
      /\ DOMAIN wal' = 1..(Len(wal) + 1)
      /\ \A i \in 1..Len(wal) : wal'[i] = wal[i]
      /\ wal'[Len(wal) + 1] = w
      /\ Len(wal) \in Nat
  BY <1>1
<1> QED
  BY <1>2 DEF Pending

\* The replay of a commit takes it from the pending ones to the replayed ones.
LEMMA PendingReplay ==
  ASSUME TypeOK, Replay, NEW v \in Writer
  PROVE  /\ Pending(v)' => Pending(v)
         /\ Pending(v) => Pending(v)' \/ v \in replayed'
         /\ v \in replayed' => v \in replayed \/ Pending(v)
<1>1. wal \in Seq(Writer) /\ wal # <<>> /\ wal' = Tail(wal)
      /\ replayed' = replayed \cup {Head(wal)}
  BY DEF TypeOK, Replay
<1>2. /\ DOMAIN wal = 1..Len(wal)
      /\ DOMAIN wal' = 1..(Len(wal) - 1)
      /\ \A i \in 1..(Len(wal) - 1) : wal'[i] = wal[i + 1]
      /\ Head(wal) = wal[1]
      /\ Len(wal) \in Nat \ {0}
  BY <1>1
<1>3. Pending(v)' => Pending(v)
  <2> SUFFICES ASSUME NEW i \in DOMAIN wal', wal'[i] = v PROVE Pending(v)
    BY DEF Pending
  <2>1. i + 1 \in DOMAIN wal /\ wal[i + 1] = v
    BY <1>2
  <2> QED
    BY <2>1 DEF Pending
<1>4. Pending(v) => Pending(v)' \/ v \in replayed'
  <2> SUFFICES ASSUME NEW i \in DOMAIN wal, wal[i] = v PROVE Pending(v)' \/ v \in replayed'
    BY DEF Pending
  <2>1. CASE i = 1
    BY <1>1, <1>2, <2>1
  <2>2. CASE i # 1
    <3>1. i - 1 \in DOMAIN wal' /\ wal'[i - 1] = v
      BY <1>2, <2>2
    <3> QED
      BY <3>1 DEF Pending
  <2> QED
    BY <2>1, <2>2
<1>5. v \in replayed' => v \in replayed \/ Pending(v)
  BY <1>1, <1>2 DEF Pending
<1> QED
  BY <1>3, <1>4, <1>5

-----------------------------------------------------------------------------
(***************************************************************************)
(* The bookkeeping of the writes and of the calls.                         *)
(***************************************************************************)

\* The bookkeeping of the writes is preserved.
LEMMA WritesStep == TypeOK /\ WritesOK /\ [Next]_vars => WritesOK'
<1> SUFFICES ASSUME TypeOK, WritesOK, [Next]_vars, NEW v \in Writer PROVE WriteOK(v)'
  BY DEF WritesOK
<1>0. WriteOK(v)
  BY DEF WritesOK
<1>1. ASSUME NEW w \in Writer, NEW ids \in SUBSET Entity, NEW rows \in SUBSET ids,
             Execute(w, ids, rows)
      PROVE  WriteOK(v)'
  <2>1. CASE v = w
    BY <1>0, <1>1, <2>1 DEF Execute, TypeOK, WriteOK, Finished, Busy, Pending
  <2>2. CASE v # w
    BY <1>0, <1>1, <2>2 DEF Execute, TypeOK, WriteOK, Busy, Pending
  <2> QED
    BY <2>1, <2>2
<1>2. ASSUME NEW w \in Writer, Commit(w) PROVE WriteOK(v)'
  BY <1>0, <1>2, PendingCommit DEF Commit, TypeOK, WriteOK, Busy
<1>3. ASSUME NEW w \in Writer, Rollback(w) PROVE WriteOK(v)'
  BY <1>0, <1>3 DEF Rollback, TypeOK, WriteOK, Busy, Pending
<1>4. ASSUME NEW w \in Writer, Crash(w) PROVE WriteOK(v)'
  BY <1>0, <1>4 DEF Crash, TypeOK, WriteOK, Busy, Pending, Finished, NotStarted
<1>5. ASSUME Replay PROVE WriteOK(v)'
  <2>1. tx'[v] = "committed" <=> Pending(v)' \/ v \in replayed'
    BY <1>0, <1>5, PendingReplay DEF Replay, WriteOK, TypeOK
  <2> QED
    BY <1>0, <1>5, <2>1 DEF Replay, TypeOK, WriteOK, Busy
<1>6. ASSUME NEW w \in Writer, NEW e \in Entity, ReadRegistry(w, e) PROVE WriteOK(v)'
  <2>1. registry[e] \cap Entity = {}
    BY QueryAssumption DEF TypeOK
  <2> QED
    BY <1>0, <1>6, <2>1 DEF ReadRegistry, database, TypeOK, InvType, WriteOK, Busy, Pending,
       NotStarted
<1>7. ASSUME NEW w \in Writer, ReadRegistryFails(w) PROVE WriteOK(v)'
  BY <1>0, <1>7 DEF ReadRegistryFails, database, TypeOK, WriteOK, Busy, Pending, Finished,
     NotStarted
<1>8. ASSUME NEW w \in Writer, NEW k \in Key, DeleteKey(w, k) PROVE WriteOK(v)'
  BY <1>0, <1>8 DEF DeleteKey, database, TypeOK, InvType, WriteOK, Busy, Pending, Finished,
     NotStarted, Without
<1>9. ASSUME NEW w \in Writer, NEW k \in Key, DeleteKeyFails(w, k) PROVE WriteOK(v)'
  BY <1>0, <1>9 DEF DeleteKeyFails, database, TypeOK, InvType, WriteOK, Busy, Pending,
     Finished, NotStarted, Without
<1>10. CASE UNCHANGED <<tx, touched, changed, wal, replayed, inv>>
  BY <1>0, <1>10 DEF WriteOK, Busy, Pending
<1> QED
  BY <1>1, <1>2, <1>3, <1>4, <1>5, <1>6, <1>7, <1>8, <1>9, <1>10 DEF Next, SyncGraph,
     UpsertDataPoints, vars, database, Lookup, ReadGraph, ReadTemporal, QueryFails,
     FillCommand, FillCommandFails, Expire, ExpireRegistry

\* What a write does to the record of a call: it may mark it as disturbed.
LEMMA CallAfterExecute ==
  ASSUME TypeOK, NEW w \in Writer, NEW ids \in SUBSET Entity, NEW rows \in SUBSET ids,
         Execute(w, ids, rows), NEW s \in Reader
  PROVE  /\ req'[s].st = req[s].st
         /\ req'[s].query = req[s].query
         /\ req'[s].todo = req[s].todo
         /\ req'[s].entry.ids = req[s].entry.ids
         /\ req'[s].entry.graph = req[s].entry.graph
         /\ req'[s].entry.temporal = req[s].entry.temporal
         /\ ~req'[s].entry.disturbed => req'[s] = req[s] /\ ~Meets(req[s].entry, ids)
<1>1. req[s] \in CallType /\ req[s].entry \in Entry
  BY DEF TypeOK, CallType
<1>2. CASE Meets(req[s].entry, ids)
  <2>1. req'[s] = [req[s] EXCEPT !.entry = [req[s].entry EXCEPT !.disturbed = TRUE]]
    BY <1>2 DEF Execute
  <2> QED
    BY <1>1, <2>1 DEF CallType, Entry
<1>3. CASE ~Meets(req[s].entry, ids)
  BY <1>3 DEF Execute
<1> QED
  BY <1>2, <1>3

\* A command of a fill that is not its last leaves the rest of the call alone.
LEMMA CallAfterCommand ==
  ASSUME TypeOK, NEW r \in Reader, NEW k \in Key, FillCommand(r, k)
  PROVE  \/ req'[r] = Idle /\ req[r].todo = {k}
         \/ /\ req'[r].st = "fill"
            /\ req'[r].query = req[r].query
            /\ req'[r].entry = req[r].entry
            /\ req'[r].todo = req[r].todo \ {k}
  BY DEF TypeOK, CallType, FillCommand, After

\* A lost command that is not the last one marks the call as disturbed.
LEMMA CallAfterFailure ==
  ASSUME TypeOK, NEW r \in Reader, NEW k \in Key, FillCommandFails(r, k)
  PROVE  \/ req'[r] = Idle
         \/ /\ req'[r].st = "fill"
            /\ req'[r].query = req[r].query
            /\ req'[r].entry.ids = req[r].entry.ids
            /\ req'[r].entry.graph = req[r].entry.graph
            /\ req'[r].entry.temporal = req[r].entry.temporal
            /\ req'[r].entry.disturbed
            /\ req'[r].todo = req[r].todo \ {k}
<1>1. req[r] \in CallType /\ req[r].entry \in Entry
  BY DEF TypeOK, CallType
<1>2. CASE req'[r] # Idle
  <2>1. After(req[r], k) = [req[r] EXCEPT !.todo = req[r].todo \ {k}]
    BY <1>2 DEF FillCommandFails, After, TypeOK
  <2>2. req'[r] = [req[r] EXCEPT !.todo = req[r].todo \ {k},
                                 !.entry = [req[r].entry EXCEPT !.disturbed = TRUE]]
    BY <1>1, <1>2, <2>1 DEF FillCommandFails, TypeOK, CallType
  <2>3. req'[r].st = req[r].st /\ req'[r].query = req[r].query
        /\ req'[r].todo = req[r].todo \ {k}
        /\ req'[r].entry = [req[r].entry EXCEPT !.disturbed = TRUE]
    BY <1>1, <2>2 DEF CallType
  <2> QED
    BY <1>1, <2>3 DEF FillCommandFails, Entry
<1> QED
  BY <1>2

\* The stages of the calls are preserved.
LEMMA CallsStep == TypeOK /\ CallsOK /\ [Next]_vars => CallsOK'
<1> SUFFICES ASSUME TypeOK, CallsOK, [Next]_vars, NEW s \in Reader PROVE CallOK(s)'
  BY DEF CallsOK
<1>0. CallOK(s) /\ req[s] \in CallType /\ req[s].entry \in Entry
  BY DEF CallsOK, TypeOK, CallType
<1>1. ASSUME NEW w \in Writer, NEW ids \in SUBSET Entity, NEW rows \in SUBSET ids,
             Execute(w, ids, rows)
      PROVE  CallOK(s)'
  <2>1. req'[s].entry = NoEntry \/ req[s].entry # NoEntry
    BY <1>1 DEF Execute, Meets, NoEntry
  <2> QED
    BY <1>0, <1>1, <2>1, CallAfterExecute DEF CallOK
<1>2. ASSUME NEW r \in Reader, NEW q \in Query, Lookup(r, q) PROVE CallOK(s)'
  BY <1>0, <1>2 DEF Lookup, TypeOK, CallOK, Idle
<1>3. ASSUME NEW r \in Reader, ReadGraph(r) PROVE CallOK(s)'
  BY <1>0, <1>3 DEF ReadGraph, TypeOK, CallOK, CallType, Idle
<1>4. ASSUME NEW r \in Reader, ReadTemporal(r) PROVE CallOK(s)'
  <2>1. PICK lost \in {FALSE, Faulty} : req' = [req EXCEPT ![r] = Answered(req[r], lost)]
    BY <1>4 DEF ReadTemporal
  <2> QED
    BY <1>0, <1>4, <2>1 DEF ReadTemporal, Answered, TypeOK, CallOK, CallType, Entry
<1>5. ASSUME NEW r \in Reader, QueryFails(r) PROVE CallOK(s)'
  BY <1>0, <1>5 DEF QueryFails, TypeOK, CallOK, Idle
<1>6. ASSUME NEW r \in Reader, NEW k \in Key, FillCommand(r, k) PROVE CallOK(s)'
  BY <1>0, <1>6 DEF FillCommand, TypeOK, CallOK, CallType, Idle, After
<1>7. ASSUME NEW r \in Reader, NEW k \in Key, FillCommandFails(r, k) PROVE CallOK(s)'
  <2>1. CASE s # r
    BY <1>0, <1>7, <2>1 DEF FillCommandFails, TypeOK, CallOK
  <2>2. CASE s = r
    BY <1>0, <1>7, <2>2, CallAfterFailure DEF FillCommandFails, CallOK, Idle
  <2> QED
    BY <2>1, <2>2
<1>8. CASE UNCHANGED req
  BY <1>0, <1>8 DEF CallOK
<1> QED
  BY <1>1, <1>2, <1>3, <1>4, <1>5, <1>6, <1>7, <1>8 DEF Next, SyncGraph, UpsertDataPoints,
     vars, Commit, Rollback, Crash, Replay, ReadRegistry, ReadRegistryFails, DeleteKey,
     DeleteKeyFails, Expire, ExpireRegistry

-----------------------------------------------------------------------------
(***************************************************************************)
(* The fills that nothing disturbs.                                        *)
(***************************************************************************)

\* A write that is over stays over: nothing brings it back into flight.
LEMMA SettledStays ==
  ASSUME TypeOK, WritesOK, [Next]_vars, NEW v \in Writer, ~InFlight(v), tx[v] # "idle"
  PROVE  ~InFlight(v)' /\ tx'[v] = tx[v] /\ touched'[v] = touched[v]
<1>1. ASSUME NEW w \in Writer, NEW ids \in SUBSET Entity, NEW rows \in SUBSET ids,
             Execute(w, ids, rows)
      PROVE  ~InFlight(v)' /\ tx'[v] = tx[v] /\ touched'[v] = touched[v]
  BY <1>1 DEF Execute, TypeOK, InFlight, Busy, Pending
<1>2. ASSUME NEW w \in Writer, Commit(w)
      PROVE  ~InFlight(v)' /\ tx'[v] = tx[v] /\ touched'[v] = touched[v]
  BY <1>2, PendingCommit DEF Commit, TypeOK, InFlight, Busy
<1>3. ASSUME NEW w \in Writer, Rollback(w) \/ Crash(w)
      PROVE  ~InFlight(v)' /\ tx'[v] = tx[v] /\ touched'[v] = touched[v]
  BY <1>3 DEF Rollback, Crash, TypeOK, InFlight, Busy, Pending
<1>4. ASSUME Replay
      PROVE  ~InFlight(v)' /\ tx'[v] = tx[v] /\ touched'[v] = touched[v]
  BY <1>4, PendingReplay DEF Replay, InFlight, Busy
<1>5. ASSUME NEW w \in Writer, Busy(w), inv' = [inv EXCEPT ![w] = inv'[w]], UNCHANGED database
      PROVE  ~InFlight(v)' /\ tx'[v] = tx[v] /\ touched'[v] = touched[v]
  BY <1>5 DEF database, TypeOK, InFlight, Busy, Pending
<1>7. ASSUME NEW w \in Writer, NEW k \in Key, DeleteKey(w, k) \/ DeleteKeyFails(w, k)
      PROVE  ~InFlight(v)' /\ tx'[v] = tx[v] /\ touched'[v] = touched[v]
  BY <1>5, <1>7 DEF DeleteKey, DeleteKeyFails, TypeOK, Busy
<1>8. ASSUME NEW w \in Writer, NEW e \in Entity, ReadRegistry(w, e)
      PROVE  ~InFlight(v)' /\ tx'[v] = tx[v] /\ touched'[v] = touched[v]
  BY <1>5, <1>8 DEF ReadRegistry, TypeOK, Busy
<1>9. ASSUME NEW w \in Writer, ReadRegistryFails(w)
      PROVE  ~InFlight(v)' /\ tx'[v] = tx[v] /\ touched'[v] = touched[v]
  BY <1>5, <1>9 DEF ReadRegistryFails, TypeOK, Busy
<1>6. CASE UNCHANGED <<tx, touched, wal, inv>>
  BY <1>6 DEF InFlight, Busy, Pending
<1> QED
  BY <1>1, <1>2, <1>3, <1>4, <1>6, <1>7, <1>8, <1>9 DEF Next, SyncGraph, UpsertDataPoints,
     vars, database, Lookup, ReadGraph, ReadTemporal, QueryFails, FillCommand, FillCommandFails, Expire,
     ExpireRegistry

\* A step other than the statement of v leaves what v touched as it is.
LEMMA TouchedStays ==
  ASSUME TypeOK, [Next]_vars, NEW v \in Writer
  PROVE  \/ touched'[v] = touched[v]
         \/ \E ids \in SUBSET Entity : \E rows \in SUBSET ids : Execute(v, ids, rows)
<1>1. ASSUME NEW w \in Writer, NEW ids \in SUBSET Entity, NEW rows \in SUBSET ids,
             Execute(w, ids, rows)
      PROVE  touched'[v] = touched[v] \/ v = w
  BY <1>1 DEF Execute, TypeOK
<1> QED
  BY <1>1 DEF Next, SyncGraph, UpsertDataPoints, vars, database, Commit, Rollback, Crash, Replay,
     ReadRegistry, ReadRegistryFails, DeleteKey, DeleteKeyFails, Lookup, ReadGraph,
     ReadTemporal, QueryFails, FillCommand, FillCommandFails, Expire, ExpireRegistry

\* How the record of a call may change when it is not disturbed afterwards.
LEMMA CallChange ==
  ASSUME TypeOK, [Next]_vars, NEW s \in Reader, ~req'[s].entry.disturbed
  PROVE  \/ req'[s] = req[s]
         \/ req'[s].entry = NoEntry
         \/ ReadGraph(s)
         \/ ReadTemporal(s)
         \/ req'[s].entry = req[s].entry /\ req'[s].st = req[s].st /\ req[s].st = "fill"
<1>1. ASSUME NEW w \in Writer, NEW ids \in SUBSET Entity, NEW rows \in SUBSET ids,
             Execute(w, ids, rows)
      PROVE  req'[s] = req[s]
  BY <1>1, CallAfterExecute
<1>2. ASSUME NEW r \in Reader, NEW q \in Query, Lookup(r, q)
      PROVE  req'[s] = req[s] \/ req'[s].entry = NoEntry
  BY <1>2 DEF Lookup, TypeOK, Idle
<1>3. ASSUME NEW r \in Reader, ReadGraph(r) PROVE req'[s] = req[s] \/ ReadGraph(s)
  BY <1>3 DEF ReadGraph, TypeOK
<1>4. ASSUME NEW r \in Reader, ReadTemporal(r) PROVE req'[s] = req[s] \/ ReadTemporal(s)
  BY <1>4 DEF ReadTemporal, TypeOK
<1>5. ASSUME NEW r \in Reader, QueryFails(r)
      PROVE  req'[s] = req[s] \/ req'[s].entry = NoEntry
  BY <1>5 DEF QueryFails, TypeOK, Idle
<1>6. ASSUME NEW r \in Reader, NEW k \in Key, FillCommand(r, k)
      PROVE  \/ req'[s] = req[s] \/ req'[s].entry = NoEntry
             \/ req'[s].entry = req[s].entry /\ req'[s].st = req[s].st /\ req[s].st = "fill"
  <2>1. s # r => req'[s] = req[s]
    BY <1>6 DEF FillCommand, TypeOK
  <2>2. req[r].st = "fill"
    BY <1>6 DEF FillCommand
  <2>3. Idle.entry = NoEntry
    BY DEF Idle
  <2> QED
    BY <1>6, <2>1, <2>2, <2>3, CallAfterCommand
<1>7. ASSUME NEW r \in Reader, NEW k \in Key, FillCommandFails(r, k)
      PROVE  req'[s] = req[s] \/ req'[s].entry = NoEntry
  <2>1. s # r => req'[s] = req[s]
    BY <1>7 DEF FillCommandFails, TypeOK
  <2>2. Idle.entry = NoEntry
    BY DEF Idle
  <2> QED
    BY <1>7, <2>1, <2>2, CallAfterFailure
<1>8. CASE UNCHANGED req
  BY <1>8
<1> QED
  BY <1>1, <1>2, <1>3, <1>4, <1>5, <1>6, <1>7, <1>8 DEF Next, SyncGraph, UpsertDataPoints, vars,
     Commit, Rollback, Crash, Replay, ReadRegistry, ReadRegistryFails, DeleteKey,
     DeleteKeyFails, Expire, ExpireRegistry

\* An undisturbed fill still has seen every write it meets, and they are still over.
LEMMA QuietFillSawItsWritesStep ==
  IInv /\ [Next]_vars => QuietFillSawItsWrites'
<1> SUFFICES ASSUME IInv, [Next]_vars, NEW s \in Reader, NEW v \in Writer,
                    ~req'[s].entry.disturbed, Meets(req[s].entry, touched[v])'
             PROVE  /\ ~InFlight(v)'
                    /\ tx'[v] = "committed" => v \in req'[s].entry.graph
                    /\ tx'[v] = "committed" /\ req'[s].st = "fill"
                         => v \in req'[s].entry.temporal
  BY DEF QuietFillSawItsWrites
<1> USE DEF IInv
<1>0. WriteOK(v) /\ CallOK(s) /\ req[s] \in CallType /\ req[s].entry \in Entry
  BY DEF WritesOK, CallsOK, TypeOK, CallType
<1>1. touched[v] # {} => tx[v] # "idle"
  BY <1>0 DEF WriteOK
<1>2. tx[v] = "committed" /\ ~InFlight(v) => v \in replayed
  BY <1>0 DEF WriteOK, InFlight
<1>3. CASE ReadGraph(s)
  <2>1. req'[s].st = "graph" /\ req'[s].entry.graph = replayed
        /\ (~InFlight(v) \/ touched[v] \cap req'[s].entry.ids = {})
    BY <1>3 DEF ReadGraph, TypeOK, CallType, Meets, Idle, NoEntry
  <2>2. UNCHANGED <<tx, touched, wal, inv>>
    BY <1>3 DEF ReadGraph, database
  <2> QED
    BY <1>1, <1>2, <2>1, <2>2 DEF Meets, InFlight, Busy, Pending
<1>4. CASE ReadTemporal(s)
  <2>1. PICK lost \in {FALSE, Faulty} : req'[s] = Answered(req[s], lost)
    BY <1>4 DEF ReadTemporal, TypeOK
  <2>2. ~lost /\ ~req[s].entry.disturbed
    <3>1. lost \in BOOLEAN /\ req[s].entry.disturbed \in BOOLEAN
      BY <1>0, FaultyAssumption DEF Entry
    <3>2. req'[s].entry.disturbed = (req[s].entry.disturbed \/ lost)
      BY <2>1 DEF Answered
    <3> QED
      BY <3>1, <3>2
  <2>3. UNCHANGED <<tx, touched, wal, inv>>
    BY <1>4 DEF ReadTemporal, database
  <2>4. /\ req'[s].entry.ids = req[s].entry.ids
        /\ req'[s].entry.graph = req[s].entry.graph
        /\ req'[s].entry.temporal = replayed
        /\ ~req[s].entry.disturbed
    BY <2>1, <2>2 DEF Answered
  <2>5. ~InFlight(v) /\ (tx[v] = "committed" => v \in req[s].entry.graph)
    BY <2>3, <2>4 DEF QuietFillSawItsWrites, Meets
  <2> QED
    BY <1>2, <2>3, <2>4, <2>5 DEF InFlight, Busy, Pending
<1>5. CASE req'[s] = req[s] \/ (/\ req'[s].entry = req[s].entry /\ req'[s].st = req[s].st
                                /\ req[s].st = "fill")
  <2>1. CASE touched'[v] = touched[v]
    <3>1. /\ ~InFlight(v)
          /\ tx[v] = "committed" => v \in req[s].entry.graph
          /\ tx[v] = "committed" /\ req[s].st = "fill" => v \in req[s].entry.temporal
      BY <1>5, <2>1 DEF QuietFillSawItsWrites, Meets
    <3>2. tx[v] # "idle"
      BY <1>1, <2>1 DEF Meets
    <3>3. ~InFlight(v)' /\ tx'[v] = tx[v]
      BY <3>1, <3>2, SettledStays
    <3> QED
      BY <1>5, <3>1, <3>3
  <2>2. ASSUME NEW ids \in SUBSET Entity, NEW rows \in SUBSET ids, Execute(v, ids, rows)
        PROVE  FALSE
    <3>1. ~Meets(req[s].entry, ids) /\ req'[s] = req[s]
      BY <2>2, CallAfterExecute
    <3>2. touched'[v] = ids
      BY <2>2 DEF Execute, TypeOK
    <3> QED
      BY <3>1, <3>2 DEF Meets
  <2> QED
    BY <2>1, <2>2, TouchedStays
<1>6. CASE req'[s].entry = NoEntry
  BY <1>6 DEF Meets, NoEntry
<1> QED
  BY <1>3, <1>4, <1>5, <1>6, CallChange

\* Two writers' invalidations aside, only DeleteKey and ExpireRegistry shrink a registry.
LEMMA RegistryChange ==
  ASSUME TypeOK, [Next]_vars, NEW e \in Entity, NEW q \in registry[e], q \notin registry'[e]
  PROVE  (\E w \in Writer : DeleteKey(w, e)) \/ ExpireRegistry(e)
<1>1. ASSUME NEW w \in Writer, NEW k \in Key, DeleteKey(w, k) PROVE k = e
  BY <1>1 DEF DeleteKey, TypeOK
<1>2. ASSUME NEW f \in Entity, ExpireRegistry(f) PROVE f = e
  BY <1>2 DEF ExpireRegistry, TypeOK
<1>3. ASSUME NEW r \in Reader, NEW k \in Key, FillCommand(r, k) PROVE FALSE
  BY <1>3 DEF FillCommand, TypeOK
<1> QED
  BY <1>1, <1>2, <1>3 DEF Next, SyncGraph, UpsertDataPoints, Execute, vars, Commit, Rollback,
     Crash, Replay, ReadRegistry, ReadRegistryFails, DeleteKeyFails, Lookup, ReadGraph,
     ReadTemporal, QueryFails, FillCommandFails, Expire

\* The commands of a fill, once it is under way, can only be taken off its list by the
\* command that registers it.
LEMMA FillProgress ==
  ASSUME TypeOK, [Next]_vars, NEW s \in Reader, req'[s].st = "fill",
         ~req'[s].entry.disturbed
  PROVE  \/ ReadTemporal(s)
         \/ /\ req[s].st = "fill" /\ req'[s].query = req[s].query
            /\ req'[s].entry = req[s].entry
            /\ \A e \in Entity : e \in req[s].todo /\ e \notin req'[s].todo
                                   => req[s].query \in registry'[e]
<1> DEFINE P == /\ req[s].st = "fill" /\ req'[s].query = req[s].query
                /\ req'[s].entry = req[s].entry
                /\ \A e \in Entity : e \in req[s].todo /\ e \notin req'[s].todo
                                       => req[s].query \in registry'[e]
<1>0. req'[s] = req[s] => P
  OBVIOUS
<1>00. Idle.st = "idle"
  BY DEF Idle
<1> HIDE DEF P
<1>1. ASSUME NEW w \in Writer, NEW ids \in SUBSET Entity, NEW rows \in SUBSET ids,
             Execute(w, ids, rows)
      PROVE  P
  BY <1>0, <1>1, CallAfterExecute
<1>2. ASSUME NEW r \in Reader, NEW q \in Query, Lookup(r, q) PROVE P
  BY <1>0, <1>2 DEF Lookup, TypeOK, Idle
<1>3. ASSUME NEW r \in Reader, ReadGraph(r) PROVE P
  BY <1>0, <1>00, <1>3 DEF ReadGraph, TypeOK, CallType
<1>4. ASSUME NEW r \in Reader, ReadTemporal(r) PROVE P \/ ReadTemporal(s)
  BY <1>0, <1>4 DEF ReadTemporal, TypeOK
<1>5. ASSUME NEW r \in Reader, QueryFails(r) PROVE P
  BY <1>0, <1>00, <1>5 DEF QueryFails, TypeOK
<1>6. ASSUME NEW r \in Reader, NEW k \in Key, FillCommand(r, k) PROVE P
  <2>1. CASE s # r
    BY <1>0, <1>6, <2>1 DEF FillCommand, TypeOK
  <2>2. CASE s = r
    <3>1. /\ req'[s].st = "fill" /\ req'[s].query = req[s].query
          /\ req'[s].entry = req[s].entry /\ req'[s].todo = req[s].todo \ {k}
      BY <1>00, <1>6, <2>2, CallAfterCommand
    <3>2. \A e \in Entity : e = k => req[s].query \in registry'[e]
      BY <1>6, <2>2 DEF FillCommand, TypeOK
    <3> QED
      BY <1>6, <2>2, <3>1, <3>2 DEF P, FillCommand
  <2> QED
    BY <2>1, <2>2
<1>7. ASSUME NEW r \in Reader, NEW k \in Key, FillCommandFails(r, k) PROVE P
  <2>1. CASE s # r
    BY <1>0, <1>7, <2>1 DEF FillCommandFails, TypeOK
  <2>2. CASE s = r
    BY <1>00, <1>7, <2>2, CallAfterFailure
  <2> QED
    BY <2>1, <2>2
<1>8. CASE UNCHANGED req
  BY <1>0, <1>8
<1> QED
  BY <1>1, <1>2, <1>3, <1>4, <1>5, <1>6, <1>7, <1>8 DEF P, Next, SyncGraph, UpsertDataPoints,
     vars, Commit, Rollback, Crash, Replay, ReadRegistry, ReadRegistryFails, DeleteKey,
     DeleteKeyFails, Expire, ExpireRegistry

\* What an undisturbed fill has registered stays registered.
LEMMA QuietFillIsRegisteredStep ==
  IInv /\ [Next]_vars => QuietFillIsRegistered'
<1> SUFFICES ASSUME IInv, [Next]_vars, NEW s \in Reader, req'[s].st = "fill",
                    ~req'[s].entry.disturbed, NEW e \in req'[s].entry.ids \ req'[s].todo
             PROVE  req'[s].query \in registry'[e]
  BY DEF QuietFillIsRegistered
<1> USE DEF IInv
<1>0. req[s] \in CallType /\ req[s].entry \in Entry
  BY DEF TypeOK, CallType
<1>1. ASSUME ReadTemporal(s) PROVE FALSE
  <2>1. PICK lost \in {FALSE, Faulty} : req'[s] = Answered(req[s], lost)
    BY <1>1 DEF ReadTemporal, TypeOK
  <2> QED
    BY <2>1 DEF Answered
<1>2. /\ req[s].st = "fill" /\ req'[s].query = req[s].query
      /\ req'[s].entry = req[s].entry
      /\ \A f \in Entity : f \in req[s].todo /\ f \notin req'[s].todo
                             => req[s].query \in registry'[f]
  BY <1>1, FillProgress
<1>3. e \in Entity
  BY <1>0, <1>2 DEF Entry
<1>4. CASE e \in req[s].todo
  BY <1>2, <1>3, <1>4
<1>5. CASE e \notin req[s].todo
  <2>1. req[s].query \in registry[e]
    BY <1>2, <1>5 DEF QuietFillIsRegistered
  <2>2. ASSUME NEW w \in Writer, DeleteKey(w, e) PROVE FALSE
    <3>1. Busy(w) /\ e \in inv[w].keys
      BY <2>2 DEF DeleteKey, Busy
    <3>2. e \in touched[w]
      BY <1>3, <3>1 DEF WritesOK, WriteOK
    <3> QED
      BY <1>2, <3>1, <3>2 DEF QuietFillSawItsWrites, Meets, InFlight
  <2>3. ~ExpireRegistry(e)
    BY <1>2, <2>1 DEF ExpireRegistry
  <2> QED
    BY <1>2, <1>3, <2>1, <2>2, <2>3, RegistryChange
<1> QED
  BY <1>4, <1>5

-----------------------------------------------------------------------------
(***************************************************************************)
(* The answers in the cache.                                               *)
(***************************************************************************)

\* Marking entries changes nothing else, and what it leaves unmarked is untouched.
LEMMA DisturbFacts ==
  ASSUME TypeOK, NEW Q, Disturb(Q), NEW q \in Query
  PROVE  /\ ~cache'[q].disturbed => cache'[q] = cache[q]
         /\ q \in Q /\ Present(q) => cache'[q].disturbed
  BY DEF Disturb, TypeOK, Entry


\* An answer that is not marked after a step was there before it, or was just stored by the
\* HSET of a fill that is not marked.
LEMMA CacheChange ==
  ASSUME TypeOK, CallsOK, [Next]_vars, NEW q \in Query, ~cache'[q].disturbed
  PROVE  \/ cache'[q] = cache[q]
         \/ cache'[q].ids = {}
         \/ \E r \in Reader : FillCommand(r, q) /\ req[r].query = q /\ cache'[q] = req[r].entry
<1>0. NoEntry.ids = {}
  BY DEF NoEntry
<1>1. ASSUME NEW w \in Writer, NEW ids \in SUBSET Entity, NEW rows \in SUBSET ids,
             Execute(w, ids, rows)
      PROVE  cache'[q] = cache[q]
  BY <1>1, DisturbFacts DEF Execute
<1>2. ASSUME NEW w \in Writer, Crash(w) PROVE cache'[q] = cache[q]
  BY <1>2, DisturbFacts DEF Crash
<1>3. ASSUME NEW w \in Writer, ReadRegistryFails(w) PROVE cache'[q] = cache[q]
  BY <1>3, DisturbFacts DEF ReadRegistryFails
<1>4. ASSUME NEW w \in Writer, NEW k \in Key, DeleteKey(w, k)
      PROVE  cache'[q] = cache[q] \/ cache'[q].ids = {}
  BY <1>0, <1>4 DEF DeleteKey
<1>5. ASSUME NEW w \in Writer, NEW k \in Key, DeleteKeyFails(w, k) PROVE cache'[q] = cache[q]
  BY <1>5, DisturbFacts DEF DeleteKeyFails
<1>6. ASSUME NEW r \in Reader, NEW k \in Key, FillCommand(r, k)
      PROVE  \/ cache'[q] = cache[q]
             \/ FillCommand(r, q) /\ req[r].query = q /\ cache'[q] = req[r].entry
  <2>1. CASE k # q
    BY <1>6, <2>1 DEF FillCommand, TypeOK
  <2>2. CASE k = q
    <3>1. q \in {req[r].query} \cup req[r].entry.ids /\ req[r].entry.ids \subseteq Entity
      BY <1>6, <2>2 DEF FillCommand, CallsOK, CallOK, TypeOK, CallType, Entry
    <3>2. req[r].query = q
      BY <3>1, QueryAssumption
    <3> QED
      BY <1>6, <2>2, <3>2 DEF FillCommand
  <2> QED
    BY <2>1, <2>2
<1>7. ASSUME NEW r \in Reader, NEW k \in Key, FillCommandFails(r, k)
      PROVE  cache'[q] = cache[q]
  BY <1>7, DisturbFacts DEF FillCommandFails
<1>8. ASSUME NEW p \in Query, Expire(p) PROVE cache'[q] = cache[q] \/ cache'[q].ids = {}
  BY <1>0, <1>8 DEF Expire, TypeOK
<1>9. ASSUME NEW e \in Entity, ExpireRegistry(e) PROVE cache'[q] = cache[q]
  BY <1>9, DisturbFacts DEF ExpireRegistry
<1>10. CASE UNCHANGED cache
  BY <1>10
<1> QED
  BY <1>1, <1>2, <1>3, <1>4, <1>5, <1>6, <1>7, <1>8, <1>9, <1>10 DEF Next, SyncGraph,
     UpsertDataPoints, vars, Commit, Rollback, Replay, ReadRegistry, Lookup, ReadGraph,
     ReadTemporal, QueryFails

\* A marked-for-deletion answer stays so until it is deleted or marked as disturbed.
LEMMA DoomedStays ==
  ASSUME TypeOK, WritesOK, [Next]_vars, NEW q \in Query, Doomed(q),
         ~cache'[q].disturbed, cache'[q] = cache[q], Present(q)
  PROVE  Doomed(q)'
<1>0. PICK v \in Writer : q \in inv[v].keys /\ Meets(cache[q], touched[v])
  BY DEF Doomed
<1>1. Busy(v) /\ tx[v] # "idle"
  BY <1>0 DEF WritesOK, WriteOK, NotStarted, Busy
<1>2. touched'[v] = touched[v]
  BY <1>1, TouchedStays DEF Execute
<1>3. q \in inv'[v].keys
  <2>1. ASSUME NEW w \in Writer, NEW ids \in SUBSET Entity, NEW rows \in SUBSET ids,
               Execute(w, ids, rows)
        PROVE  q \in inv'[v].keys
    BY <1>0, <1>1, <2>1 DEF Execute, TypeOK
  <2>2. ASSUME NEW w \in Writer, Crash(w) PROVE q \in inv'[v].keys
    <3>1. w # v
      BY <1>0, <1>1, <2>2, DisturbFacts DEF Crash
    <3> QED
      BY <1>0, <2>2, <3>1 DEF Crash, TypeOK
  <2>3. ASSUME NEW w \in Writer, NEW e \in Entity, ReadRegistry(w, e) PROVE q \in inv'[v].keys
    BY <1>0, <2>3 DEF ReadRegistry, TypeOK, InvType
  <2>4. ASSUME NEW w \in Writer, ReadRegistryFails(w) PROVE q \in inv'[v].keys
    <3>1. w # v
      BY <1>0, <2>4, DisturbFacts DEF ReadRegistryFails
    <3> QED
      BY <1>0, <2>4, <3>1 DEF ReadRegistryFails, TypeOK
  <2>5. ASSUME NEW w \in Writer, NEW k \in Key, DeleteKey(w, k) PROVE q \in inv'[v].keys
    <3>1. k # q
      BY <2>5 DEF DeleteKey, NoEntry, Present
    <3> QED
      BY <1>0, <2>5, <3>1 DEF DeleteKey, TypeOK, InvType, Without
  <2>6. ASSUME NEW w \in Writer, NEW k \in Key, DeleteKeyFails(w, k) PROVE q \in inv'[v].keys
    <3>1. k # q
      BY <2>6, DisturbFacts DEF DeleteKeyFails
    <3> QED
      BY <1>0, <2>6, <3>1 DEF DeleteKeyFails, TypeOK, InvType, Without
  <2>7. CASE UNCHANGED inv
    BY <1>0, <2>7
  <2> QED
    BY <2>1, <2>2, <2>3, <2>4, <2>5, <2>6, <2>7 DEF Next, SyncGraph, UpsertDataPoints, vars,
       Commit, Rollback, Replay, Lookup, ReadGraph, ReadTemporal, QueryFails, FillCommand,
       FillCommandFails, Expire, ExpireRegistry
<1> QED
  BY <1>0, <1>2, <1>3 DEF Doomed, Meets

\* A pending registration of a stored answer is carried out, unless the answer is marked.
LEMMA RegisteringStays ==
  ASSUME TypeOK, [Next]_vars, NEW q \in Query, NEW e \in Entity, Registering(q, e),
         ~cache'[q].disturbed, Present(q)
  PROVE  Registering(q, e)' \/ q \in registry'[e]
<1> DEFINE P == Registering(q, e)' \/ q \in registry'[e]
<1>0. PICK s \in Reader : /\ req[s].st = "fill" /\ req[s].query = q /\ q \notin req[s].todo
                          /\ e \in req[s].todo /\ ~req[s].entry.disturbed
  BY DEF Registering
<1>1. req'[s] = req[s] => P
  BY <1>0 DEF Registering
<1>2. ASSUME NEW w \in Writer, NEW ids \in SUBSET Entity, NEW rows \in SUBSET ids,
             Execute(w, ids, rows)
      PROVE  P
  <2>1. ~Meets(req[s].entry, ids)
    BY <1>0, <1>2, DisturbFacts DEF Execute
  <2> QED
    BY <1>1, <1>2, <2>1 DEF Execute
<1>3. ASSUME NEW r \in Reader, NEW k \in Key, FillCommand(r, k) PROVE P
  <2>1. CASE s # r
    BY <1>1, <1>3, <2>1 DEF FillCommand, TypeOK
  <2>2. CASE s = r /\ k = e
    BY <1>0, <1>3, <2>2 DEF FillCommand, TypeOK
  <2>3. CASE s = r /\ k # e
    <3>1. /\ req'[s].st = "fill" /\ req'[s].query = req[s].query
          /\ req'[s].entry = req[s].entry /\ req'[s].todo = req[s].todo \ {k}
      BY <1>0, <1>3, <2>3, CallAfterCommand
    <3> QED
      BY <1>0, <2>3, <3>1 DEF Registering
  <2> QED
    BY <2>1, <2>2, <2>3
<1> HIDE DEF P
<1>4. ASSUME NEW r \in Reader, NEW k \in Key, FillCommandFails(r, k) PROVE P
  <2>1. s # r
    BY <1>0, <1>4, DisturbFacts DEF FillCommandFails
  <2> QED
    BY <1>1, <1>4, <2>1 DEF FillCommandFails, TypeOK
<1>5. ASSUME NEW r \in Reader, ReadGraph(r) \/ ReadTemporal(r) \/ QueryFails(r) PROVE P
  BY <1>0, <1>1, <1>5 DEF ReadGraph, ReadTemporal, QueryFails, TypeOK
<1>6. ASSUME NEW r \in Reader, NEW p \in Query, Lookup(r, p) PROVE P
  BY <1>0, <1>1, <1>6 DEF Lookup, TypeOK
<1>7. UNCHANGED req => P
  BY <1>1
<1>8. P
  BY <1>2, <1>3, <1>4, <1>5, <1>6, <1>7 DEF Next, SyncGraph, UpsertDataPoints, vars, Commit,
     Rollback, Crash, Replay, ReadRegistry, ReadRegistryFails, DeleteKey, DeleteKeyFails,
     Expire, ExpireRegistry
<1> QED
  BY <1>8 DEF P

\* An invalidation that meets an undisturbed answer and comes to one of its entities finds
\* the answer in the registry, or another invalidation has.
LEMMA CollectingFinds ==
  ASSUME IInv, NEW q \in Query, ~cache[q].disturbed, NEW w \in Writer,
         NEW e \in cache[q].ids \cap inv[w].ents
  PROVE  q \in registry[e] \/ Doomed(q)
<1> USE DEF IInv
<1>1. Busy(w) /\ e \in touched[w]
  BY DEF WritesOK, WriteOK, Busy
<1>2. ASSUME NEW r \in Reader, req[r].st = "fill", req[r].query = q, e \in req[r].todo,
             ~req[r].entry.disturbed
      PROVE  FALSE
  <2>1. e \in Entity
    BY <1>1 DEF TypeOK
  <2>2. e \in req[r].entry.ids
    BY <1>2, <2>1, QueryAssumption DEF CallsOK, CallOK
  <2> QED
    BY <1>1, <1>2, <2>2 DEF QuietFillSawItsWrites, Meets, InFlight
<1> QED
  BY <1>2 DEF UnregisteredIsDoomed, Registering

\* The answer a fill has just stored, if it is not marked, is current on the writes it
\* meets, and none of their invalidations is running.
LEMMA StoredIsCurrent ==
  ASSUME IInv, NEW r \in Reader, NEW q \in Query, FillCommand(r, q), req[r].query = q,
         ~req[r].entry.disturbed, NEW w \in Writer, Meets(req[r].entry, touched[w])
  PROVE  /\ ~InFlight(w)
         /\ tx[w] = "committed" => w \in req[r].entry.graph /\ w \in req[r].entry.temporal
  BY DEF IInv, QuietFillSawItsWrites, FillCommand

\* An invalidation gains the key of a registry by reading it,
LEMMA KeysChange ==
  ASSUME TypeOK, [Next]_vars, NEW v \in Writer, NEW e \in Entity, e \in inv'[v].keys,
         e \notin inv[v].keys
  PROVE  ReadRegistry(v, e)
<1>0. e \notin NotStarted.keys /\ e \notin Finished.keys
  BY DEF NotStarted, Finished
<1>1. ASSUME NEW w \in Writer, NEW ids \in SUBSET Entity, NEW rows \in SUBSET ids,
             Execute(w, ids, rows)
      PROVE  FALSE
  BY <1>0, <1>1 DEF Execute, TypeOK
<1>2. ASSUME NEW w \in Writer, Crash(w) \/ ReadRegistryFails(w) PROVE FALSE
  BY <1>0, <1>2 DEF Crash, ReadRegistryFails, TypeOK
<1>3. ASSUME NEW w \in Writer, NEW f \in Entity, ReadRegistry(w, f) PROVE ReadRegistry(v, e)
  <2>1. e \notin registry[f]
    BY QueryAssumption DEF TypeOK
  <2> QED
    BY <1>3, <2>1 DEF ReadRegistry, TypeOK, InvType
<1>4. ASSUME NEW w \in Writer, NEW k \in Key, DeleteKey(w, k) \/ DeleteKeyFails(w, k) PROVE FALSE
  BY <1>0, <1>4 DEF DeleteKey, DeleteKeyFails, TypeOK, InvType, Without
<1>5. CASE UNCHANGED inv
  BY <1>5
<1> QED
  BY <1>1, <1>2, <1>3, <1>4, <1>5 DEF Next, SyncGraph, UpsertDataPoints, vars, Commit,
     Rollback, Replay, Lookup, ReadGraph, ReadTemporal, QueryFails, FillCommand,
     FillCommandFails, Expire, ExpireRegistry

\* and an entity leaves those to read when its registry is read or the invalidation ends.
LEMMA EntsChange ==
  ASSUME TypeOK, WritesOK, [Next]_vars, NEW v \in Writer, NEW e \in Entity, tx[v] # "idle",
         e \in inv[v].ents, e \notin inv'[v].ents
  PROVE  ReadRegistry(v, e) \/ ReadRegistryFails(v) \/ Crash(v)
<1>0. inv[v].st = "reading"
  BY DEF WritesOK, WriteOK
<1>1. ASSUME NEW w \in Writer, NEW ids \in SUBSET Entity, NEW rows \in SUBSET ids,
             Execute(w, ids, rows)
      PROVE  FALSE
  BY <1>1 DEF Execute, TypeOK
<1>2. ASSUME NEW w \in Writer, Crash(w) \/ ReadRegistryFails(w)
      PROVE  ReadRegistryFails(v) \/ Crash(v)
  BY <1>2 DEF Crash, ReadRegistryFails, TypeOK
<1>3. ASSUME NEW w \in Writer, NEW f \in Entity, ReadRegistry(w, f) PROVE ReadRegistry(v, e)
  BY <1>3 DEF ReadRegistry, TypeOK, InvType
<1>4. ASSUME NEW w \in Writer, NEW k \in Key, DeleteKey(w, k) \/ DeleteKeyFails(w, k) PROVE FALSE
  BY <1>0, <1>4 DEF DeleteKey, DeleteKeyFails, TypeOK
<1>5. CASE UNCHANGED inv
  BY <1>5
<1> QED
  BY <1>1, <1>2, <1>3, <1>4, <1>5 DEF Next, SyncGraph, UpsertDataPoints, vars, Commit,
     Rollback, Replay, Lookup, ReadGraph, ReadTemporal, QueryFails, FillCommand,
     FillCommandFails, Expire, ExpireRegistry

\* A transaction is open after a step of others if it was before, and committed if it was
\* open or committed.
LEMMA TxChange ==
  ASSUME TypeOK, [Next]_vars, NEW v \in Writer, tx[v] # "idle"
  PROVE  /\ tx'[v] = "open" => tx[v] = "open"
         /\ tx'[v] = "committed" => tx[v] \in {"open", "committed"}
<1>1. ASSUME NEW w \in Writer, NEW ids \in SUBSET Entity, NEW rows \in SUBSET ids,
             Execute(w, ids, rows)
      PROVE  tx'[v] = tx[v]
  BY <1>1 DEF Execute, TypeOK
<1>2. ASSUME NEW w \in Writer, Commit(w) \/ Rollback(w) \/ Crash(w)
      PROVE  /\ tx'[v] = "open" => tx[v] = "open"
             /\ tx'[v] = "committed" => tx[v] \in {"open", "committed"}
  BY <1>2 DEF Commit, Rollback, Crash, TypeOK
<1>3. CASE UNCHANGED tx
  BY <1>3
<1> QED
  BY <1>1, <1>2, <1>3 DEF Next, SyncGraph, UpsertDataPoints, vars, database, Replay,
     ReadRegistry, ReadRegistryFails, DeleteKey, DeleteKeyFails, Lookup, ReadGraph,
     ReadTemporal, QueryFails, FillCommand, FillCommandFails, Expire, ExpireRegistry

\* An undisturbed answer that a registry does not list is doomed, after the step too.
LEMMA UnregisteredIsDoomedStep == IInv /\ [Next]_vars => UnregisteredIsDoomed'
<1> SUFFICES ASSUME IInv, [Next]_vars, NEW q \in Query, ~cache'[q].disturbed,
                    NEW e \in cache'[q].ids
             PROVE  q \in registry'[e] \/ Registering(q, e)' \/ Doomed(q)'
  BY DEF UnregisteredIsDoomed
<1> USE DEF IInv
<1>1. CASE cache'[q] = cache[q]
  <2>1. Present(q) /\ e \in Entity
    BY <1>1 DEF Present, TypeOK, Entry
  <2>2. CASE Doomed(q)
    BY <1>1, <2>1, <2>2, DoomedStays
  <2>3. CASE Registering(q, e)
    BY <2>1, <2>3, RegisteringStays
  <2>4. CASE q \in registry[e]
    <3>1. ASSUME NEW w \in Writer, DeleteKey(w, e) PROVE Doomed(q)
      BY <1>1, <3>1 DEF DeleteKey, CollectedIsDoomed
    <3>2. ~ExpireRegistry(e)
      BY <2>1, <2>4, DisturbFacts DEF ExpireRegistry
    <3> QED
      BY <2>1, <2>2, <2>4, <3>1, <3>2, RegistryChange
  <2> QED
    BY <1>1, <2>2, <2>3, <2>4 DEF UnregisteredIsDoomed
<1>2. ASSUME NEW r \in Reader, FillCommand(r, q), req[r].query = q, cache'[q] = req[r].entry
      PROVE  q \in registry'[e] \/ Registering(q, e)'
  <2>1. e \in req[r].entry.ids /\ e \in Entity /\ e # q
    BY <1>2, QueryAssumption DEF TypeOK, CallType, Entry
  <2>2. CASE e \in req[r].todo
    <3>1. /\ req'[r].st = "fill" /\ req'[r].query = q
          /\ req'[r].entry = req[r].entry /\ req'[r].todo = req[r].todo \ {q}
      BY <1>2, <2>1, <2>2, CallAfterCommand
    <3> QED
      BY <1>2, <2>1, <2>2, <3>1 DEF Registering
  <2>3. CASE e \notin req[r].todo
    <3>1. q \in registry[e]
      BY <1>2, <2>1, <2>3 DEF QuietFillIsRegistered, FillCommand
    <3> QED
      BY <1>2, <2>1, <3>1 DEF FillCommand, TypeOK
  <2> QED
    BY <2>2, <2>3
<1> QED
  BY <1>1, <1>2, CacheChange

\* An undisturbed answer whose registry an invalidation has read is doomed, after the step
\* too.
LEMMA CollectedIsDoomedStep == IInv /\ [Next]_vars => CollectedIsDoomed'
<1> SUFFICES ASSUME IInv, [Next]_vars, NEW q \in Query, ~cache'[q].disturbed,
                    NEW v \in Writer, NEW e \in cache'[q].ids \cap inv'[v].keys
             PROVE  Doomed(q)'
  BY DEF CollectedIsDoomed
<1> USE DEF IInv
<1>0. inv'[v] \in InvType /\ cache'[q] \in Entry
  BY TypeStep DEF TypeOK
<1>1. CASE cache'[q] = cache[q]
  <2>1. Present(q) /\ e \in Entity
    BY <1>0, <1>1 DEF Present, Entry
  <2>2. CASE e \in inv[v].keys
    BY <1>1, <2>1, <2>2, DoomedStays DEF CollectedIsDoomed
  <2>3. CASE e \notin inv[v].keys
    <3>1. ReadRegistry(v, e)
      BY <2>1, <2>3, KeysChange
    <3>2. CASE Doomed(q)
      BY <1>1, <2>1, <3>2, DoomedStays
    <3>3. CASE q \in registry[e]
      <4>1. q \in inv'[v].keys /\ touched'[v] = touched[v] /\ e \in inv[v].ents
        BY <3>1, <3>3 DEF ReadRegistry, TypeOK, database, InvType
      <4>2. e \in touched[v]
        BY <4>1 DEF WritesOK, WriteOK
      <4> QED
        BY <4>1, <4>2 DEF Doomed, Meets
    <3> QED
      BY <1>1, <3>1, <3>2, <3>3, CollectingFinds DEF ReadRegistry
  <2> QED
    BY <2>2, <2>3
<1>2. ASSUME NEW r \in Reader, FillCommand(r, q), req[r].query = q, cache'[q] = req[r].entry
      PROVE  FALSE
  <2>1. inv' = inv /\ e \in Entity
    BY <1>0, <1>2 DEF FillCommand, Entry
  <2>2. e \in touched[v] /\ Busy(v)
    BY <2>1 DEF WritesOK, WriteOK
  <2> QED
    BY <1>2, <2>2, StoredIsCurrent DEF Meets, InFlight
<1> QED
  BY <1>1, <1>2, CacheChange

\* An undisturbed answer that lacks a write is doomed or that write's invalidation has not
\* come to it, after the step too.
LEMMA MissedWriteIsDoomedStep == IInv /\ [Next]_vars => MissedWriteIsDoomed'
<1> SUFFICES ASSUME IInv, [Next]_vars, NEW q \in Query, ~cache'[q].disturbed,
                    NEW v \in Writer, NEW e \in cache'[q].ids \cap touched'[v],
                    tx'[v] = "open" \/ (tx'[v] = "committed" /\ v \notin Seen(q, v)')
             PROVE  e \in inv'[v].ents \/ Doomed(q)'
  BY DEF MissedWriteIsDoomed
<1> USE DEF IInv
<1>1. CASE cache'[q] = cache[q]
  <2>1. Present(q) /\ e \in Entity
    BY <1>1 DEF Present, TypeOK, Entry
  <2>2. CASE Doomed(q)
    BY <1>1, <2>1, <2>2, DoomedStays
  <2>3. ASSUME NEW ids \in SUBSET Entity, NEW rows \in SUBSET ids, Execute(v, ids, rows)
        PROVE  e \in inv'[v].ents
    BY <2>3 DEF Execute, TypeOK
  <2>4. CASE touched'[v] = touched[v] /\ ~Doomed(q)
    <3>1. tx[v] # "idle"
      BY <2>4 DEF WritesOK, WriteOK
    <3>2. Seen(q, v)' = Seen(q, v)
      BY <1>1 DEF Seen
    <3>3. e \in inv[v].ents
      BY <1>1, <2>4, <3>1, <3>2, TxChange DEF MissedWriteIsDoomed
    <3>4. CASE ReadRegistry(v, e)
      <4>1. q \in registry[e]
        BY <1>1, <2>4, <3>3, CollectingFinds
      <4>2. q \in inv'[v].keys
        BY <3>4, <4>1 DEF ReadRegistry, TypeOK, InvType
      <4> QED
        BY <4>2 DEF Doomed, Meets
    <3>5. CASE ReadRegistryFails(v) \/ Crash(v)
      <4>1. Busy(v) /\ Meets(cache[q], touched[v])
        BY <1>1, <2>4, <3>3 DEF WritesOK, WriteOK, Busy, Meets
      <4> QED
        BY <2>1, <3>5, <4>1, DisturbFacts DEF ReadRegistryFails, Crash
    <3> QED
      BY <2>1, <3>1, <3>3, <3>4, <3>5, EntsChange
  <2> QED
    BY <2>2, <2>3, <2>4, TouchedStays
<1>2. ASSUME NEW r \in Reader, FillCommand(r, q), req[r].query = q, cache'[q] = req[r].entry
      PROVE  FALSE
  <2>1. UNCHANGED <<tx, touched>>
    BY <1>2 DEF FillCommand, database
  <2>2. ~InFlight(v) /\ (tx[v] = "committed" => v \in req[r].entry.graph
                                                /\ v \in req[r].entry.temporal)
    BY <1>2, <2>1, StoredIsCurrent DEF Meets
  <2> QED
    BY <1>2, <2>1, <2>2 DEF Seen, InFlight
<1> QED
  BY <1>1, <1>2, CacheChange

\* The replica never forgets a commit.
LEMMA ReplayedGrows == TypeOK /\ [Next]_vars => replayed \subseteq replayed'
  BY DEF Next, SyncGraph, UpsertDataPoints, Execute, vars, database, Commit, Rollback, Crash,
     Replay, ReadRegistry, ReadRegistryFails, DeleteKey, DeleteKeyFails, Lookup, ReadGraph,
     ReadTemporal, QueryFails, FillCommand, FillCommandFails, Expire, ExpireRegistry

\* Marking entries leaves what they have seen.
LEMMA DisturbSeen ==
  ASSUME TypeOK, NEW Q, Disturb(Q), NEW q \in Query
  PROVE  cache'[q].graph = cache[q].graph /\ cache'[q].temporal = cache[q].temporal
  BY DEF Disturb, TypeOK, Entry

\* Answers hold nothing but what the replica has replayed, after every step.
LEMMA SeenIsReplayedStep == TypeOK /\ SeenIsReplayed /\ [Next]_vars => SeenIsReplayed'
<1> SUFFICES ASSUME TypeOK, SeenIsReplayed, [Next]_vars PROVE SeenIsReplayed'
  OBVIOUS
<1> DEFINE Calls == \A s \in Reader :
             req'[s].entry.graph \cup req'[s].entry.temporal \subseteq replayed
           Cache == \A q \in Query : cache'[q].graph \cup cache'[q].temporal \subseteq replayed
<1>0. /\ NoEntry.graph = {} /\ NoEntry.temporal = {} /\ Idle.entry = NoEntry
      /\ \A s \in Reader : req[s] \in CallType /\ req[s].entry \in Entry
  BY DEF NoEntry, Idle, TypeOK, CallType
<1>1. ASSUME NEW w \in Writer, NEW ids \in SUBSET Entity, NEW rows \in SUBSET ids,
             Execute(w, ids, rows)
      PROVE  Calls /\ Cache
  BY <1>1, CallAfterExecute, DisturbSeen DEF Execute, SeenIsReplayed
<1>2. ASSUME NEW w \in Writer, Crash(w) \/ ReadRegistryFails(w) PROVE Calls /\ Cache
  BY <1>2, DisturbSeen DEF Crash, ReadRegistryFails, SeenIsReplayed
<1>3. ASSUME NEW w \in Writer, NEW k \in Key, DeleteKey(w, k) \/ DeleteKeyFails(w, k)
      PROVE  Calls /\ Cache
  BY <1>0, <1>3, DisturbSeen DEF DeleteKey, DeleteKeyFails, SeenIsReplayed
<1>4. ASSUME NEW r \in Reader, NEW q \in Query, Lookup(r, q) PROVE Calls /\ Cache
  BY <1>0, <1>4 DEF Lookup, SeenIsReplayed, TypeOK, Idle
<1>5. ASSUME NEW r \in Reader, ReadGraph(r) PROVE Calls /\ Cache
  BY <1>0, <1>5 DEF ReadGraph, SeenIsReplayed, TypeOK, CallType
<1>6. ASSUME NEW r \in Reader, ReadTemporal(r) PROVE Calls /\ Cache
  <2>1. PICK lost \in {FALSE, Faulty} : req' = [req EXCEPT ![r] = Answered(req[r], lost)]
    BY <1>6 DEF ReadTemporal
  <2>2. req'[r] = Answered(req[r], lost)
    BY <1>0, <2>1 DEF TypeOK
  <2>3. req'[r].entry.graph = req[r].entry.graph /\ req'[r].entry.temporal \subseteq replayed
    BY <2>2 DEF Answered
  <2>4. \A s \in Reader : s # r => req'[s] = req[s]
    BY <2>1 DEF TypeOK
  <2> QED
    BY <1>6, <2>3, <2>4 DEF ReadTemporal, SeenIsReplayed
<1>7. ASSUME NEW r \in Reader, QueryFails(r) PROVE Calls /\ Cache
  BY <1>0, <1>7 DEF QueryFails, SeenIsReplayed, TypeOK
<1>8. ASSUME NEW r \in Reader, NEW k \in Key, FillCommand(r, k) PROVE Calls /\ Cache
  <2>1. Cache
    BY <1>8 DEF FillCommand, SeenIsReplayed
  <2>2. \A s \in Reader : s # r => req'[s] = req[s]
    BY <1>8 DEF FillCommand, TypeOK
  <2>3. Calls
    BY <1>0, <1>8, <2>2, CallAfterCommand DEF SeenIsReplayed
  <2> QED
    BY <2>1, <2>3
<1>9. ASSUME NEW r \in Reader, NEW k \in Key, FillCommandFails(r, k) PROVE Calls /\ Cache
  <2>1. Cache
    BY <1>9, DisturbSeen DEF FillCommandFails, SeenIsReplayed
  <2>2. \A s \in Reader : s # r => req'[s] = req[s]
    BY <1>9 DEF FillCommandFails, TypeOK
  <2>3. Calls
    BY <1>0, <1>9, <2>2, CallAfterFailure DEF SeenIsReplayed
  <2> QED
    BY <2>1, <2>3
<1>10. ASSUME NEW q \in Query, Expire(q) PROVE Calls /\ Cache
  BY <1>0, <1>10 DEF Expire, SeenIsReplayed, TypeOK
<1>11. ASSUME NEW e \in Entity, ExpireRegistry(e) PROVE Calls /\ Cache
  BY <1>11, DisturbSeen DEF ExpireRegistry, SeenIsReplayed
<1>12. ASSUME UNCHANGED <<req, cache>> PROVE Calls /\ Cache
  BY <1>12 DEF SeenIsReplayed
<1>13. Calls /\ Cache
  <2> HIDE DEF Calls, Cache
  <2> QED
    BY <1>1, <1>2, <1>3, <1>4, <1>5, <1>6, <1>7, <1>8, <1>9, <1>10, <1>11, <1>12 DEF Next,
       SyncGraph, UpsertDataPoints, vars, Commit, Rollback, Replay, ReadRegistry
<1> QED
  BY <1>13, ReplayedGrows DEF SeenIsReplayed

-----------------------------------------------------------------------------
(***************************************************************************)
(* The theorems.                                                           *)
(***************************************************************************)

\* The inductive invariant holds in the initial state.
LEMMA InitIInv == Init => IInv
<1> SUFFICES ASSUME Init PROVE IInv
  OBVIOUS
<1>1. TypeOK
  BY ConstantsTyped DEF Init, TypeOK
<1>2. WritesOK /\ CallsOK
  BY DEF Init, WritesOK, WriteOK, CallsOK, CallOK, NotStarted, Idle, Pending
<1>3. QuietFillSawItsWrites /\ QuietFillIsRegistered
  BY DEF Init, QuietFillSawItsWrites, QuietFillIsRegistered, Meets, Idle
<1>4. UnregisteredIsDoomed /\ CollectedIsDoomed /\ MissedWriteIsDoomed
  BY DEF Init, UnregisteredIsDoomed, CollectedIsDoomed, MissedWriteIsDoomed, NoEntry
<1>5. SeenIsReplayed
  BY DEF Init, SeenIsReplayed, Idle, NoEntry
<1> QED
  BY <1>1, <1>2, <1>3, <1>4, <1>5 DEF IInv

\* Every step preserves the inductive invariant.
LEMMA StepIInv == IInv /\ [Next]_vars => IInv'
  BY TypeStep, WritesStep, CallsStep, SeenIsReplayedStep, QuietFillSawItsWritesStep, QuietFillIsRegisteredStep,
     UnregisteredIsDoomedStep, CollectedIsDoomedStep, MissedWriteIsDoomedStep DEF IInv

\* The inductive invariant implies that undisturbed answers are coherent.
LEMMA IInvImpliesCoherent == IInv => QuietEntryIsCoherent
<1> SUFFICES ASSUME IInv, NEW q \in Query, NEW e \in cache[q].ids, ~cache[q].disturbed,
                    Stale(q, e) \/ (q \notin registry[e] /\ ~Registering(q, e))
             PROVE  \E w \in Writer : WillDelete(w, q)
  BY DEF QuietEntryIsCoherent
<1> USE DEF IInv
<1>1. Doomed(q) => \E w \in Writer : WillDelete(w, q)
  BY DEF Doomed, WillDelete, WritesOK, WriteOK
<1>2. CASE Stale(q, e)
  <2>1. PICK w \in Writer : tx[w] = "committed" /\ e \in changed[w] /\ w \notin Seen(q, w)
    BY <1>2 DEF Stale
  <2>2. e \in touched[w]
    BY <2>1 DEF WritesOK, WriteOK
  <2>3. e \in inv[w].ents \/ Doomed(q)
    BY <2>1, <2>2 DEF MissedWriteIsDoomed
  <2>4. e \in inv[w].ents => q \in registry[e] \/ Doomed(q)
    BY CollectingFinds
  <2> QED
    BY <1>1, <2>3, <2>4 DEF WillDelete
<1>3. CASE q \notin registry[e] /\ ~Registering(q, e)
  BY <1>1, <1>3 DEF UnregisteredIsDoomed
<1> QED
  BY <1>2, <1>3

\* The inductive invariant holds in every reachable state.
THEOREM Inductive == Spec => []IInv
  BY InitIInv, StepIInv, PTL DEF Spec

\* An answer cached without interference is current and registered, or an invalidation that
\* removes it is running: for any number of calls, writes, entities and cached queries, with
\* failing commands and dying processes.
THEOREM Coherence == Spec => []QuietEntryIsCoherent
  BY Inductive, IInvImpliesCoherent, PTL


\* A fill that nothing disturbed never replaces an answer by one that lacks a commit to an
\* entity it holds and that the replaced answer contained.
THEOREM NeverBack == Spec => QuietFillNeverGoesBack
<1> DEFINE Step == \A q \in Query : Present(q) /\ ~cache'[q].disturbed =>
       \A w \in Writer : w \in Seen(q, w) /\ changed[w] \cap cache'[q].ids # {} => w \in Seen(q, w)'
<1>1. IInv /\ [Next]_vars => Step
  <2> SUFFICES ASSUME IInv, [Next]_vars, NEW q \in Query, ~cache'[q].disturbed, NEW w \in Writer,
                      w \in Seen(q, w), changed[w] \cap cache'[q].ids # {}
               PROVE  w \in Seen(q, w)'
    OBVIOUS
  <2>1. CASE cache'[q] = cache[q]
    BY <2>1 DEF Seen
  <2>2. ASSUME NEW r \in Reader, FillCommand(r, q), req[r].query = q,
               cache'[q] = req[r].entry
        PROVE  w \in Seen(q, w)'
    <3>1. Meets(req[r].entry, touched[w])
      BY <2>2 DEF IInv, WritesOK, WriteOK, Meets
    <3>2. tx[w] = "committed"
      BY DEF IInv, SeenIsReplayed, Seen, WritesOK, WriteOK
    <3> QED
      BY <2>2, <3>1, <3>2, StoredIsCurrent DEF Seen
  <2> QED
    BY <2>1, <2>2, CacheChange DEF IInv
<1> QED
  BY <1>1, Inductive, PTL DEF Spec, QuietFillNeverGoesBack

=============================================================================
