-------------------------- MODULE EventSyncProofs --------------------------
(***************************************************************************)
(* Delivery of events, for every number of events, syncers, handler        *)
(* threads, faults and every batch limit: what the receiver holds is held  *)
(* once, without gaps and for good, nothing is lost while no id is reused, *)
(* and queue, retries and handlers implement the event store.              *)
(***************************************************************************)
EXTENDS EventSync, FiniteSetTheorems, WellFoundedInduction, TLAPS

\* Event e is in row id of the queue, of the receiver, of a batch that a
\* syncer still remembers, or of one that a handler still works on.
In(rows, id, e) == id \in DOMAIN rows /\ rows[id] = e
Placed(id, e) ==
  \/ row[id] = e \/ server[id] = e
  \/ \E s \in Syncers : In(batch[s], id, e)
  \/ \E t \in Threads : In(handler[t].rows, id, e)

\* An id that was given out keeps the insert below MaxEvents.
RowsBelow == \A id \in Rows : id <= created

\* StoredOnce speaks of the receiver only; a batch under way may store more.
OnePlace == \A e \in Events : \A i, j \in Ids : Placed(i, e) /\ Placed(j, e) => i = j
OnlyRecorded == \A e \in Events : \A i \in Ids : Placed(i, e) => e <= created

\* A syncer has at most one handler that may answer it, about its own batch.
OneHandler ==
  /\ \A t \in Threads : handler[t].for # Nobody =>
       at[handler[t].for] = "waiting" /\ handler[t].rows = batch[handler[t].for]
  /\ \A t, u \in Threads :
       handler[t].for # Nobody /\ handler[t].for = handler[u].for => t = u

\* What stands behind a mark: the commit, then the answer, then the mark.
HeldAll(rows) == \A id \in DOMAIN rows : server[id] # NoEvent
StoredHeld == \A t \in Threads : handler[t].stage = "stored" => HeldAll(handler[t].rows)
AckHeld == \A s \in Syncers : status[s] = 200 => HeldAll(batch[s])

\* While no id is reused an event's id is its number, and no event is gone.
SameId == \A e \in Events : \A i \in Ids : Placed(i, e) => i = e
Kept == \A e \in 1..created : row[e] # NoEvent \/ server[e] # NoEvent
GapFree(rows) ==
  \A j \in DOMAIN rows : \A i \in Ids : i < j => i \in DOMAIN rows \/ server[i] # NoEvent
Ordered == SameId /\ Kept /\ \A t \in Threads : GapFree(handler[t].rows)

SyncInv ==
  /\ TypeOK /\ RowsBelow
  /\ OnePlace /\ OnlyRecorded
  /\ OneHandler /\ StoredHeld /\ AckHeld /\ SyncedIsHeld
  /\ ~reused => Ordered
  /\ NoGaps
-----------------------------------------------------------------------------
\* The largest id of a set of ids exists.
LEMMA MaxIsLargest ==
  ASSUME NEW S \in SUBSET Ids, S # {}
  PROVE  Max(S) \in S /\ \A y \in S : y <= Max(S)
<1>1. MaxEvents \in Nat
  BY EventsAssumption
<1> DEFINE gap == {MaxEvents - id : id \in S}
<1>2. gap \subseteq Nat /\ gap # {}
  <2>1. \A id \in S : MaxEvents - id \in Nat
    BY <1>1 DEF Ids
  <2>2. PICK id \in S : TRUE
    OBVIOUS
  <2>3. MaxEvents - id \in gap
    BY <2>2
  <2> QED BY <2>1, <2>3
<1>3. PICK g \in gap : \A h \in gap : ~(<<h, g>> \in OpToRel(<, Nat))
  <2>1. IsWellFoundedOn(OpToRel(<, Nat), Nat)
    BY NatLessThanWellFounded
  <2> HIDE DEF gap
  <2> QED BY <1>2, <2>1, WFMin
<1>4. PICK x \in S : g = MaxEvents - x
  OBVIOUS
<1>5. ASSUME NEW y \in S PROVE MaxEvents - y >= MaxEvents - x
  <2>1. MaxEvents - y \in gap
    OBVIOUS
  <2>2. MaxEvents - y \in Nat /\ MaxEvents - x \in Nat
    BY <1>1 DEF Ids
  <2>3. MaxEvents - y < MaxEvents - x =>
          <<MaxEvents - y, MaxEvents - x>> \in OpToRel(<, Nat)
    BY <2>2 DEF OpToRel
  <2>4. ~(MaxEvents - y < MaxEvents - x)
    BY <1>3, <1>4, <2>1, <2>3
  <2> QED BY <2>2, <2>4
<1>6. \A y \in S : x >= y
  BY <1>1, <1>5 DEF Ids
<1>7. Max(S) \in S /\ \A y \in S : Max(S) >= y
  BY <1>6 DEF Max
<1> QED BY <1>7 DEF Ids

LEMMA BatchIs ==
  ASSUME NEW b
  PROVE  b \in Batches <=> DOMAIN b \in SUBSET Ids /\ b \in [DOMAIN b -> Events]
BY DEF Batches

LEMMA CountIsMonotone ==
  ASSUME NEW S \in SUBSET Ids, NEW i \in Ids, NEW j \in Ids, i < j
  PROVE  LET Below(k) == Cardinality({x \in S : x < k}) IN
         Below(i) \in Nat /\ Below(j) \in Nat /\ Below(i) <= Below(j)
<1>1. MaxEvents \in Nat
  BY EventsAssumption
<1> DEFINE T == {x \in S : x < j}
           U == {x \in S : x < i}
<1>2. IsFiniteSet(T)
  <2>1. T \in SUBSET (1..MaxEvents)
    BY DEF Ids
  <2>2. IsFiniteSet(1..MaxEvents)
    BY <1>1, FS_Interval
  <2> QED BY <2>1, <2>2, FS_Subset
<1>3. U \in SUBSET T
  <2>1. \A x \in S : x \in Int /\ i \in Int /\ j \in Int
    BY <1>1 DEF Ids
  <2> QED BY <2>1
<1>4. IsFiniteSet(U) /\ Cardinality(U) <= Cardinality(T)
  BY <1>2, <1>3, FS_Subset
<1>5. Cardinality(U) \in Nat /\ Cardinality(T) \in Nat
  BY <1>2, <1>4, FS_CardinalityType
<1> QED BY <1>4, <1>5

LEMMA EmptyIs == Empty \in Batches /\ DOMAIN Empty = {} /\ HeldAll(Empty) /\ GapFree(Empty)
<1>1. DOMAIN Empty = {} /\ Empty \in [{} -> Events]
  BY DEF Empty
<1> QED BY <1>1, BatchIs DEF HeldAll, GapFree

\* What sync_once selects: pending rows, the oldest first.
LEMMA SelectedIs ==
  ASSUME TypeOK
  PROVE  /\ Selected \in Batches
         /\ \A id \in DOMAIN Selected : id \in Pending /\ Selected[id] = row[id]
         /\ \A i \in Pending : \A j \in DOMAIN Selected : i < j => i \in DOMAIN Selected
<1>0. BatchLimit \in Nat
  BY BatchAssumption
<1> DEFINE ids == {id \in Pending : Cardinality({j \in Pending : j < id}) < BatchLimit}
<1>1. Selected = [id \in ids |-> row[id]]
  BY DEF Selected
<1>2. ids \subseteq Pending /\ Pending \in SUBSET Ids
  BY DEF Pending, Rows
<1>3. \A id \in ids : row[id] \in Events
  BY <1>2 DEF TypeOK, Pending, Rows
<1>4. ASSUME NEW i \in Pending, NEW j \in ids, i < j PROVE i \in ids
  <2>1. i \in Ids /\ j \in Ids
    BY <1>2
  <2> HIDE DEF ids
  <2>2. /\ Cardinality({x \in Pending : x < i}) \in Nat
        /\ Cardinality({x \in Pending : x < j}) \in Nat
        /\ Cardinality({x \in Pending : x < i}) <= Cardinality({x \in Pending : x < j})
    BY <1>2, <1>4, <2>1, CountIsMonotone
  <2>3. Cardinality({x \in Pending : x < j}) < BatchLimit
    BY DEF ids
  <2>4. Cardinality({x \in Pending : x < i}) < BatchLimit
    BY <1>0, <2>2, <2>3
  <2> QED BY <2>4 DEF ids
<1>5. DOMAIN Selected = ids
  BY <1>1
<1>6. \A id \in ids : Selected[id] = row[id]
  BY <1>1
<1> HIDE DEF ids
<1>7. Selected \in [ids -> Events]
  BY <1>1, <1>3
<1>8. Selected \in Batches
  BY <1>2, <1>5, <1>7, BatchIs
<1> QED BY <1>2, <1>4, <1>5, <1>6, <1>8

\* The insert takes an id that is not in use and is at most one above created.
LEMMA NextIdIs ==
  ASSUME TypeOK, RowsBelow, created < MaxEvents
  PROVE  NextId \in Ids /\ NextId \notin Rows /\ NextId <= created + 1
<1>1. MaxEvents \in Nat /\ created \in Nat
  BY EventsAssumption DEF TypeOK
<1>2. Rows \in SUBSET Ids
  BY DEF Rows
<1>3. CASE Rows = {}
  BY <1>1, <1>3 DEF NextId, Ids
<1>4. CASE Rows # {}
  <2>1. PICK m \in Rows : m = Max(Rows) /\ \A y \in Rows : y <= m
    BY <1>2, <1>4, MaxIsLargest
  <2>2. m \in Int /\ m >= 1 /\ m <= created
    BY <1>1, <1>2 DEF Ids, RowsBelow
  <2>3. NextId = m + 1
    BY <1>4, <2>1 DEF NextId
  <2>4. NextId \notin Rows
    BY <2>1, <2>2, <2>3
  <2> QED BY <1>1, <2>2, <2>3, <2>4 DEF Ids
<1> QED BY <1>3, <1>4
-----------------------------------------------------------------------------
\* The parts of TypeOK, one per database, program and thread.
HandlerRecord ==
  [for : Syncers \cup {Nobody}, rows : Batches,
   stage : {"free", "arrived", "checked", "stored"}]
QueueType ==
  /\ row \in [Ids -> Events \cup {NoEvent}] /\ synced \in [Ids -> BOOLEAN]
  /\ created \in 0..MaxEvents /\ reused \in BOOLEAN
SyncerType ==
  /\ at \in [Syncers -> {"idle", "waiting", "answered"}]
  /\ batch \in [Syncers -> Batches]
  /\ status \in [Syncers -> {0, 200, 401, 413}]
  /\ \A s \in Syncers : at[s] = "idle" => batch[s] = Empty /\ status[s] = 0
HandlerType == handler \in [Threads -> HandlerRecord]
ServerType == server \in [Ids -> Events \cup {NoEvent}]
AdminType ==
  /\ nodes \in {"enrolled", "revoked", "torn"}
  /\ faults \in 0..MaxFaults /\ admin \in 0..MaxAdmin

LEMMA TypeParts ==
  TypeOK <=> QueueType /\ SyncerType /\ HandlerType /\ ServerType /\ AdminType
BY DEF TypeOK, QueueType, SyncerType, HandlerType, HandlerRecord, ServerType, AdminType

LEMMA FreeIs == Free \in HandlerRecord /\ Free.rows = Empty /\ Free.for = Nobody /\ Free.stage = "free"
BY EmptyIs DEF Free, HandlerRecord

LEMMA InitInv == Init => SyncInv
<1> SUFFICES ASSUME Init PROVE SyncInv
  OBVIOUS
<1>0. MaxEvents \in Nat /\ MaxFaults \in Nat /\ MaxAdmin \in Nat
  BY EventsAssumption, BoundsAssumption
<1>1. TypeOK
  <2>1. QueueType
    <3>1. synced \in [Ids -> BOOLEAN] /\ reused \in BOOLEAN
      BY DEF Init
    <3>2. row \in [Ids -> Events \cup {NoEvent}] /\ created \in 0..MaxEvents
      BY <1>0 DEF Init
    <3> QED BY <3>1, <3>2 DEF QueueType
  <2>2. SyncerType
    BY EmptyIs DEF Init, SyncerType
  <2>3. HandlerType /\ ServerType /\ AdminType
    BY <1>0, FreeIs DEF Init, HandlerType, ServerType, AdminType
  <2> QED BY <2>1, <2>2, <2>3, TypeParts
<1>2. /\ \A id \in Ids : row[id] = NoEvent /\ server[id] = NoEvent
      /\ \A s \in Syncers : DOMAIN batch[s] = {}
      /\ \A t \in Threads : DOMAIN handler[t].rows = {} /\ handler[t].for = Nobody
                            /\ handler[t].stage = "free"
  BY EmptyIs DEF Init, Free
<1>3. \A e \in Events : \A id \in Ids : ~Placed(id, e)
  BY <1>0, <1>2 DEF Placed, In, NoEvent, Events
<1>4. Rows = {} /\ \A s \in Syncers : status[s] = 0
  BY <1>2 DEF Init, Rows
<1>5. Kept /\ \A t \in Threads : GapFree(handler[t].rows)
  BY <1>2 DEF Kept, GapFree, Init
<1>6. SameId /\ OnePlace /\ OnlyRecorded
  BY <1>3 DEF SameId, OnePlace, OnlyRecorded
<1>7. OneHandler /\ StoredHeld /\ AckHeld /\ SyncedIsHeld /\ RowsBelow
  BY <1>2, <1>4 DEF OneHandler, StoredHeld, AckHeld, SyncedIsHeld, RowsBelow
<1>8. NoGaps
  BY <1>2 DEF NoGaps
<1> QED BY <1>1, <1>5, <1>6, <1>7, <1>8 DEF SyncInv, Ordered

\* The syncer that a handler answers, if it still waits.
LEMMA RespondType ==
  ASSUME TypeOK, NEW t \in Threads, NEW code \in {200, 401, 413}, Respond(t, code),
         OneHandler
  PROVE  /\ at' \in [Syncers -> {"idle", "waiting", "answered"}]
         /\ status' \in [Syncers -> {0, 200, 401, 413}]
         /\ handler' = [handler EXCEPT ![t] = Free]
         /\ \A s \in Syncers : /\ at'[s] = "idle" => at[s] = "idle" /\ status'[s] = status[s]
                               /\ s # handler[t].for =>
                                    at'[s] = at[s] /\ status'[s] = status[s]
                               /\ s = handler[t].for => status'[s] = code
<1>1. handler[t].for \in Syncers \cup {Nobody}
  BY DEF TypeOK
<1> QED BY <1>1, SyncersAssumption DEF TypeOK, Respond

\* A client that leaves is forgotten by its handler, which goes on.
LEMMA LeaveType ==
  ASSUME TypeOK, NEW s \in Syncers, Leave(s)
  PROVE  /\ at' = [at EXCEPT ![s] = "idle"]
         /\ batch' = [batch EXCEPT ![s] = Empty]
         /\ status' = [status EXCEPT ![s] = 0]
         /\ HandlerType'
         /\ \A t \in Threads :
              /\ handler'[t].rows = handler[t].rows /\ handler'[t].stage = handler[t].stage
              /\ handler'[t].for = IF handler[t].for = s THEN Nobody ELSE handler[t].for
<1>1. handler \in [Threads -> HandlerRecord]
  BY TypeParts DEF HandlerType
<1>2. \A t \in Threads : [handler[t] EXCEPT !.for = Nobody] \in HandlerRecord
  BY <1>1 DEF HandlerRecord
<1>3. handler' = [t \in Threads |-> IF handler[t].for = s
                                    THEN [handler[t] EXCEPT !.for = Nobody] ELSE handler[t]]
  BY DEF Leave
<1>4. HandlerType'
  BY <1>1, <1>2, <1>3 DEF HandlerType
<1>5. ASSUME NEW t \in Threads
      PROVE  /\ handler'[t].rows = handler[t].rows /\ handler'[t].stage = handler[t].stage
             /\ handler'[t].for = IF handler[t].for = s THEN Nobody ELSE handler[t].for
  BY <1>1, <1>3 DEF HandlerRecord
<1> QED BY <1>4, <1>5 DEF Leave

\* A thread that is released, or goes to its next stage.
LEMMA HandlerStep ==
  ASSUME HandlerType, NEW t \in Threads,
         NEW stage \in {"free", "arrived", "checked", "stored"},
         \/ handler' = [handler EXCEPT ![t] = Free]
         \/ handler' = [handler EXCEPT ![t].stage = stage]
  PROVE  HandlerType'
<1>1. Free \in HandlerRecord
  BY FreeIs
<1>2. [handler[t] EXCEPT !.stage = stage] \in HandlerRecord
  BY DEF HandlerType, HandlerRecord
<1> QED BY <1>1, <1>2 DEF HandlerType

LEMMA RespondParts ==
  ASSUME TypeOK, OneHandler, NEW t \in Threads, NEW code \in {200, 401, 413},
         Respond(t, code), batch' = batch
  PROVE  SyncerType' /\ HandlerType'
<1>1. HandlerType'
  BY RespondType, HandlerStep, TypeParts
<1>2. SyncerType'
  BY RespondType, TypeParts DEF SyncerType
<1> QED BY <1>1, <1>2

LEMMA LeaveParts ==
  ASSUME TypeOK, NEW s \in Syncers, Leave(s)
  PROVE  SyncerType' /\ HandlerType'
<1>1. Empty \in Batches
  BY EmptyIs
<1>2. SyncerType
  BY TypeParts
<1> QED BY <1>1, <1>2, LeaveType DEF SyncerType

LEMMA TypeNext == SyncInv /\ [Next]_vars => TypeOK'
<1> SUFFICES ASSUME SyncInv, [Next]_vars PROVE TypeOK'
  OBVIOUS
<1>0. MaxEvents \in Nat /\ MaxFaults \in Nat /\ MaxAdmin \in Nat
  BY EventsAssumption, BoundsAssumption
<1>t. QueueType /\ SyncerType /\ HandlerType /\ ServerType /\ AdminType
  BY TypeParts DEF SyncInv
<1>i. TypeOK /\ OneHandler /\ RowsBelow
  BY DEF SyncInv
<1>u. \/ row' = row /\ synced' = synced /\ created' = created /\ reused' = reused
      \/ add_event \/ \E s \in Syncers : SyncAck(s)
      \/ \E cutoff \in Events : maintenance(cutoff + 1)
  BY DEF Next, vars, Syncer, Handler, SyncStart, SyncRejected, SyncFails, SyncGivesUp,
         HandlerTooLarge, HandlerUnknownNode, HandlerTornNodes, HandlerAccepts,
         HandlerStores, HandlerAnswers, RequestLost, ServerCrash, AdminStart, AdminDone
<1>1. QueueType'
  <2>1. ASSUME add_event PROVE QueueType'
    <3>1. NextId \in Ids /\ created + 1 \in Events
      BY <1>0, <1>i, <1>t, <2>1, NextIdIs DEF add_event, Events, QueueType
    <3>2. synced' \in [Ids -> BOOLEAN]
      BY <1>t, <2>1, <3>1 DEF add_event, QueueType
    <3>3. row' \in [Ids -> Events \cup {NoEvent}]
      BY <1>t, <2>1, <3>1 DEF add_event, QueueType
    <3> QED BY <1>0, <1>t, <2>1, <3>1, <3>2, <3>3 DEF add_event, QueueType, Events
  <2>2. ASSUME NEW s \in Syncers, SyncAck(s) PROVE QueueType'
    BY <1>t, <2>2 DEF SyncAck, QueueType
  <2>3. ASSUME NEW cutoff \in Events, maintenance(cutoff + 1) PROVE QueueType'
    <3>1. synced' \in [Ids -> BOOLEAN]
      BY <1>t, <2>3 DEF maintenance, QueueType
    <3>2. row' \in [Ids -> Events \cup {NoEvent}]
      BY <1>t, <2>3 DEF maintenance, QueueType
    <3> QED BY <1>t, <2>3, <3>1, <3>2 DEF maintenance, QueueType
  <2> QED BY <1>t, <1>u, <2>1, <2>2, <2>3 DEF QueueType
<1>2. ServerType'
  <2>1. ASSUME NEW t \in Threads, HandlerStores(t) PROVE ServerType'
    <3>1. handler[t].rows \in Batches
      BY <1>t DEF HandlerType, HandlerRecord
    <3>2. \A id \in DOMAIN handler[t].rows : handler[t].rows[id] \in Events
      BY <3>1, BatchIs
    <3> QED BY <1>t, <2>1, <3>2 DEF HandlerStores, ServerType
  <2>2. server' = server \/ \E t \in Threads : HandlerStores(t)
    BY DEF Next, vars, Syncer, Handler, SyncStart, SyncRejected, SyncFails, SyncGivesUp,
           HandlerTooLarge, HandlerUnknownNode, HandlerTornNodes, HandlerAccepts, SyncAck,
           HandlerAnswers, RequestLost, ServerCrash, AdminStart, AdminDone, add_event,
           maintenance
  <2> QED BY <1>t, <2>1, <2>2 DEF ServerType
<1>3. AdminType'
  <2>1. ASSUME faults < MaxFaults, faults' = faults + 1, UNCHANGED <<nodes, admin>>
        PROVE  AdminType'
    BY <1>0, <1>t, <2>1 DEF AdminType
  <2>2. CASE \E s \in Syncers : SyncGivesUp(s)
    BY <2>1, <2>2 DEF SyncGivesUp
  <2>3. CASE ServerCrash \/ \E t \in Threads : RequestLost(t)
    BY <2>1, <2>3 DEF ServerCrash, RequestLost
  <2>4. CASE AdminStart \/ \E to \in {"enrolled", "revoked"} : AdminDone(to)
    BY <1>0, <1>t, <2>4 DEF AdminStart, AdminDone, AdminType
  <2>5. CASE UNCHANGED <<nodes, faults, admin>>
    BY <1>t, <2>5 DEF AdminType
  <2> QED
    BY <2>2, <2>3, <2>4, <2>5
    DEF Next, vars, Syncer, Handler, SyncStart, SyncRejected, SyncFails, HandlerTooLarge,
        HandlerUnknownNode, HandlerTornNodes, HandlerAccepts, HandlerStores, SyncAck,
        HandlerAnswers, add_event, maintenance
<1>4. SyncerType' /\ HandlerType'
  <2>1. ASSUME NEW s \in Syncers, SyncStart(s) PROVE SyncerType' /\ HandlerType'
    <3>1. Selected \in Batches
      BY <1>i, SelectedIs
    <3>2. [for |-> s, rows |-> Selected, stage |-> "arrived"] \in HandlerRecord
      BY <3>1 DEF HandlerRecord
    <3> QED BY <1>t, <2>1, <3>1, <3>2 DEF SyncStart, SyncerType, HandlerType
  <2>2. ASSUME NEW s \in Syncers, SyncAck(s) \/ SyncRejected(s) PROVE SyncerType' /\ HandlerType'
    BY <1>t, <2>2, EmptyIs DEF SyncAck, SyncRejected, SyncerType, HandlerType
  <2>3. ASSUME NEW s \in Syncers, SyncFails(s) \/ SyncGivesUp(s) PROVE SyncerType' /\ HandlerType'
    BY <1>i, <2>3, LeaveParts DEF SyncFails, SyncGivesUp
  <2>4. ASSUME NEW t \in Threads,
               HandlerTooLarge(t) \/ HandlerUnknownNode(t) \/ HandlerAnswers(t)
        PROVE  SyncerType' /\ HandlerType'
    BY <1>i, <2>4, RespondParts DEF HandlerTooLarge, HandlerUnknownNode, HandlerAnswers
  <2>5. ASSUME NEW t \in Threads,
               \/ HandlerTornNodes(t) \/ HandlerAccepts(t) \/ HandlerStores(t)
               \/ RequestLost(t)
        PROVE  SyncerType' /\ HandlerType'
    <3>1. HandlerType'
      BY <1>t, <2>5, HandlerStep
      DEF HandlerTornNodes, HandlerAccepts, HandlerStores, RequestLost
    <3> QED BY <1>t, <2>5, <3>1
            DEF HandlerTornNodes, HandlerAccepts, HandlerStores, RequestLost, SyncerType
  <2>6. CASE ServerCrash
    BY <1>t, <2>6, FreeIs DEF ServerCrash, SyncerType, HandlerType
  <2>7. CASE UNCHANGED <<at, batch, status, handler>>
    BY <1>t, <2>7 DEF SyncerType, HandlerType
  <2>8. CASE add_event \/ AdminStart
    BY <2>7, <2>8 DEF add_event, AdminStart
  <2>9. ASSUME NEW cutoff \in Events, maintenance(cutoff + 1) PROVE SyncerType' /\ HandlerType'
    BY <2>7, <2>9 DEF maintenance
  <2>10. ASSUME NEW to \in {"enrolled", "revoked"}, AdminDone(to) PROVE SyncerType' /\ HandlerType'
    BY <2>7, <2>10 DEF AdminDone
  <2>11. CASE UNCHANGED vars
    BY <2>7, <2>11 DEF vars
  <2> QED
    BY <2>1, <2>2, <2>3, <2>4, <2>5, <2>6, <2>8, <2>9, <2>10, <2>11
    DEF Next, Syncer, Handler
<1> QED
  BY <1>1, <1>2, <1>3, <1>4
  DEF TypeOK, QueueType, SyncerType, HandlerType, HandlerRecord, ServerType, AdminType
-----------------------------------------------------------------------------
\* What a step may do to the rows in transit ...
LEMMA TransitNext ==
  ASSUME SyncInv, [Next]_vars
  PROVE  /\ \A t \in Threads : handler'[t].rows \in {handler[t].rows, Empty, Selected}
         /\ \A s \in Syncers : batch'[s] \in {batch[s], Empty, Selected}
<1> DEFINE Transit ==
      /\ \A t \in Threads : handler'[t].rows \in {handler[t].rows, Empty, Selected}
      /\ \A s \in Syncers : batch'[s] \in {batch[s], Empty, Selected}
<1>i. TypeOK /\ OneHandler
  BY DEF SyncInv
<1>t. SyncerType /\ HandlerType
  BY <1>i, TypeParts
<1>f. Free.rows = Empty
  BY FreeIs
<1>1. ASSUME NEW s \in Syncers, SyncStart(s) PROVE Transit
  BY <1>t, <1>1 DEF SyncStart, SyncerType, HandlerType
<1>2. ASSUME NEW s \in Syncers, SyncAck(s) \/ SyncRejected(s) PROVE Transit
  BY <1>t, <1>2 DEF SyncAck, SyncRejected, SyncerType
<1>3. ASSUME NEW s \in Syncers, SyncFails(s) \/ SyncGivesUp(s) PROVE Transit
  <2>1. Leave(s)
    BY <1>3 DEF SyncFails, SyncGivesUp
  <2>2. batch' = [batch EXCEPT ![s] = Empty]
    BY <2>1 DEF Leave
  <2>3. \A t \in Threads : handler'[t].rows = handler[t].rows
    BY <1>i, <2>1, LeaveType
  <2> QED BY <1>t, <2>2, <2>3 DEF SyncerType
<1>4. ASSUME NEW t \in Threads, Handler(t) \/ RequestLost(t) PROVE Transit
  <2>1. batch' = batch
    BY <1>4 DEF Handler, HandlerTooLarge, HandlerUnknownNode, HandlerTornNodes,
                HandlerAccepts, HandlerStores, HandlerAnswers, RequestLost
  <2>2. \/ handler' = [handler EXCEPT ![t] = Free]
        \/ \E st \in {"checked", "stored"} : handler' = [handler EXCEPT ![t].stage = st]
    BY <1>4 DEF Handler, HandlerTooLarge, HandlerUnknownNode, HandlerTornNodes, Respond,
                HandlerAccepts, HandlerStores, HandlerAnswers, RequestLost
  <2>3. \A u \in Threads : handler'[u].rows \in {handler[u].rows, Empty}
    BY <1>t, <1>f, <2>2 DEF HandlerType, HandlerRecord
  <2> QED BY <2>1, <2>3
<1>5. CASE ServerCrash
  BY <1>f, <1>5 DEF ServerCrash
<1>6. CASE UNCHANGED <<handler, batch>>
  BY <1>6
<1>7. CASE add_event \/ AdminStart
  BY <1>6, <1>7 DEF add_event, AdminStart
<1>8. ASSUME NEW cutoff \in Events, maintenance(cutoff + 1) PROVE Transit
  BY <1>6, <1>8 DEF maintenance
<1>9. ASSUME NEW to \in {"enrolled", "revoked"}, AdminDone(to) PROVE Transit
  BY <1>6, <1>9 DEF AdminDone
<1>10. CASE UNCHANGED vars
  BY <1>6, <1>10 DEF vars
<1> QED BY <1>1, <1>2, <1>3, <1>4, <1>5, <1>7, <1>8, <1>9, <1>10 DEF Next, Syncer

\* ... to what the receiver has stored ...
LEMMA StoreNext ==
  ASSUME SyncInv, [Next]_vars
  PROVE  \/ server' = server
         \/ \E t \in Threads : HandlerStores(t)
BY DEF Next, vars, Syncer, Handler, SyncStart, SyncRejected, SyncFails, SyncGivesUp,
       HandlerTooLarge, HandlerUnknownNode, HandlerTornNodes, HandlerAccepts, SyncAck,
       HandlerAnswers, RequestLost, ServerCrash, AdminStart, AdminDone, add_event,
       maintenance

\* ... where INSERT OR IGNORE only fills what is free ...
LEMMA FilledNext ==
  ASSUME SyncInv, [Next]_vars, NEW id \in Ids
  PROVE  \/ server'[id] = server[id]
         \/ server[id] = NoEvent /\ \E t \in Threads : In(handler[t].rows, id, server'[id])
<1>1. ASSUME NEW t \in Threads, HandlerStores(t)
      PROVE  \/ server'[id] = server[id]
             \/ server[id] = NoEvent /\ In(handler[t].rows, id, server'[id])
  BY <1>1 DEF HandlerStores, In
<1> QED BY <1>1, StoreNext

\* ... and to the queue, where only add_event writes a row.
LEMMA RowNext ==
  ASSUME SyncInv, [Next]_vars
  PROVE  \/ add_event
         \/ /\ created' = created /\ reused' = reused
            /\ \A id \in Ids : row'[id] \in {row[id], NoEvent}
<1>1. ASSUME NEW cutoff \in Events, maintenance(cutoff + 1)
      PROVE  /\ created' = created /\ reused' = reused
             /\ \A id \in Ids : row'[id] \in {row[id], NoEvent}
  BY <1>1 DEF maintenance
<1>2. \/ add_event \/ UNCHANGED <<row, created, reused>>
      \/ \E cutoff \in Events : maintenance(cutoff + 1)
  BY DEF Next, vars, Syncer, Handler, SyncStart, SyncRejected, SyncFails, SyncGivesUp,
         HandlerTooLarge, HandlerUnknownNode, HandlerTornNodes, HandlerAccepts, SyncAck,
         HandlerAnswers, RequestLost, ServerCrash, AdminStart, AdminDone, HandlerStores
<1> QED BY <1>1, <1>2

\* An event is put in a new place by add_event alone, and then only there.
LEMMA PlacedNext ==
  ASSUME SyncInv, [Next]_vars, NEW id \in Ids, NEW e \in Events, Placed(id, e)'
  PROVE  Placed(id, e) \/ (add_event /\ id = NextId /\ e = created + 1)
<1>0. TypeOK /\ TypeOK' /\ NoEvent \notin Events
  BY TypeNext DEF SyncInv, Events, NoEvent
<1>1. CASE row'[id] = e
  <2>1. CASE add_event
    BY <1>0, <1>1, <2>1 DEF add_event, TypeOK, Placed
  <2>2. CASE ~add_event
    BY <1>0, <1>1, <2>2, RowNext DEF Placed
  <2> QED BY <2>1, <2>2
<1>2. CASE server'[id] = e
  BY <1>2, FilledNext DEF Placed
<1>3. In(Selected, id, e) => Placed(id, e)
  BY <1>0, SelectedIs DEF In, Placed
<1>4. ~In(Empty, id, e)
  BY EmptyIs DEF In
<1>5. ASSUME NEW t \in Threads, In(handler'[t].rows, id, e) PROVE Placed(id, e)
  <2>1. handler'[t].rows \in {handler[t].rows, Empty, Selected}
    BY TransitNext
  <2> QED BY <1>3, <1>4, <1>5, <2>1 DEF Placed
<1>6. ASSUME NEW s \in Syncers, In(batch'[s], id, e) PROVE Placed(id, e)
  <2>1. batch'[s] \in {batch[s], Empty, Selected}
    BY TransitNext
  <2> QED BY <1>3, <1>4, <1>6, <2>1 DEF Placed
<1> QED BY <1>1, <1>2, <1>5, <1>6 DEF Placed, In

\* Every event keeps the place that add_event gave it, and is a recorded one.
LEMMA PlaceInvNext == SyncInv /\ [Next]_vars => (OnePlace /\ OnlyRecorded /\ RowsBelow)'
<1> SUFFICES ASSUME SyncInv, [Next]_vars PROVE (OnePlace /\ OnlyRecorded /\ RowsBelow)'
  OBVIOUS
<1>0. MaxEvents \in Nat /\ created \in Nat
  BY EventsAssumption DEF SyncInv, TypeOK
<1>1. \/ add_event /\ created' = created + 1
      \/ ~add_event /\ created' = created
  BY RowNext DEF add_event
<1>2. \A e \in Events : \A i \in Ids : Placed(i, e) => e <= created
  BY DEF SyncInv, OnlyRecorded
<1>3. OnlyRecorded'
  <2> SUFFICES ASSUME NEW e \in Events, NEW i \in Ids, Placed(i, e)' PROVE e <= created'
    BY DEF OnlyRecorded
  <2>1. Placed(i, e) \/ (add_event /\ e = created + 1)
    BY PlacedNext
  <2> QED BY <1>0, <1>1, <1>2, <2>1 DEF Events
<1>4. OnePlace'
  <2> SUFFICES ASSUME NEW e \in Events, NEW i \in Ids, NEW j \in Ids,
                      Placed(i, e)', Placed(j, e)'
               PROVE  i = j
    BY DEF OnePlace
  <2>1. Placed(i, e) \/ (i = NextId /\ e = created + 1)
    BY PlacedNext
  <2>2. Placed(j, e) \/ (j = NextId /\ e = created + 1)
    BY PlacedNext
  <2>3. Placed(i, e) /\ Placed(j, e) => i = j
    BY DEF SyncInv, OnePlace
  <2>4. ~(created + 1 <= created)
    BY <1>0
  <2> QED BY <1>2, <2>1, <2>2, <2>3, <2>4
<1>5. RowsBelow'
  <2> SUFFICES ASSUME NEW id \in Ids, row'[id] # NoEvent PROVE id <= created'
    BY DEF RowsBelow, Rows
  <2>1. row[id] # NoEvent => id <= created
    BY DEF SyncInv, RowsBelow, Rows
  <2>2. CASE add_event
    <3>1. NextId <= created + 1
      BY <2>2, NextIdIs DEF SyncInv, add_event
    <3>2. row'[id] = row[id] \/ id = NextId
      BY <2>2 DEF add_event, SyncInv, TypeOK
    <3> QED BY <1>0, <1>1, <2>1, <2>2, <3>1, <3>2 DEF Ids
  <2>3. CASE ~add_event
    BY <1>1, <2>1, <2>3, RowNext
  <2> QED BY <2>2, <2>3
<1> QED BY <1>3, <1>4, <1>5
-----------------------------------------------------------------------------
\* What do_POST has committed stays.
LEMMA HeldGrows ==
  ASSUME SyncInv, [Next]_vars, NEW id \in Ids, server[id] # NoEvent
  PROVE  server'[id] # NoEvent
BY FilledNext

\* A syncer and the handler of its request agree on what was sent.
LEMMA OneHandlerNext == SyncInv /\ [Next]_vars => OneHandler'
<1> SUFFICES ASSUME SyncInv, [Next]_vars PROVE OneHandler'
  OBVIOUS
<1>i. TypeOK /\ OneHandler
  BY DEF SyncInv
<1>t. SyncerType /\ HandlerType
  BY <1>i, TypeParts
<1>f. Free.for = Nobody /\ Nobody \notin Syncers
  BY FreeIs, SyncersAssumption
<1>k. \A t \in Threads : handler[t].for \in Syncers \cup {Nobody}
  BY <1>t DEF HandlerType, HandlerRecord
<1>1. ASSUME NEW s \in Syncers, SyncStart(s) PROVE OneHandler'
  <2>1. PICK t \in Threads :
           /\ handler[t] = Free
           /\ handler' = [handler EXCEPT
                            ![t] = [for |-> s, rows |-> Selected, stage |-> "arrived"]]
    BY <1>1 DEF SyncStart
  <2>2. \A u \in Threads : handler[u].for # s
    BY <1>1, <1>i, <1>f DEF SyncStart, OneHandler
  <2>3. /\ handler'[t].for = s /\ handler'[t].rows = Selected
        /\ \A u \in Threads : u # t => handler'[u] = handler[u]
    BY <1>t, <2>1 DEF HandlerType
  <2>4. /\ at'[s] = "waiting" /\ batch'[s] = Selected
        /\ \A r \in Syncers : r # s => at'[r] = at[r] /\ batch'[r] = batch[r]
    BY <1>1, <1>t DEF SyncStart, SyncerType
  <2>5. ASSUME NEW u \in Threads, handler'[u].for # Nobody
        PROVE  at'[handler'[u].for] = "waiting" /\ handler'[u].rows = batch'[handler'[u].for]
    BY <1>i, <1>k, <2>2, <2>3, <2>4, <2>5 DEF OneHandler
  <2>6. ASSUME NEW u \in Threads, NEW v \in Threads, handler'[u].for # Nobody,
               handler'[u].for = handler'[v].for
        PROVE  u = v
    BY <1>i, <2>2, <2>3, <2>6 DEF OneHandler
  <2> QED BY <2>5, <2>6 DEF OneHandler
<1>2. ASSUME NEW s \in Syncers, SyncAck(s) \/ SyncRejected(s) PROVE OneHandler'
  <2>1. at[s] = "answered" /\ handler' = handler
    BY <1>2 DEF SyncAck, SyncRejected
  <2>2. \A r \in Syncers : r # s => at'[r] = at[r] /\ batch'[r] = batch[r]
    BY <1>2, <1>t DEF SyncAck, SyncRejected, SyncerType
  <2> QED BY <1>i, <1>k, <2>1, <2>2 DEF OneHandler
<1>3. ASSUME NEW s \in Syncers, SyncFails(s) \/ SyncGivesUp(s) PROVE OneHandler'
  <2>1. Leave(s)
    BY <1>3 DEF SyncFails, SyncGivesUp
  <2>2. \A r \in Syncers : r # s => at'[r] = at[r] /\ batch'[r] = batch[r]
    BY <1>t, <2>1 DEF Leave, SyncerType
  <2>3. \A t \in Threads :
              /\ handler'[t].rows = handler[t].rows
              /\ handler'[t].for = IF handler[t].for = s THEN Nobody ELSE handler[t].for
    BY <1>i, <2>1, LeaveType
  <2> QED BY <1>i, <1>k, <2>2, <2>3 DEF OneHandler
<1>4. ASSUME NEW t \in Threads,
             HandlerTooLarge(t) \/ HandlerUnknownNode(t) \/ HandlerAnswers(t)
      PROVE  OneHandler'
  <2>1. PICK code \in {200, 401, 413} : Respond(t, code)
    BY <1>4 DEF HandlerTooLarge, HandlerUnknownNode, HandlerAnswers
  <2>2. batch' = batch
    BY <1>4 DEF HandlerTooLarge, HandlerUnknownNode, HandlerAnswers
  <2>3. \A r \in Syncers : r # handler[t].for => at'[r] = at[r]
    BY <1>i, <2>1, RespondType
  <2>4. \A u \in Threads : handler'[u] = IF u = t THEN Free ELSE handler[u]
    BY <1>t, <2>1 DEF Respond, HandlerType
  <2> QED BY <1>i, <1>k, <1>f, <2>2, <2>3, <2>4 DEF OneHandler
<1>5. ASSUME NEW t \in Threads,
             \/ HandlerTornNodes(t) \/ HandlerAccepts(t) \/ HandlerStores(t)
             \/ RequestLost(t)
      PROVE  OneHandler'
  <2>1. at' = at /\ batch' = batch
    BY <1>5 DEF HandlerTornNodes, HandlerAccepts, HandlerStores, RequestLost
  <2>2. \A u \in Threads : \/ handler'[u].for = Nobody
                           \/ /\ handler'[u].for = handler[u].for
                              /\ handler'[u].rows = handler[u].rows
    BY <1>5, <1>t, <1>f
    DEF HandlerTornNodes, HandlerAccepts, HandlerStores, RequestLost, HandlerType,
        HandlerRecord
  <2> QED BY <1>i, <2>1, <2>2 DEF OneHandler
<1>6. CASE ServerCrash
  <2>1. \A u \in Threads : handler'[u].for = Nobody
    BY <1>6, <1>f DEF ServerCrash
  <2> QED BY <2>1 DEF OneHandler
<1>7. CASE UNCHANGED <<at, batch, handler>>
  BY <1>i, <1>7 DEF OneHandler
<1>8. CASE add_event \/ AdminStart
  BY <1>7, <1>8 DEF add_event, AdminStart
<1>9. ASSUME NEW cutoff \in Events, maintenance(cutoff + 1) PROVE OneHandler'
  BY <1>7, <1>9 DEF maintenance
<1>10. ASSUME NEW to \in {"enrolled", "revoked"}, AdminDone(to) PROVE OneHandler'
  BY <1>7, <1>10 DEF AdminDone
<1>11. CASE UNCHANGED vars
  BY <1>7, <1>11 DEF vars
<1> QED
  BY <1>1, <1>2, <1>3, <1>4, <1>5, <1>6, <1>8, <1>9, <1>10, <1>11 DEF Next, Syncer, Handler

\* The ids of a batch are ids, whoever has it.
LEMMA BatchIds ==
  ASSUME TypeOK
  PROVE  /\ \A t \in Threads : DOMAIN handler[t].rows \subseteq Ids
         /\ \A s \in Syncers : DOMAIN batch[s] \subseteq Ids
<1>1. \A t \in Threads : handler[t].rows \in Batches
  BY TypeParts DEF HandlerType, HandlerRecord
<1>2. \A s \in Syncers : batch[s] \in Batches
  BY DEF TypeOK
<1> QED BY <1>1, <1>2, BatchIs

\* A handler has committed its rows once it is past the insert.
LEMMA StoredHeldNext == SyncInv /\ [Next]_vars => StoredHeld'
<1> SUFFICES ASSUME SyncInv, [Next]_vars, NEW t \in Threads, handler'[t].stage = "stored",
                    NEW id \in DOMAIN handler'[t].rows
             PROVE  server'[id] # NoEvent
  BY DEF StoredHeld, HeldAll
<1>i. TypeOK /\ StoredHeld
  BY DEF SyncInv
<1>t. SyncerType /\ HandlerType
  BY <1>i, TypeParts
<1>f. Free.stage = "free" /\ Free.rows = Empty
  BY FreeIs
<1>1. ASSUME handler'[t].rows = handler[t].rows, handler[t].stage = "stored"
      PROVE  server'[id] # NoEvent
  <2>1. id \in Ids /\ server[id] # NoEvent
    BY <1>1, <1>i, BatchIds DEF StoredHeld, HeldAll
  <2> QED BY <2>1, HeldGrows
<1>2. ASSUME NEW s \in Syncers, SyncStart(s) PROVE handler'[t] = handler[t]
  BY <1>2, <1>t DEF SyncStart, HandlerType
<1>3. ASSUME NEW s \in Syncers, SyncFails(s) \/ SyncGivesUp(s)
      PROVE  handler'[t].rows = handler[t].rows /\ handler[t].stage = "stored"
  BY <1>3, <1>i, LeaveType DEF SyncFails, SyncGivesUp
<1>4. ASSUME NEW u \in Threads,
             \/ HandlerTooLarge(u) \/ HandlerUnknownNode(u) \/ HandlerAnswers(u)
             \/ HandlerTornNodes(u) \/ RequestLost(u) \/ HandlerAccepts(u)
      PROVE  handler'[t] = handler[t]
  BY <1>4, <1>t, <1>f
  DEF HandlerTooLarge, HandlerUnknownNode, HandlerAnswers, HandlerTornNodes, RequestLost,
      HandlerAccepts, Respond, HandlerType, HandlerRecord
<1>5. ASSUME NEW u \in Threads, HandlerStores(u) PROVE server'[id] # NoEvent
  <2>1. CASE u = t
    <3>1. handler'[t].rows = handler[t].rows
      BY <1>5, <1>t, <2>1 DEF HandlerStores, HandlerType, HandlerRecord
    <3>2. id \in Ids /\ handler[t].rows[id] \in Events
      <4>1. handler[t].rows \in Batches
        BY <1>t DEF HandlerType, HandlerRecord
      <4> QED BY <3>1, <4>1, BatchIs
    <3>3. handler[t].rows[id] # NoEvent
      BY <3>2, EventsAssumption DEF Events, NoEvent
    <3> QED BY <1>5, <2>1, <3>1, <3>2, <3>3 DEF HandlerStores
  <2>2. CASE u # t
    <3>1. handler'[t] = handler[t]
      BY <1>5, <1>t, <2>2 DEF HandlerStores, HandlerType
    <3> QED BY <1>1, <3>1
  <2> QED BY <2>1, <2>2
<1>6. ~ServerCrash
  BY <1>f DEF ServerCrash
<1>7. ASSUME NEW s \in Syncers, SyncAck(s) \/ SyncRejected(s) PROVE handler' = handler
  BY <1>7 DEF SyncAck, SyncRejected
<1>8. CASE add_event \/ AdminStart
  BY <1>1, <1>8 DEF add_event, AdminStart
<1>9. ASSUME NEW cutoff \in Events, maintenance(cutoff + 1) PROVE handler' = handler
  BY <1>9 DEF maintenance
<1>10. ASSUME NEW to \in {"enrolled", "revoked"}, AdminDone(to) PROVE handler' = handler
  BY <1>10 DEF AdminDone
<1>11. CASE UNCHANGED vars
  BY <1>1, <1>11 DEF vars
<1> QED
  BY <1>1, <1>2, <1>3, <1>4, <1>5, <1>6, <1>7, <1>8, <1>9, <1>10, <1>11
  DEF Next, Syncer, Handler

\* A syncer that has the answer 200 was sent it after the commit of its batch.
LEMMA AckHeldNext == SyncInv /\ [Next]_vars => AckHeld'
<1> SUFFICES ASSUME SyncInv, [Next]_vars, NEW s \in Syncers, status'[s] = 200,
                    NEW id \in DOMAIN batch'[s]
             PROVE  server'[id] # NoEvent
  BY DEF AckHeld, HeldAll
<1>i. TypeOK /\ StoredHeld /\ AckHeld /\ OneHandler
  BY DEF SyncInv
<1>t. SyncerType /\ HandlerType
  BY <1>i, TypeParts
<1>1. ASSUME status'[s] = status[s], batch'[s] = batch[s] PROVE server'[id] # NoEvent
  <2>1. id \in Ids /\ server[id] # NoEvent
    BY <1>1, <1>i, BatchIds DEF AckHeld, HeldAll
  <2> QED BY <2>1, HeldGrows
<1>2. ASSUME NEW r \in Syncers, SyncStart(r)
      PROVE  status'[s] = status[s] /\ batch'[s] = batch[s]
  <2>1. s # r
    BY <1>2, <1>t DEF SyncStart, SyncerType
  <2> QED BY <1>2, <1>t, <2>1 DEF SyncStart, SyncerType
<1>3. ASSUME NEW r \in Syncers, \/ SyncAck(r) \/ SyncRejected(r)
                                \/ SyncFails(r) \/ SyncGivesUp(r)
      PROVE  status'[s] = status[s] /\ batch'[s] = batch[s]
  <2>1. status' = [status EXCEPT ![r] = 0] /\ batch' = [batch EXCEPT ![r] = Empty]
    BY <1>3 DEF SyncAck, SyncRejected, SyncFails, SyncGivesUp, Leave
  <2> QED BY <1>t, <2>1 DEF SyncerType
<1>4. ASSUME NEW t \in Threads, NEW code \in {200, 401, 413}, Respond(t, code),
             batch' = batch, code = 200 => handler[t].stage = "stored"
      PROVE  server'[id] # NoEvent
  <2>1. CASE s # handler[t].for
    BY <1>1, <1>4, <1>i, <2>1, RespondType
  <2>2. CASE s = handler[t].for
    <3>1. code = 200
      BY <1>4, <1>i, <2>2, RespondType
    <3>2. handler[t].rows = batch[s]
      BY <1>i, <2>2, SyncersAssumption DEF OneHandler
    <3>3. id \in Ids /\ server[id] # NoEvent
      BY <1>4, <1>i, <3>1, <3>2, BatchIds DEF StoredHeld, HeldAll
    <3> QED BY <3>3, HeldGrows
  <2> QED BY <2>1, <2>2
<1>5. ASSUME NEW t \in Threads,
             HandlerTooLarge(t) \/ HandlerUnknownNode(t) \/ HandlerAnswers(t)
      PROVE  server'[id] # NoEvent
  BY <1>4, <1>5 DEF HandlerTooLarge, HandlerUnknownNode, HandlerAnswers
<1>6. ASSUME NEW t \in Threads, \/ HandlerTornNodes(t) \/ HandlerAccepts(t)
                                \/ HandlerStores(t) \/ RequestLost(t)
      PROVE  status' = status /\ batch' = batch
  BY <1>6 DEF HandlerTornNodes, HandlerAccepts, HandlerStores, RequestLost
<1>7. CASE ServerCrash
  BY <1>1, <1>7 DEF ServerCrash
<1>8. CASE add_event \/ AdminStart
  BY <1>1, <1>8 DEF add_event, AdminStart
<1>9. ASSUME NEW cutoff \in Events, maintenance(cutoff + 1)
      PROVE  status' = status /\ batch' = batch
  BY <1>9 DEF maintenance
<1>10. ASSUME NEW to \in {"enrolled", "revoked"}, AdminDone(to)
       PROVE  status' = status /\ batch' = batch
  BY <1>10 DEF AdminDone
<1>11. CASE UNCHANGED vars
  BY <1>1, <1>11 DEF vars
<1> QED
  BY <1>1, <1>2, <1>3, <1>5, <1>6, <1>7, <1>8, <1>9, <1>10, <1>11
  DEF Next, Syncer, Handler

\* The steps that write queue.db.
LEMMA QueueNext ==
  ASSUME SyncInv, [Next]_vars
  PROVE  \/ add_event \/ UNCHANGED <<row, synced>>
         \/ \E s \in Syncers : SyncAck(s)
         \/ \E cutoff \in Events : maintenance(cutoff + 1)
BY DEF Next, vars, Syncer, Handler, SyncStart, SyncRejected, SyncFails, SyncGivesUp,
       HandlerTooLarge, HandlerUnknownNode, HandlerTornNodes, HandlerAccepts,
       HandlerStores, HandlerAnswers, RequestLost, ServerCrash, AdminStart, AdminDone

\* Rows are marked after their ids are held; a row that takes an old id is not.
LEMMA SyncedNext == SyncInv /\ [Next]_vars => SyncedIsHeld'
<1> SUFFICES ASSUME SyncInv, [Next]_vars, NEW id \in Ids, row'[id] # NoEvent, synced'[id]
             PROVE  server'[id] # NoEvent
  BY DEF SyncedIsHeld, Rows
<1>i. TypeOK /\ AckHeld /\ SyncedIsHeld /\ RowsBelow
  BY DEF SyncInv
<1>1. ASSUME row[id] # NoEvent, synced[id] PROVE server'[id] # NoEvent
  <2>1. server[id] # NoEvent
    BY <1>1, <1>i DEF SyncedIsHeld, Rows
  <2> QED BY <2>1, HeldGrows
<1>2. ASSUME add_event PROVE row[id] # NoEvent /\ synced[id]
  BY <1>2, <1>i DEF add_event, TypeOK
<1>3. ASSUME NEW s \in Syncers, SyncAck(s) PROVE server'[id] # NoEvent
  <2>1. row' = row /\ (synced[id] \/ id \in DOMAIN batch[s]) /\ status[s] = 200
    BY <1>3 DEF SyncAck
  <2>2. CASE id \in DOMAIN batch[s]
    BY <1>i, <2>1, <2>2, HeldGrows DEF AckHeld, HeldAll
  <2> QED BY <1>1, <2>1, <2>2
<1>4. ASSUME NEW cutoff \in Events, maintenance(cutoff + 1)
      PROVE  row[id] # NoEvent /\ synced[id]
  BY <1>4 DEF maintenance
<1>5. CASE UNCHANGED <<row, synced>>
  BY <1>1, <1>5
<1> QED BY <1>1, <1>2, <1>3, <1>4, <1>5, QueueNext

LEMMA ReuseIsRemembered ==
  ASSUME SyncInv, [Next]_vars, ~reused'
  PROVE  ~reused
<1>1. CASE add_event
  <2>1. reused' = (reused \/ NextId <= created)
    BY <1>1 DEF add_event
  <2> QED BY <2>1, Zenon
<1>2. CASE ~add_event
  BY <1>2, RowNext
<1> QED BY <1>1, <1>2

\* While no id is reused nothing is out of place, lost, or sent out of order.
LEMMA OrderedNext == SyncInv /\ [Next]_vars => (~reused => Ordered)'
<1> SUFFICES ASSUME SyncInv, [Next]_vars, ~reused' PROVE Ordered'
  OBVIOUS
<1>i. TypeOK /\ RowsBelow /\ SyncedIsHeld
  BY DEF SyncInv
<1>n. MaxEvents \in Nat /\ created \in Nat
  BY <1>i, EventsAssumption DEF TypeOK
<1>0. ~reused /\ SameId /\ Kept /\ \A t \in Threads : GapFree(handler[t].rows)
  BY ReuseIsRemembered DEF SyncInv, Ordered
<1>a. add_event => NextId = created + 1 /\ created' = created + 1
  <2> SUFFICES ASSUME add_event PROVE NextId = created + 1 /\ created' = created + 1
    OBVIOUS
  <2>1. NextId \in Ids /\ NextId <= created + 1 /\ ~(NextId <= created)
    BY <1>i, NextIdIs DEF add_event
  <2> QED BY <1>n, <2>1 DEF add_event, Ids
<1>1. SameId'
  <2> SUFFICES ASSUME NEW e \in Events, NEW i \in Ids, Placed(i, e)' PROVE i = e
    BY DEF SameId
  <2> QED BY <1>0, <1>a, PlacedNext DEF SameId
<1>2. Kept'
  <2> SUFFICES ASSUME NEW e \in 1..created' PROVE row'[e] # NoEvent \/ server'[e] # NoEvent
    BY DEF Kept
  <2>1. CASE add_event
    <3>1. NextId \in Ids
      BY <1>i, <2>1, NextIdIs DEF add_event
    <3>2. CASE e = created + 1
      BY <1>a, <1>i, <1>n, <2>1, <3>1, <3>2 DEF add_event, TypeOK, NoEvent
    <3>3. CASE e # created + 1
      <4>1. e \in 1..created /\ e \in Ids
        BY <1>a, <1>n, <2>1, <3>3 DEF add_event, Ids
      <4>2. row'[e] = row[e] /\ server'[e] = server[e]
        BY <1>a, <1>i, <2>1, <3>3, <4>1 DEF add_event, TypeOK
      <4> QED BY <1>0, <4>1, <4>2 DEF Kept
    <3> QED BY <3>2, <3>3
  <2>2. CASE ~add_event
    <3>1. e \in 1..created /\ e \in Ids
      BY <2>2, <1>i, <1>n, RowNext DEF Ids, TypeOK
    <3>2. row[e] # NoEvent \/ server[e] # NoEvent
      BY <1>0, <3>1 DEF Kept
    <3>3. ASSUME row[e] # NoEvent, row'[e] = NoEvent PROVE server[e] # NoEvent
      <4>1. PICK cutoff \in Events : maintenance(cutoff + 1)
        BY <2>2, <3>3, QueueNext DEF SyncAck
      <4>2. synced[e]
        BY <3>1, <3>3, <4>1 DEF maintenance
      <4> QED BY <1>i, <3>1, <3>3, <4>2 DEF SyncedIsHeld, Rows
    <3> QED BY <3>1, <3>2, <3>3, HeldGrows
  <2> QED BY <2>1, <2>2
<1>3. ASSUME NEW t \in Threads PROVE GapFree(handler[t].rows)'
  <2> SUFFICES ASSUME NEW j \in DOMAIN handler'[t].rows, NEW i \in Ids, i < j
               PROVE  i \in DOMAIN handler'[t].rows \/ server'[i] # NoEvent
    BY DEF GapFree
  <2>1. handler'[t].rows \in {handler[t].rows, Empty, Selected}
    BY TransitNext
  <2>2. CASE handler'[t].rows = handler[t].rows
    BY <1>0, <2>2, HeldGrows DEF GapFree
  <2>3. handler'[t].rows # Empty
    BY EmptyIs
  <2>4. CASE handler'[t].rows = Selected
    <3>1. j \in Pending
      BY <1>i, <2>4, SelectedIs
    <3>2. j \in Ids /\ j <= created
      BY <1>i, <3>1 DEF Pending, Rows, RowsBelow
    <3>3. i \in 1..created
      BY <1>n, <3>2 DEF Ids
    <3>4. row[i] # NoEvent \/ server[i] # NoEvent
      BY <1>0, <3>3 DEF Kept
    <3>5. CASE server[i] # NoEvent
      BY <3>5, HeldGrows
    <3>6. CASE row[i] # NoEvent /\ ~synced[i]
      <4>1. i \in Pending
        BY <3>6 DEF Pending, Rows
      <4> QED BY <1>i, <2>4, <4>1, SelectedIs
    <3>7. CASE row[i] # NoEvent /\ synced[i]
      BY <1>i, <3>5, <3>7 DEF SyncedIsHeld, Rows
    <3> QED BY <3>4, <3>5, <3>6, <3>7
  <2> QED BY <2>1, <2>2, <2>3, <2>4
<1> QED BY <1>1, <1>2, <1>3 DEF Ordered

\* A batch without gaps is stored as a whole.
LEMMA NoGapsNext == SyncInv /\ [Next]_vars => NoGaps'
<1> SUFFICES ASSUME SyncInv, [Next]_vars, ~reused', NEW i \in Ids, NEW j \in Ids,
                    i < j, server'[j] # NoEvent
             PROVE  server'[i] # NoEvent
  BY DEF NoGaps
<1>0. ~reused /\ NoGaps /\ TypeOK /\ \A t \in Threads : GapFree(handler[t].rows)
  BY ReuseIsRemembered DEF SyncInv, Ordered
<1>1. CASE server[j] # NoEvent
  BY <1>0, <1>1, HeldGrows DEF NoGaps
<1>2. CASE server[j] = NoEvent
  <2>1. PICK t \in Threads : HandlerStores(t)
    BY <1>2, StoreNext
  <2>2. j \in DOMAIN handler[t].rows
    BY <1>2, <2>1 DEF HandlerStores
  <2>3. i \in DOMAIN handler[t].rows \/ server[i] # NoEvent
    BY <1>0, <2>2 DEF GapFree
  <2>4. handler[t].rows \in Batches
    BY <1>0, TypeParts DEF HandlerType, HandlerRecord
  <2>5. i \in DOMAIN handler[t].rows => handler[t].rows[i] # NoEvent
    BY <2>4, BatchIs, EventsAssumption DEF Events, NoEvent
  <2> QED BY <2>1, <2>3, <2>5 DEF HandlerStores
<1> QED BY <1>1, <1>2

LEMMA SyncInvNext == SyncInv /\ [Next]_vars => SyncInv'
BY TypeNext, PlaceInvNext, OneHandlerNext, StoredHeldNext, AckHeldNext, SyncedNext,
   OrderedNext, NoGapsNext
DEF SyncInv

LEMMA SyncInvHolds == Spec => []SyncInv
BY InitInv, SyncInvNext, PTL DEF Spec
-----------------------------------------------------------------------------
\* The tables, the programs and the threads keep their types.
THEOREM TypeCorrect == Spec => []TypeOK
<1>1. SyncInv => TypeOK
  BY DEF SyncInv
<1> QED BY <1>1, SyncInvHolds, PTL

\* A row that sync_once has marked is held by the receiver under its id.
THEOREM MarkedIsHeld == Spec => []SyncedIsHeld
<1>1. SyncInv => SyncedIsHeld
  BY DEF SyncInv
<1> QED BY <1>1, SyncInvHolds, PTL

\* Retries, two syncers and two handlers with one batch store no event twice.
THEOREM NoDuplicates == Spec => []StoredOnce
<1>1. SyncInv => StoredOnce
  <2> SUFFICES ASSUME SyncInv, NEW i \in Ids, NEW j \in Ids, server[i] # NoEvent,
                      server[i] = server[j]
               PROVE  i = j
    BY DEF StoredOnce
  <2>1. server[i] \in Events
    BY DEF SyncInv, TypeOK
  <2> QED BY <2>1 DEF SyncInv, OnePlace, Placed
<1> QED BY <1>1, SyncInvHolds, PTL

\* A loss needs a reused id: no crash, time-out, late or lost answer or
\* retention run is enough.
THEOREM OnlyReuseLoses == Spec => []LossNeedsReuse
<1>1. SyncInv => LossNeedsReuse
  <2> SUFFICES ASSUME SyncInv, ~reused, NEW e \in 1..created PROVE Queued(e) \/ Stored(e)
    BY DEF LossNeedsReuse, NoEventLost
  <2>0. TypeOK /\ SameId /\ Kept /\ SyncedIsHeld
    BY DEF SyncInv, Ordered
  <2>1. e \in Ids
    BY <2>0, EventsAssumption DEF TypeOK, Ids
  <2>2. server[e] # NoEvent => server[e] = e
    BY <2>0, <2>1 DEF TypeOK, SameId, Placed
  <2>3. row[e] # NoEvent => row[e] = e
    BY <2>0, <2>1 DEF TypeOK, SameId, Placed
  <2>4. row[e] # NoEvent \/ server[e] # NoEvent
    BY <2>0 DEF Kept
  <2>5. CASE server[e] # NoEvent
    BY <2>1, <2>2, <2>5 DEF Stored
  <2>6. CASE row[e] # NoEvent /\ ~synced[e]
    BY <2>1, <2>3, <2>6 DEF Queued, Pending, Rows
  <2>7. CASE row[e] # NoEvent /\ synced[e]
    BY <2>0, <2>1, <2>5, <2>7 DEF SyncedIsHeld, Rows
  <2> QED BY <2>4, <2>5, <2>6, <2>7
<1> QED BY <1>1, SyncInvHolds, PTL

\* The receiver's copy is a prefix of the queue's history.
THEOREM PrefixStored == Spec => []NoGaps
<1>1. SyncInv => NoGaps
  BY DEF SyncInv
<1> QED BY <1>1, SyncInvHolds, PTL
-----------------------------------------------------------------------------
\* Every initial state is one of the event store ...
LEMMA StoreInit == Init => Store!Init
BY DEF Init, Store!Init, Rows

\* ... and every step is a step of it, or leaves it alone.
LEMMA StoreStep == SyncInv /\ [Next]_vars => [Store!Next]_(Store!storeVars)
<1> SUFFICES ASSUME SyncInv, [Next]_vars PROVE [Store!Next]_(Store!storeVars)
  OBVIOUS
<1>i. TypeOK /\ RowsBelow /\ SyncedIsHeld /\ OnlyRecorded /\ SyncedIsHeld'
  BY SyncedNext DEF SyncInv
<1>n. MaxEvents \in Nat /\ created \in Nat
  BY <1>i, EventsAssumption DEF TypeOK
<1>1. CASE add_event
  <2>1. NextId \in Ids /\ NextId \notin Rows
    BY <1>1, <1>i, NextIdIs DEF add_event
  <2>2. {id \in Rows : synced[id]}' = {id \in Rows : synced[id]}
    <3>1. \A id \in Ids : id # NextId => row'[id] = row[id] /\ synced'[id] = synced[id]
      BY <1>1, <1>i DEF add_event, TypeOK
    <3>2. ~synced'[NextId] /\ row[NextId] = NoEvent
      BY <1>1, <1>i, <2>1 DEF add_event, TypeOK, Rows
    <3> QED BY <3>1, <3>2 DEF Rows
  <2>3. created + 1 \in Events \ (1..created) /\ (1..created)' = (1..created) \cup {created + 1}
    BY <1>1, <1>n DEF add_event, Events
  <2>4. server' = server
    BY <1>1 DEF add_event
  <2>5. Store!Happen
    BY <2>2, <2>3, <2>4 DEF Store!Happen
  <2> QED BY <2>5 DEF Store!Next
<1>2. ASSUME NEW t \in Threads, HandlerStores(t) PROVE Store!Keep
  <2>1. UNCHANGED <<created, row, synced>>
    BY <1>2 DEF HandlerStores
  <2>2. \A id \in Ids : server[id] # NoEvent => server'[id] = server[id]
    BY <1>2 DEF HandlerStores
  <2>3. ASSUME NEW id \in Ids PROVE server'[id] \in (1..created) \cup {NoEvent}
    <3>1. server'[id] \in Events \cup {NoEvent}
      BY TypeNext DEF TypeOK
    <3>2. \A e \in Events : Placed(id, e) => e \in 1..created
      BY <1>i, <1>n DEF OnlyRecorded, Events
    <3>3. server'[id] = server[id] \/ In(handler[t].rows, id, server'[id])
      BY <1>2 DEF HandlerStores, In
    <3> QED BY <3>1, <3>2, <3>3 DEF Placed
  <2>4. server' \in [Ids -> (1..created) \cup {NoEvent}]
    BY <1>2, <2>3 DEF HandlerStores
  <2>5. UNCHANGED <<1..created, {id \in Rows : synced[id]}>>
    BY <2>1 DEF Rows
  <2> QED BY <2>2, <2>4, <2>5 DEF Store!Keep
<1>3. ASSUME NEW s \in Syncers, SyncAck(s) PROVE Store!Confirm
  <2>1. UNCHANGED <<created, row, server>>
    BY <1>3 DEF SyncAck
  <2>2. Rows' = Rows
    BY <2>1 DEF Rows
  <2>3. \A id \in Ids : synced[id] => synced'[id]
    BY <1>3 DEF SyncAck
  <2>4. {id \in Rows : synced[id]} \subseteq {id \in Rows : synced[id]}'
    BY <2>2, <2>3 DEF Rows
  <2>5. \A id \in {id \in Rows : synced[id]}' : id \in Ids /\ server[id] # NoEvent
    BY <1>i, <2>1 DEF SyncedIsHeld, Rows
  <2>6. UNCHANGED <<1..created, server>>
    BY <2>1
  <2> QED BY <2>4, <2>5, <2>6 DEF Store!Confirm
<1>4. ASSUME NEW cutoff \in Events, maintenance(cutoff + 1) PROVE Store!Forget
  <2>1. UNCHANGED <<created, server>>
    BY <1>4 DEF maintenance
  <2>2. \A id \in Ids : row'[id] # NoEvent /\ synced'[id] => row[id] # NoEvent /\ synced[id]
    BY <1>4 DEF maintenance
  <2>3. {id \in Rows : synced[id]}' \subseteq {id \in Rows : synced[id]}
    BY <2>2 DEF Rows
  <2> QED BY <2>1, <2>3 DEF Store!Forget
<1>5. CASE UNCHANGED <<created, row, synced, server>>
  BY <1>5 DEF Store!storeVars, Rows
<1>6. \/ add_event \/ UNCHANGED <<created, row, synced, server>>
      \/ \E s \in Syncers : SyncAck(s)
      \/ \E t \in Threads : HandlerStores(t)
      \/ \E cutoff \in Events : maintenance(cutoff + 1)
  BY DEF Next, vars, Syncer, Handler, SyncStart, SyncRejected, SyncFails, SyncGivesUp,
         HandlerTooLarge, HandlerUnknownNode, HandlerTornNodes, HandlerAccepts,
         HandlerAnswers, RequestLost, ServerCrash, AdminStart, AdminDone
<1> QED BY <1>1, <1>2, <1>3, <1>4, <1>5, <1>6 DEF Store!Next

\* Event delivery implements the event store.
THEOREM Refinement == Spec => ImplementsEventStore
BY StoreInit, StoreStep, SyncInvHolds, PTL DEF Spec, ImplementsEventStore, Store!Spec
=============================================================================
