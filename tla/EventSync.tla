------------------------------ MODULE EventSync ------------------------------
(***************************************************************************)
(* Event delivery of ChronoOS 1.3: the offline queue of a node             *)
(* (chronoos/agent.py) and the receiver that stores its events             *)
(* (chronoos/server.py).                                                   *)
(*                                                                         *)
(* The queue is an SQLite table whose id is INTEGER PRIMARY KEY without    *)
(* AUTOINCREMENT: an insert takes one more than the largest id present.    *)
(* Two programs may run sync_once at a time, the ChronoD daemon and a      *)
(* "chrono sync" of the operator.  The receiver is a threading HTTP        *)
(* server; a handler goes on when its client has timed out, and a crash    *)
(* of the server ends all of them.  Each SQLite transaction is one step.   *)
(***************************************************************************)
EXTENDS Integers, FiniteSets, FiniteSetsExt

CONSTANTS
  MaxEvents,   \* bound: events a node records
  Size,        \* the bytes an event adds to a request body
  MaxBody,     \* 1_000_000 in do_POST
  BatchLimit,  \* LIMIT 100 in sync_once
  Syncers,     \* the programs that may run sync_once
  Daemon,      \* the one that runs it for ever
  Threads,     \* bound: handler threads alive at a time
  MaxFaults,   \* bound: lost connections, time-outs and crashes
  MaxAdmin     \* bound: enroll and revoke commands

Events == 1..MaxEvents
Ids == 1..MaxEvents
NoEvent == 0
Nobody == "nobody"

ASSUME EventsAssumption == MaxEvents \in Nat /\ Size \in [Events -> Nat] /\ MaxBody \in Nat
ASSUME BatchAssumption == BatchLimit \in Nat \ {0}
ASSUME SyncersAssumption == Daemon \in Syncers /\ Nobody \notin Syncers
ASSUME BoundsAssumption == MaxFaults \in Nat /\ MaxAdmin \in Nat

VARIABLES
  row,      \* queue.db: the event in row id, NoEvent if there is no such row
  synced,   \* queue.db: the synced column
  created,  \* events recorded so far; an event's number is also its age
  at,       \* where each syncer is: "idle", "waiting" or "answered"
  batch,    \* the rows a syncer selected: a function from ids to events
  status,   \* the HTTP status a syncer received
  handler,  \* per thread: [for, rows, stage], for = Nobody once the client left
  server,   \* server.db of this node: the event stored under eid
  nodes,    \* nodes.json: "enrolled", "revoked", or "torn" while rewritten
  faults, admin,
  reused    \* history: an id was given out a second time

vars == <<row, synced, created, at, batch, status, handler, server, nodes,
          faults, admin, reused>>

Empty == [id \in {} |-> NoEvent]
Free == [for |-> Nobody, rows |-> Empty, stage |-> "free"]

Init ==
  /\ row = [id \in Ids |-> NoEvent]
  /\ synced = [id \in Ids |-> FALSE]
  /\ created = 0
  /\ at = [s \in Syncers |-> "idle"]
  /\ batch = [s \in Syncers |-> Empty]
  /\ status = [s \in Syncers |-> 0]
  /\ handler = [t \in Threads |-> Free]
  /\ server = [id \in Ids |-> NoEvent]
  /\ nodes = "enrolled"
  /\ faults = 0 /\ admin = 0
  /\ reused = FALSE
-----------------------------------------------------------------------------
Rows == {id \in Ids : row[id] # NoEvent}
Pending == {id \in Rows : ~synced[id]}

\* SQLite's choice of a rowid: one more than the largest, 1 in an empty table.
NextId == IF Rows = {} THEN 1 ELSE Max(Rows) + 1

\* add_event: a signed row with synced = 0.
add_event ==
  /\ created < MaxEvents
  /\ created' = created + 1
  /\ row' = [row EXCEPT ![NextId] = created + 1]
  /\ synced' = [synced EXCEPT ![NextId] = FALSE]
  /\ reused' = (reused \/ NextId <= created)
  /\ UNCHANGED <<at, batch, status, handler, server, nodes, faults, admin>>

\* SELECT ... WHERE synced=0 ORDER BY id LIMIT BatchLimit.
Selected ==
  LET ids == {id \in Pending : Cardinality({j \in Pending : j < id}) < BatchLimit}
  IN  [id \in ids |-> row[id]]

\* sync_once up to conn.request: the server starts a thread for the request.
SyncStart(s) ==
  /\ at[s] = "idle" /\ Pending # {}
  /\ \E t \in Threads :
       /\ handler[t] = Free
       /\ handler' = [handler EXCEPT
                        ![t] = [for |-> s, rows |-> Selected, stage |-> "arrived"]]
  /\ batch' = [batch EXCEPT ![s] = Selected]
  /\ at' = [at EXCEPT ![s] = "waiting"]
  /\ UNCHANGED <<row, synced, created, status, server, nodes, faults, admin, reused>>

\* Fault: UPDATE without its WHERE id=?.
SyncAckAll(s) ==
  /\ at[s] = "answered" /\ status[s] = 200
  /\ synced' = [id \in Ids |-> synced[id] \/ id \in Rows]
  /\ at' = [at EXCEPT ![s] = "idle"]
  /\ batch' = [batch EXCEPT ![s] = Empty]
  /\ status' = [status EXCEPT ![s] = 0]
  /\ UNCHANGED <<row, created, handler, server, nodes, faults, admin, reused>>

\* Fault: any answer counts as success.
SyncAckAnyStatus(s) ==
  /\ at[s] = "answered"
  /\ synced' = [id \in Ids |-> synced[id] \/ (id \in Rows \cap DOMAIN batch[s])]
  /\ at' = [at EXCEPT ![s] = "idle"]
  /\ batch' = [batch EXCEPT ![s] = Empty]
  /\ status' = [status EXCEPT ![s] = 0]
  /\ UNCHANGED <<row, created, handler, server, nodes, faults, admin, reused>>

\* status == 200: the ids that were sent are marked, whatever the rows hold now.
SyncAck(s) ==
  /\ at[s] = "answered" /\ status[s] = 200
  /\ synced' = [id \in Ids |-> synced[id] \/ (id \in Rows \cap DOMAIN batch[s])]
  /\ at' = [at EXCEPT ![s] = "idle"]
  /\ batch' = [batch EXCEPT ![s] = Empty]
  /\ status' = [status EXCEPT ![s] = 0]
  /\ UNCHANGED <<row, created, handler, server, nodes, faults, admin, reused>>

\* Fault: the rows of a rejected batch are kept for the next round.
SyncRejectedKeepsRows(s) ==
  /\ at[s] = "answered" /\ status[s] # 200
  /\ at' = [at EXCEPT ![s] = "idle"]
  /\ status' = [status EXCEPT ![s] = 0]
  /\ UNCHANGED <<row, synced, created, batch, handler, server, nodes, faults, admin, reused>>

\* Any other status: the events stay in the queue.
SyncRejected(s) ==
  /\ at[s] = "answered" /\ status[s] # 200
  /\ at' = [at EXCEPT ![s] = "idle"]
  /\ batch' = [batch EXCEPT ![s] = Empty]
  /\ status' = [status EXCEPT ![s] = 0]
  /\ UNCHANGED <<row, synced, created, handler, server, nodes, faults, admin, reused>>

Leave(s) ==
  /\ at' = [at EXCEPT ![s] = "idle"]
  /\ batch' = [batch EXCEPT ![s] = Empty]
  /\ status' = [status EXCEPT ![s] = 0]
  /\ handler' = [t \in Threads |-> IF handler[t].for = s
                                   THEN [handler[t] EXCEPT !.for = Nobody]
                                   ELSE handler[t]]

Served(s) == \E t \in Threads : handler[t].for = s

\* Fault: no time-out, a broken connection is waited for.
SyncHangs(s) ==
  /\ at[s] = "waiting" /\ ~Served(s)
  /\ UNCHANGED vars

\* The connection broke: _post raises and the rows stay pending.
SyncFails(s) ==
  /\ at[s] = "waiting" /\ ~Served(s)
  /\ Leave(s)
  /\ UNCHANGED <<row, synced, created, server, nodes, faults, admin, reused>>

\* The ten second time-out, or the program is killed, at any point; an answer
\* already received is lost as well.
SyncGivesUp(s) ==
  /\ at[s] # "idle" /\ faults < MaxFaults
  /\ Leave(s)
  /\ faults' = faults + 1
  /\ UNCHANGED <<row, synced, created, server, nodes, admin, reused>>

\* maintenance: DELETE WHERE synced=1 AND ts < cutoff.
maintenance(cutoff) ==
  /\ \E id \in Rows : synced[id] /\ row[id] < cutoff
  /\ row' = [id \in Ids |-> IF synced[id] /\ row[id] < cutoff THEN NoEvent ELSE row[id]]
  /\ synced' = [id \in Ids |-> synced[id] /\ ~(row[id] < cutoff)]
  /\ UNCHANGED <<created, at, batch, status, handler, server, nodes, faults, admin, reused>>
-----------------------------------------------------------------------------
\* _r: the answer reaches the client if it still waits; the thread ends.
Respond(t, code) ==
  LET s == handler[t].for IN
  /\ handler' = [handler EXCEPT ![t] = Free]
  /\ at' = IF s = Nobody THEN at ELSE [at EXCEPT ![s] = "answered"]
  /\ status' = IF s = Nobody THEN status ELSE [status EXCEPT ![s] = code]

Body(rows) == MapThenSumSet(LAMBDA id : Size[rows[id]], DOMAIN rows)

\* do_POST, the checks: the size before anything else, then nodes.json.
HandlerTooLarge(t) ==
  /\ handler[t].stage = "arrived" /\ Body(handler[t].rows) > MaxBody
  /\ Respond(t, 413)
  /\ UNCHANGED <<row, synced, created, batch, server, nodes, faults, admin, reused>>

HandlerUnknownNode(t) ==
  /\ handler[t].stage = "arrived" /\ Body(handler[t].rows) <= MaxBody
  /\ nodes = "revoked"
  /\ Respond(t, 401)
  /\ UNCHANGED <<row, synced, created, batch, server, nodes, faults, admin, reused>>

\* json.loads on a nodes.json that is being rewritten raises outside the
\* handler's try: the thread ends and the connection is closed unanswered.
HandlerTornNodes(t) ==
  /\ handler[t].stage = "arrived" /\ Body(handler[t].rows) <= MaxBody
  /\ nodes = "torn"
  /\ handler' = [handler EXCEPT ![t] = Free]
  /\ UNCHANGED <<row, synced, created, at, batch, status, server, nodes, faults,
                 admin, reused>>

HandlerAccepts(t) ==
  /\ handler[t].stage = "arrived" /\ Body(handler[t].rows) <= MaxBody
  /\ nodes = "enrolled"
  /\ handler' = [handler EXCEPT ![t].stage = "checked"]
  /\ UNCHANGED <<row, synced, created, at, batch, status, server, nodes, faults,
                 admin, reused>>

\* Fault: INSERT OR REPLACE.
HandlerReplaces(t) ==
  /\ handler[t].stage = "checked"
  /\ server' = [id \in Ids |-> IF id \in DOMAIN handler[t].rows
                               THEN handler[t].rows[id] ELSE server[id]]
  /\ handler' = [handler EXCEPT ![t].stage = "stored"]
  /\ UNCHANGED <<row, synced, created, at, batch, status, nodes, faults, admin, reused>>

\* Fault: no PRIMARY KEY(node, eid), a row takes the next place of the table.
HandlerAppends(t) ==
  LET rows == handler[t].rows
      unused == {id \in Ids : server[id] = NoEvent}
  IN
  /\ handler[t].stage = "checked"
  /\ server' = IF unused = {} THEN server
               ELSE [server EXCEPT ![Min(unused)] = rows[Min(DOMAIN rows)]]
  /\ handler' = [handler EXCEPT ![t].stage = "stored"]
  /\ UNCHANGED <<row, synced, created, at, batch, status, nodes, faults, admin, reused>>

\* Fault: the INSERT stands after the loop and stores the last event only.
HandlerStoresLast(t) ==
  LET last == Max(DOMAIN handler[t].rows) IN
  /\ handler[t].stage = "checked"
  /\ server' = IF server[last] = NoEvent
               THEN [server EXCEPT ![last] = handler[t].rows[last]] ELSE server
  /\ handler' = [handler EXCEPT ![t].stage = "stored"]
  /\ UNCHANGED <<row, synced, created, at, batch, status, nodes, faults, admin, reused>>

\* INSERT OR IGNORE under PRIMARY KEY(node, eid), committed at once.
HandlerStores(t) ==
  /\ handler[t].stage = "checked"
  /\ server' = [id \in Ids |-> IF server[id] = NoEvent /\ id \in DOMAIN handler[t].rows
                               THEN handler[t].rows[id] ELSE server[id]]
  /\ handler' = [handler EXCEPT ![t].stage = "stored"]
  /\ UNCHANGED <<row, synced, created, at, batch, status, nodes, faults, admin, reused>>

HandlerAnswers(t) ==
  /\ handler[t].stage = "stored"
  /\ Respond(t, 200)
  /\ UNCHANGED <<row, synced, created, batch, server, nodes, faults, admin, reused>>

\* The server goes down and is started again: every thread is gone, what was
\* committed stays.
ServerCrash ==
  /\ faults < MaxFaults
  /\ handler' = [t \in Threads |-> Free]
  /\ faults' = faults + 1
  /\ UNCHANGED <<row, synced, created, at, batch, status, server, nodes, admin, reused>>

\* A connection breaks before the request is read.
RequestLost(t) ==
  /\ handler[t].stage = "arrived" /\ faults < MaxFaults
  /\ handler' = [handler EXCEPT ![t] = Free]
  /\ faults' = faults + 1
  /\ UNCHANGED <<row, synced, created, at, batch, status, server, nodes, admin, reused>>

\* enroll and revoke read nodes.json and rewrite it with write_text, which
\* truncates first; they raise on a file that is torn, and revoke on a node
\* that is not there.
AdminStart ==
  /\ admin < MaxAdmin /\ nodes # "torn"
  /\ nodes' = "torn"
  /\ admin' = admin + 1
  /\ UNCHANGED <<row, synced, created, at, batch, status, handler, server, faults, reused>>

AdminDone(to) ==
  /\ nodes = "torn"
  /\ nodes' = to
  /\ UNCHANGED <<row, synced, created, at, batch, status, handler, server, faults,
                 admin, reused>>
-----------------------------------------------------------------------------
Syncer(s) == SyncStart(s) \/ SyncAck(s) \/ SyncRejected(s) \/ SyncFails(s)
Handler(t) ==
  \/ HandlerTooLarge(t) \/ HandlerUnknownNode(t) \/ HandlerTornNodes(t)
  \/ HandlerAccepts(t) \/ HandlerStores(t) \/ HandlerAnswers(t)

Next ==
  \/ add_event
  \/ \E cutoff \in Events : maintenance(cutoff + 1)
  \/ \E s \in Syncers : Syncer(s) \/ SyncGivesUp(s)
  \/ \E t \in Threads : Handler(t) \/ RequestLost(t)
  \/ ServerCrash
  \/ AdminStart \/ \E to \in {"enrolled", "revoked"} : AdminDone(to)

Spec == Init /\ [][Next]_vars

\* The daemon retries every 30 seconds, a started sync_once and a started
\* handler go on; the operator's sync need never be run, and an enroll or
\* revoke may die while it rewrites nodes.json.
Fairness ==
  /\ WF_vars(SyncStart(Daemon))
  /\ \A s \in Syncers : WF_vars(SyncAck(s) \/ SyncRejected(s) \/ SyncFails(s))
  /\ \A t \in Threads : WF_vars(Handler(t))
FairSpec == Spec /\ Fairness
-----------------------------------------------------------------------------
Batches == UNION {[ids -> Events] : ids \in SUBSET Ids}

TypeOK ==
  /\ row \in [Ids -> Events \cup {NoEvent}]
  /\ synced \in [Ids -> BOOLEAN]
  /\ created \in 0..MaxEvents
  /\ at \in [Syncers -> {"idle", "waiting", "answered"}]
  /\ batch \in [Syncers -> Batches]
  /\ status \in [Syncers -> {0, 200, 401, 413}]
  /\ handler \in [Threads -> [for : Syncers \cup {Nobody}, rows : Batches,
                              stage : {"free", "arrived", "checked", "stored"}]]
  /\ server \in [Ids -> Events \cup {NoEvent}]
  /\ nodes \in {"enrolled", "revoked", "torn"}
  /\ faults \in 0..MaxFaults /\ admin \in 0..MaxAdmin
  /\ reused \in BOOLEAN
  /\ \A s \in Syncers : at[s] = "idle" => batch[s] = Empty /\ status[s] = 0

Queued(e) == \E id \in Pending : row[id] = e
Stored(e) == \E id \in Ids : server[id] = e

\* "persistent offline event queue with retrying sync" (chronoos-1.3/README.md):
\* an event is pending in the queue until the receiver has stored it.
NoEventLost == \A e \in 1..created : Queued(e) \/ Stored(e)

\* No crash, time-out, lost answer, stale answer or retention run loses an
\* event as long as no id is given out twice.
LossNeedsReuse == reused \/ NoEventLost

\* A row marked synced has an id under which the receiver holds an event,
\* also when the answer that marked it was late or lost before.
SyncedIsHeld == \A id \in Rows : synced[id] => server[id] # NoEvent

\* "replay of a batch does not duplicate events" (SECURITY-AND-READINESS.md):
\* whatever is retried or processed by two handlers, an event is stored once.
StoredOnce ==
  \A i, j \in Ids : server[i] # NoEvent /\ server[i] = server[j] => i = j

\* sync_once sends the oldest rows first and a batch is stored as a whole, so
\* the receiver's copy has no gaps: an event is there only with all earlier ones.
NoGaps ==
  reused \/ \A i, j \in Ids : i < j /\ server[j] # NoEvent => server[i] # NoEvent

\* Queue, batches, retries, two syncers, handler threads and crashes together
\* implement the event store: what do_POST has stored is never changed, only
\* recorded events are stored, and sync_once marks an id only when it is held.
Store == INSTANCE EventStore WITH
  recorded <- 1..created, store <- server, delivered <- {id \in Rows : synced[id]}
ImplementsEventStore == Store!Spec

\* If the node stays enrolled and its oldest rows fit a request, the queue
\* drains, whatever was lost on the way.
QueueDrains ==
  <>[](nodes = "enrolled" /\ Body(Selected) <= MaxBody) => <>[](Pending = {})
=============================================================================
