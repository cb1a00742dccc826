----------------------------- MODULE EventStore -----------------------------
(***************************************************************************)
(* What event delivery promises, without queue, network or threads: a      *)
(* store in which an id is given its event once and for good, by batches   *)
(* of events the node has recorded, and a node that takes an id for        *)
(* delivered only when the store has it.                                   *)
(***************************************************************************)
EXTENDS Integers

CONSTANTS Events, Ids, NoEvent

VARIABLES
  recorded,   \* the events that have happened
  store,      \* the event kept under each id
  delivered   \* the ids the node takes for delivered

storeVars == <<recorded, store, delivered>>

Init ==
  /\ recorded = {}
  /\ store = [id \in Ids |-> NoEvent]
  /\ delivered = {}

Happen ==
  /\ \E e \in Events \ recorded : recorded' = recorded \cup {e}
  /\ UNCHANGED <<store, delivered>>

\* Ids that have no event get one; the others keep theirs.
Keep ==
  /\ store' \in [Ids -> recorded \cup {NoEvent}]
  /\ \A id \in Ids : store[id] # NoEvent => store'[id] = store[id]
  /\ UNCHANGED <<recorded, delivered>>

Confirm ==
  /\ delivered \subseteq delivered'
  /\ \A id \in delivered' : id \in Ids /\ store[id] # NoEvent
  /\ UNCHANGED <<recorded, store>>

\* Retention on the node.
Forget ==
  /\ delivered' \subseteq delivered
  /\ UNCHANGED <<recorded, store>>

Next == Happen \/ Keep \/ Confirm \/ Forget
Spec == Init /\ [][Next]_storeVars
=============================================================================
