------------------------------- MODULE SyncProofs -------------------------------
(* Theorems about Sync, for any devices, keys, values, links and bounds.        *)
EXTENDS Sync, TLAPS

USE SyncConstants

(* The ways a step moves the maps: whatever else it does, it leaves them alone, *)
(* is one of the operations on them, takes a checkpoint of them, or merges the  *)
(* snapshot of a peer that it fetched.                                          *)
Fetch(n, m) == MergeSnapshot(n, m) /\ UNCHANGED <<clock, checkpoints, behind>>
TakesCheckpoint(n) ==
  /\ checkpoints' = [checkpoints EXCEPT ![n] = @ \cup {[state |-> state[n], clock |-> clock[n]]}]
  /\ UNCHANGED <<state, clock, conflicts, stored, merged, latest, behind>>

MapStep(n) ==
  \/ \E k \in Key, e \in Entry : Set(n, k, e) \/ Resolve(n, k, e)
  \/ \E m \in Node : Merge(n, m) \/ Fetch(n, m)
  \/ TakesCheckpoint(n) \/ ApplyCheckpoint(n)

-------------------------------------------------------------------------------
LEMMA PullMoves ==
  ASSUME NEW n \in Node, NEW m \in Node, NEW items, PullInto(n, m, items)
  PROVE  MapStep(n) \/ UNCHANGED mapVars
<1> QED
  BY DEF PullInto, MapStep, Fetch

LEMMA EveryMapStep ==
  ASSUME TypeOK, [Next]_vars
  PROVE  UNCHANGED mapVars \/ Restart \/ \E n \in Node : MapStep(n)
<1>1. CASE UNCHANGED vars
  BY <1>1 DEF vars
<1>2. CASE Restart
  BY <1>2
<1>3. ASSUME NEW n \in Node, Write(n)
      PROVE  MapStep(n)
  BY <1>3 DEF Write, MapStep
<1>4. ASSUME NEW n \in Node, Mesh(n)
      PROVE  UNCHANGED mapVars
  BY <1>4 DEF Mesh, Connect, Reconnect, Disconnect
<1>5. ASSUME NEW n \in Node, Exchange(n)
      PROVE  MapStep(n) \/ UNCHANGED mapVars
  <2>1. ASSUME NEW m \in Node, Merge(n, m)
        PROVE  MapStep(n)
    BY <2>1 DEF MapStep
  <2>2. ASSUME NEW m \in Node, Pull(n, m)
        PROVE  MapStep(n) \/ UNCHANGED mapVars
    BY <2>2, PullMoves DEF Pull
  <2>3. ASSUME NEW m \in Node, PublishCheckpoint(n, m)
        PROVE  MapStep(n)
    BY <2>3 DEF PublishCheckpoint, MapStep, TakesCheckpoint
  <2>4. ASSUME NEW k \in Key, StoreBlob(n, k)
        PROVE  UNCHANGED mapVars
    BY <2>4 DEF StoreBlob
  <2> QED
    BY <1>5, <2>1, <2>2, <2>3, <2>4 DEF Exchange
<1>6. ASSUME NEW n \in Node, Checkpoint(n)
      PROVE  MapStep(n)
  BY <1>6 DEF Checkpoint, CreateCheckpoint, MapStep, TakesCheckpoint
<1>7. ASSUME NEW n \in Node, StartRetry(n) \/ EndRetry(n)
      PROVE  UNCHANGED mapVars
  BY <1>7 DEF StartRetry, EndRetry
<1>8. ASSUME NEW n \in Node, RetryItem(n)
      PROVE  MapStep(n) \/ UNCHANGED mapVars
  <2> DEFINE item == Head(queue[n])
  <2>1. CASE item.action = "pull_peer_state" /\ PullInto(n, item.arg, Tail(queue[n]))
    <3>1. item \in Item
      BY <1>8 DEF RetryItem, TypeOK
    <3>2. item.arg \in Node
      BY <2>1, <3>1 DEF Item
    <3> QED
      BY <2>1, <3>2, PullMoves
  <2>2. CASE UNCHANGED mapVars
    BY <2>2
  <2> QED
    BY <1>8, <2>1, <2>2 DEF RetryItem
<1> QED
  BY <1>1, <1>2, <1>3, <1>4, <1>5, <1>6, <1>7, <1>8 DEF Next, Retry
-------------------------------------------------------------------------------
(* The part of the type invariant that the maps need.                          *)
MapTypes ==
  /\ state \in [Node -> Map] /\ clock \in [Node -> Clock]
  /\ conflicts \in [Node -> SUBSET Key]
  /\ stored \in [Node -> [state : Map, clock : Clock, peers : SUBSET Node]]
  /\ checkpoints \in [Node -> SUBSET [state : Map, clock : Clock]]
  /\ merged \in [Node -> SUBSET Node] /\ latest \in [Node -> Node]

LEMMA SaveTypes ==
  ASSUME TypeOK, state' \in [Node -> Map], clock' \in [Node -> Clock], NEW n \in Node, Save(n)
  PROVE  stored' \in [Node -> [state : Map, clock : Clock, peers : SUBSET Node]]
<1>1. [state |-> state'[n], clock |-> clock'[n], peers |-> peers[n]]
        \in [state : Map, clock : Clock, peers : SUBSET Node]
  BY DEF TypeOK
<1> QED
  BY <1>1 DEF TypeOK, Save

LEMMA MergedType ==
  ASSUME TypeOK, NEW n \in Node, NEW snapshot \in Map
  PROVE  Merged(n, snapshot) \in Map /\ Rivals(n, snapshot) \in SUBSET Key
<1>1. state[n] \in Map
  BY DEF TypeOK
<1> QED
  BY <1>1 DEF Map, Merged, Rivals

LEMMA MergeSnapshotTypes ==
  ASSUME TypeOK, clock' \in [Node -> Clock], NEW n \in Node, NEW m \in Node, MergeSnapshot(n, m)
  PROVE  /\ state' \in [Node -> Map] /\ conflicts' \in [Node -> SUBSET Key]
         /\ stored' \in [Node -> [state : Map, clock : Clock, peers : SUBSET Node]]
         /\ merged' \in [Node -> SUBSET Node] /\ latest' \in [Node -> Node]
<1>1. state[m] \in Map
  BY DEF TypeOK
<1>2. Merged(n, state[m]) \in Map /\ Rivals(n, state[m]) \in SUBSET Key
  BY <1>1, MergedType
<1>3. /\ state' \in [Node -> Map] /\ conflicts' \in [Node -> SUBSET Key]
      /\ latest' \in [Node -> Node]
  BY <1>2 DEF MergeSnapshot, TypeOK
<1>4. stored' \in [Node -> [state : Map, clock : Clock, peers : SUBSET Node]]
  BY <1>3, SaveTypes DEF MergeSnapshot
<1>5. merged' \in [Node -> SUBSET Node]
  BY DEF MergeSnapshot, TypeOK
<1> QED
  BY <1>3, <1>4, <1>5

LEMMA MapTypesStep ==
  ASSUME TypeOK, UNCHANGED mapVars \/ Restart \/ \E n \in Node : MapStep(n)
  PROVE  MapTypes'
<1>1. CASE UNCHANGED mapVars
  BY <1>1 DEF TypeOK, MapTypes, mapVars
<1>2. CASE Restart
  BY <1>2 DEF TypeOK, MapTypes, Restart
<1>3. ASSUME NEW n \in Node, NEW k \in Key, NEW e \in Entry, Set(n, k, e)
      PROVE  MapTypes'
  <2>1. clock' \in [Node -> Clock]
    <3>1. [clock[n] EXCEPT ![n] = @ + 1] \in Clock
      <4>1. clock[n] \in Clock
        BY DEF TypeOK
      <4>2. clock[n][n] + 1 \in Nat
        BY <4>1 DEF Clock, Unknown
      <4> QED
        BY <4>1, <4>2 DEF Clock
    <3>2. clock' = [clock EXCEPT ![n] = [clock[n] EXCEPT ![n] = @ + 1]]
      BY <1>3 DEF Set, TypeOK
    <3> QED
      BY <3>1, <3>2 DEF TypeOK
  <2>2. state' \in [Node -> Map]
    <3>1. [state[n] EXCEPT ![k] = e] \in Map
      <4>1. state[n] \in Map
        BY DEF TypeOK
      <4> QED
        BY <4>1 DEF Map
    <3> DEFINE g == [state[n] EXCEPT ![k] = e]
    <3>2. state' = state \/ state' = [state EXCEPT ![n] = g]
      BY <1>3 DEF Set, TypeOK
    <3>3. state \in [Node -> Map]
      BY DEF TypeOK
    <3> HIDE DEF g
    <3>4. [state EXCEPT ![n] = g] \in [Node -> Map]
      BY <3>1, <3>3 DEF g
    <3> QED
      BY <3>2, <3>3, <3>4
  <2>3. stored' \in [Node -> [state : Map, clock : Clock, peers : SUBSET Node]]
    BY <1>3, <2>1, <2>2, SaveTypes DEF Set, TypeOK
  <2>4. merged' \in [Node -> SUBSET Node]
    BY <1>3 DEF Set, Forget, TypeOK
  <2> QED
    BY <1>3, <2>1, <2>2, <2>3, <2>4 DEF Set, TypeOK, MapTypes
<1>4. ASSUME NEW n \in Node, NEW k \in Key, NEW e \in Entry, Resolve(n, k, e)
      PROVE  MapTypes'
  <2>1. state' \in [Node -> Map]
    <3>1. [state[n] EXCEPT ![k] = e] \in Map
      BY DEF TypeOK, Map
    <3> QED
      BY <1>4, <3>1 DEF Resolve, TypeOK
  <2>2. stored' \in [Node -> [state : Map, clock : Clock, peers : SUBSET Node]]
    BY <1>4, <2>1, SaveTypes DEF Resolve, TypeOK
  <2>3. merged' \in [Node -> SUBSET Node] /\ conflicts' \in [Node -> SUBSET Key]
    BY <1>4 DEF Resolve, TypeOK
  <2> QED
    BY <1>4, <2>1, <2>2, <2>3 DEF Resolve, TypeOK, MapTypes
<1>5. ASSUME NEW n \in Node, NEW m \in Node, Merge(n, m)
      PROVE  MapTypes'
  <2> DEFINE later == [i \in Node |-> IF clock[m][i] > Counter(clock[n][i]) \/ clock[n][i] = Unknown
                                     THEN clock[m][i] ELSE clock[n][i]]
  <2>1. clock' \in [Node -> Clock]
    <3> HIDE DEF later
    <3>1. later \in Clock
      <4>1. clock[m] \in Clock /\ clock[n] \in Clock
        BY DEF TypeOK
      <4> QED
        BY <4>1 DEF Clock, later
    <3>2. clock' = [clock EXCEPT ![n] = later]
      BY <1>5 DEF Merge, later
    <3> QED
      BY <3>1, <3>2 DEF TypeOK
  <2> QED
    BY <1>5, <2>1, MergeSnapshotTypes DEF Merge, TypeOK, MapTypes
<1>6. ASSUME NEW n \in Node, NEW m \in Node, Fetch(n, m)
      PROVE  MapTypes'
  BY <1>6, MergeSnapshotTypes DEF Fetch, TypeOK, MapTypes
<1>7. ASSUME NEW n \in Node, TakesCheckpoint(n)
      PROVE  MapTypes'
  <2>1. [state |-> state[n], clock |-> clock[n]] \in [state : Map, clock : Clock]
    BY DEF TypeOK
  <2> QED
    BY <1>7, <2>1 DEF TakesCheckpoint, TypeOK, MapTypes
<1>8. ASSUME NEW n \in Node, ApplyCheckpoint(n)
      PROVE  MapTypes'
  <2>1. PICK c \in checkpoints[n] :
          /\ state' = [state EXCEPT ![n] =
                         [k \in Key |-> IF c.state[k] = Absent THEN @[k] ELSE c.state[k]]]
          /\ clock' = [clock EXCEPT ![n] =
                         [i \in Node |-> IF c.clock[i] # Unknown THEN c.clock[i] ELSE @[i]]]
    BY <1>8 DEF ApplyCheckpoint
  <2>2. c \in [state : Map, clock : Clock]
    BY DEF TypeOK
  <2>3. state' \in [Node -> Map]
    BY <2>1, <2>2, SMTT(30) DEF TypeOK, Map
  <2>4. clock' \in [Node -> Clock]
    <3> DEFINE earlier == [i \in Node |-> IF c.clock[i] # Unknown THEN c.clock[i] ELSE clock[n][i]]
    <3>1. earlier \in Clock
      BY <2>2 DEF TypeOK, Clock
    <3> QED
      BY <2>1, <3>1 DEF TypeOK
  <2>5. merged' \in [Node -> SUBSET Node]
    BY <1>8 DEF ApplyCheckpoint, Forget, TypeOK
  <2> QED
    BY <1>8, <2>3, <2>4, <2>5 DEF ApplyCheckpoint, TypeOK, MapTypes
<1> QED
  BY <1>1, <1>2, <1>3, <1>4, <1>5, <1>6, <1>7, <1>8 DEF MapStep

-------------------------------------------------------------------------------
(* The rest of the type invariant: the mesh, the inbox and the offline queue.  *)
MeshTypes ==
  /\ peers \in [Node -> SUBSET Node] /\ trusts \in [Node -> SUBSET Node]
  /\ record \in [Node -> [Node -> {"none", "live", "nowhere"}]]
  /\ tries \in [Node -> [Node -> 0 .. MaxRetry + 1]]
  /\ inbox \in [Node -> [Node -> Key \cup {NoValue, Snapshot}]]
QueueTypes ==
  /\ queue \in [Node -> Seq(Item)]
  /\ loop \in [Node -> [retries : BOOLEAN, remaining : Seq(Item)]]
  /\ unsent \in [Node -> SUBSET Key]

LEMMA TryTypes ==
  ASSUME TypeOK, NEW n \in Node, NEW m \in Node, CountTry(n, m)
  PROVE  tries' \in [Node -> [Node -> 0 .. MaxRetry + 1]]
<1>1. CASE UNCHANGED tries
  BY <1>1 DEF TypeOK
<1>2. CASE tries[n][m] <= MaxRetry /\ tries' = [tries EXCEPT ![n][m] = @ + 1]
  <2>1. tries[n] \in [Node -> 0 .. MaxRetry + 1]
    BY DEF TypeOK
  <2>2. tries[n][m] + 1 \in 0 .. MaxRetry + 1
    BY <1>2, <2>1
  <2>3. [tries[n] EXCEPT ![m] = @ + 1] \in [Node -> 0 .. MaxRetry + 1]
    BY <2>1, <2>2
  <2> QED
    BY <1>2, <2>3 DEF TypeOK
<1>3. tries[n][m] \in 0 .. MaxRetry + 1
  BY DEF TypeOK
<1> QED
  BY <1>1, <1>2, <1>3 DEF CountTry

LEMMA DeliverTypes ==
  ASSUME TypeOK, NEW n \in Node, NEW payload \in Key \cup {NoValue, Snapshot}, Deliver(n, payload)
  PROVE  inbox' \in [Node -> [Node -> Key \cup {NoValue, Snapshot}]]
<1>1. \A m \in Node : [inbox[m] EXCEPT ![n] = payload] \in [Node -> Key \cup {NoValue, Snapshot}]
  BY DEF TypeOK
<1> QED
  BY <1>1 DEF Deliver, TypeOK

LEMMA NewItems ==
  /\ \A n, m \in Node : Unavailable(n, m) \in Item
  /\ \A k \in Key : Unpublished(k) \in Item
  BY DEF Unavailable, Unpublished, Item

LEMMA PullTypes ==
  ASSUME TypeOK, NEW n \in Node, NEW m \in Node, NEW items \in Seq(Item), PullInto(n, m, items)
  PROVE  /\ tries' \in [Node -> [Node -> 0 .. MaxRetry + 1]]
         /\ queue' \in [Node -> Seq(Item)]
<1>1. tries' \in [Node -> [Node -> 0 .. MaxRetry + 1]]
  BY TryTypes DEF PullInto
<1>2. Append(items, Unavailable(n, m)) \in Seq(Item)
  BY NewItems
<1>3. \E q \in Seq(Item) : queue' = [queue EXCEPT ![n] = q]
  BY <1>2 DEF PullInto
<1> QED
  BY <1>1, <1>3 DEF TypeOK

LEMMA PublishTypes ==
  ASSUME TypeOK, NEW n \in Node, NEW k \in Key, NEW items \in Seq(Item), PublishInto(n, k, items)
  PROVE  /\ inbox' \in [Node -> [Node -> Key \cup {NoValue, Snapshot}]]
         /\ queue' \in [Node -> Seq(Item)] /\ unsent' \in [Node -> SUBSET Key]
<1>1. inbox' \in [Node -> [Node -> Key \cup {NoValue, Snapshot}]]
  BY DeliverTypes DEF PublishInto
<1>2. Append(items, Unpublished(k)) \in Seq(Item)
  BY NewItems
<1>3. \E q \in Seq(Item) : queue' = [queue EXCEPT ![n] = q]
  BY <1>2 DEF PublishInto
<1>4. \E u \in SUBSET Key : unsent' = [unsent EXCEPT ![n] = u]
  BY DEF PublishInto, TypeOK
<1> QED
  BY <1>1, <1>3, <1>4 DEF TypeOK

LEMMA MeshStep ==
  ASSUME TypeOK, NEW n \in Node, Mesh(n)
  PROVE  MeshTypes' /\ QueueTypes'
<1>1. ASSUME NEW m \in Node, NEW endpoint \in {"live", "nowhere"}, Connect(n, m, endpoint)
      PROVE  MeshTypes'
  <2>1. record' \in [Node -> [Node -> {"none", "live", "nowhere"}]]
    <3>1. [record[n] EXCEPT ![m] = endpoint] \in [Node -> {"none", "live", "nowhere"}]
      <4>1. record[n] \in [Node -> {"none", "live", "nowhere"}]
        BY DEF TypeOK
      <4> QED
        BY <4>1
    <3> DEFINE g == [record[n] EXCEPT ![m] = endpoint]
    <3>2. record' = [record EXCEPT ![n] = g]
      BY <1>1 DEF Connect, TypeOK
    <3>3. g \in [Node -> {"none", "live", "nowhere"}]
      BY <3>1
    <3> HIDE DEF g
    <3> QED
      BY <3>2, <3>3 DEF TypeOK
  <2>2. trusts' \in [Node -> SUBSET Node]
    <3>1. \/ trusts' = trusts
          \/ trusts' = [trusts EXCEPT ![n] = @ \cup {m}, ![m] = @ \cup {n}]
      BY <1>1 DEF Connect
    <3>2. trusts \in [Node -> SUBSET Node]
      BY DEF TypeOK
    <3> QED
      BY <3>1, <3>2
  <2>3. peers' \in [Node -> SUBSET Node]
    BY <1>1 DEF Connect, TypeOK
  <2> QED
    BY <1>1, <2>1, <2>2, <2>3 DEF Connect, TypeOK, MeshTypes
<1>2. ASSUME NEW m \in Node, Disconnect(n, m)
      PROVE  MeshTypes'
  <2>1. [record[n] EXCEPT ![m] = "none"] \in [Node -> {"none", "live", "nowhere"}]
    BY DEF TypeOK
  <2>2. record' \in [Node -> [Node -> {"none", "live", "nowhere"}]]
    BY <1>2, <2>1 DEF Disconnect, TypeOK
  <2>3. trusts' \in [Node -> SUBSET Node] /\ peers' \in [Node -> SUBSET Node]
    BY <1>2 DEF Disconnect, TypeOK
  <2> QED
    BY <1>2, <2>2, <2>3 DEF Disconnect, TypeOK, MeshTypes
<1>3. ASSUME NEW m \in Node, Reconnect(n, m)
      PROVE  MeshTypes'
  BY <1>3 DEF Reconnect, TypeOK, MeshTypes
<1>4. UNCHANGED queueVars
  BY DEF Mesh, Connect, Reconnect, Disconnect
<1> QED
  BY <1>1, <1>2, <1>3, <1>4 DEF Mesh, TypeOK, QueueTypes, queueVars

LEMMA ExchangeTypes ==
  ASSUME TypeOK, NEW n \in Node, Exchange(n)
  PROVE  MeshTypes' /\ QueueTypes'
<1>1. ASSUME NEW m \in Node, Merge(n, m)
      PROVE  MeshTypes' /\ QueueTypes'
  BY <1>1 DEF Merge, TypeOK, MeshTypes, QueueTypes, meshVars, queueVars
<1>2. ASSUME NEW m \in Node, Pull(n, m)
      PROVE  MeshTypes' /\ QueueTypes'
  <2>1. queue[n] \in Seq(Item)
    BY DEF TypeOK
  <2>2. tries' \in [Node -> [Node -> 0 .. MaxRetry + 1]] /\ queue' \in [Node -> Seq(Item)]
    BY <1>2, <2>1, PullTypes DEF Pull
  <2> QED
    BY <1>2, <2>2 DEF Pull, TypeOK, MeshTypes, QueueTypes, meshVars
<1>3. ASSUME NEW m \in Node, PublishCheckpoint(n, m)
      PROVE  MeshTypes' /\ QueueTypes'
  BY <1>3, DeliverTypes DEF PublishCheckpoint, TypeOK, MeshTypes, QueueTypes, meshVars, queueVars
<1>4. ASSUME NEW k \in Key, StoreBlob(n, k)
      PROVE  MeshTypes' /\ QueueTypes'
  <2>1. queue[n] \in Seq(Item)
    BY DEF TypeOK
  <2>2. /\ inbox' \in [Node -> [Node -> Key \cup {NoValue, Snapshot}]]
        /\ queue' \in [Node -> Seq(Item)] /\ unsent' \in [Node -> SUBSET Key]
    <3>1. CASE PublishInto(n, k, queue[n])
      BY <2>1, <3>1, PublishTypes
    <3>2. CASE /\ UNCHANGED inbox
               /\ queue' = [queue EXCEPT ![n] = Append(@, Unpublished(k))]
               /\ unsent' = [unsent EXCEPT ![n] = @ \cup {k}]
      <4>1. Append(queue[n], Unpublished(k)) \in Seq(Item)
        BY <2>1, NewItems
      <4> QED
        BY <3>2, <4>1 DEF TypeOK
    <3> QED
      BY <1>4, <3>1, <3>2 DEF StoreBlob
  <2> QED
    BY <1>4, <2>2 DEF StoreBlob, TypeOK, MeshTypes, QueueTypes, meshVars
<1> QED
  BY <1>1, <1>2, <1>3, <1>4 DEF Exchange

LEMMA KeepTypes ==
  ASSUME TypeOK, NEW n \in Node, NEW item \in Item, Keep(n, item)
  PROVE  loop' \in [Node -> [retries : BOOLEAN, remaining : Seq(Item)]]
<1>1. loop[n] \in [retries : BOOLEAN, remaining : Seq(Item)]
  BY DEF TypeOK
<1>2. Append(loop[n].remaining, item) \in Seq(Item)
  BY <1>1
<1>3. [loop[n] EXCEPT !.remaining = IF Len(@) < MaxQueue THEN Append(@, item) ELSE @]
        \in [retries : BOOLEAN, remaining : Seq(Item)]
  BY <1>1, <1>2
<1> QED
  BY <1>3 DEF Keep, TypeOK

LEMMA RetryTypes ==
  ASSUME TypeOK, NEW n \in Node, RetryItem(n)
  PROVE  MeshTypes' /\ QueueTypes'
<1> DEFINE item == Head(queue[n])
           tried == [item EXCEPT !.attempts = @ + 1]
<1>1. queue[n] \in Seq(Item) /\ item \in Item /\ Tail(queue[n]) \in Seq(Item)
  BY DEF RetryItem, TypeOK
<1>2. ~ Exhausted(item) => tried \in Item
  <2>1. item.attempts \in 0 .. QueueLimit
    BY <1>1 DEF Item
  <2>2. ASSUME ~ Exhausted(item)
        PROVE  item.attempts + 1 \in 0 .. QueueLimit
    BY <2>1, <2>2, SyncConstants DEF Exhausted
  <2> HIDE DEF item
  <2> QED
    BY <1>1, <2>2 DEF Item
<1>3. CASE /\ queue' = [queue EXCEPT ![n] = Tail(@)]
           /\ unsent' = [unsent EXCEPT ![n] = @ \ {item.arg}]
           /\ UNCHANGED <<tries, inbox, loop>>
  BY <1>1, <1>3 DEF RetryItem, TypeOK, MeshTypes, QueueTypes, meshVars
<1>4. CASE /\ ~ Exhausted(item) /\ item.action = "pull_peer_state"
           /\ PullInto(n, item.arg, Tail(queue[n]))
           /\ IF Fetchable(n, item.arg) THEN UNCHANGED loop ELSE Keep(n, tried)
           /\ UNCHANGED <<inbox, unsent>>
  <2>1. item.arg \in Node
    BY <1>1, <1>4 DEF Item
  <2>2. tries' \in [Node -> [Node -> 0 .. MaxRetry + 1]] /\ queue' \in [Node -> Seq(Item)]
    BY <1>1, <1>4, <2>1, PullTypes
  <2>3. loop' \in [Node -> [retries : BOOLEAN, remaining : Seq(Item)]]
    BY <1>2, <1>4, KeepTypes DEF TypeOK
  <2> QED
    BY <1>4, <2>2, <2>3 DEF RetryItem, TypeOK, MeshTypes, QueueTypes, meshVars
<1>5. CASE /\ ~ Exhausted(item) /\ item.action = "publish_blob"
           /\ PublishInto(n, item.arg, Tail(queue[n]))
           /\ IF Takers(n) # {} THEN UNCHANGED loop ELSE Keep(n, tried)
           /\ UNCHANGED tries
  <2>1. item.arg \in Key
    BY <1>1, <1>5 DEF Item
  <2>2. /\ inbox' \in [Node -> [Node -> Key \cup {NoValue, Snapshot}]]
        /\ queue' \in [Node -> Seq(Item)] /\ unsent' \in [Node -> SUBSET Key]
    BY <1>1, <1>5, <2>1, PublishTypes
  <2>3. loop' \in [Node -> [retries : BOOLEAN, remaining : Seq(Item)]]
    BY <1>2, <1>5, KeepTypes DEF TypeOK
  <2> QED
    BY <1>5, <2>2, <2>3 DEF RetryItem, TypeOK, MeshTypes, QueueTypes, meshVars
<1> QED
  BY <1>3, <1>4, <1>5 DEF RetryItem

LEMMA MeshTypesStep ==
  ASSUME TypeOK, [Next]_vars
  PROVE  MeshTypes' /\ QueueTypes'
<1>1. CASE UNCHANGED vars
  BY <1>1 DEF vars, meshVars, queueVars, TypeOK, MeshTypes, QueueTypes
<1>2. CASE Restart
  <2>1. Idle \in [retries : BOOLEAN, remaining : Seq(Item)]
    BY DEF Idle
  <2> QED
    BY <1>2, <2>1 DEF Restart, TypeOK, MeshTypes, QueueTypes
<1>3. ASSUME NEW n \in Node, Write(n) \/ Checkpoint(n)
      PROVE  MeshTypes' /\ QueueTypes'
  <2>1. UNCHANGED <<meshVars, tries, inbox, queueVars>>
    BY <1>3 DEF Write, Set, Resolve, Checkpoint, CreateCheckpoint, ApplyCheckpoint
  <2> QED
    BY <2>1 DEF TypeOK, MeshTypes, QueueTypes, meshVars, queueVars
<1>4. ASSUME NEW n \in Node, StartRetry(n)
      PROVE  MeshTypes' /\ QueueTypes'
  <2>1. [loop[n] EXCEPT !.retries = TRUE] \in [retries : BOOLEAN, remaining : Seq(Item)]
    <3>1. loop[n] \in [retries : BOOLEAN, remaining : Seq(Item)]
      BY DEF TypeOK
    <3> QED
      BY <3>1
  <2>2. loop' \in [Node -> [retries : BOOLEAN, remaining : Seq(Item)]]
    BY <1>4, <2>1 DEF StartRetry, TypeOK
  <2> QED
    BY <1>4, <2>2 DEF StartRetry, TypeOK, MeshTypes, QueueTypes, meshVars
<1>5. ASSUME NEW n \in Node, EndRetry(n)
      PROVE  MeshTypes' /\ QueueTypes'
  <2>1. Idle \in [retries : BOOLEAN, remaining : Seq(Item)]
    BY DEF Idle
  <2>2. loop[n].remaining \in Seq(Item)
    BY DEF TypeOK
  <2> QED
    BY <1>5, <2>1, <2>2 DEF EndRetry, TypeOK, MeshTypes, QueueTypes, meshVars
<1> QED
  BY <1>1, <1>2, <1>3, <1>4, <1>5, MeshStep, ExchangeTypes, RetryTypes DEF Next, Retry

LEMMA InitTypes ==
  Init => TypeOK
<1> SUFFICES ASSUME Init PROVE TypeOK
  OBVIOUS
<1>1. [k \in Key |-> Absent] \in Map
  BY DEF Map, Entry
<1>2. \A n \in Node : [m \in Node |-> IF m = n THEN 0 ELSE Unknown] \in Clock
  BY DEF Clock
<1>3. state \in [Node -> Map] /\ clock \in [Node -> Clock]
  BY <1>1, <1>2 DEF Init
<1>4. stored \in [Node -> [state : Map, clock : Clock, peers : SUBSET Node]]
  BY <1>3 DEF Init
<1>5. loop \in [Node -> [retries : BOOLEAN, remaining : Seq(Item)]]
  <2>1. Idle \in [retries : BOOLEAN, remaining : Seq(Item)]
    BY DEF Idle
  <2> QED
    BY <2>1 DEF Init
<1>6. queue \in [Node -> Seq(Item)]
  BY DEF Init
<1>7. MeshTypes
  BY DEF Init, MeshTypes
<1>8. /\ conflicts \in [Node -> SUBSET Key]
      /\ checkpoints \in [Node -> SUBSET [state : Map, clock : Clock]]
      /\ merged \in [Node -> SUBSET Node] /\ latest \in [Node -> Node]
      /\ unsent \in [Node -> SUBSET Key]
  BY DEF Init
<1> QED
  BY <1>3, <1>4, <1>5, <1>6, <1>7, <1>8 DEF MeshTypes, TypeOK

(* Types: every map, clock, queue and file of a device stays well formed, and  *)
(* no item of a queue counts more than queue_retry_limit attempts, nor a peer  *)
(* more than MAX_RETRY + 1 fetches.                                             *)
THEOREM TypeCorrect == Spec => []TypeOK
<1>1. ASSUME TypeOK, [Next]_vars
      PROVE  TypeOK'
  <2>1. MapTypes'
    BY <1>1, EveryMapStep, MapTypesStep
  <2>2. MeshTypes' /\ QueueTypes'
    BY <1>1, MeshTypesStep
  <2> QED
    BY <2>1, <2>2 DEF TypeOK, MapTypes, MeshTypes, QueueTypes
<1> QED
  BY <1>1, InitTypes, PTL DEF Spec

-------------------------------------------------------------------------------
(* What a step does to the entry of one key.                                   *)
LEMMA EntryMoves ==
  ASSUME TypeOK, NEW i \in Node, MapStep(i), NEW n \in Node, NEW k \in Key,
         state'[n][k] # state[n][k]
  PROVE  \/ Newer(state'[n][k], state[n][k])
         \/ Resolve(n, k, state'[n][k]) \/ ApplyCheckpoint(n)
<1>1. state[n] \in Map /\ state[i] \in Map
  BY DEF TypeOK
<1>2. ASSUME NEW j \in Key, NEW e \in Entry, Set(i, j, e)
      PROVE  Newer(state'[n][k], state[n][k])
  <2>1. Newer(e, state[i][j]) /\ state' = [state EXCEPT ![i][j] = e]
    BY <1>2 DEF Set, Save
  <2> QED
    BY <1>1, <2>1 DEF TypeOK, Map
<1>3. ASSUME NEW j \in Key, NEW e \in Entry, Resolve(i, j, e)
      PROVE  Resolve(n, k, state'[n][k])
  <2>1. state' = [state EXCEPT ![i][j] = e]
    BY <1>3 DEF Resolve
  <2>2. n = i /\ k = j /\ state'[n][k] = e
    BY <1>1, <2>1 DEF TypeOK, Map
  <2> QED
    BY <1>3, <2>2
<1>4. ASSUME NEW m \in Node, MergeSnapshot(i, m)
      PROVE  Newer(state'[n][k], state[n][k])
  <2>1. state' = [state EXCEPT ![i] = Merged(i, state[m])]
    BY <1>4 DEF MergeSnapshot
  <2>2. n = i /\ state'[n][k] = Merged(i, state[m])[k]
    BY <2>1 DEF TypeOK
  <2> QED
    BY <1>1, <2>2 DEF Merged
<1>5. CASE TakesCheckpoint(i)
  BY <1>5 DEF TakesCheckpoint
<1>6. ASSUME ApplyCheckpoint(i)
      PROVE  ApplyCheckpoint(n)
  <2>1. i = n
    BY <1>6 DEF ApplyCheckpoint, TypeOK
  <2> QED
    BY <1>6, <2>1
<1> QED
  BY <1>2, <1>3, <1>4, <1>5, <1>6 DEF MapStep, Merge, Fetch

(* Last writer wins: a write, a merge or a pull replaces an entry only by one  *)
(* with a later timestamp.                                                     *)
THEOREM LaterEntriesWin == Spec => NewerWins
<1>1. ASSUME TypeOK, [Next]_vars, NEW n \in Node, NEW k \in Key, state'[n][k] # state[n][k]
      PROVE  \/ Newer(state'[n][k], state[n][k])
             \/ Resolve(n, k, state'[n][k]) \/ ApplyCheckpoint(n) \/ Restart
  <2>1. state' # state
    BY <1>1
  <2>2. Restart \/ \E i \in Node : MapStep(i)
    BY <1>1, <2>1, EveryMapStep DEF mapVars
  <2> QED
    BY <1>1, <2>2, EntryMoves
<1> DEFINE Replaced == \A n \in Node, k \in Key :
              state'[n][k] # state[n][k]
                => \/ Newer(state'[n][k], state[n][k])
                   \/ Resolve(n, k, state'[n][k]) \/ ApplyCheckpoint(n) \/ Restart
<1>2. TypeOK /\ [Next]_vars => [Replaced]_vars
  BY <1>1
<1> QED
  BY <1>2, TypeCorrect, PTL DEF Spec, NewerWins

-------------------------------------------------------------------------------
(* Why no clock runs ahead of its owner's: not even in a file or a checkpoint, *)
(* which a restart or ApplyCheckpoint brings back, and the owner's file holds  *)
(* the owner's own count.                                                      *)
Leads(n) ==
  /\ stored[n].clock[n] = clock[n][n]
  /\ \A m \in Node :
       /\ clock[m][n] <= clock[n][n] /\ stored[m].clock[n] <= clock[n][n]
       /\ \A c \in checkpoints[m] : c.clock[n] <= clock[n][n]
ClockInv == \A n \in Node : <<n, "clock">> \notin behind => Leads(n)

LEMMA ClockTypes ==
  ASSUME TypeOK, NEW m \in Node, NEW n \in Node
  PROVE  /\ clock[m] \in [Node -> Nat \cup {Unknown}] /\ clock[m][n] \in Nat \cup {Unknown}
         /\ clock[m][n] \in Int
         /\ stored[m].clock[n] \in Int
         /\ \A c \in checkpoints[m] : c.clock \in Clock /\ c.clock[n] \in Int
<1>1. clock[m] \in Clock /\ stored[m].clock \in Clock
  BY DEF TypeOK
<1>2. \A c \in checkpoints[m] : c.clock \in Clock
  BY DEF TypeOK
<1> QED
  BY <1>1, <1>2 DEF Clock, Unknown

\* Saving takes the clock of the device as it is now.
LEMMA SavedClock ==
  ASSUME TypeOK, NEW i \in Node, Save(i), NEW m \in Node
  PROVE  stored'[m].clock = IF m = i THEN clock'[i] ELSE stored[m].clock
  BY DEF Save, TypeOK

LEMMA ClockStep ==
  ASSUME TypeOK, ClockInv, NEW i \in Node, MapStep(i)
  PROVE  ClockInv'
<1> SUFFICES ASSUME NEW n \in Node, <<n, "clock">> \notin behind'
             PROVE  Leads(n)'
  BY DEF ClockInv
<1>0. <<n, "clock">> \notin behind
  BY DEF MapStep, Set, Resolve, Merge, Fetch, TakesCheckpoint, ApplyCheckpoint
<1>1. /\ stored[n].clock[n] = clock[n][n]
      /\ \A m \in Node :
           /\ clock[m][n] <= clock[n][n] /\ stored[m].clock[n] <= clock[n][n]
           /\ \A c \in checkpoints[m] : c.clock[n] <= clock[n][n]
  BY <1>0 DEF ClockInv, Leads
<1>2. ASSUME NEW k \in Key, NEW e \in Entry, Set(i, k, e)
      PROVE  Leads(n)'
  <2>1. clock' = [clock EXCEPT ![i][i] = @ + 1] /\ checkpoints' = checkpoints
    BY <1>2 DEF Set
  <2>2. \A m \in Node : clock'[m][n] = IF m = i /\ n = i THEN clock[n][n] + 1 ELSE clock[m][n]
    BY <2>1, ClockTypes DEF TypeOK
  <2>3. CASE Save(i)
    <3>1. \A m \in Node : stored'[m].clock = IF m = i THEN clock'[i] ELSE stored[m].clock
      BY <2>3, SavedClock
    <3> QED
      BY <1>1, <2>1, <2>2, <3>1, ClockTypes DEF Leads
  <2>4. CASE UNCHANGED stored /\ n # i
    BY <1>1, <2>1, <2>2, <2>4, ClockTypes DEF Leads
  <2>5. CASE Rival(e, state[i][k]) /\ UNCHANGED stored /\ n = i
    BY <1>2, <2>5 DEF Set
  <2> QED
    BY <1>2, <2>3, <2>4, <2>5 DEF Set
<1>3. CASE TakesCheckpoint(i)
  <2>1. \A m \in Node : \A c \in checkpoints'[m] :
          c \in checkpoints[m] \/ (m = i /\ c.clock = clock[i])
    BY <1>3 DEF TakesCheckpoint, TypeOK
  <2> QED
    BY <1>1, <1>3, <2>1 DEF TakesCheckpoint, Leads
<1>4. ASSUME clock'[i][n] <= clock[n][n], clock'[n][n] = clock[n][n], Save(i),
             \A m \in Node \ {i} : clock'[m] = clock[m], checkpoints' = checkpoints
      PROVE  Leads(n)'
  <2>1. \A m \in Node : stored'[m].clock = IF m = i THEN clock'[i] ELSE stored[m].clock
    BY <1>4, SavedClock
  <2> QED
    BY <1>1, <1>4, <2>1 DEF Leads
<1>5. ASSUME NEW k \in Key, NEW e \in Entry, Resolve(i, k, e)
      PROVE  Leads(n)'
  BY <1>1, <1>4, <1>5 DEF Resolve
<1>6. ASSUME NEW m \in Node, Merge(i, m)
      PROVE  Leads(n)'
  <2> DEFINE later == [j \in Node |-> IF clock[m][j] > Counter(clock[i][j]) \/ clock[i][j] = Unknown
                                     THEN clock[m][j] ELSE clock[i][j]]
  <2>1. clock' = [clock EXCEPT ![i] = later]
    BY <1>6 DEF Merge
  <2>2. clock'[i][n] \in {clock[m][n], clock[i][n]}
    BY <2>1, ClockTypes DEF TypeOK
  <2>3. clock'[i][n] <= clock[n][n]
    BY <1>1, <2>2
  <2>4. clock'[n][n] = clock[n][n]
    <3>1. CASE n # i
      BY <2>1, <3>1 DEF TypeOK
    <3>2. CASE n = i
      <4>1. clock[m][n] <= clock[n][n]
        BY <1>1
      <4>2. later[n] = clock[n][n]
        BY <3>2, <4>1, ClockTypes DEF Counter, Unknown
      <4> QED
        BY <2>1, <3>2, <4>2 DEF TypeOK
    <3> QED
      BY <3>1, <3>2
  <2>5. \A j \in Node \ {i} : clock'[j] = clock[j]
    BY <2>1 DEF TypeOK
  <2> QED
    BY <1>4, <1>6, <2>3, <2>4, <2>5 DEF Merge, MergeSnapshot
<1>7. ASSUME NEW m \in Node, Fetch(i, m)
      PROVE  Leads(n)'
  BY <1>1, <1>4, <1>7 DEF Fetch, MergeSnapshot
<1>8. CASE ApplyCheckpoint(i)
  <2>1. n # i
    BY <1>8 DEF ApplyCheckpoint
  <2>2. PICK c \in checkpoints[i] :
          clock' = [clock EXCEPT ![i] =
                     [j \in Node |-> IF c.clock[j] # Unknown THEN c.clock[j] ELSE @[j]]]
    BY <1>8 DEF ApplyCheckpoint
  <2>3. clock'[i][n] \in {c.clock[n], clock[i][n]}
    BY <2>2 DEF TypeOK
  <2>4. \A j \in Node \ {i} : clock'[j] = clock[j]
    BY <2>2 DEF TypeOK
  <2> QED
    BY <1>1, <1>8, <2>1, <2>2, <2>3, <2>4 DEF ApplyCheckpoint, Leads
<1> QED
  BY <1>2, <1>3, <1>5, <1>6, <1>7, <1>8 DEF MapStep

LEMMA ClockRestart ==
  ASSUME TypeOK, ClockInv, Restart
  PROVE  ClockInv'
<1>1. \A n \in Node : <<n, "clock">> \notin behind => Leads(n)'
  <2> SUFFICES ASSUME NEW n \in Node, <<n, "clock">> \notin behind PROVE Leads(n)'
    OBVIOUS
  <2>1. Leads(n)
    BY DEF ClockInv
  <2> QED
    BY <2>1 DEF Leads, Restart
<1> QED
  BY <1>1 DEF ClockInv, Restart

LEMMA ClockInit ==
  Init => ClockInv
<1> SUFFICES ASSUME Init, NEW n \in Node PROVE Leads(n)
  BY DEF ClockInv
<1>1. \A m \in Node : clock[m][n] = IF m = n THEN 0 ELSE Unknown
  BY DEF Init
<1>2. \A m \in Node : stored[m].clock[n] = clock[m][n] /\ checkpoints[m] = {}
  BY DEF Init
<1> QED
  BY <1>1, <1>2 DEF Leads, Unknown

(* No device, file or checkpoint knows of more updates of a device than the     *)
(* device itself, as long as that device neither applied a checkpoint nor had   *)
(* a set refused by SyncConflict.                                               *)
THEOREM OwnersLead == Spec => []OwnClockLeads
<1>1. ASSUME TypeOK, ClockInv, [Next]_vars
      PROVE  ClockInv'
  <2>1. CASE UNCHANGED mapVars
    <3>1. \A n \in Node : Leads(n)' = Leads(n)
      BY <2>1 DEF Leads, mapVars
    <3> QED
      BY <1>1, <2>1, <3>1 DEF ClockInv, mapVars
  <2> QED
    BY <1>1, <2>1, EveryMapStep, ClockStep, ClockRestart
<1>2. ClockInv => OwnClockLeads
  BY DEF ClockInv, Leads, OwnClockLeads
<1> QED
  BY <1>1, <1>2, ClockInit, TypeCorrect, PTL DEF Spec

-------------------------------------------------------------------------------
(* What a merge leaves behind, until one of the two maps changes: nothing newer *)
(* at the peer, and the rivals of the peer merged last among the conflicts.     *)
Caught(n, m) ==
  \A k \in Key :
    /\ ~ Newer(state[m][k], state[n][k])
    /\ latest[n] = m /\ Rival(state[m][k], state[n][k]) => k \in conflicts[n]
MergedInv == \A n, m \in Node : m \in merged[n] => Caught(n, m)

LEMMA EntryTypes ==
  ASSUME TypeOK, NEW n \in Node, NEW k \in Key
  PROVE  state[n] \in Map /\ state[n][k] \in Entry /\ state[n][k].timestamp \in Nat
<1>1. state[n] \in Map
  BY DEF TypeOK
<1>2. state[n][k] \in Entry
  BY <1>1 DEF Map
<1> QED
  BY <1>1, <1>2 DEF Entry, Absent

LEMMA MergeCatches ==
  ASSUME TypeOK, MergedInv, NEW n \in Node, NEW m \in Node, MergeSnapshot(n, m)
  PROVE  MergedInv'
<1> SUFFICES ASSUME NEW i \in Node, NEW j \in merged'[i]
             PROVE  Caught(i, j)'
  BY DEF MergedInv
<1> USE EntryTypes
<1>0. /\ state' = [state EXCEPT ![n] = Merged(n, state[m])]
      /\ conflicts' = [conflicts EXCEPT ![n] = Rivals(n, state[m])]
      /\ latest' = [latest EXCEPT ![n] = m]
      /\ \A l \in Node \ {n} : /\ state'[l] = state[l] /\ conflicts'[l] = conflicts[l]
                               /\ latest'[l] = latest[l]
      /\ state'[n] = Merged(n, state[m]) /\ conflicts'[n] = Rivals(n, state[m]) /\ latest'[n] = m
  BY DEF MergeSnapshot, TypeOK
<1>1. merged'[i] = IF i = n
                   THEN {m} \cup IF state'[n] = state[n] THEN merged[n] ELSE {}
                   ELSE IF state'[n] = state[n] THEN merged[i] ELSE merged[i] \ {n}
  BY DEF MergeSnapshot
<1>2. j \in Node
  BY <1>1 DEF TypeOK
<1>3. CASE i = n /\ j = m
  <2> SUFFICES ASSUME NEW k \in Key
               PROVE  /\ ~ Newer(state'[m][k], state'[n][k])
                      /\ Rival(state'[m][k], state'[n][k]) => k \in conflicts'[n]
    BY <1>3 DEF Caught
  <2>1. state'[n][k] = IF Newer(state[m][k], state[n][k]) THEN state[m][k] ELSE state[n][k]
    BY <1>0 DEF Merged
  <2>2. CASE m = n
    <3>1. state'[n][k].timestamp \in Nat
      BY <2>1
    <3> QED
      BY <2>2, <3>1 DEF Newer, Rival
  <2>3. CASE m # n
    <3>1. state'[m][k] = state[m][k]
      BY <1>0, <2>3
    <3>2. Rival(state[m][k], state[n][k]) => k \in conflicts'[n]
      BY <1>0 DEF Rivals
    <3>3. CASE Newer(state[m][k], state[n][k])
      BY <2>1, <3>1, <3>3 DEF Newer, Rival
    <3>4. CASE ~ Newer(state[m][k], state[n][k])
      BY <2>1, <3>1, <3>2, <3>4
    <3> QED
      BY <3>3, <3>4
  <2> QED
    BY <2>2, <2>3
<1>4. CASE i = n /\ j # m
  <2>1. state'[n] = state[n] /\ j \in merged[n]
    BY <1>1, <1>4
  <2>2. Caught(n, j)
    BY <1>2, <2>1 DEF MergedInv
  <2>3. state'[j] = state[j]
    BY <1>0, <1>2, <2>1
  <2> QED
    BY <1>0, <1>4, <2>1, <2>2, <2>3 DEF Caught
<1>5. CASE i # n
  <2>1. j \in merged[i] /\ (j = n => state'[n] = state[n])
    BY <1>1, <1>5
  <2>2. Caught(i, j)
    BY <1>2, <2>1 DEF MergedInv
  <2>3. state'[j] = state[j] /\ state'[i] = state[i] /\ conflicts'[i] = conflicts[i] /\ latest'[i] = latest[i]
    BY <1>0, <1>2, <1>5, <2>1
  <2> QED
    BY <2>2, <2>3 DEF Caught
<1> QED
  BY <1>3, <1>4, <1>5

\* A device that changed its own map is forgotten by every device, itself too.
LEMMA ForgottenCatches ==
  ASSUME TypeOK, MergedInv, NEW n \in Node, UNCHANGED latest,
         \A i \in Node \ {n} : state'[i] = state[i] /\ conflicts'[i] = conflicts[i],
         \A i \in Node : \A j \in merged'[i] : j \in merged[i],
         \/ state'[n] = state[n] /\ conflicts'[n] = conflicts[n]
         \/ \A i \in Node : \A j \in merged'[i] : i # n /\ j # n
  PROVE  MergedInv'
<1> SUFFICES ASSUME NEW i \in Node, NEW j \in Node, j \in merged'[i]
             PROVE  Caught(i, j)'
  BY DEF MergedInv
<1>1. Caught(i, j)
  BY DEF MergedInv
<1>2. state'[i] = state[i] /\ state'[j] = state[j] /\ conflicts'[i] = conflicts[i]
  OBVIOUS
<1> QED
  BY <1>1, <1>2 DEF Caught

LEMMA MergedStep ==
  ASSUME TypeOK, MergedInv, NEW n \in Node, MapStep(n)
  PROVE  MergedInv'
<1>1. ASSUME NEW k \in Key, NEW e \in Entry, Set(n, k, e)
      PROVE  MergedInv'
  BY <1>1, ForgottenCatches DEF Set, Forget, TypeOK
<1>2. ASSUME NEW k \in Key, NEW e \in Entry, Resolve(n, k, e)
      PROVE  MergedInv'
  BY <1>2, ForgottenCatches DEF Resolve, TypeOK
<1>3. CASE TakesCheckpoint(n)
  BY <1>3, ForgottenCatches DEF TakesCheckpoint
<1>4. CASE ApplyCheckpoint(n)
  BY <1>4, ForgottenCatches DEF ApplyCheckpoint, Forget, TypeOK
<1>5. ASSUME NEW m \in Node, Merge(n, m) \/ Fetch(n, m)
      PROVE  MergedInv'
  BY <1>5, MergeCatches DEF Merge, Fetch
<1> QED
  BY <1>1, <1>2, <1>3, <1>4, <1>5 DEF MapStep

(* Devices that merged each other and did not change since hold the same map up *)
(* to rivals, in whatever order they merged and however many devices merge in   *)
(* between; and each lists the rivals of the one it merged last.                *)
THEOREM MergesConverge == Spec => []SyncedPairsAgree
<1>1. Init => MergedInv
  BY DEF Init, MergedInv
<1>2. ASSUME TypeOK, MergedInv, [Next]_vars
      PROVE  MergedInv'
  <2>1. CASE UNCHANGED mapVars
    BY <1>2, <2>1 DEF MergedInv, Caught, mapVars
  <2>2. CASE Restart
    BY <2>2 DEF Restart, MergedInv
  <2> QED
    BY <1>2, <2>1, <2>2, EveryMapStep, MergedStep
<1>3. ASSUME TypeOK, MergedInv
      PROVE  SyncedPairsAgree
  <2> SUFFICES ASSUME NEW n \in Node, NEW m \in Node, m \in merged[n], NEW k \in Key
               PROVE  /\ n \in merged[m]
                           => state[n][k] = state[m][k] \/ Rival(state[n][k], state[m][k])
                      /\ latest[n] = m /\ Rival(state[m][k], state[n][k]) => k \in conflicts[n]
    BY DEF SyncedPairsAgree
  <2>1. Caught(n, m)
    BY <1>3 DEF MergedInv
  <2>2. ASSUME n \in merged[m], state[n][k].value = state[m][k].value
        PROVE  state[n][k] = state[m][k]
    <3>1. Caught(m, n)
      BY <1>3, <2>2 DEF MergedInv
    <3>2. state[n][k].timestamp = state[m][k].timestamp
      BY <1>3, <2>1, <3>1, EntryTypes DEF Caught, Newer
    <3> QED
      BY <1>3, <2>2, <3>2, EntryTypes DEF Entry, Absent
  <2>3. ASSUME n \in merged[m]
        PROVE  state[n][k].timestamp = state[m][k].timestamp
    <3>1. Caught(m, n)
      BY <1>3, <2>3 DEF MergedInv
    <3> QED
      BY <1>3, <2>1, <3>1, EntryTypes DEF Caught, Newer
  <2> QED
    BY <2>1, <2>2, <2>3 DEF Caught, Rival
<1> QED
  BY <1>1, <1>2, <1>3, TypeCorrect, PTL DEF Spec

-------------------------------------------------------------------------------
(* Why a blob that no peer took is not lost: every failure to publish appends a *)
(* new item to the list the loop visits, so the loop ends only without any.     *)
Publishes(item, k) == item.action = "publish_blob" /\ item.arg = k
Holds(items, k) == \E i \in DOMAIN items : Publishes(items[i], k)
QueuedInv == \A n \in Node : \A k \in unsent[n] : Holds(queue[n], k)

LEMMA AppendHolds ==
  ASSUME NEW items \in Seq(Item), NEW item \in Item, NEW k
  PROVE  /\ Holds(items, k) => Holds(Append(items, item), k)
         /\ Publishes(item, k) => Holds(Append(items, item), k)
<1>1. /\ DOMAIN Append(items, item) = 1 .. Len(items) + 1 /\ DOMAIN items = 1 .. Len(items)
      /\ Append(items, item)[Len(items) + 1] = item /\ Len(items) \in Nat
      /\ \A i \in 1 .. Len(items) : Append(items, item)[i] = items[i]
  OBVIOUS
<1> QED
  BY <1>1 DEF Holds

LEMMA TailHolds ==
  ASSUME NEW items \in Seq(Item), items # <<>>, NEW k, Holds(items, k), ~ Publishes(Head(items), k)
  PROVE  Holds(Tail(items), k)
<1>1. PICK i \in DOMAIN items : Publishes(items[i], k)
  BY DEF Holds
<1>2. i # 1 /\ i \in 1 .. Len(items) /\ Len(items) \in Nat
  BY <1>1
<1>3. i - 1 \in DOMAIN Tail(items) /\ Tail(items)[i - 1] = items[i]
  BY <1>2
<1> QED
  BY <1>1, <1>3 DEF Holds

LEMMA PublishKeeps ==
  ASSUME TypeOK, QueuedInv, NEW n \in Node, NEW k \in Key, NEW items \in Seq(Item),
         PublishInto(n, k, items), \A j \in unsent[n] \ {k} : Holds(items, j)
  PROVE  QueuedInv'
<1>1. \A i \in Node \ {n} : queue'[i] = queue[i] /\ unsent'[i] = unsent[i]
  BY DEF PublishInto, TypeOK
<1>2. \A j \in unsent'[n] : Holds(queue'[n], j)
  <2>1. CASE Takers(n) # {}
    BY <2>1 DEF PublishInto, TypeOK
  <2>2. CASE Takers(n) = {}
    <3>1. queue'[n] = Append(items, Unpublished(k)) /\ unsent'[n] = unsent[n] \cup {k}
      BY <2>2 DEF PublishInto, TypeOK
    <3>2. Unpublished(k) \in Item /\ Publishes(Unpublished(k), k)
      BY NewItems DEF Unpublished, Publishes
    <3> QED
      BY <3>1, <3>2, AppendHolds
  <2> QED
    BY <2>1, <2>2
<1> QED
  BY <1>1, <1>2 DEF QueuedInv

LEMMA PullKeeps ==
  ASSUME TypeOK, QueuedInv, NEW n \in Node, NEW m \in Node, NEW items \in Seq(Item),
         PullInto(n, m, items), UNCHANGED unsent, \A k \in unsent[n] : Holds(items, k)
  PROVE  QueuedInv'
<1>1. \/ queue' = [queue EXCEPT ![n] = items]
      \/ queue' = [queue EXCEPT ![n] = Append(items, Unavailable(n, m))]
  BY DEF PullInto
<1>2. Unavailable(n, m) \in Item
  BY NewItems
<1>3. \A k \in unsent[n] : Holds(queue'[n], k)
  <2>1. queue'[n] \in {items, Append(items, Unavailable(n, m))}
    BY <1>1 DEF TypeOK
  <2> QED
    BY <1>2, <2>1, AppendHolds
<1>4. \A i \in Node \ {n} : queue'[i] = queue[i]
  BY <1>1 DEF TypeOK
<1> QED
  BY <1>3, <1>4 DEF QueuedInv

LEMMA ExchangeKeeps ==
  ASSUME TypeOK, QueuedInv, NEW n \in Node, Exchange(n)
  PROVE  QueuedInv'
<1>1. queue[n] \in Seq(Item) /\ \A k \in unsent[n] : Holds(queue[n], k)
  BY DEF TypeOK, QueuedInv
<1>2. ASSUME NEW m \in Node, Merge(n, m) \/ PublishCheckpoint(n, m)
      PROVE  QueuedInv'
  BY <1>2 DEF Merge, PublishCheckpoint, QueuedInv, queueVars
<1>3. ASSUME NEW m \in Node, Pull(n, m)
      PROVE  QueuedInv'
  BY <1>1, <1>3, PullKeeps DEF Pull
<1>4. ASSUME NEW k \in Key, StoreBlob(n, k)
      PROVE  QueuedInv'
  <2>1. CASE PublishInto(n, k, queue[n])
    BY <1>1, <2>1, PublishKeeps
  <2>2. CASE /\ queue' = [queue EXCEPT ![n] = Append(@, Unpublished(k))]
             /\ unsent' = [unsent EXCEPT ![n] = @ \cup {k}]
    <3>1. Unpublished(k) \in Item /\ Publishes(Unpublished(k), k)
      BY NewItems DEF Unpublished, Publishes
    <3>2. \A j \in unsent[n] \cup {k} : Holds(Append(queue[n], Unpublished(k)), j)
      BY <1>1, <3>1, AppendHolds
    <3> QED
      BY <2>2, <3>2 DEF QueuedInv, TypeOK
  <2> QED
    BY <1>4, <2>1, <2>2 DEF StoreBlob
<1> QED
  BY <1>2, <1>3, <1>4 DEF Exchange

LEMMA RetryKeeps ==
  ASSUME TypeOK, QueuedInv, NEW n \in Node, RetryItem(n)
  PROVE  QueuedInv'
<1> DEFINE item == Head(queue[n])
           rest == Tail(queue[n])
<1>1. queue[n] \in Seq(Item) /\ queue[n] # <<>> /\ item \in Item /\ rest \in Seq(Item)
  BY DEF RetryItem, TypeOK
<1>2. \A k \in unsent[n] : Publishes(item, k) \/ Holds(rest, k)
  BY <1>1, TailHolds DEF QueuedInv
<1>3. CASE /\ queue' = [queue EXCEPT ![n] = Tail(@)]
           /\ unsent' = [unsent EXCEPT ![n] = @ \ {item.arg}]
  BY <1>2, <1>3 DEF QueuedInv, TypeOK, Publishes
<1>4. CASE item.action = "pull_peer_state" /\ PullInto(n, item.arg, rest) /\ UNCHANGED unsent
  <2>1. item.arg \in Node /\ \A k \in unsent[n] : Holds(rest, k)
    BY <1>1, <1>2, <1>4 DEF Item, Publishes
  <2> QED
    BY <1>1, <1>4, <2>1, PullKeeps
<1>5. CASE item.action = "publish_blob" /\ PublishInto(n, item.arg, rest)
  <2>1. item.arg \in Key /\ \A k \in unsent[n] \ {item.arg} : Holds(rest, k)
    BY <1>1, <1>2, <1>5 DEF Item, Publishes
  <2> QED
    BY <1>1, <1>5, <2>1, PublishKeeps
<1> QED
  BY <1>3, <1>4, <1>5 DEF RetryItem

(* A blob that no peer took stays in the offline queue until a peer takes it or *)
(* it was tried queue_retry_limit times, also while a retry is under way.       *)
THEOREM UnsentAreQueued == Spec => []UnsentIsQueued
<1>1. Init => QueuedInv
  BY DEF Init, QueuedInv
<1>2. ASSUME TypeOK, QueuedInv, [Next]_vars
      PROVE  QueuedInv'
  <2>1. ASSUME NEW n \in Node, EndRetry(n)
        PROVE  QueuedInv'
    <3>1. unsent[n] = {} /\ unsent' = unsent
      BY <1>2, <2>1 DEF EndRetry, QueuedInv, Holds, TypeOK
    <3> QED
      BY <1>2, <2>1, <3>1 DEF EndRetry, QueuedInv, TypeOK
  <2>2. CASE Restart
    BY <2>2 DEF Restart, QueuedInv
  <2>3. CASE UNCHANGED <<queue, unsent>>
    BY <1>2, <2>3 DEF QueuedInv
  <2>4. ASSUME NEW n \in Node, Write(n) \/ Mesh(n) \/ Checkpoint(n) \/ StartRetry(n)
        PROVE  UNCHANGED <<queue, unsent>>
    BY <2>4 DEF Write, Set, Resolve, Mesh, Connect, Reconnect, Disconnect, Checkpoint,
                CreateCheckpoint, ApplyCheckpoint, StartRetry, queueVars
  <2>5. UNCHANGED vars => UNCHANGED <<queue, unsent>>
    BY DEF vars, queueVars
  <2> QED
    BY <1>2, <2>1, <2>2, <2>3, <2>4, <2>5, ExchangeKeeps, RetryKeeps DEF Next, Retry
<1>3. QueuedInv => UnsentIsQueued
  BY DEF QueuedInv, Holds, Publishes, UnsentIsQueued
<1> QED
  BY <1>1, <1>2, <1>3, TypeCorrect, PTL DEF Spec

===============================================================================
