---------------------------------- MODULE Sync ----------------------------------
(* aegis/sync: the replicated map of a device (SyncManager), the transport that *)
(* carries it to other devices of the mesh (P2PTransport), the queue of what    *)
(* could not be sent, checkpoints, and the file each device reloads.            *)
(*                                                                              *)
(* A device runs one operation at a time; retry_offline_queue is the one that   *)
(* takes several steps.  Signatures are whether the receiver holds the token of *)
(* the sender; a payload is the name of the blob, or Snapshot for a checkpoint. *)
EXTENDS Integers, Sequences, FiniteSets, Functions

CONSTANTS
  Node,
  Key, Value,
  NoValue,         \* model value
  Link,            \* pairs of devices, the first of which may connect to the second
  MaxRetry,        \* MAX_RETRY of the transport
  QueueLimit,      \* queue_retry_limit
  MaxTime,         \* bound: timestamps
  MaxClock,        \* bound: calls of set of one device
  MaxQueue,        \* bound: length of the offline queue
  MaxBlobs,        \* bound: blobs stored by all devices
  MaxCheckpoints,  \* bound: checkpoints that all devices hold
  MaxRestarts      \* bound: restarts

ASSUME SyncConstants ==
  /\ MaxRetry \in Nat \ {0} /\ QueueLimit \in Nat \ {0} /\ MaxTime \in Nat
  /\ MaxClock \in Nat /\ MaxQueue \in Nat /\ MaxBlobs \in Nat
  /\ MaxCheckpoints \in Nat /\ MaxRestarts \in Nat
  /\ NoValue \notin Value /\ Link \subseteq Node \X Node

VARIABLES
  state,           \* device -> key -> its value and timestamp
  clock,           \* device -> vector_clock
  conflicts,       \* device -> last_conflicts
  stored,          \* device -> what its file holds
  peers,           \* device -> peers of the manager
  record,          \* device -> peer -> the endpoint of its peer record
  trusts,          \* device -> whose tokens its transport holds
  tries,           \* device -> peer -> retry_attempts
  inbox,           \* device -> peer -> the payload stored under "state:<peer>"
  queue,           \* device -> offline_queue; in a retry, what it has yet to visit
  loop,            \* device -> whether it retries, and the items that remain
  checkpoints,     \* device -> checkpoints
  blobs, restarts,
  merged,          \* history: device -> peers merged since either of the two changed
  latest,          \* history: device -> the peer merged last, itself if there is none
  unsent,          \* history: device -> blobs that no peer took and that were not given up
  behind           \* history: <<device, "map" or "clock">>: its file once fell behind in it

mapVars == <<state, clock, conflicts, stored, checkpoints, merged, latest, behind>>
meshVars == <<peers, record, trusts>>
queueVars == <<queue, loop, unsent>>
vars == <<mapVars, meshVars, tries, inbox, queueVars, blobs, restarts>>

Absent == [value |-> NoValue, timestamp |-> 0]
Entry == [value : Value, timestamp : 1 .. MaxTime] \cup {Absent}
Map == [Key -> Entry]
Unknown == -1
Clock == [Node -> Nat \cup {Unknown}]
Snapshot == "checkpoint"
Item == [action : {"pull_peer_state"}, arg : Node, attempts : 0 .. QueueLimit]
          \cup [action : {"publish_blob"}, arg : Key, attempts : 0 .. QueueLimit]
Idle == [retries |-> FALSE, remaining |-> <<>>]

TypeOK ==
  /\ state \in [Node -> Map] /\ clock \in [Node -> Clock]
  /\ conflicts \in [Node -> SUBSET Key]
  /\ stored \in [Node -> [state : Map, clock : Clock, peers : SUBSET Node]]
  /\ peers \in [Node -> SUBSET Node]
  /\ record \in [Node -> [Node -> {"none", "live", "nowhere"}]]
  /\ trusts \in [Node -> SUBSET Node]
  /\ tries \in [Node -> [Node -> 0 .. MaxRetry + 1]]
  /\ inbox \in [Node -> [Node -> Key \cup {NoValue, Snapshot}]]
  /\ queue \in [Node -> Seq(Item)]
  /\ loop \in [Node -> [retries : BOOLEAN, remaining : Seq(Item)]]
  /\ checkpoints \in [Node -> SUBSET [state : Map, clock : Clock]]
  /\ merged \in [Node -> SUBSET Node] /\ latest \in [Node -> Node]
  /\ unsent \in [Node -> SUBSET Key]

-------------------------------------------------------------------------------
Connected(n) == {m \in Node : record[n][m] # "none"}
Free(n) == ~loop[n].retries
Counter(i) == IF i = Unknown THEN 0 ELSE i
Newer(e, existing) == e.timestamp > existing.timestamp

Rival(e, existing) == e.timestamp = existing.timestamp /\ e.value # existing.value

\* mutants: only missing keys are taken; whatever is present is taken
MergedIfMissing(n, snapshot) ==
  [k \in Key |-> IF state[n][k] = Absent THEN snapshot[k] ELSE state[n][k]]
MergedIfPresent(n, snapshot) ==
  [k \in Key |-> IF snapshot[k] # Absent THEN snapshot[k] ELSE state[n][k]]

\* Merge a snapshot into the map of n: newer entries win, rivals stay out.
Merged(n, snapshot) ==
  [k \in Key |-> IF Newer(snapshot[k], state[n][k]) THEN snapshot[k] ELSE state[n][k]]
Rivals(n, snapshot) == {k \in Key : Rival(snapshot[k], state[n][k])}

\* save() writes a temporary file and replaces: it happens or it does not.
Save(n) == stored' = [stored EXCEPT ![n] = [state |-> state'[n], clock |-> clock'[n], peers |-> peers[n]]]

\* A device whose map changed has to be merged again, and to merge again.
Forget(n) ==
  merged' = IF state'[n] = state[n] THEN merged
            ELSE [i \in Node |-> IF i = n THEN {} ELSE merged[i] \ {n}]

-------------------------------------------------------------------------------
\* mutant: the file is written only when the entry changed
SetSavesChange(n, k, e) ==
  /\ Free(n) /\ clock[n][n] < MaxClock
  /\ clock' = [clock EXCEPT ![n][n] = @ + 1]
  /\ \/ Newer(e, state[n][k]) /\ state' = [state EXCEPT ![n][k] = e] /\ Save(n)
     \/ ~Newer(e, state[n][k]) /\ UNCHANGED <<state, stored>>
  /\ Forget(n)
  /\ UNCHANGED <<conflicts, checkpoints, latest, behind, meshVars, tries, inbox, queueVars, blobs, restarts>>

(* set(key, value, timestamp): the clock first; SyncConflict leaves before the  *)
(* file is written.                                                             *)
Set(n, k, e) ==
  /\ Free(n) /\ clock[n][n] < MaxClock
  /\ clock' = [clock EXCEPT ![n][n] = @ + 1]
  /\ \/ /\ Newer(e, state[n][k]) /\ state' = [state EXCEPT ![n][k] = e] /\ Save(n)
     \/ /\ ~Newer(e, state[n][k]) /\ ~Rival(e, state[n][k]) /\ UNCHANGED state /\ Save(n)
     \/ /\ Rival(e, state[n][k]) /\ UNCHANGED <<state, stored>>
  /\ behind' = IF Rival(e, state[n][k]) THEN behind \cup {<<n, "clock">>} ELSE behind
  /\ Forget(n)
  /\ UNCHANGED <<conflicts, checkpoints, latest, meshVars, tries, inbox, queueVars, blobs, restarts>>

MergeSnapshot(n, m) ==
  /\ state' = [state EXCEPT ![n] = Merged(n, state[m])]
  /\ conflicts' = [conflicts EXCEPT ![n] = Rivals(n, state[m])]
  /\ latest' = [latest EXCEPT ![n] = m]
  /\ merged' = [i \in Node |-> IF i = n
                               THEN {m} \cup IF state'[n] = state[n] THEN merged[n] ELSE {}
                               ELSE IF state'[n] = state[n] THEN merged[i] ELSE merged[i] \ {n}]
  /\ Save(n)

\* merge(other): the other manager itself, with its clock
Merge(n, m) ==
  /\ n # m /\ Free(n)
  /\ clock' = [clock EXCEPT ![n] =
                 [i \in Node |-> IF clock[m][i] > Counter(@[i]) \/ @[i] = Unknown
                                 THEN clock[m][i] ELSE @[i]]]
  /\ MergeSnapshot(n, m)
  /\ UNCHANGED <<checkpoints, behind, meshVars, tries, inbox, queueVars, blobs, restarts>>

\* merge_conflict_resolution: any value, any time
Resolve(n, k, e) ==
  /\ Free(n)
  /\ state' = [state EXCEPT ![n][k] = e]
  /\ merged' = [i \in Node |-> IF i = n THEN {} ELSE merged[i] \ {n}]
  /\ conflicts' = [conflicts EXCEPT ![n] = @ \ {k}]
  /\ UNCHANGED clock /\ Save(n)
  /\ UNCHANGED <<checkpoints, latest, behind, meshVars, tries, inbox, queueVars, blobs, restarts>>

HeldCheckpoints == SumFunction([n \in Node |-> Cardinality(checkpoints[n])])

CreateCheckpoint(n) ==
  /\ Free(n) /\ HeldCheckpoints < MaxCheckpoints
  /\ checkpoints' = [checkpoints EXCEPT ![n] = @ \cup {[state |-> state[n], clock |-> clock[n]]}]
  /\ UNCHANGED <<state, clock, conflicts, stored, merged, latest, behind, meshVars, tries, inbox, queueVars, blobs, restarts>>

(* apply_checkpoint: keys and clocks of the checkpoint, whatever is newer; the  *)
(* file is not written.                                                         *)
ApplyCheckpoint(n) ==
  /\ Free(n)
  /\ \E c \in checkpoints[n] :
       /\ state' = [state EXCEPT ![n] =
                      [k \in Key |-> IF c.state[k] = Absent THEN @[k] ELSE c.state[k]]]
       /\ clock' = [clock EXCEPT ![n] =
                      [i \in Node |-> IF c.clock[i] # Unknown THEN c.clock[i] ELSE @[i]]]
  /\ behind' = behind \cup ({n} \X {"map", "clock"}) /\ Forget(n)
  /\ UNCHANGED <<conflicts, stored, checkpoints, latest, meshVars, tries, inbox, queueVars, blobs, restarts>>

-------------------------------------------------------------------------------
\* fetch_state: every fetch counts as a retry, the ones that succeed too
Fetchable(n, m) ==
  /\ record[n][m] = "live" /\ m \in trusts[n]
  /\ tries[n][m] < MaxRetry
CountTry(n, m) ==
  tries' = IF record[n][m] = "none" \/ tries[n][m] > MaxRetry THEN tries
           ELSE [tries EXCEPT ![n][m] = @ + 1]

Unavailable(n, m) == [action |-> "pull_peer_state", arg |-> m, attempts |-> 0]
Unpublished(k) == [action |-> "publish_blob", arg |-> k, attempts |-> 0]

\* pull_peer_state(m), with the offline queue as the caller left it
PullInto(n, m, items) ==
  /\ CountTry(n, m)
  /\ \/ /\ Fetchable(n, m) /\ UNCHANGED clock /\ MergeSnapshot(n, m)
        /\ queue' = [queue EXCEPT ![n] = items] /\ UNCHANGED <<checkpoints, behind>>
     \/ /\ ~Fetchable(n, m)
        /\ queue' = [queue EXCEPT ![n] = Append(items, Unavailable(n, m))]
        /\ UNCHANGED mapVars

Pull(n, m) ==
  /\ n # m /\ Free(n) /\ PullInto(n, m, queue[n])
  /\ Len(queue[n]) < MaxQueue
  /\ UNCHANGED <<meshVars, inbox, loop, unsent, blobs, restarts>>

-------------------------------------------------------------------------------
(* connect_peer: a peer already connected is left as it is; one at an endpoint  *)
(* of nobody is accepted too; a live one exchanges tokens both ways.            *)
Connect(n, m, endpoint) ==
  /\ <<n, m>> \in Link /\ n # m /\ Free(n) /\ m \notin Connected(n)
  /\ record' = [record EXCEPT ![n][m] = endpoint]
  /\ trusts' = IF endpoint = "live"
               THEN [trusts EXCEPT ![n] = @ \cup {m}, ![m] = @ \cup {n}]
               ELSE trusts
  /\ peers' = [peers EXCEPT ![n] = @ \cup {m}]
  /\ UNCHANGED <<mapVars, tries, inbox, queueVars, blobs, restarts>>

Reconnect(n, m) ==
  /\ Free(n) /\ m \in Connected(n)
  /\ peers' = [peers EXCEPT ![n] = @ \cup {m}]
  /\ UNCHANGED <<mapVars, record, trusts, tries, inbox, queueVars, blobs, restarts>>

\* disconnect_peer: this side only
Disconnect(n, m) ==
  /\ Free(n) /\ m \in Connected(n)
  /\ record' = [record EXCEPT ![n][m] = "none"]
  /\ trusts' = [trusts EXCEPT ![n] = @ \ {m}]
  /\ peers' = [peers EXCEPT ![n] = @ \ {m}]
  /\ UNCHANGED <<mapVars, tries, inbox, queueVars, blobs, restarts>>

\* publish_state: an envelope to every connected peer; enough if one takes it
Takers(n) == {m \in Node : record[n][m] = "live" /\ n \in trusts[m]}
Deliver(n, payload) ==
  inbox' = [m \in Node |-> IF m \in Takers(n) THEN [inbox[m] EXCEPT ![n] = payload] ELSE inbox[m]]

\* mutant: what no peer took is not put in the queue
PublishIntoDrops(n, k, items) ==
  /\ Deliver(n, k)
  /\ queue' = [queue EXCEPT ![n] = items]
  /\ unsent' = [unsent EXCEPT ![n] = IF Takers(n) # {} THEN @ \ {k} ELSE @ \cup {k}]

\* _publish_blob_to_peers, with the offline queue as the caller left it
PublishInto(n, k, items) ==
  /\ Deliver(n, k)
  /\ IF Takers(n) # {}
     THEN /\ queue' = [queue EXCEPT ![n] = items]
          /\ unsent' = [unsent EXCEPT ![n] = @ \ {k}]
     ELSE /\ queue' = [queue EXCEPT ![n] = Append(items, Unpublished(k))]
          /\ unsent' = [unsent EXCEPT ![n] = @ \cup {k}]

StoreBlob(n, k) ==
  /\ Free(n) /\ Len(queue[n]) < MaxQueue
  /\ blobs < MaxBlobs /\ blobs' = blobs + 1
  /\ \/ peers[n] # {} /\ PublishInto(n, k, queue[n])
     \/ /\ peers[n] = {} /\ UNCHANGED inbox
        /\ queue' = [queue EXCEPT ![n] = Append(@, Unpublished(k))]
        /\ unsent' = [unsent EXCEPT ![n] = @ \cup {k}]
  /\ UNCHANGED <<mapVars, meshVars, tries, loop, restarts>>

PublishCheckpoint(n, m) ==
  /\ Free(n) /\ m \in peers[n] /\ HeldCheckpoints < MaxCheckpoints
  /\ checkpoints' = [checkpoints EXCEPT ![n] = @ \cup {[state |-> state[n], clock |-> clock[n]]}]
  /\ Deliver(n, Snapshot)
  /\ UNCHANGED <<state, clock, conflicts, stored, merged, latest, behind, meshVars, tries, queueVars, blobs, restarts>>

-------------------------------------------------------------------------------
Exhausted(item) == item.attempts >= QueueLimit

(* retry_offline_queue: the loop visits the list that a failure appends to.  Of *)
(* the items that remain it keeps the first MaxQueue.                           *)
StartRetry(n) ==
  /\ Free(n) /\ queue[n] # <<>>
  /\ loop' = [loop EXCEPT ![n].retries = TRUE]
  /\ UNCHANGED <<mapVars, meshVars, tries, inbox, queue, unsent, blobs, restarts>>

Keep(n, item) ==
  loop' = [loop EXCEPT ![n].remaining = IF Len(@) < MaxQueue THEN Append(@, item) ELSE @]

RetryItem(n) ==
  /\ ~Free(n) /\ queue[n] # <<>>
  /\ LET item == Head(queue[n])
         tried == [item EXCEPT !.attempts = @ + 1]
     IN  \/ /\ Exhausted(item)
            /\ queue' = [queue EXCEPT ![n] = Tail(@)]
            /\ unsent' = [unsent EXCEPT ![n] = @ \ {item.arg}]
            /\ UNCHANGED <<mapVars, tries, inbox, loop>>
         \/ /\ ~Exhausted(item) /\ item.action = "pull_peer_state"
            /\ PullInto(n, item.arg, Tail(queue[n]))
            /\ IF Fetchable(n, item.arg) THEN UNCHANGED loop ELSE Keep(n, tried)
            /\ UNCHANGED <<inbox, unsent>>
         \/ /\ ~Exhausted(item) /\ item.action = "publish_blob"
            /\ PublishInto(n, item.arg, Tail(queue[n]))
            /\ IF Takers(n) # {} THEN UNCHANGED loop ELSE Keep(n, tried)
            /\ UNCHANGED <<mapVars, tries>>
  /\ UNCHANGED <<meshVars, blobs, restarts>>

EndRetry(n) ==
  /\ ~Free(n) /\ queue[n] = <<>>
  /\ queue' = [queue EXCEPT ![n] = loop[n].remaining]
  /\ loop' = [loop EXCEPT ![n] = Idle]
  /\ UNCHANGED <<mapVars, meshVars, tries, inbox, unsent, blobs, restarts>>

-------------------------------------------------------------------------------
(* The process of the devices ends, and each is made again from its file: its   *)
(* transport is new, and its queue, conflicts and checkpoints are gone.         *)
Restart ==
  /\ restarts < MaxRestarts /\ restarts' = restarts + 1
  /\ state' = [n \in Node |-> stored[n].state] /\ clock' = [n \in Node |-> stored[n].clock]
  /\ peers' = [n \in Node |-> stored[n].peers]
  /\ conflicts' = [n \in Node |-> {}] /\ checkpoints' = [n \in Node |-> {}]
  /\ record' = [n \in Node |-> [m \in Node |-> "none"]] /\ trusts' = [n \in Node |-> {}]
  /\ tries' = [n \in Node |-> [m \in Node |-> 0]]
  /\ inbox' = [n \in Node |-> [m \in Node |-> NoValue]]
  /\ queue' = [n \in Node |-> <<>>] /\ loop' = [n \in Node |-> Idle]
  /\ merged' = [n \in Node |-> {}] /\ latest' = [n \in Node |-> n]
  /\ unsent' = [n \in Node |-> {}]
  /\ UNCHANGED <<stored, blobs, behind>>

-------------------------------------------------------------------------------
Init ==
  /\ state = [n \in Node |-> [k \in Key |-> Absent]]
  /\ clock = [n \in Node |-> [m \in Node |-> IF m = n THEN 0 ELSE Unknown]]
  /\ conflicts = [n \in Node |-> {}] /\ checkpoints = [n \in Node |-> {}]
  /\ stored = [n \in Node |-> [state |-> state[n], clock |-> clock[n], peers |-> {}]]
  /\ peers = [n \in Node |-> {}] /\ trusts = [n \in Node |-> {}]
  /\ record = [n \in Node |-> [m \in Node |-> "none"]]
  /\ tries = [n \in Node |-> [m \in Node |-> 0]]
  /\ inbox = [n \in Node |-> [m \in Node |-> NoValue]]
  /\ queue = [n \in Node |-> <<>>] /\ loop = [n \in Node |-> Idle]
  /\ blobs = 0 /\ restarts = 0 /\ merged = [n \in Node |-> {}]
  /\ latest = [n \in Node |-> n] /\ unsent = [n \in Node |-> {}] /\ behind = {}

Write(n) ==
  \E k \in Key, e \in Entry \ {Absent} : Set(n, k, e) \/ Resolve(n, k, e)
Mesh(n) ==
  \E m \in Node : \/ \E endpoint \in {"live", "nowhere"} : Connect(n, m, endpoint)
                  \/ Reconnect(n, m) \/ Disconnect(n, m)
Exchange(n) ==
  \/ \E m \in Node : Merge(n, m) \/ Pull(n, m) \/ PublishCheckpoint(n, m)
  \/ \E k \in Key : StoreBlob(n, k)
Retry(n) == RetryItem(n) \/ EndRetry(n)
Checkpoint(n) == CreateCheckpoint(n) \/ ApplyCheckpoint(n)

Next ==
  \/ \E n \in Node : \/ Write(n) \/ Mesh(n) \/ Exchange(n) \/ Checkpoint(n)
                     \/ StartRetry(n) \/ Retry(n)
  \/ Restart

Spec == Init /\ [][Next]_vars

-------------------------------------------------------------------------------
(* Whatever arrives by a write, a merge or a pull, the entry of a key is only   *)
(* replaced by a newer one; a person's resolution, a checkpoint and a restart   *)
(* may set it back.                                                             *)
NewerWins ==
  [][\A n \in Node, k \in Key :
       state'[n][k] # state[n][k]
         => \/ Newer(state'[n][k], state[n][k])
            \/ Resolve(n, k, state'[n][k]) \/ ApplyCheckpoint(n) \/ Restart]_vars

(* Two devices that have merged each other and not changed since hold the same  *)
(* map, whatever the order: they differ at most in rivals, which one timestamp  *)
(* cannot order.  Each then reports the conflict of the device it merged last   *)
(* until it is resolved: a merge with a third device forgets those before.      *)
SyncedPairsAgree ==
  \A n, m \in Node : m \in merged[n] =>
    \A k \in Key :
      /\ n \in merged[m] => state[n][k] = state[m][k] \/ Rival(state[n][k], state[m][k])
      /\ latest[n] = m /\ Rival(state[m][k], state[n][k]) => k \in conflicts[n]

(* "vector clocks": nobody knows of more updates of a device than the device    *)
(* itself, in memory or on disk, unless it applied a checkpoint, which sets    *)
(* the own clock back, or counted a set that raised SyncConflict and was not    *)
(* saved.                                                                       *)
OwnClockLeads ==
  \A n, m \in Node : <<n, "clock">> \notin behind =>
    clock[m][n] <= clock[n][n] /\ stored[m].clock[n] <= clock[n][n]

(* A blob that no peer took is in the offline queue until a peer takes it, it   *)
(* was tried queue_retry_limit times, or the process ends: the queue is not     *)
(* saved, and a restart forgets what was not sent.                              *)
UnsentIsQueued ==
  \A n \in Node : \A k \in unsent[n] :
    \/ \E i \in DOMAIN queue[n] : queue[n][i].action = "publish_blob" /\ queue[n][i].arg = k
    \/ \E i \in DOMAIN loop[n].remaining : loop[n].remaining[i].arg = k
===============================================================================
