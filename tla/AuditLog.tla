-------------------------------- MODULE AuditLog --------------------------------
(* aegis/audit.py: one log file that every component appends to through an     *)
(* AuditLog object of its own, from the threads of the API.  An object caches  *)
(* the hash of the chain; rotation renames the file and its backups one by     *)
(* one; expiry copies the file and writes it back; the event stream of the API *)
(* tails it by offset.  Nothing here takes a lock.                             *)
(*                                                                             *)
(* An event is its number (its time order), a chain hash is the sequence of    *)
(* the events hashed into it, a size or an offset counts lines.  Any thread    *)
(* records through any object; the object that wrote a line is kept with it,   *)
(* as history.                                                                 *)
EXTENDS Integers, Sequences, FiniteSets, SequencesExt

CONSTANTS
  Thread,
  Instance,        \* AuditLog objects
  Threshold,       \* AEGIS_AUDIT_MAX_BYTES, or NoRotation
  MaxBackups,      \* AEGIS_AUDIT_BACKUP_COUNT
  Batch,           \* AEGIS_WS_PLAN_EVENTS_BATCH
  WriteMayFail,    \* BOOLEAN: the disk may refuse a line
  MayExpire,       \* BOOLEAN: enforce_audit_retention is called
  NoFile,          \* model value: the path does not exist
  NoObject,        \* model value: of a thread that is in no call
  MaxEvents,       \* bound: events recorded
  MaxRestarts      \* bound: restarts of the process

NoRotation == 0

ASSUME AuditConstants ==
  /\ NoObject \notin Instance
  /\ Threshold \in Nat /\ MaxBackups \in Nat \ {0} /\ Batch \in Nat \ {0}
  /\ WriteMayFail \in BOOLEAN /\ MayExpire \in BOOLEAN
  /\ MaxEvents \in Nat /\ MaxRestarts \in Nat

VARIABLES
  file,        \* the lines of audit.log
  backup,      \* k -> the lines of audit.log.k
  chain,       \* instance -> chain_hash
  pc, local,   \* thread -> label and local values of its call
  recorded,    \* number of the last event
  offset,      \* read_offset of the event stream
  streamed,    \* the events it has sent
  restarts,
  appended,    \* history: the events in the order their lines were written
  upsets       \* history: what happened to the log, see Upsets

streamVars == <<offset, streamed>>
vars == <<file, backup, chain, pc, local, recorded, offset, streamed, restarts, appended,
          upsets>>

Event == 1 .. MaxEvents
Line == [event : Event, chain : Seq(Event), by : Instance]
File == Seq(Line) \cup {NoFile}

ASSUME NoFileIsNoLog == NoFile \notin Seq(Line)

\* Entries expired, a line was lost, two calls were under way at once.
Upsets == {"expired", "failed", "overlapped"}

NoCall == [by |-> NoObject, event |-> 0, hash |-> <<>>, idx |-> 0, cutoff |-> 0, kept |-> <<>>]

TypeOK ==
  /\ file \in File
  /\ backup \in [1 .. MaxBackups -> File]
  /\ chain \in [Instance -> Seq(Event)]
  /\ pc \in [Thread -> {"idle", "check", "rotate", "shift", "hash", "write", "rewrite"}]
  /\ local \in [Thread -> [by : Instance \cup {NoObject},
                           event : Event \cup {0}, hash : Seq(Event),
                           idx : 0 .. MaxBackups - 1, cutoff : Nat, kept : Seq(Line)]]
  /\ recorded \in 0 .. MaxEvents
  /\ offset \in Nat /\ streamed \in Seq(Event)
  /\ upsets \subseteq Upsets

-------------------------------------------------------------------------------
LinesOf(f) == IF f = NoFile THEN <<>> ELSE f
EventsOf(f) == [i \in DOMAIN LinesOf(f) |-> f[i].event]

\* Each line's hash is the hash of everything up to it.
Chained(f) == \A i \in DOMAIN LinesOf(f) : f[i].chain = SubSeq(EventsOf(f), 1, i)

\* _load_chain_hash: a file that does not chain up starts a chain from nothing
LoadChain(f) == IF Chained(f) THEN EventsOf(f) ELSE <<>>

GoTo(t, label) == pc' = [pc EXCEPT ![t] = label]
SetChain(t, hash) == chain' = [chain EXCEPT ![local[t].by] = hash]

-------------------------------------------------------------------------------
NoteOverlap(t) ==
  upsets' = IF \E u \in Thread \ {t} : pc[u] # "idle" THEN upsets \cup {"overlapped"} ELSE upsets

\* record(source, event_type, details) of object i: the event gets its timestamp
Record(t, i) ==
  /\ pc[t] = "idle" /\ recorded < MaxEvents
  /\ recorded' = recorded + 1
  /\ local' = [local EXCEPT ![t].by = i, ![t].event = recorded + 1]
  /\ GoTo(t, IF Threshold = NoRotation THEN "hash" ELSE "check")
  /\ NoteOverlap(t)
  /\ UNCHANGED <<file, backup, chain, streamVars, restarts, appended>>

\* _rotate_if_needed
CheckSize(t) ==
  /\ pc[t] = "check"
  /\ GoTo(t, IF Len(LinesOf(file)) >= Threshold THEN "rotate" ELSE "hash")
  /\ UNCHANGED <<file, backup, chain, local, recorded, streamVars, restarts, appended, upsets>>

\* rotate: the oldest backup is deleted, unless there is nothing to rotate
DropOldest(t) ==
  /\ pc[t] = "rotate"
  /\ IF file = NoFile
     THEN SetChain(t, <<>>) /\ GoTo(t, "hash") /\ UNCHANGED <<backup, local>>
     ELSE /\ backup' = [backup EXCEPT ![MaxBackups] = NoFile]
          /\ local' = [local EXCEPT ![t].idx = MaxBackups - 1]
          /\ GoTo(t, "shift")
          /\ UNCHANGED chain
  /\ UNCHANGED <<file, recorded, streamVars, restarts, appended, upsets>>

\* one backup is renamed, replacing the next
ShiftBackup(t) ==
  LET k == local[t].idx
  IN  /\ pc[t] = "shift" /\ k > 0
      /\ backup' = IF backup[k] = NoFile THEN backup
                   ELSE [backup EXCEPT ![k + 1] = backup[k], ![k] = NoFile]
      /\ local' = [local EXCEPT ![t].idx = k - 1]
      /\ UNCHANGED <<file, chain, pc, recorded, streamVars, restarts, appended, upsets>>

\* mutants: the chain goes on in the new file; the file is copied instead of renamed
MoveFileKeepsChain(t) ==
  /\ pc[t] = "shift" /\ local[t].idx = 0
  /\ backup' = [backup EXCEPT ![1] = file] /\ file' = NoFile
  /\ GoTo(t, "hash")
  /\ UNCHANGED <<chain, local, recorded, streamVars, restarts, appended, upsets>>
MoveFileCopies(t) ==
  /\ pc[t] = "shift" /\ local[t].idx = 0
  /\ backup' = [backup EXCEPT ![1] = file] /\ SetChain(t, <<>>) /\ GoTo(t, "hash")
  /\ UNCHANGED <<file, local, recorded, streamVars, restarts, appended, upsets>>

\* the file becomes the first backup; if another thread has moved it, the rename
\* fails and the cached chain stays
MoveFile(t) ==
  /\ pc[t] = "shift" /\ local[t].idx = 0
  /\ IF file = NoFile
     THEN UNCHANGED <<file, backup, chain>>
     ELSE /\ backup' = [backup EXCEPT ![1] = file]
          /\ file' = NoFile
          /\ SetChain(t, <<>>)
  /\ GoTo(t, "hash")
  /\ UNCHANGED <<local, recorded, streamVars, restarts, appended, upsets>>

\* _compute_entry_hash
ComputeEntryHash(t) ==
  LET hash == Append(chain[local[t].by], local[t].event)
  IN  /\ pc[t] = "hash"
      /\ SetChain(t, hash)
      /\ local' = [local EXCEPT ![t].hash = hash]
      /\ GoTo(t, "write")
      /\ UNCHANGED <<file, backup, recorded, streamVars, restarts, appended, upsets>>

\* The line is appended, to a new file if need be; a failure is logged only.
WriteLine(t) ==
  /\ pc[t] = "write"
  /\ file' = Append(LinesOf(file),
                    [event |-> local[t].event, chain |-> local[t].hash, by |-> local[t].by])
  /\ appended' = Append(appended, local[t].event)
  /\ local' = [local EXCEPT ![t] = NoCall]
  /\ GoTo(t, "idle")
  /\ UNCHANGED <<backup, chain, recorded, streamVars, restarts, upsets>>

WriteFails(t) ==
  /\ WriteMayFail /\ pc[t] = "write"
  /\ local' = [local EXCEPT ![t] = NoCall]
  /\ upsets' = upsets \cup {"failed"}
  /\ GoTo(t, "idle")
  /\ UNCHANGED <<file, backup, chain, recorded, streamVars, restarts, appended>>

-------------------------------------------------------------------------------
(* The lines that are not older than the cutoff, in their order: the n-th one  *)
(* is the young line that has n young ones up to it.                           *)
Younger(lines, cutoff) ==
  LET young == {i \in DOMAIN lines : lines[i].event >= cutoff}
      nth(n) == CHOOSE i \in young : Cardinality({j \in young : j <= i}) = n
  IN  [n \in 1 .. Cardinality(young) |-> lines[nth(n)]]

\* mutant: the line at the cutoff expires too
ReadForExpiryStrictly(t, cutoff) ==
  /\ MayExpire /\ pc[t] = "idle" /\ file # NoFile
  /\ local' = [local EXCEPT ![t].cutoff = cutoff,
                 ![t].kept = Younger(file, cutoff + 1)]
  /\ GoTo(t, "rewrite")
  /\ NoteOverlap(t)
  /\ UNCHANGED <<file, backup, chain, recorded, streamVars, restarts, appended>>

\* expire_entries: the lines younger than the cutoff are read ...
ReadForExpiry(t, cutoff) ==
  /\ MayExpire /\ pc[t] = "idle" /\ file # NoFile
  /\ local' = [local EXCEPT ![t].cutoff = cutoff, ![t].kept = Younger(file, cutoff)]
  /\ GoTo(t, "rewrite")
  /\ NoteOverlap(t)
  /\ UNCHANGED <<file, backup, chain, recorded, streamVars, restarts, appended>>

\* ... and written back
Rewrite(t) ==
  /\ pc[t] = "rewrite"
  /\ file' = local[t].kept /\ upsets' = upsets \cup {"expired"}
  /\ local' = [local EXCEPT ![t] = NoCall]
  /\ GoTo(t, "idle")
  /\ UNCHANGED <<backup, chain, recorded, streamVars, restarts, appended>>

\* A component is made anew and with it its AuditLog.
Construct(i) ==
  /\ \A t \in Thread : local[t].by # i
  /\ chain' = [chain EXCEPT ![i] = LoadChain(file)]
  /\ UNCHANGED <<file, backup, pc, local, recorded, streamVars, restarts, appended, upsets>>

\* The process dies, between any two of these steps, and starts again.
RestartWith(lines) ==
  /\ restarts < MaxRestarts /\ restarts' = restarts + 1
  /\ file' = lines
  /\ chain' = [i \in Instance |-> LoadChain(lines)]
  /\ pc' = [t \in Thread |-> "idle"] /\ local' = [t \in Thread |-> NoCall]
  /\ offset' = 0 /\ streamed' = <<>>
  /\ UNCHANGED <<backup, recorded, appended>>

\* A crash while the file is written back leaves the first lines only.
CrashWhileRewriting(t) ==
  /\ pc[t] = "rewrite"
  /\ \E n \in 0 .. Len(local[t].kept) : RestartWith(SubSeq(local[t].kept, 1, n))
  /\ upsets' = upsets \cup {"expired"}

\* mutants: the last line is held back; the last line of the batch is read again
ReadFromOffsetShort ==
  LET last == IF offset + Batch < Len(LinesOf(file)) THEN offset + Batch ELSE Len(LinesOf(file)) - 1
  IN  /\ last > offset /\ offset' = last
      /\ streamed' = streamed \o SubSeq(EventsOf(file), offset + 1, last)
      /\ UNCHANGED <<file, backup, chain, pc, local, recorded, restarts, appended, upsets>>
ReadFromOffsetOverlaps ==
  LET last == IF offset + Batch < Len(LinesOf(file)) THEN offset + Batch ELSE Len(LinesOf(file))
  IN  /\ offset' = IF last > offset THEN last - 1 ELSE offset
      /\ streamed' = streamed \o SubSeq(EventsOf(file), offset + 1, last)
      /\ UNCHANGED <<file, backup, chain, pc, local, recorded, restarts, appended, upsets>>

(* The event stream polls read_from_offset: an offset behind the end starts    *)
(* over, one inside a new file is taken as it is.                              *)
ReadFromOffset ==
  LET start == IF offset > Len(LinesOf(file)) THEN 0 ELSE offset
      last == IF start + Batch < Len(LinesOf(file)) THEN start + Batch ELSE Len(LinesOf(file))
  IN  /\ IF file = NoFile
         THEN offset' = 0 /\ UNCHANGED streamed
         ELSE /\ offset' = last
              /\ streamed' = streamed \o SubSeq(EventsOf(file), start + 1, last)
      /\ UNCHANGED <<file, backup, chain, pc, local, recorded, restarts, appended, upsets>>

-------------------------------------------------------------------------------
Init ==
  /\ file = NoFile /\ backup = [k \in 1 .. MaxBackups |-> NoFile]
  /\ chain = [i \in Instance |-> <<>>]
  /\ pc = [t \in Thread |-> "idle"] /\ local = [t \in Thread |-> NoCall]
  /\ recorded = 0 /\ offset = 0 /\ streamed = <<>>
  /\ restarts = 0 /\ appended = <<>> /\ upsets = {}

Rotation(t) == CheckSize(t) \/ DropOldest(t) \/ ShiftBackup(t) \/ MoveFile(t)

Step(t) ==
  \/ Rotation(t) \/ ComputeEntryHash(t) \/ WriteLine(t) \/ WriteFails(t)
  \/ Rewrite(t)

Call(t) ==
  \/ \E i \in Instance : Record(t, i)
  \/ \E cutoff \in 1 .. recorded : ReadForExpiry(t, cutoff)

Next ==
  \/ \E t \in Thread : Call(t) \/ Step(t)
  \/ \E i \in Instance : Construct(i)
  \/ RestartWith(file) /\ UNCHANGED upsets
  \/ \E t \in Thread : CrashWhileRewriting(t)
  \/ ReadFromOffset

\* A connected client is served by a loop that polls for ever.
Spec == Init /\ [][Next]_vars /\ WF_vars(ReadFromOffset)

-------------------------------------------------------------------------------
\* audit.log is file 0, audit.log.k is file k.
Stored(k) == IF k = 0 THEN file ELSE backup[k]
EventsIn(k) == Range(EventsOf(Stored(k)))
Retained == UNION {EventsIn(k) : k \in 0 .. MaxBackups}

Rising(events) == \A i, j \in DOMAIN events : i < j => events[i] < events[j]

\* All its lines were written through one object.
OneSource(f) == \A i, j \in DOMAIN LinesOf(f) : f[i].by = f[j].by

(* A file that one object wrote chains up from its first line: whoever rotated *)
(* its predecessor away wrote the first line, from the empty hash, and nobody  *)
(* came in between.  This survives the records of other objects in the other   *)
(* files, their rotations, new AuditLog objects that read any file, and a      *)
(* crash at any step, until the log is upset.                                  *)
OwnChainIsIntact ==
  upsets # {} \/ \A k \in 0 .. MaxBackups : OneSource(Stored(k)) => Chained(Stored(k))


(* "a durable event trail": what is on disk, over the backups and the file, is *)
(* what was written most recently, in order of time within each file and from  *)
(* one to the next; whatever is gone is older, and the newest line is there.   *)
(* This holds in the middle of a rotation, after a crash there and after a     *)
(* lost line.                                                                  *)
DurableTrail ==
  upsets \subseteq {"failed"} =>
    /\ \A k \in 0 .. MaxBackups : Rising(EventsOf(Stored(k)))
    /\ \A j, k \in 0 .. MaxBackups :
         j < k => \A x \in EventsIn(j), y \in EventsIn(k) : y < x
    /\ Retained \subseteq Range(appended)
    /\ \A x \in Retained, y \in Range(appended) \ Retained : y < x
    /\ appended # <<>> => appended[Len(appended)] \in Retained

(* expire_entries loses no line that is younger than its cutoff, unless        *)
(* another thread recorded between its reading and its writing; crashes aside. *)
RecentKept ==
  [][\A t \in Thread :
       pc[t] = "rewrite" /\ pc'[t] = "idle" /\ restarts' = restarts /\ "overlapped" \notin upsets
         => \A e \in Range(EventsOf(file)) \ Range(EventsOf(file')) : e < local[t].cutoff]_vars

(* The stream sends every event once and in the order of the file, in batches, *)
(* while writers append and lines get lost, as long as the file is the first.  *)
FirstFile == EventsOf(file) = appended /\ "expired" \notin upsets

StreamIsExact == FirstFile => IsPrefix(streamed, appended)

(* Every line reaches a client that stays connected, unless the file it is in  *)
(* is rotated or expired before.                                               *)
EventuallyStreamed ==
  \A e \in Event :
    e \in Range(appended) ~> e \in Range(streamed) \/ ~FirstFile
===============================================================================
