----------------------------- MODULE AuditLogProofs -----------------------------
(* Theorems about AuditLog: the chain of hashes, the event stream and what is  *)
(* left on disk, for any number of threads, objects, backups and events.       *)
EXTENDS AuditLog, SequenceTheorems, FiniteSetTheorems, TLAPS

-------------------------------------------------------------------------------
\* The events of a file.

LEMMA EventsType ==
  ASSUME NEW f \in File
  PROVE  /\ LinesOf(f) \in Seq(Line) /\ EventsOf(f) \in Seq(Event)
         /\ Len(EventsOf(f)) = Len(LinesOf(f))
         /\ DOMAIN LinesOf(f) = 1 .. Len(LinesOf(f)) /\ Len(LinesOf(f)) \in Nat
         /\ \A i \in 1 .. Len(LinesOf(f)) :
              f[i] = LinesOf(f)[i] /\ EventsOf(f)[i] = LinesOf(f)[i].event
<1>1. LinesOf(f) \in Seq(Line)
  BY DEF LinesOf, File
<1>2. \A i \in DOMAIN LinesOf(f) : f[i] = LinesOf(f)[i]
  <2>1. CASE f = NoFile
    BY <2>1 DEF LinesOf
  <2>2. CASE f # NoFile
    BY <2>2 DEF LinesOf
  <2> QED
    BY <2>1, <2>2
<1> DEFINE lines == LinesOf(f)
<1>3. EventsOf(f) = [i \in 1 .. Len(lines) |-> lines[i].event]
  BY <1>1, <1>2 DEF EventsOf
<1>4. \A i \in 1 .. Len(lines) : lines[i].event \in Event
  <2>1. \A i \in 1 .. Len(lines) : lines[i] \in Line
    BY <1>1
  <2> QED
    BY <2>1 DEF Line
<1> QED
  BY <1>1, <1>2, <1>3, <1>4

LEMMA NoEvents == EventsOf(NoFile) = <<>> /\ NoFile \in File
<1>1. NoFile \in File /\ LinesOf(NoFile) = <<>>
  BY DEF File, LinesOf
<1> QED
  BY <1>1, EventsType

LEMMA SubSeqOfAppend ==
  ASSUME NEW S, NEW s \in Seq(S), NEW e \in S, NEW i \in 0 .. Len(s)
  PROVE  SubSeq(Append(s, e), 1, i) = SubSeq(s, 1, i)
<1>1. /\ Append(s, e) \in Seq(S) /\ Len(Append(s, e)) = Len(s) + 1
      /\ \A j \in 1 .. Len(s) : Append(s, e)[j] = s[j]
  OBVIOUS
<1>2. /\ SubSeq(Append(s, e), 1, i) = [j \in 1 .. i |-> Append(s, e)[j]]
      /\ SubSeq(s, 1, i) = [j \in 1 .. i |-> s[j]]
  BY <1>1
<1>3. \A j \in 1 .. i : Append(s, e)[j] = s[j]
  BY <1>1
<1> QED
  BY <1>2, <1>3

WithLine(f, e, h, o) == Append(LinesOf(f), [event |-> e, chain |-> h, by |-> o])

\* All lines of the file are of object o.
SoleIn(f, o) == \A i \in DOMAIN LinesOf(f) : f[i].by = o

(* A line appended to a file adds its event, and chains up if its hash is that *)
(* of the events so far and its own; its object is the only one of the file if *)
(* it was before.                                                              *)
LEMMA EventsOfAppended ==
  ASSUME NEW f \in File, NEW e \in Event, NEW h \in Seq(Event), NEW o \in Instance
  PROVE  /\ WithLine(f, e, h, o) \in File
         /\ EventsOf(WithLine(f, e, h, o)) = Append(EventsOf(f), e)
         /\ Chained(f) /\ h = Append(EventsOf(f), e) => Chained(WithLine(f, e, h, o))
         /\ \A i : SoleIn(WithLine(f, e, h, o), i) => i = o /\ SoleIn(f, o)
         /\ OneSource(WithLine(f, e, h, o)) => SoleIn(f, o)
<1> DEFINE g == WithLine(f, e, h, o)
           lines == LinesOf(f)
           line == [event |-> e, chain |-> h, by |-> o]
           n == Len(lines)
<1>1. /\ lines \in Seq(Line) /\ EventsOf(f) \in Seq(Event) /\ n \in Nat
      /\ Len(EventsOf(f)) = n
      /\ \A i \in 1 .. n : EventsOf(f)[i] = lines[i].event
  BY EventsType
<1>2. line \in Line /\ line.event = e /\ line.chain = h /\ line.by = o
  BY DEF Line
<1> HIDE DEF g, line, lines
<1>3. /\ g \in Seq(Line) /\ Len(g) = n + 1 /\ g[n + 1] = line
      /\ \A i \in 1 .. n : g[i] = lines[i]
  BY <1>1, <1>2 DEF g, line, lines, WithLine
<1>4. g \in File /\ g # NoFile /\ LinesOf(g) = g
  <2>1. g # NoFile
    BY <1>3, NoFileIsNoLog
  <2> QED
    BY <1>3, <2>1 DEF File, LinesOf
<1>5. /\ EventsOf(g) \in Seq(Event) /\ Len(EventsOf(g)) = n + 1
      /\ \A i \in 1 .. n + 1 : EventsOf(g)[i] = g[i].event
  BY <1>3, <1>4, EventsType
<1>6. EventsOf(g) = Append(EventsOf(f), e)
  <2> DEFINE s == Append(EventsOf(f), e)
  <2>1. s \in Seq(Event) /\ Len(s) = n + 1 /\ s[n + 1] = e
        /\ \A i \in 1 .. n : s[i] = EventsOf(f)[i]
    BY <1>1
  <2> HIDE DEF s
  <2>2. ASSUME NEW i \in 1 .. n + 1
        PROVE  EventsOf(g)[i] = s[i]
    <3>1. CASE i = n + 1
      BY <1>2, <1>3, <1>5, <2>1, <3>1
    <3>2. CASE i \in 1 .. n
      <4>1. EventsOf(g)[i] = g[i].event /\ g[i] = lines[i]
        BY <1>3, <1>5, <3>2
      <4> QED
        BY <1>1, <2>1, <3>2, <4>1
    <3> QED
      BY <1>1, <3>1, <3>2
  <2>3. EventsOf(g) = s
    BY <1>1, <1>5, <2>1, <2>2, SeqEqual
  <2> QED
    BY <2>3 DEF s
<1>7. ASSUME Chained(f), h = Append(EventsOf(f), e)
      PROVE  Chained(g)
  <2> SUFFICES ASSUME NEW i \in 1 .. n + 1
               PROVE  g[i].chain = SubSeq(EventsOf(g), 1, i)
    BY <1>3, <1>4 DEF Chained
  <2>1. CASE i = n + 1
    <3>1. SubSeq(EventsOf(g), 1, i) = EventsOf(g)
      BY <1>1, <1>5, <2>1
    <3> QED
      BY <1>2, <1>3, <1>6, <1>7, <2>1, <3>1
  <2>2. CASE i # n + 1
    <3>1. i \in 1 .. n
      BY <1>1, <2>2
    <3>2. SubSeq(EventsOf(g), 1, i) = SubSeq(EventsOf(f), 1, i)
      <4>1. EventsOf(f) \in Seq(Event) /\ i \in 0 .. Len(EventsOf(f))
        BY <1>1, <3>1
      <4>2. SubSeq(Append(EventsOf(f), e), 1, i) = SubSeq(EventsOf(f), 1, i)
        BY <4>1, SubSeqOfAppend
      <4> QED
        BY <1>6, <4>2
    <3>3. f[i] = lines[i] /\ i \in DOMAIN lines
      BY <3>1, EventsType DEF lines
    <3>4. f[i].chain = SubSeq(EventsOf(f), 1, i)
      BY <1>7, <3>3 DEF Chained, lines
    <3> QED
      BY <1>3, <3>1, <3>2, <3>3, <3>4
  <2> QED
    BY <2>1, <2>2
<1>8. /\ DOMAIN LinesOf(g) = 1 .. n + 1 /\ n + 1 \in 1 .. n + 1 /\ g[n + 1].by = o
      /\ \A i \in 1 .. n : i \in 1 .. n + 1 /\ g[i].by = lines[i].by
  BY <1>1, <1>2, <1>3, <1>4
<1>9. DOMAIN LinesOf(f) = 1 .. n /\ \A i \in 1 .. n : f[i] = lines[i]
  BY EventsType DEF lines
<1>10. \A i : SoleIn(g, i) => i = o /\ SoleIn(f, o)
  BY <1>8, <1>9 DEF SoleIn
<1>11. OneSource(g) => SoleIn(f, o)
  BY <1>8, <1>9 DEF OneSource, SoleIn
<1> QED
  BY <1>4, <1>6, <1>7, <1>10, <1>11 DEF g

-------------------------------------------------------------------------------
\* Types.

Local == [by : Instance \cup {NoObject}, event : Event \cup {0}, hash : Seq(Event), idx : 0 .. MaxBackups - 1,
          cutoff : Nat, kept : Seq(Line)]

CallsOK ==
  /\ pc \in [Thread -> {"idle", "check", "rotate", "shift", "hash", "write", "rewrite"}]
  /\ local \in [Thread -> Local]
  /\ \A t \in Thread : pc[t] \notin {"idle", "rewrite"} =>
       local[t].event \in Event /\ local[t].by \in Instance

Typed ==
  /\ file \in File
  /\ backup \in [1 .. MaxBackups -> File]
  /\ chain \in [Instance -> Seq(Event)]
  /\ CallsOK
  /\ recorded \in 0 .. MaxEvents
  /\ offset \in Nat /\ streamed \in Seq(Event) /\ appended \in Seq(Event)
  /\ restarts \in Nat

(* What the calls of other threads are left with.                              *)
OneCall(t, label, call) ==
  pc' = [pc EXCEPT ![t] = label] /\ local' = [local EXCEPT ![t] = call]

LEMMA OneCallKeeps ==
  ASSUME CallsOK, NEW t \in Thread,
         NEW label \in {"idle", "check", "rotate", "shift", "hash", "write", "rewrite"},
         NEW call \in Local, OneCall(t, label, call),
         label \notin {"idle", "rewrite"} => call.event \in Event /\ call.by \in Instance
  PROVE  /\ CallsOK'
         /\ pc'[t] = label /\ local'[t] = call
         /\ \A u \in Thread \ {t} : pc'[u] = pc[u] /\ local'[u] = local[u]
<1>4. local' \in [Thread -> Local]
  BY DEF CallsOK, OneCall
<1>5. /\ pc' \in [Thread -> {"idle", "check", "rotate", "shift", "hash", "write", "rewrite"}]
      /\ pc'[t] = label /\ local'[t] = call
      /\ \A u \in Thread \ {t} : pc'[u] = pc[u] /\ local'[u] = local[u]
  BY DEF CallsOK, OneCall
<1>6. \A u \in Thread : pc'[u] \notin {"idle", "rewrite"} =>
        local'[u].event \in Event /\ local'[u].by \in Instance
  BY <1>5 DEF CallsOK
<1> QED
  BY <1>4, <1>5, <1>6 DEF CallsOK

LEMMA CallType ==
  ASSUME CallsOK, NEW t \in Thread
  PROVE  /\ local[t] \in Local
         /\ local[t] = [by |-> local[t].by,
                        event |-> local[t].event, hash |-> local[t].hash,
                        idx |-> local[t].idx, cutoff |-> local[t].cutoff,
                        kept |-> local[t].kept]
         /\ local = [local EXCEPT ![t] = local[t]]
         /\ local[t].event \in Event \cup {0} /\ local[t].hash \in Seq(Event)
         /\ local[t].idx \in 0 .. MaxBackups - 1 /\ local[t].cutoff \in Nat
         /\ local[t].kept \in Seq(Line)
<1>1. local[t] \in Local /\ local = [local EXCEPT ![t] = local[t]]
  BY DEF CallsOK
<1> QED
  BY <1>1 DEF Local

LEMMA NoCallType == NoCall \in Local
<1>1. <<>> \in Seq(Event) /\ <<>> \in Seq(Line) /\ 0 \in 0 .. MaxBackups - 1
  BY AuditConstants
<1> QED
  BY <1>1 DEF NoCall, Local

-------------------------------------------------------------------------------
\* What an expiry keeps.

(* Every young line is kept, and nothing that is not a line: the places of the *)
(* young lines are numbered 1, 2, ... by how many young ones lie before them.  *)
LEMMA YoungerType ==
  ASSUME NEW lines \in Seq(Line), NEW cutoff \in Int
  PROVE  /\ Younger(lines, cutoff) \in Seq(Line)
         /\ \A i \in 1 .. Len(lines) :
              lines[i].event >= cutoff =>
                \E n \in 1 .. Len(Younger(lines, cutoff)) : Younger(lines, cutoff)[n] = lines[i]
<1> DEFINE young == {i \in DOMAIN lines : lines[i].event >= cutoff}
           upto(i) == {j \in young : j <= i}
           count == Cardinality(young)
           nth(n) == CHOOSE i \in young : Cardinality(upto(i)) = n
           rank == [i \in young |-> Cardinality(upto(i))]
<1>1. young \subseteq 1 .. Len(lines) /\ Len(lines) \in Nat /\ DOMAIN lines = 1 .. Len(lines)
  OBVIOUS
<1>2. Younger(lines, cutoff) = [n \in 1 .. count |-> lines[nth(n)]]
  BY DEF Younger
<1>3. \A i \in young : lines[i] \in Line
  BY <1>1
<1>4. \A i \in 1 .. Len(lines) : lines[i].event >= cutoff => i \in young
  BY <1>1
<1> HIDE DEF young
<1>5. IsFiniteSet(young) /\ count \in Nat
  <2>1. IsFiniteSet(1 .. Len(lines))
    BY <1>1, FS_Interval
  <2> QED
    BY <1>1, <2>1, FS_Subset, FS_CardinalityType
<1>6. \A i \in young : upto(i) \subseteq young /\ i \in upto(i)
  BY <1>1
<1>7. \A i \in young : IsFiniteSet(upto(i)) /\ Cardinality(upto(i)) \in 1 .. count
  <2> SUFFICES ASSUME NEW i \in young
               PROVE  IsFiniteSet(upto(i)) /\ Cardinality(upto(i)) \in 1 .. count
    OBVIOUS
  <2> DEFINE up == upto(i)
  <2>1. up \subseteq young /\ up # {}
    BY <1>6
  <2> HIDE DEF up
  <2>2. IsFiniteSet(up) /\ Cardinality(up) \in Nat /\ Cardinality(up) <= count
    BY <1>5, <2>1, FS_Subset, FS_CardinalityType
  <2>3. Cardinality(up) # 0
    BY <2>1, <2>2, FS_EmptySet
  <2> QED
    BY <1>5, <2>2, <2>3 DEF up
<1>8. ASSUME NEW i \in young, NEW j \in young, i < j
      PROVE  Cardinality(upto(i)) < Cardinality(upto(j))
  <2> DEFINE a == upto(i)
             b == upto(j)
  <2>1. a \subseteq b /\ j \in b /\ j \notin a
    <3>1. \A k \in young : k \in Int
      BY <1>1
    <3> QED
      BY <1>8, <3>1
  <2>2. IsFiniteSet(b)
    BY <1>7
  <2> HIDE DEF a, b
  <2>3. Cardinality(a) < Cardinality(b)
    BY <2>1, <2>2, FS_Subset, FS_CardinalityType
  <2> QED
    BY <2>3 DEF a, b
<1> HIDE DEF upto
<1>9. rank \in [young -> 1 .. count] /\ \A i \in young : rank[i] = Cardinality(upto(i))
  BY <1>7
<1>10. ASSUME NEW i \in young, NEW j \in young, rank[i] = rank[j]
       PROVE  i = j
  <2>1. Cardinality(upto(i)) = Cardinality(upto(j)) /\ Cardinality(upto(i)) \in Int
    BY <1>7, <1>9, <1>10
  <2>2. ~(i < j) /\ ~(j < i)
    BY <1>8, <2>1
  <2> QED
    BY <1>1, <2>2
<1> HIDE DEF rank
<1>11. rank \in Injection(young, 1 .. count)
  BY <1>9, <1>10 DEF Injection, IsInjective
<1>12. rank \in Surjection(young, 1 .. count)
  <2>1. IsFiniteSet(1 .. count) /\ Cardinality(1 .. count) = count
    BY <1>5, FS_Interval
  <2> QED
    BY <1>11, <2>1, FS_Injection
<1>13. \A n \in 1 .. count : nth(n) \in young /\ rank[nth(n)] = n
  <2> SUFFICES ASSUME NEW n \in 1 .. count
               PROVE  nth(n) \in young /\ rank[nth(n)] = n
    OBVIOUS
  <2>1. PICK i \in young : rank[i] = n
    BY <1>12 DEF Surjection
  <2>2. Cardinality(upto(i)) = n
    BY <1>9, <2>1
  <2>3. nth(n) \in young /\ Cardinality(upto(nth(n))) = n
    BY <2>2
  <2> QED
    BY <1>9, <2>3
<1> HIDE DEF nth
<1>14. Younger(lines, cutoff) \in Seq(Line) /\ Len(Younger(lines, cutoff)) = count
  BY <1>2, <1>3, <1>5, <1>13
<1>15. \A i \in young : \E n \in 1 .. count : Younger(lines, cutoff)[n] = lines[i]
  <2> SUFFICES ASSUME NEW i \in young
               PROVE  \E n \in 1 .. count : Younger(lines, cutoff)[n] = lines[i]
    OBVIOUS
  <2>1. rank[i] \in 1 .. count
    BY <1>9
  <2>2. nth(rank[i]) = i
    BY <1>10, <1>13, <2>1
  <2> QED
    BY <1>2, <2>1, <2>2
<1> QED
  BY <1>4, <1>14, <1>15

-------------------------------------------------------------------------------
\* Where each step of a call goes.

Goes(t, label) ==
  /\ CallsOK' /\ pc'[t] = label
  /\ \A u \in Thread \ {t} : pc'[u] = pc[u] /\ local'[u] = local[u]

LEMMA RecordGoes ==
  ASSUME Typed, NEW t \in Thread, NEW i \in Instance, Record(t, i)
  PROVE  /\ Goes(t, "check") \/ Goes(t, "hash")
         /\ local'[t].by = i /\ local'[t].event = recorded + 1
<1> DEFINE e == recorded + 1
           call == [local[t] EXCEPT !.by = i, !.event = e]
<1>1. e \in Event
  BY AuditConstants DEF Typed, Record, Event
<1> HIDE DEF e
<1>2. local[t] \in Local
  BY CallType DEF Typed
<1>3. call \in Local /\ call.event = e /\ call.by = i
  BY <1>1, <1>2 DEF Local
<1>4. local' = [local EXCEPT ![t] = call]
  <2>1. local' = [local EXCEPT ![t].by = i, ![t].event = e]
    BY DEF Record, e
  <2> QED
    BY <2>1, CallType DEF Typed
<1> HIDE DEF call
<1>5. OneCall(t, "check", call) \/ OneCall(t, "hash", call)
  BY <1>4 DEF Record, GoTo, OneCall
<1>6. Goes(t, "check") \/ Goes(t, "hash")
  BY <1>1, <1>3, <1>5, OneCallKeeps DEF Typed, Goes
<1>7. local'[t] = call
  BY <1>4 DEF Typed, CallsOK
<1> QED
  BY <1>3, <1>6, <1>7 DEF e

(* A step that leaves the local values alone.                                  *)
LEMMA LabelGoes ==
  ASSUME Typed, NEW t \in Thread, pc[t] \notin {"idle", "rewrite"},
         NEW label \in {"check", "rotate", "shift", "hash", "write"},
         GoTo(t, label), UNCHANGED local
  PROVE  Goes(t, label)
<1>1. CallsOK /\ local[t].event \in Event /\ local[t].by \in Instance
  BY DEF Typed, CallsOK
<1>2. local[t] \in Local
  BY <1>1, CallType
<1> DEFINE call == local[t]
<1>3. /\ OneCall(t, label, call) /\ call \in Local /\ call.event \in Event
      /\ call.by \in Instance
  BY <1>1, <1>2, CallType DEF OneCall, GoTo
<1> HIDE DEF call
<1> QED
  BY <1>1, <1>3, OneCallKeeps DEF Goes

LEMMA IdleGoes ==
  ASSUME Typed, NEW t \in Thread, GoTo(t, "idle"), local' = [local EXCEPT ![t] = NoCall]
  PROVE  Goes(t, "idle")
<1>1. OneCall(t, "idle", NoCall)
  BY DEF OneCall, GoTo
<1> QED
  BY <1>1, NoCallType, OneCallKeeps DEF Goes, Typed

LEMMA IndexGoes ==
  ASSUME Typed, NEW t \in Thread, pc[t] \notin {"idle", "rewrite"},
         NEW k \in 0 .. MaxBackups - 1,
         pc' = [pc EXCEPT ![t] = "shift"], local' = [local EXCEPT ![t].idx = k]
  PROVE  Goes(t, "shift")
<1> DEFINE call == [local[t] EXCEPT !.idx = k]
<1>1. CallsOK /\ local[t].event \in Event /\ local[t].by \in Instance
  BY DEF Typed, CallsOK
<1>2. local[t] \in Local
  BY <1>1, CallType
<1>3. call \in Local /\ call.event = local[t].event /\ call.by = local[t].by
  BY <1>2 DEF Local
<1>4. local' = [local EXCEPT ![t] = call]
  OBVIOUS
<1> HIDE DEF call
<1>5. OneCall(t, "shift", call)
  BY <1>4 DEF OneCall
<1> QED
  BY <1>1, <1>3, <1>5, OneCallKeeps DEF Goes

(* A step of a rotation leaves the object and the event of its call alone.     *)
LEMMA IndexKeeps ==
  ASSUME Typed, NEW t \in Thread,
         UNCHANGED local \/ \E k : local' = [local EXCEPT ![t].idx = k]
  PROVE  local'[t].event = local[t].event /\ local'[t].by = local[t].by
<1>1. local \in [Thread -> Local]
  BY DEF Typed, CallsOK
<1>2. ASSUME NEW k, local' = [local EXCEPT ![t].idx = k]
      PROVE  local'[t].event = local[t].event /\ local'[t].by = local[t].by
  <2>1. local'[t] = [local[t] EXCEPT !.idx = k]
    BY <1>1, <1>2
  <2>2. local[t] \in Local
    BY <1>1
  <2> QED
    BY <2>1, <2>2 DEF Local
<1> QED
  BY <1>2

LEMMA RotationGoes ==
  ASSUME Typed, NEW t \in Thread, Rotation(t)
  PROVE  \E label \in {"rotate", "shift", "hash"} : Goes(t, label)
<1>1. CASE CheckSize(t)
  BY <1>1, LabelGoes DEF CheckSize
<1>2. CASE DropOldest(t)
  <2>1. CASE file = NoFile
    BY <1>2, <2>1, LabelGoes DEF DropOldest
  <2>2. CASE file # NoFile
    <3>1. MaxBackups - 1 \in 0 .. MaxBackups - 1
      BY AuditConstants
    <3> QED
      BY <1>2, <2>2, <3>1, IndexGoes DEF DropOldest, GoTo
  <2> QED
    BY <2>1, <2>2
<1>3. CASE ShiftBackup(t)
  <2>1. local[t].idx \in 0 .. MaxBackups - 1 /\ local[t].idx > 0
    BY <1>3, CallType DEF ShiftBackup, Typed
  <2>2. local[t].idx - 1 \in 0 .. MaxBackups - 1
    BY <2>1, AuditConstants
  <2>3. pc[t] = "shift" /\ pc' = [pc EXCEPT ![t] = "shift"]
    BY <1>3 DEF ShiftBackup, Typed, CallsOK
  <2> QED
    BY <1>3, <2>2, <2>3, IndexGoes DEF ShiftBackup
<1>4. CASE MoveFile(t)
  BY <1>4, LabelGoes DEF MoveFile
<1> QED
  BY <1>1, <1>2, <1>3, <1>4 DEF Rotation

LEMMA HashGoes ==
  ASSUME Typed, NEW t \in Thread, ComputeEntryHash(t)
  PROVE  /\ Goes(t, "write")
         /\ local'[t].event = local[t].event /\ local'[t].by = local[t].by
         /\ local'[t].hash = Append(chain[local[t].by], local[t].event)
         /\ local'[t].hash \in Seq(Event) /\ local[t].event \in Event
<1> DEFINE hash == Append(chain[local[t].by], local[t].event)
           call == [local[t] EXCEPT !.hash = hash]
<1>1. CallsOK /\ local[t].event \in Event /\ local[t].by \in Instance
  BY DEF Typed, CallsOK, ComputeEntryHash
<1>2. local[t] \in Local
  BY <1>1, CallType
<1>3. hash \in Seq(Event)
  <2>1. chain[local[t].by] \in Seq(Event)
    BY <1>1 DEF Typed
  <2> QED
    BY <1>1, <2>1
<1>4. local' = [local EXCEPT ![t] = call]
  <2>1. local' = [local EXCEPT ![t].hash = hash]
    BY DEF ComputeEntryHash
  <2> QED
    BY <2>1
<1> HIDE DEF hash
<1>5. /\ call \in Local /\ call.event = local[t].event /\ call.hash = hash
      /\ call.by = local[t].by
  BY <1>2, <1>3 DEF Local
<1> HIDE DEF call
<1>6. OneCall(t, "write", call)
  BY <1>4 DEF ComputeEntryHash, GoTo, OneCall
<1>7. Goes(t, "write") /\ local'[t] = call
  <2>1. call.event \in Event /\ call.by \in Instance
    BY <1>1, <1>5
  <2> QED
    BY <1>1, <1>5, <1>6, <2>1, OneCallKeeps DEF Goes
<1> QED
  BY <1>1, <1>3, <1>5, <1>7 DEF hash

LEMMA ExpiryGoes ==
  ASSUME Typed, NEW t \in Thread, NEW cutoff \in 1 .. recorded, ReadForExpiry(t, cutoff)
  PROVE  /\ Goes(t, "rewrite")
         /\ local'[t].cutoff = cutoff /\ local'[t].kept = Younger(file, cutoff)
<1> DEFINE kept == Younger(file, cutoff)
           call == [local[t] EXCEPT !.cutoff = cutoff, !.kept = kept]
<1>1. local[t] \in Local
  BY CallType DEF Typed
<1>2. cutoff \in Nat
  BY DEF Typed
<1>3. local' = [local EXCEPT ![t] = call]
  <2>1. local' = [local EXCEPT ![t].cutoff = cutoff, ![t].kept = kept]
    BY DEF ReadForExpiry
  <2> QED
    BY <2>1, CallType DEF Typed
<1>4. kept \in Seq(Line)
  <2>1. file \in Seq(Line)
    BY DEF Typed, File, ReadForExpiry
  <2> QED
    BY <1>2, <2>1, YoungerType
<1> HIDE DEF kept
<1>5. call \in Local /\ call.cutoff = cutoff /\ call.kept = kept
  BY <1>1, <1>2, <1>4 DEF Local
<1> HIDE DEF call
<1>6. OneCall(t, "rewrite", call)
  BY <1>3 DEF ReadForExpiry, GoTo, OneCall
<1>7. Goes(t, "rewrite") /\ local'[t] = call
  BY <1>5, <1>6, OneCallKeeps DEF Goes, Typed
<1> QED
  BY <1>5, <1>7 DEF kept

-------------------------------------------------------------------------------
\* Types are kept by every step.

LEMMA LoadedChain ==
  ASSUME NEW f \in File
  PROVE  LoadChain(f) \in Seq(Event) /\ (Chained(f) => LoadChain(f) = EventsOf(f))
<1>1. EventsOf(f) \in Seq(Event) /\ <<>> \in Seq(Event)
  BY EventsType
<1> QED
  BY <1>1 DEF LoadChain

(* The values after a step of a thread.                                        *)
LEMMA StepValues ==
  ASSUME Typed, NEW t \in Thread, Call(t) \/ Step(t)
  PROVE  /\ file' \in File /\ backup' \in [1 .. MaxBackups -> File]
         /\ chain' \in [Instance -> Seq(Event)]
         /\ recorded' \in 0 .. MaxEvents /\ appended' \in Seq(Event)
         /\ UNCHANGED <<offset, streamed, restarts>> /\ upsets \subseteq upsets'
<1>1. /\ file \in File /\ backup \in [1 .. MaxBackups -> File] /\ MaxBackups \in Nat \ {0}
      /\ chain \in [Instance -> Seq(Event)] /\ NoFile \in File
      /\ <<>> \in Seq(Event) /\ appended \in Seq(Event) /\ recorded \in 0 .. MaxEvents
  BY AuditConstants, NoEvents DEF Typed
<1>2. CASE \E i \in Instance : Record(t, i)
  BY <1>1, <1>2, AuditConstants DEF Record, streamVars, NoteOverlap
<1>3. CASE \E cutoff \in 1 .. recorded : ReadForExpiry(t, cutoff)
  BY <1>1, <1>3 DEF ReadForExpiry, streamVars, NoteOverlap
<1>4. CASE CheckSize(t)
  BY <1>1, <1>4 DEF CheckSize, streamVars
<1>5. CASE DropOldest(t)
  BY <1>1, <1>5 DEF DropOldest, streamVars, SetChain
<1>6. CASE ShiftBackup(t)
  <2>1. local[t].idx \in 1 .. MaxBackups /\ local[t].idx + 1 \in 1 .. MaxBackups
    <3>1. local[t].idx \in 0 .. MaxBackups - 1
      BY CallType DEF Typed
    <3>2. local[t].idx > 0
      BY <1>6 DEF ShiftBackup
    <3> QED
      BY <1>1, <3>1, <3>2
  <2> QED
    BY <1>1, <1>6, <2>1 DEF ShiftBackup, streamVars
<1>7. CASE MoveFile(t)
  BY <1>1, <1>7 DEF MoveFile, streamVars, SetChain
<1>8. CASE ComputeEntryHash(t)
  <2>1. Append(chain[local[t].by], local[t].event) \in Seq(Event)
    BY <1>8, HashGoes
  <2> QED
    BY <1>1, <1>8, <2>1 DEF ComputeEntryHash, streamVars, SetChain
<1>9. CASE WriteLine(t)
  <2>1. local[t].event \in Event /\ local[t].hash \in Seq(Event) /\ local[t].by \in Instance
    BY <1>9, CallType DEF Typed, CallsOK, WriteLine
  <2>2. file' \in File
    BY <1>1, <1>9, <2>1, EventsOfAppended DEF WriteLine, WithLine
  <2> QED
    BY <1>1, <1>9, <2>1, <2>2 DEF WriteLine, streamVars
<1>10. CASE WriteFails(t)
  BY <1>1, <1>10 DEF WriteFails, streamVars
<1>11. CASE Rewrite(t)
  <2>1. local[t].kept \in File
    BY CallType DEF Typed, File
  <2> QED
    BY <1>1, <1>11, <2>1 DEF Rewrite, streamVars
<1> QED
  BY <1>2, <1>3, <1>4, <1>5, <1>6, <1>7, <1>8, <1>9, <1>10, <1>11 DEF Call, Step, Rotation

LEMMA StepCalls ==
  ASSUME Typed, NEW t \in Thread, Call(t) \/ Step(t)
  PROVE  \E label : Goes(t, label)
<1>1. CASE \E i \in Instance : Record(t, i)
  BY <1>1, RecordGoes
<1>2. CASE \E cutoff \in 1 .. recorded : ReadForExpiry(t, cutoff)
  BY <1>2, ExpiryGoes
<1>3. CASE Rotation(t)
  BY <1>3, RotationGoes
<1>4. CASE ComputeEntryHash(t)
  BY <1>4, HashGoes
<1>5. CASE WriteLine(t) \/ WriteFails(t) \/ Rewrite(t)
  BY <1>5, IdleGoes DEF WriteLine, WriteFails, Rewrite
<1> QED
  BY <1>1, <1>2, <1>3, <1>4, <1>5 DEF Call, Step

LEMMA RestartCalls ==
  ASSUME Typed, NEW lines \in File, RestartWith(lines)
  PROVE  /\ CallsOK' /\ \A t \in Thread : pc'[t] = "idle"
         /\ chain' \in [Instance -> Seq(Event)]
         /\ \A i \in Instance : chain'[i] = LoadChain(lines)
<1>1. chain' \in [Instance -> Seq(Event)] /\ \A i \in Instance : chain'[i] = LoadChain(lines)
  BY LoadedChain DEF RestartWith
<1>3. local' \in [Thread -> Local]
  BY NoCallType DEF RestartWith
<1>4. /\ pc' \in [Thread -> {"idle", "check", "rotate", "shift", "hash", "write", "rewrite"}]
      /\ \A t \in Thread : pc'[t] = "idle"
  BY DEF RestartWith
<1> QED
  BY <1>1, <1>3, <1>4 DEF CallsOK

(* The lines of one poll.                                                      *)
LEMMA PollValues ==
  ASSUME Typed, ReadFromOffset, file # NoFile
  PROVE  \E start, last \in Nat :
           /\ start = IF offset > Len(EventsOf(file)) THEN 0 ELSE offset
           /\ start <= last /\ last <= Len(EventsOf(file)) /\ offset' = last
           /\ streamed' = streamed \o SubSeq(EventsOf(file), start + 1, last)
<1> DEFINE n == Len(LinesOf(file))
           start == IF offset > n THEN 0 ELSE offset
           last == IF start + Batch < n THEN start + Batch ELSE n
<1>1. n \in Nat /\ Len(EventsOf(file)) = n /\ offset \in Nat /\ Batch \in Nat
  BY EventsType, AuditConstants DEF Typed
<1>2. /\ offset' = last
      /\ streamed' = streamed \o SubSeq(EventsOf(file), start + 1, last)
  BY DEF ReadFromOffset
<1> HIDE DEF n
<1>3. start \in Nat /\ last \in Nat /\ start <= last /\ last <= n
  BY <1>1
<1> QED
  BY <1>1, <1>2, <1>3

(* The process starts again with a file of lines.                              *)
LEMMA TypedRestart ==
  ASSUME Typed, NEW lines \in File, RestartWith(lines)
  PROVE  Typed'
<1>1. CallsOK' /\ chain' \in [Instance -> Seq(Event)]
  BY RestartCalls
<1>2. <<>> \in Seq(Event)
  OBVIOUS
<1> QED
  BY <1>1, <1>2 DEF Typed, RestartWith

LEMMA TypedStep ==
  ASSUME Typed, [Next]_vars
  PROVE  Typed'
<1>1. ASSUME NEW t \in Thread, Call(t) \/ Step(t)
      PROVE  Typed'
  <2>1. CallsOK'
    BY <1>1, StepCalls DEF Goes
  <2>2. offset' \in Nat /\ streamed' \in Seq(Event) /\ restarts' \in Nat
    BY <1>1, StepValues DEF Typed
  <2> QED
    BY <1>1, <2>1, <2>2, StepValues DEF Typed
<1>2. ASSUME NEW i \in Instance, Construct(i)
      PROVE  Typed'
  <2>1. chain' \in [Instance -> Seq(Event)]
    BY <1>2, LoadedChain DEF Typed, Construct
  <2> QED
    BY <1>2, <2>1 DEF Typed, CallsOK, Construct, streamVars
<1>3. CASE RestartWith(file) /\ UNCHANGED upsets
  BY <1>3, TypedRestart DEF Typed
<1>4. ASSUME NEW t \in Thread, CrashWhileRewriting(t)
      PROVE  Typed'
  <2>1. PICK n \in 0 .. Len(local[t].kept) : RestartWith(SubSeq(local[t].kept, 1, n))
    BY <1>4 DEF CrashWhileRewriting
  <2>2. local[t].kept \in Seq(Line)
    BY CallType DEF Typed
  <2>3. SubSeq(local[t].kept, 1, n) \in File
    BY <2>2 DEF File
  <2> QED
    BY <2>1, <2>3, TypedRestart
<1>5. CASE ReadFromOffset
  <2>1. offset' \in Nat /\ streamed' \in Seq(Event)
    <3>1. CASE file = NoFile
      BY <1>5, <3>1 DEF ReadFromOffset, Typed
    <3>2. CASE file # NoFile
      <4>1. PICK start, last \in Nat :
              /\ last <= Len(EventsOf(file)) /\ offset' = last
              /\ streamed' = streamed \o SubSeq(EventsOf(file), start + 1, last)
        BY <1>5, <3>2, PollValues
      <4>2. EventsOf(file) \in Seq(Event) /\ streamed \in Seq(Event)
        BY EventsType DEF Typed
      <4>3. SubSeq(EventsOf(file), start + 1, last) \in Seq(Event)
        BY <4>1, <4>2
      <4> QED
        BY <4>1, <4>2, <4>3
    <3> QED
      BY <3>1, <3>2
  <2> QED
    BY <1>5, <2>1 DEF Typed, CallsOK, ReadFromOffset
<1>6. CASE UNCHANGED vars
  BY <1>6 DEF Typed, CallsOK, vars, streamVars
<1> QED
  BY <1>1, <1>2, <1>3, <1>4, <1>5, <1>6 DEF Next

LEMMA InitTyped == Init => Typed
<1> SUFFICES ASSUME Init
             PROVE  Typed
  OBVIOUS
<1>2. CallsOK
  <2>1. local \in [Thread -> Local]
    BY NoCallType DEF Init
  <2> QED
    BY <2>1 DEF Init, CallsOK
<1>3. <<>> \in Seq(Event) /\ NoFile \in File /\ MaxEvents \in Nat
  BY NoEvents, AuditConstants
<1> QED
  BY <1>2, <1>3 DEF Init, Typed

-------------------------------------------------------------------------------
\* The event stream.

(* While the file holds as many events as were ever written it is the first    *)
(* file, and the stream has sent what lies before its offset.  A file with     *)
(* fewer events never catches up, since every line counts on both sides.       *)
StreamInv ==
  "expired" \notin upsets =>
    /\ Len(EventsOf(file)) <= Len(appended)
    /\ Len(EventsOf(file)) = Len(appended) =>
         /\ EventsOf(file) = appended /\ offset <= Len(appended)
         /\ streamed = SubSeq(appended, 1, offset)

LEMMA PrefixGrows ==
  ASSUME NEW S, NEW s \in Seq(S), NEW m \in 0 .. Len(s), NEW n \in m .. Len(s)
  PROVE  SubSeq(s, 1, m) \o SubSeq(s, m + 1, n) = SubSeq(s, 1, n)
<1> DEFINE a == SubSeq(s, 1, m)
           b == SubSeq(s, m + 1, n)
           c == SubSeq(s, 1, n)
<1>1. a \in Seq(S) /\ Len(a) = m /\ \A i \in 1 .. m : a[i] = s[i]
  OBVIOUS
<1>2. b \in Seq(S) /\ Len(b) = n - m /\ \A i \in 1 .. n - m : b[i] = s[m + i]
  OBVIOUS
<1>3. c \in Seq(S) /\ Len(c) = n /\ \A i \in 1 .. n : c[i] = s[i]
  OBVIOUS
<1> HIDE DEF a, b, c
<1>4. m \in Nat /\ n \in Nat /\ m <= n
  OBVIOUS
<1>5. a \o b \in Seq(S) /\ Len(a \o b) = Len(a) + Len(b)
  BY <1>1, <1>2, ConcatProperties
<1>6. Len(a \o b) = n
  BY <1>1, <1>2, <1>4, <1>5
<1>7. \A i \in 1 .. n : (a \o b)[i] = s[i]
  BY <1>1, <1>2, <1>4, ConcatProperties
<1>8. a \o b = c
  BY <1>3, <1>5, <1>6, <1>7, SeqEqual
<1> QED
  BY <1>8 DEF a, b, c

LEMMA StreamStep ==
  ASSUME Typed, StreamInv, [Next]_vars, "expired" \notin upsets', "expired" \notin upsets
  PROVE  StreamInv'
<1> DEFINE n == Len(EventsOf(file))
<1>1. /\ EventsOf(file) \in Seq(Event) /\ n \in Nat /\ appended \in Seq(Event)
      /\ offset \in Nat /\ streamed \in Seq(Event) /\ <<>> \in Seq(Event)
  BY EventsType DEF Typed
<1>2. SUFFICES ASSUME n <= Len(appended),
                      n = Len(appended) =>
                        /\ EventsOf(file) = appended /\ offset <= n
                        /\ streamed = SubSeq(appended, 1, offset)
               PROVE  StreamInv'
  BY DEF StreamInv
<1>3. CASE UNCHANGED <<file, appended, offset, streamed>>
  BY <1>2, <1>3 DEF StreamInv
<1>4. ASSUME NEW t \in Thread, MoveFile(t), file # NoFile
      PROVE  StreamInv'
  <2>1. EventsOf(file') = <<>> /\ UNCHANGED <<appended, offset, streamed>>
    BY <1>4, NoEvents DEF MoveFile, streamVars
  <2>2. Len(appended) = 0 => n = 0
    BY <1>1, <1>2
  <2>3. Len(appended) = 0 => appended = <<>>
    BY <1>1
  <2> QED
    BY <1>1, <1>2, <2>1, <2>2, <2>3 DEF StreamInv
<1>5. ASSUME NEW t \in Thread, WriteLine(t)
      PROVE  StreamInv'
  <2> DEFINE e == local[t].event
  <2>1. e \in Event /\ local[t].hash \in Seq(Event) /\ local[t].by \in Instance
    BY <1>5, CallType DEF Typed, CallsOK, WriteLine
  <2>2. EventsOf(file') = Append(EventsOf(file), e)
    <3> DEFINE h == local[t].hash
               o == local[t].by
    <3>1. file' = WithLine(file, e, h, o)
      BY <1>5 DEF WriteLine, WithLine
    <3>2. file \in File /\ e \in Event /\ h \in Seq(Event) /\ o \in Instance
      BY <2>1 DEF Typed
    <3> HIDE DEF e, h, o
    <3> QED
      BY <3>1, <3>2, EventsOfAppended
  <2>3. appended' = Append(appended, e) /\ UNCHANGED <<offset, streamed>>
    BY <1>5 DEF WriteLine, streamVars
  <2> HIDE DEF e
  <2>4. /\ Len(EventsOf(file')) = n + 1 /\ Len(appended') = Len(appended) + 1
        /\ Len(appended) \in Nat
    BY <1>1, <2>1, <2>2, <2>3
  <2>5. ASSUME n = Len(appended)
        PROVE  /\ EventsOf(file') = appended' /\ offset' <= Len(appended')
               /\ streamed' = SubSeq(appended', 1, offset')
    <3>1. offset \in 0 .. Len(appended)
      BY <1>1, <1>2, <2>5
    <3>2. SubSeq(Append(appended, e), 1, offset) = SubSeq(appended, 1, offset)
      BY <1>1, <2>1, <3>1, SubSeqOfAppend
    <3>3. EventsOf(file) = appended /\ offset <= n /\ streamed = SubSeq(appended, 1, offset)
      BY <1>2, <2>5
    <3>4. EventsOf(file') = appended' /\ streamed' = SubSeq(appended', 1, offset')
      BY <2>2, <2>3, <3>2, <3>3
    <3> QED
      BY <1>1, <2>3, <2>4, <2>5, <3>3, <3>4
  <2> QED
    BY <1>1, <1>2, <2>4, <2>5 DEF StreamInv
<1>6. CASE RestartWith(file) /\ UNCHANGED upsets
  <2>1. UNCHANGED <<file, appended>> /\ offset' = 0 /\ streamed' = <<>>
    BY <1>6 DEF RestartWith
  <2>2. SubSeq(appended, 1, 0) = <<>> /\ 0 <= Len(appended)
    BY <1>1
  <2> QED
    BY <1>2, <2>1, <2>2 DEF StreamInv
<1>7. CASE ReadFromOffset
  <2>1. UNCHANGED <<file, appended>>
    BY <1>7 DEF ReadFromOffset
  <2>2. ASSUME n = Len(appended)
        PROVE  /\ EventsOf(file) = appended /\ offset' <= Len(appended)
               /\ streamed' = SubSeq(appended, 1, offset')
    <3>1. EventsOf(file) = appended /\ offset <= n /\ streamed = SubSeq(appended, 1, offset)
      BY <1>2, <2>2
    <3>2. CASE file = NoFile
      <4>1. n = 0
        BY <3>2, NoEvents
      <4>2. offset' = 0 /\ offset = 0 /\ UNCHANGED streamed
        BY <1>1, <1>7, <3>1, <3>2, <4>1 DEF ReadFromOffset
      <4> QED
        BY <1>1, <3>1, <4>2
    <3>3. CASE file # NoFile
      <4>1. PICK start, last \in Nat :
              /\ start = IF offset > n THEN 0 ELSE offset
              /\ start <= last /\ last <= n /\ offset' = last
              /\ streamed' = streamed \o SubSeq(EventsOf(file), start + 1, last)
        BY <1>7, <3>3, PollValues
      <4>2. start = offset
        BY <1>1, <3>1, <4>1
      <4>3. offset \in 0 .. Len(appended) /\ last \in offset .. Len(appended)
        BY <1>1, <2>2, <3>1, <4>1, <4>2
      <4>4. SubSeq(appended, 1, offset) \o SubSeq(appended, offset + 1, last)
              = SubSeq(appended, 1, last)
        BY <1>1, <4>3, PrefixGrows
      <4> QED
        BY <2>2, <3>1, <4>1, <4>2, <4>4
    <3> QED
      BY <3>2, <3>3
  <2> QED
    BY <1>2, <2>1, <2>2 DEF StreamInv
<1>8. \/ UNCHANGED <<file, appended, offset, streamed>>
      \/ \E t \in Thread : MoveFile(t) /\ file # NoFile
      \/ \E t \in Thread : WriteLine(t)
      \/ RestartWith(file) /\ UNCHANGED upsets
      \/ ReadFromOffset
  <2>1. ASSUME NEW t \in Thread, Call(t) \/ Step(t)
        PROVE  \/ UNCHANGED <<file, appended, offset, streamed>>
               \/ MoveFile(t) /\ file # NoFile
               \/ WriteLine(t)
    BY <2>1 DEF Call, Step, Rotation, Record, ReadForExpiry, CheckSize, DropOldest,
                ShiftBackup, MoveFile, ComputeEntryHash, WriteFails, Rewrite, streamVars
  <2>2. ASSUME NEW i \in Instance, Construct(i)
        PROVE  UNCHANGED <<file, appended, offset, streamed>>
    BY <2>2 DEF Construct, streamVars
  <2>3. ASSUME NEW t \in Thread, CrashWhileRewriting(t)
        PROVE  FALSE
    BY <2>3 DEF CrashWhileRewriting
  <2>4. CASE UNCHANGED vars
    BY <2>4 DEF vars, streamVars
  <2> QED
    BY <2>1, <2>2, <2>3, <2>4 DEF Next
<1> QED
  BY <1>3, <1>4, <1>5, <1>6, <1>7, <1>8

LEMMA UpsetsStay == [Next]_vars => upsets \subseteq upsets'
<1> SUFFICES ASSUME [Next]_vars
             PROVE  upsets \subseteq upsets'
  OBVIOUS
<1>1. ASSUME NEW t \in Thread, Call(t) \/ Step(t)
      PROVE  upsets \subseteq upsets'
  BY <1>1 DEF Call, Step, Rotation, Record, ReadForExpiry, CheckSize, DropOldest,
              ShiftBackup, MoveFile, ComputeEntryHash, WriteLine, WriteFails, Rewrite,
              NoteOverlap
<1>2. ASSUME NEW i \in Instance, Construct(i)
      PROVE  upsets \subseteq upsets'
  BY <1>2 DEF Construct
<1>3. ASSUME NEW t \in Thread, CrashWhileRewriting(t)
      PROVE  upsets \subseteq upsets'
  BY <1>3 DEF CrashWhileRewriting
<1> QED
  BY <1>1, <1>2, <1>3 DEF Next, ReadFromOffset, vars

TypeInv == Typed /\ upsets \subseteq Upsets

LEMMA TypesHold == Spec => []TypeInv
<1>1. Init => TypeInv
  BY InitTyped DEF TypeInv, Init
<1>2. TypeInv /\ [Next]_vars => TypeInv'
  <2>1. ASSUME TypeInv, [Next]_vars
        PROVE  upsets' \subseteq Upsets
    <3>1. ASSUME NEW t \in Thread, Call(t) \/ Step(t) \/ CrashWhileRewriting(t)
          PROVE  upsets' \subseteq Upsets
      BY <2>1, <3>1 DEF TypeInv, Upsets, Call, Step, Rotation, Record, ReadForExpiry, CheckSize,
                  DropOldest, ShiftBackup, MoveFile, ComputeEntryHash, WriteLine, WriteFails,
                  Rewrite, NoteOverlap, CrashWhileRewriting
    <3>2. ASSUME NEW i \in Instance, Construct(i)
          PROVE  upsets' \subseteq Upsets
      BY <2>1, <3>2 DEF TypeInv, Construct
    <3> QED
      BY <2>1, <3>1, <3>2 DEF TypeInv, Next, ReadFromOffset, vars
  <2> QED
    BY <2>1, TypedStep DEF TypeInv
<1> QED
  BY <1>1, <1>2, PTL DEF Spec

(* Types are kept, whatever the threads, the disk and the crashes do: what an  *)
(* expiry or a crash in it leaves of the file is a sequence of its lines.      *)
THEOREM TypeCorrect == Spec => []TypeOK
<1>1. TypeInv => TypeOK
  BY DEF TypeInv, Typed, CallsOK, Local, TypeOK
<1> QED
  BY <1>1, TypesHold, PTL

(* A stream that follows the first file sends every event once and in order:   *)
(* for any writers, through lost lines, overlapping calls and restarts, what   *)
(* read_from_offset has sent is what was written, up to its offset.            *)
THEOREM StreamFollows == Spec => []StreamIsExact
<1>1. Init => StreamInv
  <2> SUFFICES ASSUME Init
               PROVE  StreamInv
    OBVIOUS
  <2>1. EventsOf(file) = <<>> /\ appended = <<>> /\ offset = 0 /\ streamed = <<>>
    BY NoEvents DEF Init
  <2>2. SubSeq(<<>>, 1, 0) = <<>> /\ Len(<<>>) = 0
    OBVIOUS
  <2> QED
    BY <2>1, <2>2 DEF StreamInv
<1>2. TypeInv /\ StreamInv /\ [Next]_vars => StreamInv'
  <2>1. ASSUME TypeInv, StreamInv, [Next]_vars, "expired" \notin upsets'
        PROVE  StreamInv'
    <3>1. "expired" \notin upsets
      BY <2>1, UpsetsStay
    <3> QED
      BY <2>1, <3>1, StreamStep DEF TypeInv
  <2> QED
    BY <2>1 DEF StreamInv
<1>3. TypeInv /\ StreamInv => StreamIsExact
  <2> SUFFICES ASSUME TypeInv, StreamInv, FirstFile
               PROVE  IsPrefix(streamed, appended)
    BY DEF StreamIsExact
  <2>1. "expired" \notin upsets /\ EventsOf(file) = appended
    BY DEF FirstFile
  <2>2. offset <= Len(appended) /\ streamed = SubSeq(appended, 1, offset)
    BY <2>1 DEF StreamInv
  <2>3. appended \in Seq(Event) /\ offset \in Nat
    BY <2>1 DEF TypeInv, Typed
  <2>4. Len(streamed) = offset /\ SubSeq(streamed, 1, Len(streamed)) = streamed
    BY <2>2, <2>3
  <2> QED
    BY <2>2, <2>4 DEF IsPrefix
<1> QED
  BY <1>1, <1>2, <1>3, TypesHold, PTL DEF Spec

-------------------------------------------------------------------------------
\* The chain of a file that one object wrote.

OneCaller == \A t, u \in Thread : pc[t] # "idle" /\ pc[u] # "idle" => t = u

SourceChains(f) == OneSource(f) => Chained(f)
FilesChain == SourceChains(file) /\ \A k \in 1 .. MaxBackups : SourceChains(backup[k])

Writing(t) == pc[t] \in {"hash", "write"}
Sole(i) == SoleIn(file, i)

(* No call through i is past the rotation, and none whatever in a new file:    *)
(* whoever rotated its predecessor away writes the first line of that.         *)
Settled(i) == \A t \in Thread : Writing(t) => local[t].by # i /\ LinesOf(file) # <<>>

(* An object that wrote all there is in the file caches the hash of the file;  *)
(* in a call that has its hash, of the file with its event.                    *)
HashFollows ==
  /\ \A t \in Thread : pc[t] = "hash" /\ Sole(local[t].by) =>
       chain[local[t].by] = EventsOf(file)
  /\ \A t \in Thread : pc[t] = "write" /\ Sole(local[t].by) =>
       /\ local[t].hash = Append(EventsOf(file), local[t].event)
       /\ chain[local[t].by] = local[t].hash
  /\ \A i \in Instance : Sole(i) /\ Settled(i) => chain[i] = EventsOf(file)

ChainBody == OneCaller /\ FilesChain /\ HashFollows
ChainInv == upsets = {} => ChainBody

LEMMA NoFileChains == SourceChains(NoFile)
  BY NoEvents DEF Chained, LinesOf, SourceChains

LEMMA SoleSource ==
  ASSUME NEW f, NEW i, SoleIn(f, i)
  PROVE  OneSource(f)
  BY DEF OneSource, SoleIn

(* A call that starts is alone, or the log is upset; one under way was alone.  *)
LEMMA OneCallerStep ==
  ASSUME Typed, OneCaller, NEW t \in Thread, Call(t) \/ Step(t),
         "overlapped" \notin upsets'
  PROVE  /\ OneCaller'
         /\ \A u \in Thread \ {t} : pc[u] = "idle" /\ pc'[u] = "idle"
<1>1. \A u \in Thread \ {t} : pc'[u] = pc[u]
  BY StepCalls DEF Goes
<1>2. \A u \in Thread \ {t} : pc[u] = "idle"
  <2>1. CASE Call(t)
    <3>1. NoteOverlap(t)
      BY <2>1 DEF Call, Record, ReadForExpiry
    <3> QED
      BY <3>1 DEF NoteOverlap
  <2>2. CASE Step(t)
    <3>1. pc[t] # "idle"
      BY <2>2 DEF Step, Rotation, CheckSize, DropOldest, ShiftBackup, MoveFile,
                  ComputeEntryHash, WriteLine, WriteFails, Rewrite
    <3> QED
      BY <3>1 DEF OneCaller
  <2> QED
    BY <2>1, <2>2
<1> QED
  BY <1>1, <1>2 DEF OneCaller

(* Renaming a file leaves what one object wrote chained.                       *)
LEMMA FilesChainStep ==
  ASSUME Typed, FilesChain, HashFollows, NEW t \in Thread, Call(t) \/ Step(t),
         upsets' = {}
  PROVE  FilesChain'
<1>1. /\ backup \in [1 .. MaxBackups -> File] /\ MaxBackups \in Nat \ {0}
      /\ file \in File
  BY AuditConstants DEF Typed
<1>2. CASE UNCHANGED <<file, backup>>
  BY <1>2 DEF FilesChain
<1>3. ASSUME DropOldest(t), file # NoFile
      PROVE  FilesChain'
  <2>1. backup' = [backup EXCEPT ![MaxBackups] = NoFile] /\ UNCHANGED file
    BY <1>3 DEF DropOldest
  <2>2. \A k \in 1 .. MaxBackups : backup'[k] \in {backup[k], NoFile}
    BY <1>1, <2>1
  <2> QED
    BY <2>1, <2>2, NoFileChains DEF FilesChain
<1>4. CASE ShiftBackup(t)
  <2> DEFINE k == local[t].idx
  <2>1. k \in 1 .. MaxBackups /\ k + 1 \in 1 .. MaxBackups
    <3>1. k \in 0 .. MaxBackups - 1
      BY CallType DEF Typed
    <3>2. k > 0
      BY <1>4 DEF ShiftBackup
    <3> QED
      BY <1>1, <3>1, <3>2
  <2>2. /\ backup' = IF backup[k] = NoFile THEN backup
                     ELSE [backup EXCEPT ![k + 1] = backup[k], ![k] = NoFile]
        /\ UNCHANGED file
    BY <1>4 DEF ShiftBackup
  <2> HIDE DEF k
  <2>3. \A j \in 1 .. MaxBackups : backup'[j] \in {backup[j], backup[k], NoFile}
    BY <1>1, <2>1, <2>2
  <2> QED
    BY <2>1, <2>2, <2>3, NoFileChains DEF FilesChain
<1>5. ASSUME MoveFile(t), file # NoFile
      PROVE  FilesChain'
  <2>1. backup' = [backup EXCEPT ![1] = file] /\ file' = NoFile
    BY <1>5 DEF MoveFile
  <2>2. \A k \in 1 .. MaxBackups : backup'[k] \in {backup[k], file}
    BY <1>1, <2>1
  <2> QED
    BY <2>1, <2>2, NoFileChains DEF FilesChain
<1>6. CASE WriteLine(t)
  <2> DEFINE e == local[t].event
             h == local[t].hash
             o == local[t].by
  <2>1. file' = WithLine(file, e, h, o) /\ UNCHANGED backup
    BY <1>6 DEF WriteLine, WithLine
  <2>2. e \in Event /\ h \in Seq(Event) /\ o \in Instance
    BY <1>6, CallType DEF Typed, CallsOK, WriteLine
  <2>3. SoleIn(file, o) => Chained(file) /\ h = Append(EventsOf(file), e)
    BY <1>6, SoleSource DEF WriteLine, HashFollows, FilesChain, SourceChains, Sole
  <2> HIDE DEF e, h, o
  <2>4. SourceChains(file')
    <3>1. SourceChains(WithLine(file, e, h, o))
      BY <1>1, <2>2, <2>3, EventsOfAppended DEF SourceChains
    <3> QED
      BY <2>1, <3>1
  <2> QED
    BY <2>1, <2>4 DEF FilesChain
<1>7. \/ UNCHANGED <<file, backup>>
      \/ DropOldest(t) /\ file # NoFile
      \/ ShiftBackup(t)
      \/ MoveFile(t) /\ file # NoFile
      \/ WriteLine(t)
  BY DEF Call, Step, Rotation, Record, ReadForExpiry, CheckSize, DropOldest, MoveFile,
         ComputeEntryHash, WriteFails, Rewrite
<1> QED
  BY <1>2, <1>3, <1>4, <1>5, <1>6, <1>7

LEMMA HashFollowsStep ==
  ASSUME Typed, ChainBody, NEW t \in Thread, Call(t) \/ Step(t), upsets' = {}
  PROVE  HashFollows'
<1>1. \A u \in Thread \ {t} : pc[u] = "idle" /\ pc'[u] = "idle"
  BY OneCallerStep DEF ChainBody
<1>2. /\ chain \in [Instance -> Seq(Event)] /\ file \in File
      /\ local[t].by \in Instance \cup {NoObject}
  BY CallType DEF Typed, Local
<1>3. ASSUME ~Writing(t), NEW i \in Instance, Sole(i)
      PROVE  chain[i] = EventsOf(file)
  BY <1>1, <1>3 DEF ChainBody, HashFollows, Settled, Writing
<1>4. ASSUME ~Writing(t), UNCHANGED <<file, chain>>, pc'[t] # "write"
      PROVE  HashFollows'
  <2>1. \A i \in Instance : Sole(i)' => chain'[i] = EventsOf(file')
    BY <1>3, <1>4 DEF Sole
  <2>2. pc'[t] = "hash" => local'[t].by \in Instance
    BY StepCalls DEF Goes, CallsOK
  <2>3. \A u \in Thread : pc'[u] # "write" /\ (pc'[u] = "hash" => local'[u].by \in Instance)
    BY <1>1, <1>4, <2>2
  <2> QED
    BY <2>1, <2>3 DEF HashFollows
<1>5. CASE Call(t) \/ CheckSize(t) \/ ShiftBackup(t)
  <2>1. UNCHANGED <<file, chain>> /\ ~Writing(t)
    BY <1>5 DEF Call, Record, CheckSize, ShiftBackup, ReadForExpiry, Writing
  <2>2. pc'[t] # "write"
    <3>1. CASE \E i \in Instance : Record(t, i)
      BY <3>1, RecordGoes DEF Goes
    <3>2. CASE CheckSize(t) \/ ShiftBackup(t)
      BY <3>2, RotationGoes DEF Goes, Rotation
    <3>3. CASE \E cutoff \in 1 .. recorded : ReadForExpiry(t, cutoff)
      BY <3>3, ExpiryGoes DEF Goes
    <3> QED
      BY <1>5, <3>1, <3>2, <3>3 DEF Call
  <2> QED
    BY <1>4, <2>1, <2>2
<1>6. CASE DropOldest(t) \/ MoveFile(t)
  <2>1. ~Writing(t) /\ pc[t] \notin {"idle", "rewrite"}
    BY <1>6 DEF DropOldest, MoveFile, Writing
  <2>2. pc'[t] # "write" /\ local'[t].by = local[t].by
    <3>1. pc'[t] # "write"
      BY <1>6, RotationGoes DEF Goes, Rotation
    <3>2. local'[t].by = local[t].by
      BY <1>6, IndexKeeps DEF DropOldest, MoveFile
    <3> QED
      BY <3>1, <3>2
  <2>3. local[t].by \in Instance
    BY <2>1 DEF Typed, CallsOK
  <2>4. \/ UNCHANGED <<file, chain>>
        \/ /\ chain' = [chain EXCEPT ![local[t].by] = <<>>] /\ file' = NoFile
           /\ pc'[t] = "hash"
    BY <1>6 DEF DropOldest, MoveFile, SetChain, GoTo, Typed, CallsOK
  <2>5. CASE UNCHANGED <<file, chain>>
    BY <1>4, <2>1, <2>2, <2>5
  <2>6. CASE /\ chain' = [chain EXCEPT ![local[t].by] = <<>>] /\ file' = NoFile
             /\ pc'[t] = "hash"
    <3>1. EventsOf(file') = <<>> /\ LinesOf(file') = <<>>
      BY <2>6, NoEvents DEF LinesOf
    <3>2. chain'[local'[t].by] = EventsOf(file')
      BY <1>2, <2>2, <2>3, <2>6, <3>1
    <3>3. \A i \in Instance : ~Settled(i)'
      BY <2>6, <3>1 DEF Settled, Writing
    <3>4. \A u \in Thread : pc'[u] \in {"hash", "write"} => u = t
      BY <1>1
    <3> QED
      BY <2>6, <3>2, <3>3, <3>4 DEF HashFollows
  <2> QED
    BY <2>4, <2>5, <2>6
<1>7. CASE ComputeEntryHash(t)
  <2> DEFINE o == local[t].by
             hash == Append(chain[o], local[t].event)
  <2>1. /\ pc'[t] = "write" /\ local'[t].event = local[t].event
        /\ local'[t].hash = hash /\ local'[t].by = o
    BY <1>7, HashGoes DEF Goes
  <2>2. chain' = [chain EXCEPT ![o] = hash] /\ UNCHANGED file /\ pc[t] = "hash"
    BY <1>7 DEF ComputeEntryHash, SetChain
  <2>3. Sole(o) => hash = Append(EventsOf(file), local[t].event)
    BY <2>2 DEF ChainBody, HashFollows
  <2>4. o \in Instance
    BY <2>2 DEF Typed, CallsOK
  <2> HIDE DEF hash, o
  <2>5. chain'[o] = hash /\ \A i \in Instance \ {o} : chain'[i] = chain[i]
    BY <1>2, <2>2, <2>4
  <2>6. \A u \in Thread : pc'[u] \in {"hash", "write"} => u = t
    BY <1>1
  <2>7. \A i : Sole(i)' <=> Sole(i)
    BY <2>2 DEF Sole
  <2>8. Sole(local[t].by)' =>
          /\ local'[t].hash = Append(EventsOf(file'), local'[t].event)
          /\ chain'[local'[t].by] = local'[t].hash
    BY <2>1, <2>2, <2>3, <2>5, <2>7
  <2>9. ASSUME NEW i \in Instance, Sole(i)', Settled(i)'
        PROVE  chain'[i] = EventsOf(file')
    <3>1. i # o /\ LinesOf(file) # <<>>
      BY <2>1, <2>2, <2>9 DEF Settled, Writing
    <3>2. Settled(i)
      BY <1>1, <3>1 DEF Settled, Writing, o
    <3> QED
      BY <2>2, <2>5, <2>7, <2>9, <3>1, <3>2 DEF ChainBody, HashFollows
  <2> QED
    BY <2>1, <2>6, <2>8, <2>9 DEF HashFollows
<1>8. CASE WriteLine(t)
  <2> DEFINE e == local[t].event
             h == local[t].hash
             o == local[t].by
  <2>1. file' = WithLine(file, e, h, o) /\ UNCHANGED chain /\ pc[t] = "write"
    BY <1>8 DEF WriteLine, WithLine
  <2>2. e \in Event /\ h \in Seq(Event) /\ o \in Instance
    BY <1>8, CallType DEF Typed, CallsOK, WriteLine
  <2>3. SoleIn(file, o) => h = Append(EventsOf(file), e) /\ chain[o] = h
    BY <2>1 DEF HashFollows, ChainBody, Sole
  <2>4. pc'[t] = "idle"
    BY <1>8, IdleGoes DEF WriteLine, Goes
  <2> HIDE DEF e, h, o
  <2>5. /\ EventsOf(WithLine(file, e, h, o)) = Append(EventsOf(file), e)
        /\ \A i : SoleIn(WithLine(file, e, h, o), i) => i = o /\ SoleIn(file, o)
    BY <1>2, <2>2, EventsOfAppended
  <2>6. \A i \in Instance : Sole(i)' => chain'[i] = EventsOf(file')
    BY <2>1, <2>3, <2>5 DEF Sole
  <2>7. \A u \in Thread : pc'[u] = "idle"
    BY <1>1, <2>4
  <2> QED
    BY <2>6, <2>7 DEF HashFollows
<1>9. ~WriteFails(t) /\ ~Rewrite(t)
  BY DEF WriteFails, Rewrite
<1> QED
  BY <1>5, <1>6, <1>7, <1>8, <1>9 DEF Step, Rotation

LEMMA ChainStep ==
  ASSUME Typed, ChainBody, [Next]_vars, upsets' = {}
  PROVE  ChainBody'
<1>1. ASSUME NEW t \in Thread, Call(t) \/ Step(t)
      PROVE  ChainBody'
  BY <1>1, OneCallerStep, FilesChainStep, HashFollowsStep DEF ChainBody
<1>0. ASSUME NEW i, Sole(i)
      PROVE  LoadChain(file) = EventsOf(file)
  BY <1>0, LoadedChain, SoleSource DEF ChainBody, FilesChain, SourceChains, Sole, Typed
<1>2. ASSUME NEW i \in Instance, Construct(i)
      PROVE  ChainBody'
  <2>1. /\ chain' = [chain EXCEPT ![i] = LoadChain(file)]
        /\ UNCHANGED <<file, backup, pc, local>> /\ \A t \in Thread : local[t].by # i
    BY <1>2 DEF Construct
  <2>2. chain \in [Instance -> Seq(Event)]
    BY DEF Typed
  <2>3. chain'[i] = LoadChain(file) /\ \A j \in Instance \ {i} : chain'[j] = chain[j]
    BY <2>1, <2>2
  <2>4. /\ \A j : Sole(j)' <=> Sole(j)
        /\ \A j : Settled(j)' <=> Settled(j)
    BY <2>1 DEF Sole, Settled, Writing
  <2>5. \A t \in Thread : Writing(t) => chain'[local[t].by] = chain[local[t].by]
    BY <2>1, <2>3 DEF Typed, CallsOK, Writing
  <2>6. HashFollows'
    <3>1. ASSUME NEW j \in Instance, Sole(j)', Settled(j)'
          PROVE  chain'[j] = EventsOf(file')
      BY <1>0, <2>1, <2>3, <2>4, <3>1 DEF ChainBody, HashFollows
    <3>2. ASSUME NEW t \in Thread, pc'[t] = "hash", Sole(local[t].by)'
          PROVE  chain'[local'[t].by] = EventsOf(file')
      BY <2>1, <2>4, <2>5, <3>2 DEF ChainBody, HashFollows, Writing
    <3>3. ASSUME NEW t \in Thread, pc'[t] = "write", Sole(local[t].by)'
          PROVE  /\ local'[t].hash = Append(EventsOf(file'), local'[t].event)
                 /\ chain'[local'[t].by] = local'[t].hash
      BY <2>1, <2>4, <2>5, <3>3 DEF ChainBody, HashFollows, Writing
    <3> QED
      BY <3>1, <3>2, <3>3 DEF HashFollows
  <2> QED
    BY <2>1, <2>6 DEF ChainBody, OneCaller, FilesChain
<1>3. CASE RestartWith(file) /\ UNCHANGED upsets
  <2>1. /\ \A t \in Thread : pc'[t] = "idle"
        /\ \A i \in Instance : chain'[i] = LoadChain(file)
    BY <1>3, RestartCalls DEF Typed
  <2>2. UNCHANGED <<file, backup>>
    BY <1>3 DEF RestartWith
  <2>3. \A i \in Instance : Sole(i)' => chain'[i] = EventsOf(file')
    BY <1>0, <2>1, <2>2 DEF Sole
  <2> QED
    BY <2>1, <2>2, <2>3 DEF ChainBody, OneCaller, FilesChain, HashFollows
<1>4. ASSUME NEW t \in Thread, CrashWhileRewriting(t)
      PROVE  FALSE
  BY <1>4 DEF CrashWhileRewriting
<1>5. CASE ReadFromOffset \/ UNCHANGED vars
  <2>1. UNCHANGED <<file, backup, chain, pc, local>>
    BY <1>5 DEF ReadFromOffset, vars
  <2> QED
    BY <2>1 DEF ChainBody, OneCaller, FilesChain, HashFollows, Sole, Settled, Writing
<1> QED
  BY <1>1, <1>2, <1>3, <1>4, <1>5 DEF Next

(* Integrity chaining of what one object wrote: for any number of AuditLog     *)
(* objects on the path, any threads and any rotation, a file whose lines came  *)
(* through one object chains up from its first line, as long as no entry       *)
(* expired, no line was lost and no two calls were under way at once.          *)
THEOREM OwnChainHolds == Spec => []OwnChainIsIntact
<1>1. Init => ChainInv
  <2> SUFFICES ASSUME Init
               PROVE  ChainBody
    BY DEF ChainInv
  <2>1. /\ \A t \in Thread : pc[t] = "idle"
        /\ \A i \in Instance : chain[i] = <<>>
    BY DEF Init
  <2>2. FilesChain
    BY NoFileChains DEF Init, FilesChain
  <2> QED
    BY <2>1, <2>2, NoEvents DEF Init, ChainBody, OneCaller, HashFollows
<1>2. TypeInv /\ ChainInv /\ [Next]_vars => ChainInv'
  <2> SUFFICES ASSUME TypeInv, ChainInv, [Next]_vars, upsets' = {}
               PROVE  ChainBody'
    BY DEF ChainInv
  <2>1. upsets = {}
    BY UpsetsStay
  <2> QED
    BY <2>1, ChainStep DEF TypeInv, ChainInv
<1>3. ChainInv => OwnChainIsIntact
  <2> SUFFICES ASSUME FilesChain, NEW k \in 0 .. MaxBackups
               PROVE  SourceChains(Stored(k))
    BY DEF ChainInv, ChainBody, OwnChainIsIntact, SourceChains
  <2>1. k = 0 \/ k \in 1 .. MaxBackups
    BY AuditConstants
  <2> QED
    BY <2>1 DEF FilesChain, Stored
<1> QED
  BY <1>1, <1>2, <1>3, TypesHold, PTL DEF Spec

-------------------------------------------------------------------------------
\* The trail on disk.

Busy(t) == pc[t] \notin {"idle", "rewrite"}

Slots == 0 .. MaxBackups

SlotsRise == \A k \in Slots : Rising(EventsOf(Stored(k)))
SlotsInOrder ==
  \A j, k \in Slots : j < k => \A x \in EventsIn(j), y \in EventsIn(k) : y < x
OnlyWritten == Retained \subseteq Range(appended)
GoneIsOlder == \A x \in Retained, y \in Range(appended) \ Retained : y < x
NewestIsThere == appended # <<>> => appended[Len(appended)] \in Retained

Trail == SlotsRise /\ SlotsInOrder /\ OnlyWritten /\ GoneIsOlder /\ NewestIsThere

(* The event under way is younger than all that was written.                   *)
Numbered ==
  /\ \A x \in Range(appended) : x <= recorded
  /\ \A t \in Thread : Busy(t) =>
       /\ local[t].event <= recorded
       /\ \A x \in Range(appended) : x < local[t].event

(* A rename finds the name it renames to free.                                 *)
RoomToShift == \A t \in Thread : pc[t] = "shift" => backup[local[t].idx + 1] = NoFile

FileIsNewest == file # NoFile => appended # <<>> /\ appended[Len(appended)] \in EventsIn(0)

TrailBody == OneCaller /\ Trail /\ Numbered /\ RoomToShift /\ FileIsNewest
TrailInv == upsets \subseteq {"failed"} => TrailBody

LEMMA SlotTypes ==
  ASSUME Typed, NEW k \in Slots
  PROVE  /\ Stored(k) \in File /\ EventsOf(Stored(k)) \in Seq(Event)
         /\ EventsIn(k) \subseteq Event
         /\ (Stored(k) = NoFile => EventsIn(k) = {})
<1>1. Stored(k) \in File
  BY AuditConstants DEF Typed, Stored, Slots
<1>2. EventsOf(Stored(k)) \in Seq(Event)
  BY <1>1, EventsType
<1>3. Stored(k) = NoFile => EventsIn(k) = {}
  BY NoEvents DEF EventsIn, Range
<1> QED
  BY <1>1, <1>2, <1>3 DEF EventsIn, Range

LEMMA RetainedIs == \A x : x \in Retained <=> \E k \in Slots : x \in EventsIn(k)
  BY DEF Retained, Slots

LEMMA NoFileRises == Rising(EventsOf(NoFile))
  BY NoEvents DEF Rising

(* A file renamed to a free name leaves the trail as it was.                   *)
LEMMA RenameKeeps ==
  ASSUME Typed, Trail, NEW k \in Slots, k + 1 \in Slots, Stored(k + 1) = NoFile,
         Stored(k)' = NoFile, Stored(k + 1)' = Stored(k),
         \A j \in Slots \ {k, k + 1} : Stored(j)' = Stored(j),
         UNCHANGED appended
  PROVE  Trail'
<1>1. /\ \A j \in Slots \ {k, k + 1} : EventsIn(j)' = EventsIn(j)
      /\ EventsIn(k + 1)' = EventsIn(k)
  BY DEF EventsIn
<1>2. EventsIn(k)' = {} /\ EventsIn(k + 1) = {}
  BY SlotTypes, NoEvents DEF EventsIn, Range
<1>3. Retained' = Retained
  <2>1. \A x : x \in Retained' <=> \E j \in Slots : x \in EventsIn(j)'
    BY DEF Retained, Slots
  <2>2. \A x : x \in Retained' <=> x \in Retained
    BY <1>1, <1>2, <2>1, RetainedIs
  <2> QED
    BY <2>2 DEF Retained
<1>4. SlotsRise'
  <2>1. \A j \in Slots : Stored(j)' = NoFile \/ \E i \in Slots : Stored(j)' = Stored(i)
    OBVIOUS
  <2> QED
    BY <2>1, NoFileRises DEF SlotsRise, Trail, Slots
<1>5. SlotsInOrder'
  <2> SUFFICES ASSUME NEW i \in Slots, NEW j \in Slots, i < j,
                      NEW x \in EventsIn(i)', NEW y \in EventsIn(j)'
               PROVE  y < x
    BY DEF SlotsInOrder, Slots
  <2> DEFINE Old(l) == IF l = k + 1 THEN k ELSE l
  <2>1. i # k /\ j # k
    BY <1>2
  <2>2. /\ Old(i) \in Slots /\ Old(j) \in Slots
        /\ x \in EventsIn(Old(i)) /\ y \in EventsIn(Old(j))
    BY <1>1, <2>1
  <2>3. Old(i) < Old(j)
    BY <2>1 DEF Slots
  <2> HIDE DEF Old
  <2> QED
    BY <2>2, <2>3 DEF SlotsInOrder, Trail
<1> QED
  BY <1>3, <1>4, <1>5 DEF Trail, OnlyWritten, GoneIsOlder, NewestIsThere

(* What is deleted is older than what stays.                                   *)
LEMMA DropKeeps ==
  ASSUME Typed, Trail, FileIsNewest, file # NoFile,
         backup' = [backup EXCEPT ![MaxBackups] = NoFile], UNCHANGED <<file, appended>>
  PROVE  Trail'
<1> DEFINE n == MaxBackups
<1>0. n \in Nat \ {0} /\ n \in Slots /\ 0 \in Slots
  BY AuditConstants DEF Slots
<1>1. Stored(n)' = NoFile /\ \A j \in Slots \ {n} : Stored(j)' = Stored(j)
  BY <1>0 DEF Stored, Typed, Slots
<1> HIDE DEF n
<1>2. EventsIn(n)' = {} /\ \A j \in Slots \ {n} : EventsIn(j)' = EventsIn(j)
  BY <1>1, NoEvents DEF EventsIn, Range
<1>3. \A x : x \in Retained' <=> \E j \in Slots \ {n} : x \in EventsIn(j)
  <2>1. \A x : x \in Retained' <=> \E j \in Slots : x \in EventsIn(j)'
    BY DEF Retained, Slots
  <2> QED
    BY <1>2, <2>1
<1>4. \A x : x \in Retained <=> x \in Retained' \/ x \in EventsIn(n)
  BY <1>0, <1>3, RetainedIs
<1>5. SlotsRise'
  BY <1>1, NoFileRises DEF SlotsRise, Trail, Slots
<1>6. SlotsInOrder'
  BY <1>2 DEF SlotsInOrder, Trail, Slots
<1>7. OnlyWritten'
  BY <1>4 DEF OnlyWritten, Trail
<1>8. GoneIsOlder'
  <2> SUFFICES ASSUME NEW x \in Retained', NEW y \in Range(appended) \ Retained'
               PROVE  y < x
    BY DEF GoneIsOlder
  <2>1. PICK j \in Slots \ {n} : x \in EventsIn(j)
    BY <1>3
  <2>2. j < n
    BY <1>0, <2>1 DEF Slots, n
  <2>3. CASE y \in EventsIn(n)
    BY <1>0, <2>1, <2>2, <2>3 DEF SlotsInOrder, Trail
  <2>4. CASE y \notin EventsIn(n)
    BY <1>4, <2>4 DEF GoneIsOlder, Trail
  <2> QED
    BY <2>3, <2>4
<1>9. NewestIsThere'
  <2>1. appended[Len(appended)] \in EventsIn(0)
    BY DEF FileIsNewest
  <2> QED
    BY <1>0, <1>3, <2>1 DEF NewestIsThere
<1> QED
  BY <1>5, <1>6, <1>7, <1>8, <1>9 DEF Trail

LEMMA RangeOfAppend ==
  ASSUME NEW S, NEW s \in Seq(S), NEW e \in S
  PROVE  /\ Range(Append(s, e)) = Range(s) \cup {e}
         /\ Append(s, e) # <<>> /\ Append(s, e)[Len(Append(s, e))] = e
<1>1. /\ DOMAIN s = 1 .. Len(s) /\ DOMAIN Append(s, e) = 1 .. Len(s) + 1 /\ Len(s) \in Nat
      /\ Append(s, e)[Len(s) + 1] = e /\ \A i \in 1 .. Len(s) : Append(s, e)[i] = s[i]
      /\ Len(Append(s, e)) = Len(s) + 1
  OBVIOUS
<1>2. \A x : x \in Range(Append(s, e)) <=> x \in Range(s) \/ x = e
  BY <1>1 DEF Range
<1> QED
  BY <1>1, <1>2

(* An event younger than all others goes to the end of the newest file.        *)
LEMMA WriteKeeps ==
  ASSUME Typed, Trail, NEW e \in Event, NEW h \in Seq(Event), NEW o \in Instance,
         \A x \in Range(appended) : x < e,
         file' = WithLine(file, e, h, o), appended' = Append(appended, e), UNCHANGED backup
  PROVE  Trail' /\ FileIsNewest' /\ Range(appended') = Range(appended) \cup {e}
<1>1. 0 \in Slots /\ file \in File /\ appended \in Seq(Event)
  BY AuditConstants DEF Typed, Slots
<1>2. /\ Range(appended') = Range(appended) \cup {e}
      /\ appended' # <<>> /\ appended'[Len(appended')] = e
  BY <1>1, RangeOfAppend
<1>3. Stored(0) = file /\ \A k \in Slots \ {0} : Stored(k)' = Stored(k)
  BY DEF Stored
<1>4. EventsOf(Stored(0))' = Append(EventsOf(Stored(0)), e)
  <2>1. EventsOf(WithLine(file, e, h, o)) = Append(EventsOf(file), e)
    BY <1>1, EventsOfAppended
  <2>2. EventsOf(Stored(0))' = EventsOf(file')
    BY DEF Stored
  <2> QED
    BY <1>3, <2>1, <2>2
<1>5. /\ EventsIn(0)' = EventsIn(0) \cup {e}
      /\ \A k \in Slots \ {0} : EventsIn(k)' = EventsIn(k)
  <2>1. EventsOf(Stored(0)) \in Seq(Event)
    BY <1>1, SlotTypes
  <2>2. Range(Append(EventsOf(Stored(0)), e)) = Range(EventsOf(Stored(0))) \cup {e}
    BY <2>1, RangeOfAppend
  <2> QED
    BY <1>3, <1>4, <2>2 DEF EventsIn
<1>6. \A x : x \in Retained' <=> x \in Retained \/ x = e
  <2>1. \A x : x \in Retained' <=> \E k \in Slots : x \in EventsIn(k)'
    BY DEF Retained, Slots
  <2> QED
    BY <1>1, <1>5, <2>1, RetainedIs
<1>7. \A x \in Retained : x < e
  BY DEF Trail, OnlyWritten
<1>8. SlotsRise'
  <2> DEFINE s == EventsOf(Stored(0))
             n == Len(s)
  <2>1. s \in Seq(Event) /\ n \in Nat /\ \A i \in 1 .. n : s[i] < e
    <3>1. s \in Seq(Event)
      BY <1>1, SlotTypes
    <3>2. \A i \in 1 .. n : s[i] \in EventsIn(0)
      BY <3>1 DEF EventsIn, Range
    <3> QED
      BY <1>1, <1>7, <3>1, <3>2, RetainedIs
  <2>2. Rising(s)
    BY <1>1 DEF Trail, SlotsRise
  <2> HIDE DEF s
  <2> DEFINE r == Append(s, e)
  <2>3. DOMAIN s = 1 .. n /\ DOMAIN r = 1 .. n + 1
        /\ r[n + 1] = e /\ \A i \in 1 .. n : r[i] = s[i]
    BY <2>1
  <2>0. n \in Nat
    BY <2>1
  <2> HIDE DEF r
  <2>4. Rising(r)
    <3> SUFFICES ASSUME NEW i \in 1 .. n + 1, NEW j \in 1 .. n + 1, i < j
                 PROVE  r[i] < r[j]
      BY <2>3 DEF Rising
    <3>1. i \in 1 .. n
      BY <2>0
    <3>2. CASE j = n + 1
      BY <2>1, <2>3, <3>1, <3>2
    <3>3. CASE j # n + 1
      <4>1. j \in 1 .. n
        BY <2>0, <3>3
      <4>2. s[i] < s[j]
        BY <2>2, <2>3, <3>1, <4>1 DEF Rising
      <4> QED
        BY <2>3, <3>1, <4>1, <4>2
    <3> QED
      BY <3>2, <3>3
  <2>5. EventsOf(Stored(0))' = r
    BY <1>4 DEF r, s
  <2>6. \A k \in Slots \ {0} : Rising(EventsOf(Stored(k))')
    BY <1>3 DEF Trail, SlotsRise
  <2>7. \A k \in Slots : Rising(EventsOf(Stored(k))')
    BY <2>4, <2>5, <2>6
  <2> QED
    BY <2>7 DEF SlotsRise, Rising, Slots
<1>9. SlotsInOrder'
  <2> SUFFICES ASSUME NEW i \in Slots, NEW j \in Slots, i < j,
                      NEW x \in EventsIn(i)', NEW y \in EventsIn(j)'
               PROVE  y < x
    BY DEF SlotsInOrder, Slots
  <2>1. y \in EventsIn(j)
    BY <1>5 DEF Slots
  <2>2. CASE x \in EventsIn(i)
    BY <2>1, <2>2 DEF Trail, SlotsInOrder
  <2>3. CASE x = e
    BY <1>7, <2>1, <2>3, RetainedIs
  <2> QED
    BY <1>5, <2>2, <2>3
<1>10. OnlyWritten'
  BY <1>2, <1>6 DEF Trail, OnlyWritten
<1>11. GoneIsOlder'
  <2> SUFFICES ASSUME NEW x \in Retained', NEW y \in Range(appended') \ Retained'
               PROVE  y < x
    BY DEF GoneIsOlder
  <2>1. y \in Range(appended) \ Retained
    BY <1>2, <1>6
  <2> QED
    BY <1>6, <2>1 DEF Trail, GoneIsOlder
<1>12. NewestIsThere' /\ FileIsNewest'
  <2>1. e \in EventsIn(0)' /\ e \in Retained'
    BY <1>5, <1>6
  <2> QED
    BY <1>2, <2>1 DEF NewestIsThere, FileIsNewest
<1> QED
  BY <1>2, <1>8, <1>9, <1>10, <1>11, <1>12 DEF Trail

(* The event of a call is the one it got when it started.                      *)
LEMMA EventKept ==
  ASSUME Typed, NEW t \in Thread, Rotation(t) \/ ComputeEntryHash(t)
  PROVE  local'[t].event = local[t].event /\ UNCHANGED <<recorded, appended>> /\ Busy(t)
<1>2. local \in [Thread -> Local]
  BY DEF Typed, CallsOK
<1>3. CASE ComputeEntryHash(t)
  BY <1>3, HashGoes DEF ComputeEntryHash, Busy
<1>4. CASE Rotation(t)
  <2>1. \/ UNCHANGED local
        \/ \E k : local' = [local EXCEPT ![t].idx = k]
    BY <1>4 DEF Rotation, CheckSize, DropOldest, ShiftBackup, MoveFile
  <2>2. local'[t].event = local[t].event
    BY <2>1, IndexKeeps
  <2> QED
    BY <1>4, <2>2 DEF Rotation, CheckSize, DropOldest, ShiftBackup, MoveFile, Busy
<1> QED
  BY <1>3, <1>4

LEMMA NumberedStep ==
  ASSUME Typed, Numbered, OneCaller, NEW t \in Thread, Call(t) \/ Step(t),
         upsets' \subseteq {"failed"}
  PROVE  Numbered'
<1>1. \A u \in Thread \ {t} : ~Busy(u)'
  BY OneCallerStep DEF Busy
<1>2. /\ appended \in Seq(Event) /\ recorded \in Nat
      /\ \A x \in Range(appended) : x \in Nat /\ x <= recorded
  <2>1. appended \in Seq(Event) /\ recorded \in Nat
    BY DEF Typed
  <2>2. Range(appended) \subseteq Event
    BY <2>1 DEF Range
  <2> QED
    BY <2>1, <2>2 DEF Numbered, Event
<1>3. ASSUME NEW i \in Instance, Record(t, i)
      PROVE  Numbered'
  <2>1. local'[t].event = recorded + 1
    BY <1>3, RecordGoes
  <2>2. recorded' = recorded + 1 /\ UNCHANGED appended
    BY <1>3 DEF Record
  <2> QED
    BY <1>1, <1>2, <2>1, <2>2 DEF Numbered
<1>4. CASE Rotation(t) \/ ComputeEntryHash(t)
  BY <1>1, <1>4, EventKept DEF Numbered
<1>5. CASE WriteLine(t)
  <2> DEFINE e == local[t].event
  <2>1. /\ e \in Event /\ e <= recorded
        /\ appended' = Append(appended, e) /\ recorded' = recorded
    BY <1>5 DEF WriteLine, Typed, CallsOK, Numbered, Busy
  <2>2. pc'[t] = "idle"
    BY <1>5, IdleGoes DEF WriteLine, Goes
  <2> HIDE DEF e
  <2>3. Range(appended') = Range(appended) \cup {e}
    BY <1>2, <2>1, RangeOfAppend
  <2>4. \A u \in Thread : ~Busy(u)'
    BY <1>1, <2>2 DEF Busy
  <2> QED
    BY <1>2, <2>1, <2>3, <2>4 DEF Numbered
<1>6. CASE WriteFails(t) \/ \E cutoff \in 1 .. recorded : ReadForExpiry(t, cutoff)
  <2>1. ~Busy(t)' /\ UNCHANGED <<recorded, appended>>
    <3>1. CASE WriteFails(t)
      BY <3>1, IdleGoes DEF WriteFails, Goes, Busy
    <3>2. CASE \E cutoff \in 1 .. recorded : ReadForExpiry(t, cutoff)
      BY <3>2, ExpiryGoes DEF ReadForExpiry, Goes, Busy
    <3> QED
      BY <1>6, <3>1, <3>2
  <2>2. \A u \in Thread : ~Busy(u)'
    BY <1>1, <2>1
  <2> QED
    BY <1>2, <2>1, <2>2 DEF Numbered
<1>7. ~Rewrite(t)
  BY DEF Rewrite
<1> QED
  BY <1>3, <1>4, <1>5, <1>6, <1>7 DEF Call, Step

(* A rotation renames from the oldest backup down, each to the name that the   *)
(* step before it left free.                                                   *)
LEMMA RotationKeeps ==
  ASSUME Typed, Trail, RoomToShift, FileIsNewest, NEW t \in Thread, Rotation(t)
  PROVE  /\ Trail' /\ FileIsNewest'
         /\ pc'[t] = "shift" => backup'[local'[t].idx + 1] = NoFile
<1>1. /\ MaxBackups \in Nat \ {0} /\ 0 \in Slots /\ 1 \in Slots /\ MaxBackups \in Slots
      /\ backup \in [1 .. MaxBackups -> File]
  BY AuditConstants DEF Slots, Typed
<1>2. ASSUME UNCHANGED <<file, backup, appended>>
      PROVE  Trail' /\ FileIsNewest'
  BY <1>2 DEF Trail, SlotsRise, SlotsInOrder, OnlyWritten, GoneIsOlder, NewestIsThere,
              FileIsNewest, Retained, EventsIn, Stored
<1>3. ASSUME NEW k, local' = [local EXCEPT ![t].idx = k]
      PROVE  local'[t].idx = k
  <2>1. local \in [Thread -> Local]
    BY DEF Typed, CallsOK
  <2>2. local[t] \in Local /\ local'[t] = [local[t] EXCEPT !.idx = k]
    BY <1>3, <2>1
  <2> QED
    BY <2>2 DEF Local
<1>4. CASE CheckSize(t)
  <2>1. pc'[t] # "shift"
    BY <1>4 DEF CheckSize, GoTo, Typed, CallsOK
  <2> QED
    BY <1>2, <1>4, <2>1 DEF CheckSize
<1>5. CASE DropOldest(t)
  <2>1. CASE file = NoFile
    <3>1. pc'[t] # "shift" /\ UNCHANGED <<file, backup, appended>>
      BY <1>5, <2>1 DEF DropOldest, GoTo, Typed, CallsOK
    <3> QED
      BY <1>2, <3>1
  <2>2. CASE file # NoFile
    <3>1. /\ backup' = [backup EXCEPT ![MaxBackups] = NoFile] /\ UNCHANGED <<file, appended>>
          /\ local' = [local EXCEPT ![t].idx = MaxBackups - 1]
      BY <1>5, <2>2 DEF DropOldest
    <3>2. Trail'
      BY <2>2, <3>1, DropKeeps
    <3>3. FileIsNewest'
      BY <3>1 DEF FileIsNewest, EventsIn, Stored
    <3>4. local'[t].idx = MaxBackups - 1 /\ backup'[MaxBackups] = NoFile
      <4>1. local'[t].idx = MaxBackups - 1
        BY <1>3, <3>1
      <4>2. MaxBackups \in DOMAIN backup
        BY <1>1
      <4> QED
        BY <3>1, <4>1, <4>2
    <3> QED
      BY <1>1, <3>2, <3>3, <3>4
  <2> QED
    BY <2>1, <2>2
<1>6. CASE ShiftBackup(t)
  <2>1. PICK k \in 1 .. MaxBackups - 1 : k = local[t].idx
    <3>1. local[t].idx \in 0 .. MaxBackups - 1 /\ local[t].idx > 0
      BY <1>6, CallType DEF Typed, ShiftBackup
    <3> QED
      BY <1>1, <3>1
  <2>2. backup[k + 1] = NoFile
    BY <1>6, <2>1 DEF ShiftBackup, RoomToShift
  <2>3. /\ backup' = IF backup[k] = NoFile THEN backup
                     ELSE [backup EXCEPT ![k + 1] = backup[k], ![k] = NoFile]
        /\ UNCHANGED <<file, appended>>
        /\ local' = [local EXCEPT ![t].idx = k - 1]
    BY <1>6, <2>1 DEF ShiftBackup
  <2>4. k \in 1 .. MaxBackups /\ k + 1 \in 1 .. MaxBackups
    BY <1>1, <2>1
  <2>5. backup'[k] = NoFile
    BY <1>1, <2>3, <2>4
  <2>6. local'[t].idx + 1 = k
    <3>1. local'[t].idx = k - 1
      BY <1>3, <2>3
    <3> QED
      BY <2>1, <3>1
  <2>7. CASE backup[k] = NoFile
    <3>1. UNCHANGED <<file, backup, appended>>
      BY <2>3, <2>7
    <3> QED
      BY <1>2, <2>5, <2>6, <3>1
  <2>8. CASE backup[k] # NoFile
    <3>1. /\ backup'[k + 1] = backup[k]
          /\ \A j \in 1 .. MaxBackups : j \notin {k, k + 1} => backup'[j] = backup[j]
      BY <1>1, <2>3, <2>4, <2>8
    <3>2. /\ k \in Slots /\ k + 1 \in Slots /\ k # 0 /\ k + 1 # 0
          /\ Stored(k + 1) = NoFile /\ Stored(k)' = NoFile /\ Stored(k + 1)' = Stored(k)
      <4>1. k \in Slots /\ k + 1 \in Slots /\ k # 0 /\ k + 1 # 0
        BY <2>4 DEF Slots
      <4>2. Stored(k + 1) = backup[k + 1] /\ Stored(k) = backup[k]
        BY <4>1 DEF Stored
      <4>3. Stored(k + 1)' = backup'[k + 1] /\ Stored(k)' = backup'[k]
        BY <4>1 DEF Stored
      <4> QED
        BY <2>2, <2>5, <3>1, <4>1, <4>2, <4>3
    <3>3. \A j \in Slots \ {k, k + 1} : Stored(j)' = Stored(j)
      <4>1. ASSUME NEW j \in Slots \ {k, k + 1}
            PROVE  Stored(j)' = Stored(j)
        <5>1. CASE j = 0
          BY <2>3, <5>1 DEF Stored
        <5>2. CASE j # 0
          <6>1. j \in 1 .. MaxBackups
            BY <1>1, <5>2 DEF Slots
          <6> QED
            BY <3>1, <5>2, <6>1 DEF Stored
        <5> QED
          BY <5>1, <5>2
      <4> QED
        BY <4>1
    <3>4. Trail'
      BY <2>3, <3>2, <3>3, RenameKeeps
    <3>5. FileIsNewest'
      BY <2>3 DEF FileIsNewest, EventsIn, Stored
    <3> QED
      BY <2>5, <2>6, <3>4, <3>5
  <2> QED
    BY <2>7, <2>8
<1>7. CASE MoveFile(t)
  <2>1. pc'[t] # "shift"
    BY <1>7 DEF MoveFile, GoTo, Typed, CallsOK
  <2>2. CASE file = NoFile
    <3>1. UNCHANGED <<file, backup, appended>>
      BY <1>7, <2>2 DEF MoveFile
    <3> QED
      BY <1>2, <2>1, <3>1
  <2>3. CASE file # NoFile
    <3>1. /\ backup' = [backup EXCEPT ![1] = file] /\ file' = NoFile
          /\ UNCHANGED appended
      BY <1>7, <2>3 DEF MoveFile
    <3>2. backup[1] = NoFile
      BY <1>7 DEF MoveFile, RoomToShift
    <3>3. /\ backup'[1] = file
          /\ \A j \in 1 .. MaxBackups : j # 1 => backup'[j] = backup[j]
      BY <1>1, <3>1
    <3>4. Stored(1) = NoFile /\ Stored(0)' = NoFile /\ Stored(1)' = Stored(0)
      BY <3>1, <3>2, <3>3 DEF Stored
    <3>5. \A j \in Slots \ {0, 1} : Stored(j)' = Stored(j)
      BY <1>1, <3>3 DEF Stored, Slots
    <3>6. Trail'
      <4>1. ASSUME NEW k \in Slots, k = 0
            PROVE  Trail'
        <5>1. k + 1 = 1
          BY <4>1
        <5>2. /\ k + 1 \in Slots /\ Stored(k + 1) = NoFile
              /\ Stored(k)' = NoFile /\ Stored(k + 1)' = Stored(k)
              /\ \A j \in Slots \ {k, k + 1} : Stored(j)' = Stored(j)
          BY <1>1, <3>4, <3>5, <4>1, <5>1
        <5> QED
          BY <3>1, <5>2, RenameKeeps
      <4> QED
        BY <1>1, <4>1
    <3>7. FileIsNewest'
      BY <3>1 DEF FileIsNewest
    <3> QED
      BY <2>1, <3>6, <3>7
  <2> QED
    BY <2>2, <2>3
<1> QED
  BY <1>4, <1>5, <1>6, <1>7 DEF Rotation

LEMMA TrailStep ==
  ASSUME Typed, TrailBody, [Next]_vars, upsets' \subseteq {"failed"}
  PROVE  TrailBody'
<1>1. ASSUME UNCHANGED <<file, backup, appended>>
      PROVE  Trail' /\ FileIsNewest'
  BY <1>1 DEF TrailBody, Trail, SlotsRise, SlotsInOrder, OnlyWritten, GoneIsOlder,
              NewestIsThere, FileIsNewest, Retained, EventsIn, Stored
<1>2. ASSUME NEW t \in Thread, Call(t) \/ Step(t)
      PROVE  TrailBody'
  <2>1. OneCaller' /\ \A u \in Thread \ {t} : pc[u] = "idle" /\ pc'[u] = "idle"
    BY <1>2, OneCallerStep DEF TrailBody
  <2>2. Numbered'
    BY <1>2, NumberedStep DEF TrailBody
  <2>3. ASSUME pc'[t] = "shift" => backup'[local'[t].idx + 1] = NoFile
        PROVE  RoomToShift'
    BY <2>1, <2>3 DEF RoomToShift
  <2>4. CASE Rotation(t)
    BY <2>1, <2>2, <2>3, <2>4, RotationKeeps DEF TrailBody
  <2>5. CASE WriteLine(t)
    <3> DEFINE e == local[t].event
               h == local[t].hash
               o == local[t].by
    <3>1. /\ file' = WithLine(file, e, h, o) /\ appended' = Append(appended, e)
          /\ UNCHANGED backup
      BY <2>5 DEF WriteLine, WithLine
    <3>2. e \in Event /\ h \in Seq(Event) /\ o \in Instance
      BY <2>5, CallType DEF Typed, CallsOK, WriteLine
    <3>3. \A x \in Range(appended) : x < e
      BY <2>5 DEF WriteLine, TrailBody, Numbered, Busy
    <3>4. pc'[t] # "shift"
      BY <2>5, IdleGoes DEF WriteLine, Goes
    <3> HIDE DEF e, h, o
    <3>5. Trail' /\ FileIsNewest'
      BY <3>1, <3>2, <3>3, WriteKeeps DEF TrailBody
    <3> QED
      BY <2>1, <2>2, <2>3, <3>4, <3>5 DEF TrailBody
  <2>6. CASE Call(t) \/ ComputeEntryHash(t) \/ WriteFails(t)
    <3>1. UNCHANGED <<file, backup, appended>>
      BY <2>6 DEF Call, Record, ReadForExpiry, ComputeEntryHash, WriteFails
    <3>2. pc'[t] # "shift"
      <4>1. CASE \E i \in Instance : Record(t, i)
        BY <4>1, RecordGoes DEF Goes
      <4>2. CASE \E cutoff \in 1 .. recorded : ReadForExpiry(t, cutoff)
        BY <4>2, ExpiryGoes DEF Goes
      <4>3. CASE ComputeEntryHash(t)
        BY <4>3, HashGoes DEF Goes
      <4>4. CASE WriteFails(t)
        BY <4>4, IdleGoes DEF WriteFails, Goes
      <4> QED
        BY <2>6, <4>1, <4>2, <4>3, <4>4 DEF Call
    <3> QED
      BY <1>1, <2>1, <2>2, <2>3, <3>1, <3>2 DEF TrailBody
  <2>7. ~Rewrite(t)
    BY DEF Rewrite
  <2> QED
    BY <1>2, <2>4, <2>5, <2>6, <2>7 DEF Step
<1>3. ASSUME NEW i \in Instance, Construct(i)
      PROVE  TrailBody'
  <2>1. UNCHANGED <<file, backup, appended, pc, local, recorded>>
    BY <1>3 DEF Construct
  <2> QED
    BY <1>1, <2>1 DEF TrailBody, OneCaller, Numbered, RoomToShift, Busy
<1>4. CASE RestartWith(file) /\ UNCHANGED upsets
  <2>1. \A t \in Thread : pc'[t] = "idle"
    BY <1>4, RestartCalls DEF Typed
  <2>2. UNCHANGED <<file, backup, appended, recorded>>
    BY <1>4 DEF RestartWith
  <2>3. OneCaller' /\ RoomToShift' /\ Numbered'
    BY <2>1, <2>2 DEF TrailBody, OneCaller, RoomToShift, Numbered, Busy
  <2> QED
    BY <1>1, <2>2, <2>3 DEF TrailBody
<1>5. ASSUME NEW t \in Thread, CrashWhileRewriting(t)
      PROVE  FALSE
  BY <1>5 DEF CrashWhileRewriting
<1>6. CASE ReadFromOffset \/ UNCHANGED vars
  <2>1. UNCHANGED <<file, backup, appended, pc, local, recorded>>
    BY <1>6 DEF ReadFromOffset, vars
  <2> QED
    BY <1>1, <2>1 DEF TrailBody, OneCaller, Numbered, RoomToShift, Busy
<1> QED
  BY <1>2, <1>3, <1>4, <1>5, <1>6 DEF Next

(* A durable event trail: as long as no entry expired and no two calls were    *)
(* under way at once, what the file and its backups hold is what was written   *)
(* last, each line once and in order of time, in the middle of a rotation,     *)
(* after a crash there and after lost lines, for any size and number of files. *)
THEOREM TrailIsDurable == Spec => []DurableTrail
<1>1. Init => TrailInv
  <2> SUFFICES ASSUME Init
               PROVE  TrailBody
    BY DEF TrailInv
  <2>1. \A t \in Thread : pc[t] = "idle"
    BY DEF Init
  <2>2. /\ appended = <<>> /\ file = NoFile /\ recorded = 0 /\ Range(appended) = {}
    BY DEF Init, Range
  <2>3. \A k \in Slots : Stored(k) = NoFile
    BY DEF Init, Stored, Slots
  <2>4. \A k \in Slots : EventsIn(k) = {}
    BY <2>3, NoEvents DEF EventsIn, Range
  <2>5. \A x : x \notin Retained
    BY <2>4, RetainedIs
  <2>6. SlotsRise
    BY <2>3, NoFileRises DEF SlotsRise
  <2>7. SlotsInOrder
    BY <2>4 DEF SlotsInOrder
  <2>8. OnlyWritten /\ GoneIsOlder /\ NewestIsThere
    BY <2>2, <2>5 DEF OnlyWritten, GoneIsOlder, NewestIsThere
  <2>9. OneCaller /\ Numbered /\ RoomToShift /\ FileIsNewest
    BY <2>1, <2>2 DEF OneCaller, Numbered, RoomToShift, FileIsNewest, Busy
  <2> QED
    BY <2>6, <2>7, <2>8, <2>9 DEF TrailBody, Trail
<1>2. TypeInv /\ TrailInv /\ [Next]_vars => TrailInv'
  <2> SUFFICES ASSUME TypeInv, TrailInv, [Next]_vars, upsets' \subseteq {"failed"}
               PROVE  TrailBody'
    BY DEF TrailInv
  <2>1. upsets \subseteq {"failed"}
    BY UpsetsStay
  <2> QED
    BY <2>1, TrailStep DEF TypeInv, TrailInv
<1>3. TrailInv => DurableTrail
  BY DEF TrailInv, TrailBody, Trail, SlotsRise, SlotsInOrder, OnlyWritten, GoneIsOlder,
         NewestIsThere, DurableTrail, Slots
<1> QED
  BY <1>1, <1>2, <1>3, TypesHold, PTL DEF Spec

-------------------------------------------------------------------------------
\* Expiry.

(* A thread that writes the file back holds what is young in the file as it    *)
(* is: nobody has written to the file since it read it.                        *)
KeptFollows ==
  \A t \in Thread :
    pc[t] = "rewrite" => file \in Seq(Line) /\ local[t].kept = Younger(file, local[t].cutoff)

KeptBody == OneCaller /\ KeptFollows
KeptInv == "overlapped" \notin upsets => KeptBody

LEMMA KeptStep ==
  ASSUME Typed, KeptBody, [Next]_vars, "overlapped" \notin upsets'
  PROVE  KeptBody'
<1>1. ASSUME NEW t \in Thread, Call(t) \/ Step(t)
      PROVE  KeptBody'
  <2>1. OneCaller' /\ \A u \in Thread \ {t} : pc'[u] = "idle"
    BY <1>1, OneCallerStep DEF KeptBody
  <2>2. PICK label : Goes(t, label)
    BY <1>1, StepCalls
  <2>3. SUFFICES ASSUME pc'[t] = "rewrite"
                 PROVE  /\ file' \in Seq(Line)
                        /\ local'[t].kept = Younger(file', local'[t].cutoff)
    BY <2>1 DEF KeptBody, KeptFollows
  <2>4. PICK cutoff \in 1 .. recorded : ReadForExpiry(t, cutoff)
    <3>1. t \in Thread /\ pc \in [Thread -> {"idle", "check", "rotate", "shift", "hash",
                                             "write", "rewrite"}]
      BY DEF Typed, CallsOK
    <3> QED
      BY <1>1, <2>3, <3>1 DEF Call, Step, Rotation, Record, CheckSize, DropOldest, ShiftBackup,
                  MoveFile, ComputeEntryHash, WriteLine, WriteFails, Rewrite, GoTo
  <2>5. file \in Seq(Line) /\ UNCHANGED file
    BY <2>4 DEF ReadForExpiry, Typed, File
  <2> QED
    BY <2>4, <2>5, ExpiryGoes
<1>2. CASE UNCHANGED <<file, pc, local>>
  BY <1>2 DEF KeptBody, KeptFollows, OneCaller
<1>3. ASSUME NEW lines, RestartWith(lines)
      PROVE  KeptBody'
  <2>1. \A t \in Thread : pc'[t] = "idle"
    BY <1>3 DEF RestartWith
  <2> QED
    BY <2>1 DEF KeptBody, KeptFollows, OneCaller
<1>4. ASSUME NEW t \in Thread, CrashWhileRewriting(t)
      PROVE  KeptBody'
  BY <1>3, <1>4 DEF CrashWhileRewriting
<1>5. ASSUME NEW i \in Instance, Construct(i)
      PROVE  UNCHANGED <<file, pc, local>>
  BY <1>5 DEF Construct
<1> QED
  BY <1>1, <1>2, <1>3, <1>4, <1>5 DEF Next, ReadFromOffset, vars

(* No young line is lost when the file is written back: whoever expires alone  *)
(* drops only lines older than the cutoff, in a file of any length.            *)
THEOREM YoungLinesStay == Spec => RecentKept
<1>1. Init => KeptInv
  BY DEF Init, KeptInv, KeptBody, KeptFollows, OneCaller
<1>2. TypeInv /\ KeptInv /\ [Next]_vars => KeptInv'
  <2> SUFFICES ASSUME TypeInv, KeptInv, [Next]_vars, "overlapped" \notin upsets'
               PROVE  KeptBody'
    BY DEF KeptInv
  <2>1. "overlapped" \notin upsets
    BY UpsetsStay
  <2> QED
    BY <2>1, KeptStep DEF TypeInv, KeptInv
<1> DEFINE Drops(t) == \A e \in Range(EventsOf(file)) \ Range(EventsOf(file')) :
                         e < local[t].cutoff
           Expires(t) == /\ pc[t] = "rewrite" /\ pc'[t] = "idle"
                         /\ restarts' = restarts /\ "overlapped" \notin upsets
<1>3. ASSUME TypeInv, KeptInv, [Next]_vars, NEW t \in Thread, Expires(t)
      PROVE  Drops(t)
  <2>1. Rewrite(t)
    <3>1. ASSUME NEW u \in Thread, Call(u) \/ Step(u)
          PROVE  Rewrite(t)
      <4>1. u = t
        <5>1. PICK label : Goes(u, label)
          BY <1>3, <3>1, StepCalls DEF TypeInv
        <5> QED
          BY <1>3, <5>1 DEF Goes
      <4> QED
        BY <1>3, <3>1, <4>1 DEF Call, Step, Rotation, Record, ReadForExpiry, CheckSize,
                    DropOldest, ShiftBackup, MoveFile, ComputeEntryHash, WriteLine, WriteFails
    <3>2. ASSUME NEW lines, RestartWith(lines)
          PROVE  FALSE
      <4>1. restarts \in Nat /\ restarts' = restarts + 1
        BY <3>2, <1>3 DEF RestartWith, TypeInv, Typed
      <4> QED
        BY <1>3, <4>1
    <3>3. pc' # pc
      BY <1>3
    <3> QED
      BY <1>3, <3>1, <3>2, <3>3 DEF Next, Construct, CrashWhileRewriting, ReadFromOffset, vars
  <2> DEFINE kept == local[t].kept
             cutoff == local[t].cutoff
  <2>2. file \in Seq(Line) /\ kept = Younger(file, cutoff) /\ file' = kept /\ cutoff \in Int
    <3>1. pc[t] = "rewrite" /\ file' = kept
      BY <2>1 DEF Rewrite
    <3>2. KeptFollows
      BY <1>3 DEF KeptInv, KeptBody
    <3>3. file \in Seq(Line) /\ kept = Younger(file, cutoff)
      BY <3>1, <3>2 DEF KeptFollows
    <3>4. local[t].cutoff \in Nat
      BY <1>3, CallType DEF TypeInv, Typed
    <3> QED
      BY <3>1, <3>3, <3>4
  <2>3. kept \in Seq(Line) /\ file \in File /\ kept \in File
    BY <2>2, YoungerType DEF File
  <2> HIDE DEF kept, cutoff
  <2>4. SUFFICES ASSUME NEW e \in Range(EventsOf(file)), ~(e < cutoff)
                 PROVE  e \in Range(EventsOf(kept))
    BY <2>2 DEF cutoff
  <2>5. LinesOf(file) = file /\ LinesOf(kept) = kept
    BY <2>2, <2>3, NoFileIsNoLog DEF LinesOf
  <2>6. PICK i \in 1 .. Len(file) : e = file[i].event
    <3>1. EventsOf(file) = [i \in DOMAIN file |-> file[i].event]
      BY <2>5 DEF EventsOf
    <3> QED
      BY <2>2, <2>4, <3>1 DEF Range
  <2>7. file[i].event >= cutoff
    <3>1. file[i] \in Line
      BY <2>2
    <3> QED
      BY <2>2, <2>4, <2>6, <3>1 DEF Line, Event
  <2>8. PICK n \in 1 .. Len(kept) : kept[n] = file[i]
    BY <2>2, <2>7, YoungerType
  <2>9. EventsOf(kept) = [j \in DOMAIN kept |-> kept[j].event] /\ n \in DOMAIN kept
    BY <2>3, <2>5 DEF EventsOf
  <2> QED
    BY <2>6, <2>8, <2>9 DEF Range
<1>4. TypeInv /\ KeptInv /\ [Next]_vars
        => [\A t \in Thread :
              pc[t] = "rewrite" /\ pc'[t] = "idle" /\ restarts' = restarts
                /\ "overlapped" \notin upsets
                => \A e \in Range(EventsOf(file)) \ Range(EventsOf(file')) :
                     e < local[t].cutoff]_vars
  BY <1>3
<1> QED
  BY <1>1, <1>2, <1>4, TypesHold, PTL DEF Spec, RecentKept

===============================================================================
