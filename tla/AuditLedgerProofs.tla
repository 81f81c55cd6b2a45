------------------------- MODULE AuditLedgerProofs -------------------------
(***************************************************************************)
(* What is always true of the audit ledger: the lines stay in the order of *)
(* their events, a link breaks only next to a failure, damage costs no     *)
(* more events than it leaves damaged lines, an unharmed file passes       *)
(* verification, and the checkpoints cover the work of the process.        *)
(***************************************************************************)
EXTENDS AuditLedger, TLAPS, FiniteSetTheorems, SequenceTheorems

\* Appending: between the head of append() and its return.
Busy == pc \in {"hashed", "written", "counted"}
Written == pc \in {"written", "counted"}

\* An event's line: it links to an earlier event, or to none.
EventLine(line) == IsEvent(line) /\ 0 <= line.prev /\ line.prev < line.hash

\* The end of the chain in the file, as a restart finds it when the line is intact.
Before == IF file = <<>> THEN EmptyHash ELSE Last(file).hash
Damaged == file # <<>> /\ ~IsEvent(Last(file))

\* A line that names p may be written now.
MayLink(p) == Damaged \/ p = Before \/ (p > Before /\ p \notin acknowledged \cup Readable)

\* Events are numbered in the order of their append(), and the one at hand is the
\* newest of all.
OrderOK ==
    /\ \A i \in DOMAIN file : file[i] = Garbage \/ EventLine(file[i])
    /\ ~terminated => file # <<>>
    /\ Busy => EventLine(event) /\ event.hash = events /\ last_hash = events
    /\ Busy => \A a \in acknowledged : a < events
    /\ pc = "hashed" => \A h \in Readable : h < events
    /\ Written => terminated /\ file # <<>> /\ (Last(file) = event \/ Damaged)

\* The link the next line will carry is one that may be written.
LinkOK ==
    /\ BreaksOnlyAtFailures
    /\ pc = "idle" => MayLink(last_hash)
    /\ pc = "hashed" => MayLink(event.prev)

\* As long as nothing has failed, the chain is whole, in the file and in memory.
Whole ==
    ~torn =>
      /\ terminated
      /\ \A i \in DOMAIN file :
           /\ IsEvent(file[i])
           /\ file[i].prev = IF i = 1 THEN EmptyHash ELSE file[i - 1].hash
      /\ pc = "idle" => last_hash = Before
      /\ pc = "hashed" => event.prev = Before
      /\ Written => ~Damaged

\* A damaged last line that has cost no acknowledged event yet: what is written
\* onto it, or has just been, is lost.
Owed == Damaged /\ (~terminated \/ Written)

LossOK ==
    /\ ~terminated => Last(file).hash \notin acknowledged
    /\ Cardinality(acknowledged \ Readable) + (IF Owed THEN 1 ELSE 0)
         <= Cardinality(GarbageLines)

\* Every event counted since the last checkpoint has its leaf.
CheckpointsOK ==
    /\ CheckpointsCoverAll
    /\ Len(leaves) >= events_since_checkpoint + (IF pc \in {"hashed", "written"} THEN 1 ELSE 0)
    /\ pc = "down" => leaves = <<>> /\ checkpoints = <<>>

LedgerInv == LedgerTypeOK /\ OrderOK /\ LinkOK /\ Whole /\ LossOK /\ CheckpointsOK

----------------------------------------------------------------------------
\* Text put into the file changes its last line only: a new one that is the text,
\* or the damaged rest of the line before.
LEMMA TextAppended ==
    ASSUME LedgerTypeOK, OrderOK, NEW line \in LineType, AppendText(line)
    PROVE  \E n \in Nat \ {0} :
             /\ n = Len(file') /\ n = IF terminated THEN Len(file) + 1 ELSE Len(file)
             /\ file' \in Seq(LineType) /\ file' # <<>> /\ DOMAIN file' = 1..n
             /\ \A i \in 1..(n - 1) : i \in DOMAIN file /\ file'[i] = file[i]
             /\ file'[n] = IF terminated THEN line ELSE Garbage
             /\ Last(file') = file'[n]
<1>1. CASE terminated
  <2>1. file' = Append(file, line)
    BY <1>1 DEF AppendText
  <2> QED BY <1>1, <2>1, AppendProperties DEF LedgerTypeOK, Last
<1>2. CASE ~terminated
  <2>1. file \in Seq(LineType) /\ file # <<>> /\ Len(file) \in Nat \ {0}
    BY <1>2, EmptySeq DEF LedgerTypeOK, OrderOK
  <2>2. /\ Front(file) \in Seq(LineType) /\ Len(Front(file)) = Len(file) - 1
        /\ \A i \in 1..(Len(file) - 1) : Front(file)[i] = file[i]
    <3> DEFINE m == Len(file) - 1
    <3>1. m \in Nat /\ Front(file) = SubSeq(file, 1, m)
      BY <2>1 DEF Front
    <3>2. \A i \in 1..m : file[i] \in LineType
      BY <2>1, <3>1, ElementOfSeq
    <3> HIDE DEF m
    <3>3. /\ SubSeq(file, 1, m) \in Seq(LineType)
          /\ Len(SubSeq(file, 1, m)) = IF 1 <= m THEN m - 1 + 1 ELSE 0
          /\ \A i \in 1..(m - 1 + 1) : SubSeq(file, 1, m)[i] = file[1 + i - 1]
      BY <3>1, <3>2, SubSeqProperties
    <3>4. Len(Front(file)) = m /\ \A i \in 1..m : Front(file)[i] = file[i]
      BY <3>1, <3>3
    <3> QED BY <3>1, <3>3, <3>4 DEF m
  <2>3. file' = Append(Front(file), Garbage)
    BY <1>2 DEF AppendText
  <2>4. Garbage \in LineType
    BY DEF Garbage, Line, LineType, LedgerTypeOK
  <2> QED BY <1>2, <2>1, <2>2, <2>3, <2>4, AppendProperties DEF Last
<1> QED BY <1>1, <1>2

\* A line an event could stand in is one or the other.
LEMMA LinesApart ==
    ASSUME NEW line
    PROVE  /\ EventLine(line) => line # Garbage
           /\ ~IsEvent(line) <=> line = Garbage
BY DEF EventLine, IsEvent

\* The same text, in terms of what the file then holds.
LEMMA FileAppended ==
    ASSUME LedgerTypeOK, OrderOK, NEW line \in LineType, AppendText(line)
    PROVE  /\ GarbageLines' \in {GarbageLines, GarbageLines \cup {Len(file')}}
           /\ Last(file') = Garbage => GarbageLines' = GarbageLines \cup {Len(file')}
           /\ Readable' \subseteq Readable \cup {line.hash}
           /\ Last(file') # Garbage => Readable' = Readable \cup {line.hash}
           /\ terminated => Readable \subseteq Readable'
           /\ ~terminated => /\ Readable' \subseteq Readable
                             /\ Readable \subseteq Readable' \cup {Last(file).hash}
                             /\ Damaged => Readable' = Readable /\ Len(file') \in GarbageLines
                             /\ ~Damaged => Len(file') \notin GarbageLines
           /\ Last(file') \in {line, Garbage}
           /\ terminated => Last(file') = line /\ Len(file') \notin GarbageLines
<1>1. PICK n \in Nat \ {0} :
        /\ n = Len(file') /\ n = IF terminated THEN Len(file) + 1 ELSE Len(file)
        /\ file' \in Seq(LineType) /\ file' # <<>> /\ DOMAIN file' = 1..n
        /\ \A i \in 1..(n - 1) : i \in DOMAIN file /\ file'[i] = file[i]
        /\ file'[n] = IF terminated THEN line ELSE Garbage
        /\ Last(file') = file'[n]
  BY TextAppended
<1>2. /\ DOMAIN file = 1..Len(file) /\ Len(file) \in Nat
      /\ ~terminated => file # <<>> /\ Last(file) = file[n] /\ n \in DOMAIN file
      /\ terminated => n = Len(file) + 1
  BY <1>1, LenProperties, EmptySeq DEF LedgerTypeOK, OrderOK, Last
<1>3. \A i \in DOMAIN file' : i = n \/ i \in 1..(n - 1)
  BY <1>1
<1>4. \A i \in DOMAIN file : i = n \/ i \in 1..(n - 1)
  <2>1. CASE terminated
    BY <1>2, <2>1
  <2>2. CASE ~terminated
    BY <1>1, <1>2, <2>2
  <2> QED BY <2>1, <2>2
<1>5. /\ GarbageLines' \in {GarbageLines, GarbageLines \cup {n}}
      /\ Last(file') = Garbage => GarbageLines' = GarbageLines \cup {n}
      /\ terminated => n \notin GarbageLines
      /\ ~terminated => (Damaged <=> n \in GarbageLines)
  <2>1. \A i \in 1..(n - 1) : i \in GarbageLines' <=> i \in GarbageLines
    BY <1>1 DEF GarbageLines, IsEvent
  <2>2. n \in GarbageLines' <=> Last(file') = Garbage
    BY <1>1 DEF GarbageLines, IsEvent
  <2>3. terminated => n \notin GarbageLines
    BY <1>2 DEF GarbageLines
  <2>4. ~terminated => (Damaged <=> n \in GarbageLines) /\ Last(file') = Garbage
    BY <1>1, <1>2 DEF GarbageLines, Damaged, IsEvent
  <2>5. GarbageLines \subseteq 1..(n - 1) \cup {n} /\ GarbageLines' \subseteq 1..(n - 1) \cup {n}
    BY <1>3, <1>4 DEF GarbageLines
  <2>6. n \in GarbageLines => n \in GarbageLines'
    BY <2>2, <2>3, <2>4
  <2>7. CASE n \in GarbageLines'
    <3>1. GarbageLines' = GarbageLines \cup {n}
      BY <2>1, <2>5, <2>7
    <3> QED BY <2>3, <2>4, <3>1
  <2>8. CASE n \notin GarbageLines'
    <3>1. GarbageLines' = GarbageLines
      <4>1. \A i : i \in GarbageLines' <=> i \in GarbageLines
        BY <2>1, <2>5, <2>6, <2>8
      <4> QED BY <4>1
    <3> QED BY <2>2, <2>3, <2>4, <2>8, <3>1
  <2> QED BY <2>7, <2>8
<1>6. \A i \in 1..(n - 1) :
        /\ IsEvent(file[i]) => file[i].hash \in Readable \cap Readable'
        /\ i \in DOMAIN file /\ i \in DOMAIN file' /\ file'[i] = file[i]
  BY <1>1 DEF Readable
<1>7. Readable' \subseteq Readable \cup {line.hash}
  BY <1>1, <1>3, <1>6 DEF Readable, IsEvent
<1>8. Last(file') # Garbage => line.hash \in Readable' /\ terminated
  BY <1>1 DEF Readable, IsEvent
<1>9. terminated => Readable \subseteq Readable'
  BY <1>1, <1>2, <1>4, <1>6 DEF Readable
<1>10. ~terminated => /\ Readable' \subseteq Readable
                      /\ Readable \subseteq Readable' \cup {Last(file).hash}
                      /\ Damaged => Readable \subseteq Readable'
  <2> SUFFICES ASSUME ~terminated
               PROVE  /\ Readable' \subseteq Readable
                      /\ Readable \subseteq Readable' \cup {Last(file).hash}
                      /\ Damaged => Readable \subseteq Readable'
    OBVIOUS
  <2>1. Readable' \subseteq Readable
    BY <1>1, <1>3, <1>6 DEF Readable, IsEvent
  <2>2. Readable \subseteq Readable' \cup {Last(file).hash}
    BY <1>2, <1>4, <1>6 DEF Readable
  <2>3. Damaged => Readable \subseteq Readable'
    BY <1>2, <1>4, <1>6 DEF Readable, Damaged
  <2> QED BY <2>1, <2>2, <2>3
<1> QED BY <1>1, <1>5, <1>7, <1>8, <1>9, <1>10

\* The acknowledged events that are not in the file are finitely many, and so are
\* the damaged lines.
LEMMA FiniteCounts ==
    ASSUME LedgerTypeOK
    PROVE  /\ IsFiniteSet(acknowledged) /\ IsFiniteSet(acknowledged \ Readable)
           /\ Cardinality(acknowledged \ Readable) \in Nat
           /\ IsFiniteSet(GarbageLines) /\ Cardinality(GarbageLines) \in Nat
<1>1. IsFiniteSet(1..events)
  BY FS_Interval DEF LedgerTypeOK
<1>2. IsFiniteSet(acknowledged)
  BY <1>1, FS_Subset DEF LedgerTypeOK
<1>3. IsFiniteSet(acknowledged \ Readable)
  BY <1>2, FS_Subset
<1>4. IsFiniteSet(DOMAIN file)
  BY FS_Interval, LenProperties DEF LedgerTypeOK
<1>5. IsFiniteSet(GarbageLines)
  BY <1>4, FS_Subset DEF GarbageLines
<1> QED BY <1>2, <1>3, <1>5, FS_CardinalityType

\* What a write leaves in the file, whether it was the whole line, some of it, or
\* the end of a line that was torn before: the order of events holds, every break
\* is next to its failure, and the damage done pays for the event that is lost.
LEMMA LineWritten ==
    ASSUME LedgerInv, pc = "hashed", NEW line \in {event, Garbage}, AppendText(line),
           events' = events, acknowledged' = acknowledged
    PROVE  /\ file' \in Seq(LineType)' /\ file' # <<>>
           /\ \A i \in DOMAIN file' : file'[i] = Garbage \/ EventLine(file'[i])
           /\ Last(file') \in {event, Garbage}
           /\ Last(file').hash \notin acknowledged'
           /\ BreaksOnlyAtFailures'
           /\ Cardinality(acknowledged' \ Readable')
                + (IF Last(file') = Garbage THEN 1 ELSE 0) <= Cardinality(GarbageLines')
           /\ Cardinality(acknowledged' \ Readable') \in Nat
           /\ Cardinality(GarbageLines') \in Nat
<1>1. /\ EventLine(event) /\ event.hash = events /\ event.prev \in Int /\ events \in Nat
      /\ line \in LineType /\ LineType' = LineType
      /\ \A a \in acknowledged : a < events /\ a \in 1..events
      /\ \A h \in Readable : h < events
      /\ Garbage.hash = -1 /\ Garbage.prev = -1
  BY DEF LedgerInv, OrderOK, Busy, LedgerTypeOK, LineType, Garbage, Line
<1>2. PICK n \in Nat \ {0} :
        /\ n = Len(file') /\ n = IF terminated THEN Len(file) + 1 ELSE Len(file)
        /\ file' \in Seq(LineType) /\ file' # <<>> /\ DOMAIN file' = 1..n
        /\ \A i \in 1..(n - 1) : i \in DOMAIN file /\ file'[i] = file[i]
        /\ file'[n] = IF terminated THEN line ELSE Garbage
        /\ Last(file') = file'[n]
  BY <1>1, TextAppended DEF LedgerInv
<1>3. Last(file') \in {event, Garbage}
  BY <1>2
<1>4. \A i \in DOMAIN file' : file'[i] = Garbage \/ EventLine(file'[i])
  <2>1. \A i \in 1..(n - 1) : file'[i] = Garbage \/ EventLine(file'[i])
    BY <1>2 DEF LedgerInv, OrderOK
  <2> QED BY <1>1, <1>2, <1>3, <2>1
<1>5. Last(file').hash \notin acknowledged'
  BY <1>1, <1>3
<1>6. BreaksOnlyAtFailures'
  <2> SUFFICES ASSUME NEW i \in 1..n, IsEvent(file'[i]),
                      file'[i].prev # (IF i = 1 THEN EmptyHash ELSE file'[i - 1].hash)
               PROVE  LET before == IF i = 1 THEN EmptyHash ELSE file'[i - 1].hash
                      IN \/ i > 1 /\ ~IsEvent(file'[i - 1])
                         \/ file'[i].prev > before
                              /\ file'[i].prev \notin acknowledged' \cup Readable'
    BY <1>2 DEF BreaksOnlyAtFailures
  <2>1. CASE i < n
    <3>1. i \in DOMAIN file /\ file'[i] = file[i] /\ (i > 1 => file'[i - 1] = file[i - 1])
      BY <1>2, <2>1
    <3>2. \/ i > 1 /\ ~IsEvent(file[i - 1])
          \/ /\ file[i].prev > (IF i = 1 THEN EmptyHash ELSE file[i - 1].hash)
             /\ file[i].prev \notin acknowledged \cup Readable
      BY <3>1 DEF LedgerInv, LinkOK, BreaksOnlyAtFailures
    <3>3. file[i].prev < file[i].hash /\ file[i].hash \in Readable /\ file[i].prev \in Int
          /\ file[i].hash \in Int
      <4>1. EventLine(file[i])
        BY <3>1 DEF LedgerInv, OrderOK, IsEvent
      <4>2. file[i] \in LineType
        BY <3>1, LenProperties DEF LedgerInv, LedgerTypeOK
      <4> QED BY <1>1, <3>1, <4>1, <4>2 DEF EventLine, Readable, LineType
    <3>4. file[i].prev # events /\ file[i].prev # -1
      <4>1. EventLine(file[i])
        BY <3>1 DEF LedgerInv, OrderOK, IsEvent
      <4> QED BY <1>1, <3>3, <4>1 DEF EventLine
    <3>5. Readable' \subseteq Readable \cup {events, -1}
      BY <1>1, FileAppended DEF LedgerInv
    <3> QED BY <3>1, <3>2, <3>4, <3>5
  <2>2. CASE i = n
    <3>1. terminated /\ file'[n] = event /\ n = Len(file) + 1
      BY <1>2, <1>3, <2>2 DEF IsEvent
    <3>2. /\ i = 1 <=> file = <<>>
          /\ i > 1 => Last(file) = file'[i - 1]
      <4>1. Len(file) \in Nat /\ (file = <<>> <=> Len(file) = 0)
        BY EmptySeq, LenProperties DEF LedgerInv, LedgerTypeOK
      <4> QED BY <1>2, <2>2, <3>1, <4>1 DEF Last
    <3>3. Before = IF i = 1 THEN EmptyHash ELSE file'[i - 1].hash
      BY <3>2 DEF Before
    <3>4. Damaged => i > 1 /\ ~IsEvent(file'[i - 1])
      BY <2>2, <3>2 DEF Damaged
    <3>5. MayLink(event.prev)
      BY DEF LedgerInv, LinkOK
    <3>6. Readable' \subseteq Readable \cup {events, -1} /\ event.prev # events /\ event.prev # -1
      <4>1. Readable' \subseteq Readable \cup {events, -1}
        BY <1>1, FileAppended DEF LedgerInv
      <4> QED BY <1>1, <4>1 DEF EventLine
    <3> QED BY <2>2, <3>1, <3>3, <3>4, <3>5, <3>6 DEF MayLink
  <2> QED BY <1>2, <2>1, <2>2
<1>7. Cardinality(acknowledged' \ Readable')
        + (IF Last(file') = Garbage THEN 1 ELSE 0) <= Cardinality(GarbageLines')
  <2> DEFINE lost == acknowledged \ Readable
  <2>1. /\ IsFiniteSet(lost) /\ Cardinality(lost) \in Nat
        /\ IsFiniteSet(GarbageLines) /\ Cardinality(GarbageLines) \in Nat
    BY FiniteCounts DEF LedgerInv
  <2>2. /\ IsFiniteSet(GarbageLines \cup {n})
        /\ Cardinality(GarbageLines \cup {n}) =
             IF n \in GarbageLines THEN Cardinality(GarbageLines) ELSE Cardinality(GarbageLines) + 1
    BY <2>1, FS_AddElement
  <2>3. Cardinality(lost) + (IF Owed THEN 1 ELSE 0) <= Cardinality(GarbageLines)
    BY DEF LedgerInv, LossOK
  <2>4. acknowledged' \ Readable' \subseteq lost
    <3>1. terminated => Readable \subseteq Readable'
      BY <1>1, FileAppended DEF LedgerInv
    <3>2. ~terminated => Readable \subseteq Readable' \cup {Last(file).hash}
      BY <1>1, FileAppended DEF LedgerInv
    <3>3. ~terminated => Last(file).hash \notin acknowledged
      BY DEF LedgerInv, LossOK
    <3> QED BY <3>1, <3>2, <3>3
  <2>5. Cardinality(acknowledged' \ Readable') \in Nat
        /\ Cardinality(acknowledged' \ Readable') <= Cardinality(lost)
    <3>1. IsFiniteSet(acknowledged' \ Readable')
          /\ Cardinality(acknowledged' \ Readable') <= Cardinality(lost)
      BY <2>1, <2>4, FS_Subset
    <3> QED BY <3>1, FS_CardinalityType
  <2>6. CASE Last(file') # Garbage
    <3>1. GarbageLines' = GarbageLines \/ GarbageLines' = GarbageLines \cup {n}
      BY <1>1, <1>2, FileAppended DEF LedgerInv
    <3>2. Cardinality(GarbageLines') \in Nat
          /\ Cardinality(GarbageLines') >= Cardinality(GarbageLines)
      BY <2>1, <2>2, <3>1
    <3> QED BY <2>1, <2>3, <2>5, <2>6, <3>2
  <2>7. CASE Last(file') = Garbage
    <3>1. GarbageLines' = GarbageLines \cup {n}
      BY <1>1, <1>2, <2>7, FileAppended DEF LedgerInv
    <3>2. n \notin GarbageLines \/ Owed
      <4>1. terminated \/ ~Damaged => n \notin GarbageLines
        BY <1>1, <1>2, FileAppended DEF LedgerInv
      <4> QED BY <4>1 DEF Owed
    <3> QED BY <2>1, <2>2, <2>3, <2>5, <2>7, <3>1, <3>2
  <2> QED BY <2>6, <2>7
<1>8. /\ Cardinality(acknowledged' \ Readable') \in Nat
      /\ Cardinality(GarbageLines') \in Nat
  <2>1. IsFiniteSet(acknowledged' \ Readable')
    BY FiniteCounts, FS_Subset DEF LedgerInv
  <2>2. IsFiniteSet(1..n)
    BY FS_Interval
  <2>3. IsFiniteSet(GarbageLines')
    BY <1>2, <2>2, FS_Subset DEF GarbageLines
  <2> QED BY <2>1, <2>3, FS_CardinalityType
<1> QED BY <1>1, <1>2, <1>3, <1>4, <1>5, <1>6, <1>7, <1>8

----------------------------------------------------------------------------
\* The invariant holds of an empty file without a process.
LEMMA InitInv == LedgerInit => LedgerInv
<1> SUFFICES ASSUME LedgerInit PROVE LedgerInv
  OBVIOUS
<1>1. DOMAIN file = {} /\ file = <<>>
  BY EmptySeq DEF LedgerInit
<1>2. LedgerTypeOK
  <2>1. file \in Seq(LineType) /\ leaves \in Seq(1..events) /\ checkpoints \in Seq(Seq(1..events))
    BY EmptySeq DEF LedgerInit
  <2>2. event \in LineType
    BY DEF LedgerInit, LineType, Garbage, Line
  <2>3. events \in 0..MaxEvents /\ events_since_checkpoint \in 0..(CheckpointInterval - 1)
    BY IntervalAssumption DEF LedgerInit
  <2>4. last_hash \in 0..events /\ inherited \in 0..events /\ acknowledged \subseteq 1..events
    BY DEF LedgerInit, EmptyHash
  <2> QED BY <2>1, <2>2, <2>3, <2>4 DEF LedgerInit, LedgerTypeOK
<1>3. OrderOK /\ LinkOK /\ Whole
  BY <1>1 DEF LedgerInit, OrderOK, Busy, Written, LinkOK, BreaksOnlyAtFailures, Whole
<1>4. LossOK
  <2>1. acknowledged \ Readable = {} /\ GarbageLines = {} /\ ~Owed
    BY <1>1 DEF LedgerInit, GarbageLines, Owed, Damaged
  <2> QED BY <2>1, FS_EmptySet DEF LossOK, LedgerInit
<1>5. CheckpointsOK
  BY EmptySeq DEF LedgerInit, CheckpointsOK, CheckpointsCoverAll
<1> QED BY <1>2, <1>3, <1>4, <1>5 DEF LedgerInv

\* A restart resumes at the end of the chain, unless the last line is damaged.
LEMMA StartStep ==
    ASSUME LedgerInv, Start
    PROVE  LedgerInv'
<1>1. RecoveredHash \in 0..events /\ (Damaged \/ RecoveredHash = Before)
  <2>1. CASE file # <<>> /\ IsEvent(Last(file))
    <3>1. Len(file) \in DOMAIN file /\ Last(file) = file[Len(file)] /\ Last(file) \in LineType
      BY <2>1, EmptySeq, LenProperties DEF LedgerInv, LedgerTypeOK, Last
    <3>2. EventLine(Last(file))
      BY <2>1, <3>1 DEF LedgerInv, OrderOK, IsEvent
    <3> QED BY <2>1, <3>1, <3>2
          DEF RecoveredHash, Before, EventLine, LineType, LedgerInv, LedgerTypeOK
  <2>2. CASE ~(file # <<>> /\ IsEvent(Last(file)))
    BY <2>2 DEF RecoveredHash, Before, Damaged, EmptyHash, LedgerInv, LedgerTypeOK
  <2> QED BY <2>1, <2>2
<1>2. LedgerTypeOK'
  BY <1>1 DEF Start, LedgerInv, LedgerTypeOK, LineType
<1>3. OrderOK'
  BY DEF Start, LedgerInv, OrderOK, Busy, Written
<1>4. LinkOK'
  <2>1. MayLink(last_hash)'
    BY <1>1 DEF Start, MayLink, Damaged, Before, Readable
  <2> QED BY <2>1 DEF Start, LedgerInv, LinkOK, BreaksOnlyAtFailures, Readable
<1>5. Whole'
  <2>1. ~torn => ~Damaged
    <3>1. file # <<>> => Len(file) \in DOMAIN file /\ Last(file) = file[Len(file)]
      BY EmptySeq, LenProperties DEF LedgerInv, LedgerTypeOK, Last
    <3> QED BY <3>1 DEF LedgerInv, Whole, Damaged
  <2> QED BY <1>1, <2>1 DEF Start, LedgerInv, Whole, Written, Damaged, Before
<1>6. LossOK'
  BY DEF Start, LedgerInv, LossOK, Owed, Damaged, Written, Readable, GarbageLines
<1>7. CheckpointsOK'
  <2>1. leaves = <<>> /\ checkpoints = <<>> /\ leaves' = <<>> /\ checkpoints' = <<>>
    BY DEF Start, LedgerInv, CheckpointsOK
  <2>2. Batches' = << <<>> >>
    BY <2>1 DEF Batches
  <2>3. LastCovered' = events'
    BY <2>1 DEF Start, LastCovered
  <2> QED BY <2>1, <2>2, <2>3, EmptySeq
        DEF Start, LedgerInv, CheckpointsOK, CheckpointsCoverAll
<1> QED BY <1>2, <1>3, <1>4, <1>5, <1>6, <1>7 DEF LedgerInv

\* The new event is newer than all others, and its leaf follows them.
LEMMA HashEventStep ==
    ASSUME LedgerInv, HashEvent
    PROVE  LedgerInv'
<1>1. /\ events \in Nat /\ events' = events + 1 /\ last_hash \in 0..events
      /\ event' = Line(last_hash, events + 1) /\ event'.prev = last_hash
      /\ event'.hash = events + 1 /\ last_hash' = events + 1
      /\ leaves' = Append(leaves, events + 1)
      /\ 1..events \subseteq 1..events' /\ LineType \subseteq LineType'
  BY DEF HashEvent, Line, LedgerInv, LedgerTypeOK, LineType
<1>2. LedgerTypeOK'
  <2>1. file' \in Seq(LineType)'
    BY <1>1, SeqMonotonic DEF HashEvent, LedgerInv, LedgerTypeOK
  <2>2. leaves' \in Seq(1..events)'
    <3>1. leaves \in Seq(1..events')
      BY <1>1, SeqMonotonic DEF LedgerInv, LedgerTypeOK
    <3> QED BY <1>1, <3>1, AppendProperties
  <2>3. checkpoints' \in Seq(Seq(1..events))'
    <3>1. Seq(1..events) \subseteq Seq(1..events')
      BY <1>1, SeqMonotonic
    <3> QED BY <3>1, SeqMonotonic DEF HashEvent, LedgerInv, LedgerTypeOK
  <2>4. event' \in LineType'
    BY <1>1 DEF Line, LineType
  <2> QED BY <1>1, <2>1, <2>2, <2>3, <2>4, IntervalAssumption
        DEF HashEvent, LedgerInv, LedgerTypeOK
<1>3. OrderOK'
  <2>1. EventLine(event')
    BY <1>1 DEF EventLine, IsEvent, Garbage, Line
  <2>2. \A h \in Readable : h < events'
    <3> SUFFICES ASSUME NEW i \in DOMAIN file, IsEvent(file[i])
                 PROVE  file[i].hash < events'
      BY DEF Readable
    <3>1. file[i] \in LineType
      BY LenProperties DEF LedgerInv, LedgerTypeOK
    <3> QED BY <1>1, <3>1 DEF LineType
  <2>3. Readable' = Readable
    BY DEF HashEvent, Readable
  <2> QED BY <1>1, <2>1, <2>2, <2>3
        DEF HashEvent, LedgerInv, LedgerTypeOK, OrderOK, Busy, Written
<1>4. LinkOK'
  <2>1. MayLink(event.prev)'
    BY <1>1 DEF HashEvent, LedgerInv, LinkOK, MayLink, Damaged, Before, Readable
  <2> QED BY <2>1 DEF HashEvent, LedgerInv, LinkOK, BreaksOnlyAtFailures, Readable
<1>5. Whole'
  BY <1>1 DEF HashEvent, LedgerInv, Whole, Written, Before
<1>6. LossOK'
  BY DEF HashEvent, LedgerInv, LossOK, Owed, Damaged, Written, Readable, GarbageLines
<1>7. CheckpointsOK'
  <2> DEFINE K == Len(checkpoints) + 1
  <2>1. /\ K \in Nat \ {0} /\ checkpoints' = checkpoints /\ inherited' = inherited
        /\ DOMAIN checkpoints = 1..(K - 1)
        /\ (checkpoints = <<>> <=> K = 1) /\ (K > 1 => Last(checkpoints) = checkpoints[K - 1])
    BY EmptySeq, LenProperties DEF HashEvent, LedgerInv, LedgerTypeOK, Last
  <2>2. /\ DOMAIN Batches = 1..K /\ Batches[K] = leaves
        /\ \A k \in 1..(K - 1) : Batches[k] = checkpoints[k]
    <3>1. Batches \in Seq(Seq(1..events)) /\ Len(Batches) = K
      BY AppendProperties DEF Batches, LedgerInv, LedgerTypeOK
    <3> QED BY <3>1, AppendProperties, LenProperties DEF Batches, LedgerInv, LedgerTypeOK
  <2>3. /\ DOMAIN Batches' = 1..K /\ Batches'[K] = leaves'
        /\ \A k \in 1..(K - 1) : Batches'[k] = checkpoints[k]
    <3>1. Batches' \in Seq(Seq(1..events')) /\ Len(Batches') = K
      BY <1>2, <2>1, AppendProperties DEF Batches, LedgerTypeOK
    <3> QED BY <1>2, <2>1, <3>1, AppendProperties, LenProperties DEF Batches, LedgerTypeOK
  <2> HIDE DEF K
  <2>4. /\ Len(leaves) \in Nat /\ DOMAIN leaves = 1..Len(leaves)
        /\ DOMAIN leaves' = 1..(Len(leaves) + 1) /\ Len(leaves') = Len(leaves) + 1
        /\ leaves'[Len(leaves) + 1] = events + 1
        /\ \A j \in 1..Len(leaves) : leaves'[j] = leaves[j]
        /\ (leaves = <<>> <=> Len(leaves) = 0) /\ leaves' # <<>>
    <3>1. leaves \in Seq(Nat) /\ events + 1 \in Nat
      BY <1>1, SeqMonotonic DEF LedgerInv, LedgerTypeOK
    <3> QED BY <1>1, <3>1, AppendProperties, LenProperties, EmptySeq
  <2>5. CheckpointsCoverAll /\ pc = "idle" /\ pc' = "hashed"
    BY DEF LedgerInv, CheckpointsOK, HashEvent
  <2>6. ASSUME NEW k \in 1..K, NEW j \in DOMAIN Batches'[k]
        PROVE  Batches'[k][j] = Preceding(k, j)' + 1
    <3>1. CASE k < K
      <4>1. Batches'[k] = Batches[k] /\ (k > 1 => Batches'[k - 1] = Batches[k - 1])
        BY <2>1, <2>2, <2>3, <3>1
      <4>2. Batches[k][j] = Preceding(k, j) + 1
        BY <2>2, <2>5, <2>6, <4>1 DEF CheckpointsCoverAll
      <4> QED BY <2>1, <4>1, <4>2 DEF Preceding
    <3>2. CASE k = K /\ j # Len(leaves) + 1
      <4>1. /\ j \in 1..Len(leaves) /\ Batches'[K][j] = leaves[j]
            /\ (j > 1 => Batches'[K][j - 1] = leaves[j - 1])
            /\ (K > 1 => Batches'[K - 1] = Batches[K - 1])
        BY <2>1, <2>2, <2>3, <2>4, <3>2
      <4>2. Batches[K][j] = Preceding(K, j) + 1
        BY <2>1, <2>2, <2>4, <2>5, <4>1 DEF CheckpointsCoverAll
      <4> QED BY <2>1, <2>2, <3>2, <4>1, <4>2 DEF Preceding
    <3>3. CASE k = K /\ j = Len(leaves) + 1
      <4>1. Batches'[k][j] = events + 1
        BY <2>3, <2>4, <3>3
      <4>2. CASE leaves # <<>>
        BY <2>3, <2>4, <2>5, <3>3, <4>1, <4>2
           DEF Preceding, CheckpointsCoverAll, LastCovered, Last
      <4>3. CASE leaves = <<>> /\ checkpoints # <<>>
        BY <2>1, <2>3, <2>4, <2>5, <3>3, <4>1, <4>3
           DEF Preceding, CheckpointsCoverAll, LastCovered
      <4>4. CASE leaves = <<>> /\ checkpoints = <<>>
        BY <2>1, <2>3, <2>4, <2>5, <3>3, <4>1, <4>4
           DEF Preceding, CheckpointsCoverAll, LastCovered
      <4> QED BY <4>2, <4>3, <4>4
    <3> QED BY <2>1, <2>3, <2>4, <2>6, <3>1, <3>2, <3>3
  <2>7. LastCovered' = events'
    BY <1>1, <2>4 DEF LastCovered, Last
  <2>8. CheckpointsCoverAll'
    BY <2>1, <2>3, <2>5, <2>6, <2>7 DEF CheckpointsCoverAll
  <2> QED BY <2>4, <2>5, <2>8 DEF LedgerInv, LedgerTypeOK, CheckpointsOK, HashEvent
<1> QED BY <1>2, <1>3, <1>4, <1>5, <1>6, <1>7 DEF LedgerInv

\* A step of a process that leaves leaves and checkpoints alone.
LEMMA CheckpointsKept ==
    ASSUME LedgerTypeOK, CheckpointsOK, pc # "down", pc' # "down",
           pc' \in {"hashed", "written"} => pc \in {"hashed", "written"},
           UNCHANGED <<leaves, events_since_checkpoint, checkpoints, events, inherited>>
    PROVE  CheckpointsOK'
<1>1. CheckpointsCoverAll
  BY DEF CheckpointsOK
<1>2. Batches' = Batches /\ LastCovered' = LastCovered
  BY DEF Batches, LastCovered
<1>3. \A k, j : Preceding(k, j)' = Preceding(k, j)
  BY <1>2 DEF Preceding
<1>4. CheckpointsCoverAll'
  BY <1>1, <1>2, <1>3 DEF CheckpointsCoverAll
<1>5. Len(leaves) \in Nat /\ events_since_checkpoint \in Int
  BY LenProperties, IntervalAssumption DEF LedgerTypeOK
<1> QED BY <1>4, <1>5 DEF CheckpointsOK

\* The line is in the file, alone or on what was left of the one before.
LEMMA WriteLineStep ==
    ASSUME LedgerInv, WriteLine
    PROVE  LedgerInv'
<1>1. /\ pc = "hashed" /\ pc' = "written" /\ AppendText(event) /\ terminated' = TRUE
      /\ events' = events /\ acknowledged' = acknowledged
      /\ UNCHANGED <<event, last_hash, leaves, events_since_checkpoint, checkpoints, torn,
                     inherited>>
  BY DEF WriteLine
<1>2. /\ file' \in Seq(LineType)' /\ file' # <<>>
      /\ \A i \in DOMAIN file' : file'[i] = Garbage \/ EventLine(file'[i])
      /\ Last(file') \in {event, Garbage}
      /\ BreaksOnlyAtFailures'
      /\ Cardinality(acknowledged' \ Readable')
           + (IF Last(file') = Garbage THEN 1 ELSE 0) <= Cardinality(GarbageLines')
      /\ Cardinality(acknowledged' \ Readable') \in Nat /\ Cardinality(GarbageLines') \in Nat
  BY <1>1, LineWritten
<1>3. LedgerTypeOK'
  BY <1>1, <1>2 DEF LedgerInv, LedgerTypeOK, LineType
<1>4. OrderOK'
  BY <1>1, <1>2 DEF LedgerInv, OrderOK, Busy, Written, Damaged, IsEvent
<1>5. LinkOK'
  BY <1>1, <1>2 DEF LinkOK
<1>6. Whole'
  <2> SUFFICES ASSUME ~torn, NEW i \in DOMAIN file'
               PROVE  /\ IsEvent(file'[i])
                      /\ file'[i].prev = IF i = 1 THEN EmptyHash ELSE file'[i - 1].hash
                      /\ Last(file') # Garbage
    BY <1>1, <1>2 DEF Whole, Damaged, Written, IsEvent
  <2>1. PICK n \in Nat \ {0} :
          /\ n = Len(file') /\ n = IF terminated THEN Len(file) + 1 ELSE Len(file)
          /\ file' \in Seq(LineType) /\ file' # <<>> /\ DOMAIN file' = 1..n
          /\ \A j \in 1..(n - 1) : j \in DOMAIN file /\ file'[j] = file[j]
          /\ file'[n] = IF terminated THEN event ELSE Garbage
          /\ Last(file') = file'[n]
    BY <1>1, TextAppended DEF LedgerInv, LedgerTypeOK
  <2>2. /\ terminated /\ n = Len(file) + 1 /\ file'[n] = event
        /\ event.prev = Before /\ IsEvent(event)
    BY <1>1, <2>1 DEF LedgerInv, Whole, OrderOK, Busy, EventLine
  <2>3. CASE i < n
    <3>1. i \in DOMAIN file /\ file'[i] = file[i] /\ (i > 1 => file'[i - 1] = file[i - 1])
      BY <2>1, <2>3
    <3> QED BY <2>1, <2>2, <3>1 DEF LedgerInv, Whole, IsEvent
  <2>4. CASE i = n
    <3>1. Len(file) \in Nat /\ (file = <<>> <=> Len(file) = 0)
      BY EmptySeq, LenProperties DEF LedgerInv, LedgerTypeOK
    <3>2. Before = IF i = 1 THEN EmptyHash ELSE file'[i - 1].hash
      BY <2>1, <2>2, <2>4, <3>1 DEF Before, Last
    <3> QED BY <2>1, <2>2, <2>4, <3>2 DEF IsEvent
  <2> QED BY <2>1, <2>3, <2>4
<1>7. LossOK'
  <2>1. Owed' => Last(file') = Garbage
    BY DEF Owed, Damaged, IsEvent
  <2> QED BY <1>1, <1>2, <2>1 DEF LossOK
<1>8. CheckpointsOK'
  BY <1>1, CheckpointsKept DEF LedgerInv
<1> QED BY <1>3, <1>4, <1>5, <1>6, <1>7, <1>8 DEF LedgerInv

\* An append that has come to nothing, by an exception or by the end of the process,
\* and may have left part of its line in the file.
LEMMA AppendAbandoned ==
    ASSUME LedgerInv, pc = "hashed", pc' \in {"idle", "down"}, torn' = TRUE,
           TearLine \/ UNCHANGED <<file, terminated>>,
           events' = events, acknowledged' = acknowledged, LineType' = LineType,
           pc' = "idle" => last_hash' = last_hash
    PROVE  /\ file' \in Seq(LineType)' /\ terminated' \in BOOLEAN
           /\ OrderOK' /\ LinkOK' /\ Whole' /\ LossOK'
<1>1. CASE TearLine
  <2>1. PICK line \in {event, Garbage} : AppendText(line) /\ terminated' = FALSE
    BY <1>1 DEF TearLine
  <2>2. /\ file' \in Seq(LineType)' /\ file' # <<>>
        /\ \A i \in DOMAIN file' : file'[i] = Garbage \/ EventLine(file'[i])
        /\ Last(file') \in {event, Garbage} /\ Last(file').hash \notin acknowledged'
        /\ BreaksOnlyAtFailures'
        /\ Cardinality(acknowledged' \ Readable')
             + (IF Last(file') = Garbage THEN 1 ELSE 0) <= Cardinality(GarbageLines')
        /\ Cardinality(acknowledged' \ Readable') \in Nat /\ Cardinality(GarbageLines') \in Nat
    BY <2>1, LineWritten
  <2>3. OrderOK'
    BY <2>2 DEF OrderOK, Busy, Written
  <2>4. LinkOK'
    <3>1. pc' = "idle" => last_hash' = Before' \/ Damaged'
      BY <2>2 DEF LedgerInv, OrderOK, Busy, Before, Damaged, IsEvent
    <3> QED BY <2>2, <3>1 DEF LinkOK, MayLink
  <2>5. LossOK'
    <3>1. Owed' => Last(file') = Garbage
      BY DEF Owed, Damaged, IsEvent
    <3> QED BY <2>2, <3>1 DEF LossOK
  <2> QED BY <2>1, <2>2, <2>3, <2>4, <2>5 DEF Whole
<1>2. CASE UNCHANGED <<file, terminated>>
  <2>1. OrderOK'
    BY <1>2 DEF LedgerInv, OrderOK, Busy, Written
  <2>2. LinkOK'
    <3>1. pc' = "idle" => MayLink(last_hash)'
      <4> SUFFICES ASSUME pc' = "idle", ~Damaged
                   PROVE  last_hash > Before /\ last_hash \notin acknowledged \cup Readable
        BY <1>2 DEF MayLink, Damaged, Before, Readable
      <4>1. /\ last_hash = events /\ event.prev < events
            /\ \A a \in acknowledged : a < events
            /\ \A h \in Readable : h < events
        BY DEF LedgerInv, OrderOK, Busy, EventLine
      <4>2. event.prev = Before \/ event.prev > Before
        BY DEF LedgerInv, LinkOK, MayLink
      <4>3. Before \in Int /\ event.prev \in Int /\ events \in Nat
        <5>1. file # <<>> => Last(file) \in LineType
          BY EmptySeq, LenProperties DEF LedgerInv, LedgerTypeOK, Last
        <5> QED BY <5>1 DEF Before, EmptyHash, LineType, LedgerInv, LedgerTypeOK
      <4> QED BY <4>1, <4>2, <4>3
    <3> QED BY <1>2, <3>1 DEF LedgerInv, LinkOK, BreaksOnlyAtFailures, Readable
  <2>3. LossOK'
    BY <1>2 DEF LedgerInv, LossOK, Owed, Damaged, Written, Readable, GarbageLines
  <2> QED BY <1>2, <2>1, <2>2, <2>3 DEF Whole, LedgerInv, LedgerTypeOK
<1> QED BY <1>1, <1>2

\* The write raises: the process lives on with the chain it has in memory.
LEMMA WriteFailsStep ==
    ASSUME LedgerInv, WriteFails
    PROVE  LedgerInv'
<1>1. /\ pc = "hashed" /\ pc' = "idle" /\ torn' = TRUE
      /\ TearLine \/ UNCHANGED <<file, terminated>>
      /\ UNCHANGED <<event, last_hash, leaves, events_since_checkpoint, checkpoints,
                     events, acknowledged, inherited>>
      /\ LineType' = LineType
  BY DEF WriteFails, LineType
<1>2. /\ file' \in Seq(LineType)' /\ terminated' \in BOOLEAN
      /\ OrderOK' /\ LinkOK' /\ Whole' /\ LossOK'
  BY <1>1, AppendAbandoned
<1>3. LedgerTypeOK'
  BY <1>1, <1>2 DEF LedgerInv, LedgerTypeOK
<1>4. CheckpointsOK'
  BY <1>1, CheckpointsKept DEF LedgerInv
<1> QED BY <1>2, <1>3, <1>4 DEF LedgerInv

\* The event is counted, and a full interval ends in a checkpoint of all leaves.
LEMMA CountEventStep ==
    ASSUME LedgerInv, CountEvent
    PROVE  LedgerInv'
<1>1. /\ pc = "written" /\ pc' = "counted"
      /\ UNCHANGED <<file, terminated, event, last_hash, events, acknowledged, torn,
                     inherited>>
      /\ LineType' = LineType
  BY DEF CountEvent, LineType
<1>2. /\ events_since_checkpoint \in Nat /\ CheckpointInterval \in Nat \ {0}
      /\ events_since_checkpoint <= CheckpointInterval - 1
      /\ leaves \in Seq(1..events) /\ checkpoints \in Seq(Seq(1..events))
      /\ Len(leaves) \in Nat /\ Len(leaves) >= events_since_checkpoint + 1
      /\ leaves # <<>>
  <2>1. /\ events_since_checkpoint \in Nat /\ CheckpointInterval \in Nat \ {0}
        /\ events_since_checkpoint <= CheckpointInterval - 1
        /\ leaves \in Seq(1..events) /\ checkpoints \in Seq(Seq(1..events))
    BY IntervalAssumption DEF LedgerInv, LedgerTypeOK
  <2>2. Len(leaves) \in Nat /\ Len(leaves) >= events_since_checkpoint + 1
    BY <1>1, <2>1, LenProperties DEF LedgerInv, CheckpointsOK
  <2> QED BY <2>1, <2>2, EmptySeq
<1>3. LedgerTypeOK'
  <2>1. /\ leaves' \in Seq(1..events) /\ checkpoints' \in Seq(Seq(1..events))
        /\ events_since_checkpoint' \in 0..(CheckpointInterval - 1)
    <3>1. CASE events_since_checkpoint + 1 >= CheckpointInterval
      <4>1. /\ checkpoints' = Append(checkpoints, leaves) /\ leaves' = <<>>
            /\ events_since_checkpoint' = 0
        BY <3>1 DEF CountEvent
      <4>2. checkpoints' \in Seq(Seq(1..events))
        BY <1>2, <4>1, AppendProperties
      <4> QED BY <1>2, <4>1, <4>2, EmptySeq
    <3>2. CASE ~(events_since_checkpoint + 1 >= CheckpointInterval)
      BY <1>2, <3>2 DEF CountEvent
    <3> QED BY <3>1, <3>2
  <2> QED BY <1>1, <2>1 DEF LedgerInv, LedgerTypeOK
<1>4. OrderOK' /\ LinkOK' /\ Whole'
  BY <1>1 DEF LedgerInv, OrderOK, LinkOK, BreaksOnlyAtFailures, Whole, Busy, Written,
              Damaged, Before, Readable
<1>5. LossOK'
  BY <1>1 DEF LedgerInv, LossOK, Owed, Damaged, Written, Readable, GarbageLines
<1>6. CASE events_since_checkpoint + 1 >= CheckpointInterval
  <2> DEFINE K == Len(checkpoints) + 1
  <2>1. /\ checkpoints' = Batches /\ leaves' = <<>> /\ events_since_checkpoint' = 0
    BY <1>6 DEF CountEvent, Batches
  <2>2. /\ K \in Nat \ {0} /\ Batches \in Seq(Seq(1..events)) /\ DOMAIN Batches = 1..K
        /\ Len(Batches) = K /\ Batches # <<>> /\ Batches[K] = leaves
        /\ DOMAIN checkpoints = 1..(K - 1)
        /\ \A k \in 1..(K - 1) : Batches[k] = checkpoints[k]
    <3>1. Batches \in Seq(Seq(1..events)) /\ Len(Batches) = K /\ K \in Nat \ {0}
      BY <1>2, AppendProperties, LenProperties DEF Batches
    <3> QED BY <1>2, <3>1, AppendProperties, LenProperties DEF Batches
  <2> HIDE DEF K
  <2>3. /\ DOMAIN Batches' = 1..(K + 1) /\ Batches'[K + 1] = <<>>
        /\ \A k \in 1..K : Batches'[k] = Batches[k]
    <3>1. Batches' = Append(Batches, <<>>) /\ <<>> \in Seq(1..events)
      BY <2>1, EmptySeq DEF Batches
    <3>2. Append(Batches, <<>>) \in Seq(Seq(1..events)) /\ Len(Append(Batches, <<>>)) = K + 1
      BY <2>2, <3>1, AppendProperties
    <3> QED BY <2>2, <3>1, <3>2, AppendProperties, LenProperties
  <2>4. CheckpointsCoverAll
    BY DEF LedgerInv, CheckpointsOK
  <2>5. ASSUME NEW k \in 1..(K + 1), NEW j \in DOMAIN Batches'[k]
        PROVE  Batches'[k][j] = Preceding(k, j)' + 1
    <3>1. k # K + 1
      BY <2>3, <2>5, EmptySeq
    <3>2. k \in 1..K /\ Batches'[k] = Batches[k] /\ (k > 1 => Batches'[k - 1] = Batches[k - 1])
      BY <2>2, <2>3, <3>1
    <3>3. Batches[k][j] = Preceding(k, j) + 1
      BY <1>1, <2>2, <2>4, <2>5, <3>2 DEF CheckpointsCoverAll
    <3> QED BY <1>1, <3>2, <3>3 DEF Preceding
  <2>6. LastCovered' = events'
    <3>1. Last(leaves) = events
      BY <1>1, <1>2, <2>4 DEF CheckpointsCoverAll, LastCovered
    <3>2. Last(checkpoints') = leaves
      BY <2>1, <2>2 DEF Last
    <3> QED BY <1>1, <2>1, <2>2, <3>1, <3>2 DEF LastCovered
  <2>7. ASSUME NEW k \in DOMAIN checkpoints' PROVE Len(checkpoints'[k]) >= CheckpointInterval
    <3>1. CASE k = K
      BY <1>2, <1>6, <2>1, <2>2, <3>1
    <3>2. CASE k # K
      BY <1>1, <2>1, <2>2, <2>4, <2>7, <3>2 DEF CheckpointsCoverAll
    <3> QED BY <3>1, <3>2
  <2>8. CheckpointsCoverAll'
    BY <2>3, <2>5, <2>6, <2>7 DEF CheckpointsCoverAll
  <2>9. CheckpointsOK'
    BY <1>1, <2>1, <2>8, EmptySeq DEF CheckpointsOK
  <2> QED BY <1>3, <1>4, <1>5, <2>9 DEF LedgerInv
<1>7. CASE ~(events_since_checkpoint + 1 >= CheckpointInterval)
  <2>1. UNCHANGED <<leaves, checkpoints>> /\ events_since_checkpoint' = events_since_checkpoint + 1
    BY <1>7 DEF CountEvent
  <2>2. CheckpointsCoverAll'
    <3>1. CheckpointsCoverAll /\ Batches' = Batches /\ LastCovered' = LastCovered
      BY <1>1, <2>1 DEF LedgerInv, CheckpointsOK, Batches, LastCovered
    <3>2. \A k, j : Preceding(k, j)' = Preceding(k, j)
      BY <1>1, <3>1 DEF Preceding
    <3> QED BY <1>1, <2>1, <3>1, <3>2 DEF CheckpointsCoverAll
  <2>3. CheckpointsOK'
    BY <1>1, <1>2, <2>1, <2>2 DEF CheckpointsOK
  <2> QED BY <1>3, <1>4, <1>5, <2>3 DEF LedgerInv
<1> QED BY <1>6, <1>7

\* The event is acknowledged: if its line is damaged, the damage pays for it.
LEMMA ReturnStep ==
    ASSUME LedgerInv, Return
    PROVE  LedgerInv'
<1>1. /\ pc = "counted" /\ pc' = "idle" /\ acknowledged' = acknowledged \cup {event.hash}
      /\ UNCHANGED <<file, terminated, event, last_hash, leaves, events_since_checkpoint,
                     checkpoints, events, torn, inherited>>
      /\ LineType' = LineType /\ Readable' = Readable /\ GarbageLines' = GarbageLines
  BY DEF Return, LineType, Readable, GarbageLines
<1>2. /\ event.hash = events /\ last_hash = events /\ EventLine(event) /\ event.prev \in Int
      /\ terminated /\ file # <<>> /\ events \in Nat
      /\ Last(file) = event \/ Damaged
  BY <1>1 DEF LedgerInv, OrderOK, Busy, Written, LedgerTypeOK, LineType
<1>3. LedgerTypeOK'
  BY <1>1, <1>2 DEF LedgerInv, LedgerTypeOK, EventLine
<1>4. OrderOK'
  BY <1>1 DEF LedgerInv, OrderOK, Busy, Written
<1>5. LinkOK'
  <2>1. BreaksOnlyAtFailures'
    <3> SUFFICES ASSUME NEW i \in DOMAIN file, IsEvent(file[i]),
                        file[i].prev # (IF i = 1 THEN EmptyHash ELSE file[i - 1].hash)
                 PROVE  LET before == IF i = 1 THEN EmptyHash ELSE file[i - 1].hash
                        IN \/ i > 1 /\ ~IsEvent(file[i - 1])
                           \/ file[i].prev > before
                                /\ file[i].prev \notin acknowledged' \cup Readable
      BY <1>1 DEF BreaksOnlyAtFailures
    <3>1. EventLine(file[i]) /\ file[i] \in LineType
      BY LenProperties DEF LedgerInv, OrderOK, LedgerTypeOK, IsEvent
    <3>2. file[i].prev # events
      BY <1>2, <3>1 DEF EventLine, LineType
    <3> QED BY <1>1, <1>2, <3>2 DEF LedgerInv, LinkOK, BreaksOnlyAtFailures
  <2>2. MayLink(last_hash)'
    BY <1>1, <1>2 DEF MayLink, Damaged, Before
  <2> QED BY <1>1, <2>1, <2>2 DEF LinkOK
<1>6. Whole'
  BY <1>1, <1>2 DEF LedgerInv, Whole, Written, Before
<1>7. LossOK'
  <2> DEFINE lost == acknowledged \ Readable
  <2>1. /\ IsFiniteSet(lost) /\ Cardinality(lost) \in Nat /\ Cardinality(GarbageLines) \in Nat
        /\ Cardinality(lost) + (IF Owed THEN 1 ELSE 0) <= Cardinality(GarbageLines)
    BY FiniteCounts DEF LedgerInv, LossOK
  <2>2. terminated' /\ ~Owed'
    BY <1>1, <1>2 DEF Owed, Written
  <2>3. CASE Damaged
    <3>1. Owed
      BY <1>1, <2>3 DEF Owed, Written
    <3>2. /\ IsFiniteSet(lost \cup {event.hash})
          /\ Cardinality(lost \cup {event.hash}) <= Cardinality(lost) + 1
          /\ Cardinality(lost \cup {event.hash}) \in Nat
      <4> HIDE DEF lost
      <4>1. /\ IsFiniteSet(lost \cup {event.hash})
            /\ Cardinality(lost \cup {event.hash}) =
                 IF event.hash \in lost THEN Cardinality(lost) ELSE Cardinality(lost) + 1
        BY <2>1, FS_AddElement
      <4> QED BY <2>1, <4>1
    <3>3. acknowledged' \ Readable' \subseteq lost \cup {event.hash}
      BY <1>1
    <3>4. /\ Cardinality(acknowledged' \ Readable') <= Cardinality(lost \cup {event.hash})
          /\ Cardinality(acknowledged' \ Readable') \in Nat
      BY <3>2, <3>3, FS_Subset, FS_CardinalityType
    <3> QED BY <1>1, <2>1, <2>2, <3>1, <3>2, <3>4 DEF LossOK
  <2>4. CASE ~Damaged
    <3>1. event.hash \in Readable
      <4>1. Len(file) \in DOMAIN file /\ Last(file) = file[Len(file)]
        BY <1>2, EmptySeq, LenProperties DEF LedgerInv, LedgerTypeOK, Last
      <4> QED BY <1>2, <2>4, <4>1 DEF Readable, EventLine
    <3>2. acknowledged' \ Readable' = lost
      BY <1>1, <3>1
    <3> QED BY <1>1, <2>1, <2>2, <3>2 DEF LossOK
  <2> QED BY <2>3, <2>4
<1>8. CheckpointsOK'
  BY <1>1, CheckpointsKept DEF LedgerInv
<1> QED BY <1>3, <1>4, <1>5, <1>6, <1>7, <1>8 DEF LedgerInv

\* The process dies, at any point of an append.
LEMMA CrashStep ==
    ASSUME LedgerInv, Crash
    PROVE  LedgerInv'
<1>1. /\ pc' = "down" /\ event' = Garbage /\ last_hash' = EmptyHash /\ leaves' = <<>>
      /\ events_since_checkpoint' = 0 /\ checkpoints' = <<>>
      /\ UNCHANGED <<events, acknowledged, inherited>>
      /\ LineType' = LineType
  BY DEF Crash, LineType
<1>2. /\ file' \in Seq(LineType)' /\ terminated' \in BOOLEAN /\ torn' \in BOOLEAN
      /\ OrderOK' /\ LinkOK' /\ Whole' /\ LossOK'
  <2>1. CASE pc = "hashed" /\ TearLine /\ torn' = TRUE
    BY <1>1, <2>1, AppendAbandoned
  <2>2. CASE UNCHANGED <<file, terminated, torn>>
    <3>1. file' \in Seq(LineType)' /\ terminated' \in BOOLEAN /\ torn' \in BOOLEAN
      BY <1>1, <2>2 DEF LedgerInv, LedgerTypeOK
    <3>2. OrderOK' /\ LinkOK' /\ Whole'
      BY <1>1, <2>2 DEF LedgerInv, OrderOK, LinkOK, BreaksOnlyAtFailures, Whole, Busy, Written,
                        Readable
    <3>3. LossOK'
      <4>1. Owed' => Owed
        BY <1>1, <2>2 DEF Owed, Damaged, Written
      <4>2. Cardinality(acknowledged \ Readable) \in Nat /\ Cardinality(GarbageLines) \in Nat
        BY FiniteCounts DEF LedgerInv
      <4> QED BY <1>1, <2>2, <4>1, <4>2 DEF LedgerInv, LossOK, Readable, GarbageLines
    <3> QED BY <3>1, <3>2, <3>3
  <2> QED BY <2>1, <2>2 DEF Crash
<1>3. LedgerTypeOK'
  <2>1. event' \in LineType'
    BY <1>1 DEF Garbage, Line, LineType, LedgerInv, LedgerTypeOK
  <2>2. leaves' \in Seq(1..events') /\ checkpoints' \in Seq(Seq(1..events'))
    BY <1>1, EmptySeq
  <2>3. events_since_checkpoint' \in 0..(CheckpointInterval - 1) /\ last_hash' \in 0..events'
    BY <1>1, IntervalAssumption DEF EmptyHash, LedgerInv, LedgerTypeOK
  <2> QED BY <1>1, <1>2, <2>1, <2>2, <2>3 DEF LedgerInv, LedgerTypeOK
<1>4. CheckpointsOK'
  BY <1>1, EmptySeq DEF CheckpointsOK, CheckpointsCoverAll
<1> QED BY <1>2, <1>3, <1>4 DEF LedgerInv

\* Every step preserves the invariant.
LEMMA NextInv == LedgerInv /\ [LedgerNext]_vars => LedgerInv'
<1> SUFFICES ASSUME LedgerInv, [LedgerNext]_vars PROVE LedgerInv'
  OBVIOUS
<1>1. CASE UNCHANGED vars
  <2>1. LedgerTypeOK'
    BY <1>1 DEF vars, LedgerInv, LedgerTypeOK, LineType
  <2>2. OrderOK' /\ LinkOK' /\ Whole'
    BY <1>1 DEF vars, LedgerInv, OrderOK, LinkOK, BreaksOnlyAtFailures, MayLink, Whole, Busy,
                Written, Damaged, Before, Readable
  <2>3. LossOK'
    BY <1>1 DEF vars, LedgerInv, LossOK, Owed, Damaged, Written, Readable, GarbageLines
  <2>4. CheckpointsOK'
    <3>1. CASE pc = "down"
      BY <1>1, <3>1, EmptySeq DEF vars, LedgerInv, CheckpointsOK, CheckpointsCoverAll
    <3>2. CASE pc # "down"
      BY <1>1, <3>2, CheckpointsKept DEF vars, LedgerInv
    <3> QED BY <3>1, <3>2
  <2> QED BY <2>1, <2>2, <2>3, <2>4 DEF LedgerInv
<1> QED
  BY <1>1, StartStep, HashEventStep, WriteLineStep, WriteFailsStep, CountEventStep,
     ReturnStep, CrashStep DEF LedgerNext

----------------------------------------------------------------------------
\* The state of the ledger is always as the invariant says.
THEOREM LedgerInvariant == LedgerSpec => []LedgerInv
<1> QED BY InitInv, NextInv, PTL DEF LedgerSpec

\* Every value of the ledger has its type; the counter stays below the interval.
THEOREM LedgerTyping == LedgerSpec => []LedgerTypeOK
<1>1. LedgerInv => LedgerTypeOK
  BY DEF LedgerInv
<1> QED BY <1>1, LedgerInvariant, PTL

\* Until a write fails or ends part way, the verifier accepts the file at every
\* moment, for any number of events, crashes and restarts (verify_audit.py:24-67).
THEOREM NoFalseAlarm == LedgerSpec => []CleanHistoryVerifies
<1>1. LedgerInv => CleanHistoryVerifies
  <2> SUFFICES ASSUME LedgerInv, ~torn PROVE Errors(file) = 0
    BY DEF CleanHistoryVerifies
  <2>1. DOMAIN file = 1..Len(file) /\ Len(file) \in Nat
    BY LenProperties DEF LedgerInv, LedgerTypeOK
  <2>2. \A i \in DOMAIN file :
          /\ IsEvent(file[i])
          /\ file[i].prev = IF i = 1 THEN EmptyHash ELSE file[i - 1].hash
    BY DEF LedgerInv, Whole
  <2>3. ASSUME NEW i \in DOMAIN file PROVE file[i].prev = Expected(file, i)
    <3> DEFINE earlier == {j \in 1..(i - 1) : IsEvent(file[j])}
    <3>1. earlier = 1..(i - 1)
      BY <2>1, <2>2
    <3>2. CASE i = 1
      <4>1. earlier = {}
        BY <3>1, <3>2
      <4> QED BY <2>2, <3>2, <4>1 DEF Expected
    <3>3. CASE i # 1
      <4>1. i \in Nat /\ i - 1 \in 1..(i - 1)
        BY <2>1, <3>3
      <4>2. Max(earlier) = i - 1
        <5>1. /\ i - 1 \in earlier /\ \A j \in earlier : i - 1 >= j
              /\ \A m \in earlier : (\A j \in earlier : m >= j) => m = i - 1
          BY <3>1, <4>1
        <5> HIDE DEF earlier
        <5> QED BY <5>1 DEF Max
      <4> QED BY <2>2, <3>1, <3>3, <4>1, <4>2 DEF Expected
    <3> QED BY <3>2, <3>3
  <2>4. {i \in DOMAIN file : ~IsEvent(file[i]) \/ file[i].prev # Expected(file, i)} = {}
    BY <2>2, <2>3
  <2> QED BY <2>4, FS_EmptySet DEF Errors
<1> QED BY <1>1, LedgerInvariant, PTL

\* A break of the chain is always next to the failure that explains it.
THEOREM BreaksAreExplained == LedgerSpec => []BreaksOnlyAtFailures
<1>1. LedgerInv => BreaksOnlyAtFailures
  BY DEF LedgerInv, LinkOK
<1> QED BY <1>1, LedgerInvariant, PTL

\* No more acknowledged events are lost than there are damaged lines.
THEOREM LossIsBounded == LedgerSpec => []LossBounded
<1>1. LedgerInv => LossBounded
  <2> SUFFICES ASSUME LedgerInv
               PROVE  Cardinality(acknowledged \ Readable) <= Cardinality(GarbageLines)
    BY DEF LossBounded
  <2>1. Cardinality(acknowledged \ Readable) \in Nat /\ Cardinality(GarbageLines) \in Nat
    BY FiniteCounts DEF LedgerInv
  <2> QED BY <2>1 DEF LedgerInv, LossOK
<1> QED BY <1>1, LedgerInvariant, PTL

\* The checkpoints and open leaves of a process cover all of its events, in order.
THEOREM CheckpointsCover == LedgerSpec => []CheckpointsCoverAll
<1>1. LedgerInv => CheckpointsCoverAll
  BY DEF LedgerInv, CheckpointsOK
<1> QED BY <1>1, LedgerInvariant, PTL
=============================================================================
