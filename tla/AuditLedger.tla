---------------------------- MODULE AuditLedger ----------------------------
(***************************************************************************)
(* The audit ledger, results_aggregator/ledger.py: a JSONL file whose      *)
(* lines carry the hash of the line before, with checkpoints in the state  *)
(* store every checkpoint_interval events; and the tool that verifies a    *)
(* ledger file, tools/verify_audit.py.                                     *)
(*                                                                         *)
(* append() holds the object's lock, so appends do not interleave, but it  *)
(* advances the chain in memory before it writes the line, the write may   *)
(* fail part way, and the process may die at any point of it.  Readers and *)
(* the verifier take no lock and see the file at every step.               *)
(*                                                                         *)
(* A hash stands for the event it was computed from: events carry a fresh  *)
(* event_id, so the n-th event appended hashes to n, and 0 is the empty    *)
(* hash a chain starts with.  What was written to the file stays there: a  *)
(* crash of the machine, which could lose more than one line, is left out. *)
(* The state store lives in the process and dies with it, and so does the  *)
(* key that signs checkpoints, which is published in it.                   *)
(***************************************************************************)
EXTENDS Integers, SequencesExt, FiniteSetsExt

CONSTANTS
    CheckpointInterval,   \* checkpoint_interval
    MaxEvents             \* bound: events ever appended

ASSUME IntervalAssumption == CheckpointInterval \in Nat \ {0} /\ MaxEvents \in Nat

VARIABLES
    file,        \* the lines of the file
    terminated,  \* the file ends with a newline, or is empty
    pc,          \* how far append() has got; down: no process
    event,       \* the event being appended, as the line to write
    last_hash,   \* self.last_hash
    leaves,      \* self._current_merkle_leaves
    events_since_checkpoint,
    checkpoints, \* the checkpoints in the state store, oldest first
    events,      \* number of events ever given to append()
    acknowledged,\* events whose append() has returned
    torn,        \* a write has ended part way, or failed under a living process
    inherited    \* history: number of events appended by earlier processes

vars == <<file, terminated, pc, event, last_hash, leaves, events_since_checkpoint,
          checkpoints, events, acknowledged, torn, inherited>>

EmptyHash == 0

\* A line: an event and its two hashes, or text that is not the JSON of one.
Line(prev, hash) == [prev |-> prev, hash |-> hash]
Garbage == Line(-1, -1)
IsEvent(line) == line # Garbage

----------------------------------------------------------------------------
LedgerInit ==
    /\ file = <<>>
    /\ terminated = TRUE
    /\ pc = "down"
    /\ event = Garbage
    /\ last_hash = EmptyHash
    /\ leaves = <<>>
    /\ events_since_checkpoint = 0
    /\ checkpoints = <<>>
    /\ events = 0
    /\ acknowledged = {}
    /\ torn = FALSE
    /\ inherited = 0

\* Fault: the first line is taken for the last one.
RecoveredHash_First ==
    IF file # <<>> /\ IsEvent(Head(file)) THEN Head(file).hash ELSE EmptyHash

\* Fault: a new process starts a new chain.
RecoveredHash_None == EmptyHash

\* _recover_state: the hash in the last line; the empty hash when there is no
\* line, and also when the last line is not JSON.
RecoveredHash ==
    IF file # <<>> /\ IsEvent(Last(file)) THEN Last(file).hash ELSE EmptyHash

Start ==
    /\ pc = "down"
    /\ pc' = "idle"
    /\ last_hash' = RecoveredHash
    /\ inherited' = events
    /\ UNCHANGED <<file, terminated, event, leaves, events_since_checkpoint,
                   checkpoints, events, acknowledged, torn>>

\* The head of append(): link the event and advance the chain in memory.
HashEvent ==
    /\ pc = "idle"
    /\ events < MaxEvents
    /\ LET hash == events + 1 IN
       /\ events' = hash
       /\ event' = Line(last_hash, hash)
       /\ last_hash' = hash
       /\ leaves' = Append(leaves, hash)
    /\ pc' = "hashed"
    /\ UNCHANGED <<file, terminated, events_since_checkpoint, checkpoints,
                   acknowledged, torn, inherited>>

\* Fault: the file is opened for writing at its start.
AppendText_Truncates(line) == file' = <<line>>

\* Text appended to the file is a line of its own, or, when the last line was
\* left without its newline, the rest of that line, which then is no event.
AppendText(line) ==
    file' = IF terminated THEN Append(file, line) ELSE Append(Front(file), Garbage)

WriteLine ==
    /\ pc = "hashed"
    /\ AppendText(event)
    /\ terminated' = TRUE
    /\ pc' = "written"
    /\ UNCHANGED <<event, last_hash, leaves, events_since_checkpoint, checkpoints,
                   events, acknowledged, torn, inherited>>

\* Part of the line reaches the file: some of its JSON, or all but the newline.
TearLine ==
    /\ \E line \in {event, Garbage} : AppendText(line)
    /\ terminated' = FALSE

\* open or write raises: nothing or part of the line is in the file, the caller
\* gets the exception, and the chain in memory has moved on.
WriteFails ==
    /\ pc = "hashed"
    /\ TearLine \/ UNCHANGED <<file, terminated>>
    /\ torn' = TRUE
    /\ pc' = "idle"
    /\ UNCHANGED <<event, last_hash, leaves, events_since_checkpoint, checkpoints,
                   events, acknowledged, inherited>>

\* Fault: the leaves are kept for the next checkpoint.
CountEvent_KeepsLeaves ==
    /\ pc = "written"
    /\ IF events_since_checkpoint + 1 >= CheckpointInterval
         THEN /\ checkpoints' = Append(checkpoints, leaves)
              /\ events_since_checkpoint' = 0
         ELSE /\ events_since_checkpoint' = events_since_checkpoint + 1
              /\ UNCHANGED checkpoints
    /\ pc' = "counted"
    /\ UNCHANGED <<file, terminated, event, last_hash, leaves, events, acknowledged, torn,
                   inherited>>

\* Fault: the counter runs on after a checkpoint.
CountEvent_KeepsCounting ==
    /\ pc = "written"
    /\ events_since_checkpoint' = events_since_checkpoint + 1
    /\ IF events_since_checkpoint + 1 >= CheckpointInterval
         THEN checkpoints' = Append(checkpoints, leaves) /\ leaves' = <<>>
         ELSE UNCHANGED <<checkpoints, leaves>>
    /\ pc' = "counted"
    /\ UNCHANGED <<file, terminated, event, last_hash, events, acknowledged, torn,
                   inherited>>

\* The tail of append(): count the event and, when the interval is full, write
\* the checkpoint and start a new one.
CountEvent ==
    /\ pc = "written"
    /\ IF events_since_checkpoint + 1 >= CheckpointInterval
         THEN /\ checkpoints' = Append(checkpoints, leaves)
              /\ events_since_checkpoint' = 0
              /\ leaves' = <<>>
         ELSE /\ events_since_checkpoint' = events_since_checkpoint + 1
              /\ UNCHANGED <<checkpoints, leaves>>
    /\ pc' = "counted"
    /\ UNCHANGED <<file, terminated, event, last_hash, events, acknowledged, torn,
                   inherited>>

\* append() returns, and aggregate() answers the client.
Return ==
    /\ pc = "counted"
    /\ acknowledged' = acknowledged \cup {event.hash}
    /\ pc' = "idle"
    /\ UNCHANGED <<file, terminated, event, last_hash, leaves, events_since_checkpoint,
                   checkpoints, events, torn, inherited>>

\* The process dies, with its store; in the middle of a write, part of the line
\* may be in the file.
Crash ==
    /\ pc # "down"
    /\ \/ UNCHANGED <<file, terminated, torn>>
       \/ pc = "hashed" /\ TearLine /\ torn' = TRUE
    /\ pc' = "down"
    /\ event' = Garbage
    /\ last_hash' = EmptyHash
    /\ leaves' = <<>>
    /\ events_since_checkpoint' = 0
    /\ checkpoints' = <<>>
    /\ UNCHANGED <<events, acknowledged, inherited>>

LedgerNext ==
    \/ Start \/ HashEvent \/ WriteLine \/ WriteFails \/ CountEvent \/ Return \/ Crash

LedgerSpec == LedgerInit /\ [][LedgerNext]_vars

----------------------------------------------------------------------------
(* verify_ledger: count the lines that are not events or do not continue   *)
(* the chain.  An event's own hash is always right here: nobody edits the  *)
(* file.                                                                   *)

\* The hash the verifier expects at line i: that of the last event before it.
Expected(lines, i) ==
    LET earlier == {j \in 1..(i - 1) : IsEvent(lines[j])}
    IN IF earlier = {} THEN EmptyHash ELSE lines[Max(earlier)].hash

Errors(lines) ==
    Cardinality({i \in DOMAIN lines :
                   ~IsEvent(lines[i]) \/ lines[i].prev # Expected(lines, i)})

\* get_all: the events of the file.  Text that is no event is an exception.
Readable == {file[i].hash : i \in {j \in DOMAIN file : IsEvent(file[j])}}
GarbageLines == {i \in DOMAIN file : ~IsEvent(file[i])}

----------------------------------------------------------------------------
(* Properties.                                                             *)

LineType == [prev : -1..events, hash : -1..events]

LedgerTypeOK ==
    /\ events \in 0..MaxEvents
    /\ file \in Seq(LineType)
    /\ terminated \in BOOLEAN
    /\ pc \in {"down", "idle", "hashed", "written", "counted"}
    /\ event \in LineType
    /\ last_hash \in 0..events
    /\ leaves \in Seq(1..events)
    /\ events_since_checkpoint \in 0..(CheckpointInterval - 1)
    /\ checkpoints \in Seq(Seq(1..events))
    /\ acknowledged \subseteq 1..events
    /\ torn \in BOOLEAN
    /\ inherited \in 0..events

\* No false alarm: as long as no write has ended part way, the verifier accepts
\* the file at every moment, in the middle of an append and after any number of
\* crashes and restarts between the steps of append() (ledger.py:43-62, 78-94).
CleanHistoryVerifies == ~torn => Errors(file) = 0

\* Where the chain does break, the failure is next to the break: the line before
\* is damaged, or the event the link names is one whose append() never returned.
\* A link never skips over an acknowledged event that is in the file.
BreaksOnlyAtFailures ==
    \A i \in DOMAIN file :
        LET before == IF i = 1 THEN EmptyHash ELSE file[i - 1].hash IN
        IsEvent(file[i]) /\ file[i].prev # before =>
            \/ i > 1 /\ ~IsEvent(file[i - 1])
            \/ file[i].prev > before /\ file[i].prev \notin acknowledged \cup Readable

\* A damaged line costs at most one acknowledged event: the one that was written
\* onto the torn line.
LossBounded == Cardinality(acknowledged \ Readable) <= Cardinality(GarbageLines)

\* What the process vouches for: its checkpoints, then the leaves of the next.
Batches == Append(checkpoints, leaves)

\* The event before the j-th of batch k.
Preceding(k, j) ==
    CASE j > 1 -> Batches[k][j - 1]
      [] j = 1 /\ k > 1 -> Last(Batches[k - 1])
      [] OTHER -> inherited

\* The last event that a checkpoint or leaf stands for.
LastCovered ==
    CASE leaves # <<>> -> Last(leaves)
      [] leaves = <<>> /\ checkpoints # <<>> -> Last(Last(checkpoints))
      [] OTHER -> inherited

\* The checkpoints of a process and its open leaves cover every event appended
\* since its start exactly once and in order, whatever writes failed between, and
\* no checkpoint comes before its interval is full (ledger.py:96-120).
CheckpointsCoverAll ==
    pc # "down" =>
      /\ \A k \in DOMAIN Batches : \A j \in DOMAIN Batches[k] :
           Batches[k][j] = Preceding(k, j) + 1
      /\ LastCovered = events
      /\ \A k \in DOMAIN checkpoints : Len(checkpoints[k]) >= CheckpointInterval

\* An event whose append() returned can be read back for good: audit events are
\* durable (implementation guide, phase 6 exit criteria).
AcknowledgedDurable == acknowledged \subseteq Readable
=============================================================================
