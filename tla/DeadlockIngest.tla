---------------------------- MODULE DeadlockIngest ----------------------------
(***************************************************************************)
(* The incremental ingestion of deadlock events from one monitored server: *)
(* DeadlockCollector.fetch, transform and watermark_from, the watermark    *)
(* statements of the repository, and the stretches of runner._run_collectors*)
(* and runner._persist that move the watermark and then write the rows.    *)
(*                                                                         *)
(* Events are numbered in the order of their deadlock_time_utc and stand   *)
(* for their time, their graph and their dedup_key alike.  A worker of the *)
(* daily tier reads the watermark, reads the newer events from the event   *)
(* file or, failing that, from the ring buffer, moves the watermark to the *)
(* newest one, and only later inserts the rows into mon.deadlock_event,    *)
(* whose unique index refuses an event that is already there.              *)
(***************************************************************************)
EXTENDS Integers, FiniteSets

CONSTANTS
  Worker,     \* the daily workers that may visit the server, over and over
  DryRun,     \* those of an invocation with --dry-run
  MaxEvents,  \* bound on the events of one behaviour
  Faults      \* the faults the environment may inject, see FaultKind

(* "file"   the event file cannot be read                                    *)
(* "ring"   the ring buffer cannot be read either                            *)
(* "roll"   the ring buffer is so small that it drops events not yet read    *)
(* "mark"   the MERGE into collector_watermark raises                        *)
(* "crash"  the process is killed                                            *)
(* "write"  the INSERTs into deadlock_event raise part way                   *)
FaultKind == {"file", "ring", "roll", "mark", "crash", "write"}

ASSUME WorkerAssumption == DryRun \subseteq Worker
ASSUME OptionAssumption ==
  /\ MaxEvents \in Nat
  /\ Faults \subseteq FaultKind

VARIABLES
  occurred,   \* events 1..occurred have happened
  fileFrom,   \* the event file holds fileFrom..occurred
  ringFrom,   \* the ring buffer holds ringFrom..occurred
  watermark,  \* collector_watermark.last_value_utc; 0 when there is no row
  stored,     \* the events in mon.deadlock_event
  forgone,    \* history: the events a dry run, a failed write or a ring buffer
              \* that had dropped them cost
  pc,         \* pc[w]: "idle", "fetching", "marking", "writing" or "done"
  since,      \* since[w]: the watermark w read when it began (ctx.watermarks)
  frame       \* frame[w]: the events w has collected

sourceVars == <<occurred, fileFrom, ringFrom>>
tableVars == <<watermark, stored, forgone>>
vars == <<sourceVars, tableVars, pc, since, frame>>

Event == 1..MaxEvents

TypeOK ==
  /\ occurred \in 0..MaxEvents
  /\ fileFrom \in 1..MaxEvents+1
  /\ ringFrom \in 1..MaxEvents+1
  /\ watermark \in 0..MaxEvents
  /\ stored \in SUBSET Event /\ forgone \in SUBSET Event
  /\ pc \in [Worker -> {"idle", "fetching", "marking", "writing", "done"}]
  /\ since \in [Worker -> 0..MaxEvents]
  /\ frame \in [Worker -> SUBSET Event]

Init ==
  /\ occurred = 0 /\ fileFrom = 1 /\ ringFrom = 1
  /\ watermark = 0
  /\ stored = {} /\ forgone = {}
  /\ pc = [w \in Worker |-> "idle"]
  /\ since = [w \in Worker |-> 0]
  /\ frame = [w \in Worker |-> {}]

Newest(events) == {e \in events : \A d \in events : d <= e}

Move(w, to) == pc' = [pc EXCEPT ![w] = to]

-----------------------------------------------------------------------------
(* One visit of a worker.                                                    *)

ReadWatermarkUnlocked(w) ==  \* mutant: nothing keeps a second run out
  /\ pc[w] = "idle"
  /\ since' = [since EXCEPT ![w] = watermark]
  /\ frame' = [frame EXCEPT ![w] = {}]
  /\ Move(w, "fetching")
  /\ UNCHANGED <<sourceVars, tableVars>>

(* _collect_server puts the watermark into the context before collecting.    *)
(* The tier lock keeps a second run out (TierRun!NoDoubleCollection).        *)
ReadWatermark(w) ==
  /\ pc[w] = "idle"
  /\ \A v \in Worker : pc[v] = "idle"
  /\ since' = [since EXCEPT ![w] = watermark]
  /\ frame' = [frame EXCEPT ![w] = {}]
  /\ Move(w, "fetching")
  /\ UNCHANGED <<sourceVars, tableVars>>

SinceInclusive(w, from) == {e \in from..occurred : e >= since[w] /\ e > 0}  \* mutant: >= in the query

(* The events a target still holds that are newer than the watermark read.   *)
Since(w, from) == {e \in from..occurred : e > since[w]}

(* What a fetch may return: the file's new events; when the file cannot be   *)
(* read the ring buffer's; when neither can, nothing.  Nothing tells the     *)
(* code that the ring buffer has dropped events the file still has.          *)
FromFile(w) == frame' = [frame EXCEPT ![w] = Since(w, fileFrom)] /\ UNCHANGED forgone

FromRing(w) ==
  /\ "file" \in Faults
  /\ frame' = [frame EXCEPT ![w] = Since(w, ringFrom)]
  /\ forgone' = forgone \cup {e \in 1..ringFrom-1 : e > since[w]}

Unreadable(w) == {"file", "ring"} \subseteq Faults /\ UNCHANGED <<frame, forgone>>

(* fetch and transform.  An empty frame moves no watermark and is not        *)
(* written (_run_collectors, _persist).                                      *)
Fetch(w) ==
  /\ pc[w] = "fetching"
  /\ FromFile(w) \/ FromRing(w) \/ Unreadable(w)
  /\ Move(w, IF frame'[w] = {} THEN "done" ELSE "marking")
  /\ UNCHANGED <<sourceVars, watermark, stored, since>>

MarkNow(w) ==  \* mutant: the watermark is the newest event there is, not the newest read
  /\ pc[w] = "marking"
  /\ watermark' = occurred
  /\ Move(w, "writing")
  /\ UNCHANGED <<sourceVars, stored, forgone, since, frame>>

MarkPast(w) ==  \* mutant: the lower bound of a >= query
  /\ pc[w] = "marking"
  /\ \E e \in Newest(frame[w]) : watermark' = e + 1
  /\ Move(w, "writing")
  /\ UNCHANGED <<sourceVars, stored, forgone, since, frame>>

(* set_watermark(watermark_from(frame)): unconditional, not a maximum, and   *)
(* in a dry run as well.  It is not in a try: when it raises the server's    *)
(* whole pass fails and the frame is dropped.                                *)
Mark(w) ==
  /\ pc[w] = "marking"
  /\ \/ /\ watermark' \in Newest(frame[w])
        /\ Move(w, "writing")
     \/ /\ "mark" \in Faults
        /\ Move(w, "done")
        /\ UNCHANGED watermark
  /\ UNCHANGED <<sourceVars, stored, forgone, since, frame>>

(* What Repository.write leaves in the table: every row, or, when one is     *)
(* refused as a duplicate, any part of the new ones (autocommit).            *)
Written(w) ==
  IF frame[w] \cap stored = {} THEN {stored \cup frame[w]}
  ELSE {stored \cup part : part \in SUBSET (frame[w] \ stored)}

(* Part of the rows are in the table (autocommit), the others will not be.   *)
Interrupted(w) ==
  \E part \in SUBSET (frame[w] \ stored) :
    /\ w \in DryRun => part = {}
    /\ stored' = stored \cup part
    /\ forgone' = forgone \cup (frame[w] \ part)

WriteNewest(w) ==  \* mutant: only the last batch is written
  /\ pc[w] = "writing"
  /\ stored' = stored \cup Newest(frame[w])
  /\ Move(w, "done")
  /\ UNCHANGED <<sourceVars, watermark, forgone, since, frame>>

(* _persist: a dry run writes nothing; an INSERT that raises part way, or    *)
(* for any other reason than a duplicate, is noted and not tried again.      *)
Write(w) ==
  /\ pc[w] = "writing"
  /\ \/ w \in DryRun /\ forgone' = forgone \cup frame[w] /\ UNCHANGED stored
     \/ w \notin DryRun /\ stored' \in Written(w) /\ UNCHANGED forgone
     \/ w \notin DryRun /\ "write" \in Faults /\ Interrupted(w)
  /\ Move(w, "done")
  /\ UNCHANGED <<sourceVars, watermark, since, frame>>

(* The visit is over; a later run will come.                                 *)
Leave(w) ==
  /\ pc[w] = "done"
  /\ Move(w, "idle")
  /\ frame' = [frame EXCEPT ![w] = {}]
  /\ UNCHANGED <<sourceVars, tableVars, since>>

(* Killed before the watermark has moved, or while it writes.                *)
Crash(w) ==
  /\ "crash" \in Faults
  /\ \/ pc[w] \in {"fetching", "marking"} /\ UNCHANGED <<stored, forgone>>
     \/ pc[w] = "writing" /\ Interrupted(w)
  /\ Move(w, "idle")
  /\ frame' = [frame EXCEPT ![w] = {}]
  /\ UNCHANGED <<sourceVars, watermark, since>>

-----------------------------------------------------------------------------
(* The monitored server: system_health.                                      *)

Deadlock ==
  /\ occurred < MaxEvents
  /\ occurred' = occurred + 1
  /\ UNCHANGED <<fileFrom, ringFrom, tableVars, pc, since, frame>>

(* The file rolls over, but keeps more than the day between two runs: only   *)
(* events that a run has passed drop off.                                    *)
FileRolls ==
  /\ fileFrom <= watermark /\ fileFrom <= occurred
  /\ fileFrom' = fileFrom + 1
  /\ UNCHANGED <<occurred, ringFrom, tableVars, pc, since, frame>>

RingDrops ==
  /\ ringFrom <= occurred
  /\ "roll" \in Faults \/ ringFrom <= watermark
  /\ ringFrom' = ringFrom + 1
  /\ UNCHANGED <<occurred, fileFrom, tableVars, pc, since, frame>>

Visit(w) == ReadWatermark(w) \/ Fetch(w) \/ Mark(w) \/ Write(w) \/ Leave(w)

Next ==
  \/ \E w \in Worker : Visit(w) \/ Crash(w)
  \/ Deadlock \/ FileRolls \/ RingDrops

Spec == Init /\ [][Next]_vars

(* Daily runs keep coming, a run once begun goes on, and no read or MERGE    *)
(* fails every time.                                                         *)
Fairness ==
  \A w \in Worker :
    /\ WF_vars(Visit(w))
    /\ SF_vars(Fetch(w) /\ frame'[w] = Since(w, fileFrom))
    /\ SF_vars(Mark(w) /\ watermark' \in Newest(frame[w]))

FairSpec == Spec /\ Fairness

-----------------------------------------------------------------------------
(* Correctness.                                                              *)

InFlight(e) == \E w \in Worker : pc[w] = "writing" /\ e \in frame[w]

(* No event is passed over: what the watermark has passed, and no later run  *)
(* will ask for again, is in the table or about to be, unless it was forgone.*)
NoEventLost == \A e \in 1..watermark : e \in stored \cup forgone \/ InFlight(e)

(* An event is never both in the table and in a frame about to be written:   *)
(* the unique index has nothing to refuse, so no batch fails over it.        *)
NoDuplicateSent ==
  \A w \in Worker : pc[w] \in {"marking", "writing"} => frame[w] \cap stored = {}

(* The watermark never goes back, which would send events a second time.     *)
WatermarkMonotone == [][watermark' >= watermark]_vars

(* deadlocks.py: "nothing is missed between daily runs": every deadlock that *)
(* happens and is not forgone ends up in the table.                          *)
EveryDeadlockStored == \A e \in Event : e <= occurred ~> e \in stored \cup forgone

(* README: --dry-run writes nothing.                                         *)
DryRunWritesNothing ==
  [][\A w \in DryRun : pc'[w] # pc[w] => UNCHANGED <<watermark, stored>>]_vars
=============================================================================
