------------------------- MODULE DeadlockIngestProofs -------------------------
(***************************************************************************)
(* What DeadlockIngest guarantees for every set of workers, dry runs among *)
(* them, every number of events and under every fault.                     *)
(***************************************************************************)
EXTENDS DeadlockIngest, TLAPS

(* The tier lock at work: one visit at a time.                               *)
Alone == \A v, w \in Worker : pc[v] # "idle" /\ pc[w] # "idle" => v = w

(* The targets hold what is newer than the watermark, but for the ring       *)
(* buffer, which may have dropped it; the table holds nothing that is newer. *)
Sources ==
  /\ watermark <= occurred /\ fileFrom <= watermark + 1
  /\ \A e \in stored : e <= watermark

(* A frame is what a visit may collect: new events, and every new event up   *)
(* to its newest one but those the ring buffer had dropped.                  *)
Frames ==
  \A w \in Worker :
    /\ pc[w] \in {"fetching", "marking"} => since[w] = watermark
    /\ pc[w] = "fetching" => frame[w] = {}
    /\ pc[w] \in {"marking", "writing"} => \A e \in frame[w] : e <= occurred
    /\ pc[w] = "writing" => \A e \in frame[w] : e <= watermark
    /\ pc[w] = "marking" =>
         /\ \A e \in frame[w] : e > watermark
         /\ \A e \in 1..occurred, d \in frame[w] :
              e > watermark /\ e <= d => e \in frame[w] \cup forgone

IInv == TypeOK /\ Alone /\ Sources /\ Frames /\ NoDuplicateSent /\ NoEventLost

USE DEF tableVars, sourceVars

LEMMA IngestInit == Init => IInv
BY OptionAssumption DEF Init, IInv, TypeOK, Alone, Sources, Frames, NoDuplicateSent,
   NoEventLost, Event

LEMMA SourceStep ==
  ASSUME IInv, Deadlock \/ FileRolls \/ RingDrops
  PROVE  IInv'
<1> USE OptionAssumption DEF IInv, TypeOK
<1>1. TypeOK'
  <2>1. CASE Deadlock
    BY <2>1 DEF Deadlock
  <2>2. CASE FileRolls
    BY <2>2 DEF FileRolls
  <2>3. CASE RingDrops
    BY <2>3 DEF RingDrops
  <2>4. QED
    BY <2>1, <2>2, <2>3
<1>2. Alone' /\ NoDuplicateSent' /\ NoEventLost'
  BY DEF Deadlock, FileRolls, RingDrops, Alone, NoDuplicateSent, NoEventLost, InFlight
<1>3. Sources'
  <2>1. CASE Deadlock
    BY <2>1 DEF Deadlock, Sources
  <2>2. CASE FileRolls
    BY <2>2 DEF FileRolls, Sources
  <2>3. CASE RingDrops
    BY <2>3 DEF RingDrops, Sources
  <2>4. QED
    BY <2>1, <2>2, <2>3
<1>4. Frames'
  <2>1. CASE Deadlock
    BY <2>1 DEF Deadlock, Frames, Event
  <2>2. CASE FileRolls \/ RingDrops
    BY <2>2 DEF FileRolls, RingDrops, Frames
  <2>3. QED
    BY <2>1, <2>2
<1>5. QED
  BY <1>1, <1>2, <1>3, <1>4

LEMMA ReadStep ==
  ASSUME IInv, NEW w \in Worker, ReadWatermark(w)
  PROVE  IInv'
<1> USE DEF IInv, TypeOK, ReadWatermark, Move
<1>1. TypeOK'
  OBVIOUS
<1>2. Alone' /\ Sources'
  BY DEF Alone, Sources
<1>3. Frames' /\ NoDuplicateSent'
  BY DEF Frames, NoDuplicateSent
<1>4. NoEventLost'
  BY DEF NoEventLost, InFlight
<1>5. QED
  BY <1>1, <1>2, <1>3, <1>4

LEMMA FetchStep ==
  ASSUME IInv, NEW w \in Worker, Fetch(w)
  PROVE  IInv'
<1> USE OptionAssumption DEF IInv, TypeOK, Fetch, Move
<1>1. TypeOK'
  <2>1. Since(w, fileFrom) \in SUBSET Event /\ Since(w, ringFrom) \in SUBSET Event
    BY DEF Since, Event
  <2>2. {e \in 1..ringFrom-1 : e > since[w]} \in SUBSET Event
    BY DEF Event
  <2>3. frame' \in [Worker -> SUBSET Event] /\ forgone' \in SUBSET Event
    BY <2>1, <2>2 DEF FromFile, FromRing, Unreadable
  <2>4. QED
    BY <2>3
<1>2. Alone'
  BY DEF Alone
<1>3. Sources'
  BY DEF Sources
<1>4. \A v \in Worker : v # w => pc'[v] = "idle"
  BY DEF Alone
<1>5. /\ pc'[w] = "marking" => frame'[w] # {}
      /\ pc'[w] # "fetching" /\ pc'[w] # "writing"
      /\ since'[w] = watermark' /\ since[w] = watermark
  BY DEF Frames
<1>6. ASSUME pc'[w] = "marking"
      PROVE  \A e \in frame'[w] : e > watermark /\ e <= occurred
  <2>1. CASE FromFile(w) \/ FromRing(w)
    BY <2>1, <1>5 DEF FromFile, FromRing, Since, Event
  <2>2. CASE Unreadable(w)
    BY <2>2, <1>6, <1>5 DEF Unreadable, Frames
  <2>3. QED
    BY <2>1, <2>2
<1>7. ASSUME pc'[w] = "marking"
      PROVE  \A e \in 1..occurred : e > watermark => e \in frame'[w] \cup forgone'
  <2>1. CASE FromFile(w)
    BY <2>1, <1>5 DEF FromFile, Since, Sources, Event
  <2>2. CASE FromRing(w)
    BY <2>2, <1>5 DEF FromRing, Since, Event
  <2>3. CASE Unreadable(w)
    BY <2>3, <1>7, <1>5 DEF Unreadable, Frames
  <2>4. QED
    BY <2>1, <2>2, <2>3
<1>8. Frames'
  BY <1>4, <1>5, <1>6, <1>7 DEF Frames
<1>9. NoDuplicateSent'
  <2>1. ASSUME pc'[w] = "marking", NEW e \in frame'[w]
        PROVE  e \notin stored
    <3>1. e \in Event /\ e > watermark
      BY <2>1, <1>1, <1>6
    <3>2. QED
      BY <3>1 DEF Sources, Event
  <2>2. QED
    BY <2>1, <1>4, <1>5 DEF NoDuplicateSent
<1>10. NoEventLost'
  <2>1. forgone \subseteq forgone'
    BY DEF FromFile, FromRing, Unreadable
  <2>2. \A e : ~InFlight(e)
    BY DEF InFlight, Alone
  <2>3. QED
    BY <2>1, <2>2 DEF NoEventLost
<1>11. QED
  BY <1>1, <1>2, <1>3, <1>8, <1>9, <1>10

LEMMA StillWithin ==
  ASSUME NEW x \in Int, NEW y \in Int, NEW z \in Int, x <= y + 1, y <= z
  PROVE  x <= z + 1
OBVIOUS

LEMMA MarkStep ==
  ASSUME IInv, NEW w \in Worker, Mark(w)
  PROVE  IInv' /\ watermark' >= watermark
<1> USE DEF IInv, TypeOK, Mark, Move
<1>1. \A v \in Worker : v # w => pc'[v] = "idle"
  BY DEF Alone
<1>2. CASE watermark' \in Newest(frame[w]) /\ pc' = [pc EXCEPT ![w] = "writing"]
  <2>1. /\ watermark' \in frame[w] /\ watermark' \in Event
        /\ \A d \in frame[w] : d <= watermark'
        /\ watermark' > watermark /\ watermark' <= occurred
    BY <1>2 DEF Newest, Frames
  <2>2. TypeOK'
    BY <1>2, <2>1 DEF Event
  <2>3. Alone'
    BY <1>2 DEF Alone
  <2>4. Sources'
    <3>1. \A e \in stored : e <= watermark'
      BY <2>1 DEF Sources, Event
    <3>2. fileFrom \in Int /\ watermark \in Int /\ watermark' \in Int
      BY <2>1, OptionAssumption DEF Event
    <3>3. fileFrom <= watermark + 1 /\ watermark <= watermark'
      BY <2>1, <3>2 DEF Sources
    <3>4. fileFrom <= watermark' + 1
      BY ONLY <3>2, <3>3, StillWithin
    <3>5. QED
      BY <2>1, <3>1, <3>4 DEF Sources
  <2>5. Frames'
    BY <1>1, <1>2, <2>1 DEF Frames
  <2>6. NoDuplicateSent'
    BY <1>1, <1>2 DEF NoDuplicateSent
  <2>7. NoEventLost'
    <3> SUFFICES ASSUME NEW e \in 1..watermark', e \notin stored \cup forgone
                 PROVE  e \in frame[w]
      BY <1>2 DEF NoEventLost, InFlight
    <3>1. \A d : ~InFlight(d)
      BY DEF InFlight, Alone
    <3>2. e > watermark
      BY <3>1, <2>1 DEF NoEventLost, Event
    <3>3. e \in 1..occurred
      BY <2>1 DEF Event
    <3>4. QED
      BY <3>2, <3>3, <2>1 DEF Frames, Event
  <2>8. QED
    BY <2>1, <2>2, <2>3, <2>4, <2>5, <2>6, <2>7 DEF Event
<1>3. CASE pc' = [pc EXCEPT ![w] = "done"] /\ UNCHANGED watermark
  <2>1. TypeOK' /\ Alone' /\ Sources'
    BY <1>3 DEF Alone, Sources
  <2>2. Frames' /\ NoDuplicateSent'
    BY <1>1, <1>3 DEF Frames, NoDuplicateSent
  <2>3. NoEventLost'
    BY <1>3 DEF NoEventLost, InFlight, Alone
  <2>4. QED
    BY <1>3, <2>1, <2>2, <2>3 DEF Event
<1>4. QED
  BY <1>2, <1>3

LEMMA InterruptedRows ==
  ASSUME NEW w \in Worker, Interrupted(w)
  PROVE  /\ stored \subseteq stored' /\ stored' \subseteq stored \cup frame[w]
         /\ forgone \subseteq forgone' /\ forgone' \subseteq forgone \cup frame[w]
         /\ frame[w] \subseteq stored' \cup forgone'
BY DEF Interrupted

LEMMA WriteStep ==
  ASSUME IInv, NEW w \in Worker, Write(w)
  PROVE  IInv'
<1> USE DEF IInv, TypeOK, Write, Move
<1>1. \A v \in Worker : v # w => pc'[v] = "idle"
  BY DEF Alone
<1>2. frame[w] \cap stored = {}
  BY DEF NoDuplicateSent
<1>3. /\ stored \subseteq stored' /\ stored' \subseteq stored \cup frame[w]
      /\ forgone \subseteq forgone' /\ forgone' \subseteq forgone \cup frame[w]
      /\ frame[w] \subseteq stored' \cup forgone'
  BY <1>2, InterruptedRows DEF Written
<1>4. TypeOK'
  BY <1>3
<1>5. Alone' /\ Sources'
  BY <1>3 DEF Alone, Sources, Frames
<1>6. Frames' /\ NoDuplicateSent'
  BY <1>1 DEF Frames, NoDuplicateSent
<1>7. NoEventLost'
  <2> SUFFICES ASSUME NEW e \in 1..watermark, e \notin stored' \cup forgone'
               PROVE  FALSE
    BY DEF NoEventLost
  <2>1. InFlight(e)
    BY <1>3 DEF NoEventLost
  <2>2. e \in frame[w]
    BY <2>1 DEF InFlight, Alone
  <2>3. QED
    BY <2>2, <1>3
<1>8. QED
  BY <1>4, <1>5, <1>6, <1>7

LEMMA LeaveStep ==
  ASSUME IInv, NEW w \in Worker, Leave(w) \/ Crash(w)
  PROVE  IInv'
<1> USE DEF IInv, TypeOK, Leave, Crash, Move
<1>1. \A v \in Worker : pc'[v] = "idle"
  BY DEF Alone
<1>2. /\ stored \subseteq stored' /\ stored' \subseteq stored \cup frame[w]
      /\ forgone \subseteq forgone' /\ forgone' \subseteq forgone \cup frame[w]
      /\ pc[w] = "writing" => frame[w] \subseteq stored' \cup forgone'
  BY InterruptedRows
<1>3. TypeOK'
  BY <1>2
<1>4. Alone' /\ Sources'
  BY <1>1, <1>2 DEF Alone, Sources, Frames
<1>5. Frames' /\ NoDuplicateSent'
  BY <1>1 DEF Frames, NoDuplicateSent
<1>6. NoEventLost'
  <2> SUFFICES ASSUME NEW e \in 1..watermark, e \notin stored' \cup forgone'
               PROVE  FALSE
    BY DEF NoEventLost
  <2>1. InFlight(e)
    BY <1>2 DEF NoEventLost
  <2>2. e \in frame[w] /\ pc[w] = "writing"
    BY <2>1 DEF InFlight, Alone
  <2>3. QED
    BY <2>2, <1>2
<1>7. QED
  BY <1>3, <1>4, <1>5, <1>6

LEMMA IngestStep ==
  ASSUME IInv, [Next]_vars
  PROVE  IInv' /\ watermark' >= watermark
<1>1. CASE Deadlock \/ FileRolls \/ RingDrops
  <2>1. watermark' = watermark
    BY <1>1 DEF Deadlock, FileRolls, RingDrops
  <2>2. QED
    BY <1>1, <2>1, SourceStep DEF IInv, TypeOK
<1>2. ASSUME NEW w \in Worker, ReadWatermark(w) \/ Fetch(w) \/ Write(w) \/ Leave(w) \/ Crash(w)
      PROVE  IInv' /\ watermark' >= watermark
  <2>1. watermark' = watermark
    BY <1>2 DEF ReadWatermark, Fetch, Write, Leave, Crash
  <2>2. QED
    BY <1>2, <2>1, ReadStep, FetchStep, WriteStep, LeaveStep DEF IInv, TypeOK
<1>3. ASSUME NEW w \in Worker, Mark(w)
      PROVE  IInv' /\ watermark' >= watermark
  BY <1>3, MarkStep
<1>4. CASE UNCHANGED vars
  BY <1>4 DEF vars, IInv, TypeOK, Alone, Sources, Frames, NoDuplicateSent, NoEventLost, InFlight
<1>5. QED
  BY <1>1, <1>2, <1>3, <1>4 DEF Next, Visit

(* Every variable keeps its type.                                            *)
THEOREM IngestTypeCorrect == Spec => []TypeOK
<1>1. Init => IInv
  BY IngestInit
<1>2. IInv /\ [Next]_vars => IInv'
  BY IngestStep
<1>3. IInv => TypeOK
  BY DEF IInv
<1>4. QED
  BY <1>1, <1>2, <1>3, PTL DEF Spec

(* deadlocks.py, "nothing is missed": whatever targets fail, whichever       *)
(* statement raises and wherever a worker is killed, an event the watermark  *)
(* has passed is stored or about to be, but for those of a dry run, a failed *)
(* write or a ring buffer that had dropped them.                             *)
THEOREM NothingMissed == Spec => []NoEventLost
<1>1. Init => IInv
  BY IngestInit
<1>2. IInv /\ [Next]_vars => IInv'
  BY IngestStep
<1>3. IInv => NoEventLost
  BY DEF IInv
<1>4. QED
  BY <1>1, <1>2, <1>3, PTL DEF Spec

(* The unique index on dedup_key never has a row to refuse.                  *)
THEOREM NothingSentTwice == Spec => []NoDuplicateSent
<1>1. Init => IInv
  BY IngestInit
<1>2. IInv /\ [Next]_vars => IInv'
  BY IngestStep
<1>3. IInv => NoDuplicateSent
  BY DEF IInv
<1>4. QED
  BY <1>1, <1>2, <1>3, PTL DEF Spec

(* set_watermark overwrites, yet never with an older value.                  *)
THEOREM WatermarkAdvances == Spec => WatermarkMonotone
<1>1. Init => IInv
  BY IngestInit
<1>2. IInv /\ [Next]_vars => IInv'
  BY IngestStep
<1>3. IInv /\ [Next]_vars => [watermark' >= watermark]_vars
  BY IngestStep
<1>4. QED
  BY <1>1, <1>2, <1>3, PTL DEF Spec, WatermarkMonotone
===============================================================================
