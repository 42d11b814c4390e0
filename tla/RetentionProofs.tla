---------------------------- MODULE RetentionProofs ----------------------------
(***************************************************************************)
(* What Retention guarantees for every set of tables, every batch size and *)
(* every number of commands.                                               *)
(***************************************************************************)
EXTENDS Retention, TLAPS

(***************************************************************************)
(* Startup, for every script, every number of processes and any number of  *)
(* retries.                                                                *)
(***************************************************************************)

LEMMA ScriptLength == Len(Script) \in Nat \ {0}
<1>1. Len(Script) \in Nat
  BY ScriptAssumption
<1>2. QED
  BY <1>1, ScriptAssumption

LEMMA SessionsPerPlace ==
  /\ SessionsAt("idle") = {0} /\ SessionsAt("closed") = {0}
  /\ SessionsAt("opening") = {0, 1} /\ SessionsAt("setting") = {1, 2}
  /\ SessionsAt("asking") = {1} /\ SessionsAt("ready") = {1}
  /\ SessionsAt("looking") = {1} /\ SessionsAt("making") = {1}
BY DEF SessionsAt, Connected, Bootstrapping

(* What StartupTypeOK says of the places and the sessions there.             *)
Seated ==
  /\ pc \in [Proc -> Place]
  /\ sessions \in [Proc -> 0..2]
  /\ \A p \in Proc : sessions[p] \in SessionsAt(pc[p])

LEMMA Reseat ==
  ASSUME Seated, NEW p \in Proc, NEW place \in Place, NEW n \in SessionsAt(place),
         pc' = [pc EXCEPT ![p] = place], sessions' = [sessions EXCEPT ![p] = n]
  PROVE  Seated'
<1>1. n \in 0..2
  BY SessionsPerPlace DEF Place, Connected, Bootstrapping
<1>2. QED
  BY <1>1 DEF Seated

LEMMA Places ==
  /\ "idle" \in Place /\ "opening" \in Place /\ "setting" \in Place /\ "closed" \in Place
  /\ "asking" \in Place /\ "ready" \in Place /\ "looking" \in Place /\ "making" \in Place
BY DEF Place, Connected, Bootstrapping

(* ... and of a process that moves with the session it has.                  *)
LEMMA Walk ==
  ASSUME Seated, NEW p \in Proc, NEW place \in Place, sessions[p] \in SessionsAt(place),
         Move(p, place), UNCHANGED sessions
  PROVE  Seated'
BY DEF Seated, Move

LEMMA Turning ==
  ASSUME NEW N \in Nat \ {0}, NEW b \in [Proc -> 1..N], NEW p \in Proc
  PROVE  /\ b[p] < N => [b EXCEPT ![p] = @ + 1] \in [Proc -> 1..N]
         /\ [b EXCEPT ![p] = 1] \in [Proc -> 1..N]
OBVIOUS

LEMMA NextBatchType ==
  ASSUME StartupTypeOK, NEW p \in Proc, NextBatch(p)
  PROVE  /\ batch' \in [Proc -> 1..Len(Script)]
         /\ Move(p, "looking") \/ Move(p, "ready")
<1>1. batch \in [Proc -> 1..Len(Script)]
  BY DEF StartupTypeOK
<1>2. QED
  BY <1>1, ScriptLength, Turning DEF NextBatch, Last

LEMMA StartupTypeInit == StartupInit => StartupTypeOK
<1> SUFFICES ASSUME StartupInit
             PROVE  StartupTypeOK
  OBVIOUS
<1>1. /\ pc \in [Proc -> Place]
      /\ sessions \in [Proc -> 0..2]
  BY DEF StartupInit, Place
<1>2. \A p \in Proc : sessions[p] \in SessionsAt(pc[p])
  BY SessionsPerPlace DEF StartupInit
<1>3. /\ made \in 0..Len(Script)
      /\ batch \in [Proc -> 1..Len(Script)]
  BY ScriptLength DEF StartupInit
<1>4. 0 \in 0..Retries
  BY StartAssumption
<1>5. /\ cmd \in [Proc -> Cmd \cup {"none"}]
      /\ attempt \in [Proc -> 0..Retries]
  BY <1>4 DEF StartupInit
<1>6. spoiled \in BOOLEAN
  BY DEF StartupInit
<1>7. QED
  BY <1>1, <1>2, <1>3, <1>5, <1>6 DEF StartupTypeOK

LEMMA ExitsType ==
  ASSUME StartupTypeOK, NEW p \in Proc, Exits(p),
         made' \in 0..Len(Script), spoiled' \in BOOLEAN
  PROVE  StartupTypeOK'
<1>1. Seated'
  <2>1. Seated
    BY DEF Seated, StartupTypeOK
  <2>2. QED
    BY <2>1, Reseat, Places, SessionsPerPlace DEF Exits, Move
<1>2. batch' \in [Proc -> 1..Len(Script)]
  BY ScriptLength, Turning DEF Exits, StartupTypeOK
<1>3. cmd' \in [Proc -> Cmd \cup {"none"}]
  BY DEF Exits, StartupTypeOK
<1>4. attempt' \in [Proc -> 0..Retries]
  <2>1. 0 \in 0..Retries
    BY StartAssumption
  <2>2. QED
    BY <2>1 DEF Exits, StartupTypeOK
<1>5. QED
  BY <1>1, <1>2, <1>3, <1>4 DEF StartupTypeOK, Seated

LEMMA StartupTypeStep == StartupTypeOK /\ [StartupNext]_startupVars => StartupTypeOK'
<1> SUFFICES ASSUME StartupTypeOK, [StartupNext]_startupVars
             PROVE  StartupTypeOK'
  OBVIOUS
<1>0. /\ Seated
      /\ made \in 0..Len(Script) /\ spoiled \in BOOLEAN
      /\ batch \in [Proc -> 1..Len(Script)]
      /\ cmd \in [Proc -> Cmd \cup {"none"}] /\ attempt \in [Proc -> 0..Retries]
      /\ \A p \in Proc : sessions[p] \in SessionsAt(pc[p])
  BY DEF StartupTypeOK, Seated
<1>1. CASE UNCHANGED startupVars
  BY <1>1 DEF startupVars, procVars, StartupTypeOK
<1>2. ASSUME NEW p \in Proc, Begin(p)
      PROVE  StartupTypeOK'
  <2>1. sessions[p] = 0
    BY <1>0, <1>2, SessionsPerPlace DEF Begin
  <2>2. Seated'
    BY <1>0, <1>2, <2>1, SessionsPerPlace, Walk DEF Begin, Place
  <2>3. QED
    BY <1>0, <1>2, <2>2 DEF Begin, StartupTypeOK, Seated
<1>3. ASSUME NEW p \in Proc, Open(p)
      PROVE  StartupTypeOK'
  <2>1. sessions[p] \in {0, 1}
    BY <1>0, <1>3, SessionsPerPlace DEF Open
  <2>2. sessions[p] + 1 \in {1, 2}
    BY <2>1
  <2>3. Seated'
    BY <1>0, <1>3, <2>2, SessionsPerPlace, Places, Reseat DEF Open, Move
  <2>4. QED
    BY <1>0, <1>3, <2>3 DEF Open, StartupTypeOK, Seated
<1>4. ASSUME NEW p \in Proc, NEW c \in Cmd, SetOptions(p, c)
      PROVE  StartupTypeOK'
  <2>1. CASE c = "prune"
    <3>1. Seated'
      BY <1>0, <1>4, <2>1, SessionsPerPlace, Places, Reseat DEF SetOptions, Move
    <3>2. QED
      BY <1>0, <1>4, <3>1, StartAssumption DEF SetOptions, StartupTypeOK, Seated
  <2>2. CASE c # "prune"
    <3>1. Seated'
      BY <1>0, <1>4, <2>2, SessionsPerPlace, Places, Reseat DEF SetOptions, Move
    <3>2. QED
      BY <1>0, <1>4, <3>1, StartAssumption DEF SetOptions, StartupTypeOK, Seated
  <2>3. QED
    BY <2>1, <2>2
<1>5. ASSUME NEW p \in Proc, Ask(p)
      PROVE  StartupTypeOK'
  <2>1. CASE Exits(p)
    BY <1>0, <1>5, <2>1, ExitsType DEF Ask
  <2>2. CASE (Move(p, "ready") \/ Move(p, "looking")) /\ UNCHANGED <<cmd, attempt, sessions, batch>>
    <3>1. sessions[p] = 1
      BY <1>0, <1>5, SessionsPerPlace DEF Ask
    <3>2. Seated'
      BY <1>0, <2>2, <3>1, SessionsPerPlace, Walk DEF Place, Connected, Bootstrapping
    <3>3. QED
      BY <1>0, <1>5, <2>2, <3>2 DEF Ask, StartupTypeOK, Seated
  <2>3. QED
    BY <1>5, <2>1, <2>2 DEF Ask
<1>6. ASSUME NEW p \in Proc, Look(p)
      PROVE  StartupTypeOK'
  <2>1. sessions[p] = 1
    BY <1>0, <1>6, SessionsPerPlace DEF Look
  <2>2. /\ batch' \in [Proc -> 1..Len(Script)]
        /\ Move(p, "looking") \/ Move(p, "ready") \/ Move(p, "making")
    BY <1>0, <1>6, NextBatchType DEF Look
  <2>3. Seated'
    BY <1>0, <1>6, <2>1, <2>2, SessionsPerPlace, Walk DEF Look, Place, Connected, Bootstrapping
  <2>4. QED
    BY <1>0, <1>6, <2>2, <2>3 DEF Look, StartupTypeOK, Seated
<1>7. ASSUME NEW p \in Proc, Make(p)
      PROVE  StartupTypeOK'
  <2>1. CASE batch[p] <= made
    BY <1>0, <1>7, <2>1, ExitsType DEF Make
  <2>2. CASE ~(batch[p] <= made)
    <3>1. sessions[p] = 1
      BY <1>0, <1>7, SessionsPerPlace DEF Make
    <3>2. /\ batch' \in [Proc -> 1..Len(Script)]
          /\ Move(p, "looking") \/ Move(p, "ready")
      BY <1>7, <2>2, NextBatchType DEF Make
    <3>3. Seated'
      BY <1>0, <1>7, <2>2, <3>1, <3>2, SessionsPerPlace, Walk
         DEF Make, Place, Connected, Bootstrapping
    <3>4. batch[p] \in 0..Len(Script)
      BY <1>0, ScriptLength
    <3>5. /\ made' \in 0..Len(Script)
          /\ spoiled' \in BOOLEAN
      BY <1>7, <2>2, <3>4 DEF Make
    <3>6. QED
      BY <1>0, <1>7, <2>2, <3>2, <3>3, <3>5 DEF Make, StartupTypeOK, Seated
  <2>3. QED
    BY <2>1, <2>2
<1>8. ASSUME NEW p \in Proc, Close(p)
      PROVE  StartupTypeOK'
  <2>1. CASE cmd[p] = "prune"
    <3>1. Seated'
      BY <1>0, <1>8, <2>1, SessionsPerPlace, Places, Reseat DEF Close, Move
    <3>2. QED
      BY <1>0, <1>8, <2>1, <3>1 DEF Close, StartupTypeOK, Seated
  <2>2. CASE cmd[p] # "prune"
    BY <1>0, <1>8, <2>2, ExitsType DEF Close
  <2>3. QED
    BY <2>1, <2>2
<1>9. ASSUME NEW p \in Proc, Leave(p)
      PROVE  StartupTypeOK'
  BY <1>0, <1>9, ExitsType DEF Leave
<1>10. ASSUME NEW p \in Proc, AttemptFails(p)
       PROVE  StartupTypeOK'
  <2>1. CASE attempt[p] < Retries
    <3>1. attempt' \in [Proc -> 0..Retries]
      <4>1. attempt[p] \in 0..Retries
        BY <1>0
      <4>2. attempt[p] + 1 \in 0..Retries
        BY <2>1, <4>1, StartAssumption
      <4>3. QED
        BY <1>0, <1>10, <2>1, <4>2 DEF AttemptFails
    <3>2. CASE pc[p] = "setting"
      <4>1. Seated'
        BY <1>0, <1>10, <2>1, <3>2, SessionsPerPlace, Places, Reseat DEF AttemptFails, Move
      <4>2. QED
        BY <1>0, <1>10, <2>1, <3>1, <4>1 DEF AttemptFails, StartupTypeOK, Seated
    <3>3. CASE pc[p] = "opening"
      <4>1. sessions[p] \in 0..2 /\ sessions[p] \in SessionsAt("opening")
        BY <1>0, <3>3 DEF Seated
      <4>2. sessions' = [sessions EXCEPT ![p] = sessions[p]]
        BY <1>10, <2>1, <3>3 DEF AttemptFails
      <4>3. Seated'
        BY <1>0, <1>10, <2>1, <4>1, <4>2, Places, Reseat DEF AttemptFails, Move
      <4>4. QED
        BY <1>0, <1>10, <2>1, <3>1, <4>3 DEF AttemptFails, StartupTypeOK, Seated
    <3>4. QED
      BY <1>10, <3>2, <3>3 DEF AttemptFails
  <2>2. CASE ~(attempt[p] < Retries)
    BY <1>0, <1>10, <2>2, ExitsType DEF AttemptFails
  <2>3. QED
    BY <2>1, <2>2
<1>11. ASSUME NEW p \in Proc, CommandFails(p)
       PROVE  StartupTypeOK'
  BY <1>0, <1>11, ExitsType DEF CommandFails
<1>12. QED
  BY <1>1, <1>2, <1>3, <1>4, <1>5, <1>6, <1>7, <1>8, <1>9, <1>10, <1>11
     DEF StartupNext, Prepare

(* Every variable keeps its type, and a command has the sessions that go     *)
(* with its place: two at most while a retry replaces a half-open one, one   *)
(* while connected, none before and after (connect, Repository.__exit__).    *)
THEOREM StartupTypeCorrect == StartupSpec => []StartupTypeOK
<1>1. QED
  BY StartupTypeInit, StartupTypeStep, PTL DEF StartupSpec

-----------------------------------------------------------------------------
(* A bootstrap that is at a batch has found or made all objects before it;   *)
(* and while there is something, but not all, somebody leads.                *)
InOrder ==
  \A p \in Proc : /\ pc[p] \notin Bootstrapping => batch[p] = 1
                  /\ batch[p] <= made + 1

Leads(p) == pc[p] \in Bootstrapping /\ batch[p] = made + 1

Led == 0 < made /\ made < Len(Script) /\ ~spoiled => \E p \in Proc : Leads(p)

LEMMA LedMeansUnspoiled == StartupTypeOK /\ Led => SchemaUnspoiled
<1> SUFFICES ASSUME StartupTypeOK, Led, SchemaExists, made < Len(Script), ~spoiled
             PROVE  \E p \in Proc : pc[p] \in Bootstrapping /\ batch[p] = made + 1
  BY DEF SchemaUnspoiled
<1>1. PICK i \in 1..made : TRUE
  BY DEF SchemaExists, Exists
<1>2. 0 < made
  BY <1>1 DEF StartupTypeOK
<1>3. QED
  BY <1>2 DEF Led, Leads

LEMMA InOrderStep ==
  StartupTypeOK /\ InOrder /\ [StartupNext]_startupVars => InOrder'
<1> SUFFICES ASSUME StartupTypeOK, InOrder, [StartupNext]_startupVars
             PROVE  InOrder'
  OBVIOUS
<1>0. /\ pc \in [Proc -> Place] /\ batch \in [Proc -> 1..Len(Script)]
      /\ made \in Int /\ \A p \in Proc : batch[p] \in Int
  BY ScriptLength DEF StartupTypeOK
<1> USE <1>0 DEF InOrder, Bootstrapping
<1>1. CASE UNCHANGED startupVars
  BY <1>1 DEF startupVars, procVars
<1>2. ASSUME NEW p \in Proc, Exits(p), UNCHANGED made
      PROVE  InOrder'
  BY <1>2 DEF Exits, Move
<1>3. ASSUME NEW p \in Proc, Begin(p) \/ Open(p)
      PROVE  InOrder'
  BY <1>3 DEF Begin, Open, Move
<1>4. ASSUME NEW p \in Proc, NEW c \in Cmd, SetOptions(p, c)
      PROVE  InOrder'
  BY <1>4 DEF SetOptions, Move
<1>5. ASSUME NEW p \in Proc, Ask(p)
      PROVE  InOrder'
  BY <1>2, <1>5 DEF Ask, Move
<1>6. ASSUME NEW p \in Proc, Look(p)
      PROVE  InOrder'
  <2>1. CASE ~(batch[p] <= made)
    BY <1>6, <2>1 DEF Look, Move
  <2>2. CASE batch[p] <= made /\ batch[p] < Last
    BY <1>6, <2>2 DEF Look, NextBatch, Move
  <2>3. CASE batch[p] <= made /\ ~(batch[p] < Last)
    BY <1>6, <2>3 DEF Look, NextBatch, Move
  <2>4. QED
    BY <2>1, <2>2, <2>3
<1>7. ASSUME NEW p \in Proc, Make(p)
      PROVE  InOrder'
  <2>1. CASE batch[p] <= made
    BY <1>2, <1>7, <2>1 DEF Make
  <2>2. CASE ~(batch[p] <= made) /\ batch[p] < Last
    BY <1>7, <2>2 DEF Make, NextBatch, Move
  <2>3. CASE ~(batch[p] <= made) /\ ~(batch[p] < Last)
    BY <1>7, <2>3 DEF Make, NextBatch, Move
  <2>4. QED
    BY <2>1, <2>2, <2>3
<1>8. ASSUME NEW p \in Proc, Close(p) \/ Leave(p) \/ AttemptFails(p) \/ CommandFails(p)
      PROVE  InOrder'
  BY <1>2, <1>8 DEF Close, Leave, AttemptFails, CommandFails, Move
<1>9. QED
  BY <1>1, <1>3, <1>4, <1>5, <1>6, <1>7, <1>8 DEF StartupNext, Prepare

(* Who does not touch the leader leaves the schema led.                      *)
LEMMA LedByOther ==
  ASSUME Led, NEW p \in Proc, UNCHANGED made, spoiled' = FALSE => spoiled = FALSE,
         StartupTypeOK, spoiled' \in BOOLEAN,
         \A q \in Proc : q # p => pc'[q] = pc[q] /\ batch'[q] = batch[q],
         Leads(p) => Leads(p)'
  PROVE  Led'
<1> SUFFICES ASSUME 0 < made, made < Len(Script), ~spoiled'
             PROVE  \E q \in Proc : Leads(q)'
  BY DEF Led
<1>1. ~spoiled
  BY DEF StartupTypeOK
<1>2. PICK q \in Proc : Leads(q)
  BY <1>1 DEF Led
<1>3. CASE q = p
  BY <1>2, <1>3
<1>4. CASE q # p
  <2>1. Leads(q)'
    BY <1>2, <1>4 DEF Leads, Bootstrapping
  <2>2. QED
    BY <2>1
<1>5. QED
  BY <1>3, <1>4

LEMMA LedStep ==
  StartupTypeOK /\ InOrder /\ Led /\ [StartupNext]_startupVars => Led'
<1> SUFFICES ASSUME StartupTypeOK, InOrder, Led, [StartupNext]_startupVars
             PROVE  Led'
  OBVIOUS
<1>0. /\ made \in 0..Len(Script) /\ spoiled \in BOOLEAN
      /\ \A p \in Proc : batch[p] \in 1..Len(Script)
      /\ pc \in [Proc -> Place] /\ batch \in [Proc -> 1..Len(Script)]
  BY DEF StartupTypeOK
<1> USE ScriptLength
<1>1. CASE UNCHANGED startupVars
  BY <1>1 DEF startupVars, procVars, Led, Leads
<1>2. ASSUME NEW p \in Proc,
             \/ Begin(p) \/ Open(p) \/ (\E c \in Cmd : SetOptions(p, c)) \/ Ask(p)
             \/ Close(p) \/ Leave(p) \/ AttemptFails(p)
      PROVE  Led'
  <2>1. ~Leads(p)
    BY <1>2 DEF Leads, Bootstrapping, Begin, Open, SetOptions, Ask, Close, Leave, AttemptFails
  <2>2. /\ UNCHANGED made /\ spoiled' = spoiled
        /\ \A q \in Proc : q # p => pc'[q] = pc[q] /\ batch'[q] = batch[q]
    BY <1>0, <1>2 DEF Begin, Open, SetOptions, Ask, Close, Leave, AttemptFails, Exits, Move
  <2>3. QED
    BY <1>0, <2>1, <2>2, LedByOther
<1>3. ASSUME NEW p \in Proc, Look(p)
      PROVE  Led'
  <2>1. /\ UNCHANGED made /\ spoiled' = spoiled
        /\ \A q \in Proc : q # p => pc'[q] = pc[q] /\ batch'[q] = batch[q]
    BY <1>0, <1>3 DEF Look, NextBatch, Move
  <2>2. Leads(p) => Leads(p)'
    BY <1>0, <1>3 DEF Look, Leads, Bootstrapping, Move
  <2>3. QED
    BY <1>0, <2>1, <2>2, LedByOther
<1>4. ASSUME NEW p \in Proc, Make(p)
      PROVE  Led'
  <2>1. CASE batch[p] <= made
    <3>1. ~Leads(p)
      BY <1>0, <2>1 DEF Leads
    <3>2. /\ UNCHANGED made /\ spoiled' = spoiled
          /\ \A q \in Proc : q # p => pc'[q] = pc[q] /\ batch'[q] = batch[q]
      BY <1>0, <1>4, <2>1 DEF Make, Exits, Move
    <3>3. QED
      BY <1>0, <3>1, <3>2, LedByOther
  <2>2. CASE ~(batch[p] <= made) /\ batch[p] < Len(Script)
    <3>1. /\ made' = batch[p]
          /\ pc'[p] = "looking" /\ batch'[p] = batch[p] + 1
      BY <1>0, <1>4, <2>2 DEF Make, NextBatch, Last, Move
    <3>2. Leads(p)'
      BY <3>1 DEF Leads, Bootstrapping
    <3>3. QED
      BY <3>2 DEF Led
  <2>3. CASE ~(batch[p] <= made) /\ ~(batch[p] < Len(Script))
    <3>1. made' = batch[p] /\ batch[p] = Len(Script)
      BY <1>0, <1>4, <2>3 DEF Make
    <3>2. ~(made' < Len(Script))
      BY <1>0, <3>1
    <3>3. QED
      BY <3>2 DEF Led
  <2>4. QED
    BY <2>1, <2>2, <2>3
<1>5. ASSUME NEW p \in Proc, CommandFails(p)
      PROVE  Led'
  <2>1. CASE pc[p] \in Bootstrapping /\ made < Len(Script)
    <3>1. spoiled'
      BY <1>5, <2>1 DEF CommandFails
    <3>2. QED
      BY <3>1 DEF Led
  <2>2. CASE pc[p] \notin Bootstrapping
    <3>1. /\ UNCHANGED made /\ spoiled' = spoiled
          /\ \A q \in Proc : q # p => pc'[q] = pc[q] /\ batch'[q] = batch[q]
      BY <1>0, <1>5, <2>2 DEF CommandFails, Exits, Move
    <3>2. QED
      BY <1>0, <2>2, <3>1, LedByOther DEF Leads
  <2>3. CASE ~(made < Len(Script))
    BY <1>5, <2>3 DEF CommandFails, Led
  <2>4. QED
    BY <2>1, <2>2, <2>3
<1>6. QED
  BY <1>1, <1>2, <1>3, <1>4, <1>5 DEF StartupNext, Prepare

(* However many bootstraps overlap and however they interleave, rivalry      *)
(* never leaves an incomplete schema behind that the next command would take *)
(* for a complete one (bootstrap, schema_exists).                            *)
THEOREM BootstrapComplete == StartupSpec => []SchemaUnspoiled
<1>1. StartupInit => InOrder /\ Led
  BY DEF StartupInit, InOrder, Led, Bootstrapping
<1>2. StartupTypeOK /\ InOrder /\ Led /\ [StartupNext]_startupVars => (InOrder /\ Led)'
  BY InOrderStep, LedStep
<1>3. StartupTypeOK /\ InOrder /\ Led => SchemaUnspoiled
  BY LedMeansUnspoiled
<1>4. QED
  BY <1>1, <1>2, <1>3, StartupTypeCorrect, PTL DEF StartupSpec

(***************************************************************************)
(* Retention                                                               *)
(***************************************************************************)

LEMMA MinOfTwo ==
  ASSUME NEW a \in Nat, NEW b \in Nat
  PROVE  /\ Min({a, b}) \in Nat
         /\ Min({a, b}) <= a
         /\ Min({a, b}) < b => Min({a, b}) = a
<1>1. \E x \in {a, b} : \A y \in {a, b} : x <= y
  OBVIOUS
<1>2. Min({a, b}) \in {a, b} /\ \A y \in {a, b} : Min({a, b}) <= y
  BY <1>1 DEF Min
<1>3. QED
  BY <1>2

(* What Next is made of.                                                     *)
Moves(p) == Start(p) \/ Enter(p) \/ Fail(p) \/ Exit(p) \/ Done(p) \/ Trim(p)

Works(p) ==
  \/ \E t \in Pruned : \E age \in 0..Late[t] : Write(p, t, age)
  \/ \E age \in 0..Late[Archive] : Export(p, age)
  \/ \E t \in Pruned : Delete(p, t) \/ SkipTable(p, t)

LEMMA NextCases == Next => Tick \/ \E p \in Proc : Moves(p) \/ Works(p)
BY DEF Next, Step, Fault, Moves, Works

(* Pruning starts like any command: all that Startup guarantees holds here.  *)
THEOREM StartsUp == Spec => StartupSpec
<1>1. Init => StartupInit
  BY DEF Init
<1>2. [Next]_vars => [StartupNext]_startupVars
  <2> SUFFICES ASSUME [Next]_vars
               PROVE  [StartupNext]_startupVars
    OBVIOUS
  <2>1. CASE UNCHANGED vars
    BY <2>1 DEF vars
  <2>2. CASE Tick
    BY <2>2 DEF Tick
  <2>3. ASSUME NEW p \in Proc, Moves(p)
        PROVE  [StartupNext]_startupVars
    BY <2>3 DEF Moves, Start, Enter, Fail, Exit, Done, Trim, StartupNext
  <2>4. ASSUME NEW p \in Proc, Works(p)
        PROVE  UNCHANGED startupVars
    BY <2>4 DEF Works, Write, Export, Delete, SkipTable
  <2>5. QED
    BY <2>1, <2>2, <2>3, <2>4, NextCases
<1>3. QED
  BY <1>1, <1>2, PTL DEF Spec, StartupSpec

(* The theorem of Startup, where rows are written and pruned besides.        *)
THEOREM SchemaComplete == Spec => []SchemaUnspoiled
BY StartsUp, BootstrapComplete, PTL

-----------------------------------------------------------------------------
(* Type correctness.                                                         *)

LEMMA Orders ==
  /\ Len(Order) \in Nat /\ Archive \in Store /\ Archive \notin Pruned
  /\ \A i \in 1..Len(Order) : Order[i] \in Pruned /\ Order[i] \in Store
<1>1. /\ Order \in Seq(Table) /\ Archive \notin Table
      /\ DOMAIN Order = 1..Len(Order)
  BY RetentionAssumption
<1>2. \A i \in 1..Len(Order) : Order[i] \in Table
  BY <1>1
<1>3. QED
  BY <1>1, <1>2 DEF Pruned, Store

LEMMA Horizon ==
  ASSUME NEW t \in Store
  PROVE  /\ Keep[t] \in Nat /\ Late[t] \in Nat /\ Window[t] \in Nat
         /\ Window[t] <= Keep[t] /\ Late[t] <= Keep[t]
         /\ Keep[t] + 1 \in Ages(t) /\ 0 \in Ages(t)
BY HorizonAssumption DEF Ages

RowsType ==
  /\ rows = [t \in Store |-> rows[t]]
  /\ \A t \in Store : rows[t] \in [Ages(t) -> Nat]

WalkType ==
  /\ visit \in [Proc -> 1..Len(Order)+1]
  /\ errors \in [Proc -> SUBSET Pruned]
  /\ doomed \in [Proc -> Nat]
  /\ turned \in [Proc -> BOOLEAN]

LEMMA TypeParts == TypeOK <=> StartupTypeOK /\ RowsType /\ WalkType
BY DEF TypeOK, RowsType, WalkType

(* One count of one store changes.                                           *)
LEMMA Recount ==
  ASSUME RowsType, NEW t \in Store, NEW a \in Ages(t), NEW n \in Nat,
         rows' = [rows EXCEPT ![t][a] = n]
  PROVE  /\ RowsType'
         /\ rows'[t] = [rows[t] EXCEPT ![a] = n]
         /\ \A u \in Store : u # t => rows'[u] = rows[u]
<1>1. rows' = [u \in Store |-> IF u = t THEN [rows[t] EXCEPT ![a] = n] ELSE rows[u]]
  BY DEF RowsType
<1>2. [rows[t] EXCEPT ![a] = n] \in [Ages(t) -> Nat]
  BY DEF RowsType
<1>3. QED
  BY <1>1, <1>2 DEF RowsType

LEMMA DeletedCount ==
  ASSUME RowsType, NEW p \in Proc, NEW t \in Store
  PROVE  /\ Expired(t) \in Nat /\ Deleted(p, t) \in Nat
         /\ Expired(t) - Deleted(p, t) \in Nat
         /\ Expired(t) - Deleted(p, t) <= Expired(t)
         /\ Deleted(p, t) < BatchSize(p, t) => Expired(t) - Deleted(p, t) = 0
<1>1. Expired(t) \in Nat
  BY Horizon DEF Expired, RowsType
<1>2. BatchSize(p, t) \in Nat
  BY <1>1, RetentionAssumption DEF BatchSize
<1>3. /\ Deleted(p, t) \in Nat /\ Deleted(p, t) <= Expired(t)
      /\ Deleted(p, t) < BatchSize(p, t) => Deleted(p, t) = Expired(t)
  BY <1>1, <1>2, MinOfTwo DEF Deleted
<1>4. QED
  BY <1>1, <1>3

LEMMA ForgetType == ASSUME WalkType, NEW p \in Proc, Forget(p) PROVE WalkType'
<1>1. 1 \in 1..Len(Order)+1
  BY Orders
<1>2. QED
  BY <1>1 DEF Forget, WalkType

LEMMA RowsStep == RowsType /\ [Next]_vars => RowsType'
<1> SUFFICES ASSUME RowsType, [Next]_vars
             PROVE  RowsType'
  OBVIOUS
<1>1. CASE UNCHANGED rows
  BY <1>1 DEF RowsType
<1>2. CASE Tick
  <2>1. \A t \in Store : Older(t) \in [Ages(t) -> Nat]
    <3> TAKE t \in Store
    <3>1. ASSUME NEW a \in Ages(t)
          PROVE  (CASE a = 0            -> 0
                    [] a \in 1..Keep[t] -> rows[t][a - 1]
                    [] a = Keep[t] + 1  -> rows[t][a - 1] + rows[t][a]) \in Nat
      <4>1. a = 0 \/ a \in 1..Keep[t] \/ a = Keep[t] + 1
        BY Horizon DEF Ages
      <4>2. a # 0 => a - 1 \in Ages(t)
        BY Horizon DEF Ages
      <4>3. rows[t][a] \in Nat /\ (a # 0 => rows[t][a - 1] \in Nat)
        BY <4>2 DEF RowsType
      <4>4. QED
        BY <4>1, <4>3, Horizon
    <3>2. QED
      BY <3>1 DEF Older
  <2>2. rows' = [t \in Store |-> Older(t)]
    BY <1>2 DEF Tick
  <2>3. QED
    BY <2>1, <2>2 DEF RowsType
<1>3. ASSUME NEW p \in Proc, NEW t \in Pruned, NEW age \in 0..Late[t], Write(p, t, age)
      PROVE  RowsType'
  <2>1. t \in Store /\ age \in Ages(t)
    BY Horizon DEF Store, Ages
  <2>2. rows[t][age] + 1 \in Nat
    BY <2>1 DEF RowsType
  <2>3. QED
    BY <1>3, <2>1, <2>2, Recount DEF Write
<1>4. ASSUME NEW p \in Proc, NEW age \in 0..Late[Archive], Export(p, age)
      PROVE  RowsType'
  <2>1. Archive \in Store /\ age \in Ages(Archive)
    BY Orders, Horizon DEF Ages
  <2>2. PICK n \in Nat : n = 1
    OBVIOUS
  <2>3. rows' = [rows EXCEPT ![Archive][age] = n]
    BY <1>4, <2>2 DEF Export
  <2>4. QED
    BY <2>1, <2>3, Recount
<1>5. ASSUME NEW p \in Proc, NEW t \in Pruned, Delete(p, t)
      PROVE  RowsType'
  <2>1. t \in Store
    BY DEF Store
  <2>2. rows' = [rows EXCEPT ![t][Keep[t] + 1] = Expired(t) - Deleted(p, t)]
    BY <1>5 DEF Delete, Expired
  <2>3. QED
    BY <2>1, <2>2, DeletedCount, Horizon, Recount
<1>6. ASSUME NEW p \in Proc, Trim(p)
      PROVE  RowsType'
  <2>1. CASE UNCHANGED rows
    BY <1>1, <2>1
  <2>2. CASE /\ Expired(Archive) > 0
             /\ rows' = [rows EXCEPT ![Archive][Keep[Archive] + 1] = @ - 1]
    <3>1. Expired(Archive) \in Nat
      BY Orders, Horizon DEF Expired, RowsType
    <3>2. Expired(Archive) - 1 \in Nat
      BY <2>2, <3>1
    <3>3. rows' = [rows EXCEPT ![Archive][Keep[Archive] + 1] = Expired(Archive) - 1]
      BY <2>2 DEF Expired
    <3>4. QED
      BY <3>2, <3>3, Orders, Horizon, Recount
  <2>3. QED
    BY <1>6, <2>1, <2>2 DEF Trim
<1>7. ASSUME NEW p \in Proc,
             Start(p) \/ Enter(p) \/ Fail(p) \/ Exit(p) \/ Done(p) \/ \E t \in Pruned : SkipTable(p, t)
      PROVE  RowsType'
  BY <1>1, <1>7 DEF Start, Enter, Fail, Exit, Done, SkipTable
<1>8. QED
  BY <1>1, <1>2, <1>3, <1>4, <1>5, <1>6, <1>7, NextCases DEF Moves, Works, vars

LEMMA WalkStep == RowsType /\ WalkType /\ [Next]_vars => WalkType'
<1> SUFFICES ASSUME RowsType, WalkType, [Next]_vars
             PROVE  WalkType'
  OBVIOUS
<1>0. /\ Len(Order) \in Nat
      /\ \A p \in Proc : visit[p] \in 1..Len(Order)+1
  BY Orders DEF WalkType
<1>1. CASE UNCHANGED <<walkVars, turned>>
  BY <1>1 DEF WalkType, walkVars
<1>2. CASE Tick
  BY <1>2 DEF Tick, WalkType, walkVars
<1>3. ASSUME NEW p \in Proc, Forget(p)
      PROVE  WalkType'
  BY <1>3, ForgetType
<1>4. ASSUME NEW p \in Proc, NEW t \in Pruned, Delete(p, t) \/ SkipTable(p, t)
      PROVE  WalkType'
  <2>1. visit[p] + 1 \in 1..Len(Order)+1
    BY <1>0, <1>4 DEF Delete, SkipTable, Visiting
  <2>2. visit' \in [Proc -> 1..Len(Order)+1]
    BY <1>4, <2>1 DEF Delete, SkipTable, WalkType
  <2>3. errors' \in [Proc -> SUBSET Pruned]
    <3>1. errors \in [Proc -> SUBSET Pruned]
      BY DEF WalkType
    <3>2. errors[p] \cup {t} \in SUBSET Pruned
      BY <3>1
    <3>3. [errors EXCEPT ![p] = errors[p] \cup {t}] \in [Proc -> SUBSET Pruned]
      BY ONLY <3>1, <3>2
    <3>4. QED
      BY <1>4, <3>1, <3>3 DEF Delete, SkipTable
  <2>4. QED
    BY <1>4, <2>2, <2>3 DEF Delete, SkipTable, WalkType
<1>5. ASSUME NEW p \in Proc, Done(p)
      PROVE  WalkType'
  <2>1. 1 \in 1..Len(Order)+1
    BY <1>0
  <2>2. Expired(Archive) \in Nat
    BY Orders, Horizon DEF Expired, RowsType
  <2>3. QED
    BY <1>5, <2>1, <2>2 DEF Done, WalkType
<1>6. ASSUME NEW p \in Proc, Trim(p)
      PROVE  WalkType'
  <2>1. CASE Forget(p)
    BY <1>3, <2>1
  <2>2. CASE /\ doomed[p] > 0
             /\ doomed' = [doomed EXCEPT ![p] = @ - 1]
             /\ UNCHANGED <<visit, errors, turned>>
    BY <2>2 DEF WalkType
  <2>3. QED
    BY <1>6, <2>1, <2>2 DEF Trim
<1>7. QED
  BY <1>1, <1>2, <1>3, <1>4, <1>5, <1>6, NextCases
     DEF Moves, Works, Start, Enter, Fail, Exit, Write, Export, vars

(* Every variable of Retention keeps its type, and that of Startup too: no   *)
(* count goes below zero, whoever deletes at the same time.                  *)
THEOREM TypeCorrect == Spec => []TypeOK
<1>1. Init => RowsType /\ WalkType
  <2> SUFFICES ASSUME Init
               PROVE  RowsType /\ WalkType
    OBVIOUS
  <2>1. RowsType
    BY DEF Init, RowsType
  <2>2. 1 \in 1..Len(Order)+1
    BY Orders
  <2>3. WalkType
    BY <2>2 DEF Init, WalkType
  <2>4. QED
    BY <2>1, <2>3
<1>2. RowsType /\ WalkType /\ [Next]_vars => (RowsType /\ WalkType)'
  BY RowsStep, WalkStep
<1>3. QED
  BY <1>1, <1>2, StartsUp, StartupTypeCorrect, TypeParts, PTL DEF Spec

-----------------------------------------------------------------------------
(* Only a prune that deletes is past its first table; and what it has left   *)
(* behind is clean.                                                          *)
Walking ==
  \A p \in Proc : visit[p] > 1 => pc[p] = "ready" /\ cmd[p] = "prune"

LEMMA OthersStay ==
  ASSUME NEW p \in Proc, Moves(p) \/ Works(p), TypeOK, NEW q \in Proc, q # p
  PROVE  /\ pc'[q] = pc[q] /\ cmd'[q] = cmd[q]
         /\ visit'[q] = visit[q] /\ errors'[q] = errors[q] /\ turned'[q] = turned[q]
<1> USE DEF TypeOK, StartupTypeOK
<1>1. \/ (UNCHANGED walkVars /\ UNCHANGED turned) \/ Forget(p) \/ Done(p)
      \/ (\E t \in Pruned : Delete(p, t) \/ SkipTable(p, t))
      \/ Trim(p)
  BY DEF Moves, Works, Start, Enter, Fail, Exit, Write, Export
<1>2. visit'[q] = visit[q] /\ errors'[q] = errors[q] /\ turned'[q] = turned[q]
  BY <1>1 DEF Forget, Done, Delete, SkipTable, Trim, walkVars
<1>3. UNCHANGED startupVars \/ Begin(p) \/ Prepare(p) \/ AttemptFails(p) \/ CommandFails(p)
      \/ Leave(p) \/ Close(p)
  BY DEF Moves, Works, Start, Enter, Fail, Exit, Done, Trim, Write, Export, Delete, SkipTable
<1>4. pc'[q] = pc[q] /\ cmd'[q] = cmd[q]
  BY <1>3 DEF startupVars, procVars, Begin, Prepare, Open, SetOptions, Ask, Look, Make, NextBatch,
     AttemptFails, CommandFails, Leave, Close, Exits, Move
<1>5. QED
  BY <1>2, <1>4

LEMMA WalkingStep == TypeOK /\ Walking /\ [Next]_vars => Walking'
<1> SUFFICES ASSUME TypeOK, Walking, [Next]_vars
             PROVE  Walking'
  OBVIOUS
<1>1. CASE UNCHANGED vars
  BY <1>1 DEF vars, startupVars, procVars, walkVars, Walking
<1>2. CASE Tick
  BY <1>2 DEF Tick, startupVars, procVars, walkVars, Walking
<1>3. ASSUME NEW p \in Proc, Moves(p) \/ Works(p)
      PROVE  Walking'
  <2>1. visit'[p] > 1 => pc'[p] = "ready" /\ cmd'[p] = "prune"
    <3>1. CASE Forget(p) \/ Done(p)
      BY <3>1 DEF Forget, Done, TypeOK
    <3>2. CASE Start(p) \/ Enter(p)
      <4>1. visit'[p] = visit[p] /\ pc[p] # "ready"
        BY <3>2 DEF Start, Enter, walkVars, Begin, Prepare, Open, SetOptions, Ask, Look, Make
      <4>2. QED
        BY <4>1 DEF Walking
    <3>3. CASE Trim(p) /\ ~Forget(p)
      BY <3>3 DEF Trim, Walking, startupVars, procVars
    <3>4. CASE Works(p)
      <4>1. CASE \E t \in Pruned : Delete(p, t) \/ SkipTable(p, t)
        BY <4>1 DEF Delete, SkipTable, Visiting, startupVars, procVars
      <4>2. CASE ~\E t \in Pruned : Delete(p, t) \/ SkipTable(p, t)
        BY <3>4, <4>2 DEF Works, Write, Export, Walking, startupVars, procVars, walkVars
      <4>3. QED
        BY <4>1, <4>2
    <3>5. QED
      BY <1>3, <3>1, <3>2, <3>3, <3>4 DEF Moves, Fail, Exit
  <2>2. QED
    BY <1>3, <2>1, OthersStay DEF Walking
<1>4. QED
  BY <1>1, <1>2, <1>3, NextCases

(* No step but the turn of a day makes a table less clean.                   *)
LEMMA StaysClean ==
  ASSUME TypeOK, NEW p \in Proc, Moves(p) \/ Works(p), NEW u \in Pruned, Expired(u) = 0
  PROVE  Expired(u)' = 0
<1>0. u \in Store /\ RowsType /\ u # Archive
  BY Orders, TypeParts DEF Store
<1>1. CASE UNCHANGED rows
  BY <1>1 DEF Expired
<1>2. ASSUME NEW t \in Pruned, NEW age \in 0..Late[t], Write(p, t, age)
      PROVE  Expired(u)' = 0
  <2>1. t \in Store /\ age \in Ages(t) /\ age # Keep[t] + 1
    BY Horizon DEF Store, Ages
  <2>2. rows[t][age] + 1 \in Nat
    BY <1>0, <2>1 DEF RowsType
  <2>3. rows' = [rows EXCEPT ![t][age] = rows[t][age] + 1]
    BY <1>2 DEF Write
  <2>4. rows'[u][Keep[u] + 1] = rows[u][Keep[u] + 1]
    BY <1>0, <2>1, <2>2, <2>3, Horizon, Recount DEF RowsType
  <2>5. QED
    BY <2>4 DEF Expired
<1>3. CASE \E age \in 0..Late[Archive] : Export(p, age)
  <2>1. rows'[u] = rows[u]
    BY <1>0, <1>3, Orders DEF Export, RowsType
  <2>2. QED
    BY <2>1 DEF Expired
<1>4. ASSUME NEW t \in Pruned, Delete(p, t)
      PROVE  Expired(u)' = 0
  <2>1. t \in Store
    BY DEF Store
  <2>2. /\ rows' = [rows EXCEPT ![t][Keep[t] + 1] = Expired(t) - Deleted(p, t)]
        /\ Expired(t) - Deleted(p, t) \in Nat /\ Expired(t) - Deleted(p, t) <= Expired(t)
    BY <1>0, <1>4, <2>1, DeletedCount DEF Delete, Expired
  <2>3. /\ rows'[t] = [rows[t] EXCEPT ![Keep[t] + 1] = Expired(t) - Deleted(p, t)]
        /\ u # t => rows'[u] = rows[u]
    <3>1. PICK n \in Nat : n = Expired(t) - Deleted(p, t)
      BY <2>2
    <3>2. Keep[t] + 1 \in Ages(t) /\ rows' = [rows EXCEPT ![t][Keep[t] + 1] = n]
      BY <2>1, <2>2, <3>1, Horizon
    <3>3. rows'[t] = [rows[t] EXCEPT ![Keep[t] + 1] = n]
      BY <1>0, <2>1, <3>2 DEF RowsType
    <3>4. u # t => rows'[u] = rows[u]
      BY <1>0, <2>1, <3>2 DEF RowsType
    <3>5. QED
      BY <3>1, <3>3, <3>4
  <2>4. rows'[t][Keep[t] + 1] = Expired(t) - Deleted(p, t)
    BY <1>0, <2>1, <2>3, Horizon DEF RowsType
  <2>5. CASE u = t
    BY <2>2, <2>4, <2>5 DEF Expired
  <2>6. CASE u # t
    BY <2>3, <2>6 DEF Expired
  <2>7. QED
    BY <2>5, <2>6
<1>5. CASE Trim(p)
  <2>1. CASE UNCHANGED rows
    BY <1>1, <2>1
  <2>2. CASE /\ Expired(Archive) > 0
             /\ rows' = [rows EXCEPT ![Archive][Keep[Archive] + 1] = @ - 1]
    <3>1. rows'[u] = rows[u]
      BY <1>0, <2>2, Orders DEF RowsType
    <3>2. QED
      BY <3>1 DEF Expired
  <2>3. QED
    BY <1>5, <2>1, <2>2 DEF Trim
<1>6. QED
  BY <1>1, <1>2, <1>3, <1>4, <1>5
     DEF Moves, Works, Start, Enter, Fail, Exit, Done, SkipTable

LEMMA CleanStep == TypeOK /\ Walking /\ PrunedClean /\ [Next]_vars => PrunedClean'
<1> SUFFICES ASSUME TypeOK, Walking, PrunedClean, [Next]_vars
             PROVE  PrunedClean'
  OBVIOUS
<1>0. /\ RowsType /\ WalkType /\ Len(Order) \in Nat
      /\ \A q \in Proc : visit[q] \in 1..Len(Order)+1
  BY TypeParts, Orders DEF WalkType
<1>1. CASE UNCHANGED vars
  BY <1>1 DEF vars, walkVars, PrunedClean, Expired
<1>2. CASE Tick
  <2> SUFFICES ASSUME NEW q \in Proc, NEW i \in 1..visit'[q]-1
               PROVE  turned'[q]
    BY DEF PrunedClean
  <2>1. visit[q] > 1
    BY <1>0, <1>2 DEF Tick, walkVars
  <2>2. QED
    BY <1>2, <2>1 DEF Tick, Walking
<1>3. ASSUME NEW p \in Proc, Moves(p) \/ Works(p)
      PROVE  PrunedClean'
  <2> SUFFICES ASSUME NEW q \in Proc, NEW i \in 1..visit'[q]-1, ~turned'[q],
                      Order[i] \notin errors'[q]
               PROVE  Expired(Order[i])' = 0
    BY DEF PrunedClean, Expired
  <2>0. WalkType'
    BY <1>0, WalkStep
  <2>1. i \in 1..Len(Order) /\ Order[i] \in Pruned /\ Order[i] \in Store
    BY <1>0, <2>0, Orders DEF WalkType
  <2>2. CASE i < visit[q] /\ turned'[q] = turned[q] /\ errors[q] \subseteq errors'[q]
    <3>1. Expired(Order[i]) = 0
      BY <1>0, <2>2 DEF PrunedClean
    <3>2. QED
      BY <1>3, <2>1, <3>1, StaysClean
  <2>3. CASE q = p /\ \E t \in Pruned : Delete(p, t)
    <3>1. PICK t \in Pruned : Delete(p, t)
      BY <2>3
    <3>2. CASE i < visit[p]
      BY <2>2, <2>3, <3>1, <3>2 DEF Delete
    <3>3. CASE ~(i < visit[p])
      <4>1. /\ Deleted(p, t) < BatchSize(p, t)
            /\ i = visit[p]
        BY <1>0, <2>3, <3>1, <3>3 DEF Delete, WalkType
      <4>2. t = Order[i] /\ t \in Store
        BY <3>1, <4>1 DEF Delete, Visiting, Store
      <4>3. rows' = [rows EXCEPT ![t][Keep[t] + 1] = 0]
        BY <1>0, <3>1, <4>1, <4>2, DeletedCount DEF Delete, Expired
      <4>4. rows'[t][Keep[t] + 1] = 0
        BY <1>0, <4>2, <4>3, Horizon, Recount DEF RowsType
      <4>5. QED
        BY <4>2, <4>4 DEF Expired
    <3>4. QED
      BY <3>2, <3>3
  <2>4. CASE q = p /\ \E t \in Pruned : SkipTable(p, t)
    <3>1. PICK t \in Pruned : SkipTable(p, t)
      BY <2>4
    <3>2. errors'[p] = errors[p] \cup {t} /\ turned' = turned /\ visit'[p] = visit[p] + 1
      BY <1>0, <3>1 DEF SkipTable, WalkType
    <3>3. i # visit[p]
      BY <2>4, <3>1, <3>2 DEF SkipTable, Visiting
    <3>4. QED
      BY <1>0, <2>2, <2>4, <3>2, <3>3
  <2>5. CASE q = p /\ (Forget(p) \/ Done(p))
    BY <1>0, <2>5 DEF Forget, Done, WalkType
  <2>6. CASE \/ q # p
             \/ UNCHANGED <<visit, errors, turned>>
    <3>1. visit'[q] = visit[q] /\ errors'[q] = errors[q] /\ turned'[q] = turned[q]
      BY <1>3, <2>6, OthersStay
    <3>2. QED
      BY <1>0, <2>2, <3>1
  <2>7. QED
    BY <1>3, <2>3, <2>4, <2>5, <2>6
       DEF Moves, Works, Start, Enter, Fail, Exit, Trim, Write, Export, walkVars
<1>4. QED
  BY <1>1, <1>2, <1>3, NextCases

(* What prune does not report as an error it has left clean (_prune_table).  *)
THEOREM LeftClean == Spec => []PrunedClean
<1>1. Init => Walking /\ PrunedClean
  BY DEF Init, Walking, PrunedClean
<1>2. TypeOK /\ Walking /\ PrunedClean /\ [Next]_vars => (Walking /\ PrunedClean)'
  BY WalkingStep, CleanStep
<1>3. QED
  BY <1>1, <1>2, TypeCorrect, PTL DEF Spec

-----------------------------------------------------------------------------
(* The rows within the windows of the readers, as RecentRows has them.       *)
Seen == [t \in Store |-> [a \in 0..Window[t] |-> rows[t][a]]]

LEMMA CellSeen ==
  ASSUME RowsType, NEW t \in Store, NEW a \in Ages(t), NEW n \in Nat,
         rows' = [rows EXCEPT ![t][a] = n]
  PROVE  /\ a > Window[t] => UNCHANGED Seen
         /\ a <= Window[t] => Seen' = [Seen EXCEPT ![t][a] = n]
<1>1. /\ rows'[t] = [rows[t] EXCEPT ![a] = n]
      /\ \A u \in Store : u # t => rows'[u] = rows[u]
  BY Recount
<1>2. /\ Window[t] \in Nat /\ Keep[t] \in Nat /\ a \in 0..Keep[t]+1 /\ Window[t] <= Keep[t]
      /\ rows[t] \in [0..Keep[t]+1 -> Nat]
  BY Horizon DEF Ages, RowsType
<1>3. \A b \in 0..Window[t] : rows'[t][b] = IF b = a THEN n ELSE rows[t][b]
  BY <1>1, <1>2
<1>4. ASSUME a > Window[t]
      PROVE  UNCHANGED Seen
  <2>1. \A b \in 0..Window[t] : rows'[t][b] = rows[t][b]
    BY <1>2, <1>3, <1>4
  <2>2. [b \in 0..Window[t] |-> rows'[t][b]] = [b \in 0..Window[t] |-> rows[t][b]]
    BY <2>1
  <2>3. \A u \in Store : [b \in 0..Window[u] |-> rows'[u][b]] = [b \in 0..Window[u] |-> rows[u][b]]
    BY <1>1, <2>2
  <2>4. QED
    BY <1>2, <1>4, <2>3 DEF Seen
<1>5. ASSUME a <= Window[t]
      PROVE  Seen' = [Seen EXCEPT ![t][a] = n]
  <2>1. [b \in 0..Window[t] |-> rows'[t][b]]
          = [[b \in 0..Window[t] |-> rows[t][b]] EXCEPT ![a] = n]
    BY <1>2, <1>3, <1>5
  <2>2. Seen' = [u \in Store |-> IF u = t THEN [Seen[t] EXCEPT ![a] = n] ELSE Seen[u]]
    <3>1. Seen' = [u \in Store |-> [b \in 0..Window[u] |-> rows'[u][b]]]
      BY DEF Seen
    <3>2. \A u \in Store : Seen[u] = [b \in 0..Window[u] |-> rows[u][b]]
      BY DEF Seen
    <3>3. \A u \in Store : [b \in 0..Window[u] |-> rows'[u][b]]
                             = IF u = t THEN [Seen[t] EXCEPT ![a] = n] ELSE Seen[u]
      <4>1. [b \in 0..Window[t] |-> rows'[t][b]] = [Seen[t] EXCEPT ![a] = n]
        BY <2>1, <3>2
      <4>2. \A u \in Store : u # t => [b \in 0..Window[u] |-> rows'[u][b]] = Seen[u]
        BY <1>1, <3>2
      <4>3. QED
        BY <4>1, <4>2
    <3>4. QED
      BY <3>1, <3>3
  <2>3. Seen = [u \in Store |-> Seen[u]]
    BY DEF Seen
  <2>4. QED
    BY <1>2, <1>5, <2>2, <2>3
<1>6. QED
  BY <1>4, <1>5

(* Pruning takes what is beyond every window only.                           *)
LEMMA PruningUnseen ==
  ASSUME RowsType, NEW p \in Proc, Trim(p) \/ \E t \in Pruned : Delete(p, t)
  PROVE  UNCHANGED Seen
<1>1. \A t \in Store : Keep[t] + 1 \in Ages(t) /\ Keep[t] + 1 > Window[t]
  BY Horizon
<1>2. CASE UNCHANGED rows
  BY <1>2 DEF Seen
<1>3. ASSUME NEW t \in Pruned, Delete(p, t)
      PROVE  UNCHANGED Seen
  <2>1. t \in Store
    BY DEF Store
  <2>2. /\ rows' = [rows EXCEPT ![t][Keep[t] + 1] = Expired(t) - Deleted(p, t)]
        /\ Expired(t) - Deleted(p, t) \in Nat
    BY <1>3, <2>1, DeletedCount DEF Delete, Expired
  <2>3. QED
    BY <1>1, <2>1, <2>2, CellSeen
<1>4. ASSUME /\ Expired(Archive) > 0
             /\ rows' = [rows EXCEPT ![Archive][Keep[Archive] + 1] = @ - 1]
      PROVE  UNCHANGED Seen
  <2>1. rows[Archive][Keep[Archive] + 1] - 1 \in Nat
    BY <1>1, <1>4, Orders DEF Expired, RowsType
  <2>2. rows' = [rows EXCEPT ![Archive][Keep[Archive] + 1] = rows[Archive][Keep[Archive] + 1] - 1]
    BY <1>4
  <2>3. QED
    BY <1>1, <2>1, <2>2, Orders, CellSeen
<1>5. QED
  BY <1>2, <1>3, <1>4 DEF Trim

LEMMA DaySeen == TypeOK /\ Tick => Recent!Day
<1> SUFFICES ASSUME TypeOK, Tick
             PROVE  Recent!Day
  OBVIOUS
<1>1. ASSUME NEW t \in Store, NEW a \in 0..Window[t]
      PROVE  rows'[t][a] = IF a = 0 THEN 0 ELSE Seen[t][a - 1]
  <2>1. /\ a \in Ages(t) /\ a # Keep[t] + 1 /\ (a # 0 => a \in 1..Keep[t])
        /\ (a # 0 => a - 1 \in 0..Window[t])
    BY Horizon DEF Ages
  <2>2. rows'[t] = Older(t)
    BY DEF Tick
  <2>3. rows'[t][a] = IF a = 0 THEN 0 ELSE rows[t][a - 1]
    BY <2>1, <2>2, Horizon DEF Older
  <2>4. QED
    BY <2>1, <2>3 DEF Seen
<1>2. QED
  BY <1>1 DEF Recent!Day, Seen

(* Whoever prunes, in whatever batches, and whatever fails: to its readers   *)
(* the repository is the store without retention (retention.prune).          *)
THEOREM PruneUnseen == Spec => PruneInvisible
<1>1. Init => Recent!Init
  <2> SUFFICES ASSUME Init
               PROVE  Recent!Init
    OBVIOUS
  <2>1. ASSUME NEW t \in Store, NEW a \in 0..Window[t]
        PROVE  rows[t][a] = 0
    BY Horizon DEF Init, Ages
  <2>2. QED
    BY <2>1 DEF Recent!Init
<1>2. TypeOK /\ [Next]_vars => [Recent!Next]_Seen
  <2> SUFFICES ASSUME TypeOK, [Next]_vars
               PROVE  Recent!Next \/ UNCHANGED Seen
    OBVIOUS
  <2>0. RowsType
    BY TypeParts
  <2>1. CASE UNCHANGED rows
    BY <2>1 DEF Seen
  <2>2. CASE Tick
    BY <2>2, DaySeen DEF Recent!Next
  <2>3. ASSUME NEW p \in Proc, NEW t \in Pruned, NEW age \in 0..Late[t], Write(p, t, age)
        PROVE  Recent!Next \/ UNCHANGED Seen
    <3>1. t \in Store /\ age \in Ages(t)
      BY Horizon DEF Store, Ages
    <3>2. /\ rows' = [rows EXCEPT ![t][age] = rows[t][age] + 1]
          /\ rows[t][age] + 1 \in Nat
      BY <2>0, <2>3, <3>1 DEF Write, RowsType
    <3>3. CASE age <= Window[t]
      <4>1. age \in 0..Window[t] /\ rows[t][age] = Seen[t][age]
        BY <3>1, <3>3, Horizon DEF Seen
      <4>2. Seen' = [Seen EXCEPT ![t][age] = rows[t][age] + 1]
        BY <2>0, <3>1, <3>2, <3>3, CellSeen
      <4>3. Seen' = [Seen EXCEPT ![t][age] = @ + 1]
        BY <4>1, <4>2
      <4>4. QED
        BY <3>1, <4>1, <4>3 DEF Recent!Next, Recent!Write, Seen
    <3>4. CASE age > Window[t]
      BY <2>0, <3>1, <3>2, <3>4, CellSeen
    <3>5. QED
      BY <3>1, <3>3, <3>4, Horizon
  <2>4. ASSUME NEW p \in Proc, NEW age \in 0..Late[Archive], Export(p, age)
        PROVE  Recent!Next \/ UNCHANGED Seen
    <3>1. Archive \in Store /\ age \in Ages(Archive)
      BY Orders, Horizon DEF Ages
    <3>2. PICK n \in Nat : n = 1
      OBVIOUS
    <3>3. rows' = [rows EXCEPT ![Archive][age] = n] /\ rows[Archive][age] = 0
      BY <2>4, <3>2 DEF Export
    <3>4. CASE age <= Window[Archive]
      <4>1. age \in 0..Window[Archive] /\ Seen[Archive][age] = 0
        BY <3>1, <3>3, <3>4, Horizon DEF Seen
      <4>2. Seen' = [Seen EXCEPT ![Archive][age] = n]
        BY <2>0, <3>1, <3>3, <3>4, CellSeen
      <4>3. Seen' = [Seen EXCEPT ![Archive][age] = @ + 1]
        BY <3>2, <4>1, <4>2
      <4>4. QED
        BY <3>1, <4>1, <4>3 DEF Recent!Next, Recent!Write, Seen
    <3>5. CASE age > Window[Archive]
      BY <2>0, <3>1, <3>3, <3>5, CellSeen
    <3>6. QED
      BY <3>1, <3>4, <3>5, Horizon
  <2>5. ASSUME NEW p \in Proc, Moves(p) \/ Works(p)
        PROVE  Recent!Next \/ UNCHANGED Seen
    BY <2>0, <2>1, <2>3, <2>4, <2>5, PruningUnseen
       DEF Moves, Works, Start, Enter, Fail, Exit, Done, SkipTable
  <2>6. QED
    BY <2>1, <2>2, <2>5, NextCases DEF vars
<1>3. QED
  BY <1>1, <1>2, TypeCorrect, PTL DEF Spec, PruneInvisible, Recent!Spec, Seen
=============================================================================
