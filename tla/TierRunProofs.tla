----------------------------- MODULE TierRunProofs -----------------------------
(***************************************************************************)
(* What TierRun guarantees for every fleet, every set of invocations and   *)
(* every pool size.                                                        *)
(***************************************************************************)
EXTENDS TierRun, FiniteSetTheorems, TLAPS

LEMMA SettledCount ==
  ASSUME NEW p \in Proc, NEW res
  PROVE  /\ IsFiniteSet(SettledWith(p, res))
         /\ Cardinality(SettledWith(p, res)) \in Nat
<1>1. SettledWith(p, res) \subseteq Server
  BY DEF SettledWith
<1>2. IsFiniteSet(SettledWith(p, res))
  BY <1>1, FS_Subset, ServerAssumption
<1>3. QED
  BY <1>2, FS_CardinalityType

(* Updates of a function, of a function of functions, and of a set-valued    *)
(* function.                                                                 *)
LEMMA Update1 ==
  ASSUME NEW A, NEW C, NEW f \in [A -> C], NEW a \in A, NEW c \in C
  PROVE  [f EXCEPT ![a] = c] \in [A -> C]
OBVIOUS

LEMMA Update2 ==
  ASSUME NEW A, NEW B, NEW C, NEW f \in [A -> [B -> C]], NEW a \in A, NEW b \in B, NEW c \in C
  PROVE  /\ [f EXCEPT ![a][b] = c] \in [A -> [B -> C]]
         /\ [f EXCEPT ![a][b] = c][a][b] = c
         /\ \A x \in A, y \in B : <<x, y>> # <<a, b>> => [f EXCEPT ![a][b] = c][x][y] = f[x][y]
OBVIOUS

LEMMA Shrink ==
  ASSUME NEW A, NEW S, NEW f \in [A -> SUBSET S], NEW a \in A, NEW c
  PROVE  [f EXCEPT ![a] = @ \ {c}] \in [A -> SUBSET S]
<1>1. f[a] \ {c} \in SUBSET S
  OBVIOUS
<1>2. QED
  BY <1>1

(* TypeOK alone is not inductive: a status row names a run only because a    *)
(* worker that collects or records has attached.                             *)
Attached ==
  \A p \in Proc, s \in Server :
    worker[p][s] \in {"collecting", "recording"} => attached[p][s] # NoRun

LEMMA TypeInit == Init => TypeOK /\ Attached
BY AbsentAssumption DEF Init, TypeOK, Attached

LEMMA TypeMain ==
  ASSUME TypeOK, NEW p \in Proc, Connect(p) \/ MainStep(p)
  PROVE  TypeOK'
<1> USE DEF TypeOK, Holding, Terminal, Busy, Move, Done, dbVars, workVars, reportVars
<1>1. CASE Connect(p)
  BY <1>1 DEF Connect
<1>2. CASE AcquireLock(p)
  BY <1>2, TierAssumption DEF AcquireLock
<1>3. CASE SkipRun(p)
  BY <1>3 DEF SkipRun
<1>4. CASE StartRun(p)
  <2>1. StartStamps \subseteq Nat
    BY StampAssumption DEF StartStamps
  <2>2. started' \in [Proc -> Nat] /\ ledger' \in [Proc -> {"none", "open", "closed"}]
    BY <1>4, <2>1 DEF StartRun
  <2>3. pc' \in [Proc -> {"idle", "locking"} \cup Holding \cup Terminal]
    BY <1>4 DEF StartRun
  <2>4. QED
    BY <1>4, <2>2, <2>3 DEF StartRun
<1>5. ASSUME NEW s \in Server, SelectServer(p, s)
      PROVE  TypeOK'
  <2>1. todo' \in [Proc -> SUBSET Server]
    <3>1. todo \in [Proc -> SUBSET Server]
      OBVIOUS
    <3>2. [todo EXCEPT ![p] = @ \ {s}] \in [Proc -> SUBSET Server]
      BY ONLY <3>1, Shrink, p \in Proc
    <3>3. QED
      BY <1>5, <3>1, <3>2 DEF SelectServer
  <2>2. pending' \in [Proc -> Server \cup {NoServer}]
    BY <1>5 DEF SelectServer
  <2>3. QED
    BY <1>5, <2>1, <2>2 DEF SelectServer
<1>6. CASE InsertServer(p)
  <2>1. pending[p] \in Server
    BY <1>6 DEF InsertServer
  <2>2. /\ todo' \in [Proc -> SUBSET Server]
        /\ dim' \in SUBSET Server
    <3>1. todo \in [Proc -> SUBSET Server]
      OBVIOUS
    <3>2. [todo EXCEPT ![p] = @ \ {pending[p]}] \in [Proc -> SUBSET Server]
      BY ONLY <3>1, Shrink, p \in Proc
    <3>3. QED
      BY <1>6, <2>1, <3>1, <3>2 DEF InsertServer
  <2>3. /\ pending' \in [Proc -> Server \cup {NoServer}]
        /\ pc' \in [Proc -> {"idle", "locking"} \cup Holding \cup Terminal]
    BY <1>6 DEF InsertServer
  <2>4. QED
    BY <1>6, <2>2, <2>3 DEF InsertServer
<1>7. CASE Submit(p)
  BY <1>7 DEF Submit
<1>8. CASE FinishRun(p)
  BY <1>8, SettledCount DEF FinishRun
<1>9. CASE MainRaises(p)
  BY <1>9 DEF MainRaises
<1>10. CASE Leave(p)
  BY <1>10 DEF Leave, DropSession
<1>11. QED
  BY <1>1, <1>2, <1>3, <1>4, <1>5, <1>6, <1>7, <1>8, <1>9, <1>10 DEF MainStep

(* A worker's step leaves the other workers, and the main threads, alone.    *)
LEMMA WorkerElsewhere ==
  ASSUME TypeOK, NEW p \in Proc, NEW s \in Server, WorkerStep(p, s),
         NEW q \in Proc, NEW r \in Server, <<q, r>> # <<p, s>>
  PROVE  /\ worker'[q][r] = worker[q][r]
         /\ attached'[q][r] = attached[q][r]
         /\ result'[q][r] = result[q][r]
<1>1. \E x : worker' = [worker EXCEPT ![p][s] = x]
  BY DEF WorkerStep, WorkerStarts, WorkerAttaches, WorkerCollects, WorkerRecordsOk,
         WorkerReportsFailure, Return, Go
<1>2. UNCHANGED result \/ \E x : result' = [result EXCEPT ![p][s] = x]
  BY DEF WorkerStep, WorkerStarts, WorkerAttaches, WorkerCollects, WorkerRecordsOk,
         WorkerReportsFailure, Return
<1>3. UNCHANGED attached \/ \E x : attached' = [attached EXCEPT ![p][s] = x]
  BY DEF WorkerStep, WorkerStarts, WorkerAttaches, WorkerCollects, WorkerRecordsOk,
         WorkerReportsFailure
<1>4. QED
  BY <1>1, <1>2, <1>3 DEF TypeOK

LEMMA TypeWorker ==
  ASSUME TypeOK, Attached, NEW p \in Proc, NEW s \in Server, WorkerStep(p, s)
  PROVE  TypeOK'
<1>1. worker' \in [Proc -> [Server -> {"none", "queued", "done"} \cup Busy]]
  <2>1. PICK where \in {"none", "queued", "done"} \cup Busy : Go(p, s, where)
    BY DEF WorkerStep, WorkerStarts, WorkerAttaches, WorkerCollects, WorkerRecordsOk,
           WorkerReportsFailure, Return, Busy
  <2>2. QED
    BY <2>1, Update2 DEF Go, TypeOK
<1>2. result' \in [Proc -> [Server -> {"none", "ok", "failed"}]]
  <2>1. \/ UNCHANGED result
        \/ \E x \in {"ok", "failed"} : result' = [result EXCEPT ![p][s] = x]
    BY DEF WorkerStep, WorkerStarts, WorkerAttaches, WorkerCollects, WorkerRecordsOk,
           WorkerReportsFailure, Return
  <2>2. \A x \in {"ok", "failed"} :
          [result EXCEPT ![p][s] = x] \in [Proc -> [Server -> {"none", "ok", "failed"}]]
    BY DEF TypeOK
  <2>3. CASE UNCHANGED result
    BY <2>3 DEF TypeOK
  <2>4. CASE \E x \in {"ok", "failed"} : result' = [result EXCEPT ![p][s] = x]
    BY ONLY <2>2, <2>4
  <2>5. QED
    BY <2>1, <2>3, <2>4
<1>3. attached' \in [Proc -> [Server -> Proc \cup {NoRun}]]
  <2>1. \/ UNCHANGED attached
        \/ \E x \in Proc : attached' = [attached EXCEPT ![p][s] = x]
    BY DEF WorkerStep, WorkerStarts, WorkerAttaches, WorkerCollects, WorkerRecordsOk,
           WorkerReportsFailure, Newest
  <2>2. \A x \in Proc :
          [attached EXCEPT ![p][s] = x] \in [Proc -> [Server -> Proc \cup {NoRun}]]
    BY DEF TypeOK
  <2>3. CASE UNCHANGED attached
    BY <2>3 DEF TypeOK
  <2>4. CASE \E x \in Proc : attached' = [attached EXCEPT ![p][s] = x]
    BY ONLY <2>2, <2>4
  <2>5. QED
    BY <2>1, <2>3, <2>4
<1>4. status' \in SUBSET StatusRow
  <2>1. attached[p][s] # NoRun => \A ok \in BOOLEAN : Row(p, s, ok) \in StatusRow
    BY DEF TypeOK, Row, StatusRow
  <2>2. CASE UNCHANGED status
    BY <2>2 DEF TypeOK
  <2>3. CASE WorkerRecordsOk(p, s)
    BY <2>1, <2>3 DEF WorkerRecordsOk, At, Attached, TypeOK
  <2>4. CASE WorkerReportsFailure(p, s)
    BY <2>1, <2>4 DEF WorkerReportsFailure, TypeOK
  <2>5. QED
    BY <2>2, <2>3, <2>4 DEF WorkerStep, WorkerStarts, WorkerAttaches, WorkerCollects, reportVars
<1>5. findings' \in SUBSET (Proc \X Server) /\ paged' \in SUBSET (Proc \X Server)
  <2>1. CASE UNCHANGED <<findings, paged>>
    BY <2>1 DEF TypeOK
  <2>2. CASE WorkerReportsFailure(p, s)
    BY <2>2 DEF WorkerReportsFailure, TypeOK
  <2>3. QED
    BY <2>1, <2>2 DEF WorkerStep, WorkerStarts, WorkerAttaches, WorkerCollects, WorkerRecordsOk,
                      reportVars
<1>6. UNCHANGED mainVars
  BY DEF WorkerStep, WorkerStarts, WorkerAttaches, WorkerCollects, WorkerRecordsOk,
         WorkerReportsFailure
<1>7. QED
  BY <1>1, <1>2, <1>3, <1>4, <1>5, <1>6 DEF TypeOK, mainVars, dbVars

LEMMA AttachedWorker ==
  ASSUME TypeOK, Attached, NEW p \in Proc, NEW s \in Server, WorkerStep(p, s)
  PROVE  Attached'
<1> SUFFICES ASSUME NEW q \in Proc, NEW r \in Server,
                    worker'[q][r] \in {"collecting", "recording"}
             PROVE  attached'[q][r] # NoRun
  BY DEF Attached
<1>1. CASE <<q, r>> = <<p, s>>
  <2>1. CASE WorkerAttaches(p, s)
    BY <1>1, <2>1, AbsentAssumption DEF WorkerAttaches, Newest, Go, At, TypeOK
  <2>2. CASE WorkerCollects(p, s)
    BY <1>1, <2>2 DEF WorkerCollects, Go, At, Attached, TypeOK
  <2>3. CASE WorkerStarts(p, s) \/ WorkerRecordsOk(p, s) \/ WorkerReportsFailure(p, s)
    <3>1. \E x \in {"attaching", "done", "failing"} : worker' = [worker EXCEPT ![p][s] = x]
      BY <2>3 DEF WorkerStarts, WorkerRecordsOk, WorkerReportsFailure, Go, Return
    <3>2. QED
      BY <1>1, <3>1 DEF TypeOK
  <2>4. QED
    BY <2>1, <2>2, <2>3 DEF WorkerStep
<1>2. CASE <<q, r>> # <<p, s>>
  <2>1. worker'[q][r] = worker[q][r]
    BY <1>2, WorkerElsewhere
  <2>2. QED
    BY <1>2, <2>1, WorkerElsewhere DEF Attached
<1>3. QED
  BY <1>1, <1>2

LEMMA AttachedMain ==
  ASSUME TypeOK, Attached, NEW p \in Proc, Connect(p) \/ MainStep(p)
  PROVE  Attached'
<1>1. CASE Submit(p)
  BY <1>1 DEF Submit, Attached, TypeOK
<1>2. CASE ~Submit(p)
  <2>1. UNCHANGED workVars
    BY <1>2 DEF MainStep, Connect, AcquireLock, SkipRun, StartRun, SelectServer, InsertServer,
                FinishRun, MainRaises, Leave
  <2>2. QED
    BY <2>1 DEF Attached, workVars
<1>3. QED
  BY <1>1, <1>2

LEMMA TypeEnvironment ==
  ASSUME TypeOK, Attached, NEW p \in Proc, LoseSession(p) \/ Crash(p) \/ ReapSession(p)
  PROVE  TypeOK' /\ Attached'
BY DEF TypeOK, Attached, LoseSession, Crash, ReapSession, DropSession, Move, Holding, Terminal,
       Busy, dbVars, workVars, reportVars

LEMMA TypeStep == TypeOK /\ Attached /\ [Next]_vars => TypeOK' /\ Attached'
<1> SUFFICES ASSUME TypeOK, Attached, [Next]_vars PROVE TypeOK' /\ Attached'
  OBVIOUS
<1>1. CASE UNCHANGED vars
  BY <1>1 DEF TypeOK, Attached, vars, dbVars, workVars, reportVars
<1>2. CASE Next
  BY <1>1, <1>2, TypeMain, TypeWorker, TypeEnvironment, AttachedMain, AttachedWorker
     DEF Next, Finished
<1>3. QED
  BY <1>1, <1>2

(* TierRun's state is well formed at all times, under every fault: no status *)
(* row is ever written for the run "-" of a worker that never attached.      *)
THEOREM TypeCorrect == Spec => []TypeOK
<1>1. TypeOK /\ Attached => TypeOK
  OBVIOUS
<1>2. QED
  BY <1>1, TypeInit, TypeStep, PTL DEF Spec

-----------------------------------------------------------------------------
(* The run a worker reports under, whatever fails.                           *)

(* How far the main thread has come shows in the run row.                    *)
RowPhase ==
  \A p \in Proc :
    /\ pc[p] \in {"idle", "locking", "starting", "skipped"} => ledger[p] = "none"
    /\ pc[p] \in {"resolving", "fanout"} => ledger[p] = "open"

(* The steps that are not a worker's.                                        *)
ProcessStep(p) == Connect(p) \/ MainStep(p) \/ LoseSession(p) \/ Crash(p) \/ ReapSession(p)

LEMMA NextSteps ==
  ASSUME Next
  PROVE  \/ \E p \in Proc : ProcessStep(p)
         \/ \E p \in Proc, s \in Server : WorkerStep(p, s)
         \/ UNCHANGED vars
BY DEF Next, ProcessStep, Finished

LEMMA WorkerMainVars ==
  ASSUME NEW p \in Proc, NEW s \in Server, WorkerStep(p, s)
  PROVE  UNCHANGED mainVars /\ pc[p] = "fanout"
BY DEF WorkerStep, WorkerStarts, WorkerAttaches, WorkerCollects, WorkerRecordsOk,
       WorkerReportsFailure, At

LEMMA RowPhaseStep ==
  ASSUME TypeOK, RowPhase, NEW p \in Proc, ProcessStep(p)
  PROVE  RowPhase'
<1>1. CASE Connect(p) \/ AcquireLock(p) \/ SkipRun(p)
  BY <1>1 DEF Connect, AcquireLock, SkipRun, Move, RowPhase, TypeOK, dbVars
<1>2. CASE StartRun(p)
  BY <1>2 DEF StartRun, Done, Move, RowPhase, TypeOK
<1>3. CASE \E s \in Server : SelectServer(p, s)
  BY <1>3 DEF SelectServer, RowPhase, dbVars
<1>4. CASE InsertServer(p) \/ Submit(p)
  BY <1>4 DEF InsertServer, Submit, Done, Move, RowPhase, TypeOK, dbVars
<1>5. CASE FinishRun(p)
  BY <1>5 DEF FinishRun, Done, Move, RowPhase, TypeOK
<1>6. CASE MainRaises(p)
  BY <1>6 DEF MainRaises, Move, RowPhase, TypeOK, dbVars
<1>7. CASE Leave(p)
  BY <1>7 DEF Leave, Move, RowPhase, TypeOK, dbVars
<1>8. CASE LoseSession(p) \/ Crash(p) \/ ReapSession(p)
  BY <1>8 DEF LoseSession, Crash, ReapSession, Move, RowPhase, TypeOK, dbVars
<1>9. QED
  BY <1>1, <1>2, <1>3, <1>4, <1>5, <1>6, <1>7, <1>8 DEF ProcessStep, MainStep

(* A run that has started keeps its row and its stamp.                       *)
LEMMA StampKept ==
  ASSUME TypeOK, RowPhase, Next, NEW q \in Proc, ledger[q] # "none"
  PROVE  ledger'[q] # "none" /\ started'[q] = started[q]
<1>1. ASSUME NEW p \in Proc, ProcessStep(p)
      PROVE  ledger'[q] # "none" /\ started'[q] = started[q]
  <2>1. CASE StartRun(p)
    BY <2>1 DEF StartRun, RowPhase, TypeOK
  <2>2. CASE FinishRun(p)
    BY <2>2 DEF FinishRun, TypeOK
  <2>3. CASE ~StartRun(p) /\ ~FinishRun(p)
    BY <1>1, <2>3 DEF ProcessStep, MainStep, Connect, AcquireLock, SkipRun, SelectServer,
       InsertServer, Submit, MainRaises, Leave, LoseSession, Crash, ReapSession, dbVars
  <2>4. QED
    BY <2>1, <2>2, <2>3
<1>2. ASSUME NEW p \in Proc, NEW s \in Server, WorkerStep(p, s)
      PROVE  ledger'[q] # "none" /\ started'[q] = started[q]
  BY <1>2, WorkerMainVars DEF mainVars, dbVars
<1>3. CASE UNCHANGED vars
  BY <1>3 DEF vars, dbVars
<1>4. QED
  BY <1>1, <1>2, <1>3, NextSteps

(* A worker keeps the run it has, or takes the newest of its tier.           *)
LEMMA AttachStep ==
  ASSUME TypeOK, Next, NEW p \in Proc, NEW s \in Server
  PROVE  \/ attached'[p][s] = attached[p][s]
         \/ attached'[p][s] \in Newest(TierOf[p]) /\ pc[p] = "fanout" /\ UNCHANGED mainVars
<1>1. ASSUME NEW q \in Proc, ProcessStep(q)
      PROVE  UNCHANGED attached
  BY <1>1 DEF ProcessStep, MainStep, Connect, AcquireLock, SkipRun, StartRun, SelectServer,
     InsertServer, Submit, FinishRun, MainRaises, Leave, LoseSession, Crash, ReapSession, workVars
<1>2. ASSUME NEW q \in Proc, NEW r \in Server, WorkerStep(q, r)
      PROVE  \/ attached'[p][s] = attached[p][s]
             \/ attached'[p][s] \in Newest(TierOf[p]) /\ pc[p] = "fanout" /\ UNCHANGED mainVars
  <2>1. CASE <<p, s>> # <<q, r>>
    BY <1>2, <2>1, WorkerElsewhere
  <2>2. CASE <<p, s>> = <<q, r>> /\ WorkerAttaches(q, r)
    BY <2>2 DEF WorkerAttaches, At, TypeOK
  <2>3. CASE ~WorkerAttaches(q, r)
    BY <1>2, <2>3 DEF WorkerStep, WorkerStarts, WorkerCollects, WorkerRecordsOk, WorkerReportsFailure
  <2>4. QED
    BY <2>1, <2>2, <2>3
<1>3. CASE UNCHANGED vars
  BY <1>3 DEF vars, workVars
<1>4. QED
  BY <1>1, <1>2, <1>3, NextSteps

Inv1 == TypeOK /\ Attached /\ RowPhase /\ AttachedRunNotOlder

LEMMA Inv1Init == Init => Inv1
BY TypeInit DEF Init, Inv1, RowPhase, AttachedRunNotOlder

LEMMA AttachedRunNotOlderStep ==
  ASSUME Inv1, Next
  PROVE  AttachedRunNotOlder'
<1> SUFFICES ASSUME NEW p \in Proc, NEW s \in Server, attached'[p][s] # NoRun
             PROVE  LET q == attached'[p][s]
                    IN  /\ TierOf[q] = TierOf[p]
                        /\ ledger'[q] # "none" /\ ledger'[p] # "none"
                        /\ started'[p] <= started'[q]
  BY DEF AttachedRunNotOlder
<1> DEFINE q == attached'[p][s]
<1>1. CASE q = attached[p][s]
  <2>1. /\ q \in Proc /\ TierOf[q] = TierOf[p]
        /\ ledger[q] # "none" /\ ledger[p] # "none" /\ started[p] <= started[q]
    BY <1>1 DEF Inv1, AttachedRunNotOlder, TypeOK
  <2>2. QED
    BY <2>1, StampKept DEF Inv1
<1>2. CASE q \in Newest(TierOf[p]) /\ pc[p] = "fanout" /\ UNCHANGED mainVars
  BY <1>2 DEF Inv1, Newest, RowPhase, mainVars, dbVars
<1>3. QED
  BY <1>1, <1>2, AttachStep DEF Inv1

LEMMA Inv1Step == Inv1 /\ [Next]_vars => Inv1'
<1>1. CASE UNCHANGED vars
  BY <1>1 DEF Inv1, TypeOK, Attached, RowPhase, AttachedRunNotOlder, vars, dbVars, workVars, reportVars
<1>2. ASSUME Inv1, Next PROVE Inv1'
  <2>1. TypeOK' /\ Attached'
    BY <1>2, TypeStep DEF Inv1
  <2>2. RowPhase'
    BY <1>1, <1>2, NextSteps, RowPhaseStep, WorkerMainVars DEF Inv1, RowPhase, mainVars, dbVars
  <2>3. QED
    BY <1>2, <2>1, <2>2, AttachedRunNotOlderStep DEF Inv1
<1>3. QED
  BY <1>1, <1>2

(* Whatever fails, the run a worker reports under (_current_run_id) is of    *)
(* its tier and started no earlier than the run of its own process.          *)
THEOREM AttachedRunCorrect == Spec => []AttachedRunNotOlder
<1>1. Inv1 => AttachedRunNotOlder
  BY DEF Inv1
<1>2. QED
  BY <1>1, Inv1Init, Inv1Step, PTL DEF Spec

-----------------------------------------------------------------------------
(* The overlap guard, as long as no main session is lost.                    *)

(* A process that believes it holds the lock of its tier does hold it.       *)
LockHeld == \A p \in Proc : pc[p] \in Holding => sess[p] /\ owner[TierOf[p]] = p

(* The run of a process in its fan-out is the latest of its tier.            *)
LastStarted ==
  \A p, q \in Proc :
    /\ pc[p] \in {"resolving", "fanout"} /\ p # q
    /\ TierOf[p] = TierOf[q] /\ ledger[q] # "none"
    => started[q] < started[p]

LEMMA LockHeldProcessStep ==
  ASSUME "session" \notin Faults, TypeOK, LockHeld, NEW p \in Proc, ProcessStep(p)
  PROVE  LockHeld'
<1> SUFFICES ASSUME NEW q \in Proc, pc'[q] \in Holding
             PROVE  sess'[q] /\ owner'[TierOf[q]] = q
  BY DEF LockHeld
<1> TierOf[q] \in Tier /\ TierOf[p] \in Tier
  BY TierAssumption
<1>1. CASE AcquireLock(p)
  BY <1>1, AbsentAssumption DEF AcquireLock, LockHeld, Move, Holding, TypeOK
<1>2. CASE StartRun(p) \/ InsertServer(p) \/ Submit(p) \/ FinishRun(p)
  BY <1>2 DEF StartRun, InsertServer, Submit, FinishRun, LockHeld, Done, Move, Holding, TypeOK
<1>3. CASE \E s \in Server : SelectServer(p, s)
  BY <1>3 DEF SelectServer, LockHeld
<1>4. CASE Connect(p) \/ SkipRun(p)
  BY <1>4 DEF Connect, SkipRun, LockHeld, Move, Holding, TypeOK
<1>5. CASE MainRaises(p)
  BY <1>5 DEF MainRaises, LockHeld, Move, Holding, TypeOK
<1>6. CASE Leave(p) \/ ReapSession(p)
  BY <1>6 DEF Leave, ReapSession, DropSession, LockHeld, Move, Holding, TypeOK
<1>7. CASE Crash(p)
  BY <1>7 DEF Crash, LockHeld, Move, Holding, TypeOK
<1>8. QED
  BY <1>1, <1>2, <1>3, <1>4, <1>5, <1>6, <1>7 DEF ProcessStep, MainStep, LoseSession

LEMMA LockHeldStep ==
  ASSUME "session" \notin Faults, TypeOK, LockHeld, [Next]_vars
  PROVE  LockHeld'
<1>1. ASSUME NEW p \in Proc, NEW s \in Server, WorkerStep(p, s)
      PROVE  LockHeld'
  BY <1>1, WorkerMainVars DEF LockHeld, mainVars
<1>2. CASE UNCHANGED vars
  BY <1>2 DEF LockHeld, vars
<1>3. QED
  BY <1>1, <1>2, NextSteps, LockHeldProcessStep

Inv2 == Inv1 /\ LockHeld

LEMMA Inv2Correct ==
  ASSUME "session" \notin Faults
  PROVE  Spec => []Inv2
<1>1. Init => Inv2
  BY Inv1Init DEF Init, Inv2, LockHeld, Holding
<1>2. Inv2 /\ [Next]_vars => Inv2'
  BY Inv1Step, LockHeldStep DEF Inv1, Inv2
<1>3. QED
  BY <1>1, <1>2, PTL DEF Spec

(* No server is collected twice at a time by a tier, whatever the number of  *)
(* invocations and whatever else fails (tier_lock, run_tier).                *)
THEOREM OverlapGuarded ==
  ASSUME "session" \notin Faults
  PROVE  Spec => []NoDoubleCollection
<1>1. Inv2 => NoDoubleCollection
  BY DEF Inv2, Inv1, LockHeld, NoDoubleCollection, Holding
<1>2. QED
  BY <1>1, Inv2Correct, PTL

(* The lock orders the starts within a tier.                                 *)
LEMMA LastStartedStep ==
  ASSUME Faults \cap {"session", "clock"} = {}, Inv2, LastStarted, Next
  PROVE  LastStarted'
<1> SUFFICES ASSUME NEW p \in Proc, NEW q \in Proc,
                    pc'[p] \in {"resolving", "fanout"}, p # q,
                    TierOf[p] = TierOf[q], ledger'[q] # "none"
             PROVE  started'[q] < started'[p]
  BY DEF LastStarted
<1>1. ASSUME NEW x \in Proc, StartRun(x)
      PROVE  started'[q] < started'[p]
  <2>1. PICK t \in StartStamps : started' = [started EXCEPT ![x] = t]
    BY <1>1 DEF StartRun
  <2>2. \A y \in Proc : ledger[y] # "none" => started[y] < t
    BY <2>1 DEF StartStamps
  <2>3. CASE p = x
    BY <1>1, <2>1, <2>2, <2>3 DEF StartRun, Inv2, Inv1, TypeOK
  <2>4. CASE q = x
    <3>1. pc[q] \in Holding /\ pc[p] \in Holding
      BY <1>1, <2>4 DEF StartRun, Done, Move, Holding, Inv2, Inv1, TypeOK
    <3>2. QED
      BY <3>1 DEF Inv2, LockHeld
  <2>5. CASE p # x /\ q # x
    BY <1>1, <2>1, <2>5 DEF StartRun, Done, Move, Inv2, Inv1, LastStarted, TypeOK
  <2>6. QED
    BY <2>3, <2>4, <2>5
<1>2. CASE \A x \in Proc : ~StartRun(x)
  <2>1. /\ pc[p] \in {"resolving", "fanout"} /\ ledger[q] # "none"
        /\ started' = started
    <3>1. ASSUME NEW x \in Proc, ProcessStep(x)
          PROVE  /\ pc[p] \in {"resolving", "fanout"} /\ ledger[q] # "none"
                 /\ started' = started
      <4>1. CASE Submit(x) \/ FinishRun(x) \/ Connect(x) \/ SkipRun(x) \/ AcquireLock(x)
        BY <4>1 DEF Submit, FinishRun, Connect, SkipRun, AcquireLock, Done, Move, dbVars,
           Inv2, Inv1, TypeOK, RowPhase
      <4>2. CASE InsertServer(x) \/ \E s \in Server : SelectServer(x, s)
        BY <4>2 DEF InsertServer, SelectServer, Done, Move, dbVars, Inv2, Inv1, TypeOK
      <4>3. CASE MainRaises(x) \/ Leave(x)
        BY <4>3 DEF MainRaises, Leave, Move, dbVars, Inv2, Inv1, TypeOK
      <4>4. CASE LoseSession(x) \/ Crash(x) \/ ReapSession(x)
        BY <4>4 DEF LoseSession, Crash, ReapSession, Move, dbVars, Inv2, Inv1, TypeOK
      <4>5. QED
        BY <1>2, <3>1, <4>1, <4>2, <4>3, <4>4 DEF ProcessStep, MainStep
    <3>2. ASSUME NEW x \in Proc, NEW s \in Server, WorkerStep(x, s)
          PROVE  /\ pc[p] \in {"resolving", "fanout"} /\ ledger[q] # "none"
                 /\ started' = started
      BY <3>2, WorkerMainVars DEF mainVars, dbVars
    <3>3. CASE UNCHANGED vars
      BY <3>3 DEF vars, dbVars
    <3>4. QED
      BY <3>1, <3>2, <3>3, NextSteps
  <2>2. QED
    BY <2>1 DEF LastStarted
<1>3. QED
  BY <1>1, <1>2

Inv3 == Inv2 /\ LastStarted /\ ReportsUnderOwnRun

LEMMA OwnRunStep ==
  ASSUME Inv3, Next
  PROVE  ReportsUnderOwnRun'
<1> SUFFICES ASSUME NEW p \in Proc, NEW s \in Server
             PROVE  attached'[p][s] \in {p, NoRun}
  BY DEF ReportsUnderOwnRun
<1>1. CASE attached'[p][s] = attached[p][s]
  BY <1>1 DEF Inv3, ReportsUnderOwnRun
<1>2. CASE attached'[p][s] \in Newest(TierOf[p]) /\ pc[p] = "fanout"
  <2> DEFINE q == attached'[p][s]
  <2>1. q \in Proc /\ TierOf[q] = TierOf[p] /\ ledger[q] # "none"
    BY <1>2 DEF Newest
  <2>2. started[p] <= started[q]
    BY <1>2 DEF Newest, Inv3, Inv2, Inv1, RowPhase
  <2>3. q # p => started[q] < started[p]
    BY <1>2, <2>1 DEF Inv3, LastStarted
  <2>4. started[p] \in Nat /\ started[q] \in Nat
    BY <2>1 DEF Inv3, Inv2, Inv1, TypeOK
  <2>5. QED
    BY <2>2, <2>3, <2>4
<1>3. QED
  BY <1>1, <1>2, AttachStep DEF Inv3, Inv2, Inv1

LEMMA Inv3Correct ==
  ASSUME Faults \cap {"session", "clock"} = {}
  PROVE  Spec => []Inv3
<1>1. Init => Inv3
  <2>1. Init => Inv2
    BY Inv1Init DEF Init, Inv2, LockHeld, Holding
  <2>2. QED
    BY <2>1 DEF Init, Inv3, LastStarted, ReportsUnderOwnRun
<1>2. Inv3 /\ [Next]_vars => Inv3'
  <2>1. ASSUME Inv3, [Next]_vars PROVE Inv2'
    BY <2>1, Inv1Step, LockHeldStep DEF Inv1, Inv2, Inv3
  <2>2. ASSUME Inv3, UNCHANGED vars PROVE LastStarted' /\ ReportsUnderOwnRun'
    BY <2>2 DEF Inv3, LastStarted, ReportsUnderOwnRun, vars, dbVars, workVars
  <2>3. ASSUME Inv3, Next PROVE LastStarted' /\ ReportsUnderOwnRun'
    BY <2>3, LastStartedStep, OwnRunStep DEF Inv3
  <2>4. QED
    BY <2>1, <2>2, <2>3 DEF Inv3
<1>3. QED
  BY <1>1, <1>2, PTL DEF Spec

(* With the sessions alive and the starts of a tier a second apart, looking  *)
(* the newest run up finds the run of one's own process (_current_run_id).   *)
THEOREM OwnRunFound ==
  ASSUME Faults \cap {"session", "clock"} = {}
  PROVE  Spec => []ReportsUnderOwnRun
<1>1. Inv3 => ReportsUnderOwnRun
  BY DEF Inv3
<1>2. QED
  BY <1>1, Inv3Correct, PTL

-----------------------------------------------------------------------------
(* What is left behind of a run.                                             *)

(* A server is settled by its worker's return and by nothing else.           *)
UnsettledBefore ==
  \A p \in Proc, s \in Server :
    \/ worker[p][s] # "done"
    \/ pc[p] \in {"idle", "locking", "starting", "resolving"}
    => result[p][s] = "none"

LEMMA UnsettledStep ==
  ASSUME TypeOK, UnsettledBefore, [Next]_vars
  PROVE  UnsettledBefore'
<1> SUFFICES ASSUME NEW p \in Proc, NEW s \in Server,
                    \/ worker'[p][s] # "done"
                    \/ pc'[p] \in {"idle", "locking", "starting", "resolving"}
             PROVE  result'[p][s] = "none"
  BY DEF UnsettledBefore
<1>1. ASSUME NEW q \in Proc, ProcessStep(q)
      PROVE  result'[p][s] = "none"
  <2>1. UNCHANGED result
    BY <1>1 DEF ProcessStep, MainStep, Connect, AcquireLock, SkipRun, StartRun, SelectServer,
       InsertServer, Submit, FinishRun, MainRaises, Leave, LoseSession, Crash, ReapSession, workVars
  <2>2. CASE Submit(q)
    BY <2>1, <2>2 DEF Submit, Move, UnsettledBefore, TypeOK
  <2>3. CASE ~Submit(q)
    <3>1. UNCHANGED worker
      BY <1>1, <2>3 DEF ProcessStep, MainStep, Connect, AcquireLock, SkipRun, StartRun,
         SelectServer, InsertServer, FinishRun, MainRaises, Leave, LoseSession, Crash,
         ReapSession, workVars
    <3>2. pc'[p] \in {"idle", "locking", "starting", "resolving"}
            => pc[p] \in {"idle", "locking", "starting", "resolving"}
      <4>1. CASE q = p
        BY <1>1, <2>3, <4>1 DEF ProcessStep, MainStep, Connect, AcquireLock, SkipRun, StartRun,
           SelectServer, InsertServer, FinishRun, MainRaises, Leave, LoseSession, Crash,
           ReapSession, Done, Move, TypeOK
      <4>2. CASE q # p
        <5>1. UNCHANGED pc \/ \E x : Move(q, x)
          BY <1>1 DEF ProcessStep, MainStep, Connect, AcquireLock, SkipRun, StartRun,
             SelectServer, InsertServer, Submit, FinishRun, MainRaises, Leave, LoseSession,
             Crash, ReapSession, Done
        <5>2. QED
          BY <4>2, <5>1 DEF Move, TypeOK
      <4>3. QED
        BY <4>1, <4>2
    <3>3. QED
      BY <2>1, <3>1, <3>2 DEF UnsettledBefore
  <2>4. QED
    BY <2>2, <2>3
<1>2. ASSUME NEW q \in Proc, NEW r \in Server, WorkerStep(q, r)
      PROVE  result'[p][s] = "none"
  <2>1. CASE <<p, s>> # <<q, r>>
    BY <1>2, <2>1, WorkerElsewhere, WorkerMainVars DEF mainVars, UnsettledBefore
  <2>2. CASE <<p, s>> = <<q, r>>
    <3>1. worker[q][r] # "done"
      BY <1>2 DEF WorkerStep, WorkerStarts, WorkerAttaches, WorkerCollects, WorkerRecordsOk,
         WorkerReportsFailure, At
    <3>2. UNCHANGED result \/ worker' = [worker EXCEPT ![q][r] = "done"]
      BY <1>2 DEF WorkerStep, WorkerStarts, WorkerAttaches, WorkerCollects, WorkerRecordsOk,
         WorkerReportsFailure, Return, Go
    <3>3. UNCHANGED pc /\ pc[q] = "fanout"
      BY <1>2, WorkerMainVars DEF mainVars
    <3>4. QED
      BY <2>2, <3>1, <3>2, <3>3 DEF UnsettledBefore, TypeOK
  <2>3. QED
    BY <2>1, <2>2
<1>3. CASE UNCHANGED vars
  BY <1>3 DEF vars, workVars, UnsettledBefore
<1>4. QED
  BY <1>1, <1>2, <1>3, NextSteps

(* A status row stands under the run of its own process and says what the    *)
(* process made of the server; a server made ok has one.                     *)
Told ==
  /\ \A r \in status : /\ r.run = r.by
                       /\ result[r.by][r.server] = IF r.ok THEN "ok" ELSE "failed"
  /\ \A p \in Proc, s \in Server :
       result[p][s] = "ok" => \E r \in status : r.by = p /\ r.server = s /\ r.ok

(* A closed row holds the totals, which no worker changes any more, and the  *)
(* exit status is read off them.                                             *)
TotalsWritten ==
  \A p \in Proc :
    /\ ledger[p] = "closed" =>
         /\ Settled(p) /\ pc[p] # "raising"
         /\ okCount[p] = Cardinality(SettledWith(p, "ok"))
         /\ failedCount[p] = Cardinality(SettledWith(p, "failed"))
    /\ pc[p] = "leaving" => ledger[p] = "closed"
    /\ pc[p] = "ok" => ledger[p] = "closed" /\ okCount[p] # 0
    /\ pc[p] = "failed" /\ ledger[p] = "closed" => okCount[p] = 0

LEMMA WorkerResult ==
  ASSUME TypeOK, UnsettledBefore, NEW p \in Proc, NEW s \in Server, WorkerStep(p, s)
  PROVE  result[p][s] = "none"
BY DEF WorkerStep, WorkerStarts, WorkerAttaches, WorkerCollects, WorkerRecordsOk,
       WorkerReportsFailure, At, UnsettledBefore, Busy

LEMMA ToldWorker ==
  ASSUME "ack" \notin Faults, TypeOK, TypeOK', Attached, ReportsUnderOwnRun, UnsettledBefore, Told,
         NEW p \in Proc, NEW s \in Server, WorkerStep(p, s)
  PROVE  Told'
<1>1. result[p][s] = "none"
  BY WorkerResult
<1>2. \A r \in status : ~(r.by = p /\ r.server = s)
  BY <1>1 DEF Told
<1>3. \A q \in Proc, x \in Server : <<q, x>> # <<p, s>> => result'[q][x] = result[q][x]
  BY WorkerElsewhere
<1>4. attached[p][s] # NoRun => attached[p][s] = p
  BY DEF ReportsUnderOwnRun
<1>5. \A x \in {"ok", "failed"} : Return(p, s, x) => result'[p][s] = x
  BY DEF Return, TypeOK
<1>6. \/ UNCHANGED status /\ result'[p][s] # "ok"
      \/ /\ status' = status \cup {Row(p, s, TRUE)} /\ attached[p][s] = p
         /\ result'[p][s] = "ok"
      \/ /\ status' = status \cup {Row(p, s, FALSE)} /\ attached[p][s] = p
         /\ result'[p][s] = "failed"
  <2>1. CASE WorkerStarts(p, s) \/ WorkerAttaches(p, s) \/ WorkerCollects(p, s)
    <3>1. UNCHANGED status /\ (UNCHANGED result \/ Return(p, s, "failed"))
      BY <2>1 DEF WorkerStarts, WorkerAttaches, WorkerCollects, reportVars
    <3>2. QED
      BY <1>1, <1>5, <3>1
  <2>2. CASE WorkerRecordsOk(p, s)
    <3>1. attached[p][s] = p
      BY <1>4, <2>2 DEF WorkerRecordsOk, At, Attached
    <3>2. QED
      BY <1>1, <1>5, <2>2, <3>1 DEF WorkerRecordsOk
  <2>3. CASE WorkerReportsFailure(p, s)
    <3>1. Return(p, s, "failed")
      BY <2>3 DEF WorkerReportsFailure
    <3>2. \/ UNCHANGED status
          \/ status' = status \cup {Row(p, s, FALSE)} /\ attached[p][s] = p
      BY <1>4, <2>3 DEF WorkerReportsFailure
    <3>3. QED
      BY <1>5, <3>1, <3>2
  <2>4. QED
    BY <2>1, <2>2, <2>3 DEF WorkerStep
<1>7. ASSUME NEW r \in status'
      PROVE  r.run = r.by /\ result'[r.by][r.server] = IF r.ok THEN "ok" ELSE "failed"
  <2>1. CASE r \in status
    <3>1. r.by \in Proc /\ r.server \in Server
      BY <2>1 DEF TypeOK, StatusRow
    <3>2. result'[r.by][r.server] = result[r.by][r.server]
      BY <1>2, <1>3, <2>1, <3>1
    <3>3. QED
      BY <2>1, <3>2 DEF Told
  <2>2. CASE r \notin status
    BY <1>6, <1>7, <2>2 DEF Row
  <2>3. QED
    BY <2>1, <2>2
<1>8. ASSUME NEW q \in Proc, NEW x \in Server, result'[q][x] = "ok"
      PROVE  \E r \in status' : r.by = q /\ r.server = x /\ r.ok
  <2>1. status \subseteq status'
    BY <1>6
  <2>2. CASE <<q, x>> = <<p, s>>
    <3>1. Row(p, s, TRUE) \in status'
      BY <1>6, <1>8, <2>2
    <3>2. QED
      BY <2>2, <3>1 DEF Row
  <2>3. CASE <<q, x>> # <<p, s>>
    <3>1. PICK r \in status : r.by = q /\ r.server = x /\ r.ok
      BY <1>3, <1>8, <2>3 DEF Told
    <3>2. QED
      BY <2>1, <3>1
  <2>4. QED
    BY <2>2, <2>3
<1>9. QED
  BY <1>7, <1>8 DEF Told

LEMMA WorkReportsKept ==
  ASSUME NEW p \in Proc, ProcessStep(p)
  PROVE  UNCHANGED <<result, attached, reportVars>>
BY DEF ProcessStep, MainStep, Connect, AcquireLock, SkipRun, StartRun, SelectServer, InsertServer,
       Submit, FinishRun, MainRaises, Leave, LoseSession, Crash, ReapSession, workVars, reportVars

LEMMA TotalsProcess ==
  ASSUME "ack" \notin Faults, TypeOK, RowPhase, TotalsWritten, NEW p \in Proc, ProcessStep(p)
  PROVE  TotalsWritten'
<1>1. UNCHANGED result
  BY WorkReportsKept
<1>2. \A q \in Proc : /\ \A x : SettledWith(q, x)' = SettledWith(q, x)
                      /\ Settled(q)' <=> Settled(q)
  BY <1>1 DEF SettledWith, Settled
<1> USE <1>2 DEF TotalsWritten, Done, Move, TypeOK
<1>3. CASE Connect(p) \/ AcquireLock(p) \/ SkipRun(p)
  BY <1>3 DEF Connect, AcquireLock, SkipRun, RowPhase, dbVars
<1>4. CASE StartRun(p)
  BY <1>4 DEF StartRun
<1>5. CASE \E s \in Server : SelectServer(p, s)
  BY <1>5 DEF SelectServer, dbVars
<1>6. CASE InsertServer(p) \/ Submit(p)
  BY <1>6 DEF InsertServer, Submit, RowPhase, dbVars
<1>7. CASE FinishRun(p)
  BY <1>7 DEF FinishRun
<1>8. CASE MainRaises(p)
  BY <1>8 DEF MainRaises, RowPhase, dbVars
<1>9. CASE Leave(p)
  BY <1>9 DEF Leave, dbVars
<1>10. CASE LoseSession(p) \/ Crash(p) \/ ReapSession(p)
  BY <1>10 DEF LoseSession, Crash, ReapSession, dbVars
<1>11. QED
  BY <1>3, <1>4, <1>5, <1>6, <1>7, <1>8, <1>9, <1>10 DEF ProcessStep, MainStep

LEMMA TotalsWorker ==
  ASSUME TypeOK, RowPhase, TotalsWritten, NEW p \in Proc, NEW s \in Server, WorkerStep(p, s)
  PROVE  TotalsWritten'
<1>1. UNCHANGED mainVars /\ pc[p] = "fanout" /\ ledger[p] = "open"
  BY WorkerMainVars DEF RowPhase
<1>2. ASSUME NEW q \in Proc, q # p
      PROVE  /\ \A x : SettledWith(q, x)' = SettledWith(q, x)
             /\ Settled(q)' <=> Settled(q)
  BY <1>2, WorkerElsewhere DEF SettledWith, Settled
<1>3. QED
  BY <1>1, <1>2 DEF TotalsWritten, mainVars, dbVars

LEMMA BooksStep ==
  ASSUME Faults \cap {"ack", "session", "clock"} = {}
  PROVE  Inv3 /\ Inv3' /\ UnsettledBefore /\ Told /\ TotalsWritten /\ [Next]_vars
           => (Told /\ TotalsWritten)'
<1> SUFFICES ASSUME Inv3, Inv3', UnsettledBefore, Told, TotalsWritten, [Next]_vars
             PROVE  (Told /\ TotalsWritten)'
  OBVIOUS
<1> "ack" \notin Faults
  OBVIOUS
<1> USE DEF Inv3, Inv2, Inv1
<1>1. CASE UNCHANGED vars
  <2>1. Told'
    BY <1>1 DEF Told, vars, workVars, reportVars
  <2>2. /\ UNCHANGED <<pc, ledger, okCount, failedCount>>
        /\ \A p \in Proc : /\ \A x : SettledWith(p, x)' = SettledWith(p, x)
                             /\ Settled(p)' <=> Settled(p)
    BY <1>1 DEF SettledWith, Settled, vars, dbVars, workVars
  <2>3. TotalsWritten'
    BY <2>2 DEF TotalsWritten
  <2>4. QED
    BY <2>1, <2>3
<1>2. ASSUME NEW p \in Proc, ProcessStep(p) PROVE (Told /\ TotalsWritten)'
  BY <1>2, TotalsProcess, WorkReportsKept DEF Told, reportVars
<1>3. ASSUME NEW p \in Proc, NEW s \in Server, WorkerStep(p, s) PROVE (Told /\ TotalsWritten)'
  BY <1>3, TotalsWorker, ToldWorker
<1>4. QED
  BY <1>1, <1>2, <1>3, NextSteps

(* Under its own run a status row is the only one of its server.             *)
LEMMA RowsCounted ==
  ASSUME TypeOK, Told, NEW p \in Proc
  PROVE  /\ Cardinality(RowsOf(p, TRUE)) = Cardinality(SettledWith(p, "ok"))
         /\ Cardinality(RowsOf(p, FALSE)) <= Cardinality(SettledWith(p, "failed"))
<1> DEFINE By(ok) == [r \in RowsOf(p, ok) |-> r.server]
           Res(ok) == IF ok THEN "ok" ELSE "failed"
<1>1. ASSUME NEW ok \in BOOLEAN
      PROVE  By(ok) \in Injection(RowsOf(p, ok), SettledWith(p, Res(ok)))
  <2>1. \A r \in RowsOf(p, ok) :
          r.run = p /\ r.by = p /\ r.ok = ok /\ r \in StatusRow
    BY DEF RowsOf, Told, TypeOK
  <2>2. \A r \in RowsOf(p, ok) : r.server \in SettledWith(p, Res(ok))
    BY <2>1 DEF RowsOf, Told, SettledWith, StatusRow
  <2>3. \A r, x \in RowsOf(p, ok) : r.server = x.server => r = x
    BY <2>1 DEF StatusRow
  <2>4. QED
    BY <2>2, <2>3 DEF Injection, IsInjective
<1>2. By(TRUE) \in Surjection(RowsOf(p, TRUE), SettledWith(p, "ok"))
  <2>1. \A s \in SettledWith(p, "ok") : \E r \in RowsOf(p, TRUE) : r.server = s
    BY DEF SettledWith, Told, RowsOf, TypeOK, StatusRow
  <2>2. By(TRUE) \in [RowsOf(p, TRUE) -> SettledWith(p, "ok")]
    BY <1>1 DEF Injection
  <2>3. QED
    BY <2>1, <2>2 DEF Surjection
<1>3. IsFiniteSet(SettledWith(p, "ok")) /\ IsFiniteSet(SettledWith(p, "failed"))
  BY SettledCount
<1>4. By(TRUE) \in Injection(RowsOf(p, TRUE), SettledWith(p, "ok"))
  BY <1>1
<1>5. By(FALSE) \in Injection(RowsOf(p, FALSE), SettledWith(p, "failed"))
  BY <1>1
<1>6. QED
  BY <1>2, <1>3, <1>4, <1>5, FS_Injection

LEMMA EveryServerCounted ==
  ASSUME TypeOK, NEW p \in Proc, Settled(p)
  PROVE  Cardinality(SettledWith(p, "ok")) + Cardinality(SettledWith(p, "failed")) = Cardinality(Server)
<1> DEFINE S == SettledWith(p, "ok")
           T == SettledWith(p, "failed")
<1>1. S \cup T = Server /\ S \cap T = {}
  BY DEF SettledWith, Settled, TypeOK
<1>2. /\ IsFiniteSet(S) /\ IsFiniteSet(T)
      /\ Cardinality(S) \in Nat /\ Cardinality(T) \in Nat
  BY SettledCount
<1> HIDE DEF S, T
<1>3. Cardinality(S \cup T) = Cardinality(S) + Cardinality(T) - Cardinality(S \cap T)
  BY <1>2, FS_Union
<1>4. Cardinality(S \cap T) = 0
  BY <1>1, FS_EmptySet
<1>5. Cardinality(S) + Cardinality(T) = Cardinality(Server)
  BY <1>1, <1>2, <1>3, <1>4
<1>6. QED
  BY <1>5 DEF S, T

LEMMA BooksFollow == TypeOK /\ Told /\ TotalsWritten => BooksAgree
<1> SUFFICES ASSUME TypeOK, Told, TotalsWritten PROVE BooksAgree
  OBVIOUS
<1>1. RunRowAgreesWithStatus
  <2>1. SUFFICES ASSUME NEW p \in Proc, ledger[p] = "closed"
                 PROVE  /\ okCount[p] = Cardinality(RowsOf(p, TRUE))
                        /\ failedCount[p] >= Cardinality(RowsOf(p, FALSE))
                        /\ okCount[p] + failedCount[p] = Cardinality(Server)
    BY DEF RunRowAgreesWithStatus
  <2>2. /\ Settled(p) /\ okCount[p] = Cardinality(SettledWith(p, "ok"))
        /\ failedCount[p] = Cardinality(SettledWith(p, "failed"))
    BY <2>1 DEF TotalsWritten
  <2>3. QED
    BY <2>2, RowsCounted, EveryServerCounted
<1>2. ExitStatusHonest
  <2>1. SUFFICES ASSUME NEW p \in Proc, ledger[p] = "closed"
                 PROVE  okCount[p] # 0 <=> \E r \in status : r.by = p /\ r.ok
    BY <2>1 DEF ExitStatusHonest, TotalsWritten
  <2>2. okCount[p] = Cardinality(SettledWith(p, "ok"))
    BY <2>1 DEF TotalsWritten
  <2>3. okCount[p] # 0 <=> SettledWith(p, "ok") # {}
    BY <2>2, SettledCount, FS_EmptySet
  <2>4. (\E r \in status : r.by = p /\ r.ok) <=> \E s \in Server : result[p][s] = "ok"
    BY DEF Told, TypeOK, StatusRow
  <2>5. QED
    BY <2>3, <2>4 DEF SettledWith
<1>3. QED
  BY <1>1, <1>2 DEF BooksAgree

Inv5 == Inv3 /\ UnsettledBefore /\ Told /\ TotalsWritten

LEMMA Inv5Correct ==
  ASSUME Faults \cap {"ack", "session", "clock"} = {}
  PROVE  Spec => []Inv5
<1>1. Init => UnsettledBefore /\ Told /\ TotalsWritten
  BY DEF Init, UnsettledBefore, Told, TotalsWritten
<1>2. Inv3 /\ Inv3' /\ UnsettledBefore /\ Told /\ TotalsWritten /\ [Next]_vars
        => (UnsettledBefore /\ Told /\ TotalsWritten)'
  BY UnsettledStep, BooksStep DEF Inv3, Inv2, Inv1
<1>3. Spec => []Inv3
  BY Inv3Correct
<1>4. QED
  BY <1>1, <1>2, <1>3, PTL DEF Spec, Inv5

(* The totals of mon.runs, the rows of mon.server_status and the exit status *)
(* tell one story, whoever is killed and whatever statement is refused, as   *)
(* long as the sessions live, the starts are a second apart and a statement  *)
(* that takes effect is acknowledged (finish_run, record_server_status,      *)
(* _run_tier).                                                               *)
THEOREM BooksKept ==
  ASSUME Faults \cap {"ack", "session", "clock"} = {}
  PROVE  Spec => []BooksAgree
<1>1. Inv5 => BooksAgree
  BY BooksFollow DEF Inv5, Inv3, Inv2, Inv1
<1>2. QED
  BY <1>1, Inv5Correct, PTL

(* A status row is written under the run of the process that writes it.      *)
OwnRows == \A r \in status : r.run = r.by

Inv6 == Inv3 /\ OwnRows

LEMMA OwnRowsStep ==
  ASSUME Inv3, OwnRows, [Next]_vars
  PROVE  OwnRows'
<1>1. ASSUME NEW p \in Proc, NEW s \in Server, WorkerStep(p, s)
      PROVE  OwnRows'
  <2>1. attached[p][s] # NoRun => attached[p][s] = p
    BY DEF Inv3, ReportsUnderOwnRun
  <2>2. CASE UNCHANGED status
    BY <2>2 DEF OwnRows
  <2>3. CASE WorkerRecordsOk(p, s)
    BY <2>1, <2>3 DEF WorkerRecordsOk, At, Row, OwnRows, Attached, Inv3, Inv2, Inv1
  <2>4. CASE WorkerReportsFailure(p, s)
    BY <2>1, <2>4 DEF WorkerReportsFailure, Row, OwnRows
  <2>5. QED
    BY <1>1, <2>2, <2>3, <2>4 DEF WorkerStep, WorkerStarts, WorkerAttaches, WorkerCollects,
       reportVars
<1>2. ASSUME NEW p \in Proc, ProcessStep(p) PROVE OwnRows'
  BY <1>2, WorkReportsKept DEF OwnRows, reportVars
<1>3. CASE UNCHANGED vars
  BY <1>3 DEF OwnRows, vars, reportVars
<1>4. QED
  BY <1>1, <1>2, <1>3, NextSteps

LEMMA Inv6Correct ==
  ASSUME Faults \cap {"session", "clock"} = {}
  PROVE  Spec => []Inv6
<1>1. Init => OwnRows
  BY DEF Init, OwnRows
<1>2. Inv3 /\ OwnRows /\ [Next]_vars => OwnRows'
  BY OwnRowsStep
<1>3. QED
  BY <1>1, <1>2, Inv3Correct, PTL DEF Spec, Inv6

(* A closed run gains no status row any more, also when acknowledgements are *)
(* lost, as long as the sessions live and the starts are a second apart.     *)
THEOREM ClosedRunsSealed ==
  ASSUME Faults \cap {"session", "clock"} = {}
  PROVE  Spec => FinishedRunsAreSealed
<1> DEFINE Sealed == \A p \in Proc : ledger[p] = "closed" =>
                       \A ok \in BOOLEAN : RowsOf(p, ok)' = RowsOf(p, ok)
<1>1. Inv6 /\ Inv6' /\ [Next]_vars => [Sealed]_vars
  <2>1. SUFFICES ASSUME Inv6, Inv6', Next, NEW p \in Proc, ledger[p] = "closed", NEW ok \in BOOLEAN
                 PROVE  RowsOf(p, ok)' = RowsOf(p, ok)
    OBVIOUS
  <2>2. CASE UNCHANGED status
    BY <2>2 DEF RowsOf
  <2>3. ASSUME NEW q \in Proc, NEW s \in Server, WorkerStep(q, s)
        PROVE  RowsOf(p, ok)' = RowsOf(p, ok)
    <3>1. q # p
      BY <2>1, <2>3, WorkerMainVars DEF Inv6, Inv3, Inv2, Inv1, RowPhase
    <3>2. \A r \in status' : r \in status \/ r.by = q
      BY <2>3 DEF WorkerStep, WorkerStarts, WorkerAttaches, WorkerCollects, WorkerRecordsOk,
         WorkerReportsFailure, Row, reportVars
    <3>3. status \subseteq status'
      BY <2>3 DEF WorkerStep, WorkerStarts, WorkerAttaches, WorkerCollects, WorkerRecordsOk,
         WorkerReportsFailure, reportVars
    <3>4. \A r \in status' : r.run = r.by
      BY <2>1 DEF Inv6, OwnRows
    <3>5. QED
      BY <3>1, <3>2, <3>3, <3>4 DEF RowsOf
  <2>4. ASSUME NEW q \in Proc, ProcessStep(q) PROVE UNCHANGED status
    BY <2>4, WorkReportsKept DEF reportVars
  <2>5. QED
    BY <2>1, <2>2, <2>3, <2>4, NextSteps DEF vars, reportVars
<1>2. QED
  BY <1>1, Inv6Correct, PTL DEF Spec, FinishedRunsAreSealed

(* A failure that is settled is reported, and one still to report has a run  *)
(* to report it under.                                                       *)
Reported ==
  \A p \in Proc, s \in Server :
    /\ worker[p][s] = "failing" => attached[p][s] # NoRun
    /\ result[p][s] = "failed" =>
         /\ \E r \in status : r.by = p /\ r.server = s /\ ~r.ok
         /\ <<p, s>> \in findings
         /\ p \notin DryRun => <<p, s>> \in paged

LEMMA ReportedProcess ==
  ASSUME TypeOK, Reported, NEW p \in Proc, ProcessStep(p)
  PROVE  Reported'
<1>1. UNCHANGED <<result, attached, status, findings, paged>>
  BY WorkReportsKept DEF reportVars
<1>2. ASSUME NEW q \in Proc, NEW s \in Server
      PROVE  worker'[q][s] = "failing" => worker[q][s] = "failing"
  <2>1. CASE Submit(p)
    BY <2>1 DEF Submit, TypeOK
  <2>2. CASE ~Submit(p)
    BY <2>2 DEF ProcessStep, MainStep, Connect, AcquireLock, SkipRun, StartRun, SelectServer,
       InsertServer, FinishRun, MainRaises, Leave, LoseSession, Crash, ReapSession, workVars
  <2>3. QED
    BY <2>1, <2>2
<1>3. ASSUME NEW q \in Proc, NEW s \in Server
      PROVE  /\ worker'[q][s] = "failing" => attached'[q][s] # NoRun
             /\ result'[q][s] = "failed" =>
                  /\ \E r \in status' : r.by = q /\ r.server = s /\ ~r.ok
                  /\ <<q, s>> \in findings'
                  /\ q \notin DryRun => <<q, s>> \in paged'
  BY <1>1, <1>2 DEF Reported
<1>4. QED
  BY <1>3 DEF Reported

LEMMA ReportedWorker ==
  ASSUME "repo" \notin Faults, TypeOK, Attached, Reported,
         NEW p \in Proc, NEW s \in Server, WorkerStep(p, s)
  PROVE  Reported'
<1>1. status \subseteq status' /\ findings \subseteq findings' /\ paged \subseteq paged'
  BY DEF WorkerStep, WorkerStarts, WorkerAttaches, WorkerCollects, WorkerRecordsOk,
         WorkerReportsFailure, reportVars
<1>2. /\ worker'[p][s] = "failing" => attached'[p][s] # NoRun
      /\ result'[p][s] = "failed" =>
           /\ \E r \in status' : r.by = p /\ r.server = s /\ ~r.ok
           /\ <<p, s>> \in findings'
           /\ p \notin DryRun => <<p, s>> \in paged'
  <2>1. ASSUME NEW x PROVE Go(p, s, x) => worker'[p][s] = x
    BY DEF Go, TypeOK
  <2>2. result[p][s] = "failed" =>
          /\ \E r \in status' : r.by = p /\ r.server = s /\ ~r.ok
          /\ <<p, s>> \in findings'
          /\ p \notin DryRun => <<p, s>> \in paged'
    BY <1>1 DEF Reported
  <2>3. CASE WorkerStarts(p, s) \/ WorkerAttaches(p, s)
    <3>1. UNCHANGED result /\ worker'[p][s] # "failing"
      BY <2>1, <2>3 DEF WorkerStarts, WorkerAttaches
    <3>2. QED
      BY <2>2, <3>1
  <2>4. CASE WorkerCollects(p, s)
    <3>1. UNCHANGED <<attached, result>> /\ worker[p][s] = "collecting"
      BY <2>4 DEF WorkerCollects, At
    <3>2. QED
      BY <2>2, <3>1 DEF Attached
  <2>5. CASE WorkerRecordsOk(p, s)
    <3>1. CASE Return(p, s, "ok")
      BY <2>1, <3>1 DEF Return, TypeOK
    <3>2. CASE Go(p, s, "failing") /\ UNCHANGED result  \* the answer is lost
      <4>1. UNCHANGED attached /\ attached[p][s] # NoRun
        BY <2>5 DEF WorkerRecordsOk, At, Attached
      <4>2. QED
        BY <2>2, <3>2, <4>1
    <3>3. QED
      BY <2>5, <3>1, <3>2 DEF WorkerRecordsOk
  <2>6. CASE WorkerReportsFailure(p, s)
    <3>1. worker'[p][s] = "done" /\ attached[p][s] # NoRun
      <4>1. Return(p, s, "failed") /\ worker[p][s] = "failing"
        BY <2>6 DEF WorkerReportsFailure, At
      <4>2. QED
        BY <4>1, <2>1 DEF Return, Reported
    <3>2. /\ status' = status \cup {Row(p, s, FALSE)} /\ findings' = findings \cup {<<p, s>>}
          /\ p \notin DryRun => paged' = paged \cup {<<p, s>>}
      BY <2>6, <3>1 DEF WorkerReportsFailure
    <3>3. Row(p, s, FALSE) \in status' /\ <<p, s>> \in findings'
      BY <3>2
    <3>4. Row(p, s, FALSE).by = p /\ Row(p, s, FALSE).server = s /\ ~Row(p, s, FALSE).ok
      BY DEF Row
    <3>5. QED
      BY <3>1, <3>2, <3>3, <3>4
  <2>7. QED
    BY <2>3, <2>4, <2>5, <2>6 DEF WorkerStep
<1>3. ASSUME NEW q \in Proc, NEW x \in Server, <<q, x>> # <<p, s>>
      PROVE  /\ worker'[q][x] = worker[q][x] /\ attached'[q][x] = attached[q][x]
             /\ result'[q][x] = result[q][x]
  BY <1>3, WorkerElsewhere
<1>4. ASSUME NEW q \in Proc, NEW x \in Server, <<q, x>> # <<p, s>>
      PROVE  /\ worker'[q][x] = "failing" => attached'[q][x] # NoRun
             /\ result'[q][x] = "failed" =>
                  /\ \E r \in status' : r.by = q /\ r.server = x /\ ~r.ok
                  /\ <<q, x>> \in findings'
                  /\ q \notin DryRun => <<q, x>> \in paged'
  BY <1>1, <1>3, <1>4 DEF Reported
<1>5. QED
  BY <1>2, <1>4 DEF Reported

(* runner.py's header: while the repository answers, a server's failure is   *)
(* recorded, written as a finding and, unless the run is dry, paged.         *)
THEOREM FailuresReported ==
  ASSUME "repo" \notin Faults
  PROVE  Spec => []FailureReported
<1>1. Init => TypeOK /\ Attached /\ Reported
  BY TypeInit DEF Init, Reported
<1>2. TypeOK /\ Attached /\ Reported /\ [Next]_vars => (TypeOK /\ Attached /\ Reported)'
  <2>1. ASSUME Reported, UNCHANGED vars PROVE Reported'
    BY <2>1 DEF Reported, vars, workVars, reportVars
  <2>2. QED
    BY <2>1, TypeStep, NextSteps, ReportedProcess, ReportedWorker
<1>3. Reported => FailureReported
  BY DEF Reported, FailureReported
<1>4. QED
  BY <1>1, <1>2, <1>3, PTL DEF Spec


-----------------------------------------------------------------------------
(* TierRun implements RunLedger: every step of the program is a step of the  *)
(* promise, or changes nothing the promise speaks of.                        *)
Inv4 == Inv2 /\ UnsettledBefore

LEMMA Inv4Correct ==
  ASSUME "session" \notin Faults
  PROVE  Spec => []Inv4
<1>1. Init => UnsettledBefore
  BY DEF Init, UnsettledBefore
<1>2. Inv2 /\ UnsettledBefore /\ [Next]_vars => UnsettledBefore'
  BY UnsettledStep DEF Inv2, Inv1
<1>3. QED
  BY <1>1, <1>2, Inv2Correct, PTL DEF Inv4, Spec

-----------------------------------------------------------------------------
(* The main thread moves, and with it the phase of its invocation.           *)
Phases == [q \in Proc |-> Phase(q)]
Tally  == [q \in Proc |-> <<okCount[q], failedCount[q]>>]

LEMMA PhaseMoves ==
  ASSUME TypeOK, NEW p \in Proc, NEW to, Move(p, to)
  PROVE  Phases' = [Phases EXCEPT ![p] =
                      CASE to \in {"idle", "locking"} -> "waiting"
                        [] to \in Holding             -> "running"
                        [] OTHER                      -> "ended"]
<1>1. \A q \in Proc : pc'[q] = IF q = p THEN to ELSE pc[q]
  BY DEF Move, TypeOK
<1>2. QED
  BY <1>1 DEF Phases, Phase, Holding

LEMMA PhaseStays ==
  ASSUME TypeOK, NEW p \in Proc, NEW to, Move(p, to),
         \/ to \in Holding /\ pc[p] \in Holding
         \/ to \in {"idle", "locking"} /\ pc[p] \in {"idle", "locking"}
  PROVE  UNCHANGED Phases
<1>1. \A q \in Proc : pc'[q] = IF q = p THEN to ELSE pc[q]
  BY DEF Move, TypeOK
<1>2. ASSUME NEW q \in Proc
      PROVE  Phase(q)' = Phase(q)
  BY <1>1 DEF Phase, Holding
<1>3. QED
  BY <1>2 DEF Phases

LEMMA Running ==
  ASSUME NEW p \in Proc
  PROVE  /\ Phases[p] = "running" <=> pc[p] \in Holding
         /\ Phases[p] = "waiting" <=> pc[p] \in {"idle", "locking"}
         /\ Phases[p] \in {"waiting", "running", "ended"}
BY DEF Phases, Phase, Holding

LEMMA Totals ==
  ASSUME NEW p \in Proc, NEW res
  PROVE  Ledger!Count(p, res) = Cardinality(SettledWith(p, res))
BY DEF Ledger!Count, SettledWith, Ledger!Cardinality, Cardinality, Ledger!IsFiniteSet, IsFiniteSet

(* What the ledger sees of the steps of a process ...                        *)
LEMMA ProcessRefines ==
  ASSUME "session" \notin Faults, Inv4, NEW p \in Proc, ProcessStep(p)
  PROVE  [Ledger!Next]_Ledger!ledgerVars
<1> USE DEF Inv4, Inv2, Inv1
<1> UNCHANGED result
  BY DEF ProcessStep, MainStep, Connect, AcquireLock, SkipRun, StartRun, SelectServer,
     InsertServer, Submit, FinishRun, MainRaises, Leave, LoseSession, Crash, ReapSession, workVars
<1>1. ASSUME UNCHANGED dbVars, NEW to \in {"ok", "skipped", "failed", "dead"}, Move(p, to),
             pc[p] \in {"idle", "locking"} \cup Holding
      PROVE  Ledger!Next
  <2>1. /\ Phases[p] # "ended"
        /\ Phases' = [Phases EXCEPT ![p] = "ended"]
    BY <1>1, PhaseMoves DEF Phases, Phase, Holding
  <2>2. UNCHANGED Tally
    BY <1>1 DEF Tally, dbVars
  <2>3. Ledger!End(p)
    BY <1>1, <2>1, <2>2 DEF Ledger!End, Phases, Tally, dbVars
  <2>4. QED
    BY <2>3 DEF Ledger!Next
<1>2. ASSUME UNCHANGED dbVars, NEW to \in Holding, Move(p, to), pc[p] \in Holding
      PROVE  UNCHANGED Ledger!ledgerVars
  <2>1. UNCHANGED Phases
    BY <1>2, PhaseStays
  <2>2. QED
    BY <1>2, <2>1 DEF Ledger!ledgerVars, Phases, dbVars
<1>3. ASSUME UNCHANGED dbVars, UNCHANGED pc
      PROVE  UNCHANGED Ledger!ledgerVars
  BY <1>3 DEF Ledger!ledgerVars, Phase, dbVars
<1>4. CASE AcquireLock(p)
  <2>1. /\ Phases[p] = "waiting" /\ Phases' = [Phases EXCEPT ![p] = "running"]
    BY <1>4, PhaseMoves DEF AcquireLock, Phases, Phase, Holding
  <2>2. \A q \in Proc : TierOf[q] = TierOf[p] => Phases[q] # "running"
    BY <1>4, Running, AbsentAssumption DEF AcquireLock, LockHeld
  <2>3. UNCHANGED <<ledger, Tally>>
    BY <1>4 DEF AcquireLock, Tally, dbVars
  <2>4. Ledger!Begin(p)
    BY <2>1, <2>2, <2>3 DEF Ledger!Begin, Ledger!Alone, Phases, Tally
  <2>5. QED
    BY <2>4 DEF Ledger!Next
<1>5. CASE StartRun(p)
  <2>1. /\ Phases[p] = "running" /\ UNCHANGED Phases /\ UNCHANGED Tally
    BY <1>5, PhaseStays, Running DEF StartRun, Done, Holding, Tally
  <2>2. ledger[p] = "none" /\ ledger' = [ledger EXCEPT ![p] = "open"]
    BY <1>5 DEF StartRun, RowPhase
  <2>3. Ledger!Open(p)
    BY <2>1, <2>2 DEF Ledger!Open, Phases, Tally
  <2>4. QED
    BY <2>3 DEF Ledger!Next
<1>6. CASE FinishRun(p)
  <2>1. /\ Phases[p] = "running" /\ UNCHANGED Phases
    BY <1>6, PhaseStays, Running DEF FinishRun, Done, Holding
  <2>2. Tally' = [Tally EXCEPT ![p] = <<Ledger!Count(p, "ok"), Ledger!Count(p, "failed")>>]
    BY <1>6, Totals DEF FinishRun, Tally, TypeOK
  <2>3. ledger[p] = "open" /\ ledger' = [ledger EXCEPT ![p] = "closed"]
    BY <1>6 DEF FinishRun, RowPhase
  <2>4. \A s \in Server : result[p][s] # "none"
    BY <1>6 DEF FinishRun, Settled
  <2>5. Ledger!Close(p)
    BY <2>1, <2>2, <2>3, <2>4 DEF Ledger!Close, Phases, Tally
  <2>6. QED
    BY <2>5 DEF Ledger!Next
<1>7. CASE Connect(p)
  <2>1. CASE Move(p, "failed")
    BY <1>1, <1>7, <2>1 DEF Connect
  <2>2. CASE Move(p, "locking")
    <3>1. UNCHANGED Phases
      BY <1>7, <2>2, PhaseStays DEF Connect
    <3>2. QED
      BY <1>7, <3>1 DEF Connect, Ledger!ledgerVars, Phases, dbVars
  <2>3. QED
    BY <1>7, <2>1, <2>2 DEF Connect
<1>8. CASE SkipRun(p)
  BY <1>1, <1>8 DEF SkipRun
<1>9. CASE (\E s \in Server : SelectServer(p, s)) \/ ReapSession(p)
  BY <1>3, <1>9 DEF SelectServer, ReapSession
<1>10. CASE InsertServer(p)
  BY <1>2, <1>3, <1>10 DEF InsertServer, Done, Holding
<1>11. CASE Submit(p)
  BY <1>2, <1>11 DEF Submit, Holding
<1>12. CASE MainRaises(p)
  BY <1>1, <1>2, <1>12 DEF MainRaises, Holding
<1>13. CASE Leave(p)
  BY <1>1, <1>13 DEF Leave, Holding
<1>14. CASE Crash(p)
  BY <1>1, <1>14 DEF Crash, Holding, Terminal, TypeOK
<1>15. QED
  BY <1>4, <1>5, <1>6, <1>7, <1>8, <1>9, <1>10, <1>11, <1>12, <1>13, <1>14
     DEF ProcessStep, MainStep, LoseSession

(* ... and of the steps of a worker: its return, which settles the server.   *)
LEMMA WorkerRefines ==
  ASSUME Inv4, NEW p \in Proc, NEW s \in Server, WorkerStep(p, s)
  PROVE  [Ledger!Next]_Ledger!ledgerVars
<1> USE DEF Inv4, Inv2, Inv1
<1>1. UNCHANGED mainVars /\ pc[p] = "fanout" /\ worker[p][s] # "done"
  BY WorkerMainVars DEF WorkerStep, WorkerStarts, WorkerAttaches, WorkerCollects,
     WorkerRecordsOk, WorkerReportsFailure, At
<1>2. UNCHANGED <<Phases, ledger, Tally>>
  BY <1>1 DEF mainVars, dbVars, Phases, Phase, Tally
<1>3. CASE UNCHANGED result
  BY <1>2, <1>3 DEF Ledger!ledgerVars, Phases, Tally
<1>4. CASE \E res \in {"ok", "failed"} : result' = [result EXCEPT ![p][s] = res]
  <2>1. Phases[p] = "running" /\ ledger[p] = "open" /\ result[p][s] = "none"
    BY <1>1, Running DEF Holding, RowPhase, UnsettledBefore
  <2>2. Ledger!Settle(p, s)
    BY <1>2, <1>4, <2>1 DEF Ledger!Settle, Phases, Tally
  <2>3. QED
    BY <2>2 DEF Ledger!Next
<1>5. QED
  BY <1>3, <1>4 DEF WorkerStep, WorkerStarts, WorkerAttaches, WorkerCollects, WorkerRecordsOk,
     WorkerReportsFailure, Return

(* As long as no main session is lost, mon.runs is kept as RunLedger says:   *)
(* one invocation at a time in a tier, every server settled once, and a row  *)
(* closed once, with the totals of all servers (run_tier, _fan_out).         *)
THEOREM LedgerKept ==
  ASSUME "session" \notin Faults
  PROVE  Spec => KeepsLedger
<1>1. Init => Ledger!Init
  <2> SUFFICES ASSUME Init PROVE Ledger!Init
    OBVIOUS
  <2>1. \A p \in Proc : Phase(p) = "waiting" /\ okCount[p] = 0 /\ failedCount[p] = 0
    BY DEF Init, Phase, Holding
  <2>2. QED
    BY <2>1 DEF Init, Ledger!Init
<1>2. Inv4 /\ [Next]_vars => [Ledger!Next]_Ledger!ledgerVars
  <2>1. CASE UNCHANGED vars
    BY <2>1 DEF vars, dbVars, workVars, Ledger!ledgerVars, Phase
  <2>2. QED
    BY <2>1, NextSteps, ProcessRefines, WorkerRefines
<1>3. QED
  BY <1>1, <1>2, Inv4Correct, PTL DEF Spec, KeepsLedger, Ledger!Spec
=============================================================================
