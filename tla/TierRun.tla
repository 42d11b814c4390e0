------------------------------- MODULE TierRun -------------------------------
(***************************************************************************)
(* The orchestration of one collector invocation ("sqlhealthwatch fast" or *)
(* "sqlhealthwatch daily"): runner.run_tier, _fan_out and _collect_server, *)
(* the repository statements they issue (tier_lock, start_run,             *)
(* ensure_server, finish_run, record_server_status), and the exit status   *)
(* of __main__._run_tier.                                                  *)
(*                                                                         *)
(* Several invocations, each an operating system process with a main       *)
(* thread and a pool of worker threads, share one repository database.     *)
(* The only thing that keeps two of them apart is a session-owned          *)
(* application lock per tier.  What a worker does to the samples and to    *)
(* the alerts between its attach and its status row belongs to the modules *)
(* DeadlockIngest and AlertRouter; here it is one step that works or       *)
(* raises.  The schema is taken to exist: its bootstrap is in Startup.     *)
(***************************************************************************)
EXTENDS Integers, FiniteSets

CONSTANTS
  Proc,        \* collector invocations; each runs once
  Tier,        \* the collection tiers, "fast" and "daily"
  TierOf,      \* the tier each invocation was started for
  Server,      \* the enabled servers of the inventory
  MaxWorkers,  \* settings.concurrency.max_workers
  DryRun,      \* the invocations started with --dry-run
  Stamp,       \* the values of the one-second clock runs.started_utc keeps
  Faults,      \* the faults the environment may inject, see FaultKind
  NoProc,      \* nobody holds the lock
  NoRun,       \* the run id "-" of a worker that never attached
  NoServer     \* no dimension row is being inserted

(* "server"   the monitored server fails anywhere between 162 and 181        *)
(* "repo"     a statement, or a connect, against the repository raises and   *)
(*            has not taken effect                                           *)
(* "ack"      a statement takes effect and raises all the same, its          *)
(*            acknowledgement lost                                           *)
(* "session"  the main connection dies while its process goes on             *)
(* "crash"    the process is killed                                          *)
(* "clock"    two runs start in the same second, or the clock steps back     *)
FaultKind == {"server", "repo", "ack", "session", "crash", "clock"}

ASSUME TierAssumption    == TierOf \in [Proc -> Tier]
ASSUME ServerAssumption  == IsFiniteSet(Server) /\ Server # {}
ASSUME WorkerAssumption  == MaxWorkers \in Nat \ {0}
ASSUME StampAssumption   == Stamp \subseteq Nat
ASSUME OptionAssumption  == DryRun \subseteq Proc /\ Faults \subseteq FaultKind
ASSUME AbsentAssumption  == NoProc \notin Proc /\ NoRun \notin Proc /\ NoServer \notin Server

VARIABLES
  pc,        \* pc[p]: where the main thread of p is in run_tier
  sess,      \* sess[p]: the main connection of p is a live session on the server
  owner,     \* owner[t]: the process whose session owns the lock of tier t
  ledger,    \* ledger[p]: the mon.runs row of p: "none", "open" or "closed"
  started,   \* started[p]: its started_utc
  okCount,   \* okCount[p], failedCount[p]: its servers_ok and servers_failed
  failedCount,
  dim,       \* the servers that have a mon.server row
  todo,      \* todo[p]: the servers p has yet to resolve
  pending,   \* pending[p]: the server p has selected, not found and will insert
  worker,    \* worker[p][s]: where the worker of p for server s is
  attached,  \* attached[p][s]: the run that worker reports under
  result,    \* result[p][s]: its ServerResult
  status,    \* the rows of mon.server_status, each with the process that wrote it
  findings,  \* the unreachable findings written: a set of <<process, server>>
  paged      \* those handed to AlertRouter.dispatch

dbVars     == <<ledger, started, okCount, failedCount>>
reportVars == <<status, findings, paged>>
workVars   == <<worker, attached, result>>
vars == <<pc, sess, owner, dbVars, dim, todo, pending, workVars, reportVars>>

Holding  == {"starting", "resolving", "fanout", "leaving", "raising"}
Terminal == {"ok", "skipped", "failed", "dead"}
Busy     == {"attaching", "collecting", "recording", "failing"}

StatusRow == [run : Proc, server : Server, ok : BOOLEAN, by : Proc]

TypeOK ==
  /\ pc \in [Proc -> {"idle", "locking"} \cup Holding \cup Terminal]
  /\ sess \in [Proc -> BOOLEAN]
  /\ owner \in [Tier -> Proc \cup {NoProc}]
  /\ ledger \in [Proc -> {"none", "open", "closed"}]
  /\ started \in [Proc -> Nat]
  /\ okCount \in [Proc -> Nat]
  /\ failedCount \in [Proc -> Nat]
  /\ dim \in SUBSET Server
  /\ todo \in [Proc -> SUBSET Server]
  /\ pending \in [Proc -> Server \cup {NoServer}]
  /\ worker \in [Proc -> [Server -> {"none", "queued", "done"} \cup Busy]]
  /\ attached \in [Proc -> [Server -> Proc \cup {NoRun}]]
  /\ result \in [Proc -> [Server -> {"none", "ok", "failed"}]]
  /\ status \in SUBSET StatusRow
  /\ findings \in SUBSET (Proc \X Server)
  /\ paged \in SUBSET (Proc \X Server)

Init ==
  /\ pc = [p \in Proc |-> "idle"]
  /\ sess = [p \in Proc |-> FALSE]
  /\ owner = [t \in Tier |-> NoProc]
  /\ ledger = [p \in Proc |-> "none"]
  /\ started = [p \in Proc |-> 0]
  /\ okCount = [p \in Proc |-> 0]
  /\ failedCount = [p \in Proc |-> 0]
  /\ dim \in SUBSET Server
  /\ todo = [p \in Proc |-> Server]
  /\ pending = [p \in Proc |-> NoServer]
  /\ worker = [p \in Proc |-> [s \in Server |-> "none"]]
  /\ attached = [p \in Proc |-> [s \in Server |-> NoRun]]
  /\ result = [p \in Proc |-> [s \in Server |-> "none"]]
  /\ status = {}
  /\ findings = {}
  /\ paged = {}

-----------------------------------------------------------------------------
(* The main thread.                                                          *)

Move(p, to) == pc' = [pc EXCEPT ![p] = to]

(* The session of p ends, and with it any lock the session owned.            *)
DropSession(p) ==
  /\ sess' = [sess EXCEPT ![p] = FALSE]
  /\ owner' = [t \in Tier |-> IF owner[t] = p THEN NoProc ELSE owner[t]]

(* A statement has taken effect: the main thread goes on, unless the answer  *)
(* is lost.  (A lost answer of sp_getapplock is MainRaises: the lock goes    *)
(* with the session.)                                                        *)
Done(p, to) == Move(p, to) \/ ("ack" \in Faults /\ Move(p, "raising"))

SettledWith(p, res) == {s \in Server : result[p][s] = res}
Settled(p) == \A s \in Server : result[p][s] # "none"

(* with Repository(...): the main connection is opened, or the run fails.    *)
Connect(p) ==
  /\ pc[p] = "idle"
  /\ \/ /\ Move(p, "locking")
        /\ sess' = [sess EXCEPT ![p] = TRUE]
     \/ /\ "repo" \in Faults
        /\ Move(p, "failed")
        /\ UNCHANGED sess
  /\ UNCHANGED <<owner, dbVars, dim, todo, pending, workVars, reportVars>>

AcquireLockUnguarded(p) ==  \* mutant: a refused lock is taken for granted
  /\ pc[p] = "locking" /\ sess[p]
  /\ owner' = [owner EXCEPT ![TierOf[p]] = p]
  /\ Move(p, "starting")
  /\ UNCHANGED <<sess, dbVars, dim, todo, pending, workVars, reportVars>>

(* sp_getapplock with @LockTimeout = 0: it answers at once.                  *)
AcquireLock(p) ==
  /\ pc[p] = "locking" /\ sess[p]
  /\ owner[TierOf[p]] = NoProc
  /\ owner' = [owner EXCEPT ![TierOf[p]] = p]
  /\ Move(p, "starting")
  /\ UNCHANGED <<sess, dbVars, dim, todo, pending, workVars, reportVars>>

SkipRun(p) ==
  /\ pc[p] = "locking" /\ sess[p]
  /\ owner[TierOf[p]] # NoProc
  /\ sess' = [sess EXCEPT ![p] = FALSE]
  /\ Move(p, "skipped")
  /\ UNCHANGED <<owner, dbVars, dim, todo, pending, workVars, reportVars>>

(* The stamps utcnow() may give the run that starts now: the next second     *)
(* that no run has, unless the clock may tie or step back.                   *)
StartStamps ==
  LET Rows == {q \in Proc : ledger[q] # "none"}
  IN  IF "clock" \in Faults
      THEN Stamp
      ELSE {t \in Stamp : /\ \A q \in Rows : started[q] < t
                          /\ t = 1 \/ \E q \in Rows : started[q] = t - 1}

StartRun(p) ==
  /\ pc[p] = "starting" /\ sess[p]
  /\ \E t \in StartStamps : started' = [started EXCEPT ![p] = t]
  /\ ledger' = [ledger EXCEPT ![p] = "open"]
  /\ Done(p, "resolving")
  /\ UNCHANGED <<sess, owner, okCount, failedCount, dim, todo, pending, workVars, reportVars>>

(* ensure_server: the row is there, and its id is cached ...                 *)
SelectServer(p, s) ==
  /\ pc[p] = "resolving" /\ sess[p]
  /\ pending[p] = NoServer /\ s \in todo[p]
  /\ IF s \in dim
     THEN todo' = [todo EXCEPT ![p] = @ \ {s}] /\ UNCHANGED pending
     ELSE pending' = [pending EXCEPT ![p] = s] /\ UNCHANGED todo
  /\ UNCHANGED <<pc, sess, owner, dbVars, dim, workVars, reportVars>>

(* ... or it was not, and the INSERT runs into the UNIQUE constraint when    *)
(* another process has added the row since.                                  *)
InsertServer(p) ==
  /\ pc[p] = "resolving" /\ sess[p]
  /\ pending[p] # NoServer
  /\ pending' = [pending EXCEPT ![p] = NoServer]
  /\ \/ /\ pending[p] \notin dim
        /\ dim' = dim \cup {pending[p]}
        /\ todo' = [todo EXCEPT ![p] = @ \ {pending[p]}]
        /\ Done(p, "resolving")
     \/ /\ pending[p] \in dim
        /\ Move(p, "raising")
        /\ UNCHANGED <<dim, todo>>
  /\ UNCHANGED <<sess, owner, dbVars, workVars, reportVars>>

(* _fan_out: every server is submitted to the pool at once.                  *)
Submit(p) ==
  /\ pc[p] = "resolving"
  /\ todo[p] = {} /\ pending[p] = NoServer
  /\ Move(p, "fanout")
  /\ worker' = [worker EXCEPT ![p] = [s \in Server |-> "queued"]]
  /\ UNCHANGED <<sess, owner, dbVars, dim, todo, pending, attached, result, reportVars>>

FinishRunEarly(p) ==  \* mutant: does not wait for every future
  /\ pc[p] = "fanout" /\ sess[p]
  /\ ledger' = [ledger EXCEPT ![p] = "closed"]
  /\ okCount' = [okCount EXCEPT ![p] = Cardinality(SettledWith(p, "ok"))]
  /\ failedCount' = [failedCount EXCEPT ![p] = Cardinality(SettledWith(p, "failed"))]
  /\ Move(p, "leaving")
  /\ UNCHANGED <<sess, owner, started, dim, todo, pending, workVars, reportVars>>

FinishRunAllOk(p) ==  \* mutant: a failed worker never counts as completed
  /\ SettledWith(p, "ok") = Server
  /\ FinishRunEarly(p)

(* as_completed has drained the futures; the run row gets its totals.        *)
FinishRun(p) ==
  /\ pc[p] = "fanout" /\ Settled(p) /\ sess[p]
  /\ ledger' = [ledger EXCEPT ![p] = "closed"]
  /\ okCount' = [okCount EXCEPT ![p] = Cardinality(SettledWith(p, "ok"))]
  /\ failedCount' = [failedCount EXCEPT ![p] = Cardinality(SettledWith(p, "failed"))]
  /\ Done(p, "leaving")
  /\ UNCHANGED <<sess, owner, started, dim, todo, pending, workVars, reportVars>>

(* A statement of the main thread raises.  The exception leaves run_tier     *)
(* through the finally of tier_lock when the lock is held.                   *)
MainRaises(p) ==
  /\ ~sess[p] \/ "repo" \in Faults
  /\ \/ /\ pc[p] = "locking"
        /\ Move(p, "failed")
        /\ sess' = [sess EXCEPT ![p] = FALSE]
     \/ /\ \/ pc[p] = "starting"
           \/ pc[p] = "resolving" /\ (todo[p] # {} \/ pending[p] # NoServer)
           \/ pc[p] = "fanout" /\ Settled(p)
        /\ Move(p, "raising")
        /\ UNCHANGED sess
  /\ UNCHANGED <<owner, dbVars, dim, todo, pending, workVars, reportVars>>

LeaveLocked(p) ==  \* mutant: no finally, the session stays
  /\ pc[p] \in {"leaving", "raising"}
  /\ Move(p, IF pc[p] = "raising" \/ okCount[p] = 0 THEN "failed" ELSE "ok")
  /\ UNCHANGED <<sess, owner, dbVars, dim, todo, pending, workVars, reportVars>>

LeaveOk(p) ==  \* mutant: the exit status forgets ok_count = 0
  /\ pc[p] \in {"leaving", "raising"}
  /\ DropSession(p)
  /\ Move(p, IF pc[p] = "raising" THEN "failed" ELSE "ok")
  /\ UNCHANGED <<dbVars, dim, todo, pending, workVars, reportVars>>

(* sp_releaseapplock (a failure is only logged), then the connection closes, *)
(* and _run_tier turns the outcome into the exit status.                     *)
Leave(p) ==
  /\ pc[p] \in {"leaving", "raising"}
  /\ DropSession(p)
  /\ Move(p, IF pc[p] = "raising" \/ okCount[p] = 0 THEN "failed" ELSE "ok")
  /\ UNCHANGED <<dbVars, dim, todo, pending, workVars, reportVars>>

-----------------------------------------------------------------------------
(* The workers of a fan-out: one _collect_server per server.                 *)

BusyWorkers(p) == {s \in Server : worker[p][s] \in Busy}

At(p, s, where)  == pc[p] = "fanout" /\ worker[p][s] = where
Go(p, s, where)  == worker' = [worker EXCEPT ![p][s] = where]
Return(p, s, res) ==
  /\ Go(p, s, "done")
  /\ result' = [result EXCEPT ![p][s] = res]

mainVars == <<pc, sess, owner, dbVars, dim, todo, pending>>

(* A free pool thread takes the server and opens the worker's own repository *)
(* connection.  When that raises, repo is None and nothing is recorded.      *)
WorkerStarts(p, s) ==
  /\ At(p, s, "queued")
  /\ Cardinality(BusyWorkers(p)) < MaxWorkers
  /\ \/ Go(p, s, "attaching") /\ UNCHANGED result
     \/ "repo" \in Faults /\ Return(p, s, "failed")
  /\ UNCHANGED <<mainVars, attached, reportVars>>

NewestOfAll(t) ==  \* mutant: no WHERE tier
  LET Rows == {q \in Proc : ledger[q] # "none"}
  IN  {q \in Rows : \A r \in Rows : started[r] <= started[q]}

OldestOf(t) ==  \* mutant: ORDER BY started_utc without DESC
  LET Rows == {q \in Proc : TierOf[q] = t /\ ledger[q] # "none"}
  IN  {q \in Rows : \A r \in Rows : started[q] <= started[r]}

(* _current_run_id: the newest run of the tier, in whole seconds.            *)
Newest(t) ==
  LET Rows == {q \in Proc : TierOf[q] = t /\ ledger[q] # "none"}
  IN  {q \in Rows : \A r \in Rows : started[r] <= started[q]}

WorkerAttaches(p, s) ==
  /\ At(p, s, "attaching")
  /\ \/ /\ \E q \in Newest(TierOf[p]) : attached' = [attached EXCEPT ![p][s] = q]
        /\ Go(p, s, "collecting")
     \/ /\ "repo" \in Faults
        /\ Go(p, s, "failing")
        /\ UNCHANGED attached
  /\ UNCHANGED <<mainVars, result, reportVars>>

(* Connect to the monitored server, probe it, run the collectors, persist    *)
(* the frames and evaluate: any exception lands in the error handler.        *)
WorkerCollects(p, s) ==
  /\ At(p, s, "collecting")
  /\ \/ Go(p, s, "recording")
     \/ {"server", "repo"} \cap Faults # {} /\ Go(p, s, "failing")
  /\ UNCHANGED <<mainVars, attached, result, reportVars>>

Row(p, s, ok) == [run |-> attached[p][s], server |-> s, ok |-> ok, by |-> p]

WorkerRecordsOkEarly(p, s) ==  \* mutant: the ok row precedes work that may raise
  /\ At(p, s, "recording")
  /\ status' = status \cup {Row(p, s, TRUE)}
  /\ \/ Return(p, s, "ok")
     \/ "repo" \in Faults /\ Go(p, s, "failing") /\ UNCHANGED result
  /\ UNCHANGED <<mainVars, attached, findings, paged>>

(* When the answer is lost the ok row stands, and a failed one will follow.  *)
WorkerRecordsOk(p, s) ==
  /\ At(p, s, "recording")
  /\ \/ /\ status' = status \cup {Row(p, s, TRUE)}
        /\ \/ Return(p, s, "ok")
           \/ "ack" \in Faults /\ Go(p, s, "failing") /\ UNCHANGED result
     \/ /\ "repo" \in Faults
        /\ Go(p, s, "failing")
        /\ UNCHANGED <<status, result>>
  /\ UNCHANGED <<mainVars, attached, findings, paged>>

ReportUnattached(p, s) ==  \* mutant: the status row takes the run id "-"
  /\ At(p, s, "failing")
  /\ status' = status \cup {Row(p, s, FALSE)}
  /\ findings' = findings \cup {<<p, s>>}
  /\ paged' = IF p \in DryRun THEN paged ELSE paged \cup {<<p, s>>}
  /\ Return(p, s, "failed")
  /\ UNCHANGED <<mainVars, attached>>

ReportPagedFirst(p, s) ==  \* mutant: a page that was sent counts as the report
  /\ At(p, s, "failing")
  /\ paged' = IF p \in DryRun THEN paged ELSE paged \cup {<<p, s>>}
  /\ Return(p, s, "failed")
  /\ UNCHANGED <<mainVars, attached, status, findings>>

(* The error handler: the status row, the finding, the page, in that order,  *)
(* in one try; the first that raises ends it.  "-" is not a UNIQUEIDENTIFIER,*)
(* so without a run the status row always raises.  A lost acknowledgement    *)
(* leaves here what a failure of the next statement leaves.                  *)
WorkerReportsFailure(p, s) ==
  /\ At(p, s, "failing")
  /\ \E reached \in {"nothing", "status", "finding", "all"} :
       /\ attached[p][s] = NoRun => reached = "nothing"
       /\ reached # "all" => attached[p][s] = NoRun \/ "repo" \in Faults
       /\ status' = IF reached = "nothing" THEN status ELSE status \cup {Row(p, s, FALSE)}
       /\ findings' = IF reached \in {"finding", "all"} THEN findings \cup {<<p, s>>} ELSE findings
       /\ paged' = IF reached = "all" /\ p \notin DryRun THEN paged \cup {<<p, s>>} ELSE paged
  /\ Return(p, s, "failed")
  /\ UNCHANGED <<mainVars, attached>>

-----------------------------------------------------------------------------
(* The environment.                                                          *)

(* The idle main connection is cut: a firewall, a failover, a KILL.  The     *)
(* server drops the session's lock; the process does not notice.             *)
LoseSession(p) ==
  /\ "session" \in Faults
  /\ sess[p] /\ pc[p] \in {"locking"} \cup Holding
  /\ DropSession(p)
  /\ UNCHANGED <<pc, dbVars, dim, todo, pending, workVars, reportVars>>

(* The process is killed.  Its session outlives it ...                       *)
Crash(p) ==
  /\ "crash" \in Faults
  /\ pc[p] \notin {"idle"} \cup Terminal
  /\ Move(p, "dead")
  /\ UNCHANGED <<sess, owner, dbVars, dim, todo, pending, workVars, reportVars>>

(* ... until SQL Server notices.                                             *)
ReapSession(p) ==
  /\ pc[p] = "dead" /\ sess[p]
  /\ DropSession(p)
  /\ UNCHANGED <<pc, dbVars, dim, todo, pending, workVars, reportVars>>

-----------------------------------------------------------------------------
MainStep(p) ==
  \/ AcquireLock(p) \/ SkipRun(p) \/ StartRun(p)
  \/ (\E s \in Server : SelectServer(p, s)) \/ InsertServer(p)
  \/ Submit(p) \/ FinishRun(p) \/ MainRaises(p) \/ Leave(p)

WorkerStep(p, s) ==
  \/ WorkerStarts(p, s) \/ WorkerAttaches(p, s) \/ WorkerCollects(p, s)
  \/ WorkerRecordsOk(p, s) \/ WorkerReportsFailure(p, s)

AllDone == \A p \in Proc : pc[p] \in Terminal /\ ~sess[p]

(* The invocations are finite in number; then there is nothing left to do.   *)
Finished == AllDone /\ UNCHANGED vars

Next ==
  \/ \E p \in Proc : \/ Connect(p) \/ MainStep(p)
                     \/ LoseSession(p) \/ Crash(p) \/ ReapSession(p)
  \/ \E p \in Proc, s \in Server : WorkerStep(p, s)
  \/ Finished

Spec == Init /\ [][Next]_vars

(* A process that was started keeps being scheduled, every thread of it: the *)
(* statements of both threads carry timeouts (connect, query, lock and HTTP).*)
(* SQL Server eventually notices a dead client.  Nothing makes the scheduler *)
(* start an invocation, and no fault is ever owed.                           *)
Fairness ==
  /\ \A p \in Proc : WF_vars(MainStep(p)) /\ WF_vars(ReapSession(p))
  /\ \A p \in Proc, s \in Server : WF_vars(WorkerStep(p, s))

FairSpec == Spec /\ Fairness

-----------------------------------------------------------------------------
(* Correctness.                                                              *)

RowsOf(p, ok) == {r \in status : r.run = p /\ r.ok = ok}

(* The point of the overlap guard: no server is ever being collected by two  *)
(* invocations of one tier (tier_lock, run_tier).  Needs the main sessions   *)
(* to live.                                                                  *)
NoDoubleCollection ==
  \A p, q \in Proc, s \in Server :
    /\ TierOf[p] = TierOf[q] /\ pc[p] = "fanout" /\ pc[q] = "fanout"
    /\ worker[p][s] \in Busy /\ worker[q][s] \in Busy
    => p = q

(* A worker looks its run up instead of being told it (_current_run_id):     *)
(* what it finds is nevertheless the run of its own parent.  Needs the       *)
(* sessions to live and the starts to be a second apart.                     *)
ReportsUnderOwnRun ==
  \A p \in Proc, s \in Server : attached[p][s] \in {p, NoRun}

(* Whatever the faults, that run is of the worker's tier and did not start   *)
(* before its parent's.                                                      *)
AttachedRunNotOlder ==
  \A p \in Proc, s \in Server :
    LET q == attached[p][s]
    IN  q # NoRun => /\ TierOf[q] = TierOf[p]
                     /\ ledger[q] # "none" /\ ledger[p] # "none"
                     /\ started[p] <= started[q]

(* The totals finish_run writes agree with the mon.server_status rows a join *)
(* on run_id finds: one ok row per server counted ok, at most one failed row *)
(* per server counted failed, and every server of the fleet counted once.    *)
(* Needs every acknowledgement: an ok row whose answer is lost stays beside  *)
(* the failed one of the same server.                                        *)
RunRowAgreesWithStatus ==
  \A p \in Proc : ledger[p] = "closed" =>
    /\ okCount[p] = Cardinality(RowsOf(p, TRUE))
    /\ failedCount[p] >= Cardinality(RowsOf(p, FALSE))
    /\ okCount[p] + failedCount[p] = Cardinality(Server)

(* A finished run gains no further status row: no straggler of an earlier or *)
(* a concurrent invocation writes under it (_fan_out, finish_run).           *)
FinishedRunsAreSealed ==
  [][\A p \in Proc : ledger[p] = "closed" =>
       \A ok \in BOOLEAN : RowsOf(p, ok)' = RowsOf(p, ok)]_vars

(* runner.py's header: a server's failure is caught, recorded in             *)
(* mon.server_status, raised as a crit availability alert, and left behind,  *)
(* also one that only the lost answer of the ok row makes.  Needs a          *)
(* repository that answers the error handler.                                *)
FailureReported ==
  \A p \in Proc, s \in Server :
    ledger[p] = "closed" /\ result[p][s] = "failed" =>
      /\ \E r \in status : r.by = p /\ r.server = s /\ ~r.ok
      /\ <<p, s>> \in findings
      /\ p \notin DryRun => <<p, s>> \in paged

(* Task Scheduler's last result can be trusted: an invocation that exits 0   *)
(* without having been skipped left a closed run and a server it collected,  *)
(* and one that closed its run and exits 1 collected none (_run_tier).  Needs*)
(* them too: finish_run may close the row and still fail its process.        *)
ExitStatusHonest ==
  \A p \in Proc :
    /\ pc[p] = "ok" => ledger[p] = "closed" /\ \E r \in status : r.by = p /\ r.ok
    /\ pc[p] = "failed" /\ ledger[p] = "closed" => ~\E r \in status : r.by = p /\ r.ok

(* What is left behind of an invocation tells one story, whoever reads it:   *)
(* the totals of mon.runs, the rows of mon.server_status, and the status     *)
(* Task Scheduler shows (finish_run, record_server_status, _run_tier).       *)
BooksAgree == RunRowAgreesWithStatus /\ ExitStatusHonest

(* ensure_server resolves a server, "creating if needed": with a healthy     *)
(* repository no run raises before its fan-out.                              *)
ResolvesEveryServer == \A p \in Proc : pc[p] # "raising"

(* An invocation that was started ends, whatever fails under it.             *)
RunEnds == \A p \in Proc : pc[p] = "locking" ~> pc[p] \in Terminal

(* A tier lock is given up, even by a process that was killed or that fails  *)
(* in between: the guard never silences a tier for good (tier_lock).         *)
LockFreed == \A t \in Tier, p \in Proc : owner[t] = p ~> owner[t] # p

(* The promise of the run records, RunLedger, is kept.                       *)
Phase(p) ==
  CASE pc[p] \in {"idle", "locking"} -> "waiting"
    [] pc[p] \in Holding             -> "running"
    [] OTHER                         -> "ended"

Ledger == INSTANCE RunLedger WITH
  phase   <- [p \in Proc |-> Phase(p)],
  row     <- ledger,
  outcome <- result,
  tally   <- [p \in Proc |-> <<okCount[p], failedCount[p]>>]

KeepsLedger == Ledger!Spec
=============================================================================
