------------------------------- MODULE Retention -------------------------------
(***************************************************************************)
(* The repository over the days: what the collecting commands write        *)
(* (persist, record_server_status, start_run, export_frame), and how       *)
(* "sqlhealthwatch prune" (__main__._prune, retention.prune and            *)
(* prune_exports) removes it again, with Startup as the way in.            *)
(*                                                                         *)
(* Prunes take no lock: they overlap the collectors and one another.       *)
(* Every DELETE is a transaction of its own and takes its cutoff anew.     *)
(*                                                                         *)
(* Rows are counted by age in whole days.  "older than n days" is an age   *)
(* above n, and all such ages are one: the count at Keep[t] + 1.  The      *)
(* export archive is one more store; its rows are the dated folders.       *)
(***************************************************************************)
EXTENDS Startup, FiniteSetsExt

CONSTANTS
  Order,        \* the tables in the order prune visits them
  Unbatched,    \* of these, the ones deleted in one statement: runs
  Probed,       \* of these, the one test-conn writes to: server_status
  Archive,      \* the export archive
  Keep,         \* Keep[t]: the days a store is kept, from the retention settings
  Window,       \* Window[t]: the age in days up to which its readers look
  Late,         \* Late[t]: the age a row may have when it is written
  BatchRows,    \* retention.prune_batch_rows
  Fallback,     \* the batch of the fallback of partition_switch, 50000
  Switching,    \* the processes configured with prune_strategy: partition_switch
  Partitioned,  \* the tables a DBA has partitioned
  MaxRows,      \* bound on the rows of a store, by store
  MaxErrors     \* bound on the tables at which a fault makes one prune give up

Pruned == {Order[i] : i \in DOMAIN Order}
Store  == Pruned \cup {Archive}

ASSUME RetentionAssumption ==
  /\ Order \in Seq(Table) /\ Archive \notin Table
  /\ \A i, j \in DOMAIN Order : Order[i] = Order[j] => i = j
  /\ Unbatched \subseteq Pruned /\ Probed \in Pruned /\ Partitioned \subseteq Pruned
  /\ Switching \subseteq Proc
  /\ BatchRows \in Nat \ {0} /\ Fallback \in Nat \ {0}
  /\ MaxRows \in [Store -> Nat] /\ MaxErrors \in Nat

(* With the settings as shipped (7 days of samples, 90 of deadlocks, 30 of   *)
(* the rest and of exports) the readers never ask for more than is kept:     *)
(* growth_series and drive_growth_series for retention.raw_days itself,      *)
(* deadlock_count for a day, last_alert_time for the cooldown.  A deadlock   *)
(* is stored under the time it happened, which may be days ago.  Exports     *)
(* kept 0 days are kept for ever, a setting without interest here.           *)
ASSUME HorizonAssumption ==
  /\ Keep \in [Store -> Nat] /\ Window \in [Store -> Nat] /\ Late \in [Store -> Nat]
  /\ \A t \in Store : Window[t] <= Keep[t] /\ Late[t] <= Keep[t]
  /\ Keep[Archive] > 0

VARIABLES
  rows,     \* rows[t][a]: how many rows of t are a days old
  visit,    \* visit[p]: the position in Order prune has come to
  errors,   \* errors[p]: the tables in PruneResult.errors
  doomed,   \* doomed[p]: the expired folders prune_exports has yet to remove
  turned    \* turned[p]: a midnight has passed since p began to delete

walkVars == <<visit, errors, doomed>>
vars     == <<startupVars, rows, walkVars, turned>>

Ages(t)    == 0..Keep[t]+1
Expired(t) == rows[t][Keep[t] + 1]
Size(t)    == MapThenSumSet(LAMBDA a : rows[t][a], Ages(t))

TypeOK ==
  /\ StartupTypeOK
  /\ rows = [t \in Store |-> rows[t]]
  /\ \A t \in Store : rows[t] \in [Ages(t) -> Nat]
  /\ visit \in [Proc -> 1..Len(Order)+1]
  /\ errors \in [Proc -> SUBSET Pruned]
  /\ doomed \in [Proc -> Nat]
  /\ turned \in [Proc -> BOOLEAN]

Init ==
  /\ StartupInit
  /\ rows = [t \in Store |-> [a \in Ages(t) |-> 0]]
  /\ visit = [p \in Proc |-> 1]
  /\ errors = [p \in Proc |-> {}]
  /\ doomed = [p \in Proc |-> 0]
  /\ turned = [p \in Proc |-> FALSE]

-----------------------------------------------------------------------------
(* Commands start, work their way in, and fail.                              *)

Forget(p) ==
  /\ visit' = [visit EXCEPT ![p] = 1]
  /\ errors' = [errors EXCEPT ![p] = {}]
  /\ doomed' = [doomed EXCEPT ![p] = 0]
  /\ turned' = [turned EXCEPT ![p] = FALSE]

Start(p) == Begin(p) /\ UNCHANGED <<rows, walkVars, turned>>

Enter(p) == Prepare(p) /\ UNCHANGED <<rows, walkVars, turned>>

Fail(p) == (AttemptFails(p) \/ CommandFails(p)) /\ Forget(p) /\ UNCHANGED rows

Exit(p) == doomed[p] = 0 /\ Leave(p) /\ Forget(p) /\ UNCHANGED rows

-----------------------------------------------------------------------------
(* The collecting commands.                                                  *)

(* A row is inserted: by a tier run into any table, by test-conn, to prove   *)
(* write access, into server_status only.                                    *)
Write(p, t, age) ==
  /\ pc[p] = "ready" /\ Exists(t)
  /\ cmd[p] = "tier" \/ (cmd[p] = "check" /\ t = Probed)
  /\ Size(t) < MaxRows[t]
  /\ rows' = [rows EXCEPT ![t][age] = @ + 1]
  /\ UNCHANGED <<startupVars, walkVars, turned>>

(* export_frame: the folder of the day is made unless it is there.  It bears *)
(* the UTC date, which prune_exports holds against the local one: east of    *)
(* Greenwich, yesterday's.                                                   *)
Export(p, age) ==
  /\ pc[p] = "ready" /\ cmd[p] = "tier"
  /\ rows[Archive][age] = 0 /\ Size(Archive) < MaxRows[Archive]
  /\ rows' = [rows EXCEPT ![Archive][age] = 1]
  /\ UNCHANGED <<startupVars, walkVars, turned>>

-----------------------------------------------------------------------------
(* prune.                                                                    *)

Visiting(p, t) ==
  /\ pc[p] = "ready" /\ cmd[p] = "prune"
  /\ visit[p] <= Len(Order) /\ t = Order[visit[p]]

(* The most a DELETE takes; the one of runs has no TOP.                      *)
BatchSize(p, t) ==
  IF t \in Unbatched THEN Expired(t) + 1
  ELSE IF p \in Switching THEN Fallback ELSE BatchRows

Deleted(p, t) == Min({Expired(t), BatchSize(p, t)})

(* _prune_by_partition_switch refuses a partitioned table.                   *)
Refused(p, t) == p \in Switching /\ t \in Partitioned \ Unbatched

DeleteInclusive(p, t) ==  \* mutant: the cutoff takes a day that is still read
  /\ Visiting(p, t) /\ Exists(t)
  /\ rows' = [rows EXCEPT ![t][Keep[t]] = 0, ![t][Keep[t] + 1] = 0]
  /\ visit' = [visit EXCEPT ![p] = @ + 1]
  /\ UNCHANGED <<startupVars, errors, doomed, turned>>

DeleteOneBatch(p, t) ==  \* mutant: no loop
  /\ Visiting(p, t) /\ Exists(t) /\ ~Refused(p, t)
  /\ rows' = [rows EXCEPT ![t][Keep[t] + 1] = @ - Deleted(p, t)]
  /\ visit' = [visit EXCEPT ![p] = @ + 1]
  /\ UNCHANGED <<startupVars, errors, doomed, turned>>

DeleteEndless(p, t) ==  \* mutant: deleting nothing is no reason to stop
  /\ Visiting(p, t) /\ Exists(t) /\ ~Refused(p, t)
  /\ rows' = [rows EXCEPT ![t][Keep[t] + 1] = @ - Deleted(p, t)]
  /\ UNCHANGED <<startupVars, walkVars, turned>>

(* DELETE TOP (batch): the loop ends with the first batch that is not full.  *)
Delete(p, t) ==
  /\ Visiting(p, t) /\ Exists(t) /\ ~Refused(p, t)
  /\ rows' = [rows EXCEPT ![t][Keep[t] + 1] = @ - Deleted(p, t)]
  /\ visit' = [visit EXCEPT ![p] = IF Deleted(p, t) < BatchSize(p, t) THEN @ + 1 ELSE @]
  /\ UNCHANGED <<startupVars, errors, doomed, turned>>

(* A statement on the table raises: the table is given up, the others not.   *)
SkipTable(p, t) ==
  /\ Visiting(p, t)
  /\ errors' = [errors EXCEPT ![p] = @ \cup {t}]
  /\ visit' = [visit EXCEPT ![p] = @ + 1]
  /\ UNCHANGED <<startupVars, rows, doomed, turned>>

(* The command is through with the repository.  Prune has printed its errors *)
(* (and exits 0 all the same); prune_exports takes its cutoff and lists the  *)
(* folders.  The others end like this when a table they need is missing, too.*)
Done(p) ==
  /\ Close(p)
  /\ cmd[p] = "prune" => visit[p] = Len(Order) + 1
  /\ doomed' = [doomed EXCEPT ![p] = IF cmd[p] = "prune" THEN Expired(Archive) ELSE 0]
  /\ errors' = [errors EXCEPT ![p] = {}]
  /\ visit' = [visit EXCEPT ![p] = 1]
  /\ turned' = [turned EXCEPT ![p] = FALSE]
  /\ UNCHANGED rows

(* An expired folder goes, or another prune was quicker and this one raises. *)
Trim(p) ==
  /\ pc[p] = "closed" /\ doomed[p] > 0
  /\ \/ /\ Expired(Archive) > 0
        /\ rows' = [rows EXCEPT ![Archive][Keep[Archive] + 1] = @ - 1]
        /\ doomed' = [doomed EXCEPT ![p] = @ - 1]
        /\ UNCHANGED <<startupVars, visit, errors, turned>>
     \/ /\ Expired(Archive) = 0
        /\ Leave(p) /\ Forget(p) /\ UNCHANGED rows

-----------------------------------------------------------------------------
(* A midnight passes, no more than one while any prune deletes.              *)
Older(t) ==
  [a \in Ages(t) |-> CASE a = 0                    -> 0
                       [] a \in 1..Keep[t]         -> rows[t][a - 1]
                       [] a = Keep[t] + 1          -> rows[t][a - 1] + rows[t][a]]

Tick ==
  /\ \A p \in Proc : ~turned[p]
  /\ rows' = [t \in Store |-> Older(t)]
  /\ turned' = [p \in Proc |-> cmd[p] = "prune" /\ pc[p] = "ready"]
  /\ UNCHANGED <<startupVars, walkVars>>

Step(p) ==
  \/ Enter(p) \/ Done(p) \/ Trim(p) \/ Exit(p)
  \/ \E t \in Pruned : \/ Delete(p, t)
                       \/ (Refused(p, t) \/ ~Exists(t)) /\ SkipTable(p, t)

Fault(p) ==
  \/ Fail(p)
  \/ \E t \in Pruned : /\ Exists(t) /\ ~Refused(p, t)
                       /\ Cardinality(errors[p]) < MaxErrors
                       /\ SkipTable(p, t)

Next ==
  \/ \E p \in Proc :
       \/ Start(p)
       \/ \E t \in Pruned : \E age \in 0..Late[t] : Write(p, t, age)
       \/ \E age \in 0..Late[Archive] : Export(p, age)
       \/ Step(p) \/ Fault(p)
  \/ Tick

Spec == Init /\ [][Next]_vars

(* Every command that runs goes on (the connection, every statement and the  *)
(* wait for a lock have timeouts), the scheduler starts prunes for ever, and *)
(* what fails does not fail for ever.  Nothing needs to be collected.        *)
Fairness ==
  /\ \A p \in Proc :
       /\ WF_vars(Start(p)) /\ WF_vars(Step(p))
       /\ SF_vars(Enter(p) /\ SetOptions(p, "prune"))
  /\ <>[][\A p \in Proc : ~Fault(p)]_vars

FairSpec == Spec /\ Fairness

-----------------------------------------------------------------------------
(* Correctness.                                                              *)

Recent == INSTANCE RecentRows WITH
  recent <- [t \in Store |-> [a \in 0..Window[t] |-> rows[t][a]]]

(* Readers cannot tell that there is retention: whatever prunes do, one or   *)
(* several at a time, among the writers and across midnight, the rows within *)
(* a reader's window are the ones written there, no fewer.  The DELETE takes *)
(* what is < the cutoff that growth_series reads >= from, and each takes its *)
(* cutoff anew (_prune_by_batched_delete, prune_exports).                    *)
PruneInvisible == Recent!Spec

(* A table that a prune has left behind and does not list in its errors      *)
(* holds nothing that had expired when the prune began, however many batches *)
(* that took and whoever wrote or deleted meanwhile (_prune_table).  Only a  *)
(* midnight since can have made more of it.                                  *)
PrunedClean ==
  \A p \in Proc : \A i \in 1..visit[p]-1 :
    ~turned[p] /\ Order[i] \notin errors[p] => Expired(Order[i]) = 0

(* Retention catches up: again and again a store holds nothing expired, the  *)
(* batch being however small, a switching prune refusing a partitioned table *)
(* and two prunes racing for one folder (prune, prune_exports).  Needs a     *)
(* process that is not Switching to be started again and again.              *)
ExpiredGone == \A t \in Store : []<>(Expired(t) = 0)
=============================================================================
