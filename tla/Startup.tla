-------------------------------- MODULE Startup --------------------------------
(***************************************************************************)
(* How a command comes to work on the repository: connection.connect with  *)
(* its retry, and the bootstrap of the schema (Repository.schema_exists    *)
(* and bootstrap, as run_tier and _check_repository call them).            *)
(*                                                                         *)
(* Commands are started by hand or by the scheduler and overlap at will:   *)
(* all of this happens before any lock.  schema.sql is a list of batches,  *)
(* each of which looks whether one object is there and creates it when it  *)
(* is not; the look and the creation are two steps, so that the slower of  *)
(* two bootstraps is told "there is already an object named ...".          *)
(***************************************************************************)
EXTENDS Integers, Sequences, FiniteSets

CONSTANTS
  Proc,           \* the processes that may be running at one time
  Script,         \* the objects of schema.sql, in order: the schema, tables, indexes
  Table,          \* those of them that are tables
  Retries,        \* retries of connect
  AutoBootstrap   \* repository.auto_bootstrap

Cmd == {"tier", "check", "prune"}   \* fast or daily, test-conn --repo, prune

ASSUME ScriptAssumption ==
  /\ Script \in Seq(STRING) /\ Len(Script) > 0
  /\ Table \subseteq {Script[i] : i \in DOMAIN Script}
ASSUME StartAssumption == Retries \in Nat /\ AutoBootstrap \in BOOLEAN

VARIABLES
  pc,        \* pc[p]: where the command of p is
  cmd,       \* cmd[p]: which command that is, once it is connected
  attempt,   \* attempt[p]: the retries connect has made, while it runs
  sessions,  \* sessions[p]: its sessions on the repository server
  made,      \* how many objects of Script there are; they exist in its order
  batch,     \* batch[p]: the batch of Script that bootstrap has come to
  spoiled    \* a fault, not a rival, has ended a bootstrap of what is incomplete still

procVars    == <<pc, cmd, attempt, sessions, batch>>
startupVars == <<procVars, made, spoiled>>

Bootstrapping == {"looking", "making"}
Connected     == {"asking", "ready"} \cup Bootstrapping
Place         == {"idle", "opening", "setting", "closed"} \cup Connected

(* The sessions a command may have at a place: a half-open one of a failed   *)
(* attempt until the next attempt replaces it, one while it is connected,    *)
(* none before and after.                                                    *)
SessionsAt(place) ==
  CASE place \in Connected          -> {1}
    [] place \in {"idle", "closed"} -> {0}
    [] place = "opening"            -> {0, 1}
    [] place = "setting"            -> {1, 2}

StartupTypeOK ==
  /\ pc \in [Proc -> Place]
  /\ cmd \in [Proc -> Cmd \cup {"none"}]
  /\ attempt \in [Proc -> 0..Retries]
  /\ sessions \in [Proc -> 0..2]
  /\ \A p \in Proc : sessions[p] \in SessionsAt(pc[p])
  /\ made \in 0..Len(Script)
  /\ batch \in [Proc -> 1..Len(Script)]
  /\ spoiled \in BOOLEAN

StartupInit ==
  /\ pc = [p \in Proc |-> "idle"]
  /\ cmd = [p \in Proc |-> "none"]
  /\ attempt = [p \in Proc |-> 0]
  /\ sessions = [p \in Proc |-> 0]
  /\ made = 0
  /\ batch = [p \in Proc |-> 1]
  /\ spoiled = FALSE

-----------------------------------------------------------------------------
Move(p, to) == pc' = [pc EXCEPT ![p] = to]

(* The process ends, and all its sessions with it.                           *)
Exits(p) ==
  /\ Move(p, "idle")
  /\ cmd' = [cmd EXCEPT ![p] = "none"]
  /\ sessions' = [sessions EXCEPT ![p] = 0]
  /\ attempt' = [attempt EXCEPT ![p] = 0]
  /\ batch' = [batch EXCEPT ![p] = 1]

Begin(p) ==
  /\ pc[p] = "idle"
  /\ Move(p, "opening")
  /\ UNCHANGED <<cmd, attempt, sessions, batch, made, spoiled>>

(* pyodbc.connect returns.  The connection of a failed attempt is still      *)
(* referenced, by cursor.                                                    *)
Open(p) ==
  /\ pc[p] = "opening"
  /\ Move(p, "setting")
  /\ sessions' = [sessions EXCEPT ![p] = @ + 1]
  /\ UNCHANGED <<cmd, attempt, batch, made, spoiled>>

SetOptionsKeepsOld(p, c) ==  \* mutant: nothing lets go of the earlier connection
  /\ pc[p] = "setting"
  /\ attempt' = [attempt EXCEPT ![p] = 0]
  /\ cmd' = [cmd EXCEPT ![p] = c]
  /\ Move(p, IF c = "prune" THEN "ready" ELSE "asking")
  /\ UNCHANGED <<sessions, batch, made, spoiled>>

(* raw.cursor() drops the earlier connection; the SET batch works, and the   *)
(* command goes on: prune takes the schema for granted.  Which command it is *)
(* does not matter before.                                                   *)
SetOptions(p, c) ==
  /\ pc[p] = "setting"
  /\ sessions' = [sessions EXCEPT ![p] = 1]
  /\ attempt' = [attempt EXCEPT ![p] = 0]
  /\ cmd' = [cmd EXCEPT ![p] = c]
  /\ Move(p, IF c = "prune" THEN "ready" ELSE "asking")
  /\ UNCHANGED <<batch, made, spoiled>>

(* pyodbc.connect, or the SET batch after it, raises.  The retry neither     *)
(* closes the half-open connection nor forgets it.                           *)
AttemptFails(p) ==
  /\ pc[p] \in {"opening", "setting"}
  /\ IF attempt[p] < Retries
     THEN /\ attempt' = [attempt EXCEPT ![p] = @ + 1]
          /\ sessions' = [sessions EXCEPT ![p] = IF pc[p] = "setting" THEN 1 ELSE @]
          /\ Move(p, "opening")
          /\ UNCHANGED <<cmd, batch>>
     ELSE Exits(p)
  /\ UNCHANGED <<made, spoiled>>

-----------------------------------------------------------------------------
Exists(object) == \E i \in 1..made : Script[i] = object

(* It counts the tables of the schema: any table will do.                    *)
SchemaExists == \E t \in Table : Exists(t)

(* run_tier asks only when it may bootstrap; test-conn always does, and      *)
(* fails when it may not.                                                    *)
Ask(p) ==
  /\ pc[p] = "asking"
  /\ IF SchemaExists \/ (cmd[p] = "tier" /\ ~AutoBootstrap)
     THEN Move(p, "ready") /\ UNCHANGED <<cmd, attempt, sessions, batch>>
     ELSE IF AutoBootstrap
          THEN Move(p, "looking") /\ UNCHANGED <<cmd, attempt, sessions, batch>>
          ELSE Exits(p)
  /\ UNCHANGED <<made, spoiled>>

LastDropsTail == Len(Script) - 1  \* mutant: what follows the last GO is no batch

Last == Len(Script)

NextBatch(p) ==
  IF batch[p] < Last
  THEN /\ Move(p, "looking")
       /\ batch' = [batch EXCEPT ![p] = @ + 1]
  ELSE /\ Move(p, "ready")
       /\ batch' = [batch EXCEPT ![p] = 1]

(* IF OBJECT_ID(...) IS NULL, or sys.schemas, or sys.indexes.                *)
Look(p) ==
  /\ pc[p] = "looking"
  /\ IF batch[p] <= made
     THEN NextBatch(p)
     ELSE Move(p, "making") /\ UNCHANGED batch
  /\ UNCHANGED <<cmd, attempt, sessions, made, spoiled>>

(* CREATE: a rival may have created the object since, and then it raises.    *)
Make(p) ==
  /\ pc[p] = "making"
  /\ IF batch[p] <= made
     THEN Exits(p) /\ UNCHANGED <<made, spoiled>>
     ELSE /\ NextBatch(p)
          /\ made' = batch[p]
          /\ spoiled' = (spoiled /\ batch[p] < Len(Script))
          /\ UNCHANGED <<cmd, attempt, sessions>>

(* A statement raises, or the process is killed.                             *)
CommandFails(p) ==
  /\ pc[p] \in Connected \cup {"closed"}
  /\ Exits(p)
  /\ spoiled' = (spoiled \/ (pc[p] \in Bootstrapping /\ made < Len(Script)))
  /\ UNCHANGED made

(* The work is done: Repository.__exit__ closes the session, and the process *)
(* ends, unless it has files to see to ("closed").                           *)
Close(p) ==
  /\ pc[p] = "ready"
  /\ IF cmd[p] = "prune"
     THEN /\ Move(p, "closed")
          /\ sessions' = [sessions EXCEPT ![p] = 0]
          /\ UNCHANGED <<cmd, attempt, batch>>
     ELSE Exits(p)
  /\ UNCHANGED <<made, spoiled>>

Leave(p) ==
  /\ pc[p] = "closed"
  /\ Exits(p)
  /\ UNCHANGED <<made, spoiled>>

Prepare(p) ==
  \/ Open(p) \/ (\E c \in Cmd : SetOptions(p, c))
  \/ Ask(p) \/ Look(p) \/ Make(p)

StartupNext ==
  \E p \in Proc :
    \/ Begin(p) \/ Prepare(p) \/ Close(p) \/ Leave(p)
    \/ AttemptFails(p) \/ CommandFails(p)

StartupSpec == StartupInit /\ [][StartupNext]_startupVars

-----------------------------------------------------------------------------
(* schema_exists takes any table for the whole schema, so that a schema some *)
(* tables of which are missing stays that way.  Rivals alone never leave one *)
(* behind: unless a fault has ended a bootstrap, a schema that has a table   *)
(* is complete, or the bootstrap that leads is about to make what is missing *)
(* next (bootstrap, schema_exists).                                          *)
SchemaUnspoiled ==
  SchemaExists /\ made < Len(Script) /\ ~spoiled =>
    \E p \in Proc : pc[p] \in Bootstrapping /\ batch[p] = made + 1
=============================================================================
