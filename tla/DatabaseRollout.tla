--------------------------- MODULE DatabaseRollout ---------------------------
(***************************************************************************)
(* How deployments come to use a database: scripts/migrate.py claims it    *)
(* for its environment (app/persistence/environment.py) and applies the    *)
(* pending scripts (app/persistence/migrations.py).  Each statement runs   *)
(* on a pooled connection of its own and is atomic; an action is one       *)
(* statement and the code up to the next.                                  *)
(***************************************************************************)
EXTENDS Naturals, Sequences, FiniteSets

CONSTANTS
  Deployments,  \* what is configured with this DATABASE_URL
  EnvOf,        \* EnvOf[d]: app_env of d
  Last,         \* the migrations are 1..Last, in the order of their names
  MaxRuns,      \* bound: how often a deployment starts the migration
  MaxCrashes,   \* bound: how many migrations die half way
  NoEnv

ASSUME RolloutAssumption ==
  /\ Last \in Nat /\ MaxRuns \in Nat /\ MaxCrashes \in Nat
  /\ \A d \in Deployments : EnvOf[d] # NoEnv

Scripts == 1..Last
Envs == {EnvOf[d] : d \in Deployments}

VARIABLES
  stamp,     \* the row of deployment_environment, or NoEnv
  versions,  \* the rows of schema_migrations
  ran,       \* history: the scripts executed, with who executed them
  pc,        \* pc[d]: idle, insert, reread, fetch, apply, record, done, failed
  seen,      \* seen[d]: the versions d takes for applied
  runs,      \* runs[d]: how often d started the migration
  crashes

vars == <<stamp, versions, ran, pc, seen, runs, crashes>>

-----------------------------------------------------------------------------
(* The steps *)

Init ==
  /\ stamp = NoEnv
  /\ versions = {}
  /\ ran = <<>>
  /\ pc = [d \in Deployments |-> "idle"]
  /\ seen = [d \in Deployments |-> {}]
  /\ runs = [d \in Deployments |-> 0]
  /\ crashes = 0

Go(d, at) == pc' = [pc EXCEPT ![d] = at]

\* The stamp names d's environment, or the migration stops.
Verify(d) == Go(d, IF stamp = EnvOf[d] THEN "fetch" ELSE "failed")

\* ensure_environment, first read; an operator may run the migration again.
Check(d) ==
  /\ pc[d] \in {"idle", "done", "failed"}
  /\ runs[d] < MaxRuns
  /\ runs' = [runs EXCEPT ![d] = @ + 1]
  /\ IF stamp = NoEnv THEN Go(d, "insert") ELSE Verify(d)
  /\ UNCHANGED <<stamp, versions, ran, seen, crashes>>

\* Mutant of Insert: the stamp that is there is replaced.
MutUpsert(d) ==
  /\ pc[d] = "insert"
  /\ stamp' = EnvOf[d]
  /\ Go(d, "reread")
  /\ UNCHANGED <<versions, ran, seen, runs, crashes>>

\* INSERT .. ON CONFLICT DO NOTHING: the first stamp stays.
Insert(d) ==
  /\ pc[d] = "insert"
  /\ stamp' = IF stamp = NoEnv THEN EnvOf[d] ELSE stamp
  /\ Go(d, "reread")
  /\ UNCHANGED <<versions, ran, seen, runs, crashes>>

Reread(d) ==
  /\ pc[d] = "reread"
  /\ Verify(d)
  /\ UNCHANGED <<stamp, versions, ran, seen, runs, crashes>>

\* Mutant of Fetch: a script that was executed is taken for recorded.
MutSeeExecuted(d) ==
  /\ pc[d] = "fetch"
  /\ seen' = [seen EXCEPT ![d] = {ran[i].script : i \in 1..Len(ran)}]
  /\ Go(d, "apply")
  /\ UNCHANGED <<stamp, versions, ran, runs, crashes>>

\* run_migrations up to the list of applied versions.  The advisory lock is
\* taken on a pooled connection and goes when that connection is released,
\* before the next statement: it never makes anybody wait here.
Fetch(d) ==
  /\ pc[d] = "fetch"
  /\ seen' = [seen EXCEPT ![d] = versions]
  /\ Go(d, "apply")
  /\ UNCHANGED <<stamp, versions, ran, runs, crashes>>

\* s is the first script d takes for pending.
Pending(d, s) == s \notin seen[d] /\ \A k \in 1..(s - 1) : k \in seen[d]

\* Execute the script, all of it or nothing.
Apply(d) ==
  /\ pc[d] = "apply"
  /\ \E s \in Scripts :
       /\ Pending(d, s)
       /\ ran' = Append(ran, [script |-> s, by |-> d])
  /\ Go(d, "record")
  /\ UNCHANGED <<stamp, versions, seen, runs, crashes>>

\* The script d has just executed.
Applied(d) ==
  LET mine == {i \in 1..Len(ran) : ran[i].by = d}
  IN ran[CHOOSE i \in mine : \A k \in mine : k <= i].script

\* Mutant of Record: whoever shared a script with another migration gives up.
MutSharedFails(d) ==
  /\ pc[d] = "record"
  /\ IF \E i \in 1..Len(ran) : ran[i].script = Applied(d) /\ ran[i].by # d
     THEN Go(d, "failed") /\ UNCHANGED <<versions, seen>>
     ELSE /\ versions' = versions \cup {Applied(d)}
          /\ seen' = [seen EXCEPT ![d] = @ \cup {Applied(d)}]
          /\ Go(d, "apply")
  /\ UNCHANGED <<stamp, ran, runs, crashes>>

\* INSERT INTO schema_migrations: a version that is there raises.
Record(d) ==
  /\ pc[d] = "record"
  /\ IF Applied(d) \in versions
     THEN Go(d, "failed") /\ UNCHANGED <<versions, seen>>
     ELSE /\ versions' = versions \cup {Applied(d)}
          /\ seen' = [seen EXCEPT ![d] = @ \cup {Applied(d)}]
          /\ Go(d, "apply")
  /\ UNCHANGED <<stamp, ran, runs, crashes>>

\* Nothing is pending any more.
Finish(d) ==
  /\ pc[d] = "apply" /\ Scripts \subseteq seen[d]
  /\ Go(d, "done")
  /\ UNCHANGED <<stamp, versions, ran, seen, runs, crashes>>

\* The migration process dies between two statements.
Crash(d) ==
  /\ pc[d] \notin {"idle", "done", "failed"}
  /\ crashes < MaxCrashes
  /\ crashes' = crashes + 1
  /\ Go(d, "failed")
  /\ UNCHANGED <<stamp, versions, ran, seen, runs>>

\* Every deployment has migrated as often as it will.
Rest ==
  /\ \A d \in Deployments : pc[d] \in {"done", "failed"} /\ runs[d] = MaxRuns
  /\ UNCHANGED vars

Next ==
  \/ \E d \in Deployments :
       \/ Check(d) \/ Insert(d) \/ Reread(d) \/ Fetch(d) \/ Apply(d)
       \/ Record(d) \/ Finish(d) \/ Crash(d)
  \/ Rest

Spec == Init /\ [][Next]_vars

-----------------------------------------------------------------------------
(* Properties *)

Migrating == {"fetch", "apply", "record"}

\* What the variables range over; a stamp is there before anybody migrates.
TypeOK ==
  /\ stamp \in Envs \cup {NoEnv}
  /\ versions \subseteq Scripts
  /\ ran \in Seq([script : Scripts, by : Deployments])
  /\ pc \in [Deployments -> {"idle", "insert", "reread", "fetch", "apply",
                             "record", "done", "failed"}]
  /\ seen \in [Deployments -> SUBSET Scripts]
  /\ runs \in [Deployments -> Nat] /\ crashes \in Nat
  /\ (\E d \in Deployments : pc[d] \in Migrating) => stamp # NoEnv

\* Two environments that race for a fresh database agree on its owner: only
\* the owner's deployments ever migrate it, and the owner never changes.
OneEnvironment ==
  /\ \A d \in Deployments : pc[d] \in Migrating => stamp = EnvOf[d]
  /\ \A i \in 1..Len(ran) : stamp = EnvOf[ran[i].by]

\* However migrations race and die, no script is executed before all earlier
\* ones were, and a version is recorded only of a script that was executed.
ScriptsInOrder ==
  /\ \A i \in 1..Len(ran) : \A s \in 1..(ran[i].script - 1) :
       \E k \in 1..(i - 1) : ran[k].script = s
  /\ \A s \in versions : \E i \in 1..Len(ran) : ran[i].script = s

\* A migration that reports success leaves every script recorded, though
\* others ran beside it and died.
DoneMeansCurrent ==
  \A d \in Deployments : pc[d] = "done" => Scripts \subseteq versions

\* Racing migrations of the owner cannot make each other fail all together:
\* when none of them died, one of them brought the database up to date.
SomeoneFinishes ==
  /\ stamp # NoEnv /\ crashes = 0
  /\ \A d \in Deployments : pc[d] \in {"idle", "done", "failed"}
  => Scripts \subseteq versions

=============================================================================
