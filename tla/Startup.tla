------------------------------- MODULE Startup -------------------------------
(***************************************************************************)
(* How machines of the program start, migrate the shared database, serve   *)
(* and stop: main, newDB, RunMigrations and newISBNCache.  Machines start  *)
(* and are killed at any time (a rolling deploy, machines that are stopped *)
(* when idle and started by a request), and each carries the migrations    *)
(* embedded in its own binary.                                             *)
(*                                                                         *)
(* The migrator of bun is a library: the order in which it marks and runs  *)
(* a migration is its default, which NewMigrator is called with.           *)
(***************************************************************************)
EXTENDS Naturals

CONSTANTS
    Machines,   \* instances of the program, old and new versions side by side
    Version,    \* Version[m]: m's binary embeds the migrations 1..Version[m]
    Unset,      \* machines without DATABASE_URL
    MaxBusy,    \* bound: requests under way at once on one machine
    Faulty      \* whether statements and connections may fail

ASSUME VersionAssumption == Version \in [Machines -> Nat]
ASSUME UnsetAssumption   == Unset \subseteq Machines
ASSUME BusyAssumption    == MaxBusy \in Nat
ASSUME FaultyAssumption  == Faulty \in BOOLEAN

VARIABLES
    pc,          \* pc[m]: the call machine m makes next
    todo,        \* todo[m]: the migrations m found unapplied
    failing,     \* failing[m]: RunMigrations is about to return an error
    busy,        \* busy[m]: requests under way on m
    lock,        \* whether the row of bun_migration_locks exists
    marked,      \* the migrations recorded in bun_migrations
    runs,        \* runs[i]: how often the schema was changed by migration i
    interrupted  \* marked migrations whose run failed or was cut off

vars == <<pc, todo, failing, busy, lock, marked, runs, interrupted>>

Migrations == UNION {1 .. Version[m] : m \in Machines}
Own(m) == 1 .. Version[m]

\* Holding are the labels between a successful Lock and the deferred Unlock.
Holding  == {"status", "mark", "up", "unlock"}
Starting == {"connect", "init", "lock", "services"} \cup Holding
Labels   == {"off", "serving", "draining", "closing"} \cup Starting

Init ==
    /\ pc = [m \in Machines |-> "off"]
    /\ todo = [m \in Machines |-> {}]
    /\ failing = [m \in Machines |-> FALSE]
    /\ busy = [m \in Machines |-> 0]
    /\ lock = FALSE
    /\ marked = {}
    /\ runs = [i \in Migrations |-> 0]
    /\ interrupted = {}

-----------------------------------------------------------------------------
(* newDB: the connection and RunMigrations *)

Step(m, from, to) == pc[m] = from /\ pc' = [pc EXCEPT ![m] = to]

\* The process is gone: its locals with it, and the requests it served.
Gone(m) ==
    /\ pc' = [pc EXCEPT ![m] = "off"]
    /\ todo' = [todo EXCEPT ![m] = {}]
    /\ failing' = [failing EXCEPT ![m] = FALSE]
    /\ busy' = [busy EXCEPT ![m] = 0]

Locals  == <<todo, failing, busy>>
Records == <<marked, runs, interrupted>>

Start(m) == Step(m, "off", "connect") /\ UNCHANGED <<Locals, lock, Records>>

\* DATABASE_URL is not set: in-memory repositories, and no migrations.
InMemory(m) ==
    /\ m \in Unset
    /\ Step(m, "connect", "services")
    /\ UNCHANGED <<Locals, lock, Records>>

Connect(m) ==
    /\ m \notin Unset
    /\ Step(m, "connect", "init")
    /\ UNCHANGED <<Locals, lock, Records>>

InitTables(m) == Step(m, "init", "lock") /\ UNCHANGED <<Locals, lock, Records>>

\* The ping, Init, or a service after the migrations fails: main exits.
ExitOnError(m) ==
    /\ Faulty
    /\ pc[m] \in {"connect", "init", "lock", "services"}
    /\ Gone(m)
    /\ UNCHANGED <<lock, Records>>

AcquireLock(m) ==
    /\ ~lock
    /\ Step(m, "lock", "status")
    /\ lock' = TRUE
    /\ UNCHANGED <<Locals, Records>>

\* Mutant: the deferred Unlock is installed before Lock is known to succeed.
LockTaken_Unlocks(m) == lock /\ pc[m] = "lock" /\ Gone(m) /\ lock' = FALSE /\ UNCHANGED Records

\* Mutant: Lock waits for the row to go instead of failing fast.
LockTaken_Waits(m) == lock /\ pc[m] = "lock" /\ UNCHANGED vars

\* Mutant: the lost race is a warning and no error: the machine starts without
\* its migrations.
LockTaken_GoesOn(m) ==
    lock /\ Step(m, "lock", "services") /\ UNCHANGED <<Locals, lock, Records>>

\* The row exists: Lock fails, newDB returns the error, main exits.
LockTaken(m) ==
    /\ lock
    /\ pc[m] = "lock"
    /\ Gone(m)
    /\ UNCHANGED <<lock, Records>>

\* The row was inserted, but the reply was lost: Lock fails, nothing is deferred.
LockLost(m) ==
    /\ Faulty
    /\ ~lock
    /\ pc[m] = "lock"
    /\ Gone(m)
    /\ lock' = TRUE
    /\ UNCHANGED Records

\* Mutant: every embedded migration is applied, recorded or not.
Status_All(m) ==
    /\ pc[m] = "status"
    /\ todo' = [todo EXCEPT ![m] = Own(m)]
    /\ pc' = [pc EXCEPT ![m] = IF todo'[m] = {} THEN "unlock" ELSE "mark"]
    /\ UNCHANGED <<failing, busy, lock, Records>>

\* Migrate reads once which migrations are not recorded.
Status(m) ==
    /\ pc[m] = "status"
    /\ todo' = [todo EXCEPT ![m] = Own(m) \ marked]
    /\ pc' = [pc EXCEPT ![m] = IF todo'[m] = {} THEN "unlock" ELSE "mark"]
    /\ UNCHANGED <<failing, busy, lock, Records>>

IsNext(m, i) == i \in todo[m] /\ \A j \in todo[m] : i <= j

Mark(m) ==
    /\ Step(m, "mark", "up")
    /\ \E i \in todo[m] : IsNext(m, i) /\ marked' = marked \cup {i}
    /\ UNCHANGED <<Locals, lock, runs, interrupted>>

\* A migration's SQL runs: the next one is taken from those read by Status.
RunUp(m) ==
    /\ pc[m] = "up"
    /\ \E i \in todo[m] :
        /\ IsNext(m, i)
        /\ runs' = [runs EXCEPT ![i] = @ + 1]
        /\ todo' = [todo EXCEPT ![m] = @ \ {i}]
    /\ pc' = [pc EXCEPT ![m] = IF todo'[m] = {} THEN "unlock" ELSE "mark"]
    /\ UNCHANGED <<failing, busy, lock, marked, interrupted>>

\* Mutant: a failed migration is logged, and RunMigrations returns nil.
MigrateFails_Ignored(m) ==
    /\ Faulty
    /\ pc[m] \in {"status", "mark", "up"}
    /\ pc' = [pc EXCEPT ![m] = "unlock"]
    /\ interrupted' = IF pc[m] = "up" THEN interrupted \cup {i \in todo[m] : IsNext(m, i)}
                      ELSE interrupted
    /\ UNCHANGED <<todo, failing, busy, lock, marked, runs>>

\* A statement of Migrate fails: the rest is not tried, Unlock still runs.
MigrateFails(m) ==
    /\ Faulty
    /\ pc[m] \in {"status", "mark", "up"}
    /\ pc' = [pc EXCEPT ![m] = "unlock"]
    /\ failing' = [failing EXCEPT ![m] = TRUE]
    /\ interrupted' = IF pc[m] = "up" THEN interrupted \cup {i \in todo[m] : IsNext(m, i)}
                      ELSE interrupted
    /\ UNCHANGED <<todo, busy, lock, marked, runs>>

\* What follows the deferred Unlock: RunMigrations returns, main goes on or exits.
AfterUnlock(m) ==
    IF failing[m] THEN Gone(m)
    ELSE /\ pc' = [pc EXCEPT ![m] = "services"]
         /\ UNCHANGED Locals

Unlock(m) ==
    /\ pc[m] = "unlock"
    /\ AfterUnlock(m)
    /\ lock' = FALSE
    /\ UNCHANGED Records

\* A failing Unlock is logged and nothing else.
UnlockFails(m) ==
    /\ Faulty
    /\ pc[m] = "unlock"
    /\ AfterUnlock(m)
    /\ UNCHANGED <<lock, Records>>

-----------------------------------------------------------------------------
(* Serving and stopping *)

\* newISBNCache and NewVerifier succeed, the listener's goroutine starts.
Serve(m) == Step(m, "services", "serving") /\ UNCHANGED <<Locals, lock, Records>>

Request(m) ==
    /\ pc[m] = "serving"
    /\ busy[m] < MaxBusy
    /\ busy' = [busy EXCEPT ![m] = @ + 1]
    /\ UNCHANGED <<pc, todo, failing, lock, Records>>

Answer(m) ==
    /\ busy[m] > 0
    /\ busy' = [busy EXCEPT ![m] = @ - 1]
    /\ UNCHANGED <<pc, todo, failing, lock, Records>>

\* SIGINT or SIGTERM once NotifyContext is in place, or ListenAndServe failed.
Stop(m) == Step(m, "serving", "draining") /\ UNCHANGED <<Locals, lock, Records>>

\* Shutdown returns when the last request has been answered; closeDB follows.
Drained(m) ==
    /\ busy[m] = 0
    /\ Step(m, "draining", "closing")
    /\ UNCHANGED <<Locals, lock, Records>>

\* Ten seconds are over: exit without waiting and without closeDB.
ShutdownTimeout(m) ==
    /\ pc[m] = "draining"
    /\ busy[m] > 0
    /\ Gone(m)
    /\ UNCHANGED <<lock, Records>>

Exit(m) ==
    /\ pc[m] = "closing"
    /\ Gone(m)
    /\ UNCHANGED <<lock, Records>>

\* A signal before NotifyContext, or a crash: nothing deferred runs.
Kill(m) ==
    /\ pc[m] # "off"
    /\ Gone(m)
    /\ interrupted' = IF pc[m] = "up" THEN interrupted \cup {i \in todo[m] : IsNext(m, i)}
                      ELSE interrupted
    /\ UNCHANGED <<lock, marked, runs>>

\* The steps of main, the failures it meets, and its surroundings.
Proceed(m) ==
    \/ InMemory(m) \/ Connect(m) \/ InitTables(m)
    \/ AcquireLock(m) \/ LockTaken(m)
    \/ Status(m) \/ Mark(m) \/ RunUp(m) \/ Unlock(m)
    \/ Serve(m) \/ Drained(m) \/ ShutdownTimeout(m) \/ Exit(m)
Fail(m)  == ExitOnError(m) \/ LockLost(m) \/ MigrateFails(m) \/ UnlockFails(m)
World(m) == Start(m) \/ Request(m) \/ Answer(m) \/ Stop(m) \/ Kill(m)

Next == \E m \in Machines : Proceed(m) \/ Fail(m) \/ World(m)

Spec == Init /\ [][Next]_vars

\* A started process runs, its statements return, and Shutdown's timer fires;
\* nothing has to fail, and nothing has to start.
FairSpec == Spec /\ \A m \in Machines : WF_vars(Proceed(m))

-----------------------------------------------------------------------------
(* Properties *)

Migrating(m) == pc[m] \in Holding
Migrated(m)  == m \notin Unset /\ pc[m] \in {"services", "serving", "draining", "closing"}

\* No machine is inside a migration, and yet the row is there.
Abandoned == lock /\ \A m \in Machines : ~Migrating(m)

TypeOK ==
    /\ pc \in [Machines -> Labels]
    /\ todo \in [Machines -> SUBSET Migrations]
    /\ failing \in [Machines -> BOOLEAN]
    /\ busy \in [Machines -> 0 .. MaxBusy]
    /\ lock \in BOOLEAN
    /\ marked \subseteq Migrations
    /\ runs \in [Migrations -> Nat]
    /\ interrupted \subseteq Migrations

\* At most one machine migrates at a time, and the row is there while it does.
OneMigrator ==
    \A m, n \in Machines : Migrating(m) => lock /\ (Migrating(n) => m = n)

\* No migration changes the schema twice, however many machines start with it
\* and wherever one of them dies: ALTER TABLE would fail the second time.
AtMostOnce == \A i \in Migrations : runs[i] <= 1

\* Migrations change the schema in the order of their numbers; only one that
\* failed or was cut off is left out.
InOrder ==
    \A i, j \in Migrations : i < j /\ runs[j] > 0 => runs[i] > 0 \/ i \in interrupted

\* A machine that serves from the database has the schema its binary needs,
\* but for migrations that were interrupted (they stay marked as applied).
ServesMigrated ==
    \A m \in Machines : Migrated(m) => \A i \in Own(m) : runs[i] > 0 \/ i \in interrupted

\* The inductive invariant: the recorded migrations are a prefix; each of them
\* has changed the schema, was interrupted, or is the one being run by the one
\* machine that migrates; and what that machine has read is still true.
IsPrefix == \A i \in marked, j \in Migrations : j < i => j \in marked
Current(m, i) == pc[m] = "up" /\ IsNext(m, i)

Stage(m) ==
    /\ pc[m] = "mark" => todo[m] = Own(m) \ marked
    /\ pc[m] = "up" =>
          \E i \in Own(m) \cap marked :
              /\ IsNext(m, i)
              /\ todo[m] = (Own(m) \ marked) \cup {i}
              /\ \A j \in marked : j <= i
              /\ runs[i] = 0
    /\ Migrated(m) \/ (pc[m] = "unlock" /\ ~failing[m] /\ m \notin Unset)
          => Own(m) \subseteq marked
    /\ m \in Unset => pc[m] \notin Holding \cup {"init", "lock"}
    /\ pc[m] = "closing" => busy[m] = 0

IInv ==
    /\ TypeOK
    /\ OneMigrator
    /\ AtMostOnce
    /\ IsPrefix
    /\ \A i \in Migrations : runs[i] > 0 => i \in marked
    /\ \A i \in marked :
          \/ runs[i] > 0
          \/ i \in interrupted
          \/ \E m \in Machines : Current(m, i)
    /\ \A m \in Machines : Stage(m)

\* Nothing in the program removes the row a machine left behind when it died
\* with the lock: from then on no start gets past the migrations.
AbandonedForGood ==
    [][Abandoned => Abandoned' /\ \A m \in Machines : Migrated(m)' => Migrated(m)]_vars

\* Every start ends, serving or not, and so does every shutdown, even with a
\* request that hangs: nothing waits for another machine.
EveryPhaseEnds ==
    \A m \in Machines :
        /\ pc[m] \in Starting ~> pc[m] \in {"serving", "off"}
        /\ pc[m] \in {"draining", "closing"} ~> pc[m] = "off"
=============================================================================
