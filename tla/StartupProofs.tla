----------------------------- MODULE StartupProofs -----------------------------
(***************************************************************************)
(* Theorems about Startup, for any machines, versions and number of        *)
(* requests.                                                               *)
(***************************************************************************)
EXTENDS Startup, TLAPS

USE VersionAssumption, UnsetAssumption, BusyAssumption, FaultyAssumption

LEMMA NoneBusy == 0 \in 0 .. MaxBusy
BY DEF BusyAssumption

LEMMA OwnMigrations ==
    /\ Migrations \subseteq Nat
    /\ \A m \in Machines : Own(m) \subseteq Migrations
    /\ \A m \in Machines : \A i \in Own(m), j \in Migrations : j < i => j \in Own(m)
<1>1. \A m \in Machines : Own(m) \subseteq Nat
  BY DEF Own
<1>2. \A m \in Machines : \A i \in Own(m), j \in Nat : 1 <= j /\ j < i => j \in Own(m)
  BY DEF Own
<1>3. \A j \in Migrations : 1 <= j
  BY DEF Migrations
<1> QED
  BY <1>1, <1>2, <1>3 DEF Migrations, Own

\* Of the migrations left to do at most one is next.
LEMMA NextIsUnique ==
    ASSUME TypeOK, NEW m \in Machines, NEW i, NEW j, IsNext(m, i), IsNext(m, j)
    PROVE  i = j
<1>1. i \in Nat /\ j \in Nat
  BY OwnMigrations DEF TypeOK, IsNext
<1> QED
  BY <1>1 DEF IsNext

-----------------------------------------------------------------------------
(* The steps that leave the records of migrations alone *)

\* What machine m does is its own business as long as it neither takes the lock
\* nor leaves it while another machine has it, and an interruption is recorded.
Alone(m) ==
    /\ \A n \in Machines \ {m} :
          pc'[n] = pc[n] /\ todo'[n] = todo[n] /\ failing'[n] = failing[n] /\ busy'[n] = busy[n]
    /\ UNCHANGED <<marked, runs>>
    /\ interrupted \subseteq interrupted'

LEMMA Quiet ==
    ASSUME IInv, NEW m \in Machines, Alone(m), TypeOK',
           Migrating(m)' => Migrating(m) \/ ~lock,
           Migrating(m)' => lock',
           Migrating(m) \/ lock' = lock \/ ~lock,
           \A i \in Migrations : Current(m, i) => Current(m, i)' \/ i \in interrupted',
           Stage(m)'
    PROVE  IInv'
<1>1. \A n \in Machines \ {m} : Migrating(n)' <=> Migrating(n)
  BY DEF Alone, Migrating
<1>2. OneMigrator'
  <2> SUFFICES ASSUME NEW k \in Machines, NEW n \in Machines, Migrating(k)'
               PROVE  lock' /\ (Migrating(n)' => k = n)
    BY DEF OneMigrator
  <2>1. CASE k = m /\ n = m
    BY <2>1
  <2>2. CASE k # m /\ n # m
    BY <1>1, <2>2 DEF IInv, OneMigrator, TypeOK
  <2>3. CASE k # n /\ (k = m \/ n = m)
    BY <1>1, <2>3 DEF IInv, OneMigrator, TypeOK
  <2> QED
    BY <2>1, <2>2, <2>3
<1>3. \A n \in Machines \ {m} : Stage(n)'
  BY DEF IInv, Alone, Stage, IsNext, Migrated
<1>4. \A i \in marked' : runs'[i] > 0 \/ i \in interrupted' \/ \E n \in Machines : Current(n, i)'
  <2> SUFFICES ASSUME NEW i \in marked', ~(runs'[i] > 0), i \notin interrupted'
               PROVE  \E n \in Machines : Current(n, i)'
    OBVIOUS
  <2>1. i \in Migrations
    BY DEF IInv, TypeOK, Alone
  <2>2. PICK n \in Machines : Current(n, i)
    BY DEF IInv, Alone
  <2>3. Current(n, i)'
    BY <2>1, <2>2 DEF Alone, Current, IsNext
  <2> QED
    BY <2>3
<1>5. AtMostOnce' /\ IsPrefix' /\ \A i \in Migrations : runs'[i] > 0 => i \in marked'
  BY DEF IInv, Alone, AtMostOnce, IsPrefix
<1> QED
  BY <1>2, <1>3, <1>4, <1>5 DEF IInv

\* A machine that exits or is killed leaves no trace but the lock.
LEMMA GoneKeepsInv ==
    ASSUME IInv, NEW m \in Machines, Gone(m), TypeOK',
           UNCHANGED <<marked, runs>>, interrupted \subseteq interrupted',
           Migrating(m) \/ lock' = lock \/ ~lock,
           \A i \in Migrations : Current(m, i) => i \in interrupted'
    PROVE  IInv'
<1>1. Alone(m) /\ pc'[m] = "off"
  BY DEF Gone, Alone, IInv, TypeOK
<1>2. ~Migrating(m)' /\ Stage(m)'
  BY <1>1 DEF Migrating, Holding, Stage, Migrated
<1> QED
  BY <1>1, <1>2, Quiet

LEMMA TypeInit == Init => TypeOK
<1> SUFFICES ASSUME Init PROVE TypeOK
  OBVIOUS
<1>1. "off" \in Labels
  BY DEF Labels
<1>2. busy \in [Machines -> 0 .. MaxBusy]
  BY NoneBusy DEF Init
<1>3. runs \in [Migrations -> Nat]
  BY DEF Init
<1> QED
  BY <1>1, <1>2, <1>3 DEF Init, TypeOK

LEMMA GoneType ==
    ASSUME TypeOK, NEW m \in Machines, Gone(m)
    PROVE  /\ pc' \in [Machines -> Labels]
           /\ todo' \in [Machines -> SUBSET Migrations]
           /\ failing' \in [Machines -> BOOLEAN]
           /\ busy' \in [Machines -> 0 .. MaxBusy]
<1>1. "off" \in Labels
  BY DEF Labels
<1> QED
  BY <1>1, NoneBusy DEF TypeOK, Gone

LEMMA TypeNext == TypeOK /\ [Next]_vars => TypeOK'
<1> SUFFICES ASSUME TypeOK, [Next]_vars PROVE TypeOK'
  OBVIOUS
<1> USE DEF TypeOK, Labels, Starting, Holding, Locals, Records, Step
<1>1. ASSUME NEW m \in Machines, Proceed(m) PROVE TypeOK'
  <2>1. CASE InMemory(m) \/ Connect(m) \/ InitTables(m) \/ AcquireLock(m) \/ Serve(m) \/ Drained(m)
    BY <2>1 DEF InMemory, Connect, InitTables, AcquireLock, Serve, Drained
  <2>2. CASE LockTaken(m) \/ ShutdownTimeout(m) \/ Exit(m)
    BY <2>2, GoneType DEF LockTaken, ShutdownTimeout, Exit
  <2>3. CASE Status(m)
    BY <2>3, OwnMigrations DEF Status
  <2>4. CASE Mark(m)
    BY <2>4 DEF Mark
  <2>5. CASE RunUp(m)
    BY <2>5 DEF RunUp
  <2>6. CASE Unlock(m)
    BY <2>6, GoneType DEF Unlock, AfterUnlock
  <2> QED
    BY <1>1, <2>1, <2>2, <2>3, <2>4, <2>5, <2>6 DEF Proceed
<1>2. ASSUME NEW m \in Machines, Fail(m) PROVE TypeOK'
  <2>1. CASE ExitOnError(m) \/ LockLost(m)
    BY <2>1, GoneType DEF ExitOnError, LockLost
  <2>2. CASE MigrateFails(m)
    BY <2>2 DEF MigrateFails
  <2>3. CASE UnlockFails(m)
    BY <2>3, GoneType DEF UnlockFails, AfterUnlock
  <2> QED
    BY <1>2, <2>1, <2>2, <2>3 DEF Fail
<1>3. ASSUME NEW m \in Machines, World(m) PROVE TypeOK'
  <2>1. CASE Start(m) \/ Stop(m)
    BY <2>1 DEF Start, Stop
  <2>2. CASE Request(m) \/ Answer(m)
    BY <2>2 DEF Request, Answer
  <2>3. CASE Kill(m)
    BY <2>3, GoneType DEF Kill
  <2> QED
    BY <1>3, <2>1, <2>2, <2>3 DEF World
<1>4. CASE UNCHANGED vars
  BY <1>4 DEF vars
<1> QED
  BY <1>1, <1>2, <1>3, <1>4 DEF Next

-----------------------------------------------------------------------------
(* The steps of the machine that migrates *)

\* m is the only one that migrates, and the others keep their stage as long as
\* records are only added.
LEMMA OthersKeepStage ==
    ASSUME IInv, NEW m \in Machines, Migrating(m), marked \subseteq marked',
           \A n \in Machines \ {m} :
              pc'[n] = pc[n] /\ todo'[n] = todo[n] /\ failing'[n] = failing[n] /\ busy'[n] = busy[n]
    PROVE  \A n \in Machines \ {m} : ~Migrating(n) /\ ~Migrating(n)' /\ Stage(n)'
<1> SUFFICES ASSUME NEW n \in Machines \ {m}
             PROVE  ~Migrating(n) /\ ~Migrating(n)' /\ Stage(n)'
  OBVIOUS
<1>1. ~Migrating(n) /\ ~Migrating(n)'
  BY DEF IInv, OneMigrator, Migrating
<1>2. Stage(n)
  BY DEF IInv
<1> QED
  BY <1>1, <1>2 DEF Stage, Migrated, Migrating, Holding

LEMMA StatusKeepsInv ==
    ASSUME IInv, TypeOK', NEW m \in Machines, Status(m)
    PROVE  IInv'
<1>1. Alone(m) /\ Migrating(m) /\ Migrating(m)' /\ lock' = lock
  BY DEF Status, Alone, Records, Migrating, Holding, IInv, TypeOK
<1>2. Stage(m)'
  <2>1. m \notin Unset
    BY DEF IInv, Stage, Status, Holding
  <2>2. pc'[m] = IF Own(m) \ marked = {} THEN "unlock" ELSE "mark"
    BY DEF Status, IInv, TypeOK
  <2>3. todo'[m] = Own(m) \ marked /\ marked' = marked
    BY DEF Status, IInv, TypeOK, Records
  <2> QED
    BY <2>1, <2>2, <2>3 DEF Stage, Migrated, Holding
<1>3. lock
  BY <1>1 DEF IInv, OneMigrator
<1>4. \A i : ~Current(m, i)
  BY DEF Status, Current
<1> QED
  BY <1>1, <1>2, <1>3, <1>4, Quiet

LEMMA MarkKeepsInv ==
    ASSUME IInv, TypeOK', NEW m \in Machines, Mark(m)
    PROVE  IInv'
<1>1. PICK i \in todo[m] : IsNext(m, i) /\ marked' = marked \cup {i}
  BY DEF Mark
<1>2. /\ pc[m] = "mark" /\ pc'[m] = "up" /\ \A n \in Machines \ {m} : pc'[n] = pc[n]
      /\ UNCHANGED <<todo, failing, busy, lock, runs, interrupted>>
  BY DEF Mark, Step, Locals, IInv, TypeOK
<1>3. Migrating(m) /\ Migrating(m)'
  BY <1>2 DEF Migrating, Holding
<1>4. \A n \in Machines \ {m} : ~Migrating(n) /\ ~Migrating(n)' /\ Stage(n)'
  BY <1>1, <1>2, <1>3, OthersKeepStage
<1>5. OneMigrator'
  BY <1>2, <1>3, <1>4 DEF OneMigrator, IInv
<1>6. todo[m] = Own(m) \ marked /\ m \notin Unset
  BY <1>2 DEF IInv, Stage, Holding
<1>7. i \in Own(m) /\ i \notin marked /\ i \in Migrations /\ i \in Nat
  BY <1>6, OwnMigrations
<1>8. \A j \in marked : j < i
  BY <1>7, OwnMigrations DEF IInv, IsPrefix, TypeOK
<1>9. \A j \in Migrations : j < i => j \in marked
  <2> SUFFICES ASSUME NEW j \in Migrations, j < i, j \notin marked PROVE FALSE
    OBVIOUS
  <2>1. j \in todo[m]
    BY <1>6, <1>7, OwnMigrations
  <2> QED
    BY <1>1, <1>7, <2>1, OwnMigrations DEF IsNext
<1>10. runs[i] = 0
  BY <1>7 DEF IInv, TypeOK
<1>11. Stage(m)'
  <2>1. IsNext(m, i)' /\ todo'[m] = (Own(m) \ marked') \cup {i}
    BY <1>1, <1>2, <1>6, <1>7 DEF IsNext
  <2>2. \A j \in marked' : j <= i
    BY <1>1, <1>7, <1>8, OwnMigrations DEF IInv, TypeOK
  <2> QED
    BY <1>1, <1>2, <1>6, <1>7, <1>10, <2>1, <2>2 DEF Stage, Migrated, Holding
<1>12. IsPrefix'
  BY <1>1, <1>9 DEF IInv, IsPrefix
<1>13. \A j \in marked' : runs'[j] > 0 \/ j \in interrupted' \/ \E n \in Machines : Current(n, j)'
  <2>1. \A n \in Machines, j \in marked : ~Current(n, j)
    BY <1>2, <1>4 DEF Current, Migrating, Holding
  <2>2. Current(m, i)'
    BY <1>1, <1>2 DEF Current, IsNext
  <2> QED
    BY <1>1, <1>2, <2>1, <2>2 DEF IInv
<1>14. AtMostOnce' /\ \A j \in Migrations : runs'[j] > 0 => j \in marked'
  BY <1>1, <1>2 DEF IInv, AtMostOnce
<1> QED
  BY <1>4, <1>5, <1>11, <1>12, <1>13, <1>14 DEF IInv

LEMMA RunUpKeepsInv ==
    ASSUME IInv, TypeOK', NEW m \in Machines, RunUp(m)
    PROVE  IInv'
<1>1. PICK i \in todo[m] :
        /\ IsNext(m, i)
        /\ runs' = [runs EXCEPT ![i] = @ + 1]
        /\ todo' = [todo EXCEPT ![m] = @ \ {i}]
  BY DEF RunUp
<1>2. /\ pc[m] = "up" /\ pc'[m] = IF todo[m] \ {i} = {} THEN "unlock" ELSE "mark"
      /\ todo'[m] = todo[m] \ {i}
      /\ \A n \in Machines \ {m} : pc'[n] = pc[n] /\ todo'[n] = todo[n]
      /\ UNCHANGED <<failing, busy, lock, marked, interrupted>>
  BY <1>1 DEF RunUp, IInv, TypeOK
<1>3. Migrating(m) /\ Migrating(m)'
  BY <1>2 DEF Migrating, Holding
<1>4. \A n \in Machines \ {m} : ~Migrating(n) /\ ~Migrating(n)' /\ Stage(n)'
  BY <1>2, <1>3, OthersKeepStage
<1>5. OneMigrator'
  BY <1>2, <1>3, <1>4 DEF OneMigrator, IInv
<1>6. /\ i \in Own(m) /\ i \in marked /\ runs[i] = 0
      /\ todo[m] = (Own(m) \ marked) \cup {i}
      /\ m \notin Unset
  <2>1. PICK k \in Own(m) \cap marked :
          IsNext(m, k) /\ todo[m] = (Own(m) \ marked) \cup {k} /\ runs[k] = 0
    BY <1>2 DEF IInv, Stage
  <2>2. k = i
    BY <1>1, <2>1, NextIsUnique DEF IInv
  <2> QED
    BY <1>2, <2>1, <2>2 DEF IInv, Stage, Holding
<1>7. i \in Migrations
  BY <1>6, OwnMigrations
<1>8. runs'[i] = 1 /\ \A j \in Migrations \ {i} : runs'[j] = runs[j]
  BY <1>1, <1>6, <1>7 DEF IInv, TypeOK
<1>9. Stage(m)'
  <2>1. todo'[m] = Own(m) \ marked'
    BY <1>2, <1>6
  <2> QED
    BY <1>2, <1>6, <2>1 DEF Stage, Migrated, Holding
<1>10. AtMostOnce' /\ IsPrefix' /\ \A j \in Migrations : runs'[j] > 0 => j \in marked'
  BY <1>2, <1>6, <1>8 DEF IInv, AtMostOnce, IsPrefix
<1>11. \A j \in marked' : runs'[j] > 0 \/ j \in interrupted' \/ \E n \in Machines : Current(n, j)'
  <2> SUFFICES ASSUME NEW j \in marked, j # i, ~(runs[j] > 0), j \notin interrupted
               PROVE  FALSE
    BY <1>2, <1>7, <1>8 DEF IInv, TypeOK
  <2>1. PICK n \in Machines : Current(n, j)
    BY DEF IInv
  <2>2. n = m
    BY <1>4, <2>1 DEF Current, Migrating, Holding
  <2> QED
    BY <1>1, <2>1, <2>2, NextIsUnique DEF Current, IInv
<1> QED
  BY <1>4, <1>5, <1>9, <1>10, <1>11 DEF IInv

\* Interrupted is the migration a failing or killed machine was running.
LEMMA MigrateFailsKeepsInv ==
    ASSUME IInv, TypeOK', NEW m \in Machines, MigrateFails(m)
    PROVE  IInv'
<1>1. Alone(m) /\ Migrating(m) /\ Migrating(m)' /\ lock' = lock
  BY DEF MigrateFails, Alone, Migrating, Holding, IInv, TypeOK
<1>2. Stage(m)'
  BY DEF MigrateFails, Stage, Migrated, Holding, IInv, TypeOK
<1>3. lock
  BY <1>1 DEF IInv, OneMigrator
<1>4. \A i \in Migrations : Current(m, i) => i \in interrupted'
  BY DEF MigrateFails, Current, IsNext
<1> QED
  BY <1>1, <1>2, <1>3, <1>4, Quiet

\* Unlock, whether it works or not.
LEMMA UnlockKeepsInv ==
    ASSUME IInv, TypeOK', NEW m \in Machines, Unlock(m) \/ UnlockFails(m)
    PROVE  IInv'
<1>1. pc[m] = "unlock" /\ Migrating(m) /\ AfterUnlock(m) /\ UNCHANGED Records
  BY DEF Unlock, UnlockFails, Migrating, Holding
<1>2. \A i : ~Current(m, i)
  BY <1>1 DEF Current
<1>3. CASE failing[m]
  BY <1>1, <1>2, <1>3, GoneKeepsInv DEF AfterUnlock, Records
<1>4. CASE ~failing[m]
  <2>1. pc'[m] = "services" /\ Alone(m)
    BY <1>1, <1>4 DEF AfterUnlock, Alone, Records, Locals, IInv, TypeOK
  <2>2. m \notin Unset /\ Own(m) \subseteq marked
    BY <1>1, <1>4 DEF IInv, Stage, Holding
  <2>3. Stage(m)' /\ ~Migrating(m)'
    BY <2>1, <2>2 DEF Stage, Migrating, Migrated, Holding, Alone
  <2> QED
    BY <1>1, <1>2, <2>1, <2>3, Quiet
<1> QED
  BY <1>3, <1>4

-----------------------------------------------------------------------------
(* Every step *)

LEMMA ProceedKeepsInv ==
    ASSUME IInv, TypeOK', NEW m \in Machines, Proceed(m)
    PROVE  IInv'
<1> USE DEF Step, Locals, Records
<1>1. CASE InMemory(m) \/ Connect(m) \/ InitTables(m) \/ Serve(m) \/ Drained(m)
  <2>1. Alone(m) /\ ~Migrating(m)' /\ lock' = lock
    BY <1>1 DEF InMemory, Connect, InitTables, Serve, Drained, Alone, Migrating, Holding, IInv, TypeOK
  <2>2. Stage(m)'
    BY <1>1 DEF InMemory, Connect, InitTables, Serve, Drained, Stage, Migrated, Holding, IInv, TypeOK
  <2>3. \A i : ~Current(m, i)
    BY <1>1 DEF InMemory, Connect, InitTables, Serve, Drained, Current
  <2> QED
    BY <2>1, <2>2, <2>3, Quiet
<1>2. CASE AcquireLock(m)
  <2>1. Alone(m) /\ ~lock /\ lock'
    BY <1>2 DEF AcquireLock, Alone, IInv, TypeOK
  <2>2. Stage(m)'
    BY <1>2 DEF AcquireLock, Stage, Migrated, Holding, IInv, TypeOK
  <2>3. \A i : ~Current(m, i)
    BY <1>2 DEF AcquireLock, Current
  <2> QED
    BY <2>1, <2>2, <2>3, Quiet
<1>3. CASE LockTaken(m) \/ ShutdownTimeout(m) \/ Exit(m)
  <2>1. \A i : ~Current(m, i)
    BY <1>3 DEF LockTaken, ShutdownTimeout, Exit, Current
  <2> QED
    BY <1>3, <2>1, GoneKeepsInv DEF LockTaken, ShutdownTimeout, Exit
<1> QED
  BY <1>1, <1>2, <1>3, StatusKeepsInv, MarkKeepsInv, RunUpKeepsInv, UnlockKeepsInv DEF Proceed

LEMMA FailKeepsInv ==
    ASSUME IInv, TypeOK', NEW m \in Machines, Fail(m)
    PROVE  IInv'
<1>1. CASE ExitOnError(m) \/ LockLost(m)
  <2>1. \A i : ~Current(m, i)
    BY <1>1 DEF ExitOnError, LockLost, Current
  <2> QED
    BY <1>1, <2>1, GoneKeepsInv DEF ExitOnError, LockLost, Records
<1> QED
  BY <1>1, MigrateFailsKeepsInv, UnlockKeepsInv DEF Fail

LEMMA WorldKeepsInv ==
    ASSUME IInv, TypeOK', NEW m \in Machines, World(m)
    PROVE  IInv'
<1> USE DEF Step, Locals, Records
<1>1. CASE Start(m) \/ Stop(m)
  <2>1. Alone(m) /\ ~Migrating(m)' /\ lock' = lock
    BY <1>1 DEF Start, Stop, Alone, Migrating, Holding, IInv, TypeOK
  <2>2. Stage(m)'
    BY <1>1 DEF Start, Stop, Stage, Migrated, Holding, IInv, TypeOK
  <2>3. \A i : ~Current(m, i)
    BY <1>1 DEF Start, Stop, Current
  <2> QED
    BY <2>1, <2>2, <2>3, Quiet
<1>2. CASE Request(m) \/ Answer(m)
  <2>1. Alone(m) /\ (Migrating(m)' <=> Migrating(m)) /\ lock' = lock
    BY <1>2 DEF Request, Answer, Alone, Migrating, IInv, TypeOK
  <2>2. Stage(m)'
    <3>1. Stage(m) /\ busy[m] \in Nat /\ (pc[m] = "closing" => busy[m] = 0)
      BY DEF IInv, TypeOK, Stage
    <3>2. pc[m] = "closing" => busy'[m] = busy[m]
      BY <1>2, <3>1 DEF Request, Answer, IInv, TypeOK
    <3> QED
      BY <1>2, <3>1, <3>2 DEF Request, Answer, Stage, IsNext, Migrated
  <2>3. \A i : Current(m, i) => Current(m, i)'
    BY <1>2 DEF Request, Answer, Current, IsNext
  <2>4. Migrating(m) => lock
    BY DEF IInv, OneMigrator
  <2> QED
    BY <2>1, <2>2, <2>3, <2>4, Quiet
<1>3. CASE Kill(m)
  <2>1. \A i \in Migrations : Current(m, i) => i \in interrupted'
    BY <1>3 DEF Kill, Current, IsNext
  <2>2. interrupted \subseteq interrupted'
    BY <1>3 DEF Kill
  <2> QED
    BY <1>3, <2>1, <2>2, GoneKeepsInv DEF Kill
<1> QED
  BY <1>1, <1>2, <1>3 DEF World

LEMMA StepKeepsInv == IInv /\ [Next]_vars => IInv'
<1> SUFFICES ASSUME IInv, [Next]_vars PROVE IInv'
  OBVIOUS
<1>1. TypeOK'
  BY TypeNext DEF IInv
<1>2. CASE Next
  BY <1>1, <1>2, ProceedKeepsInv, FailKeepsInv, WorldKeepsInv DEF Next
<1>3. CASE UNCHANGED vars
  BY <1>3 DEF vars, IInv, TypeOK, OneMigrator, AtMostOnce, IsPrefix, Current, Stage, IsNext,
              Migrating, Migrated
<1> QED
  BY <1>2, <1>3

LEMMA InitInv == Init => IInv
BY TypeInit DEF Init, IInv, OneMigrator, AtMostOnce, IsPrefix, Stage, Migrating, Migrated, Holding

\* The inductive invariant holds throughout.
THEOREM InvariantHolds == Spec => []IInv
BY InitInv, StepKeepsInv, PTL DEF Spec

\* Type correctness.
THEOREM TypeCorrect == Spec => []TypeOK
BY InvariantHolds, PTL DEF IInv

\* At most one machine migrates, and the row is there while it does.
THEOREM Exclusive == Spec => []OneMigrator
BY InvariantHolds, PTL DEF IInv

\* No migration changes the schema twice.
THEOREM Once == Spec => []AtMostOnce
BY InvariantHolds, PTL DEF IInv

\* A later migration has run: each earlier one is recorded, so it has run, was
\* interrupted, or is the one being run; and that one is the last recorded.
LEMMA OrderedState == IInv => InOrder
<1> SUFFICES ASSUME IInv, NEW i \in Migrations, NEW j \in Migrations, i < j, runs[j] > 0
             PROVE  runs[i] > 0 \/ i \in interrupted
  BY DEF InOrder
<1>1. j \in marked /\ i \in marked
  BY DEF IInv, IsPrefix
<1>2. ASSUME NEW m \in Machines, Current(m, i) PROVE FALSE
  <2>1. PICK k \in Own(m) \cap marked : IsNext(m, k) /\ \A l \in marked : l <= k
    BY <1>2 DEF Current, IInv, Stage
  <2>2. k = i
    BY <1>2, <2>1, NextIsUnique DEF Current, IInv
  <2> QED
    BY <1>1, <2>1, <2>2, OwnMigrations
<1> QED
  BY <1>1, <1>2 DEF IInv

\* Migrations change the schema in order.
THEOREM Ordered == Spec => []InOrder
BY InvariantHolds, OrderedState, PTL

\* Schema changes and interruptions are never taken back, and a machine gets
\* past the migrations only by the Unlock that follows them.
LEMMA OnlyForward ==
    ASSUME TypeOK, [Next]_vars
    PROVE  /\ \A i \in Migrations : runs'[i] >= runs[i]
           /\ interrupted \subseteq interrupted'
           /\ \A m \in Machines : Migrated(m)' => Migrated(m) \/ (pc[m] = "unlock" /\ ~failing[m])
<1> USE DEF TypeOK, Step, Locals, Records, Migrated
<1>1. ASSUME NEW n \in Machines, NEW m \in Machines, Migrated(m)', Gone(n)
      PROVE  Migrated(m)
  BY <1>1 DEF Gone
<1>2. ASSUME NEW n \in Machines, Proceed(n)
      PROVE  /\ \A i \in Migrations : runs'[i] >= runs[i]
             /\ interrupted \subseteq interrupted'
             /\ \A m \in Machines : Migrated(m)' => Migrated(m) \/ (pc[m] = "unlock" /\ ~failing[m])
  <2>1. CASE InMemory(n) \/ Connect(n) \/ InitTables(n) \/ AcquireLock(n) \/ Serve(n) \/ Drained(n)
    BY <2>1 DEF InMemory, Connect, InitTables, AcquireLock, Serve, Drained
  <2>2. CASE LockTaken(n) \/ ShutdownTimeout(n) \/ Exit(n)
    BY <1>1, <2>2 DEF LockTaken, ShutdownTimeout, Exit
  <2>3. CASE Status(n) \/ Mark(n)
    BY <2>3 DEF Status, Mark
  <2>4. CASE RunUp(n)
    BY <2>4 DEF RunUp
  <2>5. CASE Unlock(n)
    BY <1>1, <2>5 DEF Unlock, AfterUnlock
  <2> QED
    BY <1>2, <2>1, <2>2, <2>3, <2>4, <2>5 DEF Proceed
<1>3. ASSUME NEW n \in Machines, Fail(n)
      PROVE  /\ \A i \in Migrations : runs'[i] >= runs[i]
             /\ interrupted \subseteq interrupted'
             /\ \A m \in Machines : Migrated(m)' => Migrated(m) \/ (pc[m] = "unlock" /\ ~failing[m])
  <2>1. CASE ExitOnError(n) \/ LockLost(n)
    BY <1>1, <2>1 DEF ExitOnError, LockLost
  <2>2. CASE MigrateFails(n)
    BY <2>2 DEF MigrateFails
  <2>3. CASE UnlockFails(n)
    BY <1>1, <2>3 DEF UnlockFails, AfterUnlock
  <2> QED
    BY <1>3, <2>1, <2>2, <2>3 DEF Fail
<1>4. ASSUME NEW n \in Machines, World(n)
      PROVE  /\ \A i \in Migrations : runs'[i] >= runs[i]
             /\ interrupted \subseteq interrupted'
             /\ \A m \in Machines : Migrated(m)' => Migrated(m) \/ (pc[m] = "unlock" /\ ~failing[m])
  <2>1. CASE Start(n) \/ Stop(n) \/ Request(n) \/ Answer(n)
    BY <2>1 DEF Start, Stop, Request, Answer
  <2>2. CASE Kill(n)
    BY <1>1, <2>2 DEF Kill
  <2> QED
    BY <1>4, <2>1, <2>2 DEF World
<1>5. CASE UNCHANGED vars
  BY <1>5 DEF vars
<1> QED
  BY <1>2, <1>3, <1>4, <1>5 DEF Next

\* When a machine is about to release the row, nobody runs a migration: each
\* of its own has run or was interrupted.
LEMMA MigratedNext ==
    ASSUME IInv, ServesMigrated, [Next]_vars
    PROVE  ServesMigrated'
<1> SUFFICES ASSUME NEW m \in Machines, Migrated(m)', NEW i \in Own(m)
             PROVE  runs'[i] > 0 \/ i \in interrupted'
  BY DEF ServesMigrated
<1>1. i \in Migrations /\ TypeOK /\ TypeOK'
  BY OwnMigrations, TypeNext DEF IInv
<1>2. (runs[i] > 0 => runs'[i] > 0) /\ interrupted \subseteq interrupted'
  BY <1>1, OnlyForward DEF TypeOK
<1>3. CASE Migrated(m)
  BY <1>2, <1>3 DEF ServesMigrated
<1>4. CASE pc[m] = "unlock" /\ ~failing[m]
  <2>1. i \in marked
    BY <1>4 DEF Migrated, IInv, Stage, Holding
  <2>2. ASSUME NEW n \in Machines, Current(n, i) PROVE FALSE
    BY <1>4, <2>2 DEF Current, IInv, OneMigrator, Migrating, Holding
  <2> QED
    BY <1>2, <2>1, <2>2 DEF IInv
<1> QED
  BY <1>1, <1>3, <1>4, OnlyForward

\* A machine that serves has the schema of its binary, but for interruptions.
THEOREM SchemaReady == Spec => []ServesMigrated
<1>1. Init => ServesMigrated
  BY DEF Init, ServesMigrated, Migrated
<1> QED
  BY <1>1, InvariantHolds, MigratedNext, PTL DEF Spec

-----------------------------------------------------------------------------
(* The row left behind *)

\* With the row there and nobody migrating, only a machine that already has
\* passed the migrations serves from the database.
LEMMA AbandonedStep ==
    ASSUME IInv, [Next]_vars, Abandoned
    PROVE  Abandoned' /\ \A m \in Machines : Migrated(m)' => Migrated(m)
<1>1. \A m \in Machines : pc[m] \notin Holding
  BY DEF Abandoned, Migrating
<1>2. \A m \in Machines : Migrated(m)' => Migrated(m)
  BY <1>1, OnlyForward DEF IInv, Holding
<1>3. ASSUME NEW m \in Machines, Gone(m)
      PROVE  \A n \in Machines : ~Migrating(n)'
  BY <1>1, <1>3 DEF Gone, Migrating, Holding, IInv, TypeOK
<1>4. Abandoned'
  <2> USE DEF Step, Abandoned, Migrating, Holding, IInv, TypeOK
  <2>1. ASSUME NEW m \in Machines, Proceed(m) PROVE Abandoned'
    <3>1. CASE InMemory(m) \/ Connect(m) \/ InitTables(m) \/ Serve(m) \/ Drained(m)
      BY <1>1, <3>1 DEF InMemory, Connect, InitTables, Serve, Drained
    <3>2. CASE LockTaken(m) \/ ShutdownTimeout(m) \/ Exit(m)
      BY <1>3, <3>2 DEF LockTaken, ShutdownTimeout, Exit
    <3> QED
      BY <1>1, <2>1, <3>1, <3>2 DEF Proceed, AcquireLock, Status, Mark, RunUp, Unlock
  <2>2. ASSUME NEW m \in Machines, Fail(m) PROVE Abandoned'
    BY <1>1, <1>3, <2>2 DEF Fail, ExitOnError, LockLost, MigrateFails, UnlockFails
  <2>3. ASSUME NEW m \in Machines, World(m) PROVE Abandoned'
    <3>1. CASE Start(m) \/ Request(m) \/ Answer(m) \/ Stop(m)
      BY <1>1, <3>1 DEF Start, Request, Answer, Stop
    <3>2. CASE Kill(m)
      BY <1>3, <3>2 DEF Kill
    <3> QED
      BY <2>3, <3>1, <3>2 DEF World
  <2>4. CASE UNCHANGED vars
    BY <1>1, <2>4 DEF vars
  <2> QED
    BY <2>1, <2>2, <2>3, <2>4 DEF Next
<1> QED
  BY <1>2, <1>4

\* A row left behind is never removed, and no later start gets past it.
THEOREM LockNeverRecovers == Spec => AbandonedForGood
<1>1. IInv /\ [Next]_vars => [Abandoned => Abandoned' /\ \A m \in Machines : Migrated(m)' => Migrated(m)]_vars
  BY AbandonedStep
<1> QED
  BY <1>1, InvariantHolds, PTL DEF Spec, AbandonedForGood
=============================================================================
