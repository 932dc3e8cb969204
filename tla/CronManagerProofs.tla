------------------------- MODULE CronManagerProofs -------------------------
(***************************************************************************)
(* Theorems about CronManager for every set of registrations, every cap    *)
(* and any number of restarts.                                             *)
(***************************************************************************)
EXTENDS CronManager, FiniteSetTheorems, TLAPS

(***************************************************************************)
(* The inductive invariant.                                                *)
(***************************************************************************)

\* id is the primary key of cron_jobs.
OneRowPerId ==
  \A j, k \in Job : disk[j] # NoRow /\ disk[k] # NoRow /\ IdOf[j] = IdOf[k] => j = k

\* A dead process has no coroutine, no thread and no memory.
DownIsQuiet ==
  ~up => /\ memory = {} /\ saves = {} /\ deletes = {}
         /\ \A j \in Job : AtRest(j)

\* What was not registered yet left no trace.
NewIsUntouched ==
  \A j \in Job : phase[j] = "new" =>
    /\ j \notin memory /\ j \notin saves /\ disk[j] = NoRow
    /\ issued[j] = 0
    /\ OnlyOfItsId(j) => IdOf[j] \notin deletes

\* What _run_loop picked is enabled and has a time.
DueIsReady == \A j \in Job : phase[j] = "due" => job[j].enabled /\ job[j].next > 0

\* No time is used before it is issued.
TimesAreIssued ==
  /\ \A j \in Job : /\ job[j].next <= issued[j]
                    /\ disk[j] # NoRow => disk[j].next <= issued[j]
  /\ \A k \in tasks : 1 <= k[2] /\ k[2] <= issued[k[1]]

\* Between two writes the row has the object's time and count.
RowIsCurrent ==
  up => \A j \in Job : phase[j] # "saving" /\ disk[j] # NoRow =>
          disk[j].next = job[j].next /\ disk[j].count = job[j].count

\* An object (or row) has counted all tasks of j except the one its next_run
\* keys, and is disabled at its cap.
CountedBy(j, object) ==
  /\ Mode[j] # "event" => Cardinality(TasksOf(j) \ {<<j, object.next>>}) <= object.count
  /\ Mode[j] = "once" => object.count = 0
  /\ Cap(j) > 0 /\ object.enabled => object.count < Cap(j)

TasksAreCounted ==
  /\ IsFiniteSet(tasks)
  /\ \A j \in Job : CountedBy(j, job[j]) /\ (disk[j] # NoRow => CountedBy(j, disk[j]))

\* RegisteredIsOnDisk with what it takes: nobody else deletes the row.
RowIsKept ==
  \A j \in memory : OnlyOfItsId(j) =>
    /\ phase[j] # "deleting" /\ IdOf[j] \notin deletes
    /\ j \notin saves /\ phase[j] # "saving" => disk[j] # NoRow

IInv ==
  /\ TypeOK /\ OneRowPerId /\ DownIsQuiet /\ NewIsUntouched /\ DueIsReady
  /\ TimesAreIssued /\ RowIsCurrent /\ TasksAreCounted /\ TasksWithinCap /\ RowIsKept

\* Changing one object keeps the objects in range.
LEMMA ObjectsTyped ==
  ASSUME DOMAIN job = Job, \A k \in Job : job[k] \in Columns(k),
         NEW j \in Job, NEW r \in Columns(j), job' = [job EXCEPT ![j] = r]
  PROVE  DOMAIN job' = Job /\ \A k \in Job : job'[k] \in Columns(k)
OBVIOUS

\* What a row or an object is made of.
LEMMA ColumnsTyped ==
  ASSUME NEW j \in Job, NEW r \in Columns(j)
  PROVE  /\ r.enabled \in BOOLEAN /\ r.next \in Nat /\ r.count \in Nat
         /\ r.retries \in Nat /\ r.retries <= MaxRetries[j] /\ MaxRetries[j] \in Nat
BY CronAssumption DEF Columns

\* The ways a step changes an object.
LEMMA ColumnsChanged ==
  ASSUME NEW j \in Job, NEW r \in Columns(j)
  PROVE  /\ [r EXCEPT !.retries = 0] \in Columns(j)
         /\ [r EXCEPT !.enabled = FALSE] \in Columns(j)
         /\ r.retries < MaxRetries[j] => [r EXCEPT !.retries = r.retries + 1] \in Columns(j)
         /\ \A n \in Nat : [r EXCEPT !.next = n] \in Columns(j)
         /\ [r EXCEPT !.count = @ + 1] \in Columns(j)
<1>1. MaxRetries[j] \in Nat
  BY CronAssumption
<1>2. [r EXCEPT !.retries = 0] \in Columns(j)
  BY <1>1 DEF Columns
<1>3. [r EXCEPT !.enabled = FALSE] \in Columns(j)
  BY DEF Columns
<1>4. r.retries < MaxRetries[j] => [r EXCEPT !.retries = r.retries + 1] \in Columns(j)
  BY <1>1 DEF Columns
<1>5. \A n \in Nat : [r EXCEPT !.next = n] \in Columns(j)
  BY DEF Columns
<1>6. [r EXCEPT !.count = @ + 1] \in Columns(j)
  BY DEF Columns
<1>7. QED
  BY <1>2, <1>3, <1>4, <1>5, <1>6

\* Every step keeps the types.
LEMMA Typed ==
  ASSUME TypeOK, OneRowPerId, [Next]_vars
  PROVE  TypeOK'
<1> USE DEF TypeOK, OneRowPerId, Phase, SameId
<1>1. ASSUME NEW j \in Job, Register(j) PROVE TypeOK'
  <2>1. PICK r \in Columns(j) : job' = [job EXCEPT ![j] = r]
    BY <1>1, ColumnsChanged DEF Register
  <2>2. DOMAIN job' = Job /\ \A k \in Job : job'[k] \in Columns(k)
    BY <2>1, ObjectsTyped
  <2>3. QED
    BY <1>1, <2>2, ColumnsTyped DEF Register
<1>2. ASSUME NEW j \in Job, Trigger(j) PROVE TypeOK'
  <2>1. issued[j] + 1 \in Nat
    OBVIOUS
  <2>2. job[j] \in Columns(j)
    BY ColumnsChanged DEF Counted
  <2>3. [job[j] EXCEPT !.next = issued[j] + 1] \in Columns(j)
    BY <2>1, <2>2, ColumnsChanged
  <2>4. DOMAIN job' = Job /\ \A k \in Job : job'[k] \in Columns(k)
    BY <1>2, <2>3, ObjectsTyped DEF Trigger
  <2>5. QED
    BY <1>2, <2>4, ColumnsTyped DEF Trigger, SaveJob
<1>3. ASSUME NEW j \in Job, FlushSave(j) PROVE TypeOK'
  BY <1>3 DEF FlushSave, SaveJob
<1>4. ASSUME NEW j \in Job, PassTime(j) PROVE TypeOK'
  BY <1>4, ColumnsTyped DEF PassTime
<1>5. ASSUME NEW j \in Job, Dedup(j) PROVE TypeOK'
  <2>1. PICK r \in Columns(j) : job' = [job EXCEPT ![j] = r]
    BY <1>5, ColumnsChanged DEF Dedup, Succeeded
  <2>2. DOMAIN job' = Job /\ \A k \in Job : job'[k] \in Columns(k)
    BY <2>1, ObjectsTyped
  <2>3. QED
    BY <1>5, <2>2, ColumnsTyped DEF Dedup, Step, Succeeded, Key
<1>6. ASSUME NEW j \in Job, Enqueue(j) PROVE TypeOK'
  BY <1>6, ColumnsTyped DEF Enqueue, Step, Key
<1>7. ASSUME NEW j \in Job, Iterate(j) PROVE TypeOK'
  BY <1>7, ColumnsTyped DEF Iterate, Step, Key
<1>8. ASSUME NEW j \in Job, IterateFails(j) PROVE TypeOK'
  <2>1. PICK r \in Columns(j) : job' = [job EXCEPT ![j] = r]
    BY <1>8, ColumnsChanged DEF IterateFails, Succeeded
  <2>2. DOMAIN job' = Job /\ \A k \in Job : job'[k] \in Columns(k)
    BY <2>1, ObjectsTyped
  <2>3. QED
    BY <1>8, <2>2, ColumnsTyped DEF IterateFails, Step, Succeeded, Key
<1>9. ASSUME NEW j \in Job, FireFails(j) PROVE TypeOK'
  <2>1. PICK r \in Columns(j) : job' = [job EXCEPT ![j] = r]
    BY <1>9, ColumnsChanged DEF FireFails, HandleRetry
  <2>2. DOMAIN job' = Job /\ \A k \in Job : job'[k] \in Columns(k)
    BY <2>1, ObjectsTyped
  <2>3. QED
    BY <1>9, <2>2, ColumnsTyped DEF FireFails, Step, HandleRetry
<1>10. ASSUME NEW j \in Job, Awaited(j) PROVE TypeOK'
  BY <1>10 DEF Awaited, Step
<1>11. ASSUME NEW j \in Job, TimeOut(j) PROVE TypeOK'
  BY <1>11 DEF TimeOut, Step
<1>12. ASSUME NEW j \in Job, Announced(j) PROVE TypeOK'
  <2>1. PICK r \in Columns(j) : job' = [job EXCEPT ![j] = r]
    BY <1>12, ColumnsChanged DEF Announced, Succeeded
  <2>2. DOMAIN job' = Job /\ \A k \in Job : job'[k] \in Columns(k)
    BY <2>1, ObjectsTyped
  <2>3. QED
    BY <1>12, <2>2, ColumnsTyped DEF Announced, Step, Succeeded
<1>13. ASSUME NEW j \in Job, AnnounceTimesOut(j) PROVE TypeOK'
  <2>1. PICK r \in Columns(j) : job' = [job EXCEPT ![j] = r]
    BY <1>13, ColumnsChanged DEF AnnounceTimesOut, HandleRetry
  <2>2. DOMAIN job' = Job /\ \A k \in Job : job'[k] \in Columns(k)
    BY <2>1, ObjectsTyped
  <2>3. QED
    BY <1>13, <2>2, ColumnsTyped DEF AnnounceTimesOut, Step, HandleRetry
<1>14. ASSUME NEW j \in Job, Retire(j) PROVE TypeOK'
  BY <1>14 DEF Retire, Step
<1>15. ASSUME NEW j \in Job, EndLoop(j) PROVE TypeOK'
  <2>1. PICK r \in Columns(j) : job' = [job EXCEPT ![j] = r]
    BY <1>15, ColumnsChanged DEF EndLoop, Counted, Account
  <2>2. DOMAIN job' = Job /\ \A k \in Job : job'[k] \in Columns(k)
    BY <2>1, ObjectsTyped
  <2>3. QED
    BY <1>15, <2>2, ColumnsTyped DEF EndLoop, Step, Account
<1>16. ASSUME NEW j \in Job, GoDormant(j) PROVE TypeOK'
  <2>1. PICK r \in Columns(j) : job' = [job EXCEPT ![j] = r]
    BY <1>16, ColumnsChanged DEF GoDormant, Counted, Account
  <2>2. DOMAIN job' = Job /\ \A k \in Job : job'[k] \in Columns(k)
    BY <2>1, ObjectsTyped
  <2>3. QED
    BY <1>16, <2>2, ColumnsTyped DEF GoDormant, Step, Account
<1>17. ASSUME NEW j \in Job, Reschedule(j) PROVE TypeOK'
  <2>1. issued[j] + 1 \in Nat
    OBVIOUS
  <2>2. Counted(j) \in Columns(j)
    BY ColumnsChanged DEF Counted
  <2>3. [Counted(j) EXCEPT !.next = issued[j] + 1] \in Columns(j)
    BY <2>1, <2>2, ColumnsChanged
  <2>4. DOMAIN job' = Job /\ \A k \in Job : job'[k] \in Columns(k)
    BY <1>17, <2>3, ObjectsTyped DEF Reschedule, Account
  <2>5. QED
    BY <1>17, <2>4, ColumnsTyped DEF Reschedule, Step, Account
<1>18. ASSUME NEW j \in Job, Persist(j) PROVE TypeOK'
  BY <1>18 DEF Persist, SaveJob, Step
<1>19. ASSUME NEW j \in Job, Forget(j) PROVE TypeOK'
  BY <1>19 DEF Forget, DeleteJob, Step
<1>20. ASSUME NEW i \in Id, Unregister(i) PROVE TypeOK'
  BY <1>20 DEF Unregister
<1>21. ASSUME NEW i \in Id, FlushDelete(i) PROVE TypeOK'
  BY <1>21 DEF FlushDelete, DeleteJob
<1>22. ASSUME NEW k \in executing, ExecutionEnds(k) PROVE TypeOK'
  BY <1>22 DEF ExecutionEnds
<1>23. CASE Tick
  BY <1>23 DEF Tick
<1>24. CASE Crash
  <2>1. DOMAIN disk' = Job /\ \A j \in Job : disk'[j] # NoRow => disk'[j] \in Columns(j)
    BY <1>24 DEF Crash
  <2>2. phase' \in [Job -> Phase] /\ iteration' \in [Job -> Nat] /\ restarts' \in Nat
    BY <1>24 DEF Crash, Die
  <2>3. QED
    BY <1>24, <2>1, <2>2 DEF Crash, Die
<1>25. CASE Stop
  <2>1. DOMAIN disk' = Job /\ \A j \in Job : disk'[j] # NoRow => disk'[j] \in Columns(j)
    BY <1>25 DEF Stop
  <2>2. phase' \in [Job -> Phase] /\ iteration' \in [Job -> Nat] /\ restarts' \in Nat
    BY <1>25 DEF Stop, Die
  <2>3. QED
    BY <1>25, <2>1, <2>2 DEF Stop, Die
<1>26. CASE Boot
  BY <1>26 DEF Boot
<1>27. CASE UNCHANGED vars
  BY <1>27 DEF vars
<1>28. QED
  BY <1>1, <1>2, <1>3, <1>4, <1>5, <1>6, <1>7, <1>8, <1>9, <1>10, <1>11, <1>12, <1>13, <1>14, <1>15, <1>16, <1>17, <1>18, <1>19, <1>20, <1>21, <1>22, <1>23, <1>24, <1>25, <1>26, <1>27 DEF Next, RunStep

\* Every step keeps one row per id.
LEMMA RowsByKey ==
  ASSUME TypeOK, OneRowPerId, [Next]_vars
  PROVE  OneRowPerId'
<1> USE DEF TypeOK, OneRowPerId
<1>1. ASSUME NEW j \in Job, Register(j) PROVE OneRowPerId'
  BY <1>1 DEF Register
<1>2. ASSUME NEW j \in Job, Trigger(j) PROVE OneRowPerId'
  BY <1>2 DEF Trigger, SaveJob
<1>3. ASSUME NEW j \in Job, FlushSave(j) PROVE OneRowPerId'
  BY <1>3 DEF FlushSave, SaveJob
<1>4. ASSUME NEW j \in Job, PassTime(j) PROVE OneRowPerId'
  BY <1>4 DEF PassTime
<1>5. ASSUME NEW j \in Job, Dedup(j) PROVE OneRowPerId'
  BY <1>5 DEF Dedup, Step, Succeeded, Key
<1>6. ASSUME NEW j \in Job, Enqueue(j) PROVE OneRowPerId'
  BY <1>6 DEF Enqueue, Step, Key
<1>7. ASSUME NEW j \in Job, Iterate(j) PROVE OneRowPerId'
  BY <1>7 DEF Iterate, Step, Key
<1>8. ASSUME NEW j \in Job, IterateFails(j) PROVE OneRowPerId'
  BY <1>8 DEF IterateFails, Step, Succeeded, Key
<1>9. ASSUME NEW j \in Job, FireFails(j) PROVE OneRowPerId'
  BY <1>9 DEF FireFails, Step, HandleRetry
<1>10. ASSUME NEW j \in Job, Awaited(j) PROVE OneRowPerId'
  BY <1>10 DEF Awaited, Step
<1>11. ASSUME NEW j \in Job, TimeOut(j) PROVE OneRowPerId'
  BY <1>11 DEF TimeOut, Step
<1>12. ASSUME NEW j \in Job, Announced(j) PROVE OneRowPerId'
  BY <1>12 DEF Announced, Step, Succeeded
<1>13. ASSUME NEW j \in Job, AnnounceTimesOut(j) PROVE OneRowPerId'
  BY <1>13 DEF AnnounceTimesOut, Step, HandleRetry
<1>14. ASSUME NEW j \in Job, Retire(j) PROVE OneRowPerId'
  BY <1>14 DEF Retire, Step
<1>15. ASSUME NEW j \in Job, EndLoop(j) PROVE OneRowPerId'
  BY <1>15 DEF EndLoop, Step, Account
<1>16. ASSUME NEW j \in Job, GoDormant(j) PROVE OneRowPerId'
  BY <1>16 DEF GoDormant, Step, Account
<1>17. ASSUME NEW j \in Job, Reschedule(j) PROVE OneRowPerId'
  BY <1>17 DEF Reschedule, Step, Account
<1>18. ASSUME NEW j \in Job, Persist(j) PROVE OneRowPerId'
  BY <1>18 DEF Persist, SaveJob, Step
<1>19. ASSUME NEW j \in Job, Forget(j) PROVE OneRowPerId'
  BY <1>19 DEF Forget, DeleteJob, Step
<1>20. ASSUME NEW i \in Id, Unregister(i) PROVE OneRowPerId'
  BY <1>20 DEF Unregister
<1>21. ASSUME NEW i \in Id, FlushDelete(i) PROVE OneRowPerId'
  BY <1>21 DEF FlushDelete, DeleteJob
<1>22. ASSUME NEW k \in executing, ExecutionEnds(k) PROVE OneRowPerId'
  BY <1>22 DEF ExecutionEnds
<1>23. CASE Tick
  BY <1>23 DEF Tick
<1>24. CASE Crash
  BY <1>24 DEF Crash, Die
<1>25. CASE Stop
  BY <1>25 DEF Stop, Die
<1>26. CASE Boot
  BY <1>26 DEF Boot
<1>27. CASE UNCHANGED vars
  BY <1>27 DEF vars
<1>28. QED
  BY <1>1, <1>2, <1>3, <1>4, <1>5, <1>6, <1>7, <1>8, <1>9, <1>10, <1>11, <1>12, <1>13, <1>14, <1>15, <1>16, <1>17, <1>18, <1>19, <1>20, <1>21, <1>22, <1>23, <1>24, <1>25, <1>26, <1>27 DEF Next, RunStep

\* Every step of a dead process is its restart.
LEMMA Quiet ==
  ASSUME TypeOK, DownIsQuiet, [Next]_vars
  PROVE  DownIsQuiet'
<1> USE DEF TypeOK, DownIsQuiet, AtRest
<1>1. ASSUME NEW j \in Job, Register(j) PROVE DownIsQuiet'
  BY <1>1 DEF Register
<1>2. ASSUME NEW j \in Job, Trigger(j) PROVE DownIsQuiet'
  BY <1>2 DEF Trigger, SaveJob
<1>3. ASSUME NEW j \in Job, FlushSave(j) PROVE DownIsQuiet'
  BY <1>3 DEF FlushSave, SaveJob
<1>4. ASSUME NEW j \in Job, PassTime(j) PROVE DownIsQuiet'
  BY <1>4 DEF PassTime
<1>5. ASSUME NEW j \in Job, Dedup(j) PROVE DownIsQuiet'
  BY <1>5 DEF Dedup, Step, Succeeded, Key
<1>6. ASSUME NEW j \in Job, Enqueue(j) PROVE DownIsQuiet'
  BY <1>6 DEF Enqueue, Step, Key
<1>7. ASSUME NEW j \in Job, Iterate(j) PROVE DownIsQuiet'
  BY <1>7 DEF Iterate, Step, Key
<1>8. ASSUME NEW j \in Job, IterateFails(j) PROVE DownIsQuiet'
  BY <1>8 DEF IterateFails, Step, Succeeded, Key
<1>9. ASSUME NEW j \in Job, FireFails(j) PROVE DownIsQuiet'
  BY <1>9 DEF FireFails, Step, HandleRetry
<1>10. ASSUME NEW j \in Job, Awaited(j) PROVE DownIsQuiet'
  BY <1>10 DEF Awaited, Step
<1>11. ASSUME NEW j \in Job, TimeOut(j) PROVE DownIsQuiet'
  BY <1>11 DEF TimeOut, Step
<1>12. ASSUME NEW j \in Job, Announced(j) PROVE DownIsQuiet'
  BY <1>12 DEF Announced, Step, Succeeded
<1>13. ASSUME NEW j \in Job, AnnounceTimesOut(j) PROVE DownIsQuiet'
  BY <1>13 DEF AnnounceTimesOut, Step, HandleRetry
<1>14. ASSUME NEW j \in Job, Retire(j) PROVE DownIsQuiet'
  BY <1>14 DEF Retire, Step
<1>15. ASSUME NEW j \in Job, EndLoop(j) PROVE DownIsQuiet'
  BY <1>15 DEF EndLoop, Step, Account
<1>16. ASSUME NEW j \in Job, GoDormant(j) PROVE DownIsQuiet'
  BY <1>16 DEF GoDormant, Step, Account
<1>17. ASSUME NEW j \in Job, Reschedule(j) PROVE DownIsQuiet'
  BY <1>17 DEF Reschedule, Step, Account
<1>18. ASSUME NEW j \in Job, Persist(j) PROVE DownIsQuiet'
  BY <1>18 DEF Persist, SaveJob, Step
<1>19. ASSUME NEW j \in Job, Forget(j) PROVE DownIsQuiet'
  BY <1>19 DEF Forget, DeleteJob, Step
<1>20. ASSUME NEW i \in Id, Unregister(i) PROVE DownIsQuiet'
  BY <1>20 DEF Unregister
<1>21. ASSUME NEW i \in Id, FlushDelete(i) PROVE DownIsQuiet'
  BY <1>21 DEF FlushDelete, DeleteJob
<1>22. ASSUME NEW k \in executing, ExecutionEnds(k) PROVE DownIsQuiet'
  BY <1>22 DEF ExecutionEnds
<1>23. CASE Tick
  BY <1>23 DEF Tick
<1>24. CASE Crash
  BY <1>24 DEF Crash, Die
<1>25. CASE Stop
  BY <1>25 DEF Stop, Die
<1>26. CASE Boot
  BY <1>26 DEF Boot
<1>27. CASE UNCHANGED vars
  BY <1>27 DEF vars
<1>28. QED
  BY <1>1, <1>2, <1>3, <1>4, <1>5, <1>6, <1>7, <1>8, <1>9, <1>10, <1>11, <1>12, <1>13, <1>14, <1>15, <1>16, <1>17, <1>18, <1>19, <1>20, <1>21, <1>22, <1>23, <1>24, <1>25, <1>26, <1>27 DEF Next, RunStep

\* Every step leaves alone what is not registered.
LEMMA Untouched ==
  ASSUME TypeOK, DownIsQuiet, NewIsUntouched, [Next]_vars
  PROVE  NewIsUntouched'
<1> USE DEF TypeOK, DownIsQuiet, NewIsUntouched, OnlyOfItsId, AtRest, SameId
<1>1. ASSUME NEW j \in Job, Register(j) PROVE NewIsUntouched'
  BY <1>1 DEF Register
<1>2. ASSUME NEW j \in Job, Trigger(j) PROVE NewIsUntouched'
  BY <1>2 DEF Trigger, SaveJob
<1>3. ASSUME NEW j \in Job, FlushSave(j) PROVE NewIsUntouched'
  BY <1>3 DEF FlushSave, SaveJob
<1>4. ASSUME NEW j \in Job, PassTime(j) PROVE NewIsUntouched'
  BY <1>4 DEF PassTime
<1>5. ASSUME NEW j \in Job, Dedup(j) PROVE NewIsUntouched'
  BY <1>5 DEF Dedup, Step, Succeeded, Key
<1>6. ASSUME NEW j \in Job, Enqueue(j) PROVE NewIsUntouched'
  BY <1>6 DEF Enqueue, Step, Key
<1>7. ASSUME NEW j \in Job, Iterate(j) PROVE NewIsUntouched'
  BY <1>7 DEF Iterate, Step, Key
<1>8. ASSUME NEW j \in Job, IterateFails(j) PROVE NewIsUntouched'
  BY <1>8 DEF IterateFails, Step, Succeeded, Key
<1>9. ASSUME NEW j \in Job, FireFails(j) PROVE NewIsUntouched'
  BY <1>9 DEF FireFails, Step, HandleRetry
<1>10. ASSUME NEW j \in Job, Awaited(j) PROVE NewIsUntouched'
  BY <1>10 DEF Awaited, Step
<1>11. ASSUME NEW j \in Job, TimeOut(j) PROVE NewIsUntouched'
  BY <1>11 DEF TimeOut, Step
<1>12. ASSUME NEW j \in Job, Announced(j) PROVE NewIsUntouched'
  BY <1>12 DEF Announced, Step, Succeeded
<1>13. ASSUME NEW j \in Job, AnnounceTimesOut(j) PROVE NewIsUntouched'
  BY <1>13 DEF AnnounceTimesOut, Step, HandleRetry
<1>14. ASSUME NEW j \in Job, Retire(j) PROVE NewIsUntouched'
  BY <1>14 DEF Retire, Step
<1>15. ASSUME NEW j \in Job, EndLoop(j) PROVE NewIsUntouched'
  BY <1>15 DEF EndLoop, Step, Account
<1>16. ASSUME NEW j \in Job, GoDormant(j) PROVE NewIsUntouched'
  BY <1>16 DEF GoDormant, Step, Account
<1>17. ASSUME NEW j \in Job, Reschedule(j) PROVE NewIsUntouched'
  BY <1>17 DEF Reschedule, Step, Account
<1>18. ASSUME NEW j \in Job, Persist(j) PROVE NewIsUntouched'
  BY <1>18 DEF Persist, SaveJob, Step
<1>19. ASSUME NEW j \in Job, Forget(j) PROVE NewIsUntouched'
  BY <1>19 DEF Forget, DeleteJob, Step
<1>20. ASSUME NEW i \in Id, Unregister(i) PROVE NewIsUntouched'
  BY <1>20 DEF Unregister
<1>21. ASSUME NEW i \in Id, FlushDelete(i) PROVE NewIsUntouched'
  BY <1>21 DEF FlushDelete, DeleteJob
<1>22. ASSUME NEW k \in executing, ExecutionEnds(k) PROVE NewIsUntouched'
  BY <1>22 DEF ExecutionEnds
<1>23. CASE Tick
  BY <1>23 DEF Tick
<1>24. CASE Crash
  BY <1>24 DEF Crash, Die
<1>25. CASE Stop
  BY <1>25 DEF Stop, Die
<1>26. CASE Boot
  BY <1>26 DEF Boot
<1>27. CASE UNCHANGED vars
  BY <1>27 DEF vars
<1>28. QED
  BY <1>1, <1>2, <1>3, <1>4, <1>5, <1>6, <1>7, <1>8, <1>9, <1>10, <1>11, <1>12, <1>13, <1>14, <1>15, <1>16, <1>17, <1>18, <1>19, <1>20, <1>21, <1>22, <1>23, <1>24, <1>25, <1>26, <1>27 DEF Next, RunStep

\* Every step keeps picked jobs enabled.
LEMMA Ready ==
  ASSUME TypeOK, DownIsQuiet, DueIsReady, [Next]_vars
  PROVE  DueIsReady'
<1> USE DEF TypeOK, DueIsReady
<1>1. ASSUME NEW j \in Job, Register(j) PROVE DueIsReady'
  BY <1>1 DEF Register
<1>2. ASSUME NEW j \in Job, Trigger(j) PROVE DueIsReady'
  BY <1>2 DEF Trigger, SaveJob
<1>3. ASSUME NEW j \in Job, FlushSave(j) PROVE DueIsReady'
  BY <1>3 DEF FlushSave, SaveJob
<1>4. ASSUME NEW j \in Job, PassTime(j) PROVE DueIsReady'
  BY <1>4 DEF PassTime
<1>5. ASSUME NEW j \in Job, Dedup(j) PROVE DueIsReady'
  BY <1>5 DEF Dedup, Step, Succeeded, Key
<1>6. ASSUME NEW j \in Job, Enqueue(j) PROVE DueIsReady'
  BY <1>6 DEF Enqueue, Step, Key
<1>7. ASSUME NEW j \in Job, Iterate(j) PROVE DueIsReady'
  BY <1>7 DEF Iterate, Step, Key
<1>8. ASSUME NEW j \in Job, IterateFails(j) PROVE DueIsReady'
  BY <1>8 DEF IterateFails, Step, Succeeded, Key
<1>9. ASSUME NEW j \in Job, FireFails(j) PROVE DueIsReady'
  BY <1>9 DEF FireFails, Step, HandleRetry
<1>10. ASSUME NEW j \in Job, Awaited(j) PROVE DueIsReady'
  BY <1>10 DEF Awaited, Step
<1>11. ASSUME NEW j \in Job, TimeOut(j) PROVE DueIsReady'
  BY <1>11 DEF TimeOut, Step
<1>12. ASSUME NEW j \in Job, Announced(j) PROVE DueIsReady'
  BY <1>12 DEF Announced, Step, Succeeded
<1>13. ASSUME NEW j \in Job, AnnounceTimesOut(j) PROVE DueIsReady'
  BY <1>13 DEF AnnounceTimesOut, Step, HandleRetry
<1>14. ASSUME NEW j \in Job, Retire(j) PROVE DueIsReady'
  BY <1>14 DEF Retire, Step
<1>15. ASSUME NEW j \in Job, EndLoop(j) PROVE DueIsReady'
  BY <1>15 DEF EndLoop, Step, Account
<1>16. ASSUME NEW j \in Job, GoDormant(j) PROVE DueIsReady'
  BY <1>16 DEF GoDormant, Step, Account
<1>17. ASSUME NEW j \in Job, Reschedule(j) PROVE DueIsReady'
  BY <1>17 DEF Reschedule, Step, Account
<1>18. ASSUME NEW j \in Job, Persist(j) PROVE DueIsReady'
  BY <1>18 DEF Persist, SaveJob, Step
<1>19. ASSUME NEW j \in Job, Forget(j) PROVE DueIsReady'
  BY <1>19 DEF Forget, DeleteJob, Step
<1>20. ASSUME NEW i \in Id, Unregister(i) PROVE DueIsReady'
  BY <1>20 DEF Unregister
<1>21. ASSUME NEW i \in Id, FlushDelete(i) PROVE DueIsReady'
  BY <1>21 DEF FlushDelete, DeleteJob
<1>22. ASSUME NEW k \in executing, ExecutionEnds(k) PROVE DueIsReady'
  BY <1>22 DEF ExecutionEnds
<1>23. CASE Tick
  BY <1>23, ColumnsTyped DEF Tick, Due, AtRest
<1>24. CASE Crash
  BY <1>24 DEF Crash, Die
<1>25. CASE Stop
  BY <1>25 DEF Stop, Die
<1>26. CASE Boot
  BY <1>26 DEF Boot, DownIsQuiet, AtRest
<1>27. CASE UNCHANGED vars
  BY <1>27 DEF vars
<1>28. QED
  BY <1>1, <1>2, <1>3, <1>4, <1>5, <1>6, <1>7, <1>8, <1>9, <1>10, <1>11, <1>12, <1>13, <1>14, <1>15, <1>16, <1>17, <1>18, <1>19, <1>20, <1>21, <1>22, <1>23, <1>24, <1>25, <1>26, <1>27 DEF Next, RunStep

\* Every step that changes time or count announces or does a write.
LEMMA RowsCurrent ==
  ASSUME TypeOK, DownIsQuiet, NewIsUntouched, OneRowPerId, RowIsCurrent, [Next]_vars
  PROVE  RowIsCurrent'
<1> USE DEF TypeOK, DownIsQuiet, NewIsUntouched, RowIsCurrent, AtRest
<1>1. ASSUME NEW j \in Job, Register(j) PROVE RowIsCurrent'
  BY <1>1 DEF Register
<1>2. ASSUME NEW j \in Job, Trigger(j) PROVE RowIsCurrent'
  BY <1>2 DEF Trigger, SaveJob
<1>3. ASSUME NEW j \in Job, FlushSave(j) PROVE RowIsCurrent'
  BY <1>3 DEF FlushSave, SaveJob
<1>4. ASSUME NEW j \in Job, PassTime(j) PROVE RowIsCurrent'
  BY <1>4 DEF PassTime
<1>5. ASSUME NEW j \in Job, Dedup(j) PROVE RowIsCurrent'
  BY <1>5 DEF Dedup, Step, Succeeded, Key
<1>6. ASSUME NEW j \in Job, Enqueue(j) PROVE RowIsCurrent'
  BY <1>6 DEF Enqueue, Step, Key
<1>7. ASSUME NEW j \in Job, Iterate(j) PROVE RowIsCurrent'
  BY <1>7 DEF Iterate, Step, Key
<1>8. ASSUME NEW j \in Job, IterateFails(j) PROVE RowIsCurrent'
  BY <1>8 DEF IterateFails, Step, Succeeded, Key
<1>9. ASSUME NEW j \in Job, FireFails(j) PROVE RowIsCurrent'
  BY <1>9 DEF FireFails, Step, HandleRetry
<1>10. ASSUME NEW j \in Job, Awaited(j) PROVE RowIsCurrent'
  BY <1>10 DEF Awaited, Step
<1>11. ASSUME NEW j \in Job, TimeOut(j) PROVE RowIsCurrent'
  BY <1>11 DEF TimeOut, Step
<1>12. ASSUME NEW j \in Job, Announced(j) PROVE RowIsCurrent'
  BY <1>12 DEF Announced, Step, Succeeded
<1>13. ASSUME NEW j \in Job, AnnounceTimesOut(j) PROVE RowIsCurrent'
  BY <1>13 DEF AnnounceTimesOut, Step, HandleRetry
<1>14. ASSUME NEW j \in Job, Retire(j) PROVE RowIsCurrent'
  BY <1>14 DEF Retire, Step
<1>15. ASSUME NEW j \in Job, EndLoop(j) PROVE RowIsCurrent'
  BY <1>15 DEF EndLoop, Step, Account
<1>16. ASSUME NEW j \in Job, GoDormant(j) PROVE RowIsCurrent'
  BY <1>16 DEF GoDormant, Step, Account
<1>17. ASSUME NEW j \in Job, Reschedule(j) PROVE RowIsCurrent'
  BY <1>17 DEF Reschedule, Step, Account
<1>18. ASSUME NEW j \in Job, Persist(j) PROVE RowIsCurrent'
  BY <1>18 DEF Persist, SaveJob, Step
<1>19. ASSUME NEW j \in Job, Forget(j) PROVE RowIsCurrent'
  BY <1>19 DEF Forget, DeleteJob, Step
<1>20. ASSUME NEW i \in Id, Unregister(i) PROVE RowIsCurrent'
  BY <1>20 DEF Unregister
<1>21. ASSUME NEW i \in Id, FlushDelete(i) PROVE RowIsCurrent'
  BY <1>21 DEF FlushDelete, DeleteJob
<1>22. ASSUME NEW k \in executing, ExecutionEnds(k) PROVE RowIsCurrent'
  BY <1>22 DEF ExecutionEnds
<1>23. CASE Tick
  <2>1. \A j \in Job : phase[j] # "saving"
    BY <1>23 DEF Tick
  <2>2. up /\ UNCHANGED <<up, job, disk>>
    BY <1>23 DEF Tick
  <2>3. QED
    BY <2>1, <2>2
<1>24. CASE Crash
  BY <1>24 DEF Crash, Die
<1>25. CASE Stop
  BY <1>25 DEF Stop, Die
<1>26. CASE Boot
  <2>1. \A j \in Job : disk'[j] # NoRow => job'[j] = disk'[j]
    BY <1>26 DEF Boot
  <2>2. QED
    BY <2>1
<1>27. CASE UNCHANGED vars
  BY <1>27 DEF vars
<1>28. QED
  BY <1>1, <1>2, <1>3, <1>4, <1>5, <1>6, <1>7, <1>8, <1>9, <1>10, <1>11, <1>12, <1>13, <1>14, <1>15, <1>16, <1>17, <1>18, <1>19, <1>20, <1>21, <1>22, <1>23, <1>24, <1>25, <1>26, <1>27 DEF Next, RunStep

\* Every step keeps the row of a registered job.
LEMMA RowsKept ==
  ASSUME TypeOK, TypeOK', DownIsQuiet, NewIsUntouched, RowIsKept, [Next]_vars
  PROVE  RowIsKept'
<1> USE DEF TypeOK, DownIsQuiet, NewIsUntouched, RowIsKept, OnlyOfItsId, AtRest, SameId
<1>1. ASSUME NEW j \in Job, Register(j) PROVE RowIsKept'
  BY <1>1 DEF Register
<1>2. ASSUME NEW j \in Job, Trigger(j) PROVE RowIsKept'
  <2>1. job'[j] # NoRow
    BY CronAssumption
  <2>2. QED
    BY <1>2, <2>1 DEF Trigger, SaveJob
<1>3. ASSUME NEW j \in Job, FlushSave(j) PROVE RowIsKept'
  <2>1. job[j] # NoRow
    BY CronAssumption
  <2>2. QED
    BY <1>3, <2>1 DEF FlushSave, SaveJob
<1>4. ASSUME NEW j \in Job, PassTime(j) PROVE RowIsKept'
  BY <1>4 DEF PassTime
<1>5. ASSUME NEW j \in Job, Dedup(j) PROVE RowIsKept'
  BY <1>5 DEF Dedup, Step, Succeeded, Key
<1>6. ASSUME NEW j \in Job, Enqueue(j) PROVE RowIsKept'
  BY <1>6 DEF Enqueue, Step, Key
<1>7. ASSUME NEW j \in Job, Iterate(j) PROVE RowIsKept'
  BY <1>7 DEF Iterate, Step, Key
<1>8. ASSUME NEW j \in Job, IterateFails(j) PROVE RowIsKept'
  BY <1>8 DEF IterateFails, Step, Succeeded, Key
<1>9. ASSUME NEW j \in Job, FireFails(j) PROVE RowIsKept'
  BY <1>9 DEF FireFails, Step, HandleRetry
<1>10. ASSUME NEW j \in Job, Awaited(j) PROVE RowIsKept'
  BY <1>10 DEF Awaited, Step
<1>11. ASSUME NEW j \in Job, TimeOut(j) PROVE RowIsKept'
  BY <1>11 DEF TimeOut, Step
<1>12. ASSUME NEW j \in Job, Announced(j) PROVE RowIsKept'
  BY <1>12 DEF Announced, Step, Succeeded
<1>13. ASSUME NEW j \in Job, AnnounceTimesOut(j) PROVE RowIsKept'
  BY <1>13 DEF AnnounceTimesOut, Step, HandleRetry
<1>14. ASSUME NEW j \in Job, Retire(j) PROVE RowIsKept'
  BY <1>14 DEF Retire, Step
<1>15. ASSUME NEW j \in Job, EndLoop(j) PROVE RowIsKept'
  BY <1>15 DEF EndLoop, Step, Account
<1>16. ASSUME NEW j \in Job, GoDormant(j) PROVE RowIsKept'
  BY <1>16 DEF GoDormant, Step, Account
<1>17. ASSUME NEW j \in Job, Reschedule(j) PROVE RowIsKept'
  BY <1>17 DEF Reschedule, Step, Account
<1>18. ASSUME NEW j \in Job, Persist(j) PROVE RowIsKept'
  <2>1. job[j] # NoRow
    BY CronAssumption
  <2>2. QED
    BY <1>18, <2>1 DEF Persist, SaveJob, Step
<1>19. ASSUME NEW j \in Job, Forget(j) PROVE RowIsKept'
  BY <1>19 DEF Forget, DeleteJob, Step
<1>20. ASSUME NEW i \in Id, Unregister(i) PROVE RowIsKept'
  BY <1>20 DEF Unregister
<1>21. ASSUME NEW i \in Id, FlushDelete(i) PROVE RowIsKept'
  BY <1>21 DEF FlushDelete, DeleteJob
<1>22. ASSUME NEW k \in executing, ExecutionEnds(k) PROVE RowIsKept'
  BY <1>22 DEF ExecutionEnds
<1>23. CASE Tick
  BY <1>23 DEF Tick
<1>24. CASE Crash
  BY <1>24 DEF Crash, Die
<1>25. CASE Stop
  BY <1>25 DEF Stop, Die
<1>26. CASE Boot
  BY <1>26 DEF Boot
<1>27. CASE UNCHANGED vars
  BY <1>27 DEF vars
<1>28. QED
  BY <1>1, <1>2, <1>3, <1>4, <1>5, <1>6, <1>7, <1>8, <1>9, <1>10, <1>11, <1>12, <1>13, <1>14, <1>15, <1>16, <1>17, <1>18, <1>19, <1>20, <1>21, <1>22, <1>23, <1>24, <1>25, <1>26, <1>27 DEF Next, RunStep

\* Every step uses issued times.
LEMMA Times ==
  ASSUME TypeOK, NewIsUntouched, DueIsReady, TimesAreIssued, [Next]_vars
  PROVE  TimesAreIssued'
<1> USE DEF TypeOK, NewIsUntouched, DueIsReady, TimesAreIssued
<1>1. ASSUME NEW j \in Job, Register(j) PROVE TimesAreIssued'
  <2>1. issued[j] = 0 /\ job[j] \in Columns(j)
    BY <1>1 DEF Register
  <2>2. \A n \in Nat : [job[j] EXCEPT !.next = n].next = n
    BY <2>1 DEF Columns
  <2>3. \A k \in Job : issued[k] <= issued'[k] /\ issued[k] \in Nat /\ issued'[k] \in Nat
    BY <1>1, <2>1 DEF Register
  <2>4. job'[j].next = issued'[j] /\ \A k \in Job \ {j} : job'[k] = job[k]
    BY <1>1, <2>1, <2>2 DEF Register
  <2>5. UNCHANGED <<disk, tasks>>
    BY <1>1 DEF Register
  <2>6. \A k \in Job : job[k].next \in Nat /\ (disk[k] # NoRow => disk[k].next \in Nat)
    BY ColumnsTyped
  <2>7. QED
    BY <2>3, <2>4, <2>5, <2>6
<1>2. ASSUME NEW j \in Job, Trigger(j) PROVE TimesAreIssued'
  BY <1>2 DEF Trigger, SaveJob
<1>3. ASSUME NEW j \in Job, FlushSave(j) PROVE TimesAreIssued'
  BY <1>3 DEF FlushSave, SaveJob
<1>4. ASSUME NEW j \in Job, PassTime(j) PROVE TimesAreIssued'
  BY <1>4 DEF PassTime
<1>5. ASSUME NEW j \in Job, Dedup(j) PROVE TimesAreIssued'
  BY <1>5 DEF Dedup, Step, Succeeded, Key
<1>6. ASSUME NEW j \in Job, Enqueue(j) PROVE TimesAreIssued'
  <2>1. job[j].next \in Nat /\ 1 <= job[j].next /\ job[j].next <= issued[j]
    BY <1>6, ColumnsTyped DEF Enqueue, Step
  <2>2. tasks' = tasks \cup {<<j, job[j].next>>} /\ UNCHANGED <<issued, disk>>
    BY <1>6 DEF Enqueue, Key
  <2>3. \A k \in tasks' : 1 <= k[2] /\ k[2] <= issued'[k[1]]
    BY <2>1, <2>2
  <2>4. \A k \in Job : job'[k].next = job[k].next
    BY <1>6 DEF Enqueue, Succeeded
  <2>5. QED
    BY <2>2, <2>3, <2>4
<1>7. ASSUME NEW j \in Job, Iterate(j) PROVE TimesAreIssued'
  <2>1. job[j].next \in Nat /\ 1 <= job[j].next /\ job[j].next <= issued[j]
    BY <1>7, ColumnsTyped DEF Iterate, Step
  <2>2. tasks' = tasks \cup {<<j, job[j].next>>} /\ UNCHANGED <<issued, disk>>
    BY <1>7 DEF Iterate, Key
  <2>3. \A k \in tasks' : 1 <= k[2] /\ k[2] <= issued'[k[1]]
    BY <2>1, <2>2
  <2>4. \A k \in Job : job'[k].next = job[k].next
    BY <1>7 DEF Iterate, Succeeded
  <2>5. QED
    BY <2>2, <2>3, <2>4
<1>8. ASSUME NEW j \in Job, IterateFails(j) PROVE TimesAreIssued'
  <2>1. job[j].next \in Nat /\ 1 <= job[j].next /\ job[j].next <= issued[j]
    BY <1>8, ColumnsTyped DEF IterateFails, Step
  <2>2. tasks' = tasks \cup {<<j, job[j].next>>} /\ UNCHANGED <<issued, disk>>
    BY <1>8 DEF IterateFails, Key
  <2>3. \A k \in tasks' : 1 <= k[2] /\ k[2] <= issued'[k[1]]
    BY <2>1, <2>2
  <2>4. \A k \in Job : job'[k].next = job[k].next
    BY <1>8 DEF IterateFails, Succeeded
  <2>5. QED
    BY <2>2, <2>3, <2>4
<1>9. ASSUME NEW j \in Job, FireFails(j) PROVE TimesAreIssued'
  BY <1>9 DEF FireFails, Step, HandleRetry
<1>10. ASSUME NEW j \in Job, Awaited(j) PROVE TimesAreIssued'
  BY <1>10 DEF Awaited, Step
<1>11. ASSUME NEW j \in Job, TimeOut(j) PROVE TimesAreIssued'
  BY <1>11 DEF TimeOut, Step
<1>12. ASSUME NEW j \in Job, Announced(j) PROVE TimesAreIssued'
  BY <1>12 DEF Announced, Step, Succeeded
<1>13. ASSUME NEW j \in Job, AnnounceTimesOut(j) PROVE TimesAreIssued'
  BY <1>13 DEF AnnounceTimesOut, Step, HandleRetry
<1>14. ASSUME NEW j \in Job, Retire(j) PROVE TimesAreIssued'
  BY <1>14 DEF Retire, Step
<1>15. ASSUME NEW j \in Job, EndLoop(j) PROVE TimesAreIssued'
  <2>1. issued[j] \in Nat /\ issued' = [issued EXCEPT ![j] = issued[j]] /\ UNCHANGED <<disk, tasks>>
    BY <1>15 DEF EndLoop, Account
  <2>2. \A k \in Job : issued[k] \in Nat /\ issued'[k] \in Nat /\ issued[k] <= issued'[k]
    BY <2>1
  <2>3. \A k \in Job : job[k].next \in Nat /\ (disk[k] # NoRow => disk[k].next \in Nat)
    BY ColumnsTyped
  <2>4. job'[j].next <= issued'[j] /\ \A k \in Job \ {j} : job'[k] = job[k]
    BY <1>15, <2>1, <2>3 DEF EndLoop, Account, Counted, Columns
  <2>5. \A k \in Job : disk'[k] # NoRow => disk'[k].next <= issued'[k]
    BY <2>1, <2>2, <2>3
  <2>6. \A k \in tasks' : 1 <= k[2] /\ k[2] <= issued'[k[1]]
    BY <2>1, <2>2
  <2>7. QED
    BY <2>2, <2>3, <2>4, <2>5, <2>6
<1>16. ASSUME NEW j \in Job, GoDormant(j) PROVE TimesAreIssued'
  BY <1>16 DEF GoDormant, Step, Account
<1>17. ASSUME NEW j \in Job, Reschedule(j) PROVE TimesAreIssued'
  <2>1. issued[j] \in Nat /\ issued' = [issued EXCEPT ![j] = issued[j] + 1] /\ UNCHANGED <<disk, tasks>>
    BY <1>17 DEF Reschedule, Account
  <2>2. \A k \in Job : issued[k] \in Nat /\ issued'[k] \in Nat /\ issued[k] <= issued'[k]
    BY <2>1
  <2>3. \A k \in Job : job[k].next \in Nat /\ (disk[k] # NoRow => disk[k].next \in Nat)
    BY ColumnsTyped
  <2>4. job'[j].next <= issued'[j] /\ \A k \in Job \ {j} : job'[k] = job[k]
    BY <1>17, <2>1, <2>3 DEF Reschedule, Account, Counted, Columns
  <2>5. \A k \in Job : disk'[k] # NoRow => disk'[k].next <= issued'[k]
    BY <2>1, <2>2, <2>3
  <2>6. \A k \in tasks' : 1 <= k[2] /\ k[2] <= issued'[k[1]]
    BY <2>1, <2>2
  <2>7. QED
    BY <2>2, <2>3, <2>4, <2>5, <2>6
<1>18. ASSUME NEW j \in Job, Persist(j) PROVE TimesAreIssued'
  BY <1>18 DEF Persist, SaveJob, Step
<1>19. ASSUME NEW j \in Job, Forget(j) PROVE TimesAreIssued'
  BY <1>19 DEF Forget, DeleteJob, Step
<1>20. ASSUME NEW i \in Id, Unregister(i) PROVE TimesAreIssued'
  BY <1>20 DEF Unregister
<1>21. ASSUME NEW i \in Id, FlushDelete(i) PROVE TimesAreIssued'
  BY <1>21 DEF FlushDelete, DeleteJob
<1>22. ASSUME NEW k \in executing, ExecutionEnds(k) PROVE TimesAreIssued'
  BY <1>22 DEF ExecutionEnds
<1>23. CASE Tick
  BY <1>23 DEF Tick
<1>24. CASE Crash
  BY <1>24 DEF Crash, Die
<1>25. CASE Stop
  BY <1>25 DEF Stop, Die
<1>26. CASE Boot
  BY <1>26 DEF Boot
<1>27. CASE UNCHANGED vars
  BY <1>27 DEF vars
<1>28. QED
  BY <1>1, <1>2, <1>3, <1>4, <1>5, <1>6, <1>7, <1>8, <1>9, <1>10, <1>11, <1>12, <1>13, <1>14, <1>15, <1>16, <1>17, <1>18, <1>19, <1>20, <1>21, <1>22, <1>23, <1>24, <1>25, <1>26, <1>27 DEF Next, RunStep

(***************************************************************************)
(* Counting tasks.                                                         *)
(***************************************************************************)

\* One element more or less.
LEMMA OneElement ==
  ASSUME NEW S, IsFiniteSet(S), NEW e
  PROVE  /\ Cardinality(S) \in Nat /\ Cardinality(S \ {e}) \in Nat
         /\ Cardinality(S) <= Cardinality(S \ {e}) + 1
         /\ Cardinality(S \ {e}) <= Cardinality(S)
<1>1. IsFiniteSet(S \ {e}) /\ Cardinality(S) \in Nat /\ Cardinality(S \ {e}) \in Nat
  BY FS_Subset, FS_CardinalityType
<1>2. CASE e \in S
  <2>1. Cardinality(S \ {e}) = Cardinality(S) - 1
    BY <1>2, FS_RemoveElement
  <2>2. QED
    BY <1>1, <2>1
<1>3. CASE e \notin S
  <2>1. S \ {e} = S
    BY <1>3
  <2>2. QED
    BY <1>1, <2>1
<1>4. QED
  BY <1>2, <1>3

\* The tasks of a registration are finitely many.
LEMMA FewTasks ==
  ASSUME IsFiniteSet(tasks), NEW j
  PROVE  /\ IsFiniteSet(TasksOf(j))
         /\ Cardinality(TasksOf(j)) \in Nat
         /\ \A e : Cardinality(TasksOf(j) \ {e}) \in Nat
<1>1. IsFiniteSet(TasksOf(j))
  BY FS_Subset DEF TasksOf
<1>2. QED
  BY <1>1, OneElement

\* The task of a picked job is the one its object and its row do not count.
LEMMA TaskCounted ==
  ASSUME TypeOK, DownIsQuiet, DueIsReady, RowIsCurrent, TasksAreCounted, TasksWithinCap,
         NEW j \in Job, phase[j] = "due",
         tasks' = tasks \cup {Key(j)}, UNCHANGED disk,
         \A k \in Job : /\ job'[k].next = job[k].next
                        /\ job'[k].count = job[k].count
                        /\ job'[k].enabled = job[k].enabled
  PROVE  TasksAreCounted' /\ TasksWithinCap'
<1>1. IsFiniteSet(tasks')
  BY FS_AddElement DEF TasksAreCounted
<1>2. \A k \in Job \ {j} : TasksOf(k)' = TasksOf(k)
  BY DEF TasksOf, Key
<1>3. TasksOf(j)' = TasksOf(j) \cup {Key(j)}
  BY DEF TasksOf, Key
<1>4. TasksOf(j)' \ {Key(j)} = TasksOf(j) \ {Key(j)}
  BY <1>3
<1>5. up
  BY DEF DownIsQuiet, AtRest
<1>6. disk[j] # NoRow => disk[j].next = job[j].next
  BY <1>5 DEF RowIsCurrent
<1>7. ASSUME NEW k \in Job
      PROVE  /\ CountedBy(k, job[k])'
             /\ disk'[k] # NoRow => CountedBy(k, disk[k])'
  <2>1. CASE k # j
    BY <1>2, <2>1 DEF TasksAreCounted, CountedBy, Cap
  <2>2. CASE k = j
    BY <1>4, <1>6, <2>2 DEF TasksAreCounted, CountedBy, Cap, Key
  <2>3. QED
    BY <2>1, <2>2
<1>8. ASSUME NEW k \in Job, Mode[k] # "event", Cap(k) > 0
      PROVE  Cardinality(TasksOf(k)') <= Cap(k)
  <2>1. CASE k # j
    BY <1>2, <1>8, <2>1 DEF TasksWithinCap
  <2>2. CASE k = j
    <3>1. job[j].enabled /\ job[j].count < Cap(j)
      BY <1>8, <2>2 DEF DueIsReady, TasksAreCounted, CountedBy
    <3>2. Cardinality(TasksOf(j)' \ {Key(j)}) <= job[j].count
      BY <1>4, <1>8, <2>2 DEF TasksAreCounted, CountedBy, Key
    <3>3. IsFiniteSet(TasksOf(j)')
      BY <1>1, FS_Subset DEF TasksOf
    <3>4. /\ Cardinality(TasksOf(j)') <= Cardinality(TasksOf(j)' \ {Key(j)}) + 1
          /\ Cardinality(TasksOf(j)') \in Nat /\ Cardinality(TasksOf(j)' \ {Key(j)}) \in Nat
      BY <3>3, OneElement
    <3>5. job[j].count \in Nat /\ Cap(j) \in Nat
      BY CronAssumption, ColumnsTyped DEF TypeOK, Cap
    <3>6. QED
      BY <2>2, <3>1, <3>2, <3>4, <3>5
  <2>3. QED
    BY <2>1, <2>2
<1>9. TasksAreCounted'
  BY <1>1, <1>7 DEF TasksAreCounted
<1>10. TasksWithinCap'
  BY <1>8 DEF TasksWithinCap, Cap
<1>11. QED
  BY <1>9, <1>10

\* What counts does not depend on the other columns.
LEMMA SameCount ==
  ASSUME NEW j, NEW o, NEW p, CountedBy(j, o), p.next = o.next, p.count = o.count,
         p.enabled => o.enabled
  PROVE  CountedBy(j, p)
BY DEF CountedBy

\* A step without a new task keeps the count when the objects it leaves have
\* counted, and each row is old or written from its object.
LEMMA CountKept ==
  ASSUME TasksAreCounted, TasksWithinCap, UNCHANGED tasks,
         \A k \in Job : CountedBy(k, job'[k]),
         \A k \in Job : disk'[k] \in {NoRow, disk[k], job'[k]}
  PROVE  TasksAreCounted' /\ TasksWithinCap'
<1>1. ASSUME NEW k \in Job, NEW o, CountedBy(k, o)
      PROVE  /\ Mode[k] # "event" => Cardinality(TasksOf(k)' \ {<<k, o.next>>}) <= o.count
             /\ Mode[k] = "once" => o.count = 0
             /\ Cap(k) > 0 /\ o.enabled => o.count < Cap(k)
  <2>1. TasksOf(k)' = TasksOf(k)
    BY DEF TasksOf
  <2>2. QED
    BY <1>1, <2>1 DEF CountedBy
<1>2. \A k \in Job : CountedBy(k, job[k])'
  BY <1>1 DEF CountedBy, Cap
<1>3. \A k \in Job : disk'[k] # NoRow => CountedBy(k, disk'[k])
  BY DEF TasksAreCounted
<1>4. \A k \in Job : disk'[k] # NoRow => CountedBy(k, disk[k])'
  BY <1>1, <1>3 DEF CountedBy, Cap
<1>5. TasksAreCounted'
  BY <1>2, <1>4 DEF TasksAreCounted
<1>6. TasksWithinCap'
  BY DEF TasksWithinCap, TasksOf, Cap
<1>7. QED
  BY <1>5, <1>6


\* Every step keeps the count of tasks.
LEMMA Counting ==
  ASSUME TypeOK, DownIsQuiet, NewIsUntouched, DueIsReady, TimesAreIssued, RowIsCurrent,
         TasksAreCounted, TasksWithinCap, [Next]_vars
  PROVE  TasksAreCounted' /\ TasksWithinCap'
<1>1. ASSUME NEW j \in Job, Register(j) PROVE TasksAreCounted' /\ TasksWithinCap'
  <2>1. UNCHANGED <<tasks, disk>> /\ \A k \in Job \ {j} : job'[k] = job[k]
    BY <1>1 DEF Register, TypeOK
  <2>2. job'[j].count = job[j].count /\ job'[j].enabled = job[j].enabled
    BY <1>1 DEF Register, TypeOK, Columns
  <2>3. TasksOf(j) = {}
    <3>1. issued[j] = 0
      BY <1>1 DEF Register, NewIsUntouched
    <3>2. QED
      BY <3>1 DEF TimesAreIssued, TasksOf, TypeOK
  <2>4. Cardinality(TasksOf(j) \ {<<j, job'[j].next>>}) = 0
    BY <2>3, FS_EmptySet
  <2>5. CountedBy(j, job'[j])
    <3>1. job[j].count \in Nat
      BY ColumnsTyped DEF TypeOK
    <3>2. Cardinality(TasksOf(j) \ {<<j, job'[j].next>>}) <= job'[j].count
      BY <2>2, <2>4, <3>1
    <3>3. CountedBy(j, job[j])
      BY DEF TasksAreCounted
    <3>4. QED
      BY <2>2, <3>2, <3>3 DEF CountedBy
  <2>6. QED
    BY <2>1, <2>5, CountKept DEF TasksAreCounted
<1>2. ASSUME NEW j \in Job, Trigger(j) PROVE TasksAreCounted' /\ TasksWithinCap'
  <2>1. UNCHANGED tasks /\ \A k \in Job : disk'[k] \in {NoRow, disk[k], job'[k]}
    BY <1>2 DEF Trigger, SaveJob, TypeOK
  <2>2. job'[j].count = job[j].count /\ job'[j].enabled = job[j].enabled
    BY <1>2 DEF Trigger, TypeOK, Columns
  <2>3. CountedBy(j, job'[j])
    BY <1>2, <2>2 DEF Trigger, TasksAreCounted, CountedBy
  <2>4. \A k \in Job \ {j} : job'[k] = job[k]
    BY <1>2 DEF Trigger, TypeOK
  <2>5. QED
    BY <2>1, <2>3, <2>4, CountKept DEF TasksAreCounted
<1>3. ASSUME NEW j \in Job, FlushSave(j) PROVE TasksAreCounted' /\ TasksWithinCap'
  <2>1. UNCHANGED <<tasks, job>> /\ \A k \in Job : disk'[k] \in {NoRow, disk[k], job'[k]}
    BY <1>3 DEF FlushSave, SaveJob, TypeOK
  <2>2. QED
    BY <2>1, CountKept DEF TasksAreCounted
<1>4. ASSUME NEW j \in Job, PassTime(j) PROVE TasksAreCounted' /\ TasksWithinCap'
  <2>1. UNCHANGED <<tasks, job>> /\ \A k \in Job : disk'[k] \in {NoRow, disk[k], job'[k]}
    BY <1>4 DEF PassTime, TypeOK
  <2>2. QED
    BY <2>1, CountKept DEF TasksAreCounted
<1>5. ASSUME NEW j \in Job, Dedup(j) PROVE TasksAreCounted' /\ TasksWithinCap'
  <2>1. UNCHANGED <<tasks, disk>>
    BY <1>5 DEF Dedup
  <2>2. \A k \in Job : /\ job'[k].next = job[k].next
                       /\ job'[k].count = job[k].count
                       /\ job'[k].enabled => job[k].enabled
    BY <1>5 DEF Dedup, Succeeded, TypeOK, Columns
  <2>3. \A k \in Job : CountedBy(k, job'[k])
    BY <2>2, SameCount DEF TasksAreCounted
  <2>4. QED
    BY <2>1, <2>3, CountKept
<1>6. ASSUME NEW j \in Job, Enqueue(j) PROVE TasksAreCounted' /\ TasksWithinCap'
  <2>1. phase[j] = "due" /\ tasks' = tasks \cup {Key(j)} /\ UNCHANGED disk
    BY <1>6 DEF Enqueue, Step
  <2>2. \A k \in Job : /\ job'[k].next = job[k].next
                       /\ job'[k].count = job[k].count
                       /\ job'[k].enabled = job[k].enabled
    BY <1>6 DEF Enqueue, Succeeded, TypeOK, Columns
  <2>3. QED
    BY <2>1, <2>2, TaskCounted
<1>7. ASSUME NEW j \in Job, Iterate(j) PROVE TasksAreCounted' /\ TasksWithinCap'
  <2>1. phase[j] = "due" /\ tasks' = tasks \cup {Key(j)} /\ UNCHANGED disk
    BY <1>7 DEF Iterate, Step
  <2>2. \A k \in Job : /\ job'[k].next = job[k].next
                       /\ job'[k].count = job[k].count
                       /\ job'[k].enabled = job[k].enabled
    BY <1>7 DEF Iterate, Succeeded, TypeOK, Columns
  <2>3. QED
    BY <2>1, <2>2, TaskCounted
<1>8. ASSUME NEW j \in Job, IterateFails(j) PROVE TasksAreCounted' /\ TasksWithinCap'
  <2>1. phase[j] = "due" /\ tasks' = tasks \cup {Key(j)} /\ UNCHANGED disk
    BY <1>8 DEF IterateFails, Step
  <2>2. \A k \in Job : /\ job'[k].next = job[k].next
                       /\ job'[k].count = job[k].count
                       /\ job'[k].enabled = job[k].enabled
    BY <1>8 DEF IterateFails, Succeeded, TypeOK, Columns
  <2>3. QED
    BY <2>1, <2>2, TaskCounted
<1>9. ASSUME NEW j \in Job, FireFails(j) PROVE TasksAreCounted' /\ TasksWithinCap'
  <2>1. UNCHANGED <<tasks, disk>>
    BY <1>9 DEF FireFails
  <2>2. \A k \in Job : /\ job'[k].next = job[k].next
                       /\ job'[k].count = job[k].count
                       /\ job'[k].enabled => job[k].enabled
    BY <1>9 DEF FireFails, HandleRetry, TypeOK, Columns
  <2>3. \A k \in Job : CountedBy(k, job'[k])
    BY <2>2, SameCount DEF TasksAreCounted
  <2>4. QED
    BY <2>1, <2>3, CountKept
<1>10. ASSUME NEW j \in Job, Awaited(j) PROVE TasksAreCounted' /\ TasksWithinCap'
  <2>1. UNCHANGED <<tasks, job>> /\ \A k \in Job : disk'[k] \in {NoRow, disk[k], job'[k]}
    BY <1>10 DEF Awaited, TypeOK
  <2>2. QED
    BY <2>1, CountKept DEF TasksAreCounted
<1>11. ASSUME NEW j \in Job, TimeOut(j) PROVE TasksAreCounted' /\ TasksWithinCap'
  <2>1. UNCHANGED <<tasks, job>> /\ \A k \in Job : disk'[k] \in {NoRow, disk[k], job'[k]}
    BY <1>11 DEF TimeOut, TypeOK
  <2>2. QED
    BY <2>1, CountKept DEF TasksAreCounted
<1>12. ASSUME NEW j \in Job, Announced(j) PROVE TasksAreCounted' /\ TasksWithinCap'
  <2>1. UNCHANGED <<tasks, disk>>
    BY <1>12 DEF Announced
  <2>2. \A k \in Job : /\ job'[k].next = job[k].next
                       /\ job'[k].count = job[k].count
                       /\ job'[k].enabled => job[k].enabled
    BY <1>12 DEF Announced, Succeeded, TypeOK, Columns
  <2>3. \A k \in Job : CountedBy(k, job'[k])
    BY <2>2, SameCount DEF TasksAreCounted
  <2>4. QED
    BY <2>1, <2>3, CountKept
<1>13. ASSUME NEW j \in Job, AnnounceTimesOut(j) PROVE TasksAreCounted' /\ TasksWithinCap'
  <2>1. UNCHANGED <<tasks, disk>>
    BY <1>13 DEF AnnounceTimesOut
  <2>2. \A k \in Job : /\ job'[k].next = job[k].next
                       /\ job'[k].count = job[k].count
                       /\ job'[k].enabled => job[k].enabled
    BY <1>13 DEF AnnounceTimesOut, HandleRetry, TypeOK, Columns
  <2>3. \A k \in Job : CountedBy(k, job'[k])
    BY <2>2, SameCount DEF TasksAreCounted
  <2>4. QED
    BY <2>1, <2>3, CountKept
<1>14. ASSUME NEW j \in Job, Retire(j) PROVE TasksAreCounted' /\ TasksWithinCap'
  <2>1. UNCHANGED <<tasks, job>> /\ \A k \in Job : disk'[k] \in {NoRow, disk[k], job'[k]}
    BY <1>14 DEF Retire, TypeOK
  <2>2. QED
    BY <2>1, CountKept DEF TasksAreCounted
<1>15. ASSUME NEW j \in Job, EndLoop(j) PROVE TasksAreCounted' /\ TasksWithinCap'
  <2>1. UNCHANGED <<tasks, disk>> /\ \A k \in Job \ {j} : job'[k] = job[k]
    BY <1>15 DEF EndLoop, Account, TypeOK
  <2>2. job[j].count \in Nat /\ issued[j] \in Nat /\ Cap(j) \in Nat
    BY CronAssumption, ColumnsTyped DEF TypeOK, Cap
  <2>3. CountedBy(j, job'[j])
    <3>1. /\ job'[j].count = job[j].count + 1 /\ job'[j].next = job[j].next
          /\ ~job'[j].enabled /\ Mode[j] # "once"
      BY <1>15 DEF EndLoop, Account, Counted, TypeOK, Columns
    <3>2. IsFiniteSet(tasks) /\ CountedBy(j, job[j])
      BY DEF TasksAreCounted
    <3>3. /\ Cardinality(TasksOf(j)) \in Nat
          /\ Cardinality(TasksOf(j) \ {<<j, job[j].next>>}) \in Nat
      BY <3>2, FewTasks
    <3>4. Mode[j] # "event" => Cardinality(TasksOf(j) \ {<<j, job[j].next>>}) <= job[j].count
      BY <3>2 DEF CountedBy
    <3>5. Mode[j] # "event" => Cardinality(TasksOf(j) \ {<<j, job'[j].next>>}) <= job'[j].count
      BY <2>2, <3>1, <3>3, <3>4
    <3>6. QED
      BY <3>1, <3>5 DEF CountedBy
  <2>4. QED
    BY <2>1, <2>3, CountKept DEF TasksAreCounted
<1>16. ASSUME NEW j \in Job, GoDormant(j) PROVE TasksAreCounted' /\ TasksWithinCap'
  <2>1. UNCHANGED <<tasks, disk>> /\ \A k \in Job \ {j} : job'[k] = job[k]
    BY <1>16 DEF GoDormant, Account, TypeOK
  <2>2. job[j].count \in Nat /\ issued[j] \in Nat /\ Cap(j) \in Nat
    BY CronAssumption, ColumnsTyped DEF TypeOK, Cap
  <2>3. CountedBy(j, job'[j])
    <3>1. /\ job'[j].count = job[j].count + 1 /\ Mode[j] = "event"
          /\ job'[j].enabled = job[j].enabled
      BY <1>16 DEF GoDormant, Account, Counted, TypeOK, Columns
    <3>2. Cap(j) > 0 => job[j].count + 1 < Cap(j)
      BY <1>16, <2>2, <3>1 DEF GoDormant, CapReached, Cap
    <3>3. QED
      BY <3>1, <3>2 DEF CountedBy
  <2>4. QED
    BY <2>1, <2>3, CountKept DEF TasksAreCounted
<1>17. ASSUME NEW j \in Job, Reschedule(j) PROVE TasksAreCounted' /\ TasksWithinCap'
  <2>1. UNCHANGED <<tasks, disk>> /\ \A k \in Job \ {j} : job'[k] = job[k]
    BY <1>17 DEF Reschedule, Account, TypeOK
  <2>2. job[j].count \in Nat /\ issued[j] \in Nat /\ Cap(j) \in Nat
    BY CronAssumption, ColumnsTyped DEF TypeOK, Cap
  <2>3. CountedBy(j, job'[j])
    <3>1. /\ job'[j].count = job[j].count + 1 /\ job'[j].next = issued[j] + 1
          /\ job'[j].enabled = job[j].enabled /\ Mode[j] \notin {"once", "event"}
      BY <1>17, <2>2 DEF Reschedule, Account, Counted, TypeOK, Columns
    <3>2. IsFiniteSet(tasks) /\ CountedBy(j, job[j])
      BY DEF TasksAreCounted
    <3>3. /\ Cardinality(TasksOf(j)) \in Nat
          /\ Cardinality(TasksOf(j) \ {<<j, job[j].next>>}) \in Nat
      BY <3>2, FewTasks
    <3>4. TasksOf(j) \ {<<j, issued[j] + 1>>} = TasksOf(j)
      BY <2>2 DEF TasksOf, TimesAreIssued
    <3>5. Cardinality(TasksOf(j)) <= Cardinality(TasksOf(j) \ {<<j, job[j].next>>}) + 1
      BY <3>2, FewTasks, OneElement
    <3>6. Cap(j) > 0 => job[j].count + 1 < Cap(j)
      BY <1>17, <2>2, <3>1 DEF Reschedule, CapReached, Cap
    <3>7. Cardinality(TasksOf(j) \ {<<j, job[j].next>>}) <= job[j].count
      BY <3>1, <3>2 DEF CountedBy
    <3>8. Cardinality(TasksOf(j)) <= job[j].count + 1
      BY <2>2, <3>3, <3>5, <3>7
    <3>9. QED
      BY <3>1, <3>4, <3>6, <3>8 DEF CountedBy
  <2>4. QED
    BY <2>1, <2>3, CountKept DEF TasksAreCounted
<1>18. ASSUME NEW j \in Job, Persist(j) PROVE TasksAreCounted' /\ TasksWithinCap'
  <2>1. UNCHANGED <<tasks, job>> /\ \A k \in Job : disk'[k] \in {NoRow, disk[k], job'[k]}
    BY <1>18 DEF Persist, SaveJob, TypeOK
  <2>2. QED
    BY <2>1, CountKept DEF TasksAreCounted
<1>19. ASSUME NEW j \in Job, Forget(j) PROVE TasksAreCounted' /\ TasksWithinCap'
  <2>1. UNCHANGED <<tasks, job>> /\ \A k \in Job : disk'[k] \in {NoRow, disk[k], job'[k]}
    BY <1>19 DEF Forget, DeleteJob, TypeOK
  <2>2. QED
    BY <2>1, CountKept DEF TasksAreCounted
<1>20. ASSUME NEW i \in Id, Unregister(i) PROVE TasksAreCounted' /\ TasksWithinCap'
  <2>1. UNCHANGED <<tasks, job>> /\ \A k \in Job : disk'[k] \in {NoRow, disk[k], job'[k]}
    BY <1>20 DEF Unregister, TypeOK
  <2>2. QED
    BY <2>1, CountKept DEF TasksAreCounted
<1>21. ASSUME NEW i \in Id, FlushDelete(i) PROVE TasksAreCounted' /\ TasksWithinCap'
  <2>1. UNCHANGED <<tasks, job>> /\ \A k \in Job : disk'[k] \in {NoRow, disk[k], job'[k]}
    BY <1>21 DEF FlushDelete, DeleteJob, TypeOK
  <2>2. QED
    BY <2>1, CountKept DEF TasksAreCounted
<1>22. ASSUME NEW e \in executing, ExecutionEnds(e) PROVE TasksAreCounted' /\ TasksWithinCap'
  <2>1. UNCHANGED <<tasks, job>> /\ \A k \in Job : disk'[k] \in {NoRow, disk[k], job'[k]}
    BY <1>22 DEF ExecutionEnds, TypeOK
  <2>2. QED
    BY <2>1, CountKept DEF TasksAreCounted
<1>23. CASE Tick
  <2>1. UNCHANGED <<tasks, job>> /\ \A k \in Job : disk'[k] \in {NoRow, disk[k], job'[k]}
    BY <1>23 DEF Tick, TypeOK
  <2>2. QED
    BY <2>1, CountKept DEF TasksAreCounted
<1>24. CASE Crash
  <2>1. UNCHANGED <<tasks, job>> /\ \A k \in Job : disk'[k] \in {NoRow, disk[k], job'[k]}
    BY <1>24 DEF Crash, Die, TypeOK
  <2>2. QED
    BY <2>1, CountKept DEF TasksAreCounted
<1>25. CASE Stop
  <2>1. UNCHANGED <<tasks, job>> /\ \A k \in Job : disk'[k] \in {NoRow, disk[k], job'[k]}
    BY <1>25 DEF Stop, Die, TypeOK
  <2>2. QED
    BY <2>1, CountKept DEF TasksAreCounted
<1>26. CASE Boot
  <2>1. UNCHANGED <<tasks, disk>> /\ \A k \in Job : CountedBy(k, job'[k])
    BY <1>26 DEF Boot, TasksAreCounted
  <2>2. QED
    BY <2>1, CountKept
<1>27. CASE UNCHANGED vars
  <2>1. UNCHANGED <<tasks, job>> /\ \A k \in Job : disk'[k] \in {NoRow, disk[k], job'[k]}
    BY <1>27 DEF vars, TypeOK
  <2>2. QED
    BY <2>1, CountKept DEF TasksAreCounted
<1>28. QED
  BY <1>1, <1>2, <1>3, <1>4, <1>5, <1>6, <1>7, <1>8, <1>9, <1>10, <1>11, <1>12, <1>13, <1>14, <1>15, <1>16, <1>17, <1>18, <1>19, <1>20, <1>21, <1>22, <1>23, <1>24, <1>25, <1>26, <1>27 DEF Next, RunStep

(***************************************************************************)
(* The theorems.                                                           *)
(***************************************************************************)

\* Nothing is registered at first.
LEMMA Initially == Init => IInv
<1> SUFFICES ASSUME Init PROVE IInv
  OBVIOUS
<1>1. TypeOK
  <2>1. \A j \in Job : job[j] \in Columns(j)
    BY CronAssumption DEF Init, CronJob, Columns
  <2>2. QED
    BY <2>1 DEF Init, TypeOK, Phase
<1>2. tasks = {} /\ \A j : TasksOf(j) = {}
  BY DEF Init, TasksOf
<1>3. \A j, e : Cardinality(TasksOf(j)) = 0 /\ Cardinality(TasksOf(j) \ {e}) = 0
  <2>1. \A j, e : TasksOf(j) \ {e} = {}
    BY <1>2
  <2>2. QED
    BY <1>2, <2>1, FS_EmptySet
<1>4. TasksAreCounted /\ TasksWithinCap
  <2>1. IsFiniteSet(tasks)
    BY <1>2, FS_EmptySet
  <2>2. ASSUME NEW j \in Job PROVE CountedBy(j, job[j]) /\ disk[j] = NoRow
    <3>1. job[j].count = 0 /\ disk[j] = NoRow
      BY DEF Init, CronJob
    <3>2. Cardinality(TasksOf(j) \ {<<j, job[j].next>>}) = 0
      BY <1>3, Zenon
    <3>3. Cap(j) > 0 => job[j].count < Cap(j)
      BY <3>1
    <3>4. QED
      BY <3>1, <3>2, <3>3 DEF CountedBy
  <2>3. ASSUME NEW j \in Job, Cap(j) > 0 PROVE Cardinality(TasksOf(j)) <= Cap(j)
    BY <1>3, <2>3, CronAssumption DEF Cap
  <2>4. QED
    BY <2>1, <2>2, <2>3 DEF TasksAreCounted, TasksWithinCap
<1>5. OneRowPerId /\ DownIsQuiet /\ NewIsUntouched /\ DueIsReady
  BY DEF Init, OneRowPerId, DownIsQuiet, NewIsUntouched, DueIsReady
<1>6. TimesAreIssued /\ RowIsCurrent /\ RowIsKept
  BY DEF Init, CronJob, TimesAreIssued, RowIsCurrent, RowIsKept
<1>7. QED
  BY <1>1, <1>4, <1>5, <1>6 DEF IInv

\* The invariant holds in every reachable state.
THEOREM Inductive == Spec => []IInv
<1>1. Init => IInv
  BY Initially
<1>2. IInv /\ [Next]_vars => IInv'
  <2> SUFFICES ASSUME IInv, [Next]_vars PROVE IInv'
    OBVIOUS
  <2> USE DEF IInv
  <2>1. TypeOK'
    BY Typed
  <2>2. OneRowPerId' /\ DownIsQuiet' /\ NewIsUntouched' /\ DueIsReady'
    BY RowsByKey, Quiet, Untouched, Ready
  <2>3. TimesAreIssued' /\ RowIsCurrent' /\ RowIsKept'
    BY <2>1, Times, RowsCurrent, RowsKept
  <2>4. TasksAreCounted' /\ TasksWithinCap'
    BY Counting
  <2>5. QED
    BY <2>1, <2>2, <2>3, <2>4
<1>3. QED
  BY <1>1, <1>2, PTL DEF Spec

\* Objects and rows stay in range; retry_count never passes max_retries.
THEOREM TypeCorrect == Spec => []TypeOK
<1>1. IInv => TypeOK
  BY DEF IInv
<1>2. QED
  BY <1>1, Inductive, PTL

\* max_iterations, and one firing of a one-shot job, are never exceeded by the
\* tasks a registration creates, through any number of crashes.
THEOREM CapsHold == Spec => []TasksWithinCap
<1>1. IInv => TasksWithinCap
  BY DEF IInv
<1>2. QED
  BY <1>1, Inductive, PTL

\* Whatever _save_job, trigger_event and the end of a run write, a registered
\* job of an id of its own is on disk with its time and count.
THEOREM OnDisk == Spec => []RegisteredIsOnDisk
<1>1. IInv => RegisteredIsOnDisk
  <2> SUFFICES ASSUME IInv, NEW j \in memory, OnlyOfItsId(j), j \notin saves,
                      phase[j] # "saving"
               PROVE  /\ disk[j] # NoRow /\ disk[j].next = job[j].next
                      /\ disk[j].count = job[j].count
    BY DEF RegisteredIsOnDisk
  <2>1. j \in Job /\ up
    BY DEF IInv, TypeOK, DownIsQuiet
  <2>2. disk[j] # NoRow
    BY DEF IInv, RowIsKept
  <2>3. QED
    BY <2>1, <2>2 DEF IInv, RowIsCurrent
<1>2. QED
  BY <1>1, Inductive, PTL
=============================================================================
