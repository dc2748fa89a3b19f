--------------------------- MODULE PreemptionProofs ---------------------------
(***************************************************************************)
(* Preemption and what it must not break.  Mutual exclusion, the single    *)
(* compaction and the safety of reads beside it are proved for every       *)
(* number of workers, coroutines, versions and table files; each invariant *)
(* is inductive together with the ones before it.  The last part is about  *)
(* the probes at which a job is preempted: their spacing in a loop.        *)
(***************************************************************************)
EXTENDS Preemption, ProbedLoop, FiniteSetTheorems, TLAPS

--------------------------------------------------------------------------------
(* Mutual exclusion.                                                       *)

LockTypeOK ==
  /\ pc \in [Coros -> {"idle", "lock", "crit", "sched", "enq", "leave", "done"}]
  /\ owner \in [Mutexes -> Workers \cup {Free, Background}]

LockInv == LockTypeOK /\ Exclusion

LEMMA Threads ==
  /\ \A c \in Coros : Thread(c) \in Workers /\ Thread(c) # Free /\ Thread(c) # Background
  /\ Free # Background
BY PreemptionAssumption DEF PreemptionAssumption, Thread

LEMMA LockInit == Init => LockInv
BY DEF Init, LockInv, LockTypeOK, Exclusion, Holds, BgHolds, Mutexes

(* What a coroutine, and the background thread, do to the mutexes.         *)
LEMMA CoroLocks ==
  ASSUME LockInv, NEW c \in Coros, CoroStep(c)
  PROVE  LockInv'
<1> USE Threads DEF LockInv, LockTypeOK, Mutexes
<1>1. CASE LockDb(c)
  BY <1>1 DEF LockDb, Lock, LockFree, Acquire, Goto, dbVars, bgVars, Exclusion, Holds, BgHolds
<1>2. CASE LockWork(c)
  BY <1>2 DEF LockWork, Lock, LockFree, Acquire, Goto, dbVars, bgVars, Exclusion, Holds, BgHolds
<1>3. CASE RefCurrent(c)
  BY <1>3 DEF RefCurrent, Release, Goto, bgVars, Exclusion, Holds, BgHolds
<1>4. ASSUME EndSection(c), pc[c] \in {"crit", "leave"}, bg' = bg PROVE LockInv'
  BY <1>4 DEF EndSection, Release, Goto, Exclusion, Holds, BgHolds
<1>5. CASE Stats(c)
  <2>1. CASE EndSection(c)
    BY <1>4, <1>5, <2>1 DEF Stats, bgVars
  <2>2. CASE Goto(c, "sched") /\ UNCHANGED owner
    BY <1>5, <2>2 DEF Stats, bgVars, Goto, Exclusion, Holds, BgHolds
  <2> QED BY <1>5, <2>1, <2>2 DEF Stats
<1>6. CASE Schedule(c)
  BY <1>6 DEF Schedule, Release, Goto, bgVars, Exclusion, Holds, BgHolds
<1>7. CASE Leave(c)
  BY <1>4, <1>7 DEF Leave, bgVars
<1>8. CASE Finish(c)
  BY <1>8 DEF Finish, Goto, dbVars, bgVars, Exclusion, Holds, BgHolds
<1> QED BY <1>1, <1>2, <1>3, <1>5, <1>6, <1>7, <1>8 DEF CoroStep

(* The background thread leaves the coroutines alone.                      *)
LEMMA BgFrame == BgStep => UNCHANGED <<loopVars, coroVars>>
BY Zenon DEF BgStep, BgAt, BgWait, BgPop, BgCall, BgPick, BgOpen, BgInstall, BgFail, BgApply,
       BgDelete, BgRelock, BgFinish, BgSchedule

LEMMA BgLocks ==
  ASSUME LockInv, BgStep
  PROVE  LockInv'
<1> USE Threads DEF LockInv, LockTypeOK, Mutexes, BgAt, coroVars
<1>1. CASE BgWait BY <1>1 DEF BgWait, BgLock, Exclusion, Holds, BgHolds
<1>2. CASE BgPop BY <1>2 DEF BgPop, Release, Exclusion, Holds, BgHolds
<1>3. CASE BgCall BY <1>3 DEF BgCall, BgLock, Exclusion, Holds, BgHolds
<1>4. CASE BgPick BY <1>4 DEF BgPick, Release, Exclusion, Holds, BgHolds
<1>5. CASE BgOpen BY <1>5 DEF BgOpen, Exclusion, Holds, BgHolds
<1>6. CASE BgInstall BY <1>6 DEF BgInstall, Exclusion, Holds, BgHolds
<1>7. CASE BgFail BY <1>7 DEF BgFail, BgLock, Exclusion, Holds, BgHolds
<1>8. CASE BgApply BY <1>8 DEF BgApply, BgLock, Exclusion, Holds, BgHolds
<1>9. CASE BgDelete BY <1>9 DEF BgDelete, Exclusion, Holds, BgHolds
<1>10. CASE BgRelock BY <1>10 DEF BgRelock, BgLock, Exclusion, Holds, BgHolds
<1>11. CASE BgFinish BY <1>11, Zenon DEF BgFinish, Release, Exclusion, Holds, BgHolds
<1>12. CASE BgSchedule BY <1>12 DEF BgSchedule, Release, Exclusion, Holds, BgHolds
<1> QED BY <1>1, <1>2, <1>3, <1>4, <1>5, <1>6, <1>7, <1>8, <1>9, <1>10, <1>11,
           <1>12 DEF BgStep

LEMMA LockStep == LockInv /\ [Next]_vars => LockInv'
<1> SUFFICES ASSUME LockInv, [Next]_vars PROVE LockInv' OBVIOUS
<1>1. CASE UNCHANGED vars
  BY <1>1 DEF vars, coroVars, dbVars, bgVars, LockInv, LockTypeOK, Exclusion, Holds, BgHolds
<1>2. CASE BgStep BY <1>2, BgLocks
<1>3. ASSUME NEW w \in Workers, Resume(w) PROVE LockInv'
  BY <1>3 DEF Resume, coroVars, dbVars, bgVars, LockInv, LockTypeOK, Exclusion, Holds, BgHolds
<1>4. ASSUME NEW w \in Workers, Poll(w) PROVE LockInv'
  <2>1. /\ pc' \in [Coros -> {"idle", "lock", "crit", "sched", "enq", "leave", "done"}]
        /\ \A c \in Coros : pc'[c] = pc[c] \/ (pc[c] = "idle" /\ pc'[c] = "lock")
    BY <1>4 DEF Poll, Idle, LockInv, LockTypeOK
  <2> QED BY <1>4, <2>1 DEF Poll, dbVars, bgVars, LockInv, LockTypeOK, Exclusion, Holds, BgHolds
<1> QED BY <1>1, <1>2, <1>3, <1>4, CoroLocks DEF Next, WorkerStep

(* Whatever the threads do, a coroutine is alone in a critical section,    *)
(* suspended or not: what __wrap_pthread_mutex_lock has to guarantee.      *)
THEOREM MutualExclusion == Spec => []Exclusion
<1>1. LockInv => Exclusion BY DEF LockInv
<1> QED BY LockInit, LockStep, <1>1, PTL DEF Spec

--------------------------------------------------------------------------------
(* The compaction.                                                         *)

Compacting == bg \in {"merge", "move", "manifest"}
Scheduling == {c \in Coros : pc[c] \in {"sched", "enq"}}

PhaseTypeOK ==
  /\ current \in Versions /\ queue \in Nat
  /\ needs \in BOOLEAN /\ scheduled \in BOOLEAN /\ bg_error \in BOOLEAN
  /\ bg \in {"wait", "pop", "call", "pick", "merge", "move", "manifest",
             "delete", "relock", "finish", "sched"}

(* A version number is left for the compaction that is due or under way;   *)
(* the compaction works on the current version, which nothing else changes.*)
PhaseInv ==
  /\ PhaseTypeOK
  /\ needs \/ bg = "pick" \/ Compacting => current < MaxVersion
  /\ input_version = IF Compacting THEN current ELSE NoVersion
  /\ bg = "pop" => queue > 0

(* Only the background thread moves from one phase to another.             *)
LEMMA PhaseInit == Init => PhaseInv
<1> SUFFICES ASSUME Init PROVE PhaseInv OBVIOUS
<1>1. current \in Versions /\ queue \in Nat
  BY PreemptionAssumption DEF Init, Versions, PreemptionAssumption
<1>2. /\ needs \in BOOLEAN /\ scheduled \in BOOLEAN /\ bg_error \in BOOLEAN
      /\ bg = "wait" /\ input_version = NoVersion
  BY Zenon DEF Init
<1>3. needs => current < MaxVersion BY DEF Init
<1> QED BY <1>1, <1>2, <1>3 DEF PhaseInv, PhaseTypeOK, Compacting

LEMMA CoroPhase ==
  ASSUME PhaseInv, NEW c \in Coros, CoroStep(c)
  PROVE  PhaseInv'
<1> USE DEF PhaseInv, PhaseTypeOK, Compacting
<1>1. CASE LockDb(c) BY <1>1 DEF LockDb, Lock, dbVars, versionVars, bgVars
<1>2. CASE LockWork(c) BY <1>2 DEF LockWork, Lock, dbVars, versionVars, bgVars
<1>3. CASE RefCurrent(c) BY <1>3 DEF RefCurrent, bgVars
<1>4. CASE Stats(c)
  <2>1. CASE EndSection(c) /\ UNCHANGED needs
    BY <1>4, <2>1 DEF Stats, EndSection, bgVars
  <2>2. CASE \E v \in Counted(c) : /\ current < MaxVersion
                                  /\ needs' = (needs \/ v = current)
                                  /\ scheduled' \in {scheduled, TRUE}
    BY <1>4, <2>2, Zenon DEF Stats, bgVars
  <2> QED BY <1>4, <2>1, <2>2, Zenon DEF Stats, EndSection
<1>5. CASE Schedule(c) BY <1>5 DEF Schedule, versionVars, bgVars
<1>6. CASE Leave(c) BY <1>6 DEF Leave, EndSection, bgVars
<1>7. CASE Finish(c) BY <1>7 DEF Finish, dbVars, versionVars, bgVars
<1> QED BY <1>1, <1>2, <1>3, <1>4, <1>5, <1>6, <1>7 DEF CoroStep

LEMMA BgPhase ==
  ASSUME PhaseInv, BgStep
  PROVE  PhaseInv'
<1> USE DEF PhaseInv, PhaseTypeOK, Compacting, versionVars, BgAt
<1>1. CASE BgWait BY <1>1 DEF BgWait
<1>2. CASE BgPop BY <1>2 DEF BgPop
<1>3. CASE BgCall BY <1>3 DEF BgCall
<1>4. CASE BgPick BY <1>4 DEF BgPick
<1>5. CASE BgOpen BY <1>5 DEF BgOpen
<1>6. CASE BgInstall BY <1>6 DEF BgInstall
<1>7. CASE BgFail BY <1>7 DEF BgFail
<1>8. CASE BgApply
  <2>1. current' \in Versions
    BY <1>8, PreemptionAssumption DEF BgApply, Versions, PreemptionAssumption
  <2> QED BY <1>8, <2>1 DEF BgApply
<1>9. CASE BgDelete BY <1>9 DEF BgDelete
<1>10. CASE BgRelock BY <1>10 DEF BgRelock
<1>11. CASE BgFinish BY <1>11, Zenon DEF BgFinish
<1>12. CASE BgSchedule BY <1>12 DEF BgSchedule
<1> QED BY <1>1, <1>2, <1>3, <1>4, <1>5, <1>6, <1>7, <1>8, <1>9, <1>10, <1>11,
           <1>12 DEF BgStep

LEMMA PhaseStep == PhaseInv /\ [Next]_vars => PhaseInv'
<1> SUFFICES ASSUME PhaseInv, [Next]_vars PROVE PhaseInv' OBVIOUS
<1>1. CASE UNCHANGED dbVars
  BY <1>1 DEF dbVars, versionVars, bgVars, PhaseInv, PhaseTypeOK, Compacting
<1>2. CASE BgStep BY <1>2, BgPhase
<1> QED BY <1>1, <1>2, CoroPhase DEF Next, WorkerStep, Resume, Poll, vars

LEMMA SchedulingFinite ==
  /\ IsFiniteSet(Scheduling) /\ Cardinality(Scheduling) \in Nat
  /\ Cardinality(Scheduling) = 0 <=> Scheduling = {}
<1>1. Scheduling \in SUBSET Coros BY DEF Scheduling
<1>2. IsFiniteSet(Scheduling)
  BY <1>1, FS_Subset, PreemptionAssumption DEF PreemptionAssumption
<1> QED BY <1>2, FS_CardinalityType, FS_EmptySet

LEMMA CompactionInit == Init => OneCompaction
<1> SUFFICES ASSUME Init PROVE OneCompaction OBVIOUS
<1>1. Scheduling = {} BY DEF Init, Scheduling
<1>2. Cardinality(Scheduling) = 0 BY <1>1, FS_EmptySet
<1>3. bg = "wait" /\ scheduled = needs BY Zenon DEF Init
<1>4. queue = IF needs THEN 1 ELSE 0 BY Zenon DEF Init
<1>5. queue = IF scheduled THEN 1 ELSE 0 BY <1>3, <1>4, Zenon
<1>6. queue \in Int BY <1>4
<1> QED BY <1>2, <1>3, <1>5, <1>6 DEF OneCompaction, Scheduling

(* A step that schedules nothing and takes nothing from the queue.         *)
LEMMA CompactionStays ==
  ASSUME OneCompaction, Scheduling' = Scheduling, UNCHANGED <<queue, scheduled>>,
         bg' \in {"wait", "pop"} <=> bg \in {"wait", "pop"}
  PROVE  OneCompaction'
BY DEF OneCompaction, Scheduling

LEMMA CompactionStep ==
  LockInv /\ PhaseInv /\ OneCompaction /\ [Next]_vars => OneCompaction'
<1> SUFFICES ASSUME LockInv, PhaseInv, OneCompaction, [Next]_vars PROVE OneCompaction'
  OBVIOUS
<1> DEFINE Running == IF bg \in {"wait", "pop"} THEN 0 ELSE 1
           Flag == IF scheduled THEN 1 ELSE 0
<1>0. /\ Cardinality(Scheduling) + queue + Running = Flag
      /\ Cardinality(Scheduling)' + queue' + Running' = Flag' => OneCompaction'
  BY DEF OneCompaction, Scheduling
<1>a. /\ Cardinality(Scheduling) \in Nat /\ queue \in Nat
      /\ Cardinality(Scheduling) = 0 <=> Scheduling = {}
      /\ scheduled \in BOOLEAN
  BY SchedulingFinite DEF PhaseInv, PhaseTypeOK
<1>1. CASE UNCHANGED <<pc, dbVars>>
  BY <1>1, CompactionStays DEF Scheduling, dbVars, bgVars
<1>2. ASSUME NEW w \in Workers, Poll(w) PROVE OneCompaction'
  <2>1. Scheduling' = Scheduling
    BY <1>2 DEF Scheduling, Poll, Idle
  <2> QED BY <1>2, <2>1, CompactionStays DEF Poll, dbVars, bgVars
<1>3. ASSUME NEW c \in Coros, pc[c] \notin {"sched", "enq"}, UNCHANGED <<queue, scheduled, bg>>,
             \E l : l \notin {"sched", "enq"} /\ Goto(c, l)
      PROVE  OneCompaction'
  <2>1. Scheduling' = Scheduling
    BY <1>3 DEF Scheduling, Goto, LockInv, LockTypeOK
  <2> QED BY <1>3, <2>1, CompactionStays
<1>4. ASSUME NEW c \in Coros, CoroStep(c) PROVE OneCompaction'
  <2>1. CASE LockDb(c)
    BY <1>1, <1>3, <2>1 DEF LockDb, Lock, dbVars, bgVars
  <2>2. CASE LockWork(c)
    <3>1. Scheduling' = Scheduling
      BY <2>2 DEF Scheduling, LockWork, Lock, Goto, LockInv, LockTypeOK
    <3> QED BY <2>2, <3>1, CompactionStays DEF LockWork, Lock, dbVars, bgVars
  <2>3. CASE RefCurrent(c) BY <1>3, <2>3 DEF RefCurrent, bgVars
  <2>4. CASE Stats(c)
    <3>1. CASE EndSection(c) BY <1>3, <2>4, <3>1 DEF Stats, EndSection, bgVars
    <3>2. CASE ~scheduled /\ scheduled' /\ Goto(c, "sched")
      <4>1. Scheduling = {} /\ queue = 0 /\ Running = 0 BY <1>0, <1>a, <3>2
      <4>2. Scheduling' = {c}
        BY <3>2, <4>1 DEF Scheduling, Goto, LockInv, LockTypeOK
      <4>3. queue' = queue /\ Running' = Running BY <2>4 DEF Stats, bgVars
      <4> QED BY <1>0, <3>2, <4>1, <4>2, <4>3, FS_Singleton
    <3> QED BY <2>4, <3>1, <3>2, ZenonT(30) DEF Stats, MustSchedule
  <2>5. CASE Schedule(c)
    <3>1. Scheduling = {c}
      BY <2>5 DEF Schedule, Scheduling, LockInv, Exclusion, Holds, Mutexes
    <3>2. Scheduling' = {}
      BY <2>5, <3>1 DEF Schedule, Scheduling, Goto, LockInv, LockTypeOK
    <3>3. queue' = queue + 1 /\ Running' = Running /\ Flag' = Flag
      BY <2>5 DEF Schedule, bgVars
    <3> QED BY <1>0, <1>a, <3>1, <3>2, <3>3, FS_Singleton, FS_EmptySet
  <2>6. CASE Leave(c) BY <1>3, <2>6 DEF Leave, EndSection, bgVars
  <2>7. CASE Finish(c) BY <1>3, <2>7 DEF Finish, dbVars, bgVars
  <2> QED BY <1>4, <2>1, <2>2, <2>3, <2>4, <2>5, <2>6, <2>7 DEF CoroStep
<1>5. CASE BgStep
  <2>0. Scheduling' = Scheduling
    BY <1>5, BgFrame DEF Scheduling, coroVars
  <2>1. CASE BgPop BY <1>0, <1>a, <2>0, <2>1 DEF BgPop, BgAt
  <2>2. CASE BgFinish
    <3>1. scheduled /\ Cardinality(Scheduling) = 0 /\ queue = 0
      BY <1>0, <1>a, <2>2 DEF BgFinish, BgAt
    <3>2. queue' = queue BY <2>2 DEF BgFinish
    <3>3. CASE bg' = "sched" /\ UNCHANGED scheduled
      BY <1>0, <2>0, <3>1, <3>2, <3>3
    <3>4. CASE bg' = "wait" /\ scheduled' = FALSE
      <4>1. Flag' = 0 BY <3>4
      <4> QED BY <1>0, <2>0, <3>1, <3>2, <3>4, <4>1
    <3> QED BY <2>2, <3>3, <3>4, Zenon DEF BgFinish
  <2>3. CASE BgSchedule BY <1>0, <1>a, <2>0, <2>3 DEF BgSchedule, BgAt
  <2>4. CASE BgWait \/ BgCall \/ BgPick \/ BgOpen \/ BgInstall \/ BgFail \/ BgApply
             \/ BgDelete \/ BgRelock
    <3>1. UNCHANGED <<queue, scheduled>> /\ (bg' \in {"wait", "pop"} <=> bg \in {"wait", "pop"})
      BY <2>4 DEF BgAt, BgWait, BgCall, BgPick, BgOpen, BgInstall, BgFail, BgApply,
                  BgDelete, BgRelock
    <3> QED BY <2>0, <3>1, CompactionStays
  <2> QED BY <1>5, <2>1, <2>2, <2>3, <2>4 DEF BgStep
<1> QED BY <1>1, <1>2, <1>4, <1>5 DEF Next, WorkerStep, Resume, coroVars, vars

(* background_compaction_scheduled_ is set for one compaction at a time,   *)
(* however many coroutines use up the seeks of a file at once: the         *)
(* assertion of BackgroundCall holds.                                      *)
THEOREM CompactionIsOne == Spec => []OneCompaction
<1> DEFINE Inv == LockInv /\ PhaseInv /\ OneCompaction
<1>1. Init => Inv BY LockInit, PhaseInit, CompactionInit
<1>2. Inv /\ [Next]_vars => Inv' BY LockStep, PhaseStep, CompactionStep
<1> QED BY <1>1, <1>2, PTL DEF Spec

--------------------------------------------------------------------------------
(* The safety of reads: which coroutine holds a version, what the count of *)
(* a version counts, and which files are on the disk.                      *)

Holders(v) == {c \in Coros : ver[c] = v}

ReaderTypeOK ==
  /\ job \in [Coros -> {"GET", "SCAN"}]
  /\ sect \in [Coros -> {"open", "sample", "close"}]
  /\ ver \in [Coros -> Versions \cup {NoVersion}]

(* A coroutine holds a version exactly between its first and its last      *)
(* section, and never one that is still to come.                           *)
ReaderInv ==
  /\ ReaderTypeOK
  /\ \A c \in Coros : ver[c] <= current
  /\ \A c \in Coros :
       /\ ver[c] = NoVersion <=> (sect[c] = "open" \/ pc[c] \in {"idle", "done"})
       /\ pc[c] \in {"sched", "enq", "leave"} => sect[c] # "open"

LEMMA ReaderInit == Init => ReaderInv
BY DEF Init, ReaderInv, ReaderTypeOK, NoVersion

LEMMA ReaderStep == LockInv /\ PhaseInv /\ ReaderInv /\ [Next]_vars => ReaderInv'
<1> SUFFICES ASSUME LockInv, PhaseInv, ReaderInv, [Next]_vars PROVE ReaderInv'
  OBVIOUS
<1> USE DEF ReaderInv, ReaderTypeOK, NoVersion
<1>0. current \in Int /\ current \in Versions /\ (\A v \in Versions : v \in Int /\ v >= 0)
  BY PreemptionAssumption DEF PhaseInv, PhaseTypeOK, Versions, PreemptionAssumption
<1>1. CASE UNCHANGED <<coroVars, current>> BY <1>1 DEF coroVars
<1>2. ASSUME NEW w \in Workers, Poll(w) PROVE ReaderInv'
  <2>1. PICK new \in SUBSET Idle(w) : \E kind \in [new -> {"GET", "SCAN"}] :
          /\ pc' = [c \in Coros |-> IF c \in new THEN "lock" ELSE pc[c]]
          /\ job' = [c \in Coros |-> IF c \in new THEN kind[c] ELSE job[c]]
          /\ sect' = [c \in Coros |-> IF c \in new THEN "open" ELSE sect[c]]
    BY <1>2, ZenonT(30) DEF Poll
  <2>2. \A c \in new : pc[c] = "idle" BY DEF Idle
  <2>3. UNCHANGED <<ver, current>> BY <1>2, Zenon DEF Poll, dbVars, versionVars
  <2>4. ReaderTypeOK' BY <2>1, <2>3
  <2>5. ASSUME NEW c \in Coros
        PROVE  /\ ver'[c] = NoVersion <=> (sect'[c] = "open" \/ pc'[c] \in {"idle", "done"})
               /\ pc'[c] \in {"sched", "enq", "leave"} => sect'[c] # "open"
    <3>1. CASE c \in new
      <4>1. pc'[c] = "lock" /\ sect'[c] = "open" BY <2>1, <3>1
      <4>2. ver[c] = NoVersion BY <2>2, <3>1
      <4> QED BY <2>3, <4>1, <4>2
    <3>2. CASE c \notin new
      <4>1. pc'[c] = pc[c] /\ sect'[c] = sect[c] BY <2>1, <3>2
      <4> QED BY <2>3, <4>1
    <3> QED BY <3>1, <3>2
  <2> QED BY <2>3, <2>4, <2>5
<1>3. ASSUME NEW c \in Coros, CoroStep(c) PROVE ReaderInv'
  <2> USE DEF LockInv, LockTypeOK
  <2>1. CASE LockDb(c) BY <2>1 DEF LockDb, Lock, Goto, dbVars, versionVars
  <2>2. CASE LockWork(c) BY <2>2 DEF LockWork, Lock, Goto, dbVars, versionVars
  <2>3. CASE RefCurrent(c) BY <1>0, <2>3 DEF RefCurrent, Goto
  <2>4. ASSUME EndSection(c), sect[c] # "open", UNCHANGED <<job, current>>,
               pc[c] \in {"crit", "leave"}
        PROVE  ReaderInv'
    BY <1>0, <2>4 DEF EndSection, Goto
  <2>5. CASE Stats(c)
    <3>1. CASE EndSection(c) BY <2>4, <2>5, <3>1, Zenon DEF Stats
    <3>2. CASE Goto(c, "sched") /\ UNCHANGED <<sect, ver>>
      BY <2>5, <3>2, Zenon DEF Stats, Goto
    <3> QED BY <2>5, <3>1, <3>2, Zenon DEF Stats
  <2>6. CASE Schedule(c) BY <2>6 DEF Schedule, Goto, versionVars
  <2>7. CASE Leave(c) BY <2>4, <2>7 DEF Leave
  <2>8. CASE Finish(c) BY <2>8 DEF Finish, Goto, dbVars, versionVars
  <2> QED BY <1>3, <2>1, <2>2, <2>3, <2>5, <2>6, <2>7, <2>8 DEF CoroStep
<1>4. CASE BgStep
  <2>0. UNCHANGED coroVars BY <1>4, BgFrame
  <2>1. current' \in {current, current + 1}
    BY <1>4, Zenon DEF BgStep, BgWait, BgPop, BgCall, BgPick, BgOpen, BgInstall, BgFail,
                BgApply, BgDelete, BgRelock, BgFinish, BgSchedule, versionVars
  <2>2. \A c \in Coros : ver[c] \in Int
    <3>1. Versions \cup {NoVersion} \subseteq Int
      BY PreemptionAssumption DEF Versions, PreemptionAssumption
    <3>2. ver \in [Coros -> Versions \cup {NoVersion}] OBVIOUS
    <3> HIDE DEF ReaderInv, ReaderTypeOK, NoVersion
    <3> QED BY <3>1, <3>2
  <2>3. \A c \in Coros : ver[c] <= current' BY <1>0, <2>1, <2>2
  <2> QED BY <2>0, <2>3 DEF coroVars
<1> QED BY <1>1, <1>2, <1>3, <1>4 DEF Next, WorkerStep, Resume, vars, dbVars, versionVars

(* The references to a version: its holders, being current, being compacted.*)
CountInv ==
  /\ refs \in [Versions -> Nat]
  /\ \A v \in Versions :
       refs[v] = Cardinality(Holders(v)) + (IF current = v THEN 1 ELSE 0)
                                         + (IF input_version = v THEN 1 ELSE 0)

LEMMA HoldersFinite ==
  \A v : IsFiniteSet(Holders(v)) /\ Cardinality(Holders(v)) \in Nat
<1> SUFFICES ASSUME NEW v PROVE IsFiniteSet(Holders(v)) /\ Cardinality(Holders(v)) \in Nat
  OBVIOUS
<1>1. Holders(v) \in SUBSET Coros BY DEF Holders
<1>2. IsFiniteSet(Holders(v))
  BY <1>1, FS_Subset, PreemptionAssumption DEF PreemptionAssumption
<1> QED BY <1>2, FS_CardinalityType

LEMMA CountInit == Init => CountInv
<1> SUFFICES ASSUME Init PROVE CountInv OBVIOUS
<1>1. \A v \in Versions : Holders(v) = {} BY DEF Init, Holders, Versions, NoVersion
<1>2. \A v \in Versions : Cardinality(Holders(v)) = 0 BY SMTT(30), <1>1, FS_EmptySet
<1> QED BY <1>2 DEF Init, CountInv, Versions, NoVersion

LEMMA CountStep ==
  LockInv /\ PhaseInv /\ ReaderInv /\ CountInv /\ [Next]_vars => CountInv'
<1> SUFFICES ASSUME LockInv, PhaseInv, ReaderInv, CountInv, [Next]_vars PROVE CountInv'
  OBVIOUS
<1>0. /\ current \in Versions /\ (\A v \in Versions : v \in Int /\ v >= 0)
      /\ input_version \in Versions \cup {NoVersion} /\ NoVersion \notin Versions
  BY PreemptionAssumption
     DEF PhaseInv, PhaseTypeOK, Versions, NoVersion, Compacting, PreemptionAssumption
<1>1. CASE UNCHANGED <<ver, refs, current, input_version>>
  BY <1>1 DEF CountInv, Holders
<1>2. ASSUME NEW c \in Coros, RefCurrent(c) PROVE CountInv'
  <2>1. ver[c] = NoVersion /\ ver \in [Coros -> Versions \cup {NoVersion}]
    BY <1>2 DEF RefCurrent, ReaderInv, ReaderTypeOK
  <2>2. \A v \in Versions : Holders(v)' = IF v = current THEN Holders(v) \cup {c} ELSE Holders(v)
    BY <1>0, <1>2, <2>1 DEF Holders, RefCurrent
  <2>3. c \notin Holders(current) BY <1>0, <2>1 DEF Holders
  <2>4. \A v \in Versions : Cardinality(Holders(v)') =
          IF v = current THEN Cardinality(Holders(v)) + 1 ELSE Cardinality(Holders(v))
    BY <2>2, <2>3, HoldersFinite, FS_AddElement
  <2>5. refs' = [refs EXCEPT ![current] = @ + 1] /\ UNCHANGED <<current, input_version>>
    BY <1>2 DEF RefCurrent, Ref, bgVars
  <2> QED BY <1>0, <2>4, <2>5, HoldersFinite DEF CountInv
<1>3. ASSUME NEW c \in Coros, EndSection(c), ver[c] # NoVersion, UNCHANGED <<current, input_version>>
      PROVE  CountInv'
  <2>1. CASE UNCHANGED <<ver, refs>> BY <1>1, <1>3, <2>1
  <2>2. CASE refs' = Unref(refs, ver[c]) /\ ver' = [ver EXCEPT ![c] = NoVersion]
    <3>1. ver[c] \in Versions /\ ver \in [Coros -> Versions \cup {NoVersion}]
      BY <1>3 DEF ReaderInv, ReaderTypeOK
    <3>2. \A v \in Versions : Holders(v)' = IF v = ver[c] THEN Holders(v) \ {c} ELSE Holders(v)
      BY <1>0, <2>2, <3>1 DEF Holders
    <3>3. c \in Holders(ver[c]) BY DEF Holders
    <3>4. \A v \in Versions : Cardinality(Holders(v)') =
            IF v = ver[c] THEN Cardinality(Holders(v)) - 1 ELSE Cardinality(Holders(v))
      BY <3>2, <3>3, HoldersFinite, FS_RemoveElement
    <3>5. \A v \in Versions : Cardinality(Holders(v)') \in Nat
      BY <3>2, <3>3, HoldersFinite, FS_RemoveElement, FS_CardinalityType
    <3> QED BY <1>0, <1>3, <2>2, <3>1, <3>4, <3>5, HoldersFinite DEF CountInv, Unref
  <2> QED BY <1>3, <2>1, <2>2 DEF EndSection
<1>4. ASSUME NEW c \in Coros, CoroStep(c) PROVE CountInv'
  <2>1. CASE LockDb(c) \/ LockWork(c) \/ Schedule(c) \/ Finish(c)
    BY <1>1, <2>1 DEF LockDb, LockWork, Lock, Schedule, Finish, dbVars, versionVars, bgVars
  <2>2. CASE RefCurrent(c) BY <1>2, <2>2
  <2>3. CASE Stats(c)
    <3>1. CASE EndSection(c)
      BY <1>3, <2>3, <3>1, Zenon DEF Stats, ReaderInv, bgVars
    <3>2. CASE UNCHANGED <<ver, refs>> BY <1>1, <2>3, <3>2, Zenon DEF Stats, bgVars
    <3> QED BY <2>3, <3>1, <3>2, Zenon DEF Stats
  <2>4. CASE Leave(c) BY <1>3, <2>4, Zenon DEF Leave, ReaderInv, bgVars
  <2> QED BY SMTT(30), <1>4, <2>1, <2>2, <2>3, <2>4 DEF CoroStep
<1>5. CASE BgStep
  <2>0. UNCHANGED ver
    BY <1>5, BgFrame DEF coroVars
  <2>a. \A v : Holders(v)' = Holders(v) BY <2>0 DEF Holders
  <2>1. CASE BgPick
    <3>1. input_version = NoVersion BY <2>1 DEF BgPick, BgAt, PhaseInv, Compacting
    <3> QED BY <1>0, <2>1, <2>a, <3>1, HoldersFinite DEF BgPick, Ref, CountInv
  <2>2. CASE BgFail
    <3>1. input_version = current BY <2>2 DEF BgFail, BgAt, PhaseInv, Compacting
    <3> QED BY <1>0, <2>2, <2>a, <3>1, HoldersFinite DEF BgFail, Unref, CountInv
  <2>3. CASE BgApply
    <3>1. input_version = current /\ current' = current + 1 /\ input_version' = NoVersion
      BY <2>3 DEF BgApply, BgAt, PhaseInv, Compacting
    <3>2. current' \in Versions
      BY <2>3, <3>1, PreemptionAssumption
         DEF BgApply, BgAt, PhaseInv, PhaseTypeOK, Compacting, Versions, PreemptionAssumption
    <3>3. Holders(current') = {}
      BY <1>0, <3>1 DEF Holders, ReaderInv, ReaderTypeOK, NoVersion
    <3>4. Cardinality(Holders(current')) = 0 BY <3>3, FS_EmptySet
    <3>5. refs' = [[[refs EXCEPT ![current'] = 1] EXCEPT ![current] = @ - 1] EXCEPT ![current] = @ - 1]
      BY <2>3, <3>1 DEF BgApply, Unref
    <3> QED BY <1>0, <2>a, <3>1, <3>2, <3>4, <3>5, HoldersFinite DEF CountInv
  <2>4. CASE BgWait \/ BgPop \/ BgCall \/ BgOpen \/ BgInstall \/ BgDelete \/ BgRelock
             \/ BgFinish \/ BgSchedule
    <3>1. UNCHANGED <<refs, current, input_version>>
      BY <2>4, Zenon DEF BgWait, BgPop, BgCall, BgOpen, BgInstall, BgDelete, BgRelock, BgFinish,
                  BgSchedule, versionVars
    <3> QED BY <1>1, <2>0, <3>1
  <2> QED BY <1>5, <2>1, <2>2, <2>3, <2>4 DEF BgStep
<1> QED BY <1>1, <1>4, <1>5
        DEF Next, WorkerStep, Resume, Poll, vars, coroVars, dbVars, versionVars, bgVars

(* Files are numbered, and the numbers of new files are counted up.        *)
DiskTypeOK ==
  disk \subseteq Int /\ files_to_delete \subseteq Int /\ next_file_number \in Nat

LEMMA DiskInit == Init => DiskTypeOK
BY PreemptionAssumption DEF Init, DiskTypeOK, PreemptionAssumption

LEMMA DiskStep == DiskTypeOK /\ [Next]_vars => DiskTypeOK'
<1> SUFFICES ASSUME DiskTypeOK, [Next]_vars PROVE DiskTypeOK' OBVIOUS
<1> DEFINE diskVars == <<disk, files_to_delete, next_file_number>>
<1>1. CASE UNCHANGED diskVars BY <1>1 DEF DiskTypeOK
<1>2. ASSUME NEW c \in Coros, CoroStep(c) PROVE UNCHANGED diskVars
  BY <1>2, Zenon DEF CoroStep, LockDb, LockWork, Lock, RefCurrent, Stats, Schedule, Leave,
                     Finish, dbVars, bgVars
<1>3. CASE BgStep
  <2>1. CASE BgOpen BY <2>1 DEF BgOpen, DiskTypeOK
  <2>2. CASE BgApply
    <3>1. /\ disk' = disk /\ next_file_number' = next_file_number
          /\ files_to_delete' \in {files_to_delete, ToDelete(refs', files', current')}
      BY <2>2, Zenon DEF BgApply
    <3> QED BY <3>1 DEF ToDelete, DiskTypeOK
  <2>3. CASE BgDelete BY <2>3 DEF BgDelete, DiskTypeOK
  <2>4. CASE UNCHANGED diskVars BY <1>1, <2>4
  <2> QED BY <1>3, <2>1, <2>2, <2>3, <2>4, Zenon
          DEF BgStep, BgWait, BgPop, BgCall, BgPick, BgInstall, BgFail, BgRelock, BgFinish,
              BgSchedule
<1> QED BY <1>1, <1>2, <1>3, Zenon DEF Next, WorkerStep, Resume, Poll, vars, dbVars, bgVars

(* What a live version needs is on the disk and not about to be deleted,   *)
(* and so is what the compaction is about to install.                      *)
FileInv ==
  /\ files \in [Versions -> SUBSET Int] /\ built \subseteq Int
  /\ \A v \in Live(refs) : files[v] \subseteq disk /\ files[v] \cap files_to_delete = {}
  /\ built \subseteq disk /\ (~Compacting => built = {})
  /\ bg # "delete" => files_to_delete = {}

LEMMA FileInit == Init => FileInv
<1> SUFFICES ASSUME Init PROVE FileInv OBVIOUS
<1>1. Tables \subseteq Int BY PreemptionAssumption DEF PreemptionAssumption
<1>2. \A v \in Versions : files[v] \subseteq Tables BY DEF Init
<1> QED BY <1>1, <1>2 DEF Init, FileInv, Live, Compacting

(* As long as no version comes to life, FileInv does not depend on who     *)
(* refers to what.                                                         *)
LEMMA FilesStay ==
  ASSUME FileInv, UNCHANGED <<files, built, disk, files_to_delete, bg, current>>,
         Live(refs') \subseteq Live(refs)
  PROVE  FileInv'
BY DEF FileInv, Live, Compacting

LEMMA CurrentLive == PhaseInv /\ CountInv => current \in Live(refs)
<1> SUFFICES ASSUME PhaseInv, CountInv PROVE current \in Live(refs) OBVIOUS
<1>1. current \in Versions
  BY PreemptionAssumption DEF PhaseInv, PhaseTypeOK, Versions, PreemptionAssumption
<1> QED BY <1>1, HoldersFinite DEF CountInv, Live

LEMMA FileStep ==
  PhaseInv /\ ReaderInv /\ CountInv /\ DiskTypeOK /\ FileInv /\ [Next]_vars => FileInv'
<1> SUFFICES ASSUME PhaseInv, ReaderInv, CountInv, DiskTypeOK, FileInv, [Next]_vars
             PROVE  FileInv'
  OBVIOUS
<1>0. current \in Versions /\ current \in Live(refs) /\ refs \in [Versions -> Nat] /\ current \in Int
  BY PreemptionAssumption, CurrentLive
     DEF PhaseInv, PhaseTypeOK, Versions, PreemptionAssumption, CountInv
<1>1. CASE UNCHANGED <<refs, files, built, disk, files_to_delete, bg, current>>
  BY <1>1, FilesStay
<1>2. ASSUME NEW c \in Coros, EndSection(c), UNCHANGED <<files, built, disk, files_to_delete, bg, current>>,
             ver[c] \in Versions
      PROVE  FileInv'
  <2>1. refs' = refs \/ refs' = Unref(refs, ver[c]) BY <1>2 DEF EndSection
  <2>2. \A v \in Versions : refs'[v] > 0 => refs[v] > 0 BY <1>0, <1>2, <2>1 DEF Unref
  <2>3. Live(refs') \subseteq Live(refs) BY <2>2 DEF Live
  <2> QED BY <1>2, <2>3, FilesStay
<1>3. ASSUME NEW c \in Coros, CoroStep(c) PROVE FileInv'
  <2>1. CASE LockDb(c) \/ LockWork(c) \/ Schedule(c) \/ Finish(c)
    BY <1>1, <2>1 DEF LockDb, LockWork, Lock, Schedule, Finish, dbVars, versionVars, bgVars
  <2>2. CASE RefCurrent(c)
    <3>1. Live(refs') \subseteq Live(refs) BY <1>0, <2>2, Zenon DEF RefCurrent, Ref, Live
    <3> QED BY <2>2, <3>1, FilesStay, Zenon DEF RefCurrent, bgVars
  <2>3. CASE Stats(c)
    <3>1. ver[c] \in Versions BY <2>3, Zenon DEF Stats, ReaderInv, ReaderTypeOK
    <3>2. CASE EndSection(c) BY <1>2, <2>3, <3>1, <3>2, Zenon DEF Stats, bgVars
    <3>3. CASE UNCHANGED refs BY <1>1, <2>3, <3>3, Zenon DEF Stats, bgVars
    <3> QED BY <2>3, <3>2, <3>3, Zenon DEF Stats
  <2>4. CASE Leave(c)
    <3>1. ver[c] \in Versions BY <2>4, Zenon DEF Leave, ReaderInv, ReaderTypeOK
    <3> QED BY <1>2, <2>4, <3>1, Zenon DEF Leave, bgVars
  <2> QED BY SMTT(30), <1>3, <2>1, <2>2, <2>3, <2>4 DEF CoroStep
<1>4. CASE BgStep
  <2>1. CASE BgPick
    <3>1. Live(refs') = Live(refs) BY <1>0, <2>1 DEF BgPick, Ref, Live
    <3> QED BY <1>0, <2>1, <3>1, Zenon DEF BgPick, BgAt, FileInv, Compacting
  <2>2. CASE BgOpen
    <3>1. next_file_number \in Int BY DEF DiskTypeOK
    <3>2. FileInv' <=> /\ files \in [Versions -> SUBSET Int] /\ built' \subseteq Int
                       /\ \A v \in Live(refs) :
                            files[v] \subseteq disk' /\ files[v] \cap files_to_delete = {}
                       /\ built' \subseteq disk' /\ (~Compacting => built' = {})
                       /\ bg # "delete" => files_to_delete = {}
      BY <2>2, Zenon DEF BgOpen, versionVars, FileInv, Live, Compacting
    <3> QED BY <2>2, <3>1, <3>2 DEF BgOpen, BgAt, FileInv, Compacting
  <2>3. CASE BgInstall
    BY <1>0, <2>3, Zenon DEF BgInstall, BgAt, FileInv, Compacting, versionVars
  <2>4. CASE BgFail
    <3>1. input_version = current BY <2>4 DEF BgFail, BgAt, PhaseInv, Compacting
    <3>2. Live(refs') \subseteq Live(refs) BY <1>0, <2>4, <3>1 DEF BgFail, Unref, Live
    <3> QED BY <2>4, <3>2 DEF BgFail, BgAt, FileInv, Compacting
  <2>5. CASE BgApply
    <3>1. input_version = current /\ current' = current + 1
      BY <2>5 DEF BgApply, BgAt, PhaseInv, Compacting
    <3>2. current' \in Versions
      BY <2>5, <3>1, PreemptionAssumption
         DEF BgApply, BgAt, PhaseInv, PhaseTypeOK, Compacting, Versions, PreemptionAssumption
    <3>3. Live(refs') \subseteq Live(refs) \cup {current'}
      BY <1>0, <2>5, <3>1, <3>2 DEF BgApply, Unref, Live
    <3>4. \A v \in Versions : files'[v] = IF v = current' THEN built ELSE files[v]
      BY <2>5, <3>2 DEF BgApply, FileInv
    <3>5. built \subseteq disk /\ built \subseteq Int /\ disk' = disk /\ files_to_delete = {}
      BY <2>5 DEF BgApply, BgAt, FileInv, Compacting
    <3>6. Live(refs') \subseteq Versions BY DEF Live
    <3>7. \A v \in Live(refs') : files'[v] \subseteq disk'
      BY <3>3, <3>4, <3>5, <3>6, Zenon DEF FileInv
    <3>8. files' \in [Versions -> SUBSET Int]
      BY <2>5, <3>2, <3>5 DEF BgApply, FileInv
    <3>9. CASE bg = "move" BY <2>5, <3>5, <3>7, <3>8, <3>9, Zenon DEF BgApply, BgAt, FileInv, Compacting
    <3>10. CASE bg = "manifest"
      <4>1. files_to_delete' = disk \ UNION {files'[u] : u \in Live(refs')}
        BY <2>5, <3>10, Zenon DEF BgApply, ToDelete
      <4>2. \A v \in Live(refs') : files'[v] \cap files_to_delete' = {} BY <4>1
      <4>3. bg' = "delete" /\ built' = {} BY <2>5, <3>10 DEF BgApply
      <4> QED BY <3>7, <3>8, <4>2, <4>3 DEF FileInv, Compacting
    <3> QED BY <2>5, <3>9, <3>10 DEF BgApply
  <2>6. CASE BgDelete
    BY <2>6 DEF BgDelete, BgAt, FileInv, Compacting, versionVars
  <2>7. CASE BgWait \/ BgPop \/ BgCall \/ BgRelock \/ BgFinish \/ BgSchedule
    BY <2>7, Zenon DEF BgWait, BgPop, BgCall, BgRelock, BgFinish, BgSchedule, BgAt, FileInv, Compacting,
                versionVars
  <2> QED BY <1>4, <2>1, <2>2, <2>3, <2>4, <2>5, <2>6, <2>7 DEF BgStep
<1> QED BY <1>1, <1>3, <1>4, Zenon
        DEF Next, WorkerStep, Resume, Poll, vars, dbVars, versionVars, bgVars

(* For any workers, coroutines and tables: a read that is suspended or     *)
(* running keeps its version and the files of it, whatever the background  *)
(* compaction installs and RemoveObsoleteFiles deletes.                    *)
THEOREM ReadsStayValid == Spec => []ReadsKept
<1> DEFINE Inv == LockInv /\ PhaseInv /\ ReaderInv /\ CountInv /\ DiskTypeOK /\ FileInv
<1>1. Init => Inv BY LockInit, PhaseInit, ReaderInit, CountInit, DiskInit, FileInit
<1>2. Inv /\ [Next]_vars => Inv'
  BY LockStep, PhaseStep, ReaderStep, CountStep, DiskStep, FileStep
<1>3. Inv => ReadsKept
  <2> SUFFICES ASSUME Inv PROVE ReadsKept OBVIOUS
  <2>1. ASSUME NEW c \in Coros, ver[c] # NoVersion PROVE files[ver[c]] \subseteq disk
    <3>1. ver[c] \in Versions BY <2>1 DEF ReaderInv, ReaderTypeOK
    <3>2. c \in Holders(ver[c]) BY DEF Holders
    <3>3. Cardinality(Holders(ver[c])) # 0 BY <3>2, HoldersFinite, FS_EmptySet
    <3>4. ver[c] \in Live(refs) BY <3>1, <3>3, HoldersFinite DEF CountInv, Live
    <3> QED BY <3>4 DEF FileInv
  <2> QED BY <2>1 DEF ReadsKept, CountInv, Holders
<1> QED BY <1>1, <1>2, <1>3, PTL DEF Spec

--------------------------------------------------------------------------------
(* The rest of the types: the loops of the workers, and files.             *)

RunTypeOK ==
  /\ run \in [Workers -> Coros \cup {Free}]
  /\ busy_coros \in [Workers -> Seq(Coros)]

LEMMA RunInit == Init => RunTypeOK
BY DEF Init, RunTypeOK

(* What a step of a coroutine may do to the loop of its worker.            *)
LEMMA CoroRuns ==
  ASSUME NEW c \in Coros, CoroStep(c)
  PROVE  \/ UNCHANGED loopVars
         \/ Yields(c)
         \/ /\ run' = [run EXCEPT ![Thread(c)] = Free]
            /\ UNCHANGED busy_coros
  BY Zenon DEF CoroStep, LockDb, LockWork, Lock, RefCurrent, Stats, Schedule, Leave, Finish, Probe

LEMMA RunStep == RunTypeOK /\ [Next]_vars => RunTypeOK'
<1> SUFFICES ASSUME RunTypeOK, [Next]_vars PROVE RunTypeOK' OBVIOUS
<1> USE DEF RunTypeOK
<1>1. CASE UNCHANGED loopVars BY <1>1 DEF loopVars
<1>2. ASSUME NEW w \in Workers, Resume(w) PROVE RunTypeOK'
  <2>1. busy_coros[w] \in Seq(Coros) /\ busy_coros[w] # <<>> BY <1>2 DEF Resume
  <2>2. Head(busy_coros[w]) \in Coros /\ Tail(busy_coros[w]) \in Seq(Coros) BY <2>1
  <2> QED BY <1>2, <2>2 DEF Resume
<1>3. ASSUME NEW w \in Workers, Poll(w) PROVE RunTypeOK'
  <2>1. PICK new \in SUBSET Idle(w) : \E order \in Bijection(1..Cardinality(new), new) :
          busy_coros' = [busy_coros EXCEPT ![w] = order \o @]
    BY <1>3, Zenon DEF Poll
  <2>2. PICK order \in Bijection(1..Cardinality(new), new) :
          busy_coros' = [busy_coros EXCEPT ![w] = order \o @]
    BY <2>1, Zenon
  <2>3. new \subseteq Coros BY DEF Idle
  <2>4. Cardinality(new) \in Nat
    BY <2>3, FS_Subset, FS_CardinalityType, PreemptionAssumption DEF PreemptionAssumption
  <2>5. order \in [1..Cardinality(new) -> new] BY DEF Bijection, Injection
  <2>6. order \in Seq(Coros) BY <2>3, <2>4, <2>5
  <2>7. order \o busy_coros[w] \in Seq(Coros) BY <2>6
  <2> QED BY <1>3, <2>2, <2>7, Zenon DEF Poll
<1>4. ASSUME NEW c \in Coros, CoroStep(c) PROVE RunTypeOK'
  <2>1. Thread(c) \in Workers BY Threads
  <2>2. CASE Yields(c)
    <3>1. Append(busy_coros[Thread(c)], c) \in Seq(Coros) BY <2>1
    <3> QED BY <2>1, <2>2, <3>1 DEF Yields
  <2>3. CASE run' = [run EXCEPT ![Thread(c)] = Free] /\ UNCHANGED busy_coros
    BY <2>1, <2>3
  <2> QED BY <1>1, <1>4, <2>2, <2>3, CoroRuns
<1>5. CASE BgStep BY <1>1, <1>5, BgFrame
<1> QED BY <1>1, <1>2, <1>3, <1>4, <1>5, Zenon DEF Next, WorkerStep, vars

(* For any workers, coroutines and tables: the counts of references never  *)
(* go below 0, the number of the version that a compaction installs stays  *)
(* within the bound, the queue of the background thread is never popped    *)
(* when it is empty, and the loops hold coroutines only.                   *)
THEOREM PreemptionTypeOK == Spec => []TypeOK
<1> DEFINE Inv == /\ LockInv /\ PhaseInv /\ ReaderInv /\ CountInv /\ FileInv
                  /\ RunTypeOK /\ DiskTypeOK
<1>1. Init => Inv BY LockInit, PhaseInit, ReaderInit, CountInit, DiskInit, FileInit, RunInit
<1>2. Inv /\ [Next]_vars => Inv'
  BY SMTT(30), LockStep, PhaseStep, ReaderStep, CountStep, FileStep, RunStep, DiskStep
<1>3. Inv => TypeOK
  <2> SUFFICES ASSUME Inv PROVE TypeOK OBVIOUS
  <2>1. input_version \in Versions \cup {NoVersion}
    BY DEF PhaseInv, PhaseTypeOK
  <2> QED BY <2>1 DEF TypeOK, LockInv, LockTypeOK, PhaseInv, PhaseTypeOK, ReaderInv, ReaderTypeOK,
                      CountInv, FileInv, RunTypeOK, DiskTypeOK
<1> QED BY <1>1, <1>2, <1>3, PTL DEF Spec

--------------------------------------------------------------------------------
(* The spacing of the probes, for every initial value, step and number of  *)
(* iterations of the loop.                                                 *)

(* How the state of a loop tells how many back edges are left until its    *)
(* probe; a loop that is not being run keeps them in ResidualSteps, where  *)
(* a loop of one block always has its whole interval.                      *)
StepsLeft(l, n, x, u, running) ==
  /\ ~l.iv => x.LoopIterations = u
  /\ l.iv /\ running => x.LoopThreshold - x.ind = (n - u) * l.step
  /\ l.iv /\ l.nested /\ (l.self \/ ~running)
       => x.ResidualSteps = (IF l.self THEN n ELSE n - u) * l.step

(* How the back edges since the last probe follow from what is over of the *)
(* interval.  A loop that forgets adds what was over when it was left; in  *)
(* one with a clone that is less than an interval, and is gone with the    *)
(* first probe of a run, which moves the threshold.                        *)
SinceUsed(l, n, x, u, running) ==
  /\ ~ForgetsInterval(l) => x.since = u
  /\ Cloneable(l) /\ ~running => x.since < n
  /\ Cloneable(l) /\ running /\ x.since # u
       => x.since < n + u /\ x.LoopThreshold = l.init + n * l.step

(* Inductive: what is left until the probe can be read off the state, and  *)
(* a loop that was not entered yet has its whole interval before it.       *)
LoopInv ==
  /\ LoopTypeOK
  /\ used < N
  /\ StepsLeft(L, N, s, used, where = "in")
  /\ SinceUsed(L, N, s, used, where = "in")
  /\ where = "fresh" => used = 0

--------------------------------------------------------------------------------
(* Distributivity, which the provers do not find by themselves.            *)
LEMMA OneStepLess ==
  ASSUME NEW n \in Int, NEW k \in Int, NEW d \in Int
  PROVE  (n - (k + 1)) * d = (n - k) * d - d
OBVIOUS

(* A product with a factor that is not zero is d only when the other       *)
(* factor is 1: the equality in front of the probe holds on the last back  *)
(* edge of the interval and on no other one.                               *)
LEMMA LastStep ==
  ASSUME NEW m \in Int, NEW d \in Int, d # 0, m * d = d
  PROVE  m = 1
OBVIOUS

(* More iterations than the clone is taken for are more than n, whatever   *)
(* the sign of the step.                                                   *)
LEMMA LongRun ==
  ASSUME NEW m \in Int, NEW n \in Int, NEW d \in Int, d # 0,
         IF d > 0 THEN m * d > n * d ELSE m * d < n * d
  PROVE  m > n
<1>1. (m - n) * d = m * d - n * d OBVIOUS
<1> DEFINE k == m - n
<1>2. k \in Int /\ k * d \in Int /\ (IF d > 0 THEN k * d > 0 ELSE k * d < 0)
  BY <1>1
<1> HIDE DEF k
<1>3. k > 0 BY <1>2
<1> QED BY <1>3 DEF k

(* Factors of d that make the same product are the same.                   *)
LEMMA SameFactor ==
  ASSUME NEW m \in Int, NEW n \in Int, NEW d \in Int, d # 0, m * d = n * d
  PROVE  m = n
OBVIOUS

LEMMA InitHolds == LoopInit => LoopInv
<1> SUFFICES ASSUME LoopInit PROVE LoopInv
  OBVIOUS
<1>1. /\ L.init \in Int /\ L.step \in Int /\ L.self \in BOOLEAN
      /\ N \in Int /\ 0 < N /\ N * L.step \in Int
  BY DEF LoopInit, LoopRecord
<1>2. LoopTypeOK
  <2> DEFINE threshold == L.init + N * L.step
             steps == N * L.step
             init == L.init
  <2>1. threshold \in Int /\ steps \in Int /\ init \in Int BY <1>1
  <2>2. s = [LoopIterations |-> 0, LoopThreshold |-> threshold, ResidualSteps |-> steps,
             SumLoopVal |-> 0, ind |-> init, since |-> 0]
    BY Zenon DEF LoopInit, AtEntry
  <2> HIDE DEF threshold, steps, init
  <2>3. s \in LoopState BY <2>1, <2>2 DEF LoopState
  <2>4. L \in LoopRecord /\ N \in Nat \ {0} /\ where = "fresh" /\ used = 0
    BY Zenon DEF LoopInit
  <2>5. used \in Nat BY <2>4
  <2> QED BY <2>3, <2>4, <2>5, Zenon DEF LoopTypeOK
<1>3. s.since = 0 /\ s.LoopIterations = 0 /\ s.ResidualSteps = N * L.step
  BY DEF LoopInit, AtEntry
<1>4. N - 0 = N
  BY <1>1
<1>5. where = "fresh" /\ used = 0
  BY DEF LoopInit
<1>6. StepsLeft(L, N, s, used, where = "in")
  BY <1>1, <1>3, <1>4, <1>5 DEF StepsLeft
<1>7. SinceUsed(L, N, s, used, where = "in")
  BY <1>1, <1>3, <1>5 DEF SinceUsed
<1> QED BY <1>1, <1>2, <1>5, <1>6, <1>7 DEF LoopInv

(* The fields and their types, for the steps below.                        *)
LEMMA Fields ==
  ASSUME LoopTypeOK
  PROVE  /\ L.nested \in BOOLEAN /\ L.self \in BOOLEAN /\ L.iv \in BOOLEAN
         /\ L.init \in Int /\ L.step \in Int /\ L.step # 0
         /\ N \in Int /\ 0 < N /\ N * L.step \in Int
         /\ s.LoopIterations \in Int /\ s.LoopThreshold \in Int
         /\ s.ResidualSteps \in Int /\ s.SumLoopVal \in Int
         /\ s.ind \in Int /\ s.since \in Int
         /\ used \in Int /\ 0 <= used
BY DEF LoopTypeOK, LoopRecord, LoopState

(* Updates of the state have its type.                                     *)
LEMMA StateUpdate ==
  ASSUME NEW x \in LoopState,
         NEW a \in Int, NEW b \in Int, NEW c \in Int, NEW d \in Int
  PROVE  /\ [x EXCEPT !.LoopIterations = a, !.ind = b, !.LoopThreshold = c,
                      !.since = d] \in LoopState
         /\ [x EXCEPT !.LoopIterations = a, !.ind = b, !.LoopThreshold = c] \in LoopState
BY Zenon DEF LoopState

(* The preheader gives a loop that is about to run as many steps as its    *)
(* interval has left, and its whole interval to one that forgets.          *)
LEMMA PreheaderKeeps ==
  ASSUME LoopInv, MayEnter
  PROVE  LET t == AtPreheader(L, N, s)
             u == IF ForgetsInterval(L) THEN 0 ELSE used
         IN  /\ t \in LoopState
             /\ t.since = s.since /\ t.ResidualSteps = s.ResidualSteps
             /\ StepsLeft(L, N, t, u, TRUE)
             /\ SinceUsed(L, N, t, u, TRUE)
<1> DEFINE t == AtPreheader(L, N, s)
           u == IF ForgetsInterval(L) THEN 0 ELSE used
<1>1. LoopTypeOK /\ used < N /\ where # "in" /\ (L.nested \/ where = "fresh")
  BY DEF LoopInv, MayEnter
<1>2. /\ ~L.iv => s.LoopIterations = used
      /\ L.iv /\ L.nested
           => s.ResidualSteps = (IF L.self THEN N ELSE N - used) * L.step
      /\ where = "fresh" => used = 0
  BY <1>1 DEF LoopInv, StepsLeft
<1>3. /\ t.LoopIterations = (IF L.nested THEN s.LoopIterations ELSE 0)
      /\ t.ind = L.init
      /\ t.LoopThreshold = (IF L.nested THEN L.init + s.ResidualSteps
                                        ELSE L.init + N * L.step)
      /\ t.ResidualSteps = s.ResidualSteps
      /\ t.since = s.since
  <2>1. DOMAIN s = {"LoopIterations", "LoopThreshold", "ResidualSteps",
                    "SumLoopVal", "ind", "since"}
    BY <1>1 DEF LoopTypeOK, LoopState
  <2> QED BY <2>1 DEF AtPreheader
<1>4. t \in LoopState
  <2> DEFINE a == IF L.nested THEN s.LoopIterations ELSE 0
             b == IF L.nested THEN L.init + s.ResidualSteps
                              ELSE L.init + N * L.step
  <2>1. a \in Int /\ b \in Int /\ L.init \in Int /\ s \in LoopState
    BY <1>1, Fields DEF LoopTypeOK
  <2>2. t = [s EXCEPT !.LoopIterations = a, !.ind = L.init, !.LoopThreshold = b]
    BY DEF AtPreheader
  <2> HIDE DEF a, b, t
  <2>3. 0 \in Int OBVIOUS
  <2> QED BY <2>1, <2>2, <2>3, StateUpdate, Zenon
<1>5. ~L.iv => t.LoopIterations = u
  BY <1>1, <1>2, <1>3 DEF ForgetsInterval
<1>6. ASSUME L.iv PROVE t.LoopThreshold - t.ind = (N - u) * L.step
  <2>1. CASE ~L.nested
    <3>1. N - u = N
      BY <1>1, <1>2, <2>1, Fields DEF ForgetsInterval
    <3>2. t.LoopThreshold - t.ind = N * L.step
      BY <1>1, <1>3, <2>1, Fields
    <3> QED BY <3>1, <3>2
  <2>2. CASE L.nested /\ L.self
    <3>1. N - u = N
      BY <1>1, <1>6, <2>2, Fields DEF ForgetsInterval
    <3>2. t.LoopThreshold - t.ind = s.ResidualSteps
      BY <1>1, <1>3, <2>2, Fields
    <3> QED BY <1>2, <1>6, <2>2, <3>1, <3>2
  <2>3. CASE L.nested /\ ~L.self
    <3>1. u = used
      BY <2>3 DEF ForgetsInterval
    <3>2. t.LoopThreshold - t.ind = s.ResidualSteps
      BY <1>1, <1>3, <2>3, Fields
    <3> QED BY <1>2, <1>6, <2>3, <3>1, <3>2
  <2> QED BY <2>1, <2>2, <2>3, <1>1, Fields
<1>7. StepsLeft(L, N, t, u, TRUE)
  <2>1. L.iv /\ L.nested /\ L.self => t.ResidualSteps = N * L.step
    BY <1>2, <1>3
  <2> HIDE DEF t, u
  <2> QED BY SMTT(30), <1>5, <1>6, <2>1 DEF StepsLeft
<1>8. SinceUsed(L, N, t, u, TRUE)
  <2>1. /\ ~ForgetsInterval(L) => s.since = used
        /\ Cloneable(L) => s.since < N
    BY <1>1 DEF LoopInv, SinceUsed
  <2>2. CASE ~ForgetsInterval(L)
    BY <1>3, <2>1, <2>2 DEF SinceUsed
  <2>3. CASE ForgetsInterval(L)
    <3>1. L.nested /\ L.iv /\ L.self /\ u = 0 BY <2>3 DEF ForgetsInterval
    <3>2. t.LoopThreshold = L.init + N * L.step BY <1>2, <1>3, <3>1, Zenon
    <3>3. Cloneable(L) => t.since < N + u BY <1>1, <1>3, <2>1, <3>1, Fields
    <3> HIDE DEF t, u
    <3> QED BY <2>3, <3>2, <3>3 DEF SinceUsed
  <2> QED BY <2>2, <2>3, Zenon
<1> QED BY <1>3, <1>4, <1>7, <1>8, Zenon

LEMMA EnterKeeps == LoopInv /\ Enter => LoopInv'
<1> SUFFICES ASSUME LoopInv, Enter PROVE LoopInv'
  OBVIOUS
<1>1. /\ s' = AtPreheader(L, N, s) /\ where' = "in" /\ L' = L /\ N' = N
      /\ used' = (IF ForgetsInterval(L) THEN 0 ELSE used) /\ MayEnter
  BY DEF Enter
<1>2. /\ s' \in LoopState
      /\ StepsLeft(L, N, s', used', TRUE) /\ SinceUsed(L, N, s', used', TRUE)
  BY <1>1, PreheaderKeeps, Zenon
<1>3. LoopTypeOK' /\ used' < N'
  BY <1>1, <1>2, Fields DEF LoopInv, LoopTypeOK
<1>4. (where = "in")' = TRUE
  BY <1>1
<1>5. StepsLeft(L, N, s, used, where = "in")'
  BY <1>1, <1>2 DEF StepsLeft
<1>6. SinceUsed(L, N, s, used, where = "in")'
  BY <1>1, <1>2 DEF SinceUsed, ForgetsInterval, Cloneable
<1> QED BY <1>1, <1>3, <1>5, <1>6 DEF LoopInv

LEMMA BackEdgeKeeps == LoopInv /\ BackEdge => LoopInv'
<1> SUFFICES ASSUME LoopInv, BackEdge PROVE LoopInv'
  OBVIOUS
<1> DEFINE due == ProbeDue(L, N, s)
           a == IF L.iv \/ due THEN 0 ELSE s.LoopIterations + 1
           b == IF L.iv THEN s.ind + L.step ELSE s.ind
           c == IF L.iv /\ due THEN s.LoopThreshold + N * L.step
                              ELSE s.LoopThreshold
           d == IF due THEN 0 ELSE Count(N, s.since)
<1>1. LoopTypeOK /\ used < N /\ where = "in"
  BY DEF LoopInv, BackEdge
<1>2. /\ ~L.iv => s.LoopIterations = used
      /\ L.iv => s.LoopThreshold - s.ind = (N - used) * L.step
  BY <1>1 DEF LoopInv, StepsLeft
<1>3. /\ s' = [s EXCEPT !.LoopIterations = a, !.ind = b, !.LoopThreshold = c,
                        !.since = d]
      /\ used' = (IF due THEN 0 ELSE used + 1)
      /\ where' = where /\ L' = L /\ N' = N
  BY DEF BackEdge, AtBackEdge
<1>4. a \in Int /\ b \in Int /\ c \in Int /\ d \in Int /\ s \in LoopState
  BY <1>1, Fields DEF LoopTypeOK, Count
<1>5. /\ s'.LoopIterations = a /\ s'.ind = b /\ s'.LoopThreshold = c
      /\ s'.since = d
  <2> HIDE DEF a, b, c, d
  <2>1. DOMAIN s = {"LoopIterations", "LoopThreshold", "ResidualSteps",
                    "SumLoopVal", "ind", "since"}
    BY <1>4 DEF LoopState
  <2> QED BY <1>3, <2>1
<1>6. s' \in LoopState
  <2> HIDE DEF a, b, c, d
  <2> QED BY <1>3, <1>4, StateUpdate, Zenon
<1>7. due <=> used + 1 = N
  <2>1. CASE L.iv
    <3>1. due <=> (N - used) * L.step = L.step
      BY <1>1, <1>2, <2>1, Fields DEF ProbeDue
    <3>2. (N - used) * L.step = L.step => N - used = 1
      <4>1. N - used \in Int /\ L.step \in Int /\ L.step # 0
        BY <1>1, Fields
      <4> QED BY ONLY <4>1, LastStep
    <3>3. N - used = 1 => (N - used) * L.step = L.step
      BY <1>1, Fields
    <3> QED BY <1>1, <3>1, <3>2, <3>3, Fields
  <2>2. CASE ~L.iv
    BY <1>1, <1>2, <2>2, Fields DEF ProbeDue
  <2> QED BY <2>1, <2>2
<1>8. 0 <= used' /\ used' < N /\ used' \in Nat
  BY <1>1, <1>3, <1>7, Fields
<1>9. ~L.iv => s'.LoopIterations = used'
  BY <1>1, <1>2, <1>3, <1>5, Fields
<1>10. ASSUME L.iv PROVE s'.LoopThreshold - s'.ind = (N - used') * L.step
  <2>1. CASE due
    <3>1. N - used' = N
      BY <1>1, <1>3, <2>1, Fields
    <3>2. (N - used) * L.step = L.step
      BY <1>1, <1>7, <2>1, Fields
    <3>3. s'.LoopThreshold - s'.ind = N * L.step
      BY <1>1, <1>2, <1>5, <1>10, <2>1, <3>2, Fields
    <3> QED BY <3>1, <3>3
  <2>2. CASE ~due
    <3>1. used' = used + 1
      BY <1>3, <2>2
    <3>2. s'.LoopThreshold - s'.ind = (N - used) * L.step - L.step
      <4>1. (N - used) * L.step \in Int
        BY <1>1, Fields
      <4> QED BY <1>1, <1>2, <1>5, <1>10, <2>2, <4>1, Fields
    <3>3. (N - (used + 1)) * L.step = (N - used) * L.step - L.step
      BY <1>1, OneStepLess, Fields
    <3> QED BY <3>1, <3>2, <3>3
  <2> QED BY <2>1, <2>2
<1>11. LoopTypeOK'
  BY <1>1, <1>3, <1>6, <1>8 DEF LoopTypeOK
<1>12. L.iv /\ L.nested /\ L.self => s'.ResidualSteps = N * L.step
  <2>1. s'.ResidualSteps = s.ResidualSteps
    BY <1>3, <1>4 DEF LoopState
  <2> QED BY <2>1 DEF LoopInv, StepsLeft
<1>13. StepsLeft(L, N, s, used, where = "in")'
  BY <1>1, <1>3, <1>9, <1>10, <1>12 DEF StepsLeft
<1>14. SinceUsed(L, N, s, used, where = "in")'
  <2>1. /\ ~ForgetsInterval(L) => s.since = used
        /\ Cloneable(L) /\ s.since # used
             => s.since < N + used /\ s.LoopThreshold = L.init + N * L.step
    BY <1>1 DEF LoopInv, SinceUsed
  <2>2. CASE due
    <3>1. s'.since = 0 /\ used' = 0 BY <1>3, <1>5, <2>2
    <3> QED BY <1>1, <1>3, <3>1 DEF SinceUsed
  <2>3. CASE ~due
    <3>1. s'.since = Count(N, s.since) /\ used' = used + 1 /\ s'.LoopThreshold = s.LoopThreshold
      BY <1>3, <1>5, <2>3
    <3>2. s.since < N + used => s'.since = s.since + 1
      BY <1>1, <3>1, Fields DEF Count
    <3>3. ~ForgetsInterval(L) => s'.since = used'
      BY <1>1, <2>1, <3>1, <3>2, Fields
    <3>4. Cloneable(L) /\ s'.since # used'
            => s'.since < N + used' /\ s'.LoopThreshold = L.init + N * L.step
      BY <1>1, <2>1, <3>1, <3>2, Fields
    <3> QED BY <1>1, <1>3, <3>3, <3>4 DEF SinceUsed, ForgetsInterval, Cloneable
  <2> QED BY <2>2, <2>3
<1> QED BY <1>1, <1>3, <1>8, <1>11, <1>13, <1>14 DEF LoopInv

(* A run of a loop that has a clone executes the probe: with the threshold *)
(* of the preheader it would be over after at most NumIters iterations.    *)
LEMMA RunProbes ==
  ASSUME LoopInv, where = "in", Cloneable(L), NEW trip \in Nat,
         ~TakesClone(L, N, trip), s.ind = LastValue(L, trip)
  PROVE  s.since = used
<1>1. LoopTypeOK /\ used < N /\ L.iv
  BY DEF LoopInv, Cloneable
<1>2. /\ s.LoopThreshold - s.ind = (N - used) * L.step
      /\ s.since # used => s.LoopThreshold = L.init + N * L.step
  BY <1>1 DEF LoopInv, StepsLeft, SinceUsed
<1>3. trip > N
  <2>1. IF L.step > 0 THEN trip * L.step > N * L.step ELSE trip * L.step < N * L.step
    BY <1>1, Fields DEF TakesClone
  <2>2. trip \in Int /\ N \in Int /\ L.step \in Int /\ L.step # 0 BY <1>1, Fields
  <2> QED BY ONLY <2>1, <2>2, LongRun
<1>4. ASSUME s.LoopThreshold = L.init + N * L.step PROVE FALSE
  <2> DEFINE i == trip - 1
             x == L.init
             d == L.step
  <2>1. i \in Int /\ d \in Int /\ d # 0 /\ N \in Int /\ used \in Int /\ x \in Int
    BY <1>1, Fields
  <2>2. (x + N * d) - (x + i * d) = (N - used) * d
    BY <1>2, <1>4 DEF LastValue
  <2> HIDE DEF i, x, d
  <2>3. (N - i) * d = (N - used) * d
    BY <2>1, <2>2
  <2>4. N - i \in Int /\ N - used \in Int BY <2>1
  <2>5. N - i = N - used
    BY ONLY <2>1, <2>3, <2>4, SameFactor
  <2>6. i = used BY <2>1, <2>5
  <2> QED BY <1>1, <1>3, <2>1, <2>6, Fields DEF i
<1> QED BY <1>2, <1>4

LEMMA LeaveKeeps == LoopInv /\ LeaveLoop => LoopInv'
<1> SUFFICES ASSUME LoopInv, LeaveLoop PROVE LoopInv'
  OBVIOUS
<1>1. LoopTypeOK /\ used < N /\ where = "in"
  BY DEF LoopInv, LeaveLoop
<1>2. s' = AtExit(L, N, s) /\ where' = "out" /\ L' = L /\ N' = N /\ used' = used
  BY DEF LeaveLoop
<1>3. /\ s' \in LoopState /\ s'.since = s.since
      /\ s'.LoopIterations = s.LoopIterations
      /\ s'.ResidualSteps = IF L.iv /\ L.nested /\ ~L.self
                            THEN s.LoopThreshold - s.ind ELSE s.ResidualSteps
  <2>1. s.LoopThreshold - s.ind \in Int /\ s.ResidualSteps \in Int /\ s \in LoopState
    BY <1>1, Fields DEF LoopTypeOK
  <2> QED BY <1>2, <2>1 DEF AtExit, LoopState
<1>4. /\ ~L.iv => s.LoopIterations = used
      /\ L.iv => s.LoopThreshold - s.ind = (N - used) * L.step
      /\ L.iv /\ L.nested /\ L.self => s.ResidualSteps = N * L.step
  BY <1>1 DEF LoopInv, StepsLeft
<1>5. LoopTypeOK'
  BY SMTT(30), <1>1, <1>2, <1>3 DEF LoopTypeOK
<1>6. StepsLeft(L, N, s, used, where = "in")'
  BY SMTT(30), <1>1, <1>2, <1>3, <1>4 DEF StepsLeft
<1>7. SinceUsed(L, N, s, used, where = "in")'
  <2>1. ~ForgetsInterval(L) => s.since = used
    BY <1>1 DEF LoopInv, SinceUsed
  <2>2. Cloneable(L) => s.since = used
    BY <1>1, RunProbes DEF LeaveLoop
  <2> QED BY <1>1, <1>2, <1>3, <2>1, <2>2 DEF SinceUsed, ForgetsInterval, Cloneable
<1> QED BY <1>1, <1>2, <1>5, <1>6, <1>7 DEF LoopInv

LEMMA EnterCloneKeeps == LoopInv /\ EnterClone => LoopInv'
<1> SUFFICES ASSUME LoopInv, EnterClone PROVE LoopInv'
  OBVIOUS
<1> DEFINE t == AtPreheader(L, N, s)
<1>1. PICK trip \in Nat : s' = AtClone(L, N, t, trip)
  BY DEF EnterClone
<1>2. /\ MayEnter /\ Cloneable(L)
      /\ where' = "out" /\ L' = L /\ N' = N /\ used' = used
  BY DEF EnterClone
<1>3. /\ t \in LoopState /\ t.since = s.since
      /\ t.ResidualSteps = s.ResidualSteps
  BY <1>2, PreheaderKeeps, Zenon
<1> HIDE DEF t
<1>4. /\ s' \in LoopState /\ s'.since = s.since
      /\ s'.ResidualSteps = s.ResidualSteps
  <2>1. t.SumLoopVal + trip * L.step \in Int
    <3>1. L.step \in Int /\ t.SumLoopVal \in Int
      BY <1>3, Fields DEF LoopInv, LoopState
    <3> QED BY <3>1
  <2> QED BY <1>1, <1>3, <2>1 DEF AtClone, LoopState
<1>5. /\ L.self /\ L.iv /\ where # "in"
      /\ L.nested => s.ResidualSteps = N * L.step
  BY <1>2 DEF LoopInv, StepsLeft, Cloneable, MayEnter
<1>6. LoopTypeOK'
  BY <1>2, <1>4 DEF LoopInv, LoopTypeOK
<1>7. StepsLeft(L, N, s, used, where = "in")'
  BY <1>2, <1>4, <1>5 DEF StepsLeft
<1>8. SinceUsed(L, N, s, used, where = "in")'
  BY <1>2, <1>4, <1>5 DEF LoopInv, SinceUsed, ForgetsInterval, Cloneable
<1> QED BY <1>2, <1>6, <1>7, <1>8 DEF LoopInv

(* Along every run of a call, the probe of an instrumented loop executes   *)
(* at least once in NumIters back edges, counted from the call and from    *)
(* the last probe: the equality that insertLoopProbe compares with is      *)
(* never jumped over, whatever the initial value, the step and its sign,   *)
(* and wherever the loop is left.  For a nested loop of one block it is    *)
(* once in two times NumIters, and only when the loop has a clone.         *)
THEOREM ProbesSpaced == LoopSpec => []ProbeSpaced
<1>1. LoopInit => LoopInv
  BY InitHolds
<1>2. LoopInv /\ [LoopNext]_probeVars => LoopInv'
  <2>1. LoopInv /\ UNCHANGED probeVars => LoopInv'
    BY DEF LoopInv, LoopTypeOK, StepsLeft, SinceUsed, ForgetsInterval, Cloneable, probeVars
  <2> QED BY SMTT(30), <2>1, EnterKeeps, BackEdgeKeeps, LeaveKeeps, EnterCloneKeeps
          DEF LoopNext
<1>3. LoopInv => ProbeSpaced
  <2> SUFFICES ASSUME LoopInv PROVE ProbeSpaced OBVIOUS
  <2>1. used \in Int /\ N \in Int /\ s.since \in Int /\ used < N /\ 0 < N
    BY Fields DEF LoopInv
  <2> QED BY <2>1 DEF LoopInv, SinceUsed, ProbeSpaced, Spacing
<1> QED BY <1>1, <1>2, <1>3, PTL DEF LoopSpec

================================================================================
