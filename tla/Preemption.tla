------------------------------ MODULE Preemption ------------------------------
(***************************************************************************)
(* Jobs of the LEVELDB build: coroutines that run Get and scans of LevelDB *)
(* and are preempted at any probe, also while they hold a mutex of the     *)
(* library.  Mutexes belong to threads, not to coroutines, so the linker   *)
(* replaces pthread_mutex_lock by a version that yields instead of         *)
(* blocking (coro_pthread.c).  LevelDB's own background thread compacts    *)
(* the files that the coroutines read.                                     *)
(*                                                                         *)
(* A probe can fire between any two instructions; the model lets it fire   *)
(* after every step of a coroutine.  A step is the code between two        *)
(* operations on mutexes, or one of them.                                  *)
(***************************************************************************)
EXTENDS Integers, FiniteSets, Sequences, Functions

CONSTANTS
  Workers,        \* worker threads
  Coros,          \* coroutines of all workers
  ThreadOf,       \* coroutine -> its worker
  JobTypes,       \* coroutine -> the types of the jobs it gets
  Tables,         \* table files of the database as it was opened, up to 0
  MaxVersion,     \* bound on the versions that compactions install
  MaxFile,        \* bound on the table files that they write
  Free, Background    \* no thread, and LevelDB's background thread

ASSUME PreemptionAssumption ==
  /\ IsFiniteSet(Coros) /\ ThreadOf \in [Coros -> Workers]
  /\ JobTypes \in [Coros -> SUBSET {"GET", "SCAN"}]
  /\ Free \notin Workers \cup {Background} /\ Background \notin Workers
  /\ Tables \subseteq {t \in Int : t <= 0} /\ MaxVersion \in Nat /\ MaxFile \in Nat

VARIABLES
  run,              \* worker -> the coroutine it runs, Free in its own loop
  busy_coros,       \* worker -> deque of coroutines that have a job
  pc,               \* coroutine -> what it does next
  job,              \* coroutine -> "GET" or "SCAN"
  sect,             \* coroutine -> the critical section it is about
  ver,              \* coroutine -> version it holds a reference to, or NoVersion
  owner,            \* mutex -> the thread that holds it (__data.__owner)
  current,          \* the current version; versions are numbered in order
  refs, files,      \* version -> its references, its table files
  needs,            \* NeedsCompaction: current has a file_to_compact_ or a score of 1
  disk,             \* table files that exist
  next_file_number, \* number of the next table file
  scheduled,        \* background_compaction_scheduled_
  bg_error,         \* bg_error_ is not ok
  queue,            \* length of background_work_queue_
  bg,               \* what the background thread does next
  input_version,    \* the version it compacts, or NoVersion
  built,            \* table files of the version it builds
  files_to_delete

loopVars == <<run, busy_coros>>
coroVars == <<pc, job, sect, ver>>
versionVars == <<current, refs, files, needs>>
bgVars == <<bg, input_version, built, files_to_delete, bg_error, disk, next_file_number>>
dbVars == <<versionVars, scheduled, queue, bgVars>>
vars == <<loopVars, coroVars, owner, dbVars>>

(* mutex_ of the database and background_work_mutex_ of its environment    *)
Mutexes == {"db", "work"}
NoVersion == -1
Versions == 0..MaxVersion
Thread(c) == ThreadOf[c]

(* Mutant of Ref: the reference is not counted.                            *)
RefUncounted(r, v) == r

Ref(r, v) == [r EXCEPT ![v] = @ + 1]
Unref(r, v) == [r EXCEPT ![v] = @ - 1]

(* A version that nothing refers to is deleted.                            *)
Live(r) == {v \in Versions : r[v] > 0}

(* Mutant of MustSchedule: a compaction that is under way does not count.  *)
MustScheduleAgain(already, need) == ~bg_error /\ need

(* MaybeScheduleCompaction goes on to Schedule.                            *)
MustSchedule(already, need) == ~already /\ ~bg_error /\ need

--------------------------------------------------------------------------------
(* The worker's loop around its coroutines.                                *)
Idle(w) == {c \in Coros : Thread(c) = w /\ pc[c] = "idle"}

Resume(w) ==
  /\ run[w] = Free /\ busy_coros[w] # <<>>
  /\ run' = [run EXCEPT ![w] = Head(busy_coros[w])]
  /\ busy_coros' = [busy_coros EXCEPT ![w] = Tail(@)]
  /\ UNCHANGED <<coroVars, owner, dbVars>>

(* New jobs go to the front.  When the loop polls is left open here; what  *)
(* the period of polling means is the subject of module Worker.            *)
Poll(w) ==
  /\ run[w] = Free
  /\ \E new \in (SUBSET Idle(w)) \ {{}} : \E kind \in [new -> {"GET", "SCAN"}] :
       /\ \A c \in new : kind[c] \in JobTypes[c]
       /\ \E order \in Bijection(1..Cardinality(new), new) :
            busy_coros' = [busy_coros EXCEPT ![w] = order \o @]
       /\ pc' = [c \in Coros |-> IF c \in new THEN "lock" ELSE pc[c]]
       /\ job' = [c \in Coros |-> IF c \in new THEN kind[c] ELSE job[c]]
       /\ sect' = [c \in Coros |-> IF c \in new THEN "open" ELSE sect[c]]
  /\ UNCHANGED <<run, ver, owner, dbVars>>

(* Mutant of Yields: a preempted coroutine comes first again.              *)
YieldsInFront(c) ==
  /\ run' = [run EXCEPT ![Thread(c)] = Free]
  /\ busy_coros' = [busy_coros EXCEPT ![Thread(c)] = <<c>> \o @]

(* call_the_yield: back to the loop, which puts the coroutine at the end.  *)
Yields(c) ==
  LET w == Thread(c)
  IN  /\ run' = [run EXCEPT ![w] = Free]
      /\ busy_coros' = [busy_coros EXCEPT ![w] = Append(@, c)]

(* After a step a probe may find the quantum used up.                      *)
Probe(c) ==
  \/ UNCHANGED loopVars
  \/ Yields(c)

(* Mutant of LockFree: a mutex that the own thread holds counts as taken.  *)
LockFreeOrOwn(c, m) == owner[m] \in {Free, Thread(c)}

(* __wrap_pthread_mutex_lock returns: the mutex is not held by the own     *)
(* thread and trylock does not answer EBUSY.                               *)
LockFree(c, m) == owner[m] # Thread(c) /\ owner[m] = Free

Acquire(c, m) == owner' = [owner EXCEPT ![m] = Thread(c)]
Release(m) == owner' = [owner EXCEPT ![m] = Free]
Goto(c, l) == pc' = [pc EXCEPT ![c] = l]

(* One call of __wrap_pthread_mutex_lock: it gets the mutex, or yields and *)
(* tries again in the next turn.                                           *)
Lock(c, from, m, to) ==
  /\ run[Thread(c)] = c /\ pc[c] = from
  /\ \/ LockFree(c, m) /\ Acquire(c, m) /\ Goto(c, to) /\ Probe(c)
     \/ ~LockFree(c, m) /\ Yields(c) /\ UNCHANGED <<pc, owner>>
  /\ UNCHANGED <<job, sect, ver, dbVars>>

LockDb(c) == Lock(c, "lock", "db", "crit")
LockWork(c) == Lock(c, "sched", "work", "enq")

(* The first section of Get, and NewInternalIterator.  The files are then  *)
(* read without the mutex, up to the next section: a scan may come to      *)
(* RecordReadSample, which the model bounds to once in a scan.             *)
RefCurrent(c) ==
  /\ run[Thread(c)] = c /\ pc[c] = "crit" /\ sect[c] = "open"
  /\ refs' = Ref(refs, current)
  /\ ver' = [ver EXCEPT ![c] = current]
  /\ \E next \in {"close"} \cup (IF job[c] = "SCAN" THEN {"sample"} ELSE {}) :
       sect' = [sect EXCEPT ![c] = next]
  /\ Release("db") /\ Goto(c, "lock") /\ Probe(c)
  /\ UNCHANGED <<job, current, files, needs, scheduled, queue, bgVars>>

(* The end of a later section; the last one of a job gives up its version. *)
EndSection(c) ==
  /\ IF sect[c] = "close"
     THEN /\ refs' = Unref(refs, ver[c])
          /\ ver' = [ver EXCEPT ![c] = NoVersion]
          /\ Goto(c, "done") /\ UNCHANGED sect
     ELSE /\ sect' = [sect EXCEPT ![c] = "close"]
          /\ Goto(c, "lock") /\ UNCHANGED <<ver, refs>>
  /\ Release("db") /\ UNCHANGED scheduled

(* The version whose statistics a section updates: that of the reader for  *)
(* Get, the current one for a sample, none when an iterator is closed.     *)
Counted(c) ==
  CASE sect[c] = "sample" -> {current}
    [] sect[c] = "close" /\ job[c] = "GET" -> {ver[c]}
    [] OTHER -> {}

(* The section ends, or UpdateStats finds that a file has used up its      *)
(* seeks and calls MaybeScheduleCompaction; the bound on versions stops    *)
(* that.                                                                   *)
Stats(c) ==
  /\ run[Thread(c)] = c /\ pc[c] = "crit" /\ sect[c] # "open"
  /\ \/ EndSection(c) /\ UNCHANGED needs
     \/ \E v \in Counted(c) :
          /\ current < MaxVersion /\ files[v] # {} /\ (v = current => ~needs)
          /\ needs' = (needs \/ v = current)
          /\ IF MustSchedule(scheduled, needs')
             THEN /\ scheduled' = TRUE
                  /\ Goto(c, "sched") /\ UNCHANGED <<sect, ver, owner, refs>>
             ELSE EndSection(c)
  /\ Probe(c) /\ UNCHANGED <<job, current, files, queue, bgVars>>

(* PosixEnv::Schedule, called with the mutex of the database held.         *)
Schedule(c) ==
  /\ run[Thread(c)] = c /\ pc[c] = "enq"
  /\ queue' = queue + 1
  /\ Release("work") /\ Goto(c, "leave") /\ Probe(c)
  /\ UNCHANGED <<job, sect, ver, versionVars, scheduled, bgVars>>

Leave(c) ==
  /\ run[Thread(c)] = c /\ pc[c] = "leave"
  /\ EndSection(c) /\ Probe(c)
  /\ UNCHANGED <<job, current, files, needs, queue, bgVars>>

(* yield(&yield) of coro: the loop sees that the job is finished.          *)
Finish(c) ==
  LET w == Thread(c)
  IN  /\ run[w] = c /\ pc[c] = "done"
      /\ run' = [run EXCEPT ![w] = Free]
      /\ job' = [job EXCEPT ![c] = "GET"] /\ sect' = [sect EXCEPT ![c] = "open"]
      /\ Goto(c, "idle")
      /\ UNCHANGED <<busy_coros, ver, owner, dbVars>>

CoroStep(c) ==
  \/ LockDb(c) \/ LockWork(c) \/ RefCurrent(c) \/ Stats(c)
  \/ Schedule(c) \/ Leave(c) \/ Finish(c)

--------------------------------------------------------------------------------
(* The background thread.  Its hook is dummy and its cp_pid is not its own *)
(* id, so that it spins on a mutex that is held.                           *)
BgLock(m) == owner[m] = Free /\ owner' = [owner EXCEPT ![m] = Background]
BgAt(l) == bg = l /\ UNCHANGED <<loopVars, coroVars>>

(* BackgroundThreadMain: take the work, with the wait for it.              *)
BgWait ==
  /\ BgAt("wait") /\ queue > 0 /\ BgLock("work") /\ bg' = "pop"
  /\ UNCHANGED <<versionVars, scheduled, queue, input_version, built,
                 files_to_delete, bg_error, disk, next_file_number>>
BgPop ==
  /\ BgAt("pop") /\ queue' = queue - 1 /\ Release("work") /\ bg' = "call"
  /\ UNCHANGED <<versionVars, scheduled, input_version, built,
                 files_to_delete, bg_error, disk, next_file_number>>

(* BackgroundCall up to the choice of a compaction in BackgroundCompaction *)
BgCall ==
  /\ BgAt("call") /\ BgLock("db")
  /\ bg' = IF bg_error \/ ~needs THEN "finish" ELSE "pick"
  /\ UNCHANGED <<versionVars, scheduled, queue, input_version, built,
                 files_to_delete, bg_error, disk, next_file_number>>

(* PickCompaction.  A trivial move writes a version with the same files on *)
(* other levels; otherwise DoCompactionWork merges.  Both unlock first.    *)
BgPick ==
  /\ BgAt("pick") /\ Release("db")
  /\ refs' = Ref(refs, current) /\ input_version' = current
  /\ \/ bg' = "merge" /\ built' = built
     \/ bg' = "move" /\ built' = files[current]
  /\ UNCHANGED <<current, files, needs, scheduled, queue, files_to_delete,
                 bg_error, disk, next_file_number>>

(* OpenCompactionOutputFile, with the mutex for a moment, and the file:    *)
(* once for each output of the merge, and never for one that drops all     *)
(* entries.                                                                *)
BgOpen ==
  /\ BgAt("merge") /\ owner["db"] = Free
  /\ next_file_number <= MaxFile /\ next_file_number' = next_file_number + 1
  /\ disk' = disk \cup {next_file_number} /\ built' = built \cup {next_file_number}
  /\ UNCHANGED <<bg, owner, versionVars, scheduled, queue, input_version,
                 files_to_delete, bg_error>>

(* InstallCompactionResults and LogAndApply up to the write to the         *)
(* MANIFEST, for which the mutex is released.                              *)
BgInstall ==
  /\ BgAt("merge") /\ owner["db"] = Free
  /\ \E inputs \in (SUBSET files[current]) \ {{}} :
       built' = (files[current] \ inputs) \cup built
  /\ bg' = "manifest"
  /\ UNCHANGED <<owner, versionVars, scheduled, queue, input_version,
                 files_to_delete, bg_error, disk, next_file_number>>

(* A file cannot be opened, merged or written, or the MANIFEST cannot:     *)
(* RecordBackgroundError, after which nothing is removed.                  *)
BgFail ==
  /\ bg \in {"merge", "manifest", "move"} /\ BgAt(bg) /\ BgLock("db")
  /\ bg_error' = TRUE /\ bg' = "finish"
  /\ refs' = Unref(refs, input_version) /\ input_version' = NoVersion
  /\ built' = {}
  /\ UNCHANGED <<current, files, needs, scheduled, queue, files_to_delete, disk,
                 next_file_number>>

(* Mutant of ToDelete: only the files of the current version are kept.     *)
ToDeleteOthers(r, f, v) == disk \ f[v]

(* files_to_delete of RemoveObsoleteFiles: what no live version has.  The  *)
(* outputs of the only compaction have left pending_outputs_ by then.      *)
ToDelete(r, f, v) == disk \ UNION {f[u] : u \in Live(r)}

(* The rest of LogAndApply: AppendVersion.  The new version may be in need *)
(* of compaction itself.  Then CleanupCompaction, ReleaseInputs and the    *)
(* first half of RemoveObsoleteFiles, which a trivial move skips.          *)
BgApply ==
  /\ bg \in {"manifest", "move"} /\ BgAt(bg) /\ owner["db"] = Free
  /\ current' = current + 1
  /\ files' = [files EXCEPT ![current'] = built]
  /\ refs' = Unref(Unref([refs EXCEPT ![current'] = 1], current), input_version)
  /\ needs' \in BOOLEAN /\ (needs' => current' < MaxVersion /\ built # {})
  /\ input_version' = NoVersion /\ built' = {}
  /\ IF bg = "move"
     THEN bg' = "finish" /\ BgLock("db") /\ UNCHANGED files_to_delete
     ELSE /\ bg' = "delete" /\ UNCHANGED owner
          /\ files_to_delete' = ToDelete(refs', files', current')
  /\ UNCHANGED <<scheduled, queue, bg_error, disk, next_file_number>>

(* The second half, without the mutex, and the end of it.                  *)
BgDelete ==
  /\ BgAt("delete") /\ bg' = "relock"
  /\ disk' = disk \ files_to_delete /\ files_to_delete' = {}
  /\ UNCHANGED <<owner, versionVars, scheduled, queue, input_version, built, bg_error,
                 next_file_number>>
BgRelock ==
  /\ BgAt("relock") /\ BgLock("db") /\ bg' = "finish"
  /\ UNCHANGED <<versionVars, scheduled, queue, input_version, built,
                 files_to_delete, bg_error, disk, next_file_number>>

(* The end of BackgroundCall, and its own call of Schedule.                *)
BgFinish ==
  /\ BgAt("finish")
  /\ IF MustSchedule(FALSE, needs)
     THEN bg' = "sched" /\ UNCHANGED <<owner, scheduled>>
     ELSE bg' = "wait" /\ Release("db") /\ scheduled' = FALSE
  /\ UNCHANGED <<versionVars, queue, input_version, built, files_to_delete,
                 bg_error, disk, next_file_number>>
BgSchedule ==
  /\ BgAt("sched") /\ owner["work"] = Free
  /\ queue' = queue + 1 /\ bg' = "wait" /\ Release("db")
  /\ UNCHANGED <<versionVars, scheduled, input_version, built, files_to_delete,
                 bg_error, disk, next_file_number>>

BgStep ==
  \/ BgWait \/ BgPop \/ BgCall \/ BgPick \/ BgOpen \/ BgInstall \/ BgFail
  \/ BgApply \/ BgDelete \/ BgRelock \/ BgFinish \/ BgSchedule

--------------------------------------------------------------------------------
(* DB::Open has run: it schedules a compaction if the database needs one.  *)
Init ==
  /\ run = [w \in Workers |-> Free]
  /\ busy_coros = [w \in Workers |-> <<>>]
  /\ pc = [c \in Coros |-> "idle"]
  /\ job = [c \in Coros |-> "GET"] /\ sect = [c \in Coros |-> "open"]
  /\ ver = [c \in Coros |-> NoVersion]
  /\ owner = [m \in Mutexes |-> Free]
  /\ current = 0
  /\ needs \in BOOLEAN /\ (needs => MaxVersion > 0 /\ Tables # {})
  /\ scheduled = needs /\ queue = IF needs THEN 1 ELSE 0
  /\ refs = [v \in Versions |-> IF v = 0 THEN 1 ELSE 0]
  /\ files = [v \in Versions |-> IF v = 0 THEN Tables ELSE {}]
  /\ disk = Tables /\ next_file_number = 1 /\ bg_error = FALSE
  /\ bg = "wait" /\ input_version = NoVersion
  /\ built = {} /\ files_to_delete = {}

WorkerStep(w) ==
  \/ Resume(w)
  \/ \E c \in Coros : Thread(c) = w /\ CoroStep(c)

Next == BgStep \/ \E w \in Workers : WorkerStep(w) \/ Poll(w)

(* Every thread has a core of its own, and what it runs ends or spins.     *)
(* Nothing makes a client send jobs.                                       *)
Fairness == WF_vars(BgStep) /\ \A w \in Workers : WF_vars(WorkerStep(w))

Spec == Init /\ [][Next]_vars
FairSpec == Spec /\ Fairness

--------------------------------------------------------------------------------
TypeOK ==
  /\ run \in [Workers -> Coros \cup {Free}]
  /\ busy_coros \in [Workers -> Seq(Coros)]
  /\ pc \in [Coros -> {"idle", "lock", "crit", "sched", "enq", "leave", "done"}]
  /\ job \in [Coros -> {"GET", "SCAN"}]
  /\ sect \in [Coros -> {"open", "sample", "close"}]
  /\ ver \in [Coros -> Versions \cup {NoVersion}]
  /\ owner \in [Mutexes -> Workers \cup {Free, Background}]
  /\ current \in Versions /\ refs \in [Versions -> Nat] /\ needs \in BOOLEAN
  /\ files \in [Versions -> SUBSET Int] /\ disk \subseteq Int /\ next_file_number \in Nat
  /\ built \subseteq Int /\ files_to_delete \subseteq Int
  /\ scheduled \in BOOLEAN /\ bg_error \in BOOLEAN /\ queue \in Nat
  /\ bg \in {"wait", "pop", "call", "pick", "merge", "move", "manifest",
             "delete", "relock", "finish", "sched"}
  /\ input_version \in Versions \cup {NoVersion}

(* Where a coroutine, and the background thread, hold a mutex.             *)
Holds(c, m) ==
  \/ m = "db" /\ pc[c] \in {"crit", "sched", "enq", "leave"}
  \/ m = "work" /\ pc[c] = "enq"
BgHolds(m) ==
  \/ m = "db" /\ bg \in {"pick", "finish", "sched"}
  \/ m = "work" /\ bg = "pop"

(* Mutual exclusion of coroutines, although a mutex belongs to a thread    *)
(* and all coroutines of a worker are one thread: no two coroutines, and   *)
(* no coroutine and the background thread, are inside a section of the     *)
(* same mutex, suspended or not, and __owner names the holder's thread     *)
(* (__wrap_pthread_mutex_lock).                                            *)
Exclusion ==
  \A m \in Mutexes :
    /\ \A c \in Coros : Holds(c, m) =>
         /\ owner[m] = Thread(c)
         /\ \A d \in Coros \ {c} : ~Holds(d, m)
    /\ BgHolds(m) => owner[m] = Background

(* Nothing that a suspended or running read refers to goes away: the count *)
(* of every version is the number of its holders, and all files of a       *)
(* version that a coroutine holds exist, while compactions install new     *)
(* versions and RemoveObsoleteFiles deletes files without the mutex.       *)
ReadsKept ==
  /\ \A v \in Versions :
       refs[v] = Cardinality({c \in Coros : ver[c] = v})
                      + (IF current = v THEN 1 ELSE 0)
                      + (IF input_version = v THEN 1 ELSE 0)
  /\ \A c \in Coros : ver[c] # NoVersion => files[ver[c]] \subseteq disk

(* background_compaction_scheduled_ stands for exactly one compaction, on  *)
(* its way to the queue, in it, or being run (the assertion of             *)
(* BackgroundCall), so there is never a second one beside it.              *)
OneCompaction ==
  LET scheduling == Cardinality({c \in Coros : pc[c] \in {"sched", "enq"}})
      running == IF bg \in {"wait", "pop"} THEN 0 ELSE 1
  IN  scheduling + queue + running = IF scheduled THEN 1 ELSE 0

(* Preemption inside critical sections never stops the server: once there  *)
(* is a job, some job finishes, although a coroutine that waits for a      *)
(* mutex may wait for a coroutine that is suspended behind it.             *)
JobsFinish == (\E c \in Coros : pc[c] # "idle") ~> (\E c \in Coros : pc[c] = "done")
================================================================================
