----------------------------- MODULE FileWriter -----------------------------
(***************************************************************************)
(* The debounced autosave of src-c/file_writer.c.  The server thread calls *)
(* file_writer_schedule_save, which replaces the one pending save and      *)
(* starts a detached thread; that thread sleeps until its own deadline and *)
(* then writes the pending save, unless a newer call has moved the         *)
(* deadline on.  A write goes to a temporary file beside the target, is    *)
(* fsynced, and is renamed over the target.                                *)
(*                                                                         *)
(* Content is abstracted to the number of the call that scheduled it: save *)
(* n is the n-th call.  A file is an image: the save it holds, and how far *)
(* that save got towards the disk.                                         *)
(***************************************************************************)
EXTENDS Integers

CONSTANTS
    Paths,       \* targets a save may name
    NoPath,      \* the NULL path
    MaxSaves,    \* bound: calls of file_writer_schedule_save
    Debounce,    \* DEBOUNCE_MS, in ticks of the clock
    MaxTime,     \* bound: the monotonic clock
    MaxCrashes,  \* bound: deaths of the process or of the machine
    MaxFaults    \* bound: failing mallocs, thread creations and I/O calls

ASSUME ConstantsAssumption ==
    /\ NoPath \notin Paths
    /\ MaxSaves \in Nat \ {0}
    /\ Debounce \in Nat \ {0}
    /\ MaxTime \in Nat
    /\ MaxCrashes \in Nat
    /\ MaxFaults \in Nat

VARIABLES
    now,             \* get_time_ms()
    main,            \* the server thread: in accept(), or inside schedule_save
    request,         \* the target_path argument of the current call
    stateLock,       \* holder of state_mutex
    writeLock,       \* holder of write_mutex
    pendingPath,     \* pending_path
    pendingContent,  \* pending_content, 0 is NULL
    pendingDeadline, \* pending_deadline
    pc,              \* pc[n]: where the worker started by call n is
    deadline,        \* deadline[n]: that worker's my_deadline
    path,            \* path[n], content[n]: the buffers that worker took
    content,
    target,          \* target[p]: the image the name p shows
    journal,         \* journal[p]: images the name p may show after power loss
    tmp,             \* tmp[p]: the image get_tmp_path(p) names
    saves,           \* history: calls so far
    pathOf,          \* history: the path of each call
    calledAt,        \* history: the time of each call
    committed,       \* history: the saves that have been renamed into place
    takenAt,         \* history: when a worker took the pending save
    crashes,         \* history: deaths so far
    faults           \* history: failed library calls so far

memory  == <<main, request, stateLock, writeLock, pendingPath, pendingContent, pendingDeadline>>
workers == <<pc, deadline, path, content, takenAt>>
files   == <<target, journal, tmp>>
calls   == <<saves, pathOf, calledAt>>
history == <<calls, committed, crashes, faults>>
vars    == <<now, memory, workers, files, history>>

Saves   == 1..MaxSaves
Nobody  == 0
Server  == -1
Threads == Saves \cup {Server}

\* "full" is complete in the page cache, "synced" complete on the disk too.
Stages  == {"empty", "partial", "full", "synced"}
Images  == [save : 0..MaxSaves, stage : Stages]
NoImage == [save |-> 0, stage |-> "empty"]
Original == [save |-> 0, stage |-> "synced"]

\* Program counters of debounce_worker, and those at which it owns write_mutex.
Waiting == {"lock", "check", "sleep"}
Owning  == {"open", "write", "finish", "sync", "rename", "remove", "release"}
Busy    == {"acquire"} \cup Owning
Coming  == Busy \ {"remove", "release"}   \* the rename is still to come
PCs     == Waiting \cup Busy \cup {"unborn", "done"}

TypeOK ==
    /\ now \in 0..MaxTime
    /\ main \in {"accept", "replace", "spawn"}
    /\ request \in Paths \cup {NoPath}
    /\ stateLock \in Threads \cup {Nobody}
    /\ writeLock \in Saves \cup {Nobody}
    /\ pendingPath \in Paths \cup {NoPath}
    /\ pendingContent \in 0..MaxSaves
    /\ pendingDeadline \in Nat
    /\ pc \in [Saves -> PCs]
    /\ deadline \in [Saves -> Nat]
    /\ path \in [Saves -> Paths \cup {NoPath}]
    /\ content \in [Saves -> 0..MaxSaves]
    /\ takenAt \in [Saves -> 0..MaxTime]
    /\ target \in [Paths -> Images]
    /\ journal \in [Paths -> SUBSET Images]
    /\ tmp \in [Paths -> Images]
    /\ saves \in 0..MaxSaves
    /\ pathOf \in [Saves -> Paths \cup {NoPath}]
    /\ calledAt \in [Saves -> 0..MaxTime]
    /\ committed \in SUBSET (0..MaxSaves)
    /\ crashes \in 0..MaxCrashes
    /\ faults \in 0..MaxFaults

Init ==
    /\ now = 0
    /\ main = "accept"
    /\ request = NoPath
    /\ stateLock = Nobody
    /\ writeLock = Nobody
    /\ pendingPath = NoPath
    /\ pendingContent = 0
    /\ pendingDeadline = 0
    /\ pc = [n \in Saves |-> "unborn"]
    /\ deadline = [n \in Saves |-> 0]
    /\ path = [n \in Saves |-> NoPath]
    /\ content = [n \in Saves |-> 0]
    /\ takenAt = [n \in Saves |-> 0]
    /\ target = [p \in Paths |-> Original]
    /\ journal = [p \in Paths |-> {Original}]
    /\ tmp = [p \in Paths |-> NoImage]
    /\ saves = 0
    /\ pathOf = [n \in Saves |-> NoPath]
    /\ calledAt = [n \in Saves |-> 0]
    /\ committed = {}
    /\ crashes = 0
    /\ faults = 0

-----------------------------------------------------------------------------
\* A library call fails: one of the bounded number of faults is spent.
Fails ==
    /\ faults < MaxFaults
    /\ faults' = faults + 1

\* Faults spent by a malloc that may fail.
Cost(succeeds) == IF succeeds THEN 0 ELSE 1

\* Mutants of NextDeadline: no uniqueness, no delay, the wrong sign.
NextDeadlineUnbumped == now + Debounce
NextDeadlineUndelayed == IF now <= pendingDeadline THEN pendingDeadline + 1 ELSE now
NextDeadlineSubtracted == now - Debounce

\* The deadline a call computes; the first case keeps deadlines unique.

NextDeadline ==
    IF now + Debounce <= pendingDeadline THEN pendingDeadline + 1 ELSE now + Debounce

\* Bound: there is time left before MaxTime for the deadline of a call made now.
Room == now + Debounce + MaxSaves <= MaxTime

\* The server thread enters file_writer_schedule_save(p, ...).
ScheduleLock(p) ==
    /\ main = "accept"
    /\ saves < MaxSaves
    /\ Room
    /\ stateLock = Nobody
    /\ stateLock' = Server
    /\ main' = "replace"
    /\ request' = p
    /\ saves' = saves + 1
    /\ pathOf' = [pathOf EXCEPT ![saves + 1] = p]
    /\ calledAt' = [calledAt EXCEPT ![saves + 1] = now]
    /\ UNCHANGED <<now, writeLock, pendingPath, pendingContent, pendingDeadline,
                   workers, files, committed, crashes, faults>>

\* It frees the pending buffers, whatever path they are for, and copies its own
\* arguments; each of the two copies may fail.
ScheduleReplace ==
    /\ main = "replace"
    /\ \E pathCopied, contentCopied \in BOOLEAN :
          /\ pendingPath' = IF pathCopied THEN request ELSE NoPath
          /\ pendingContent' = IF contentCopied THEN saves ELSE 0
          /\ faults' = faults + Cost(pathCopied) + Cost(contentCopied)
          /\ faults' <= MaxFaults
    /\ pendingDeadline' = NextDeadline
    /\ main' = "spawn"
    /\ UNCHANGED <<now, request, stateLock, writeLock, workers, files, calls, committed, crashes>>

\* It starts the worker, which fails silently when malloc or pthread_create
\* does, and unlocks.  (After a failed pthread_create the code detaches an
\* uninitialized handle; the outcomes are no effect or the death of the
\* process, and the latter is Kill.)
ScheduleSpawn ==
    /\ main = "spawn"
    /\ \/ /\ pc' = [pc EXCEPT ![saves] = "lock"]
          /\ deadline' = [deadline EXCEPT ![saves] = pendingDeadline]
          /\ UNCHANGED faults
       \/ /\ Fails
          /\ pc' = [pc EXCEPT ![saves] = "done"]
          /\ UNCHANGED deadline
    /\ stateLock' = Nobody
    /\ main' = "accept"
    /\ request' = NoPath
    /\ UNCHANGED <<now, writeLock, pendingPath, pendingContent, pendingDeadline,
                   path, content, takenAt, files, calls, committed, crashes>>

-----------------------------------------------------------------------------
\* The worker moves to s and touches nothing but its program counter.
Goto(n, s) == pc' = [pc EXCEPT ![n] = s]

WorkerLock(n) ==
    /\ pc[n] = "lock"
    /\ stateLock = Nobody
    /\ stateLock' = n
    /\ Goto(n, "check")
    /\ UNCHANGED <<now, main, request, writeLock, pendingPath, pendingContent, pendingDeadline,
                   deadline, path, content, takenAt, files, history>>

\* Too early: unlock and sleep for the time that is left.
WorkerWait(n) ==
    /\ pc[n] = "check"
    /\ now < deadline[n]
    /\ stateLock' = Nobody
    /\ Goto(n, "sleep")
    /\ UNCHANGED <<now, main, request, writeLock, pendingPath, pendingContent, pendingDeadline,
                   deadline, path, content, takenAt, files, history>>

\* nanosleep returns, possibly early: the loop looks at the clock again.
WorkerWake(n) ==
    /\ pc[n] = "sleep"
    /\ Goto(n, "lock")
    /\ UNCHANGED <<now, memory, deadline, path, content, takenAt, files, history>>

\* Mutant of Superseded: every worker whose time has come takes.
SupersededNever(n) == FALSE

Superseded(n) == deadline[n] # pendingDeadline

\* Mutants of WorkerSuperseded: the thread ends without unlocking; it frees the
\* pending buffers on its way out.
WorkerSupersededLocked(n) ==
    /\ pc[n] = "check"
    /\ now >= deadline[n]
    /\ Superseded(n)
    /\ Goto(n, "done")
    /\ UNCHANGED <<now, memory, deadline, path, content, takenAt, files, history>>

WorkerSupersededFreeing(n) ==
    /\ pc[n] = "check"
    /\ now >= deadline[n]
    /\ Superseded(n)
    /\ pendingPath' = NoPath
    /\ pendingContent' = 0
    /\ stateLock' = Nobody
    /\ Goto(n, "done")
    /\ UNCHANGED <<now, main, request, writeLock, pendingDeadline,
                   deadline, path, content, takenAt, files, history>>

\* A newer schedule has superseded this worker: it exits without writing.
WorkerSuperseded(n) ==
    /\ pc[n] = "check"
    /\ now >= deadline[n]
    /\ Superseded(n)
    /\ stateLock' = Nobody
    /\ Goto(n, "done")
    /\ UNCHANGED <<now, main, request, writeLock, pendingPath, pendingContent, pendingDeadline,
                   deadline, path, content, takenAt, files, history>>

\* The worker moves the pending buffers to its own variables and unlocks;
\* state_mutex no longer orders it with the other workers.
WorkerTake(n) ==
    /\ pc[n] = "check"
    /\ now >= deadline[n]
    /\ ~Superseded(n)
    /\ path' = [path EXCEPT ![n] = pendingPath]
    /\ content' = [content EXCEPT ![n] = pendingContent]
    /\ takenAt' = [takenAt EXCEPT ![n] = now]
    /\ pendingPath' = NoPath
    /\ pendingContent' = 0
    /\ stateLock' = Nobody
    /\ Goto(n, IF pendingPath # NoPath /\ pendingContent # 0 THEN "acquire" ELSE "done")
    /\ UNCHANGED <<now, main, request, writeLock, pendingDeadline, deadline, files, history>>

-----------------------------------------------------------------------------
\* file_writer_atomic_write, under write_mutex.

\* Mutant of WriteMutexFree: writes are not serialized.
WriteMutexIgnored == TRUE

WriteMutexFree == writeLock = Nobody

WorkerAcquire(n) ==
    /\ pc[n] = "acquire"
    /\ WriteMutexFree
    /\ writeLock' = n
    /\ Goto(n, "open")
    /\ UNCHANGED <<now, main, request, stateLock, pendingPath, pendingContent, pendingDeadline,
                   deadline, path, content, takenAt, files, history>>

\* One call of the write sequence: it puts image into the temporary file and
\* moves on, or fails and moves to onError leaving what image f shows.
WriteStep(n, from, image, next, onError) ==
    /\ pc[n] = from
    /\ \/ /\ tmp' = [tmp EXCEPT ![path[n]] = image]
          /\ Goto(n, next)
          /\ UNCHANGED faults
       \/ /\ Fails
          /\ Goto(n, onError)
          /\ UNCHANGED tmp
    /\ UNCHANGED <<now, memory, deadline, path, content, takenAt,
                   target, journal, calls, committed, crashes>>

Image(n, stage) == [save |-> content[n], stage |-> stage]

\* fopen(tmp, "wb") truncates the file; a failure (or a name too long for the
\* buffer) gives up with nothing to remove.
WorkerOpen(n) == WriteStep(n, "open", Image(n, "empty"), "write", "release")

\* fwrite and fflush: the page cache holds part of the content, then all of it.
WorkerWrite(n) == WriteStep(n, "write", Image(n, "partial"), "finish", "remove")
WorkerFinish(n) == WriteStep(n, "finish", Image(n, "full"), "sync", "remove")

\* Mutant of WorkerSync: no fsync before the rename.
WorkerSyncSkipped(n) == WriteStep(n, "sync", Image(n, "full"), "rename", "remove")

WorkerSync(n) == WriteStep(n, "sync", Image(n, "synced"), "rename", "remove")

\* rename replaces the target in one step.  The directory is not fsynced, so
\* after power loss the name may still show an earlier image.
WorkerRename(n) ==
    /\ pc[n] = "rename"
    /\ \/ /\ tmp[path[n]] # NoImage
          /\ target' = [target EXCEPT ![path[n]] = tmp[path[n]]]
          /\ journal' = [journal EXCEPT ![path[n]] = @ \cup {tmp[path[n]]}]
          /\ tmp' = [tmp EXCEPT ![path[n]] = NoImage]
          /\ committed' = committed \cup {content[n]}
          /\ Goto(n, "release")
          /\ UNCHANGED faults
       \/ /\ Fails
          /\ Goto(n, "remove")
          /\ UNCHANGED <<files, committed>>
    /\ UNCHANGED <<now, memory, deadline, path, content, takenAt, calls, crashes>>

WorkerRemove(n) ==
    /\ pc[n] = "remove"
    /\ tmp' = [tmp EXCEPT ![path[n]] = NoImage]
    /\ Goto(n, "release")
    /\ UNCHANGED <<now, memory, deadline, path, content, takenAt, target, journal, history>>

\* Unlock write_mutex, free the buffers and let the thread end.
WorkerRelease(n) ==
    /\ pc[n] = "release"
    /\ writeLock' = Nobody
    /\ path' = [path EXCEPT ![n] = NoPath]
    /\ content' = [content EXCEPT ![n] = 0]
    /\ Goto(n, "done")
    /\ UNCHANGED <<now, main, request, stateLock, pendingPath, pendingContent, pendingDeadline,
                   deadline, takenAt, files, history>>

-----------------------------------------------------------------------------
\* The environment.

\* Bound: the clock stops at MaxTime, and earlier while a call has yet to read it.
Tick ==
    /\ now < MaxTime
    /\ now' = now + 1
    /\ main = "replace" => Room'
    /\ UNCHANGED <<memory, workers, files, history>>

\* The kernel commits the directory: only the current image can be shown.
Commit(p) ==
    /\ journal[p] # {target[p]}
    /\ journal' = [journal EXCEPT ![p] = {target[p]}]
    /\ UNCHANGED <<now, memory, workers, target, tmp, history>>

\* Every thread of the process dies; a new process starts with fresh memory.
Restart ==
    /\ crashes < MaxCrashes
    /\ crashes' = crashes + 1
    /\ main' = "accept"
    /\ request' = NoPath
    /\ stateLock' = Nobody
    /\ writeLock' = Nobody
    /\ pendingPath' = NoPath
    /\ pendingContent' = 0
    /\ pendingDeadline' = 0
    /\ pc' = [n \in Saves |-> IF n <= saves THEN "done" ELSE "unborn"]
    /\ path' = [n \in Saves |-> NoPath]
    /\ content' = [n \in Saves |-> 0]
    /\ UNCHANGED <<deadline, takenAt, calls, committed, faults>>

\* The process ends: main returns after SIGINT or SIGTERM, or it is killed.
\* Files keep what the page cache holds; a temporary file may stay behind.
Kill ==
    /\ Restart
    /\ UNCHANGED <<now, files>>

\* What is not on the disk yet is lost: the file keeps its name and its length
\* at best.
Remains(image) ==
    IF image.stage = "synced" THEN image ELSE [image EXCEPT !.stage = "partial"]

\* The machine stops: each name shows one of the images its directory entry may
\* have had on the disk.  The monotonic clock restarts with the machine.
PowerLoss ==
    /\ Restart
    /\ now' = 0
    /\ \E shown \in [Paths -> UNION {journal[p] : p \in Paths}] :
          /\ \A p \in Paths : shown[p] \in journal[p]
          /\ target' = [p \in Paths |-> Remains(shown[p])]
          /\ journal' = [p \in Paths |-> {Remains(shown[p])}]
    /\ \E lost \in SUBSET Paths :
          tmp' = [p \in Paths |-> IF p \in lost \/ tmp[p] = NoImage THEN NoImage
                                  ELSE Remains(tmp[p])]

\* Every call has returned and every worker has ended: the server waits in
\* accept().
Quiescent ==
    /\ main = "accept"
    /\ \A n \in Saves : pc[n] \in {"unborn", "done"}
    /\ UNCHANGED vars

Worker(n) ==
    \/ WorkerLock(n) \/ WorkerWait(n) \/ WorkerWake(n)
    \/ WorkerSuperseded(n) \/ WorkerTake(n)
    \/ WorkerAcquire(n) \/ WorkerOpen(n) \/ WorkerWrite(n) \/ WorkerFinish(n)
    \/ WorkerSync(n) \/ WorkerRename(n) \/ WorkerRemove(n) \/ WorkerRelease(n)

Schedule ==
    \/ \E p \in Paths : ScheduleLock(p)
    \/ ScheduleReplace
    \/ ScheduleSpawn

Environment ==
    \/ Tick
    \/ \E p \in Paths : Commit(p)
    \/ Kill
    \/ PowerLoss

Next ==
    \/ Schedule
    \/ \E n \in Saves : Worker(n)
    \/ Environment
    \/ Quiescent

Spec == Init /\ [][Next]_vars

-----------------------------------------------------------------------------
(***************************************************************************)
(* Safety.                                                                 *)
(***************************************************************************)

\* Whenever the target is looked at, during a write, after a crash or after
\* power loss, it holds all of one save, and that save named this target: the
\* promise of file_writer_atomic_write.
TargetWhole ==
    \A p \in Paths :
        /\ target[p].stage \in {"full", "synced"}
        /\ target[p].save # 0 => pathOf[target[p].save] = p

\* "Ensure strictly monotonic deadlines so each thread has a unique
\* identifier": no two workers that still compare their deadline with
\* pending_deadline have the same one, so at most one of them may take.
UniqueDeadlines ==
    \A m, n \in Saves :
        pc[m] \in Waiting /\ pc[n] \in Waiting /\ deadline[m] = deadline[n] => m = n

\* As long as no library call failed and nothing crashed, the newest save is
\* pending with its own worker still to come, or in that worker's hands, or has
\* been written: no interleaving of the supersede test and the take forgets it.
NewestNotForgotten ==
    main = "accept" /\ saves > 0 /\ faults = 0 /\ crashes = 0 =>
        \/ /\ pendingContent = saves
           /\ pendingPath = pathOf[saves]
           /\ pc[saves] \in Waiting
           /\ deadline[saves] = pendingDeadline
        \/ /\ pc[saves] \in Coming
           /\ content[saves] = saves
           /\ path[saves] = pathOf[saves]
        \/ saves \in committed

\* A worker takes a save only after Debounce ticks without any call, whichever
\* thread it is and however late or early it wakes up: what "debounced" promises.
DebounceHonoured ==
    [][\A n \in Saves :
          pc[n] = "check" /\ pc'[n] = "acquire" => now >= calledAt[saves] + Debounce]_vars

\* The content of a file goes back to an older save only by power loss.  The
\* code does not ensure it: see PromptSpec.
NoRegress ==
    [][\A p \in Paths :
          target'[p].save >= target[p].save \/ crashes' # crashes]_vars

(***************************************************************************)
(* The debounce orders two writes of the same file when each of them is    *)
(* over before a further Debounce has passed since its save was taken.     *)
(* Nothing in the code ensures that: PromptSpec assumes it.                *)
(***************************************************************************)
WritesPrompt ==
    \A n \in Saves : pc'[n] \in Busy => now' < takenAt'[n] + Debounce

PromptNext == Next /\ WritesPrompt

PromptSpec == Init /\ [][PromptNext]_vars

(***************************************************************************)
(* Liveness.  The scheduler runs every thread that can run and the clock   *)
(* goes on.  A mutex is taken at most once by each of finitely many        *)
(* threads after their deadlines, so weak fairness is enough.              *)
(***************************************************************************)
Fairness ==
    /\ WF_vars(ScheduleReplace \/ ScheduleSpawn)
    /\ \A n \in Saves : WF_vars(Worker(n))
    /\ WF_vars(Tick /\ WritesPrompt)

PromptFairSpec == PromptSpec /\ Fairness

\* A save is written or superseded by a newer call: the worker that carries it
\* is never stuck behind a mutex or asleep for ever.
SaveLands ==
    \A n \in Saves : saves = n ~> n \in committed \/ saves > n

\* In the end the file the last call named holds what that call gave, and it
\* stays: no older write that was still under way puts its content back.
LastSaveStays ==
    <>[](saves > 0 => target[pathOf[saves]].save = saves)

-----------------------------------------------------------------------------
(***************************************************************************)
(* What the writer promises to its caller: AutosaveStore.                  *)
(***************************************************************************)
Store == INSTANCE AutosaveStore WITH
    MaxRequests <- MaxSaves,
    requests <- saves,
    named <- pathOf,
    kept <- committed,
    file <- [p \in Paths |-> IF target[p].stage \in {"full", "synced"}
                             THEN target[p].save ELSE -1]

\* Every step of the threads, of the file system and of a crash is a step of
\* the store, or none: a file only ever jumps from one whole save to another,
\* and a save is put in place at most once.
StoreSpec == Store!Spec

-----------------------------------------------------------------------------
(***************************************************************************)
(* The inductive invariant behind the safety properties.                   *)
(***************************************************************************)

\* Who holds the mutexes is visible in the program counters.
MutexInv ==
    /\ stateLock = Server <=> main # "accept"
    /\ \A n \in Saves : stateLock = n <=> pc[n] = "check"
    /\ \A n \in Saves : writeLock = n <=> pc[n] \in Owning

\* The calls so far, and the one under way.
CallInv ==
    /\ \A n \in Saves : n > saves => pc[n] = "unborn"
    /\ \A n \in Saves : n <= saves => pathOf[n] \in Paths
    /\ main # "accept" =>
          saves > 0 /\ pc[saves] = "unborn" /\ request = pathOf[saves] /\ calledAt[saves] <= now

\* What is pending belongs to the newest call, which has a deadline of its own.
PendingInv ==
    /\ main # "replace" =>
          /\ pendingContent \in {0, saves}
          /\ pendingPath # NoPath /\ pendingContent # 0 => pendingPath = pathOf[saves]
    /\ main = "spawn" =>
          /\ pendingDeadline >= calledAt[saves] + Debounce
          /\ faults = 0 => pendingContent = saves /\ pendingPath = pathOf[saves]

\* The deadlines of the waiting workers grow with the calls; only the worker of
\* the newest call has the one in pending_deadline.
DeadlineInv ==
    /\ \A n \in Saves : pc[n] \in Waiting =>
          /\ deadline[n] <= pendingDeadline
          /\ deadline[n] >= calledAt[n] + Debounce
          /\ main = "spawn" => deadline[n] < pendingDeadline
          /\ main = "accept" /\ deadline[n] = pendingDeadline => n = saves
    /\ \A m, n \in Saves :
          pc[m] \in Waiting /\ pc[n] \in Waiting /\ m < n => deadline[m] < deadline[n]

\* A worker in the write sequence holds its own save, not yet in place before
\* the rename, and it is on the disk by then.
HandsInv ==
    \A n \in Saves :
        /\ pc[n] \in Busy => content[n] = n /\ path[n] = pathOf[n] /\ n <= saves
        /\ pc[n] = "rename" => tmp[path[n]] = Image(n, "synced")
        /\ n \in committed => pc[n] \in {"release", "done"} /\ n <= saves

\* Every image a name may show is on the disk and was scheduled for that name.
JournalInv ==
    \A p \in Paths :
        /\ target[p] \in journal[p]
        /\ \A i \in journal[p] :
              /\ i.stage = "synced"
              /\ i.save # 0 => i.save \in committed /\ pathOf[i.save] = p

Inv == MutexInv /\ CallInv /\ PendingInv /\ DeadlineInv /\ HandsInv /\ JournalInv

\* Under PromptSpec only one worker at a time is between its take and its end,
\* and no target has anything newer than what it holds.
PromptInv ==
    /\ \A n \in Saves : pc[n] \in Busy =>
          /\ takenAt[n] <= now /\ now < takenAt[n] + Debounce
          /\ main = "spawn" => pendingDeadline >= takenAt[n] + Debounce
          /\ \A p \in Paths : target[p].save <= n
    /\ \A m, n \in Saves :
          /\ pc[n] \in Busy /\ pc[m] \in Waiting /\ n < m => deadline[m] >= takenAt[n] + Debounce
          /\ pc[n] \in Busy /\ pc[m] \in Busy => m = n
=============================================================================
