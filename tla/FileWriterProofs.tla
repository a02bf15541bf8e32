-------------------------- MODULE FileWriterProofs --------------------------
(***************************************************************************)
(* Proofs about FileWriter for every number of paths and saves, every      *)
(* debounce, and any number of crashes and faults.                         *)
(***************************************************************************)
EXTENDS FileWriter, TLAPS

\* The program counters and images the actions name.
LEMMA PCFacts ==
    /\ {"unborn", "done", "lock", "check", "sleep", "acquire", "open", "write", "finish",
        "sync", "rename", "remove", "release"} = PCs
    /\ Nobody \notin Saves /\ Server \notin Saves /\ Server # Nobody
    /\ Saves \subseteq Threads /\ Server \in Threads
  BY ConstantsAssumption DEF PCs, Waiting, Busy, Owning, Nobody, Server, Saves, Threads

LEMMA ImageFacts ==
    /\ NoImage \in Images /\ Original \in Images
    /\ \A i \in Images : Remains(i) \in Images
  BY ConstantsAssumption DEF NoImage, Original, Images, Stages, Remains

\* Every variable keeps its type, through every step and every crash.
THEOREM TypeCorrect == Spec => []TypeOK
<1> USE ConstantsAssumption, PCFacts, ImageFacts DEF TypeOK
<1>1. Init => TypeOK
  BY DEF Init, Nobody
<1>2. TypeOK /\ [Next]_vars => TypeOK'
  <2> SUFFICES ASSUME TypeOK, [Next]_vars PROVE TypeOK'
    OBVIOUS
  <2> USE DEF memory, workers, files, history, calls
  <2>1. ASSUME NEW p \in Paths, ScheduleLock(p) PROVE TypeOK'
    <3>1. saves + 1 \in Saves
      BY <2>1 DEF ScheduleLock, Saves
    <3> QED
      BY <2>1, <3>1 DEF ScheduleLock
  <2>2. CASE ScheduleReplace
    BY <2>2 DEF ScheduleReplace, Cost, NextDeadline
  <2>3. CASE ScheduleSpawn
    BY <2>3 DEF ScheduleSpawn, Fails, Nobody
  <2>4. ASSUME NEW n \in Saves, Worker(n) PROVE TypeOK'
    <3> USE DEF Goto
    <3>1. CASE WorkerLock(n)
      BY <3>1 DEF WorkerLock
    <3>2. CASE WorkerWait(n)
      BY <3>2 DEF WorkerWait
    <3>3. CASE WorkerWake(n)
      BY <3>3 DEF WorkerWake
    <3>4. CASE WorkerSuperseded(n)
      BY <3>4 DEF WorkerSuperseded
    <3>5. CASE WorkerTake(n)
      BY <3>5 DEF WorkerTake
    <3>6. CASE WorkerAcquire(n)
      BY <3>6 DEF WorkerAcquire
    <3>7. ASSUME NEW from, NEW stage \in Stages, NEW next \in PCs, NEW onError \in PCs,
                 WriteStep(n, from, Image(n, stage), next, onError)
          PROVE  TypeOK'
      <4>1. Image(n, stage) \in Images
        BY <3>7 DEF Image, Images
      <4> QED
        BY <3>7, <4>1 DEF WriteStep, Fails
    <3>8. CASE WorkerOpen(n) \/ WorkerWrite(n) \/ WorkerFinish(n) \/ WorkerSync(n)
      BY <3>7, <3>8 DEF WorkerOpen, WorkerWrite, WorkerFinish, WorkerSync, Stages
    <3>9. CASE WorkerRename(n)
      <4>1. target' \in [Paths -> Images] /\ tmp' \in [Paths -> Images]
        BY <3>9 DEF WorkerRename
      <4>2. journal' \in [Paths -> SUBSET Images]
        BY <3>9 DEF WorkerRename
      <4>3. committed' \in SUBSET (0..MaxSaves)
        <5>1. content[n] \in 0..MaxSaves /\ committed \in SUBSET (0..MaxSaves)
          BY DEF TypeOK
        <5>2. committed' = committed \cup {content[n]} \/ committed' = committed
          BY <3>9 DEF WorkerRename
        <5> HIDE DEF TypeOK
        <5> QED
          BY <5>1, <5>2
      <4> QED
        BY <3>9, <4>1, <4>2, <4>3 DEF WorkerRename, Fails
    <3>10. CASE WorkerRemove(n)
      BY <3>10 DEF WorkerRemove
    <3>11. CASE WorkerRelease(n)
      BY <3>11 DEF WorkerRelease
    <3> QED
      BY <2>4, <3>1, <3>2, <3>3, <3>4, <3>5, <3>6, <3>8, <3>9, <3>10, <3>11 DEF Worker
  <2>5. CASE Tick
    BY <2>5 DEF Tick, Room
  <2>6. ASSUME NEW p \in Paths, Commit(p) PROVE TypeOK'
    BY <2>6 DEF Commit
  <2>7. CASE Kill
    BY <2>7 DEF Kill, Restart, Nobody
  <2>8. CASE PowerLoss
    <3>1. PICK shown \in [Paths -> UNION {journal[p] : p \in Paths}] :
             /\ \A p \in Paths : shown[p] \in journal[p]
             /\ target' = [p \in Paths |-> Remains(shown[p])]
             /\ journal' = [p \in Paths |-> {Remains(shown[p])}]
      BY <2>8 DEF PowerLoss
    <3>2. \A p \in Paths : Remains(shown[p]) \in Images
      BY <3>1
    <3>3. target' \in [Paths -> Images] /\ journal' \in [Paths -> SUBSET Images]
      BY <3>1, <3>2
    <3>4. PICK lost \in SUBSET Paths :
             tmp' = [p \in Paths |-> IF p \in lost \/ tmp[p] = NoImage THEN NoImage
                                     ELSE Remains(tmp[p])]
      BY <2>8 DEF PowerLoss
    <3>5. tmp' \in [Paths -> Images]
      BY <3>4
    <3> QED
      <4>1. now' \in 0..MaxTime
        BY <2>8 DEF PowerLoss
      <4>2. Restart
        BY <2>8 DEF PowerLoss
      <4> QED
        BY <3>3, <3>5, <4>1, <4>2 DEF Restart, Nobody
  <2>9. CASE UNCHANGED vars
    BY <2>9 DEF vars
  <2> QED
    BY <2>1, <2>2, <2>3, <2>4, <2>5, <2>6, <2>7, <2>8, <2>9
       DEF Next, Schedule, Environment, Quiescent
<1> QED
  BY <1>1, <1>2, PTL DEF Spec
\* What the invariant's steps need of the types.
ThreadTypes ==
    /\ now \in Nat /\ saves \in Nat /\ pendingDeadline \in Nat /\ faults \in Nat
    /\ saves # 0 => saves \in Saves
    /\ pc \in [Saves -> PCs]
    /\ deadline \in [Saves -> Nat]
    /\ calledAt \in [Saves -> Nat]
    /\ takenAt \in [Saves -> Nat]
    /\ content \in [Saves -> Nat]
    /\ path \in [Saves -> Paths \cup {NoPath}]
    /\ pathOf \in [Saves -> Paths \cup {NoPath}]
    /\ \A n \in committed : n # 0 => n \in Saves
    /\ NoPath \notin Paths

FileTypes ==
    /\ target \in [Paths -> Images]
    /\ journal \in [Paths -> SUBSET Images]
    /\ tmp \in [Paths -> Images]

LEMMA SavesAreNumbers ==
    /\ Server # Nobody
    /\ \A n \in Saves : n \in Nat /\ n # 0 /\ n # Nobody /\ n # Server
  BY DEF Saves, Nobody, Server

LEMMA TypesSplit == TypeOK => ThreadTypes /\ FileTypes
  BY ConstantsAssumption DEF TypeOK, ThreadTypes, FileTypes, Saves

\* The invariant holds initially, no call having been made.
LEMMA InvInit == Init => Inv
  BY PCFacts DEF Init, Inv, MutexInv, CallInv, PendingInv, DeadlineInv, HandsInv, JournalInv,
                 Saves, Nobody, Server, Waiting, Busy, Owning, Original

\* Every step of a thread, of the file system or of a crash preserves it.
LEMMA InvStep == TypeOK /\ TypeOK' /\ Inv /\ [Next]_vars => Inv'
<1> SUFFICES ASSUME TypeOK, TypeOK', Inv, [Next]_vars PROVE Inv'
  OBVIOUS
<1> ThreadTypes /\ FileTypes
  BY TypesSplit
<1> USE SavesAreNumbers, ConstantsAssumption DEF Inv, Waiting, Busy, Owning
<1>1. ASSUME NEW p \in Paths, ScheduleLock(p) PROVE Inv'
  <2>a. /\ saves + 1 \in Saves /\ saves + 1 # saves /\ saves' = saves + 1
        /\ \A m \in Saves : m <= saves => m # saves + 1 /\ m <= saves + 1
        /\ \A m \in Saves : m # saves + 1 => pathOf'[m] = pathOf[m] /\ calledAt'[m] = calledAt[m]
        /\ pathOf'[saves + 1] = p /\ calledAt'[saves + 1] = now /\ pc[saves + 1] = "unborn"
    BY <1>1 DEF ScheduleLock, Saves, CallInv, ThreadTypes
  <2>b. \A m \in Saves : pc[m] # "unborn" => m <= saves
    BY DEF CallInv, ThreadTypes
  <2>c. \A m \in committed : m # 0 => m \in Saves /\ m <= saves
    BY DEF HandsInv, ThreadTypes
  <2>1. MutexInv'
    BY <1>1, <2>a, <2>b DEF ScheduleLock, workers, files, MutexInv, ThreadTypes
  <2>2. CallInv'
    BY <1>1, <2>a, <2>b DEF ScheduleLock, workers, files, CallInv, ThreadTypes
  <2>3. PendingInv'
    BY <1>1, <2>a, <2>b DEF ScheduleLock, workers, files, PendingInv, ThreadTypes
  <2>4. DeadlineInv'
    BY <1>1, <2>a, <2>b DEF ScheduleLock, workers, files, DeadlineInv, ThreadTypes
  <2>5. HandsInv'
    BY <1>1, <2>a, <2>b DEF ScheduleLock, workers, files, HandsInv, Image, ThreadTypes, FileTypes
  <2>6. JournalInv'
    <3>1. UNCHANGED <<target, journal, committed>>
      BY <1>1 DEF ScheduleLock, files
    <3>2. ASSUME NEW q \in Paths, NEW i \in journal[q], i.save # 0 PROVE pathOf'[i.save] = q
      BY <3>2, <2>a, <2>c DEF JournalInv
    <3> QED
      BY <3>1, <3>2 DEF JournalInv
  <2> QED
    BY <2>1, <2>2, <2>3, <2>4, <2>5, <2>6 DEF Inv
<1>2. CASE ScheduleReplace
  <2>1. MutexInv'
    BY <1>2 DEF ScheduleReplace, workers, files, calls, NextDeadline, Cost, MutexInv, ThreadTypes
  <2>2. CallInv'
    BY <1>2 DEF ScheduleReplace, workers, files, calls, NextDeadline, Cost, CallInv, ThreadTypes
  <2>3. PendingInv'
    <3>1. saves \in Saves /\ calledAt[saves] \in Nat /\ calledAt[saves] <= now /\ request = pathOf[saves]
      BY <1>2 DEF ScheduleReplace, CallInv, ThreadTypes
    <3>2. pendingDeadline' >= now + Debounce
      BY <1>2 DEF ScheduleReplace, NextDeadline, ThreadTypes
    <3>3. pendingDeadline' >= calledAt[saves] + Debounce
      <4>1. pendingDeadline' \in Nat
        BY DEF TypeOK
      <4> QED
        BY <3>1, <3>2, <4>1 DEF ThreadTypes
    <3>4. PICK pathCopied \in BOOLEAN, contentCopied \in BOOLEAN :
             /\ pendingPath' = IF pathCopied THEN request ELSE NoPath
             /\ pendingContent' = IF contentCopied THEN saves ELSE 0
             /\ faults' = faults + Cost(pathCopied) + Cost(contentCopied)
      BY <1>2 DEF ScheduleReplace
    <3>5. faults' = 0 => pathCopied /\ contentCopied
      BY <3>4 DEF Cost, ThreadTypes
    <3>6. UNCHANGED <<saves, pathOf, calledAt>> /\ main' = "spawn"
      BY <1>2 DEF ScheduleReplace, calls
    <3> QED
      BY <3>1, <3>3, <3>4, <3>5, <3>6 DEF PendingInv
  <2>4. DeadlineInv'
    BY <1>2
       DEF ScheduleReplace, workers, files, calls, NextDeadline, Cost, DeadlineInv, ThreadTypes
  <2>5. HandsInv'
    BY <1>2
       DEF ScheduleReplace, workers, files, calls, NextDeadline, Cost, HandsInv, Image,
           ThreadTypes, FileTypes
  <2>6. JournalInv'
    BY <1>2
       DEF ScheduleReplace, workers, files, calls, NextDeadline, Cost, JournalInv, ThreadTypes,
           FileTypes
  <2> QED
    BY <2>1, <2>2, <2>3, <2>4, <2>5, <2>6 DEF Inv
<1>3. CASE ScheduleSpawn
  <2>a1. saves \in Saves /\ pc[saves] = "unborn" /\ saves' = saves
    BY <1>3 DEF ScheduleSpawn, CallInv, ThreadTypes, calls
  <2>a2. pc' \in {[pc EXCEPT ![saves] = "lock"], [pc EXCEPT ![saves] = "done"]}
    BY <1>3 DEF ScheduleSpawn
  <2>a3. /\ \A m \in Saves : m # saves => pc'[m] = pc[m] /\ deadline'[m] = deadline[m]
         /\ pc'[saves] \in {"lock", "done"}
         /\ pc'[saves] = "lock" => deadline'[saves] = pendingDeadline
    BY <1>3, <2>a1 DEF ScheduleSpawn, ThreadTypes
  <2>b. \A m \in Saves : pc[m] # "unborn" => m <= saves
    BY DEF CallInv, ThreadTypes
  <2>1. MutexInv'
    BY <1>3, <2>a1, <2>a2, <2>a3, <2>b
       DEF ScheduleSpawn, Fails, files, calls, MutexInv, ThreadTypes
  <2>2. CallInv'
    BY <1>3, <2>a1, <2>a2, <2>a3, <2>b
       DEF ScheduleSpawn, Fails, files, calls, CallInv, ThreadTypes
  <2>3. PendingInv'
    BY <1>3, <2>a1, <2>a2, <2>a3, <2>b
       DEF ScheduleSpawn, Fails, files, calls, PendingInv, ThreadTypes
  <2>4. DeadlineInv'
    <3>1. /\ main = "spawn" /\ main' = "accept"
          /\ pendingDeadline >= calledAt[saves] + Debounce
          /\ UNCHANGED <<pendingDeadline, calledAt, saves>>
      BY <1>3 DEF ScheduleSpawn, PendingInv, calls
    <3>2. \A m \in Saves : pc'[m] \in Waiting /\ m # saves =>
             pc[m] \in Waiting /\ m < saves /\ deadline'[m] = deadline[m] /\ deadline[m] < pendingDeadline
      BY <3>1, <2>a1, <2>a3, <2>b DEF DeadlineInv, ThreadTypes
    <3>3. pc'[saves] \in Waiting => deadline'[saves] = pendingDeadline
      BY <2>a3
    <3>4. ASSUME NEW m \in Saves, pc'[m] \in Waiting
          PROVE  /\ deadline'[m] <= pendingDeadline
                 /\ deadline'[m] >= calledAt[m] + Debounce
                 /\ deadline'[m] = pendingDeadline => m = saves
      BY <3>1, <3>2, <3>3, <3>4 DEF DeadlineInv, ThreadTypes
    <3>5. ASSUME NEW l \in Saves, NEW m \in Saves,
                 pc'[l] \in Waiting, pc'[m] \in Waiting, l < m
          PROVE  deadline'[l] < deadline'[m]
      BY <3>2, <3>3, <3>5, <2>a1 DEF DeadlineInv, ThreadTypes
    <3> QED
      BY <3>1, <3>4, <3>5 DEF DeadlineInv
  <2>5. HandsInv'
    BY <1>3, <2>a1, <2>a2, <2>a3, <2>b
       DEF ScheduleSpawn, Fails, files, calls, HandsInv, Image, ThreadTypes, FileTypes
  <2>6. JournalInv'
    BY <1>3, <2>a1, <2>a2, <2>a3, <2>b
       DEF ScheduleSpawn, Fails, files, calls, JournalInv, ThreadTypes, FileTypes
  <2> QED
    BY <2>1, <2>2, <2>3, <2>4, <2>5, <2>6 DEF Inv
<1>4. ASSUME NEW n \in Saves, WorkerLock(n) PROVE Inv'
  <2>1. MutexInv'
    BY <1>4 DEF WorkerLock, Goto, files, history, calls, MutexInv, ThreadTypes
  <2>2. CallInv'
    BY <1>4 DEF WorkerLock, Goto, files, history, calls, CallInv, ThreadTypes
  <2>3. PendingInv'
    BY <1>4 DEF WorkerLock, Goto, files, history, calls, PendingInv, ThreadTypes
  <2>4. DeadlineInv'
    BY <1>4 DEF WorkerLock, Goto, files, history, calls, DeadlineInv, ThreadTypes
  <2>5. HandsInv'
    BY <1>4 DEF WorkerLock, Goto, files, history, calls, HandsInv, Image, ThreadTypes, FileTypes
  <2>6. JournalInv'
    BY <1>4 DEF WorkerLock, Goto, files, history, calls, JournalInv, ThreadTypes, FileTypes
  <2> QED
    BY <2>1, <2>2, <2>3, <2>4, <2>5, <2>6 DEF Inv
<1>5. ASSUME NEW n \in Saves, WorkerWait(n) PROVE Inv'
  <2>1. MutexInv'
    BY <1>5 DEF WorkerWait, Goto, files, history, calls, MutexInv, ThreadTypes
  <2>2. CallInv'
    BY <1>5 DEF WorkerWait, Goto, files, history, calls, CallInv, ThreadTypes
  <2>3. PendingInv'
    BY <1>5 DEF WorkerWait, Goto, files, history, calls, PendingInv, ThreadTypes
  <2>4. DeadlineInv'
    BY <1>5 DEF WorkerWait, Goto, files, history, calls, DeadlineInv, ThreadTypes
  <2>5. HandsInv'
    BY <1>5 DEF WorkerWait, Goto, files, history, calls, HandsInv, Image, ThreadTypes, FileTypes
  <2>6. JournalInv'
    BY <1>5 DEF WorkerWait, Goto, files, history, calls, JournalInv, ThreadTypes, FileTypes
  <2> QED
    BY <2>1, <2>2, <2>3, <2>4, <2>5, <2>6 DEF Inv
<1>6. ASSUME NEW n \in Saves, WorkerWake(n) PROVE Inv'
  <2>1. MutexInv'
    BY <1>6 DEF WorkerWake, Goto, memory, files, history, calls, MutexInv, ThreadTypes
  <2>2. CallInv'
    BY <1>6 DEF WorkerWake, Goto, memory, files, history, calls, CallInv, ThreadTypes
  <2>3. PendingInv'
    BY <1>6 DEF WorkerWake, Goto, memory, files, history, calls, PendingInv, ThreadTypes
  <2>4. DeadlineInv'
    BY <1>6 DEF WorkerWake, Goto, memory, files, history, calls, DeadlineInv, ThreadTypes
  <2>5. HandsInv'
    BY <1>6
       DEF WorkerWake, Goto, memory, files, history, calls, HandsInv, Image, ThreadTypes,
           FileTypes
  <2>6. JournalInv'
    BY <1>6
       DEF WorkerWake, Goto, memory, files, history, calls, JournalInv, ThreadTypes, FileTypes
  <2> QED
    BY <2>1, <2>2, <2>3, <2>4, <2>5, <2>6 DEF Inv
<1>7. ASSUME NEW n \in Saves, WorkerSuperseded(n) PROVE Inv'
  <2>1. MutexInv'
    BY <1>7 DEF WorkerSuperseded, Goto, Superseded, files, history, calls, MutexInv, ThreadTypes
  <2>2. CallInv'
    BY <1>7 DEF WorkerSuperseded, Goto, Superseded, files, history, calls, CallInv, ThreadTypes
  <2>3. PendingInv'
    BY <1>7 DEF WorkerSuperseded, Goto, Superseded, files, history, calls, PendingInv, ThreadTypes
  <2>4. DeadlineInv'
    BY <1>7
       DEF WorkerSuperseded, Goto, Superseded, files, history, calls, DeadlineInv, ThreadTypes
  <2>5. HandsInv'
    BY <1>7
       DEF WorkerSuperseded, Goto, Superseded, files, history, calls, HandsInv, Image,
           ThreadTypes, FileTypes
  <2>6. JournalInv'
    BY <1>7
       DEF WorkerSuperseded, Goto, Superseded, files, history, calls, JournalInv, ThreadTypes,
           FileTypes
  <2> QED
    BY <2>1, <2>2, <2>3, <2>4, <2>5, <2>6 DEF Inv
<1>8. ASSUME NEW n \in Saves, WorkerTake(n) PROVE Inv'
  <2>a. main = "accept" /\ n = saves
    BY <1>8 DEF WorkerTake, Superseded, MutexInv, DeadlineInv
  <2>b. \A m \in Saves : m # n => pc'[m] = pc[m] /\ path'[m] = path[m] /\ content'[m] = content[m]
    BY <1>8 DEF WorkerTake, Goto, ThreadTypes
  <2>1. MutexInv'
    BY <1>8, <2>a, <2>b
       DEF WorkerTake, Goto, Superseded, files, history, calls, MutexInv, ThreadTypes
  <2>2. CallInv'
    BY <1>8, <2>a, <2>b
       DEF WorkerTake, Goto, Superseded, files, history, calls, CallInv, ThreadTypes
  <2>3. PendingInv'
    BY <1>8, <2>a, <2>b
       DEF WorkerTake, Goto, Superseded, files, history, calls, PendingInv, ThreadTypes
  <2>4. DeadlineInv'
    BY <1>8, <2>a, <2>b
       DEF WorkerTake, Goto, Superseded, files, history, calls, DeadlineInv, ThreadTypes
  <2>5. HandsInv'
    <3>1. pc'[n] \in Busy => content'[n] = n /\ path'[n] = pathOf[n] /\ n <= saves
      BY <1>8, <2>a DEF WorkerTake, Goto, PendingInv, ThreadTypes
    <3>2. pc[n] = "check" /\ pc'[n] \in {"acquire", "done"}
      BY <1>8 DEF WorkerTake, Goto, ThreadTypes
    <3>3. n \notin committed
      BY <3>2 DEF HandsInv
    <3>4. UNCHANGED <<pathOf, saves, committed, tmp>>
      BY <1>8 DEF WorkerTake, files, history, calls
    <3> QED
      BY <2>b, <3>1, <3>2, <3>3, <3>4 DEF HandsInv, Image
  <2>6. JournalInv'
    BY <1>8, <2>a, <2>b
       DEF WorkerTake, Goto, Superseded, files, history, calls, JournalInv, ThreadTypes, FileTypes
  <2> QED
    BY <2>1, <2>2, <2>3, <2>4, <2>5, <2>6 DEF Inv
<1>9. ASSUME NEW n \in Saves, WorkerAcquire(n) PROVE Inv'
  <2>1. MutexInv'
    BY <1>9 DEF WorkerAcquire, Goto, WriteMutexFree, files, history, calls, MutexInv, ThreadTypes
  <2>2. CallInv'
    BY <1>9 DEF WorkerAcquire, Goto, WriteMutexFree, files, history, calls, CallInv, ThreadTypes
  <2>3. PendingInv'
    BY <1>9
       DEF WorkerAcquire, Goto, WriteMutexFree, files, history, calls, PendingInv, ThreadTypes
  <2>4. DeadlineInv'
    BY <1>9
       DEF WorkerAcquire, Goto, WriteMutexFree, files, history, calls, DeadlineInv, ThreadTypes
  <2>5. HandsInv'
    BY <1>9
       DEF WorkerAcquire, Goto, WriteMutexFree, files, history, calls, HandsInv, Image,
           ThreadTypes, FileTypes
  <2>6. JournalInv'
    BY <1>9
       DEF WorkerAcquire, Goto, WriteMutexFree, files, history, calls, JournalInv, ThreadTypes,
           FileTypes
  <2> QED
    BY <2>1, <2>2, <2>3, <2>4, <2>5, <2>6 DEF Inv
<1>10. ASSUME NEW n \in Saves, WorkerRename(n) PROVE Inv'
  <2>a. /\ pc[n] \in Owning /\ content[n] = n /\ path[n] \in Paths /\ path[n] = pathOf[n]
        /\ n <= saves
    BY <1>10 DEF WorkerRename, HandsInv, CallInv
  <2>b. \A m \in Saves : m # n => pc[m] \notin Owning /\ pc'[m] = pc[m]
    <3>1. \A m \in Saves : m # n => pc[m] \notin Owning
      BY <2>a DEF MutexInv
    <3>2. \A m \in Saves : m # n => pc'[m] = pc[m]
      BY <1>10 DEF WorkerRename, Goto, ThreadTypes
    <3> QED
      BY <3>1, <3>2
  <2>1. MutexInv'
    BY <1>10, <2>a, <2>b
       DEF WorkerRename, Goto, Fails, memory, files, calls, MutexInv, ThreadTypes
  <2>2. CallInv'
    BY <1>10, <2>a, <2>b DEF WorkerRename, Goto, Fails, memory, files, calls, CallInv, ThreadTypes
  <2>3. PendingInv'
    BY <1>10, <2>a, <2>b
       DEF WorkerRename, Goto, Fails, memory, files, calls, PendingInv, ThreadTypes
  <2>4. DeadlineInv'
    BY <1>10, <2>a, <2>b
       DEF WorkerRename, Goto, Fails, memory, files, calls, DeadlineInv, ThreadTypes
  <2>5. HandsInv'
    BY <1>10, <2>a, <2>b
       DEF WorkerRename, Goto, Fails, memory, files, calls, HandsInv, Image, ThreadTypes,
           FileTypes
  <2>6. JournalInv'
    <3>1. CASE UNCHANGED <<files, committed>>
      BY <1>10, <3>1 DEF WorkerRename, JournalInv, files, calls
    <3>2. CASE /\ target' = [target EXCEPT ![path[n]] = tmp[path[n]]]
               /\ journal' = [journal EXCEPT ![path[n]] = @ \cup {tmp[path[n]]}]
               /\ committed' = committed \cup {content[n]}
      <4>1. tmp[path[n]].stage = "synced" /\ tmp[path[n]].save = n
        <5>1. pc[n] = "rename"
          BY <1>10 DEF WorkerRename
        <5>2. tmp[path[n]] = [save |-> n, stage |-> "synced"]
          BY <5>1, <2>a DEF HandsInv, Image
        <5> QED
          BY <5>2
      <4>2. UNCHANGED pathOf
        BY <1>10 DEF WorkerRename, calls
      <4> QED
        BY <3>2, <4>1, <4>2, <2>a DEF JournalInv, FileTypes
    <3> QED
      BY <1>10, <3>1, <3>2 DEF WorkerRename
  <2> QED
    BY <2>1, <2>2, <2>3, <2>4, <2>5, <2>6 DEF Inv
<1>11. ASSUME NEW n \in Saves, WorkerRemove(n) PROVE Inv'
  <2>a. /\ pc[n] \in Owning /\ content[n] = n /\ path[n] \in Paths /\ path[n] = pathOf[n]
        /\ n <= saves
    BY <1>11 DEF WorkerRemove, HandsInv, CallInv
  <2>b. \A m \in Saves : m # n => pc[m] \notin Owning /\ pc'[m] = pc[m]
    <3>1. \A m \in Saves : m # n => pc[m] \notin Owning
      BY <2>a DEF MutexInv
    <3>2. \A m \in Saves : m # n => pc'[m] = pc[m]
      BY <1>11 DEF WorkerRemove, Goto, ThreadTypes
    <3> QED
      BY <3>1, <3>2
  <2>1. MutexInv'
    BY <1>11, <2>a, <2>b DEF WorkerRemove, Goto, memory, history, calls, MutexInv, ThreadTypes
  <2>2. CallInv'
    BY <1>11, <2>a, <2>b DEF WorkerRemove, Goto, memory, history, calls, CallInv, ThreadTypes
  <2>3. PendingInv'
    BY <1>11, <2>a, <2>b DEF WorkerRemove, Goto, memory, history, calls, PendingInv, ThreadTypes
  <2>4. DeadlineInv'
    BY <1>11, <2>a, <2>b DEF WorkerRemove, Goto, memory, history, calls, DeadlineInv, ThreadTypes
  <2>5. HandsInv'
    BY <1>11, <2>a, <2>b
       DEF WorkerRemove, Goto, memory, history, calls, HandsInv, Image, ThreadTypes, FileTypes
  <2>6. JournalInv'
    BY <1>11, <2>a, <2>b
       DEF WorkerRemove, Goto, memory, history, calls, JournalInv, ThreadTypes, FileTypes
  <2> QED
    BY <2>1, <2>2, <2>3, <2>4, <2>5, <2>6 DEF Inv
<1>12. ASSUME NEW n \in Saves, WorkerRelease(n) PROVE Inv'
  <2>1. MutexInv'
    BY <1>12 DEF WorkerRelease, Goto, files, history, calls, MutexInv, ThreadTypes
  <2>2. CallInv'
    BY <1>12 DEF WorkerRelease, Goto, files, history, calls, CallInv, ThreadTypes
  <2>3. PendingInv'
    BY <1>12 DEF WorkerRelease, Goto, files, history, calls, PendingInv, ThreadTypes
  <2>4. DeadlineInv'
    BY <1>12 DEF WorkerRelease, Goto, files, history, calls, DeadlineInv, ThreadTypes
  <2>5. HandsInv'
    BY <1>12
       DEF WorkerRelease, Goto, files, history, calls, HandsInv, Image, ThreadTypes, FileTypes
  <2>6. JournalInv'
    BY <1>12 DEF WorkerRelease, Goto, files, history, calls, JournalInv, ThreadTypes, FileTypes
  <2> QED
    BY <2>1, <2>2, <2>3, <2>4, <2>5, <2>6 DEF Inv
<1>13. ASSUME NEW n \in Saves, WorkerOpen(n) \/ WorkerWrite(n) \/ WorkerFinish(n) \/ WorkerSync(n) PROVE Inv'
  <2>a. /\ pc[n] \in Owning /\ content[n] = n /\ path[n] \in Paths /\ path[n] = pathOf[n]
        /\ n <= saves
    BY <1>13 DEF WorkerOpen, WorkerWrite, WorkerFinish, WorkerSync, WriteStep, HandsInv, CallInv
  <2>b. \A m \in Saves : m # n => pc[m] \notin Owning /\ pc'[m] = pc[m]
    <3>1. \A m \in Saves : m # n => pc[m] \notin Owning
      BY <2>a DEF MutexInv
    <3>2. \A m \in Saves : m # n => pc'[m] = pc[m]
      BY <1>13 DEF WorkerOpen, WorkerWrite, WorkerFinish, WorkerSync, WriteStep, Goto, ThreadTypes
    <3> QED
      BY <3>1, <3>2
  <2>1. MutexInv'
    BY <1>13, <2>a, <2>b
       DEF WorkerOpen, WorkerWrite, WorkerFinish, WorkerSync, Image, WriteStep, Goto, Fails,
           memory, calls, MutexInv, ThreadTypes
  <2>2. CallInv'
    BY <1>13, <2>a, <2>b
       DEF WorkerOpen, WorkerWrite, WorkerFinish, WorkerSync, Image, WriteStep, Goto, Fails,
           memory, calls, CallInv, ThreadTypes
  <2>3. PendingInv'
    BY <1>13, <2>a, <2>b
       DEF WorkerOpen, WorkerWrite, WorkerFinish, WorkerSync, Image, WriteStep, Goto, Fails,
           memory, calls, PendingInv, ThreadTypes
  <2>4. DeadlineInv'
    BY <1>13, <2>a, <2>b
       DEF WorkerOpen, WorkerWrite, WorkerFinish, WorkerSync, Image, WriteStep, Goto, Fails,
           memory, calls, DeadlineInv, ThreadTypes
  <2>5. HandsInv'
    BY <1>13, <2>a, <2>b
       DEF WorkerOpen, WorkerWrite, WorkerFinish, WorkerSync, Image, WriteStep, Goto, Fails,
           memory, calls, HandsInv, Image, ThreadTypes, FileTypes
  <2>6. JournalInv'
    BY <1>13, <2>a, <2>b
       DEF WorkerOpen, WorkerWrite, WorkerFinish, WorkerSync, Image, WriteStep, Goto, Fails,
           memory, calls, JournalInv, ThreadTypes, FileTypes
  <2> QED
    BY <2>1, <2>2, <2>3, <2>4, <2>5, <2>6 DEF Inv
<1>14. CASE Tick
  <2>1. MutexInv'
    BY <1>14 DEF Tick, memory, workers, files, history, calls, MutexInv, ThreadTypes
  <2>2. CallInv'
    BY <1>14 DEF Tick, memory, workers, files, history, calls, CallInv, ThreadTypes
  <2>3. PendingInv'
    BY <1>14 DEF Tick, memory, workers, files, history, calls, PendingInv, ThreadTypes
  <2>4. DeadlineInv'
    BY <1>14 DEF Tick, memory, workers, files, history, calls, DeadlineInv, ThreadTypes
  <2>5. HandsInv'
    BY <1>14
       DEF Tick, memory, workers, files, history, calls, HandsInv, Image, ThreadTypes, FileTypes
  <2>6. JournalInv'
    BY <1>14 DEF Tick, memory, workers, files, history, calls, JournalInv, ThreadTypes, FileTypes
  <2> QED
    BY <2>1, <2>2, <2>3, <2>4, <2>5, <2>6 DEF Inv
<1>15. ASSUME NEW p \in Paths, Commit(p) PROVE Inv'
  <2>1. MutexInv'
    BY <1>15 DEF Commit, memory, workers, history, calls, MutexInv, ThreadTypes
  <2>2. CallInv'
    BY <1>15 DEF Commit, memory, workers, history, calls, CallInv, ThreadTypes
  <2>3. PendingInv'
    BY <1>15 DEF Commit, memory, workers, history, calls, PendingInv, ThreadTypes
  <2>4. DeadlineInv'
    BY <1>15 DEF Commit, memory, workers, history, calls, DeadlineInv, ThreadTypes
  <2>5. HandsInv'
    BY <1>15 DEF Commit, memory, workers, history, calls, HandsInv, Image, ThreadTypes, FileTypes
  <2>6. JournalInv'
    BY <1>15 DEF Commit, memory, workers, history, calls, JournalInv, ThreadTypes, FileTypes
  <2> QED
    BY <2>1, <2>2, <2>3, <2>4, <2>5, <2>6 DEF Inv
<1>16. CASE Kill
  <2>1. MutexInv'
    BY <1>16 DEF Kill, files, Restart, calls, MutexInv, ThreadTypes
  <2>2. CallInv'
    BY <1>16 DEF Kill, files, Restart, calls, CallInv, ThreadTypes
  <2>3. PendingInv'
    BY <1>16 DEF Kill, files, Restart, calls, PendingInv, ThreadTypes
  <2>4. DeadlineInv'
    BY <1>16 DEF Kill, files, Restart, calls, DeadlineInv, ThreadTypes
  <2>5. HandsInv'
    BY <1>16 DEF Kill, files, Restart, calls, HandsInv, Image, ThreadTypes, FileTypes
  <2>6. JournalInv'
    BY <1>16 DEF Kill, files, Restart, calls, JournalInv, ThreadTypes, FileTypes
  <2> QED
    BY <2>1, <2>2, <2>3, <2>4, <2>5, <2>6 DEF Inv
<1>17. CASE PowerLoss
  <2>1. MutexInv'
    BY <1>17 DEF PowerLoss, Restart, Remains, calls, MutexInv, ThreadTypes
  <2>2. CallInv'
    BY <1>17 DEF PowerLoss, Restart, Remains, calls, CallInv, ThreadTypes
  <2>3. PendingInv'
    BY <1>17 DEF PowerLoss, Restart, Remains, calls, PendingInv, ThreadTypes
  <2>4. DeadlineInv'
    BY <1>17 DEF PowerLoss, Restart, Remains, calls, DeadlineInv, ThreadTypes
  <2>5. HandsInv'
    BY <1>17 DEF PowerLoss, Restart, Remains, calls, HandsInv, Image, ThreadTypes, FileTypes
  <2>6. JournalInv'
    BY <1>17 DEF PowerLoss, Restart, Remains, calls, JournalInv, ThreadTypes, FileTypes
  <2> QED
    BY <2>1, <2>2, <2>3, <2>4, <2>5, <2>6 DEF Inv
<1>18. CASE UNCHANGED vars
  <2>1. MutexInv'
    BY <1>18 DEF vars, memory, workers, files, history, calls, MutexInv, ThreadTypes
  <2>2. CallInv'
    BY <1>18 DEF vars, memory, workers, files, history, calls, CallInv, ThreadTypes
  <2>3. PendingInv'
    BY <1>18 DEF vars, memory, workers, files, history, calls, PendingInv, ThreadTypes
  <2>4. DeadlineInv'
    BY <1>18 DEF vars, memory, workers, files, history, calls, DeadlineInv, ThreadTypes
  <2>5. HandsInv'
    BY <1>18
       DEF vars, memory, workers, files, history, calls, HandsInv, Image, ThreadTypes, FileTypes
  <2>6. JournalInv'
    BY <1>18 DEF vars, memory, workers, files, history, calls, JournalInv, ThreadTypes, FileTypes
  <2> QED
    BY <2>1, <2>2, <2>3, <2>4, <2>5, <2>6 DEF Inv
<1> QED
  BY <1>1, <1>2, <1>3, <1>4, <1>5, <1>6, <1>7, <1>8, <1>9, <1>10, <1>11, <1>12, <1>13, <1>14, <1>15, <1>16, <1>17, <1>18
     DEF Next, Schedule, Worker, Environment, Quiescent

-----------------------------------------------------------------------------
(***************************************************************************)
(* What FileWriter guarantees, from the inductive invariant.               *)
(***************************************************************************)
\* The inductive invariant holds in every reachable state.
THEOREM Invariance == Spec => []Inv
<1>1. Init => Inv
  BY InvInit
<1>2. TypeOK /\ TypeOK' /\ Inv /\ [Next]_vars => Inv'
  BY InvStep
<1> QED
  BY <1>1, <1>2, TypeCorrect, PTL DEF Spec

\* A target always holds all of one save made for it, even after power loss
\* (file_writer_atomic_write's temporary file, fsync and rename).
THEOREM WholeTargets == Spec => []TargetWhole
<1>1. TypeOK /\ Inv => TargetWhole
  BY DEF TypeOK, Inv, JournalInv, TargetWhole
<1> QED
  BY <1>1, TypeCorrect, Invariance, PTL

\* Deadlines identify the workers (file_writer_schedule_save's strictly
\* monotonic deadlines).
THEOREM DistinctDeadlines == Spec => []UniqueDeadlines
<1>1. TypeOK /\ Inv => UniqueDeadlines
  <2> SUFFICES ASSUME TypeOK, Inv, NEW m \in Saves, NEW n \in Saves,
                      pc[m] \in Waiting, pc[n] \in Waiting, deadline[m] = deadline[n]
               PROVE  m = n
    BY DEF UniqueDeadlines
  <2>1. m \in Nat /\ n \in Nat /\ deadline[m] \in Nat
    BY SavesAreNumbers DEF TypeOK
  <2> QED
    BY <2>1 DEF Inv, DeadlineInv
<1> QED
  BY <1>1, TypeCorrect, Invariance, PTL

-----------------------------------------------------------------------------
\* How one step moves a worker's program counter.
LEMMA PcStep ==
  ASSUME TypeOK, Inv, Next, NEW n \in Saves, pc'[n] # pc[n]
  PROVE  Worker(n) \/ (ScheduleSpawn /\ n = saves) \/ Restart
<1> ThreadTypes
  BY TypesSplit
<1>1. ASSUME NEW m \in Saves, Worker(m) PROVE m = n
  <2>1. \E s \in PCs : Goto(m, s)
    BY <1>1, PCFacts
       DEF Worker, WorkerLock, WorkerWait, WorkerWake, WorkerSuperseded, WorkerTake,
           WorkerAcquire, WorkerOpen, WorkerWrite, WorkerFinish, WorkerSync, WriteStep,
           WorkerRename, WorkerRemove, WorkerRelease, Goto
  <2> QED
    BY <2>1 DEF Goto, ThreadTypes
<1>2. ASSUME ScheduleSpawn PROVE n = saves
  BY <1>2 DEF ScheduleSpawn, ThreadTypes
<1>3. ASSUME NEW p \in Paths, ScheduleLock(p) PROVE FALSE
  BY <1>3 DEF ScheduleLock, workers
<1>4. ~ScheduleReplace /\ ~Tick
  BY DEF ScheduleReplace, Tick, workers
<1>5. ASSUME NEW p \in Paths, Commit(p) PROVE FALSE
  BY <1>5 DEF Commit, workers
<1>6. ~Quiescent
  BY DEF Quiescent, vars, workers
<1> QED
  BY <1>1, <1>2, <1>3, <1>4, <1>5, <1>6 DEF Next, Schedule, Environment, Kill, PowerLoss

\* Only WorkerTake brings a worker to the write sequence, and the worker is then
\* that of the newest call.
LEMMA TakeStep ==
  ASSUME TypeOK, Inv, Next, NEW n \in Saves, pc[n] = "check", pc'[n] = "acquire"
  PROVE  /\ WorkerTake(n)
         /\ n = saves
         /\ main = "accept"
<1> ThreadTypes
  BY TypesSplit
<1>1. Worker(n) \/ (ScheduleSpawn /\ n = saves) \/ Restart
  BY PcStep
<1>2. ~Restart
  BY DEF Restart
<1>3. ~(ScheduleSpawn /\ n = saves)
  BY DEF ScheduleSpawn, ThreadTypes
<1>4. Worker(n) => WorkerTake(n)
  BY DEF Worker, WorkerLock, WorkerWait, WorkerWake, WorkerSuperseded,
         WorkerAcquire, WorkerOpen, WorkerWrite, WorkerFinish, WorkerSync, WriteStep,
         WorkerRename, WorkerRemove, WorkerRelease, Goto, ThreadTypes
<1>5. WorkerTake(n) => n = saves /\ main = "accept"
  BY SavesAreNumbers DEF WorkerTake, Superseded, Inv, MutexInv, DeadlineInv, Waiting
<1> QED
  BY <1>1, <1>2, <1>3, <1>4, <1>5

\* No save is taken before Debounce ticks without a call have passed
\* (debounce_worker's comparison with pending_deadline).
THEOREM Debounced == Spec => DebounceHonoured
<1>1. ASSUME TypeOK, Inv, [Next]_vars
      PROVE  [\A n \in Saves :
                 pc[n] = "check" /\ pc'[n] = "acquire" => now >= calledAt[saves] + Debounce]_vars
  <2> SUFFICES ASSUME Next, NEW n \in Saves, pc[n] = "check", pc'[n] = "acquire"
               PROVE  now >= calledAt[saves] + Debounce
    BY <1>1
  <2>1. WorkerTake(n) /\ n = saves
    BY <1>1, TakeStep
  <2>2. deadline[n] >= calledAt[n] + Debounce
    BY <1>1 DEF Inv, DeadlineInv, Waiting
  <2>3. now >= deadline[n]
    BY <2>1 DEF WorkerTake
  <2>4. now \in Nat /\ deadline[n] \in Nat /\ calledAt[n] \in Nat
    BY <1>1, TypesSplit DEF ThreadTypes
  <2> QED
    BY <2>1, <2>2, <2>3, <2>4, ConstantsAssumption
<1> QED
  BY <1>1, TypeCorrect, Invariance, PTL DEF Spec, DebounceHonoured

-----------------------------------------------------------------------------
\* Without faults and crashes the newest save is pending, in its worker's hands
\* or in place (the supersede test and the take of debounce_worker).
THEOREM NewestKept == Spec => []NewestNotForgotten
<1>1. Init => NewestNotForgotten
  BY DEF Init, NewestNotForgotten
<1>2. ASSUME TypeOK, Inv, Inv', NewestNotForgotten, [Next]_vars
      PROVE  NewestNotForgotten'
  <2> SUFFICES ASSUME main' = "accept", saves' > 0, faults' = 0, crashes' = 0
               PROVE  \/ /\ pendingContent' = saves'
                         /\ pendingPath' = pathOf'[saves']
                         /\ pc'[saves'] \in Waiting
                         /\ deadline'[saves'] = pendingDeadline'
                      \/ /\ pc'[saves'] \in Coming
                         /\ content'[saves'] = saves'
                         /\ path'[saves'] = pathOf'[saves']
                      \/ saves' \in committed'
    BY DEF NewestNotForgotten
  <2> ThreadTypes /\ crashes \in Nat /\ MaxFaults \in Nat
    BY <1>2, TypesSplit, ConstantsAssumption DEF TypeOK
  <2> USE <1>2 DEF Inv
  <2>1. ASSUME NEW p \in Paths, ScheduleLock(p) PROVE FALSE
    BY <2>1 DEF ScheduleLock
  <2>2. ~ScheduleReplace
    BY DEF ScheduleReplace
  <2>3. CASE ScheduleSpawn
    <3>1. faults = 0 /\ pendingContent = saves /\ pendingPath = pathOf[saves] /\ saves \in Saves
      BY <2>3 DEF ScheduleSpawn, Fails, PendingInv, CallInv, ThreadTypes
    <3>2. pc'[saves] = "lock" /\ deadline'[saves] = pendingDeadline
      BY <2>3, <3>1 DEF ScheduleSpawn, Fails, ThreadTypes
    <3> QED
      BY <2>3, <3>1, <3>2 DEF ScheduleSpawn, calls, Waiting
  <2>4. CASE Restart
    BY <2>4 DEF Restart
  <2>5. CASE Tick \/ (\E p \in Paths : Commit(p)) \/ UNCHANGED vars
    BY <2>5 DEF Tick, Commit, vars, memory, workers, history, calls, NewestNotForgotten
  <2>6. ASSUME NEW n \in Saves, Worker(n)
        PROVE  \/ /\ pendingContent' = saves'
                  /\ pendingPath' = pathOf'[saves']
                  /\ pc'[saves'] \in Waiting
                  /\ deadline'[saves'] = pendingDeadline'
               \/ /\ pc'[saves'] \in Coming
                  /\ content'[saves'] = saves'
                  /\ path'[saves'] = pathOf'[saves']
               \/ saves' \in committed'
    <3>1. /\ UNCHANGED <<main, saves, pathOf, pendingDeadline, deadline, crashes>>
          /\ faults = 0 /\ committed \subseteq committed'
      BY <2>6 DEF Worker, WorkerLock, WorkerWait, WorkerWake, WorkerSuperseded, WorkerTake,
                  WorkerAcquire, WorkerOpen, WorkerWrite, WorkerFinish, WorkerSync, WriteStep,
                  WorkerRename, WorkerRemove, WorkerRelease, Fails, memory, history, calls,
                  ThreadTypes
    <3>2. saves \in Saves
      BY <3>1 DEF ThreadTypes
    <3>3. \/ /\ pendingContent = saves
             /\ pendingPath = pathOf[saves]
             /\ pc[saves] \in Waiting
             /\ deadline[saves] = pendingDeadline
          \/ /\ pc[saves] \in Coming
             /\ content[saves] = saves
             /\ path[saves] = pathOf[saves]
          \/ saves \in committed
      BY <3>1 DEF NewestNotForgotten
    <3>4. WorkerTake(n) => n = saves
      BY <2>6, SavesAreNumbers, <3>1
         DEF WorkerTake, Superseded, MutexInv, DeadlineInv, Waiting
    <3>5. CASE n # saves
      <4>1. /\ pc'[saves] = pc[saves] /\ content'[saves] = content[saves] /\ path'[saves] = path[saves]
            /\ UNCHANGED <<pendingPath, pendingContent>>
        BY <2>6, <3>2, <3>4, <3>5
           DEF Worker, WorkerLock, WorkerWait, WorkerWake, WorkerSuperseded,
               WorkerAcquire, WorkerOpen, WorkerWrite, WorkerFinish, WorkerSync, WriteStep,
               WorkerRename, WorkerRemove, WorkerRelease, Goto, memory, ThreadTypes
      <4> QED
        BY <3>1, <3>3, <4>1
    <3>6. CASE n = saves /\ saves \in committed
      BY <3>1, <3>6
    <3>7. CASE n = saves /\ pc[saves] \in Coming /\ content[saves] = saves /\ path[saves] = pathOf[saves]
      <4>1. /\ pc'[saves] \in Coming \/ saves \in committed'
            /\ content'[saves] = content[saves] /\ path'[saves] = path[saves]
        BY <2>6, <3>1, <3>2, <3>7
           DEF Worker, WorkerLock, WorkerWait, WorkerWake, WorkerSuperseded, WorkerTake,
               WorkerAcquire, WorkerOpen, WorkerWrite, WorkerFinish, WorkerSync, WriteStep,
               WorkerRename, WorkerRemove, WorkerRelease, Goto, Fails,
               Coming, Busy, Owning, ThreadTypes
      <4> QED
        BY <3>1, <3>7, <4>1
    <3>8. CASE /\ n = saves
               /\ pendingContent = saves /\ pendingPath = pathOf[saves]
               /\ pc[saves] \in Waiting /\ deadline[saves] = pendingDeadline
      <4>1. pathOf[saves] # NoPath
        BY <3>2 DEF CallInv, ThreadTypes
      <4>2. CASE WorkerTake(n)
        BY <4>1, <4>2, <3>1, <3>2, <3>8, SavesAreNumbers
           DEF WorkerTake, Goto, Coming, Busy, Owning, ThreadTypes
      <4>3. CASE WorkerLock(n) \/ WorkerWait(n) \/ WorkerWake(n)
        BY <4>3, <3>1, <3>2, <3>8
           DEF WorkerLock, WorkerWait, WorkerWake, Goto, Waiting, memory, ThreadTypes
      <4>4. ~WorkerSuperseded(n)
        BY <3>8 DEF WorkerSuperseded, Superseded
      <4> QED
        BY <2>6, <3>8, <4>2, <4>3, <4>4
           DEF Worker, WorkerAcquire, WorkerOpen, WorkerWrite, WorkerFinish, WorkerSync, WriteStep,
               WorkerRename, WorkerRemove, WorkerRelease, Waiting
    <3> QED
      BY <3>3, <3>5, <3>6, <3>7, <3>8
  <2> QED
    BY <2>1, <2>2, <2>3, <2>4, <2>5, <2>6 DEF Next, Schedule, Environment, Kill, PowerLoss, Quiescent
<1> QED
  BY <1>1, <1>2, TypeCorrect, Invariance, PTL DEF Spec

-----------------------------------------------------------------------------
\* Prompt behaviours are behaviours of the writer.
LEMMA PromptIsSpec == PromptSpec => Spec
<1>1. [PromptNext]_vars => [Next]_vars
  BY DEF PromptNext
<1> QED
  BY <1>1, PTL DEF PromptSpec, Spec

\* Prompt writes never overlap: a worker that takes finds no other at work.
LEMMA PromptStep ==
  TypeOK /\ TypeOK' /\ Inv /\ Inv' /\ PromptInv /\ [PromptNext]_vars => PromptInv'
<1> SUFFICES ASSUME TypeOK, TypeOK', Inv, Inv', PromptInv, [PromptNext]_vars
             PROVE  PromptInv'
  OBVIOUS
<1> ThreadTypes /\ FileTypes
  BY TypesSplit
<1> pendingDeadline' \in Nat
  BY DEF TypeOK
<1> USE SavesAreNumbers, ConstantsAssumption DEF Waiting, Busy, Owning
<1>1. ASSUME NEW p \in Paths, ScheduleLock(p) PROVE PromptInv'
  BY <1>1 DEF ScheduleLock, PromptInv, workers, files, ThreadTypes
<1>2. CASE ScheduleReplace
  <2>1. pendingDeadline' >= now + Debounce
    BY <1>2 DEF ScheduleReplace, NextDeadline, ThreadTypes
  <2>2. UNCHANGED <<now, workers, files>> /\ pendingDeadline' \in Nat
    BY <1>2 DEF ScheduleReplace, ThreadTypes
  <2> QED
    BY <2>1, <2>2 DEF PromptInv, workers, files, ThreadTypes
<1>3. CASE ScheduleSpawn
  <2>1. /\ saves \in Saves /\ main = "spawn" /\ main' = "accept"
        /\ \A n \in Saves : pc[n] # "unborn" => n <= saves
        /\ UNCHANGED <<now, takenAt, target>>
    BY <1>3 DEF ScheduleSpawn, Inv, CallInv, ThreadTypes, files
  <2>2. /\ \A n \in Saves : n # saves => pc'[n] = pc[n] /\ deadline'[n] = deadline[n]
        /\ pc'[saves] \in {"lock", "done"}
        /\ pc'[saves] = "lock" => deadline'[saves] = pendingDeadline
    BY <1>3, <2>1 DEF ScheduleSpawn, ThreadTypes
  <2> QED
    BY <2>1, <2>2 DEF PromptInv, ThreadTypes
<1>4. ASSUME NEW n \in Saves, WorkerTake(n) PROVE PromptInv'
  <2>1. /\ main = "accept" /\ n = saves /\ now >= deadline[n] /\ pc[n] = "check"
        /\ \A m \in Saves : pc[m] # "unborn" => m <= n
    BY <1>4 DEF WorkerTake, Superseded, Inv, MutexInv, DeadlineInv, CallInv, ThreadTypes
  <2>2. \A m \in Saves : pc[m] \in Busy => FALSE
    <3> SUFFICES ASSUME NEW m \in Saves, pc[m] \in Busy PROVE FALSE
      OBVIOUS
    <3>1. m < n
      BY <2>1
    <3>2. deadline[n] >= takenAt[m] + Debounce /\ now < takenAt[m] + Debounce
      BY <2>1, <3>1 DEF PromptInv
    <3> QED
      BY <2>1, <3>2 DEF ThreadTypes
  <2>3. \A p \in Paths : target[p].save <= n
    BY <2>1 DEF Inv, JournalInv, HandsInv, FileTypes, Images, ThreadTypes
  <2>4. /\ \A m \in Saves : m # n => pc'[m] = pc[m]
        /\ takenAt'[n] = now
        /\ UNCHANGED <<now, main, target, deadline>>
    BY <1>4 DEF WorkerTake, Goto, files, ThreadTypes
  <2> QED
    BY <2>1, <2>2, <2>3, <2>4 DEF PromptInv, ThreadTypes
<1>5. ASSUME NEW n \in Saves, WorkerRename(n) PROVE PromptInv'
  <2>1. /\ pc[n] = "rename" /\ path[n] \in Paths
        /\ tmp[path[n]] = [save |-> n, stage |-> "synced"]
    <3>1. pc[n] = "rename" /\ content[n] = n /\ path[n] \in Paths
      BY <1>5 DEF WorkerRename, Inv, HandsInv, CallInv
    <3>2. tmp[path[n]] = Image(n, "synced")
      BY <3>1 DEF Inv, HandsInv
    <3> QED
      BY <3>1, <3>2 DEF Image
  <2>2. \A m \in Saves : m # n => pc[m] \notin Busy /\ pc'[m] = pc[m]
    <3>1. \A m \in Saves : m # n => pc[m] \notin Busy
      BY <2>1 DEF PromptInv
    <3>2. \A m \in Saves : m # n => pc'[m] = pc[m]
      BY <1>5 DEF WorkerRename, Goto, ThreadTypes
    <3> QED
      BY <3>1, <3>2
  <2>3. \A p \in Paths : target'[p].save <= n
    <3>1. \A p \in Paths : target[p].save <= n
      BY <2>1 DEF PromptInv
    <3> QED
      BY <1>5, <2>1, <3>1 DEF WorkerRename, files, FileTypes
  <2>4. pc'[n] \in {"release", "remove"} /\ UNCHANGED <<now, main, takenAt, deadline, pendingDeadline>>
    BY <1>5 DEF WorkerRename, Goto, memory, ThreadTypes
  <2> QED
    BY <2>1, <2>2, <2>3, <2>4 DEF PromptInv, ThreadTypes
<1>6. ASSUME NEW n \in Saves,
             \/ WorkerLock(n) \/ WorkerWait(n) \/ WorkerWake(n) \/ WorkerSuperseded(n)
             \/ WorkerAcquire(n) \/ WorkerOpen(n) \/ WorkerWrite(n) \/ WorkerFinish(n)
             \/ WorkerSync(n) \/ WorkerRemove(n) \/ WorkerRelease(n)
      PROVE  PromptInv'
  <2>1. /\ UNCHANGED <<now, main, takenAt, deadline, pendingDeadline, target>>
        /\ \A m \in Saves : m # n => pc'[m] = pc[m]
        /\ pc'[n] \in Busy => pc[n] \in Busy
        /\ pc'[n] \in Waiting => pc[n] \in Waiting
    BY <1>6 DEF WorkerLock, WorkerWait, WorkerWake, WorkerSuperseded, WorkerAcquire,
                WorkerOpen, WorkerWrite, WorkerFinish, WorkerSync, WriteStep, WorkerRemove,
                WorkerRelease, Goto, memory, files, ThreadTypes
  <2> QED
    BY <2>1 DEF PromptInv
<1>7. CASE Tick
  <2>1. \A n \in Saves : pc'[n] \in Busy => now' < takenAt'[n] + Debounce
    BY <1>7 DEF PromptNext, WritesPrompt, Tick, vars
  <2>2. now' = now + 1 /\ UNCHANGED <<memory, workers, files>>
    BY <1>7 DEF Tick
  <2> QED
    BY <2>1, <2>2 DEF PromptInv, memory, workers, files, ThreadTypes
<1>8. ASSUME NEW p \in Paths, Commit(p) PROVE PromptInv'
  BY <1>8 DEF Commit, PromptInv, memory, workers
<1>9. CASE Restart
  <2>1. \A n \in Saves : pc'[n] \in {"done", "unborn"}
    BY <1>9 DEF Restart
  <2> QED
    BY <2>1 DEF PromptInv
<1>10. CASE UNCHANGED vars
  BY <1>10 DEF vars, PromptInv, memory, workers, files
<1> QED
  BY <1>1, <1>2, <1>3, <1>4, <1>5, <1>6, <1>7, <1>8, <1>9, <1>10
     DEF PromptNext, Next, Schedule, Worker, Environment, Kill, PowerLoss, Quiescent

\* When every write is over before a further Debounce has passed since its
\* take, the content of a file never goes back, whichever path it has and
\* however many workers there are.
THEOREM Ordered == PromptSpec => NoRegress
<1>1. Init => PromptInv
  BY DEF Init, PromptInv, Waiting, Busy, Owning
<1>2. ASSUME TypeOK, Inv, PromptInv, [PromptNext]_vars
      PROVE  [\A p \in Paths : target'[p].save >= target[p].save \/ crashes' # crashes]_vars
  <2> ThreadTypes /\ FileTypes /\ crashes \in Nat
    BY <1>2, TypesSplit, ConstantsAssumption DEF TypeOK
  <2> SUFFICES ASSUME Next, NEW p \in Paths, crashes' = crashes
               PROVE  target'[p].save >= target[p].save
    BY <1>2 DEF PromptNext
  <2>1. target[p].save \in Nat
    BY DEF FileTypes, Images
  <2>2. ASSUME NEW n \in Saves, WorkerRename(n) PROVE target'[p].save >= target[p].save
    <3>1. /\ pc[n] = "rename" /\ path[n] \in Paths
          /\ tmp[path[n]] = [save |-> n, stage |-> "synced"]
      BY <1>2, <2>2 DEF WorkerRename, Inv, HandsInv, CallInv, Image, Busy, Owning
    <3>2. target[p].save <= n
      BY <1>2, <3>1 DEF PromptInv, Busy, Owning
    <3> QED
      BY <2>1, <2>2, <3>1, <3>2, SavesAreNumbers DEF WorkerRename, files, FileTypes
  <2>3. ~Restart
    BY DEF Restart
  <2>4. (\E n \in Saves : WorkerRename(n)) \/ UNCHANGED target
    BY <2>3 DEF Next, Schedule, ScheduleLock, ScheduleReplace, ScheduleSpawn, Worker,
                WorkerLock, WorkerWait, WorkerWake, WorkerSuperseded, WorkerTake, WorkerAcquire,
                WorkerOpen, WorkerWrite, WorkerFinish, WorkerSync, WriteStep, WorkerRemove,
                WorkerRelease, Environment, Tick, Commit, Kill, PowerLoss, Quiescent, files, vars
  <2> QED
    BY <2>1, <2>2, <2>4
<1> QED
  BY <1>1, <1>2, PromptStep, PromptIsSpec, TypeCorrect, Invariance, PTL
     DEF PromptSpec, NoRegress

-----------------------------------------------------------------------------
\* The threads, the file system and the crashes implement the store an autosave
\* promises: saves jump into place whole, for their own file, at most once.
THEOREM ImplementsStore == Spec => StoreSpec
<1>1. Init => Store!Init
  BY DEF Init, Store!Init, Original, Saves
<1>2. ASSUME TypeOK, TypeOK', Inv, Inv', [Next]_vars
      PROVE  [Store!Next]_(Store!vars)
  <2> DEFINE file == [p \in Paths |-> IF target[p].stage \in {"full", "synced"}
                                      THEN target[p].save ELSE -1]
  <2> ThreadTypes /\ FileTypes
    BY <1>2, TypesSplit
  <2>1. ASSUME UNCHANGED <<saves, pathOf, committed, target>>
        PROVE  UNCHANGED Store!vars
    BY <2>1 DEF Store!vars
  <2>2. ASSUME NEW p \in Paths, ScheduleLock(p) PROVE Store!Next
    <3>1. Store!Request(p)
      BY <2>2 DEF ScheduleLock, Store!Request, files
    <3> QED
      BY <3>1 DEF Store!Next
  <2>3. ASSUME NEW n \in Saves, WorkerRename(n)
        PROVE  Store!Next \/ UNCHANGED Store!vars
    <3>1. CASE UNCHANGED <<files, committed>>
      BY <2>1, <2>3, <3>1 DEF WorkerRename, calls, files
    <3>2. CASE /\ target' = [target EXCEPT ![path[n]] = tmp[path[n]]]
               /\ committed' = committed \cup {content[n]}
      <4>1. /\ pc[n] = "rename" /\ content[n] = n /\ path[n] = pathOf[n] /\ path[n] \in Paths
            /\ n <= saves /\ n \notin committed
        BY <1>2, <2>3, SavesAreNumbers DEF WorkerRename, Inv, HandsInv, CallInv, Busy, Owning
      <4>2. tmp[path[n]] = [save |-> n, stage |-> "synced"]
        BY <1>2, <4>1 DEF Inv, HandsInv, Image
      <4>3. file' = [file EXCEPT ![pathOf[n]] = n]
        <5>1. \A p \in Paths : target'[p] = IF p = pathOf[n] THEN [save |-> n, stage |-> "synced"]
                                            ELSE target[p]
          BY <3>2, <4>1, <4>2 DEF FileTypes
        <5>2. \A p \in Paths : file'[p] = IF p = pathOf[n] THEN n ELSE file[p]
          BY <5>1
        <5> QED
          BY <5>2
      <4>4. n \in 1..saves
        BY <4>1, SavesAreNumbers DEF ThreadTypes
      <4>5. Store!Put(n)
        BY <2>3, <3>2, <4>1, <4>3, <4>4 DEF Store!Put, WorkerRename, calls
      <4> QED
        BY <4>5 DEF Store!Next, Saves
    <3> QED
      BY <2>3, <3>1, <3>2 DEF WorkerRename
  <2>4. CASE PowerLoss
    <3>1. /\ \A p \in Paths : target'[p].stage = "synced"
          /\ \A p \in Paths : target'[p].save # 0 =>
                target'[p].save \in committed' /\ pathOf'[target'[p].save] = p
      BY <1>2 DEF Inv, JournalInv
    <3>2. UNCHANGED <<saves, pathOf, committed>>
      BY <2>4 DEF PowerLoss, Restart, calls
    <3>3. \A p \in Paths : file'[p] = target'[p].save
      BY <3>1
    <3>4. file' \in [Paths -> committed \cup {0}]
      BY <3>1, <3>2, <3>3
    <3>5. Store!Rollback
      BY <3>1, <3>2, <3>3, <3>4 DEF Store!Rollback
    <3> QED
      BY <3>5 DEF Store!Next
  <2>5. CASE Kill
    BY <2>1, <2>5 DEF Kill, Restart, files, calls
  <2>6. CASE ScheduleReplace \/ ScheduleSpawn \/ Tick \/ (\E p \in Paths : Commit(p)) \/ UNCHANGED vars
    BY <2>1, <2>6 DEF ScheduleReplace, ScheduleSpawn, Tick, Commit, vars, history, calls, files
  <2>7. ASSUME NEW n \in Saves,
               \/ WorkerLock(n) \/ WorkerWait(n) \/ WorkerWake(n) \/ WorkerSuperseded(n)
               \/ WorkerTake(n) \/ WorkerAcquire(n) \/ WorkerOpen(n) \/ WorkerWrite(n)
               \/ WorkerFinish(n) \/ WorkerSync(n) \/ WorkerRemove(n) \/ WorkerRelease(n)
        PROVE  UNCHANGED Store!vars
    BY <2>1, <2>7
       DEF WorkerLock, WorkerWait, WorkerWake, WorkerSuperseded, WorkerTake, WorkerAcquire,
           WorkerOpen, WorkerWrite, WorkerFinish, WorkerSync, WriteStep, WorkerRemove,
           WorkerRelease, history, calls, files
  <2> QED
    BY <1>2, <2>2, <2>3, <2>4, <2>5, <2>6, <2>7
       DEF Next, Schedule, Worker, Environment, Quiescent
<1> QED
  BY <1>1, <1>2, TypeCorrect, Invariance, PTL DEF Spec, StoreSpec, Store!Spec
=============================================================================
