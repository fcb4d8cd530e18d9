----------------------------- MODULE JobProofs -----------------------------
(***************************************************************************)
(* Proofs about the jobs of the demo.                                      *)
(*                                                                         *)
(* The server, src/demo/main.go: IInv is an invariant for any number of    *)
(* requests, any queue length and any number of crashes, one lemma per     *)
(* action; the safety properties follow from it.  While no disk fails      *)
(* DiskFollows is an invariant too, and a restart shows what was there.    *)
(* The server implements the history, JobHistory, that its page asks for.  *)
(*                                                                         *)
(* The page, demo/web/app.js, on top of that history: PageIInv is an       *)
(* invariant for any number of jobs and of requests under way.             *)
(*                                                                         *)
(* And the two together: with the real server behind it the page does what *)
(* it does on top of the history.                                          *)
(***************************************************************************)
EXTENDS Demo, SequenceTheorems, TLAPS
-----------------------------------------------------------------------------
(* A directory for a request.                                              *)
LEMMA UploadStep ==
  ASSUME NEW id \in Jobs, IInv, Upload(id)
  PROVE  IInv'
<1>1. TypeOK'
  BY DEF IInv, TypeOK, Upload
<1>2. NoOrphans'
  BY DEF IInv, NoOrphans, Queued, Upload
<1>3. ServedOnce'
  BY DEF IInv, ServedOnce, Upload
<1>4. DoneHasOutput'
  BY DEF IInv, DoneHasOutput, Upload
<1>5. HandlerLeaves'
  BY DEF IInv, TypeOK, HandlerLeaves, Upload
<1>6. WorkerLeaves'
  BY DEF IInv, WorkerLeaves, Upload
<1>7. QueueAccepted'
  BY DEF IInv, QueueAccepted, Upload
<1>8. DownIsEmpty'
  BY DEF DownIsEmpty, Upload
<1> QED
  BY <1>1, <1>2, <1>3, <1>4, <1>5, <1>6, <1>7, <1>8 DEF IInv

(* An upload turned away.                                                  *)
LEMMA UnusableStep ==
  ASSUME NEW id \in Jobs, IInv, Unusable(id)
  PROVE  IInv'
<1>1. TypeOK'
  BY DEF IInv, TypeOK, Unusable
<1>2. NoOrphans'
  BY DEF IInv, NoOrphans, Queued, Unusable
<1>3. ServedOnce'
  BY DEF IInv, ServedOnce, Unusable
<1>4. DoneHasOutput'
  BY DEF IInv, DoneHasOutput, Unusable
<1>5. HandlerLeaves'
  BY DEF IInv, HandlerLeaves, Unusable
<1>6. WorkerLeaves'
  BY DEF IInv, WorkerLeaves, Unusable
<1>7. QueueAccepted'
  BY DEF IInv, QueueAccepted, Unusable
<1>8. DownIsEmpty'
  BY DEF DownIsEmpty, Unusable
<1> QED
  BY <1>1, <1>2, <1>3, <1>4, <1>5, <1>6, <1>7, <1>8 DEF IInv

(* The record enters the map.                                              *)
LEMMA PublishStep ==
  ASSUME NEW id \in Jobs, IInv, Publish(id)
  PROVE  IInv'
<1>1. TypeOK'
  BY DEF IInv, TypeOK, States, Publish, Truncate
<1>2. NoOrphans'
  BY DEF IInv, TypeOK, NoOrphans, Queued, Publish
<1>3. ServedOnce'
  BY DEF IInv, ServedOnce, Publish
<1>4. DoneHasOutput'
  BY DEF IInv, TypeOK, DoneHasOutput, Publish, Truncate
<1>5. HandlerLeaves'
  BY DemoJobsAssumption DEF IInv, TypeOK, HandlerLeaves, Unlocked, Publish,
    Truncate
<1>6. WorkerLeaves'
  BY DEF IInv, WorkerLeaves, Unlocked, Publish
<1>7. QueueAccepted'
  BY DEF IInv, QueueAccepted, Publish
<1>8. DownIsEmpty'
  BY DEF IInv, DownIsEmpty, Publish
<1> QED
  BY <1>1, <1>2, <1>3, <1>4, <1>5, <1>6, <1>7, <1>8 DEF IInv

(* Its manifest is written.                                                *)
LEMMA PublishedStep ==
  ASSUME NEW id \in Jobs, IInv, Published(id)
  PROVE  IInv'
<1>1. TypeOK'
  BY DEF IInv, TypeOK, HandlerLeaves, Published, Write
<1>2. NoOrphans'
  BY DEF IInv, NoOrphans, Queued, Published
<1>3. ServedOnce'
  BY DEF IInv, ServedOnce, Published
<1>4. DoneHasOutput'
  BY DEF IInv, TypeOK, DoneHasOutput, Published, Write
<1>5. HandlerLeaves'
  BY DEF IInv, TypeOK, HandlerLeaves, Published, Write
<1>6. WorkerLeaves'
  BY DEF IInv, HandlerLeaves, WorkerLeaves, Published
<1>7. QueueAccepted'
  BY DEF IInv, QueueAccepted, Published
<1>8. DownIsEmpty'
  BY DEF DownIsEmpty, Published
<1> QED
  BY <1>1, <1>2, <1>3, <1>4, <1>5, <1>6, <1>7, <1>8 DEF IInv

(* What Append does to the queue, or nothing.                              *)
LEMMA Longer ==
  ASSUME TypeOK, NEW id \in Jobs, Enqueue(id)
  PROVE  \/ /\ handler' = [handler EXCEPT ![id] = "accepted"]
            /\ Len(queue) \in Nat /\ DOMAIN queue = 1 .. Len(queue)
            /\ DOMAIN queue' = 1 .. Len(queue) + 1
            /\ \A i \in 1 .. Len(queue) : queue'[i] = queue[i]
            /\ queue'[Len(queue) + 1] = id
         \/ handler' = [handler EXCEPT ![id] = "refusing"] /\ queue' = queue
<1>1. queue \in Seq(Jobs) /\ Len(queue) \in Nat /\ DOMAIN queue = 1 .. Len(queue)
  BY DEF TypeOK
<1>2. CASE Len(queue) < QueueLimit
  <2>1. queue' = Append(queue, id) /\ handler' = [handler EXCEPT ![id] = "accepted"]
    BY <1>2 DEF Enqueue
  <2>2. queue' \in Seq(Jobs) /\ Len(queue') = Len(queue) + 1
    BY <1>1, <2>1, AppendProperties
  <2>3. DOMAIN queue' = 1 .. Len(queue) + 1
    BY <2>2
  <2>4. queue'[Len(queue) + 1] = id
    BY <1>1, <2>1, AppendProperties
  <2>5. \A i \in 1 .. Len(queue) : queue'[i] = queue[i]
    BY <1>1, <2>1, AppendProperties
  <2> QED
    BY <1>1, <2>1, <2>3, <2>4, <2>5
<1>3. CASE ~(Len(queue) < QueueLimit)
  BY <1>3 DEF Enqueue
<1> QED
  BY <1>2, <1>3

(* The job is queued or refused.                                           *)
LEMMA EnqueueStep ==
  ASSUME NEW id \in Jobs, IInv, Enqueue(id)
  PROVE  IInv'
<1> TypeOK
  BY DEF IInv
<1>1. TypeOK'
  <2>1. queue \in Seq(Jobs) /\ queue' \in {queue, Append(queue, id)}
    BY DEF IInv, TypeOK, Enqueue
  <2>2. queue' \in Seq(Jobs)
    BY <2>1, AppendProperties
  <2>3. Len(queue') <= QueueLimit
    BY <2>1, AppendProperties, DemoJobsAssumption, JobServerAssumption DEF IInv, TypeOK, Enqueue
  <2> QED
    BY <2>2, <2>3 DEF IInv, TypeOK, Enqueue
<1>2. NoOrphans'
  <2>1. ASSUME NEW other \in Jobs, Queued(other)
        PROVE  Queued(other)'
    BY <2>1, Longer DEF Queued
  <2>2. handler'[id] = "refusing" \/ Queued(id)'
    BY Longer DEF IInv, TypeOK, Enqueue, Queued
  <2> QED
    BY <2>1, <2>2 DEF IInv, TypeOK, NoOrphans, Enqueue
<1>3. ServedOnce'
  <2>1. records[id] = "queued" /\ worker.job # id
    BY DemoJobsAssumption DEF IInv, TypeOK, HandlerLeaves, WorkerLeaves, Enqueue
  <2>2. \A i \in DOMAIN queue : queue[i] # id
    BY DEF IInv, TypeOK, QueueAccepted, Enqueue
  <2> QED
    BY <2>1, <2>2, Longer DEF IInv, ServedOnce, Enqueue
<1>4. DoneHasOutput'
  BY DEF IInv, DoneHasOutput, Enqueue
<1>5. HandlerLeaves'
  BY DEF IInv, TypeOK, HandlerLeaves, Enqueue
<1>6. WorkerLeaves'
  BY DEF IInv, TypeOK, WorkerLeaves, Enqueue
<1>7. QueueAccepted'
  <2>1. \A i \in DOMAIN queue : queue[i] \in Jobs
    BY DEF IInv, TypeOK
  <2>2. handler \in [Jobs -> {"idle", "uploading", "publishing", "published", "accepted",
                           "refusing", "cleanup", "turned_away", "lost"}]
    BY DEF IInv, TypeOK
  <2>3. CASE queue' = queue
    BY <2>1, <2>2, <2>3, Longer DEF IInv, QueueAccepted, Enqueue
  <2>4. CASE queue' # queue
    BY <2>1, <2>2, <2>4, Longer DEF IInv, QueueAccepted
  <2> QED
    BY <2>3, <2>4
<1>8. DownIsEmpty'
  BY DEF DownIsEmpty, Enqueue
<1> QED
  BY <1>1, <1>2, <1>3, <1>4, <1>5, <1>6, <1>7, <1>8 DEF IInv

(* The record leaves the map.                                              *)
LEMMA ForgetStep ==
  ASSUME NEW id \in Jobs, IInv, Forget(id)
  PROVE  IInv'
<1>1. TypeOK'
  BY DEF IInv, TypeOK, Forget
<1>2. NoOrphans'
  BY DEF IInv, TypeOK, NoOrphans, Queued, Forget
<1>3. ServedOnce'
  BY DEF IInv, TypeOK, ServedOnce, WorkerLeaves, QueueAccepted, Forget
<1>4. DoneHasOutput'
  BY DEF IInv, DoneHasOutput, Forget
<1>5. HandlerLeaves'
  BY DEF IInv, TypeOK, HandlerLeaves, Forget
<1>6. WorkerLeaves'
  BY DEF IInv, WorkerLeaves, Forget
<1>7. QueueAccepted'
  BY DEF IInv, QueueAccepted, Forget
<1>8. DownIsEmpty'
  BY DEF IInv, DownIsEmpty, Forget
<1> QED
  BY <1>1, <1>2, <1>3, <1>4, <1>5, <1>6, <1>7, <1>8 DEF IInv

(* The directory is removed.                                               *)
LEMMA RemoveDirectoryStep ==
  ASSUME NEW id \in Jobs, IInv, RemoveDirectory(id)
  PROVE  IInv'
<1>1. TypeOK'
  BY DEF IInv, TypeOK, RemoveDirectory
<1>2. NoOrphans'
  BY DEF IInv, NoOrphans, Queued, RemoveDirectory
<1>3. ServedOnce'
  BY DEF IInv, ServedOnce, RemoveDirectory
<1>4. DoneHasOutput'
  BY DEF IInv, TypeOK, DoneHasOutput, HandlerLeaves, RemoveDirectory
<1>5. HandlerLeaves'
  BY DEF IInv, TypeOK, HandlerLeaves, RemoveDirectory
<1>6. WorkerLeaves'
  BY DEF IInv, WorkerLeaves, RemoveDirectory
<1>7. QueueAccepted'
  BY DEF IInv, QueueAccepted, RemoveDirectory
<1>8. DownIsEmpty'
  BY DEF DownIsEmpty, RemoveDirectory
<1> QED
  BY <1>1, <1>2, <1>3, <1>4, <1>5, <1>6, <1>7, <1>8 DEF IInv

(* What Tail leaves of the queue.                                          *)
LEMMA Shorter ==
  ASSUME TypeOK, Take
  PROVE  /\ Len(queue) \in Nat \ {0} /\ DOMAIN queue = 1 .. Len(queue)
         /\ worker'.job = queue[1]
         /\ DOMAIN queue' = 1 .. Len(queue) - 1
         /\ \A i \in 1 .. Len(queue) - 1 : queue'[i] = queue[i + 1]
<1>1. queue \in Seq(Jobs) /\ queue # <<>> /\ queue' = Tail(queue)
  BY DEF TypeOK, Take
<1>2. Len(queue) \in Nat \ {0} /\ DOMAIN queue = 1 .. Len(queue)
  BY <1>1, EmptySeq
<1>3. queue' \in Seq(Jobs) /\ Len(queue') = Len(queue) - 1
  BY <1>1, HeadTailProperties
<1>4. DOMAIN queue' = 1 .. Len(queue) - 1
  BY <1>3
<1>5. \A i \in 1 .. Len(queue) - 1 : queue'[i] = queue[i + 1]
  BY <1>1, <1>3, HeadTailProperties
<1>6. worker'.job = queue[1]
  BY <1>1 DEF TypeOK, Take
<1> QED
  BY <1>2, <1>4, <1>5, <1>6

(* The worker takes a job.                                                 *)
LEMMA TakeStep ==
  ASSUME IInv, Take
  PROVE  IInv'
<1> TypeOK
  BY DEF IInv
<1>1. TypeOK'
  <2>1. Head(queue) \in Jobs /\ queue' \in Seq(Jobs) /\ Len(queue') = Len(queue) - 1
    BY HeadTailProperties DEF IInv, TypeOK, Take
  <2>2. Len(queue) \in Nat
    BY DEF IInv, TypeOK
  <2>3. worker' \in [job : Jobs \cup {NoJob}, step : Steps, result : Terminal \cup {"none"}]
    BY <2>1 DEF IInv, TypeOK, Steps, Take
  <2>4. worker'.step = "taken" /\ worker'.job # NoJob
    BY <2>1, DemoJobsAssumption DEF IInv, TypeOK, Take
  <2>5. Len(queue') <= QueueLimit
    BY <2>1, <2>2, JobServerAssumption DEF IInv, TypeOK
  <2> QED
    BY <2>1, <2>3, <2>4, <2>5 DEF IInv, TypeOK, Take
<1>2. NoOrphans'
  <2>1. ASSUME NEW id \in Jobs, Queued(id)
        PROVE  Queued(id)' \/ (worker'.job = id /\ worker'.step = "taken")
    <3>1. PICK i \in 1 .. Len(queue) : queue[i] = id
      BY <2>1, Shorter DEF Queued
    <3>2. CASE i = 1
      BY <3>1, <3>2, Shorter DEF IInv, TypeOK, Take
    <3>3. CASE i # 1
      <4>1. i - 1 \in DOMAIN queue' /\ queue'[i - 1] = id
        BY <3>1, <3>3, Shorter
      <4> QED
        BY <4>1 DEF Queued
    <3> QED
      BY <3>2, <3>3
  <2> QED
    BY <2>1 DEF IInv, TypeOK, NoOrphans, Take
<1>3. ServedOnce'
  BY Shorter DEF IInv, TypeOK, ServedOnce, Take
<1>4. DoneHasOutput'
  BY DEF IInv, DoneHasOutput, Take
<1>5. HandlerLeaves'
  BY DEF IInv, HandlerLeaves, Take
<1>6. WorkerLeaves'
  BY DEF IInv, ServedOnce, WorkerLeaves, QueueAccepted, Take
<1>7. QueueAccepted'
  BY Shorter DEF IInv, QueueAccepted, Take
<1>8. DownIsEmpty'
  BY DEF DownIsEmpty, Take
<1> QED
  BY <1>1, <1>2, <1>3, <1>4, <1>5, <1>6, <1>7, <1>8 DEF IInv

(* The worker looks the record up.                                         *)
LEMMA LookUpStep ==
  ASSUME IInv, LookUp
  PROVE  IInv'
<1>1. TypeOK'
  BY DEF IInv, TypeOK, WorkerLeaves, Steps, LookUp
<1>2. NoOrphans'
  BY DEF IInv, NoOrphans, Queued, LookUp
<1>3. ServedOnce'
  BY DEF IInv, ServedOnce, LookUp
<1>4. DoneHasOutput'
  BY DEF IInv, DoneHasOutput, LookUp
<1>5. HandlerLeaves'
  BY DEF IInv, HandlerLeaves, LookUp
<1>6. WorkerLeaves'
  BY DEF IInv, ServedOnce, WorkerLeaves, LookUp
<1>7. QueueAccepted'
  BY DEF IInv, QueueAccepted, LookUp
<1>8. DownIsEmpty'
  BY DEF IInv, TypeOK, DownIsEmpty, LookUp
<1> QED
  BY <1>1, <1>2, <1>3, <1>4, <1>5, <1>6, <1>7, <1>8 DEF IInv

(* The job is running.                                                     *)
LEMMA BeginStep ==
  ASSUME IInv, Begin
  PROVE  IInv'
<1>1. TypeOK'
  BY DEF IInv, TypeOK, States, Steps, Begin, Truncate
<1>2. NoOrphans'
  BY DEF IInv, TypeOK, NoOrphans, Queued, Begin
<1>3. ServedOnce'
  BY DEF IInv, ServedOnce, Begin
<1>4. DoneHasOutput'
  BY DEF IInv, TypeOK, DoneHasOutput, Begin, Truncate
<1>5. HandlerLeaves'
  BY DemoJobsAssumption DEF IInv, TypeOK, HandlerLeaves, WorkerLeaves,
    Unlocked, Begin, Truncate
<1>6. WorkerLeaves'
  BY DEF IInv, TypeOK, WorkerLeaves, Begin, Truncate
<1>7. QueueAccepted'
  BY DEF IInv, QueueAccepted, Begin
<1>8. DownIsEmpty'
  BY DEF IInv, TypeOK, WorkerLeaves, DownIsEmpty, Begin
<1> QED
  BY <1>1, <1>2, <1>3, <1>4, <1>5, <1>6, <1>7, <1>8 DEF IInv

(* Its manifest says so.                                                   *)
LEMMA BegunStep ==
  ASSUME IInv, Begun
  PROVE  IInv'
<1>1. TypeOK'
  BY DEF IInv, TypeOK, WorkerLeaves, Steps, Begun, Write
<1>2. NoOrphans'
  BY DEF IInv, NoOrphans, Queued, Begun
<1>3. ServedOnce'
  BY DEF IInv, ServedOnce, Begun
<1>4. DoneHasOutput'
  BY DEF IInv, TypeOK, DoneHasOutput, Begun, Write
<1>5. HandlerLeaves'
  BY DEF IInv, TypeOK, HandlerLeaves, WorkerLeaves, Begun, Write
<1>6. WorkerLeaves'
  BY DEF IInv, WorkerLeaves, Begun
<1>7. QueueAccepted'
  BY DEF IInv, QueueAccepted, Begun
<1>8. DownIsEmpty'
  BY DEF DownIsEmpty, Begun
<1> QED
  BY <1>1, <1>2, <1>3, <1>4, <1>5, <1>6, <1>7, <1>8 DEF IInv

(* The commands have ended.                                                *)
LEMMA WorkStep ==
  ASSUME NEW result \in Terminal, IInv, Work(result)
  PROVE  IInv'
<1>1. TypeOK'
  BY DEF IInv, TypeOK, Steps, Work
<1>2. NoOrphans'
  BY DEF IInv, NoOrphans, Queued, Work
<1>3. ServedOnce'
  BY DEF IInv, ServedOnce, Work
<1>4. DoneHasOutput'
  BY DEF IInv, DoneHasOutput, Work
<1>5. HandlerLeaves'
  <2>1. handler[worker.job] = "accepted"
    BY DEF IInv, TypeOK, WorkerLeaves, Work
  <2> QED
    BY <2>1 DEF IInv, HandlerLeaves, Work
<1>6. WorkerLeaves'
  BY DEF IInv, WorkerLeaves, Work
<1>7. QueueAccepted'
  BY DEF IInv, QueueAccepted, Work
<1>8. DownIsEmpty'
  BY DEF DownIsEmpty, Work
<1> QED
  BY <1>1, <1>2, <1>3, <1>4, <1>5, <1>6, <1>7, <1>8 DEF IInv

(* The job is settled.                                                     *)
LEMMA FinishStep ==
  ASSUME IInv, Finish
  PROVE  IInv'
<1>1. TypeOK'
  BY DEF IInv, TypeOK, WorkerLeaves, States, Terminal, Steps, Finish, Truncate
<1>2. NoOrphans'
  BY DEF IInv, TypeOK, NoOrphans, Terminal, Queued, Finish
<1>3. ServedOnce'
  BY DEF IInv, ServedOnce, Finish
<1>4. DoneHasOutput'
  BY DEF IInv, TypeOK, DoneHasOutput, WorkerLeaves, Finish, Truncate
<1>5. HandlerLeaves'
  BY DemoJobsAssumption DEF IInv, TypeOK, HandlerLeaves, WorkerLeaves,
    Unlocked, Finish, Truncate
<1>6. WorkerLeaves'
  BY DEF IInv, TypeOK, WorkerLeaves, Finish, Truncate
<1>7. QueueAccepted'
  BY DEF IInv, QueueAccepted, Finish
<1>8. DownIsEmpty'
  BY DEF IInv, TypeOK, WorkerLeaves, DownIsEmpty, Finish
<1> QED
  BY <1>1, <1>2, <1>3, <1>4, <1>5, <1>6, <1>7, <1>8 DEF IInv

(* Its manifest says so.                                                   *)
LEMMA FinishedStep ==
  ASSUME IInv, Finished
  PROVE  IInv'
<1>1. TypeOK'
  BY DEF IInv, TypeOK, WorkerLeaves, Terminal, Idle, Steps, Finished, Write
<1>2. NoOrphans'
  BY DEF IInv, NoOrphans, Queued, Finished
<1>3. ServedOnce'
  BY DemoJobsAssumption DEF IInv, TypeOK, ServedOnce, Idle, Finished
<1>4. DoneHasOutput'
  BY DEF IInv, TypeOK, DoneHasOutput, Finished, Write
<1>5. HandlerLeaves'
  BY DEF IInv, TypeOK, HandlerLeaves, WorkerLeaves, Finished, Write
<1>6. WorkerLeaves'
  BY DEF WorkerLeaves, Idle, Finished
<1>7. QueueAccepted'
  BY DEF IInv, QueueAccepted, Finished
<1>8. DownIsEmpty'
  BY DEF DownIsEmpty, Finished
<1> QED
  BY <1>1, <1>2, <1>3, <1>4, <1>5, <1>6, <1>7, <1>8 DEF IInv

(* The process dies.                                                       *)
LEMMA CrashStep ==
  ASSUME IInv, Crash
  PROVE  IInv'
<1>1. TypeOK'
  <2>1. crashes' \in 0 .. MaxCrashes
    BY DemoJobsAssumption, JobServerAssumption DEF IInv, TypeOK, Crash
  <2>2. queue' \in Seq(Jobs) /\ Len(queue') = 0
    BY EmptySeq DEF Crash
  <2>3. worker' \in [job : Jobs \cup {NoJob}, step : Steps, result : Terminal \cup {"none"}]
    BY DEF Crash, Idle, Steps
  <2>4. handler' \in [Jobs -> {"idle", "uploading", "publishing", "published", "accepted",
                            "refusing", "cleanup", "turned_away", "lost"}]
    BY DEF IInv, TypeOK, Crash
  <2>5. worker'.step = "idle" /\ worker'.job = NoJob /\ writing' = NoJob
    BY DEF Idle, Crash
  <2>6. Len(queue') <= QueueLimit
    BY <2>2, DemoJobsAssumption, JobServerAssumption
  <2> QED
    BY <2>1, <2>2, <2>3, <2>4, <2>5, <2>6 DEF IInv, TypeOK, Crash
<1>2. NoOrphans'
  BY DEF NoOrphans, Crash
<1>3. ServedOnce'
  BY DEF ServedOnce, Idle, Crash
<1>4. DoneHasOutput'
  BY DEF IInv, DoneHasOutput, Crash
<1>5. HandlerLeaves'
  BY DEF IInv, HandlerLeaves, Crash
<1>6. WorkerLeaves'
  BY DEF WorkerLeaves, Idle, Crash
<1>7. QueueAccepted'
  BY DEF QueueAccepted, Crash
<1>8. DownIsEmpty'
  BY DEF DownIsEmpty, Crash
<1> QED
  BY <1>1, <1>2, <1>3, <1>4, <1>5, <1>6, <1>7, <1>8 DEF IInv

(* The process starts again.                                               *)
LEMMA RestartStep ==
  ASSUME IInv, Restart
  PROVE  IInv'
<1>1. TypeOK'
  BY DEF IInv, TypeOK, States, Terminal, Restart, Restored
<1>2. NoOrphans'
  BY DEF IInv, TypeOK, NoOrphans, States, Terminal, Restart, Restored
<1>3. ServedOnce'
  BY DEF IInv, TypeOK, ServedOnce, DownIsEmpty, Restart
<1>4. DoneHasOutput'
  BY DEF IInv, TypeOK, DoneHasOutput, States, Terminal, Restart, Restored
<1>5. HandlerLeaves'
  BY DEF IInv, HandlerLeaves, DownIsEmpty, Restart, Restored
<1>6. WorkerLeaves'
  BY DEF IInv, TypeOK, WorkerLeaves, DownIsEmpty, Restart
<1>7. QueueAccepted'
  BY DEF IInv, QueueAccepted, Restart
<1>8. DownIsEmpty'
  BY DEF DownIsEmpty, Restart
<1> QED
  BY <1>1, <1>2, <1>3, <1>4, <1>5, <1>6, <1>7, <1>8 DEF IInv
-----------------------------------------------------------------------------
(* An empty directory and an empty queue satisfy the invariant.            *)
LEMMA Initial == Init => IInv
<1> SUFFICES ASSUME Init
             PROVE  IInv
  OBVIOUS
<1>1. TypeOK
  <2>1. queue \in Seq(Jobs) /\ Len(queue) <= QueueLimit
    BY DemoJobsAssumption, JobServerAssumption, EmptySeq DEF Init
  <2> QED
    BY <2>1, DemoJobsAssumption, JobServerAssumption DEF Init, TypeOK, Idle, Steps
<1>2. queue = <<>> /\ worker = Idle /\ DOMAIN queue = {}
  BY DEF Init
<1>3. NoOrphans /\ DoneHasOutput /\ HandlerLeaves /\ DownIsEmpty
  BY DEF Init, NoOrphans, DoneHasOutput, HandlerLeaves, DownIsEmpty
<1>4. ServedOnce /\ WorkerLeaves /\ QueueAccepted
  BY <1>2 DEF ServedOnce, WorkerLeaves, QueueAccepted, Idle
<1> QED
  BY <1>1, <1>3, <1>4 DEF IInv

(* Every step of the server keeps the invariant.                           *)
LEMMA Inductive == IInv /\ [Next]_vars => IInv'
<1> SUFFICES ASSUME IInv, [Next]_vars
             PROVE  IInv'
  OBVIOUS
<1>1. ASSUME NEW id \in Jobs, Upload(id)
      PROVE  IInv'
  BY <1>1, UploadStep
<1>2. ASSUME NEW id \in Jobs, Unusable(id)
      PROVE  IInv'
  BY <1>2, UnusableStep
<1>3. ASSUME NEW id \in Jobs, Handle(id)
      PROVE  IInv'
  BY <1>3, PublishStep, PublishedStep, EnqueueStep, ForgetStep, RemoveDirectoryStep
     DEF Handle
<1>4. CASE WorkerStep
  <2>1. ASSUME NEW result \in Terminal, Work(result)
        PROVE  IInv'
    BY <2>1, WorkStep
  <2> QED
    BY <1>4, <2>1, TakeStep, LookUpStep, BeginStep, BegunStep, FinishStep, FinishedStep
       DEF WorkerStep
<1>5. CASE Crash
  BY <1>5, CrashStep
<1>6. CASE Restart
  BY <1>6, RestartStep
<1>7. CASE UNCHANGED vars
  BY <1>7 DEF vars, IInv, TypeOK, NoOrphans, ServedOnce, DoneHasOutput, HandlerLeaves,
              WorkerLeaves, QueueAccepted, DownIsEmpty, Queued
<1> QED
  BY <1>1, <1>2, <1>3, <1>4, <1>5, <1>6, <1>7 DEF Next

(* The inductive invariant holds in every state of the server of main.go,  *)
(* whatever the number of requests, the queue limit and the crashes.       *)
THEOREM Invariance == Spec => []IInv
<1>1. Init => IInv
  BY Initial
<1>2. IInv /\ [Next]_vars => IInv'
  BY Inductive
<1> QED
  BY <1>1, <1>2, PTL DEF Spec

(* No record of main.go's map says queued or running with nobody left to   *)
(* take care of the job.                                                   *)
THEOREM NobodyOrphaned == Spec => []NoOrphans
<1>1. IInv => NoOrphans
  BY DEF IInv
<1> QED
  BY <1>1, Invariance, PTL

(* The channel never holds a job twice, or one the worker has; the worker  *)
(* finds the record of every job it takes.                                 *)
THEOREM JobsServedOnce == Spec => []ServedOnce
<1>1. IInv => ServedOnce
  BY DEF IInv
<1> QED
  BY <1>1, Invariance, PTL

(* A job shown as done, now or after a restart, has its result.glb, even   *)
(* when persist loses writes.                                              *)
THEOREM ResultsExist == Spec => []DoneHasOutput
<1>1. IInv => DoneHasOutput
  BY DEF IInv
<1> QED
  BY <1>1, Invariance, PTL

(* A request generate turned away is not worked on, even when its          *)
(* directory could not be removed (main.go:362): a manifest left behind    *)
(* comes back at most as an error.                                         *)
THEOREM RefusedNeverRuns == Spec => []TurnedAwayNeverRuns
<1>1. IInv => TurnedAwayNeverRuns
  <2> SUFFICES ASSUME IInv, NEW id \in Jobs, handler[id] = "turned_away"
               PROVE  /\ records[id] \in {"absent", "error"}
                      /\ disk[id] \notin {"running", "done"}
                      /\ ~Queued(id) /\ worker.job # id /\ id \notin outputs
    BY DEF TurnedAwayNeverRuns
  <2>1. /\ records[id] \in {"absent", "error"} /\ id \notin outputs
        /\ disk[id] \notin {"running", "done"}
    BY DEF IInv, HandlerLeaves
  <2>2. ~Queued(id)
    BY DEF IInv, QueueAccepted, Queued
  <2>3. worker.job # id
    BY DemoJobsAssumption DEF IInv, WorkerLeaves
  <2> QED
    BY <2>1, <2>2, <2>3
<1> QED
  BY <1>1, Invariance, PTL

(* Only the worker settles a job and it settles each once: a record that   *)
(* is done or an error stays as it is while the process runs.              *)
THEOREM SettledForGood == Spec => TerminalStays
<1>1. IInv /\ [Next]_vars =>
        [up /\ up' => \A id \in Jobs : records[id] \in Terminal => records'[id] = records[id]]_vars
  <2> SUFFICES ASSUME IInv, [Next]_vars, up, up', NEW other \in Jobs, records[other] \in Terminal
               PROVE  records'[other] = records[other]
    OBVIOUS
  <2>1. records \in [Jobs -> States \cup {"absent"}]
    BY DEF IInv, TypeOK
  <2>2. records[other] # "queued" /\ records[other] # "running" /\ records[other] # "absent"
    BY DEF Terminal
  <2>3. ASSUME NEW id \in Jobs, Upload(id) \/ Unusable(id) \/ Handle(id)
        PROVE  records'[other] = records[other]
    <3>1. CASE Publish(id) \/ Forget(id)
      <4>1. records[id] \in {"queued", "absent"}
        BY <3>1 DEF IInv, HandlerLeaves, Publish, Forget
      <4> QED
        BY <2>1, <2>2, <3>1, <4>1 DEF Publish, Forget
    <3>2. CASE ~(Publish(id) \/ Forget(id))
      BY <2>3, <3>2 DEF Upload, Unusable, Handle, Published, Enqueue, RemoveDirectory
    <3> QED
      BY <3>1, <3>2
  <2>4. CASE WorkerStep
    <3>1. CASE Begin \/ Finish
      <4>1. worker.job \in Jobs /\ records[worker.job] \in {"queued", "running"}
        BY <3>1 DEF IInv, TypeOK, WorkerLeaves, Begin, Finish
      <4>2. worker.job # other
        BY <2>2, <4>1
      <4> QED
        BY <2>1, <3>1, <4>1, <4>2 DEF Begin, Finish
    <3>2. CASE ~(Begin \/ Finish)
      BY <2>4, <3>2 DEF WorkerStep, Take, LookUp, Begun, Work, Finished
    <3> QED
      BY <3>1, <3>2
  <2>5. CASE Crash
    BY <2>5 DEF Crash
  <2>6. CASE Restart
    BY <2>6 DEF Restart
  <2>7. CASE UNCHANGED vars
    BY <2>7 DEF vars
  <2> QED
    BY <2>3, <2>4, <2>5, <2>6, <2>7 DEF Next
<1> QED
  BY <1>1, Invariance, PTL DEF Spec, TerminalStays
-----------------------------------------------------------------------------
(* What restore makes of each manifest.                                    *)
LEMMA RestoredValues ==
  /\ Restored("none") = "absent" /\ Restored("empty") = "absent" /\ Restored("torn") = "absent"
  /\ Restored("queued") = "error" /\ Restored("running") = "error"
  /\ Restored("done") = "done" /\ Restored("error") = "error"
BY DEF Restored, Terminal

(* The manifests follow the records while no disk fails: one step per      *)
(* action of the server.                                                   *)
LEMMA DiskStep ==
  ASSUME ~DiskFails, IInv, DiskFollows, [Next]_vars
  PROVE  DiskFollows'
<1> USE RestoredValues DEF DiskFollows, Shown
<1>1. ASSUME NEW id \in Jobs, Upload(id)
      PROVE  DiskFollows'
  BY <1>1 DEF IInv, TypeOK, HandlerLeaves, Upload
<1>2. ASSUME NEW id \in Jobs, Unusable(id)
      PROVE  DiskFollows'
  BY <1>2 DEF IInv, TypeOK, Unusable
<1>3. ASSUME NEW id \in Jobs, Publish(id)
      PROVE  DiskFollows'
  <2>1. /\ disk' = [disk EXCEPT ![id] = "torn"] /\ writing' = id
        /\ records' = [records EXCEPT ![id] = "queued"]
        /\ handler' = [handler EXCEPT ![id] = "publishing"]
        /\ up /\ up' /\ writing = NoJob
    BY <1>3 DEF Publish, Truncate, Unlocked
  <2>2. \A other \in Jobs \ {id} : other # writing
    BY <2>1, DemoJobsAssumption
  <2> QED
    BY <2>1, <2>2 DEF IInv, TypeOK
<1>4. ASSUME NEW id \in Jobs, Published(id)
      PROVE  DiskFollows'
  BY <1>4, DemoJobsAssumption DEF IInv, TypeOK, HandlerLeaves, Published, Write
<1>5. ASSUME NEW id \in Jobs, Enqueue(id)
      PROVE  DiskFollows'
  BY <1>5 DEF IInv, TypeOK, Enqueue
<1>6. ASSUME NEW id \in Jobs, Forget(id)
      PROVE  DiskFollows'
  BY <1>6 DEF IInv, TypeOK, Forget, Unlocked
<1>7. ASSUME NEW id \in Jobs, RemoveDirectory(id)
      PROVE  DiskFollows'
  BY <1>7 DEF IInv, TypeOK, HandlerLeaves, RemoveDirectory
<1>8. CASE Begin \/ Finish
  <2>1. worker.job \in Jobs /\ handler[worker.job] = "accepted" /\ writing = NoJob
    BY <1>8 DEF IInv, TypeOK, WorkerLeaves, Begin, Finish, Unlocked
  <2> QED
    <3>1. /\ disk' = [disk EXCEPT ![worker.job] = "torn"] /\ writing' = worker.job
          /\ \E new : records' = [records EXCEPT ![worker.job] = new]
          /\ handler' = handler /\ up /\ up'
      BY <1>8 DEF Begin, Finish, Truncate, Unlocked
    <3>2. \A other \in Jobs \ {worker.job} : other # writing
      BY <2>1, DemoJobsAssumption
    <3> QED
      BY <2>1, <3>1, <3>2 DEF IInv, TypeOK
<1>9. CASE Begun \/ Finished
  <2>1. worker.job \in Jobs /\ writing = worker.job
    BY <1>9 DEF IInv, TypeOK, WorkerLeaves, Begun, Finished
  <2>2. records[writing] \in {"running", "done", "error"}
    BY <1>9, <2>1 DEF IInv, TypeOK, WorkerLeaves, Begun, Finished, Terminal
  <2>3. PICK written \in Jobs : written = writing
    BY <2>1
  <2>4. /\ disk' = [disk EXCEPT ![written] = records[written]] /\ writing' = NoJob
        /\ records' = records /\ handler' = handler /\ up /\ up'
    BY <1>9, <2>1, <2>3 DEF Begun, Finished, Write
  <2>5. disk'[written] = records[written] /\ \A other \in Jobs \ {written} : disk'[other] = disk[other]
    BY <2>4 DEF IInv, TypeOK
  <2>6. Restored(disk'[written]) = Shown(written)'
    BY <2>2, <2>3, <2>4, <2>5
  <2> QED
    BY <2>3, <2>4, <2>5, <2>6
<1>10. CASE Take \/ LookUp \/ \E result \in Terminal : Work(result)
  <2>1. UNCHANGED <<up, records, disk, handler, writing>>
    BY <1>10 DEF Take, LookUp, Work
  <2> QED
    BY <2>1
<1>11. CASE Crash
  BY <1>11 DEF Crash
<1>12. CASE Restart
  <2>1. \A id \in Jobs : Restored(disk[id]) \in {"absent", "done", "error"}
    BY DEF IInv, TypeOK, States
  <2> QED
    BY <1>12, <2>1 DEF IInv, DownIsEmpty, Restart
<1>13. CASE UNCHANGED vars
  BY <1>13 DEF vars
<1> HIDE RestoredValues DEF DiskFollows, Shown
<1> QED
  BY <1>1, <1>2, <1>3, <1>4, <1>5, <1>6, <1>7, <1>8, <1>9, <1>10, <1>11, <1>12, <1>13
     DEF Next, Handle, WorkerStep

LEMMA ManifestsFollow ==
  ASSUME ~DiskFails
  PROVE  Spec => []DiskFollows
<1>1. Init => DiskFollows
  BY DEF Init, DiskFollows, Restored, Shown, Terminal
<1>2. IInv /\ DiskFollows /\ [Next]_vars => DiskFollows'
  BY DiskStep
<1> QED
  BY <1>1, <1>2, Invariance, PTL DEF Spec

(* While the disk never fails, a restart at any moment the lock is free    *)
(* shows the history shown now, jobs under way as errors.                  *)
THEOREM RestartAgrees ==
  ASSUME ~DiskFails
  PROVE  Spec => []RestartShowsTheSame
<1>1. DiskFollows => RestartShowsTheSame
  <2> SUFFICES ASSUME DiskFollows, Unlocked, NEW id \in Jobs, handler[id] # "cleanup"
               PROVE  Restored(disk[id]) = Shown(id)
    BY DEF RestartShowsTheSame
  <2>1. up /\ id # writing
    BY DemoJobsAssumption DEF Unlocked
  <2> QED
    BY <2>1 DEF DiskFollows
<1> QED
  BY <1>1, ManifestsFollow, PTL

(* While removals do not fail either, generate leaves of a request it      *)
(* turned away no record, no directory and no entry in the queue, and a    *)
(* restart brings nothing of it back.                                      *)
THEOREM NothingLeftBehind ==
  ASSUME ~DiskFails
  PROVE  Spec => []TurnedAwayForgotten
<1>1. IInv /\ DiskFollows => TurnedAwayForgotten
  <2> SUFFICES ASSUME IInv, DiskFollows, NEW id \in Jobs, handler[id] = "turned_away"
               PROVE  records[id] = "absent" /\ disk[id] = "none" /\ ~Queued(id)
    BY DEF TurnedAwayForgotten
  <2>1. disk[id] = "none"
    BY DEF IInv, HandlerLeaves
  <2>2. records[id] = "absent"
    <3>1. CASE up
      <4>1. id # writing
        BY DemoJobsAssumption DEF DiskFollows
      <4>2. Restored(disk[id]) = Shown(id)
        BY <3>1, <4>1 DEF DiskFollows
      <4> QED
        BY <2>1, <4>2, RestoredValues DEF Shown
    <3>2. CASE ~up
      BY <3>2 DEF IInv, DownIsEmpty
    <3> QED
      BY <3>1, <3>2
  <2>3. ~Queued(id)
    BY DEF IInv, QueueAccepted, Queued
  <2> QED
    BY <2>1, <2>2, <2>3
<1> QED
  BY <1>1, Invariance, ManifestsFollow, PTL
-----------------------------------------------------------------------------
(* The server behind its lock, queue, worker and manifests is the one its  *)
(* callers see: each step is one of JobHistory's, or none of them.         *)
LEMMA HandlerStepRefines ==
  ASSUME IInv, NEW id \in Jobs, Upload(id) \/ Unusable(id) \/ Handle(id)
  PROVE  History!Next \/ UNCHANGED History!vars
<1>1. handler \in [Jobs -> {"idle", "uploading", "publishing", "published", "accepted",
                            "refusing", "cleanup", "turned_away", "lost"}]
      /\ records \in [Jobs -> States \cup {"absent"}]
  BY DEF IInv, TypeOK
<1>2. CASE Upload(id)
  <2>1. up' = up /\ records' = records /\ KnownJobs' = KnownJobs /\ AcceptedJobs' = AcceptedJobs
    BY <1>1, <1>2 DEF Upload, KnownJobs, AcceptedJobs
  <2> QED
    BY <2>1 DEF History!vars, KnownJobs, AcceptedJobs
<1>3. CASE Unusable(id)
  <2>1. up /\ id \notin KnownJobs /\ KnownJobs' = KnownJobs \cup {id}
    BY <1>1, <1>3 DEF Unusable, KnownJobs
  <2>2. up' = up /\ records' = records /\ AcceptedJobs' = AcceptedJobs
    BY <1>1, <1>3 DEF Unusable, AcceptedJobs
  <2>3. History!Reject(id)
    BY <2>1, <2>2 DEF History!Reject, KnownJobs, AcceptedJobs
  <2> QED
    BY <2>3 DEF History!Next
<1>4. CASE Publish(id)
  <2>1. up /\ id \notin KnownJobs /\ KnownJobs' = KnownJobs \cup {id}
    BY <1>1, <1>4 DEF Publish, Unlocked, KnownJobs
  <2>2. up' = up /\ records' = [records EXCEPT ![id] = "queued"] /\ AcceptedJobs' = AcceptedJobs
    BY <1>1, <1>4 DEF Publish, AcceptedJobs
  <2>3. History!Publish(id)
    BY <2>1, <2>2 DEF History!Publish, KnownJobs, AcceptedJobs
  <2> QED
    BY <2>3 DEF History!Next
<1>5. CASE Published(id)
  <2>1. up' = up /\ records' = records /\ KnownJobs' = KnownJobs /\ AcceptedJobs' = AcceptedJobs
    BY <1>1, <1>5 DEF Published, KnownJobs, AcceptedJobs
  <2> QED
    BY <2>1 DEF History!vars, KnownJobs, AcceptedJobs
<1>6. CASE Enqueue(id)
  <2>1. up /\ up' = up /\ records' = records /\ records[id] = "queued" /\ KnownJobs' = KnownJobs
    BY <1>1, <1>6 DEF Enqueue, KnownJobs, IInv, HandlerLeaves
  <2>2. CASE Len(queue) < QueueLimit
    <3>1. AcceptedJobs' = AcceptedJobs \cup {id}
      BY <1>1, <1>6, <2>2 DEF Enqueue, AcceptedJobs
    <3>2. History!Accept(id)
      BY <2>1, <3>1 DEF History!Accept, KnownJobs, AcceptedJobs
    <3> QED
      BY <3>2 DEF History!Next
  <2>3. CASE ~(Len(queue) < QueueLimit)
    <3>1. AcceptedJobs' = AcceptedJobs
      BY <1>1, <1>6, <2>3 DEF Enqueue, AcceptedJobs
    <3> QED
      BY <2>1, <3>1 DEF History!vars, KnownJobs, AcceptedJobs
  <2> QED
    BY <2>2, <2>3
<1>7. CASE Forget(id)
  <2>1. up /\ records[id] = "queued" /\ id \notin AcceptedJobs
    BY <1>7 DEF Forget, Unlocked, AcceptedJobs, IInv, HandlerLeaves
  <2>2. up' = up /\ records' = [records EXCEPT ![id] = "absent"]
        /\ KnownJobs' = KnownJobs /\ AcceptedJobs' = AcceptedJobs
    BY <1>1, <1>7 DEF Forget, KnownJobs, AcceptedJobs
  <2>3. History!Withdraw(id)
    BY <2>1, <2>2 DEF History!Withdraw, KnownJobs, AcceptedJobs
  <2> QED
    BY <2>3 DEF History!Next
<1>8. CASE RemoveDirectory(id)
  <2>1. up' = up /\ records' = records /\ KnownJobs' = KnownJobs /\ AcceptedJobs' = AcceptedJobs
    BY <1>1, <1>8 DEF RemoveDirectory, KnownJobs, AcceptedJobs
  <2> QED
    BY <2>1 DEF History!vars, KnownJobs, AcceptedJobs
<1> QED
  BY <1>2, <1>3, <1>4, <1>5, <1>6, <1>7, <1>8 DEF Handle

LEMMA WorkerStepRefines ==
  ASSUME IInv, WorkerStep
  PROVE  History!Next \/ UNCHANGED History!vars
<1>1. KnownJobs' = KnownJobs /\ AcceptedJobs' = AcceptedJobs /\ up' = up /\ up
  BY DEF WorkerStep, Take, LookUp, Begin, Begun, Work, Finish, Finished, Unlocked,
         KnownJobs, AcceptedJobs
<1>2. CASE Begin
  <2>1. worker.job \in Jobs /\ records[worker.job] = "queued" /\ worker.job \in AcceptedJobs
    BY <1>2 DEF Begin, IInv, TypeOK, WorkerLeaves, AcceptedJobs
  <2>2. \A k \in Jobs : records[k] # "running"
    BY <1>2 DEF Begin, IInv, NoOrphans
  <2>3. records' = [records EXCEPT ![worker.job] = "running"]
    BY <1>2 DEF Begin
  <2>4. History!Start(worker.job)
    BY <1>1, <2>1, <2>2, <2>3 DEF History!Start, KnownJobs, AcceptedJobs
  <2> QED
    BY <2>1, <2>4 DEF History!Next, History!Progress
<1>3. CASE Finish
  <2>1. worker.job \in Jobs /\ records[worker.job] = "running" /\ worker.result \in Terminal
    BY <1>3 DEF Finish, IInv, TypeOK, WorkerLeaves
  <2>2. records' = [records EXCEPT ![worker.job] = worker.result]
    BY <1>3 DEF Finish
  <2>3. History!Settle(worker.job, worker.result)
    BY <1>1, <2>1, <2>2 DEF History!Settle, KnownJobs, AcceptedJobs
  <2> QED
    BY <2>1, <2>3 DEF History!Next, History!Progress, History!Settled, Terminal
<1>4. CASE ~(Begin \/ Finish)
  <2>1. records' = records
    BY <1>4 DEF WorkerStep, Take, LookUp, Begun, Work, Finished
  <2> QED
    BY <1>1, <2>1 DEF History!vars, KnownJobs, AcceptedJobs
<1> QED
  BY <1>2, <1>3, <1>4

LEMMA CrashRefines ==
  ASSUME IInv, Crash
  PROVE  History!Next
<1>1. handler \in [Jobs -> {"idle", "uploading", "publishing", "published", "accepted",
                            "refusing", "cleanup", "turned_away", "lost"}]
  BY DEF IInv, TypeOK
<1>2. up /\ up' = FALSE /\ records' = [j \in Jobs |-> "absent"]
  BY DEF Crash
<1>3. KnownJobs' \in SUBSET Jobs /\ KnownJobs \subseteq KnownJobs' /\ AcceptedJobs' = AcceptedJobs
  BY <1>1 DEF Crash, KnownJobs, AcceptedJobs
<1>4. History!Fall
  BY <1>2, <1>3 DEF History!Fall, KnownJobs, AcceptedJobs
<1> QED
  BY <1>4 DEF History!Next

LEMMA RestartRefines ==
  ASSUME IInv, Restart
  PROVE  History!Next
<1>1. disk \in [Jobs -> States \cup {"none", "empty", "torn"}]
  BY DEF IInv, TypeOK
<1>2. ~up /\ up' = TRUE /\ KnownJobs' = KnownJobs /\ AcceptedJobs' = AcceptedJobs
  BY DEF Restart, KnownJobs, AcceptedJobs
<1>3. ASSUME NEW j \in Jobs
      PROVE  Restored(disk[j]) \in {"absent"} \cup History!Settled
  BY <1>1 DEF Restored, States, Terminal, History!Settled
<1>4. ASSUME NEW j \in Jobs, Restored(disk[j]) # "absent"
      PROVE  j \in KnownJobs
  <2>1. handler[j] \in {"idle", "accepted", "turned_away", "lost"}
    BY <1>2 DEF IInv, DownIsEmpty
  <2>2. handler[j] # "idle"
    BY <1>4 DEF IInv, HandlerLeaves, Restored, Terminal
  <2> QED
    BY <2>1, <2>2 DEF KnownJobs
<1>5. records' = [j \in Jobs |-> Restored(disk[j])]
  BY DEF Restart
<1>6. records' \in [Jobs -> {"absent"} \cup History!Settled]
  BY <1>3, <1>5
<1>7. \A j \in Jobs : records'[j] # "absent" => j \in KnownJobs
  BY <1>4, <1>5
<1>8. History!Rise
  BY <1>2, <1>6, <1>7 DEF History!Rise, KnownJobs, AcceptedJobs
<1> QED
  BY <1>8 DEF History!Next

LEMMA InitRefines == Init => History!Init
BY DEF Init, History!Init, KnownJobs, AcceptedJobs

LEMMA NextRefines ==
  ASSUME IInv, [Next]_vars
  PROVE  History!Next \/ UNCHANGED History!vars
<1>1. CASE \E id \in Jobs : Upload(id) \/ Unusable(id) \/ Handle(id)
  BY <1>1, HandlerStepRefines
<1>2. CASE WorkerStep
  BY <1>2, WorkerStepRefines
<1>3. CASE Crash
  BY <1>3, CrashRefines
<1>4. CASE Restart
  BY <1>4, RestartRefines
<1>5. CASE UNCHANGED vars
  BY <1>5 DEF vars, History!vars, KnownJobs, AcceptedJobs
<1> QED
  BY <1>1, <1>2, <1>3, <1>4, <1>5 DEF Next

(* The job server implements JobHistory.                                   *)
THEOREM Implements == Spec => ImplementsHistory
<1>1. Init => History!Init
  BY InitRefines
<1>2. IInv /\ [Next]_vars => [History!Next]_(History!vars)
  BY NextRefines
<1> QED
  BY <1>1, <1>2, Invariance, PTL DEF Spec, ImplementsHistory, History!Spec
-----------------------------------------------------------------------------
LEMMA NoJobIsNone == NoJob \notin Jobs
BY DemoJobsAssumption

(* Removing a request leaves the others.                                   *)
LEMMA Removal ==
  ASSUME PageTypeOK, NEW i \in DOMAIN asked, asked' = RemoveAt(asked, i)
  PROVE  /\ asked' \in Seq(Requests)
         /\ UnderWay' \subseteq UnderWay
         /\ UnderWay \subseteq UnderWay' \cup {asked[i]}
<1> DEFINE n == Len(asked)
           front == SubSeq(asked, 1, i - 1)
           back == SubSeq(asked, i + 1, n)
<1>1. asked \in Seq(Requests) /\ n \in Nat /\ DOMAIN asked = 1 .. n /\ i \in 1 .. n
  BY DEF PageTypeOK
<1>2. \A k \in 1 .. n : asked[k] \in Requests
  BY <1>1
<1>3. /\ front \in Seq(Requests) /\ Len(front) = i - 1
      /\ \A k \in 1 .. i - 1 : front[k] = asked[k]
  BY <1>1, <1>2
<1>4. /\ back \in Seq(Requests) /\ Len(back) = n - i
      /\ \A k \in 1 .. n - i : back[k] = asked[k + i]
  BY <1>1, <1>2
<1> HIDE DEF front, back
<1>5. asked' = front \o back
  BY DEF RemoveAt, front, back
<1>6. /\ asked' \in Seq(Requests)
      /\ DOMAIN asked' = 1 .. n - 1
      /\ \A k \in 1 .. n - 1 :
           asked'[k] = IF k <= i - 1 THEN front[k] ELSE back[k - (i - 1)]
  <2>1. /\ asked' \in Seq(Requests) /\ Len(asked') = Len(front) + Len(back)
        /\ \A k \in 1 .. Len(front) + Len(back) :
             asked'[k] = IF k <= Len(front) THEN front[k] ELSE back[k - Len(front)]
    <3>1. front \in Seq(Requests) /\ back \in Seq(Requests)
      BY <1>3, <1>4
    <3>2. /\ front \o back \in Seq(Requests)
          /\ Len(front \o back) = Len(front) + Len(back)
          /\ \A k \in 1 .. Len(front) + Len(back) :
               (front \o back)[k] = IF k <= Len(front) THEN front[k] ELSE back[k - Len(front)]
      BY <3>1, ConcatProperties, Zenon
    <3> QED
      BY <1>5, <3>2, Zenon
  <2>2. Len(front) + Len(back) = n - 1
    BY <1>1, <1>3, <1>4
  <2>3. DOMAIN asked' = 1 .. n - 1
    BY <2>1, <2>2
  <2>4. \A k \in 1 .. n - 1 :
           asked'[k] = IF k <= Len(front) THEN front[k] ELSE back[k - Len(front)]
    BY <2>1, <2>2
  <2>5. Len(front) = i - 1
    BY <1>3
  <2> QED
    BY <2>1, <2>3, <2>4, <2>5
<1>7. ASSUME NEW k \in 1 .. n - 1
      PROVE  \E m \in 1 .. n : asked'[k] = asked[m]
  <2>1. CASE k <= i - 1
    BY <1>1, <1>3, <1>6, <2>1
  <2>2. CASE ~(k <= i - 1)
    <3>1. k - (i - 1) \in 1 .. n - i /\ k + 1 \in 1 .. n /\ k - (i - 1) + i = k + 1
      BY <1>1, <2>2
    <3>2. asked'[k] = asked[k + 1]
      BY <1>4, <1>6, <2>2, <3>1
    <3> QED
      BY <3>1, <3>2
  <2> QED
    BY <2>1, <2>2
<1>8. ASSUME NEW m \in 1 .. n, m # i
      PROVE  \E k \in 1 .. n - 1 : asked'[k] = asked[m]
  <2>1. CASE m < i
    <3>1. m \in 1 .. i - 1 /\ m \in 1 .. n - 1 /\ m <= i - 1
      BY <1>1, <2>1
    <3> QED
      BY <1>3, <1>6, <3>1
  <2>2. CASE m > i
    <3>1. m - 1 \in 1 .. n - 1 /\ ~(m - 1 <= i - 1) /\ m - i \in 1 .. n - i
          /\ (m - 1) - (i - 1) = m - i /\ (m - i) + i = m
      BY <1>1, <2>2
    <3>2. asked'[m - 1] = back[m - i]
      BY <1>6, <3>1
    <3>3. back[m - i] = asked[m]
      BY <1>4, <3>1
    <3> QED
      BY <3>1, <3>2, <3>3
  <2> QED
    BY <1>1, <1>8, <2>1, <2>2
<1>9. UnderWay' \subseteq UnderWay
  <2> SUFFICES ASSUME NEW k \in DOMAIN asked'
               PROVE  \E m \in DOMAIN asked : asked'[k] = asked[m]
    BY DEF UnderWay
  <2> QED
    BY <1>1, <1>6, <1>7
<1>10. UnderWay \subseteq UnderWay' \cup {asked[i]}
  <2> SUFFICES ASSUME NEW m \in DOMAIN asked, m # i
               PROVE  \E k \in DOMAIN asked' : asked'[k] = asked[m]
    BY DEF UnderWay
  <2> QED
    BY <1>1, <1>6, <1>8
<1> QED
  BY <1>6, <1>9, <1>10

LEMMA Asking ==
  ASSUME PageTypeOK, NEW by \in {"start", "timer", "generate"}, Ask(by)
  PROVE  /\ asked' \in Seq(Requests)
         /\ UnderWay' = UnderWay \cup {[by |-> by, answer |-> Unanswered]}
<1> DEFINE new == [by |-> by, answer |-> Unanswered]
           n == Len(asked)
<1>1. asked \in Seq(Requests) /\ new \in Requests /\ asked' = Append(asked, new)
  BY DEF PageTypeOK, Ask, Requests
<1> HIDE DEF new
<1>2. n \in Nat /\ DOMAIN asked = 1 .. n
  BY <1>1
<1>3. /\ asked' \in Seq(Requests) /\ DOMAIN asked' = 1 .. n + 1
      /\ \A i \in 1 .. n : asked'[i] = asked[i]
      /\ asked'[n + 1] = new
  BY <1>1, <1>2, AppendProperties
<1>4. 1 .. n + 1 = (1 .. n) \cup {n + 1}
  BY <1>2
<1>5. UnderWay' = UnderWay \cup {new}
  <2>1. UnderWay = {asked'[i] : i \in 1 .. n}
    BY <1>2, <1>3 DEF UnderWay
  <2>2. UnderWay' = {asked'[i] : i \in (1 .. n) \cup {n + 1}}
    BY <1>3, <1>4 DEF UnderWay
  <2> QED
    BY <1>3, <2>1, <2>2
<1> QED
  BY <1>3, <1>5 DEF new

LEMMA Answering ==
  ASSUME PageTypeOK, NEW i \in DOMAIN asked, Answer(i)
  PROVE  /\ asked' \in Seq(Requests)
         /\ UnderWay \subseteq UnderWay' \cup {asked[i]}
         /\ \E request \in UnderWay' :
              /\ request.answer = history
              /\ UnderWay' \subseteq UnderWay \cup {request}
<1> DEFINE new == [asked[i] EXCEPT !.answer = history]
<1>1. asked \in Seq(Requests) /\ i \in 1 .. Len(asked) /\ asked[i] \in Requests
  BY DEF PageTypeOK
<1>2. new \in Requests /\ new.answer = history
  BY <1>1 DEF PageTypeOK, Requests
<1>3. asked' = [asked EXCEPT ![i] = new]
  BY <1>1 DEF Answer
<1> HIDE DEF new
<1>4. asked' \in Seq(Requests) /\ DOMAIN asked' = DOMAIN asked
  BY <1>1, <1>2, <1>3
<1>5. \A k \in DOMAIN asked : asked'[k] = IF k = i THEN new ELSE asked[k]
  BY <1>1, <1>3
<1>6. new \in UnderWay'
  BY <1>4, <1>5 DEF UnderWay
<1>7. UnderWay' \subseteq UnderWay \cup {new} /\ UnderWay \subseteq UnderWay' \cup {asked[i]}
  BY <1>4, <1>5, Zenon DEF UnderWay
<1> QED
  BY <1>2, <1>4, <1>6, <1>7
-----------------------------------------------------------------------------
(* What a step of the server may do.                                       *)
LEMMA ServerKeeps ==
  ASSUME PageTypeOK, AnswersLag, Server!Next
  PROVE  /\ history' \in [Jobs -> PageStates]
         /\ accepted' \subseteq known' /\ known \subseteq known' /\ known' \subseteq Jobs
         /\ \A j \in Jobs : history'[j] # "absent" => j \in known'
         /\ \A j \in known : history'[j] \in Pending => history[j] \in Pending
<1> USE DEF PageTypeOK, AnswersLag, PageStates, Pending, Server!Settled
<1>1. ASSUME NEW j \in Jobs, Server!Publish(j) \/ Server!Reject(j)
      PROVE  /\ history' \in [Jobs -> PageStates]
             /\ accepted' \subseteq known' /\ known \subseteq known' /\ known' \subseteq Jobs
             /\ \A k \in Jobs : history'[k] # "absent" => k \in known'
             /\ \A k \in known : history'[k] \in Pending => history[k] \in Pending
  BY <1>1 DEF Server!Publish, Server!Reject
<1>2. ASSUME NEW j \in Jobs, Server!Withdraw(j)
      PROVE  /\ history' \in [Jobs -> PageStates]
             /\ accepted' \subseteq known' /\ known \subseteq known' /\ known' \subseteq Jobs
             /\ \A k \in Jobs : history'[k] # "absent" => k \in known'
             /\ \A k \in known : history'[k] \in Pending => history[k] \in Pending
  BY <1>2 DEF Server!Withdraw
<1>3. ASSUME NEW j \in Jobs, Server!Accept(j)
      PROVE  /\ history' \in [Jobs -> PageStates]
             /\ accepted' \subseteq known' /\ known \subseteq known' /\ known' \subseteq Jobs
             /\ \A k \in Jobs : history'[k] # "absent" => k \in known'
             /\ \A k \in known : history'[k] \in Pending => history[k] \in Pending
  BY <1>3 DEF Server!Accept
<1>4. ASSUME Server!Progress
      PROVE  /\ history' \in [Jobs -> PageStates]
             /\ accepted' \subseteq known' /\ known \subseteq known' /\ known' \subseteq Jobs
             /\ \A k \in Jobs : history'[k] # "absent" => k \in known'
             /\ \A k \in known : history'[k] \in Pending => history[k] \in Pending
  BY <1>4 DEF Server!Progress, Server!Start, Server!Settle
<1>5. ASSUME Server!Fall \/ Server!Rise
      PROVE  /\ history' \in [Jobs -> PageStates]
             /\ accepted' \subseteq known' /\ known \subseteq known' /\ known' \subseteq Jobs
             /\ \A k \in Jobs : history'[k] # "absent" => k \in known'
             /\ \A k \in known : history'[k] \in Pending => history[k] \in Pending
  BY <1>5 DEF Server!Fall, Server!Rise
<1> QED
  BY <1>1, <1>2, <1>3, <1>4, <1>5 DEF Server!Next

LEMMA ServerStepKeeps ==
  ASSUME PageIInv, ServerStep
  PROVE  PageIInv'
<1> USE DEF PageIInv
<1>1. /\ job' = job /\ poll' = poll /\ asked' = asked /\ failed' = failed
      /\ UnderWay' = UnderWay
  BY DEF ServerStep, polling, UnderWay
<1>2. /\ history' \in [Jobs -> PageStates]
      /\ accepted' \subseteq known' /\ known \subseteq known' /\ known' \subseteq Jobs
      /\ \A j \in Jobs : history'[j] # "absent" => j \in known'
      /\ \A j \in known : history'[j] \in Pending => history[j] \in Pending
  BY ServerKeeps DEF ServerStep
<1>3. PageTypeOK'
  BY <1>1, <1>2 DEF PageTypeOK
<1>4. AnswersLag'
  <2> SUFFICES ASSUME NEW request \in UnderWay, request.answer # Unanswered, NEW j \in Jobs
               PROVE  /\ request.answer[j] # "absent" => j \in known'
                      /\ request.answer[j] \in Server!Settled => history'[j] \notin Pending
    BY <1>1, <1>2 DEF AnswersLag, Server!Settled
  <2>1. /\ request.answer[j] # "absent" => j \in known
        /\ request.answer[j] \in Server!Settled => history[j] \notin Pending
    BY DEF AnswersLag
  <2> QED
    BY <1>2, <2>1 DEF Server!Settled
<1>5. Watched'
  <2> SUFFICES ASSUME job # NoJob, history'[job] \in Pending, ~poll, ~failed
               PROVE  \E request \in UnderWay : Promising(request)
    BY <1>1 DEF Watched, Promising, Pending
  <2>1. job \in known
    BY DEF PageTypeOK
  <2> QED
    BY <1>2, <2>1 DEF Watched
<1> QED
  BY <1>3, <1>4, <1>5

(* A page's step leaves the server as it is.                               *)
LEMMA PageStepKeeps ==
  ASSUME PageIInv, UNCHANGED server,
         asked' \in Seq(Requests), job' \in known \cup {NoJob},
         poll' \in BOOLEAN, failed' \in BOOLEAN,
         \A request \in UnderWay' \ UnderWay : request.answer \in {Unanswered, history},
         job' # NoJob /\ history[job'] \in Pending =>
           poll' \/ failed' \/ \E request \in UnderWay' :
             request.answer # Unanswered => request.answer[job'] \in Pending
  PROVE  PageIInv'
<1>1. history' = history /\ known' = known /\ accepted' = accepted
  BY DEF server
<1>2. PageTypeOK'
  BY <1>1 DEF PageIInv, PageTypeOK
<1>3. AnswersLag'
  <2> SUFFICES ASSUME NEW request \in UnderWay', request.answer # Unanswered, NEW j \in Jobs
               PROVE  /\ request.answer[j] # "absent" => j \in known
                      /\ request.answer[j] \in Server!Settled => history[j] \notin Pending
    BY <1>1 DEF PageIInv, AnswersLag, Server!Settled
  <2>1. CASE request \in UnderWay
    BY <2>1 DEF PageIInv, AnswersLag
  <2>2. CASE request.answer = history
    <3>1. history[j] # "absent" => j \in known
      BY DEF PageIInv, AnswersLag
    <3>2. history[j] \in Server!Settled => history[j] \notin Pending
      BY DEF Server!Settled, Pending
    <3> QED
      BY <2>2, <3>1, <3>2
  <2> QED
    BY <2>1, <2>2
<1>4. Watched'
  BY <1>1 DEF Watched, Promising, Pending
<1> QED
  BY <1>2, <1>3, <1>4 DEF PageIInv

(* Steps that leave the following of jobs as it is.                        *)
LEMMA ElsewhereKeeps ==
  ASSUME PageIInv, UNCHANGED <<server, polling, failed>>
  PROVE  PageIInv'
BY DEF PageIInv, PageTypeOK, AnswersLag, Watched, Promising, UnderWay, server, polling,
       Server!Settled, Pending

LEMMA GeneratedKeeps ==
  ASSUME PageIInv, Generated
  PROVE  PageIInv'
<1> DEFINE new == [by |-> "generate", answer |-> Unanswered]
<1>1. asked' \in Seq(Requests) /\ UnderWay' = UnderWay \cup {new}
  BY Asking DEF PageIInv, Generated
<1>2. job' \in known /\ poll' = poll /\ failed' = failed /\ UNCHANGED server
  BY DEF Generated, PageIInv, PageTypeOK
<1>3. poll \in BOOLEAN /\ failed \in BOOLEAN
  BY DEF PageIInv, PageTypeOK
<1>4. new \in UnderWay' /\ new.answer = Unanswered
  BY <1>1
<1> QED
  BY <1>1, <1>2, <1>3, <1>4, PageStepKeeps

LEMMA TimerKeeps ==
  ASSUME PageIInv, TimerFires
  PROVE  PageIInv'
<1> DEFINE new == [by |-> "timer", answer |-> Unanswered]
<1>1. asked' \in Seq(Requests) /\ UnderWay' = UnderWay \cup {new}
  BY Asking DEF PageIInv, TimerFires
<1>2. job' = job /\ poll' = FALSE /\ failed' = failed /\ UNCHANGED server
  BY DEF TimerFires
<1>3. failed \in BOOLEAN /\ job \in known \cup {NoJob}
  BY DEF PageIInv, PageTypeOK
<1>4. new \in UnderWay' /\ new.answer = Unanswered
  BY <1>1
<1> QED
  BY <1>1, <1>2, <1>3, <1>4, PageStepKeeps

LEMMA AnswerKeeps ==
  ASSUME PageIInv, NEW i \in DOMAIN asked, Answer(i)
  PROVE  PageIInv'
<1>1. /\ asked' \in Seq(Requests)
      /\ UnderWay \subseteq UnderWay' \cup {asked[i]}
  BY Answering DEF PageIInv
<1>2. PICK request \in UnderWay' :
        request.answer = history /\ UnderWay' \subseteq UnderWay \cup {request}
  BY Answering DEF PageIInv
<1>3. job' = job /\ poll' = poll /\ failed' = failed /\ UNCHANGED server
  BY DEF Answer
<1>4. poll \in BOOLEAN /\ failed \in BOOLEAN /\ job \in known \cup {NoJob}
  BY DEF PageIInv, PageTypeOK
<1>5. history[job] \in Pending => (request.answer # Unanswered => request.answer[job] \in Pending)
  BY <1>2
<1> QED
  BY <1>1, <1>2, <1>3, <1>4, <1>5, PageStepKeeps

LEMMA FailureKeeps ==
  ASSUME PageIInv, NEW i \in DOMAIN asked, RefreshFails(i)
  PROVE  PageIInv'
<1>1. asked' \in Seq(Requests) /\ UnderWay' \subseteq UnderWay
  BY Removal DEF PageIInv, RefreshFails
<1>2. job' = job /\ poll' = poll /\ failed' = TRUE /\ UNCHANGED server
  BY DEF RefreshFails
<1>3. poll \in BOOLEAN /\ job \in known \cup {NoJob}
  BY DEF PageIInv, PageTypeOK
<1> QED
  BY <1>1, <1>2, <1>3, PageStepKeeps

(* The answer that has come: what it knows, and what becomes of it.        *)
LEMMA Arrived ==
  ASSUME PageIInv, NEW i \in DOMAIN asked, Refresh(i)
  PROVE  /\ asked[i] \in UnderWay /\ asked[i].answer # Unanswered
         /\ asked' \in Seq(Requests)
         /\ UnderWay' \subseteq UnderWay
         /\ UnderWay \subseteq UnderWay' \cup {asked[i]}
         /\ failed' = failed /\ UNCHANGED server
         /\ \A j \in Jobs : /\ asked[i].answer[j] # "absent" => j \in known
                            /\ asked[i].answer[j] \in Server!Settled => history[j] \notin Pending
<1>1. asked[i] \in UnderWay
  BY DEF UnderWay
<1>2. asked[i].answer # Unanswered /\ asked' = RemoveAt(asked, i)
      /\ failed' = failed /\ UNCHANGED server
  BY DEF Refresh
<1>3. \A j \in Jobs : /\ asked[i].answer[j] # "absent" => j \in known
                      /\ asked[i].answer[j] \in Server!Settled => history[j] \notin Pending
  BY <1>1, <1>2 DEF PageIInv, AnswersLag
<1> QED
  BY <1>1, <1>2, <1>3, Removal DEF PageIInv

LEMMA RefreshKeeps ==
  ASSUME PageIInv, NEW i \in DOMAIN asked, Refresh(i)
  PROVE  PageIInv'
<1> DEFINE list == asked[i].answer
           by == asked[i].by
<1>1. /\ asked[i] \in UnderWay /\ list # Unanswered
      /\ asked' \in Seq(Requests)
      /\ UnderWay' \subseteq UnderWay
      /\ UnderWay \subseteq UnderWay' \cup {asked[i]}
      /\ failed' = failed /\ UNCHANGED server
      /\ \A j \in Jobs : list[j] # "absent" => j \in known
  BY Arrived
<1>2. poll \in BOOLEAN /\ failed \in BOOLEAN /\ job \in known \cup {NoJob} /\ known \subseteq Jobs
  BY DEF PageIInv, PageTypeOK
<1>3. CASE Settles(list, by)
  <2>1. job' = NoJob /\ poll' = FALSE
    BY <1>3 DEF Settles
  <2> QED
    BY <1>1, <1>2, <2>1, PageStepKeeps
<1>4. CASE GoesOn(list, by)
  <2>1. job' \in known /\ poll' = TRUE
    BY <1>1, <1>4 DEF GoesOn, Pending
  <2> QED
    BY <1>1, <1>2, <2>1, PageStepKeeps
<1>5. CASE Rests(list, by)
  <2>1. job' = job /\ poll' = poll /\ \A j \in Jobs : list[j] \notin Pending
    BY <1>5 DEF Rests
  <2>2. ASSUME job # NoJob, history[job] \in Pending, ~poll, ~failed
        PROVE  \E request \in UnderWay' : Promising(request)
    <3>1. PICK request \in UnderWay : Promising(request)
      BY <2>2 DEF PageIInv, Watched
    <3>2. job \in Jobs
      BY <1>2, <2>2
    <3>3. request # asked[i]
      BY <1>1, <2>1, <3>1, <3>2 DEF Promising
    <3> QED
      BY <1>1, <3>1, <3>3
  <2>3. job' # NoJob /\ history[job'] \in Pending =>
           poll' \/ failed' \/ \E request \in UnderWay' :
             request.answer # Unanswered => request.answer[job'] \in Pending
    BY <1>1, <2>1, <2>2 DEF Promising
  <2> QED
    BY <1>1, <1>2, <2>1, <2>3, PageStepKeeps
<1> QED
  BY <1>3, <1>4, <1>5 DEF Refresh
-----------------------------------------------------------------------------
LEMMA PageInitInvariant == PageInit => PageIInv
<1> SUFFICES ASSUME PageInit
             PROVE  PageIInv
  OBVIOUS
<1>1. asked = <<[by |-> "start", answer |-> Unanswered]>> /\ asked \in Seq(Requests)
  BY DEF PageInit, Requests
<1>2. history = [j \in Jobs |-> "absent"] /\ known = {} /\ accepted = {}
  BY DEF PageInit, Server!Init
<1>3. job = NoJob /\ poll = FALSE /\ failed = FALSE
  BY DEF PageInit
<1>4. \A request \in UnderWay : request.answer = Unanswered
  BY <1>1 DEF UnderWay
<1>5. PageTypeOK
  BY <1>1, <1>2, <1>3 DEF PageTypeOK, PageStates
<1>6. AnswersLag
  BY <1>2, <1>4 DEF AnswersLag
<1>7. Watched
  BY <1>3 DEF Watched
<1> QED
  BY <1>5, <1>6, <1>7 DEF PageIInv

LEMMA PageNextInvariant == PageIInv /\ [PageNext]_pageVars => PageIInv'
<1> SUFFICES ASSUME PageIInv, [PageNext]_pageVars
             PROVE  PageIInv'
  OBVIOUS
<1>1. CASE ServerStep
  BY <1>1, ServerStepKeeps
<1>2. CASE \/ \E j \in Jobs : Generate(j)
           \/ GenerateFails \/ Opened \/ UNCHANGED pageVars
  <2>1. UNCHANGED <<server, polling, failed>>
    BY <1>2 DEF Generate, GenerateFails, Opened, pageVars
  <2> QED
    BY <2>1, ElsewhereKeeps
<1>3. CASE Generated
  BY <1>3, GeneratedKeeps
<1>4. CASE TimerFires
  BY <1>4, TimerKeeps
<1>5. ASSUME NEW i \in DOMAIN asked, Answer(i) \/ RefreshFails(i) \/ Refresh(i)
      PROVE  PageIInv'
  BY <1>5, AnswerKeeps, FailureKeeps, RefreshKeeps
<1> QED
  BY <1>1, <1>2, <1>3, <1>4, <1>5 DEF PageNext, PageStep, Answers

(* The inductive invariant: no answer is ahead of the server, and whoever  *)
(* follows a job has the timer set or a request under way that will.       *)
THEOREM PageInvariance == PageSpec => []PageIInv
<1> QED
  BY PageInitInvariant, PageNextInvariant, PTL DEF PageSpec

LEMMA WatchedSuffices == PageIInv => TrackedIsWatched
<1>1. asked = <<>> => UnderWay = {}
  BY DEF UnderWay
<1> QED
  BY <1>1 DEF PageIInv, Watched, TrackedIsWatched

(* Of a job under way somebody asks again (app.js:102).                    *)
THEOREM AlwaysWatched == PageSpec => []TrackedIsWatched
<1>1. PageIInv => TrackedIsWatched
  BY WatchedSuffices
<1> QED
  BY <1>1, PageInvariance, PTL

(* The job followed changes for those reasons only (app.js:102, 112).      *)
THEOREM KeepsTracking == PageSpec => TrackingKept
<1>1. PageIInv /\ [PageNext]_pageVars =>
        [job # NoJob /\ history[job] \in Pending /\ job' # job =>
           post' # post \/ Outdated(job)]_pageVars
  <2> SUFFICES ASSUME PageIInv, PageNext, job # NoJob, history[job] \in Pending, job' # job
               PROVE  post' # post \/ Outdated(job)
    BY DEF pageVars
  <2>1. job \in Jobs
    BY DEF PageIInv, PageTypeOK
  <2>2. CASE Generated
    <3>1. post \in accepted /\ post' = NoJob
      BY <2>2 DEF Generated
    <3>2. post \in Jobs
      BY <3>1 DEF PageIInv, PageTypeOK
    <3> QED
      BY <3>1, <3>2, NoJobIsNone
  <2>3. ASSUME NEW i \in DOMAIN asked, Refresh(i)
        PROVE  Outdated(job)
    <3> DEFINE list == asked[i].answer
               by == asked[i].by
    <3>1. list # Unanswered /\ list[job] \notin Server!Settled
      BY <2>1, <2>3, Arrived
    <3>2. GoesOn(list, by)
      BY <2>3, <3>1 DEF Refresh, Settles, Rests, Over
    <3>3. list[job] = "absent"
      BY <3>2 DEF GoesOn, Follows
    <3> QED
      BY <3>1, <3>3 DEF Outdated
  <2>4. CASE ~Generated /\ ~(\E i \in DOMAIN asked : Refresh(i))
    BY <2>4 DEF PageNext, PageStep, Answers, ServerStep, Generate, GenerateFails, TimerFires,
                Answer, RefreshFails, Opened, polling
  <2> QED
    BY <2>2, <2>3, <2>4
<1> QED
  BY <1>1, PageInvariance, PTL DEF PageSpec, TrackingKept
-----------------------------------------------------------------------------
(* The page in front of the server.                                        *)

(* What the page can see of the server.                                    *)
Seen ==
  online = up /\ history = records /\ known = KnownJobs /\ accepted = AcceptedJobs

LEMMA SeenInit == DemoInit => IInv /\ Seen
<1>1. DemoInit => IInv
  BY Initial DEF DemoInit
<1>2. DemoInit => Seen
  BY DEF DemoInit, Init, PageInit, Server!Init, Seen, KnownJobs, AcceptedJobs
<1> QED
  BY <1>1, <1>2

LEMMA SeenNext == IInv /\ Seen /\ [DemoNext]_demoVars => IInv' /\ Seen'
<1> SUFFICES ASSUME IInv, Seen, [DemoNext]_demoVars
             PROVE  IInv' /\ Seen'
  OBVIOUS
<1>1. [Next]_vars
  BY DEF DemoNext, ServerMoves, PageMoves, demoVars
<1>2. IInv'
  BY <1>1, Inductive
<1>3. CASE ServerMoves(Next)
  <2>1. /\ online' = up' /\ history' = records'
        /\ known' = KnownJobs' /\ accepted' = AcceptedJobs'
    BY <1>3 DEF ServerMoves
  <2> QED
    BY <1>2, <2>1 DEF Seen
<1>4. CASE UNCHANGED vars /\ UNCHANGED server
  <2>1. up' = up /\ records' = records /\ handler' = handler
        /\ online' = online /\ history' = history /\ known' = known /\ accepted' = accepted
    BY <1>4 DEF vars, server
  <2>2. KnownJobs' = KnownJobs /\ AcceptedJobs' = AcceptedJobs
    BY <2>1 DEF KnownJobs, AcceptedJobs
  <2> QED
    BY <1>2, <2>1, <2>2 DEF Seen
<1>5. Lists \/ PageStep => UNCHANGED server
  BY DEF Lists, Answers, PageStep, Generate, Generated, GenerateFails, TimerFires, Answer,
         RefreshFails, Refresh, Opened
<1> QED
  BY <1>2, <1>3, <1>4, <1>5 DEF DemoNext, PageMoves, demoVars, pageVars

(* A step of the real server is one of the history the page relies on.     *)
LEMMA SeenStep ==
  ASSUME Seen, Seen', History!Next \/ UNCHANGED History!vars
  PROVE  Server!Next \/ UNCHANGED server
BY DEF Seen, KnownJobs, AcceptedJobs, server, History!vars, History!Next, History!Publish,
       History!Reject, History!Withdraw, History!Accept, History!Progress, History!Start,
       History!Settle, History!Fall, History!Rise, History!Settled, Server!Next,
       Server!Publish, Server!Reject, Server!Withdraw, Server!Accept, Server!Progress,
       Server!Start, Server!Settle, Server!Fall, Server!Rise, Server!Settled

(* With the real server behind it the page behaves as in front of the      *)
(* history main.go promises, for any number of jobs, any queue length, any *)
(* number of crashes and whatever the disk fails at (app.js:102).           *)
THEOREM PageOnServer == DemoSpec => PageSpec
<1>1. DemoInit => PageInit
  BY DEF DemoInit
<1>2. IInv /\ Seen /\ Seen' /\ [DemoNext]_demoVars => [PageNext]_pageVars
  <2> SUFFICES ASSUME IInv, Seen, Seen', [DemoNext]_demoVars
               PROVE  [PageNext]_pageVars
    OBVIOUS
  <2>1. CASE ServerMoves(Next)
    <3>1. History!Next \/ UNCHANGED History!vars
      BY <2>1, NextRefines DEF ServerMoves
    <3>2. Server!Next \/ UNCHANGED server
      BY <3>1, SeenStep
    <3>3. UNCHANGED <<polling, button, post, failed>>
      BY <2>1 DEF ServerMoves
    <3> QED
      BY <3>2, <3>3 DEF PageNext, ServerStep, pageVars
  <2>2. CASE PageMoves(Lists) \/ PageMoves(PageStep)
    BY <2>2 DEF PageMoves, Lists, PageNext
  <2>3. CASE UNCHANGED demoVars
    BY <2>3 DEF demoVars
  <2> QED
    BY <2>1, <2>2, <2>3 DEF DemoNext
<1> QED
  BY <1>1, <1>2, SeenInit, SeenNext, PTL DEF DemoSpec, PageSpec

(* So in the demo as it runs, a page that follows a job asks for it again, *)
(* whatever happens in the server, unless a request for the history fails; *)
(* and it gives the job up for the same reasons (app.js:102).              *)
THEOREM DemoIsWatched == DemoSpec => []TrackedIsWatched
BY PageOnServer, AlwaysWatched, PTL

THEOREM DemoKeepsTracking == DemoSpec => TrackingKept
BY PageOnServer, KeepsTracking, PTL
=============================================================================
