----------------------------- MODULE JobServer -----------------------------
(***************************************************************************)
(* The job server of src/demo/main.go: the handlers of POST /api/generate, *)
(* the one worker, the records in memory under s.mu, and the manifests on  *)
(* disk that restore reads when the server is started again.               *)
(*                                                                         *)
(* A job's record is its State.  The lock s.mu is held exactly while a     *)
(* manifest is being written, so "writing" is also who holds it; critical  *)
(* sections that write none are single steps.  os.WriteFile truncates the  *)
(* manifest before it writes it, and its error is ignored.                 *)
(***************************************************************************)
EXTENDS DemoJobs, Integers, Sequences

CONSTANTS
  QueueLimit,  (* make(chan string, 16)                                    *)
  MaxCrashes,  (* how often the process may die: a bound for TLC           *)
  DiskFails    (* whether the disk may refuse a write or a removal         *)

ASSUME JobServerAssumption ==
  /\ QueueLimit \in Nat \ {0} /\ MaxCrashes \in Nat /\ DiskFails \in BOOLEAN

VARIABLES
  up,        (* whether the process runs                                   *)
  crashes,
  records,   (* s.records: the State of each job, "absent" outside the map *)
  disk,      (* the job's directory: "none", "empty" of a manifest, or     *)
             (* with one that is "torn" or holds a State                   *)
  outputs,   (* the jobs whose result.glb is complete                      *)
  queue,     (* s.queue                                                    *)
  handler,   (* how far generate has got with each job                     *)
  worker,    (* [job, step, result] of the worker goroutine                *)
  writing    (* the job whose manifest is being written, or NoJob          *)

vars == <<up, crashes, records, disk, outputs, queue, handler, worker, writing>>

States == {"queued", "running", "done", "error"}
Terminal == {"done", "error"}

Idle == [job |-> NoJob, step |-> "idle", result |-> "none"]

Unlocked == up /\ writing = NoJob

(* Fault: the manifest is not written back.                                *)
NotWritten(id) ==
  /\ writing' = NoJob
  /\ UNCHANGED disk

(* persist, first half: the manifest is opened and truncated.              *)
Truncate(id) ==
  /\ writing' = id
  /\ \/ disk' = [disk EXCEPT ![id] = "torn"]
     \/ DiskFails /\ UNCHANGED disk

(* persist, second half; the lock is released after it.                    *)
Write(id) ==
  /\ writing' = NoJob
  /\ \/ disk[id] = "torn" /\ disk' = [disk EXCEPT ![id] = records[id]]
     \/ DiskFails /\ UNCHANGED disk
-----------------------------------------------------------------------------
(* The handler of one request, from the directory it creates.              *)

Init ==
  /\ up = TRUE /\ crashes = 0
  /\ records = [id \in Jobs |-> "absent"]
  /\ disk = [id \in Jobs |-> "none"]
  /\ outputs = {}
  /\ queue = <<>>
  /\ handler = [id \in Jobs |-> "idle"]
  /\ worker = Idle
  /\ writing = NoJob

Upload(id) ==
  /\ up /\ handler[id] = "idle"
  /\ handler' = [handler EXCEPT ![id] = "uploading"]
  /\ disk' = [disk EXCEPT ![id] = "empty"]
  /\ UNCHANGED <<up, crashes, records, outputs, queue, worker, writing>>

(* An upload that cannot be saved or fails its inspection.                 *)
Unusable(id) ==
  /\ up /\ handler[id] = "uploading"
  /\ handler' = [handler EXCEPT ![id] = "cleanup"]
  /\ UNCHANGED <<up, crashes, records, disk, outputs, queue, worker, writing>>

Publish(id) ==
  /\ Unlocked /\ handler[id] = "uploading"
  /\ records' = [records EXCEPT ![id] = "queued"]
  /\ Truncate(id)
  /\ handler' = [handler EXCEPT ![id] = "publishing"]
  /\ UNCHANGED <<up, crashes, outputs, queue, worker>>

(* Fault: the lock is not released.                                        *)
PublishedLocked(id) ==
  /\ up /\ handler[id] = "publishing"
  /\ disk' = [disk EXCEPT ![id] = records[id]]
  /\ handler' = [handler EXCEPT ![id] = "published"]
  /\ UNCHANGED <<up, crashes, records, outputs, queue, worker, writing>>

Published(id) ==
  /\ up /\ handler[id] = "publishing"
  /\ Write(id)
  /\ handler' = [handler EXCEPT ![id] = "published"]
  /\ UNCHANGED <<up, crashes, records, outputs, queue, worker>>

(* The send on the channel does not block.                                 *)
Enqueue(id) ==
  /\ up /\ handler[id] = "published"
  /\ IF Len(queue) < QueueLimit
     THEN /\ queue' = Append(queue, id)
          /\ handler' = [handler EXCEPT ![id] = "accepted"]
     ELSE /\ handler' = [handler EXCEPT ![id] = "refusing"]
          /\ UNCHANGED queue
  /\ UNCHANGED <<up, crashes, records, disk, outputs, worker, writing>>

(* Fault: a refused job stays in the map.                                  *)
ForgetNothing(id) ==
  /\ Unlocked /\ handler[id] = "refusing"
  /\ handler' = [handler EXCEPT ![id] = "cleanup"]
  /\ UNCHANGED <<up, crashes, records, disk, outputs, queue, worker, writing>>

(* The record is deleted and 503 is answered.                              *)
Forget(id) ==
  /\ Unlocked /\ handler[id] = "refusing"
  /\ records' = [records EXCEPT ![id] = "absent"]
  /\ handler' = [handler EXCEPT ![id] = "cleanup"]
  /\ UNCHANGED <<up, crashes, disk, outputs, queue, worker, writing>>

(* The deferred RemoveAll, whose error is ignored: the disk may keep the   *)
(* directory, without its manifest or with it.                             *)
RemoveDirectory(id) ==
  /\ up /\ handler[id] = "cleanup"
  /\ \/ disk' = [disk EXCEPT ![id] = "none"]
     \/ DiskFails /\ disk' = [disk EXCEPT ![id] = "empty"]
     \/ DiskFails /\ UNCHANGED disk
  /\ handler' = [handler EXCEPT ![id] = "turned_away"]
  /\ UNCHANGED <<up, crashes, records, outputs, queue, worker, writing>>
-----------------------------------------------------------------------------
(* The worker goroutine.                                                   *)

(* Fault: the worker looks at the queue without removing from it.          *)
TakeKeeping ==
  /\ up /\ worker.step = "idle" /\ queue # <<>>
  /\ worker' = [worker EXCEPT !.job = Head(queue), !.step = "taken"]
  /\ UNCHANGED <<up, crashes, records, disk, outputs, queue, handler, writing>>

Take ==
  /\ up /\ worker.step = "idle" /\ queue # <<>>
  /\ worker' = [worker EXCEPT !.job = Head(queue), !.step = "taken"]
  /\ queue' = Tail(queue)
  /\ UNCHANGED <<up, crashes, records, disk, outputs, handler, writing>>

LookUp ==
  /\ Unlocked /\ worker.step = "taken"
  /\ worker' = IF records[worker.job] = "absent" THEN Idle
               ELSE [worker EXCEPT !.step = "found"]
  /\ UNCHANGED <<up, crashes, records, disk, outputs, queue, handler, writing>>

Begin ==
  /\ Unlocked /\ worker.step = "found"
  /\ records' = [records EXCEPT ![worker.job] = "running"]
  /\ Truncate(worker.job)
  /\ worker' = [worker EXCEPT !.step = "beginning"]
  /\ UNCHANGED <<up, crashes, outputs, queue, handler>>

Begun ==
  /\ up /\ worker.step = "beginning"
  /\ Write(worker.job)
  /\ worker' = [worker EXCEPT !.step = "working"]
  /\ UNCHANGED <<up, crashes, records, outputs, queue, handler>>

(* The commands and the inspection of their result end by themselves, or   *)
(* the context's deadline kills them.                                      *)
Work(result) ==
  /\ up /\ worker.step = "working"
  /\ worker' = [worker EXCEPT !.step = "worked", !.result = result]
  /\ outputs' = IF result = "done" THEN outputs \cup {worker.job} ELSE outputs
  /\ UNCHANGED <<up, crashes, records, disk, queue, handler, writing>>

(* Fault: the error of a command is overlooked.                            *)
FinishHappily ==
  /\ Unlocked /\ worker.step = "worked"
  /\ records' = [records EXCEPT ![worker.job] = "done"]
  /\ Truncate(worker.job)
  /\ worker' = [worker EXCEPT !.step = "finishing"]
  /\ UNCHANGED <<up, crashes, outputs, queue, handler>>

Finish ==
  /\ Unlocked /\ worker.step = "worked"
  /\ records' = [records EXCEPT ![worker.job] = worker.result]
  /\ Truncate(worker.job)
  /\ worker' = [worker EXCEPT !.step = "finishing"]
  /\ UNCHANGED <<up, crashes, outputs, queue, handler>>

Finished ==
  /\ up /\ worker.step = "finishing"
  /\ Write(worker.job)
  /\ worker' = Idle
  /\ UNCHANGED <<up, crashes, records, outputs, queue, handler>>
-----------------------------------------------------------------------------
(* Only the disk survives the process; requests under way get no answer.   *)
Crash ==
  /\ up /\ crashes < MaxCrashes
  /\ up' = FALSE
  /\ crashes' = crashes + 1
  /\ records' = [id \in Jobs |-> "absent"]
  /\ queue' = <<>>
  /\ worker' = Idle
  /\ writing' = NoJob
  /\ handler' = [id \in Jobs |->
       IF handler[id] \in {"idle", "accepted", "turned_away"} THEN handler[id] ELSE "lost"]
  /\ UNCHANGED <<disk, outputs>>

(* Fault: a job that was under way is restored as it was.                  *)
RestoredAsIs(manifest) == IF manifest \in States THEN manifest ELSE "absent"

(* restore: a manifest that cannot be read is skipped, a job that was      *)
(* under way becomes an error, in memory only.                             *)
Restored(manifest) ==
  CASE manifest \in Terminal -> manifest
    [] manifest \in {"queued", "running"} -> "error"
    [] manifest \in {"none", "empty", "torn"} -> "absent"

Restart ==
  /\ ~up
  /\ up' = TRUE
  /\ records' = [id \in Jobs |-> Restored(disk[id])]
  /\ UNCHANGED <<crashes, disk, outputs, queue, handler, worker, writing>>

Handle(id) ==
  \/ Publish(id)
  \/ Published(id)
  \/ Enqueue(id)
  \/ Forget(id)
  \/ RemoveDirectory(id)

WorkerStep ==
  \/ Take
  \/ LookUp
  \/ Begin
  \/ Begun
  \/ \E result \in Terminal : Work(result)
  \/ Finish
  \/ Finished

Next ==
  \/ \E id \in Jobs : Upload(id) \/ Unusable(id) \/ Handle(id)
  \/ WorkerStep
  \/ Crash
  \/ Restart

(* Goroutines that can run do, sync.RWMutex starves no one, and every      *)
(* command and inspection has a deadline.  No upload need be unusable.     *)
Fairness == WF_vars(WorkerStep) /\ \A id \in Jobs : WF_vars(Handle(id))

Spec == Init /\ [][Next]_vars /\ Fairness
-----------------------------------------------------------------------------
Steps == {"idle", "taken", "found", "beginning", "working", "worked", "finishing"}

TypeOK ==
  /\ up \in BOOLEAN /\ crashes \in 0 .. MaxCrashes
  /\ records \in [Jobs -> States \cup {"absent"}]
  /\ disk \in [Jobs -> States \cup {"none", "empty", "torn"}]
  /\ outputs \subseteq Jobs
  /\ queue \in Seq(Jobs) /\ Len(queue) <= QueueLimit
  /\ handler \in [Jobs -> {"idle", "uploading", "publishing", "published", "accepted",
                           "refusing", "cleanup", "turned_away", "lost"}]
  /\ worker \in [job : Jobs \cup {NoJob}, step : Steps, result : Terminal \cup {"none"}]
  /\ worker.step = "idle" <=> worker.job = NoJob
  /\ writing \in Jobs \cup {NoJob}

Queued(id) == \E i \in DOMAIN queue : queue[i] = id

(* No job is shown as waiting or running with nobody left to take care of  *)
(* it: not after a full queue, not after any number of restarts.           *)
NoOrphans ==
  /\ \A id \in Jobs : records[id] = "queued" =>
       \/ Queued(id)
       \/ handler[id] \in {"publishing", "published", "refusing"}
       \/ worker.job = id /\ worker.step \in {"taken", "found"}
  /\ \A id \in Jobs : records[id] = "running" =>
       worker.job = id /\ worker.step \in {"beginning", "working", "worked"}

(* A job is served once: nobody else has it while it is in the queue, it   *)
(* is there once, and what the worker takes is in the map, so that its     *)
(* test for a missing record (main.go:186) never succeeds.                 *)
ServedOnce ==
  /\ \A i, j \in DOMAIN queue : queue[i] = queue[j] => i = j
  /\ \A i \in DOMAIN queue : records[queue[i]] = "queued" /\ queue[i] # worker.job
  /\ worker.step = "taken" => records[worker.job] = "queued"

(* A job shown as done has a result to download, also after a restart, and *)
(* whichever writes were lost.                                             *)
DoneHasOutput ==
  \A id \in Jobs : records[id] = "done" \/ disk[id] = "done" => id \in outputs

(* A request turned away leaves nothing behind, now or after a restart,    *)
(* while the disk does not fail.                                           *)
TurnedAwayForgotten ==
  \A id \in Jobs : handler[id] = "turned_away" =>
    records[id] = "absent" /\ disk[id] = "none" /\ ~Queued(id)

(* Whatever the disk fails at, a request turned away is never worked on:   *)
(* a manifest that could not be removed brings its job back at most as an  *)
(* error, which no queue and no worker has and which has no result.        *)
TurnedAwayNeverRuns ==
  \A id \in Jobs : handler[id] = "turned_away" =>
    /\ records[id] \in {"absent", "error"}
    /\ disk[id] \notin {"running", "done"}
    /\ ~Queued(id) /\ worker.job # id /\ id \notin outputs

(* While the server runs, a job that is done or has failed stays so.       *)
TerminalStays ==
  [][up /\ up' => \A id \in Jobs : records[id] \in Terminal => records'[id] = records[id]]_vars

Shown(id) == IF records[id] \in {"queued", "running"} THEN "error" ELSE records[id]

(* What history shows (it takes the lock) a restart at this moment would   *)
(* show again, jobs under way as errors, while no disk fails; but for a    *)
(* job being turned away, whose record goes before its manifest does.      *)
RestartShowsTheSame ==
  Unlocked => \A id \in Jobs : handler[id] # "cleanup" => Restored(disk[id]) = Shown(id)

(* What each step of a handler has left behind.                            *)
HandlerLeaves ==
  \A id \in Jobs :
    /\ handler[id] = "idle" => disk[id] = "none"
    /\ handler[id] = "uploading" => disk[id] = "empty"
    /\ handler[id] \in {"publishing", "published", "refusing", "cleanup"} =>
         disk[id] \in {"empty", "torn", "queued"}
    /\ handler[id] = "turned_away" =>
         /\ disk[id] \in {"none", "empty", "torn", "queued"}
         /\ ~DiskFails => disk[id] = "none"
         /\ records[id] \in {"absent", "error"}
    /\ handler[id] \in {"idle", "uploading", "cleanup"} => records[id] = "absent"
    /\ handler[id] \in {"publishing", "published", "refusing"} => records[id] = "queued"
    /\ handler[id] = "publishing" => writing = id
    /\ id \in outputs => handler[id] = "accepted"

(* What each step of the worker has left behind.                           *)
WorkerLeaves ==
  worker.job # NoJob =>
    /\ handler[worker.job] = "accepted"
    /\ worker.step \in {"taken", "found"} => records[worker.job] = "queued"
    /\ worker.step \in {"beginning", "working", "worked"} => records[worker.job] = "running"
    /\ worker.step \in {"worked", "finishing"} =>
         /\ worker.result \in Terminal
         /\ worker.result = "done" => worker.job \in outputs
    /\ worker.step = "finishing" => records[worker.job] = worker.result
    /\ worker.step \in {"beginning", "finishing"} => writing = worker.job

QueueAccepted == \A i \in DOMAIN queue : handler[queue[i]] = "accepted"

DownIsEmpty ==
  ~up => /\ queue = <<>> /\ worker = Idle /\ writing = NoJob
         /\ \A id \in Jobs :
              /\ records[id] = "absent"
              /\ handler[id] \in {"idle", "accepted", "turned_away", "lost"}

(* The inductive invariant, whatever the disk fails at.                    *)
IInv ==
  /\ TypeOK
  /\ NoOrphans
  /\ ServedOnce
  /\ DoneHasOutput
  /\ HandlerLeaves
  /\ WorkerLeaves
  /\ QueueAccepted
  /\ DownIsEmpty

(* The manifests under it, while the disk does not fail.                   *)
DiskFollows ==
  /\ writing # NoJob => disk[writing] = "torn" /\ handler[writing] \in {"publishing", "accepted"}
  /\ up => \A id \in Jobs :
       handler[id] # "cleanup" /\ id # writing => Restored(disk[id]) = Shown(id)

(* A job the server accepted is settled, unless the server dies; and after *)
(* a restart it is settled already, or its record is gone.                 *)
AcceptedSettles ==
  \A id \in Jobs :
    handler[id] = "accepted" ~> (~up \/ records[id] \in Terminal \cup {"absent"})

(* A request that got as far as its directory is answered, unless the      *)
(* server dies.                                                            *)
RequestAnswered ==
  \A id \in Jobs :
    handler[id] = "uploading" ~> handler[id] \in {"accepted", "turned_away", "lost"}

(* The server as those who ask for its history see it.                     *)
KnownJobs == {id \in Jobs : handler[id] \notin {"idle", "uploading"}}
AcceptedJobs == {id \in Jobs : handler[id] = "accepted"}

History == INSTANCE JobHistory WITH
  online <- up,
  history <- records,
  known <- KnownJobs,
  accepted <- AcceptedJobs

(* A job shows up as queued, runs alone, is withdrawn only before its      *)
(* request is answered, and is settled for good; whatever happens between  *)
(* the lock, the queue, the manifests and a restart.                       *)
ImplementsHistory == History!Spec

(* README.md:349, "The demo keeps persistent history": a job the server    *)
(* accepted is in its history whenever it runs.                            *)
PersistentHistory ==
  \A id \in Jobs : up /\ handler[id] = "accepted" => records[id] # "absent"
============================================================================
