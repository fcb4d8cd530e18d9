------------------------------ MODULE JobPage -------------------------------
(***************************************************************************)
(* How the page of the demo, demo/web/app.js, follows its jobs: refresh    *)
(* asks for the history, and a timer calls it again while there is a job   *)
(* to follow. Every await is a place where other handlers run, so several  *)
(* refreshes may be under way. The server is JobHistory. What the viewer   *)
(* shows, and the list itself, have no part in this and are left out.      *)
(***************************************************************************)
EXTENDS DemoJobs, Naturals, Sequences, SequencesExt

CONSTANT MaxRequests  (* for the history at a time: a bound for TLC          *)

ASSUME JobPageAssumption == MaxRequests \in Nat

VARIABLES
  online, history, known, accepted,  (* the server                         *)
  job,         (* state.job, the job followed                              *)
  poll,        (* whether the timer is set                                 *)
  asked,       (* requests for the history under way, [by, answer]         *)
  button,      (* "Generate": "enabled", or how far its handler has got    *)
  post,        (* the job its request is to make                           *)
  failed       (* whether a request for the history has failed             *)

server == <<online, history, known, accepted>>
polling == <<job, poll, asked>>
pageVars == <<server, polling, button, post, failed>>

Server == INSTANCE JobHistory

Pending == {"queued", "running"}
Unanswered == <<>>

PageInit ==
  /\ Server!Init
  /\ job = NoJob /\ poll = FALSE
  /\ asked = <<[by |-> "start", answer |-> Unanswered]>>
  /\ button = "enabled" /\ post = NoJob
  /\ failed = FALSE

ServerStep == Server!Next /\ UNCHANGED <<polling, button, post, failed>>

(* refresh, up to its await.                                               *)
Ask(by) ==
  /\ Len(asked) < MaxRequests
  /\ asked' = Append(asked, [by |-> by, answer |-> Unanswered])
-----------------------------------------------------------------------------
Generate(j) ==
  /\ button = "enabled" /\ j \notin known
  /\ button' = "posting" /\ post' = j
  /\ UNCHANGED <<server, polling, failed>>

(* The answer to the request: the job is followed, and asked for at once.  *)
Generated ==
  /\ button = "posting" /\ post \in accepted
  /\ job' = post
  /\ Ask("generate")
  /\ button' = "refreshing" /\ post' = NoJob
  /\ UNCHANGED <<server, poll, failed>>

GenerateFails ==
  /\ button = "posting"
  /\ button' = "enabled" /\ post' = NoJob
  /\ UNCHANGED <<server, polling, failed>>

TimerFires ==
  /\ poll
  /\ poll' = FALSE
  /\ Ask("timer")
  /\ UNCHANGED <<server, job, button, post, failed>>

Answer(i) ==
  /\ online /\ asked[i].answer = Unanswered
  /\ asked' = [asked EXCEPT ![i].answer = history]
  /\ UNCHANGED <<server, job, poll, button, post, failed>>

(* The handler of the button ends with its refresh.                        *)
Return(by, to) == button' = IF by = "generate" THEN to ELSE button

(* Nobody asks again.                                                      *)
RefreshFails(i) ==
  /\ failed' = TRUE
  /\ asked' = RemoveAt(asked, i)
  /\ Return(asked[i].by, "enabled")
  /\ UNCHANGED <<server, job, poll, post>>

(* Whoever runs, else any that waits.  Fault in place of Follows: the job  *)
(* tracked is passed over.                                                 *)
First(list, j) ==
  \/ list[j] = "running"
  \/ list[j] = "queued" /\ \A k \in Jobs : list[k] # "running"

(* The job to follow: the one tracked, if it is listed.                    *)
Follows(list, j) ==
  IF job # NoJob /\ list[job] # "absent" THEN j = job ELSE First(list, j)

Over(list) == job # NoJob /\ list[job] \in Server!Settled

(* refresh, from the answer on: the tracked job is done, and its result is *)
(* opened, or it has failed;                                               *)
Settles(list, by) ==
  /\ Over(list)
  /\ job' = NoJob /\ poll' = FALSE
  /\ Return(by, IF list[job] = "done" THEN "opening" ELSE "enabled")

(* or there is a job to follow, and the timer is set anew;                 *)
GoesOn(list, by) ==
  /\ ~Over(list)
  /\ \E j \in Jobs : list[j] \in Pending /\ Follows(list, j) /\ job' = j
  /\ poll' = TRUE
  /\ Return(by, "enabled")

(* Fault: the timer is put out for want of anything to wait for.           *)
RestsForGood(list, by) ==
  /\ ~Over(list)
  /\ \A j \in Jobs : list[j] \notin Pending
  /\ poll' = FALSE /\ UNCHANGED job
  /\ Return(by, "enabled")

(* or there is none.                                                       *)
Rests(list, by) ==
  /\ ~Over(list)
  /\ \A j \in Jobs : list[j] \notin Pending
  /\ UNCHANGED <<job, poll>>
  /\ Return(by, "enabled")

Refresh(i) ==
  LET list == asked[i].answer
      by == asked[i].by
  IN /\ list # Unanswered
     /\ asked' = RemoveAt(asked, i)
     /\ Settles(list, by) \/ GoesOn(list, by) \/ Rests(list, by)
     /\ UNCHANGED <<server, post, failed>>

Opened ==
  /\ button = "opening"
  /\ button' = "enabled"
  /\ UNCHANGED <<server, polling, post, failed>>

PageStep ==
  \/ \E j \in Jobs : Generate(j)
  \/ Generated \/ GenerateFails
  \/ TimerFires
  \/ \E i \in DOMAIN asked : RefreshFails(i) \/ Refresh(i)
  \/ Opened

Answers == \E i \in DOMAIN asked : Answer(i)

PageNext == ServerStep \/ Answers \/ PageStep

PageSpec == PageInit /\ [][PageNext]_pageVars
-----------------------------------------------------------------------------
(* Answers taken before the server had the job.                            *)
Outdated(j) ==
  \E i \in DOMAIN asked : asked[i].answer # Unanswered /\ asked[i].answer[j] = "absent"

(* While the server has the job followed under way, the page asks again,   *)
(* or will, but for a request that failed.                                 *)
TrackedIsWatched ==
  job # NoJob /\ history[job] \in Pending => poll \/ asked # <<>> \/ failed

(* The page gives up a job under way only for one it has generated since,  *)
(* or on the word of a history older than the job (app.js:102 then follows *)
(* another one).                                                           *)
TrackingKept ==
  [][job # NoJob /\ history[job] \in Pending /\ job' # job =>
       post' # post \/ Outdated(job)]_pageVars

(* A job followed and accepted is seen to settle, or given up for another  *)
(* as above, unless a request fails or the server dies.                    *)
SettlingNoticed ==
  \A j \in Jobs :
    job = j /\ j \in accepted /\ history[j] \in Pending ~> job # j \/ failed \/ ~online
-----------------------------------------------------------------------------
PageStates == Pending \cup Server!Settled \cup {"absent"}

Requests == [by : {"start", "timer", "generate"}, answer : {Unanswered} \cup [Jobs -> PageStates]]

PageTypeOK ==
  /\ history \in [Jobs -> PageStates]
  /\ accepted \subseteq known /\ known \subseteq Jobs
  /\ job \in known \cup {NoJob}
  /\ asked \in Seq(Requests)
  /\ poll \in BOOLEAN /\ failed \in BOOLEAN

UnderWay == {asked[i] : i \in DOMAIN asked}

(* The server knows what it lists or has listed, and no answer is ahead of *)
(* it.                                                                     *)
AnswersLag ==
  /\ \A j \in Jobs : history[j] # "absent" => j \in known
  /\ \A request \in UnderWay : request.answer # Unanswered =>
       \A j \in Jobs :
         /\ request.answer[j] # "absent" => j \in known
         /\ request.answer[j] \in Server!Settled => history[j] \notin Pending

(* A request that will have the timer set.                                 *)
Promising(request) ==
  request.answer # Unanswered => request.answer[job] \in Pending

Watched ==
  job # NoJob /\ history[job] \in Pending =>
    poll \/ failed \/ \E request \in UnderWay : Promising(request)

(* The inductive invariant.                                                *)
PageIInv == PageTypeOK /\ AnswersLag /\ Watched
=============================================================================
