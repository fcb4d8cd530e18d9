-------------------------------- MODULE Demo --------------------------------
(***************************************************************************)
(* The demo as a whole: the page of JobPage asks the server of JobServer,  *)
(* with its lock, queue, worker, manifests and crashes.  What the page can *)
(* see of the server, and JobPage takes from JobHistory, is here computed  *)
(* from the server's records and requests.                                 *)
(***************************************************************************)
EXTENDS JobServer, JobPage

demoVars == <<vars, pageVars>>

DemoInit == Init /\ PageInit

(* A step of the server, and what can be seen of it.                       *)
ServerMoves(step) ==
  /\ step
  /\ online' = up' /\ history' = records'
  /\ known' = KnownJobs' /\ accepted' = AcceptedJobs'
  /\ UNCHANGED <<polling, button, post, failed>>

PageMoves(step) == step /\ UNCHANGED vars

(* history reads the records under the lock.                               *)
Lists == Answers /\ Unlocked

DemoNext == ServerMoves(Next) \/ PageMoves(Lists) \/ PageMoves(PageStep)

(* The server's goroutines run as they do for JobServer, timers fire, and  *)
(* answers are given, once the lock stays free, and arrive.                *)
DemoFairness ==
  /\ WF_demoVars(ServerMoves(WorkerStep))
  /\ \A id \in Jobs : WF_demoVars(ServerMoves(Handle(id)))
  /\ WF_demoVars(PageMoves(TimerFires))
  /\ WF_demoVars(PageMoves(Lists))
  /\ WF_demoVars(PageMoves(\E i \in DOMAIN asked : Refresh(i)))

DemoSpec == DemoInit /\ [][DemoNext]_demoVars /\ DemoFairness
=============================================================================
