----------------------------- MODULE JobHistory -----------------------------
(***************************************************************************)
(* What the job server of demo/main.go promises those who ask for its      *)
(* history: a job turns up as queued, may be withdrawn until its request   *)
(* is answered, runs while no other does, and is settled for good - until  *)
(* the server dies.  JobServer implements this; JobPage relies on it.      *)
(***************************************************************************)
CONSTANT Jobs

VARIABLES
  online,     (* whether the server runs                                   *)
  history,    (* the State of each job GET /api/history would list         *)
  known,      (* the jobs whose upload has ended, one way or another       *)
  accepted    (* the jobs POST /api/generate has taken on                  *)

vars == <<online, history, known, accepted>>

Settled == {"done", "error"}

Init ==
  /\ online = TRUE
  /\ history = [j \in Jobs |-> "absent"]
  /\ known = {} /\ accepted = {}

Publish(j) ==
  /\ online /\ j \notin known
  /\ known' = known \cup {j}
  /\ history' = [history EXCEPT ![j] = "queued"]
  /\ UNCHANGED <<online, accepted>>

(* An upload that is of no use.                                            *)
Reject(j) ==
  /\ online /\ j \notin known
  /\ known' = known \cup {j}
  /\ UNCHANGED <<online, history, accepted>>

(* The queue was full.                                                     *)
Withdraw(j) ==
  /\ online /\ history[j] = "queued" /\ j \notin accepted
  /\ history' = [history EXCEPT ![j] = "absent"]
  /\ UNCHANGED <<online, known, accepted>>

Accept(j) ==
  /\ online /\ history[j] = "queued"
  /\ accepted' = accepted \cup {j}
  /\ UNCHANGED <<online, history, known>>

Start(j) ==
  /\ online /\ history[j] = "queued" /\ j \in accepted
  /\ \A k \in Jobs : history[k] # "running"
  /\ history' = [history EXCEPT ![j] = "running"]
  /\ UNCHANGED <<online, known, accepted>>

Settle(j, result) ==
  /\ online /\ history[j] = "running"
  /\ history' = [history EXCEPT ![j] = result]
  /\ UNCHANGED <<online, known, accepted>>

Fall ==
  /\ online
  /\ online' = FALSE
  /\ history' = [j \in Jobs |-> "absent"]
  /\ known' \in SUBSET Jobs /\ known \subseteq known'
  /\ UNCHANGED accepted

(* Jobs come back settled, or not at all; one that was withdrawn may, too. *)
Rise ==
  /\ ~online
  /\ online' = TRUE
  /\ history' \in [Jobs -> {"absent"} \cup Settled]
  /\ \A j \in Jobs : history'[j] # "absent" => j \in known
  /\ UNCHANGED <<known, accepted>>

Progress == \E j \in Jobs : Start(j) \/ \E result \in Settled : Settle(j, result)

Next ==
  \/ \E j \in Jobs : Publish(j) \/ Reject(j) \/ Withdraw(j) \/ Accept(j)
  \/ Progress
  \/ Fall
  \/ Rise

Spec == Init /\ [][Next]_vars
=============================================================================
