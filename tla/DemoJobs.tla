------------------------------ MODULE DemoJobs ------------------------------
(* The jobs of the demo, as its server and its page name them.             *)
CONSTANTS
  Jobs,   (* the identifiers of the requests made, each used once          *)
  NoJob   (* in place of one, where the code has an empty string or null   *)

ASSUME DemoJobsAssumption == NoJob \notin Jobs
=============================================================================
