----------------------------- MODULE BeamSearch -----------------------------
(***************************************************************************)
(* What TokenRig's beam search promises, with no cache in sight: a beam is *)
(* the sequence of everything the language model has been fed, and the     *)
(* logits a selection is made from were computed from exactly those        *)
(* sequences, as if each had been evaluated from its first token (what     *)
(* run_qwen_logits_batch does).                                            *)
(***************************************************************************)
EXTENDS Integers, Sequences

CONSTANTS
  Vocabulary, (* the token ids a selection can append                      *)
  Prompt,     (* the mesh embeddings followed by the prompt tokens         *)
  MaxBeams,   (* generation_options.beams                                  *)
  MaxTokens   (* tokens the generation may add to the prompt               *)

VARIABLES
  paths,        (* the beams, best first, each with the prompt in front    *)
  conditioned,  (* conditioned[i]: the sequence row i of the logits is for *)
  status        (* "prompt", "running", "done" or "failed"                 *)

vars == <<paths, conditioned, status>>

(* A selection: distinct (source, token) continuations, best first.        *)
Continuations(n) == [source : 1 .. n, token : Vocabulary]

Selections(n) ==
  {sel \in UNION {[1 .. k -> Continuations(n)] : k \in 1 .. MaxBeams} :
     \A i, j \in DOMAIN sel : sel[i] = sel[j] => i = j}

Extended(from, sel) ==
  [i \in DOMAIN sel |-> Append(from[sel[i].source], sel[i].token)]

Init ==
  /\ paths = <<Prompt>>
  /\ conditioned = <<>>
  /\ status = "prompt"

(* The prompt has been evaluated.                                          *)
Start ==
  /\ status = "prompt"
  /\ conditioned' = paths
  /\ status' = "running"
  /\ UNCHANGED paths

(* One token per surviving beam, then fresh logits for every survivor.     *)
Extend ==
  /\ status = "running"
  /\ Len(paths[1]) < Len(Prompt) + MaxTokens
  /\ \E sel \in Selections(Len(paths)) : paths' = Extended(paths, sel)
  /\ conditioned' = paths'
  /\ UNCHANGED status

(* The last token needs no logits after it.                                *)
Finish ==
  /\ status = "running"
  /\ Len(paths[1]) < Len(Prompt) + MaxTokens
  /\ \E sel \in Selections(Len(paths)) : paths' = Extended(paths, sel)
  /\ status' = "done"
  /\ UNCHANGED conditioned

Stop ==
  /\ status = "running"
  /\ status' = "done"
  /\ UNCHANGED <<paths, conditioned>>

Fail ==
  /\ status \in {"prompt", "running"}
  /\ status' = "failed"
  /\ UNCHANGED <<paths, conditioned>>

Next == Start \/ Extend \/ Finish \/ Stop \/ Fail

Spec == Init /\ [][Next]_vars
=============================================================================
