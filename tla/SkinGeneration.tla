--------------------------- MODULE SkinGeneration ---------------------------
(***************************************************************************)
(* generate_skin_codes of src/src/qwen.cpp: four skin codes for each joint *)
(* of a supplied skeleton, by sampling (one beam) or by beam search.  The  *)
(* cache is BeamCache's subject, as in RigGeneration.                      *)
(*                                                                         *)
(* Scores are left out.  What top-k and the nucleus filter leave of a      *)
(* beam's codes is any subset with the minimum of beam_candidates.         *)
(***************************************************************************)
EXTENDS Integers, Sequences, FiniteSets, Functions

CONSTANTS
  SkinTokens,  (* the tokens in play of 267 .. 33034                       *)
  Skeleton,    (* skeleton_tokens                                          *)
  MaxJoints,   (* joint counts tried; 256 in the code                      *)
  MaxBeams,    (* beam counts tried; 32 in the code                        *)
  TokenLimit   (* options.max_tokens                                       *)

FirstSkin == 267
LastSkin == 33034

ASSUME SkinGenerationAssumption ==
  /\ SkinTokens \subseteq FirstSkin .. LastSkin /\ Cardinality(SkinTokens) >= 2
  /\ Skeleton \in Seq(Int)
  /\ MaxJoints \in Nat \ {0} /\ MaxBeams \in Nat \ {0} /\ TokenLimit \in Nat

VARIABLES
  joints,   (* joint_count                                                 *)
  width,    (* options.beams                                               *)
  beams,    (* the generated tokens of each beam, best first               *)
  logits,   (* current_logits: the sequence each row was computed for      *)
  phase,    (* "prompt", "generate", "done" or "failed"                    *)
  output,   (* the codes returned                                          *)
  error     (* the error returned, or "none"                               *)

vars == <<joints, width, beams, logits, phase, output, error>>

Paths(from) == [i \in DOMAIN from |-> Skeleton \o from[i]]

Search == INSTANCE BeamSearch WITH
            Vocabulary <- SkinTokens,
            Prompt <- Skeleton,
            MaxTokens <- TokenLimit,
            paths <- Paths(beams),
            conditioned <- logits,
            status <- IF phase = "generate" THEN "running" ELSE phase

Wanted == 4 * joints

Offered == [source : DOMAIN beams, token : SkinTokens]

(* Fault: the nucleus may leave one candidate of a beam.                   *)
FewestCandidatesOne == 1

FewestCandidates == IF width > 1 THEN 2 ELSE 1

(* Fault: twice the beam count even when there are not as many.            *)
SelectedExactly ==
  {chosen \in SUBSET Offered : Cardinality(chosen) = 2 * width}

(* selected: twice the beam count if there are as many candidates, every   *)
(* candidate otherwise.                                                    *)
Selected ==
  {chosen \in SUBSET Offered :
     \/ Cardinality(chosen) = 2 * width
     \/ /\ Cardinality(chosen) < 2 * width
        /\ \A b \in DOMAIN beams :
             Cardinality({c \in chosen : c.source = b}) >= FewestCandidates}

(* Fault: survivors are drawn without removing them from the choices.      *)
KeptRepeating(chosen) ==
  [1 .. (IF Cardinality(chosen) < width THEN Cardinality(chosen) ELSE width) -> chosen]

(* The keep best of them, in any order of scores.                          *)
Kept(chosen) ==
  LET keep == IF Cardinality(chosen) < width THEN Cardinality(chosen) ELSE width
  IN {order \in [1 .. keep -> chosen] : IsInjective(order)}

Extended(order) ==
  [i \in DOMAIN order |-> Append(beams[order[i].source], order[i].token)]

Codes(tokens) == [i \in DOMAIN tokens |-> tokens[i] - FirstSkin]

Reject(code) ==
  /\ phase' = "failed"
  /\ error' = code
  /\ UNCHANGED <<joints, width, beams, logits, output>>
-----------------------------------------------------------------------------
Init ==
  /\ joints \in 1 .. MaxJoints
  /\ width \in 1 .. MaxBeams
  /\ beams = << <<>> >>
  /\ logits = <<>>
  /\ phase = "prompt"
  /\ output = <<>>
  /\ error = "none"

(* The context of 3192 positions is taken to have room for the prompt.     *)
Prefill ==
  /\ phase = "prompt"
  /\ IF Wanted > TokenLimit
     THEN Reject("limit_exceeded")
     ELSE /\ logits' = Paths(beams)
          /\ phase' = "generate"
          /\ UNCHANGED <<joints, width, beams, output, error>>

(* Fault: the token count is compared one token late.                      *)
AfterSelectionLate(survivors) ==
  /\ beams' = survivors
  /\ IF Len(survivors[1]) = Wanted + 1
     THEN /\ output' = Codes(survivors[1])
          /\ phase' = "done"
          /\ UNCHANGED logits
     ELSE /\ logits' = Paths(survivors)
          /\ UNCHANGED <<phase, output>>
  /\ UNCHANGED <<joints, width, error>>

(* The last token needs no decode; the best beam is the result.            *)
AfterSelection(survivors) ==
  /\ beams' = survivors
  /\ IF Len(survivors[1]) = Wanted
     THEN /\ output' = Codes(survivors[1])
          /\ phase' = "done"
          /\ UNCHANGED logits
     ELSE /\ logits' = Paths(survivors)
          /\ UNCHANGED <<phase, output>>
  /\ UNCHANGED <<joints, width, error>>

Sample ==
  /\ phase = "generate" /\ width = 1
  /\ \E token \in SkinTokens : AfterSelection(<<Append(beams[1], token)>>)

Round ==
  /\ phase = "generate" /\ width > 1
  /\ \E chosen \in Selected : \E order \in Kept(chosen) : AfterSelection(Extended(order))

(* prefill, remap or decode returns an error.                              *)
BackendFails ==
  /\ phase \in {"prompt", "generate"}
  /\ Reject("compute")

Advance == Prefill \/ Sample \/ Round

Next == Advance \/ BackendFails

(* One thread runs the loop and does not stop between two rounds; nothing  *)
(* makes a backend fail.                                                   *)
Spec == Init /\ [][Next]_vars /\ WF_vars(Advance)
-----------------------------------------------------------------------------
(* Beams are alike in length and pairwise different, and never longer than *)
(* the cache was sized for.                                                *)
TypeOK ==
  /\ Len(beams) \in 1 .. width
  /\ \A i \in DOMAIN beams : Len(beams[i]) = Len(beams[1])
  /\ Len(beams[1]) <= Wanted
  /\ IsInjective(beams)
  /\ phase \in {"prompt", "generate", "done", "failed"}

(* What five digits to base 8 can say, which decode_skin_joint takes a     *)
(* code for.                                                               *)
LastCode == 32767
FSQCodes == 0 .. LastCode

(* A result has exactly four codes for every joint, each of them one       *)
(* decode_skin_joint accepts, and is the best of the last beams.           *)
ResultComplete ==
  phase = "done" =>
    /\ Len(output) = 4 * joints
    /\ \A i \in DOMAIN output : output[i] \in FSQCodes
    /\ output = Codes(beams[1])

(* However the filters cut, the search widens: each round doubles the      *)
(* beams at least, up to the number asked for, and never drops below it    *)
(* again ("keeps two candidates per beam", qwen.cpp:222).                  *)
BeamsFill ==
  [][beams' # beams =>
       Len(beams') >= (IF 2 * Len(beams) < width THEN 2 * Len(beams) ELSE width)]_vars

(* A generation comes to an end, by a result or by an error.               *)
Terminates == <>(phase \in {"done", "failed"})

(* The loop asks of the beams what BeamSearch allows.                      *)
ImplementsBeamSearch == Search!Spec
==============================================================================
