--------------------------- MODULE RigGeneration ---------------------------
(***************************************************************************)
(* generate_rig_tokens of src/src/qwen.cpp: beam search under a grammar    *)
(* mask, first over the skeleton, then over four skin codes per joint.     *)
(* The key/value cache under it is BeamCache's subject; the loop is one of *)
(* the users BeamCache allows because it implements BeamSearch.            *)
(*                                                                         *)
(* Scores are left out: any candidates may come out on top, in any order.  *)
(* What top-k and the nucleus filter leave of a beam's allowed tokens is   *)
(* any subset with the minimum of masked_candidates.                       *)
(***************************************************************************)
EXTENDS SkeletonTokens, FiniteSets

CONSTANTS
  SkinTokens,  (* the tokens in play of the skin mask 258 .. last_skin     *)
  MaxBeams,    (* options.beams                                            *)
  MaxTokens,   (* options.max_tokens                                       *)
  MaxJoints    (* 256                                                      *)

FirstSkin == 267
LastSkin == 33034
Eos == 33035

ASSUME RigGenerationAssumption ==
  /\ SkinTokens \subseteq End .. LastSkin
  /\ MaxBeams \in Nat \ {0} /\ MaxTokens \in Nat /\ MaxJoints \in Nat \ {0}

VARIABLES
  active,    (* the live beams, best first: token sequences                *)
  logits,    (* current_logits: the sequence each row was computed for     *)
  finished,  (* the beams that took the final EOS                          *)
  phase,     (* "prompt", "generate", "return", "done" or "failed"         *)
  output,    (* [skeleton, codes, joints] once done                        *)
  error      (* the error returned, or "none"                              *)

vars == <<active, logits, finished, phase, output, error>>

Start == <<Bos, Articulation>>

Search == INSTANCE BeamSearch WITH
            Vocabulary <- Coordinates \cup Parts \cup SkinTokens \cup {Branch, End, Eos},
            Prompt <- Start,
            paths <- active,
            conditioned <- logits,
            status <- CASE phase = "prompt" -> "prompt"
                        [] phase \in {"generate", "return"} -> "running"
                        [] OTHER -> phase

Switched(path) == \E i \in DOMAIN path : path[i] = End

(* Everything up to the first skeleton terminator, which is also the       *)
(* switch to the skin codes.                                               *)
SkeletonOf(path) ==
  SubSeq(path, 1, CHOOSE i \in DOMAIN path :
                    path[i] = End /\ \A j \in 1 .. i - 1 : path[j] # End)

CodesOf(path) == SubSeq(path, Len(SkeletonOf(path)) + 1, Len(path))

(* Fault: the span of four tokens per joint does not include the switch.   *)
AllowedAfterLate(path) ==
  IF ~Switched(path) THEN Allowed(Parse(path))
  ELSE LET joints == Parse(SkeletonOf(path)).joints
           codes == Len(CodesOf(path))
       IN CASE joints \notin 1 .. MaxJoints -> {}
            [] joints \in 1 .. MaxJoints /\ codes < 4 * joints -> SkinTokens
            [] joints \in 1 .. MaxJoints /\ codes = 4 * joints -> {Eos}
            [] joints \in 1 .. MaxJoints /\ codes > 4 * joints -> {}

(* The mask: the grammar until the switch, then skin codes, and the final  *)
(* EOS in the place of the last one.                                       *)
AllowedAfter(path) ==
  IF ~Switched(path) THEN Allowed(Parse(path))
  ELSE LET joints == Parse(SkeletonOf(path)).joints
           codes == Len(CodesOf(path)) + 1
       IN CASE joints \notin 1 .. MaxJoints -> {}
            [] joints \in 1 .. MaxJoints /\ codes < 4 * joints -> SkinTokens
            [] joints \in 1 .. MaxJoints /\ codes = 4 * joints -> {Eos}
            [] joints \in 1 .. MaxJoints /\ codes > 4 * joints -> {}

(* choices: what masked_candidates may offer of every beam.                *)
Offered ==
  UNION {{[source |-> b, token |-> t] : t \in AllowedAfter(active[b])} : b \in DOMAIN active}

FewestCandidates(b) ==
  LET allowed == Cardinality(AllowedAfter(active[b]))
      minimum == IF MaxBeams > 1 THEN 2 ELSE 1
  IN IF allowed < minimum THEN allowed ELSE minimum

(* selected: twice the beam count if there are as many candidates, every   *)
(* candidate otherwise.                                                    *)
Selected ==
  {chosen \in SUBSET Offered :
     \/ Cardinality(chosen) = 2 * MaxBeams
     \/ /\ Cardinality(chosen) < 2 * MaxBeams
        /\ \A b \in DOMAIN active :
             Cardinality({c \in chosen : c.source = b}) >= FewestCandidates(b)}

Ending(chosen) == {c \in chosen : c.token = Eos}

(* Fault: one continuation may be taken for two beams.                     *)
KeptRepeating(chosen) ==
  LET live == chosen \ Ending(chosen)
      count == IF Cardinality(live) < MaxBeams THEN Cardinality(live) ELSE MaxBeams
  IN [1 .. count -> live]

(* The first MaxBeams of the others, in any order of scores.               *)
Kept(chosen) ==
  LET live == chosen \ Ending(chosen)
      count == IF Cardinality(live) < MaxBeams THEN Cardinality(live) ELSE MaxBeams
  IN {order \in [1 .. count -> live] : IsInjective(order)}

With(chosen) ==
  finished \cup {Append(active[c.source], c.token) : c \in Ending(chosen)}

StepsLeft == Len(active[1]) - Len(Start) < MaxTokens

NoOutput == [skeleton |-> <<>>, codes |-> <<>>, joints |-> 0]

Reject(code) ==
  /\ phase' = "failed"
  /\ error' = code
  /\ UNCHANGED <<active, logits, finished, output>>
-----------------------------------------------------------------------------
Init ==
  /\ active = <<Start>>
  /\ logits = <<>>
  /\ finished = {}
  /\ phase = "prompt"
  /\ output = NoOutput
  /\ error = "none"

Prefill ==
  /\ phase = "prompt"
  /\ logits' = active
  /\ phase' = "generate"
  /\ UNCHANGED <<active, finished, output, error>>

(* A round that goes on: the survivors are remapped and decoded.           *)
Extend(chosen) ==
  /\ Cardinality(With(chosen)) < MaxBeams
  /\ chosen # Ending(chosen)
  /\ \E order \in Kept(chosen) :
       active' = [i \in DOMAIN order |-> Append(active[order[i].source], order[i].token)]
  /\ logits' = active'
  /\ finished' = With(chosen)
  /\ UNCHANGED <<phase, output, error>>

(* A round that ends the loop: enough beams have finished, or no other is  *)
(* left.  Nothing reads the live beams after it.                           *)
LastRound(chosen) ==
  /\ Cardinality(With(chosen)) >= MaxBeams \/ chosen = Ending(chosen)
  /\ finished' = With(chosen)
  /\ phase' = "return"
  /\ UNCHANGED <<active, logits, output, error>>

Round ==
  /\ phase = "generate" /\ StepsLeft
  /\ Offered # {}
  /\ \E chosen \in Selected : Extend(chosen) \/ LastRound(chosen)

(* Fault: the loop goes on though no beam may be extended.                 *)
LeaveLoopAtLimit ==
  /\ phase = "generate"
  /\ ~StepsLeft
  /\ phase' = "return"
  /\ UNCHANGED <<active, logits, finished, output, error>>

(* The token limit is reached, or no beam may go on.                       *)
LeaveLoop ==
  /\ phase = "generate"
  /\ ~StepsLeft \/ Offered = {}
  /\ phase' = "return"
  /\ UNCHANGED <<active, logits, finished, output, error>>

Incomplete ==
  /\ phase = "return"
  /\ finished = {}
  /\ Reject("incomplete_generation")

(* The best finished beam is split at the switch.                          *)
Return(best) ==
  /\ phase = "return"
  /\ LET joints == Parse(SkeletonOf(best)).joints
         codes == [i \in DOMAIN CodesOf(best) |-> CodesOf(best)[i] - FirstSkin]
     IN IF Len(codes) # 4 * joints
        THEN Reject("incomplete_codes")
        ELSE /\ output' = [skeleton |-> SkeletonOf(best), codes |-> codes, joints |-> joints]
             /\ phase' = "done"
             /\ UNCHANGED <<active, logits, finished, error>>

(* prefill, remap or decode returns an error.                              *)
BackendFails ==
  /\ phase \in {"prompt", "generate"}
  /\ Reject("compute")

Advance ==
  \/ Prefill
  \/ Round
  \/ LeaveLoop
  \/ Incomplete
  \/ \E best \in finished : Return(best)

Next == Advance \/ BackendFails

(* One thread runs the loop and does not stop between two rounds; nothing  *)
(* makes a backend fail.                                                   *)
Spec == Init /\ [][Next]_vars /\ WF_vars(Advance)
-----------------------------------------------------------------------------
(* Live beams are alike in length and pairwise different, so are the       *)
(* finished ones in the set that holds them.                               *)
TypeOK ==
  /\ Len(active) \in 1 .. MaxBeams
  /\ \A i \in DOMAIN active : Len(active[i]) = Len(active[1])
  /\ IsInjective(active)
  /\ \A path \in finished : path[Len(path)] = Eos
  /\ phase \in {"prompt", "generate", "return", "done", "failed"}

(* The mask keeps every beam inside the language parse_skeleton reads: it  *)
(* never throws in a round of the loop or on the result, whatever beams    *)
(* came together.                                                          *)
ParserNeverThrows ==
  \A path \in {active[i] : i \in DOMAIN active} \cup finished :
    Parse(IF Switched(path) THEN SkeletonOf(path) ELSE path).state # "error"

(* A finished beam has exactly one code for each quarter of a joint, the   *)
(* EOS as the last of them and nowhere else; "TokenRig generated an        *)
(* incomplete skin-code sequence" (qwen.cpp:1453) never happens.           *)
CodesComplete ==
  /\ error # "incomplete_codes"
  /\ phase = "done" =>
       /\ output.joints \in 1 .. MaxJoints
       /\ Len(output.codes) = 4 * output.joints
       /\ {i \in DOMAIN output.codes : output.codes[i] = Eos - FirstSkin}
            = {Len(output.codes)}

(* model::rig hands the skeleton to detokenize_generated_skeleton and      *)
(* compares the joint counts (model.cpp:889): the reader either turns the  *)
(* sequence down or counts as the generator did, and it turns it down only *)
(* when a branch has no joint of its own after it.                         *)
ReaderAgrees ==
  phase = "done" =>
    LET reader == Detokenized(output.skeleton, MaxJoints)
        dangling == \E i \in DOMAIN output.skeleton :
                      /\ output.skeleton[i] = Branch
                      /\ output.skeleton[i + 4] \notin 0 .. 255
    IN /\ reader.ok => Len(reader.cells) = output.joints
       /\ reader.ok <=> ~dangling

(* A generation comes to an end, by a result or by an error.               *)
Terminates == <>(phase \in {"done", "failed"})

(* The loop asks of the beams what BeamSearch allows.                      *)
ImplementsBeamSearch == Search!Spec

(* internal.hpp:148-149 promises "four FSQ skin codes per generated        *)
(* joint", and the decoder takes 0 to 32768 (skin_vae.cpp:336).            *)
CodesAreFSQ ==
  \A i \in DOMAIN output.codes : output.codes[i] \in 0 .. 32768
==============================================================================
