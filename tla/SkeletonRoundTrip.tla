-------------------------- MODULE SkeletonRoundTrip --------------------------
(***************************************************************************)
(* A GLB file on its way into a prompt: load_skeleton_document puts the    *)
(* joints in order and reads where they rest, validate_skeleton accepts    *)
(* what it accepts, tokenize_skeleton_prefix writes the skeleton, and      *)
(* detokenize_generated_skeleton and the generator's grammar parser read   *)
(* it back.                                                                *)
(***************************************************************************)
EXTENDS SkinOrder, SkeletonTokens

CONSTANT
  MaxJoints,    (* 256, lines 759 of glb.cpp and 288 of model.cpp           *)
  Places        (* where joints may rest                                   *)

ASSUME SkeletonRoundTripAssumption ==
  /\ MaxJoints \in Nat
  /\ \A place \in Places, axis \in 1 .. 3 :
       place[axis] \in Positions /\ Discrete(place[axis]) \in Coordinates
  /\ \A file \in Files : Len(file.skin) <= MaxJoints

VARIABLE rest    (* rig.rest_positions, normalized                         *)

vars == <<orderVars, rest>>

Init == OrderInit /\ rest = <<>>

(* The link loop also takes where the joint rests from its node.           *)
LinkAt(place) == Link /\ rest' = Append(rest, place)

OrderAndLink ==
  \/ Skip \/ Climb \/ Place \/ Wait
  \/ NextPass \/ GiveUp \/ Ordered
  \/ LinkFails \/ Linked

Next ==
  \/ OrderAndLink /\ UNCHANGED rest
  \/ \E place \in Places : LinkAt(place)

(* load_skeleton_document runs by itself until it returns.                 *)
Spec == Init /\ [][Next]_vars /\ WF_vars(Next)
-----------------------------------------------------------------------------
(* Parents as the code counts them, from 0 and -1 for a root.              *)
Parents == [joint \in DOMAIN parents |-> parents[joint] - 1]

(* validate_skeleton: one root, and no parent from the joint on.           *)
Valid ==
  /\ \A joint \in DOMAIN parents : Parents[joint] < joint - 1
  /\ Cardinality({joint \in DOMAIN parents : Parents[joint] = -1}) = 1

Imported == phase = "done" /\ Valid

(* What append writes for each joint.                                      *)
Cells == [joint \in DOMAIN rest |-> <<Discrete(rest[joint][1]), Discrete(rest[joint][2]),
                                      Discrete(rest[joint][3])>>]

Tokens == Tokenized(Cells, Parents)

Reader == Detokenized(Tokens, MaxJoints)

(* The generator's grammar and the tokenizer speak one language: the       *)
(* parser ends on every prefix the tokenizer writes, having counted the    *)
(* skeleton's joints, and every token of it is one the mask would allow    *)
(* (generate_skin_codes continues such prefixes, generate_rig_tokens       *)
(* writes them).                                                           *)
TokenizerSpeaksGrammar ==
  Imported =>
    LET tokens == Tokens
        parser == Parse(tokens)
    IN /\ parser.ended /\ parser.state # "error" /\ parser.joints = Len(rest)
       /\ \A i \in DOMAIN tokens : tokens[i] \in Allowed(Parse(SubSeq(tokens, 1, i - 1)))

(* Reading back what was written gives the joints in order, and every      *)
(* joint hangs from a joint at its parent's place; from the very same one  *)
(* when no two joints share a cell. Writing rounds to the nearest and      *)
(* reading takes the middle, so a joint comes back up to a cell higher,    *)
(* and lower only at the upper end.                                        *)
RoundTrip ==
  Imported =>
    LET reader == Reader
        cells == Cells
    IN /\ reader.ok /\ Len(reader.cells) = Len(rest) /\ reader.parents[1] = -1
       /\ \A i \in DOMAIN rest, axis \in 1 .. 3 :
            LET moved == Coordinate(reader.cells[i][axis]) - rest[i][axis]
            IN IF rest[i][axis] > 1022 THEN moved \in -2 .. -1 ELSE moved \in 0 .. 4
       /\ \A i \in 2 .. Len(rest) :
            /\ reader.parents[i] \in 0 .. i - 2
            /\ cells[reader.parents[i] + 1] = cells[Parents[i] + 1]
       /\ IsInjective(cells) => reader.parents = Parents
==============================================================================
