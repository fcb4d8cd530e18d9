--------------------------- MODULE SkeletonTokens ---------------------------
(***************************************************************************)
(* The TokenizerPart skeleton language, which three pieces of code must    *)
(* agree on: the grammar parser and token mask of src/src/qwen.cpp         *)
(* (parse_skeleton, allowed_skeleton_tokens), and the writer and reader of *)
(* src/src/tokenizer.cpp (tokenize_skeleton_prefix,                        *)
(* detokenize_generated_skeleton).                                         *)
(*                                                                         *)
(* A joint is its quantized cell <<x, y, z>>, three coordinate tokens.     *)
(* Normalization to the box of the mesh and back is left out.  Joints and  *)
(* cursors count from 1 here, parents from 0 as in the code.               *)
(***************************************************************************)
EXTENDS Integers, Sequences, SequencesExt

CONSTANTS
  Coordinates,  (* the coordinate tokens in play, out of 0..255            *)
  Parts         (* the part markers in play, out of 260..262               *)

ASSUME SkeletonTokensAssumption ==
  /\ Coordinates \subseteq 0 .. 255 /\ Coordinates # {}
  /\ Parts \subseteq 260 .. 262

Branch == 256
Bos == 257
End == 258
Classes == 263 .. 266
Articulation == 266

(* Where a joint may rest along an axis, from -1 to 1, in quarters of a    *)
(* cell.                                                                   *)
Positions == 0 .. 1024

(* discrete: rounded to the nearest, half to even, and clamped.            *)
Discrete(position) ==
  LET near == IF position % 8 = 6 THEN position \div 4 + 1 ELSE (position + 1) \div 4
  IN IF near > 255 THEN 255 ELSE near

(* coordinate: where the reader puts a token.                              *)
Coordinate(token) == 4 * token + 2
-----------------------------------------------------------------------------
(* parse_skeleton, one token at a time.  "error" stands for its throws.    *)

Fresh == [state |-> "bos", joints |-> 0, ended |-> FALSE, branchHalf |-> FALSE]

StateAfter(state, id) ==
  CASE state = "bos" /\ id = Bos                       -> "first"
    [] state = "first" /\ id < 256                     -> "joint_2"
    [] state = "first" /\ id \in Classes               -> "part_or_joint"
    [] state = "first" /\ id \in Parts                 -> "joint"
    [] state = "part_or_joint" /\ id < 256             -> "joint_2"
    [] state = "part_or_joint" /\ id \in {End} \cup Parts -> "part_or_joint"
    [] state = "joint_2" /\ id < 256                   -> "joint_3"
    [] state = "joint_3" /\ id < 256                   -> "between"
    [] state = "between" /\ id < 256                   -> "joint_2"
    [] state = "between" /\ id \in {Branch} \cup Parts -> "joint"
    [] state = "between" /\ id = End                   -> "between"
    [] state = "joint" /\ id < 256                     -> "joint_2"
    [] OTHER                                           -> "error"

(* Fault: the joint a branch starts from is counted as a new one.          *)
ParsedCountingBranches(p, id) ==
  IF p.ended \/ StateAfter(p.state, id) = "error"
  THEN [p EXCEPT !.state = "error"]
  ELSE [p EXCEPT !.state = StateAfter(p.state, id),
                 !.joints = @ + (IF p.state = "joint_3" THEN 1 ELSE 0),
                 !.ended = id = End]

(* Fault: the joint after a branch is not counted either.                  *)
ParsedForgettingBranched(p, id) ==
  IF p.ended \/ StateAfter(p.state, id) = "error"
  THEN [p EXCEPT !.state = "error"]
  ELSE [state |-> StateAfter(p.state, id),
        joints |-> p.joints + (IF p.state = "joint_3" /\ ~p.branchHalf THEN 1 ELSE 0),
        ended |-> id = End,
        branchHalf |-> id = Branch \/ p.branchHalf]

(* The three coordinates after a branch token are those of an old joint.   *)
Parsed(p, id) ==
  IF p.ended \/ StateAfter(p.state, id) = "error"
  THEN [p EXCEPT !.state = "error"]
  ELSE [state |-> StateAfter(p.state, id),
        joints |-> p.joints + (IF p.state = "joint_3" /\ ~p.branchHalf THEN 1 ELSE 0),
        ended |-> id = End,
        branchHalf |-> id = Branch \/ (p.branchHalf /\ p.state # "joint_3")]

(* The states the parser may be in after each token: just one, but sets,   *)
(* so that TLC evaluates a step once even under ENABLED.                   *)
ParsedFrom(states, id) == {Parsed(p, id) : p \in states}

ParserAfter(ids) ==
  LET after[n \in 0 .. Len(ids)] ==
        IF n = 0 THEN {Fresh} ELSE ParsedFrom(after[n - 1], ids[n])
  IN after

Parse(ids) == CHOOSE p \in ParserAfter(ids)[Len(ids)] : TRUE

(* Fault: a branch token may be followed by whatever follows a joint.      *)
AllowedAfterBranch(p) ==
  CASE p.state = "bos" -> {Bos}
    [] p.state = "first" -> Classes \cup Parts \cup Coordinates
    [] p.state = "part_or_joint" -> Parts \cup Coordinates
    [] p.state \in {"joint_2", "joint_3"} -> Coordinates
    [] p.state \in {"between", "joint"} -> Coordinates \cup Parts \cup {Branch, End}

(* allowed_skeleton_tokens, the mask laid over the next token.             *)
Allowed(p) ==
  CASE p.state = "bos" -> {Bos}
    [] p.state = "first" -> Classes \cup Parts \cup Coordinates
    [] p.state = "part_or_joint" ->
         Parts \cup Coordinates \cup (IF p.joints # 0 THEN {End} ELSE {})
    [] p.state \in {"joint_2", "joint_3", "joint"} -> Coordinates
    [] p.state = "between" ->
         Coordinates \cup Parts \cup {Branch}
           \cup (IF p.joints # 0 THEN {End} ELSE {})
-----------------------------------------------------------------------------
(* tokenize_skeleton_prefix: a joint whose parent is not the joint just    *)
(* written is announced by a branch token and its parent's cell.           *)

Branches(parents, joint) == joint # 1 /\ parents[joint] # joint - 2

JointTokens(cells, parents, joint) ==
  IF Branches(parents, joint)
  THEN <<Branch>> \o cells[parents[joint] + 1] \o cells[joint]
  ELSE cells[joint]

Tokenized(cells, parents) ==
  <<Bos, Articulation>>
    \o FlattenSeq([joint \in DOMAIN cells |-> JointTokens(cells, parents, joint)])
    \o <<End>>
-----------------------------------------------------------------------------
(* detokenize_generated_skeleton.                                          *)

NoPoint == <<>>

ReaderStart ==
  [cursor |-> 2, branch |-> FALSE, previous |-> NoPoint,
   cells |-> <<>>, parents |-> <<>>, failed |-> FALSE]

(* point throws past the end and on anything but coordinates.              *)
HasPoint(tokens, at) ==
  at + 2 <= Len(tokens) /\ \A i \in at .. at + 2 : tokens[i] \in 0 .. 255

Distance(p, q) ==
  (p[1] - q[1]) * (p[1] - q[1]) + (p[2] - q[2]) * (p[2] - q[2])
    + (p[3] - q[3]) * (p[3] - q[3])

(* The closest joint so far, the first of them on a tie; -1 for the root.  *)
Closest(cells, point) ==
  IF cells = <<>> THEN -1
  ELSE (CHOOSE i \in DOMAIN cells :
          /\ \A j \in DOMAIN cells : Distance(cells[i], point) <= Distance(cells[j], point)
          /\ \A j \in 1 .. i - 1 : Distance(cells[j], point) > Distance(cells[i], point)) - 1

(* Fault: a branch does not forget the joint before it.                    *)
PointsReadContinuing(tokens, r) ==
  LET own == IF r.branch THEN r.cursor + 3 ELSE r.cursor
      start == IF r.previous # NoPoint THEN r.previous ELSE SubSeq(tokens, own, own + 2)
  IN [r EXCEPT !.cursor = own + 3, !.branch = FALSE,
               !.previous = SubSeq(tokens, own, own + 2),
               !.cells = Append(@, SubSeq(tokens, own, own + 2)),
               !.parents = Append(@, Closest(r.cells, start))]

PointsRead(tokens, r) ==
  LET own == IF r.branch THEN r.cursor + 3 ELSE r.cursor
      current == SubSeq(tokens, own, own + 2)
      start == IF r.branch THEN SubSeq(tokens, r.cursor, r.cursor + 2)
               ELSE IF r.previous # NoPoint THEN r.previous
               ELSE current
  IN [r EXCEPT !.cursor = own + 3, !.branch = FALSE, !.previous = current,
               !.cells = Append(@, current),
               !.parents = Append(@, Closest(r.cells, start))]

(* One round of the reading loop.                                          *)
Read(tokens, r) ==
  LET token == tokens[r.cursor]
      first == HasPoint(tokens, r.cursor)
      second == HasPoint(tokens, r.cursor + 3)
  IN IF r.failed \/ r.cursor >= Len(tokens) \/ token = End THEN r
     ELSE CASE token = Branch ->
                 [r EXCEPT !.branch = TRUE, !.previous = NoPoint, !.cursor = @ + 1]
            [] token \in Parts \cup Classes -> [r EXCEPT !.cursor = @ + 1]
            [] token \notin {Branch} \cup Parts \cup Classes ->
                 IF first /\ (r.branch => second)
                 THEN PointsRead(tokens, r)
                 ELSE [r EXCEPT !.failed = TRUE]

(* The reader after each round; a round reads at least one token.          *)
ReaderAfter(tokens) ==
  LET after[n \in 0 .. Len(tokens)] ==
        IF n = 0 THEN ReaderStart ELSE Read(tokens, after[n - 1])
  IN after

Detokenized(tokens, maxJoints) ==
  LET end == ReaderAfter(tokens)[Len(tokens)]
      accepted == /\ Len(tokens) >= 6
                  /\ tokens[1] = Bos /\ tokens[Len(tokens)] = End
                  /\ ~end.failed
                  /\ Len(end.cells) \in 1 .. maxJoints
  IN [ok |-> accepted, cells |-> end.cells, parents |-> end.parents]
=============================================================================
