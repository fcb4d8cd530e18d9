------------------------------ MODULE MotionFit ------------------------------
(***************************************************************************)
(* A clip fitted to a mesh and played: src/model.cpp, fit_motion_to_mesh   *)
(* with pose_at_frame_zero and articulate_arm. The rest positions may be   *)
(* scaled, exchanged for the clip's own first frame, and bent at the arms; *)
(* each change must be made up for in the tracks, or the motion is applied *)
(* to a pose it was not made for. The code's comments claim that this is   *)
(* exact; here it is, over any rotations and vectors that obey the laws    *)
(* below. Rounding, and with it the normalization of products, is left     *)
(* out, as is the geometry that chooses among the poses.                   *)
(***************************************************************************)
EXTENDS Integers, Sequences

CONSTANTS
  Rotations, Identity, Compose(_, _), Inverse(_),
  Vectors, Zero, Plus(_, _), Minus(_, _),
  Turn(_, _),    (* rotate a vector                                        *)
  Scaled(_),     (* placement.scale applied to a vector                    *)
  Offsets,       (* placement.offset, out of Vectors                       *)
  ArmTurns,      (* what rotation_between may give, out of Rotations       *)
  Frames,        (* frames of the clip, 0 the first                        *)
  Clips          (* clips to fit, see below                                *)

ASSUME RotationLaws ==
  /\ Identity \in Rotations
  /\ \A p, q \in Rotations : Compose(p, q) \in Rotations
  /\ \A p \in Rotations : /\ Inverse(p) \in Rotations
                          /\ Compose(p, Inverse(p)) = Identity
                          /\ Compose(Inverse(p), p) = Identity
                          /\ Compose(p, Identity) = p /\ Compose(Identity, p) = p
  /\ \A p, q, r \in Rotations : Compose(Compose(p, q), r) = Compose(p, Compose(q, r))

ASSUME VectorLaws ==
  /\ Zero \in Vectors
  /\ \A u, v \in Vectors : /\ Plus(u, v) \in Vectors /\ Minus(u, v) \in Vectors
                           /\ Minus(Plus(u, v), u) = v
  /\ \A u \in Vectors : Plus(u, Zero) = u /\ Minus(u, u) = Zero
  /\ \A u, v, w \in Vectors : /\ Minus(Plus(w, u), Plus(w, v)) = Minus(u, v)
                              /\ Minus(Minus(u, w), Minus(v, w)) = Minus(u, v)

ASSUME TurnLaws ==
  /\ \A u \in Vectors : Turn(Identity, u) = u
  /\ \A p \in Rotations, u, v \in Vectors :
       /\ Turn(p, u) \in Vectors
       /\ Turn(p, Minus(u, v)) = Minus(Turn(p, u), Turn(p, v))
  /\ \A p, q \in Rotations, u \in Vectors : Turn(Compose(p, q), u) = Turn(p, Turn(q, u))

ASSUME ScaleLaws ==
  /\ Scaled(Zero) = Zero
  /\ \A u, v \in Vectors : /\ Scaled(u) \in Vectors
                           /\ Scaled(Minus(u, v)) = Minus(Scaled(u), Scaled(v))
  /\ \A p \in Rotations, u \in Vectors : Turn(p, Scaled(u)) = Scaled(Turn(p, u))

ASSUME InputAssumption ==
  Offsets \subseteq Vectors /\ ArmTurns \subseteq Rotations /\ 0 \in Frames

(* A clip: parents count from 1 and are 0 for the root, local[j] is the    *)
(* track of joint j, arms the recognized chains whose joints were found.   *)
VARIABLES
  clip,          (* animation                                              *)
  phase, at,     (* the loop at hand and its joint                         *)
  rest, local, roots,             (* output; source is what it holds first *)
  bind, posed, delta,             (* bind_global, frame_global, delta_global *)
  bakedRest, bakedLocal,          (* candidate: the clip based on frame 0  *)
  adopted,                        (* candidate was taken                   *)
  articulated,                    (* fit, unless none                      *)
  corrections, arm,               (* rest_corrections, chain at hand       *)
  clipPose, fitPose               (* global rotations, clip and output played *)

bakeVars == <<bind, posed, delta, bakedRest, bakedLocal>>
outVars == <<rest, local, roots>>
armVars == <<articulated, corrections, arm>>
playVars == <<clipPose, fitPose>>
vars == <<clip, phase, at, outVars, bakeVars, adopted, armVars, playVars>>

Joints == DOMAIN clip.parents
Parent(j) == clip.parents[j]

(* The joint and all below it: those a climb from which meets it.          *)
Below(top) ==
  {j \in Joints : \A S \in SUBSET Joints :
     top \in S /\ (\A i \in Joints : Parent(i) \in S => i \in S) => j \in S}

(* Clips that validate_skeleton accepts; the chains lie apart.             *)
ClipAccepted ==
  /\ clip.parents \in Seq(Nat) /\ clip.parents # <<>>
  /\ \A j \in Joints : Parent(j) < j /\ (Parent(j) = 0 <=> j = 1)
  /\ clip.rest \in [Joints -> Vectors]
  /\ clip.local \in [Joints -> [Frames -> Rotations]]
  /\ clip.roots \in [Frames -> Vectors]
  /\ clip.arms \in Seq([shoulder : Joints, elbow : Joints, wrist : Joints])

Moved(chain) == {chain.shoulder, chain.elbow} \cup Below(chain.wrist)

ArmsApart ==
  /\ \A k \in DOMAIN clip.arms :
       LET chain == clip.arms[k]
       IN /\ chain.shoulder # chain.elbow
          /\ {chain.shoulder, chain.elbow} \cap Below(chain.wrist) = {}
  /\ \A k, l \in DOMAIN clip.arms :
       k # l => Moved(clip.arms[k]) \cap Moved(clip.arms[l]) = {}

AllIdentity == [j \in Joints |-> Identity]
AllFramesIdentity == [j \in Joints |-> [f \in Frames |-> Identity]]
-----------------------------------------------------------------------------
Init ==
  /\ clip \in Clips /\ ClipAccepted /\ ArmsApart
  /\ phase = "start" /\ at = 1
  /\ rest = clip.rest /\ local = clip.local /\ roots = clip.roots
  /\ bind = AllIdentity
  /\ posed = AllFramesIdentity /\ delta = AllFramesIdentity
  /\ bakedRest = clip.rest /\ bakedLocal = clip.local
  /\ adopted = FALSE
  /\ articulated = FALSE /\ corrections = AllIdentity /\ arm = 1
  /\ clipPose = AllFramesIdentity /\ fitPose = AllFramesIdentity

(* A loop over the joints, parents first.                                  *)
Advance(then) ==
  IF at < Len(clip.parents)
  THEN at' = at + 1 /\ phase' = phase
  ELSE at' = 1 /\ phase' = then

(* Fault: the rotations of the joints above are left out.                  *)
AlongItself(globals, j, q) == q

(* A rotation local to a joint, seen from outside.                         *)
Along(globals, j, q) == IF Parent(j) = 0 THEN q ELSE Compose(globals[Parent(j)], q)
AlongTrack(globals, j, track) ==
  [f \in Frames |-> IF Parent(j) = 0 THEN track[f]
                    ELSE Compose(globals[Parent(j)][f], track[f])]

(* A mesh or a skeleton without height cannot be fitted.                   *)
Degenerate ==
  /\ phase = "start"
  /\ phase' = "error"
  /\ UNCHANGED <<clip, at, outVars, bakeVars, adopted, armVars, playVars>>

(* skeleton_fit::global_similarity, or articulated.                        *)
Choose(mode) ==
  /\ phase = "start"
  /\ articulated' = (mode = "articulated")
  /\ phase' = IF articulated' THEN "bind" ELSE "place"
  /\ UNCHANGED <<clip, at, outVars, bakeVars, adopted, corrections, arm, playVars>>

(* pose_at_frame_zero, first loop: where frame zero puts each joint.       *)
Bind ==
  /\ phase = "bind"
  /\ bind' = [bind EXCEPT ![at] = Along(bind, at, clip.local[at][0])]
  /\ bakedRest' = [bakedRest EXCEPT ![at] =
       IF Parent(at) = 0 THEN clip.roots[0]
       ELSE Plus(bakedRest[Parent(at)],
                 Turn(bind[Parent(at)], Minus(clip.rest[at], clip.rest[Parent(at)])))]
  /\ Advance("rebase")
  /\ UNCHANGED <<clip, outVars, posed, delta, bakedLocal, adopted, armVars, playVars>>

(* A joint's turn since frame zero, as its parent sees it.                 *)
SinceFrameZero(j, turned) ==
  IF Parent(j) = 0 THEN turned
  ELSE [f \in Frames |-> Compose(Inverse(delta[Parent(j)][f]), turned[f])]

(* Its second loop: each track rebased against frame zero.                 *)
Rebase ==
  LET pose == AlongTrack(posed, at, clip.local[at])
      turned == [f \in Frames |-> Compose(pose[f], Inverse(bind[at]))]
  IN /\ phase = "rebase"
     /\ posed' = [posed EXCEPT ![at] = pose]
     /\ delta' = [delta EXCEPT ![at] = turned]
     /\ bakedLocal' = [bakedLocal EXCEPT ![at] = SinceFrameZero(at, turned)]
     /\ Advance("choose")
     /\ UNCHANGED <<clip, outVars, bind, bakedRest, adopted, armVars, playVars>>

(* arm_clearance prefers the first frame.                                  *)
Adopt ==
  /\ phase = "choose"
  /\ adopted' = TRUE
  /\ rest' = bakedRest /\ local' = bakedLocal
  /\ phase' = "place"
  /\ UNCHANGED <<clip, at, roots, bakeVars, armVars, playVars>>

Keep ==
  /\ phase = "choose"
  /\ phase' = "place"
  /\ UNCHANGED <<clip, at, outVars, bakeVars, adopted, armVars, playVars>>

(* The one scale, and the offset that goes with it.                        *)
Place(offset) ==
  /\ phase = "place"
  /\ rest' = [j \in Joints |-> Plus(offset, Scaled(rest[j]))]
  /\ phase' = IF articulated THEN "arms" ELSE "roots"
  /\ UNCHANGED <<clip, at, local, roots, bakeVars, adopted, armVars, playVars>>

(* The arm already runs through the mesh.                                  *)
KeepArm ==
  /\ phase = "arms" /\ arm <= Len(clip.arms)
  /\ arm' = arm + 1
  /\ UNCHANGED <<clip, phase, at, outVars, bakeVars, adopted, articulated, corrections, playVars>>

(* The upper arm turns at the shoulder, and all from the elbow on with the *)
(* forearm.                                                                *)
WithArm(chain, upper, fore) ==
  [j \in Joints |-> IF j = chain.shoulder THEN upper
                    ELSE IF j = chain.elbow \/ j \in Below(chain.wrist) THEN fore
                    ELSE corrections[j]]

(* articulate_arm: inverse kinematics finds the two turns, which keep the  *)
(* lengths of upper arm and forearm.                                       *)
PoseArm(upper, fore) ==
  LET chain == clip.arms[arm]
      elbow == Plus(rest[chain.shoulder],
                    Turn(upper, Minus(rest[chain.elbow], rest[chain.shoulder])))
      wrist == Plus(elbow, Turn(fore, Minus(rest[chain.wrist], rest[chain.elbow])))
      hand == Below(chain.wrist)
  IN /\ phase = "arms" /\ arm <= Len(clip.arms)
     /\ rest' = [j \in Joints |->
          IF j = chain.elbow THEN elbow
          ELSE IF j = chain.wrist THEN wrist
          ELSE IF j \in hand THEN Plus(wrist, Turn(fore, Minus(rest[j], rest[chain.wrist])))
          ELSE rest[j]]
     /\ corrections' = WithArm(chain, upper, fore)
     /\ arm' = arm + 1
     /\ UNCHANGED <<clip, phase, at, local, roots, bakeVars, adopted, articulated, playVars>>

ArmsPosed ==
  /\ phase = "arms" /\ arm > Len(clip.arms)
  /\ phase' = "transfer"
  /\ UNCHANGED <<clip, at, outVars, bakeVars, adopted, armVars, playVars>>

(* Fault: the rest of the parent is turned, the joint's own is not undone. *)
TransferredHalf(j, q) == IF Parent(j) = 0 THEN q ELSE Compose(corrections[Parent(j)], q)

(* A local rotation in the new frame of rest.                              *)
Transferred(j, q) ==
  Compose(IF Parent(j) = 0 THEN q ELSE Compose(corrections[Parent(j)], q),
          Inverse(corrections[j]))

Transfer ==
  /\ phase = "transfer"
  /\ local' = [local EXCEPT ![at] = [f \in Frames |-> Transferred(at, local[at][f])]]
  /\ Advance("roots")
  /\ UNCHANGED <<clip, rest, roots, bakeVars, adopted, armVars, playVars>>

(* The way of the root, scaled, from where it now rests.                   *)
MoveRoots ==
  /\ phase = "roots"
  /\ roots' = [f \in Frames |-> Plus(rest[1], Scaled(Minus(roots[f], roots[0])))]
  /\ phase' = "play"
  /\ UNCHANGED <<clip, at, rest, local, bakeVars, adopted, armVars, playVars>>

(* Forward kinematics, of what was given and of what came out.             *)
Play ==
  /\ phase = "play"
  /\ clipPose' = [clipPose EXCEPT ![at] = AlongTrack(clipPose, at, clip.local[at])]
  /\ fitPose' = [fitPose EXCEPT ![at] = AlongTrack(fitPose, at, local[at])]
  /\ Advance("done")
  /\ UNCHANGED <<clip, outVars, bakeVars, adopted, armVars>>

Next ==
  \/ Degenerate
  \/ \E mode \in {"global", "articulated"} : Choose(mode)
  \/ Bind \/ Rebase
  \/ Adopt \/ Keep
  \/ \E offset \in Offsets : Place(offset)
  \/ KeepArm
  \/ \E upper, fore \in ArmTurns : PoseArm(upper, fore)
  \/ ArmsPosed \/ Transfer
  \/ MoveRoots
  \/ Play

Spec == Init /\ [][Next]_vars
-----------------------------------------------------------------------------
(* Arms as the code takes them to be: nothing but the elbow hangs from the *)
(* shoulder, nothing but the wrist from the elbow. A joint beside these,   *)
(* one for the twist of a forearm say, stays where it was while its parent *)
(* moves away, so for it neither claim below holds, nor "every mode        *)
(* preserves the globally scaled length of every bone"                     *)
(* (skintokens.hpp:299).                                                   *)
Chained(j) ==
  \A k \in DOMAIN clip.arms :
    /\ Parent(j) = clip.arms[k].shoulder <=> j = clip.arms[k].elbow
    /\ Parent(j) = clip.arms[k].elbow <=> j = clip.arms[k].wrist

Bone(pose, position, j, f) ==
  Turn(pose[Parent(j)][f], Minus(position[j], position[Parent(j)]))

(* "The clip replays unchanged" (model.cpp:239): in every frame each bone  *)
(* of the fitted clip lies as in the clip given, scaled, whatever became   *)
(* of the rest pose; and the root goes the same way, scaled.               *)
ClipReplays ==
  phase = "done" =>
    /\ \A j \in Joints, f \in Frames :
         Parent(j) # 0 /\ Chained(j) =>
           Bone(fitPose, rest, j, f) = Scaled(Bone(clipPose, clip.rest, j, f))
    /\ \A f \in Frames :
         Minus(roots[f], roots[0]) = Scaled(Minus(clip.roots[f], clip.roots[0]))

(* "Adopting the first frame makes the bind pose and frame zero identical" *)
(* (skintokens.hpp:297), if no arm is posed after it.                      *)
FrameZeroIsBind ==
  phase = "done" /\ adopted /\ corrections = AllIdentity =>
    /\ roots[0] = rest[1]
    /\ \A j \in Joints : fitPose[j][0] = Identity
-----------------------------------------------------------------------------
(* Why: each rewriting of the rest pose turns the bones below a joint by a *)
(* rotation that its track and those of its children make up for.          *)
Early == {"start", "bind", "rebase", "choose", "error"}
Late == {"roots", "play", "done"}

TypeOK ==
  /\ ClipAccepted /\ ArmsApart
  /\ phase \in Early \cup {"place", "arms", "transfer"} \cup Late
  /\ at \in Joints /\ arm \in Nat \ {0}
  /\ articulated \in BOOLEAN /\ adopted \in BOOLEAN
  /\ rest \in [Joints -> Vectors] /\ bakedRest \in [Joints -> Vectors]
  /\ roots \in [Frames -> Vectors]
  /\ bind \in [Joints -> Rotations] /\ corrections \in [Joints -> Rotations]
  /\ local \in [Joints -> [Frames -> Rotations]] /\ bakedLocal \in [Joints -> [Frames -> Rotations]]
  /\ posed \in [Joints -> [Frames -> Rotations]] /\ delta \in [Joints -> [Frames -> Rotations]]
  /\ clipPose \in [Joints -> [Frames -> Rotations]] /\ fitPose \in [Joints -> [Frames -> Rotations]]

Offset(j) == Minus(clip.rest[j], clip.rest[Parent(j)])

(* What the bones below each joint were turned by: by the exchange of the  *)
(* rest pose, and in all.                                                  *)
Base == [j \in Joints |-> IF adopted THEN bind[j] ELSE Identity]
Turned == [j \in Joints |-> Compose(corrections[j], Base[j])]

(* A track that makes up for these turns.                                  *)
Carried(turns, j, q) ==
  Compose(IF Parent(j) = 0 THEN q ELSE Compose(turns[Parent(j)], q), Inverse(turns[j]))

Order ==
  /\ phase \in Early \cup {"place"} => arm = 1
  /\ phase \in Early => rest = clip.rest /\ local = clip.local /\ ~adopted
  /\ phase \in {"start", "error"} => ~articulated
  /\ phase \in {"bind", "rebase", "choose", "arms", "transfer"} => articulated
  /\ ~articulated => ~adopted /\ arm = 1
  /\ phase \notin {"bind", "rebase", "transfer", "play"} => at = 1
  /\ phase \notin {"play", "done"} => roots = clip.roots

Bound ==
  \A j \in Joints : articulated /\ (phase = "bind" => j < at) =>
    /\ bind[j] = Along(bind, j, clip.local[j][0])
    /\ Parent(j) # 0 =>
         Minus(bakedRest[j], bakedRest[Parent(j)]) = Turn(bind[Parent(j)], Offset(j))

Rebased ==
  \A j \in Joints : articulated /\ phase # "bind" /\ (phase = "rebase" => j < at) =>
    \A f \in Frames :
      /\ delta[j][f] = Compose(posed[j][f], Inverse(bind[j]))
      /\ bakedLocal[j][f] = Carried(bind, j, clip.local[j][f])

ArmsLeft ==
  \A j \in Joints :
    (\A k \in DOMAIN clip.arms : k < arm => j \notin Moved(clip.arms[k])) => corrections[j] = Identity

BonesKept ==
  \A j \in Joints : Parent(j) # 0 =>
    /\ phase = "place" =>
         Minus(rest[j], rest[Parent(j)]) = Turn(Base[Parent(j)], Offset(j))
    /\ phase \in {"arms", "transfer"} \cup Late /\ Chained(j) =>
         Minus(rest[j], rest[Parent(j)]) = Turn(Turned[Parent(j)], Scaled(Offset(j)))

TracksKept ==
  \A j \in Joints, f \in Frames :
    /\ phase \in {"place", "arms"} \/ (phase = "transfer" /\ j >= at) =>
         local[j][f] = Carried(Base, j, clip.local[j][f])
    /\ phase \in Late \/ (phase = "transfer" /\ j < at) =>
         local[j][f] = Carried(Turned, j, clip.local[j][f])

RootsKept ==
  phase \in {"play", "done"} =>
    /\ roots[0] = rest[1]
    /\ \A f \in Frames : Minus(roots[f], roots[0]) = Scaled(Minus(clip.roots[f], clip.roots[0]))

Played ==
  \A j \in Joints : phase = "done" \/ (phase = "play" /\ j < at) =>
    /\ \A f \in Frames : fitPose[j][f] = Compose(clipPose[j][f], Inverse(Turned[j]))
    /\ adopted => clipPose[j][0] = bind[j]

(* The inductive invariant.                                                *)
IInv ==
  /\ TypeOK /\ Order
  /\ Bound /\ Rebased /\ ArmsLeft
  /\ BonesKept /\ TracksKept /\ RootsKept /\ Played
=============================================================================
