--------------------------- MODULE MotionFitProofs ---------------------------
(* Proofs that a fitted clip replays the clip given: for any rotations and *)
(* vectors that obey the laws of MotionFit, any hierarchy, any arms lying  *)
(* apart in it, and any number of frames.                                  *)
EXTENDS MotionFit, TLAPS

(* Rotations, the laws one at a time.                                      *)
LEMMA Closed ==
  ASSUME NEW p \in Rotations, NEW q \in Rotations
  PROVE  Compose(p, q) \in Rotations /\ Inverse(p) \in Rotations /\ Identity \in Rotations
BY RotationLaws

LEMMA Assoc ==
  ASSUME NEW p \in Rotations, NEW q \in Rotations, NEW r \in Rotations
  PROVE  Compose(Compose(p, q), r) = Compose(p, Compose(q, r))
BY RotationLaws

LEMMA Unit ==
  ASSUME NEW p \in Rotations
  PROVE  /\ Compose(p, Identity) = p /\ Compose(Identity, p) = p
         /\ Compose(p, Inverse(p)) = Identity /\ Compose(Inverse(p), p) = Identity
BY RotationLaws

LEMMA Cancel ==
  ASSUME NEW p \in Rotations, NEW q \in Rotations
  PROVE  /\ Compose(Inverse(p), Compose(p, q)) = q
         /\ Compose(p, Compose(Inverse(p), q)) = q
         /\ Compose(Compose(q, Inverse(p)), p) = q
<1>1. Inverse(p) \in Rotations
  BY Closed
<1>2. Compose(Inverse(p), Compose(p, q)) = Compose(Identity, q)
  BY <1>1, Assoc, Unit
<1>3. Compose(p, Compose(Inverse(p), q)) = Compose(Identity, q)
  BY <1>1, Assoc, Unit
<1>4. Compose(Compose(q, Inverse(p)), p) = Compose(q, Identity)
  BY <1>1, Assoc, Unit
<1> QED
  BY <1>2, <1>3, <1>4, Unit

LEMMA InverseOfComposed ==
  ASSUME NEW p \in Rotations, NEW q \in Rotations
  PROVE  Inverse(Compose(p, q)) = Compose(Inverse(q), Inverse(p))
<1> DEFINE pq == Compose(p, q)
           back == Compose(Inverse(q), Inverse(p))
<1>1. /\ pq \in Rotations /\ Inverse(p) \in Rotations /\ Inverse(q) \in Rotations
      /\ back \in Rotations /\ Inverse(pq) \in Rotations
  BY Closed
<1>2. Compose(back, pq) = Compose(Inverse(q), Compose(Inverse(p), pq))
  BY <1>1, Assoc
<1>3. Compose(Inverse(p), pq) = q
  BY Cancel
<1>4. Compose(back, pq) = Identity
  BY <1>2, <1>3, Unit
<1>5. Compose(Compose(back, pq), Inverse(pq)) = Compose(back, Compose(pq, Inverse(pq)))
  BY <1>1, Assoc
<1>6. Compose(pq, Inverse(pq)) = Identity
  BY <1>1, Unit
<1>7. Compose(Identity, Inverse(pq)) = Inverse(pq) /\ Compose(back, Identity) = back
  BY <1>1, Unit
<1> QED
  BY <1>4, <1>5, <1>6, <1>7

LEMMA InverseOfIdentity == Inverse(Identity) = Identity
<1>1. Identity \in Rotations /\ Inverse(Identity) \in Rotations
  BY RotationLaws
<1> QED
  BY <1>1, Unit

(* Frame zero: what the parent turned drops out of the rebased track.      *)
LEMMA RebasedTrack ==
  ASSUME NEW g \in Rotations, NEW b \in Rotations, NEW q \in Rotations, NEW c \in Rotations
  PROVE  Compose(Inverse(Compose(g, Inverse(b))), Compose(Compose(g, q), Inverse(c))) =
           Compose(Compose(b, q), Inverse(c))
<1>1. /\ Inverse(b) \in Rotations /\ Inverse(g) \in Rotations /\ Inverse(c) \in Rotations
      /\ Compose(g, q) \in Rotations /\ Compose(q, Inverse(c)) \in Rotations
  BY Closed
<1> DEFINE u == Compose(q, Inverse(c))
<1>2. Inverse(Compose(g, Inverse(b))) = Compose(Inverse(Inverse(b)), Inverse(g))
  BY <1>1, InverseOfComposed
<1>3. Inverse(Inverse(b)) = b
  <2>1. Inverse(Inverse(b)) \in Rotations
    BY <1>1, Closed
  <2>2. Compose(b, Compose(Inverse(b), Inverse(Inverse(b)))) = Inverse(Inverse(b))
    BY <2>1, Cancel
  <2>3. Compose(Inverse(b), Inverse(Inverse(b))) = Identity
    BY <1>1, Unit
  <2> QED
    BY <2>2, <2>3, Unit
<1>4. Compose(Compose(g, q), Inverse(c)) = Compose(g, u)
  BY <1>1, Assoc
<1>5. Compose(g, u) \in Rotations /\ u \in Rotations
  BY <1>1, Closed
<1>6. Compose(Compose(b, Inverse(g)), Compose(g, u)) =
        Compose(b, Compose(Inverse(g), Compose(g, u)))
  BY <1>1, <1>5, Assoc
<1>7. Compose(Inverse(g), Compose(g, u)) = u
  BY <1>5, Cancel
<1>8. Compose(b, u) = Compose(Compose(b, q), Inverse(c))
  BY <1>1, Assoc
<1> QED
  BY <1>2, <1>3, <1>4, <1>6, <1>7, <1>8

(* Two corrections of a track, one after the other, are one.               *)
LEMMA CarriedTwice ==
  ASSUME NEW a \in Rotations, NEW d \in Rotations, NEW q \in Rotations,
         NEW e \in Rotations, NEW b \in Rotations
  PROVE  /\ Compose(Compose(a, Compose(Compose(d, q), Inverse(e))), Inverse(b)) =
              Compose(Compose(Compose(a, d), q), Inverse(Compose(b, e)))
         /\ Compose(Compose(q, Inverse(e)), Inverse(b)) = Compose(q, Inverse(Compose(b, e)))
<1>1. /\ Inverse(e) \in Rotations /\ Inverse(b) \in Rotations
      /\ Compose(d, q) \in Rotations /\ Compose(a, d) \in Rotations
      /\ Inverse(Compose(b, e)) = Compose(Inverse(e), Inverse(b))
  BY Closed, InverseOfComposed
<1>2. ASSUME NEW r \in Rotations
      PROVE  Compose(Compose(r, Inverse(e)), Inverse(b)) = Compose(r, Inverse(Compose(b, e)))
  BY <1>1, Assoc
<1>3. Compose(a, Compose(Compose(d, q), Inverse(e))) =
        Compose(Compose(a, Compose(d, q)), Inverse(e))
  BY <1>1, Assoc
<1>4. Compose(a, Compose(d, q)) = Compose(Compose(a, d), q)
  BY Assoc
<1>5. Compose(a, Compose(d, q)) \in Rotations
  BY <1>1, Closed
<1> QED
  BY <1>2, <1>3, <1>4, <1>5

(* Forward kinematics over corrected tracks.                               *)
LEMMA CarriedPlays ==
  ASSUME NEW g \in Rotations, NEW k \in Rotations, NEW q \in Rotations, NEW c \in Rotations
  PROVE  Compose(Compose(g, Inverse(k)), Compose(Compose(k, q), Inverse(c))) =
           Compose(Compose(g, q), Inverse(c))
<1>1. /\ Inverse(k) \in Rotations /\ Inverse(c) \in Rotations
      /\ Compose(q, Inverse(c)) \in Rotations /\ Compose(k, q) \in Rotations
  BY Closed
<1> DEFINE u == Compose(q, Inverse(c))
<1>2. Compose(Compose(k, q), Inverse(c)) = Compose(k, u)
  BY <1>1, Assoc
<1>3. Compose(k, u) \in Rotations
  BY <1>1, Closed
<1>4. Compose(Compose(g, Inverse(k)), Compose(k, u)) =
        Compose(g, Compose(Inverse(k), Compose(k, u)))
  BY <1>1, <1>3, Assoc
<1>5. Compose(Inverse(k), Compose(k, u)) = u
  BY <1>1, Cancel
<1>6. Compose(g, u) = Compose(Compose(g, q), Inverse(c))
  BY <1>1, Assoc
<1> QED
  BY <1>2, <1>4, <1>5, <1>6
-----------------------------------------------------------------------------
(* Vectors, likewise.                                                      *)
LEMMA Added ==
  ASSUME NEW u \in Vectors, NEW v \in Vectors
  PROVE  Minus(Plus(u, v), u) = v /\ Plus(u, v) \in Vectors /\ Minus(u, v) \in Vectors
BY VectorLaws

LEMMA AddedToBoth ==
  ASSUME NEW u \in Vectors, NEW v \in Vectors, NEW w \in Vectors
  PROVE  /\ Minus(Plus(w, u), Plus(w, v)) = Minus(u, v)
         /\ Minus(Minus(u, w), Minus(v, w)) = Minus(u, v)
BY VectorLaws

LEMMA TurnedTyped ==
  ASSUME NEW p \in Rotations, NEW u \in Vectors
  PROVE  Turn(p, u) \in Vectors
BY TurnLaws
-----------------------------------------------------------------------------
(* Hierarchies.                                                            *)
LEMMA Hierarchy ==
  ASSUME ClipAccepted
  PROVE  /\ Len(clip.parents) \in Nat /\ Joints = 1 .. Len(clip.parents) /\ 1 \in Joints
         /\ \A j \in Joints : Parent(j) \in Nat /\ Parent(j) < j /\ j \in Nat
         /\ \A j \in Joints : Parent(j) # 0 => Parent(j) \in Joints
         /\ \A j \in Joints : Parent(j) = 0 <=> j = 1
<1>1. /\ Len(clip.parents) \in Nat /\ Joints = 1 .. Len(clip.parents)
      /\ \A j \in Joints : Parent(j) \in Nat
  BY DEF ClipAccepted, Joints, Parent
<1>2. Len(clip.parents) # 0
  BY DEF ClipAccepted
<1>3. \A j \in Joints : Parent(j) < j /\ (Parent(j) = 0 <=> j = 1)
  BY DEF ClipAccepted
<1> QED
  BY <1>1, <1>2, <1>3

LEMMA BelowIsRooted ==
  ASSUME ClipAccepted, NEW top \in Joints
  PROVE  /\ top \in Below(top) /\ Below(top) \subseteq Joints
         /\ \A i \in Joints : Parent(i) \in Below(top) => i \in Below(top)
         /\ \A i \in Below(top) : i # top => Parent(i) \in Below(top)
         /\ Parent(top) \notin Below(top)
<1>1. top \in Below(top) /\ Below(top) \subseteq Joints
  BY DEF Below
<1>2. ASSUME NEW i \in Joints, Parent(i) \in Below(top)
      PROVE  i \in Below(top)
  BY <1>2 DEF Below
<1>3. ASSUME NEW i \in Below(top), i # top, Parent(i) \notin Below(top)
      PROVE  FALSE
  <2> DEFINE S == Below(top) \ {i}
  <2>1. S \in SUBSET Joints /\ top \in S
    BY <1>1, <1>3
  <2>2. \A j \in Joints : Parent(j) \in S => j \in S
    BY <1>2, <1>3
  <2>3. i \in S
    BY <2>1, <2>2 DEF Below
  <2> QED
    BY <2>3
<1>4. Parent(top) \notin Below(top)
  <2> DEFINE S == {j \in Joints : j >= top}
  <2>1. S \in SUBSET Joints /\ top \in S
    BY Hierarchy
  <2>2. \A j \in Joints : Parent(j) \in S => j \in S
    BY Hierarchy
  <2>3. Below(top) \subseteq S
    BY <2>1, <2>2 DEF Below
  <2>4. Parent(top) \notin S
    BY Hierarchy
  <2> QED
    BY <2>3, <2>4
<1> QED
  BY <1>1, <1>2, <1>3, <1>4
-----------------------------------------------------------------------------
USE DEF Early, Late

LEMMA TurnsTyped ==
  ASSUME TypeOK
  PROVE  Base \in [Joints -> Rotations] /\ Turned \in [Joints -> Rotations]
<1>1. Base \in [Joints -> Rotations]
  BY RotationLaws DEF TypeOK, Base
<1>2. ASSUME NEW j \in Joints
      PROVE  Compose(corrections[j], Base[j]) \in Rotations
  BY <1>1, Closed DEF TypeOK
<1> QED
  BY <1>1, <1>2 DEF Turned

LEMMA ClipKept ==
  ASSUME TypeOK, clip' = clip
  PROVE  /\ ClipAccepted /\ ClipAccepted' /\ ArmsApart' /\ Joints' = Joints
         /\ \A k \in DOMAIN clip.arms : clip.arms[k] \in [shoulder : Joints, elbow : Joints, wrist : Joints]
<1>1. Joints' = Joints
  BY DEF Joints
<1>2. ClipAccepted /\ ArmsApart
  BY DEF TypeOK
<1>3. ClipAccepted'
  BY <1>2 DEF ClipAccepted, Joints, Parent
<1>4. ArmsApart'
  <2>1. ASSUME NEW top
        PROVE  Below(top)' = Below(top)
    BY <1>1 DEF Below, Parent
  <2>2. ASSUME NEW chain
        PROVE  Moved(chain)' = Moved(chain)
    BY <2>1 DEF Moved
  <2> QED
    BY <1>2, <2>1, <2>2 DEF ArmsApart
<1>5. \A k \in DOMAIN clip.arms : clip.arms[k] \in [shoulder : Joints, elbow : Joints, wrist : Joints]
  <2> DEFINE chains == [shoulder : Joints, elbow : Joints, wrist : Joints]
  <2>1. clip.arms \in Seq(chains)
    BY <1>2 DEF ClipAccepted
  <2> HIDE DEF chains
  <2>2. \A k \in DOMAIN clip.arms : clip.arms[k] \in chains
    BY <2>1
  <2> QED
    BY <2>2 DEF chains
<1> QED
  BY <1>1, <1>2, <1>3, <1>4, <1>5

LEMMA ChainsCounted ==
  ASSUME ClipAccepted
  PROVE  DOMAIN clip.arms = 1 .. Len(clip.arms) /\ Len(clip.arms) \in Nat /\ DOMAIN clip.arms \subseteq Nat
<1> DEFINE chains == [shoulder : Joints, elbow : Joints, wrist : Joints]
<1>1. clip.arms \in Seq(chains)
  BY DEF ClipAccepted
<1> HIDE DEF chains
<1> QED
  BY <1>1

(* Without any turn a track is carried over as it is.                      *)
LEMMA CarriedUnturned ==
  ASSUME ClipAccepted, NEW turns, \A j \in Joints : turns[j] = Identity,
         NEW j \in Joints, NEW q \in Rotations
  PROVE  Carried(turns, j, q) = q
<1>1. Parent(j) # 0 => Compose(turns[Parent(j)], q) = q
  BY Hierarchy, Unit
<1>2. turns[j] = Identity
  OBVIOUS
<1>3. Carried(turns, j, q) = Compose(q, Identity)
  BY <1>1, <1>2, InverseOfIdentity DEF Carried
<1> QED
  BY <1>3, Unit

LEMMA OffsetTyped ==
  ASSUME ClipAccepted, NEW j \in Joints, Parent(j) # 0
  PROVE  Offset(j) \in Vectors
BY Hierarchy, VectorLaws DEF ClipAccepted, Offset

LEMMA InitInvariant == Init => IInv
<1> SUFFICES ASSUME Init
             PROVE  IInv
  OBVIOUS
<1>1. 1 \in Joints /\ 0 \in Frames /\ Identity \in Rotations
  BY Hierarchy, InputAssumption, RotationLaws DEF Init
<1>2. TypeOK
  <2>1. AllIdentity \in [Joints -> Rotations]
    BY <1>1 DEF AllIdentity
  <2>2. AllFramesIdentity \in [Joints -> [Frames -> Rotations]]
    BY <1>1 DEF AllFramesIdentity
  <2>3. /\ rest \in [Joints -> Vectors] /\ bakedRest \in [Joints -> Vectors]
        /\ roots \in [Frames -> Vectors]
        /\ local \in [Joints -> [Frames -> Rotations]] /\ bakedLocal \in [Joints -> [Frames -> Rotations]]
    BY DEF Init, ClipAccepted
  <2>4. ClipAccepted /\ ArmsApart /\ at \in Joints /\ arm \in Nat \ {0} /\ phase = "start"
        /\ ~articulated /\ ~adopted
    BY <1>1 DEF Init
  <2>5. /\ bind \in [Joints -> Rotations] /\ corrections \in [Joints -> Rotations]
        /\ posed \in [Joints -> [Frames -> Rotations]] /\ delta \in [Joints -> [Frames -> Rotations]]
        /\ clipPose \in [Joints -> [Frames -> Rotations]] /\ fitPose \in [Joints -> [Frames -> Rotations]]
    BY <2>1, <2>2 DEF Init
  <2> QED
    BY <2>3, <2>4, <2>5 DEF TypeOK, Init
<1>3. Order
  BY DEF Init, Order
<1>4. Bound /\ Rebased /\ BonesKept /\ TracksKept /\ RootsKept /\ Played
  BY DEF Init, Bound, Rebased, BonesKept, TracksKept, RootsKept, Played
<1>5. ArmsLeft
  BY DEF Init, ArmsLeft, AllIdentity
<1> QED
  BY <1>2, <1>3, <1>4, <1>5 DEF IInv

LEMMA DegenerateKeeps ==
  ASSUME IInv, Degenerate
  PROVE  IInv'
<1> USE DEF IInv, Degenerate, outVars, bakeVars, armVars, playVars
<1>1. TypeOK'
  BY ClipKept DEF TypeOK
<1>2. Order'
  BY DEF Order
<1>3. Bound' /\ Rebased' /\ BonesKept' /\ TracksKept' /\ RootsKept' /\ Played'
  BY DEF Order, Bound, Rebased, BonesKept, TracksKept, RootsKept, Played
<1>4. ArmsLeft'
  BY DEF ArmsLeft, Moved, Below, Joints, Parent
<1> QED
  BY <1>1, <1>2, <1>3, <1>4

(* Until a candidate is taken or left, all is as it was given.             *)
LEMMA AsGiven ==
  ASSUME IInv, phase \in Early
  PROVE  /\ \A j \in Joints : Parent(j) # 0 =>
              Minus(rest[j], rest[Parent(j)]) = Turn(Base[Parent(j)], Offset(j))
         /\ \A j \in Joints, f \in Frames : local[j][f] = Carried(Base, j, clip.local[j][f])
<1>1. ~adopted /\ rest = clip.rest /\ local = clip.local /\ ClipAccepted
  BY DEF IInv, Order, TypeOK
<1>2. \A j \in Joints : Base[j] = Identity
  BY <1>1 DEF Base
<1>3. ASSUME NEW j \in Joints, Parent(j) # 0
      PROVE  Minus(rest[j], rest[Parent(j)]) = Turn(Base[Parent(j)], Offset(j))
  <2>1. Turn(Identity, Offset(j)) = Offset(j)
    BY <1>1, <1>3, OffsetTyped, TurnLaws
  <2> QED
    BY <1>1, <1>2, <1>3, <2>1, Hierarchy DEF Offset
<1>4. ASSUME NEW j \in Joints, NEW f \in Frames
      PROVE  local[j][f] = Carried(Base, j, clip.local[j][f])
  <2>1. clip.local[j][f] \in Rotations
    BY <1>1 DEF ClipAccepted
  <2> QED
    BY <1>1, <1>2, <2>1, CarriedUnturned
<1> QED
  BY <1>3, <1>4

LEMMA ChooseKeeps ==
  ASSUME IInv, NEW mode \in {"global", "articulated"}, Choose(mode)
  PROVE  IInv'
<1> USE DEF IInv, Choose, outVars, bakeVars, playVars
<1>1. TypeOK'
  BY ClipKept DEF TypeOK
<1>2. Order'
  BY DEF Order
<1>3. Bound' /\ Rebased' /\ RootsKept' /\ Played'
  <2>1. \A j \in Joints : ~(j < at)
    BY Hierarchy DEF TypeOK, Order
  <2> QED
    BY <2>1 DEF Order, Bound, Rebased, RootsKept, Played, Joints
<1>4. ArmsLeft'
  BY DEF ArmsLeft, Moved, Below, Joints, Parent
<1>5. Base' = Base /\ phase' \in {"bind", "place"}
  BY DEF Base, Joints
<1>6. BonesKept' /\ TracksKept'
  BY <1>5, AsGiven DEF BonesKept, TracksKept, Joints, Parent, Offset, Carried
<1> QED
  BY <1>1, <1>2, <1>3, <1>4, <1>6

-----------------------------------------------------------------------------
(* The clip based on its frame zero.                                       *)

LEMMA ArmsLeftKept ==
  ASSUME IInv, clip' = clip, corrections' = corrections, arm' = arm
  PROVE  ArmsLeft'
BY DEF IInv, ArmsLeft, Moved, Below, Joints, Parent

LEMMA AlongTyped ==
  ASSUME ClipAccepted, NEW j \in Joints
  PROVE  /\ \A globals \in [Joints -> Rotations], q \in Rotations :
              Along(globals, j, q) \in Rotations
         /\ \A globals \in [Joints -> [Frames -> Rotations]], track \in [Frames -> Rotations] :
              AlongTrack(globals, j, track) \in [Frames -> Rotations]
<1>1. Parent(j) # 0 => Parent(j) \in Joints
  BY Hierarchy
<1>2. ASSUME NEW globals \in [Joints -> Rotations], NEW q \in Rotations
      PROVE  Along(globals, j, q) \in Rotations
  BY <1>1, Closed DEF Along
<1>3. ASSUME NEW globals \in [Joints -> [Frames -> Rotations]], NEW track \in [Frames -> Rotations]
      PROVE  AlongTrack(globals, j, track) \in [Frames -> Rotations]
  <2> SUFFICES ASSUME NEW f \in Frames
               PROVE  (IF Parent(j) = 0 THEN track[f]
                       ELSE Compose(globals[Parent(j)][f], track[f])) \in Rotations
    BY DEF AlongTrack
  <2> QED
    BY <1>1, Closed
<1> QED
  BY <1>2, <1>3

LEMMA BindKeeps ==
  ASSUME IInv, Bind
  PROVE  IInv'
<1> DEFINE p == Parent(at)
<1>1. /\ clip' = clip /\ rest' = rest /\ local' = local /\ roots' = roots
      /\ posed' = posed /\ delta' = delta /\ bakedLocal' = bakedLocal /\ adopted' = adopted
      /\ articulated' = articulated /\ corrections' = corrections /\ arm' = arm
      /\ clipPose' = clipPose /\ fitPose' = fitPose /\ phase = "bind"
      /\ phase' \in {"bind", "rebase"}
      /\ phase' = "bind" => at < Len(clip.parents) /\ at' = at + 1
      /\ phase' = "rebase" => ~(at < Len(clip.parents)) /\ at' = 1
  BY DEF Bind, Advance, outVars, armVars, playVars
<1>2. /\ ClipAccepted /\ Joints' = Joints /\ Joints = 1 .. Len(clip.parents) /\ 1 \in Joints
      /\ Len(clip.parents) \in Nat /\ at \in Joints
      /\ \A j \in Joints : /\ Parent(j) < j /\ Parent(j) \in Nat
                           /\ Parent(j) # 0 => Parent(j) \in Joints
  BY <1>1, ClipKept, Hierarchy DEF IInv, TypeOK
<1>3. at' \in Joints
  BY <1>1, <1>2
<1>4. clip.local[at][0] \in Rotations
  BY <1>2, InputAssumption DEF ClipAccepted
<1>5. Along(bind, at, clip.local[at][0]) \in Rotations
  BY <1>2, <1>4, AlongTyped DEF IInv, TypeOK
<1> DEFINE moved == IF p = 0 THEN clip.roots[0]
                    ELSE Plus(bakedRest[p], Turn(bind[p], Minus(clip.rest[at], clip.rest[p])))
<1>6. p # 0 => Offset(at) \in Vectors /\ Turn(bind[p], Offset(at)) \in Vectors
  <2> SUFFICES ASSUME p # 0
               PROVE  Offset(at) \in Vectors /\ Turn(bind[p], Offset(at)) \in Vectors
    OBVIOUS
  <2>1. Offset(at) \in Vectors
    BY <1>2, OffsetTyped
  <2>2. bind[p] \in Rotations
    BY <1>2 DEF IInv, TypeOK
  <2> QED
    BY <2>1, <2>2, TurnLaws
<1>7. moved \in Vectors
  <2>1. CASE p = 0
    BY <1>2, <2>1, InputAssumption DEF ClipAccepted
  <2>2. CASE p # 0
    BY <1>2, <1>6, <2>2, VectorLaws DEF IInv, TypeOK, Offset
  <2> QED
    BY <2>1, <2>2
<1>8. /\ bind' = [bind EXCEPT ![at] = Along(bind, at, clip.local[at][0])]
      /\ bakedRest' = [bakedRest EXCEPT ![at] = moved]
  BY DEF Bind
<1>9. TypeOK'
  <2>1. ClipAccepted' /\ ArmsApart'
    BY <1>1, ClipKept DEF IInv
  <2>2. bind' \in [Joints -> Rotations] /\ bakedRest' \in [Joints -> Vectors]
    BY <1>2, <1>5, <1>7, <1>8 DEF IInv, TypeOK
  <2> QED
    BY <1>1, <1>2, <1>3, <2>1, <2>2 DEF IInv, TypeOK
<1>10. Order'
  BY <1>1 DEF IInv, Order
<1>11. Bound'
  <2> SUFFICES ASSUME NEW j \in Joints, phase' = "bind" => j < at'
               PROVE  /\ bind'[j] = Along(bind', j, clip.local[j][0])
                      /\ Parent(j) # 0 =>
                           Minus(bakedRest'[j], bakedRest'[Parent(j)]) = Turn(bind'[Parent(j)], Offset(j))
    BY <1>1, <1>2 DEF Bound, Along, Parent, Offset
  <2>1. j <= at
    BY <1>1, <1>2
  <2>2. Parent(j) # at /\ (Parent(j) # 0 => bind'[Parent(j)] = bind[Parent(j)]
                                           /\ bakedRest'[Parent(j)] = bakedRest[Parent(j)])
    BY <1>2, <1>8, <2>1 DEF IInv, TypeOK
  <2>3. Along(bind', j, clip.local[j][0]) = Along(bind, j, clip.local[j][0])
    BY <2>2 DEF Along
  <2>4. CASE j = at
    <3>1. bind'[j] = Along(bind, j, clip.local[j][0]) /\ bakedRest'[j] = moved
      BY <1>2, <1>8, <2>4 DEF IInv, TypeOK
    <3>2. ASSUME p # 0
          PROVE  Minus(moved, bakedRest[p]) = Turn(bind[p], Offset(at))
      <4>1. bakedRest[p] \in Vectors
        BY <1>2, <3>2 DEF IInv, TypeOK
      <4>2. moved = Plus(bakedRest[p], Turn(bind[p], Offset(at)))
        BY <3>2 DEF Offset
      <4>3. Turn(bind[p], Offset(at)) \in Vectors
        BY <1>6, <3>2
      <4> HIDE DEF moved
      <4> QED
        BY <4>1, <4>2, <4>3, Added
    <3> QED
      BY <2>2, <2>3, <2>4, <3>1, <3>2
  <2>5. CASE j # at
    <3>1. bind'[j] = bind[j] /\ bakedRest'[j] = bakedRest[j]
      BY <1>2, <1>8, <2>5 DEF IInv, TypeOK
    <3>2. /\ bind[j] = Along(bind, j, clip.local[j][0])
          /\ Parent(j) # 0 =>
               Minus(bakedRest[j], bakedRest[Parent(j)]) = Turn(bind[Parent(j)], Offset(j))
      BY <1>1, <1>2, <2>1, <2>5 DEF IInv, Bound, Order
    <3> QED
      BY <2>2, <2>3, <3>1, <3>2
  <2> QED
    BY <2>4, <2>5
<1>12. Rebased'
  BY <1>1, <1>2 DEF Rebased
<1>13. ArmsLeft'
  BY <1>1, ArmsLeftKept
<1>14. BonesKept' /\ TracksKept' /\ RootsKept' /\ Played'
  BY <1>1 DEF BonesKept, TracksKept, RootsKept, Played
<1> QED
  BY <1>9, <1>10, <1>11, <1>12, <1>13, <1>14 DEF IInv

LEMMA RebaseKeeps ==
  ASSUME IInv, Rebase
  PROVE  IInv'
<1> DEFINE p == Parent(at)
           pose == AlongTrack(posed, at, clip.local[at])
           turned == [f \in Frames |-> Compose(pose[f], Inverse(bind[at]))]
           since == SinceFrameZero(at, turned)
<1>1. /\ clip' = clip /\ rest' = rest /\ local' = local /\ roots' = roots
      /\ bind' = bind /\ bakedRest' = bakedRest /\ adopted' = adopted
      /\ articulated' = articulated /\ corrections' = corrections /\ arm' = arm
      /\ clipPose' = clipPose /\ fitPose' = fitPose /\ phase = "rebase"
      /\ phase' \in {"rebase", "choose"}
      /\ phase' = "rebase" => at < Len(clip.parents) /\ at' = at + 1
      /\ phase' = "choose" => ~(at < Len(clip.parents)) /\ at' = 1
  BY DEF Rebase, Advance, outVars, armVars, playVars
<1>2. /\ ClipAccepted /\ Joints' = Joints /\ Joints = 1 .. Len(clip.parents) /\ 1 \in Joints
      /\ Len(clip.parents) \in Nat /\ at \in Joints
      /\ \A j \in Joints : /\ Parent(j) < j /\ Parent(j) \in Nat
                           /\ Parent(j) # 0 => Parent(j) \in Joints
  BY <1>1, ClipKept, Hierarchy DEF IInv, TypeOK
<1>3. at' \in Joints
  BY <1>1, <1>2
<1>4. clip.local[at] \in [Frames -> Rotations] /\ bind[at] \in Rotations
  BY <1>2 DEF ClipAccepted, IInv, TypeOK
<1>5. pose \in [Frames -> Rotations]
  BY <1>2, <1>4, AlongTyped DEF IInv, TypeOK
<1>6. turned \in [Frames -> Rotations]
  BY <1>4, <1>5, Closed
<1>7. since \in [Frames -> Rotations]
  <2>1. CASE p = 0
    BY <1>6, <2>1 DEF SinceFrameZero
  <2>2. CASE p # 0
    <3>1. ASSUME NEW f \in Frames
          PROVE  Compose(Inverse(delta[p][f]), turned[f]) \in Rotations
      <4>1. delta[p][f] \in Rotations /\ turned[f] \in Rotations
        BY <1>2, <1>6, <2>2 DEF IInv, TypeOK
      <4> QED
        BY <4>1, Closed
    <3> QED
      BY <2>2, <3>1 DEF SinceFrameZero
  <2> QED
    BY <2>1, <2>2
<1>8. /\ posed' = [posed EXCEPT ![at] = pose]
      /\ delta' = [delta EXCEPT ![at] = turned]
      /\ bakedLocal' = [bakedLocal EXCEPT ![at] = since]
  BY DEF Rebase
<1>9. ASSUME NEW f \in Frames
      PROVE  since[f] = Carried(bind, at, clip.local[at][f])
  <2> DEFINE q == clip.local[at][f]
  <2>1. turned[f] = Compose(pose[f], Inverse(bind[at])) /\ q \in Rotations
    BY <1>4
  <2>2. CASE p = 0
    BY <2>1, <2>2 DEF SinceFrameZero, AlongTrack, Carried
  <2>3. CASE p # 0
    <3>1. since[f] = Compose(Inverse(delta[p][f]), turned[f])
      BY <2>3 DEF SinceFrameZero
    <3>2. pose[f] = Compose(posed[p][f], q)
      BY <2>3 DEF AlongTrack
    <3>3. delta[p][f] = Compose(posed[p][f], Inverse(bind[p]))
      BY <1>1, <1>2, <2>3 DEF IInv, Rebased, Order
    <3>4. posed[p][f] \in Rotations /\ bind[p] \in Rotations
      BY <1>2, <2>3 DEF IInv, TypeOK
    <3>5. Carried(bind, at, q) = Compose(Compose(bind[p], q), Inverse(bind[at]))
      BY <2>3 DEF Carried
    <3> HIDE DEF p, pose, turned, since
    <3> QED
      BY <1>4, <2>1, <3>1, <3>2, <3>3, <3>4, <3>5, RebasedTrack
  <2> QED
    BY <2>2, <2>3
<1> HIDE DEF pose, since
<1>10. TypeOK'
  <2>1. ClipAccepted' /\ ArmsApart'
    BY <1>1, ClipKept DEF IInv
  <2>2. /\ posed' \in [Joints -> [Frames -> Rotations]] /\ delta' \in [Joints -> [Frames -> Rotations]]
        /\ bakedLocal' \in [Joints -> [Frames -> Rotations]]
    <3> HIDE DEF turned
    <3> QED
      BY <1>2, <1>5, <1>6, <1>7, <1>8 DEF IInv, TypeOK
  <2> QED
    BY <1>1, <1>2, <1>3, <2>1, <2>2 DEF IInv, TypeOK
<1>11. Order'
  BY <1>1 DEF IInv, Order
<1>12. Bound'
  BY <1>1, <1>2 DEF IInv, Bound, Along, Parent, Offset
<1>13. Rebased'
  <2> SUFFICES ASSUME NEW j \in Joints, phase' = "rebase" => j < at', NEW f \in Frames
               PROVE  /\ delta'[j][f] = Compose(posed'[j][f], Inverse(bind[j]))
                      /\ bakedLocal'[j][f] = Carried(bind, j, clip.local[j][f])
    BY <1>1, <1>2 DEF Rebased, Carried, Parent
  <2>1. j <= at
    BY <1>1, <1>2
  <2>2. CASE j = at
    <3>1. delta'[j] = turned /\ posed'[j] = pose /\ bakedLocal'[j] = since
      BY <1>2, <1>8, <2>2 DEF IInv, TypeOK
    <3> QED
      BY <1>9, <2>2, <3>1
  <2>3. CASE j # at
    <3>1. delta'[j] = delta[j] /\ posed'[j] = posed[j] /\ bakedLocal'[j] = bakedLocal[j]
      BY <1>2, <1>8, <2>3 DEF IInv, TypeOK
    <3>2. /\ delta[j][f] = Compose(posed[j][f], Inverse(bind[j]))
          /\ bakedLocal[j][f] = Carried(bind, j, clip.local[j][f])
      BY <1>1, <1>2, <2>1, <2>3 DEF IInv, Rebased, Order
    <3> QED
      BY <3>1, <3>2
  <2> QED
    BY <2>2, <2>3
<1>14. ArmsLeft'
  BY <1>1, ArmsLeftKept
<1>15. BonesKept' /\ TracksKept' /\ RootsKept' /\ Played'
  BY <1>1 DEF BonesKept, TracksKept, RootsKept, Played
<1> QED
  BY <1>10, <1>11, <1>12, <1>13, <1>14, <1>15 DEF IInv

(* The candidate has the bones and tracks that bind asks for.              *)
LEMMA AdoptKeeps ==
  ASSUME IInv, Adopt
  PROVE  IInv'
<1>1. /\ clip' = clip /\ at' = at /\ rest' = bakedRest /\ local' = bakedLocal /\ roots' = roots
      /\ bind' = bind /\ posed' = posed /\ delta' = delta
      /\ bakedRest' = bakedRest /\ bakedLocal' = bakedLocal /\ adopted'
      /\ articulated' = articulated /\ corrections' = corrections /\ arm' = arm
      /\ clipPose' = clipPose /\ fitPose' = fitPose
      /\ phase = "choose" /\ phase' = "place" /\ adopted' = TRUE
  BY DEF Adopt, bakeVars, armVars, playVars
<1>2. /\ ClipAccepted /\ Joints' = Joints
      /\ \A j \in Joints : Parent(j) # 0 => Parent(j) \in Joints
      /\ articulated
  BY <1>1, ClipKept, Hierarchy DEF IInv, TypeOK, Order
<1>3. TypeOK'
  BY <1>1, <1>2, ClipKept DEF IInv, TypeOK
<1>4. Order'
  BY <1>1 DEF IInv, Order
<1>5. Bound'
  BY <1>1, <1>2 DEF IInv, Bound, Along, Parent, Offset
<1>6. Rebased'
  BY <1>1, <1>2 DEF IInv, Rebased, Carried, Parent
<1>7. ArmsLeft'
  BY <1>1, ArmsLeftKept
<1>8. \A j \in Joints : Base'[j] = bind[j]
  BY <1>1, <1>2 DEF Base
<1>9. BonesKept'
  <2> SUFFICES ASSUME NEW j \in Joints, Parent(j) # 0
               PROVE  Minus(bakedRest[j], bakedRest[Parent(j)]) = Turn(bind[Parent(j)], Offset(j))
    BY <1>1, <1>2, <1>8 DEF BonesKept, Parent, Offset
  <2> QED
    BY <1>1, <1>2 DEF IInv, Bound
<1>10. TracksKept'
  <2> SUFFICES ASSUME NEW j \in Joints, NEW f \in Frames
               PROVE  bakedLocal[j][f] = Carried(Base', j, clip.local[j][f])
    BY <1>1, <1>2 DEF TracksKept, Parent, Carried
  <2>1. bakedLocal[j][f] = Carried(bind, j, clip.local[j][f])
    BY <1>1, <1>2 DEF IInv, Rebased
  <2> QED
    BY <1>2, <1>8, <2>1 DEF Carried
<1>11. RootsKept' /\ Played'
  BY <1>1 DEF RootsKept, Played
<1> QED
  BY <1>3, <1>4, <1>5, <1>6, <1>7, <1>9, <1>10, <1>11 DEF IInv

LEMMA KeepKeeps ==
  ASSUME IInv, Keep
  PROVE  IInv'
<1> USE DEF IInv, Keep, outVars, bakeVars, armVars, playVars
<1>1. TypeOK'
  BY ClipKept DEF TypeOK
<1>2. Order'
  BY DEF Order
<1>3. Bound' /\ Rebased' /\ RootsKept' /\ Played'
  BY DEF Order, Bound, Rebased, RootsKept, Played, Joints, Parent, Along, Offset, Carried
<1>4. ArmsLeft'
  BY DEF ArmsLeft, Moved, Below, Joints, Parent
<1>5. Base' = Base
  BY DEF Base, Joints
<1>6. BonesKept' /\ TracksKept'
  BY <1>5, AsGiven DEF BonesKept, TracksKept, Joints, Parent, Offset, Carried
<1> QED
  BY <1>1, <1>2, <1>3, <1>4, <1>6
-----------------------------------------------------------------------------
(* The rest pose placed, and bent at the arms.                             *)
LEMMA PlaceKeeps ==
  ASSUME IInv, NEW offset \in Offsets, Place(offset)
  PROVE  IInv'
<1>1. /\ clip' = clip /\ at' = at /\ local' = local /\ roots' = roots
      /\ bind' = bind /\ posed' = posed /\ delta' = delta
      /\ bakedRest' = bakedRest /\ bakedLocal' = bakedLocal /\ adopted' = adopted
      /\ articulated' = articulated /\ corrections' = corrections /\ arm' = arm
      /\ clipPose' = clipPose /\ fitPose' = fitPose
      /\ phase = "place" /\ phase' = IF articulated THEN "arms" ELSE "roots"
      /\ rest' = [j \in Joints |-> Plus(offset, Scaled(rest[j]))]
  BY DEF Place, bakeVars, armVars, playVars
<1>2. /\ ClipAccepted /\ Joints' = Joints
      /\ \A j \in Joints : Parent(j) # 0 => Parent(j) \in Joints
      /\ arm = 1 /\ offset \in Vectors
  BY <1>1, ClipKept, Hierarchy, InputAssumption DEF IInv, TypeOK, Order
<1>3. TypeOK'
  <2>1. \A j \in Joints : Plus(offset, Scaled(rest[j])) \in Vectors
    BY <1>2, Added, ScaleLaws DEF IInv, TypeOK
  <2>2. rest' \in [Joints -> Vectors]
    BY <1>1, <2>1
  <2> QED
    BY <1>1, <1>2, <2>2, ClipKept DEF IInv, TypeOK
<1>4. Order'
  BY <1>1 DEF IInv, Order
<1>5. Bound'
  BY <1>1, <1>2 DEF IInv, Bound, Along, Parent, Offset
<1>6. Rebased'
  BY <1>1, <1>2 DEF IInv, Rebased, Carried, Parent
<1>7. ArmsLeft'
  BY <1>1, ArmsLeftKept
<1>8. /\ Base' = Base /\ Turned' = Turned
      /\ \A j \in Joints : Turned[j] = Base[j] /\ Base[j] \in Rotations
  <2>1. Base' = Base /\ Turned' = Turned
    BY <1>1, <1>2 DEF Base, Turned
  <2>2. ASSUME NEW j \in Joints
        PROVE  corrections[j] = Identity
    <3>1. \A k \in DOMAIN clip.arms : ~(k < arm)
      BY <1>2 DEF ClipAccepted
    <3> QED
      BY <3>1 DEF IInv, ArmsLeft
  <2>3. ASSUME NEW j \in Joints
        PROVE  Turned[j] = Base[j] /\ Base[j] \in Rotations
    <3>1. Base[j] \in Rotations
      BY TurnsTyped DEF IInv
    <3>2. Turned[j] = Compose(corrections[j], Base[j])
      BY DEF Turned
    <3> QED
      BY <2>2, <3>1, <3>2, Unit
  <2> QED
    BY <2>1, <2>3
<1>9. BonesKept'
  <2> SUFFICES ASSUME NEW j \in Joints, Parent(j) # 0
               PROVE  Minus(rest'[j], rest'[Parent(j)]) = Turn(Turned[Parent(j)], Scaled(Offset(j)))
    BY <1>1, <1>2, <1>8 DEF BonesKept, Parent, Offset
  <2> DEFINE p == Parent(j)
             t == Base[p]
  <2>1. p \in Joints /\ rest[j] \in Vectors /\ rest[p] \in Vectors
    BY <1>2 DEF IInv, TypeOK
  <2>2. rest'[j] = Plus(offset, Scaled(rest[j])) /\ rest'[p] = Plus(offset, Scaled(rest[p]))
    BY <1>1, <2>1
  <2>3. Scaled(rest[j]) \in Vectors /\ Scaled(rest[p]) \in Vectors
    BY <2>1, ScaleLaws
  <2>4. Minus(rest'[j], rest'[p]) = Minus(Scaled(rest[j]), Scaled(rest[p]))
    BY <1>2, <2>2, <2>3, AddedToBoth
  <2>5. Minus(Scaled(rest[j]), Scaled(rest[p])) = Scaled(Minus(rest[j], rest[p]))
    BY <2>1, ScaleLaws
  <2>6. Minus(rest[j], rest[p]) = Turn(t, Offset(j))
    BY <1>1 DEF IInv, BonesKept
  <2>7. Turn(t, Scaled(Offset(j))) = Scaled(Turn(t, Offset(j)))
    BY <1>2, <1>8, <2>1, OffsetTyped, ScaleLaws
  <2> QED
    BY <1>8, <2>1, <2>4, <2>5, <2>6, <2>7
<1>10. TracksKept'
  <2> SUFFICES ASSUME NEW j \in Joints, NEW f \in Frames
               PROVE  /\ local[j][f] = Carried(Base, j, clip.local[j][f])
                      /\ local[j][f] = Carried(Turned, j, clip.local[j][f])
    BY <1>1, <1>2, <1>8 DEF TracksKept, Parent, Carried
  <2>1. local[j][f] = Carried(Base, j, clip.local[j][f])
    BY <1>1 DEF IInv, TracksKept
  <2> QED
    BY <1>2, <1>8, <2>1 DEF Carried
<1>11. RootsKept' /\ Played'
  BY <1>1 DEF RootsKept, Played
<1> QED
  BY <1>3, <1>4, <1>5, <1>6, <1>7, <1>9, <1>10, <1>11 DEF IInv

LEMMA KeepArmKeeps ==
  ASSUME IInv, KeepArm
  PROVE  IInv'
<1>1. /\ clip' = clip /\ phase' = phase /\ at' = at
      /\ rest' = rest /\ local' = local /\ roots' = roots
      /\ bind' = bind /\ posed' = posed /\ delta' = delta
      /\ bakedRest' = bakedRest /\ bakedLocal' = bakedLocal /\ adopted' = adopted
      /\ articulated' = articulated /\ corrections' = corrections
      /\ clipPose' = clipPose /\ fitPose' = fitPose
      /\ phase = "arms" /\ arm' = arm + 1
  BY DEF KeepArm, outVars, bakeVars, playVars
<1>2. Joints' = Joints /\ Base' = Base /\ Turned' = Turned
  BY <1>1 DEF Joints, Base, Turned
<1>3. TypeOK'
  BY <1>1, ClipKept DEF IInv, TypeOK
<1>4. Order'
  BY <1>1 DEF IInv, Order
<1>5. Bound' /\ Rebased'
  BY <1>1, <1>2 DEF IInv, Bound, Rebased, Along, Parent, Offset, Carried
<1>6. ArmsLeft'
  <2>1. \A k \in DOMAIN clip.arms : k < arm => k < arm'
    <3>1. DOMAIN clip.arms \subseteq Nat
      BY ChainsCounted DEF IInv, TypeOK
    <3> QED
      BY <1>1, <3>1 DEF IInv, TypeOK
  <2>2. \A c : Moved(c)' = Moved(c)
    BY <1>1, <1>2 DEF Moved, Below, Parent
  <2> QED
    BY <1>1, <1>2, <2>1, <2>2 DEF IInv, ArmsLeft
<1>7. BonesKept' /\ TracksKept'
  BY <1>1, <1>2 DEF IInv, BonesKept, TracksKept, Parent, Offset, Carried, Chained
<1>8. RootsKept' /\ Played'
  BY <1>1 DEF RootsKept, Played
<1> QED
  BY <1>3, <1>4, <1>5, <1>6, <1>7, <1>8 DEF IInv

(* One arm: the upper arm follows upper, the rest of it fore, and what     *)
(* lies outside stays.                                                     *)
LEMMA PoseArmKeeps ==
  ASSUME IInv, NEW upper \in ArmTurns, NEW fore \in ArmTurns, PoseArm(upper, fore)
  PROVE  IInv'
<1> DEFINE chain == clip.arms[arm]
           s == chain.shoulder
           e == chain.elbow
           w == chain.wrist
           hand == Below(w)
           elbow == Plus(rest[s], Turn(upper, Minus(rest[e], rest[s])))
           wrist == Plus(elbow, Turn(fore, Minus(rest[w], rest[e])))
           swung(j) == Plus(wrist, Turn(fore, Minus(rest[j], rest[w])))
<1>1. /\ clip' = clip /\ phase' = phase /\ at' = at
      /\ local' = local /\ roots' = roots
      /\ bind' = bind /\ posed' = posed /\ delta' = delta
      /\ bakedRest' = bakedRest /\ bakedLocal' = bakedLocal /\ adopted' = adopted
      /\ articulated' = articulated
      /\ clipPose' = clipPose /\ fitPose' = fitPose
      /\ phase = "arms" /\ arm' = arm + 1 /\ arm <= Len(clip.arms)
  BY DEF PoseArm, bakeVars, playVars
<1>2. /\ rest' = [j \in Joints |-> IF j = e THEN elbow ELSE IF j = w THEN wrist
                                   ELSE IF j \in hand THEN swung(j) ELSE rest[j]]
      /\ corrections' = [j \in Joints |-> IF j = s THEN upper
                                          ELSE IF j = e \/ j \in hand THEN fore ELSE corrections[j]]
  BY DEF PoseArm, WithArm
<1>3. /\ ClipAccepted /\ ArmsApart /\ arm \in DOMAIN clip.arms /\ DOMAIN clip.arms \subseteq Nat
      /\ arm \in Nat /\ upper \in Rotations /\ fore \in Rotations
      /\ \A j \in Joints : Parent(j) # 0 => Parent(j) \in Joints
      /\ Joints' = Joints
  BY <1>1, ChainsCounted, Hierarchy, InputAssumption, ClipKept DEF IInv, TypeOK
<1>4. s \in Joints /\ e \in Joints /\ w \in Joints
  BY <1>1, <1>3, ClipKept DEF IInv
<1>5. /\ w \in hand /\ hand \subseteq Joints /\ Parent(w) \notin hand
      /\ \A i \in Joints : Parent(i) \in hand => i \in hand
      /\ \A i \in hand : i # w => Parent(i) \in hand
  BY <1>3, <1>4, BelowIsRooted
<1>6. s # e /\ s \notin hand /\ e \notin hand
  BY <1>3 DEF ArmsApart
<1>7. \A j \in Joints : rest[j] \in Vectors
  BY DEF IInv, TypeOK
<1>8. \A i, j \in Joints : Minus(rest[i], rest[j]) \in Vectors
  BY <1>7, Added
<1>9. /\ Turn(upper, Minus(rest[e], rest[s])) \in Vectors
      /\ \A i, j \in Joints : Turn(fore, Minus(rest[i], rest[j])) \in Vectors
  BY <1>3, <1>4, <1>8, TurnedTyped
<1>10. elbow \in Vectors /\ wrist \in Vectors /\ \A j \in Joints : swung(j) \in Vectors
  <2>1. elbow \in Vectors
    BY <1>4, <1>7, <1>9, Added
  <2>2. wrist \in Vectors
    <3> HIDE DEF elbow
    <3> QED
      BY <1>4, <1>9, <2>1, Added
  <2>3. ASSUME NEW j \in Joints
        PROVE  swung(j) \in Vectors
    <3> HIDE DEF wrist
    <3> QED
      BY <1>4, <1>9, <2>2, Added
  <2> QED
    BY <2>1, <2>2, <2>3
<1> HIDE DEF swung, wrist, elbow, hand, s, e, w
<1>11. TypeOK'
  <2>1. rest' \in [Joints -> Vectors]
    BY <1>2, <1>7, <1>10
  <2>2. corrections' \in [Joints -> Rotations]
    BY <1>2, <1>3 DEF IInv, TypeOK
  <2> QED
    BY <1>1, <1>3, <2>1, <2>2, ClipKept DEF IInv, TypeOK
<1>12. Order'
  BY <1>1 DEF IInv, Order
<1>13. Bound' /\ Rebased'
  BY <1>1, <1>3 DEF IInv, Bound, Rebased, Along, Parent, Offset, Carried
<1>14. Moved(chain) = {s, e} \cup hand
  BY DEF Moved, s, e, hand, w
<1>15. ASSUME NEW j \in Moved(chain), j \in Joints
       PROVE  corrections[j] = Identity
  <2>1. ASSUME NEW k \in DOMAIN clip.arms, k < arm
        PROVE  j \notin Moved(clip.arms[k])
    BY <1>3, <1>15, <2>1 DEF ArmsApart
  <2> QED
    BY <1>15, <2>1 DEF IInv, ArmsLeft
<1>16. ArmsLeft'
  <2>1. \A c : Moved(c)' = Moved(c)
    BY <1>1, <1>3 DEF Moved, Below, Parent
  <2> SUFFICES ASSUME NEW j \in Joints,
                      \A k \in DOMAIN clip.arms : k < arm + 1 => j \notin Moved(clip.arms[k])
               PROVE  corrections'[j] = Identity
    BY <1>1, <1>3, <2>1 DEF ArmsLeft
  <2>2. j \notin Moved(chain)
    BY <1>3
  <2>3. corrections'[j] = corrections[j]
    BY <1>2, <1>14, <2>2
  <2>4. \A k \in DOMAIN clip.arms : k < arm => j \notin Moved(clip.arms[k])
    BY <1>3
  <2> QED
    BY <2>3, <2>4 DEF IInv, ArmsLeft
<1>17. /\ Base' = Base
       /\ \A j \in Joints : /\ Base[j] \in Rotations
                            /\ Turned[j] = Compose(corrections[j], Base[j])
                            /\ Turned'[j] = Compose(corrections'[j], Base[j])
  BY <1>1, <1>3, TurnsTyped DEF Base, Turned, IInv
<1>18. ASSUME NEW j \in Moved(chain), j \in Joints
       PROVE  Turned[j] = Base[j]
  BY <1>15, <1>17, <1>18, Unit
<1>19. BonesKept'
  <2> SUFFICES ASSUME NEW j \in Joints, Parent(j) # 0, Chained(j)
               PROVE  Minus(rest'[j], rest'[Parent(j)]) = Turn(Turned'[Parent(j)], Scaled(Offset(j)))
    BY <1>1, <1>3 DEF BonesKept, Parent, Offset, Chained
  <2> DEFINE p == Parent(j)
             u == Scaled(Offset(j))
             bone == Minus(rest[j], rest[p])
  <2>1. p \in Joints /\ u \in Vectors /\ bone \in Vectors
    BY <1>3, <1>8, OffsetTyped, ScaleLaws
  <2>2. bone = Turn(Turned[p], u)
    BY <1>1 DEF IInv, BonesKept
  <2>3. (p = s <=> j = e) /\ (p = e <=> j = w)
    BY <1>3 DEF Chained, s, e, w
  <2>4. ASSUME NEW turn \in Rotations, p \in Moved(chain)
        PROVE  Turn(turn, bone) = Turn(Compose(turn, Base[p]), u)
    BY <1>17, <1>18, <2>1, <2>2, <2>4, TurnLaws
  <2> HIDE DEF p, u
  <2>5. CASE p = s
    <3>1. rest'[j] = elbow /\ rest'[p] = rest[s]
      BY <1>2, <1>4, <1>5, <1>6, <2>3, <2>5
    <3>2. Minus(elbow, rest[s]) = Turn(upper, bone)
      BY <1>4, <1>7, <1>9, <2>3, <2>5, Added DEF elbow
    <3>3. Turned'[p] = Compose(upper, Base[p])
      BY <1>2, <1>17, <2>1, <2>5
    <3> QED
      BY <1>3, <1>14, <2>4, <2>5, <3>1, <3>2, <3>3 DEF p, u
  <2>6. CASE p = e
    <3>1. rest'[j] = wrist /\ rest'[p] = elbow
      BY <1>2, <1>4, <1>5, <1>6, <2>3, <2>6
    <3>2. Minus(wrist, elbow) = Turn(fore, bone)
      BY <1>4, <1>9, <1>10, <2>3, <2>6, Added DEF wrist
    <3>3. Turned'[p] = Compose(fore, Base[p])
      BY <1>2, <1>6, <1>17, <2>1, <2>6
    <3> QED
      BY <1>3, <1>14, <2>4, <2>6, <3>1, <3>2, <3>3 DEF p, u
  <2>7. CASE p \in hand
    <3>1. j \in hand /\ j # w /\ j # e /\ p # e /\ p # s
      BY <1>5, <1>6, <2>7 DEF p
    <3>2. rest'[j] = swung(j)
      BY <1>2, <3>1
    <3>3. rest'[p] = IF p = w THEN wrist ELSE swung(p)
      BY <1>2, <2>1, <2>7, <3>1
    <3>4. Minus(rest'[j], rest'[p]) = Turn(fore, bone)
      <4>1. CASE p = w
        <5> DEFINE way == Turn(fore, Minus(rest[j], rest[w]))
        <5>1. way \in Vectors /\ way = Turn(fore, bone)
          BY <1>4, <1>9, <4>1
        <5>2. rest'[j] = Plus(wrist, way) /\ rest'[p] = wrist
          BY <3>2, <3>3, <4>1 DEF swung
        <5> HIDE DEF way
        <5> QED
          BY <1>10, <5>1, <5>2, Added
      <4>2. CASE p # w
        <5> DEFINE a == Minus(rest[j], rest[w])
                   b == Minus(rest[p], rest[w])
        <5>1. a \in Vectors /\ b \in Vectors /\ Turn(fore, a) \in Vectors /\ Turn(fore, b) \in Vectors
          BY <1>4, <1>8, <1>9, <2>1
        <5>2. Minus(a, b) = bone
          BY <1>4, <1>7, <2>1, AddedToBoth
        <5>3. rest'[j] = Plus(wrist, Turn(fore, a)) /\ rest'[p] = Plus(wrist, Turn(fore, b))
          BY <3>2, <3>3, <4>2 DEF swung
        <5> HIDE DEF a, b, bone
        <5>4. Minus(rest'[j], rest'[p]) = Minus(Turn(fore, a), Turn(fore, b))
          BY <1>10, <5>1, <5>3, AddedToBoth
        <5>5. Turn(fore, Minus(a, b)) = Minus(Turn(fore, a), Turn(fore, b))
          BY <1>3, <5>1, TurnLaws
        <5> QED
          BY <5>2, <5>4, <5>5
      <4> QED
        BY <4>1, <4>2
    <3>5. Turned'[p] = Compose(fore, Base[p])
      BY <1>2, <1>17, <2>1, <2>7, <3>1
    <3> QED
      BY <1>3, <1>14, <2>4, <2>7, <3>4, <3>5 DEF p, u
  <2>8. CASE p # s /\ p # e /\ p \notin hand
    <3>1. j # e /\ j # w /\ j \notin hand
      BY <1>5, <2>3, <2>8 DEF p
    <3>2. rest'[j] = rest[j] /\ rest'[p] = rest[p]
      BY <1>2, <1>5, <2>1, <2>8, <3>1
    <3>3. Turned'[p] = Turned[p]
      BY <1>2, <1>17, <2>1, <2>8
    <3> QED
      BY <2>2, <3>2, <3>3 DEF p, u
  <2> QED
    BY <2>5, <2>6, <2>7, <2>8
<1>20. TracksKept'
  BY <1>1, <1>3, <1>17 DEF IInv, TracksKept, Parent, Carried
<1>21. RootsKept' /\ Played'
  BY <1>1 DEF RootsKept, Played
<1> QED
  BY <1>11, <1>12, <1>13, <1>16, <1>19, <1>20, <1>21 DEF IInv

LEMMA ArmsPosedKeeps ==
  ASSUME IInv, ArmsPosed
  PROVE  IInv'
<1> USE DEF IInv, ArmsPosed, outVars, bakeVars, armVars, playVars
<1>1. TypeOK'
  BY ClipKept DEF TypeOK
<1>2. Order'
  BY DEF Order
<1>3. Base' = Base /\ Turned' = Turned /\ Joints' = Joints
  BY DEF Base, Turned, Joints
<1>4. Bound' /\ Rebased' /\ RootsKept' /\ Played'
  BY <1>3 DEF Bound, Rebased, RootsKept, Played, Parent, Along, Offset, Carried
<1>5. ArmsLeft'
  BY ArmsLeftKept
<1>6. BonesKept'
  BY <1>3 DEF BonesKept, Parent, Offset, Chained
<1>7. TracksKept'
  <2>1. \A j \in Joints : ~(j < at)
    BY Hierarchy DEF TypeOK, Order
  <2> QED
    BY <1>3, <2>1 DEF TracksKept, Parent, Carried
<1> QED
  BY <1>1, <1>2, <1>4, <1>5, <1>6, <1>7
-----------------------------------------------------------------------------
(* The tracks moved to the rest pose they are to be played on.             *)
LEMMA TransferKeeps ==
  ASSUME IInv, Transfer
  PROVE  IInv'
<1> DEFINE p == Parent(at)
           track == [f \in Frames |-> Transferred(at, local[at][f])]
<1>1. /\ clip' = clip /\ rest' = rest /\ roots' = roots
      /\ bind' = bind /\ posed' = posed /\ delta' = delta
      /\ bakedRest' = bakedRest /\ bakedLocal' = bakedLocal /\ adopted' = adopted
      /\ articulated' = articulated /\ corrections' = corrections /\ arm' = arm
      /\ clipPose' = clipPose /\ fitPose' = fitPose /\ phase = "transfer"
      /\ phase' \in {"transfer", "roots"}
      /\ phase' = "transfer" => at < Len(clip.parents) /\ at' = at + 1
      /\ phase' = "roots" => ~(at < Len(clip.parents)) /\ at' = 1
      /\ local' = [local EXCEPT ![at] = track]
  BY DEF Transfer, Advance, bakeVars, armVars, playVars
<1>2. /\ ClipAccepted /\ Joints' = Joints /\ Joints = 1 .. Len(clip.parents) /\ 1 \in Joints
      /\ Len(clip.parents) \in Nat /\ at \in Joints
      /\ \A j \in Joints : /\ Parent(j) < j /\ Parent(j) \in Nat
                           /\ Parent(j) # 0 => Parent(j) \in Joints
  BY <1>1, ClipKept, Hierarchy DEF IInv, TypeOK
<1>3. at' \in Joints
  BY <1>1, <1>2
<1>4. Base' = Base /\ Turned' = Turned
  BY <1>1, <1>2 DEF Base, Turned
<1>5. \A j \in Joints : /\ Base[j] \in Rotations /\ corrections[j] \in Rotations
                       /\ Turned[j] = Compose(corrections[j], Base[j])
  BY TurnsTyped DEF IInv, TypeOK, Turned
<1>6. ASSUME NEW f \in Frames
      PROVE  track[f] \in Rotations /\ track[f] = Carried(Turned, at, clip.local[at][f])
  <2> DEFINE q == clip.local[at][f]
  <2>1. q \in Rotations /\ local[at][f] \in Rotations
    <3>1. clip.local \in [Joints -> [Frames -> Rotations]]
      BY <1>2 DEF ClipAccepted
    <3>2. local \in [Joints -> [Frames -> Rotations]]
      BY DEF IInv, TypeOK
    <3> QED
      BY <1>2, <3>1, <3>2
  <2>2. local[at][f] = Carried(Base, at, q)
    BY <1>1, <1>2 DEF IInv, TracksKept
  <2>3. track[f] = Transferred(at, local[at][f])
    OBVIOUS
  <2>4. CASE p = 0
    <3>1. local[at][f] = Compose(q, Inverse(Base[at]))
      BY <2>2, <2>4 DEF Carried
    <3>2. track[f] = Compose(local[at][f], Inverse(corrections[at]))
      BY <2>3, <2>4 DEF Transferred
    <3>3. Carried(Turned, at, q) = Compose(q, Inverse(Turned[at]))
      BY <2>4 DEF Carried
    <3>4. Inverse(corrections[at]) \in Rotations
      BY <1>2, <1>5, Closed
    <3> HIDE DEF track, q
    <3>5. Compose(Compose(q, Inverse(Base[at])), Inverse(corrections[at])) =
            Compose(q, Inverse(Compose(corrections[at], Base[at])))
      BY <1>2, <1>5, <2>1, CarriedTwice
    <3>6. track[f] = Carried(Turned, at, q)
      BY <1>2, <1>5, <3>1, <3>2, <3>3, <3>5
    <3>7. track[f] \in Rotations
      BY <2>1, <3>2, <3>4, Closed
    <3> QED
      BY <3>6, <3>7 DEF q
  <2>5. CASE p # 0
    <3>1. local[at][f] = Compose(Compose(Base[p], q), Inverse(Base[at]))
      BY <2>2, <2>5 DEF Carried
    <3>2. track[f] = Compose(Compose(corrections[p], local[at][f]), Inverse(corrections[at]))
      BY <2>3, <2>5 DEF Transferred
    <3>3. Carried(Turned, at, q) = Compose(Compose(Turned[p], q), Inverse(Turned[at]))
      BY <2>5 DEF Carried
    <3>4. /\ p \in Joints /\ Inverse(corrections[at]) \in Rotations
          /\ Compose(corrections[p], local[at][f]) \in Rotations
      BY <1>2, <1>5, <2>1, <2>5, Closed
    <3> DEFINE over == corrections[p]
               base == Base[p]
               own == corrections[at]
               ownBase == Base[at]
    <3>5. /\ over \in Rotations /\ base \in Rotations
          /\ own \in Rotations /\ ownBase \in Rotations
          /\ Turned[p] = Compose(over, base) /\ Turned[at] = Compose(own, ownBase)
      BY <1>2, <1>5, <3>4
    <3> HIDE DEF track, p, q, over, base, own, ownBase
    <3>6. Compose(Compose(over, Compose(Compose(base, q), Inverse(ownBase))), Inverse(own)) =
            Compose(Compose(Compose(over, base), q), Inverse(Compose(own, ownBase)))
      BY <2>1, <3>5, CarriedTwice
    <3>7. track[f] = Carried(Turned, at, q)
      BY <3>1, <3>2, <3>3, <3>5, <3>6 DEF over, base, own, ownBase
    <3>8. track[f] \in Rotations
      BY <3>2, <3>4, Closed
    <3> QED
      BY <3>7, <3>8 DEF q
  <2> QED
    BY <2>4, <2>5
<1>7. local' \in [Joints -> [Frames -> Rotations]]
  <2>1. track \in [Frames -> Rotations]
    BY <1>6
  <2> HIDE DEF track
  <2> QED
    BY <1>1, <1>2, <2>1 DEF IInv, TypeOK
<1>8. TypeOK'
  BY <1>1, <1>2, <1>3, <1>7, ClipKept DEF IInv, TypeOK
<1>9. Order'
  BY <1>1 DEF IInv, Order
<1>10. Bound' /\ Rebased'
  BY <1>1, <1>2 DEF IInv, Bound, Rebased, Along, Parent, Offset, Carried
<1>11. ArmsLeft'
  BY <1>1, ArmsLeftKept
<1>12. BonesKept'
  BY <1>1, <1>2, <1>4 DEF IInv, BonesKept, Parent, Offset, Chained
<1>13. TracksKept'
  <2> SUFFICES ASSUME NEW j \in Joints, NEW f \in Frames
               PROVE  /\ phase' = "transfer" /\ j >= at' =>
                           local'[j][f] = Carried(Base, j, clip.local[j][f])
                      /\ phase' = "roots" \/ (phase' = "transfer" /\ j < at') =>
                           local'[j][f] = Carried(Turned, j, clip.local[j][f])
    BY <1>1, <1>2, <1>4 DEF TracksKept, Parent, Carried
  <2>1. CASE j = at
    <3>1. local'[j] = track
      BY <1>1, <1>2, <2>1 DEF IInv, TypeOK
    <3>2. local'[j][f] = Carried(Turned, j, clip.local[j][f])
      BY <1>6, <2>1, <3>1
    <3> QED
      BY <1>1, <1>2, <2>1, <3>2
  <2>2. CASE j # at
    <3>1. local'[j] = local[j]
      BY <1>1, <1>2, <2>2 DEF IInv, TypeOK
    <3>2. /\ j > at => local[j][f] = Carried(Base, j, clip.local[j][f])
          /\ j < at => local[j][f] = Carried(Turned, j, clip.local[j][f])
      BY <1>1, <1>2 DEF IInv, TracksKept
    <3> QED
      BY <1>1, <1>2, <2>2, <3>1, <3>2
  <2> QED
    BY <2>1, <2>2
<1>14. RootsKept' /\ Played'
  BY <1>1 DEF RootsKept, Played
<1> QED
  BY <1>8, <1>9, <1>10, <1>11, <1>12, <1>13, <1>14 DEF IInv

LEMMA MoveRootsKeeps ==
  ASSUME IInv, MoveRoots
  PROVE  IInv'
<1>1. /\ clip' = clip /\ at' = at /\ rest' = rest /\ local' = local
      /\ bind' = bind /\ posed' = posed /\ delta' = delta
      /\ bakedRest' = bakedRest /\ bakedLocal' = bakedLocal /\ adopted' = adopted
      /\ articulated' = articulated /\ corrections' = corrections /\ arm' = arm
      /\ clipPose' = clipPose /\ fitPose' = fitPose
      /\ phase = "roots" /\ phase' = "play"
      /\ roots' = [f \in Frames |-> Plus(rest[1], Scaled(Minus(roots[f], roots[0])))]
  BY DEF MoveRoots, bakeVars, armVars, playVars
<1>2. /\ Joints' = Joints /\ Base' = Base /\ Turned' = Turned
      /\ roots = clip.roots /\ 1 \in Joints /\ 0 \in Frames /\ at = 1
      /\ \A j \in Joints : ~(j < 1)
  BY <1>1, Hierarchy, InputAssumption DEF Joints, Base, Turned, IInv, TypeOK, Order
<1>3. /\ rest[1] \in Vectors
      /\ \A f \in Frames : roots[f] \in Vectors /\ Scaled(Minus(roots[f], roots[0])) \in Vectors
  <2>1. rest[1] \in Vectors /\ \A f \in Frames : roots[f] \in Vectors
    BY <1>2 DEF IInv, TypeOK
  <2>2. \A f \in Frames : Minus(roots[f], roots[0]) \in Vectors
    BY <1>2, <2>1, Added
  <2> QED
    BY <2>1, <2>2, ScaleLaws
<1>4. roots' \in [Frames -> Vectors]
  BY <1>1, <1>3, Added
<1>5. TypeOK'
  BY <1>1, <1>2, <1>4, ClipKept DEF IInv, TypeOK
<1>6. Order'
  BY <1>1, <1>2 DEF IInv, Order
<1>7. Bound' /\ Rebased'
  BY <1>1, <1>2 DEF IInv, Bound, Rebased, Along, Parent, Offset, Carried
<1>8. ArmsLeft'
  BY <1>1, ArmsLeftKept
<1>9. BonesKept' /\ TracksKept'
  BY <1>1, <1>2 DEF IInv, BonesKept, TracksKept, Parent, Offset, Chained, Carried
<1>10. RootsKept'
  <2>1. roots'[0] = rest[1]
    <3>1. Scaled(Minus(roots[0], roots[0])) = Zero
      BY <1>2, <1>3, VectorLaws, ScaleLaws
    <3> QED
      BY <1>1, <1>2, <1>3, <3>1, VectorLaws
  <2>2. ASSUME NEW f \in Frames
        PROVE  Minus(roots'[f], roots'[0]) = Scaled(Minus(roots[f], roots[0]))
    BY <1>1, <1>3, <2>1, Added
  <2> QED
    BY <1>1, <1>2, <2>1, <2>2 DEF RootsKept
<1>11. Played'
  BY <1>1, <1>2 DEF Played
<1> QED
  BY <1>5, <1>6, <1>7, <1>8, <1>9, <1>10, <1>11 DEF IInv

(* Played, the clip fitted lags the clip given by what each joint turned.  *)
LEMMA PlayKeeps ==
  ASSUME IInv, Play
  PROVE  IInv'
<1> DEFINE p == Parent(at)
           given == AlongTrack(clipPose, at, clip.local[at])
           fitted == AlongTrack(fitPose, at, local[at])
<1>1. /\ clip' = clip /\ rest' = rest /\ local' = local /\ roots' = roots
      /\ bind' = bind /\ posed' = posed /\ delta' = delta
      /\ bakedRest' = bakedRest /\ bakedLocal' = bakedLocal /\ adopted' = adopted
      /\ articulated' = articulated /\ corrections' = corrections /\ arm' = arm
      /\ phase = "play" /\ phase' \in {"play", "done"}
      /\ phase' = "play" => at < Len(clip.parents) /\ at' = at + 1
      /\ phase' = "done" => ~(at < Len(clip.parents)) /\ at' = 1
      /\ clipPose' = [clipPose EXCEPT ![at] = given]
      /\ fitPose' = [fitPose EXCEPT ![at] = fitted]
  BY DEF Play, Advance, outVars, bakeVars, armVars
<1>2. /\ ClipAccepted /\ Joints' = Joints /\ Joints = 1 .. Len(clip.parents) /\ 1 \in Joints
      /\ Len(clip.parents) \in Nat /\ at \in Joints
      /\ \A j \in Joints : /\ Parent(j) < j /\ Parent(j) \in Nat
                           /\ Parent(j) # 0 => Parent(j) \in Joints
  BY <1>1, ClipKept, Hierarchy DEF IInv, TypeOK
<1>3. at' \in Joints
  BY <1>1, <1>2
<1>4. /\ Base' = Base /\ Turned' = Turned
      /\ \A j \in Joints : Turned[j] \in Rotations
  BY <1>1, <1>2, TurnsTyped DEF Base, Turned, IInv
<1>5. clip.local[at] \in [Frames -> Rotations] /\ local[at] \in [Frames -> Rotations]
  BY <1>2 DEF ClipAccepted, IInv, TypeOK
<1>6. given \in [Frames -> Rotations] /\ fitted \in [Frames -> Rotations]
  BY <1>2, <1>5, AlongTyped DEF IInv, TypeOK
<1>7. ASSUME NEW f \in Frames
      PROVE  fitted[f] = Compose(given[f], Inverse(Turned[at]))
  <2> DEFINE q == clip.local[at][f]
  <2>1. q \in Rotations
    BY <1>5
  <2>2. local[at][f] = Carried(Turned, at, q)
    BY <1>1, <1>2 DEF IInv, TracksKept
  <2>3. CASE p = 0
    BY <2>2, <2>3 DEF AlongTrack, Carried
  <2>4. CASE p # 0
    <3>1. given[f] = Compose(clipPose[p][f], q) /\ fitted[f] = Compose(fitPose[p][f], local[at][f])
      BY <2>4 DEF AlongTrack
    <3>2. local[at][f] = Compose(Compose(Turned[p], q), Inverse(Turned[at]))
      BY <2>2, <2>4 DEF Carried
    <3>3. fitPose[p][f] = Compose(clipPose[p][f], Inverse(Turned[p]))
      BY <1>1, <1>2, <2>4 DEF IInv, Played
    <3>4. clipPose[p][f] \in Rotations /\ Turned[p] \in Rotations /\ Turned[at] \in Rotations
      BY <1>2, <1>4, <2>4 DEF IInv, TypeOK
    <3> HIDE DEF p, given, fitted, q
    <3> QED
      BY <2>1, <3>1, <3>2, <3>3, <3>4, CarriedPlays
  <2> QED
    BY <2>3, <2>4
<1>8. adopted => given[0] = bind[at]
  <2> SUFFICES ASSUME adopted
               PROVE  given[0] = bind[at]
    OBVIOUS
  <2>1. 0 \in Frames /\ articulated
    BY InputAssumption DEF IInv, Order
  <2>2. bind[at] = Along(bind, at, clip.local[at][0])
    BY <1>1, <1>2, <2>1 DEF IInv, Bound
  <2>3. p # 0 => clipPose[p][0] = bind[p]
    BY <1>1, <1>2 DEF IInv, Played
  <2> QED
    BY <2>1, <2>2, <2>3 DEF AlongTrack, Along
<1> HIDE DEF given, fitted
<1>9. TypeOK'
  <2>1. clipPose' \in [Joints -> [Frames -> Rotations]] /\ fitPose' \in [Joints -> [Frames -> Rotations]]
    BY <1>1, <1>2, <1>6 DEF IInv, TypeOK
  <2> QED
    BY <1>1, <1>2, <1>3, <2>1, ClipKept DEF IInv, TypeOK
<1>10. Order'
  BY <1>1 DEF IInv, Order
<1>11. Bound' /\ Rebased'
  BY <1>1, <1>2 DEF IInv, Bound, Rebased, Along, Parent, Offset, Carried
<1>12. ArmsLeft'
  BY <1>1, ArmsLeftKept
<1>13. BonesKept' /\ TracksKept'
  BY <1>1, <1>2, <1>4 DEF IInv, BonesKept, TracksKept, Parent, Offset, Chained, Carried
<1>14. RootsKept'
  BY <1>1 DEF IInv, RootsKept
<1>15. Played'
  <2> SUFFICES ASSUME NEW j \in Joints, phase' = "play" => j < at'
               PROVE  /\ \A f \in Frames : fitPose'[j][f] = Compose(clipPose'[j][f], Inverse(Turned[j]))
                      /\ adopted => clipPose'[j][0] = bind[j]
    BY <1>1, <1>2, <1>4 DEF Played
  <2>1. j <= at
    BY <1>1, <1>2
  <2>2. CASE j = at
    <3>1. clipPose'[j] = given /\ fitPose'[j] = fitted
      BY <1>1, <1>2, <2>2 DEF IInv, TypeOK
    <3> QED
      BY <1>7, <1>8, <2>2, <3>1
  <2>3. CASE j # at
    <3>1. clipPose'[j] = clipPose[j] /\ fitPose'[j] = fitPose[j] /\ j < at
      BY <1>1, <1>2, <2>1, <2>3 DEF IInv, TypeOK
    <3> QED
      BY <1>1, <3>1 DEF IInv, Played
  <2> QED
    BY <2>2, <2>3
<1> QED
  BY <1>9, <1>10, <1>11, <1>12, <1>13, <1>14, <1>15 DEF IInv
-----------------------------------------------------------------------------
LEMMA NextInvariant == IInv /\ [Next]_vars => IInv'
<1> SUFFICES ASSUME IInv, [Next]_vars
             PROVE  IInv'
  OBVIOUS
<1>1. CASE UNCHANGED vars
  <2> USE <1>1 DEF IInv, vars, outVars, bakeVars, armVars, playVars
  <2>1. Base' = Base /\ Turned' = Turned /\ Joints' = Joints
    BY DEF Base, Turned, Joints
  <2>2. TypeOK' /\ Order'
    BY ClipKept DEF TypeOK, Order
  <2>3. Bound' /\ Rebased' /\ RootsKept' /\ Played'
    BY <2>1 DEF Bound, Rebased, RootsKept, Played, Parent, Along, Offset, Carried
  <2>4. ArmsLeft'
    BY ArmsLeftKept
  <2>5. BonesKept' /\ TracksKept'
    BY <2>1 DEF BonesKept, TracksKept, Parent, Offset, Chained, Carried
  <2> QED
    BY <2>2, <2>3, <2>4, <2>5
<1>2. CASE Degenerate
  BY <1>2, DegenerateKeeps
<1>3. ASSUME NEW mode \in {"global", "articulated"}, Choose(mode)
      PROVE  IInv'
  BY <1>3, ChooseKeeps
<1>4. CASE Bind
  BY <1>4, BindKeeps
<1>5. CASE Rebase
  BY <1>5, RebaseKeeps
<1>6. CASE Adopt
  BY <1>6, AdoptKeeps
<1>7. CASE Keep
  BY <1>7, KeepKeeps
<1>8. ASSUME NEW offset \in Offsets, Place(offset)
      PROVE  IInv'
  BY <1>8, PlaceKeeps
<1>9. CASE KeepArm
  BY <1>9, KeepArmKeeps
<1>10. ASSUME NEW upper \in ArmTurns, NEW fore \in ArmTurns, PoseArm(upper, fore)
       PROVE  IInv'
  BY <1>10, PoseArmKeeps
<1>11. CASE ArmsPosed
  BY <1>11, ArmsPosedKeeps
<1>12. CASE Transfer
  BY <1>12, TransferKeeps
<1>13. CASE MoveRoots
  BY <1>13, MoveRootsKeeps
<1>14. CASE Play
  BY <1>14, PlayKeeps
<1> QED
  BY <1>1, <1>2, <1>3, <1>4, <1>5, <1>6, <1>7, <1>8, <1>9, <1>10, <1>11, <1>12, <1>13, <1>14
     DEF Next

(* In every state of the fitting each bone and each track holds the turns  *)
(* made so far and their making up for.                                    *)
THEOREM Invariance == Spec => []IInv
BY InitInvariant, NextInvariant, PTL DEF Spec

(* A bone of the fitted clip, played: the turns cancel.                    *)
LEMMA BonesReplay ==
  ASSUME IInv, phase = "done", NEW j \in Joints, Parent(j) # 0, Chained(j), NEW f \in Frames
  PROVE  Bone(fitPose, rest, j, f) = Scaled(Bone(clipPose, clip.rest, j, f))
<1> DEFINE p == Parent(j)
           g == clipPose[p][f]
           t == Turned[p]
           u == Scaled(Offset(j))
<1>1. p \in Joints
  BY Hierarchy DEF IInv, TypeOK
<1>2. g \in Rotations /\ t \in Rotations /\ Inverse(t) \in Rotations
  BY <1>1, TurnsTyped, Closed DEF IInv, TypeOK
<1>3. Offset(j) \in Vectors /\ u \in Vectors
  BY OffsetTyped, ScaleLaws DEF IInv, TypeOK
<1>4. fitPose[p][f] = Compose(g, Inverse(t))
  BY <1>1 DEF IInv, Played
<1>5. Minus(rest[j], rest[p]) = Turn(t, u)
  BY DEF IInv, BonesKept
<1>6. Bone(fitPose, rest, j, f) = Turn(Compose(g, Inverse(t)), Turn(t, u))
  BY <1>4, <1>5 DEF Bone
<1>7. Bone(clipPose, clip.rest, j, f) = Turn(g, Offset(j))
  BY DEF Bone, Offset
<1> HIDE DEF p, g, t, u
<1>8. Compose(g, Inverse(t)) \in Rotations
  BY <1>2, Closed
<1>9. Turn(Compose(g, Inverse(t)), Turn(t, u)) = Turn(Compose(Compose(g, Inverse(t)), t), u)
  BY <1>2, <1>3, <1>8, TurnLaws
<1>10. Compose(Compose(g, Inverse(t)), t) = g
  BY <1>2, Cancel
<1>11. Turn(g, u) = Scaled(Turn(g, Offset(j)))
  BY <1>2, <1>3, ScaleLaws DEF u
<1> QED
  BY <1>6, <1>7, <1>9, <1>10, <1>11

(* "The clip replays unchanged" (model.cpp:239), whatever the fit did to   *)
(* the rest pose.                                                          *)
THEOREM Replays == Spec => []ClipReplays
<1>1. IInv => ClipReplays
  BY BonesReplay DEF ClipReplays, IInv, RootsKept
<1> QED
  BY <1>1, Invariance, PTL

(* The first frame adopted and no arm posed, frame zero is the bind pose   *)
(* (skintokens.hpp:297).                                                   *)
THEOREM FrameZero == Spec => []FrameZeroIsBind
<1>1. IInv => FrameZeroIsBind
  <2> SUFFICES ASSUME IInv, phase = "done", adopted, corrections = AllIdentity
               PROVE  roots[0] = rest[1] /\ \A j \in Joints : fitPose[j][0] = Identity
    BY DEF FrameZeroIsBind
  <2>1. ASSUME NEW j \in Joints
        PROVE  fitPose[j][0] = Identity
    <3>1. bind[j] \in Rotations /\ Base[j] = bind[j] /\ corrections[j] = Identity
      BY DEF IInv, TypeOK, Base, AllIdentity
    <3>2. Turned[j] = bind[j]
      BY <3>1, Unit DEF Turned
    <3>3. fitPose[j][0] = Compose(clipPose[j][0], Inverse(Turned[j])) /\ clipPose[j][0] = bind[j]
      BY InputAssumption DEF IInv, Played
    <3> QED
      BY <3>1, <3>2, <3>3, Unit
  <2> QED
    BY <2>1 DEF IInv, RootsKept
<1> QED
  BY <1>1, Invariance, PTL
=============================================================================
