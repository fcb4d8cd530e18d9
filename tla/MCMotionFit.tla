---------------------------- MODULE MCMotionFit ----------------------------
(* The six rotations that map a triangle to itself, as matrices acting on  *)
(* its plane, modulo 5: they do not commute, and a scale of 2 is none of   *)
(* them.                                                                   *)
EXTENDS MotionFit, TLC

Entry(n) == n % 5
MCCompose(p, q) ==
  << Entry(p[1]*q[1] + p[2]*q[3]), Entry(p[1]*q[2] + p[2]*q[4]),
     Entry(p[3]*q[1] + p[4]*q[3]), Entry(p[3]*q[2] + p[4]*q[4]) >>
MCIdentity == <<1, 0, 0, 1>>
Third == <<0, 4, 1, 4>>
Flip == <<0, 1, 1, 0>>
MCRotations ==
  {MCIdentity, Third, Flip, MCCompose(Third, Third),
   MCCompose(Third, Flip), MCCompose(Flip, Third)}
MCArmTurns == {MCIdentity, Third, Flip}
MCInverse(p) == CHOOSE q \in MCRotations : MCCompose(p, q) = MCIdentity

MCVectors == (0 .. 4) \X (0 .. 4)
MCZero == <<0, 0>>
MCPlus(u, v) == <<Entry(u[1] + v[1]), Entry(u[2] + v[2])>>
MCMinus(u, v) == <<Entry(u[1] - v[1]), Entry(u[2] - v[2])>>
MCTurn(p, u) == <<Entry(p[1]*u[1] + p[2]*u[2]), Entry(p[3]*u[1] + p[4]*u[2])>>
MCOffsets == {<<1, 2>>}
MCScaled(u) == <<Entry(2*u[1]), Entry(2*u[2])>>

(* An arm and its finger, an arm below a root, a joint beside the upper    *)
(* arm, one beside the forearm, and no arm at all.                         *)
Chain(s, e, w) == [shoulder |-> s, elbow |-> e, wrist |-> w]
Shapes ==
  { [parents |-> <<0, 1, 2, 3>>, arms |-> <<Chain(1, 2, 3)>>],
    [parents |-> <<0, 1, 2, 3>>, arms |-> <<Chain(2, 3, 4)>>],
    [parents |-> <<0, 1, 1, 2>>, arms |-> <<Chain(1, 2, 4)>>],
    [parents |-> <<0, 1, 2, 2>>, arms |-> <<Chain(1, 2, 3)>>],
    [parents |-> <<0, 1, 1, 3>>, arms |-> <<>>] }
MCRest == <<<<1, 0>>, <<2, 1>>, <<0, 3>>, <<4, 4>>, <<1, 3>>, <<2, 4>>, <<3, 3>>>>
Clip(shape, tracks) ==
  [parents |-> shape.parents, arms |-> shape.arms, local |-> tracks,
   rest |-> SubSeq(MCRest, 1, Len(shape.parents)), roots |-> (0 :> <<3, 1>> @@ 1 :> <<1, 1>>)]

Tracks == [0 .. 1 -> {Third, Flip}]

(* Two arms below one root.                                                *)
TwoArms == [parents |-> <<0, 1, 2, 3, 1, 5, 6>>, arms |-> <<Chain(2, 3, 4), Chain(5, 6, 7)>>]
Uniform(t, u) == [j \in 1 .. 7 |-> IF j % 2 = 0 THEN t ELSE u]

MCClips ==
  {Clip(shape, tracks) : shape \in Shapes, tracks \in [1 .. 4 -> Tracks]}
    \cup {Clip(TwoArms, Uniform(t, u)) : t \in Tracks, u \in Tracks}
=============================================================================
