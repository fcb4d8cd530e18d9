-------------------------- MODULE SkinOrderProofs --------------------------
(***************************************************************************)
(* Proofs about the import of a skeleton, for every set of nodes and every *)
(* file on them: the order of its joints (SkinOrder), where they rest, and *)
(* from both what the tokenizer writes of it and reads back                *)
(* (SkeletonRoundTrip), by the theorems of SkeletonTokensProofs.           *)
(***************************************************************************)
EXTENDS SkeletonRoundTrip, SkeletonTokensProofs, FiniteSetTheorems, TLAPS

-----------------------------------------------------------------------------
(* The inductive invariant.                                                *)

Visited == [n \in Nodes |-> Reached(n)]
Nearest == [n \in Nodes |-> Visited[n] \cap Joints]

Earlier(list, i) == {list[k] : k \in 1 .. i - 1}

InOrder(list) == \A i \in DOMAIN list : Nearest[list[i]] \subseteq Earlier(list, i)

Distinct ==
  /\ joints # <<>>
  /\ IsInjective(joints)
  /\ IsInjective(ordered)
  /\ Added \subseteq Joints

(* The nodes T the climb has passed: all lead to where it is now.          *)
Trail(n) ==
  \E T \in SUBSET (Nodes \cup {None}) :
    /\ above[n] \in T /\ up \in T
    /\ \A m \in T : m # up => m \in Nodes /\ m \notin Joints /\ above[m] \in T

Climbing ==
  phase \in {"order", "link"} /\ AtJoint =>
    /\ up \in Visited[joints[at]]
    /\ Trail(joints[at])

Left == Joints \ Added

(* A pass that has placed no joint has met, for each joint left behind, a  *)
(* joint above it that is left behind too.                                 *)
Passing ==
  phase = "order" =>
    /\ parents = <<>>
    /\ InOrder(ordered)
    /\ before <= Len(ordered) /\ before # Len(joints)
    /\ Len(ordered) = before =>
         \A k \in 1 .. at - 1 : joints[k] \in Left => Nearest[joints[k]] \cap Left # {}

(* A list with parents first is placed as it comes.                        *)
Straight ==
  phase = "order" /\ InOrder(joints) =>
    /\ Len(ordered) = at - 1
    /\ \A k \in 1 .. at - 1 : ordered[k] = joints[k]

LinkedTo(i) ==
  /\ parents[i] < i
  /\ Nearest[joints[i]] = IF parents[i] = 0 THEN {} ELSE {joints[parents[i]]}

Linking ==
  phase \in {"link", "done"} =>
    /\ InOrder(joints)
    /\ Len(parents) = at - 1
    /\ \A i \in DOMAIN parents : LinkedTo(i)
    /\ phase = "done" => ~AtJoint

Circle ==
  phase = "cycle" =>
    Left # {} /\ \A n \in Left : Nearest[n] \cap Left # {}

IInv ==
  /\ OrderTypeOK
  /\ Distinct
  /\ Climbing
  /\ Passing
  /\ Straight
  /\ Linking
  /\ Circle
-----------------------------------------------------------------------------
(* Facts about data.                                                       *)

LEMMA ListFacts ==
  ASSUME OrderTypeOK
  PROVE  /\ None \notin Nodes
         /\ Len(joints) \in Nat /\ DOMAIN joints = 1 .. Len(joints)
         /\ Len(ordered) \in Nat /\ DOMAIN ordered = 1 .. Len(ordered)
         /\ Len(parents) \in Nat /\ DOMAIN parents = 1 .. Len(parents)
         /\ \A i \in DOMAIN joints : joints[i] \in Nodes /\ joints[i] \in Joints
         /\ \A i \in DOMAIN ordered : ordered[i] \in Nodes /\ ordered[i] \in Added
         /\ Joints \subseteq Nodes /\ Added \subseteq Nodes
         /\ at \in Nat \ {0}
<1>1. joints \in Seq(Nodes) /\ ordered \in Seq(Nodes) /\ parents \in Seq(Nat)
      /\ at \in 1 .. Len(joints) + 1
  BY DEF OrderTypeOK
<1>2. QED BY <1>1, SkinOrderAssumption DEF Joints, Added, ToSet

(* A list without repetition has as many members as entries.               *)
LEMMA Counting ==
  ASSUME NEW s \in Seq(Nodes), IsInjective(s)
  PROVE  IsFiniteSet(ToSet(s)) /\ Cardinality(ToSet(s)) = Len(s)
<1>1. Len(s) \in Nat /\ DOMAIN s = 1 .. Len(s) /\ 1 \in Int /\ Len(s) \in Int
  OBVIOUS
<1>2. IsFiniteSet(1 .. Len(s)) /\ Cardinality(1 .. Len(s)) = Len(s)
  BY <1>1, FS_Interval
<1>3. s \in [1 .. Len(s) -> ToSet(s)]
  BY <1>1 DEF ToSet
<1>4. \A x \in ToSet(s) : \E i \in 1 .. Len(s) : s[i] = x
  BY <1>1 DEF ToSet
<1>5. s \in Surjection(1 .. Len(s), ToSet(s))
  BY <1>3, <1>4 DEF Surjection
<1>6. s \in Injection(1 .. Len(s), ToSet(s))
  BY <1>1, <1>3 DEF Injection, IsInjective
<1>7. QED BY <1>2, <1>5, <1>6, FS_Surjection

(* If as many joints are placed as there are, all are.                     *)
LEMMA AllPlaced ==
  ASSUME OrderTypeOK, Distinct, Len(ordered) = Len(joints)
  PROVE  Added = Joints
<1>1. IsFiniteSet(Joints) /\ Cardinality(Joints) = Len(joints)
  BY Counting DEF OrderTypeOK, Distinct, Joints
<1>2. Cardinality(Added) = Len(ordered)
  BY Counting DEF OrderTypeOK, Distinct, Added
<1>3. Added \in SUBSET Joints
  BY DEF Distinct
<1>4. QED BY <1>1, <1>2, <1>3, FS_Subset

(* ... and only then.                                                      *)
LEMMA SomeLeft ==
  ASSUME OrderTypeOK, Distinct, Left = {}
  PROVE  Len(ordered) = Len(joints)
<1>1. Added = Joints
  BY DEF Distinct, Left
<1>2. Cardinality(Joints) = Len(joints)
  BY Counting DEF OrderTypeOK, Distinct, Joints
<1>3. Cardinality(Added) = Len(ordered)
  BY Counting DEF OrderTypeOK, Distinct, Added
<1>4. QED BY <1>1, <1>2, <1>3

LEMMA AppendFacts ==
  ASSUME NEW S, NEW s \in Seq(S), NEW x \in S
  PROVE  /\ Append(s, x) \in Seq(S)
         /\ Len(Append(s, x)) = Len(s) + 1 /\ Len(s) \in Nat
         /\ DOMAIN Append(s, x) = 1 .. Len(s) + 1 /\ DOMAIN s = 1 .. Len(s)
         /\ \A i \in 1 .. Len(s) : Append(s, x)[i] = s[i]
         /\ Append(s, x)[Len(s) + 1] = x
OBVIOUS
-----------------------------------------------------------------------------
(* The climb.                                                              *)

(* Everything a climb may visit is visited from what it may visit before.  *)
LEMMA VisitedClosed ==
  ASSUME NEW n \in Nodes, OrderTypeOK
  PROVE  /\ above[n] \in Visited[n]
         /\ \A m \in Visited[n] :
              m \in Nodes /\ m \notin Joints => above[m] \in Visited[n]
<1>1. above \in [Nodes -> Nodes \cup {None}]
  BY DEF OrderTypeOK
<1>2. Visited[n] = {m \in Nodes \cup {None} :
                      \A S \in SUBSET (Nodes \cup {None}) : Closed(n, S) => m \in S}
  BY DEF Visited, Reached
<1>3. above[n] \in Visited[n]
  BY <1>1, <1>2 DEF Closed
<1>4. ASSUME NEW m \in Visited[n], m \in Nodes, m \notin Joints
      PROVE  above[m] \in Visited[n]
  <2>1. ASSUME NEW S \in SUBSET (Nodes \cup {None}), Closed(n, S)
        PROVE  above[m] \in S
    <3>1. m \in S
      BY <1>2, <1>4, <2>1
    <3>2. QED BY <1>4, <2>1, <3>1 DEF Closed
  <2>2. above[m] \in Nodes \cup {None}
    BY <1>1, <1>4
  <2>3. QED BY <1>2, <2>1, <2>2
<1>5. QED BY <1>3, <1>4

(* Where the climb ends is the nearest joint.                              *)
LEMMA Arrival ==
  ASSUME NEW n \in Nodes, OrderTypeOK, up \in Visited[n], Trail(n), Arrived
  PROVE  Nearest[n] = IF up = None THEN {} ELSE {up}
<1>1. PICK T \in SUBSET (Nodes \cup {None}) :
        /\ above[n] \in T /\ up \in T
        /\ \A m \in T : m # up => m \in Nodes /\ m \notin Joints /\ above[m] \in T
  BY DEF Trail
<1>2. Closed(n, T)
  <2>1. up \notin Nodes \/ up \in Joints
    BY ListFacts DEF Arrived
  <2>2. QED BY <1>1, <2>1 DEF Closed
<1>3. Visited[n] \subseteq T
  BY <1>2 DEF Visited, Reached
<1>4. Nearest[n] = Visited[n] \cap Joints
  BY DEF Nearest
<1>5. \A m \in Visited[n] \cap Joints : m = up
  BY <1>1, <1>3
<1>6. None \notin Joints
  BY ListFacts
<1>7. CASE up = None
  BY <1>4, <1>5, <1>6, <1>7
<1>8. CASE up # None
  <2>1. up \in Joints
    BY <1>8 DEF Arrived
  <2>2. QED BY <1>4, <1>5, <1>8, <2>1
<1>9. QED BY <1>7, <1>8

(* What a climb may visit depends on the file and on which nodes are       *)
(* joints, not on their order.                                             *)
LEMMA Unmoved ==
  ASSUME above' = above, Joints' = Joints
  PROVE  Visited' = Visited /\ Nearest' = Nearest
<1>1. Visited' = Visited
  BY DEF Visited, Reached, Closed
<1>2. QED BY <1>1 DEF Nearest

(* At the next joint the climb begins anew.                                *)
LEMMA ClimbBegins ==
  ASSUME NEW list \in Seq(Nodes), NEW k \in 1 .. Len(list) + 1,
         OrderTypeOK, above' = above, Joints' = Joints, joints' = list,
         GoTo(list, k)
  PROVE  /\ at' = k /\ up' \in Nodes \cup {None}
         /\ Climbing'
<1>1. at' = k /\ up' = IF k <= Len(list) THEN above[list[k]] ELSE None
  BY DEF GoTo
<1>2. above \in [Nodes -> Nodes \cup {None}]
  BY DEF OrderTypeOK
<1>3. k <= Len(list) => list[k] \in Nodes
  OBVIOUS
<1>4. up' \in Nodes \cup {None}
  BY <1>1, <1>2, <1>3
<1>5. ASSUME k <= Len(list)
      PROVE  up' \in Visited'[list[k]] /\ Trail(list[k])'
  <2>1. list[k] \in Nodes /\ up' = above[list[k]]
    BY <1>1, <1>3, <1>5
  <2>2. up' \in Visited'[list[k]]
    BY <2>1, VisitedClosed, Unmoved
  <2>3. /\ above'[list[k]] \in {up'} /\ up' \in {up'}
        /\ {up'} \in SUBSET (Nodes \cup {None})
    BY <1>4, <2>1
  <2>4. Trail(list[k])'
    BY <2>3 DEF Trail
  <2>5. QED BY <2>2, <2>4
<1>6. QED BY <1>1, <1>4, <1>5 DEF Climbing, AtJoint, Trail
-----------------------------------------------------------------------------
(* Each action keeps the invariant.                                        *)

LEMMA InitInvariant ==
  ASSUME OrderInit
  PROVE  IInv
<1>1. PICK file \in Files : above = file.above /\ joints = file.skin
  BY DEF OrderInit
<1>2. /\ above \in [Nodes -> Nodes \cup {None}]
      /\ joints \in Seq(Nodes) \ {<<>>} /\ IsInjective(joints)
  BY <1>1, SkinOrderAssumption
<1>3. Len(joints) \in Nat \ {0} /\ joints[1] \in Nodes
  BY <1>2
<1>4. OrderTypeOK
  BY <1>2, <1>3 DEF OrderInit, OrderTypeOK
<1>5. Distinct
  BY <1>2 DEF OrderInit, Distinct, Added, ToSet, IsInjective
<1>6. Climbing
  <2>1. up = above[joints[1]] /\ at = 1
    BY DEF OrderInit
  <2>2. up \in Visited[joints[1]]
    BY <1>3, <1>4, <2>1, VisitedClosed
  <2>3. {up} \in SUBSET (Nodes \cup {None})
    BY <1>4 DEF OrderTypeOK
  <2>4. Trail(joints[1])
    BY <2>1, <2>3 DEF Trail
  <2>5. QED BY <2>1, <2>2, <2>4 DEF Climbing
<1>7. Passing
  BY <1>3 DEF OrderInit, Passing, InOrder
<1>8. QED BY <1>4, <1>5, <1>6, <1>7 DEF OrderInit, IInv, Straight, Linking, Circle

(* What holds of every step within a pass or the link loop.                *)
LEMMA Frame ==
  ASSUME UNCHANGED <<above, joints>>
  PROVE  /\ Joints' = Joints /\ Visited' = Visited /\ Nearest' = Nearest
         /\ above' = above /\ joints' = joints
<1>1. Joints' = Joints
  BY DEF Joints
<1>2. QED BY <1>1, Unmoved

LEMMA SkipInvariant ==
  ASSUME IInv, Skip
  PROVE  IInv'
<1>1. /\ phase = "order" /\ at <= Len(joints) /\ joints[at] \in Added
      /\ GoTo(joints, at + 1)
      /\ UNCHANGED <<above, joints>> /\ ordered' = ordered /\ before' = before
      /\ parents' = parents /\ phase' = phase
  BY DEF Skip, AtJoint
<1>2. OrderTypeOK /\ Distinct /\ Passing /\ Straight
  BY DEF IInv
<1>3. /\ Joints' = Joints /\ Nearest' = Nearest /\ Added' = Added
      /\ above' = above /\ joints' = joints
  BY <1>1, Frame DEF Added
<1>4. joints \in Seq(Nodes) /\ at + 1 \in 1 .. Len(joints) + 1
  BY <1>1, <1>2 DEF OrderTypeOK
<1>5. at' = at + 1 /\ up' \in Nodes \cup {None} /\ Climbing'
  BY <1>1, <1>2, <1>3, <1>4, ClimbBegins
<1>6. OrderTypeOK'
  BY <1>1, <1>2, <1>3, <1>4, <1>5 DEF OrderTypeOK
<1>7. Distinct'
  BY <1>1, <1>2, <1>3 DEF Distinct
<1>8. Passing'
  <2>1. \A k \in 1 .. at : joints[k] \in Left => k \in 1 .. at - 1
    BY <1>1, <1>2, ListFacts DEF Left
  <2>2. QED BY <1>1, <1>2, <1>3, <1>5, <2>1, ListFacts
            DEF Passing, InOrder, Earlier, Left
<1>9. Straight'
  <2>1. ASSUME InOrder(joints)
        PROVE  FALSE
    <3>1. Len(ordered) = at - 1 /\ \A k \in 1 .. at - 1 : ordered[k] = joints[k]
      BY <1>1, <1>2, <2>1 DEF Straight
    <3>2. PICK k \in 1 .. at - 1 : joints[at] = joints[k]
      BY <1>1, <1>2, <3>1, ListFacts DEF Added, ToSet
    <3>3. QED BY <1>1, <1>2, <3>2, ListFacts DEF Distinct, IsInjective
  <2>2. InOrder(joints)' => InOrder(joints)
    BY <1>3 DEF InOrder, Earlier
  <2>3. QED BY <2>1, <2>2 DEF Straight
<1>10. Linking' /\ Circle'
  BY <1>1 DEF Linking, Circle
<1>11. QED BY <1>5, <1>6, <1>7, <1>8, <1>9, <1>10 DEF IInv

LEMMA ClimbInvariant ==
  ASSUME IInv, Climb
  PROVE  IInv'
<1>1. /\ phase \in {"order", "link"} /\ AtJoint /\ ~Arrived /\ up' = above[up]
      /\ UNCHANGED <<above, joints>> /\ ordered' = ordered /\ before' = before
      /\ at' = at /\ parents' = parents /\ phase' = phase
  BY DEF Climb
<1>2. OrderTypeOK /\ Distinct /\ Climbing /\ Passing /\ Straight /\ Linking
  BY DEF IInv
<1>3. /\ Joints' = Joints /\ Visited' = Visited /\ Nearest' = Nearest
      /\ Added' = Added /\ above' = above /\ joints' = joints
  BY <1>1, Frame DEF Added
<1>4. up \in Nodes /\ up \notin Joints /\ up' \in Nodes \cup {None}
  BY <1>1, <1>2 DEF OrderTypeOK, Arrived
<1>5. Climbing'
  <2>1. PICK n \in Nodes : n = joints[at]
    BY <1>1, <1>2, ListFacts DEF AtJoint
  <2>2. up \in Visited[n] /\ Trail(n)
    BY <1>1, <1>2, <2>1 DEF Climbing
  <2>3. up' \in Visited[n]
    BY <1>1, <1>2, <1>4, <2>2, VisitedClosed
  <2>4. PICK T \in SUBSET (Nodes \cup {None}) :
          /\ above[n] \in T /\ up \in T
          /\ \A m \in T : m # up => m \in Nodes /\ m \notin Joints /\ above[m] \in T
    BY <2>2 DEF Trail
  <2>5. PICK U \in SUBSET (Nodes \cup {None}) : U = T \cup {up'}
    BY <1>4
  <2>6. /\ above'[n] \in U /\ up' \in U
        /\ \A m \in U : m # up' => m \in Nodes /\ m \notin Joints' /\ above'[m] \in U
    BY <1>1, <1>3, <1>4, <2>4, <2>5
  <2>7. \E S \in SUBSET (Nodes \cup {None}) :
          /\ above'[n] \in S /\ up' \in S
          /\ \A m \in S : m # up' => m \in Nodes /\ m \notin Joints' /\ above'[m] \in S
    BY <2>6
  <2>8. n = joints'[at']
    BY <1>1, <1>3, <2>1
  <2>9. QED BY <1>3, <2>3, <2>7, <2>8 DEF Climbing, Trail
<1>6. OrderTypeOK'
  BY <1>1, <1>2, <1>3, <1>4 DEF OrderTypeOK
<1>7. Distinct'
  BY <1>1, <1>2, <1>3 DEF Distinct
<1>8. Passing'
  BY <1>1, <1>2, <1>3 DEF Passing, InOrder, Earlier, Left
<1>9. Straight'
  BY <1>1, <1>2, <1>3 DEF Straight, InOrder, Earlier
<1>10. Linking'
  <2>1. phase' # "done" /\ at' = at /\ parents' = parents
    BY <1>1
  <2>2. InOrder(joints) => InOrder(joints)'
    BY <1>3 DEF InOrder, Earlier
  <2>3. ASSUME NEW i \in DOMAIN parents, LinkedTo(i)
        PROVE  LinkedTo(i)'
    BY <1>3, <2>1, <2>3 DEF LinkedTo
  <2>4. QED BY <1>1, <1>2, <2>1, <2>2, <2>3 DEF Linking
<1>11. Circle'
  BY <1>1 DEF Circle
<1>12. QED BY <1>5, <1>6, <1>7, <1>8, <1>9, <1>10, <1>11 DEF IInv

(* What the end of a climb tells of the joint at hand.                     *)
LEMMA AtEnd ==
  ASSUME OrderTypeOK, Climbing, phase \in {"order", "link"}, AtJoint, Arrived
  PROVE  /\ joints[at] \in Nodes /\ at \in DOMAIN joints
         /\ Nearest[joints[at]] = IF up = None THEN {} ELSE {up}
<1>1. joints[at] \in Nodes /\ at \in DOMAIN joints
  BY ListFacts DEF AtJoint
<1>2. up \in Visited[joints[at]] /\ Trail(joints[at])
  BY DEF Climbing
<1>3. QED BY <1>1, <1>2, Arrival

LEMMA PlaceInvariant ==
  ASSUME IInv, Place
  PROVE  IInv'
<1> DEFINE n == joints[at]
<1>1. /\ phase = "order" /\ AtJoint /\ n \notin Added
      /\ (up = None \/ up \in Added)
      /\ ordered' = Append(ordered, n) /\ GoTo(joints, at + 1)
      /\ UNCHANGED <<above, joints>> /\ before' = before
      /\ parents' = parents /\ phase' = phase
  BY DEF Place
<1>2. OrderTypeOK /\ Distinct /\ Climbing /\ Passing /\ Straight
  BY DEF IInv
<1>3. /\ Joints' = Joints /\ Nearest' = Nearest
      /\ above' = above /\ joints' = joints
  BY <1>1, Frame
<1>4. joints \in Seq(Nodes) /\ at + 1 \in 1 .. Len(joints) + 1
  BY <1>1, <1>2, ListFacts DEF OrderTypeOK, AtJoint
<1>5. at' = at + 1 /\ up' \in Nodes \cup {None} /\ Climbing'
  BY <1>1, <1>2, <1>3, <1>4, ClimbBegins
<1>6. n \in Nodes /\ n \in Joints /\ at \in DOMAIN joints
      /\ Nearest[n] \subseteq Added
  <2>1. Arrived
    BY <1>1, <1>2 DEF Arrived, Distinct
  <2>2. Nearest[n] = IF up = None THEN {} ELSE {up}
    BY <1>1, <1>2, <2>1, AtEnd
  <2>3. at \in DOMAIN joints
    BY <1>1, <1>2, ListFacts DEF AtJoint
  <2>4. QED BY <1>1, <1>2, <2>2, <2>3, ListFacts
<1>7. /\ ordered \in Seq(Nodes) /\ ordered' \in Seq(Nodes)
      /\ Len(ordered) \in Nat /\ Len(ordered') = Len(ordered) + 1
      /\ DOMAIN ordered = 1 .. Len(ordered)
      /\ DOMAIN ordered' = 1 .. Len(ordered) + 1
      /\ \A i \in 1 .. Len(ordered) : ordered'[i] = ordered[i]
      /\ ordered'[Len(ordered) + 1] = n
  <2>1. ordered \in Seq(Nodes)
    BY <1>2 DEF OrderTypeOK
  <2>2. QED BY <1>1, <1>6, <2>1, AppendFacts
<1> HIDE DEF n
<1>8. OrderTypeOK'
  BY <1>1, <1>2, <1>3, <1>4, <1>5, <1>7 DEF OrderTypeOK
<1>9. Added' = Added \cup {n}
  BY <1>7 DEF Added, ToSet
<1>10. Distinct'
  <2>1. IsInjective(ordered)'
    <3>1. \A i \in 1 .. Len(ordered) : ordered[i] # n
      BY <1>1, <1>7 DEF Added, ToSet
    <3>2. \A i, j \in 1 .. Len(ordered) : ordered[i] = ordered[j] => i = j
      BY <1>2, <1>7 DEF Distinct, IsInjective
    <3>3. \A i, j \in DOMAIN ordered' : ordered'[i] = ordered'[j] => i = j
      BY <1>7, <3>1, <3>2
    <3>4. QED BY <3>3 DEF IsInjective
  <2>2. QED BY <1>2, <1>3, <1>6, <1>9, <2>1 DEF Distinct
<1>11. Passing'
  <2>1. ASSUME NEW i \in DOMAIN ordered'
        PROVE  Nearest[ordered'[i]] \subseteq {ordered'[k] : k \in 1 .. i - 1}
    <3>1. CASE i \in 1 .. Len(ordered)
      <4>1. Nearest[ordered[i]] \subseteq {ordered[k] : k \in 1 .. i - 1}
        BY <1>1, <1>2, <1>7, <3>1 DEF Passing, InOrder, Earlier
      <4>2. \A k \in 1 .. i - 1 : ordered'[k] = ordered[k]
        BY <1>7, <3>1
      <4>3. QED BY <1>7, <3>1, <4>1, <4>2
    <3>2. CASE i = Len(ordered) + 1
      <4>1. ordered'[i] = n /\ 1 .. i - 1 = 1 .. Len(ordered)
        BY <1>7, <3>2
      <4>2. Added = {ordered[k] : k \in 1 .. Len(ordered)}
        BY <1>7 DEF Added, ToSet
      <4>3. Added = {ordered'[k] : k \in 1 .. i - 1}
        BY <1>7, <4>1, <4>2
      <4>4. QED BY <1>6, <4>1, <4>3
    <3>3. QED BY <1>7, <3>1, <3>2
  <2>2. InOrder(ordered)'
    BY <1>3, <2>1 DEF InOrder, Earlier
  <2>3. before' < Len(ordered')
    <3>1. before <= Len(ordered) /\ before \in Nat
      BY <1>1, <1>2 DEF Passing, OrderTypeOK
    <3>2. QED BY <1>1, <1>7, <3>1
  <2>4. before' # Len(joints') /\ parents' = <<>>
    BY <1>1, <1>2, <1>3 DEF Passing
  <2>5. before' \in Nat /\ Len(ordered') \in Nat
    BY <1>7, <1>8 DEF OrderTypeOK
  <2>6. QED BY <2>2, <2>3, <2>4, <2>5 DEF Passing
<1>12. Straight'
  <2>1. ASSUME InOrder(joints)
        PROVE  Len(ordered') = at /\ \A k \in 1 .. at : ordered'[k] = joints[k]
    <3>1. Len(ordered) = at - 1 /\ \A k \in 1 .. at - 1 : ordered[k] = joints[k]
      BY <1>1, <1>2, <2>1 DEF Straight
    <3>2. at \in Nat \ {0}
      BY <1>2, ListFacts
    <3>3. QED BY <1>7, <3>1, <3>2 DEF n
  <2>2. InOrder(joints)' => InOrder(joints)
    BY <1>3 DEF InOrder, Earlier
  <2>3. at' - 1 = at
    BY <1>2, <1>5, ListFacts
  <2>4. QED BY <1>3, <2>1, <2>2, <2>3 DEF Straight
<1>13. Linking' /\ Circle'
  BY <1>1 DEF Linking, Circle
<1>14. QED BY <1>5, <1>8, <1>10, <1>11, <1>12, <1>13 DEF IInv

LEMMA WaitInvariant ==
  ASSUME IInv, Wait
  PROVE  IInv'
<1> DEFINE n == joints[at]
<1>1. /\ phase = "order" /\ AtJoint /\ n \notin Added /\ up \in Joints \ Added
      /\ GoTo(joints, at + 1)
      /\ UNCHANGED <<above, joints>> /\ ordered' = ordered /\ before' = before
      /\ parents' = parents /\ phase' = phase
  BY DEF Wait
<1>2. OrderTypeOK /\ Distinct /\ Climbing /\ Passing /\ Straight
  BY DEF IInv
<1>3. /\ Joints' = Joints /\ Nearest' = Nearest /\ Added' = Added
      /\ above' = above /\ joints' = joints
  BY <1>1, Frame DEF Added
<1>4. joints \in Seq(Nodes) /\ at + 1 \in 1 .. Len(joints) + 1
  BY <1>1, <1>2, ListFacts DEF OrderTypeOK, AtJoint
<1>5. at' = at + 1 /\ up' \in Nodes \cup {None} /\ Climbing'
  BY <1>1, <1>2, <1>3, <1>4, ClimbBegins
<1>6. Nearest[n] = {up} /\ at \in DOMAIN joints
  <2>1. Arrived /\ up # None
    BY <1>1, <1>2, ListFacts DEF Arrived
  <2>2. QED BY <1>1, <1>2, <2>1, AtEnd
<1>7. OrderTypeOK'
  BY <1>1, <1>2, <1>3, <1>4, <1>5 DEF OrderTypeOK
<1>8. Distinct'
  BY <1>1, <1>2, <1>3 DEF Distinct
<1>9. Passing'
  <2>1. Nearest[n] \cap Left # {}
    BY <1>1, <1>6 DEF Left
  <2>2. \A k \in 1 .. at : k \in 1 .. at - 1 \/ k = at
    BY <1>2, ListFacts
  <2>3. at' - 1 = at /\ Left' = Left
    BY <1>2, <1>3, <1>5, ListFacts DEF Left
  <2>4. InOrder(ordered) => InOrder(ordered)'
    BY <1>1, <1>3 DEF InOrder, Earlier
  <2>5. QED BY <1>1, <1>2, <1>3, <2>1, <2>2, <2>3, <2>4 DEF Passing
<1>10. Straight'
  <2>1. ASSUME InOrder(joints)
        PROVE  FALSE
    <3>1. Len(ordered) = at - 1 /\ \A k \in 1 .. at - 1 : ordered[k] = joints[k]
      BY <1>1, <1>2, <2>1 DEF Straight
    <3>2. PICK k \in 1 .. at - 1 : up = joints[k]
      BY <1>6, <2>1 DEF InOrder, Earlier
    <3>3. up \in Added
      BY <1>2, <3>1, <3>2, ListFacts
    <3>4. QED BY <1>1, <3>3
  <2>2. InOrder(joints)' => InOrder(joints)
    BY <1>3 DEF InOrder, Earlier
  <2>3. QED BY <2>1, <2>2 DEF Straight
<1>11. Linking' /\ Circle'
  BY <1>1 DEF Linking, Circle
<1>12. QED BY <1>5, <1>7, <1>8, <1>9, <1>10, <1>11 DEF IInv

LEMMA NextPassInvariant ==
  ASSUME IInv, NextPass
  PROVE  IInv'
<1>1. /\ phase = "order" /\ ~AtJoint
      /\ Len(ordered) # before /\ Len(ordered) # Len(joints)
      /\ before' = Len(ordered) /\ GoTo(joints, 1)
      /\ UNCHANGED <<above, joints>> /\ ordered' = ordered
      /\ parents' = parents /\ phase' = phase
  BY DEF NextPass, PassOver
<1>2. OrderTypeOK /\ Distinct /\ Passing /\ Straight
  BY DEF IInv
<1>3. /\ Joints' = Joints /\ Nearest' = Nearest /\ Added' = Added
      /\ above' = above /\ joints' = joints
  BY <1>1, Frame DEF Added
<1>4. joints \in Seq(Nodes) /\ 1 \in 1 .. Len(joints) + 1
  BY <1>2, ListFacts DEF OrderTypeOK
<1>5. at' = 1 /\ up' \in Nodes \cup {None} /\ Climbing'
  BY <1>1, <1>2, <1>3, <1>4, ClimbBegins
<1>6. OrderTypeOK'
  BY <1>1, <1>2, <1>3, <1>4, <1>5, ListFacts DEF OrderTypeOK
<1>7. Distinct'
  BY <1>1, <1>2, <1>3 DEF Distinct
<1>8. Passing'
  <2>1. InOrder(ordered) => InOrder(ordered)'
    BY <1>1, <1>3 DEF InOrder, Earlier
  <2>2. 1 .. at' - 1 = {}
    BY <1>5
  <2>3. Len(ordered) \in Nat
    BY <1>2, ListFacts
  <2>4. QED BY <1>1, <1>2, <1>3, <2>1, <2>2, <2>3 DEF Passing
<1>9. Straight'
  <2>1. ASSUME InOrder(joints)
        PROVE  FALSE
    <3>1. Len(ordered) = at - 1
      BY <1>1, <1>2, <2>1 DEF Straight
    <3>2. at = Len(joints) + 1
      BY <1>1, <1>2, ListFacts DEF OrderTypeOK, AtJoint
    <3>3. QED BY <1>1, <1>2, <3>1, <3>2, ListFacts
  <2>2. InOrder(joints)' => InOrder(joints)
    BY <1>3 DEF InOrder, Earlier
  <2>3. QED BY <2>1, <2>2 DEF Straight
<1>10. Linking' /\ Circle'
  BY <1>1 DEF Linking, Circle
<1>11. QED BY <1>5, <1>6, <1>7, <1>8, <1>9, <1>10 DEF IInv

LEMMA GiveUpInvariant ==
  ASSUME IInv, GiveUp
  PROVE  IInv'
<1>1. /\ phase = "order" /\ ~AtJoint /\ Len(ordered) = before /\ phase' = "cycle"
      /\ UNCHANGED <<above, joints>> /\ ordered' = ordered /\ before' = before
      /\ at' = at /\ up' = up /\ parents' = parents
  BY DEF GiveUp, PassOver
<1>2. OrderTypeOK /\ Distinct /\ Passing
  BY DEF IInv
<1>3. /\ Joints' = Joints /\ Nearest' = Nearest /\ Added' = Added
      /\ above' = above /\ joints' = joints
  BY <1>1, Frame DEF Added
<1>4. OrderTypeOK'
  BY <1>1, <1>2, <1>3 DEF OrderTypeOK
<1>5. Distinct'
  BY <1>1, <1>2, <1>3 DEF Distinct
<1>6. Left # {}
  <2>1. Len(ordered) # Len(joints)
    BY <1>1, <1>2 DEF Passing
  <2>2. QED BY <1>2, <2>1, SomeLeft
<1>7. ASSUME NEW n \in Left
      PROVE  Nearest[n] \cap Left # {}
  <2>1. PICK k \in DOMAIN joints : n = joints[k]
    BY <1>7 DEF Left, Joints, ToSet
  <2>2. k \in 1 .. at - 1
    BY <1>1, <1>2, <2>1, ListFacts DEF AtJoint
  <2>3. QED BY <1>1, <1>2, <1>7, <2>1, <2>2 DEF Passing
<1>8. Left' = Left
  BY <1>3 DEF Left
<1>9. Circle'
  BY <1>3, <1>6, <1>7, <1>8 DEF Circle
<1>10. QED BY <1>1, <1>4, <1>5, <1>9
           DEF IInv, Climbing, Passing, Straight, Linking

(* When the list is replaced, it has the same joints.                      *)
LEMMA OrderedFacts ==
  ASSUME IInv, Ordered
  PROVE  /\ Joints' = Joints /\ Nearest' = Nearest /\ above' = above
         /\ joints' = ordered /\ ToSet(ordered) = Joints
<1>1. joints' = ordered /\ above' = above /\ Len(ordered) = Len(joints)
  BY DEF Ordered
<1>2. Added = Joints
  BY <1>1, AllPlaced DEF IInv
<1>3. Joints' = Joints
  BY <1>1, <1>2 DEF Joints, Added
<1>4. QED BY <1>1, <1>2, <1>3, Unmoved DEF Added

LEMMA OrderedInvariant ==
  ASSUME IInv, Ordered
  PROVE  IInv'
<1>1. /\ phase = "order" /\ Len(ordered) = Len(joints) /\ ordered' = <<>>
      /\ GoTo(ordered, 1) /\ before' = 0 /\ phase' = "link"
      /\ parents' = parents
  BY DEF Ordered, PassOver
<1>2. OrderTypeOK /\ Distinct /\ Passing
  BY DEF IInv
<1>3. /\ Joints' = Joints /\ Nearest' = Nearest /\ above' = above
      /\ joints' = ordered
  BY OrderedFacts
<1>4. ordered \in Seq(Nodes) /\ 1 \in 1 .. Len(ordered) + 1
  BY <1>2, ListFacts DEF OrderTypeOK
<1>5. at' = 1 /\ up' \in Nodes \cup {None} /\ Climbing'
  BY <1>1, <1>2, <1>3, <1>4, ClimbBegins
<1>6. OrderTypeOK'
  BY <1>1, <1>2, <1>3, <1>4, <1>5 DEF OrderTypeOK
<1>7. Distinct'
  <2>1. Len(joints) # 0
    BY <1>2 DEF Distinct, OrderTypeOK
  <2>2. joints' # <<>> /\ IsInjective(joints)'
    BY <1>1, <1>2, <1>3, <2>1 DEF Distinct, IsInjective
  <2>3. IsInjective(ordered)' /\ Added' = {}
    BY <1>1 DEF IsInjective, Added, ToSet
  <2>4. QED BY <2>2, <2>3 DEF Distinct
<1>8. Linking'
  <2>1. InOrder(joints)'
    BY <1>1, <1>2, <1>3 DEF Passing, InOrder, Earlier
  <2>2. parents' = <<>>
    BY <1>1, <1>2 DEF Passing
  <2>3. QED BY <1>1, <1>5, <2>1, <2>2 DEF Linking
<1>9. QED BY <1>1, <1>5, <1>6, <1>7, <1>8 DEF IInv, Passing, Straight, Circle

LEMMA LinkInvariant ==
  ASSUME IInv, Link
  PROVE  IInv'
<1> DEFINE n == joints[at]
<1>1. /\ phase = "link" /\ AtJoint /\ Arrived
      /\ parents' = Append(parents, JointAbove) /\ GoTo(joints, at + 1)
      /\ UNCHANGED <<above, joints>> /\ ordered' = ordered /\ before' = before
      /\ phase' = phase
  BY DEF Link
<1>2. OrderTypeOK /\ Distinct /\ Climbing /\ Linking
  BY DEF IInv
<1>3. /\ Joints' = Joints /\ Nearest' = Nearest /\ Added' = Added
      /\ above' = above /\ joints' = joints
  BY <1>1, Frame DEF Added
<1>4. joints \in Seq(Nodes) /\ at + 1 \in 1 .. Len(joints) + 1
  BY <1>1, <1>2, ListFacts DEF OrderTypeOK, AtJoint
<1>5. at' = at + 1 /\ up' \in Nodes \cup {None} /\ Climbing'
  BY <1>1, <1>2, <1>3, <1>4, ClimbBegins
<1>6. at \in DOMAIN joints /\ Nearest[n] = IF up = None THEN {} ELSE {up}
  BY <1>1, <1>2, AtEnd
<1>7. /\ JointAbove \in Nat /\ JointAbove < at
      /\ Nearest[n] = IF JointAbove = 0 THEN {} ELSE {joints[JointAbove]}
  <2>1. CASE up = None
    BY <1>2, <1>6, <2>1, ListFacts DEF JointAbove
  <2>2. CASE up # None
    <3>1. PICK k \in 1 .. at - 1 : up = joints[k]
      BY <1>1, <1>2, <1>6, <2>2 DEF Linking, InOrder, Earlier
    <3>2. k \in DOMAIN joints
      BY <1>1, <1>2, <3>1, ListFacts DEF AtJoint
    <3>3. JointAbove \in DOMAIN joints /\ joints[JointAbove] = up
      BY <2>2, <3>1, <3>2 DEF JointAbove
    <3>4. JointAbove = k
      BY <1>2, <3>1, <3>2, <3>3 DEF Distinct, IsInjective
    <3>5. QED BY <1>2, <1>6, <2>2, <3>1, <3>4, ListFacts
  <2>3. QED BY <2>1, <2>2
<1>8. PICK p \in Nat : p = JointAbove
  BY <1>7
<1>9. /\ parents \in Seq(Nat) /\ parents' \in Seq(Nat)
      /\ Len(parents) = at - 1 /\ Len(parents') = at /\ at \in Nat \ {0}
      /\ DOMAIN parents = 1 .. at - 1 /\ DOMAIN parents' = 1 .. at
      /\ \A i \in 1 .. at - 1 : parents'[i] = parents[i]
      /\ parents'[at] = p
  <2>1. parents \in Seq(Nat) /\ Len(parents) = at - 1 /\ at \in Nat \ {0}
    BY <1>1, <1>2, ListFacts DEF OrderTypeOK, Linking
  <2>2. QED BY <1>1, <1>8, <2>1, AppendFacts
<1>10. OrderTypeOK'
  BY <1>1, <1>2, <1>3, <1>4, <1>5, <1>9 DEF OrderTypeOK
<1>11. Distinct'
  BY <1>1, <1>2, <1>3 DEF Distinct
<1>12. Linking'
  <2>1. ASSUME NEW i \in 1 .. at
        PROVE  /\ parents'[i] < i
               /\ Nearest[joints[i]] =
                    IF parents'[i] = 0 THEN {} ELSE {joints[parents'[i]]}
    <3>1. CASE i = at
      BY <1>7, <1>8, <1>9, <3>1
    <3>2. CASE i \in 1 .. at - 1
      <4>1. LinkedTo(i)
        BY <1>1, <1>2, <1>9, <3>2 DEF Linking
      <4>2. QED BY <1>9, <3>2, <4>1 DEF LinkedTo
    <3>3. QED BY <1>9, <3>1, <3>2
  <2>2. ASSUME NEW i \in DOMAIN parents'
        PROVE  LinkedTo(i)'
    BY <1>3, <1>9, <2>1 DEF LinkedTo
  <2>3. InOrder(joints) => InOrder(joints)'
    BY <1>3 DEF InOrder, Earlier
  <2>4. Len(parents') = at' - 1
    BY <1>5, <1>9
  <2>5. QED BY <1>1, <1>2, <2>2, <2>3, <2>4 DEF Linking
<1>13. QED BY <1>1, <1>5, <1>10, <1>11, <1>12 DEF IInv, Passing, Straight, Circle

LEMMA LinkedInvariant ==
  ASSUME IInv, Linked
  PROVE  IInv'
<1>1. /\ phase = "link" /\ ~AtJoint /\ phase' = "done"
      /\ UNCHANGED <<above, joints>> /\ ordered' = ordered /\ before' = before
      /\ at' = at /\ up' = up /\ parents' = parents
  BY DEF Linked
<1>2. OrderTypeOK /\ Distinct /\ Linking
  BY DEF IInv
<1>3. /\ Joints' = Joints /\ Nearest' = Nearest /\ Added' = Added
      /\ above' = above /\ joints' = joints
  BY <1>1, Frame DEF Added
<1>4. OrderTypeOK' /\ Distinct'
  BY <1>1, <1>2, <1>3 DEF OrderTypeOK, Distinct
<1>5. Linking'
  <2>1. ASSUME NEW i \in DOMAIN parents, LinkedTo(i)
        PROVE  LinkedTo(i)'
    BY <1>1, <1>3, <2>1 DEF LinkedTo
  <2>2. InOrder(joints) => InOrder(joints)'
    BY <1>3 DEF InOrder, Earlier
  <2>3. ~AtJoint'
    BY <1>1, <1>3 DEF AtJoint
  <2>4. QED BY <1>1, <1>2, <2>1, <2>2, <2>3 DEF Linking
<1>6. QED BY <1>1, <1>4, <1>5 DEF IInv, Climbing, Passing, Straight, Circle
LEMMA LinkFailsInvariant ==
  ASSUME IInv, LinkFails
  PROVE  IInv'
<1>1. /\ phase' = "unusable"
      /\ UNCHANGED <<above, joints>> /\ ordered' = ordered /\ before' = before
      /\ at' = at /\ up' = up /\ parents' = parents
  BY DEF LinkFails
<1>2. /\ Joints' = Joints /\ Added' = Added /\ above' = above /\ joints' = joints
  BY <1>1, Frame DEF Added
<1>3. OrderTypeOK' /\ Distinct'
  BY <1>1, <1>2 DEF IInv, OrderTypeOK, Distinct
<1>4. QED BY <1>1, <1>3 DEF IInv, Climbing, Passing, Straight, Linking, Circle
-----------------------------------------------------------------------------
(* The theorems.                                                           *)

LEMMA NextInvariant ==
  ASSUME IInv, [OrderNext]_orderVars
  PROVE  IInv'
<1>1. CASE OrderNext
  BY <1>1, SkipInvariant, ClimbInvariant, PlaceInvariant, WaitInvariant,
     NextPassInvariant, GiveUpInvariant, OrderedInvariant, LinkInvariant,
     LinkFailsInvariant, LinkedInvariant DEF OrderNext
<1>2. CASE UNCHANGED orderVars
  <2>1. /\ UNCHANGED <<above, joints>> /\ ordered' = ordered /\ before' = before
        /\ at' = at /\ up' = up /\ parents' = parents /\ phase' = phase
    BY <1>2 DEF orderVars
  <2>2. /\ Joints' = Joints /\ Visited' = Visited /\ Nearest' = Nearest
        /\ Added' = Added /\ above' = above /\ joints' = joints
    BY <2>1, Frame DEF Added
  <2>3. OrderTypeOK' /\ Distinct'
    BY <2>1, <2>2 DEF IInv, OrderTypeOK, Distinct
  <2>4. Climbing'
    BY <2>1, <2>2 DEF IInv, Climbing, AtJoint, Trail
  <2>5. (InOrder(ordered) <=> InOrder(ordered)') /\ (InOrder(joints) <=> InOrder(joints)')
    BY <2>1, <2>2 DEF InOrder, Earlier
  <2>6. Left' = Left
    BY <2>2 DEF Left
  <2>7. Passing' /\ Straight' /\ Circle'
    BY <2>1, <2>2, <2>5, <2>6 DEF IInv, Passing, Straight, Circle
  <2>8. \A i \in DOMAIN parents : LinkedTo(i) => LinkedTo(i)'
    BY <2>1, <2>2 DEF LinkedTo
  <2>9. Linking'
    BY <2>1, <2>2, <2>5, <2>8 DEF IInv, Linking, AtJoint
  <2>10. QED BY <2>3, <2>4, <2>7, <2>9 DEF IInv
<1>3. QED BY <1>1, <1>2

(* The import of a skeleton as a whole is the ordering with the rest       *)
(* positions read on the side: what holds of the one holds of the other.   *)
THEOREM ImportOrders == Spec => OrderSpec
<1>1. Init => OrderInit
  BY DEF Init
<1>2. [Next]_vars => [OrderNext]_orderVars
  BY DEF Next, OrderAndLink, LinkAt, OrderNext, vars
<1>3. QED BY <1>1, <1>2, PTL DEF Spec, OrderSpec

(* The inductive invariant of load_skeleton_document's ordering and        *)
(* linking of joints (glb.cpp:782-829).                                    *)
THEOREM Invariance == Spec => []IInv
<1>1. OrderInit => IInv
  BY InitInvariant
<1>2. IInv /\ [OrderNext]_orderVars => IInv'
  BY NextInvariant
<1>3. QED BY <1>1, <1>2, ImportOrders, PTL DEF OrderSpec

(* Every variable keeps its type; the climb never leaves the file.         *)
THEOREM TypeCorrect == Spec => []OrderTypeOK
<1>1. IInv => OrderTypeOK
  BY DEF IInv
<1>2. QED BY <1>1, Invariance, PTL

(* parents[i] < i, and the parent is the nearest joint above               *)
(* (glb.cpp:825-828), whatever order the skin lists its joints in and      *)
(* however many other nodes lie between them.                              *)
THEOREM ParentsComeFirst == Spec => []ParentsFirst
<1>1. IInv => ParentsFirst
  <2> SUFFICES ASSUME IInv, phase = "done"
               PROVE  /\ Len(parents) = Len(joints)
                      /\ \A i \in DOMAIN parents :
                           /\ parents[i] < i
                           /\ NearestJoint(joints[i]) =
                                IF parents[i] = 0 THEN {} ELSE {joints[parents[i]]}
    BY DEF ParentsFirst
  <2>1. OrderTypeOK /\ Linking
    BY DEF IInv
  <2>2. Len(parents) = Len(joints)
    <3>1. Len(parents) = at - 1 /\ ~(at <= Len(joints))
      BY <2>1 DEF Linking, AtJoint
    <3>2. QED BY <2>1, <3>1, ListFacts DEF OrderTypeOK
  <2>3. ASSUME NEW i \in DOMAIN parents
        PROVE  /\ parents[i] < i
               /\ NearestJoint(joints[i]) =
                    IF parents[i] = 0 THEN {} ELSE {joints[parents[i]]}
    <3>1. LinkedTo(i)
      BY <2>1, <2>3 DEF Linking
    <3>2. joints[i] \in Nodes
      BY <2>1, <2>2, <2>3, ListFacts
    <3>3. Nearest[joints[i]] = NearestJoint(joints[i])
      BY <3>2 DEF Nearest, Visited, NearestJoint
    <3>4. QED BY <3>1, <3>3 DEF LinkedTo
  <2>4. QED BY <2>2, <2>3
<1>2. QED BY <1>1, Invariance, PTL

(* The error of glb.cpp:798 is raised only for a cycle of joints.          *)
THEOREM CyclesAreReal == Spec => []CycleIsReal
<1>1. IInv => CycleIsReal
  <2> SUFFICES ASSUME IInv, phase = "cycle"
               PROVE  \E C \in SUBSET Joints :
                        C # {} /\ \A n \in C : NearestJoint(n) \cap C # {}
    BY DEF CycleIsReal
  <2>1. Left # {} /\ \A n \in Left : Nearest[n] \cap Left # {}
    BY DEF IInv, Circle
  <2>2. Left \in SUBSET Joints
    BY DEF Left
  <2>3. ASSUME NEW n \in Left
        PROVE  NearestJoint(n) \cap Left # {}
    <3>1. n \in Nodes
      BY <2>2, ListFacts DEF IInv
    <3>2. Nearest[n] = NearestJoint(n)
      BY <3>1 DEF Nearest, Visited, NearestJoint
    <3>3. QED BY <2>1, <3>2
  <2>4. QED BY <2>1, <2>2, <2>3
<1>2. QED BY <1>1, Invariance, PTL

(* The ordering is a permutation of the skin's list, and the list itself   *)
(* if parents come first in it.                                            *)
THEOREM OrderIsKept == Spec => OrderKept
<1> DEFINE Keeps ==
      phase = "order" /\ phase' = "link" =>
        /\ ToSet(joints') = Joints
        /\ Len(joints') = Len(joints)
        /\ ParentsListedFirst(joints) => joints' = joints
<1>1. ASSUME IInv, [OrderNext]_orderVars
      PROVE  [Keeps]_orderVars
  <2> SUFFICES ASSUME phase = "order", phase' = "link"
               PROVE  /\ ToSet(joints') = Joints
                      /\ Len(joints') = Len(joints)
                      /\ ParentsListedFirst(joints) => joints' = joints
    OBVIOUS
  <2>1. Ordered
    BY <1>1 DEF OrderNext, orderVars, Skip, Climb, Place, Wait, NextPass, GiveUp,
                Link, LinkFails, Linked
  <2>2. /\ joints' = ordered /\ ToSet(ordered) = Joints
        /\ Len(ordered) = Len(joints) /\ ~AtJoint
    BY <1>1, <2>1, OrderedFacts DEF Ordered, PassOver
  <2>3. ASSUME ParentsListedFirst(joints)
        PROVE  ordered = joints
    <3>1. OrderTypeOK /\ Straight
      BY <1>1 DEF IInv
    <3>2. \A i \in DOMAIN joints : Nearest[joints[i]] = NearestJoint(joints[i])
      BY <3>1, ListFacts DEF Nearest, Visited, NearestJoint
    <3>3. InOrder(joints)
      BY <2>3, <3>2 DEF ParentsListedFirst, InOrder, Earlier
    <3>4. Len(ordered) = at - 1 /\ \A k \in 1 .. at - 1 : ordered[k] = joints[k]
      BY <3>1, <3>3 DEF Straight
    <3>5. QED BY <2>2, <3>1, <3>4, ListFacts DEF OrderTypeOK
  <2>4. QED BY <2>2, <2>3
<1>2. QED BY <1>1, Invariance, ImportOrders, PTL DEF OrderSpec, OrderKept
-----------------------------------------------------------------------------
(* The skeleton as written for the generator and read back.                *)

(* Where the joints rest is listed along with their parents.               *)
RestFollows ==
  /\ rest \in Seq(Places)
  /\ Len(rest) = Len(parents)
  /\ Len(joints) <= MaxJoints

LEMMA InitFollows ==
  ASSUME Init
  PROVE  RestFollows
<1>1. PICK file \in Files : joints = file.skin
  BY DEF Init, OrderInit
<1>2. Len(joints) <= MaxJoints
  BY <1>1, SkeletonRoundTripAssumption
<1>3. rest = <<>> /\ parents = <<>>
  BY DEF Init, OrderInit
<1>4. QED BY <1>2, <1>3 DEF RestFollows

LEMMA NextFollows ==
  ASSUME IInv, RestFollows, [Next]_vars
  PROVE  RestFollows'
<1>1. CASE OrderAndLink /\ UNCHANGED rest
  <2>1. parents' = parents /\ rest' = rest
    BY <1>1 DEF OrderAndLink, Skip, Climb, Place, Wait, NextPass, GiveUp, Ordered,
                LinkFails, Linked
  <2>2. Len(joints') = Len(joints)
    <3>1. joints' = joints \/ Ordered
      BY <1>1 DEF OrderAndLink, Skip, Climb, Place, Wait, NextPass, GiveUp,
                  LinkFails, Linked
    <3>2. QED BY <3>1 DEF Ordered
  <2>3. QED BY <2>1, <2>2 DEF RestFollows
<1>2. ASSUME NEW place \in Places, LinkAt(place)
      PROVE  RestFollows'
  <2>1. /\ parents' = Append(parents, JointAbove) /\ rest' = Append(rest, place)
        /\ joints' = joints
    BY <1>2 DEF LinkAt, Link
  <2>2. parents \in Seq(Nat) /\ parents' \in Seq(Nat)
    <3>1. IInv'
      BY <1>2, LinkInvariant DEF LinkAt
    <3>2. QED BY <3>1 DEF IInv, OrderTypeOK
  <2>3. Len(parents') = Len(parents) + 1
    BY <2>1, <2>2
  <2>4. rest' \in Seq(Places) /\ Len(rest') = Len(rest) + 1
    BY <1>2, <2>1, AppendFacts DEF RestFollows
  <2>5. QED BY <2>1, <2>3, <2>4 DEF RestFollows
<1>3. CASE UNCHANGED vars
  BY <1>3 DEF RestFollows, vars, orderVars
<1>4. QED BY <1>1, <1>2, <1>3 DEF Next

(* What is written of an imported skeleton are cells in which the          *)
(* coordinates are tokens, every one but the first with an earlier one as  *)
(* its parent: the only root comes first, because parents do.              *)
LEMMA CellsToWrite ==
  ASSUME IInv, RestFollows, Imported
  PROVE  /\ CellsAndParents(Cells, Parents)
         /\ Len(rest) \in 1 .. MaxJoints /\ Len(Cells) = Len(rest)
         /\ DOMAIN rest = 1 .. Len(rest) /\ DOMAIN Cells = 1 .. Len(rest)
         /\ Parents \in [1 .. Len(rest) -> Int] /\ Parents[1] = -1
<1>1. PICK n \in Nat : n = Len(rest)
  BY DEF RestFollows
<1>2. n \in 1 .. MaxJoints /\ parents \in Seq(Nat) /\ Len(parents) = n
  <2>1. parents \in Seq(Nat) /\ joints \in Seq(Nodes) /\ at \in 1 .. Len(joints) + 1
    BY DEF IInv, OrderTypeOK
  <2>2. joints # <<>> /\ Len(parents) = at - 1 /\ ~(at <= Len(joints))
    BY DEF Imported, IInv, Distinct, Linking, AtJoint
  <2>3. Len(joints) \in Nat /\ Len(joints) # 0
    BY <2>1, <2>2
  <2>4. Len(parents) = Len(joints)
    BY <2>1, <2>2, <2>3
  <2>5. QED BY <1>1, <2>1, <2>3, <2>4, SkeletonRoundTripAssumption DEF RestFollows
<1>3. DOMAIN rest = 1 .. n /\ \A j \in 1 .. n : rest[j] \in Places
  BY <1>1 DEF RestFollows
<1>4. DOMAIN parents = 1 .. n /\ \A j \in 1 .. n : parents[j] \in Nat
  BY <1>2
<1>5. /\ Parents = [j \in 1 .. n |-> parents[j] - 1]
      /\ \A j \in 1 .. n : Parents[j] = parents[j] - 1 /\ Parents[j] \in Int
  BY <1>4 DEF Parents
<1>6. \A j \in 1 .. n : Parents[j] < j - 1
  BY <1>4 DEF Imported, Valid
<1>7. PICK root : {j \in 1 .. n : Parents[j] = -1} = {root}
  <2>1. Cardinality({j \in 1 .. n : Parents[j] = -1}) = 1
    BY <1>4 DEF Imported, Valid
  <2>2. IsFiniteSet({j \in 1 .. n : Parents[j] = -1})
    <3>1. IsFiniteSet(1 .. n)
      BY FS_Interval
    <3>2. QED BY <3>1, FS_Subset
  <2>3. QED BY <2>1, <2>2, FS_Singleton
<1>8. 1 \in 1 .. n /\ Parents[1] = -1
  BY <1>2, <1>4, <1>5, <1>6
<1>9. root = 1
  BY <1>7, <1>8
<1>10. \A j \in 2 .. n : Parents[j] \in 0 .. j - 2
  <2> SUFFICES ASSUME NEW j \in 2 .. n
               PROVE  Parents[j] \in 0 .. j - 2
    OBVIOUS
  <2>1. j \in 1 .. n /\ j # 1
    OBVIOUS
  <2>2. Parents[j] # -1
    BY <1>7, <1>9, <2>1
  <2>3. parents[j] \in Nat /\ Parents[j] = parents[j] - 1 /\ Parents[j] < j - 1
    BY <1>4, <1>5, <1>6, <2>1
  <2>4. QED BY <2>2, <2>3
<1>11. \A j \in 1 .. n : \E x, y, z \in Coordinates : Cells[j] = <<x, y, z>>
  <2> SUFFICES ASSUME NEW j \in 1 .. n
               PROVE  \E x, y, z \in Coordinates : Cells[j] = <<x, y, z>>
    OBVIOUS
  <2>1. \A axis \in 1 .. 3 : Discrete(rest[j][axis]) \in Coordinates
    BY <1>3, SkeletonRoundTripAssumption
  <2>2. /\ Discrete(rest[j][1]) \in Coordinates /\ Discrete(rest[j][2]) \in Coordinates
        /\ Discrete(rest[j][3]) \in Coordinates
    BY <2>1
  <2>3. Cells[j] = <<Discrete(rest[j][1]), Discrete(rest[j][2]), Discrete(rest[j][3])>>
    BY <1>3 DEF Cells
  <2>4. QED BY <2>2, <2>3
<1>12. DOMAIN Cells = 1 .. n /\ Cells \in [1 .. n -> Seq(Nat)]
  <2>1. DOMAIN Cells = 1 .. n
    BY <1>3 DEF Cells
  <2>2. \A j \in 1 .. n : Cells[j] \in Seq(Nat)
    <3> SUFFICES ASSUME NEW j \in 1 .. n
                 PROVE  Cells[j] \in Seq(Nat)
      OBVIOUS
    <3>1. PICK x \in Coordinates, y \in Coordinates, z \in Coordinates :
            Cells[j] = <<x, y, z>>
      BY <1>11
    <3>2. x \in Nat /\ y \in Nat /\ z \in Nat
      BY SkeletonTokensAssumption
    <3>3. QED BY <3>1, <3>2
  <2>3. Cells = [j \in 1 .. n |-> Cells[j]]
    BY <1>3 DEF Cells
  <2>4. QED BY <2>1, <2>2, <2>3
<1>13. Cells \in Seq(Seq(Nat)) /\ Len(Cells) = n
  BY <1>12, SequenceOf
<1>14. CellsAndParents(Cells, Parents)
  BY <1>2, <1>10, <1>11, <1>13 DEF CellsAndParents
<1>15. QED BY <1>1, <1>2, <1>3, <1>5, <1>8, <1>12, <1>13, <1>14

(* The cells are the rest positions, rounded.                              *)
LEMMA CellsAreRounded ==
  ASSUME IInv, RestFollows, Imported, NEW i \in DOMAIN rest, NEW axis \in 1 .. 3
  PROVE  rest[i][axis] \in Positions /\ Cells[i][axis] = Discrete(rest[i][axis])
<1>1. rest[i] \in Places
  BY DEF RestFollows
<1>2. rest[i][axis] \in Positions
  BY <1>1, SkeletonRoundTripAssumption
<1>3. Cells[i] = <<Discrete(rest[i][1]), Discrete(rest[i][2]), Discrete(rest[i][3])>>
  BY DEF Cells
<1>4. axis = 1 \/ axis = 2 \/ axis = 3
  OBVIOUS
<1>5. Cells[i][axis] = Discrete(rest[i][axis])
  BY <1>3, <1>4
<1>6. QED BY <1>2, <1>5

(* load_skeleton_document knows where a joint rests, at a place tokens can *)
(* say, as soon as it knows its parent (glb.cpp:822-831).                  *)
THEOREM RestIsListed == Spec => []RestFollows
<1>1. Init => RestFollows
  BY InitFollows
<1>2. IInv /\ RestFollows /\ [Next]_vars => RestFollows'
  BY NextFollows
<1>3. QED BY <1>1, <1>2, Invariance, PTL DEF Spec

(* Whatever file was imported, the prefix written for it is one that the   *)
(* generator's mask allows token by token and its parser accepts to the    *)
(* end, counting its joints (qwen.cpp:261-325).                            *)
THEOREM SpeaksGrammar == Spec => []TokenizerSpeaksGrammar
<1>1. IInv /\ RestFollows => TokenizerSpeaksGrammar
  <2> SUFFICES ASSUME IInv, RestFollows, Imported
               PROVE  /\ Parse(Tokens).ended /\ Parse(Tokens).state # "error"
                      /\ Parse(Tokens).joints = Len(rest)
                      /\ \A i \in DOMAIN Tokens :
                           Tokens[i] \in Allowed(Parse(SubSeq(Tokens, 1, i - 1)))
    BY DEF TokenizerSpeaksGrammar
  <2>1. CellsAndParents(Cells, Parents) /\ Len(Cells) = Len(rest)
    BY CellsToWrite
  <2>2. /\ Spoken(Tokens) /\ Parse(Tokens).ended /\ Parse(Tokens).state # "error"
        /\ Parse(Tokens).joints = Len(rest)
    BY <2>1, WriterSpeaksGrammar DEF Tokens
  <2>3. ASSUME NEW i \in DOMAIN Tokens
        PROVE  Tokens[i] \in Allowed(Parse(SubSeq(Tokens, 1, i - 1)))
    <3>1. Tokens \in Seq(Nat)
      BY <2>2 DEF Spoken
    <3>2. i \in 1 .. Len(Tokens)
      BY <3>1, LenProperties
    <3>3. Tokens[i] \in Allowed(ParsedTo(Tokens, i - 1))
      BY <2>2, <3>2 DEF Spoken
    <3>4. QED BY <3>3 DEF ParsedTo, Prefix
  <2>4. QED BY <2>2, <2>3
<1>2. QED BY <1>1, Invariance, RestIsListed, PTL

(* Whatever file was imported, reading the prefix back gives its joints in *)
(* order, moved up by at most a cell (down by at most half of one at the   *)
(* upper end), under parents in the same cell, and under the same parents  *)
(* when no two joints share a cell (tokenizer.cpp:90-140).                 *)
THEOREM ReadsBack == Spec => []RoundTrip
<1>1. IInv /\ RestFollows => RoundTrip
  <2> SUFFICES ASSUME IInv, RestFollows, Imported
               PROVE  LET reader == Reader
                          cells == Cells
                      IN /\ reader.ok /\ Len(reader.cells) = Len(rest)
                         /\ reader.parents[1] = -1
                         /\ \A i \in DOMAIN rest, axis \in 1 .. 3 :
                              LET moved == Coordinate(reader.cells[i][axis]) - rest[i][axis]
                              IN IF rest[i][axis] > 1022
                                 THEN moved \in -2 .. -1 ELSE moved \in 0 .. 4
                         /\ \A i \in 2 .. Len(rest) :
                              /\ reader.parents[i] \in 0 .. i - 2
                              /\ cells[reader.parents[i] + 1] = cells[Parents[i] + 1]
                         /\ IsInjective(cells) => reader.parents = Parents
    BY DEF RoundTrip
  <2>1. PICK n \in Nat : n = Len(rest) /\ n \in 1 .. MaxJoints
    <3>1. Len(rest) \in 1 .. MaxJoints
      BY CellsToWrite
    <3>2. QED BY <3>1, SkeletonRoundTripAssumption
  <2>2. /\ CellsAndParents(Cells, Parents) /\ Len(Cells) = n
        /\ DOMAIN rest = 1 .. n /\ DOMAIN Cells = 1 .. n
        /\ Parents \in [1 .. n -> Int] /\ Parents[1] = -1
    BY <2>1, CellsToWrite
  <2>3. PICK r : r = Reader
    OBVIOUS
  <2>4. r.ok /\ JointsRead(Cells, Parents, r.cells, r.parents, n)
    <3>1. MaxJoints \in Nat /\ n <= MaxJoints
      BY <2>1, SkeletonRoundTripAssumption
    <3>2. Reader.ok /\ JointsRead(Cells, Parents, Reader.cells, Reader.parents, Len(Cells))
      BY <2>2, <3>1, ReaderReadsWriter DEF Reader, Tokens
    <3>3. QED BY <2>2, <2>3, <3>2
  <2>5. /\ Len(r.cells) = n /\ r.parents[1] = -1
        /\ \A i \in 1 .. n : r.cells[i] = Cells[i]
        /\ r.parents \in Seq(Int) /\ Len(r.parents) = n
        /\ \A i \in 2 .. n : /\ r.parents[i] \in 0 .. i - 2
                             /\ Cells[r.parents[i] + 1] = Cells[Parents[i] + 1]
    BY <2>1, <2>4 DEF JointsRead
  <2>6. ASSUME NEW i \in DOMAIN rest, NEW axis \in 1 .. 3
        PROVE  LET moved == Coordinate(r.cells[i][axis]) - rest[i][axis]
               IN IF rest[i][axis] > 1022 THEN moved \in -2 .. -1 ELSE moved \in 0 .. 4
    <3>1. r.cells[i][axis] = Discrete(rest[i][axis]) /\ rest[i][axis] \in Positions
      BY <2>2, <2>5, CellsAreRounded
    <3>2. QED BY <3>1, Moved
  <2>7. ASSUME IsInjective(Cells)
        PROVE  r.parents = Parents
    <3>1. \A i \in 1 .. n : r.parents[i] = Parents[i]
      <4> SUFFICES ASSUME NEW i \in 1 .. n, i # 1
                   PROVE  r.parents[i] = Parents[i]
        BY <2>2, <2>5
      <4>1. i \in 2 .. n
        OBVIOUS
      <4>2. Parents[i] \in 0 .. i - 2
        BY <2>2, <4>1 DEF CellsAndParents
      <4>3. r.parents[i] \in 0 .. i - 2 /\ Cells[r.parents[i] + 1] = Cells[Parents[i] + 1]
        BY <2>5, <4>1
      <4>4. r.parents[i] + 1 \in DOMAIN Cells /\ Parents[i] + 1 \in DOMAIN Cells
        BY <2>2, <4>1, <4>2, <4>3
      <4>5. r.parents[i] + 1 = Parents[i] + 1
        BY <2>7, <4>3, <4>4 DEF IsInjective
      <4>6. QED BY <4>2, <4>3, <4>5
    <3>2. DOMAIN r.parents = 1 .. n /\ r.parents = [i \in DOMAIN r.parents |-> r.parents[i]]
      BY <2>5
    <3>3. QED BY <2>2, <3>1, <3>2
  <2>8. QED BY <2>1, <2>3, <2>4, <2>5, <2>6, <2>7
<1>2. QED BY <1>1, Invariance, RestIsListed, PTL
=============================================================================
