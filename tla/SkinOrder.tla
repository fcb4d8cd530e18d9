----------------------------- MODULE SkinOrder -----------------------------
(* The skeleton of a GLB file: src/glb.cpp, load_skeleton_document. A skin  *)
(* lists its joints in any order, and between two joints of the hierarchy  *)
(* there may be nodes that are no joints. The code puts parents before     *)
(* children by repeated passes over the list, then links every joint to    *)
(* the nearest joint above it. All later code (generation, fitting,        *)
(* posing) relies on parents[i] < i.                                       *)
EXTENDS Integers, SequencesExt

CONSTANTS
  Nodes,   (* nodes of the file                                            *)
  None,    (* parent of a node without parent (-1)                         *)
  Files    (* files to load: [above, skin]                                 *)

(* A file as it is after the checks of lines 741-778: children name nodes, *)
(* a node has at most one parent, the skin's list is not empty and names   *)
(* no joint twice. Nothing there keeps a node from being its own ancestor. *)
ASSUME SkinOrderAssumption ==
  /\ None \notin Nodes
  /\ IsFiniteSet(Nodes)
  /\ \A file \in Files :
       /\ file.above \in [Nodes -> Nodes \cup {None}]
       /\ file.skin \in Seq(Nodes) \ {<<>>}
       /\ IsInjective(file.skin)

VARIABLES
  above,     (* node_parents                                               *)
  joints,    (* joint_nodes                                                *)
  ordered,   (* ordered_joints; its members are those with added set       *)
  before,    (* ordered_joints.size() when the pass began                  *)
  at,        (* position in joints of the joint at hand                    *)
  up,        (* parent_node: how far the climb from it has come            *)
  parents,   (* rig.parents, 0 for a root                                  *)
  phase      (* "order", "link", "done", or the errors "cycle", "unusable" *)

orderVars == <<above, joints, ordered, before, at, up, parents, phase>>

Joints == ToSet(joints)
Added == ToSet(ordered)

(* The climb is over: a joint, or nothing above.                           *)
Arrived == up = None \/ up \in Joints

(* Go to position k of a list and begin the climb from there.              *)
GoTo(list, k) ==
  /\ at' = k
  /\ up' = IF k <= Len(list) THEN above[list[k]] ELSE None

OrderInit ==
  /\ \E file \in Files : above = file.above /\ joints = file.skin
  /\ ordered = <<>>
  /\ before = 0
  /\ at = 1
  /\ up = above[joints[1]]
  /\ parents = <<>>
  /\ phase = "order"

AtJoint == at <= Len(joints)

(* Fault: a joint placed in an earlier pass is placed once more.           *)
PlaceAgain ==
  /\ phase = "order" /\ AtJoint
  /\ joints[at] \in Added
  /\ ordered' = Append(ordered, joints[at])
  /\ GoTo(joints, at + 1)
  /\ UNCHANGED <<above, joints, before, parents, phase>>

(* A joint placed in an earlier pass.                                      *)
Skip ==
  /\ phase = "order" /\ AtJoint
  /\ joints[at] \in Added
  /\ GoTo(joints, at + 1)
  /\ UNCHANGED <<above, joints, ordered, before, parents, phase>>

(* One step of the climb past a node that is no joint.                     *)
Climb ==
  /\ \/ phase = "order" /\ AtJoint /\ joints[at] \notin Added
     \/ phase = "link" /\ AtJoint
  /\ ~Arrived
  /\ up' = above[up]
  /\ UNCHANGED <<above, joints, ordered, before, at, parents, phase>>

(* Fault: any joint above will do, placed or not.                          *)
PlaceAnyway ==
  /\ phase = "order" /\ AtJoint
  /\ joints[at] \notin Added
  /\ Arrived
  /\ ordered' = Append(ordered, joints[at])
  /\ GoTo(joints, at + 1)
  /\ UNCHANGED <<above, joints, before, parents, phase>>

(* The joint's nearest joint above has been placed, or there is none.      *)
Place ==
  /\ phase = "order" /\ AtJoint
  /\ joints[at] \notin Added
  /\ up = None \/ up \in Added
  /\ ordered' = Append(ordered, joints[at])
  /\ GoTo(joints, at + 1)
  /\ UNCHANGED <<above, joints, before, parents, phase>>

(* It has not: left for the next pass.                                     *)
Wait ==
  /\ phase = "order" /\ AtJoint
  /\ joints[at] \notin Added
  /\ up \in Joints \ Added
  /\ GoTo(joints, at + 1)
  /\ UNCHANGED <<above, joints, ordered, before, parents, phase>>

PassOver == phase = "order" /\ ~AtJoint

(* Fault: a pass that placed no joint is followed by another.              *)
NextPassAlways ==
  /\ PassOver
  /\ Len(ordered) # Len(joints)
  /\ before' = Len(ordered)
  /\ GoTo(joints, 1)
  /\ UNCHANGED <<above, joints, ordered, parents, phase>>

NextPass ==
  /\ PassOver
  /\ Len(ordered) \notin {before, Len(joints)}
  /\ before' = Len(ordered)
  /\ GoTo(joints, 1)
  /\ UNCHANGED <<above, joints, ordered, parents, phase>>

(* Fault: a pass that leaves joints over is taken for a cycle at once.     *)
GiveUpEarly ==
  /\ PassOver
  /\ Len(ordered) # Len(joints)
  /\ phase' = "cycle"
  /\ UNCHANGED <<above, joints, ordered, before, at, up, parents>>

(* "skin joint hierarchy contains a cycle"                                 *)
GiveUp ==
  /\ PassOver
  /\ Len(ordered) = before
  /\ phase' = "cycle"
  /\ UNCHANGED <<above, joints, ordered, before, at, up, parents>>

(* joint_nodes = std::move(ordered_joints), and node_to_joint is renewed.  *)
Ordered ==
  /\ PassOver
  /\ Len(ordered) = Len(joints)
  /\ joints' = ordered
  /\ ordered' = <<>>
  /\ GoTo(ordered, 1)
  /\ before' = 0
  /\ phase' = "link"
  /\ UNCHANGED <<above, parents>>

(* node_to_joint of the end of the climb.                                  *)
JointAbove == IF up = None THEN 0 ELSE CHOOSE i \in DOMAIN joints : joints[i] = up

Link ==
  /\ phase = "link" /\ AtJoint
  /\ Arrived
  /\ parents' = Append(parents, JointAbove)
  /\ GoTo(joints, at + 1)
  /\ UNCHANGED <<above, joints, ordered, before, phase>>

(* The matrix of the joint's node, or of one above it that is no joint, is *)
(* of no use. (A cycle, which global_transform looks for as well, it never *)
(* finds: no joint would have been placed on one or below it.)             *)
LinkFails ==
  /\ phase = "link" /\ AtJoint
  /\ Arrived
  /\ phase' = "unusable"
  /\ UNCHANGED <<above, joints, ordered, before, at, up, parents>>

Linked ==
  /\ phase = "link" /\ ~AtJoint
  /\ phase' = "done"
  /\ UNCHANGED <<above, joints, ordered, before, at, up, parents>>

OrderNext ==
  \/ Skip \/ Climb \/ Place \/ Wait
  \/ NextPass \/ GiveUp \/ Ordered
  \/ Link \/ LinkFails \/ Linked

OrderSpec == OrderInit /\ [][OrderNext]_orderVars
-----------------------------------------------------------------------------
(* What a climb from n may visit: the least set of nodes that holds n's    *)
(* parent and, for each member that is no joint, that member's parent.     *)
Closed(n, S) ==
  /\ above[n] \in S
  /\ \A m \in S \cap Nodes : m \notin Joints => above[m] \in S

Reached(n) ==
  {m \in Nodes \cup {None} : \A S \in SUBSET (Nodes \cup {None}) : Closed(n, S) => m \in S}

(* The nearest joint above n, as a set of at most one.                     *)
NearestJoint(n) == Reached(n) \cap Joints

OrderTypeOK ==
  /\ above \in [Nodes -> Nodes \cup {None}]
  /\ joints \in Seq(Nodes)
  /\ ordered \in Seq(Nodes)
  /\ before \in Nat
  /\ at \in 1 .. Len(joints) + 1
  /\ up \in Nodes \cup {None}
  /\ parents \in Seq(Nat)
  /\ phase \in {"order", "link", "done", "cycle", "unusable"}

(* A loaded skeleton has every joint of the skin once, each linked to the  *)
(* nearest joint above it in the file, and that one has a smaller index:   *)
(* "normalize arbitrary valid skins" (glb.cpp:781), on which validate,     *)
(* posing and generation rely.                                             *)
ParentsFirst ==
  phase = "done" =>
    /\ Len(parents) = Len(joints)
    /\ \A i \in DOMAIN parents :
         /\ parents[i] < i
         /\ NearestJoint(joints[i]) =
              IF parents[i] = 0 THEN {} ELSE {joints[parents[i]]}

(* "contains a cycle" is said only of joints that really are each below    *)
(* another of them, whatever order the skin lists them in.                 *)
CycleIsReal ==
  phase = "cycle" =>
    \E C \in SUBSET Joints : C # {} /\ \A n \in C : NearestJoint(n) \cap C # {}

ParentsListedFirst(list) ==
  \A i \in DOMAIN list : NearestJoint(list[i]) \subseteq {list[k] : k \in 1 .. i - 1}

(* Putting parents first neither loses nor adds a joint, and a skin that   *)
(* lists parents first keeps its order, which weights and tokens follow.   *)
OrderKept ==
  [][phase = "order" /\ phase' = "link" =>
       /\ ToSet(joints') = Joints
       /\ Len(joints') = Len(joints)
       /\ ParentsListedFirst(joints) => joints' = joints]_orderVars

(* A joint above which the nodes that are no joints run in a circle.       *)
Endless == \E n \in Joints : Reached(n) \cap (Joints \cup {None}) = {}

(* Every other file is loaded or refused, cycles of joints included. The   *)
(* exception is real: from such a joint the inner loop (glb.cpp:791) never *)
(* returns.                                                                *)
Terminates == Endless \/ <>(phase \in {"done", "cycle", "unusable"})
=============================================================================
