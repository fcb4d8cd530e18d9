------------------------- MODULE RigGenerationProofs -------------------------
(***************************************************************************)
(* Proofs about RigGeneration for every number of beams, every token and   *)
(* joint limit and every choice of the tokens in play.                     *)
(***************************************************************************)
EXTENDS RigGeneration, SkeletonTokensProofs

-----------------------------------------------------------------------------
(* The inductive invariant.                                                *)

(* A live beam is in the language: the grammar's before the switch, with   *)
(* a whole skeleton in front after it.                                     *)
Beam(path) ==
  /\ path \in Seq(Nat)
  /\ Len(path) >= 2 /\ path[1] = Bos /\ path[2] = Articulation
  /\ \A i \in 1 .. Len(path) : path[i] # Eos
  /\ ~Switched(path) =>
       /\ Parse(path).state \in {"part_or_joint", "joint_2", "joint_3", "between", "joint"}
       /\ ~Parse(path).ended
  /\ Switched(path) => WellFormed(SkeletonOf(path))

(* A finished beam is a live one that lacked just the last code.           *)
Completed(path) ==
  \E q \in Seq(Nat) :
    /\ Beam(q) /\ Switched(q)
    /\ Parse(SkeletonOf(q)).joints \in 1 .. MaxJoints
    /\ Len(CodesOf(q)) + 1 = 4 * Parse(SkeletonOf(q)).joints
    /\ path = Append(q, Eos)

Beams ==
  /\ active \in Seq(Seq(Nat)) /\ Len(active) \in 1 .. MaxBeams
  /\ \A i \in 1 .. Len(active) : Beam(active[i]) /\ Len(active[i]) = Len(active[1])
  /\ IsInjective(active)

Result ==
  phase = "done" =>
    /\ WellFormed(output.skeleton)
    /\ output.joints = Parse(output.skeleton).joints
    /\ output.joints \in 1 .. MaxJoints
    /\ Len(output.codes) = 4 * output.joints
    /\ DOMAIN output.codes = 1 .. Len(output.codes)
    /\ \A i \in DOMAIN output.codes :
         output.codes[i] = Eos - FirstSkin <=> i = Len(output.codes)

IInv ==
  /\ Beams
  /\ \A path \in finished : Completed(path)
  /\ phase \in {"prompt", "generate", "return", "done", "failed"}
  /\ error \in {"none", "compute", "incomplete_generation"}
  /\ Result
-----------------------------------------------------------------------------
(* Where a path is split.                                                  *)

LEMMA SkeletonIs ==
  ASSUME NEW path \in Seq(Nat), NEW k \in 1 .. Len(path), path[k] = End,
         \A j \in 1 .. k - 1 : path[j] # End
  PROVE  Switched(path) /\ SkeletonOf(path) = SubSeq(path, 1, k)
<1> DEFINE First(i) == path[i] = End /\ \A j \in 1 .. i - 1 : path[j] # End
<1>1. DOMAIN path = 1 .. Len(path) /\ Len(path) \in Nat
  BY LenProperties
<1>2. First(k) /\ k \in DOMAIN path
  BY <1>1
<1>3. \A i \in DOMAIN path : First(i) => i = k
  BY <1>1, <1>2
<1> HIDE DEF First
<1>4. (CHOOSE i \in DOMAIN path : First(i)) = k
  BY <1>2, <1>3
<1>5. Switched(path)
  BY <1>2 DEF Switched
<1> QED
  BY <1>4, <1>5 DEF SkeletonOf, First

LEMMA SwitchAt ==
  ASSUME NEW path \in Seq(Nat), Switched(path)
  PROVE  \E k \in 1 .. Len(path) : path[k] = End /\ \A j \in 1 .. k - 1 : path[j] # End
<1>1. DOMAIN path = 1 .. Len(path) /\ Len(path) \in Nat
  BY LenProperties
<1>2. PICK m \in 1 .. Len(path) : path[m] = End
  BY <1>1 DEF Switched
<1> DEFINE S == {i \in 1 .. Len(path) : path[i] = End}
<1>3. m \in S /\ m \in Nat
  BY <1>2
<1> HIDE DEF S
<1>4. PICK k \in Nat : k \in S /\ \A i \in 0 .. k - 1 : i \notin S
  BY <1>3, Least
<1>5. k \in 1 .. Len(path) /\ path[k] = End
  BY <1>4 DEF S
<1>6. ASSUME NEW j \in 1 .. k - 1
      PROVE  path[j] # End
  <2>1. j \in 0 .. k - 1 /\ j \in 1 .. Len(path)
    BY <1>1, <1>5
  <2> QED
    BY <1>4, <2>1 DEF S
<1> QED
  BY <1>5, <1>6

LEMMA NotSwitched ==
  ASSUME NEW path \in Seq(Nat)
  PROVE  ~Switched(path) <=> \A i \in 1 .. Len(path) : path[i] # End
BY LenProperties DEF Switched

(* The parts of a path that has switched.                                  *)
LEMMA PartsOf ==
  ASSUME NEW path \in Seq(Nat), Switched(path)
  PROVE  \E k \in 1 .. Len(path) :
           /\ path[k] = End /\ \A j \in 1 .. k - 1 : path[j] # End
           /\ SkeletonOf(path) = SubSeq(path, 1, k) /\ Len(SkeletonOf(path)) = k
           /\ CodesOf(path) \in Seq(Nat) /\ Len(CodesOf(path)) = Len(path) - k
           /\ \A i \in 1 .. Len(path) - k : CodesOf(path)[i] = path[k + i]
<1>1. Len(path) \in Nat /\ \A i \in 1 .. Len(path) : path[i] \in Nat
  BY LenProperties, ElementOfSeq
<1>2. PICK k \in 1 .. Len(path) : path[k] = End /\ \A j \in 1 .. k - 1 : path[j] # End
  BY SwitchAt
<1>3. SkeletonOf(path) = SubSeq(path, 1, k)
  BY <1>2, SkeletonIs
<1>4. Len(SubSeq(path, 1, k)) = k
  <2>1. \A i \in 1 .. k : path[i] \in Nat
    BY <1>1
  <2> QED
    BY <1>1, <2>1, SubSeqProperties
<1>5. CodesOf(path) = SubSeq(path, k + 1, Len(path))
  BY <1>3, <1>4 DEF CodesOf
<1>6. /\ SubSeq(path, k + 1, Len(path)) \in Seq(Nat)
      /\ Len(SubSeq(path, k + 1, Len(path))) = Len(path) - k
      /\ \A i \in 1 .. Len(path) - k : SubSeq(path, k + 1, Len(path))[i] = path[k + i]
  <2> DEFINE rest == SubSeq(path, k + 1, Len(path))
  <2>1. \A i \in k + 1 .. Len(path) : path[i] \in Nat
    BY <1>1
  <2>2. k + 1 \in Int /\ Len(path) \in Int
    BY <1>1
  <2>3. /\ rest \in Seq(Nat)
        /\ Len(rest) = IF k + 1 <= Len(path) THEN Len(path) - (k + 1) + 1 ELSE 0
        /\ \A i \in 1 .. Len(path) - (k + 1) + 1 : rest[i] = path[(k + 1) + i - 1]
    BY <2>1, <2>2, SubSeqProperties
  <2> HIDE DEF rest
  <2>4. Len(rest) = Len(path) - k
    BY <1>1, <2>3
  <2>5. ASSUME NEW i \in 1 .. Len(path) - k
        PROVE  rest[i] = path[k + i]
    <3>1. i \in 1 .. Len(path) - (k + 1) + 1 /\ (k + 1) + i - 1 = k + i
      BY <1>1
    <3> QED
      BY <2>3, <3>1
  <2> QED
    BY <2>3, <2>4, <2>5 DEF rest
<1> QED
  BY <1>2, <1>3, <1>4, <1>5, <1>6

(* A token after the switch is one more code.                              *)
LEMMA CodeAppended ==
  ASSUME NEW path \in Seq(Nat), Switched(path), NEW id \in Nat
  PROVE  LET longer == Append(path, id)
         IN /\ Switched(longer)
            /\ SkeletonOf(longer) = SkeletonOf(path)
            /\ CodesOf(longer) = Append(CodesOf(path), id)
<1> DEFINE longer == Append(path, id)
<1>1. /\ longer \in Seq(Nat) /\ Len(longer) = Len(path) + 1 /\ Len(path) \in Nat
      /\ \A i \in 1 .. Len(path) : longer[i] = path[i]
      /\ longer[Len(path) + 1] = id
  BY AppendProperties, LenProperties
<1> HIDE DEF longer
<1>2. PICK k \in 1 .. Len(path) :
           /\ path[k] = End /\ \A j \in 1 .. k - 1 : path[j] # End
           /\ SkeletonOf(path) = SubSeq(path, 1, k) /\ Len(SkeletonOf(path)) = k
           /\ CodesOf(path) \in Seq(Nat) /\ Len(CodesOf(path)) = Len(path) - k
           /\ \A i \in 1 .. Len(path) - k : CodesOf(path)[i] = path[k + i]
  BY PartsOf
<1>3. k \in 1 .. Len(longer) /\ longer[k] = End /\ \A j \in 1 .. k - 1 : longer[j] # End
  <2>1. \A j \in 1 .. k - 1 : j \in 1 .. Len(path)
    BY <1>1
  <2>2. k \in 1 .. Len(longer)
    BY <1>1
  <2> QED
    BY <1>1, <1>2, <2>1, <2>2
<1>4. Switched(longer) /\ SkeletonOf(longer) = SubSeq(longer, 1, k)
  BY <1>1, <1>3, SkeletonIs
<1>5. SubSeq(longer, 1, k) = SubSeq(path, 1, k)
  <2>1. \A i \in 1 .. k : longer[i] = path[i] /\ longer[i] \in Nat /\ path[i] \in Nat
    BY <1>1, ElementOfSeq
  <2> DEFINE a == SubSeq(longer, 1, k)
             b == SubSeq(path, 1, k)
  <2>2. a \in Seq(Nat) /\ Len(a) = k /\ \A i \in 1 .. k : a[i] = longer[i]
    BY <2>1, SubSeqProperties
  <2>3. b \in Seq(Nat) /\ Len(b) = k /\ \A i \in 1 .. k : b[i] = path[i]
    BY <2>1, SubSeqProperties
  <2> HIDE DEF a, b
  <2>4. a = b
    BY <2>1, <2>2, <2>3, SeqEqual
  <2> QED
    BY <2>4 DEF a, b
<1>6. CodesOf(longer) = Append(CodesOf(path), id)
  <2>1. PICK m \in 1 .. Len(longer) :
           /\ SkeletonOf(longer) = SubSeq(longer, 1, m) /\ Len(SkeletonOf(longer)) = m
           /\ CodesOf(longer) \in Seq(Nat) /\ Len(CodesOf(longer)) = Len(longer) - m
           /\ \A i \in 1 .. Len(longer) - m : CodesOf(longer)[i] = longer[m + i]
    BY <1>1, <1>4, PartsOf
  <2>2. m = k
    BY <1>2, <1>4, <1>5, <2>1
  <2> DEFINE codes == CodesOf(path)
  <2>21. PICK n \in Nat : n = Len(path) - k
    <3>1. Len(path) \in Nat
      BY LenProperties
    <3> QED
      BY <3>1
  <2>3. /\ codes \in Seq(Nat) /\ Len(codes) = n /\ n \in Nat
        /\ \A i \in 1 .. n : codes[i] = path[k + i]
    BY <1>1, <1>2, <2>21
  <2> HIDE DEF codes
  <2>4. /\ Append(codes, id) \in Seq(Nat) /\ Len(Append(codes, id)) = n + 1
        /\ \A i \in 1 .. n : Append(codes, id)[i] = codes[i]
        /\ Append(codes, id)[n + 1] = id
    BY <2>3, AppendProperties
  <2>5. Len(CodesOf(longer)) = n + 1 /\ Len(longer) - m = n + 1
    BY <1>1, <2>1, <2>2, <2>21
  <2>6. ASSUME NEW i \in 1 .. n + 1
        PROVE  CodesOf(longer)[i] = Append(codes, id)[i]
    <3>1. CodesOf(longer)[i] = longer[k + i]
      BY <2>1, <2>2, <2>5
    <3>2. CASE i = n + 1
      <4>1. k + i = Len(path) + 1
        BY <1>1, <2>21, <3>2
      <4> QED
        BY <1>1, <2>4, <3>1, <3>2, <4>1
    <3>3. CASE i # n + 1
      <4>1. i \in 1 .. n /\ k + i \in 1 .. Len(path)
        <5>1. Len(path) \in Nat
          BY LenProperties
        <5> QED
          BY <2>21, <3>3, <5>1
      <4> QED
        BY <1>1, <2>3, <2>4, <3>1, <4>1
    <3> QED
      BY <3>2, <3>3
  <2>7. CodesOf(longer) = Append(codes, id)
    BY <2>1, <2>4, <2>5, <2>6, SeqEqual
  <2> QED
    BY <2>7 DEF codes
<1> QED
  BY <1>2, <1>4, <1>5, <1>6 DEF longer
-----------------------------------------------------------------------------
(* One more token on a live beam.                                          *)

Generating == {"part_or_joint", "joint_2", "joint_3", "between", "joint"}

LEMMA AllowedParses ==
  ASSUME NEW p \in ParserStates, p.state \in Generating, ~p.ended, NEW id \in Allowed(p)
  PROVE  /\ id \in Coordinates \cup Parts \cup {Branch, End}
         /\ Parsed(p, id).state \in Generating
         /\ Parsed(p, id).ended <=> id = End
<1>1. id \in Coordinates \cup Parts \cup {Branch, End}
  BY DEF Allowed, Generating
<1>2. id \in Coordinates => id < 256
  BY SkeletonTokensAssumption
<1>3. StateAfter(p.state, id) \in Generating
  <2>1. CASE id \in Coordinates
    BY <1>2, <2>1, SkeletonTokensAssumption
    DEF StateAfter, Generating, Bos, End, Branch, Classes
  <2>2. CASE id \in Parts
    <3>1. p.state \in {"part_or_joint", "between"}
      BY <2>2, SkeletonTokensAssumption DEF Allowed, Generating
    <3> QED
      BY <2>2, <3>1, SkeletonTokensAssumption
      DEF StateAfter, Generating, Bos, End, Branch, Classes
  <2>3. CASE id \in {Branch, End}
    <3>1. p.state = "between" \/ (p.state = "part_or_joint" /\ id = End)
      BY <2>3, SkeletonTokensAssumption DEF Allowed, Generating, Branch, End
    <3> QED
      BY <2>3, <3>1, SkeletonTokensAssumption
      DEF StateAfter, Generating, Bos, End, Branch, Classes
  <2> QED
    BY <1>1, <2>1, <2>2, <2>3
<1>4. Parsed(p, id).state = StateAfter(p.state, id)
  BY <1>3 DEF Parsed, Generating
<1>5. Parsed(p, id).state # "error"
  BY <1>3, <1>4 DEF Generating
<1>6. Parsed(p, id).ended <=> id = End
  BY <1>5, Accepted
<1> QED
  BY <1>1, <1>3, <1>4, <1>6

TokensInPlay == Coordinates \cup Parts \cup SkinTokens \cup {Branch, End, Eos}

LEMMA Numbering ==
  /\ End \in Nat /\ LastSkin \in Nat /\ Eos \in Nat
  /\ LastSkin < Eos
BY DEF End, LastSkin, Eos

LEMMA TokensAreNumbers == TokensInPlay \subseteq 0 .. Eos /\ TokensInPlay \subseteq Nat
<1>1. Coordinates \subseteq 0 .. Eos /\ Parts \subseteq 0 .. Eos
  <2>1. \A t \in Coordinates : t \in Nat /\ t <= Eos
    BY SkeletonTokensAssumption DEF Eos
  <2>2. \A t \in Parts : t \in Nat /\ t <= Eos
    BY SkeletonTokensAssumption DEF Eos
  <2>3. \A t \in Nat : t <= Eos => t \in 0 .. Eos
    <3>1. Eos \in Nat
      BY DEF Eos
    <3> QED
      BY <3>1
  <2> QED
    BY <2>1, <2>2, <2>3, Zenon
<1>2. SkinTokens \subseteq 0 .. Eos
  BY RigGenerationAssumption, Numbering
<1>3. {Branch, End, Eos} \subseteq 0 .. Eos
  BY DEF Branch, End, Eos
<1>4. 0 .. Eos \subseteq Nat
  BY DEF Eos
<1>5. TokensInPlay \subseteq 0 .. Eos
  BY <1>1, <1>2, <1>3 DEF TokensInPlay
<1> QED
  BY <1>4, <1>5

(* The state of a beam that has not switched.                              *)
LEMMA BeamState ==
  ASSUME NEW path, Beam(path), ~Switched(path), NEW id \in Nat
  PROVE  /\ Parse(path) \in ParserStates /\ Parse(path).state \in Generating
         /\ ~Parse(path).ended
         /\ Parse(Append(path, id)) = Parsed(Parse(path), id)
BY ParseAppend DEF Beam, Generating

LEMMA AllowedInPlay ==
  ASSUME NEW path, Beam(path)
  PROVE  AllowedAfter(path) \subseteq TokensInPlay
<1>1. CASE ~Switched(path)
  <2>1. AllowedAfter(path) = Allowed(Parse(path))
    BY <1>1 DEF AllowedAfter
  <2>2. Parse(path) \in ParserStates /\ Parse(path).state \in Generating /\ ~Parse(path).ended
    BY <1>1, BeamState
  <2> QED
    BY <2>1, <2>2, AllowedParses DEF TokensInPlay
<1>2. CASE Switched(path)
  BY <1>2 DEF AllowedAfter, TokensInPlay
<1> QED
  BY <1>1, <1>2

LEMMA BeamGrows ==
  ASSUME NEW path, Beam(path), NEW id \in AllowedAfter(path), id # Eos
  PROVE  Beam(Append(path, id))
<1> DEFINE longer == Append(path, id)
<1>1. id \in Nat
  BY AllowedInPlay, TokensAreNumbers
<1>2. path \in Seq(Nat) /\ Len(path) \in Nat /\ Len(path) >= 2
  BY LenProperties DEF Beam
<1>3. /\ longer \in Seq(Nat) /\ Len(longer) = Len(path) + 1
      /\ \A i \in 1 .. Len(path) : longer[i] = path[i]
      /\ longer[Len(path) + 1] = id
  BY <1>1, <1>2, AppendProperties
<1> SUFFICES Beam(longer)
  OBVIOUS
<1> HIDE DEF longer
<1>4. Len(longer) >= 2 /\ longer[1] = Bos /\ longer[2] = Articulation
  <2>1. 1 \in 1 .. Len(path) /\ 2 \in 1 .. Len(path)
    BY <1>2
  <2> QED
    BY <1>2, <1>3, <2>1 DEF Beam
<1>5. \A i \in 1 .. Len(longer) : longer[i] # Eos
  <2> TAKE i \in 1 .. Len(longer)
  <2>1. i \in 1 .. Len(path) \/ i = Len(path) + 1
    BY <1>2, <1>3
  <2> QED
    BY <1>3, <2>1 DEF Beam
<1>6. CASE Switched(path)
  <2>1. Switched(longer) /\ SkeletonOf(longer) = SkeletonOf(path)
    BY <1>1, <1>2, <1>6, CodeAppended DEF longer
  <2> QED
    BY <1>3, <1>4, <1>5, <1>6, <2>1 DEF Beam
<1>7. CASE ~Switched(path)
  <2>1. /\ Parse(path) \in ParserStates /\ Parse(path).state \in Generating
        /\ ~Parse(path).ended /\ Parse(longer) = Parsed(Parse(path), id)
    BY <1>1, <1>7, BeamState DEF longer
  <2>2. id \in Allowed(Parse(path))
    BY <1>7 DEF AllowedAfter
  <2>3. Parse(longer).state \in Generating /\ (Parse(longer).ended <=> id = End)
    BY <2>1, <2>2, AllowedParses
  <2>4. \A i \in 1 .. Len(path) : longer[i] # End
    BY <1>2, <1>3, <1>7, NotSwitched
  <2>5. CASE id # End
    <3>1. \A i \in 1 .. Len(longer) : longer[i] # End
      <4> TAKE i \in 1 .. Len(longer)
      <4>1. i \in 1 .. Len(path) \/ i = Len(path) + 1
        BY <1>2, <1>3
      <4> QED
        BY <1>3, <2>4, <2>5, <4>1
    <3>2. ~Switched(longer)
      BY <1>3, <3>1, NotSwitched
    <3> QED
      BY <1>3, <1>4, <1>5, <2>3, <2>5, <3>2 DEF Beam, Generating
  <2>6. CASE id = End
    <3> DEFINE k == Len(longer)
    <3>1. k \in 1 .. Len(longer) /\ longer[k] = End /\ k - 1 = Len(path) /\ k > 2
      BY <1>2, <1>3, <2>6
    <3>2. Switched(longer) /\ SkeletonOf(longer) = SubSeq(longer, 1, k)
      BY <1>3, <2>4, <3>1, SkeletonIs
    <3>3. SubSeq(longer, 1, k) = longer
      BY <1>3, SubSeqFull
    <3>4. WellFormed(longer)
      <4>1. Parse(longer).state # "error"
        BY <2>3 DEF Generating
      <4> QED
        BY <1>3, <1>4, <2>4, <3>1, <4>1 DEF WellFormed
    <3> QED
      BY <1>3, <1>4, <1>5, <3>2, <3>3, <3>4 DEF Beam
  <2> QED
    BY <2>5, <2>6
<1> QED
  BY <1>6, <1>7

LEMMA EosIsNoSkin == Eos \notin SkinTokens
BY RigGenerationAssumption, Numbering

(* Only the final EOS of a path may be the last code.                      *)
LEMMA BeamCompletes ==
  ASSUME NEW path, Beam(path), Eos \in AllowedAfter(path)
  PROVE  Completed(Append(path, Eos))
<1>1. Switched(path)
  <2> SUFFICES ASSUME ~Switched(path)
               PROVE  FALSE
    OBVIOUS
  <2>1. /\ Parse(path) \in ParserStates /\ Parse(path).state \in Generating
        /\ ~Parse(path).ended
    BY BeamState
  <2>2. Eos \in Allowed(Parse(path))
    BY DEF AllowedAfter
  <2>3. Eos \in Coordinates \cup Parts \cup {Branch, End}
    BY <2>1, <2>2, AllowedParses
  <2> QED
    BY <2>3, SkeletonTokensAssumption DEF Eos, Branch, End
<1> DEFINE joints == Parse(SkeletonOf(path)).joints
           codes == Len(CodesOf(path)) + 1
<1>2. Eos \notin SkinTokens
  BY EosIsNoSkin
<1>3. Eos \in CASE joints \notin 1 .. MaxJoints -> {}
                [] joints \in 1 .. MaxJoints /\ codes < 4 * joints -> SkinTokens
                [] joints \in 1 .. MaxJoints /\ codes = 4 * joints -> {Eos}
                [] joints \in 1 .. MaxJoints /\ codes > 4 * joints -> {}
  BY <1>1 DEF AllowedAfter
<1>4. codes \in Nat
  BY <1>1, PartsOf, LenProperties DEF Beam
<1>5. MaxJoints \in Nat
  BY RigGenerationAssumption
<1> HIDE DEF joints, codes
<1>6. joints \in 1 .. MaxJoints /\ codes = 4 * joints
  BY <1>2, <1>3, <1>4, <1>5
<1> QED
  BY <1>1, <1>6 DEF Completed, Beam, joints, codes
-----------------------------------------------------------------------------
(* What a selection takes.                                                 *)

LEMMA OfferedFacts ==
  ASSUME Beams, NEW c \in Offered
  PROVE  /\ c.source \in 1 .. Len(active) /\ Beam(active[c.source])
         /\ c.token \in AllowedAfter(active[c.source])
         /\ c.token \in TokensInPlay /\ c.token \in Nat
         /\ c = [source |-> c.source, token |-> c.token]
<1>1. DOMAIN active = 1 .. Len(active)
  BY LenProperties DEF Beams
<1>2. PICK b \in DOMAIN active :
        c \in {[source |-> b, token |-> t] : t \in AllowedAfter(active[b])}
  BY DEF Offered
<1>3. PICK t \in AllowedAfter(active[b]) : c = [source |-> b, token |-> t]
  BY <1>2
<1>4. c.source = b /\ c.token = t
  BY <1>3
<1>5. Beam(active[b])
  BY <1>1 DEF Beams
<1>6. t \in TokensInPlay
  BY <1>5, AllowedInPlay
<1> QED
  BY <1>1, <1>3, <1>4, <1>5, <1>6, TokensAreNumbers

LEMMA OfferedFinite ==
  ASSUME Beams
  PROVE  IsFiniteSet(Offered)
<1> DEFINE S == 1 .. Len(active)
           T == 0 .. Eos
           f == [c \in Offered |-> <<c.source, c.token>>]
<1>1. IsFiniteSet(S) /\ IsFiniteSet(T)
  <2>1. Len(active) \in Int /\ Eos \in Int
    BY LenProperties DEF Beams, Eos
  <2> QED
    BY <2>1, FS_Interval
<1>2. IsFiniteSet(S \X T)
  BY <1>1, FS_Product
<1>3. \A c \in Offered :
        c.source \in S /\ c.token \in T /\ c = [source |-> c.source, token |-> c.token]
  BY OfferedFacts, TokensAreNumbers
<1> HIDE DEF S, T
<1>4. f \in [Offered -> S \X T]
  BY <1>3
<1>5. ASSUME NEW c \in Offered, NEW d \in Offered, f[c] = f[d]
      PROVE  c = d
  <2>1. c.source = d.source /\ c.token = d.token
    BY <1>5
  <2> QED
    BY <1>3, <2>1
<1>6. f \in Injection(Offered, S \X T)
  BY <1>4, <1>5 DEF Injection, IsInjective
<1> QED
  BY <1>2, <1>6, FS_Injection

LEMMA KeptFacts ==
  ASSUME Beams, NEW chosen \in SUBSET Offered, chosen # Ending(chosen),
         NEW order \in Kept(chosen)
  PROVE  \E n \in 1 .. MaxBeams :
           /\ order \in [1 .. n -> Offered] /\ DOMAIN order = 1 .. n
           /\ \A i \in 1 .. n : order[i] \in Offered /\ order[i].token # Eos
           /\ \A i, j \in 1 .. n : order[i] = order[j] => i = j
<1> DEFINE live == chosen \ Ending(chosen)
           n == IF Cardinality(live) < MaxBeams THEN Cardinality(live) ELSE MaxBeams
<1>1. live \subseteq Offered /\ \A c \in live : c.token # Eos
  BY DEF Ending
<1>2. IsFiniteSet(live) /\ live # {}
  BY <1>1, OfferedFinite, FS_Subset DEF Ending
<1>3. Cardinality(live) \in Nat /\ Cardinality(live) # 0
  BY <1>2, FS_CardinalityType, FS_EmptySet
<1>4. order \in [1 .. n -> live] /\ IsInjective(order)
  BY DEF Kept
<1> HIDE DEF live
<1>5. n \in 1 .. MaxBeams
  BY <1>3, RigGenerationAssumption
<1> HIDE DEF n
<1>6. DOMAIN order = 1 .. n /\ \A i \in 1 .. n : order[i] \in live
  BY <1>4
<1>7. order \in [1 .. n -> Offered]
  BY <1>1, <1>4
<1> QED
  BY <1>1, <1>4, <1>5, <1>6, <1>7 DEF IsInjective

LEMMA FunctionIsSeq ==
  ASSUME NEW S, NEW k \in Nat, NEW f \in [1 .. k -> S]
  PROVE  f \in Seq(S) /\ Len(f) = k
<1>1. f \in Seq(S)
  BY SeqDef, Zenon
<1> QED
  BY <1>1, LenProperties

LEMMA SameAppended ==
  ASSUME NEW p \in Seq(Nat), NEW q \in Seq(Nat), NEW s \in Nat, NEW t \in Nat,
         Append(p, s) = Append(q, t)
  PROVE  p = q /\ s = t
BY AppendInjective

(* The survivors are live beams again, and no two are the same.            *)
LEMMA SurvivorsAreBeams ==
  ASSUME Beams, NEW chosen \in SUBSET Offered, chosen # Ending(chosen),
         NEW order \in Kept(chosen),
         active' = [i \in DOMAIN order |-> Append(active[order[i].source], order[i].token)]
  PROVE  Beams'
<1>1. PICK n \in 1 .. MaxBeams :
           /\ order \in [1 .. n -> Offered] /\ DOMAIN order = 1 .. n
           /\ \A i \in 1 .. n : order[i] \in Offered /\ order[i].token # Eos
           /\ \A i, j \in 1 .. n : order[i] = order[j] => i = j
  BY KeptFacts
<1>2. n \in Nat /\ 1 \in 1 .. n
  BY RigGenerationAssumption
<1> DEFINE b(i) == active[order[i].source]
           t(i) == order[i].token
<1>3. ASSUME NEW i \in 1 .. n
      PROVE  /\ order[i].source \in 1 .. Len(active)
             /\ Beam(b(i)) /\ t(i) \in AllowedAfter(b(i)) /\ t(i) # Eos /\ t(i) \in Nat
             /\ order[i] = [source |-> order[i].source, token |-> t(i)]
             /\ active'[i] = Append(b(i), t(i))
             /\ Len(b(i)) = Len(active[1])
  <2>1. order[i] \in Offered /\ order[i].token # Eos
    BY <1>1
  <2>2. active'[i] = Append(b(i), t(i))
    BY <1>1
  <2> QED
    BY <2>1, <2>2, OfferedFacts DEF Beams
<1> HIDE DEF b, t
<1>4. ASSUME NEW i \in 1 .. n
      PROVE  Beam(active'[i]) /\ Len(active'[i]) = Len(active[1]) + 1 /\ active'[i] \in Seq(Nat)
  <2>1. Beam(Append(b(i), t(i)))
    BY <1>3, BeamGrows
  <2>2. b(i) \in Seq(Nat) /\ t(i) \in Nat
    BY <1>3 DEF Beam
  <2>3. Append(b(i), t(i)) \in Seq(Nat) /\ Len(Append(b(i), t(i))) = Len(b(i)) + 1
    BY <2>2, AppendProperties, Zenon
  <2> QED
    BY <1>3, <2>1, <2>3
<1>5. ASSUME NEW i \in 1 .. n, NEW j \in 1 .. n, active'[i] = active'[j]
      PROVE  i = j
  <2>1. /\ b(i) \in Seq(Nat) /\ b(j) \in Seq(Nat) /\ t(i) \in Nat /\ t(j) \in Nat
        /\ Append(b(i), t(i)) = Append(b(j), t(j))
    BY <1>3, <1>5 DEF Beam
  <2>2. b(i) = b(j) /\ t(i) = t(j)
    BY <2>1, SameAppended, Zenon
  <2>3. order[i].source = order[j].source
    <3>1. order[i].source \in DOMAIN active /\ order[j].source \in DOMAIN active
      BY <1>3, LenProperties DEF Beams
    <3> QED
      BY <2>2, <3>1 DEF Beams, IsInjective, b
  <2>4. order[i] = order[j]
    BY <1>3, <2>2, <2>3
  <2> QED
    BY <1>1, <2>4
<1>6. DOMAIN active' = 1 .. n /\ active' \in [1 .. n -> Seq(Nat)]
  <2>1. DOMAIN active' = 1 .. n
    BY <1>1
  <2>2. active' = [i \in 1 .. n |-> active'[i]]
    BY <1>1, <2>1
  <2> QED
    BY <1>4, <2>1, <2>2
<1>7. active' \in Seq(Seq(Nat)) /\ Len(active') = n
  BY <1>2, <1>6, FunctionIsSeq
<1>8. IsInjective(active')
  BY <1>5, <1>6 DEF IsInjective
<1> QED
  BY <1>2, <1>4, <1>7, <1>8 DEF Beams

LEMMA EndingsComplete ==
  ASSUME Beams, NEW chosen \in SUBSET Offered, \A path \in finished : Completed(path)
  PROVE  \A path \in With(chosen) : Completed(path)
<1> SUFFICES ASSUME NEW c \in Ending(chosen)
             PROVE  Completed(Append(active[c.source], c.token))
  BY DEF With
<1>1. c \in Offered /\ c.token = Eos
  BY DEF Ending
<1> QED
  BY <1>1, OfferedFacts, BeamCompletes

(* What a completed beam is split into.                                    *)
LEMMA CompletedFacts ==
  ASSUME NEW path, Completed(path)
  PROVE  /\ Switched(path) /\ WellFormed(SkeletonOf(path))
         /\ Parse(SkeletonOf(path)).joints \in 1 .. MaxJoints
         /\ CodesOf(path) \in Seq(Nat)
         /\ Len(CodesOf(path)) = 4 * Parse(SkeletonOf(path)).joints
         /\ \A i \in 1 .. Len(CodesOf(path)) : CodesOf(path)[i] = Eos <=> i = Len(CodesOf(path))
<1>1. PICK q \in Seq(Nat) :
        /\ Beam(q) /\ Switched(q)
        /\ Parse(SkeletonOf(q)).joints \in 1 .. MaxJoints
        /\ Len(CodesOf(q)) + 1 = 4 * Parse(SkeletonOf(q)).joints
        /\ path = Append(q, Eos)
  BY DEF Completed
<1>2. Eos \in Nat
  BY DEF Eos
<1>3. /\ Switched(path) /\ SkeletonOf(path) = SkeletonOf(q)
      /\ CodesOf(path) = Append(CodesOf(q), Eos)
  BY <1>1, <1>2, CodeAppended
<1>4. CodesOf(q) \in Seq(Nat) /\ Len(CodesOf(q)) \in Nat
  BY <1>1, PartsOf, LenProperties
<1>5. \A i \in 1 .. Len(CodesOf(q)) : CodesOf(q)[i] # Eos
  <2>1. PICK k \in 1 .. Len(q) :
           /\ Len(CodesOf(q)) = Len(q) - k
           /\ \A i \in 1 .. Len(q) - k : CodesOf(q)[i] = q[k + i]
    BY <1>1, PartsOf
  <2>2. Len(q) \in Nat
    BY LenProperties
  <2>3. \A i \in 1 .. Len(q) - k : k + i \in 1 .. Len(q)
    BY <2>2
  <2> QED
    BY <1>1, <2>1, <2>3 DEF Beam
<1> DEFINE codes == CodesOf(q)
           longer == Append(codes, Eos)
<1>6. /\ longer \in Seq(Nat) /\ Len(longer) = Len(codes) + 1
      /\ \A i \in 1 .. Len(codes) : longer[i] = codes[i]
      /\ longer[Len(codes) + 1] = Eos
  BY <1>2, <1>4, AppendProperties
<1>7. /\ CodesOf(path) = longer /\ Len(codes) \in Nat
      /\ \A i \in 1 .. Len(codes) : codes[i] # Eos
  BY <1>3, <1>4, <1>5
<1>8. WellFormed(SkeletonOf(q))
  BY <1>1 DEF Beam
<1>9. Len(codes) + 1 = 4 * Parse(SkeletonOf(q)).joints
  BY <1>1
<1> HIDE DEF codes, longer
<1>10. \A i \in 1 .. Len(longer) : longer[i] = Eos <=> i = Len(longer)
  <2> TAKE i \in 1 .. Len(longer)
  <2>1. i \in 1 .. Len(codes) \/ i = Len(codes) + 1
    BY <1>6, <1>7
  <2> QED
    BY <1>6, <1>7, <2>1
<1> QED
  BY <1>1, <1>3, <1>6, <1>7, <1>8, <1>9, <1>10

LEMMA ReturnResults ==
  ASSUME \A path \in finished : Completed(path), NEW best \in finished, Return(best)
  PROVE  /\ phase' = "done" /\ UNCHANGED <<active, finished, error>>
         /\ Result'
<1> DEFINE joints == Parse(SkeletonOf(best)).joints
           from == CodesOf(best)
           codes == [i \in DOMAIN from |-> from[i] - FirstSkin]
<1>1. /\ WellFormed(SkeletonOf(best))
      /\ joints \in 1 .. MaxJoints
      /\ from \in Seq(Nat) /\ Len(from) = 4 * joints
      /\ \A i \in 1 .. Len(from) : from[i] = Eos <=> i = Len(from)
  BY CompletedFacts
<1>2. DOMAIN from = 1 .. Len(from) /\ Len(from) \in Nat /\ \A i \in 1 .. Len(from) : from[i] \in Nat
  BY <1>1, LenProperties, ElementOfSeq
<1>3. IF Len(codes) # 4 * joints
      THEN Reject("incomplete_codes")
      ELSE /\ output' = [skeleton |-> SkeletonOf(best), codes |-> codes, joints |-> joints]
           /\ phase' = "done"
           /\ UNCHANGED <<active, logits, finished, error>>
  BY DEF Return
<1> HIDE DEF from, joints
<1>4. codes \in [1 .. Len(from) -> Int]
  BY <1>2 DEF FirstSkin
<1>5. codes \in Seq(Int) /\ Len(codes) = Len(from) /\ DOMAIN codes = 1 .. Len(from)
  BY <1>2, <1>4, FunctionIsSeq
<1>6. \A i \in 1 .. Len(from) : codes[i] = Eos - FirstSkin <=> i = Len(from)
  <2> TAKE i \in 1 .. Len(from)
  <2>1. codes[i] = from[i] - FirstSkin /\ from[i] \in Nat
    BY <1>2
  <2>2. codes[i] = Eos - FirstSkin <=> from[i] = Eos
    BY <2>1 DEF Eos, FirstSkin
  <2> QED
    BY <1>1, <2>2
<1> HIDE DEF codes
<1>7. /\ output' = [skeleton |-> SkeletonOf(best), codes |-> codes, joints |-> joints]
      /\ phase' = "done"
      /\ UNCHANGED <<active, logits, finished, error>>
  BY <1>1, <1>3, <1>5
<1>8. Result'
  BY <1>1, <1>5, <1>6, <1>7 DEF Result, joints
<1> QED
  BY <1>7, <1>8
-----------------------------------------------------------------------------
(* The invariant holds.                                                    *)

LEMMA StartIsBeam == Beam(Start) /\ Start \in Seq(Nat) /\ Len(Start) = 2
<1> DEFINE one == Append(<<>>, Bos)
<1>1. Start = Append(one, Articulation) /\ one \in Seq(Nat) /\ <<>> \in Seq(Nat)
  BY DEF Start, Bos
<1>2. Bos \in Nat /\ Articulation \in Nat
  BY DEF Bos, Articulation
<1>3. Parse(Start) = Parsed(Parsed(Fresh, Bos), Articulation)
  BY <1>1, <1>2, ParseAppend, ParseEmpty
<1>4. StateAfter("bos", Bos) = "first" /\ StateAfter("first", Articulation) = "part_or_joint"
  BY SkeletonTokensAssumption DEF StateAfter, Articulation, Bos, Classes
<1> DEFINE p == Parsed(Fresh, Bos)
           q == Parsed(p, Articulation)
<1>5. p \in ParserStates /\ p.state = "first" /\ ~p.ended
  <2>1. Fresh \in ParserStates /\ Fresh.state = "bos" /\ ~Fresh.ended
    BY FreshState DEF Fresh
  <2>2. p.state = "first"
    BY <1>4, <2>1 DEF Parsed
  <2>3. p.state # "error" /\ Bos # End
    BY <2>2 DEF Bos, End
  <2> QED
    BY <2>1, <2>2, <2>3, Accepted, ParsedState
<1> HIDE DEF p
<1>6. q.state = "part_or_joint" /\ ~q.ended
  <2>1. q.state = "part_or_joint"
    BY <1>4, <1>5 DEF Parsed
  <2>2. q.state # "error" /\ Articulation # End
    BY <2>1 DEF Articulation, End
  <2> QED
    BY <1>5, <2>1, <2>2, Accepted
<1> HIDE DEF q
<1>7. /\ Start \in Seq(Nat) /\ Len(Start) = 2 /\ Start[1] = Bos /\ Start[2] = Articulation
      /\ \A i \in 1 .. Len(Start) : Start[i] # Eos /\ Start[i] # End
  BY DEF Start, Bos, Articulation, Eos, End
<1>8. ~Switched(Start)
  BY <1>7, NotSwitched
<1> QED
  BY <1>3, <1>6, <1>7, <1>8 DEF Beam, p, q

LEMMA InitInv == Init => IInv
<1> SUFFICES ASSUME Init
             PROVE  IInv
  OBVIOUS
<1>1. active = <<Start>> /\ 1 \in 1 .. MaxBeams
  BY RigGenerationAssumption DEF Init
<1>2. /\ active \in Seq(Seq(Nat)) /\ Len(active) = 1 /\ active[1] = Start
      /\ DOMAIN active = 1 .. 1
  BY <1>1, StartIsBeam
<1>3. Beams
  <2>1. \A i \in 1 .. Len(active) : i = 1
    BY <1>2
  <2>2. \A i \in 1 .. Len(active) : Beam(active[i]) /\ Len(active[i]) = Len(active[1])
    BY <1>2, <2>1, StartIsBeam, Zenon
  <2>3. IsInjective(active)
    BY <1>2 DEF IsInjective
  <2> QED
    BY <1>1, <1>2, <2>2, <2>3 DEF Beams
<1> QED
  BY <1>3 DEF Init, IInv, Result

LEMMA NextInv == IInv /\ [Next]_vars => IInv'
<1> SUFFICES ASSUME IInv, [Next]_vars
             PROVE  IInv'
  OBVIOUS
<1>1. CASE Prefill
  BY <1>1 DEF Prefill, IInv, Beams, Result
<1>2. ASSUME NEW chosen \in Selected, Extend(chosen), phase = "generate"
      PROVE  IInv'
  <2>1. chosen \in SUBSET Offered /\ chosen # Ending(chosen)
    BY <1>2 DEF Selected, Extend
  <2>2. PICK order \in Kept(chosen) :
          active' = [i \in DOMAIN order |-> Append(active[order[i].source], order[i].token)]
    BY <1>2 DEF Extend
  <2>3. Beams'
    BY <2>1, <2>2, SurvivorsAreBeams DEF IInv
  <2>4. \A path \in finished' : Completed(path)
    BY <1>2, <2>1, EndingsComplete DEF IInv, Extend
  <2> QED
    BY <1>2, <2>3, <2>4 DEF IInv, Extend, Result
<1>3. ASSUME NEW chosen \in Selected, LastRound(chosen)
      PROVE  IInv'
  <2>1. chosen \in SUBSET Offered
    BY DEF Selected
  <2>2. \A path \in finished' : Completed(path)
    BY <1>3, <2>1, EndingsComplete DEF IInv, LastRound
  <2> QED
    BY <1>3, <2>2 DEF IInv, LastRound, Beams, Result
<1>4. CASE Round
  BY <1>2, <1>3, <1>4 DEF Round
<1>5. CASE LeaveLoop
  BY <1>5 DEF LeaveLoop, IInv, Beams, Result
<1>6. CASE Incomplete
  BY <1>6 DEF Incomplete, Reject, IInv, Beams, Result
<1>7. ASSUME NEW best \in finished, Return(best)
      PROVE  IInv'
  BY <1>7, ReturnResults DEF IInv, Beams
<1>8. CASE BackendFails
  BY <1>8 DEF BackendFails, Reject, IInv, Beams, Result
<1>9. CASE UNCHANGED vars
  BY <1>9 DEF vars, IInv, Beams, Result
<1> QED
  BY <1>1, <1>4, <1>5, <1>6, <1>7, <1>8, <1>9 DEF Next, Advance

THEOREM Invariance == Spec => []IInv
BY InitInv, NextInv, PTL DEF Spec
-----------------------------------------------------------------------------
(* What follows from it.                                                   *)

(* Live beams stay alike in length and pairwise different, and no more     *)
(* than asked for, whatever the selection.                                 *)
THEOREM TypeCorrect == Spec => []TypeOK
<1>1. IInv => TypeOK
  <2> SUFFICES ASSUME IInv
               PROVE  TypeOK
    OBVIOUS
  <2>1. DOMAIN active = 1 .. Len(active)
    BY LenProperties DEF IInv, Beams
  <2>2. ASSUME NEW path \in finished
        PROVE  path[Len(path)] = Eos
    <3>1. PICK q \in Seq(Nat) : path = Append(q, Eos)
      BY DEF IInv, Completed
    <3>2. Eos \in Nat
      BY DEF Eos
    <3> QED
      BY <3>1, <3>2, AppendProperties
  <2> QED
    BY <2>1, <2>2 DEF IInv, Beams, TypeOK
<1> QED
  BY <1>1, Invariance, PTL

(* parse_skeleton never throws on a beam or on a result: the mask keeps    *)
(* every beam in the language.                                             *)
THEOREM NeverThrows == Spec => []ParserNeverThrows
<1>1. IInv => ParserNeverThrows
  <2> SUFFICES ASSUME IInv
               PROVE  ParserNeverThrows
    OBVIOUS
  <2>1. ASSUME NEW i \in DOMAIN active
        PROVE  Parse(IF Switched(active[i]) THEN SkeletonOf(active[i]) ELSE active[i]).state
                 # "error"
    <3>1. Beam(active[i])
      BY LenProperties DEF IInv, Beams
    <3> QED
      BY <3>1 DEF Beam, WellFormed
  <2>2. ASSUME NEW path \in finished
        PROVE  Parse(IF Switched(path) THEN SkeletonOf(path) ELSE path).state # "error"
    <3>1. Completed(path)
      BY DEF IInv
    <3> QED
      BY <3>1, CompletedFacts DEF WellFormed
  <2> QED
    BY <2>1, <2>2 DEF ParserNeverThrows
<1> QED
  BY <1>1, Invariance, PTL

(* A result has four codes for each joint, the EOS as the last of them and *)
(* nowhere else, and "incomplete_codes" is never returned.                 *)
THEOREM Complete == Spec => []CodesComplete
<1>1. IInv => CodesComplete
  <2> SUFFICES ASSUME IInv
               PROVE  CodesComplete
    OBVIOUS
  <2>1. error # "incomplete_codes"
    BY DEF IInv
  <2>2. ASSUME phase = "done"
        PROVE  {i \in DOMAIN output.codes : output.codes[i] = Eos - FirstSkin}
                 = {Len(output.codes)}
    <3>1. /\ DOMAIN output.codes = 1 .. Len(output.codes)
          /\ \A i \in DOMAIN output.codes :
               output.codes[i] = Eos - FirstSkin <=> i = Len(output.codes)
      BY <2>2 DEF IInv, Result
    <3>2. Len(output.codes) \in 1 .. Len(output.codes)
      <4>1. Len(output.codes) = 4 * output.joints /\ output.joints \in 1 .. MaxJoints
        BY <2>2 DEF IInv, Result
      <4>2. Len(output.codes) \in Nat /\ Len(output.codes) >= 1
        BY <4>1, RigGenerationAssumption
      <4> QED
        BY <4>2
    <3> QED
      BY <3>1, <3>2
  <2> QED
    BY <2>1, <2>2 DEF CodesComplete, IInv, Result
<1> QED
  BY <1>1, Invariance, PTL

(* model.cpp:889: on every result the reader counts as many joints as the  *)
(* generator, or turns it down for a branch without a joint of its own.    *)
THEOREM ReaderAgreement == Spec => []ReaderAgrees
<1>1. IInv => ReaderAgrees
  <2> SUFFICES ASSUME IInv, phase = "done"
               PROVE  ReaderAgrees
    BY DEF ReaderAgrees
  <2>1. WellFormed(output.skeleton) /\ output.joints = Parse(output.skeleton).joints
        /\ output.joints \in 1 .. MaxJoints
    BY DEF IInv, Result
  <2>2. MaxJoints \in Nat
    BY RigGenerationAssumption
  <2>3. /\ Detokenized(output.skeleton, MaxJoints).ok <=> ~Dangling(output.skeleton)
        /\ Detokenized(output.skeleton, MaxJoints).ok
             => Len(Detokenized(output.skeleton, MaxJoints).cells) = output.joints
    BY <2>1, <2>2, ReaderFollowsParser
  <2> QED
    BY <2>3 DEF ReaderAgrees, Dangling
<1> QED
  BY <1>1, Invariance, PTL
-----------------------------------------------------------------------------
(* The loop is a beam search.                                              *)

LEMMA ExtendExtends ==
  ASSUME IInv, phase = "generate", StepsLeft, NEW chosen \in Selected, Extend(chosen)
  PROVE  Search!Next
<1>1. PICK order \in Kept(chosen) :
        active' = [i \in DOMAIN order |-> Append(active[order[i].source], order[i].token)]
  BY DEF Extend
<1>2. chosen \in SUBSET Offered /\ chosen # Ending(chosen)
  BY DEF Selected, Extend
<1>3. PICK n \in 1 .. MaxBeams :
           /\ order \in [1 .. n -> Offered] /\ DOMAIN order = 1 .. n
           /\ \A i \in 1 .. n : order[i] \in Offered /\ order[i].token # Eos
           /\ \A i, j \in 1 .. n : order[i] = order[j] => i = j
  BY <1>1, <1>2, KeptFacts DEF IInv
<1>4. Offered \subseteq Search!Continuations(Len(active))
  <2> SUFFICES ASSUME NEW c \in Offered
               PROVE  c \in Search!Continuations(Len(active))
    OBVIOUS
  <2>1. /\ c.source \in 1 .. Len(active) /\ c.token \in TokensInPlay
        /\ c = [source |-> c.source, token |-> c.token]
    BY OfferedFacts DEF IInv
  <2> QED
    BY <2>1 DEF Search!Continuations, TokensInPlay
<1>5. order \in [1 .. n -> Search!Continuations(Len(active))]
  BY <1>3, <1>4
<1>6. order \in Search!Selections(Len(active))
  BY <1>3, <1>5 DEF Search!Selections
<1>7. active' = Search!Extended(active, order)
  BY <1>1 DEF Search!Extended
<1>8. Len(active[1]) < Len(Start) + MaxTokens
  <2>1. Len(active[1]) \in Nat
    <3>1. 1 \in 1 .. Len(active)
      BY RigGenerationAssumption DEF IInv, Beams
    <3>2. active[1] \in Seq(Nat)
      BY <3>1 DEF IInv, Beams, Beam
    <3> QED
      BY <3>2, LenProperties
  <2> QED
    BY <2>1, StartIsBeam, RigGenerationAssumption DEF StepsLeft
<1>9. Search!Extend
  BY <1>6, <1>7, <1>8 DEF Search!Extend, Extend
<1> QED
  BY <1>9 DEF Search!Next

(* The grammar mask, the switch and the finished beams only choose among   *)
(* what BeamSearch allows, so the key/value cache is used as BeamCache     *)
(* expects.                                                                *)
THEOREM Refinement == Spec => ImplementsBeamSearch
<1>1. Init => Search!Init
  BY DEF Init, Search!Init
<1>2. ASSUME IInv, [Next]_vars
      PROVE  [Search!Next]_Search!vars
  <2>1. CASE Prefill
    BY <2>1 DEF Prefill, Search!Next, Search!Start
  <2>2. CASE Round
    <3>1. ASSUME NEW chosen \in Selected, Extend(chosen)
          PROVE  Search!Next
      BY <1>2, <2>2, <3>1, ExtendExtends DEF Round
    <3>2. ASSUME NEW chosen \in Selected, LastRound(chosen)
          PROVE  UNCHANGED Search!vars
      BY <2>2, <3>2 DEF Round, LastRound, Search!vars
    <3> QED
      BY <2>2, <3>1, <3>2 DEF Round
  <2>3. CASE LeaveLoop
    BY <2>3 DEF LeaveLoop, Search!vars
  <2>4. CASE Incomplete
    BY <2>4 DEF Incomplete, Reject, Search!Next, Search!Fail
  <2>5. ASSUME NEW best \in finished, Return(best)
        PROVE  Search!Next
    <3>1. phase = "return" /\ phase' = "done" /\ UNCHANGED <<active, logits>>
      BY <1>2, <2>5, ReturnResults DEF IInv, Return, Reject
    <3> QED
      BY <3>1 DEF Search!Next, Search!Stop
  <2>6. CASE BackendFails
    BY <2>6 DEF BackendFails, Reject, Search!Next, Search!Fail
  <2>7. CASE UNCHANGED vars
    BY <2>7 DEF vars, Search!vars
  <2> QED
    BY <1>2, <2>1, <2>2, <2>3, <2>4, <2>5, <2>6, <2>7 DEF Next, Advance
<1> QED
  BY <1>1, <1>2, Invariance, PTL DEF Spec, Search!Spec, ImplementsBeamSearch
==============================================================================
