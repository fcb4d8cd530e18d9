------------------------ MODULE SkinGenerationProofs ------------------------
(***************************************************************************)
(* Proofs about generate_skin_codes: the beams are alike in length and no  *)
(* two of them the same, a result is complete, the search fills its beams, *)
(* and it asks of them what BeamSearch allows; for any set of skin tokens, *)
(* any number of joints and of beams.                                      *)
(***************************************************************************)
EXTENDS SkinGeneration, SkeletonTokensProofs

(* Beams of skin tokens, alike in length and pairwise different.           *)
SkinBeams ==
  /\ beams \in Seq(Seq(SkinTokens)) /\ Len(beams) \in 1 .. width
  /\ \A i \in 1 .. Len(beams) : Len(beams[i]) = Len(beams[1])
  /\ \A i, j \in 1 .. Len(beams) : beams[i] = beams[j] => i = j

(* The inductive invariant: a result is the first beam, at the length it   *)
(* was asked for, and until then every beam is shorter.                    *)
SkinIInv ==
  /\ joints \in 1 .. MaxJoints /\ width \in 1 .. MaxBeams
  /\ SkinBeams
  /\ phase \in {"prompt", "generate", "done", "failed"}
  /\ phase = "generate" => Wanted <= TokenLimit
  /\ phase # "done" => Len(beams[1]) < Wanted
  /\ phase = "done" => Len(beams[1]) = Wanted /\ output = Codes(beams[1])
-----------------------------------------------------------------------------
(* The candidates of a round can be counted.                               *)
LEMMA FiniteBetween ==
  ASSUME NEW a \in Int, NEW b \in Int, NEW S \in SUBSET (a .. b)
  PROVE  IsFiniteSet(S)
BY FS_Interval, FS_Subset

LEMMA OfferedFinite ==
  ASSUME SkinBeams
  PROVE  IsFiniteSet(Offered)
<1>1. IsFiniteSet(SkinTokens)
  <2>1. SkinTokens \in SUBSET (FirstSkin .. LastSkin)
    BY SkinGenerationAssumption
  <2>2. FirstSkin \in Int /\ LastSkin \in Int
    BY DEF FirstSkin, LastSkin
  <2> QED
    BY <2>1, <2>2, FiniteBetween
<1>2. IsFiniteSet(1 .. Len(beams)) /\ DOMAIN beams = 1 .. Len(beams)
  BY FS_Interval DEF SkinBeams
<1>3. IsFiniteSet((1 .. Len(beams)) \X SkinTokens)
  BY <1>1, <1>2, FS_Product
<1> DEFINE f == [c \in Offered |-> <<c.source, c.token>>]
<1>4. f \in Injection(Offered, (1 .. Len(beams)) \X SkinTokens)
  BY <1>2 DEF Injection, IsInjective, Offered
<1> QED
  BY <1>3, <1>4, FS_Injection

(* Two candidates of every beam are twice as many candidates as beams.     *)
LEMMA CandidatesSuffice ==
  ASSUME NEW n \in Nat, NEW chosen, IsFiniteSet(chosen),
         \A c \in chosen : c.source \in 1 .. n,
         \A b \in 1 .. n : Cardinality({c \in chosen : c.source = b}) >= 2
  PROVE  Cardinality(chosen) >= 2 * n
<1> DEFINE Of(k) == {c \in chosen : c.source <= k}
           Ones(k) == {c \in chosen : c.source = k}
           S == {k \in Nat : Cardinality(Of(k)) >= 2 * k}
<1>1. \A k \in Nat : /\ IsFiniteSet(Of(k)) /\ Cardinality(Of(k)) \in Nat
                     /\ IsFiniteSet(Ones(k)) /\ Cardinality(Ones(k)) \in Nat
  BY FS_Subset, FS_CardinalityType
<1>2. 0 \in S
  <2>1. Cardinality(Of(0)) \in Nat /\ 0 \in Nat
    BY <1>1
  <2> HIDE DEF Of, Ones
  <2> QED
    BY <2>1
<1>3. ASSUME NEW k \in 0 .. n - 1, k \in S
      PROVE  k + 1 \in S
  <2>1. Of(k + 1) = Of(k) \cup Ones(k + 1) /\ Of(k) \cap Ones(k + 1) = {}
    OBVIOUS
  <2>2. Cardinality(Of(k)) >= 2 * k /\ Cardinality(Ones(k + 1)) >= 2
    <3>1. k + 1 \in 1 .. n
      OBVIOUS
    <3> QED
      BY <1>3, <3>1
  <2>3. k \in Nat /\ k + 1 \in Nat
    OBVIOUS
  <2>4. /\ IsFiniteSet(Of(k)) /\ Cardinality(Of(k)) \in Nat
        /\ IsFiniteSet(Ones(k + 1)) /\ Cardinality(Ones(k + 1)) \in Nat
    BY <1>1, <2>3
  <2> HIDE DEF Of, Ones
  <2>5. Cardinality(Of(k) \cup Ones(k + 1)) =
          Cardinality(Of(k)) + Cardinality(Ones(k + 1)) - Cardinality(Of(k) \cap Ones(k + 1))
    BY <2>4, FS_Union
  <2>6. Cardinality(Of(k) \cap Ones(k + 1)) = 0
    BY <2>1, FS_EmptySet
  <2>7. Cardinality(Of(k + 1)) >= 2 * (k + 1)
    <3>1. PICK a \in Nat : a = Cardinality(Of(k))
      BY <2>4
    <3>2. PICK b \in Nat : b = Cardinality(Ones(k + 1))
      BY <2>4
    <3>3. Cardinality(Of(k + 1)) = a + b - 0
      BY <2>1, <2>5, <2>6, <3>1, <3>2
    <3>4. a >= 2 * k /\ b >= 2
      BY <2>2, <3>1, <3>2
    <3> QED
      BY <2>3, <3>3, <3>4
  <2> QED
    BY <2>3, <2>7
<1> HIDE DEF S
<1>4. n \in S
  BY <1>2, <1>3, BoundedInduction
<1>5. Of(n) = chosen
  OBVIOUS
<1> QED
  BY <1>4, <1>5 DEF S

(* A round takes n of the continuations offered, no two the same.          *)
Taken(n, order) ==
  /\ order \in [1 .. n -> Offered] /\ DOMAIN order = 1 .. n
  /\ \A i, j \in 1 .. n : order[i] = order[j] => i = j

LEMMA KeptIsTaken ==
  ASSUME SkinBeams, width \in Nat, width > 1, NEW chosen \in Selected, NEW order \in Kept(chosen)
  PROVE  \E n \in 1 .. width :
           /\ Taken(n, order)
           /\ n >= IF 2 * Len(beams) < width THEN 2 * Len(beams) ELSE width
<1>1. PICK l \in Nat : l = Len(beams) /\ l \in 1 .. width /\ DOMAIN beams = 1 .. l
  BY DEF SkinBeams
<1>2. chosen \in SUBSET Offered
  BY DEF Selected
<1>3. IsFiniteSet(chosen) /\ Cardinality(chosen) \in Nat
  BY <1>2, OfferedFinite, FS_Subset, FS_CardinalityType
<1>4. PICK m \in Nat : m = Cardinality(chosen)
  BY <1>3
<1>5. m >= 2 * l
  <2>1. CASE m = 2 * width
    BY <1>1, <2>1
  <2>2. CASE m # 2 * width
    <3>1. \A b \in DOMAIN beams : Cardinality({c \in chosen : c.source = b}) >= FewestCandidates
      BY <1>4, <2>2 DEF Selected
    <3>2. FewestCandidates = 2
      BY DEF FewestCandidates
    <3>3. \A c \in chosen : c.source \in 1 .. l
      BY <1>1, <1>2 DEF Offered
    <3> QED
      BY <1>1, <1>3, <1>4, <3>1, <3>2, <3>3, CandidatesSuffice
  <2> QED
    BY <2>1, <2>2
<1>6. PICK n \in Nat : n = IF m < width THEN m ELSE width
  OBVIOUS
<1>7. order \in [1 .. n -> chosen] /\ IsInjective(order)
  BY <1>4, <1>6 DEF Kept
<1>8. n \in 1 .. width /\ n >= IF 2 * l < width THEN 2 * l ELSE width
  BY <1>1, <1>5, <1>6
<1>9. Taken(n, order)
  <2>1. DOMAIN order = 1 .. n /\ \A i, j \in 1 .. n : order[i] = order[j] => i = j
    BY <1>7 DEF IsInjective
  <2>2. order \in [1 .. n -> Offered]
    BY <1>2, <1>7
  <2> QED
    BY <2>1, <2>2 DEF Taken
<1> QED
  BY <1>1, <1>8, <1>9

(* Sampling is a round that takes one.                                     *)
LEMMA RoundTakes ==
  ASSUME SkinIInv, Sample \/ Round
  PROVE  \E n \in 1 .. width : \E order :
           /\ Taken(n, order) /\ AfterSelection(Extended(order))
           /\ n >= IF 2 * Len(beams) < width THEN 2 * Len(beams) ELSE width
<1>1. SkinBeams /\ width \in Nat
  BY SkinGenerationAssumption DEF SkinIInv
<1>2. CASE Sample
  <2>1. PICK token \in SkinTokens : AfterSelection(<<Append(beams[1], token)>>)
    BY <1>2 DEF Sample
  <2>2. width = 1 /\ Len(beams) = 1 /\ DOMAIN beams = 1 .. 1
    BY <1>1, <1>2 DEF Sample, SkinBeams
  <2> DEFINE order == [i \in 1 .. 1 |-> [source |-> 1, token |-> token]]
  <2>3. Taken(1, order)
    BY <2>2 DEF Taken, Offered
  <2>4. Extended(order) = [i \in 1 .. 1 |-> Append(beams[1], token)]
    BY DEF Extended
  <2>5. [i \in 1 .. 1 |-> Append(beams[1], token)] = <<Append(beams[1], token)>>
    OBVIOUS
  <2>6. AfterSelection(Extended(order))
    BY <2>1, <2>4, <2>5
  <2> QED
    BY <2>2, <2>3, <2>6
<1>3. CASE Round
  <2>1. PICK chosen \in Selected : \E order \in Kept(chosen) : AfterSelection(Extended(order))
    BY <1>3 DEF Round
  <2>2. PICK order \in Kept(chosen) : AfterSelection(Extended(order))
    BY <2>1
  <2>3. width > 1
    BY <1>3 DEF Round
  <2> QED
    BY <1>1, <2>2, <2>3, KeptIsTaken
<1> QED
  BY <1>2, <1>3

(* A beam and one more token.                                              *)
LEMMA TokenAppended ==
  ASSUME NEW S, NEW s \in Seq(S), NEW t \in Seq(S), NEW x \in S, NEW y \in S
  PROVE  /\ Append(s, x) \in Seq(S) /\ Len(Append(s, x)) = Len(s) + 1
         /\ Append(s, x) = Append(t, y) => s = t /\ x = y
<1>1. Append(s, x) \in Seq(S) /\ Len(Append(s, x)) = Len(s) + 1
  BY AppendProperties
<1>2. Append(s, x) = Append(t, y) => s = t /\ x = y
  BY AppendInjective
<1> QED
  BY <1>1, <1>2

(* The beams after it.                                                     *)
Survive(n, next) ==
  /\ next \in Seq(Seq(SkinTokens)) /\ Len(next) = n
  /\ \A i \in 1 .. n : Len(next[i]) = Len(beams[1]) + 1
  /\ \A i, j \in 1 .. n : next[i] = next[j] => i = j

LEMMA SurvivorsAreBeams ==
  ASSUME SkinIInv, NEW n \in 1 .. width, NEW order, Taken(n, order), NEW next, next = Extended(order)
  PROVE  Survive(n, next)
<1>1. width \in Nat /\ n \in Nat /\ SkinBeams
  BY SkinGenerationAssumption DEF SkinIInv
<1>2. DOMAIN next = 1 .. n
      /\ \A i \in 1 .. n : next[i] = Append(beams[order[i].source], order[i].token)
  BY DEF Taken, Extended
<1>3. ASSUME NEW i \in 1 .. n
      PROVE  /\ order[i].source \in 1 .. Len(beams) /\ order[i].token \in SkinTokens
             /\ order[i] = [source |-> order[i].source, token |-> order[i].token]
             /\ beams[order[i].source] \in Seq(SkinTokens)
             /\ Len(beams[order[i].source]) = Len(beams[1])
  <2>1. order[i] \in Offered
    BY DEF Taken
  <2>2. DOMAIN beams = 1 .. Len(beams) /\ \A k \in 1 .. Len(beams) : beams[k] \in Seq(SkinTokens)
    BY <1>1 DEF SkinBeams
  <2>3. /\ order[i].source \in 1 .. Len(beams) /\ order[i].token \in SkinTokens
        /\ order[i] = [source |-> order[i].source, token |-> order[i].token]
    BY <2>1, <2>2 DEF Offered
  <2> QED
    BY <1>1, <2>2, <2>3 DEF SkinBeams
<1>4. ASSUME NEW i \in 1 .. n
      PROVE  next[i] \in Seq(SkinTokens) /\ Len(next[i]) = Len(beams[1]) + 1
  <2>1. PICK b \in Seq(SkinTokens), x \in SkinTokens :
           b = beams[order[i].source] /\ x = order[i].token /\ Len(b) = Len(beams[1])
    BY <1>3
  <2>2. Append(b, x) \in Seq(SkinTokens) /\ Len(Append(b, x)) = Len(b) + 1
    BY TokenAppended
  <2> QED
    BY <1>2, <2>1, <2>2
<1>5. ASSUME NEW i \in 1 .. n, NEW j \in 1 .. n, next[i] = next[j]
      PROVE  i = j
  <2>1. PICK b \in Seq(SkinTokens), x \in SkinTokens :
           b = beams[order[i].source] /\ x = order[i].token
    BY <1>3
  <2>2. PICK c \in Seq(SkinTokens), y \in SkinTokens :
           c = beams[order[j].source] /\ y = order[j].token
    BY <1>3
  <2>3. Append(b, x) = Append(c, y)
    BY <1>2, <1>5, <2>1, <2>2
  <2>4. b = c /\ x = y
    BY <2>3, TokenAppended
  <2>5. order[i].source = order[j].source
    BY <1>1, <1>3, <2>1, <2>2, <2>4 DEF SkinBeams
  <2>6. order[i] = order[j]
    BY <1>3, <2>1, <2>2, <2>4, <2>5
  <2> QED
    BY <2>6 DEF Taken
<1>6. next \in [1 .. n -> Seq(SkinTokens)]
  <2>1. next = [i \in 1 .. n |-> next[i]]
    BY <1>2 DEF Extended
  <2> QED
    BY <1>4, <2>1
<1>7. next \in Seq(Seq(SkinTokens)) /\ Len(next) = n
  BY <1>1, <1>6, SequenceOf
<1> QED
  BY <1>4, <1>5, <1>7 DEF Survive

LEMMA SkinInit == Init => SkinIInv
<1> SUFFICES ASSUME Init
             PROVE  SkinIInv
  OBVIOUS
<1>1. joints \in Nat \ {0} /\ width \in Nat \ {0} /\ joints \in 1 .. MaxJoints
      /\ width \in 1 .. MaxBeams
  BY SkinGenerationAssumption DEF Init
<1>2. beams = << <<>> >> /\ phase = "prompt"
  BY DEF Init
<1>3. <<>> \in Seq(SkinTokens) /\ Len(<<>>) = 0
  OBVIOUS
<1>4. beams \in Seq(Seq(SkinTokens)) /\ Len(beams) = 1 /\ beams[1] = <<>>
  BY <1>2
<1>5. SkinBeams
  BY <1>1, <1>4 DEF SkinBeams
<1>6. Len(beams[1]) < Wanted
  BY <1>1, <1>4 DEF Wanted
<1> QED
  BY <1>1, <1>2, <1>5, <1>6 DEF SkinIInv

LEMMA SkinNext == SkinIInv /\ [Next]_vars => SkinIInv'
<1> SUFFICES ASSUME SkinIInv, [Next]_vars
             PROVE  SkinIInv'
  OBVIOUS
<1>1. CASE Prefill
  <2>1. /\ UNCHANGED <<joints, width, beams, output>> /\ phase = "prompt"
        /\ \/ phase' = "failed"
           \/ phase' = "generate" /\ ~(Wanted > TokenLimit)
    BY <1>1 DEF Prefill, Reject
  <2>2. Wanted \in Nat /\ TokenLimit \in Nat
    BY SkinGenerationAssumption DEF SkinIInv, Wanted
  <2> QED
    BY <2>1, <2>2 DEF SkinIInv, SkinBeams, Wanted
<1>2. CASE Sample \/ Round
  <2>0. PICK n \in 1 .. width : \E order : Taken(n, order) /\ AfterSelection(Extended(order))
    BY <1>2, RoundTakes
  <2>1. PICK order : Taken(n, order) /\ AfterSelection(Extended(order))
    BY <2>0
  <2>2. PICK next : next = Extended(order)
    OBVIOUS
  <2>3. /\ next \in Seq(Seq(SkinTokens)) /\ Len(next) = n
        /\ \A i \in 1 .. n : Len(next[i]) = Len(beams[1]) + 1
        /\ \A i, j \in 1 .. n : next[i] = next[j] => i = j
    <3>1. Survive(n, next)
      BY <2>1, <2>2, SurvivorsAreBeams
    <3> QED
      BY <3>1 DEF Survive
  <2>4. /\ beams' = next /\ joints' = joints /\ width' = width
        /\ \/ Len(next[1]) = Wanted /\ phase' = "done" /\ output' = Codes(next[1])
           \/ Len(next[1]) # Wanted /\ phase' = phase /\ output' = output
    BY <2>1, <2>2 DEF AfterSelection
  <2>5. width \in Nat /\ n \in 1 .. width /\ phase = "generate" /\ Len(beams[1]) < Wanted
        /\ joints \in Nat
    BY <1>2, SkinGenerationAssumption DEF SkinIInv, Sample, Round
  <2>6. Len(beams[1]) \in Nat
    BY <2>5 DEF SkinIInv, SkinBeams
  <2>7. SkinBeams'
    BY <2>3, <2>4, <2>5 DEF SkinBeams
  <2>8. Len(next[1]) = Len(beams[1]) + 1 /\ Wanted' = Wanted /\ Wanted \in Nat
    BY <2>3, <2>4, <2>5 DEF Wanted
  <2>9. Len(next[1]) # Wanted => Len(next[1]) < Wanted
    BY <2>5, <2>6, <2>8
  <2>10. Codes(next[1])' = Codes(next[1])
    BY <2>4 DEF Codes
  <2>11. phase = "generate" => Wanted <= TokenLimit
    BY DEF SkinIInv
  <2>12. joints' \in 1 .. MaxJoints /\ width' \in 1 .. MaxBeams
    BY <2>4 DEF SkinIInv
  <2> QED
    BY <2>4, <2>5, <2>7, <2>8, <2>9, <2>11, <2>12 DEF SkinIInv, Codes
<1>3. CASE BackendFails
  BY <1>3 DEF BackendFails, Reject, SkinIInv, SkinBeams, Wanted
<1>4. CASE UNCHANGED vars
  BY <1>4 DEF vars, SkinIInv, SkinBeams, Wanted, Codes
<1> QED
  BY <1>1, <1>2, <1>3, <1>4 DEF Next, Advance
-----------------------------------------------------------------------------
(* Every round of generate_skin_codes leaves beams that are alike in       *)
(* length, pairwise different and shorter than the codes asked for until   *)
(* it ends.                                                                *)
THEOREM SkinInvariance == Spec => []SkinIInv
BY SkinInit, SkinNext, PTL DEF Spec

(* Beams are alike in length, pairwise different and within the codes      *)
(* asked for, in every state of generate_skin_codes.                       *)
THEOREM TypeCorrect == Spec => []TypeOK
<1>1. SkinIInv => TypeOK
  <2> SUFFICES ASSUME SkinIInv
               PROVE  TypeOK
    OBVIOUS
  <2>1. /\ Len(beams) \in 1 .. width /\ DOMAIN beams = 1 .. Len(beams)
        /\ \A i \in 1 .. Len(beams) : Len(beams[i]) = Len(beams[1])
        /\ \A i, j \in 1 .. Len(beams) : beams[i] = beams[j] => i = j
    BY DEF SkinIInv, SkinBeams
  <2>2. Len(beams[1]) \in Nat /\ Wanted \in Int
    <3>1. 1 \in 1 .. Len(beams)
      BY <2>1, SkinGenerationAssumption DEF SkinIInv
    <3>2. beams[1] \in Seq(SkinTokens)
      BY <3>1 DEF SkinIInv, SkinBeams
    <3> QED
      BY <3>2, SkinGenerationAssumption DEF SkinIInv, Wanted
  <2>3. IsInjective(beams)
    BY <2>1 DEF IsInjective
  <2> QED
    BY <2>1, <2>2, <2>3 DEF TypeOK, SkinIInv
<1> QED
  BY <1>1, SkinInvariance, PTL

(* A result of generate_skin_codes has four codes for every joint, each    *)
(* one that decode_skin_joint accepts, and is the first of the last beams. *)
THEOREM Complete == Spec => []ResultComplete
<1>1. SkinIInv => ResultComplete
  <2> SUFFICES ASSUME SkinIInv, phase = "done"
               PROVE  /\ Len(output) = 4 * joints
                      /\ \A i \in DOMAIN output : output[i] \in FSQCodes
                      /\ output = Codes(beams[1])
    BY DEF ResultComplete
  <2>1. output = Codes(beams[1]) /\ Len(beams[1]) = Wanted
    BY DEF SkinIInv
  <2>2. PICK s \in Seq(SkinTokens) : s = beams[1]
    BY SkinGenerationAssumption DEF SkinIInv, SkinBeams
  <2>3. PICK n \in Nat : n = Len(s) /\ DOMAIN s = 1 .. n
    OBVIOUS
  <2>4. \A i \in 1 .. n : s[i] \in SkinTokens
    BY <2>3
  <2>5. \A t \in SkinTokens : t - FirstSkin \in FSQCodes
    <3>1. FirstSkin \in Int /\ LastSkin \in Int /\ LastCode = LastSkin - FirstSkin
      BY DEF FirstSkin, LastSkin, LastCode
    <3> QED
      BY <3>1, SkinGenerationAssumption DEF FSQCodes
  <2>6. /\ output = [i \in 1 .. n |-> s[i] - FirstSkin]
        /\ \A i \in 1 .. n : output[i] = s[i] - FirstSkin
    BY <2>1, <2>2, <2>3 DEF Codes
  <2>7. output \in [1 .. n -> FSQCodes]
    BY <2>4, <2>5, <2>6
  <2>8. Len(output) = n
    BY <2>7, SequenceOf
  <2>9. \A i \in DOMAIN output : output[i] \in FSQCodes
    BY <2>7
  <2>10. Len(output) = 4 * joints
    BY <2>1, <2>2, <2>3, <2>8 DEF Wanted
  <2> QED
    BY <2>1, <2>9, <2>10
<1> QED
  BY <1>1, SkinInvariance, PTL

(* Two candidates are kept of every beam, whatever top-k and the nucleus   *)
(* cut, so each round doubles the beams or has as many as were asked for.  *)
THEOREM Fills == Spec => BeamsFill
<1>1. ASSUME SkinIInv, [Next]_vars, beams' # beams
      PROVE  Len(beams') >= IF 2 * Len(beams) < width THEN 2 * Len(beams) ELSE width
  <2>1. Sample \/ Round
    BY <1>1 DEF Next, Advance, Prefill, BackendFails, Reject, vars
  <2> DEFINE Enough(n, order) ==
               /\ Taken(n, order) /\ AfterSelection(Extended(order))
               /\ n >= IF 2 * Len(beams) < width THEN 2 * Len(beams) ELSE width
  <2>0. PICK n \in 1 .. width : \E order : Enough(n, order)
    BY <1>1, <2>1, RoundTakes
  <2>2. PICK order : Enough(n, order)
    BY <2>0
  <2>3. beams' = Extended(order)
    BY <2>2 DEF AfterSelection
  <2>4. Len(beams') = n
    BY <1>1, <2>2, <2>3, SurvivorsAreBeams DEF Survive
  <2> QED
    BY <2>2, <2>4
<1>2. ASSUME SkinIInv, [Next]_vars
      PROVE  [beams' # beams =>
                Len(beams') >= (IF 2 * Len(beams) < width THEN 2 * Len(beams) ELSE width)]_vars
  BY <1>1, <1>2
<1> QED
  BY <1>2, SkinInvariance, PTL DEF Spec, BeamsFill
-----------------------------------------------------------------------------
LEMMA TokensAreIntegers == SkinTokens \subseteq Int /\ Skeleton \in Seq(Int)
BY SkinGenerationAssumption DEF FirstSkin

LEMMA PathAppended ==
  ASSUME NEW s \in Seq(Int), NEW x \in Int
  PROVE  /\ Skeleton \o Append(s, x) = Append(Skeleton \o s, x)
         /\ Len(Skeleton \o s) = Len(Skeleton) + Len(s)
<1>1. Skeleton \in Seq(Int)
  BY SkinGenerationAssumption
<1> QED
  BY <1>1

LEMMA RoundSelects ==
  ASSUME SkinIInv, Sample \/ Round
  PROVE  /\ Len(Paths(beams)[1]) < Len(Skeleton) + TokenLimit
         /\ \E sel \in Search!Selections(Len(Paths(beams))) :
              Paths(beams') = Search!Extended(Paths(beams), sel)
<1>0. PICK n \in 1 .. width : \E order : Taken(n, order) /\ AfterSelection(Extended(order))
  BY RoundTakes
<1>1. PICK order : Taken(n, order) /\ AfterSelection(Extended(order))
  BY <1>0
<1>2. width \in 1 .. MaxBeams /\ MaxBeams \in Nat /\ SkinBeams /\ phase = "generate"
      /\ joints \in Nat /\ TokenLimit \in Nat
  BY SkinGenerationAssumption DEF SkinIInv, Sample, Round
<1>3. PICK l \in Nat : l = Len(beams) /\ l # 0 /\ DOMAIN beams = 1 .. l
  BY <1>2 DEF SkinBeams
<1>4. /\ Paths(beams) \in [1 .. l -> Seq(Int)]
      /\ \A i \in 1 .. l : beams[i] \in Seq(Int) /\ Paths(beams)[i] = Skeleton \o beams[i]
  <2>1. \A i \in 1 .. l : beams[i] \in Seq(SkinTokens)
    BY <1>2, <1>3 DEF SkinBeams
  <2>2. \A i \in 1 .. l : beams[i] \in Seq(Int)
    BY <2>1, TokensAreIntegers, SeqMonotonic
  <2>3. \A i \in 1 .. l : Skeleton \o beams[i] \in Seq(Int)
    BY <2>2, TokensAreIntegers, ConcatProperties
  <2> QED
    BY <1>3, <2>2, <2>3 DEF Paths
<1>5. Len(Paths(beams)) = l
  BY <1>4, SequenceOf
<1>6. Len(Paths(beams)[1]) < Len(Skeleton) + TokenLimit
  <2>1. 1 \in 1 .. l
    BY <1>3
  <2>2. Len(Paths(beams)[1]) = Len(Skeleton) + Len(beams[1])
    BY <1>4, <2>1, PathAppended
  <2>3. Len(beams[1]) < Wanted /\ Wanted <= TokenLimit /\ Wanted \in Nat
    BY <1>2 DEF SkinIInv, Wanted
  <2>4. Len(beams[1]) \in Nat /\ Len(Skeleton) \in Nat
    BY <1>4, <2>1, TokensAreIntegers, LenProperties
  <2> QED
    BY <1>2, <2>2, <2>3, <2>4
<1>7. order \in Search!Selections(l)
  <2>1. order \in [1 .. n -> Search!Continuations(l)]
    BY <1>1, <1>3 DEF Taken, Offered, Search!Continuations
  <2>2. n \in 1 .. MaxBeams
    BY <1>1, <1>2
  <2> QED
    BY <1>1, <2>1, <2>2 DEF Search!Selections, Taken
<1>8. Paths(beams') = Search!Extended(Paths(beams), order)
  <2>1. beams' = Extended(order)
    BY <1>1 DEF AfterSelection
  <2>2. DOMAIN order = 1 .. n /\ \A i \in 1 .. n : order[i].source \in 1 .. l /\ order[i].token \in Int
    <3>1. \A i \in 1 .. n : order[i] \in Offered
      BY <1>1 DEF Taken
    <3> QED
      BY <1>1, <1>3, <3>1, TokensAreIntegers DEF Taken, Offered
  <2>3. DOMAIN Extended(order) = 1 .. n
        /\ \A i \in 1 .. n : Extended(order)[i] = Append(beams[order[i].source], order[i].token)
    BY <2>2 DEF Extended
  <2>4. ASSUME NEW i \in 1 .. n
        PROVE  Skeleton \o Extended(order)[i]
                 = Append(Paths(beams)[order[i].source], order[i].token)
    <3>1. PICK b \in Seq(Int), x \in Int : b = beams[order[i].source] /\ x = order[i].token
             /\ Paths(beams)[order[i].source] = Skeleton \o b
      BY <1>4, <2>2
    <3>2. Skeleton \o Append(b, x) = Append(Skeleton \o b, x)
      BY PathAppended
    <3> QED
      BY <2>3, <3>1, <3>2
  <2>5. Paths(beams') = [i \in 1 .. n |-> Skeleton \o Extended(order)[i]]
    BY <2>1, <2>3 DEF Paths
  <2>6. Search!Extended(Paths(beams), order)
          = [i \in 1 .. n |-> Append(Paths(beams)[order[i].source], order[i].token)]
    BY <2>2 DEF Search!Extended
  <2> QED
    BY <2>4, <2>5, <2>6
<1> QED
  BY <1>5, <1>6, <1>7, <1>8

(* Every prefill, remap and decode generate_skin_codes asks for is one the *)
(* search over beams allows: no beam from nowhere, none past the end.      *)
THEOREM Refinement == Spec => ImplementsBeamSearch
<1>1. Init => Search!Init
  <2> SUFFICES ASSUME Init
               PROVE  Search!Init
    OBVIOUS
  <2>1. beams = << <<>> >> /\ logits = <<>> /\ phase = "prompt"
    BY DEF Init
  <2>2. Skeleton \o <<>> = Skeleton
    BY TokensAreIntegers
  <2>3. DOMAIN beams = {1} /\ beams[1] = <<>>
    BY <2>1
  <2>4. Paths(beams) = [i \in {1} |-> Skeleton]
    BY <2>2, <2>3 DEF Paths
  <2>5. Paths(beams) = <<Skeleton>>
    BY <2>4
  <2> QED
    BY <2>1, <2>5 DEF Search!Init
<1>2. ASSUME SkinIInv, [Next]_vars
      PROVE  [Search!Next]_Search!vars
  <2>1. CASE Prefill
    <3>1. CASE phase' = "failed" /\ UNCHANGED <<beams, logits>>
      BY <2>1, <3>1 DEF Prefill, Search!Next, Search!Fail, Paths
    <3>2. CASE phase' = "generate" /\ UNCHANGED beams /\ logits' = Paths(beams)
      BY <2>1, <3>2 DEF Prefill, Search!Next, Search!Start, Paths
    <3> QED
      BY <2>1, <3>1, <3>2 DEF Prefill, Reject
  <2>2. CASE Sample \/ Round
    <3>1. /\ Len(Paths(beams)[1]) < Len(Skeleton) + TokenLimit
          /\ \E sel \in Search!Selections(Len(Paths(beams))) :
               Paths(beams') = Search!Extended(Paths(beams), sel)
      BY <1>2, <2>2, RoundSelects
    <3>2. phase = "generate" /\ \E survivors : AfterSelection(survivors)
      BY <2>2 DEF Sample, Round
    <3>3. \/ phase' = "done" /\ logits' = logits
          \/ phase' = phase /\ logits' = Paths(beams')
      BY <3>2 DEF AfterSelection
    <3>4. Paths(beams)' = Paths(beams')
      BY DEF Paths
    <3>5. CASE phase' = "done" /\ logits' = logits
      BY <3>1, <3>2, <3>4, <3>5 DEF Search!Next, Search!Finish
    <3>6. CASE phase' = phase /\ logits' = Paths(beams')
      BY <3>1, <3>2, <3>4, <3>6 DEF Search!Next, Search!Extend
    <3> QED
      BY <3>3, <3>5, <3>6
  <2>3. CASE BackendFails
    BY <2>3 DEF BackendFails, Reject, Search!Next, Search!Fail, Paths
  <2>4. CASE UNCHANGED vars
    BY <2>4 DEF vars, Search!vars, Paths
  <2> QED
    BY <1>2, <2>1, <2>2, <2>3, <2>4 DEF Next, Advance
<1> QED
  BY <1>1, <1>2, SkinInvariance, PTL DEF Spec, Search!Spec, ImplementsBeamSearch
=============================================================================
