-------------------------- MODULE BeamCacheProofs --------------------------
(***************************************************************************)
(* Proofs about BeamCache for every number of beams, every prompt, every   *)
(* vocabulary and every token limit.                                       *)
(***************************************************************************)
EXTENDS BeamCache, FiniteSetTheorems, SequenceTheorems, WellFoundedInduction, TLAPS

-----------------------------------------------------------------------------
(* Facts about data.                                                       *)

(* A nonempty set of natural numbers has a least element.                  *)
LEMMA LeastNat ==
  ASSUME NEW T \in SUBSET Nat, T # {}
  PROVE  \E x \in T : \A y \in T : x <= y
<1> DEFINE R == OpToRel(<, Nat)
<1>1. IsWellFoundedOn(R, Nat)
  BY NatLessThanWellFounded
<1> HIDE DEF R
<1>2. PICK x \in T : \A y \in T : <<y, x>> \notin R
  BY <1>1, WFMin
<1>3. ASSUME NEW y \in T PROVE x <= y
  <2>1. x \in Nat /\ y \in Nat
    OBVIOUS
  <2>2. <<y, x>> \in R <=> y < x
    BY <2>1 DEF R, OpToRel
  <2>3. QED BY <1>2, <2>1, <2>2
<1>4. QED BY <1>3

(* A function on 1 .. k is a sequence.                                     *)
LEMMA FunctionIsSeq ==
  ASSUME NEW S, NEW k \in Nat, NEW f \in [1 .. k -> S]
  PROVE  f \in Seq(S) /\ Len(f) = k
<1>1. f \in Seq(S)
  BY SeqDef, Zenon
<1>2. QED BY <1>1, LenProperties

(* What a selection is.                                                    *)
LEMMA SelectionFacts ==
  ASSUME NEW sel \in Selections, Len(beams) \in Nat
  PROVE  /\ sel \in Seq([source : 1 .. Len(beams), token : Vocabulary])
         /\ Len(sel) \in 1 .. MaxBeams
         /\ DOMAIN sel = 1 .. Len(sel)
         /\ \A c \in DOMAIN sel : /\ sel[c].source \in 1 .. Len(beams)
                                  /\ sel[c].token \in Vocabulary
         /\ \A c, d \in DOMAIN sel : sel[c] = sel[d] => c = d
<1>1. MaxBeams \in Nat
  BY KVCacheAssumption
<1>2. PICK k \in 1 .. MaxBeams :
        sel \in [1 .. k -> [source : 1 .. Len(beams), token : Vocabulary]]
  BY DEF Selections, Search!Selections, Search!Continuations
<1>3. k \in Nat
  BY <1>1
<1>4. DOMAIN sel = 1 .. k
  BY <1>2
<1>5. sel \in Seq([source : 1 .. Len(beams), token : Vocabulary]) /\ Len(sel) = k
  BY <1>2, <1>3, FunctionIsSeq, Zenon
<1>7. ASSUME NEW c \in DOMAIN sel
      PROVE  sel[c] \in [source : 1 .. Len(beams), token : Vocabulary]
  BY <1>2, <1>4, <1>7
<1>8. \A c, d \in DOMAIN sel : sel[c] = sel[d] => c = d
  BY DEF Selections, Search!Selections
<1>9. QED BY <1>1, <1>4, <1>5, <1>7, <1>8

(* Every parent has a first child: the one remap lets keep the slot.       *)
LEMMA FirstChildExists ==
  ASSUME NEW sel, DOMAIN sel \in SUBSET Nat, DOMAIN sel = 1 .. Len(sel),
         Len(sel) \in Nat, NEW c \in DOMAIN sel
  PROVE  \E d \in DOMAIN sel \ Duplicates(sel) : sel[d].source = sel[c].source
<1> DEFINE T == {e \in DOMAIN sel : sel[e].source = sel[c].source}
<1>1. T \in SUBSET Nat /\ T # {}
  OBVIOUS
<1>2. PICK d \in T : \A e \in T : d <= e
  BY <1>1, LeastNat
<1>3. ASSUME NEW e \in 1 .. d - 1
      PROVE  sel[e].source # sel[d].source
  <2>1. e \in DOMAIN sel /\ ~(d <= e)
    OBVIOUS
  <2>2. QED BY <1>2, <2>1
<1>4. QED BY <1>3 DEF Duplicates, IsFirstChild

(* There is a free slot for every child that needs a copy.                 *)
LEMMA EnoughSlots ==
  ASSUME NEW sel, Len(sel) \in 1 .. MaxBeams, DOMAIN sel = 1 .. Len(sel),
         \A c \in DOMAIN sel : beams[sel[c].source].slot \in Slots
  PROVE  /\ IsFiniteSet(FreeSlots(sel))
         /\ IsFiniteSet(Duplicates(sel))
         /\ Cardinality(Duplicates(sel)) <= Cardinality(FreeSlots(sel))
<1> DEFINE Kept == DOMAIN sel \ Duplicates(sel)
           f == [c \in Kept |-> beams[sel[c].source].slot]
           Retained == {beams[sel[c].source].slot : c \in Kept}
<1>1. MaxBeams \in Nat /\ Len(sel) \in Nat /\ Len(sel) <= MaxBeams
  BY KVCacheAssumption
<1>2. IsFiniteSet(DOMAIN sel) /\ Cardinality(DOMAIN sel) = Len(sel)
  BY <1>1, FS_Interval
<1>3. IsFiniteSet(Slots) /\ Cardinality(Slots) = MaxBeams
  <2>1. 0 \in Int /\ MaxBeams - 1 \in Int /\ ~(0 > MaxBeams - 1)
    BY KVCacheAssumption
  <2>2. IsFiniteSet(0 .. MaxBeams - 1)
    BY <2>1, FS_Interval
  <2>3. Cardinality(0 .. MaxBeams - 1) = (MaxBeams - 1) - 0 + 1
    BY <2>1, FS_Interval
  <2>4. QED BY <1>1, <2>2, <2>3 DEF Slots
<1>4. Duplicates(sel) \in SUBSET DOMAIN sel
  BY DEF Duplicates
<1>5. IsFiniteSet(Duplicates(sel)) /\ IsFiniteSet(Kept)
  BY <1>2, <1>4, FS_Subset, FS_Difference
<1>6. Cardinality(Kept) = Len(sel) - Cardinality(Duplicates(sel))
  <2>1. DOMAIN sel \cap Duplicates(sel) = Duplicates(sel)
    BY <1>4
  <2>2. Cardinality(Kept)
          = Cardinality(DOMAIN sel) - Cardinality(DOMAIN sel \cap Duplicates(sel))
    BY <1>2, FS_Difference
  <2> HIDE DEF Kept
  <2>3. QED BY <1>2, <2>1, <2>2
<1>7. IsFiniteSet(Retained) /\ Cardinality(Retained) <= Cardinality(Kept)
  <2>1. f \in [Kept -> Retained]
    OBVIOUS
  <2>2. \A r \in Retained : \E c \in Kept : f[c] = r
    OBVIOUS
  <2> HIDE DEF f, Kept, Retained
  <2>3. f \in Surjection(Kept, Retained)
    BY <2>1, <2>2 DEF Surjection
  <2>4. QED BY <1>5, <2>3, FS_Surjection
<1>8. /\ IsFiniteSet(Slots \ Retained)
      /\ Cardinality(Slots \ Retained) = MaxBeams - Cardinality(Retained)
  <2>1. Slots \cap Retained = Retained
    OBVIOUS
  <2>2. QED BY <1>3, <2>1, FS_Difference
<1>9. /\ Cardinality(Kept) \in Nat /\ Cardinality(Retained) \in Nat
      /\ Cardinality(Duplicates(sel)) \in Nat
  BY <1>5, <1>7, FS_CardinalityType
<1>10. FreeSlots(sel) = Slots \ Retained
  BY DEF FreeSlots
<1> HIDE DEF Kept, f, Retained
<1>11. QED BY <1>1, <1>5, <1>6, <1>7, <1>8, <1>9, <1>10

(* The constants, spelled out.                                             *)
LEMMA ConstantFacts ==
  /\ MaxBeams \in Nat \ {0} /\ Capacity \in Nat \ {0}
  /\ MaxTokens \in Nat \ {0} /\ Wanted = Capacity
  /\ Len(Prompt) \in Nat \ {0} /\ Len(Prompt) < Capacity
  /\ Prompt \in Seq(Entries)
  /\ Vocabulary \subseteq Entries
  /\ Slots = 0 .. MaxBeams - 1 /\ 0 \in Slots
  /\ Unassigned \notin Slots
<1>1. Prompt \in Seq(Entries) /\ Prompt # <<>>
  BY BeamCacheAssumption
<1>2. Len(Prompt) \in Nat \ {0}
  BY <1>1, EmptySeq
<1>3. QED BY <1>1, <1>2, KVCacheAssumption, BeamCacheAssumption
          DEF Wanted, Slots, Unassigned

(* Appending to a path.                                                    *)
LEMMA AppendFacts ==
  ASSUME NEW path \in Seq(Entries), NEW token \in Entries
  PROVE  /\ Append(path, token) \in Seq(Entries)
         /\ Len(Append(path, token)) = Len(path) + 1
         /\ \A i \in 1 .. Len(path) : Append(path, token)[i] = path[i]
         /\ Append(path, token)[Len(path) + 1] = token
BY AppendProperties

(* What the type invariant says of the beams, element by element.          *)
LEMMA BeamFacts ==
  ASSUME TypeOK
  PROVE  /\ Len(beams) \in Nat /\ Len(beams) \in 1 .. MaxBeams
         /\ DOMAIN beams = 1 .. Len(beams) /\ 1 \in DOMAIN beams
         /\ \A i \in DOMAIN beams : /\ beams[i].path \in Seq(Entries)
                                    /\ beams[i].slot \in Slots
                                    /\ Len(beams[i].path) \in 0 .. Capacity
<1>1. beams \in Seq([path : Seq(Entries), slot : Slots])
  BY DEF TypeOK
<1>2. Len(beams) \in Nat /\ DOMAIN beams = 1 .. Len(beams)
  BY <1>1, LenProperties
<1>3. ASSUME NEW i \in DOMAIN beams
      PROVE  /\ beams[i].path \in Seq(Entries)
             /\ beams[i].slot \in Slots
             /\ Len(beams[i].path) \in 0 .. Capacity
  <2>1. beams[i] \in [path : Seq(Entries), slot : Slots]
    BY <1>1, <1>2, ElementOfSeq
  <2>2. Len(beams[i].path) \in Nat
    BY <2>1, LenProperties
  <2>3. QED BY <2>1, <2>2, ConstantFacts DEF TypeOK
<1>4. QED BY <1>2, <1>3 DEF TypeOK

LEMMA NextFacts ==
  ASSUME TypeOK
  PROVE  /\ Len(next) \in Nat /\ DOMAIN next = 1 .. Len(next)
         /\ \A c \in DOMAIN next : /\ next[c].source \in DOMAIN beams
                                   /\ next[c].token \in Vocabulary
<1>1. next \in Seq([source : DOMAIN beams, token : Vocabulary])
  BY DEF TypeOK
<1>2. Len(next) \in Nat /\ DOMAIN next = 1 .. Len(next)
  BY <1>1, LenProperties
<1>3. ASSUME NEW c \in DOMAIN next
      PROVE  next[c] \in [source : DOMAIN beams, token : Vocabulary]
  BY <1>1, <1>2, ElementOfSeq
<1>4. QED BY <1>2, <1>3

-----------------------------------------------------------------------------
(* The invariant holds at the start, and after every error return.         *)

LEMMA InitInvariant == Init => IInv
<1> SUFFICES ASSUME Init PROVE IInv
  OBVIOUS
<1>1. beams \in Seq([path : Seq(Entries), slot : Slots]) /\ Len(beams) = 1
  BY ConstantFacts DEF Init
<1>2. cache \in Caches
  BY DEF Init, EmptyCache, Caches
<1>3. TypeOK
  BY <1>1, <1>2, ConstantFacts DEF Init, TypeOK
<1>4. QED BY <1>3 DEF Init, IInv, NoInternalError, SlotsDistinct,
              CacheHoldsHistory, LogitsFollowBeams, Lockstep,
              RemapAssignment, RemapContents, NothingQueued, BeforePrefill

LEMMA RejectInvariant ==
  ASSUME IInv, Reject("compute")
  PROVE  IInv'
<1>1. TypeOK'
  BY DEF IInv, TypeOK, Reject, remapVars
<1>2. QED BY <1>1 DEF IInv, Reject, remapVars, NoInternalError, SlotsDistinct,
              CacheHoldsHistory, LogitsFollowBeams, Lockstep,
              RemapAssignment, RemapContents, NothingQueued, BeforePrefill

-----------------------------------------------------------------------------
(* One lemma per action.                                                   *)

LEMMA PrefillInvariant ==
  ASSUME IInv, Prefill
  PROVE  IInv'
<1>1. /\ cache' = PrefillWrites(cache, Prompt)
      /\ cachedLength' = Len(Prompt)
      /\ logits' = <<Prompt>>
      /\ phase' = "choose"
      /\ beams' = beams /\ UNCHANGED <<remapVars, error>>
  BY ConstantFacts DEF Prefill
<1>2. beams = <<[path |-> Prompt, slot |-> 0]>>
  BY DEF IInv, Prefill, BeforePrefill
<1>3. cache' \in Caches
  <2>1. \A p \in Positions : p < Len(Prompt) => Prompt[p + 1] \in Entries
    BY ConstantFacts, ElementOfSeq DEF Positions
  <2>2. QED BY <1>1, <2>1, ConstantFacts DEF IInv, TypeOK, Caches, PrefillWrites
<1>4. TypeOK'
  BY <1>1, <1>3, ConstantFacts DEF IInv, TypeOK, remapVars
<1>5. CacheHoldsHistory'
  <2>1. ASSUME NEW p \in 0 .. Len(Prompt) - 1
        PROVE  cache'[0][p] = Prompt[p + 1]
    BY <1>1, ConstantFacts DEF IInv, TypeOK, Caches, PrefillWrites, Positions
  <2>2. QED BY <1>1, <1>2, <2>1 DEF CacheHoldsHistory, Holds
<1>6. LogitsFollowBeams'
  BY <1>1, <1>2 DEF LogitsFollowBeams, Paths
<1>7. Lockstep'
  BY <1>1, <1>2, ConstantFacts DEF Lockstep
<1>8. QED
  BY <1>1, <1>2, <1>4, <1>5, <1>6, <1>7
     DEF IInv, Prefill, NoInternalError, SlotsDistinct, RemapAssignment,
         RemapContents, NothingQueued, BeforePrefill, remapVars

LEMMA RemapBeginInvariant ==
  ASSUME IInv, NEW sel \in Selections, RemapBegin(sel)
  PROVE  IInv'
<1> USE ConstantFacts
<1>1. TypeOK /\ SlotsDistinct /\ Lockstep /\ CacheHoldsHistory /\ pending = {}
  BY DEF IInv, RemapBegin, NothingQueued
<1>2. /\ sel \in Seq([source : 1 .. Len(beams), token : Vocabulary])
      /\ Len(sel) \in 1 .. MaxBeams /\ Len(sel) \in Nat
      /\ DOMAIN sel = 1 .. Len(sel)
      /\ \A c \in DOMAIN sel : sel[c].source \in DOMAIN beams
      /\ \A c, d \in DOMAIN sel : sel[c] = sel[d] => c = d
  <2>1. Len(beams) \in Nat /\ DOMAIN beams = 1 .. Len(beams)
    BY <1>1, BeamFacts
  <2>2. /\ sel \in Seq([source : 1 .. Len(beams), token : Vocabulary])
        /\ Len(sel) \in 1 .. MaxBeams
        /\ DOMAIN sel = 1 .. Len(sel)
        /\ \A c \in DOMAIN sel : sel[c].source \in 1 .. Len(beams)
        /\ \A c, d \in DOMAIN sel : sel[c] = sel[d] => c = d
    BY <2>1, SelectionFacts
  <2>3. QED BY <2>1, <2>2
<1>3. phase = "choose" /\ cachedLength \in Len(Prompt) .. Wanted
  BY <1>1 DEF RemapBegin, Lockstep
<1>4. cachedLength < Wanted
  BY <1>1, <1>3, BeamFacts DEF RemapBegin, Lockstep
<1>5. RemapAccepts(sel)
  BY <1>1, <1>2, <1>3, BeamFacts DEF RemapAccepts, SlotsDistinct
<1>6. /\ next' = sel
      /\ output' = [c \in DOMAIN sel |-> IF IsFirstChild(sel, c)
                                        THEN beams[sel[c].source].slot
                                        ELSE Unassigned]
      /\ free' = FreeSlots(sel)
      /\ child' = 1
      /\ phase' = "remap"
      /\ cache' = cache /\ cachedLength' = cachedLength /\ beams' = beams
      /\ logits' = logits /\ pending' = pending /\ error' = error
  BY <1>5 DEF RemapBegin
<1>7. \A c \in DOMAIN sel : beams[sel[c].source].slot \in Slots
  BY <1>1, <1>2, BeamFacts
<1>8. TypeOK'
  <2>1. free' \subseteq Slots
    BY <1>6 DEF FreeSlots
  <2>2. output' \in [DOMAIN next' -> Slots \cup {Unassigned}]
    BY <1>6, <1>7
  <2>3. next' \in Seq([source : DOMAIN beams', token : Vocabulary])
    BY <1>1, <1>2, <1>6, BeamFacts
  <2>4. child' \in 0 .. MaxBeams + 1
    BY <1>6
  <2>5. QED BY <1>1, <1>6, <2>1, <2>2, <2>3, <2>4 DEF TypeOK
<1>9. \A c \in DOMAIN sel : beams[sel[c].source].slot \notin FreeSlots(sel)
  <2> SUFFICES ASSUME NEW c \in DOMAIN sel
               PROVE  beams[sel[c].source].slot \notin FreeSlots(sel)
    OBVIOUS
  <2>1. DOMAIN sel \in SUBSET Nat
    BY <1>2
  <2>2. PICK d \in DOMAIN sel \ Duplicates(sel) : sel[d].source = sel[c].source
    BY <1>2, <2>1, FirstChildExists
  <2>3. QED BY <2>2 DEF FreeSlots
<1>10. RemapAssignment'
  <2>1. \A c, d \in DOMAIN sel \ Duplicates(sel) :
          beams[sel[c].source].slot = beams[sel[d].source].slot => c = d
    <3> SUFFICES ASSUME NEW c \in DOMAIN sel \ Duplicates(sel),
                        NEW d \in DOMAIN sel \ Duplicates(sel),
                        beams[sel[c].source].slot = beams[sel[d].source].slot,
                        c # d
                 PROVE  FALSE
      OBVIOUS
    <3>1. sel[c].source = sel[d].source
      BY <1>1, <1>2 DEF SlotsDistinct
    <3>2. c \in 1 .. d - 1 \/ d \in 1 .. c - 1
      BY <1>2
    <3>3. QED BY <3>1, <3>2 DEF Duplicates, IsFirstChild
  <2>2. Cardinality(Duplicates(sel) \ 1 .. 1 - 1) <= Cardinality(FreeSlots(sel))
    <3>1. Duplicates(sel) \ 1 .. 1 - 1 = Duplicates(sel)
      OBVIOUS
    <3>2. QED BY <1>2, <1>7, <3>1, EnoughSlots
  <2>3. \A c \in DOMAIN sel :
          output'[c] = IF c \in Duplicates(sel) THEN Unassigned
                                               ELSE beams[sel[c].source].slot
    BY <1>6 DEF Duplicates
  <2>4. Duplicates(sel) \subseteq DOMAIN sel /\ FreeSlots(sel) \subseteq Slots
    BY DEF Duplicates, FreeSlots
  <2>5. \A c \in DOMAIN sel : Parent(c)' = beams[sel[c].source]
    BY <1>6 DEF Parent
  <2>6. QED BY <1>2, <1>4, <1>6, <1>7, <1>9, <2>1, <2>2, <2>3, <2>4, <2>5
            DEF RemapAssignment
<1>11. RemapContents'
  <2>1. ASSUME NEW c \in DOMAIN sel
        PROVE  Holds(Parent(c).slot, Parent(c).path)'
    BY <1>1, <1>2, <1>3, <1>6 DEF CacheHoldsHistory, Holds, Parent
  <2>2. Duplicates(sel) \subseteq 1 .. Len(sel)
    BY <1>2 DEF Duplicates
  <2>3. QED BY <1>1, <1>6, <2>1, <2>2, <1>2 DEF RemapContents
<1>12. QED
  BY <1>1, <1>3, <1>6, <1>8, <1>10, <1>11
     DEF IInv, NoInternalError, SlotsDistinct, CacheHoldsHistory,
         LogitsFollowBeams, Lockstep, NothingQueued, BeforePrefill

(* The lowest free slot is one.                                            *)
LEMMA LowestFree ==
  ASSUME TypeOK, free # {}
  PROVE  (CHOOSE s \in free : \A t \in free : s <= t) \in free
<1>1. free \in SUBSET Nat
  BY ConstantFacts DEF TypeOK
<1>2. \E s \in free : \A t \in free : s <= t
  BY <1>1, LeastNat
<1>3. QED BY <1>2

(* The child already has its parent's slot: remap looks at the next one.   *)
LEMMA RetainedChildInvariant ==
  ASSUME IInv, RemapChild, output[child] # Unassigned
  PROVE  IInv'
<1>1. /\ phase = "remap" /\ phase' = phase
      /\ child \in 1 .. Len(next) /\ child' = child + 1 /\ child \in DOMAIN next
      /\ cache' = cache /\ cachedLength' = cachedLength /\ beams' = beams
      /\ logits' = logits /\ next' = next /\ output' = output
      /\ free' = free /\ pending' = pending /\ error' = error
  BY NextFacts DEF RemapChild, IInv, RemapAssignment
<1>2. Len(next) \in 1 .. MaxBeams /\ MaxBeams \in Nat /\ DOMAIN next = 1 .. Len(next)
  BY <1>1, NextFacts, ConstantFacts DEF IInv, RemapAssignment
<1>3. child \notin Duplicates(next)
  BY <1>1 DEF IInv, RemapAssignment
<1>4. Duplicates(next) \subseteq 1 .. Len(next)
  BY <1>2 DEF Duplicates
<1>5. \A c \in Duplicates(next) : c < child + 1 <=> c < child
  BY <1>1, <1>2, <1>3, <1>4
<1>6. TypeOK'
  BY <1>1, <1>2 DEF IInv, TypeOK
<1>7. RemapAssignment'
  <2>1. Duplicates(next) \ 1 .. child = Duplicates(next) \ 1 .. child - 1
    BY <1>1, <1>2, <1>4, <1>5
  <2>2. \A c \in DOMAIN next : c < child + 1 => output[c] # Unassigned
    <3>1. \A c \in DOMAIN next : c < child + 1 => c < child \/ c = child
      BY <1>1, <1>2
    <3>2. QED BY <1>1, <3>1 DEF IInv, RemapAssignment
  <2>3. child + 1 \in 1 .. Len(next) + 1
    BY <1>1, <1>2
  <2>4. \A c \in DOMAIN next : Parent(c)' = Parent(c)
    BY <1>1 DEF Parent
  <2>5. Duplicates(next)' = Duplicates(next) /\ Duplicates(next) \subseteq DOMAIN next
    BY <1>1, <1>2, <1>4 DEF Duplicates, IsFirstChild
  <2>6. Cardinality(Duplicates(next) \ 1 .. child) <= Cardinality(free)
    BY <1>1, <2>1 DEF IInv, RemapAssignment
  <2>7. \A c \in Duplicates(next) :
          IF c < child + 1
          THEN \A d \in DOMAIN next : output[c] # Parent(d).slot
          ELSE output[c] = Unassigned
    BY <1>1, <1>5 DEF IInv, RemapAssignment
  <2>8. child' - 1 = child
    BY <1>1
  <2>9. (Duplicates(next) \ 1 .. child - 1)' = Duplicates(next) \ 1 .. child
    BY <2>5, <2>8
  <2>10. (Cardinality(Duplicates(next) \ 1 .. child - 1) <= Cardinality(free))'
    BY <1>1, <2>6, <2>9
  <2>11. QED BY <1>1, <2>2, <2>3, <2>4, <2>5, <2>7, <2>10
            DEF IInv, RemapAssignment, Wanted
<1>8. RemapContents'
  BY <1>1, <1>5 DEF IInv, RemapContents, Holds, Parent, CloneOf
<1>9. QED
  BY <1>1, <1>6, <1>7, <1>8
     DEF IInv, NoInternalError, SlotsDistinct, CacheHoldsHistory,
         LogitsFollowBeams, Lockstep, NothingQueued, BeforePrefill

(* The child takes the lowest free slot and its copy is queued.            *)
LEMMA ClonedChildInvariant ==
  ASSUME IInv, RemapChild, output[child] = Unassigned
  PROVE  IInv'
<1> DEFINE destination == CHOOSE s \in free : \A t \in free : s <= t
<1>1. /\ phase = "remap" /\ child \in 1 .. Len(next) /\ child \in DOMAIN next
      /\ Len(next) \in 1 .. MaxBeams /\ MaxBeams \in Nat
      /\ DOMAIN next = 1 .. Len(next)
  BY NextFacts, ConstantFacts DEF RemapChild, IInv, RemapAssignment
<1>2. \A c \in DOMAIN next : Parent(c).slot \in Slots
  BY NextFacts, BeamFacts DEF IInv, Parent
<1>3. child \in Duplicates(next)
  BY <1>1, <1>2, ConstantFacts DEF IInv, RemapAssignment
<1>4. Duplicates(next) \subseteq 1 .. Len(next)
  BY <1>1 DEF Duplicates
<1> DEFINE Waiting == Duplicates(next) \ 1 .. child - 1
<1>5. /\ IsFiniteSet(free) /\ IsFiniteSet(Waiting)
      /\ Cardinality(free) \in Nat /\ Cardinality(Waiting) \in Nat
      /\ Cardinality(Waiting) <= Cardinality(free)
  <2>1. IsFiniteSet(0 .. MaxBeams - 1) /\ IsFiniteSet(1 .. Len(next))
    BY <1>1, FS_Interval
  <2>2. free \in SUBSET (0 .. MaxBeams - 1) /\ Waiting \in SUBSET (1 .. Len(next))
    BY <1>4, ConstantFacts DEF IInv, TypeOK
  <2>3. IsFiniteSet(free) /\ IsFiniteSet(Waiting)
    BY <2>1, <2>2, FS_Subset
  <2>4. QED BY <1>1, <2>3, FS_CardinalityType DEF IInv, RemapAssignment
<1>6. child \in Waiting
  BY <1>1, <1>3
<1>7. free # {}
  <2>1. Cardinality(Waiting) # 0
    BY <1>5, <1>6, FS_EmptySet
  <2>2. QED BY <1>5, <2>1, FS_EmptySet
<1>8. destination \in free /\ destination \in Slots
  BY <1>7, LowestFree DEF IInv, TypeOK
<1> HIDE DEF destination
<1>9. /\ output' = [output EXCEPT ![child] = destination]
      /\ free' = free \ {destination}
      /\ pending' = pending \cup {[source |-> Parent(child).slot,
                                    destination |-> destination]}
      /\ child' = child + 1 /\ phase' = phase
      /\ cache' = cache /\ cachedLength' = cachedLength /\ beams' = beams
      /\ logits' = logits /\ next' = next /\ error' = error
  BY <1>7 DEF RemapChild, destination
<1>10. \A c \in DOMAIN next :
         output'[c] = IF c = child THEN destination ELSE output[c]
  BY <1>9 DEF IInv, TypeOK
<1>11. \A c \in DOMAIN next : Parent(c)' = Parent(c)
  BY <1>9 DEF Parent
<1>12. TypeOK'
  <2>1. output' \in [DOMAIN next' -> Slots \cup {Unassigned}]
    BY <1>8, <1>9 DEF IInv, TypeOK
  <2>2. pending' \subseteq [source : Slots, destination : Slots]
    BY <1>1, <1>2, <1>8, <1>9 DEF IInv, TypeOK
  <2>3. child' \in 0 .. MaxBeams + 1 /\ free' \subseteq Slots
    BY <1>1, <1>9 DEF IInv, TypeOK
  <2>4. QED BY <1>9, <2>1, <2>2, <2>3 DEF IInv, TypeOK
<1>13. RemapAssignment'
  <2>1. Cardinality(Duplicates(next) \ 1 .. child) <= Cardinality(free \ {destination})
    <3>1. Duplicates(next) \ 1 .. child = Waiting \ {child}
      BY <1>1, <1>4
    <3>2. /\ Cardinality(Waiting \ {child}) = Cardinality(Waiting) - 1
          /\ Cardinality(free \ {destination}) = Cardinality(free) - 1
      BY <1>5, <1>6, <1>8, FS_RemoveElement
    <3>3. QED BY <1>5, <3>1, <3>2
  <2>2. \A c \in DOMAIN next : c < child + 1 <=> c < child \/ c = child
    BY <1>1
  <2>3. child + 1 \in 1 .. Len(next) + 1
    BY <1>1
  <2>4. \A c \in DOMAIN next : output[c] # destination /\ Parent(c).slot # destination
    BY <1>1, <1>8 DEF IInv, RemapAssignment
  <2>5. destination # Unassigned
    BY <1>8, ConstantFacts
  <2>6. \A c \in DOMAIN next \ Duplicates(next) : output'[c] = Parent(c).slot
    BY <1>1, <1>3, <1>10 DEF IInv, RemapAssignment
  <2>7. \A c \in Duplicates(next) :
          IF c < child + 1
          THEN \A d \in DOMAIN next : output'[c] # Parent(d).slot
          ELSE output'[c] = Unassigned
    <3> SUFFICES ASSUME NEW c \in Duplicates(next)
                 PROVE  IF c < child + 1
                        THEN \A d \in DOMAIN next : output'[c] # Parent(d).slot
                        ELSE output'[c] = Unassigned
      OBVIOUS
    <3>1. c \in DOMAIN next
      BY <1>1, <1>4
    <3>2. CASE c = child
      BY <1>1, <1>10, <2>4, <3>1, <3>2
    <3>3. CASE c # child
      BY <1>1, <1>10, <2>2, <3>1, <3>3 DEF IInv, RemapAssignment
    <3>4. QED BY <3>2, <3>3
  <2>8. \A c \in DOMAIN next : c < child + 1 => output'[c] # Unassigned
    BY <1>1, <1>10, <2>2, <2>5 DEF IInv, RemapAssignment
  <2>9. \A c \in DOMAIN next : output'[c] \notin free' /\ Parent(c).slot \notin free'
    BY <1>1, <1>9, <1>10 DEF IInv, RemapAssignment
  <2>10. \A c, d \in DOMAIN next :
           output'[c] = output'[d] /\ output'[c] # Unassigned => c = d
    BY <1>1, <1>10, <2>4 DEF IInv, RemapAssignment
  <2>11. cachedLength' < Wanted
    BY <1>1, <1>9 DEF IInv, RemapAssignment
  <2>12. Duplicates(next)' = Duplicates(next) /\ Duplicates(next) \subseteq DOMAIN next
    BY <1>1, <1>4, <1>9 DEF Duplicates, IsFirstChild
  <2>13. child' - 1 = child
    BY <1>1, <1>9
  <2>14. (Duplicates(next) \ 1 .. child - 1)' = Duplicates(next) \ 1 .. child
    BY <2>12, <2>13
  <2>15. (Cardinality(Duplicates(next) \ 1 .. child - 1) <= Cardinality(free))'
    BY <1>9, <2>1, <2>14
  <2>16. \A c, d \in DOMAIN next : next[c] = next[d] => c = d
    BY <1>1 DEF IInv, RemapAssignment
  <2>17. QED BY <1>1, <1>9, <1>11, <2>16, <2>3, <2>6, <2>7, <2>8, <2>9, <2>10, <2>11, <2>12, <2>15
             DEF RemapAssignment, Wanted
<1>14. RemapContents'
  <2>1. \A c \in Duplicates(next) : c \in DOMAIN next /\ (c < child + 1 <=> c < child \/ c = child)
    BY <1>1, <1>4
  <2>2. \A c \in Duplicates(next) : c < child => CloneOf(c)' = CloneOf(c)
    BY <1>1, <1>10, <1>11, <2>1 DEF CloneOf
  <2>3. \A c \in Duplicates(next) : c = child =>
          CloneOf(c)' = [source |-> Parent(child).slot, destination |-> destination]
    BY <1>10, <1>11, <2>1 DEF CloneOf
  <2>4. \A c \in DOMAIN next : Holds(Parent(c).slot, Parent(c).path)'
    BY <1>1, <1>9, <1>11 DEF IInv, RemapContents, Holds
  <2>5. \A copy \in pending' :
          \E c \in Duplicates(next) : c < child + 1 /\ copy = CloneOf(c)'
    BY <1>1, <1>3, <1>9, <2>1, <2>2, <2>3 DEF IInv, RemapContents
  <2>6. ASSUME NEW c \in Duplicates(next), c < child + 1
        PROVE  CloneOf(c)' \in pending' \/ Holds(output[c], Parent(c).path)'
    <3>1. CASE c = child
      BY <1>9, <2>3, <3>1
    <3>2. CASE c < child
      <4>1. CloneOf(c) \in pending \/ Holds(output[c], Parent(c).path)
        BY <1>1, <3>2 DEF IInv, RemapContents
      <4>2. output'[c] = output[c]
        BY <1>1, <1>10, <2>1, <3>2
      <4>3. QED BY <1>9, <1>11, <2>1, <2>2, <3>2, <4>1, <4>2 DEF Holds
    <3>3. QED BY <2>1, <2>6, <3>1, <3>2
  <2>7. QED BY <1>9, <1>11, <2>4, <2>5, <2>6 DEF RemapContents
<1>15. QED
  BY <1>1, <1>9, <1>12, <1>13, <1>14
     DEF IInv, NoInternalError, SlotsDistinct, CacheHoldsHistory,
         LogitsFollowBeams, Lockstep, NothingQueued, BeforePrefill

(* A queued copy only writes the slot of the child it is for: no parent,   *)
(* and no other child, is disturbed.                                       *)
LEMMA CopyLandsInvariant ==
  ASSUME IInv, CopyLands
  PROVE  IInv'
<1>1. PICK copy \in pending :
        /\ phase = "remap"
        /\ cache' = CloneSlot(cache, copy.source, copy.destination, cachedLength)
        /\ pending' = pending \ {copy}
        /\ phase' = phase /\ cachedLength' = cachedLength /\ beams' = beams
        /\ logits' = logits /\ next' = next /\ output' = output
        /\ free' = free /\ child' = child /\ error' = error
  BY DEF CopyLands
<1>2. PICK c0 \in Duplicates(next) : c0 < child /\ copy = CloneOf(c0)
  BY <1>1 DEF IInv, RemapContents
<1>3. /\ copy.source = Parent(c0).slot /\ copy.destination = output[c0]
      /\ copy.source \in Slots /\ copy.destination \in Slots
      /\ c0 \in DOMAIN next
  BY <1>1, <1>2 DEF CloneOf, IInv, TypeOK, Duplicates
<1>4. \A d \in DOMAIN next : Parent(d).slot # copy.destination
  BY <1>1, <1>2, <1>3 DEF IInv, RemapAssignment
<1>5. \A d \in DOMAIN next : d # c0 => output[d] # copy.destination
  BY <1>1, <1>2, <1>3 DEF IInv, RemapAssignment
<1>6. cachedLength \in 0 .. Capacity /\ cache \in Caches
  BY DEF IInv, TypeOK
<1>7. /\ \A s \in Slots : s # copy.destination => cache'[s] = cache[s]
      /\ \A p \in 0 .. cachedLength - 1 :
           cache'[copy.destination][p] = cache[copy.source][p]
  BY <1>1, <1>3, <1>6, ConstantFacts DEF CloneSlot, Caches, Positions
<1>8. TypeOK'
  <2>1. cache' \in Caches
    BY <1>1, <1>3, <1>6 DEF CloneSlot, Caches
  <2>2. QED BY <1>1, <2>1 DEF IInv, TypeOK
<1>9. \A d \in DOMAIN next : Parent(d).slot \in Slots /\ Parent(d)' = Parent(d)
  BY <1>1, NextFacts, BeamFacts DEF IInv, Parent
<1>10. RemapAssignment'
  BY <1>1, <1>9 DEF IInv, RemapAssignment, Duplicates, IsFirstChild, Parent, Wanted
<1>11. RemapContents'
  <2>1. \A d \in DOMAIN next : Holds(Parent(d).slot, Parent(d).path)
    BY <1>1 DEF IInv, RemapContents
  <2>2. \A d \in DOMAIN next : Holds(Parent(d).slot, Parent(d).path)'
    BY <1>1, <1>4, <1>7, <1>9, <2>1 DEF Holds
  <2>3. Holds(output[c0], Parent(c0).path)'
    BY <1>1, <1>3, <1>7, <1>9, <2>1 DEF Holds
  <2>4. \A d \in Duplicates(next) : d \in DOMAIN next /\ CloneOf(d)' = CloneOf(d)
    BY <1>1, <1>9 DEF Duplicates, CloneOf
  <2>5. Duplicates(next)' = Duplicates(next)
    BY <1>1 DEF Duplicates, IsFirstChild
  <2>6. \A other \in pending' :
          \E c \in Duplicates(next) : c < child /\ other = CloneOf(c)'
    BY <1>1, <2>4 DEF IInv, RemapContents
  <2>7. ASSUME NEW d \in Duplicates(next), d < child
        PROVE  CloneOf(d)' \in pending' \/ Holds(output[d], Parent(d).path)'
    <3>1. CASE d = c0
      BY <2>3, <3>1
    <3>2. CASE d # c0 /\ CloneOf(d) \in pending
      <4>1. CloneOf(d) # copy
        BY <1>2, <1>3, <1>5, <2>4, <3>2 DEF CloneOf
      <4>2. QED BY <1>1, <2>4, <3>2, <4>1
    <3>3. CASE d # c0 /\ Holds(output[d], Parent(d).path)
      <4>1. output[d] \in Slots /\ output[d] # copy.destination
        BY <1>1, <1>5, <2>4, <2>7, <3>3 DEF IInv, TypeOK, RemapAssignment
      <4>2. QED BY <1>1, <1>7, <1>9, <2>4, <3>3, <4>1 DEF Holds
    <3>4. QED BY <1>1, <2>7, <3>1, <3>2, <3>3 DEF IInv, RemapContents
  <2>8. QED BY <1>1, <2>2, <2>4, <2>5, <2>6, <2>7 DEF RemapContents
<1>12. QED
  BY <1>1, <1>8, <1>10, <1>11
     DEF IInv, NoInternalError, SlotsDistinct, CacheHoldsHistory,
         LogitsFollowBeams, Lockstep, NothingQueued, BeforePrefill

(* What remap leaves behind: one slot per child, no two alike, each        *)
(* holding the history of the child's parent.                              *)
LEMMA RemappedFacts ==
  ASSUME IInv, Remapped
  PROVE  /\ Len(next) \in 1 .. MaxBeams /\ DOMAIN next = 1 .. Len(next)
         /\ output \in Seq(Slots) /\ Len(output) = Len(next)
         /\ DOMAIN output = 1 .. Len(next)
         /\ \A c, d \in DOMAIN next : output[c] = output[d] => c = d
         /\ \A c \in DOMAIN next : /\ output[c] \in Slots
                                   /\ Holds(output[c], Parent(c).path)
                                   /\ Parent(c).path \in Seq(Entries)
                                   /\ Len(Parent(c).path) = cachedLength
                                   /\ next[c].token \in Vocabulary
         /\ cachedLength \in Nat \ {0} /\ cachedLength < Wanted
<1>1. phase = "remap" /\ ~(child <= Len(next)) /\ pending = {}
  BY NextFacts DEF Remapped, IInv, RemapAssignment
<1>2. /\ Len(next) \in 1 .. MaxBeams /\ DOMAIN next = 1 .. Len(next)
      /\ child = Len(next) + 1 /\ Len(next) \in Nat
  BY <1>1, NextFacts, ConstantFacts DEF IInv, RemapAssignment
<1>3. \A c \in DOMAIN next : c < child
  BY <1>2
<1>4. \A c \in DOMAIN next : output[c] \in Slots
  BY <1>1, <1>3 DEF IInv, RemapAssignment, TypeOK
<1>5. output \in [1 .. Len(next) -> Slots]
  BY <1>2, <1>4 DEF IInv, TypeOK
<1>6. output \in Seq(Slots)
  BY <1>2, <1>5, FunctionIsSeq, Zenon
<1>7. DOMAIN output = 1 .. Len(next) /\ Len(output) = Len(next)
  BY <1>2, <1>5, <1>6, LenProperties
<1>8. \A c, d \in DOMAIN next : output[c] = output[d] => c = d
  BY <1>1, <1>3 DEF IInv, RemapAssignment
<1>9. ASSUME NEW c \in DOMAIN next
      PROVE  Holds(output[c], Parent(c).path)
  <2>1. CASE c \in Duplicates(next)
    BY <1>1, <1>3, <2>1 DEF IInv, RemapContents
  <2>2. CASE c \notin Duplicates(next)
    BY <1>1, <2>2 DEF IInv, RemapContents, RemapAssignment
  <2>3. QED BY <2>1, <2>2
<1>10. \A c \in DOMAIN next : /\ Parent(c).path \in Seq(Entries)
                              /\ Len(Parent(c).path) = cachedLength
                              /\ next[c].token \in Vocabulary
  BY <1>1, NextFacts, BeamFacts DEF IInv, Lockstep, Parent
<1>11. cachedLength \in Nat \ {0} /\ cachedLength < Wanted
  BY <1>1, ConstantFacts DEF IInv, Lockstep, RemapAssignment
<1>12. QED BY <1>2, <1>4, <1>6, <1>7, <1>8, <1>9, <1>10, <1>11

(* The survivors are beams.                                                *)
LEMMA SurvivorFacts ==
  ASSUME IInv, Remapped
  PROVE  /\ Survivors \in Seq([path : Seq(Entries), slot : Slots])
         /\ Len(Survivors) = Len(next) /\ DOMAIN Survivors = 1 .. Len(next)
         /\ \A c \in DOMAIN next :
              /\ Survivors[c].path = Append(Parent(c).path, next[c].token)
              /\ Survivors[c].slot = output[c]
              /\ Survivors[c].path \in Seq(Entries)
              /\ Len(Survivors[c].path) = cachedLength + 1
<1>1. \A c \in DOMAIN next :
        /\ Append(Parent(c).path, next[c].token) \in Seq(Entries)
        /\ Len(Append(Parent(c).path, next[c].token)) = cachedLength + 1
  BY RemappedFacts, AppendFacts, ConstantFacts
<1>2. /\ Len(next) \in Nat /\ DOMAIN next = 1 .. Len(next)
      /\ \A c \in DOMAIN next : output[c] \in Slots
  BY RemappedFacts, ConstantFacts
<1>3. Survivors \in [1 .. Len(next) -> [path : Seq(Entries), slot : Slots]]
  BY <1>1, <1>2 DEF Survivors
<1>4. Survivors \in Seq([path : Seq(Entries), slot : Slots])
  BY <1>2, <1>3, FunctionIsSeq, Zenon
<1>5. Len(Survivors) = Len(next) /\ DOMAIN Survivors = 1 .. Len(next)
  BY <1>2, <1>3, <1>4, LenProperties
<1>6. \A c \in DOMAIN next :
        /\ Survivors[c].path = Append(Parent(c).path, next[c].token)
        /\ Survivors[c].slot = output[c]
  BY DEF Survivors
<1>7. QED BY <1>1, <1>4, <1>5, <1>6

(* decode writes each token at the end of its own slot and reads the       *)
(* history in front of it.                                                 *)
LEMMA DecodeInvariant ==
  ASSUME IInv, Decode
  PROVE  IInv'
<1>1. Remapped
  BY DEF Decode
<1>2. DecodeAccepts(output)
  BY <1>1, RemappedFacts, ConstantFacts DEF DecodeAccepts
<1> DEFINE tokens == [c \in DOMAIN next |-> next[c].token]
<1>3. /\ beams' = Survivors
      /\ cache' = DecodeWrites(cache, output, tokens, cachedLength)
      /\ logits' = [c \in DOMAIN next |->
                      Attended(cache, output[c], next[c].token, cachedLength)]
      /\ cachedLength' = cachedLength + 1
      /\ phase' = "choose" /\ error' = error
      /\ next' = <<>> /\ output' = <<>> /\ free' = {} /\ child' = 0
      /\ pending' = {}
  BY <1>1, <1>2 DEF Decode, ForgetRemap, Remapped
<1>4. /\ Len(next) \in Nat /\ DOMAIN next = 1 .. Len(next)
      /\ DOMAIN output = DOMAIN next
      /\ cachedLength \in Positions /\ cachedLength \in Nat
      /\ \A c \in DOMAIN next : output[c] \in Slots /\ tokens[c] \in Entries
  BY <1>1, RemappedFacts, ConstantFacts DEF Positions
<1>5. cache \in Caches
  BY DEF IInv, TypeOK
<1>6. ASSUME NEW s \in Slots
      PROVE  cache'[s] \in [Positions -> Entries \cup {Stale}]
  <2>1. cache'[s] = IF \E b \in DOMAIN output : output[b] = s
                    THEN [cache[s] EXCEPT ![cachedLength] =
                            tokens[CHOOSE b \in DOMAIN output : output[b] = s]]
                    ELSE cache[s]
    BY <1>3 DEF DecodeWrites
  <2>2. (\E b \in DOMAIN output : output[b] = s) =>
          tokens[CHOOSE b \in DOMAIN output : output[b] = s] \in Entries
    BY <1>4
  <2>3. cache[s] \in [Positions -> Entries \cup {Stale}]
    BY <1>5 DEF Caches
  <2> HIDE DEF tokens
  <2>4. QED BY <1>4, <2>1, <2>2, <2>3
<1>7. cache' \in Caches
  <2>1. cache' = [s \in Slots |-> cache'[s]]
    BY <1>3 DEF DecodeWrites
  <2>2. QED BY <1>6, <2>1 DEF Caches
<1>8. ASSUME NEW c \in DOMAIN next
      PROVE  cache'[output[c]] = [cache[output[c]] EXCEPT ![cachedLength] = next[c].token]
  <2>1. (CHOOSE b \in DOMAIN output : output[b] = output[c]) = c
    BY <1>1, <1>4, RemappedFacts
  <2>2. QED BY <1>3, <1>4, <2>1 DEF DecodeWrites
<1>9. TypeOK'
  <2>1. ASSUME NEW c \in DOMAIN beams'
        PROVE  Len(beams'[c].path) <= Capacity
    <3>1. Len(beams'[c].path) = cachedLength + 1
      BY <1>1, <1>3, <1>4, SurvivorFacts
    <3>2. cachedLength + 1 <= Capacity
      BY <1>1, <1>4, RemappedFacts, ConstantFacts
    <3>3. QED BY <3>1, <3>2
  <2>2. beams' \in Seq([path : Seq(Entries), slot : Slots]) /\ Len(beams') \in 1 .. MaxBeams
    BY <1>1, <1>3, SurvivorFacts, RemappedFacts
  <2>3. cachedLength' \in 0 .. Capacity
    BY <1>1, <1>3, <1>4, RemappedFacts, ConstantFacts
  <2>4. /\ next' \in Seq([source : DOMAIN beams', token : Vocabulary])
        /\ output' \in [DOMAIN next' -> Slots \cup {Unassigned}]
        /\ child' \in 0 .. MaxBeams + 1
    BY <1>3, ConstantFacts
  <2>5. QED BY <1>3, <1>7, <2>1, <2>2, <2>3, <2>4 DEF IInv, TypeOK
<1>10. SlotsDistinct'
  BY <1>1, <1>3, <1>4, SurvivorFacts, RemappedFacts DEF SlotsDistinct
<1>11. ASSUME NEW c \in DOMAIN next
       PROVE  /\ Holds(beams[c].slot, beams[c].path)'
              /\ logits'[c] = beams'[c].path
  <2> DEFINE path == Parent(c).path
             token == next[c].token
  <2>1. /\ beams'[c].path = Append(path, token) /\ beams'[c].slot = output[c]
        /\ Len(path) = cachedLength /\ Holds(output[c], path)
        /\ path \in Seq(Entries) /\ token \in Entries
    BY <1>1, <1>3, SurvivorFacts, RemappedFacts, ConstantFacts
  <2>2. /\ \A i \in 1 .. cachedLength : Append(path, token)[i] = path[i]
        /\ Append(path, token)[cachedLength + 1] = token
        /\ Append(path, token) \in Seq(Entries)
        /\ Len(Append(path, token)) = cachedLength + 1
    BY <2>1, AppendFacts
  <2> HIDE DEF path, token
  <2>3. \A p \in 0 .. cachedLength - 1 : cache[output[c]][p] = path[p + 1]
    BY <2>1 DEF Holds
  <2>4. ASSUME NEW p \in 0 .. cachedLength
        PROVE  cache'[output[c]][p] = Append(path, token)[p + 1]
    <3>1. cache[output[c]] \in [Positions -> Entries \cup {Stale}]
      BY <1>4, <1>5 DEF Caches
    <3>2. cache'[output[c]] = [cache[output[c]] EXCEPT ![cachedLength] = token]
      BY <1>8 DEF token
    <3>3. p \in Positions
      BY <1>4, ConstantFacts DEF Positions
    <3>4. CASE p = cachedLength
      BY <1>4, <2>2, <3>1, <3>2, <3>4
    <3>5. CASE p < cachedLength
      <4>1. p \in 0 .. cachedLength - 1 /\ p + 1 \in 1 .. cachedLength
        BY <1>4, <3>5
      <4>2. cache'[output[c]][p] = cache[output[c]][p]
        BY <1>4, <3>1, <3>2, <3>3, <3>5
      <4>3. cache[output[c]][p] = path[p + 1]
        BY <2>3, <4>1
      <4>4. Append(path, token)[p + 1] = path[p + 1]
        BY <2>2, <4>1
      <4>5. QED BY <4>2, <4>3, <4>4
    <3>6. p = cachedLength \/ p < cachedLength
      BY <1>4
    <3>7. QED BY <3>4, <3>5, <3>6
  <2>5. Holds(beams[c].slot, beams[c].path)'
    <3>1. cachedLength' - 1 = cachedLength
      BY <1>3, <1>4
    <3>2. QED BY <2>1, <2>4, <3>1 DEF Holds
  <2> DEFINE row == Attended(cache, output[c], token, cachedLength)
  <2>6. logits'[c] = row
    BY <1>3 DEF token
  <2>7. row = Append(path, token)
    <3>1. ASSUME NEW i \in 1 .. cachedLength + 1
          PROVE  row[i] = Append(path, token)[i]
      <4>1. CASE i = cachedLength + 1
        BY <1>4, <2>2, <4>1 DEF Attended
      <4>2. CASE i <= cachedLength
        <5>1. i \in 1 .. cachedLength /\ i - 1 \in 0 .. cachedLength - 1
          BY <1>4, <4>2
        <5>2. row[i] = cache[output[c]][i - 1]
          BY <4>2 DEF Attended
        <5>3. cache[output[c]][i - 1] = path[(i - 1) + 1]
          BY <2>3, <5>1
        <5>4. (i - 1) + 1 = i /\ Append(path, token)[i] = path[i]
          BY <2>2, <5>1
        <5> HIDE DEF row
        <5>5. QED BY <5>2, <5>3, <5>4
      <4>3. i = cachedLength + 1 \/ i <= cachedLength
        BY <1>4
      <4>4. QED BY <4>1, <4>2, <4>3
    <3>2. row \in Seq(Entries) /\ Len(row) = cachedLength + 1
      <4>1. \A i \in 1 .. cachedLength + 1 : row[i] \in Entries
        BY <2>2, <3>1, ElementOfSeq
      <4>2. cachedLength + 1 \in Nat /\ DOMAIN row = 1 .. cachedLength + 1
        BY <1>4 DEF Attended
      <4>3. row = [i \in 1 .. cachedLength + 1 |-> row[i]]
        BY DEF Attended
      <4> HIDE DEF row
      <4>4. row \in [1 .. cachedLength + 1 -> Entries]
        BY <4>1, <4>3
      <4>5. QED BY <4>2, <4>4, SeqDef, LenProperties
    <3> HIDE DEF row
    <3>3. QED BY <2>2, <3>1, <3>2, SeqEqual
  <2>8. QED BY <2>1, <2>5, <2>6, <2>7
<1>12. CacheHoldsHistory' /\ LogitsFollowBeams' /\ Lockstep'
  <2>1. DOMAIN beams' = DOMAIN next
    BY <1>1, <1>3, <1>4, SurvivorFacts
  <2>2. CacheHoldsHistory'
    BY <1>11, <2>1 DEF CacheHoldsHistory
  <2>3. LogitsFollowBeams'
    BY <1>3, <1>11, <2>1 DEF LogitsFollowBeams, Paths
  <2>4. Lockstep'
    <3>1. cachedLength' \in Len(Prompt) .. Wanted
      BY <1>1, <1>3, RemappedFacts, ConstantFacts DEF IInv, Lockstep, Remapped
    <3>2. \A c \in DOMAIN beams' : Len(beams'[c].path) = cachedLength'
      BY <1>1, <1>3, <2>1, SurvivorFacts
    <3>3. QED BY <3>1, <3>2 DEF Lockstep, Wanted
  <2>5. QED BY <2>2, <2>3, <2>4
<1>13. QED
  BY <1>3, <1>9, <1>10, <1>12
     DEF IInv, NoInternalError, RemapAssignment, RemapContents,
         NothingQueued, BeforePrefill

LEMMA FinishInvariant ==
  ASSUME IInv, Finish
  PROVE  IInv'
<1>1. Remapped
  BY DEF Finish
<1>2. /\ beams' = Survivors /\ phase' = "done"
      /\ next' = <<>> /\ output' = <<>> /\ free' = {} /\ child' = 0
      /\ pending' = {} /\ cache' = cache /\ cachedLength' = cachedLength
      /\ error' = error
  BY DEF Finish, ForgetRemap, Remapped
<1>3. TypeOK'
  <2>1. ASSUME NEW c \in DOMAIN beams'
        PROVE  Len(beams'[c].path) <= Capacity
    <3>1. Len(beams'[c].path) = cachedLength + 1
      BY <1>1, <1>2, SurvivorFacts, RemappedFacts
    <3>2. cachedLength + 1 <= Capacity
      BY <1>1, RemappedFacts, ConstantFacts
    <3>3. QED BY <3>1, <3>2
  <2>2. beams' \in Seq([path : Seq(Entries), slot : Slots]) /\ Len(beams') \in 1 .. MaxBeams
    BY <1>1, <1>2, SurvivorFacts, RemappedFacts
  <2>3. /\ next' \in Seq([source : DOMAIN beams', token : Vocabulary])
        /\ output' \in [DOMAIN next' -> Slots \cup {Unassigned}]
        /\ child' \in 0 .. MaxBeams + 1
    BY <1>2, ConstantFacts
  <2>4. QED BY <1>2, <2>1, <2>2, <2>3 DEF IInv, TypeOK
<1>4. SlotsDistinct'
  BY <1>1, <1>2, SurvivorFacts, RemappedFacts DEF SlotsDistinct
<1>5. QED
  BY <1>2, <1>3, <1>4
     DEF IInv, NoInternalError, RemapAssignment, RemapContents, Lockstep,
         CacheHoldsHistory, LogitsFollowBeams, NothingQueued, BeforePrefill

(* What IInv says of a lone beam.                                          *)
LEMMA SingleBeam ==
  ASSUME IInv, phase = "choose", Alone, Len(beams[1].path) < Wanted
  PROVE  /\ DOMAIN beams = {1} /\ beams[1].slot = 0
         /\ beams[1].path \in Seq(Entries)
         /\ Len(beams[1].path) = cachedLength
         /\ cachedLength \in Nat \ {0} /\ cachedLength < Wanted
         /\ Holds(0, beams[1].path)
<1>1. DOMAIN beams = {1} /\ beams[1].slot = 0 /\ beams[1].path \in Seq(Entries)
  BY BeamFacts, ConstantFacts DEF IInv, Alone
<1>2. Len(beams[1].path) = cachedLength /\ cachedLength \in Len(Prompt) .. Wanted
  BY <1>1 DEF IInv, Lockstep
<1>3. Holds(0, beams[1].path)
  BY <1>1 DEF IInv, CacheHoldsHistory
<1>4. QED BY <1>1, <1>2, <1>3, ConstantFacts

(* The one-beam path decodes the sampled token in slot 0.                  *)
LEMMA SampleAndDecodeInvariant ==
  ASSUME IInv, NEW token \in Vocabulary, SampleAndDecode(token)
  PROVE  IInv'
<1> DEFINE path == beams[1].path
<1>1. phase = "choose" /\ Alone /\ Len(path) < Wanted
  BY DEF SampleAndDecode
<1>2. /\ DOMAIN beams = {1} /\ beams[1].slot = 0 /\ path \in Seq(Entries)
      /\ Len(path) = cachedLength /\ cachedLength \in Nat \ {0}
      /\ cachedLength < Wanted /\ Holds(0, path) /\ token \in Entries
  BY <1>1, SingleBeam, ConstantFacts
<1>3. DecodeAccepts(<<0>>)
  BY <1>1, <1>2, ConstantFacts DEF DecodeAccepts, Slots
<1>4. /\ beams' = <<[path |-> Append(path, token), slot |-> 0]>>
      /\ cache' = DecodeWrites(cache, <<0>>, <<token>>, cachedLength)
      /\ logits' = <<Attended(cache, 0, token, cachedLength)>>
      /\ cachedLength' = cachedLength + 1
      /\ phase' = phase /\ UNCHANGED <<remapVars, error>>
  BY <1>3 DEF SampleAndDecode
<1> HIDE DEF path
<1>5. /\ \A i \in 1 .. cachedLength : Append(path, token)[i] = path[i]
      /\ Append(path, token)[cachedLength + 1] = token
      /\ Append(path, token) \in Seq(Entries)
      /\ Len(Append(path, token)) = cachedLength + 1
  BY <1>2, AppendFacts
<1>6. cache \in Caches /\ cachedLength \in Positions /\ 0 \in Slots
  BY <1>1, <1>2, ConstantFacts DEF IInv, TypeOK, Positions, Slots
<1>7. cache' = [s \in Slots |->
                  IF s = 0 THEN [cache[s] EXCEPT ![cachedLength] = token]
                  ELSE cache[s]]
  <2>1. ASSUME NEW s \in Slots
        PROVE  cache'[s] = IF s = 0 THEN [cache[s] EXCEPT ![cachedLength] = token]
                           ELSE cache[s]
    <3>1. DOMAIN <<0>> = {1} /\ <<0>>[1] = 0
      OBVIOUS
    <3>2. CASE s = 0
      <4>1. (CHOOSE b \in DOMAIN <<0>> : <<0>>[b] = s) = 1
        BY <3>1, <3>2
      <4> DEFINE owner == CHOOSE b \in DOMAIN <<0>> : <<0>>[b] = s
      <4> HIDE DEF owner
      <4>2. owner = 1
        BY <4>1 DEF owner
      <4>3. <<token>>[owner] = token
        BY <4>2
      <4>4. \E b \in DOMAIN <<0>> : <<0>>[b] = s
        BY <3>1, <3>2
      <4>5. QED BY <1>4, <3>2, <4>3, <4>4 DEF DecodeWrites, owner
    <3>3. CASE s # 0
      <4>1. ~\E b \in DOMAIN <<0>> : <<0>>[b] = s
        BY <3>1, <3>3
      <4>2. QED BY <1>4, <3>3, <4>1 DEF DecodeWrites
    <3>4. QED BY <3>2, <3>3
  <2>2. cache' = [s \in Slots |-> cache'[s]]
    BY <1>4 DEF DecodeWrites
  <2>3. QED BY <2>1, <2>2
<1>8. cache' \in Caches
  BY <1>2, <1>6, <1>7 DEF Caches
<1>9. TypeOK'
  <2>1. /\ DOMAIN beams = {1} /\ DOMAIN beams' = {1} /\ Len(beams') = 1
        /\ beams'[1] = [path |-> Append(path, token), slot |-> 0]
    BY <1>2, <1>4
  <2>2. beams' \in Seq([path : Seq(Entries), slot : Slots])
    BY <1>4, <1>5, <1>6
  <2>3. Len(beams') \in 1 .. MaxBeams /\ cachedLength' \in 0 .. Capacity
    BY <1>2, <1>4, <2>1, ConstantFacts
  <2>4. \A i \in DOMAIN beams' : Len(beams'[i].path) <= Capacity
    BY <1>2, <1>5, <2>1, ConstantFacts
  <2>5. next' \in Seq([source : DOMAIN beams', token : Vocabulary])
    BY <1>4, <2>1 DEF IInv, TypeOK, remapVars
  <2>6. /\ output' \in [DOMAIN next' -> Slots \cup {Unassigned}]
        /\ free' \subseteq Slots /\ child' \in 0 .. MaxBeams + 1
        /\ pending' \subseteq [source : Slots, destination : Slots]
        /\ phase' = phase /\ error' = error
    BY <1>4 DEF IInv, TypeOK, remapVars
  <2>7. QED BY <1>8, <2>2, <2>3, <2>4, <2>5, <2>6 DEF IInv, TypeOK
<1>10. \A p \in 0 .. cachedLength - 1 : cache[0][p] = path[p + 1]
  BY <1>2 DEF Holds
<1>11. ASSUME NEW p \in 0 .. cachedLength
       PROVE  cache'[0][p] = Append(path, token)[p + 1]
  <2>1. cache[0] \in [Positions -> Entries \cup {Stale}] /\ 0 \in Slots
    BY <1>6 DEF Caches
  <2>2. cache'[0] = [cache[0] EXCEPT ![cachedLength] = token]
    BY <1>7, <2>1
  <2>3. p \in Positions
    BY <1>2, ConstantFacts DEF Positions
  <2>4. CASE p = cachedLength
    BY <1>2, <1>5, <1>6, <2>1, <2>2, <2>4
  <2>5. CASE p < cachedLength
    <3>1. p \in 0 .. cachedLength - 1 /\ p + 1 \in 1 .. cachedLength
      BY <1>2, <2>5
    <3>2. cache'[0][p] = cache[0][p]
      BY <1>2, <2>1, <2>2, <2>3, <2>5
    <3>3. cache[0][p] = path[p + 1]
      BY <1>10, <3>1
    <3>4. Append(path, token)[p + 1] = path[p + 1]
      BY <1>5, <3>1
    <3>5. QED BY <3>2, <3>3, <3>4
  <2>6. p = cachedLength \/ p < cachedLength
    BY <1>2
  <2>7. QED BY <2>4, <2>5, <2>6
<1>12. CacheHoldsHistory'
  <2>1. cachedLength' - 1 = cachedLength
    BY <1>2, <1>4
  <2>2. /\ DOMAIN beams' = {1}
        /\ beams'[1].slot = 0 /\ beams'[1].path = Append(path, token)
    BY <1>4
  <2>3. QED BY <1>11, <2>1, <2>2 DEF CacheHoldsHistory, Holds
<1> DEFINE row == Attended(cache, 0, token, cachedLength)
<1>13. row = Append(path, token)
  <2>1. ASSUME NEW i \in 1 .. cachedLength + 1
        PROVE  row[i] = Append(path, token)[i]
    <3>1. CASE i = cachedLength + 1
      BY <1>2, <1>5, <3>1 DEF Attended
    <3>2. CASE i <= cachedLength
      <4>1. i \in 1 .. cachedLength /\ i - 1 \in 0 .. cachedLength - 1
        BY <1>2, <3>2
      <4>2. row[i] = cache[0][i - 1]
        BY <3>2 DEF Attended
      <4>3. cache[0][i - 1] = path[(i - 1) + 1]
        BY <1>10, <4>1
      <4>4. (i - 1) + 1 = i /\ Append(path, token)[i] = path[i]
        BY <1>5, <4>1
      <4> HIDE DEF row
      <4>5. QED BY <4>2, <4>3, <4>4
    <3>3. i = cachedLength + 1 \/ i <= cachedLength
      BY <1>2
    <3>4. QED BY <3>1, <3>2, <3>3
  <2>2. row \in Seq(Entries) /\ Len(row) = cachedLength + 1
    <3>1. \A i \in 1 .. cachedLength + 1 : row[i] \in Entries
      BY <1>5, <2>1, ElementOfSeq
    <3>2. cachedLength + 1 \in Nat /\ DOMAIN row = 1 .. cachedLength + 1
      BY <1>2 DEF Attended
    <3>3. row = [i \in 1 .. cachedLength + 1 |-> row[i]]
      BY DEF Attended
    <3> HIDE DEF row
    <3>4. row \in [1 .. cachedLength + 1 -> Entries]
      BY <3>1, <3>3
    <3>5. QED BY <3>2, <3>4, SeqDef, LenProperties
  <2> HIDE DEF row
  <2>3. QED BY <1>5, <2>1, <2>2, SeqEqual
<1>14. LogitsFollowBeams' /\ Lockstep' /\ SlotsDistinct'
  <2>1. LogitsFollowBeams'
    <3> DEFINE longer == Append(path, token)
    <3> HIDE DEF row, longer
    <3>1. row = longer
      BY <1>13 DEF longer
    <3>2. logits' = <<longer>> /\ beams' = <<[path |-> longer, slot |-> 0]>>
      BY <1>4, <3>1 DEF row, longer
    <3>3. QED BY <3>2 DEF LogitsFollowBeams, Paths
  <2>2. Lockstep'
    BY <1>1, <1>2, <1>4, <1>5, ConstantFacts DEF IInv, Lockstep, Wanted
  <2>3. SlotsDistinct'
    BY <1>4 DEF SlotsDistinct
  <2>4. QED BY <2>1, <2>2, <2>3
<1>15. QED
  BY <1>1, <1>4, <1>9, <1>12, <1>14
     DEF IInv, NoInternalError, RemapAssignment, RemapContents,
         NothingQueued, BeforePrefill, remapVars

LEMMA SampleLastInvariant ==
  ASSUME IInv, NEW token \in Vocabulary, SampleLast(token)
  PROVE  IInv'
<1>1. /\ phase = "choose" /\ Alone /\ Len(beams[1].path) < Wanted
      /\ beams' = <<[path |-> Append(beams[1].path, token), slot |-> 0]>>
      /\ phase' = "done" /\ pending = {}
      /\ UNCHANGED <<cache, cachedLength, logits, remapVars, error>>
  BY DEF SampleLast, IInv, NothingQueued
<1>2. /\ Append(beams[1].path, token) \in Seq(Entries)
      /\ Len(Append(beams[1].path, token)) = cachedLength + 1
      /\ cachedLength \in Nat /\ cachedLength < Wanted /\ DOMAIN beams = {1}
  BY <1>1, SingleBeam, ConstantFacts, AppendFacts
<1>3. TypeOK'
  BY <1>1, <1>2, ConstantFacts DEF IInv, TypeOK, remapVars
<1>4. QED
  BY <1>1, <1>3
     DEF IInv, NoInternalError, SlotsDistinct, RemapAssignment, RemapContents,
         Lockstep, CacheHoldsHistory, LogitsFollowBeams, NothingQueued,
         BeforePrefill, remapVars

LEMMA StopInvariant ==
  ASSUME IInv, Stop
  PROVE  IInv'
<1>1. TypeOK'
  BY DEF IInv, TypeOK, Stop, remapVars
<1>2. QED
  BY <1>1 DEF IInv, Stop, remapVars, NoInternalError, SlotsDistinct,
              CacheHoldsHistory, LogitsFollowBeams, Lockstep,
              RemapAssignment, RemapContents, NothingQueued, BeforePrefill

LEMMA StutterInvariant ==
  ASSUME IInv, UNCHANGED vars
  PROVE  IInv'
<1>1. TypeOK'
  BY DEF IInv, TypeOK, vars, remapVars
<1>2. /\ Duplicates(next)' = Duplicates(next)
      /\ \A c \in DOMAIN next : Parent(c)' = Parent(c) /\ CloneOf(c)' = CloneOf(c)
      /\ Duplicates(next) \subseteq DOMAIN next
  BY DEF vars, remapVars, Duplicates, IsFirstChild, Parent, CloneOf
<1>3. RemapAssignment'
  BY <1>2 DEF IInv, vars, remapVars, RemapAssignment, Wanted
<1>4. RemapContents'
  BY <1>2 DEF IInv, vars, remapVars, RemapContents, Holds
<1>5. QED
  BY <1>1, <1>3, <1>4 DEF IInv, vars, remapVars, NoInternalError, SlotsDistinct,
              CacheHoldsHistory, LogitsFollowBeams, Lockstep, Paths, Holds, Wanted,
              NothingQueued, BeforePrefill

-----------------------------------------------------------------------------
(* In every state, for every number of beams and every prompt: a slot      *)
(* belongs to one beam, holds that beam's history, and every call the      *)
(* generation loop makes of qwen_kv_generator is accepted.                 *)
THEOREM Invariance == Spec => []IInv
<1>1. ASSUME IInv, [Next]_vars
      PROVE  IInv'
  <2>1. CASE Prefill
    BY <1>1, <2>1, PrefillInvariant
  <2>2. CASE \E sel \in Selections : RemapBegin(sel)
    BY <1>1, <2>2, RemapBeginInvariant
  <2>3. CASE RemapChild
    BY <1>1, <2>3, RetainedChildInvariant, ClonedChildInvariant
  <2>4. CASE CopyLands
    BY <1>1, <2>4, CopyLandsInvariant
  <2>5. CASE Decode
    BY <1>1, <2>5, DecodeInvariant
  <2>6. CASE Finish
    BY <1>1, <2>6, FinishInvariant
  <2>7. CASE \E token \in Vocabulary : SampleAndDecode(token) \/ SampleLast(token)
    BY <1>1, <2>7, SampleAndDecodeInvariant, SampleLastInvariant
  <2>8. CASE Stop
    BY <1>1, <2>8, StopInvariant
  <2>9. CASE BackendFails
    BY <1>1, <2>9, RejectInvariant DEF BackendFails
  <2>10. CASE UNCHANGED vars
    BY <1>1, <2>10, StutterInvariant
  <2>11. QED
    BY <1>1, <2>1, <2>2, <2>3, <2>4, <2>5, <2>6, <2>7, <2>8, <2>9, <2>10 DEF Next
<1>2. QED BY <1>1, InitInvariant, PTL DEF Spec

(* No path outgrows its slot and every field keeps its shape.              *)
THEOREM TypeCorrectness == Spec => []TypeOK
BY Invariance, PTL DEF IInv

(* The error paths of prefill, remap and decode cannot be reached from the *)
(* generation loop.                                                        *)
THEOREM CallsAccepted == Spec => []NoInternalError
BY Invariance, PTL DEF IInv

(* No two beams ever share a slot.                                         *)
THEOREM SlotsNeverShared == Spec => []SlotsDistinct
BY Invariance, PTL DEF IInv

(* The cached rows of a beam are its own history whenever it is extended.  *)
THEOREM HistoryKept == Spec => []CacheHoldsHistory
BY Invariance, PTL DEF IInv

(* Every selection is made from the logits of the whole of every beam.     *)
THEOREM LogitsCurrent == Spec => []LogitsFollowBeams
BY Invariance, PTL DEF IInv


-----------------------------------------------------------------------------
(* The refinement: what a step of the cached search is in BeamSearch.      *)

LEMMA StatusFacts ==
  /\ phase = "prefill" => Status = "prompt"
  /\ phase \in {"choose", "remap"} => Status = "running"
  /\ phase \in {"done", "failed"} => Status = phase
BY DEF Status

LEMMA PathFacts ==
  ASSUME TypeOK
  PROVE  /\ Len(Paths) = Len(beams) /\ DOMAIN Paths = DOMAIN beams
         /\ \A i \in DOMAIN beams : Paths[i] = beams[i].path
<1>1. Len(beams) \in Nat /\ DOMAIN beams = 1 .. Len(beams)
  BY BeamFacts
<1>2. Paths \in [1 .. Len(beams) -> Seq(Entries)]
  BY <1>1, BeamFacts DEF Paths
<1>3. Paths \in Seq(Seq(Entries))
  BY <1>1, <1>2, SeqDef
<1>4. QED BY <1>1, <1>2, <1>3, LenProperties DEF Paths

(* An error return, from whatever call, is a failure of the search.        *)
LEMMA RejectFails ==
  ASSUME phase \in {"prefill", "choose", "remap"}, NEW code, Reject(code)
  PROVE  Search!Next
<1>1. Status \in {"prompt", "running"} /\ Status' = "failed"
  BY DEF Status, Reject
<1>2. Paths' = Paths /\ logits' = logits
  BY DEF Paths, Reject
<1>3. QED BY <1>1, <1>2 DEF Search!Next, Search!Fail

(* Taking over the survivors of a remap extends the paths.                 *)
LEMMA TakeOverExtends ==
  ASSUME IInv, Remapped, beams' = Survivors
  PROVE  /\ Len(Paths[1]) < Len(Prompt) + MaxTokens
         /\ \E sel \in Search!Selections(Len(Paths)) :
              Paths' = Search!Extended(Paths, sel)
<1>1. TypeOK /\ phase = "remap"
  BY DEF IInv, Remapped
<1>2. Len(Paths[1]) < Len(Prompt) + MaxTokens
  <2>1. Paths[1] = beams[1].path /\ 1 \in DOMAIN beams
    BY <1>1, PathFacts, BeamFacts
  <2>2. QED BY <1>1, <2>1, RemappedFacts DEF IInv, Lockstep, Wanted
<1>3. next \in Search!Selections(Len(Paths))
  <2>1. Len(Paths) = Len(beams) /\ DOMAIN beams = 1 .. Len(beams)
    BY <1>1, PathFacts, BeamFacts
  <2>2. Len(next) \in 1 .. MaxBeams /\ DOMAIN next = 1 .. Len(next) /\ Len(next) \in Nat
    BY RemappedFacts, ConstantFacts
  <2>3. next \in [1 .. Len(next) -> Search!Continuations(Len(Paths))]
    <3>1. next \in Seq([source : DOMAIN beams, token : Vocabulary])
      BY <1>1 DEF TypeOK
    <3>2. next \in [1 .. Len(next) -> [source : DOMAIN beams, token : Vocabulary]]
      BY <3>1, LenProperties
    <3>3. QED BY <2>1, <3>2 DEF Search!Continuations
  <2>4. \A c, d \in DOMAIN next : next[c] = next[d] => c = d
    BY <1>1 DEF IInv, RemapAssignment
  <2>5. QED BY <2>2, <2>3, <2>4 DEF Search!Selections
<1>4. Paths' = Search!Extended(Paths, next)
  <2>1. DOMAIN Survivors = DOMAIN next
    BY SurvivorFacts, RemappedFacts
  <2>2. \A c \in DOMAIN next :
          Survivors[c].path = Append(Paths[next[c].source], next[c].token)
    BY <1>1, SurvivorFacts, PathFacts, NextFacts DEF Parent
  <2>3. QED BY <2>1, <2>2 DEF Paths, Search!Extended
<1>5. QED BY <1>2, <1>3, <1>4

LEMMA PrefillStarts ==
  ASSUME IInv, Prefill
  PROVE  Search!Next
<1>1. phase = "prefill" /\ beams' = beams /\ phase' = "choose" /\ logits' = <<Prompt>>
  BY ConstantFacts DEF Prefill
<1>2. beams = <<[path |-> Prompt, slot |-> 0]>>
  BY <1>1 DEF IInv, BeforePrefill
<1>3. Status = "prompt" /\ Status' = "running"
  BY <1>1 DEF Status
<1>4. Paths' = Paths /\ Paths = <<Prompt>>
  BY <1>1, <1>2 DEF Paths
<1>5. QED BY <1>1, <1>3, <1>4 DEF Search!Next, Search!Start

LEMMA RemapStutters ==
  ASSUME phase \in {"choose", "remap"}, phase' = "remap",
         beams' = beams, logits' = logits
  PROVE  UNCHANGED Search!vars
<1>1. Status = "running" /\ Status' = "running"
  BY DEF Status
<1>2. QED BY <1>1 DEF Search!vars, Paths

LEMMA DecodeExtends ==
  ASSUME IInv, Decode
  PROVE  Search!Next
<1>1. Remapped /\ DecodeAccepts(output)
  BY RemappedFacts, ConstantFacts DEF Decode, DecodeAccepts
<1>2. beams' = Survivors /\ phase = "remap" /\ phase' = "choose"
  BY <1>1 DEF Decode, Remapped
<1>3. Status = "running" /\ Status' = "running"
  BY <1>2 DEF Status
<1>4. logits' = Paths'
  BY <1>2, DecodeInvariant DEF IInv, LogitsFollowBeams
<1>5. Search!Extend
  BY <1>1, <1>2, <1>3, <1>4, TakeOverExtends DEF Search!Extend
<1>6. QED BY <1>5 DEF Search!Next

LEMMA FinishFinishes ==
  ASSUME IInv, Finish
  PROVE  Search!Next
<1>1. /\ Remapped /\ beams' = Survivors /\ logits' = logits
      /\ phase = "remap" /\ phase' = "done"
  BY DEF Finish, Remapped
<1>2. Status = "running" /\ Status' = "done"
  BY <1>1 DEF Status
<1>3. Search!Finish
  BY <1>1, <1>2, TakeOverExtends DEF Search!Finish
<1>4. QED BY <1>3 DEF Search!Next

(* The one-beam path is the search with the only selection there is.       *)
LEMMA SampleExtends ==
  ASSUME IInv, NEW token \in Vocabulary, phase = "choose", Alone,
         Len(beams[1].path) < Wanted,
         beams' = <<[path |-> Append(beams[1].path, token), slot |-> 0]>>
  PROVE  /\ Status = "running"
         /\ Len(Paths[1]) < Len(Prompt) + MaxTokens
         /\ \E sel \in Search!Selections(Len(Paths)) :
              Paths' = Search!Extended(Paths, sel)
<1> DEFINE sel == <<[source |-> 1, token |-> token]>>
<1>1. TypeOK /\ DOMAIN beams = {1}
  BY SingleBeam DEF IInv
<1>2. Len(Paths) = 1 /\ Paths[1] = beams[1].path
  BY <1>1, PathFacts, BeamFacts
<1>3. sel \in Search!Selections(Len(Paths))
  <2>1. sel \in [1 .. 1 -> Search!Continuations(1)]
    BY DEF Search!Continuations
  <2>2. 1 \in 1 .. MaxBeams
    BY ConstantFacts
  <2>3. \A i, j \in DOMAIN sel : sel[i] = sel[j] => i = j
    OBVIOUS
  <2> HIDE DEF sel
  <2>4. QED BY <1>2, <2>1, <2>2, <2>3 DEF Search!Selections
<1>4. Paths' = Search!Extended(Paths, sel)
  BY <1>2 DEF Paths, Search!Extended
<1>5. QED BY <1>2, <1>3, <1>4, StatusFacts DEF Wanted

LEMMA SampleAndDecodeExtends ==
  ASSUME IInv, NEW token \in Vocabulary, SampleAndDecode(token)
  PROVE  Search!Next
<1>1. phase = "choose" /\ Alone /\ Len(beams[1].path) < Wanted
  BY DEF SampleAndDecode
<1>2. DecodeAccepts(<<0>>)
  BY <1>1, SingleBeam, ConstantFacts DEF DecodeAccepts
<1>3. /\ beams' = <<[path |-> Append(beams[1].path, token), slot |-> 0]>>
      /\ phase' = "choose"
  BY <1>1, <1>2 DEF SampleAndDecode
<1>4. logits' = Paths'
  BY <1>3, SampleAndDecodeInvariant DEF IInv, LogitsFollowBeams
<1>5. Status' = "running"
  BY <1>3 DEF Status
<1>6. Search!Extend
  BY <1>1, <1>3, <1>4, <1>5, SampleExtends DEF Search!Extend
<1>7. QED BY <1>6 DEF Search!Next

LEMMA SampleLastFinishes ==
  ASSUME IInv, NEW token \in Vocabulary, SampleLast(token)
  PROVE  Search!Next
<1>1. /\ phase = "choose" /\ Alone /\ Len(beams[1].path) < Wanted
      /\ beams' = <<[path |-> Append(beams[1].path, token), slot |-> 0]>>
      /\ phase' = "done" /\ logits' = logits
  BY DEF SampleLast
<1>2. Status' = "done"
  BY <1>1 DEF Status
<1>3. Search!Finish
  BY <1>1, <1>2, SampleExtends DEF Search!Finish
<1>4. QED BY <1>3 DEF Search!Next

LEMMA StopStops ==
  ASSUME Stop
  PROVE  Search!Next
<1>1. Status = "running" /\ Status' = "done" /\ Paths' = Paths /\ logits' = logits
  BY DEF Stop, Status, Paths
<1>2. QED BY <1>1 DEF Search!Next, Search!Stop

(* The cached beam search implements the search that evaluates every beam  *)
(* from its first token: the same beams, selected from the same logits,    *)
(* for every number of beams, every prompt and every order in which the    *)
(* queued copies land.                                                     *)
THEOREM Refinement == Spec => ImplementsBeamSearch
<1>1. Init => Search!Init
  <2> SUFFICES ASSUME Init PROVE Search!Init
    OBVIOUS
  <2>1. Status = "prompt" /\ Paths = <<Prompt>> /\ logits = <<>>
    BY DEF Init, Status, Paths
  <2>2. QED BY <2>1 DEF Search!Init
<1>2. ASSUME IInv, [Next]_vars
      PROVE  [Search!Next]_Search!vars
  <2>1. CASE Prefill
    BY <1>2, <2>1, PrefillStarts
  <2>2. CASE \E sel \in Selections : RemapBegin(sel)
    BY <2>2, RejectFails, RemapStutters DEF RemapBegin
  <2>3. CASE RemapChild
    BY <2>3, RejectFails, RemapStutters DEF RemapChild
  <2>4. CASE CopyLands
    BY <2>4, RemapStutters DEF CopyLands
  <2>5. CASE Decode
    BY <1>2, <2>5, DecodeExtends
  <2>6. CASE Finish
    BY <1>2, <2>6, FinishFinishes
  <2>7. CASE \E token \in Vocabulary : SampleAndDecode(token) \/ SampleLast(token)
    BY <1>2, <2>7, SampleAndDecodeExtends, SampleLastFinishes
  <2>8. CASE Stop
    BY <2>8, StopStops
  <2>9. CASE BackendFails
    BY <2>9, RejectFails DEF BackendFails
  <2>10. CASE UNCHANGED vars
    BY <2>10 DEF vars, Search!vars, Paths, Status
  <2>11. QED
    BY <1>2, <2>1, <2>2, <2>3, <2>4, <2>5, <2>6, <2>7, <2>8, <2>9, <2>10 DEF Next
<1>3. QED BY <1>1, <1>2, Invariance, PTL DEF Spec, Search!Spec, ImplementsBeamSearch


(* README.md:176-178 holds of every generation: when the survivors take    *)
(* over, the slot of each parent that has a child belongs to exactly one   *)
(* of its children.                                                        *)
THEOREM SlotsRetained == Spec => SurvivorsRetainSlots
<1> DEFINE Retained ==
      Remapped /\ beams' # beams =>
        \A c \in DOMAIN next :
          \E d \in DOMAIN next :
            {e \in DOMAIN next : beams'[e].slot = Parent(c).slot} = {d}
              /\ next[d].source = next[c].source
<1>1. ASSUME IInv, [Next]_vars
      PROVE  [Retained]_vars
  <2> SUFFICES ASSUME Remapped, beams' # beams, NEW c \in DOMAIN next
               PROVE  \E d \in DOMAIN next :
                        {e \in DOMAIN next : beams'[e].slot = Parent(c).slot} = {d}
                          /\ next[d].source = next[c].source
    OBVIOUS
  <2>1. phase = "remap" /\ child > Len(next)
    BY DEF Remapped
  <2>2. beams' = Survivors
    <3>1. ~(child <= Len(next))
      BY <1>1, <2>1, RemappedFacts, ConstantFacts DEF IInv, TypeOK
    <3>2. Decode \/ Finish
      BY <1>1, <2>1, <3>1 DEF Next, vars, Prefill, RemapBegin, RemapChild, CopyLands,
           SampleAndDecode, SampleLast, Stop, BackendFails, Reject
    <3>3. QED BY <3>2, <1>1, RemappedFacts, ConstantFacts
              DEF Decode, Finish, Reject
  <2>3. PICK d \in DOMAIN next \ Duplicates(next) : next[d].source = next[c].source
    <3>1. DOMAIN next \in SUBSET Nat /\ DOMAIN next = 1 .. Len(next) /\ Len(next) \in Nat
      BY NextFacts DEF IInv
    <3>2. QED BY <3>1, FirstChildExists
  <2>4. output[d] = Parent(c).slot
    BY <1>1, <2>1, <2>3 DEF IInv, RemapAssignment, Parent
  <2>5. \A e \in DOMAIN next : beams'[e].slot = output[e]
    BY <1>1, <2>2, SurvivorFacts
  <2>6. \A e \in DOMAIN next : output[e] = output[d] => e = d
    BY <1>1, <2>3, RemappedFacts
  <2>7. QED BY <2>3, <2>4, <2>5, <2>6
<1>2. QED BY <1>1, Invariance, PTL DEF Spec, SurvivorsRetainSlots
=============================================================================
