-------------------------- MODULE PrepareGGMLProofs --------------------------
(***************************************************************************)
(* Proofs about the patched copy of GGML: for any revisions, patches and   *)
(* edits, and kills anywhere but in the removal of the old copy, what a    *)
(* git checkout is built from is the patched tree of the present inputs.   *)
(***************************************************************************)
EXTENDS PrepareGGML, SequenceTheorems, TLAPS

(* What Code and the markers of an entry are.                              *)
LEMMA EntryFacts ==
  /\ Missing.is = "missing" /\ Damaged.is = "damaged" /\ Fingerprint.is = "stamp"
  /\ \A r, p : Code(r, p).is = "code"
  /\ Fingerprint.revision = SourceRevision /\ Fingerprint.patches = inputs.patches
  /\ Missing # Damaged /\ Missing # Fingerprint /\ Damaged # Fingerprint
BY DEF Missing, Damaged, Fingerprint, Code

(* Applying the next patch to the first n makes the first n + 1.           *)
LEMMA OneMore ==
  ASSUME NEW S, NEW s \in Seq(S), NEW n \in Nat, n < Len(s)
  PROVE  Append(SubSeq(s, 1, n), s[n + 1]) = SubSeq(s, 1, n + 1)
OBVIOUS

(* The code of the copy, before and after the next patch.                  *)
LEMMA PatchedCode ==
  ASSUME NEW S, NEW s \in Seq(S), NEW n \in Nat, n < Len(s), NEW r, NEW code,
         code = Code(r, SubSeq(s, 1, n))
  PROVE  [code EXCEPT !.patches = Append(@, s[n + 1])] = Code(r, SubSeq(s, 1, n + 1))
<1>1. Append(SubSeq(s, 1, n), s[n + 1]) = SubSeq(s, 1, n + 1)
  BY OneMore
<1>2. \A old, new : [Code(r, old) EXCEPT !.patches = new] = Code(r, new)
  BY DEF Code
<1>3. code.patches = SubSeq(s, 1, n)
  BY DEF Code
<1> QED
  BY <1>1, <1>2, <1>3

(* The first n of a sequence, as a function.                               *)
LEMMA FirstOnes ==
  ASSUME NEW S, NEW s \in Seq(S), NEW n \in 0 .. Len(s)
  PROVE  SubSeq(s, 1, n) \in [1 .. n -> S]
<1>1. SubSeq(s, 1, n) = [i \in 1 .. n |-> s[i]]
  OBVIOUS
<1>2. \A i \in 1 .. n : s[i] \in S
  OBVIOUS
<1> QED
  BY <1>1, <1>2

(* A list of patches is a sequence.                                        *)
LEMMA ListsAreSequences ==
  ASSUME NEW p \in PatchLists
  PROVE  p \in Seq(Patches) /\ Len(p) \in 0 .. MaxPatches
<1>1. PICK n \in 0 .. MaxPatches : p \in [1 .. n -> Patches]
  BY DEF PatchLists
<1>2. n \in Nat
  BY PrepareAssumption
<1>3. p \in Seq(Patches) /\ Len(p) = n
  BY <1>1, <1>2
<1> QED
  BY <1>1, <1>3
-----------------------------------------------------------------------------
(* The entries of the copy after the actions that change it.               *)
LEMMA CodeIsContents ==
  ASSUME NEW r \in Revisions, NEW p \in PatchLists
  PROVE  Code(r, p) \in Contents
BY DEF Code, Contents

(* The user's edit leaves the copy, its stamp and the binaries alone.      *)
LEMMA EditStep ==
  ASSUME IInv, Edit
  PROVE  IInv'
<1> USE DEF IInv, Edit
<1>1. TypeOK'
  <2>1. inputs' \in Inputs
    BY DEF TypeOK, Inputs
  <2> QED
    BY <2>1 DEF TypeOK
<1>2. Copying'
  BY DEF Copying
<1>3. StampTells'
  BY DEF StampTells, Code
<1>4. StampCurrent'
  BY DEF StampCurrent
<1>5. NestedMarked'
  BY DEF NestedMarked
<1> QED
  BY <1>1, <1>2, <1>3, <1>4, <1>5

(* A configuration begins: with the stamp of the present inputs it goes on *)
(* to compare the marker, otherwise it removes the copy.                   *)
LEMMA ConfigureStep ==
  ASSUME IInv, Configure
  PROVE  IInv'
<1> USE DEF IInv, Configure
<1>1. TypeOK'
  BY PrepareAssumption DEF TypeOK
<1>2. Copying'
  BY DEF Copying, Refused
<1>3. StampTells'
  BY DEF StampTells, Code
<1>4. StampCurrent'
  BY DEF StampCurrent, Refused, Reusable, Fingerprint, SourceRevision
<1>5. NestedMarked'
  BY DEF NestedMarked
<1> QED
  BY <1>1, <1>2, <1>3, <1>4, <1>5

(* One entry of the old copy is removed.                                   *)
LEMMA RemoveEntryStep ==
  ASSUME IInv, NEW e \in Entries, RemoveEntry(e)
  PROVE  IInv'
<1> USE DEF IInv, RemoveEntry
<1>1. TypeOK'
  BY DEF TypeOK, Contents
<1>2. Copying'
  BY DEF Copying, Refused
<1>3. StampTells'
  BY DEF StampTells
<1>4. StampCurrent'
  BY DEF StampCurrent
<1>5. NestedMarked'
  BY DEF NestedMarked
<1> QED
  BY <1>1, <1>2, <1>3, <1>4, <1>5

(* Nothing is left of the old copy.                                        *)
LEMMA RemovedStep ==
  ASSUME IInv, Removed
  PROVE  IInv'
<1> USE DEF IInv, Removed
<1>1. TypeOK'
  BY DEF TypeOK
<1>2. Copying'
  BY DEF Copying, Refused, Entries, Copied
<1>3. StampTells'
  BY DEF StampTells, Entries, Missing
<1>4. StampCurrent'
  BY DEF StampCurrent
<1>5. NestedMarked'
  BY DEF NestedMarked
<1> QED
  BY <1>1, <1>2, <1>3, <1>4, <1>5

(* One entry of the sources is copied.                                     *)
LEMMA CopyEntryStep ==
  ASSUME IInv, NEW e \in {"CMakeLists.txt", "code"}, CopyEntry(e)
  PROVE  IInv'
<1> USE DEF IInv, CopyEntry
<1>1. TypeOK'
  <2>1. Copied[e] \in Contents
    <3>1. <<>> \in PatchLists
      BY PrepareAssumption DEF PatchLists
    <3> QED
      BY <3>1, CodeIsContents DEF TypeOK, Inputs, Copied
  <2> QED
    BY <2>1 DEF TypeOK
<1>2. Copying'
  BY DEF TypeOK, Copying, Refused, Entries, Copied
<1>3. StampTells'
  BY DEF TypeOK, Copying, StampTells, Entries, Missing
<1>4. StampCurrent'
  BY DEF StampCurrent
<1>5. NestedMarked'
  BY DEF NestedMarked
<1> QED
  BY <1>1, <1>2, <1>3, <1>4, <1>5

(* The sources are there, and no patch has been applied.                   *)
LEMMA CopyDoneStep ==
  ASSUME IInv, CopyDone
  PROVE  IInv'
<1> USE DEF IInv, CopyDone
<1>1. TypeOK'
  <2>1. inputs.patches \in PatchLists
    BY DEF TypeOK, Inputs
  <2>2. Len(inputs.patches) \in Nat
    BY <2>1, ListsAreSequences, PrepareAssumption
  <2> QED
    BY <2>2 DEF TypeOK, Copying
<1>2. Copying'
  <2>1. SubSeq(inputs.patches, 1, 0) = <<>>
    <3>1. inputs.patches \in Seq(Patches)
      BY ListsAreSequences DEF TypeOK, Inputs
    <3> QED
      BY <3>1
  <2> QED
    BY <2>1 DEF TypeOK, Copying, Refused, Entries, Copied
<1>3. StampTells'
  BY DEF Copying, StampTells, Missing
<1>4. StampCurrent'
  BY DEF StampCurrent
<1>5. NestedMarked'
  BY DEF NestedMarked
<1> QED
  BY <1>1, <1>2, <1>3, <1>4, <1>5

(* A patch fails and the copy has no stamp, or it is the next one applied. *)
LEMMA ApplyPatchStep ==
  ASSUME IInv, ApplyPatch
  PROVE  IInv'
<1> USE DEF IInv, ApplyPatch
<1> DEFINE patches == inputs.patches
<1>1. /\ patches \in PatchLists /\ patches \in Seq(Patches) /\ inputs.source \in Revisions
      /\ Len(patches) \in 0 .. MaxPatches /\ Len(patches) \in Nat /\ applied \in Nat
  BY ListsAreSequences, PrepareAssumption DEF TypeOK, Inputs
<1>2. CASE patches[applied + 1] \in Broken
  <2>1. at' = "idle" /\ UNCHANGED <<inputs, copy, marker, nested, applied, kills>>
    BY <1>2
  <2> QED
    BY <2>1 DEF TypeOK, Copying, StampTells, StampCurrent, NestedMarked, Code, Missing
<1>3. CASE patches[applied + 1] \notin Broken
  <2>1. /\ copy' = [copy EXCEPT !["code"].patches = Append(@, patches[applied + 1])]
        /\ applied' = applied + 1 /\ at = "patch" /\ at' = "patch"
        /\ UNCHANGED <<inputs, marker, nested, kills>>
    BY <1>3
  <2>2. copy["code"] = Code(inputs.source, SubSeq(patches, 1, applied))
    BY <2>1 DEF Copying
  <2>3. copy'["code"] = Code(inputs.source, SubSeq(patches, 1, applied + 1))
    <3>1. copy'["code"] = [copy["code"] EXCEPT !.patches = Append(@, patches[applied + 1])]
      BY <2>1 DEF TypeOK, Entries
    <3>2. applied < Len(patches)
      OBVIOUS
    <3> HIDE DEF IInv, ApplyPatch, patches
    <3> QED
      BY <1>1, <2>2, <3>1, <3>2, PatchedCode
  <2>4. SubSeq(patches, 1, applied + 1) \in PatchLists
    <3>1. SubSeq(patches, 1, applied + 1) \in [1 .. applied + 1 -> Patches]
      BY <1>1, FirstOnes
    <3>2. applied + 1 \in 0 .. MaxPatches
      BY <1>1, PrepareAssumption
    <3> QED
      BY <3>1, <3>2 DEF PatchLists
  <2>5. \A e \in Entries \ {"code"} : copy'[e] = copy[e]
    BY <2>1 DEF TypeOK
  <2>6. TypeOK'
    <3>1. copy'["code"] \in Contents
      BY <1>1, <2>3, <2>4, CodeIsContents
    <3>2. copy' = [e \in Entries |-> IF e = "code" THEN copy'["code"] ELSE copy[e]]
      BY <2>1 DEF TypeOK
    <3>3. copy' \in [Entries -> Contents]
      BY <3>1, <3>2 DEF TypeOK
    <3>4. applied + 1 \in 0 .. MaxPatches /\ applied + 1 <= Len(patches)
      BY <1>1, PrepareAssumption
    <3> QED
      BY <2>1, <3>3, <3>4 DEF TypeOK
  <2>7. Copying'
    BY <2>1, <2>3, <2>5 DEF Copying, Refused, Entries
  <2>8. StampTells' /\ StampCurrent' /\ NestedMarked'
    BY <2>1, <2>5 DEF Copying, StampTells, StampCurrent, NestedMarked, Entries, Missing
  <2> QED
    BY <2>6, <2>7, <2>8
<1> QED
  BY <1>2, <1>3

(* All patches are applied, and the stamp is written.                      *)
LEMMA StampStep ==
  ASSUME HasGit, IInv, Stamp
  PROVE  IInv'
<1> USE DEF IInv, Stamp
<1>1. /\ inputs.patches \in PatchLists /\ inputs.patches \in Seq(Patches)
      /\ inputs.source \in Revisions
  BY ListsAreSequences DEF TypeOK, Inputs
<1>2. SubSeq(inputs.patches, 1, applied) = inputs.patches
  BY <1>1
<1>3. copy'["stamp"] = Fingerprint /\ \A e \in Entries \ {"stamp"} : copy'[e] = copy[e]
  BY DEF TypeOK, Entries
<1>4. TypeOK'
  <2>1. Fingerprint \in Contents
    BY <1>1 DEF Fingerprint, SourceRevision, Contents
  <2> QED
    BY <2>1 DEF TypeOK
<1>5. Copying'
  BY DEF Copying
<1>6. StampTells'
  <2>1. /\ Fingerprint.revision = inputs.source /\ Fingerprint.patches = inputs.patches
    BY DEF Fingerprint, SourceRevision
  <2>2. /\ copy'["CMakeLists.txt"] = Code(inputs.source, <<>>)
        /\ copy'["code"] = Code(inputs.source, inputs.patches)
    BY <1>2, <1>3 DEF Copying, Entries
  <2> QED
    BY <1>3, <2>1, <2>2 DEF StampTells
<1>7. StampCurrent'
  BY <1>3 DEF Copying, StampCurrent, Fingerprint, SourceRevision, Refused
<1>8. NestedMarked'
  BY DEF NestedMarked
<1> QED
  BY <1>4, <1>5, <1>6, <1>7, <1>8
(* GGML's binaries are kept only if they are of the effective sources.     *)
LEMMA ClearStep ==
  ASSUME IInv, Clear
  PROVE  IInv'
<1> USE DEF IInv, Clear
<1>1. TypeOK'
  BY DEF TypeOK
<1>2. Copying'
  BY DEF Copying
<1>3. StampTells'
  BY DEF StampTells
<1>4. StampCurrent'
  BY DEF StampCurrent, Fingerprint, SourceRevision, Refused
<1>5. NestedMarked'
  BY DEF TypeOK, NestedMarked, Reset, Effective
<1> QED
  BY <1>1, <1>2, <1>3, <1>4, <1>5

(* The marker names the sources the binaries are, or will be, of.          *)
LEMMA MarkStep ==
  ASSUME IInv, Mark
  PROVE  IInv'
<1> USE DEF IInv, Mark
<1>1. TypeOK'
  BY DEF TypeOK, Effective
<1>2. Copying'
  BY DEF Copying
<1>3. StampTells'
  BY DEF StampTells
<1>4. StampCurrent'
  BY DEF StampCurrent, Fingerprint, SourceRevision, Refused
<1>5. NestedMarked'
  BY DEF NestedMarked, Effective
<1> QED
  BY <1>1, <1>2, <1>3, <1>4, <1>5

(* The nested project is configured.                                       *)
LEMMA AddSubdirectoryStep ==
  ASSUME IInv, AddSubdirectory
  PROVE  IInv'
<1> USE DEF IInv, AddSubdirectory
<1>1. TypeOK'
  BY DEF TypeOK, Effective
<1>2. Copying'
  BY DEF Copying
<1>3. StampTells'
  BY DEF StampTells
<1>4. StampCurrent'
  BY DEF StampCurrent, Fingerprint, SourceRevision, Refused
<1>5. NestedMarked'
  BY DEF NestedMarked, Effective
<1> QED
  BY <1>1, <1>2, <1>3, <1>4, <1>5

(* What a kill leaves behind has no whole stamp that does not tell the     *)
(* truth, unless the old copy was being removed.                           *)
LEMMA KillStep ==
  ASSUME ~KilledWhileRemoving, IInv, Kill
  PROVE  IInv'
<1> USE DEF IInv, Kill
<1>1. TypeOK'
  BY PrepareAssumption DEF TypeOK, Contents
<1>2. Copying'
  BY DEF Copying
<1>3. StampTells'
  BY EntryFacts DEF TypeOK, Copying, StampTells, Entries, Copied
<1>4. StampCurrent'
  BY DEF StampCurrent
<1>5. NestedMarked'
  BY DEF NestedMarked
<1> QED
  BY <1>1, <1>2, <1>3, <1>4, <1>5

(* The empty build tree, or the historical one, satisfies the invariant.   *)
LEMMA Initial == Init => IInv
<1> SUFFICES ASSUME Init
             PROVE  IInv
  OBVIOUS
<1>1. TypeOK
  BY PrepareAssumption DEF Init, TypeOK, Contents, Entries
<1>2. Copying /\ StampCurrent /\ NestedMarked
  BY DEF Init, Copying, StampCurrent, NestedMarked
<1>3. StampTells
  BY EntryFacts DEF Init, StampTells, Entries
<1> QED
  BY <1>1, <1>2, <1>3 DEF IInv

(* Every edit and every step of cmake keeps the invariant.                 *)
LEMMA Inductive ==
  ASSUME HasGit, ~KilledWhileRemoving, IInv, [Next]_vars
  PROVE  IInv'
<1>1. CASE UNCHANGED vars
  BY <1>1 DEF vars, IInv, TypeOK, Copying, StampTells, StampCurrent, NestedMarked, Copied,
              Code, Refused, Fingerprint, SourceRevision, Effective
<1>2. CASE Next
  BY <1>2, EditStep, ConfigureStep, RemoveEntryStep, RemovedStep, CopyEntryStep, CopyDoneStep,
     ApplyPatchStep, StampStep, ClearStep, MarkStep, AddSubdirectoryStep, KillStep DEF Next
<1> QED
  BY <1>1, <1>2

(* The invariant of the prepared copy, for a git checkout, unless cmake is *)
(* killed while PrepareGGML.cmake:73 removes an old one.                   *)
THEOREM Invariance ==
  ASSUME HasGit, ~KilledWhileRemoving
  PROVE  Spec => []IInv
<1>1. Init => IInv
  BY Initial
<1>2. IInv /\ [Next]_vars => IInv'
  BY Inductive
<1> QED
  BY <1>1, <1>2, PTL DEF Spec

(* What CMakeLists.txt:80 adds is the source tree with every patch applied *)
(* once and in order, whether it was prepared now or by an earlier run.    *)
THEOREM PreparedIsBuilt ==
  ASSUME HasGit, ~KilledWhileRemoving
  PROVE  Spec => []BuildsPrepared
<1>1. IInv => BuildsPrepared
  <2> SUFFICES ASSUME IInv, inputs.apply, at \in {"compare", "mark", "add", "configured"}
               PROVE  /\ copy["CMakeLists.txt"] = Code(inputs.source, <<>>)
                      /\ copy["code"] = Code(inputs.source, inputs.patches)
    BY DEF BuildsPrepared
  <2>1. copy["stamp"] = Fingerprint
    BY DEF IInv, StampCurrent
  <2>2. /\ Fingerprint.is = "stamp" /\ Fingerprint.revision = inputs.source
        /\ Fingerprint.patches = inputs.patches
    BY DEF Fingerprint, SourceRevision
  <2> QED
    BY <2>1, <2>2 DEF IInv, StampTells
<1> QED
  BY <1>1, Invariance, PTL

(* The nested project's cached source path is that of the present sources. *)
THEOREM NestedIsCurrent ==
  ASSUME HasGit, ~KilledWhileRemoving
  PROVE  Spec => []NestedFollows
<1>1. IInv => NestedFollows
  BY DEF IInv, NestedMarked, NestedFollows
<1> QED
  BY <1>1, Invariance, PTL

(* A second configuration with nothing changed removes and copies nothing. *)
THEOREM CopyIsReused ==
  ASSUME HasGit, ~KilledWhileRemoving
  PROVE  Spec => Reuses
<1>1. IInv /\ [Next]_vars => [at = "configured" => at' # "remove"]_vars
  <2> SUFFICES ASSUME IInv, Next, at = "configured"
               PROVE  at' # "remove"
    OBVIOUS
  <2>1. CASE Configure
    <3>1. inputs.apply => copy["stamp"] = Fingerprint /\ ~Refused
      BY DEF IInv, StampCurrent
    <3>2. inputs.apply => copy["CMakeLists.txt"] # Missing
      BY <3>1, EntryFacts DEF IInv, StampTells
    <3> QED
      BY <2>1, <3>1, <3>2 DEF Configure, Reusable
  <2>2. CASE Edit
    BY <2>2 DEF Edit
  <2>3. CASE ~(Configure \/ Edit)
    BY <2>3 DEF Next, RemoveEntry, Removed, CopyEntry, CopyDone, ApplyPatch, Stamp, Clear,
                Mark, AddSubdirectory, Kill
  <2> QED
    BY <2>1, <2>2, <2>3
<1> QED
  BY <1>1, Invariance, PTL DEF Spec, Reuses
============================================================================
