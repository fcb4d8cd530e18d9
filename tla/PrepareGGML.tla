---------------------------- MODULE PrepareGGML ----------------------------
(***************************************************************************)
(* How src/CMakeLists.txt and src/cmake/PrepareGGML.cmake keep a patched   *)
(* copy of the GGML sources in the build tree, from one configuration to   *)
(* the next, between which the user changes the sources, the patches and   *)
(* the options, and in the middle of any of which cmake may be killed.     *)
(*                                                                         *)
(* A source tree is two files: CMakeLists.txt, whose presence is looked    *)
(* for, and code, all the others, which the patches change.  A patch is    *)
(* known by its name and hash; the broken ones do not apply.               *)
(***************************************************************************)
EXTENDS Integers, Sequences

CONSTANTS
  Revisions,
  Patches, Broken,
  MaxPatches,  (* patches in the directory, a bound for TLC                *)
  HasGit,      (* whether the sources are a git checkout or an archive     *)
  MaxKills,    (* how often cmake is killed, a bound for TLC               *)
  KilledWhileRemoving  (* whether that may be in file(REMOVE_RECURSE)      *)

ASSUME PrepareAssumption ==
  /\ Broken \subseteq Patches
  /\ MaxPatches \in Nat \ {0} /\ MaxKills \in Nat
  /\ HasGit \in BOOLEAN /\ KilledWhileRemoving \in BOOLEAN

VARIABLES
  inputs,   (* what the user controls                                      *)
  copy,     (* ggml-patched-src: its files and its stamp                   *)
  marker,   (* .skintokens-ggml-source                                     *)
  nested,   (* the source path cached in the build tree's ggml/            *)
  at,       (* how far cmake has got                                       *)
  applied,  (* how many patches it has applied                             *)
  kills

vars == <<inputs, copy, marker, nested, at, applied, kills>>

Entries == {"CMakeLists.txt", "code", "stamp"}
Missing == [is |-> "missing"]
Damaged == [is |-> "damaged"]
Code(revision, patches) == [is |-> "code", revision |-> revision, patches |-> patches]

(* What is copied from the sources.                                        *)
Copied == [e \in {"CMakeLists.txt", "code"} |-> Code(inputs.source, <<>>)]

Effective == IF inputs.apply THEN "prepared" ELSE "plain"

(* Git's HEAD, or "archive-" and the revision expected.                    *)
SourceRevision == IF HasGit THEN inputs.source ELSE inputs.expected

Fingerprint == [is |-> "stamp", revision |-> SourceRevision, patches |-> inputs.patches]

PatchLists == UNION {[1 .. n -> Patches] : n \in 0 .. MaxPatches}

Contents ==
  {Missing, Damaged} \cup [is : {"code", "stamp"}, revision : Revisions, patches : PatchLists]

Inputs == [source : Revisions, expected : Revisions, changed : BOOLEAN,
           patches : PatchLists, apply : BOOLEAN]

(* A fresh build tree, or one from before there were copies.               *)
Init ==
  /\ inputs \in {i \in Inputs : i.source = i.expected /\ ~i.changed /\ i.apply}
  /\ copy = [e \in Entries |-> Missing]
  /\ marker = "none"
  /\ nested \in {"none", "plain"}
  /\ at = "idle" /\ applied = 0 /\ kills = 0

(* The user changes one thing.                                             *)
Edit ==
  /\ at \in {"idle", "configured"}
  /\ at' = "idle"
  /\ \/ \E r \in Revisions : inputs' = [inputs EXCEPT !.source = r]
     \/ \E r \in Revisions : inputs' = [inputs EXCEPT !.expected = r]
     \/ \E p \in PatchLists : inputs' = [inputs EXCEPT !.patches = p]
     \/ HasGit /\ inputs' = [inputs EXCEPT !.changed = ~inputs.changed]
     \/ inputs' = [inputs EXCEPT !.apply = ~inputs.apply]
  /\ UNCHANGED <<copy, marker, nested, applied, kills>>
-----------------------------------------------------------------------------
(* One configuration.                                                      *)

Refused ==
  \/ inputs.patches = <<>>
  \/ HasGit /\ (inputs.source # inputs.expected \/ inputs.changed)

(* Fault: the stamp is compared with the newline at its end.               *)
ReusableUnstripped == <<copy["stamp"], "newline">> = <<Fingerprint>>

Reusable == copy["stamp"] = Fingerprint /\ copy["CMakeLists.txt"] # Missing

Configure ==
  /\ at \in {"idle", "configured"}
  /\ at' = IF ~inputs.apply \/ (~Refused /\ Reusable) THEN "compare"
           ELSE IF Refused THEN "idle" ELSE "remove"
  /\ applied' = 0
  /\ UNCHANGED <<inputs, copy, marker, nested, kills>>

RemoveEntry(e) ==
  /\ at = "remove" /\ copy[e] # Missing
  /\ copy' = [copy EXCEPT ![e] = Missing]
  /\ UNCHANGED <<inputs, marker, nested, at, applied, kills>>

Removed ==
  /\ at = "remove" /\ \A e \in Entries : copy[e] = Missing
  /\ at' = "copy"
  /\ UNCHANGED <<inputs, copy, marker, nested, applied, kills>>

CopyEntry(e) ==
  /\ at = "copy" /\ copy[e] = Missing
  /\ copy' = [copy EXCEPT ![e] = Copied[e]]
  /\ UNCHANGED <<inputs, marker, nested, at, applied, kills>>

(* Fault: the stamp is written before the patches are applied.             *)
CopyDoneStamped ==
  /\ at = "copy" /\ \A e \in DOMAIN Copied : copy[e] # Missing
  /\ copy' = [copy EXCEPT !["stamp"] = Fingerprint]
  /\ at' = "patch"
  /\ UNCHANGED <<inputs, marker, nested, applied, kills>>

CopyDone ==
  /\ at = "copy" /\ \A e \in DOMAIN Copied : copy[e] # Missing
  /\ at' = "patch"
  /\ UNCHANGED <<inputs, copy, marker, nested, applied, kills>>

(* The next patch is checked and applied; one that fails ends cmake.       *)
ApplyPatch ==
  /\ at = "patch" /\ applied < Len(inputs.patches)
  /\ LET patch == inputs.patches[applied + 1]
     IN IF patch \in Broken
        THEN at' = "idle" /\ UNCHANGED <<copy, applied>>
        ELSE /\ copy' = [copy EXCEPT !["code"].patches = Append(@, patch)]
             /\ applied' = applied + 1
             /\ UNCHANGED at
  /\ UNCHANGED <<inputs, marker, nested, kills>>

Stamp ==
  /\ at = "patch" /\ applied = Len(inputs.patches)
  /\ copy' = [copy EXCEPT !["stamp"] = Fingerprint]
  /\ at' = "compare"
  /\ UNCHANGED <<inputs, marker, nested, applied, kills>>

(* Fault: what was built without a marker is kept.                         *)
ResetIfMarked == marker # "none" /\ marker # Effective

(* GGML's binaries go when their source has changed or is not known.       *)
Reset == IF marker = "none" THEN nested # "none" ELSE marker # Effective

Clear ==
  /\ at = "compare"
  /\ nested' = IF Reset THEN "none" ELSE nested
  /\ at' = "mark"
  /\ UNCHANGED <<inputs, copy, marker, applied, kills>>

Mark ==
  /\ at = "mark"
  /\ marker' = Effective
  /\ at' = "add"
  /\ UNCHANGED <<inputs, copy, nested, applied, kills>>

(* The nested project keeps the source path it has cached.                 *)
AddSubdirectory ==
  /\ at = "add"
  /\ nested' = IF nested = "none" THEN Effective ELSE nested
  /\ at' = "configured"
  /\ UNCHANGED <<inputs, copy, marker, applied, kills>>

(* cmake is killed; the file being written may be left in any condition.   *)
Kill ==
  /\ at \notin {"idle", "configured"} /\ kills < MaxKills
  /\ at = "remove" => KilledWhileRemoving
  /\ at' = "idle" /\ kills' = kills + 1
  /\ \/ UNCHANGED <<copy, marker>>
     \/ /\ at = "copy"
        /\ \E e \in DOMAIN Copied : copy[e] = Missing /\ copy' = [copy EXCEPT ![e] = Damaged]
        /\ UNCHANGED marker
     \/ /\ at = "patch"
        /\ \E e \in {"code", "stamp"} : copy' = [copy EXCEPT ![e] = Damaged]
        /\ UNCHANGED marker
     \/ at = "mark" /\ marker' = "damaged" /\ UNCHANGED copy
  /\ UNCHANGED <<inputs, nested, applied>>

Next ==
  \/ Edit
  \/ Configure
  \/ \E e \in Entries : RemoveEntry(e)
  \/ Removed
  \/ \E e \in {"CMakeLists.txt", "code"} : CopyEntry(e)
  \/ CopyDone
  \/ ApplyPatch
  \/ Stamp
  \/ Clear
  \/ Mark
  \/ AddSubdirectory
  \/ Kill

Spec == Init /\ [][Next]_vars
-----------------------------------------------------------------------------
TypeOK ==
  /\ inputs \in Inputs
  /\ copy \in [Entries -> Contents]
  /\ marker \in {"none", "damaged", "plain", "prepared"}
  /\ nested \in {"none", "plain", "prepared"}
  /\ at \in {"idle", "remove", "copy", "patch", "compare", "mark", "add", "configured"}
  /\ applied \in 0 .. MaxPatches /\ (at = "patch" => applied <= Len(inputs.patches))
  /\ kills \in 0 .. MaxKills

(* README.md:26-30: what GGML is built from is a copy of the sources with  *)
(* the patches applied in order, all of them and each once, also when the  *)
(* copy is an earlier one.                                                 *)
BuildsPrepared ==
  inputs.apply /\ at \in {"compare", "mark", "add", "configured"} =>
    /\ copy["CMakeLists.txt"] = Code(inputs.source, <<>>)
    /\ copy["code"] = Code(inputs.source, inputs.patches)

(* The copy while cmake works on it.                                       *)
Copying ==
  /\ at \in {"remove", "copy", "patch"} => inputs.apply /\ ~Refused
  /\ at \in {"copy", "patch"} => copy["stamp"] = Missing
  /\ at \in {"remove", "copy"} => applied = 0
  /\ at = "copy" => \A e \in DOMAIN Copied : copy[e] \in {Missing, Copied[e]}
  /\ at = "patch" =>
       /\ copy["CMakeLists.txt"] = Code(inputs.source, <<>>)
       /\ copy["code"] = Code(inputs.source, SubSeq(inputs.patches, 1, applied))

(* A whole stamp tells the truth about the copy, but while that is removed.*)
StampTells ==
  at # "remove" /\ copy["stamp"].is = "stamp" =>
    /\ copy["CMakeLists.txt"] = Code(copy["stamp"].revision, <<>>)
    /\ copy["code"] = Code(copy["stamp"].revision, copy["stamp"].patches)

StampCurrent ==
  at \in {"compare", "mark", "add", "configured"} /\ inputs.apply =>
    copy["stamp"] = Fingerprint /\ ~Refused

(* GGML's binaries are of the marked sources, if those are known.          *)
NestedMarked ==
  /\ marker \in {"plain", "prepared"} => nested \in {"none", marker}
  /\ at \in {"mark", "add"} => nested \in {"none", Effective}
  /\ at \in {"add", "configured"} => marker = Effective
  /\ at = "configured" => nested = Effective

(* The inductive invariant behind BuildsPrepared and Reuses.               *)
IInv ==
  /\ TypeOK
  /\ Copying
  /\ StampTells
  /\ StampCurrent
  /\ NestedMarked

(* CMakeLists.txt:50-53: GGML's nested project never keeps the path of     *)
(* other sources than those it is configured for.                          *)
NestedFollows == at = "configured" => nested = Effective

(* README.md:28-30: a configuration with nothing changed reuses the copy.  *)
Reuses == [][at = "configured" => at' # "remove"]_vars
============================================================================
