----------------------------- MODULE BeamCache -----------------------------
(***************************************************************************)
(* The cached beam search of src/src/qwen.cpp: qwen_kv_generator and the   *)
(* calls its users make of it, generate_skin_codes, generate_rig_tokens,   *)
(* run_qwen_kv_trajectory and run_qwen_kv_branches.  The user here is the  *)
(* most general one: any selection of continuations, any number of         *)
(* survivors, stopping at any length.  SkinGeneration and RigGeneration    *)
(* narrow it to what the two generation loops do.                          *)
(*                                                                         *)
(* remap is modelled child by child, because its clones are queued with    *)
(* ggml_backend_tensor_copy_async: a queued copy may run at any time, in   *)
(* any order, before ggml_backend_synchronize returns.                     *)
(***************************************************************************)
EXTENDS KVCache, FiniteSets

CONSTANTS
  Vocabulary,  (* token ids a selection can append                         *)
  Prompt,      (* the mesh embeddings followed by the prompt tokens        *)
  MaxTokens    (* generated tokens both users size the cache for           *)

(* capacity = mesh_sequence + prompt + wanted tokens, in every user.       *)
ASSUME BeamCacheAssumption ==
  /\ Vocabulary \subseteq Entries
  /\ Prompt \in Seq(Entries) \ {<<>>}
  /\ MaxTokens \in Nat \ {0}
  /\ Capacity = Len(Prompt) + MaxTokens

VARIABLES
  cache,         (* keys_ and values_                                      *)
  cachedLength,  (* cached_length of the generation loop                   *)
  beams,         (* the live beams, best first: [path, slot]               *)
  logits,        (* current_logits: the sequence each row was computed for *)
  phase,         (* where the loop is: "prefill", "choose", "remap", ...   *)
  next,          (* the selected continuations: [source, token]            *)
  output,        (* remap's result so far, Unassigned where undecided      *)
  free,          (* free_slots not handed out yet                          *)
  child,         (* the child remap's cloning loop looks at                *)
  pending,       (* queued copies: [source, destination]                   *)
  error          (* the error the call returned, or "none"                 *)

remapVars == <<next, output, free, child, pending>>
vars == <<cache, cachedLength, beams, logits, phase, remapVars, error>>

Unassigned == -1    (* numeric_limits<size_t>::max(), all bits set *)

Paths == [i \in DOMAIN beams |-> beams[i].path]

Status == CASE phase = "prefill" -> "prompt"
            [] phase \in {"choose", "remap"} -> "running"
            [] OTHER -> phase

Search == INSTANCE BeamSearch WITH
            paths <- Paths, conditioned <- logits, status <- Status

Selections == Search!Selections(Len(beams))

Wanted == Len(Prompt) + MaxTokens    (* length at which both loops end *)

(* remap's argument checks on the beams' slots and the children's parents. *)
RemapAccepts(sel) ==
  /\ cachedLength \in 1 .. Capacity
  /\ Len(sel) <= MaxBeams
  /\ Len(beams) <= MaxBeams
  /\ \A i \in DOMAIN beams : beams[i].slot \in Slots
  /\ \A c \in DOMAIN sel : sel[c].source \in DOMAIN beams
  /\ \A i, j \in DOMAIN beams : beams[i].slot = beams[j].slot => i = j

(* decode's argument checks.                                               *)
DecodeAccepts(slots) ==
  /\ Len(slots) \in 1 .. MaxBeams
  /\ cachedLength \in 1 .. Capacity - 1
  /\ \A b \in DOMAIN slots : slots[b] \in Slots

(* Fault: a parent's slot is not marked as retained.                       *)
AlwaysFirst(sel, c) == c \in DOMAIN sel

IsFirstChild(sel, c) == \A d \in 1 .. c - 1 : sel[d].source # sel[c].source

Duplicates(sel) == {c \in DOMAIN sel : ~IsFirstChild(sel, c)}

(* Fault: retained slots stay in free_slots.                               *)
AllSlots(sel) == Slots

(* Fault: the slots of beams without children are not given back.          *)
UnusedSlots(sel) == Slots \ {beams[i].slot : i \in DOMAIN beams}

(* free_slots: every slot no first child retains.                          *)
FreeSlots(sel) ==
  Slots \ {beams[sel[c].source].slot : c \in DOMAIN sel \ Duplicates(sel)}

Parent(c) == beams[next[c].source]

CloneOf(c) == [source |-> Parent(c).slot, destination |-> output[c]]

Survivors ==
  [c \in DOMAIN next |->
     [path |-> Append(Parent(c).path, next[c].token),
      slot |-> output[c]]]

Reject(code) ==
  /\ phase' = "failed"
  /\ error' = code
  /\ UNCHANGED <<cache, cachedLength, beams, logits, remapVars>>

ForgetRemap ==
  /\ next' = <<>>
  /\ output' = <<>>
  /\ free' = {}
  /\ child' = 0
  /\ UNCHANGED pending
-----------------------------------------------------------------------------
Init ==
  /\ cache = EmptyCache
  /\ cachedLength = 0
  /\ beams = <<[path |-> Prompt, slot |-> 0]>>
  /\ logits = <<>>
  /\ phase = "prefill"
  /\ next = <<>>
  /\ output = <<>>
  /\ free = {}
  /\ child = 0
  /\ pending = {}
  /\ error = "none"

Prefill ==
  /\ phase = "prefill"
  /\ IF Len(Prompt) > Capacity
     THEN Reject("invalid_argument")
     ELSE /\ cache' = PrefillWrites(cache, Prompt)
          /\ cachedLength' = Len(Prompt)
          /\ logits' = <<Prompt>>
          /\ phase' = "choose"
          /\ UNCHANGED <<beams, remapVars, error>>

(* The selection is made; remap checks its arguments and lets the first    *)
(* child of every parent keep the parent's slot.                           *)
RemapBegin(sel) ==
  /\ phase = "choose"
  /\ Len(beams[1].path) < Wanted
  /\ IF ~RemapAccepts(sel)
     THEN Reject("invalid_argument")
     ELSE /\ next' = sel
          /\ output' = [c \in DOMAIN sel |->
                          IF IsFirstChild(sel, c)
                          THEN beams[sel[c].source].slot
                          ELSE Unassigned]
          /\ free' = FreeSlots(sel)
          /\ child' = 1
          /\ phase' = "remap"
          /\ UNCHANGED <<cache, cachedLength, beams, logits, pending, error>>

(* One round of the cloning loop: a child that has no slot takes the       *)
(* lowest free one and queues the copy of its parent's.                    *)
RemapChild ==
  /\ phase = "remap"
  /\ child <= Len(next)
  /\ IF output[child] # Unassigned
     THEN /\ child' = child + 1
          /\ UNCHANGED <<cache, cachedLength, beams, logits, phase,
                         next, output, free, pending, error>>
     ELSE IF free = {}
     THEN Reject("allocation")
     ELSE LET destination == CHOOSE s \in free : \A t \in free : s <= t
          IN /\ output' = [output EXCEPT ![child] = destination]
             /\ free' = free \ {destination}
             /\ pending' = pending \cup {[source |-> Parent(child).slot,
                                          destination |-> destination]}
             /\ child' = child + 1
             /\ UNCHANGED <<cache, cachedLength, beams, logits, phase, next, error>>

(* The backend runs one of the queued copies.                              *)
CopyLands ==
  \E copy \in pending :
    /\ phase = "remap"
    /\ cache' = CloneSlot(cache, copy.source, copy.destination, cachedLength)
    /\ pending' = pending \ {copy}
    /\ UNCHANGED <<cachedLength, beams, logits, phase, next, output, free,
                   child, error>>

(* Fault: remap returns without ggml_backend_synchronize.                  *)
RemappedUnsynchronized ==
  /\ phase = "remap"
  /\ child > Len(next)

(* ggml_backend_synchronize has returned, and with it remap.               *)
Remapped ==
  /\ phase = "remap"
  /\ child > Len(next)
  /\ pending = {}

(* The survivors replace the beams and are decoded in one batch.           *)
Decode ==
  /\ Remapped
  /\ IF ~DecodeAccepts(output)
     THEN Reject("invalid_argument")
     ELSE /\ beams' = Survivors
          /\ cache' = DecodeWrites(cache, output,
                        [c \in DOMAIN next |-> next[c].token], cachedLength)
          /\ logits' = [c \in DOMAIN next |->
                          Attended(cache, output[c], next[c].token, cachedLength)]
          /\ cachedLength' = cachedLength + 1
          /\ phase' = "choose"
          /\ ForgetRemap
          /\ UNCHANGED error

(* The survivors have all the tokens wanted: no decode after them.         *)
Finish ==
  /\ Remapped
  /\ beams' = Survivors
  /\ phase' = "done"
  /\ ForgetRemap
  /\ UNCHANGED <<cache, cachedLength, logits, error>>

(* A lone beam in slot 0 needs no remap. generate_skin_codes takes this    *)
(* path if it asked for one beam, which then is alone and in slot 0; the   *)
(* guard allows it to any lone beam in slot 0, which is more than the code *)
(* does and lets one run see both paths.                                   *)
Alone == Len(beams) = 1 /\ beams[1].slot = 0

SampleAndDecode(token) ==
  /\ phase = "choose"
  /\ Alone
  /\ Len(beams[1].path) < Wanted
  /\ IF ~DecodeAccepts(<<0>>)
     THEN Reject("invalid_argument")
     ELSE /\ beams' = <<[path |-> Append(beams[1].path, token), slot |-> 0]>>
          /\ cache' = DecodeWrites(cache, <<0>>, <<token>>, cachedLength)
          /\ logits' = <<Attended(cache, 0, token, cachedLength)>>
          /\ cachedLength' = cachedLength + 1
          /\ UNCHANGED <<phase, remapVars, error>>

SampleLast(token) ==
  /\ phase = "choose"
  /\ Alone
  /\ Len(beams[1].path) < Wanted
  /\ beams' = <<[path |-> Append(beams[1].path, token), slot |-> 0]>>
  /\ phase' = "done"
  /\ UNCHANGED <<cache, cachedLength, logits, remapVars, error>>

(* The loop ends without extending anything.                               *)
Stop ==
  /\ phase = "choose"
  /\ phase' = "done"
  /\ UNCHANGED <<cache, cachedLength, beams, logits, remapVars, error>>

(* A graph or a copy the backend cannot allocate or run.                   *)
BackendFails ==
  /\ phase \in {"prefill", "remap"} \/ (phase = "choose" /\ Alone)
  /\ Reject("compute")

Next ==
  \/ Prefill
  \/ \E sel \in Selections : RemapBegin(sel)
  \/ RemapChild
  \/ CopyLands
  \/ Decode
  \/ Finish
  \/ \E token \in Vocabulary : SampleAndDecode(token) \/ SampleLast(token)
  \/ Stop
  \/ BackendFails

Spec == Init /\ [][Next]_vars
-----------------------------------------------------------------------------
(* The shapes of the state; no beam outgrows the slot that caches it.      *)
TypeOK ==
  /\ cache \in Caches
  /\ cachedLength \in 0 .. Capacity
  /\ beams \in Seq([path : Seq(Entries), slot : Slots])
  /\ Len(beams) \in 1 .. MaxBeams
  /\ \A i \in DOMAIN beams : Len(beams[i].path) <= Capacity
  /\ phase \in {"prefill", "choose", "remap", "done", "failed"}
  /\ next \in Seq([source : DOMAIN beams, token : Vocabulary])
  /\ output \in [DOMAIN next -> Slots \cup {Unassigned}]
  /\ free \subseteq Slots
  /\ child \in 0 .. MaxBeams + 1
  /\ pending \subseteq [source : Slots, destination : Slots]
  /\ error \in {"none", "compute", "invalid_argument", "allocation"}

(* The generator never turns down a call of the generation loop: the       *)
(* arguments of prefill, remap and decode pass their checks, and remap     *)
(* never runs out of slots (the error paths of qwen.cpp:554, 683, 691, 717 *)
(* are dead code for these callers).                                       *)
NoInternalError == error \notin {"invalid_argument", "allocation"}

(* No two live beams share a slot.                                         *)
SlotsDistinct ==
  \A i, j \in DOMAIN beams : beams[i].slot = beams[j].slot => i = j

Holds(slot, path) ==
  \A p \in 0 .. cachedLength - 1 : cache[slot][p] = path[p + 1]

(* Whenever a selection is made, the slot of every live beam holds the     *)
(* beam's own tokens at every cached position, and nothing of a sibling    *)
(* or of the beam that used the slot before.                               *)
CacheHoldsHistory ==
  phase = "choose" => \A i \in DOMAIN beams : Holds(beams[i].slot, beams[i].path)

(* The logits a selection is made from are those of the live beams, in     *)
(* their order: row i was computed from the whole of beam i.               *)
LogitsFollowBeams == phase = "choose" => logits = Paths

(* README.md:176-178, "Surviving beams retain their cache slots, while     *)
(* additional children of the same parent are cloned": when the survivors  *)
(* take over, each parent with a child has exactly one in its old slot.    *)
SurvivorsRetainSlots ==
  [][Remapped /\ beams' # beams =>
       \A c \in DOMAIN next :
         \E d \in DOMAIN next :
           {e \in DOMAIN next : beams'[e].slot = Parent(c).slot} = {d}
             /\ next[d].source = next[c].source]_vars

(* Beams grow together, and the cache is exactly as long as they are       *)
(* ("beam token lengths diverged", qwen.cpp:1226, never happens).          *)
Lockstep ==
  phase \in {"choose", "remap"} =>
    /\ cachedLength \in Len(Prompt) .. Wanted
    /\ \A i \in DOMAIN beams : Len(beams[i].path) = cachedLength

(* How far remap has got: who has a slot, that no slot has two owners,     *)
(* that a parent's slot is never handed out, and that the children still   *)
(* to be served are no more than the free slots.                           *)
RemapAssignment ==
  phase = "remap" =>
    /\ Len(next) \in 1 .. MaxBeams
    /\ child \in 1 .. Len(next) + 1
    /\ cachedLength < Wanted
    /\ \A c, d \in DOMAIN next : next[c] = next[d] => c = d
    /\ \A c \in DOMAIN next \ Duplicates(next) : output[c] = Parent(c).slot
    /\ \A c \in Duplicates(next) :
         IF c < child
         THEN \A d \in DOMAIN next : output[c] # Parent(d).slot
         ELSE output[c] = Unassigned
    /\ \A c \in DOMAIN next : c < child => output[c] # Unassigned
    /\ \A c \in DOMAIN next : output[c] \notin free /\ Parent(c).slot \notin free
    /\ \A c, d \in DOMAIN next :
         output[c] = output[d] /\ output[c] # Unassigned => c = d
    /\ Cardinality(Duplicates(next) \ 1 .. child - 1) <= Cardinality(free)

(* What the slots hold meanwhile: the parents' histories are intact, and a *)
(* served child has its own copy, or the copy is still queued.             *)
RemapContents ==
  phase = "remap" =>
    /\ \A c \in DOMAIN next : Holds(Parent(c).slot, Parent(c).path)
    /\ \A copy \in pending :
         \E c \in Duplicates(next) : c < child /\ copy = CloneOf(c)
    /\ \A c \in Duplicates(next) :
         c < child => CloneOf(c) \in pending \/ Holds(output[c], Parent(c).path)

BeforePrefill ==
  phase = "prefill" => beams = <<[path |-> Prompt, slot |-> 0]>>

NothingQueued == phase \in {"prefill", "choose"} => pending = {}

(* The inductive invariant.                                                *)
IInv ==
  /\ TypeOK
  /\ NoInternalError
  /\ SlotsDistinct
  /\ CacheHoldsHistory
  /\ LogitsFollowBeams
  /\ Lockstep
  /\ RemapAssignment
  /\ RemapContents
  /\ NothingQueued
  /\ BeforePrefill

(* The cached search is the search that evaluates every beam from its      *)
(* first token: same beams, same logits, same end.                         *)
ImplementsBeamSearch == Search!Spec
==============================================================================
