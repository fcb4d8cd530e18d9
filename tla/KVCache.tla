------------------------------ MODULE KVCache ------------------------------
(***************************************************************************)
(* The device memory of the TokenRig key/value cache (qwen_kv_generator in *)
(* src/src/qwen.cpp): MaxBeams slots of Capacity positions each, and the   *)
(* three ways the generator writes it.                                     *)
(*                                                                         *)
(* The K and V rows of a position are a function of the token there and of *)
(* the rows attended when it was written.  A position is represented by    *)
(* its token: as long as every row attended by a write belonged to the     *)
(* beam's own history (which is what BeamCache checks), equal tokens at    *)
(* all positions mean equal rows in all 28 layers.                         *)
(*                                                                         *)
(* Slots and positions count from 0 as in the code; beams are sequences    *)
(* and count from 1.                                                       *)
(***************************************************************************)
EXTENDS Integers, Sequences

CONSTANTS
  Entries,   (* what one position can hold: mesh embeddings, token ids     *)
  Stale,     (* memory no write has reached yet                            *)
  Capacity,  (* positions per slot, capacity_                              *)
  MaxBeams   (* slots, maximum_beams_                                      *)

ASSUME KVCacheAssumption ==
  /\ Capacity \in Nat \ {0}
  /\ MaxBeams \in Nat \ {0}
  /\ Stale \notin Entries

Slots == 0 .. MaxBeams - 1
Positions == 0 .. Capacity - 1

Caches == [Slots -> [Positions -> Entries \cup {Stale}]]

EmptyCache == [s \in Slots |-> [p \in Positions |-> Stale]]

(* prefill: the whole prompt goes to slot 0, whatever beam will own it.    *)
PrefillWrites(cache, prompt) ==
  [cache EXCEPT ![0] =
     [p \in Positions |-> IF p < Len(prompt) THEN prompt[p + 1] ELSE @[p]]]

(* decode: beam b writes its new token at position past of its own slot.   *)
DecodeWrites(cache, slots, tokens, past) ==
  [s \in Slots |->
     IF \E b \in DOMAIN slots : slots[b] = s
     THEN [cache[s] EXCEPT ![past] =
             tokens[CHOOSE b \in DOMAIN slots : slots[b] = s]]
     ELSE cache[s]]

(* What the attention of one beam sees in decode: the first past positions *)
(* of its slot, then the row it has just computed.                         *)
Attended(cache, slot, token, past) ==
  [i \in 1 .. past + 1 |-> IF i <= past THEN cache[slot][i - 1] ELSE token]

(* Fault: the newest position is not copied.                               *)
CloneSlotShort(cache, source, destination, length) ==
  [cache EXCEPT ![destination] =
     [p \in Positions |-> IF p < length - 1 THEN cache[source][p] ELSE @[p]]]

(* clone_slot: the first length positions of one slot over another.        *)
CloneSlot(cache, source, destination, length) ==
  [cache EXCEPT ![destination] =
     [p \in Positions |-> IF p < length THEN cache[source][p] ELSE @[p]]]
=============================================================================
