# skin-tokens.cpp in TLA+

Models of the parts of skin-tokens.cpp where order, failure or agreement between
separate pieces of code decides whether the program is right, with TLC
configurations that check them on small instances and TLAPS proofs for every
value of the constants. Paths below are relative to the repository, which is
`src/` here; `PROJECT.json` maps every definition to its lines.

## 1. The system

`skintokens` is a C++23/GGML library that predicts a skeleton and skin weights
for a mesh, with a command line and a demo server in Go.

| Component | State | Operations | Talks to |
|---|---|---|---|
| Cached beam search, `src/qwen.cpp` `qwen_kv_generator` | K/V tensors of `beams` slots, cached length, slot of each beam | `prefill`, `decode`, `remap` (queued device copies) | GGML backend; called by the generation loops |
| Generation loops, `src/qwen.cpp` `generate_rig_tokens`, `generate_skin_codes`, the two trajectory functions | active and finished beams, current logits | mask, candidates, survivors, result | the cached search; skeleton grammar |
| Skeleton token language, `src/qwen.cpp` `parse_skeleton`, `src/tokenizer.cpp` | none (pure) | parser and mask; writer; reader | generation loops, `model.cpp` |
| Model pipeline, `src/model.cpp` | loaded components, backend | `load`, `rig`, `bind`, `skin` | all of the above, encoder, SkinVAE, binding |
| Motion fitting, `model.cpp` `fit_motion_to_mesh` | rest pose, tracks, root motion of the clip at hand | scale, frame-zero bake, arm poses, transfer of the tracks | skinning and retargeting, which play clips |
| Skeleton import, `glb.cpp` `load_skeleton_document` | joints placed so far, climb from the joint at hand | passes over the skin's joints, linking | all that relies on parents before children |
| Numeric parts: `mesh_encoder.cpp`, `skin_vae.cpp`, `binding.cpp`, `skinning.cpp`, `retarget.cpp` | none between calls | tensor graphs, geometry | model pipeline |
| Files: `glb.cpp`, `gguf.cpp`, `weights.cpp` | none between calls | parse, write | file system |
| Backend selection, `src/backend.cpp` | directories already loaded | register, pick device | GGML |
| C interface, command line: `c_api.cpp`, `cli.cpp` | last error, handles | one call each | model pipeline |
| Demo server, `demo/main.go` | records under a lock, bounded channel, manifests on disk | `generate`, `worker`, `persist`, `restore`, read-only handlers | command line as child processes, disk, browser |
| Demo page, `demo/web/app.js` | selected record, tracked job, poll timer | `refresh`, `select`, `preview`, generate button | demo server |
| GGML preparation, `cmake/PrepareGGML.cmake`, `CMakeLists.txt` | patched copy, stamp, source marker, GGML's binary subtree | one configuration | git, file system |

What is hard, and what has to hold:

* **Slot reuse under asynchronous copies.** When beams are selected, the first
  child of a parent keeps its slot and every other one gets a copy queued with
  `ggml_backend_tensor_copy_async`. A slot shared, reused early or copied late
  gives a beam the history of another, and nothing fails. Slots must be private,
  hold exactly their beam's history, and the logits must belong to the beams.
* **Three pieces of code, one language.** The mask must keep the model's choices
  inside the language the parser reads, or it throws in the middle of a
  generation; writer, parser and reader must count the same joints.
* **Loops with several ways out.** Beams finish, outgrow the joint limit or hit
  the token limit in different rounds; the result must be complete and the loop
  must end.
* **A server that may die anywhere.** A record lives in memory, in a channel and
  in a manifest whose writing can be cut in two or fail unnoticed. No job may be
  orphaned, run twice, or shown as done without a result.
* **A rest pose rewritten under its tracks.** Fitting scales, exchanges and bends
  the rest pose of a clip in several passes, and each must be made up for in the
  rotations of the same joint and of its children, in the right order. On a test
  rig whose turns commute any order works.
* **A list put in order by repetition.** The joints of a skin come in any order,
  with other nodes between them, and files may hold cycles.
* **A page that follows a job.** Refreshes, their answers and a timer interleave
  at every `await`; an answer may be older than what the page already knows.
* **A cached build input.** A copy of GGML is reused by fingerprint over edits
  of sources and patches, failed patches and interrupted runs of cmake.

`PROJECT.json` lists these as hazards with their lines and the properties that
cover them. A hazard that a property excepts by name (`Endless`, `Chained`,
`Outdated`, the hypotheses of `PrepareGGML`) is listed as covered by none.

## 2. Modules

| Module | Models | Abstract specification, composition |
|---|---|---|
| `BeamSearch` | what a beam search promises, with no cache: logits are those of the whole beams | abstract |
| `KVCache` | the slots and the three ways they are written | operators |
| `BeamCache`, `MCBeamCache` | `qwen_kv_generator` with its most general user | extends `KVCache`, implements `BeamSearch` |
| `SkeletonTokens` | parser, mask, writer and reader, and the rounding between them, as operators | |
| `SkinOrder` | the ordering and linking of a skin's joints | |
| `SkeletonRoundTrip`, `MCSkeletonRoundTrip` | a file imported, validated, written as tokens and read back | composes `SkinOrder` and `SkeletonTokens` |
| `RigGeneration` | the loop of `generate_rig_tokens` | extends `SkeletonTokens`, implements `BeamSearch` |
| `SkinGeneration`, `MCSkinGeneration` | the loops of `generate_skin_codes` | implements `BeamSearch` |
| `MotionFit`, `MCMotionFit` | `fit_motion_to_mesh`, then both clips played | |
| `DemoJobs` | the names of the demo's jobs | |
| `JobHistory` | what the server's callers see of its jobs | abstract |
| `JobServer` | demo server with crashes | implements `JobHistory` |
| `JobPage` | the page following its jobs | composes with `JobHistory` as its server |
| `Demo` | page and server together | composes `JobServer` and `JobPage` |
| `PrepareGGML` | configurations of the build tree | |
| `BeamCacheProofs`, `MotionFitProofs`, `PrepareGGMLProofs` | proofs | extend their component |
| `SkeletonTokensProofs` | proofs of what parser, reader and writer compute | extends `SkeletonTokens` |
| `SkinOrderProofs`, `RigGenerationProofs`, `SkinGenerationProofs` | proofs | extend `SkeletonRoundTrip`, `RigGeneration`, `SkinGeneration`, and `SkeletonTokensProofs` |
| `JobProofs` | proofs | extends `Demo`, and so `JobServer` and `JobPage` |

Two abstract specifications tie the rest together. The loops `RigGeneration` and
`SkinGeneration` do to beams only what `BeamSearch` allows, and the cache
implements `BeamSearch` for every user it allows: so each loop may be read as if
it evaluated every beam from its first token, although the code never does. And
`JobPage` is written against `JobHistory`, which `JobServer` is proved to implement:
what holds of the page holds with the real server behind it, crashes and lost
manifests included; `Demo` puts the two together, where that is proved as well.

### BeamCache

`cache` is `keys_`/`values_`; a position holds the token written there, which
stands for its K and V rows in all layers: the rows are a function of the tokens
before them as long as each write attended to its own beam's history, and that is
what is checked. `beams` has the path and the slot of each beam, `logits` the
sequence each row of `current_logits` was computed from. `remap` is split where
the code can be interleaved with the device: `RemapBegin` (first children keep
their slots, the free slots are collected), `RemapChild` (one iteration of the
cloning loop, which may queue a copy), `CopyLands` (a queued copy runs, at any
time and in any order), `Remapped` (after `ggml_backend_synchronize`). `Decode`
writes position `past` of each slot and computes the new logits through
`Attended`; `BackendFails` is any error of the backend. A user with a single
beam in slot 0 never calls `remap` (`generate_skin_codes` samples this way); the
actions guarded by `Alone` are that path.

### SkeletonTokens, RigGeneration, SkinGeneration

The language is one of quantized cells; ties between joints in one cell are kept,
because the reader finds parents by distance. `Discrete` and `Coordinate` are the
two conversions, on positions in quarters of a cell: writing rounds to the nearest
whole number, half to even, and reading takes the middle of a cell. So a joint
comes back up to a whole cell higher than it was, and when what was read is
written again an odd cell becomes the next. Scores are left out: `Selected` is any set of candidates that top-k
and the nucleus filter may leave (with the minimum `masked_candidates` and
`beam_candidates` guarantee), `Kept` any order of any survivors among them. A
model can thus choose anything the mask allows, which is what the properties are
about.

### SkinOrder, SkeletonRoundTrip

One step is one turn of an innermost loop of `load_skeleton_document`: `Climb`
goes past a node that is no joint, `Place` and `Wait` end the climb, `NextPass`
and `GiveUp` end a pass. What a climb finds is defined apart from the climbing
(`NearestJoint`, the least set closed under going up), so that the properties say
what the code is for and not how it goes. `LinkFails` is the way out of
`global_transform` for a node whose matrix cannot be used; it stands for any joint,
since which nodes are so is data. The loop by which `load_skinned_glb_file` orders
the same skin again, to remap `JOINTS_0` (`glb.cpp:998`), is not modelled: that the
two agree is left unchecked. Two facts a reader may not
expect: a skin that lists its joints parents first keeps its order, but "Preserve
sibling order" (`glb.cpp:781`) is not true of others (the joints n1, n2, n3 below
the root n2 come out as n2, n3, n1); and from a joint above which nodes that are
no joints form a circle the climb never ends (`Endless`, `glb.cpp:791`), which the
checks before it do not exclude.

### MotionFit

Rotations and vectors are any sets with the laws that the `ASSUME`s list: a group,
acting linearly, with a scale that commutes with it. The model has every pass over
rest pose and tracks as the code has it, joint by joint where the order matters;
the choice between candidates, which the code makes by measuring clearances in
the mesh, is any choice, and inverse kinematics is any pair of turns. Rounding is
left out, and so is the normalization of quaternions after each product, which
undoes it. `Play` is forward kinematics, run over the clip as given and as fitted.
`Chained` is the one exception the properties make: a joint that hangs from a
shoulder or an elbow beside the arm (as for the twist of a forearm) is not moved
with it (`model.cpp:1098-1116`), against "every mode preserves the globally scaled
length of every bone" (`skintokens.hpp:299`).

### JobServer

A record is its state. `handler[id]` is how far the request's goroutine has got,
`worker` is the worker goroutine. `s.mu` is held exactly while a manifest is
written, so `writing` is both; `Truncate` and `Write` are the halves of
`os.WriteFile`, either of which may fail unnoticed if `DiskFails`. So may the
`os.RemoveAll` of a request that is turned away (`RemoveDirectory`), which then
leaves the directory, with or without its manifest; a manifest that is left comes
back after a restart as an error of a job nobody was promised. That is why there
are two properties: `TurnedAwayForgotten`, for a disk that does not fail, and
`TurnedAwayNeverRuns`, whatever it fails at. `Crash`
keeps only `disk` and `outputs`; `Restart` is `restore`, which changes a job
under way into an error in memory only. Uploads and commands are single steps:
they work in the job's own directory. Seen from outside it is `JobHistory`: a job
is published with its first manifest, before its request is answered, and may
still be withdrawn; at most one runs; what is settled stays so until the server
dies.

### JobPage

`job`, `poll` and `asked` are `state.job`, the timer and the calls of `refresh`
that wait for an answer, each with the history it will be given once the server
has answered it. `Refresh` is the rest of `refresh` from its `await` on. Reading
the code so shows three limits, which the properties state as exceptions: an
answer from before the page's own job was listed makes it follow another one; when
that one settles the timer is put out though others are pending; and a request
that fails is never repeated. What the viewer shows is not modelled: there `select`
and `example` do not look, as `preview` does, whether something else was opened
while they were loading.

### Demo

Every step is one of the server's, with what the page can see of it, or one of the
page's. `Lists` is `history` answering a request, which reads the records under
the lock (`main.go:276`), so it waits while a manifest is written.

### PrepareGGML

The copy is two files and a stamp, enough to tell a whole tree from a partial
one; `CMakeLists.txt` is separate because its existence is tested. `Edit`
changes one input between two configurations, `Kill` ends cmake between or in
the middle of two steps and leaves the file being written in any condition.
Reading the patches twice in one configuration is taken to give the same text:
the user does not edit during a configuration.

## 3. Runs

| Run | Instance | Shows |
|---|---|---|
| `beam_cache` | 3 beams, 2 tokens, 3 generated tokens after a mesh token | all of BeamCache's invariants and the refinement |
| `skeleton_import` | every parent relation on 4 nodes, 1 to 4 of them joints, 5 places | ordering, linking, and that writer, reader and grammar agree |
| `rig_two_beams` | 2 beams, 9 tokens, joint limit 1 | the mask, beams past the limit, the refinement |
| `rig_one_beam` | 1 beam, 19 tokens, joint limit 2 | complete results, with a branch; termination |
| `rig_codes` | 1 beam | finding 1 |
| `skin_codes` | 1 to 3 beams, 1 or 2 joints, token limit 4 | complete results, widening, termination, refinement |
| `motion_fit` | 4 joints in 5 hierarchies and 7 with two arms, 2 frames, 6 rotations | the fitted clip plays like the one given |
| `job_server` | 3 requests, queue of 1, 1 crash, a disk that fails | safety of the server, and that it implements the history |
| `job_server_restart` | 3 requests, queue of 1, 2 crashes, a disk that does not fail | what a restart shows, nothing left of refused requests, liveness |
| `job_server_history` | 1 request, 1 crash | finding 2 |
| `demo` | 2 jobs, queue of 1, 1 crash, 2 requests for the history at a time | the page follows its job and notices its end, with the real server behind it |
| `prepare_ggml` | 2 revisions, 3 patches of which one is broken, lists of up to 2, 2 kills | what is built is what was asked for |

The bounds, and why they are enough for what they check. Three beams over three
slots are the least in which two children need free slots at once, so that two
copies are in flight and can chain; with three generated tokens a slot is freed,
reused and read again. Four nodes give a skeleton two branches, a joint whose
nearest joint is two nodes up, circles of joints and circles of other nodes, and
three passes; the places hold two in one cell, both ends of the range and halves
that round down and up. Two joints are the least with a branch and a span of more
than four codes; 9 and 19 tokens are one more than the longest one- and two-joint
results, so the token limit is met before, at and after a result. Four joints are
an arm and its finger or the root above it; the rotations are the six that map a
triangle to itself, the least that do not commute, on the plane modulo 5, where a
scale of 2 is no rotation; two arms show that one does not spoil the other. Three
requests and a queue of one give a running, a waiting and a refused job at once.
Two jobs are one of this page and one of another; two requests are the least that
can overtake each other; the disk does not fail in that run, to keep it small: a
crash during a write already loses a job from the history, and the theorems about
`DemoSpec` hold for either value. Two patches have an order, and two kills let an
interrupted configuration be interrupted again. `MaxCrashes`, `MaxKills`,
`MaxPatches`, `MaxRequests` and the tokens in play are bounds of the models alone;
the others are parameters of the code. `CHECK_DEADLOCK FALSE` stands where the
system stops by itself: a generation, an import or a fitting that has ended, a
server whose requests have all been made, a page with nothing to follow. cmake can
always be run again, and `prepare_ggml` checks deadlock. Type invariants are not
listed by themselves: they are part of the inductive invariants that are proved.

Every property of a passing run has a mutant: the definition of a plausible fault
(marked "Fault:" in its comment), put in place of the right one, makes TLC find
the property violated.

**Fairness.** `WF_vars(Advance)` in the generation loops: one thread runs the
loop and each round does a finite amount of work; `BackendFails` is not fair.
`JobServer` has weak fairness of the worker and of each handler: goroutines that
can run do, Go's mutex does not starve a waiter, and the commands run under a
context with a deadline. `Upload`, `Unusable`, `Crash` and `Restart` are not
fair: nobody has to make a request, and nobody has to start the server again,
which is why the liveness properties except the time it is down. In `Demo` the
server has the same fairness, so that its work goes on is a consequence; a timer
that is set fires, and the server's answers are given and arrive; that a request
fails is always possible and never necessary, and no user has to press Generate.
`SkeletonRoundTrip` has `WF_vars(Next)`: the import
runs by itself until it returns. `BeamCache`, `MotionFit` and `PrepareGGML` state
safety and refinement only.

## 4. Findings

1. `rig_codes`: after the skeleton the mask starts at token 258, not at 267
   (`src/qwen.cpp:1351`), so a result may hold codes -9 to -1, which
   `src/skin_vae.cpp:336` rejects, against "four FSQ skin codes per generated
   joint" (`src/internal.hpp:148`).
2. `job_server_history`: a crash between the truncation and the writing of a
   manifest (`demo/main.go:159`) loses the job from the history that
   `README.md:349` calls persistent.

Two more, which no document denies, are hypotheses of the properties of
`PrepareGGML`, and so the hazards they belong to are covered by no property.
`HasGit` is TRUE in the runs: without git metadata the fingerprint
does not depend on the sources (`cmake/PrepareGGML.cmake:51`), and the copy of
another revision is reused, which TLC shows with FALSE. `KilledWhileRemoving` is FALSE in the runs: cmake killed inside `REMOVE_RECURSE`
(`cmake/PrepareGGML.cmake:73`) may leave the stamp and `CMakeLists.txt` of the old
copy without the rest, and if the inputs are then put back as they were, that rest
is reused. With TRUE and one kill TLC shows it as a violation of `BuildsPrepared`.

## 5. Proofs

All proofs are checked by TLAPS with SMT, Zenon and PTL. Their only assumptions are
the named `ASSUME`s on the constants, which TLC evaluates in the runs, and the
hypotheses stated in a theorem.

**BeamCacheProofs** (`Spec => []IInv`, then `NoInternalError`, `SlotsDistinct`,
`CacheHoldsHistory`, `LogitsFollowBeams`, `SurvivorsRetainSlots`, and the
refinement of `BeamSearch`). The properties speak of the moments between rounds
and are not inductive: inside `remap` some children have slots, some do not, and
copies are outstanding. `IInv` adds `RemapAssignment` (no parent's slot is handed
out, and the children still to serve are at most as many as the free slots, which
needs a counting argument on finite sets) and `RemapContents` (parents' slots are
intact, a served child has its copy or the copy is queued: this is why the order
in which copies land does not matter).

**SkinOrderProofs** (`Spec => []IInv`, then `ParentsFirst`, `CycleIsReal`,
`OrderKept`, for any finite set of nodes, circles included; and the composed
import does to the ordering only what `SkinOrder` allows). The climb is
related to `NearestJoint` by showing that what it has still to visit stays
closed; that a pass which places nothing proves a cycle needs that every joint
left over waits for another one left over.

On top of it, for the whole import: `TokenizerSpeaksGrammar` and `RoundTrip`.
Both are the theorems of `SkeletonTokensProofs` once their hypotheses are
established: at the end as many joints rest somewhere as have parents
(`RestFollows`, invariant with `IInv`), every place gives a cell of the vocabulary,
parents come first (`ParentsFirst`), and the one root that `validate_skeleton`
admits must then be the first joint.

**SkeletonTokensProofs** (no state; `ReaderFollowsParser`, `WriterSpeaksGrammar`,
`ReaderReadsWriter`, for sequences of any length). Parser and reader are loops and
are modelled as recursive functions, the writer as a fold. Each is unfolded first
(`ParserUnfolds`, `ReaderUnfolds`, `FlattenUnfolds`, `WriterUnfolds`: a function
with the recursive equations exists up to every bound, by induction, so the
definition picks one of them); `Induction` is stated about a set, since the
provers cannot instantiate a theorem about an operator, and follows from there
being no injection of a finite set into a part of itself.
`ReaderFollowsParser` relates the reader's rounds to the parser's states
(`Following`): a round starts where the parser stands between two joints, and the
only thing the grammar lets through and the reader does not is a branch with fewer
than two points after it: at the end, or before a part marker or another branch
(`Dangling`). `WriterSpeaksGrammar` says that the tokens of one joint lead the
parser from between two joints to between the next two, each token allowed by the
mask. `ReaderReadsWriter` says where each joint lies in the tokens, and that one
round, or two for a branch, read it back; the parent found is in the parent's cell,
because the least distance there is 0 and it is attained.

**RigGenerationProofs** (`Spec => []IInv`, then `TypeOK`, `ParserNeverThrows`,
`CodesComplete`, `ReaderAgrees`, and the refinement of `BeamSearch`; for any
number of beams, joint limit and token limit). What is to be shown of a
result is decided many rounds before it is one, so `IInv` speaks of every live
beam (`Beam`: it is a prefix the parser accepts, still within the skeleton, or a
whole skeleton and codes after it, and the final token is nowhere in it; beams are
alike in length and pairwise different); of every finished one (`Completed`: a
live beam that lacked one code of four for each joint, and the final token); and
of what was returned (`Result`). That the reader agrees is then
`ReaderFollowsParser`.

**SkinGenerationProofs** (`Spec => []SkinIInv`, then `TypeOK`, `ResultComplete`,
`BeamsFill`, and the refinement of `BeamSearch`; for any two or more skin tokens,
any number of joints and of beams). `SkinIInv` adds to the shape of the beams that
they are shorter than the result until the search ends, and that the result is
then the first of them. `BeamsFill` rests on `CandidatesSuffice`: two candidates
of every one of n beams are at least 2n candidates, by induction on the beams
counted; so the filters may cut what they like down to the two that
`beam_candidates` keeps.

**MotionFitProofs** (`Spec => []IInv`, then `ClipReplays` and `FrameZeroIsBind`,
for any rotations and vectors with the stated laws, any hierarchy, any arms apart
in it, any number of frames). `IInv` says of every moment of the fitting what the
bones below each joint have been turned by (`Turned`: bent after exchanged) and
that its track makes up for it (`Carried`); a pass over the joints keeps it for
those behind and ahead of `at`. The two lemmas `CarriedTwice` and `CarriedPlays`
are why the code's products, in the code's order, are the right ones.

**JobProofs**, server (`Spec => []IInv`, then `NoOrphans`, `ServedOnce`,
`DoneHasOutput`, `TurnedAwayNeverRuns`, `TerminalStays`; `RestartShowsTheSame` and
`TurnedAwayForgotten` if the disk does not fail; and the refinement of `JobHistory`). `IInv` says what each step
of a handler and of the worker has left in map, channel and directory
(`HandlerLeaves`, `WorkerLeaves`, `QueueAccepted`), and what a crash leaves (`DownIsEmpty`). Of manifests
it says only which ones may be there: one of a done job has its result, one of a
request not yet accepted says queued or cannot be read. So it holds whatever the
disk fails at; `DiskFollows` relates manifests to records and needs `~DiskFails`.

**JobProofs**, page (`PageSpec => []PageIInv`, then `TrackedIsWatched` and `TrackingKept`,
for any number of jobs and of requests under way, on top of `JobHistory`). `Watched` is the strengthening:
while the job followed is under way and no timer is set, one of the requests is
unanswered or holds an answer that has the job under way; `AnswersLag` says that
no answer is ahead of the server.

**JobProofs**, both (`DemoSpec => PageSpec`, and from it `TrackedIsWatched` and
`TrackingKept` for the demo as a whole). It is no property of a run: in `Demo` the
page's actions are those of `JobPage`, so it can fail only where
`ImplementsHistory` does, and its use is to carry the page's theorems over. `Seen` says that what the page sees is
computed from the server's state; with it each step of the server is one of
`JobHistory` (`NextRefines`), so one of `JobPage`'s.

**PrepareGGMLProofs** (`Spec => []IInv`, then `BuildsPrepared`, `NestedFollows`,
`Reuses`, for a git checkout and no kill in the removal). The heart is
`StampTells`: outside the removal, a whole stamp describes the copy next to it.
`HasGit` and `~KilledWhileRemoving` are the two hypotheses it cannot do without.

**Only model-checked.** Liveness (`Terminates`, `AcceptedSettles`,
`RequestAnswered`, `SettlingNoticed`), which TLAPS cannot prove under fairness. A
refinement theorem covers initial states and steps: `ImplementsBeamSearch` and
`ImplementsHistory` state no fairness. Every invariant and every action property
of the passing runs is a theorem.

## 6. Not modelled

Floating-point graphs and geometry (encoder, SkinVAE, binding, the weighted sum of
skinning, the matching of humanoid roles), for which TLA+ has nothing to say
beyond their shapes; parsing and writing of files (GGUF, GLB but for the skeleton's
order, JSON); the C interface, which makes one library call at a time and keeps an
error message; options of the command line; the registration of backends, which
remembers a directory before loading it (`backend.cpp:21`) and has no other state.
Within modelled parts: scores and filters of candidates, normalization of
coordinates to the box of the mesh, rounding in the fitting, the read-only handlers
of the server and its inspection of uploads, the viewer of the page.

GGML is vendored and known here by how it is called. It and the other vendored
code make up by far the most of the lines in the repository; the program's own
code, about 9,000 lines of C++, Go, JavaScript and CMake, is mostly arithmetic on
floats. The map covers what in it has control to get wrong.

## 7. Plan

1. `BeamSearch`, `KVCache`, `BeamCache` and their proofs. Done.
2. `SkeletonTokens`, `RigGeneration`, `SkinGeneration`. Done.
3. `JobServer`, `PrepareGGML` and their proofs. Done.
4. `SkinOrder` with its proofs, composed with the tokens in `SkeletonRoundTrip`.
   Done.
5. `MotionFit` and its proofs. Done.
6. `JobHistory`, refined by `JobServer`, `JobPage` on top of it, and both in `Demo`,
   with their proofs. Done.
7. `SkeletonTokensProofs`, `RigGenerationProofs`, `SkinGenerationProofs`, and the
   round trip in `SkinOrderProofs`. Done.
8. `CandidateFilter`: top-k, nucleus and repetition penalty over integer scores,
   against a reference definition, justifying `Selected` in the two loops.
9. `NearestHeap`: the bounded heap of the k-d tree against sorting; the once-only
   registration of backends.
10. A composition of a generation loop with `BeamCache` like that of page and
    server in `Demo`.
