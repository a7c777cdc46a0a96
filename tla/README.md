# SEPIKA verification project

SEPIKA (the crates `sepika-*`) is a structural-calculation suite for Japanese buildings: a desktop
application in which a building is modelled, loaded, analysed and checked, an analysis server that offers
the same over MCP, and the libraries under both. Most of its code is numerics. This project is about the
rest, the code that keeps state: what belongs to what after a series of edits, jobs, failures, saved files
and restarts. It consists of TLA+ modules, TLC configurations that check them on small instances, and
proofs that TLAPS checks for every value of the constants.

`PROJECT.json` lists the components, the runs, the source lines of every definition, the hazards, the
disagreements between code and documents that the runs show, and the theorems.

## 1. Inventory

| Component | State it keeps | Operations | Talks to | Hard part |
|---|---|---|---|---|
| analysis server (`sepika-mcp`) | model, undo stack, job registry, store handle behind one async mutex | `analysis_run`, `model_edit`, reading tools; one spawned task per job | store, jobs, edit commands | jobs interleave; a failure or a kill at any system call |
| result store (`sepika-io::results`) | manifest in memory and on disk, pending entries, one Parquet file per (case, kind) | `writer`, `finish`, `sync`, `discard_pending`, `open`, `query` | server | files are rewritten in place before the commit point |
| analysis session (`sepika-app::app`) | model, undo stack, settings, preparation, result bundle, staleness flags, load hash, running job, pending dialog, project path | editing, undo, settings, preparation, load synchronisation, runs, answers, saving, opening, new project | worker thread over a channel, polled once per frame | the user goes on working while a job computes on a copy |
| static results (`linear_static.rs`, `design/check.rs`) | results by case and by combination, selection, forces and checks on display | run one, run all, answers with failures, selecting, deleting cases, saving | session | results are addressed by position and by name, and partly removed |
| undo stack (`sepika-edit::lib`) | two stacks of commands, revision | `run`, `undo`, `redo` | every command | inverses answer with inverses, the limit, refused commands |
| edit commands (`sepika-edit`) | none; they rewrite the document | `apply` answers with the inverse | core's reference visitors | ids are positions; one forgotten list points at a neighbour |
| references and regions (`sepika-core::model`) | the document | renumbering, in-use guards, `retain_slabs`, merge of scanned regions | commands, preparation | a rebuild drops slabs and hands out new region ids |
| pushover driver (`sepika-solver::nonlinear`) | trial and committed element states, load factor, target, recorder, ending | four phases of steps and attempts | elements, recorder, session | failed attempts, hand-over between phases |
| nonlinear time history (`sepika-solver::dynamic`) | long-term load so far, motion, trial motion, damping force, element states, recorder | increments, steps, iterations, record | elements, recorder, session | steps that do not converge are kept; what an iteration leaves behind |
| hysteresis (`sepika-material::hysteresis`) | trial and committed point, branch, peaks of either side | trial, commit, revert | elements | branches inside branches, reversals, one step that passes several corners |
| vibration cases, wave library (`sepika-app::vibration`, `wave_library`) | cases in the model, results in slots, case on display, selected wave and its hash | request, answer, focus, select, register and delete waves, save, open, undo | session, project file | a case and its result live in different places and meet in a number |
| load cascade (`sepika-load::cascade`, `secondary`) | none beyond one call | supports, order, transfer, loads on the frame | load generation | each member after all that rests on it; nothing lost, nothing twice |
| story copy (`sepika-edit::story_copy`) | none; it rewrites the document | copy the sections, loads, floors and joists of a story to others; restore | edit commands, undo stack | four passes over a document that each of them changes; things are recognised by plan and height |
| project files, checkpoints (`sepika-io`) | files | save, load | session | crash in between, stale hashes |
| load generation, stories, Ai (`sepika-load`, `sepika-job`) | none | from geometry to load cases | preparation, cascade | geometry with tolerances |
| preparation and jobs (`sepika-job`) | none | settings + model to inputs and outcomes | session, server | automatic cases are replaced in place |
| elements, statics, eigenvalues, linear algebra | none beyond trial states | numerics | solver | floating point |
| design checks, quantities (`sepika-design-jp`) | none | formulas | static results | none for a model checker |
| viewer, tables, panels (`sepika-app`) | widgets | build commands, display | session | layout |

What makes each part correct, in one line:

* server and store: a job ends once, and what can be queried was published by a job that ended well;
* session: nothing shown or saved as current belongs to another model, other settings or another project;
* static results: selection, forces and checks on display belong together, and failures take down what they invalidate;
* undo: the stacks are a line of models, walked without producing a new one;
* commands: references hold, every command is taken back exactly by its inverse, a deletion reconnects nothing;
* pushover: what is returned is the last equilibrium that was recorded, and the reason given for the end is the true one;
* time history: a committed step obeys Newmark's relations whatever its iterations did, and the recording is of all steps;
* hysteresis: the strength bounds the force, the force does not jump, and the number of steps does not matter;
* vibration cases: what is on display, the names of the cases and the file agree with the runs;
* cascade: all loads arrive on the frame or where they are reported, with their moments;
* story copy: only the targets change, a second copy changes nothing (of floors that keep their key), what may be overwritten ends like the source.

The rest of `PROJECT.json` "components" lists the parts without a module, each with its reason.

## 2. Plan

The order was: server and store, session and static results, undo and the commands on the frame, pushover (first stage);
hysteresis, time history, vibration cases with the wave library, the load cascade, story copy (second stage). What the first stage
named as next and is still open, in this order:

1. project file and checkpoint: damaged files, element states that do not match the elements (`checkpoint.rs:127`);
2. automatic load cases (`auto_loads.rs`): replacing them in place by name, with the cascade as their source;
3. stories and axes as commands of `FrameEditing`; posts and attached slabs in `StoryCopy`; region rebuild; the degree-of-freedom map;
4. combination generation and the rule that reads the term from a name;
5. proofs, of which those about static results, vibration cases, `DonePublishesOwnRows` and the transfer of `LoadCascade`
   are done: the strength of a spring with proportional sides, and the effect of the frame commands, whose walk over
   carrying joists must first become a recursive function.

There is one run for each component, two for the frame, which has a known fault, so that the whole is checked in
reasonable time; what else was found is stated in the modules and in section 7.

## 3. Modules

Positions and ids count from 1 in the models, from 0 in the code.

### Server

* `ResultStore` - `FsResultStore`. Each system call that may fail, or that a killed process may not reach, is
  an action: creating a writer tears the file, finishing it leaves a pending entry, `sync` writes the manifest
  file and then takes it over in memory. Rows are reduced to the job that wrote them.
* `AnalysisServer` - EXTENDS it with the job life cycle of `server.rs` and `persist.rs`: register and clone under
  the lock, compute without it, persist under it key by key, report. `Crash` and `Restart` may come anywhere.
* `JobService` - the abstract specification, without lock, writers and pending entries: `published` is the manifest
  (which keys are answered and who announced them), `content` what the files hold; a query is answered from both. The
  step in which a job turns Done announces exactly the keys its computation filled, and each answers with its own
  rows. A job that fails announces nothing, but it may have overwritten or damaged the content of its own keys,
  under what others announced, and of no other key. A stop keeps what is published unless the directory is `exposed`: from
  the moment a job with rows begins to replace `manifest.json` until a replacement is complete, it costs the whole
  directory, and only then. `AnalysisServer!ImplementsJobService` is the refinement.
* `AnalysisServerProofs` - types, safety, what a finished job publishes, the refinement.

### Session

* `AnalysisSession` - one window of the application. A model is a token of what the user entered (`own`), what
  preparation generated (`auto`) and the regions left unset; everything derived carries the model it was
  computed from, so that being current is an equality. One action per user event, one for the end of the worker,
  one for polling it.
* `AnalysisSessionProofs` - types and six safety properties.
* `StaticResults` - the result bundle of linear statics by load case and combination, selection by position,
  forces and checks on display; run one, run all with any mixture of failures, other analyses by their effect on
  the shared flags, deletion and insertion of cases (which moves ids), combinations, save, open, restart.
* `StaticResultsProofs` - types and the three properties of the run, with lemmas on recursion along a sequence.

### Editing

* `RoundTrip` - the law between a command and its inverse, for as often as the user goes back and forth.
* `UndoStack` - `run`, `undo`, `redo` for any set of commands (constant operators). `past` and `future` are history
  variables. `EditHistory` is the abstract document history it implements. `UndoStackLaw` states the assumption
  that the commands obey the law; `CombinationEditing` is the command set TLC uses.
* `UndoStackProofs` - from the law: bounds, exact undo and redo, the revision, the refinement.
* `FrameModel` - the document: positional tables, the references between them, the visitors that renumber, the
  in-use guards, the rebuild of floor regions.
* `FrameCommands`, `SecondaryCommands` - one operator per command, its `apply`. `FrameEditing` dispatches them,
  adds composites, and states the properties. It discharges, on small documents, the law that
  `UndoStackProofs` assumes.

* `StoryCopy` - `CopyStory`: the four passes as operators on a document with coordinates, the matching by plan and
  height, deleting and making slabs, sections of another story; `RestoreModel` is its inverse.

### Pushover

* `PushoverControl` - `pushover_analysis_recording` after its argument checks. `elems` has a committed and a trial
  part, a factor and the roof displacement in each; an attempt moves the trial part and ends with a commit or a
  rollback. The four phases (long-term load, load control, displacement control, arc-length) are the values
  of `phase`, and the two `?` phases are the decisions between them.
* `EquilibriumPath` - the abstract path of equilibrium points, with the target and the verdict.
* `PushoverProofs` - types, five safety properties, progress of the steps, the refinement.

### Time history and hysteresis

* `Recording` - `ThRecorder`: frames at every k-th step and at the last, the peak of all steps.
* `TimeHistory` - `nonlinear_time_history_analysis`, one degree of freedom: long-term load in increments that are halved
  when they fail (`LoadFractionState`), start, then one step for each sample with Newton's iterations, commit, divergence,
  solver errors. `elems` has a committed and a trial state, as in the pushover.
* `TimeHistoryProofs` - types, the five kinds of relation that the run checks.
* `Rational` - exact fractions in lowest terms, with Euclid's algorithm as a recursive function. `HysteresisRule` - the seven kinds of skeleton and their stiffnesses.
* `HysteresisMaterial` - `HysteresisMaterial::evaluate` with every branch, driven by trial, commit and revert.
  `astray` marks histories that went through one of five places where the code departs from its rule (section 7).
* `HysteresisLaws` - what analyses expect of a spring.

### Vibration cases

* `VibrationCases` - the cases in the model, the results in their slots, display and graph, for the spatial frame
  and for the lumped mass model; requests with and without confirmation, answers, eigenvalue results, selecting and
  registering waves of the library, and hashes.
* `VibrationProject` - composes it with editing, undo (a story copy is the one command that keeps a whole model),
  saving with and without recordings, opening, and waves that are deleted from the library. There is no new project here:
  what it resets is in `AnalysisSession`. A file with slots and no window, which
  `migrate_legacy_time_history` also repairs (`vibration.rs:351-357`), is none that the program writes.
* `VibrationProofs` - types, display, names, hashes, the way through the file.

### Load cascade

* `SupportGeometry` - which frame or which other member an end rests on; points on a grid.
* `LoadCascade` - the order of the transfer, one action for each member that is popped, and the transfer, one for each
  member whose turn it is; then the loads on nodes and girders.
* `LoadCascadeProofs` - the order, and that the transfer loses no force and no moment, for every well-formed model.

The `MC*` modules give constants that need an expression; `MCAnalysisSession`, `MCFrameEditing` and
`MCVibrationProject` also split a large instance into independent sessions, chosen at the start (`focus`, `view`).

Definitions marked "Faulty variant" change a definition the way a plausible bug would; no specification uses
them, they serve to see that each property can fail.

## 4. Runs

| Run | States | What it shows |
|---|---|---|
| `server` | 452 143 | two jobs of any kind on one case, every store failure, one edit or kill anywhere: pending entries belong to the job holding the lock, disk follows memory, a finished job leaves its own rows, every job ends, `JobService` is implemented (what is announced when, whose files change, when the directory may be lost) |
| `session` | 923 091 | nothing of a replaced project survives, open dialogs and confirmations included; preparation, saved preparation and unsaved marker never claim too much; jobs run on synchronised loads |
| `statics` | 773 876 | selection, forces and checks stay together through failures, removals, deletion of cases, saving and opening |
| `undo_stack` | 1 127 | the stack on the list of combinations: one model for each revision, and `EditHistory` (bound, exact undo and redo) is implemented |
| `frame` | 26 117 | every command on eight small documents in every order: references hold, every command is reversible, a deletion reconnects nothing |
| `frame_undo` | violation | a beam across a slab: add, undo, redo, undo does not give the slab back |
| `pushover` | 423 069 | every control, target and phase with attempts failing anywhere, and termination |
| `hysteresis` | 145 372 | seven rules, and wall springs with two strengths of the five kinds that walls use, all histories of three commits over thirteen deformations: strength, no jump, independence of the number of steps |
| `time_history` | 2.75 million | three samples, two iterations a step, the long-term load in two increments, failures anywhere: no trace of iterations, damping, recording, termination |
| `vibration` | 597 510 | runs, waves that are registered, selected and deleted, edits, undo, saving and opening: display, names and the file agree |
| `story_copy` | 2 648 | thirty-six buildings, every choice of what is copied up, down and both ways, with and without overwriting: nothing else changes, a second copy changes nothing (for floors that keep their key), targets end like the source |
| `cascade` | 35 088 | every three of seventeen members in a bay in every order, and four in rings: the order, what is left out, and that loads and moments arrive |

### Bounds and why they are enough

* `server`: two jobs are what it takes for one job's pending entries, rows or files to meet another's; one
  kill or one applied edit can fall between any two steps. One load case, the number 0, which eigenvalue
  results share.
* `session`: two edits and two stack entries distinguish "computed before, between and after"; kinds, seismic
  settings and unset regions do not interact and are explored in separate sessions of one run.
* `statics`: two cases and two combinations, one long-term and one with the standard seismic case; two runs, one
  edit. A second lateral direction behaves as the first.
* `undo_stack`: `MaxUndo` 2 is reached and exceeded; `MaxRevision` bounds the steps.
* `frame`: each view has a document just large enough for its references: up to 4 nodes, 3 members, 3 sections,
  3 materials, 3 cases, 2 loads a case, 3 joists; region ids up to 6, joist ids up to 4. Copies of a section are
  not copied again. The view "isolators" does not remove one whose ground node is numbered before the carried node, and
  the view "joists" does not delete a member that joists behind it rest on, nor a joist that carries another: these are the
  known faults, in section 7 or named under hazards.
* `pushover`: the code's 5 long-term steps are 2, 5 attempts are 3, the factors 10 of the extended load control 3,
  10 displacement steps 2, 20 arc-length steps 2, and one increment has 4 grid points, so that three halvings give
  three different increments. Every loop still ends in each of its ways: by steps, by attempts, by the limit and by
  the target. The theorems hold for all of these numbers.

* `hysteresis`: deformations -6..6 reach cracking, yield and the ultimate point of every rule on both sides, with
  corners on and between whole numbers; three commits and a trial make a loop, a loop in it and the way out. The two sides
  of a wall's spring are proportional, as the code builds them (`wall_element.rs:777-822`).
* `time_history`: three samples with a frame every step or every second (so that the last step is between two frames);
  two iterations, so that a step may be corrected and then fail; corrections of both signs.
* `vibration`: two runs can meet in one number, two waves and two settings distinguish what was selected, asked and
  run; three edits, undo steps, saves or changes of the library. The library and the undo stack are explored in separate
  sessions of one run.
* `story_copy`: three storeys are what it takes to copy up and down, to two targets at once, and between stories of different
  heights; two of them have a sunken floor. One copy, since `TwiceIsOnce` computes the second. The documents vary
  either the floors, the sections or the loads. The ground floor is not a target and the third story has no sunken
  floor: there `TwiceIsOnce` is false (section 7).
* `cascade`: three members are what it takes for one to carry two others or for a chain of three; the four members of
  the rings make a ring of four, and a ring of two that carries and is carried. The catalogue has ends on columns, on girders,
  at unconnected nodes, on other members, in the air, both ends on one member, free ends, posts with all kinds of shares,
  a member that a beam replaces, and one without load.

### Deadlock

Deadlock is checked in `session`, `hysteresis` and `vibration`, where there is always something to do. The
others stop when the bound on requests is reached or the analysis has ended.

### Fairness

* Server: a spawned task computes (weak fairness of its computation), the one that holds the lock goes on (weak),
  and a task that waits for the lock gets it although others take it in between (strong fairness): tokio's mutex
  queues waiters first-in first-out.
* Pushover and time history: weak fairness of `Next`; each is one loop on one thread.
* No other run checks liveness.

## 5. Abstractions to know of

* Server: rows of a batch are one token; reading tools are the state functions `Query` and `ServiceStatus`.
* Session: a region is identified by its boundary; stories are part of `auto`; time history and lumped mass runs and the
  question about recordings at saving are in `VibrationProject`; edits that no calculation uses (`mark_non_calc_edited`) and
  the region writes of preparation do not set the unsaved marker and are outside `NothingUnsavedUnmarked`; `run_*` methods that block and that the interface does not
  use are left out; regions that preparation derives do not count as unsaved.
* Static results: a bundle without results is the empty bundle; two combinations of one name have the same terms;
  the confirmation of unset regions is `AnalysisSession`'s. Once a design check was refused `reported` stays until one
  succeeds, so `ChecksMatchOrReported` does not tell a second refusal from the first.
* Undo: labels are left out.
* Frame: walls mirror floors in the code and are left out with constraints, attached slabs, support springs, node
  masses and the rules about where a section may be used. Attributes of a member are a set of (table, member,
  value), so the order in which an inverse restores them is not seen (`aggregate.rs:1356-1389`). The planar scan is the operator `Faces`. Composites have two children. Placing a joist is excepted from
  reversibility because the id counter is not taken back.
  Tuples are built at once where TLC would otherwise keep a chain of EXCEPTs unevaluated.
* Story copy: coordinates are exact, a node's story follows from its level, there is one load case, area loads and use of a
  slab are one value, and a member that is not vertical has the length `Bay`. Joists end on nodes; `Held` finds anchors at the ends of
  beams only, the code also within their axis and on other joists. Of the report only
  whether anything was copied is kept.
* Pushover: whether an iteration converges and what the structure answers is chosen freely, except that load
  control reaches the factor and displacement control the roof it aims for. An increment of the adaptive control
  is any number of grid points; halving rounds up to the grid; displacement control has no more steps than there are
  grid points on its way; the roof displacement is not negative and the load factor not below -1. `arc_lambda` is
  `lambda` in the arc-length phase. A story drift angle may reach its target at any roof. Hinges, shear yields,
  mechanism and Qu read the recorded steps afterwards and are left out.
* Time history: one degree of freedom, and what an iteration adds is chosen freely, so there is no wave, no stiffness and
  no force beside the damping. With beta = 1/4, gamma = 1/2 and dt = 2 Newmark's relations hold in whole numbers; the damping
  coefficient is 1. Only constant damping (initial stiffness, mass) is modelled, of the recorded quantities one
  displacement. An element's state is where it is and the farthest it has been on either side.
* Hysteresis: exact fractions in place of f64, so the tolerances of 1e-12 are zero; the tangent stiffness is left out.
* Vibration cases: a result is the run it came from, a recording is a flag, a library file is the number of its content.
  `touched` marks a result whose request was followed by a change of settings or selection, or whose wave the
  library does not know: the name is taken at arrival. A run of the built-in wave or of a file beside a selected wave of
  the library is marked as well, since it takes that wave's name.
* Cascade: a load is its resultant (the members are statically determinate, so that nothing else reaches their ends), points
  are on a grid much coarser than the tolerance of 10 mm, no two nodes are at one point and no two members have one id
  (`WellFormed`, an assumption of the module), and a member's own loads are given. The moment that a cantilever's support takes is not handed on in the code either.

## 6. Proofs

13288 obligations, all proved. The theorems, by module:

* `AnalysisServerProofs!TypeCorrect`: every variable of server and store keeps its type.
* `PendingIsHolders`, `ManifestOfFinishedJobs`, `DiskFollowsMemory` of the same module, from `ServerInvariant`, which
  relates the holder of the lock to the stages of the tasks (`LockInv`), the pending entries to the holder
  (`PendingInv`), and the manifest file to the one in memory and to earlier lives of the process (`DiskInv`).
* `AnalysisServerProofs!DonePublishes`: a job that turns Done answers each of its keys with its own rows, in memory, on disk and
  after a restart. `WriteInv` follows the holder of the lock: the keys it has closed have its rows in their files and an
  entry among the pending ones; once the files are synchronised, memory and manifest file have them too.
* `AnalysisServerProofs!ServerImplementsService`: every step of the server is a step of `JobService` or leaves
  its variables alone, under `IInv`, `WriteInv` and `OwnInv`. `OwnInv` says that the keys still to be written and the pending
  entries are those the holder announces, no more; `WriteInv` has its rows in the files it closed. So the step in which
  `sync()` returns (`FinishSync`; a job without rows goes straight there) announces exactly those keys, and the job counts
  as Done from then on, while the lock is still held and the client still reads Running; and a writer that is opened,
  closed or left half written changes the content of one of these keys. A kill maps to `Stop`, which may lose the
  directory only between `StartSync` and the next `FinishSync` (`SyncFails` leaves it exposed).
* `AnalysisSessionProofs`: types, then `NothingForeign`, `PreparationIsCurrent`, `SavedPreparationIsCurrent`,
  `NothingUnsavedUnmarked`, `UnsetRunsWereConfirmed`, `JobsRunOnSyncedModels`. The first needs that every
  model the undo stacks and the running job hold is of the open project (`OfProject`); it covers the open dialogs,
  which carry the project they were opened in. The next four are proved
  together because each is needed to keep the others (`Claims`), and the last needs that the remembered hash
  stands for a model whose generated loads are its own (`HashIsSynced`).
* `StaticResultsProofs`: `SelectionShown`, `ChecksFitOrReported`, `FailuresLeaveNothing`. `IInv` says of the present view
  and of the one in the file that it is one of `GoodView`: no two results of one name or case, what is shown is the result
  of the selection, and the checks are of what is shown unless their refusal was reported. Beside it the job under
  way is the latest run and has something to solve (`JobInv`), and the file's cases are different from each other
  (`FileInv`). The hard steps remove or store results while positions in the lists move: the model writes them as
  recursive functions, `RecursionExists` and `BoundedInduction` give each such function and what holds along it,
  and `OnlySteps` to `RankSplit` say where an entry that stays is found afterwards. The induction lemmas take a set where
  a schema would take a predicate, so that the provers can instantiate them.
  The proof found two conditions that the model had stated too loosely, both beyond the single edit of the run: a case
  that an edit moves while the job runs fails under a number that means another case by then (`failing` now
  records the case that was not solved), and a file saved after a refused check opens with the same refusal (`file` now
  records it).
* `VibrationProofs`: `DisplayIsOneResult`, `NamesAreOfRuns`, `HashIsOfARun`, `SavedComesBack`. `IInv` adds to the display that
  cases and slots are pairs with the names of their runs (`SessionGood`), that what was asked and what runs agree with
  the selection and the settings until they are touched (`AskedGood`, `JobGood`), which is what makes the name at arrival
  the right one, and that the file holds what a session held, or comes from before the cases (`FileGood`). That a new
  case number is free follows from the largest number of a finite set (`LargestExists`), that recordings survive the
  file from `RestoreTaken`: putting back what was taken out of a bundle gives the bundle.
* `UndoStackProofs`: the invariant `Chain` says that each stack is a chain of commands from the present model to
  the models of the history variables; from the round-trip law every property of the run follows. The law is an
  assumption (`UndoStackLaw`), which TLC evaluates for the combination commands; `frame` checks the same law for
  the frame commands. `CombinationsObeyLaw` proves the assumption for the combination commands, whatever combinations there
  are and however many a list may hold: `RemovedAt` and `InsertedAt` say what a list is after a command, and the two undo
  each other.
* `PushoverProofs`: `IInv` adds to the properties that trial states are the committed ones between actions
  (`AtRest`), that the factor the driver holds is the one of the committed states and the last record shows them
  (`RecordInv`), that what an attempt aims for lies ahead of the committed state and within its limits (`GoalInv`), and
  that a reason is on hand before a phase is left (`OutcomeInv`). Without `GoalInv` neither the types nor
  `StepsAdvance` are inductive: a halved goal must be known to lie between the committed state and the old goal.
  The refinement needs one more invariant, `Unmoved`.

* `TimeHistoryProofs`: `Inv` adds to the types that committed element states lie at the committed displacement and trial
  states one move away (`ElementsFollow`), that the guess obeys Newmark's relations with the motion it started from
  (`GuessObeysNewmark`), and what the recorder has of the steps done so far. The first is why a commit is one move: the
  trial of an iteration starts from the committed state and not from the last trial. Proved for all sizes, all
  corrections and every interval of recording; the peak needs that the recorder's peak is that of the history so far.
* `LoadCascadeProofs`: `Inv` says that the count at a carrier is the number of ends on it whose members are not in the
  order yet (`PendingCountsEnds`), and that the order and the stack together hold exactly the members whose count is zero
  (`ReadyWhenFree`), each once (`NoneTwice`). When a member is popped its count is zero, so all that rests on it came
  before: `CarriersLater`. When the stack is empty a member that is left out has an end on it that was not
  counted: `OnlyRingsLeftOut`. It also follows that the code's check for members that come up again never meets one.
* `LoadCascadeProofs!AllLoadsArrive`: what arrives on the frame together with what is reported (members in rings, ends without
  support) has the force of all loads that were applied, and their moments where no member is a cantilever. `TransferInv` adds to the order: only members
  whose turn is over have been solved (`TurnsDone`), nothing is handed to an end that is in the air (`FreeEndsIdle`), and `Balance`:
  the force and the moments applied are the sum over the members of what each still holds, all loads on it before its turn, after
  it what its ends keep because no other member carries them. `Balance` is what a step keeps: a member's loads go to its
  ends with their moments (`LoadSplits`, the lever rule), and what an end hands on is added to one carrier whose turn is still to
  come, which the order grants. `Emitted` then says that the loads on nodes and girders are those of the ends they come from.
  Below that lie three groups of lemmas. Fractions in lowest terms behave as numbers: that scaling does not change a fraction rests
  on Euclid's algorithm, shown by strong induction over sets of naturals (`StrongInduction`, `GcdScales`), and equations between
  fractions are then shown on their values (`Worth`). A sum over a finite set, or over a list, does not depend on the order and
  may be split, added and changed at one place (`Total`, `SumOf`). An end is where its support is (`PositionIsExact`,
  `SecondaryEnd`, `PrimaryTaken`): the load acts at the end, so it keeps its moment only if the support is at the same
  point. Here the proof needs `WellFormed`, because the code hands the load to the first node in reach of the end, whether
  or not that one supports it (section 7): with two nodes within reach the moment is kept only up to the tolerance.

Assumed are the named ASSUMEs on the constants (sizes positive, absent values different from present ones, the
round-trip law, models of the cascade that are `WellFormed`, `None` not a pair of reactions); TLC evaluates each in a run. Theorems are about the specifications
without bounds on the data where the code has none; `MaxJobs`, `MaxEvents`, `MaxHistory` and the like are arbitrary numbers
in them.

Model-checked only:

* liveness (`EveryJobEnds`, `AnalysisEnds`), which needs fairness and ENABLED;
* the hysteresis laws. They are not true of every spring that `with_negative_rule` accepts: with envelopes that are
  not proportional `RegularWithinStrength` fails for the standard rule and `NoJump` for the degrading Takeda rule (section 7).
  A proof would have to carry the proportion of the sides through every branch, which are products of
  three and more fractions, beyond what the arithmetic prover decides;
* the frame commands (`ReferencesHold`, `CommandsReversible`, `DeletionsRewireNothing`): the walk over carrying joists is a
  RECURSIVE operator, which the prover does not take;
* the story copy (`NothingElseChanges`, `TwiceIsOnce`, `TargetsMatchSource`): its passes are folds whose step is an operator, and
  a claim about them is an induction over the document, which the provers cannot instantiate.

Proved but not spent a run's property on, because the
invariants of the same run contain them: `ManifestOfFinishedJobs`, `NothingLoadedAfterTarget`, `UnsetRunsConfirmed`,
the bounds of the undo stack.

## 7. What was seen on the way

The finding of `PROJECT.json` has a run. The following claims of the documentation are stated in the modules
as well, and TLC refutes each when it is named in the configuration of the module's run, with the constants as they
are there unless the line says otherwise:

* `AnalysisServer!FailedJobRowsNotQueryable`: a failed job that rewrote the file of a committed key leaves its rows
  queryable (`fs_store.rs:172-200`); the comment in `results/tests.rs:230-231` says that discarding prevents it
  (途中失敗ジョブの部分結果が後続の sync で照会可能になるのを防ぐ).
* `AnalysisSession!SavedResultsAreCurrent`: an edit while a job runs, and its result is saved as current with a model it
  was not computed from (`io.rs:99`); `docs/model_io/01_プロジェクト形式_ovika.md:46` says モデルに対して最新の場合のみ同梱.
* `AnalysisSession!PushoverSlotsHoldTheirDirection`: the direction is read when the answer arrives (`pushover.rs:68`), so
  the slot that `mod.rs:508` calls X 方向の増分解析結果 can hold a Y pushover (with `Dirs = {"X", "Y"}`).
* `AnalysisSession!RunsAreConfirmed`: editing under the open confirmation starts the run with regions nobody was
  shown (`actions/mod.rs:641`); `mod.rs:980-982` says that a changed set is asked about again (再確認する).
* `TimeHistory!UnconvergedIsRolledBack`: a step that does not converge but stays finite is committed and counted
  (`nonlinear.rs:430-452`); `nonlinear.rs:77-78` says that it is rolled back.
* `HysteresisLaws!StrengthHeld`: a spring that is unloaded a little and loaded again climbs its unloading line beyond the
  ultimate strength (`material.rs:276-289`); `docs/calc_basis/02_材料/02_部材履歴則.md:62` says 終局耐力を保持します.
* `FrameEditing!ReferencesHold` with `Views = {"stacked"}`: deleting a girder leaves joists behind it on the
  wrong girder, then on none (`aggregate.rs:1284`); `aggregate.rs:1281-1283` says that all references are renumbered.

* `VibrationProject!CasesPairWithResults`: undoing a story copy puts the whole earlier model back (`story_copy.rs:361`),
  vibration cases included, which were written past the undo stack; their results stay, the next run takes the
  number of a lost case, and redo puts the old label on it. `docs/preparation/11_出力と保存.md:31` says
  振動荷重ケースは時刻歴の結果と対になるため.
* `StoryCopy!TwiceIsOnce` with `From = {1, 2, 3, 4}`, or with `SunkenStories = {2, 3, 4}`: floors of the ground floor lie on
  the lower end of their story and get another height tag than the floors they come from (`story_copy.rs:297`), and the height of
  a sunken floor is relative to the story while nodes are found by the absolute difference (436); so the second
  copy does not find what the first made and makes a second floor on the same sides, or, when it may overwrite, deletes
  and remakes it. `docs/model_edit/05_階への複製.md:31` says 同じ複製を 2 回実行した結果は 1 回のときと同じです.
* `StoryCopy!NoMembersMade`: floors are copied before joists, so a floor that a joist divides gets a beam in the joist's place
  (`slab.rs:460`); `story_copy.rs:33-35` says that members and nodes are not made.
* `StoryCopy!EdgesExist`: overwriting joists removes them without rebuilding the floor regions they bound
  (`story_copy.rs:1108`), which `DeleteSecondaryMember` does; `Model::validate` then rejects the model.

The other places where a history of a spring is `astray`: a step that passes the target of a reloading line is
extrapolated beyond the peak until the next one (`material.rs:281`); a trial at the committed deformation counts as a
move upwards, since `signum` of zero is 1 (149); a step that ends exactly at the yield deformation counts as yielded on the way
back but leaves no peak (180); a reversal within a loop of the standard rule forgets the loop and later joins the skeleton
with a jump (182).

Springs with two envelopes: `with_negative_rule` (`material.rs:83`) asks for one kind and one initial stiffness, no more. For sides
that are not proportional, Masing's branch, whose scale comes from the yield forces and whose end from the yield deformations,
exceeds the ultimate strength on its way (a standard rule that yields at 4 after 3 on one side, ultimate 5, and at 3 after 2
on the other, ultimate 4: from -4 to 3 it reaches 61/12), and in the degrading rule the line to an undegraded peak may be
steeper than any stiffness of the spring. The program builds only proportional ones, for walls (`wall_element.rs:777-822`),
and for these the laws hold.

Seen in the models or in the code, without a claim that they contradict:

* the concentrated M-N hinge sets its yield moments in a trial and does not take them back when it is reverted
  (`sepika-element/src/frame/concentrated/mod.rs:117-126`);
* step n of a time history is loaded with sample n and recorded with the ground acceleration of sample n + 1
  (`nonlinear.rs:463`); a factorization that fails in a step leaves its trial states, a diverged step does not (407);
* a vibration case gets its name and its setting when the answer arrives, not when the run was asked for
  (`time_history.rs:17`);
* the members reported as cyclic (`cascade.rs:76-82`: 互いに載せ合う) include those that a ring rests on;
* the reaction of a joist goes to the first node within 10 mm of its end, connected or not, although the end was taken as
  supported by any connected one (`cascade.rs:108-113`, 248-251);
* the term of the design check is not restored with the selection when a file is opened (`io.rs:292`);
* a long-term load of the pushover whose last step was shortened ends below the full load; the first lateral step
  brings the rest (`driver.rs:281`, against 104-105);
* a load-only pushover with a target ends by its number of steps before the cap on the factor is looked at, so
  `LambdaCap` is never reported there (`types.rs:66-68`);
* a shortened last displacement step is reported as a completed schedule (`driver.rs:498`);
* arc-length control starts from factor 1 if the factor was 0 or below, and a first failure reports that factor;
* `RemoveSupportIsolator` looks the carried node up by the number it had before the ground node was deleted
  (`node_member.rs:548`); `PlaceSecondaryMember` does not advance the id counter on redo (`secondary.rs:948`);
* job identifiers start again after a restart (`lib.rs:57`); a design check and a linear analysis of one case
  share the key of the member forces (`persist.rs:91`), an analysis without member forces leaves the older ones
  committed (`persist.rs:70`), and eigenvalue results always use case 0 (`persist.rs:115`);
* settings that preparation depends on do not mark it stale (`preparation.rs:204`), a pending run keeps the position of a
  combination (`mod.rs:165`), and the term of a combination is read from its name (`load_combo.rs:189`);
* restoring a checkpoint pairs elements and states by position and accepts a list of another length
  (`checkpoint.rs:127`).

## 8. Not modelled

Most of the repository is numerics: elements, shells, walls, solvers, eigenvalues, section capacities, design formulae,
quantities. They are floating-point formulas without state, which tests against reference values serve better than a
model with a few whole numbers; the part of it that keeps state (trial, commit, revert; histories; steps and attempts) is
what the modules of the pushover, the time history and the hysteresis are about. The next largest parts are tables,
panels, viewers and drawings of the interface, whose state is that of widgets, and file formats (ST-Bridge, DXF, CSV), whose
properties are about text. So the modules stand for a small share of the lines, and for most of the lines that decide in
which order things happen. What else keeps state and is open is listed in section 2; `PROJECT.json` gives the reason for
each component.

## 9. Running

    tlc -workers 2 -config MCPushoverControl.cfg MCPushoverControl
    tlapm PushoverProofs.tla

Every run ends within four minutes on two workers.
