# A verification project for rbinr2

rbinr2 is an MCP server in Rust that lets a client analyse binaries with
radare2. It keeps one radare2 process per opened binary, puts every request for
that binary through it, and post-processes what radare2 answers. This directory
holds TLA+ models of the parts where order, concurrency and failure matter, the
TLC configurations that check them on small instances, and TLAPS proofs.

Paths below are relative to `src/crates/`.

## 1. Inventory

### 1.1 Components

| Component | State | Operations | Interacts with |
|---|---|---|---|
| `Session` (`rbm-r2/src/session.rs`) | an unbounded channel, a worker thread that owns the r2 pipe, one oneshot channel per call, the `Arc` count | `cmd`, `cmdj`, `shutdown`, `Drop`, the worker loop | handlers hold `Arc<Session>`; the manager's map holds one |
| `SessionManager` (same file) | `sessions` (canonical path to `Arc<Session>`), `aliases` (path as given to canonical path) | `open`, `get_or_open`, `close`, `list`, `get` | spawns sessions; every handler goes through it |
| temporary asm settings (same file; used by `trace_seed_value`, `path_digest`, `artifact_summary`, `field_xrefs`) | `asm.arch` and `asm.bits` inside r2, a snapshot in the handler | `apply_asm_settings`, `restore_asm_settings` | several calls on a shared session |
| `OutputGuard` (`rbm-core/src/output_guard.rs`) | the files of the overflow directory | `guard_str`, `cleanup_expired` | called at the end of handlers, by many at once |
| byte extraction (`rbm-server/src/support.rs`) | the file at `out_path` | decode, test for existence, create parent, write | `r2_extract_bytes` |
| server and tools (`rbm-server/src/server.rs`) | none of its own | dispatch of about forty tools, parameter defaults and clamps, pagination | session manager, query modules, output guard |
| value and call tracing (`rbm-r2/src/trace.rs`) | a work list, visited addresses, nodes and edges; a register and stack state | breadth-first call tracing, seed-value propagation | `afij`, `axtj`, `axfj`, `pdj` |
| artifact emulation (`artifact_summary.rs`) | registers, flags, written memory | a bounded interpreter of decoded instructions | `pdj` |
| path digest, field xrefs, jump table, driver dispatch (`path_digest.rs`, `field_xrefs.rs`, `jump_table.rs`, `windows_driver.rs`) | accumulators over one instruction list | linear scans | `pdj`, `pxj` |
| disassembly and graphs (`disasm.rs`, `navigation.rs`) | none | CFG projection, function references, decompiler fallbacks | r2 |
| search, symbols, formats, security, types, metadata (`search.rs`, `symbols.rs`, `format.rs`, `security.rs`, `types.rs`, `meta.rs`, `analyze.rs`, `func_profile.rs`) | none | one or a few r2 queries each, filtering | r2 |
| command validation (`cmd.rs`) | none | rejects commands outside the query set | `r2_cmd` |
| configuration, paths, errors, utilities (`rbm-core/src`) | none | environment, output directories | start-up |

### 1.2 How they interact

A tool handler is an asynchronous task. It asks the `SessionManager` for the
session of its binary, which opens one if need be, and makes calls on it. A call
puts a message with the sender of a oneshot channel into the session's channel
and awaits the answer or its timer. The worker thread takes messages one by one,
runs each through the r2 pipe and answers. `r2_close` and `r2_open` with
`force_reload` look a session up, send it `Shutdown` and remove it from the map.
The handler then shapes the answer and may pass it through the `OutputGuard`,
which spills large texts to files.

### 1.3 What is hard

* one channel, one worker, many callers that may give up at any time;
* shutting down while calls are queued, executing or about to be sent;
* look up, tell, remove: closing takes three steps, opening takes five, and they
  interleave, for the same path, for links to it and for paths that vanish;
* r2's settings are shared by all the calls on a session, and the handlers that
  change them need several calls to do and undo it;
* files of the overflow directory are made and expired by concurrent handlers;
* interpreters and work lists with caps, where the boundary case is rarely tested.

`PROJECT.json` lists each hazard with its line and the property that is about it.

### 1.4 What makes each component correct

* Session: calls run in order and at most once; a shutdown runs everything ahead
  of it and nothing behind it; a caller that is told the session is gone can
  trust that its call never ran; nobody is stranded; the worker ends.
* SessionManager: only started sessions are cached; a session that is stopping
  leaves the cache; a closed session stops; no worker outlives its references;
  every request ends.
* Asm settings: each handler decodes under what it asked for; none leaks.
* OutputGuard: a reported file is there, and stays for its time to live.
* Extraction: `overwrite=false` never destroys a file; what is reported as
  written is what the file holds.
* Tracing: a call trace is the neighbourhood of its start; a followed value is
  where the processor has it.
* Interpreters and scans: what is shown is what the instructions did; each ends,
  and says so when it ended early or cut its rows.
* Queries: a filter means what a glob means; pages add up to the inventory; a
  failing call costs its own part of the answer and no more.

## 2. Plan

Most important behaviour first: what every tool relies on (sessions, their
cache, their settings), then the files the server writes, then the algorithms
over radare2's answers.

| Order | Module | Models | Proofs |
|---|---|---|---|
| 1 | `SerialExecutor`, `R2Session` | one session; the detailed model implements the abstract one | `R2SessionProofs` |
| 2 | `SessionManager` | the cache of sessions and the requests that use it | `SessionManagerProofs` |
| 3 | `AsmOverride` | handlers' programs over a `SerialExecutor` | `HandlerProofs` |
| 4 | `OutputGuard` | overflow files and their expiry | `HandlerProofs` |
| 5 | `ExtractBytes` | files written for `r2_extract_bytes` | `HandlerProofs` |
| 6 | `HandlerSteps` | composes 3 to 5: what handlers share | `HandlerProofs` |
| 7 | `TraceBfs` | `trace_data_flow` | `ScanProofs` |
| 8 | `SeedTrace` | `trace_seed_value`, beside a processor | `ScanProofs` |
| 9 | `ArtifactEmulator` | `artifact_summary`: interpreter, memory, strings | `ReadingProofs` |
| 10 | `ImmediateBuffers`, `PathDigest` | `path_digest` and the buffers it shares with jump tables | `ReadingProofs` |
| 11 | `FieldXrefs`, `DriverDispatch`, `JumpTable` | the other scans of decoded code | `ScanProofs`, `ReadingProofs` |
| 12 | `DecoderTools` | composes 7 to 11: the requests that run them | `DecoderProofs` |
| 13 | `Selection`, `GlobMatch`, `FindXrefs`, `Pages` | filters, searches, pages | `SelectionProofs`: what a filter and a sort leave |
| 14 | `FunctionGraph`, `FunctionAnalysis`, `AddressMap` | graphs and counts, answers put together from many calls, file offsets | `QueryProofs` |
| 15 | `QueryTools` | composes 13 and 14 | `QueryProofs`, for 13 to 15 |

All of it is built. Abstract specifications: `SerialExecutor` for a session; for
the algorithms a reference definition each, beside the property that uses it
(`Means` for a glob, `cpu` for the processor of `SeedTrace`, `LastByte` for a
buffer, `IsMaximalText` for strings, `Collected` for pages).

Every invariant and action property the runs check is a theorem too, and so is of
each liveness property what it rests on besides fairness (section 5, the end).

## 3. The modules and the code

### 3.1 `SerialExecutor` and `R2Session`

`SerialExecutor` is what handlers rely on: calls submitted to a session run one
at a time, in order, at most once; told to stop, it runs what came before and
nothing after; giving a call up does not take it back.

`R2Session` is `Session` in `session.rs`, with its thread, channel and reference
counts.

| Code | Model |
|---|---|
| `Arc<Session>`: the map's, the handlers', a close's | `mapped`, `holders`, `closer` |
| `tx.send(SessionCmd::Cmd ..)` and its error | `Send`, `SendFails` |
| `reply_rx.await`, `timeout(tool_timeout, ..)` | `Answer`, `TimeOut` |
| `Session::shutdown`, `impl Drop for Session` | `SendShutdown`, `DropIfLast` |
| the worker's `while let Some(cmd) = rx.blocking_recv()` | `Receive`, `Execute`, `ReceiveShutdown`, `ClosePipe` |
| `SessionManager::close` as this session sees it | `CloseLooksUp`, `CloseMisses`, `CloseShutsDown`, `CloseDropsClone`, `CloseRemoves` |

A handler awaits one call at a time, as the handlers do. A command is a model
value: what radare2 does with it is `AsmOverride`'s subject. Whether the answer
is good or bad is a free choice, which covers a pipe that has died and output
that is no JSON. `cmd` and `cmdj` differ only in that and share their actions.
`sent`, `ran`, `stopSent` and `cut` are history.

### 3.2 `SessionManager`

Each request is a task: `r2_open` (with or without `force_reload`), `r2_close`,
or a tool that opens what it needs. The code is cut at its awaits and at each
use of a map, which locks and unlocks it: `ensure_session` becomes
`Canonicalize`, `Lookup`, `Spawn`/`SpawnFails`, `Initialised`/`OpenTimesOut`,
`Install`, `LookupRaced`, `Remember`; `close` becomes `ResolveCloseKey`,
`ResolveAlias`, `Find`, `Tell`, `Remove`, `Forget`; a reload runs the second and
then the first. A session's thread is `StartSucceeds`, `StartFails` (one start-up
command fails: the next is tried, and only when the last has failed is the
session refused) and `Stop`. `fs` is what `fs::canonicalize` would answer, and
`FilesChange` changes it at any time. `hold` is who keeps a session's sender
alive, so `Referenced` decides when `Drop` has told it to stop. `installed`,
`removed` and `before` are history.

Inside, a session here serves or does not; that it drains its channel before it
stops is `R2Session`'s business.

### 3.3 `AsmOverride`

`trace_seed_value`, `path_digest`, `artifact_summary` and `field_xrefs` run the
same program when they are given an architecture or a word size: read and set
each setting, `pdj`, then reset bits and arch. `Program` is that list of calls;
the session is `SerialExecutor` by `INSTANCE`, whose `Submit`, `Run`, `Reply` and
`GiveUp` are steps of the handlers' calls. A timed-out call still runs, as in
`R2Session`, which implements the executor. What a read answers is captured
unseen (`StepIsGarbled` is an answer that is no value of the setting), and
`validate_asm_setting` looks at it only when it is to be restored: a value with
one of r2's metacharacters in it is not sent back (`RefuseRestore`), and the other
setting still is.

### 3.4 `OutputGuard`

`guard_str` and `cleanup_expired` with a step per system call: make the file,
write it, keep it, list the directory, look at an entry, remove it, cut the
preview. Each of `Faults` may fail as the code handles it; "stat" is an entry that
cannot be read, or its metadata, or its time of modification: it is passed over.
A text is the sequence of its characters' widths in bytes, which is what the two
limits and the slice tell apart. The clock is the file system's.

### 3.5 `ExtractBytes`

`write_extracted_bytes` with a step per system call: test for existence, make the
parent, open with truncation, write, each of which may fail; a write may stop
after any number of bytes.

### 3.6 `HandlerSteps`

Composes the three: concurrent handlers over r2's settings, the overflow
directory and files a client names, their steps interleaved in any order
(`SharedSpec`). That is too many states for TLC. No step of one kind reads or
writes what another kind works on, which `KindsAreApart` proves, so `MCHandlers`
has each behaviour keep to one kind, picked at the start, and one run covers all
three; the theorems in `HandlerProofs` are about `SharedSpec` and its mixtures.

### 3.7 The decoders: `DecoderTools` and what it composes

Each tool reads a window of decoded instructions and keeps its own state while it
does, so `DecoderTools` runs one request (`CallTool`), whose steps are those of
the tool's module (`RunTool`). What radare2 answers is chosen when it is asked or
when the loop first reaches it, from a `CONSTANT` set of answers: so a run goes
over every program of a length. Text has been parsed: an operand is a record of
the kind the parsing tells it to be.

| Module | Code | Model |
|---|---|---|
| `TraceBfs` | the loop of `trace_data_flow` over `queue`, `visited`, `nodes`, `edges` | `PopFront`, `PushNode`, `AskXrefs`, `SkipXref`, `PushEdge` (with `HasRoom`, `Follow`), `EachEnds`, `TraceEnds`; `CallFails` wherever a call is awaited |
| `SeedTrace` | `run_seed_trace` and its handlers, `ValueTraceState` | `ScanOp`, `Handles`, one operator per handler; `cpu` is where a processor has copies of the seed. Expressions are left out: a value is tracked or not |
| `ArtifactEmulator` | `Emulator::step`, `run_artifact_emulation`, `sorted_decoded_strings` | `Step` by instruction, `Outcome`, `EmulateStep`; registers with their parts, a byte of `Base` values, a word of four, memory addresses signed as in the code |
| `ImmediateBuffers` | `record_immediate_write`, `summarize_buffer`, `buffer_summary` | `AddWrite`, `IsShown`, `Contiguous` |
| `PathDigest` | `collect_path_digest_op` | `DigestOp`: constants, control event, state write, immediate write, context, stop, in that order |
| `FieldXrefs` | `collect_field_xref_op` | `FieldsOp`: references and assignments, then what the registers stand for; a symbol is a name and its offsets |
| `JumpTable` | `jump_table_slices` | `ReadTable`, `ReadSlice` per target, `TableFails` |
| `DriverDispatch` | `collect_driver_assignments`, `collect_notify_callbacks`, `suggested_targets` | one pass that makes both lists (the source makes a pass for each, with the same tracking) |

### 3.8 The queries: `QueryTools` and what it composes

| Module | Code | Model |
|---|---|---|
| `GlobMatch` | `glob_or_substring_match`, `glob_match` | a step per turn of the loop, with its one remembered star |
| `FindXrefs` | `search::find` and the handler of `r2_find_xrefs` | `Search`, then `AskHit` for each hit |
| `Pages` | `r2_metadata`, `filters::paginate`, `paginate_with_counts` | `AskPage`; the client follows `truncated` (not the code's), `InventoryChanges` is other handlers at work |
| `FunctionGraph` | `project_cfg_blocks`, `attach_predecessors`, `cyclomatic_complexity`, `summarize_basic_blocks` | `ProjectBlock`, `AttachPredecessors`, and the three counts |
| `FunctionAnalysis` | `analyze_function`, `func_profile`, `decompile` | a step per call (`Calls` lists them in order), each answered, failing or timing out; a timed-out call leaves radare2 busy until `RadareIsDone` |
| `AddressMap` | `build_address_mapping` and the calls ahead of it | `NumberAddress`, `ListSections`; `MaxAddress` stands for `u64::MAX` and additions saturate |

### 3.9 What is modelled as it is

Places where the code does something one may not expect, or leaves open what it
should do, and the models follow the code. Where a property would otherwise claim
more than the code does, its comment names the place.

* `SeedTrace`: only a push of a tracked value moves what the trace takes for the
  stack pointer, every pop does (`trace.rs:531`). `CopiesFollowedInStep` is about
  programs that keep the two in step.
* `ArtifactEmulator`: `test` changes nothing, so a branch behind it decides on
  older flags (`artifact_summary.rs:413`); the size prefix is stripped before
  it is looked for, so that a byte load reads four bytes (485); an indirect `jmp`
  falls through (623); `step_truncated` is also true of a run that ended by
  itself at exactly the limit (87).
* `ArtifactEmulator`: an answer shows the first 200 of the strings decoded, sorted
  by their address *as text* ("0x10" ahead of "0x2"), and the first 200 calls;
  `decoded_string_count` and `call_count` are of all (88-91). `ReportedStrings` is
  the former cut; `StringsAreMaximal` is about the strings decoded, and about those
  reported when there are no more than the cap.
* `PathDigest`, `ArtifactEmulator`, `FieldXrefs`: `range_end` is only checked to be a
  safe text; one that is no address is dropped without an error, and the tool
  reads on to the end of its window (`path_digest.rs:151`,
  `artifact_summary.rs:71`, `field_xrefs.rs:143`). `EndRead` is that conversion,
  and `StopsWhereAsked` says what such a digest reads.
* `PathDigest`: a stop address that is no number is refused after the window has
  been asked for. What kind of control transfer an instruction is, the code
  tells from radare2's type and from the opcode's text; `Control` takes the two
  together for one value.
* `PathDigest`, `JumpTable`: the answer shows the first 64 marker hits and constants
  of a digest and the first 12 writes of a buffer (`path_digest.rs:100,123,668`,
  `jump_table.rs:329`). The properties are about what was collected.
* `FieldXrefs`: what a register stands for is not forgotten over a call or a pop
  (`field_xrefs.rs:437`).
* `JumpTable`: `pdj` is asked for at least 16 instructions whatever
  `max_instructions` is (261); one failing call loses all slices (65).
* `DriverDispatch`: only a `lea` is tracked, a `mov` of an address is not
  (`windows_driver.rs:275`), while the note the tool adds to its answer says that it
  "tracks nearby immediate/code-pointer loads into registers"
  (`windows_driver.rs:60`). The two do not agree on a handler's address loaded by
  a `mov`: `Track` follows the code, and `LeaIsReported` says nothing of a register
  a `mov` of an immediate loaded, so it takes no side;
  an instruction whose address has fewer than six digits is dropped (125).
* `FindXrefs`: a limit of 0 means none in the searches; a hit whose call failed
  reads as one without xrefs, its empty list said to be exact (`server.rs:1690`).
  `ExactMeansWhole` has a case for each: whole for a call that was answered, and
  just this for one that failed.
* `FunctionAnalysis`: when neither decompiler prints code, the note that says so
  is the code. In pdg's text "Cannot" is looked for (`disasm.rs:1042`), in pdd's it
  is not (1045-1047): such a text of pdd's is given as code. `CodeIsMeaningful`
  says so; what it rules out is pdg's excuse, a text too short or a message that
  there is no decompiler. An analysis shows the first `MAX_NEIGHBOURS` callers and
  callees, with the numbers of all.
* `ExtractBytes`: `fs::write` empties the file before it writes; a failed write
  has lost what was there.
* `OutputGuard`: expired files stay until the next overflow, and one whose
  directory entry, metadata or time cannot be read stays for good
  (`output_guard.rs:124-127`).
* `AsmOverride`: a captured value that `validate_asm_setting` refuses is not
  restored, so the override stays in force (`session.rs:149,166`), and the handler
  answers with that error.

## 4. The runs

| Run | Instance | States | Shows |
|---|---|---|---|
| `session` | 2 handlers, 2 closes, 2 calls | 62 081 | `RunsInOrder`, `DrainsExactly`, `RefusedNeverRan`, `NoStrandedCall`, `WorkerStops`, and `ImplementsExecutor`: `R2Session` implements `SerialExecutor` |
| `manager_safety` | 3 requests (open, reload, close), one path whose file comes and goes, 2 start-up commands | 1.7 million | `InUseIsClosable`, `CachedIsStarted`, `StoppingHasCloser` |
| `manager_liveness` | 3 requests (open, close), one path, 1 start-up command | 80 267 | `EveryRequestEnds`, `NoLeakedWorker` |
| `handlers` | 2 handlers with overrides of arch, bits or both, timeouts and garbled answers; 2 overflowing calls with failing system calls, time to live 1, clock up to 4; 3 writers of one path | 1.56 million | `TurnsKeepSettings`, `RestoreIsTried`, `ReportedStays`, `SweepIsThorough`, `TurnsReportTruly` |
| `decoders` | one request for any of seven tools, over every program of the instance's instructions | 305 092 | `TraceFollowsGraph`, `CopiesFollowedInStep`, `NamesHaveASource`, `CutsAreTold`, `EndsAreTold`, `MemoryHoldsLastWrites`, `SetupsAreNearest`, `StringsAreMaximal`, `AssignmentsAreWrites`, `JumpTableIsRead`, `DriverStoresReported`, `WalksEnd` |
| `queries` | one request for any of six queries, every call failing or timing out at will | 191 378 | `GlobDecides`, `ListsAreWhole`, `FailuresAreTold`, `PagesAddUp`, `GraphAgrees`, `OffsetKeepsDistance`, `QueriesEnd` |
| `manager_close_misses` | 3 requests | | violation of `CloseStopsSession` |
| `manager_reload_stale` | 3 requests | | violation of `ReloadServesFresh` |
| `asm_leak` | 2 handlers, timeouts | | violation of `RestoredAtRest` |
| `guard_preview_panics` | one call, characters of one and two bytes | | violation of `GuardReturns` |
| `extract_clobbers` | 2 requests, one path | | violation of `NeverClobbers` |
| `glob_star` | names with a `*` | | violation of `GlobIsRight` |

Each passing run also checks the types of its modules' variables (`TypeOK`,
`SharedTypeOK`, `DecodersTypeOK`, `QueriesTypeOK`). A property of a composed run
is the conjunction of named parts, each stated with its comment in the module of
the tool it is about: `CutsAreTold` of `LogIsPrefix`, `EventsAreWhole` and
`SummariesCountAll`, for instance. For each property of a passing run
`PROJECT.json` names a mutant of a definition, kept beside it in the module, that
the run's configuration refutes.

### 4.1 Bounds, and why they are enough

* Sessions: every race has at most three parties: the caller, one who shuts the
  session down, and another whose `Arc` decides whether that was the last. Two
  handlers and two closes have them, and two calls leave one ahead of the
  `Shutdown`, executing or queued, and one behind it. The proofs have no bound.
* Manager: two openers race for the map while a third request closes; a fourth
  can only repeat one of these. Two start-up commands (three in the code) have a
  first and a last. A link to the binary differs from its path only in what it
  resolves to; the proofs cover any paths.
* Asm settings: two handlers overlap or follow each other; which settings one
  finds does not depend on how many there were. Failing calls are timeouts in
  the runs: a timeout after r2 has run the call is what an error is to the
  handler, and a timeout before it is a case an error does not have. A garbled
  answer is the other failure; it is left out of behaviours whose handlers
  overlap (`GarbledInTurns`), as what one handler captures, refuses and sends
  depends on no other's. The proofs have no such bound, and errors too.
* Output guard: one call reports while the other lists and removes. A time to live of 1
  and a clock up to 4 have files below, at and above the limit twice over.
  `MaxCall` bounds how long a call takes (`GuardAssumption`: no longer than the
  time to live, an hour in the code).
* Extraction: two writers interleave, a third finds what they left. A short and
  a long text have a tail to survive an open without truncation.
* Call traces: 4 addresses, caps of 3 nodes, 3 edges and depth 2, lists of up to
  2 xrefs: loops, self-references, joins, unreadable xrefs, and each cap reached
  with entries left. `ScanProofs` has no bound.
* Seed traces: 4 instructions are enough to seed, copy, spill, reload and clear;
  2 events fill the log.
* Emulation: a window of 3 with backward and forward jumps, 5 steps, 2 visits: each
  limit is the one that ends some run. A byte has 4 values, so a word has 256,
  with both signs and both wraps; pushes and writes overlap. An address is written
  in digits of base `Radix` (2, 16 in the code: two digits a byte), which is what the
  strings are sorted by, and `StringCap` (1, 200 in the code) cuts a list of two.
  Contexts and previews of 2 (`ContextCap`, `PreviewCap`, `CallPreview`; 8, 6 and 6
  in the code) slide within the window, and have an order.
* Digests and field xrefs: 4 instructions, so that a window of 2 slides, rows
  overrun their cap of 3 or 2 within one instruction, and three writes overlap.
  `range_end` is an address inside the window, none, or a text that is no address.
* Jump tables: every table of up to 4 bytes over three byte values, entries of 1
  and 2 bytes, 3 refused: cut-short last entries and shared targets.
* Driver dispatch: 3 instructions are a load, another load, and a store.
* Globs: all patterns of up to 3 characters and some of 4 with two stars, all
  names of up to 4: the two-star patterns are where one remembered star could
  fail.
* Searches and pages: up to 3 rows and a cap of 2, limits of 0, 1, 2 and above;
  up to 4 rows in pages of 1 and 2 from offsets within and beyond, one change of
  the inventory between any two pages. `MaxPages` (6) bounds the client and is
  above what 4 rows need.
* Graphs: up to 3 blocks with targets inside, outside and shared, and two blocks
  with one address.
* Analyses: every combination of outcomes of the dozen calls. `MaxNeighbours` (1, 30
  in the code) cuts a list of two callers or callees.
* File offsets: 8 addresses and up to 3 sections that overlap, are empty, have no
  file offset or end beyond the last address.

Symmetry is used in the safety runs only, never with a temporal property.

### 4.2 Deadlock

Calls, closes and requests are made once each, and a tool's request ends with its
answer, so every instance ends when they have all been made: `CHECK_DEADLOCK FALSE`. That nobody waits for ever in the
meantime is what the liveness properties say.

### 4.3 Fairness

* `R2Session`: weak fairness of the worker thread as a whole (the operating
  system schedules it; r2 answers each command and its `close` returns) and of
  each `Answer` (the runtime polls a task whose reply has come). Neither timers
  nor closes nor new calls are assumed to happen, so `NoStrandedCall` does not
  lean on the timeout. That r2 answers is an assumption on radare2; without it
  calls end by their timers, and a stuck worker never stops.
* `SessionManager`: weak fairness of each task (`Step`) and each session thread
  (`Thread`), for the same reasons; `OpenTimesOut` need not happen.
* `DecoderTools`: weak fairness of `RunTool`: the runtime polls the handler, whose
  loops do not wait but for calls, each of which is answered, fails or times out.
  Calling a tool is not assumed.
* `QueryTools`: weak fairness of the matching loop, which is plain code, and of
  the client's next page (`AskPage`): without the latter no server could bring a
  client to the end. Inventory changes and failures are not assumed.
* `AsmOverride`, `OutputGuard`, `ExtractBytes` have no liveness property and
  state no fairness.

### 4.4 What the violations say

1. `CloseStopsSession`. `close` looks its key up, tells the session it found, and
   removes whatever the key has by then. A session installed in between is
   removed untold: a handler works on with a session no later `r2_close` can
   reach.
2. `ReloadServesFresh`. A forced reload closes and opens; an open that was under
   way installs its session in between, and the reload is served by an r2 spawned
   before it was asked for.
3. `RestoredAtRest`. When the call that sets `asm.arch` or `asm.bits` times out,
   r2 still runs it and the snapshot is gone. With `Failures = {}` in the same
   configuration TLC finds the other way it breaks: two overlapping handlers, the
   second of which captures the first's override as the value to restore.
4. `GuardReturns`. The preview is cut at a byte; inside a character that panics.
5. `NeverClobbers`. Existence is tested, then the file is opened for truncation.
6. `GlobIsRight`. The loop compares characters before it asks whether the
   pattern's is a `*`: a `*` in the name uses the wildcard up as that character,
   as in `operator*`. `GlobDecides` is about names without one.

## 5. The proofs

All are for any values of the constants under each module's `ASSUME`.

**`R2SessionProofs`** (assuming `SessionAssumption`: `Shutdown` and `None` are no
calls). `TypeOK`, `RunsInOrder`, `DrainsExactly` and `RefusedNeverRan` follow from
`IInv`. None is inductive alone: that r2 runs the next call in order needs to
know what the channel holds (`OpenInv`: exactly the calls sent and not taken;
`StoppingInv`: after a `Shutdown`, those up to the cut and then the `Shutdown`)
and what the worker has in hand (`HandInv`); that a refused call never ran needs
to know that a call is in one place at most (`PlaceInv`) and what each reply
channel can have seen (`ReplyInv`). There is a lemma for sending a `Shutdown`,
for sending a call and for each of the worker's steps, and one step per action.

It also proves `SessionIsSerial`: `Executor!Init` and
`[][Executor!Next]_(Executor!execVars)`, which is `ImplementsExecutor` without
its fairness. The mapping depends on what the worker is doing; `PendingFacts`
shows from `IInv` that it always is the part of `sent` between what has run and
the first `Shutdown` (`Bound`), so a step that changes neither is a stutter.
`AwaitInv` (nobody else waits for a handler's call) makes an answer a step of the
executor. So the executor that `AsmOverride` builds on is a proved abstraction of
the session.

Of `NoStrandedCall` and `WorkerStops` it proves all but that the worker goes on.
`NobodyIsStranded`: a call that waits without an answer is in the channel or in
hand (`WaitersAreKept`), its waiter holds the session (`CallersAwait`, which needs
`AwaitInv`), and when the last reference goes a `Shutdown` is sent
(`LastOneStops`). `ToldOnce`: no later answer, close or end of the worker changes
what a caller was told. `WorkerGetsOn`: each step of the worker makes `WorkLeft`,
the messages queued and in hand, smaller.

**`SessionManagerProofs`** (assuming `ManagerAssumption`, of which the proofs use
that `FileStates` are functions into paths and that `None` is neither a path nor
a request). `IInv` adds to the properties: a request's locals are assigned where
they are used (`Locals`); a session enters the map once, under one path
(`InstalledOnce`); a close tells only a session that is, if anywhere, under its
own key (`TellsItsOwn`), without which `StoppingHasCloser` would not survive
`Tell`; an opener keeps alive what it installs and installs it serving
(`OpenerServes`), without which `CachedIsStarted` would not survive `Install`;
what a request was handed is cached or removed (`Handed`). One lemma per action,
one step per conjunct. `EntersOnce`: no entry is replaced by another and none comes
back, which is `InstalledOnce` seen as a step. `OnlyForward`: each step but one of
the file system takes a request to a later await (`Turn`) or a worker further in
its life (`Age`), and none back, so `EveryRequestEnds` and `NoLeakedWorker` need
nothing besides but fairness and the bound on start-up commands.

**Overflow files**, in `HandlerProofs` (assuming `GuardAssumption`). `ReportedStays` needs that
only old files are being removed (`DoomedIsOld`), which rests on the relation
between a file's time, its call's beginning and the clock (`Times`), and that an
entry found expired stays expired although its call might still write it, which
`MaxCall <= TTL` rules out. `SweepIsThorough` needs `SweepInv`: an entry is still
listed, being removed, or not expired, unless it is one that could not be read or
removed, which takes itself out of `swept` and no other entry.

**Asm settings**, in `HandlerProofs` (assuming `OverrideAssumption`). A program's steps are in
the order of `Rank` (`ProgramIsInOrder`, from a lemma about joining two parts),
and what is ahead of a handler is of higher rank than what is behind it
(`Ordered`). As long as handlers take turns and no call has failed (`Quiet`), the
one handler at work was answered all it did (`Told`), the session has at most
its next call to run (`OneCall`), a setting is overridden exactly between its set
and its reset (`SettingsFollow`), so what a handler reads and captures is the
original (`Captured`), and `TurnsKeepSettings` follows. One lemma per action; a
step that ends the quiet needs none. `RestoreIsTried` holds whatever fails: a
restore that is neither ahead nor sent is one whose captured value is refused, or
setting up failed (`Tried`). No
setting in force and none about to be restored is the mark of one never read,
whatever fails and however many handlers overlap (`SettingsAreAlwaysSettings`): a
reset that is still ahead has the read of its setting ahead of it or its capture
behind it (`Prepared`).

**Extraction and the composition**, in `HandlerProofs` (assuming `ExtractAssumption`). On a path where requests
take turns and no write has failed, at most one request is between its test and
its write (`OneBusy`), so what it saw is still so when it opens the file
(`Looked`), nothing is written between its truncation and its write (`Emptied`),
and a file nobody is about to write holds what was reported (`Holds`);
`TurnsReportTruly` follows. One lemma for each way a step changes the file. Then
the composition: a step of one kind of handler leaves what the other kinds share
(`KindsAreApart`), so each component's theorems hold of all of them together, in
`SharedSpec`, whose behaviours mix steps of all three kinds (`SharedIsTyped`,
`HandlersShareSafely`).

**`SelectionProofs`** has what the other proofs need of data. `LeastNatural` (a
set of numbers that is not empty has a least member) and `StepByStep` (a function
defined by a value at 0 and a step has them) take the place of an induction
theorem with an operator parameter: an argument by induction is one about the
least number for which a statement fails. From them, what a filter leaves is
every chosen member, in order, once (`KeptIsRight`), and what a sort makes of a
finite set of numbers is its ascending enumeration (`SortedIs`).

**`QueryProofs`** proves all that the run `queries` checks but `QueriesEnd`, from
one invariant for each query (`QueryInv`); a request moves one query and leaves
the others (`OneQueryMoves`). Assumed are `GlobAssumption`, `PagesAssumption`,
`FindAssumption`, `FunctionGraphAssumption`, `AnalysisAssumption` and
`AddressMapAssumption`: answers are sequences of rows, addresses and limits are
numbers, and the values for "none" are not among them.

* `GlobDecides`: the pattern matches exactly if what is left of it matches from
  here, or from the last star with more of the text taken by it
  (`BacktrackIsEnough`). Meeting another star must not lose what an older one
  could still do: since the last star as much of the pattern is behind as of the
  text and none of it is a star (`SinceStar`), so whatever the older star could
  go on from, the last one can reach as well.
* `PagesAddUp`: each page is a window of the filtered rows that starts where the
  one before it ended, and the next starts where the last did (`PagesShape`).
* `ListsAreWhole`: the hits are a prefix of what the filter keeps, by
  `KeptIsRight`; `AnalysisInv` says of the callees shown so far that they are those
  of a prefix of `DistinctTargets`, which names each target once, and what is trimmed of
  them is the first `MAX_NEIGHBOURS` (`FirstOnes`, `CutLength`).
* `FailuresAreTold`: the calls come in the order of `Calls`, each once, so the
  outcome of a call behind is known and that of a call ahead is not yet
  (`AnalysisInv`); what a part holds is a function of its call's outcome.
* `GraphAgrees`: edges are made block by block, so those of one block are a
  segment (`EdgesKept`); a successor list is the sorted set of the ends of its
  edges and a predecessor list of their beginnings (`NeighboursKept`, with
  `SortedIs`), and the counts follow by counting blocks instead of edges.
* `OffsetKeepsDistance`: by cases on where the addition saturates.
* `GlobGetsOn`, `PagesGetOn`: what the searches cost. `GlobLeft` counts the text
  after the last star, weighted, and the pattern that is left; each turn of the loop
  makes it smaller, and it is at most the product of the two lengths, each and one.
  A page that announces more moves the offset on by its limit, within the list.

**`ScanProofs`, `ReadingProofs` and `DecoderProofs`** prove all that the run
`decoders` checks but `WalksEnd`. Each tool has an invariant of its own,
in `ScanProofs` (the tools that follow what they meet) or `ReadingProofs` (those
that read bytes back); as the tools share no variable, a step of the server is for
each tool a step of it or none (`ToolsAreApart`), and `DecoderProofs` puts the
invariants side by side (`DecodersInv`).

**Call traces**, in `ScanProofs` (assuming `TraceBfsAssumption` and `XrefAssumption`: the caps
are numbers, and what a cross-reference leads to is an address or nothing).
`TraceFollowsGraph` for any answers of radare2, any depth and any caps. That
depths are distances needs that the queue is sorted and spans the level reached
and the next one (`InLevels`); that no node is listed twice and none is lost
needs that a visited address is in one place (`OnePlace`); that a finished trace
below its caps is whole needs that an edge to an address never queued exists only
where there is no room (the last part of `EdgesLead`), and that the room never
comes back, since an entry taken from the queue is counted until it is a node
(`Full`). The branches of the loop that give up an entry are never taken:
`PopFrontTakes`. One lemma per action, and one for the steps that find nothing.

**Seed traces** (assuming `SeedTraceAssumption`, `EventAssumption`,
`OperandsAssumption`: operands are registers, slots, memory or numbers, `NoEvent`
is no event). `CopiesFollowedInStep` is about the moments when the trace's stack
pointer is the processor's; it is not inductive, since a push of an untracked
value moves only the processor's and a later pop only the trace's (section 3.9).
`Follows` adds what is true in between: the processor's pointer, while it is
known, is never above the trace's, and no step brings it closer. So once the two
have parted they do not meet again, and the copies missed meanwhile do not matter.
`LogIsKept` relates the log to all events there were, whatever the cap cut.

**Field references** (`FieldXrefsAssumption`, `CodeAssumption`). `FieldsInv`: the
summaries count the references met so far (`Counted`, carried on by
`BumpFieldsCount`), the rows shown are the first of them, each assignment is one
of the writes among them (`Matches`), and a label that waits for its call is that
of the push just before. `ResolvedFromItsPush` is an action property from the
last part.

**Driver dispatch** (`DriverAssumption`). `RegsInv`: after the instructions read
so far, a register holds the address of the last `lea` into it if nothing wrote
it since, and none if there was no `lea`. `RowsInv`: the rows are the stores into
the object, in order, each with what was known at it. `SuggestInv` counts through
the rows of both lists.

**Digests** (`PathDigestAssumption`). `DigestInv` has a part for each property:
`ReadInv` and `StopInv` (what was read, and that reading ended at the first stop),
`EventsInv` (an uncut digest tells all of every instruction), `SetupsInv` (the
window of setups is the end of all setups read so far, and what a call shows is
the end of those before it: `IsTail`, with lemmas for a window that slides and for
a window of a window) and `BuffersInv` (a byte of a buffer is that of its last
writer).

**Jump tables** (`JumpTableAssumption`). `EntriesFollow`: the entries are those
`ParseEntries` reads, which encode back to the bytes they came from, for any base,
width and number (`EncodeRestores`, from the uniqueness of digits). `SlicesFollow`:
the slices made and the targets left are together the targets of the entries, each
in one place; `SliceStaysInRange` is about any list of instructions radare2 may
answer.

**Emulation** (`EmulatorAssumption`, `WordAssumption`: a word has as many values as
its bits can tell, and `InstructionAssumption`: the shapes of operands that
`Emulator::step` is reached with). `StepIsMachine`: every instruction leaves
registers that are words and memory that is bytes, for any base; so a part of a
register that is set leaves the other parts (`LowPart`, `HighPart`), and the
bitwise operations stay below the word (`BitsMakeWord`, from a function that is
twice its predecessor, `Doubles`). `PushedIsPopped`: what is pushed is popped, in
any machine, because four bytes put together are the word they were cut from
(`DigitsMake`) and four down and four up are nothing modulo the word (`DownAndUp`).
`EmulateInv` says of the loop that the context is the end of the setup executed
(`ContextInv`), that a call told was executed right after the instructions whose
setup it shows (`CallsInv`), and that what was reached stays in the program, which
is what makes the latter two last (`ProgramStays`).

**Strings**, in `ReadingProofs`.
`StringsAreMaximal` for any bytes written anywhere. Memory is finite, so every byte
lies in exactly one range of consecutive addresses (`RangeAround`); the loop over a
range, a function of how far it has read, finds the runs of printable characters
that no character extends (`RunsAreFound`, from `CloseRun`); and a run of one-byte
characters, or of two-byte ones from either parity, is a text of memory
(`RunIsText`), and a maximal text such a run (`MaximalIsText`).

**Walks**, in `DecoderProofs`. `TraceGetsOn`: each step of a call trace adds a node,
up to `NodeCap`, or leaves less of its round (`RoundLeft`), or takes a
cross-reference off the list of its node. `EmulationGetsOn`: each is counted, up to
`MaxSteps`, or the last.

**Only model-checked:** `NoStrandedCall`, `WorkerStops`, `EveryRequestEnds`,
`NoLeakedWorker`, `WalksEnd` and `QueriesEnd`, and the fairness of
`ImplementsExecutor`: liveness under fairness is out of the prover's reach. That no
step is in vain and nobody is left without someone to answer is proved, as above;
that fair steps then come to an end is what the runs show.

## 6. Not modelled

* Start-up, configuration, path and error helpers: read once or stateless.
* The projections of `disasm.rs`, `navigation.rs`, `symbols.rs`, `format.rs`,
  `security.rs`, `types.rs` and `meta.rs`: a query each and a reshaping of its
  JSON, with no state and no control beyond an error return.
* Command validation (`cmd.rs`): a predicate on one text.
* Of the tool dispatch, argument extraction and schemas.
* Parsing of operands and mnemonics: the decoders start from parsed operands.
  Wording and layout of results.
* radare2, tokio, dashmap and the rmcp server: external, modelled as far as
  `session.rs` relies on them: FIFO channels, a map whose entries are locked, a
  call that may fail or be slow.
* `list`, `get` and `len` of `SessionManager` only read.
