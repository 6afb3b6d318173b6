# OpsMind in TLA+

OpsMind runs inspection scripts on hosts, on a schedule or on demand, lets an LLM grade what they
print, writes reports, and diagnoses a batch that went wrong with a small graph of agents. It is a
FastAPI backend (`src/backend/app`) with one process and one event loop, a PostgreSQL database, an
agent on every host, and a Vue frontend (`src/frontend`). These modules model the parts of it where
order, failure and shared state decide what happens, check them with TLC on small instances, and
prove their main invariants with TLAPS for every value of the constants.

Paths below are relative to `src/backend/app` unless they start with `src/`.

## 1. Inventory

| component | state it keeps | operations | what is hard about it | what makes it correct | module |
|---|---|---|---|---|---|
| LLM limiter `core/limiter.py` | a threading semaphore, a token bucket, three circuit breakers, all of the process | `try_acquire_llm`, `release_llm`, `allow`, `record_*`; five call sites in `services/judgment.py`, `diagnosis/graph.py`, `services/report.py`, `api/chat.py`, `api/scripts.py` | a blocking wait on the thread of the event loop; callers that release too little or too much; answers that arrive after the breaker has opened | permits are accounted for, the rate is bounded, the breaker recovers through a probe only | `LlmLimiter` |
| Task trigger `services/task.py` | `TaskRun` rows | `trigger_run` | the execution starts before its row commits | an execution finds its row | `TaskRuns` |
| Execution engine `services/execution.py`, `api/task_runs.py` | `_running_tasks`, `_cancel_flags`, `Run`, `Report` and `TaskRun` rows | `execute_task_run`, `execute_script_test`, `register_running`, `request_cancel`, `clear_cancel`, `cancel_task_run` | cancel against the end of the run; exceptions that roll back everything; restarts; a diagnosis awaited inline under a shared semaphore | the stored status is true, an accepted cancel in time is honoured, events follow what is stored | `TaskRuns` |
| Two-gate judgment `services/judgment.py`, `utils/safe_json.py` | none | `first_gate`, `second_gate_llm`, `extract_json_from_text` | what an LLM may answer | only a script that succeeded is graded | `Judgment` |
| Anomaly diagnosis `diagnosis/` | a blackboard per diagnosis, `diagnosis_json` | `is_anomalous`, `diagnose_task_run`, planner, three executors, reviewer | executors in any order, a limit over the whole graph, unusable answers | a stored diagnosis is consistent, and announced only when stored | `Diagnosis`, `DiagnosisPromise` |
| Live channel and run board `services/events.py`, `src/frontend/src/views/TaskRunBoard.vue` | a queue per subscriber, the page | `publish`, `subscribe`, `unsubscribe`, `stream_events`; `onMounted`, `connectStream`, `fullReload`, `scheduleFallback` | full queues, broken connections, a subscription that comes too late | order, nothing twice, a final status on the page is the stored one | `RunStream` |
| Task scheduling `services/task_scheduler.py`, `services/scheduler.py`, `api/tasks.py`, `api/hosts.py`, `api/templates.py` | `Task` rows, APScheduler jobs in memory | create, apply, update, toggle, delete, `sync_task_job`, `remove_task_job`, `load_all_jobs`, `_run_task_job` | two copies of the schedule, changed at different times from stale views; a start that loads half | the job of a task is the one its row calls for; a deleted task never runs | `TaskScheduler` |
| Reports `services/report.py`, `services/validation.py`, `api/runs.py` | `Report` rows with `ai_status` | `analyze_run` (by `reanalyze`), `mask_sensitive`, `run_pipeline` | the page gives up after two minutes and offers the button again, so that analyses of one report overlap; UPDATEs of changed columns only | notes and banner are those of the text shown; an analysis gets the report done, or was lost | `Reports` |
| Host channel `executor/`, `services/host.py`, `api/hosts.py` | MCP sessions and calls, processes on the host; `Host` rows | `call_host`, `_call_host_once`, `run_script`, `ping`; create, ping, update, delete a host | two clocks, retries of some calls only, a pool of threads on the host | a script starts once; what is told of it is true; a deleted host stays deleted | `HostPromise`, `HostChannel`, `Hosts` |
| Chat assistant `api/chat.py`, `api/chat_sessions.py`, `graph/conversation.py` | `Session` and `Message` rows, the global `RETRIEVER` | a turn (ask, flush, search, stream, commit), create and delete a session | one transaction over a stream that a client may leave; a global set by every turn | `done` is stored; a turn searches with its own scope | `Assistant` |
| Knowledge base `knowledge/`, `services/embedding.py`, `api/documents.py` | documents, units, keys with vectors | upload, name, insert, generate keys, embed, delete; hybrid search | uploads of one name; keys without vectors; two queries that are not one | names stay apart; what is found was ticked and is the best there was | `Knowledge` |
| Memory `memory/`, `api/memory.py` | `Episodic` rows, and a list that stands in for them | save and merge, edit, delete, fall back | read, append, write without a lock; a commit that may follow the answer; ids counted by length | what was answered with an id, and committed, is found under it | `Memory` |
| Settings `services/settings.py`, `api/settings.py` | rows, and the `Settings` object of the process | PUT: read, flush, override, commit | the object is changed before the rows commit, a stale read hides a change | the two copies agree unless there is a named reason | `Settings` |
| Context bundle, metrics, evaluation `services/context.py`, `services/metrics.py`, `services/tracking.py`, `services/evaluation.py` | none, or rows written once | sequential computations | boundaries, empty inputs | what unit tests reach | not modelled |
| Scripts, templates, statistics, audit, authentication, logging; the other pages | rows | CRUD, aggregates, forms | nothing concurrent | - | not modelled |

How they interact. A request or an APScheduler job calls `trigger_run`, which inserts a `TaskRun`
and starts `execute_task_run` as a task of the event loop. For every script that calls a host and
the two gates, the second of which asks the LLM through the limiter. After the scripts the status
commits, `batch_ready` is published, and an anomalous batch is diagnosed inline, again through the
limiter; then comes `done`. Pages read the rows over REST and the events over SSE. Cancel requests
meet the execution in two dictionaries. A report is analysed later, on request, again through the
limiter. The assistant searches the knowledge base, and its answer goes through the limiter and the
checks of the reports; what is worth keeping of a chat is saved to the memory on request. Every
component reads the `Settings` object of the process. Everything in the process runs on one thread,
so it is the awaits that matter; every session has its own connection and sees what others have
committed.

## 2. Modules and code

One action is the code between two awaits. `PROJECT.json` names the source lines of each
definition; operators that start with the name of an action and say "Faulty variant" are plausible
mistakes, used only to show that each property can tell.

**`LlmLimiter`** - `permits` is the value of the semaphore, `bucket` and `breaker` the objects of
the same name, `call[c]` where one LLM call is. `Starts` is `try_acquire_llm` with what its caller
does on a refusal, in four disjuncts: refused by the breaker, blocked on the semaphore, refused by
the bucket, admitted. `Returns` is the four ways a call ends, each with its `finally`. The calls are
divided by what their call site does: parse a JSON answer (`JsonCalls`: success recorded before the
parse), take the text (`PlainCalls`), stream it (`StreamCalls`: the permit is held while the fallback
is read), analyze a report (`ReportCalls`: acquires inside the `try` that releases). `blocked` means
that `Semaphore.acquire(blocking=True)` holds the thread: no action of another call is enabled then.
A tick of `now` is the time in which the bucket earns one token.

**`TaskRuns`** - `row` is committed data only; what an execution has flushed is in its locals
`exec`, so that `Raises` and `Restart` lose it as a rollback does. `request` is the session that
created the run, `registered` is `_running_tasks`, `flag` `_cancel_flags`, `events` the history of
the channel. The test of the flag runs without an await after each script, hence `AtBreakpoint` is
part of `LoadsScripts` and `ScriptEnds`. `cancel[c].state` distinguishes an accepted cancel that is
*early* (the execution has yet to look at the flag for the last time) from a *late* one.
The verdict on a script is abstracted to whether it calls for a diagnosis, and the diagnosis to the
promise below. `Restart` is the death of the process at any point and the next `lifespan`.

**`Judgment`** and **`Diagnosis`** - the gates as definitions, then `is_anomalous`,
`diagnose_task_run` and its graph. `probe` is the three executors, which run in parallel and write
their own slots; an LLM answer is one of four forms that `extract_json_from_text` tells apart.
`BatchReady` is the test of `services/execution.py:251`: a batch that was cancelled (`CancelAccepted`) is
`quiet` whatever its scripts say. `Dies` ends the execution at any point, by an exception among the scripts
or at their commit, or with the process.
**`DiagnosisPromise`** is the abstract specification: what `TaskRuns` relies on. `PromiseKept`
states the refinement, with `isStored` mapped to "diagnosis_json is there" and `over` to the end of
the coroutine.

**`RunStream`** EXTENDS `TaskRuns` and adds the pages and their queues: a step of `TaskRuns` and the
`put_nowait` of what it publishes are one step, since `publish` does not leave the loop between
them. A queue holds the numbers of events, so that order and repetition can be stated. Abstractions:
heartbeats are left out; a broken connection leaves `_subscribers` at once instead of at the next
write; a load over REST is one step; a connection that the browser gives up for good (an answer other
than 200) is not modelled. `publish` formats payloads with `str()`, and `JSON.parse` rejects a Python
literal, so the page ignores `run_result` and `batch_ready` and takes any `done` for DONE until it has
reloaded: `TakesDone` is what it does.

**`TaskScheduler`** - `row` (committed), `job` (the schedule of the APScheduler job), and `request`
with the row as the handler has `seen` it and `want`s it. `Reads`, `Flushes`, `Syncs` and `Commits`
are the awaits of the handlers; `Merged` is the UPDATE of the changed columns only; `Locked` is the
row lock of PostgreSQL from the UPDATE to the commit. `Loaded` is `load_all_jobs`, which a schedule
that is no object ends early, and `inStep` records that the last thing that touched a task met no
other request and ended well. Schedules are of four kinds: none, valid, refused by APScheduler
(including an object of unknown type, such as the example in the form of `Templates.vue`), and
malformed, which only templates let through.

**`Reports`** - one report: `analysis[a]` is an execution of `analyze_run`, between whose two commits
the LLM is asked. `seen` is the row as its session has it, and `Flushed` writes the columns that differ
from that. `Annotations` and `Banner` are the validation pipeline as definitions over what its rules
tell apart in a text; the text is masked before it is checked (`Stored`). `whole` is history: the last
analysis to end met no other. Either commit may raise, which nobody handles (`CommitFails`); `Restart` is
the end of the process, or of its event loop when the limiter blocks the thread. Both leave an analysis
`lost`, and the row as it is.

**`HostChannel`** - `call[c]` is the client (`_call_host_once` with its handshake, inside the retries of
`call_host`), `script[r]` the process on the host with its place in the pool of threads. `Attempts` is
the rule that only idempotent tools are tried again. A tick passes for the client's limit and the
script's timeout alike, but the latter's clock starts with its thread. A limit of the client may come
late, never early, because it counts silence only. **`HostPromise`** is what the engine relies on;
`PromiseKept` states the refinement. **`Hosts`** adds the row of one host and the requests that create,
ping, update and delete it: a ping calls between its read and its commit.

**`Knowledge`** - an upload goes from its file to lines (`Loaded`: all of a text, or of the pages of a PDF,
with a remark for each page without a text layer, or for all of them when the extraction raises) and units
(`Units`: one at each heading, and one per line before the first), a name (`Names`, a look before the
insert), the insert under the unique index (`Inserts`: a second one waits for the first to end), and one
commit with all keys and vectors (`Commits`). Lines are told apart by whether they are headings and whether
anything is left of them without markup, which decides about the keys that stand in for the LLM's
(`FallbackKeys`). A search is two queries and their fusion; `Score`,
`Met`, `Ahead` and `Top` are `rrf_fuse` in whole numbers, with fractions compared by cross
multiplication. `ByVector` gives any list that the order of the vectors allows, `ByWords` any list of
the keys in scope.

**`Memory`** - a save names the row it makes; `SaveReads` and `SaveFlushes` are the two ends of
`save_episode_db`, `Appended` is the append with its limit, `SaveFallsBack` the list, which is a set here
because no step reads its order. The flush takes the lock of the row (`Locked`), and the commit belongs to
the exit of `get_session`. FastAPI runs this exit before the response is sent, or after it from 0.118 on,
and `pyproject.toml` allows both: `SaveAnswers` may come before `SaveCommits` or with it, and `SaveFails` (the
commit raises) or a restart may come between them, which leaves the save `lost`. Edits and deletions flush
and commit likewise. `met` is history: the save overlapped another of its chat session.
**`Assistant`** EXTENDS it with chats, turns and `RETRIEVER`: `turn[t]` holds one open transaction from
`Flushes` to `Commits`, which an aborted search spoils. `Ended` allows both outcomes for the question of a
stream that breaks, for the same reason.

**`Settings`** - `row` and `runtime` are the two copies; a request reads and flushes key by key
(`Reads`, `Writes`, with the lock of the row), overrides the object (`Applies`), and commits later.
`Coerced` is what a field takes, `astray` is history: the fields on which the copies may differ, for
a reason that the property names.

The `MC*` modules give the sets their small values.

## 3. What TLC checks

All passing runs are exhaustive. `CHECK_DEADLOCK FALSE` is set because every instance has finitely
many calls, runs and requests and stops when they are over.

| run | instance | distinct states | what it shows |
|---|---|---|---|
| `llm_limiter` | 2 JSON calls, one of each other kind, 2 permits, threshold 2, 4 instants | 56,543 | where every permit is (`PermitAccounting`), that the loop stops only for want of permits (`FrozenOnlyWhenExhausted`), the rate (`RateBounded`), the breaker (`BreakerConsistent`, `RecoversByProbe`), that a holder returns while the loop runs (`HoldersReturn`) |
| `task_runs` | 2 triggered runs of one script, one diagnosis at a time, a cancel, faults | 20,922 | order of events (`EventsInOrder`), nothing announced that is not stored (`AnnouncedIsStored`), every handle leaves the registry (`ExecutionsLeave`), `done` always follows (`ScriptsLeadToDone`) |
| `task_runs_restart` | a triggered run of up to 2 scripts, a script test, 2 cancels, faults, a restart | 195,596 | the stored status is true (`StatusFaithful`), a cancel in time decides (`EarlyCancelHonoured`) and stops the scripts (`NoScriptAfterCancel`) |
| `diagnosis` | every batch of up to 2 scripts, cancelled or not, every form of every answer, an execution that may die | 105,179 | `PayloadConsistent`, `BrokenIsDiagnosed`, and the refinement `PromiseKept` |
| `run_stream` | a run of up to 2 scripts, a cancel, faults, a restart, a page, a queue of 2, one broken connection | 180,278 | `InOrderOnce`, `FirstEventsKept`, `ShownIsStored`, `WatchedRunSettles` |
| `task_scheduler` | 2 tasks in any stored state, 2 requests, one schedule of each kind, a restart, faults | 2,412,128 (symmetric) | `JobsFollowRows`, `DeletedForGood` |
| `settings` | 2 PUT requests of up to 2 keys, of any value, on a number, a secret and a key without a field, failures, a restart | 698,224 | when rows and object agree (`RuntimeFollowsRows`); no mask is ever stored or used (`TypeOK`) |
| `reports` | 3 analyses of one report, 4 kinds of answer or none, commits that fail, a restart | 25,260 | `ReportIsWhole`, what leaves a report `analyzing` (`StuckHasReason`), `AnalysisEnds` |
| `hosts` | 2 scripts on a host with one thread, 3 tries, one connection that breaks; or 2 requests on a host row | 56,928 (symmetric) | who may be left running (`NoOrphan`), the refinement `PromiseKept`, `DeletedHostStays` |
| `knowledge` | 2 uploads of one name, text or PDF, any keys and vectors, failures, deletions, a search of any ranking | 803,160 | `NamesApart`, `SearchSound` |
| `assistant` | 2 turns and 2 chats; or 3 saves, an edit or deletion, 2 topics, commits that fail; a restart | 357,116 (symmetric) | `DoneIsStored`, `OwnSearch`, `SavedIsKept` |

One run expects a violation and has an entry under "findings" in `PROJECT.json`: `task_runs_stuck`. An
execution that looks for its row before the trigger has committed it returns at once; the run stays
RUNNING for ever, without any fault, where `docs/04` (lines 19-27) ends every run.

**Known divergences.** The models and properties state what holds. What the code does otherwise than a
reader of its documents would think shows as an exception in a property or a choice in an action; these
are the ones met.

* Limiter: a report that the open breaker refused releases a permit it never had, so that more than
  `LLM_SEMAPHORE` calls run at once (`services/report.py:66`; `Minted`); a caller that the bucket refuses
  loses its permit for good (`core/limiter.py:91`; `Lost`); the call that finds no permit stops the event
  loop, and the calls that hold the permits never get to release them (`core/limiter.py:89`; `blocked`); a
  cancelled coroutine tells the breaker nothing, and a half-open breaker admits everyone.
* Execution: a cancel that is accepted after the last look at the flag is forgotten, and the run ends DONE
  (`services/execution.py:227`; the *late* state of `cancel`); an unexpected exception leaves a run RUNNING
  with no handle (`Raises`), and nothing takes such runs up after a restart, although `docs/01` (line 109)
  and `docs/04` (5.7) promise recovery.
* Diagnosis: an agent that answers with a JSON list, as its prompt says (`diagnosis/graph.py:106`), is not
  heard, because the parser accepts objects only (`utils/safe_json.py:20`; `Extract`). Since nothing is
  raised, the rule does not conclude in its place either (`Concludes`). A cancelled batch is not diagnosed,
  whatever its scripts found (`services/execution.py:251`; `BrokenIsDiagnosed` names the case).
* Run board: an event that is published between the first load of the page and its subscription is lost,
  and nothing asks for it again while the stream is open: `WatchedRunSettles` promises an end to pages that
  were subscribed while a script ran and lost nothing to a full queue (`Missed`).
* Scheduling: an update that overlaps a toggle may leave an enabled task without its job; a malformed
  schedule of a template may leave *other* tasks without theirs after a restart; a failed commit leaves a
  job for a row that never was (all three are what `inStep` excludes in `JobsFollowRows`).
* Reports: `failed` is always overwritten by `done`; analyses that overlap leave the banner or the notes of
  one with the text of the other, and take a finished report back to `analyzing` (`whole`); a commit that
  raises leaves a report `analyzing`, with nobody at work on it, until it is asked for again (`StuckHasReason`).
* Host channel: a script whose thread is free late runs on after its caller gave up (`NoOrphan` names the
  case); a killed script whose output holds bytes is told as an error instead of a timeout
  (`executor/server.py:72`; `noisy`); the session on the host is not deleted after a failed call.
  `last_ping_at` is never cleared, not even by a new endpoint, and the name of a deleted host stays taken.
* Knowledge base: a file that is uploaded again becomes a second document beside the first
  (`knowledge/kb_service.py:96`; `Names`), where `docs/05` (line 167) deletes the old data first; a deleted
  document keeps its name (`Taken`), and is still searched when it is ticked or the whole library is
  (`api/documents.py:133`; `Scope`), where `docs/05` (line 173) deletes its vectors; a unit that begins with a
  line of markup only gets no key at all when the LLM fails and the last heading of the document has no words
  either (`knowledge/keygen.py:34-35`; `FallbackKeys`), although `keygen.py:6` promises that it can be found
  and `src/backend/tests/test_kb_flow.py:61` counts on a key per unit; every unit gets the last headings of
  the *document* (`Pathed`); the order of the ranking is lost when the rows are loaded
  (`knowledge/search.py:111`, so `found` is a set); a vector query that the database refuses aborts the
  transaction, and the query by words, meant to make up for it, fails too (`Breaks`); the loser of two uploads
  of one name gets an error instead of a suffix (`Inserts`).
* Assistant: such a refused search loses the turn after it was streamed (`aborted`); a message may be stored
  into a chat that was deleted meanwhile; `RETRIEVER` is safe only because there is no await between setting
  and calling it (`SearchesLater` shows what one would do).
* Memory: a save that was answered with an id is lost when its commit fails or the process dies before it
  (`core/db.py:62`; `SaveAnswers`, `SaveFails`); overlapping saves into one row lose a summary (`met`), a full
  row drops new ones (`Room`), ids of the list repeat after a deletion (`SaveFallsBack`, `StoreDeletes`), and
  its episodes are out of sight while the database answers.
* Settings: a request that fails to commit leaves its values in the object, a value that looks unchanged
  against a stale read is not written, and after a restart the rows are never loaded (`astray`); a field that
  is null takes any text (`Coerced`).

**Bounds.** Two runs are needed for the semaphore of the diagnoses and for interference, two scripts for
the cancel between them, two requests for every overlap (a third adds no new pair), a queue of two for a
burst of two that does not fit any more, two permits and threshold two to tell "some" from "all"; three
analyses, so that one ends between the ends of two others; three saves, so that one merges into a row
that two have made, and room for all three, so that no lost summary passes for one that did not fit; one
thread on the host, so that a script waits; `ScriptTimeout` 2 and `Grace` 1 to order a kill, a limit and
a late start in every way; `TopK` 1, so that two documents compete. In `hosts` and `assistant` the
instance keeps apart what shares no state (`OneKind` in the MC module): scripts from requests, turns
from saves. Symmetry is used where the members are interchangeable and no liveness is checked. Longer
behaviours are what the theorems are for: they hold for any number of all of these. `MaxTime`,
`MaxScripts`, `MaxRestarts`, `MaxBreaks`, `MaxStarts`, `MaxCuts`, `MaxKeys` and `MaxSuffixes` are bounds
of the models, named where they are declared; the proofs hold for each value of them.

**Fairness.** Weak fairness stands for what the runtime guarantees: a scheduled coroutine, a done
callback and a call with a timeout go on as long as the loop runs (`Executes`, `DoneCallback`,
`Returns`, `Diagnoses`); a request that has flushed commits or fails. `DiagnosisStarts` has strong
fairness because `asyncio.Semaphore` serves its waiters in the order of their arrival. A browser reads
its stream, connects, and runs its timers (`StreamFairness`). Nobody has to trigger a run, cancel
one, open a page, leave it, or restart the process; no fault has to happen, and none is excluded
where `Faults` is TRUE. In `Reports` an analysis that has begun goes on, and its call returns or raises,
because the client of the LLM has a time limit; its commit succeeds or raises, and nothing promises that it
succeeds; a loop that the limiter has stopped is a `Restart`, after which nothing has to begin. In `Diagnosis`
a batch ends and is diagnosed as long as its execution lives, and `Dies` may end that at any point:
`BrokenIsDiagnosed` has both outcomes. The other modules state no liveness and no fairness.

## 4. What is proved

The proof modules `LlmLimiterProofs` (the limiter first, then the reports), `RunStreamProofs` (the task runs
first, then the streams), `DiagnosisProofs`, `TaskSchedulerProofs`, `SettingsProofs`, `HostsProofs` (the
channel first, then the rows), `AssistantProofs` (with the memory) and `KnowledgeProofs` hold theorems for
all values of the constants. They assume the named `ASSUME`s of the modules and nothing else: that the sets
of calls are finite and strict calls and reports disjoint, that runs are triggered or tests but not both,
scripts on a host or pings but not both, that limits are naturals (and positive where the code needs it),
that the kinds of schedules are disjoint, that numbers and secrets are fields of the `Settings` object, of
one kind each, and the keys without a field are not, that the ids of memory rows are not those of the list,
that a topic is like itself, that a file is a text or a PDF with a sequence of lines, that files of one name
are of one type, and that the LLM answers texts.

* **Limiter.** `PermitsAccounted` counts: each action moves one call between the sets of holders,
  lost and minted permits, and the lemmas about cardinality turn this into the equation. It follows
  that without reports at most `LlmSemaphore` calls hold a permit (`ConcurrencyWithoutReports`), and
  with `FreezeExhausts` that the loop never stops while a permit is free. `BreakerIsConsistent` is
  inductive with the type invariant. `BucketBounds` adds up the calls that ever went to the LLM, the
  tokens left and those that time is yet to bring; `ClosesByProbe` looks at what each action may do to
  the breaker (`BreakerMoves`).
* **Task runs.** `Inductive` proves a strengthening with six parts per run and two per cancel request.
  `StatusFaithful` alone is not inductive: that CANCELLED was asked for in time needs `FlagInv` (a flag that
  can still be read was set by an early cancel, and so was what it made the execution do), that an early
  cancel decides needs `CancelInv` (it is remembered by the flag, then by the execution), and both need
  `RowInv`, `RequestInv` and `ExecInv`, which say at each point of the program what is not stored yet.
  `RegistryComplete` (a live execution is in the registry, so that a cancel finds it), `StatusTold` and
  `EarlyCancelWins` are its corollaries, and `CancelStopsScripts` needs `FlagInv` to know that a raised flag
  is seen before the next script. What a channel has been told needs an invariant of its own (`ChannelsTell`).
  A channel tells one of a few stories, any number of results followed by one of the endings (`Stories`);
  `ToldAt` says which of them are possible at each point of the program, and how many results that makes. Each
  step then publishes what leads from a story of its first point to one of the next (`PublishKeeps`,
  `ChannelStep`). `ChannelsInOrder` and `AnnouncedStored` are read off the stories.
* **Diagnosis.** `GradingIsEarned`: a script is graded only after it succeeded. `BrokenIsNotQuiet` is the
  safety half of `BrokenIsDiagnosed`: a batch with a script that its host failed is anomalous, whatever the
  LLM says, so that it ends as `quiet` only when it was cancelled. `BoardInv` says what is on the blackboard
  in each phase, `OutsideInv` what has been published and stored; `StoredIsConsistent` follows. `Refines` maps
  every step to a step of `DiagnosisPromise` or a stutter.
* **Streams.** `ComposesTaskRuns`: pages and queues do not disturb the runs, so the theorems about
  `TaskRuns` carry over. `QueuesHold` is the invariant of a queue for any size and any number of
  events: what it has handed out and holds is increasing, lies after the subscription (`Ordered`), and
  starts with the first `QueueSize` events (`Complete`). `PageTellsTheTruth` needs that a final status
  never changes (`StatusFinal`), which comes from the invariant of the task runs.
* **Scheduling.** `AloneInv` says what a request that meets no other may rely on between its read and
  its commit: it has seen the row as it is, nobody else touches the task, and once it has synced, the
  job is the one of the row it will commit. `JobsAreRows` follows, with `LoadedJobs` for restarts.
  `DeletedStays` needs `WantInv` and the lemma on `Merged`: an UPDATE of the changed columns cannot
  revive a row.
* **Settings.** `TypeCorrect` is not inductive without `RequestInv`: what a request has flushed of a key
  is the encoding of the value it was sent, which is no mask. `CopiesAgree` needs that two requests never
  hold the lock of one row (`OneHolder`) and, between the override and the commit, that the object runs
  ahead of the row by what the holder of the lock is about to commit (`FieldInv`).
* **Host channel.** `ChannelInductive` has a part for each promise: a script is asked for once, because
  only pings sleep and try again (`SleepInv`, `OnceInv`), what the caller was answered is what happened
  (`TruthInv`), and the caller of a script that started in time has waited for less than the grace longer
  than the script has run (`PatienceInv`). The last is what `NoScriptOrphaned` rests on: the two clocks
  advance in one tick, but are read at different moments. `ChannelKeepsPromise` maps the fate of a script
  and what is told of it to `HostPromise`, the client's steps to answers and the host's to decisions. The
  rows need `HostInv`: a request that has read a deleted row writes a deleted row, and the commit writes
  changed columns only; then `DeletedHostsStay` holds of each step.
* **Reports.** While an analysis has met no other, what it has seen agrees with the row in text, notes and
  banner, though not in the status, which others may have marked (`UpToDate`). So each of the three columns
  ends as the analysis made it, whether its UPDATE writes it or leaves it out: `ReportsAreWhole`.
  `ReportTypeCorrect` holds that a banner never counts more than two notes, since `analyze_run` hands the
  pipeline neither tags nor ids. `AnalyzingHasReason` is inductive with the types: each step that writes
  `analyzing`, or takes an analysis from its work, leaves one that is at work or lost.
* **Assistant.** `TurnsInductive` says how far a turn must have come for what it has stored and told, and
  that `RETRIEVER` is its own while it answers; `DoneStored` and `SearchesOwn` are two of its conjuncts
  read together.
* **Memory.** `SavedIsKept` is far from inductive: that the text of a save *stays* depends on saves that are
  between their read and their commit and will overwrite the row with what they have read. `MemoryInv` says
  that nobody has made the row of a save that has not committed, and which ids such a save may have been
  answered with (`Unwritten`), whose row it is about to write (`Reading`), that a save that was answered *and*
  committed finds its row, of its own chat session (`InItsRow`), that whoever has read this row since has read
  its text, too (`Followed`), and where the list keeps those it took in (`Listed`). Nothing is claimed of a
  save that was lost at its commit, answered or not. `MemoryInductive` proves it, one lemma per kind of step;
  `SavesKept` follows.
* **Knowledge base.** A name is reserved: no document and no other working upload has the name of an upload
  between its insert and its commit (`Reserved`), and what has a suffix stands beside the document that made
  it necessary, since documents stay (`AllBeside`); `NamesStayApart` is read off both. For the search, the
  lemmas about fractions (`Scale`, `CrossTransitive`, `SumAhead`, `SumsAhead`) make `Ahead` a strict total
  order (`AheadOrders`), so that `Top` has at most `TopK` members (`TopIsShort`) and leaves out nothing better
  (`BetterIsAhead`, `TopIsBest`). `SearchesSound` adds that lists once read stay in scope, since keys are only
  added and a search keeps what was ticked (`ScopeGrows`, `Ranked`).

Only model-checked: the liveness properties (`HoldersReturn`, `ExecutionsLeave`, `ScriptsLeadToDone`,
`BrokenIsDiagnosed`, `WatchedRunSettles`, `AnalysisEnds`), since TLAPS proves nothing under fairness or about
ENABLED. Every invariant and every action property of a passing run is stated by a theorem, and so are both
refinements of the abstract specifications. Not provable with the installed backends at all are results by
induction over data and anything about RECURSIVE operators; the modules use neither.

## 5. What is not modelled

* The contents of reports, prompts, outputs and events, except where a property depends on them; the LLM is a
  choice among the forms of answers; a database is what has been committed, and where a failure of it leaves
  something behind, it is an action (`RequestFails`, `Raises`, `CommitFails`, `SaveFails`, `ChangeFails`,
  `Fails`, `Leaves`). The call of a script to its host is an outcome in `TaskRuns` and a protocol in
  `HostChannel`.
* Code without a caller: `mark_run_done`, `schedule_analysis`, `load_from_db`, `maybe_refine` and
  `save_semantic_db` (so that the table of `memory/semantic.py` stays empty), `get_runtime_info`,
  `create_assistant_graph`, `patch_images`, `LocalTFIDF`, `build_session_index`, `tool_breaker`,
  `kb_breaker`, `script_exec_concurrency`.
* Reading endpoints, which change nothing (`read_output` and the report of `api/runs.py`, lists, details,
  statistics), the titles of chat sessions, and the scripts bound to a task.
* The context bundle, metrics, tracking and evaluation are sequential computations over text and numbers
  within one request, without shared state; a unit test reaches what they can get wrong.
* CRUD of scripts and templates, authentication, logging and audit keep no state that two steps could
  disagree about. The frontend other than the run board is forms and tables over the REST API; the two
  minutes after which a page gives up are in `Reports`.
* An embedding service that answers with fewer vectors than it was asked for, names of files that already
  look like a suffixed one, and a document that contains the marker of a unit in its own text.
* The query cache of the embedding only saves a call, and its wait of up to 15 seconds on a thread
  (`services/embedding.py:69`) stops the event loop for that long, which delays every model and orders none.

## 6. Plan

Every safety property that a run checks is proved. What could still be proved about the models:

1. The safety part of `WatchedRunSettles`: a page that missed nothing has in its queue, or has been handed,
   the event that ends its run, which joins `QueuesHold` with `ChannelsTell`.
2. What `ScriptsLeadToDone` and `AnalysisEnds` rest on, as far as it is safety: that every step of an
   execution and of an analysis leads on, by a measure that it lowers.
3. That `TaskRuns`, whose diagnosis is the promise of `DiagnosisPromise`, behaves as that promise for each
   run, which would close the composition that is now stated by construction.
