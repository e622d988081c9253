# Verification of the Unraid MCP server

`src/unraid_mcp` is a Python (asyncio) server of the Model Context Protocol: an AI client
calls *tools*, each of which sends GraphQL queries and mutations to the API of an Unraid
NAS. One process serves one NAS; many tool calls run at a time as tasks of one event
loop. The server stores nothing itself: its state is in the requests in flight, in a
few locks, queues and timers, and in the NAS, which other programs change too.

This directory holds TLA+ modules of that program, TLC runs that check them on small
instances, and proofs for every instance. `PROJECT.json` gives, for each
definition, the lines of the source it stands for.

Paths below are relative to `src/src/unraid_mcp/`.

## 1. Inventory

| Component | State | Operations | What is hard |
|---|---|---|---|
| **Docker autostart** `tools/docker.py` 708-920 | one lock per client; the boot list, held by the NAS | read the list strictly, canonicalise ids, merge, order, write the *whole* list back | lost updates; writes that land after the lock was released; incomplete reads; one container under two names |
| **Container tools** `tools/docker.py` 505-720, 930-1383 | none of its own; the containers, held by the NAS | confirm, resolve an id, send one mutation (two for a restart without `docker.restart`), batch updates | the id's listing is stale when the mutation is sent; a timed-out mutation may still be carried out; the two-step restart |
| **References to containers** `tools/docker.py` 104-330, `formatting.py` | none; the ids a caller was shown | shorten ids for display, find one container by any id or name, resolve one id or a batch | two containers with one short id; a name that looks like an id; fallbacks for older builds; containers recreated between requests |
| **Live statistics** `subscriptions.py`, `tools/docker.py` 395-502 | socket, readings, deadline | handshake, subscribe, receive until every container reported or the window ends, unsubscribe, close | a timer per await against one deadline; a hostile or silent peer; cancellation during cleanup; duplicate and foreign frames |
| **Progress** `tools/_base.py` 290-497 | bounded queue, worker task, heartbeat task | report, drop oldest, send with a timeout, flush, reap | a stalled client; `join()` and its count; monotone numbers after a lost send; cancellation while winding down |
| **gather_all** `tools/_base.py` 266-281 | the tasks | gather, cancel the siblings, gather again, re-raise | a second cancellation while siblings unwind; whose error is raised |
| **Lifespan and resources** `server.py` 84-345, `resources.py` | a one-context holder | open client, probe version and roles, publish, serve, withdraw, close | a second lifespan; reads while it starts or ends; failed probes |
| **Gates** `tools/_base.py` 190-216, 304-311, 484-515 | none | `confirm=true`, ask the human, `guarded` | clients that cannot be asked; refusal, dismissal |
| **GraphQL client** `client.py`, `errors.py` | an HTTP client | send, classify the answer | errors beside data; timeouts of mutations |
| **Health** `tools/misc.py` 165-330, `formatting.py` | none | five queries at once, degrade, verdict | failed checks must not count as passed |
| **Logs** `tools/misc.py` 95-163, `tools/docker.py` 340-400, `formatting.py` 575-720 | none (the reader's position is the caller's) | read a page of a file, or the tail of a container's log after a cursor; cut it to a budget | lines skipped or repeated at a cut; lines longer than a page; a log that grows |
| **Registration** `tools/__init__.py`, `config.py` | the set of published tools | flags, allow list | combinations of flags |
| **HTTP** `auth.py`, `origin.py`, `health.py`, `cli.py` | the bearer token of the process | health, origin, bearer token, Host, in that order | order of the layers; repeated headers; a token that an earlier process generated |
| **Array, VM, notifications** `tools/array.py`, `vm.py`, `notifications.py` | none | one confirmed request each | as the container tools, without a look-up |
| **Reads, shaping, texts** `tools/system.py`, `shares.py`, `formatting.py`, `queries.py`, `types.py`, `tools/_schema.py`, `prompts.py`, `logging.py` | none | projections and texts | - |

**Interactions.** A tool runs under `guarded`, reports through `progress_reporter`, passes
the gates, takes the client from the lifespan's context, and calls `client.execute`; long
ones run under `with_heartbeat`; reads of several parts run under `gather_all`. Statistics
use a websocket beside the HTTP client. Resource reads take the client from the
one-context holder. The NAS is shared with its web interface and everything else.

**What makes each part correct.** Autostart: concurrent calls are as good as one after
another, nothing nobody named changes, nothing incomplete is written. Container tools: no
mutation without consent or on a container the caller did not mean; a success is one;
a rejection changed nothing. References: what was shown for one container never comes to
mean another. Statistics: bounded time, the socket released, a complete
result is complete. Progress: the result is never held up, numbers increase, no task
stays behind. gather_all: no task outlives the call; the first error is raised. Lifespan:
readers always get a live client. Logs: each line once, and no loss in silence. HTTP: only
who has the running process's token gets a tool to act.
`PROJECT.json` lists the hazards one by one, at their lines, with the properties for each.

## 2. Modules

| Module | Models | How its state and actions correspond to the code |
|---|---|---|
| `AutostartMerge` | `_canonicalize_autostart`, `_merge_autostart`, the argument checks | operators only. A boot list is the set of its members, the strict total order on them and their waits: all the server can tell. The text of an id is a reference with the set of containers it fits |
| `AutostartList` | the same merge as the loop over Python lists | one step from a listing and arguments to a list, which is shown to be the one `AutostartMerge` defines; then the same call made again. Loops are recursive functions: `Select` the comprehensions, `Sorted` the stable sort, `Changed` the loop over the changes |
| `Autostart` | `do_set_docker_autostart`, called by many at a time | `lock`, `pc` (between which awaits a call is), `snap` (what it read); `boot` and `write` are the server's. One action per stretch of code between two awaits, one per thing the server, the network, the caller or another program does meanwhile |
| `AtomicAutostart` | what the tool promises: each call merges in one step | the abstract specification `Autostart` implements |
| `ContainerIds` | `_normalize_id`, `_is_short_id`, `bare_container_id`, `strip_server_prefixes` | operators over the forms of ids: full, bare, short, or a word |
| `ContainerRefs` | `list_docker_containers`, `fetch_container`, `resolve_container_ids` and `update_docker_containers` | `seen` and `shown` are the listing a caller was given, `rows` the one ids are looked up in, `pc` the request that is awaited; the build decides which of the three requests for one container are there. Between any two requests other programs change the containers |
| `ContainerOps` | start, stop, restart, pause, unpause, update, remove of one container, with `resolve_container_id` and the gates | `pc`, `seen` (the listing a short id was looked up in), `target`, `op` and `flight` (the mutation at the server, which may be carried out after its caller gave up) |
| `Sampler` | `subscriptions.py` and `fetch_container_stats` | `phase` is the await the call is at, `timer` its deadline, `now` the loop's clock, `socket` the transport, `pending` the outcome on its way out |
| `Progress` | `progress_reporter`, `with_heartbeat`, `_reap` | `tool`, `beat` and `worker` are the three tasks, `queue` and `unfinished` the `asyncio.Queue` |
| `GatherAll` | `gather_all` | `task`, `caller`, `outer` (the future of the first gather), `raised` |
| `GraphQL` | `UnraidClient._execute`, `is_permission_error`, `unsupported_field_error` | operators from a response to data or to the class of an exception |
| `Health` | `fetch_health`, `safe_query_with_status`, `summarize_health` | extends `GatherAll`: its tasks are the five queries, whose answers decide whether they succeed or fail; `stage` is what comes after, the sixth query included |
| `Lifespan` | the lifespan of `build_server`, the reads of `resources.py` | `running` is the holder, `http`, `versions` and `roles` belong to an entry |
| `LogPages` | `fetch_log_file`, `shape_log_file` and a reader who follows `next_start_line`; `fetch_container_logs`, `shape_container_logs` and a reader who follows the cursor | a line is its length, a timestamp the number of its line; `start` is the reader's position |
| `Tools` | the functions `register*` | the 60 tools by tier, the actions of each, the mutation each of them sends, those that are destructive and those that ask a human |
| `HttpGate` | `load_settings`, `_with_bearer_token`, the middlewares of `health.py`, `origin.py`, `auth.py` and the SDK's check of Host | operators from settings to a token, and from a request to an answer, layer by layer |
| `Permissions` | the start of a process, `register_all`, `_apply_allow_list`, `guarded`, `require_confirm`, `require_confirmation`, `_ensure_read_only` | `settings`, `gate`, `registered` are the process; one call over stdio or, behind `HttpGate`, over HTTP, with the human's answer to it, across restarts. `effect` is what reaches the NAS |

`MCx` modules give the constants of `x` small values for TLC. `x_proofs` modules hold the
theorems about `x` (`Health_proofs` also those about `GatherAll`, `Autostart_proofs` those
about `AutostartMerge`); `Server_proofs` holds those about `Permissions` and `Lifespan`,
`Loops_proofs` those about `AutostartList` and `LogPages`. An operator named `D_Variant`, defined just before `D`, is `D` with a
plausible mistake; nothing uses it. Putting it in place of `D` makes TLC report the
property `PROJECT.json` lists for it under `mutants`, which shows that the property would
notice. External definitions are the NAS, the network, asyncio, httpx, the MCP SDK and the
human, as the code relies on them.

Abstractions that matter when reading a result:

- *Autostart.* A request that raised (timeout, transport error) or was cancelled may still be
  carried out if `LateWrites`. HTTP timeouts bound inactivity per read, so "the client bounds
  each wait" is an assumption about servers that do not trickle bytes.
- *ContainerRefs.* Upstream matches ids exactly and in lower case (`MatchedUpstream`), which is why
  the code normalises full ids and looks short ones up. No two containers have one name.
- *ContainerOps.* The listing behind a short id is read without `strict`, so rows may be
  missing from it; `Meant` in `SuccessMeansDone` is relative to the listing that was seen. A result
  `{"ok": false}` is not a success. The repetition of a modern client's call after a prompt
  is one call here and two in `Permissions`.
- *Sampler.* Handling frames without awaiting may hold the loop for up to `Step`; the bound of
  the call needs `2 * Step <= Grace` (the loop's top and the start of the cleanup can each be
  that late), which the proof brought to light. An odd frame that raises a Python error is the
  outcome `crash`. `on_new` in production only enqueues and raises nothing.
- *Progress.* A worker that stalls in its cleanup while the caller cancels the reap is left
  without a strong reference; `HelpersStopped` says so.
- *GatherAll.* A task lets its own cancellation through: the queries catch `httpx` errors only.
- *Health.* What makes a disk, a UPS or a sensor critical is data (`says`). A "Forbidden
  resource" message without an error code is not a permission error for the UPS check.
- *Lifespan.* A read that is under way when the lifespan exits may fail over a closed client.
- *LogPages.* Rotation of the file is not modelled. The reader goes on at `next_start_line`; one
  who adds up `lines`, as the parameter's text may suggest, skips what a cut page left out. The
  API's cursor is the newest line's, as the tool's docstring says.
- *Permissions.* Sessions and streams are the SDK's. An old token, an old list of tools and a
  human's answer to an old process are what a client may come with after a restart.

## 3. Runs

Deadlock is not checked where the system stops by itself (the calls are finitely many and
end); it is checked in `permissions`.

| Run | Question | Bounds, and why they are enough |
|---|---|---|
| `autostart_order` | Are concurrent calls as good as one after another? `NoLostUpdate`, `OthersKept`, and the refinement `CallsAreAtomic` | two calls; every stored list of three containers; a request that disables and enables, one that enables two and reorders, and one that moves a single container to the front of the two others. Two calls are the least that can lose an update, three containers the least with two bystanders whose order can be lost; the theorems need no bound |
| `autostart_hostile` | What holds with late writes, foreign writes, partial reads and cancellations? `WriteNeedsFullRead`, `RejectedSentNothing`, `EveryCallEnds` | two calls, twelve requests: each reason to reject, and conflicting changes by full, short and shared ids |
| `merge_agrees` | Does the loop compute the definition, and is a repeated call harmless? `LoopComputesMerge`, `RepeatChangesNothing` | every listing of three containers and every request of up to two changes and two order entries over five texts |
| `autostart_late_write` | violation: section 6 | two calls on two containers, with late writes |
| `container_refs` | Does a reference mean what was meant, though listings are stale? `ResultIsMeant`, `ShownIsFound`, `SentAreMeant` | two containers that share a 12-hex id, a longer id of one of them, names that are words or look like either's id; batches of up to three ids with a limit of two. Two containers are the least that can be confused; every way of writing an id is there |
| `container_ops` | Does what is reported hold? `SuccessMeansDone`, `RejectedChangedNothing`, `RestartLeavesNothingStopped` | two calls, two containers and one id to recreate one under, twelve requests; builds with and without `docker.restart` |
| `sampler` | Is the call bounded and clean whatever the peer does? `CallBounded`, `SocketReleased`, `SnapshotCoversCycle`, `FirstReadingKept`, `CancelPropagates`, `PrimaryOutcomeKept`, `CallEnds` | three containers, a window of three, a grace of two: every await can be the one its timer, the peer or the caller interrupts, and a cleanup can start before, at and after the window |
| `progress` | Do reports stay in order and out of the way? `JoinCountsPending`, `ProgressIncreases`, `FlushedBeforeReturn`, `HelpersStopped`, `NoReportAfterEnd`, `ToolReturns` | five messages, the last one after the heartbeat, through a queue of two: the queue overflows while a message is being sent, and messages are still queued when the flush begins |
| `health` | `NothingLeftRunning`, `OriginalErrorRaised` of the queries; `OkMeansRead`, `SignalsSurvive`, `BrokenAccessFails` of the verdict | four to eight kinds of answer to each query, in every order, with a cancellation at any await |
| `lifespan` | Does every reader get a live client, and does startup end? `HolderServes`, `StartupEnds` | two entries and two reads: overlapping, one after the other, or refused |
| `permissions` | Who can make the server send what? `NothingBeyondSettings`, `DestructiveIsAgreed`, `OnlyBearersAct` | all 60 tools with their actions, all flags, three allow lists, seven ways to be reached (two of them refused at start), every kind of document and of client; three tokens to generate, of which two runs use one each: enough for a token of the process before |
| `log_pages` | Does a reader get each line once, and know of what it misses? `EveryLineOnce`, `LossIsAnnounced`, `ReaderReachesEnd` | every log of up to four lines shorter than, just under and longer than the page of four characters, read three lines at a time, growing meanwhile |

**Fairness**, where a property needs it. *Autostart*: the event loop runs a call that can go on,
a released lock goes to the first waiter, and a timeout ends each wait for an answer; nothing
is asked of the server. *Sampler*: the clock ticks and due timers fire; nothing is asked of
the peer. *Progress*: a cancelled heartbeat ends, a last message is put, and the timers of flush
and reap fire; no send has to return, and no cancelled send to end. *Lifespan*: every probe ends,
then the entry is admitted or refused; nobody has to leave. Where only the HTTP timeout bounds a
request (the version probe, and the read and write of an autostart call) the fairness asks a
little more than the code gives: httpx bounds each read and not the whole request, so a server
that sends a byte now and then could hold it open. The liveness runs leave that server out.
*LogPages*: the reader goes on reading; nothing has to be logged.

## 4. What is proved

For every value of the constants, under the named assumptions beside their declarations
(e.g. `NoCallType`: a free lock is nobody's; `StepType` of the sampler, above). Each module has
an inductive invariant: it holds at the start and every step keeps it, one lemma per group of
actions; the theorems follow from it. `PROJECT.json` lists which property each states.

- **Autostart** (`Autostart_proofs`). The lemmas about the merge: it makes a well-ordered list of
  one (`MergeWellOrdered`), does what was asked (`MergeHonours`), leaves the settings of
  containers it does not name alone (`MergeLeavesOthers`) and, named or not, the order of those
  that stay enabled and are not listed (`MergeKeepsOrder`). `SafeInv` is the types, the order of
  the stored list, the lock held exactly by the call in the section, and what each `pc` says of a
  call's snapshot and write (`CallInv`). `CallInv` is what makes it inductive: that a write was
  computed from a full read is only known through the checks passed before. From it:
  `TypeCorrect`, `StoredListWellOrdered`, `LockSafe`, `NoPartialRewrite`, `RejectionIsHarmless`,
  in every environment. Under `Undisturbed` (no late write, no other program) `AtomicInv` adds
  that a request in flight has a caller who waits for it, that a snapshot in use equals the
  stored list, and `NoLostUpdate`: the lock keeps the snapshot fresh, so what is merged into it is
  merged into the list. From it: `SnapshotStaysFresh`, `NothingIsLost`, `OnlyNamedChange`, and
  `Implements`: every step is a step of `AtomicAutostart` or a stutter.
- **Sampler** (`Sampler_proofs`). `SamplerInv` relates clock, timer and phase (no phase outlives
  its deadline by more than a `Step`), socket and phase, readings and reports. From it:
  `CallIsBounded` (window + two grace periods), `SocketIsReleased`, `CancellationPropagates`,
  `SnapshotIsComplete`, `ReadingsAreFirst`, `NoLateReading`, `OutcomeIsKept`, for every window and
  number of containers.
- **Progress** (`Progress_proofs`). `ProgressInv` adds to the types the order of the numbers that
  are queued, being sent and received (`OrderInv`), which tasks may be there in each phase of the
  call (`TaskInv`), and that `join` counts what is queued or being sent. From it: `JoinIsExact`,
  `NumbersIncrease`, `FlushIsComplete`, `TasksAreReaped`, `ReportsEnd`, for every number of
  messages and size of the queue.
- **gather_all and health** (`Health_proofs`). `GatherInv` relates the outer future, the tasks and
  the caller: once siblings were cancelled none is left that merely runs. From it: `NoTaskLeaks`,
  `ErrorIsOriginal`, `ResultsComplete`, for any number of tasks. The health summary's steps are
  steps of `gather_all` or leave it alone (`SummaryGathers`), so it inherits them
  (`SummaryLeaksNothing`); `AnswerInv` says which answer made a query succeed or fail and
  `StageInv` what the verdict was made of. From both, whatever the server answers: `OkIsRead`,
  `SignalsDecide`, `BrokenAccessRaises`.
- **Lifespan** (`Server_proofs`). `HolderInv`: whoever is in the holder has an open client and
  finished its startup. From it `ResourcesAreServed`, for any number of entries and reads.
- **References** (`ContainerRefs_proofs`). `RefsInv` says what a display shows (`DisplayInv`), which
  row or id each request of a look-up is about (`GetInv`), and that an ended call's arguments,
  listing and outcome belong together. From it: `LookupIsFaithful`, `BatchIsFaithful`, and
  `ShownIdsAreSafe`, for every set of containers and every clash of ids and names.
- **Container tools** (`ContainerOps_proofs`). `OpsInv` says of each call what its target was
  resolved from, which mutation is under way and which went before it (`Prior`: a restart's stop
  before its start). From it: `SuccessIsReal`, `RejectionIsClean`,
  `RestartIsAtomicWhereNative`.
- **Permissions** (`Server_proofs`). Lemmas about the tables (the tiers are disjoint, what a
  read sends is a read, which mutations only dangerous tools send), then `PermInv`: what the
  running process publishes is what its settings enable, its token is the configured one or the
  last that was generated, a call that has arrived came through the gate of the process it is in,
  and one that waits for an answer does so in its process or with a modern client. From them: `SettingsBound`, `DisruptionIsAgreed`, `BearersAct`, for all
  settings and requests.

- **The merge as a loop** (`Loops_proofs`). What a loop over a list makes is a recursive function on
  `0..n`. That there is one (`Recursion`) and what it gives for every `n` is proved by `Induction`
  for the *set* of the numbers that have a property, which follows from `LeastNumber`. Each
  operator then has a lemma in terms of members, of entries and of who is `Ahead` of whom:
  `SelectList` and `SelectOrder`, `SortedList`, `ApplyChangeList`, `PutFirstList`. `AfterChanges`
  is the loop's invariant: the list after `n` changes in terms of the one before the loop and of
  the containers switched `On` and `Off`, each change naming one of its own. From it `LoopAccepts`,
  `OrderAgrees`, `WaitsAgree` and so `LoopAgrees`: for listings and requests of any length the loop
  and the definition reject the same requests and give the same list. `ListsAreBootLists` says
  that what is read and written has the form the theorems of `Autostart_proofs` are about;
  `SameList`, that this form determines the list. For the second call, `ListInv` adds that
  the stored list is `Settled` (it does what the request asks) and that the server `Holds` it (the
  listing says so): then sorting the listing gives that list (`StoredIsCurrent`), and every
  change and the order find it as they want it (`NothingToDo`). From it `RetryIsIdempotent`.
  Assumed (`RowListsType`): a listing names a container once. Without that the sort, the merge
  and the retry all have no meaning, and the server's ids are keys.
- **Log pages** (`Loops_proofs`). The same induction gives the sums of line lengths: they grow with
  the number of lines (`SizeGrows`), so some number of lines fits and no more (`FittingIsSome`,
  `KeepFromIsSome`) and the page holds just those (`KeptLines`). `LogInv` says what the reader's
  position means: of a file, that it has every line before it, of a container that it has none
  after it, and that what was cut was too long. From it `NothingTwice` and `NoSilentLoss`, for
  logs of any length, lines of any lengths and any budget.

Every safety and action property of the passing runs is a theorem's. `StoredListWellOrdered`,
`LockSafe`, `SnapshotStaysFresh`, `NoLateReading`, `ResultsComplete`, `ListsAreBootLists` and the
types are proved and not run. Only model-checked: all liveness (`EveryCallEnds`, `CallEnds`,
`ToolReturns`, `StartupEnds`, `ReaderReachesEnd`: the prover does not reach properties that need
fairness, nor `ENABLED`).

## 5. What is not modelled, and the plan

Not modelled: the text of descriptions, results, prompts and logs, the projections of JSON
(`formatting.py` but for ids, logs and the verdict), the text of the queries, the schemas, the
compact results, the redaction of secrets, the parsing of the environment: no state, no order of
events. One-query reads are one request with one outcome; `get_system_info` sends two under
`gather_all`, which is modelled for any number. Updating all containers, refreshing digests and
resetting templates name no container and send one mutation each: `Permissions` has their gates
and what they send. The sizes that `get_docker_container` may add come from a listing of their
own and are left out.

The order of the work, done and left:

1. *Done*: autostart with its abstract specification; sampler; progress; gather_all and the health
   summary on top of it; lifespan; references to containers; container operations; log pages of
   files and containers; start, HTTP layers, registration and gates as one way of a call; proofs
   of all their safety properties.
2. Next proofs: that the short ids of a listing (`ContainerIds`) give the references
   `AutostartMerge` and `ContainerOps` start from (`Denotes`).
3. Next models: the composition of `Progress` with `ContainerRefs`' batch update (the heartbeat of
   a long mutation), and of `Lifespan` with the process of `Permissions`.

## 6. Findings

- `autostart_late_write`: the comment at `tools/docker.py:749-750` says that concurrent calls
  cannot drop each other's updates. The lock is released when the awaited write raises, also
  when it timed out or was cancelled and the server is still working on it. The counterexample:
  one call's write is sent and given up, a second call takes the lock, reads, writes and is
  acknowledged, and the first write then replaces the list.
- Read, without a run of its own: a socket that the *server* closes after a first reading ends the
  sample with `deadline_hit` (`subscriptions.py:169`) at any time before the window's end. The
  result's note (`tools/docker.py:500-501`), the docstring (1170-1171) and `docs/llm-usage.md:92`
  say that the window elapsed. `PeerCloses` models it.
- Read, without a run: the docstring at `tools/docker.py:1138-1139`, the error at 382-383 and
  `docs/llm-usage.md:90` say that one pages further back in a container's log by passing a page's
  cursor as `since`. The cursor belongs to the page's *newest* line (1147) and `since` asks for the
  lines after it, so no later page has an older line. `Cursor` and `Tailed` model it.
- Read, without a run: the docstring at `formatting.py:593` says that the longest prefix that fits is
  left of a line that is cut. Half the excess is dropped in a round, which is too much where
  characters serialize to six: a line of control characters longer than one and a half times the
  room is cut to nothing, and the reader goes on behind it.
