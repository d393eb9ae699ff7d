# A verification development for sf-dev-console

sf-dev-console is a browser and desktop console for Salesforce orgs. A React
client talks to a local Fastify server; the server drives the `sf` CLI, and
calls the org's APIs directly where that is faster. Everything that is hard to
test in it is concurrency inside one process: callbacks of child processes,
timers and promises that share tables, caches that several callers fill and
empty at once, files that outlive the process, and requests whose answers come
late or not at all.

This directory holds TLA+ models of that core, the TLC instances that check
them, and theorems about them that TLAPS proves. `PROJECT.json` maps every
definition to the lines of code it stands for.

## 1. Inventory

### Server: commands and caches

| Component | State | Operations | Interacts with |
|---|---|---|---|
| Command runner, `server/src/cli/CliRunner.ts` | slots in use, queue, TTL cache, commands in flight | `execute`, `invalidate`, `version`, and the callbacks of the child process | every route; `auth.ts`, `runtime.ts` |
| State store, `server/src/state/store.ts` | the state, dirty flag, debounce timer, chain of flushes, two files | `updateState`, `flush`, `flushNow`, `loadState` | routes that record activities, retrievals, saved sets, deployments; `server.ts` signals; the desktop shell |
| Read cache, `server/src/sf/cache.ts` | entries with a parked load, persisted files | `cached`, `hydrate`, `persist`, `invalidateCache`, `pruneDiskCache`, `peek` | metadata, editor and data routes; loads go through the fast path or the CLI |
| Token provider, `server/src/sf/auth.ts` | per org: token, parked acquisition, cooldown; secrets backoff | `auth`, `expire`, `reset`, `acquire` | `sf org display` through the runner |
| Direct API client, `server/src/sf/api.ts` | none of its own; one HTTP request per attempt | `send`, `soap`, `query`, `batchGet` | token provider |
| Fast path, `server/src/sf/runtime.ts` | counters | `readFast`: API first, CLI as the fallback | API client, runner; `apex.ts` and `data.ts` use it for writes too |

Hard: callers join a command or a load that belongs to another caller, with
that caller's signal; the timer, the abort signal and the exit of a child race
to settle one promise; an invalidation arrives while a load is in flight; a
file write is still running when the file is removed; a token is dropped while
an acquisition is parked on it; a response is lost after the org has acted.

Correct means: slots are counted exactly and granted in order; one command or
load per key where the code says so; nobody waits for something that is over;
answers do not go back in time; the state file is always complete and moves
forward; a mutation is carried until it is written; what a write reports is
true.

### Server: jobs and workspaces

| Component | State | Operations | Hard |
|---|---|---|---|
| Retrieval jobs, `routes/retrievals.ts` | records in the state store, archives | start, finish, download | the promise that finishes a record dies with the process |
| Org-to-org deployment, `routes/orgDeploy.ts`, `orgDeployCompare.ts` | at most three comparisons with their directories, history | compare, diff, preview, deploy, PATCH of the history | a comparison is evicted while it is read; a deployment is recorded only after its CLI call answers |
| Editor workspace, `routes/editor.ts`, `sf/editorSource.ts` | local copies of components | list, open, read, save, add a file, create, rename, delete | local copy, org and component list change independently; nothing makes one request wait for another |
| Data routes, `routes/data.ts` | none | query with paging, record, update, delete | limits, a list of writes of which one fails, lost answers |
| Project deployment, `routes/deploy.ts` | none | deploy, report, cancel, quick deploy | |
| Other routes, `orgs.ts`, `metadata.ts`, `apex.ts` | none | reads through cache, runner and fast path | covered by those |
| Manifest, normalizer, line diff | none | pure functions | |

Correct means: what is reported as done is done and what is done is reported,
through restarts and lost answers; a package holds what was reviewed; a write
changes what it was meant to change and nothing else.

### Client and desktop

| Component | State | Operations | Hard |
|---|---|---|---|
| Resource cache, `client/src/lib/resource.ts` | per key: value, timestamp, stored promise, abort timer, listeners | `useResource` (mount, unmount, refresh), `invalidate`, `clearResources` | aborts, invalidations and new subscribers meet a load in flight |
| Deployment wizard, `features/orgDeploy` | step, comparison, choices, diff pane, result panel | the five steps, polling, cancel, quick deploy, restart | every answer comes into whatever the page has become |
| Job strip and project deployment, `lib/jobs.ts`, `JobStrip.tsx`, `DeployPage.tsx` | tracked jobs, dismissal timers | track, poll, dismiss, cancel, quick deploy | pollers race what they poll for; two jobs under one identifier |
| Editor, `features/editor` | tree, tabs, neither of them by org | open, edit, save, close and the routes above | edits while a save is out; another org is selected under open tabs |
| Query page and record inspector, `features/query`, `features/inspector` | result, ticked rows, confirmation; record, draft | run, tick, delete; inspect, edit, save | inputs, org and page change between what is shown and what is written |
| Desktop shell, `desktop/src/main.ts` | the server process | start, quit | quitting does not go through the signal handlers |
| Updater, `desktop/src/updater.ts` | published status, release, downloaded file | check, download, install | checks and downloads overlap |
| Other pages, router, theme, UI primitives | view state | | presentation |

## 2. The modules

| Module | Models | Theorems |
|---|---|---|
| `CliRunner` | the command runner | `RequestSharing_proofs` |
| `DurableState` | what the store promises, abstractly | |
| `StateStore` | the store, the signal handlers and the end of the process | `Persistence_proofs`, including the refinement of `DurableState` |
| `ReadCache` | one key of the read cache, in memory and on disk | `Persistence_proofs` |
| `AuthProvider` | the token table of one org | `FastPath_proofs` |
| `FastPath` (extends `AuthProvider`) | requests through tokens, HTTP and the CLI fallback | `FastPath_proofs`, refines `AuthSpec` |
| `ClientResource` | one key of the client's cache | `RequestSharing_proofs` |
| `CompareScope` | the algorithms of `orgDeployCompare.ts`: grouping, comparison, security closure, package, CLI arguments | its lemmas are in `OrgDeploy_proofs` |
| `OrgDeploy` (extends `CompareScope`; `MC_OrgDeploy` gives two orgs) | the handlers of `orgDeploy.ts`, the table of comparisons and their directories, the org's jobs, the history | `OrgDeploy_proofs` |
| `DeployWizard` (`MC_DeployWizard` gives the rows) | the page over those handlers, with its requests in flight | `DeployWizard_proofs` |
| `BackgroundJobs` | retrievals with the window's list, project deployments with the strip | `BackgroundWork_proofs` |
| `EditorWorkspace` (`MC_EditorWorkspace` gives the components of each type, in one org or two) | the editor's routes and page | `EditorWorkspace_proofs` |
| `DataWorkspace` (`MC_DataWorkspace` gives the records) | the query page, the inspector and the data routes | `DataWorkspace_proofs` |
| `DesktopUpdater` | the updater and its card | `BackgroundWork_proofs` |

Conventions. Node and the browser run one callback at a time, so an action is
one synchronous run of the code, from an event, a timer or the settling of a
promise up to the next `await`. Data is a *version*: the number of changes made
to the thing that was read. Freshness and loss are then comparisons of
versions. Variables that only serve a property are commented as such. A
definition that differs from another by a bug ("Mutant", or a comment that
names the missing step) is not part of any specification; it is there to show
that a property notices that bug.

**CliRunner.** A request is one call of `execute()`. `ExecuteDirect`,
`ExecuteHit`, `ExecuteJoin` and `ExecuteLead` are its four ways in; `Acquire`
and `Release` the slot pool, in which a released slot runs the closure that the
next waiter queued. `Spawn` and `SpawnAborted` are the continuation of
`acquire()`. `CloseOk`, `CloseErr`, `Timeout` and `Abort` settle the promise,
whichever is first, and `Settle` does what follows in the same turn: the slot,
the cache, the in-flight table, the callers that joined. A killed child stays in
`procs` until `LateExit`. `VersionStart`/`VersionEnd` is the probe outside the
pool.

**StateStore.** A version stands for a whole state. `Chain` appends a flush to
the promise chain; `MayRun` is the chain; `Begin`, `Written`, `Rename`, `Done`
and `Fail` are the awaits of `flush()`. `Signal` is `flushNow()` from
`server.ts`, `DesktopQuit` the shell's `app.quit()`, `Crash` anything else,
`Start` the next `initStorage()`/`loadState()`. A temporary file is torn from
the moment it is opened until it is written.

**ReadCache.** `Read` is `cached()` up to its first await; `Hydrate` continues
after the file was read; `LoadReads`, `LoadOk` and `LoadErr` are a load, which
reads the org at one moment and stores the result at a later one. File
operations are started and not awaited, as in the code (`ops`), and two that
overlap may leave a torn file. `Tick` ages everything together.

**AuthProvider and FastPath.** An entry holds a token, a parked acquisition or
a cooldown. `Auth` answers, joins or starts; `AcquireOk` and `AcquireFails`
replace whatever entry they find, as the code does; `Drop` is `expire()`.
`FastPath` adds the life of a request: `Ask`, `Send`, the org's own step
`OrgHandles`, the response or its loss, the second attempt after a 401 and the
CLI. What the org does is separate from what the caller hears of it: a response
may be lost, and a SOAP response may speak of an invalid session though the org
did what was asked, because `soap()` looks for the words in the whole of it, debug
log included (`SoapRejected` on an `echoed` message). A refusal is final
(`Refused`) unless it is a 403, a 429 or without a code, which go to the CLI
(`Throttled`).

**ClientResource.** `Mount` and `Unmount` are the effect of `useResource` and
its clean-up, `GraceOver` the abort timer, `Fetch`/`LoadShared` the function
`load`, `Resolve`, `Fail` and `AbortSettles` the settling of its promise.
`Clear` is `clearResources` for this key. Entries of different keys do not
interact, so one key is enough; a deleted entry equals a new one, except for
the request that still runs for it, which the model keeps.

**CompareScope and OrgDeploy.** A path is a sequence of segments, a segment a
base and an extension, so that what `baseName()` and the `unpackaged` wrapper do
to names is done to paths; a hash is the content it stands for. `OrgDeploy` has
one action per run of a handler between awaits: `Compare`, `RetrieveSource`,
`RetrieveTarget` and `FinishCompare`, which stores the comparison and evicts the
oldest; `AskDiff`, `AskPreview` and `AskDeploy` look a comparison up, and
`ReadDiff`, `BuildPreview` and `BuildScope` read its directory later. `Display`,
`Submit` and `Answer` are the two CLI calls of a deployment; between `Submit` and
`Answer` the org has accepted the job and nobody here knows. `RemoveSome` and
`RemoveRest` are the removal that an eviction started and nobody awaits.
`JobSucceeds` and `JobFails` are the org's, `PatchHistory` the report that the
client sends back. The history is in memory and in the state file (`saved`):
`Save` is a flush of `StateStore`, and `Restart` leaves what was saved.

**DeployWizard.** `pane` and `panel` exist while the step that shows them is
mounted, so `Show` creates and drops them. `comparing` and `executing` are the
two requests in flight; their answers (`CompareAnswers`, `ExecuteAnswers`) go
into whatever step is shown by then. `PaneEffect` is the effect of the review
step, which aborts the previous request; `Poll` one round of the panel's timer
and `DeliverPatch` the report it sends and does not wait for. The server behind
it is `OrgDeploy`; here it is the guard `Accepts` and the jobs.

**BackgroundJobs.** `record` is what the server remembers of a retrieval, `saved`
what `StateStore` has written of it: `Save` is a flush, `Restart` the end of the
process with or without one. `WriteArchive` and `CommandEnds` are the CLI,
`RecordOutcome` the promise that waits for it. The window's list is one entry of
the client's cache with one GET at a time: `Announced`, `PollList` and `OpenPage`
want one, `ReadList` is the server's part and `ListArrives` its delivery. As in
`load()`, whoever wants a GET while one is in flight gets that one's answer, even
if the server has read the list already (`missed`). The other half is the strip:
`Track`, `Poll`, `Dismiss` and `TimerFires` are `jobs.ts` and `JobStrip.tsx`, the
rest the buttons of `DeployPage.tsx`.

**EditorWorkspace.** Each request is a process with a program counter (`pc`),
one action per await of its handler: `CheckExists`, `FetchAnswers`, `Wipe`,
`WriteFile`, `WritePackage`, `RetrieveAnswers`, `WriteContent`, `Deploy`,
`Destroy`, `RemoveCopy`, and the answers. Two run at once. A deployment succeeds,
fails, or is answered with a refusal (`refused`), which the handlers and the page
treat as an answer like any other. The parts of a component are versions, so that
what a deployment brings back of a part is visible; `ApexSource`, `LwcBundle` and
`AuraBundle` say which parts each way of reading a component gets, and
`PlainFiles` which of them the copy of a rename takes: "extra" stands for the
subfolders of a Lightning web component, which are read but not copied, and for
the Aura definitions of an unknown kind, which are not read. Copies and cached
lists are by org, tabs and the files of the tree by name alone, as in the code;
`SelectOrg` changes the org under them, and `from` remembers which org a tab was
opened in. `ListReads` and `ListAnswers` are the cached list.

**DataWorkspace.** A slot holds a request with its stage: on the direct path, on
the CLI, or answered. `Paged` is one round of the loop in `query()`,
`DeleteArrives` the route's cut and its check of the confirmation, `DeleteOne`
one deletion, whose answer may be lost on either path. The fields `lived`,
`ticked` and `astray` mark the exceptions of the properties below, `from` what
the page had read when it sent a write.

**DesktopUpdater.** A click is a process through `CheckAnswers`, `Download`,
`BeginWrite`, `EndWrite`, `Verify` and `Install` over the shared variables of
the module (`release`, `path`, `status`), while `Publish` adds releases.

## 3. The runs

| Run | Distinct states | What it asks, and of what |
|---|---|---|
| `runner` | 251 000 | three requests on two slots, one key, uncached calls, a version probe, children that may hang: `WorkConserving`, `NoOrphan`, `AnswersMonotone`, `EveryCallSettles` |
| `store` | 10 000 | every order of up to four mutations, timers, flushes, failed writes, signals, crashes and restarts: `SignalSaves`, `EventuallyDurable`, and the refinement `PromiseSpec`, which says that the file is always whole and never goes back |
| `cache` | 152 000 | two readers, two loads, restarts, invalidations, overlapping file operations, for a persisted and a memory-only key: `LoadsAreLive` (no dead promise is joined, no revalidation gets stuck, one load at a time for a plain key), `ServedWithinWindow`, `EveryReadEnds`, `AnswersMonotone` for a plain key |
| `fast` | 764 000 | two operations that share tokens, two sessions, lost responses, responses that echo a rejection, throttling, clients that leave: `AppliedOnceUnlessUnclear`, `ReportsAreTrue`, `EveryRequestEnds`, and `FastPath` uses the tokens as `AuthSpec` allows |
| `fast_twice` | violation | the same without the exceptions: a write that the org has carried out is carried out again by the CLI (runtime.ts:35): `AppliedOnce` |
| `resource` | 224 000 | two components, three unsettled requests: `FreshSinceUnlessLate`, `PendingIsLoading`, `EveryComponentServed` |
| `deploy` | 448 000 | two comparisons in a table of one, a diff, preview, validation or deployment, a restart before or after the history was saved: `ReviewsTellTheTruth`, `PackagesAreAsReviewed`, `ValidationNeverCommits`, `AcceptedIsRecorded`, `DiffTellsTruth` |
| `wizard` | 444 000 | a production org and a sandbox, two comparisons and a job, or two jobs and one: `PaneIsOfActiveRow`, `ShipsAsReviewed`, `HistoryTellsOutcome`, `MonitoredToTheEnd` |
| `jobs` | 440 000 | two retrievals, two deployments, or one of each; a restart, a list whose GETs overlap the retrievals, cancellation, quick deployment and dismissals: `SuccessIsDownloadable`, `RetrievalIsShown`, `StripTellsTruth`, `DeployIsReported` |
| `editor` | 2 571 000 | two requests on Lightning web components of two names, an Aura bundle, or classes of one name in two orgs between which the window switches; changes by other people, refused and failed deployments: `SaveSparesTheRest`, `CleanMeansSent`, `CreateSparesOwn`, `RenameKeepsFiles` |
| `data` | 2 160 000 | two requests over two orgs that hold the same three ids, with three events among requests, switches, navigation and others' changes: `ResultsAreWhole`, `WritesAreMeant`, `RowsTellTheOrg` |
| `updater` | a few thousand | two clicks and three releases, signed or not, with an artifact or not: `InstalledIsVerified`, `UpdateSettles` |

The type invariant of a module is a conjunct of one of the invariants of its run
or is proved; each property of a passing run has a mutant in `PROJECT.json` that
violates it. Deadlock is checked in `runner`, `store`, `cache`, `resource` and
`wizard`; elsewhere requests, jobs, releases and other bounded events run out,
and the system may stop.

**Where a passing property has an exception, the exception is what the code
really does.** Each is a place where a reader of the code may be surprised:

- *Writes twice.* `AppliedOnceUnlessUnclear` excludes lost responses, and SOAP
  responses in which the words INVALID_SESSION_ID occur anywhere, for instance in
  the debug log of the very Apex that ran (api.ts:273): both are thrown as
  retryable and the CLI carries the write out again, as `fast_twice` shows.
- *Stale data that counts as fresh.* `FreshSinceUnlessLate` excludes a load that
  was under way when `invalidate()` came: it sets `updatedAt` with data from
  before, although the comment at resource.ts:87 says that mounted entries
  reload immediately. On the server a load in flight stores what it read over an
  invalidation as well (cache.ts:149-151); `CreateSparesOwn` excludes the
  creations that met such a load.
- *Pending for ever.* `PendingIsLoading` and `EveryComponentServed` exclude a
  component over an aborted load: selecting another org while a component that
  stays mounted is loading calls `load()` before the abort has cleared the
  stored promise (resource.ts:112, 124).
- *Two loads.* `SingleFlightPlain` excludes persisted and invalidated keys:
  readers that hydrate a persisted key at once store an entry over a parked load
  (cache.ts:68), although cache.ts:91 says that only one is ever running.
- *Lost mutations.* `EventuallyDurable` excludes a failed write, which nothing
  retries until the next mutation (store.ts:108), and the end of the process
  before the debounce: closing the last desktop window ends it that way
  (main.ts:112), although store.ts:114 has a function for it.
- *Deployments nobody recorded.* `AcceptedIsRecorded` excludes a job that the
  org accepted while the CLI's answer was lost (orgDeploy.ts:288), which never
  reaches the history, and one whose record was in memory only when the process
  ended: it is written 250 ms later (store.ts:82-96), and a crash or a quit of the
  desktop shell does not wait.
- *Evicted comparisons.* `DiffTellsTruth` and `ShipsWhatWasReviewed` exclude a
  comparison that was evicted while it was in use: the diff then tells the user
  that a file does not exist in an org that has it, and a package may reach the
  CLI without some of its files. The org refuses a package whose manifest names
  a component that has no file in it; one that has lost a file of a bundle, or
  its list of deletions, it may accept.
- *The wrong job reported.* `HistoryTellsOutcome` excludes records that came
  under a panel which was open for another: the panel has no key
  (OrgDeployPage.tsx:216), keeps its job and reports its outcome for the new
  record. `MonitoredToTheEnd` excludes a quick deployment whose answer names no
  new job: the polling effect does not run again (ExecuteResultStep.tsx:105).
  Leaving the result step and coming back polls from the beginning.
- *Quick deployments on the strip.* `StripTellsTruth` says of such an entry only
  that its identifier is that of a validation (DeployPage.tsx:59): "Succeeded"
  there tells nothing about the deployment. A dismissal timer fires on whatever
  has the identifier by then (jobs.ts:38).
- *Retrievals that run for ever.* `RetrievalIsShown` excludes those a restart
  has interrupted: nothing ends their records, and the strip polls on
  (retrievals.ts:13). It also excludes those announced over a GET that had read
  the list before: `invalidate()` starts no second one (resource.ts:95-99), the
  old list then counts as fresh (67), and the strip polls only while its list has
  a record that runs (JobStrip.tsx:26-30), so that nothing shows the retrieval
  until a page asks again. resource.ts:87-88 says that mounted entries reload
  immediately.
- *What a save carries along.* `SaveSparesTheRest` excludes copies that no longer
  were what the org had: the content of a refused save stays in the copy, rides
  along with the next one, and a tab opened on it shows it as clean; the CLI
  unzips a component over an older copy (editor.ts:199), so that a file deleted
  in the org comes back; an open without force returns the copy however old it is
  (editor.ts:208), and a forced one does not reload open tabs. The meta.xml of an
  Aura bundle is made by hand without its package versions
  (editorSource.ts:59-62), and a definition whose kind is not known is skipped
  without a word (270), so that a save drops both: `Kept` leaves them out.
- *Marked as saved.* `CleanMeansSent` says of a tab that lost its mark that what
  was sent is in the local copy, and in the org if it was not refused: the page
  clears the mark for every answer and only then looks whether the deployment
  failed (EditorPage.tsx:181-184), so that a refused save says so once and leaves
  no mark. What was typed while the save was out loses its mark too.
- *Saved to another org.* Selecting another org drops what is cached
  (state.tsx:31-41) but not the editor's tabs and files. A save goes to the org
  that is selected then (EditorPage.tsx:177), and what it replaces there is the
  file of the component of the same name; state.tsx:37 says that everything cached
  is org-scoped. No property promises more than the code does here:
  `SaveSparesTheRest` holds across the switch, because the copy that is deployed is
  that of the second org, and `CleanMeansSent` says that the org which the request
  named has what was sent.
- *Rename.* `RenameKeepsFiles` excludes the subfolders of a bundle, which are
  read and deployed but skipped by the copy (editor.ts:248) and deleted with the
  old bundle (396), so that they are in neither component. It also excludes an
  answer that the new component was refused, at which the route does not look
  before it deletes the old one (395-396); such an answer is rare, since the
  runner makes an error of an exit code or a status that is not zero
  (CliRunner.ts:206). A file whose name does not begin with that of the component
  keeps its content under a longer name (249-250). The dialog of the page has one
  field for the new name and for the phrase that confirms it
  (EditorPage.tsx:506-507), so that it never sends what the route accepts; the
  model checks the route.
- *Written where nobody looked.* `WritesAreMeant` excludes three things: a page
  outlives an org switch (state.tsx:34) and writes to the new org what it read
  from the old; rows ticked while a query runs stay ticked under its result and
  are deleted although they are not shown (QueryPage.tsx:141); a save goes to the
  inputs of the inspector, not to the record that was loaded
  (InspectorPage.tsx:69). The answer of an inspection overwrites what was typed
  meanwhile. More than 50 rows can be ticked and confirmed but never deleted,
  because the server cuts the list before it checks the phrase (data.ts:81-84).
- *Reported as failed.* `RowsTellTheOrg` excludes deletions one of whose answers
  was lost: they are reported as failed though the record is gone (data.ts:105).
- *Overlapping update clicks.* `InstalledIsVerified` excludes clicks that
  overlapped; the second check may replace the release whose checksum the first
  looks up, and the file it verifies (updater.ts:120).

Met on the way, and outside every property: the runner's cap is on slots and not
on processes, since a killed child still runs when its slot is given away
(CliRunner.ts:165, against README.md:149); a caller that joined another client's
command is cancelled with that client (CliRunner.ts:100); a request that is
rejected twice with a 401 fails with a session error instead of falling back
(api.ts:131, against runtime.ts:34-36); two late 401s for one token expire two
tokens and cost two `org display` for one session (auth.ts:117, against
auth.ts:15); README.md:120 says `sf org display --verbose` is never requested,
which auth.ts:88 does; the diff pane shows its spinner for ever after an
aborted request whose row has no difference (CompareReviewStep.tsx:137-142); the
footer of the result table clamps its page but the rows are not clamped, so that
deletions can leave an empty table; a result cut at a limit is shown under its
full `totalSize`; a quick deployment of the project page needs no confirmation;
the request for the body of an Apex log has no timer of its own; words in a SOAP
response that look like a rejected session expire a token that is good, for every
request that shares it (api.ts:273-274).

### Bounds, and why they are enough

- *Actors.* Two readers, components, operations, clicks or requests are enough
  for every race of a pair on one entry. The runner has three requests on two
  slots: two hold slots while one waits, and one that arrives may overtake it.
- *Keys.* The entries of the caches share no state across keys; one key, plus
  calls without a key in the runner, is enough. The theorems about the runner
  are for any set of keys.
- *Versions.* Two versions make one answer older than another; the store has
  four mutations, so that one can be on disk, one in a snapshot, one behind the
  dirty flag and one to come.
- *Time.* A TTL of one tick and a stale window of one give fresh, stale and
  expired; ages saturate beyond both. Timers without a date (debounce, grace,
  timeouts, dismissals) may fire at any moment after they are armed.
- *Loads and acquisitions in progress* (`Loads`, `Acqs`): two or three, which is
  as many as the interleavings of two actors keep apart; while all are in use
  the model starts no further one.
- *Deployments.* `MaxComparisons` is one instead of three and there are two
  comparisons: what matters is that the one in use is evicted. One request at a
  time on a comparison is enough, because requests share only the directory,
  which they read, and the history, in which an older record (`None`) stands for
  another request. `MaxRecords` is one instead of fifty, so that the history is
  either empty or full. The orgs have a bundle of two files, a field, a profile
  and a class: every branch of the grouping that differs in its properties, and
  every status of a row. A removal takes one entry that a handler still needs
  and then the rest; handlers differ only in whether something they need is gone.
- *Wizard* (`MaxCompares`, `MaxWork`). A row to deploy and one to delete; two
  comparisons are enough for one to be replaced, and three pieces of work for a
  comparison with a validation and its quick deployment, or for a deployment
  answered over the panel of another.
- *Jobs* (`MaxWork`, `MaxRestarts`). Retrievals and deployments share no
  variable, so one bound on both is enough. Two retrievals share the list, of
  which one keeps the polling going or not while the other is announced; one
  restart separates what is before from what is after. Two jobs are a validation
  and its quick deployment, or a deployment and either.
- *Editor* (`Scope`, `MaxAsks`, `MaxTabs`, `MaxClock`). Two requests overlap in
  every way; that one of them is a save needs one tab, and one new version, typed
  or from other people, tells old from new. `Scope` has two names where a rename
  moves most, a Lightning web component, and two orgs for the simplest type,
  since what a second org changes is what is kept by name alone.
- *Data* (`MaxEvents`, and limits of 2 with three records). Three ids exceed each
  limit by one: a result of three rows takes two pages and is cut by either limit
  of the paging, the table has two pages, and three confirmed ids are one more
  than a request may name. Three events are a query, what goes wrong meanwhile,
  and the write.
- *Updater* (`Newest`). Three releases: signed and compatible, not signed, and
  without an artifact for the platform.
- `MaxLapses`, `MaxSession` bound how often tokens lapse and
  sessions end; `MaxProbes` the version probes, which feed no property: they are
  there because they run beside the pool.
- *Left out as harmless.* Of the query page, the send with an emptied selection
  after a re-run under the open dialog, which deletes nothing.

### Fairness, and why the code justifies it

- A promise that is settled continues: `Spawn`, `Ask`, `Send`, `AbortSettles`,
  `RecordOutcome`, the handlers of the updater.
- A timer that is armed fires: the runner's command timeout (`Timeout`), the
  store's debounce (`TimerFires`), the API client's request timeout, which turns
  a missing response into a lost one (`Respond`; it is cleared before
  `response.text()`, api.ts:127, 137 and 268-272, so that a body that stalls
  rests on the body timeout of `fetch` itself), the CLI's timeout behind the
  fallback (`CliErr`, `AcquireFails`) and behind a retrieval (`CommandEnds`),
  and the intervals that poll (`PollList`, the two `Poll`).
- The file system answers (`Hydrate`, the store's flushes).
- The server answers a browser request or fails it (`Answer`, `Resolve`, `Fail`,
  `QuickAnswers`, `Announced`, `ReadList`, `ListArrives`), since each command
  behind it has a timeout.
- The org ends its jobs (`JobEnds`): without that no poll could find an outcome.

Nothing is assumed of users, of clients that disconnect, of file writes that
nobody awaits, of when the state is saved, or of a child process that hangs: it
need never exit. `editor` and `data` state no liveness.

## 4. The proofs

TLC checks the instances above; TLAPS proves the following for every value of
the constants. The assumptions are those the modules state: caps and bounds are
natural numbers, sentinels are not members of the sets they stand outside of.
Each component has an inductive invariant (`IndInv`, or a name of its own:
`TableInv` and `RequestInv`, `CacheInv`, `UpdaterInv`, `ResourceInv`, `DeployInv`,
`DataInv`, `EditorInv`), lemmas that it holds initially and that each action
preserves it, and the theorems that follow. Four proof modules serve two
components each.

- **`Persistence_proofs`, the state store.** *Why an invariant*: `NeverTorn`
  alone is not inductive, since a rename copies the temporary file, and that is
  only whole because the flush at the head of the chain wrote it and no other
  flush has opened it since. `ChainInv` says so: only the head has left the
  waiting stage, and once it is written the temporary file holds its snapshot;
  snapshots lie between the file and memory. `OwedInv` relates what was in memory
  when a signal came to the final flush. Theorems: `FileIsWhole`,
  `FileMovesForward`, `CarriedUntilWritten`, `ExitSaves`, `TypeCorrect`, and
  `KeepsPromise`: the store implements `DurableState`, each step mapping to an
  update, a persist, a loss or a stutter.
- **`RequestSharing_proofs`, the command runner.** `PoolInv` ties the counter to
  the cardinality of the requests that hold a slot, through lemmas about adding
  and removing one element; `TableInv` ties each in-flight entry to one pending
  leader and each joined caller to such an entry; `AnswerInv` orders the cached
  version, the versions read by the children, the barrier of the last
  invalidation and the versions answered. Theorems: `SlotsAreCounted`,
  `NoWakeUpIsLost`, `SlotsAreGrantedInOrder`, `OneCommandPerKey`,
  `NobodyJoinsInVain`, `InvalidationIsFinal`, `AnswersNeverGoBack`,
  `TypeCorrect`. `Reqs` is assumed finite only where cardinalities are.
- **`FastPath_proofs`.** Of the token table: `DisplayBudget` needs to know that
  an entry that holds nothing, from which alone an acquisition starts, was paid
  for by a drop (`EmptyIsPaidFor`). Theorems: `EveryWaiterHasAnAcquisition`,
  `DropsPayForDisplays`, `TypeCorrect`. Of the requests: how often the org has
  carried a write out is told by its message and its place (`RequestOk`): nothing
  before it is sent or after a rejection, once for a direct answer that reached
  the org, and at most once more through the CLI, which follows a message that
  was carried out, or still can be, only when its answer was lost or spoke of an
  invalid session. Theorems: `WritesAppliedOnce`,
  `ReportsTellTheTruth`, and `RequestsRefineTable`: `FastPath` implements
  `AuthSpec`, a rejected token being an `Expire` whose caller asks again, so that
  the theorems about the table hold of the requests.
- **`RequestSharing_proofs`, the client's cache.** The live request is the one
  the entry stores (`LoadInv`), a stored promise belongs to a request that has
  not settled (`PromiseInv`), what an answer brings is at least what the entry
  holds, and a present component either has a live request behind the stored
  promise or has been mounted over an aborted one (`WaitInv`). Theorems:
  `RequestsAreShared`, `NobodyRunsUnwatched`, `FreshDataIsRecent`,
  `PendingMeansLoading`, `DataNeverGoesBack`, `ResourceTypeCorrect`.
- **`Persistence_proofs`, the read cache.** That an answer is within its window
  needs to know that no copy of a value, in the entry, in the file or in a write
  under way, says it is younger than the last load that returned it (`Aged`,
  `DiskAged`, `OpsAged`), through restarts and overlapping writes. That a plain
  key has one load, and answers in order, needs the running load to be the
  parked one and the versions it read, holds and has answered to be ordered
  (`PlainInv`). The TTL is assumed to be positive, as every call site's is: with
  a window of zero a load that has just ended would be past it. Theorems:
  `LoadsStayLive`, `AnswersWithinWindow`, `AnswersInOrder`.
- **`BackgroundWork_proofs`, the updater.** While no click has overlapped
  another, at most one is at work (`Alone`), so that what it relies on is its
  own (`OwnFile`): the release it fetches is the one the module knows, the file
  it writes is the one `updatePath` names, and a file that is ready matches its
  checksum if it has one. Theorem: `OnlyVerifiedIsInstalled`, for any number of
  clicks and releases.
- **`BackgroundWork_proofs`, the jobs.** A success seen in the command, the
  record, the file, an answer on its way or the window comes from a command that
  wrote its archive (`Archives`), and what an entry of the strip says is true of
  the job with its identifier (`Truth`), whose kind never changes and whose
  state does not change again once it has ended. Theorems: `SuccessHasArchive`,
  `StripIsTrue`, for any number of retrievals, jobs and restarts.
- **`DeployWizard_proofs`.** The pane is that of the comparison under review, or
  there is none (`PaneInv`); what is chosen for deletion was ticked in that
  comparison and exists in the target only (`ChoiceInv`). That the history tells
  the truth needs that a job the panel polls, or a quick deployment it waits for,
  was made for the record the panel stands for, and that a report on its way is
  true already (`TruthInv`); it stays true because a job that has ended does not
  change again. The orgs, the rows, the number of jobs and the order of answers
  are any. `NoneAssumption` says that the value that stands for nothing is none
  of the values the page can hold. Theorems: `PaneShowsActiveRow`,
  `HistoryIsTrue`, `OnlyReviewedIsShipped`.
- **`OrgDeploy_proofs`.** Three lines of argument, for any files and any change
  of the target, any number of comparisons, requests, records and restarts.
  *What a comparison says*: the lemmas about `CompareScope` compute the groups,
  hashes and rows of any retrieved copy (`GroupsOfFiles`, `HashOfGroup`), so that
  a status is what the copies say of the component, and every component of the
  source has its row (`RowsTellTheTruth`). This needs that the grouping drops the
  manifest a retrieval leaves in the copy, and only that (`ManifestIsRoot`).
  *What a request may do*: its keys are rows that the source has and its
  deletions are rows that only the target has, so that the two cannot be mixed up
  (`KeysOk`, `SourceKeysAreNotDeletable`), and if a field is among them so is
  every profile and permission set of the source (`Closed`). *What becomes of
  it*: only a comparison that has left the table is being removed, so one that
  can be found has its directories whole (`TableInv`, `CmpOk`). What is packed is
  therefore part of what was asked for, and all of it as long as the comparison
  can be found (`PartOf`), also when the comparison is evicted, or the server
  restarted, between two files; the job keeps that package and the arguments of
  its mode (`JobOk`). A job the org accepted is in the history unless its answer
  is on its way or was lost, the process ended before it was saved, or the history
  is full (`RecordOk`); the last one is in front in memory, and in the file once
  that has it (`HistoryInv`). Theorems:
  `ReviewsAreTrue`, `PackagesAreReviewed`, `JobsAreRecorded`, `DiffsAreTrue`,
  `ValidationsCommitNothing`, `DeployInvariance`. `OrgAssumption` says that no
  file of an org is the root manifest, since the retrieval itself writes that
  name.
- **`DataWorkspace_proofs`.** A page that waits is busy and a busy page sends
  nothing, so it listens to one call at most (`PageCallInv`); what it shows is of
  the org and the API on screen unless it has lived through a change of org.
  A deletion accounts for every id that was confirmed (`IdsAccounted`): each is
  still to do, reported deleted, or reported failed, what the org lost for it was
  reported or is unclear, and what is reported deleted has gone. A draft differs
  from its record only where something was typed (`InspectorInv`), and a save
  carries only such fields, to the record they were typed over (`SaveOk`).
  Theorems: `ShownResultsAreWhole`, `PagesWriteWhatWasMeant`, `TableTellsTheOrg`,
  `DataInvariance`.

- **`EditorWorkspace_proofs`.** Requests of the window overlap, so what a
  handler read before an await may be stale after it. What can be known is known
  of a request that is *alone*, as no other has touched its names and nobody has
  changed its component since it was sent: it shares its names with no other
  (`AloneInv`), so that a step of another changes neither what the org nor what
  the copy has of them. At each await it then knows (`RequestOk`): while it
  fetches, what it has still to write and what is in the copy make up what the
  org has (`Fetching`); a save has its content in the copy, then in the org
  unless it was refused (`Saving`); a rename carries the plain files and the
  settings of the old component (`CarriesFiles`) in its copy, in the new copy,
  then in the org unless it was refused (`Renaming`); a name that was found free
  was not made here (`Creating`). The last needs that the cached list of an org,
  and every load of it in flight, has what was made there (`OwnInv`). A copy
  counted as synced has what the org has, but for the one file of the request
  that is about to deploy it (`SyncInv`). A step of the window that is not the
  end of a save leaves a tab's mark as it is (`WindowMarks`, `HandleMarks`). The
  orgs, the components, their number, the requests in flight, the tabs and the
  changes by others are any. `NoneAssumption` says that the value for no copy,
  no list and no request is none of those. Theorems: `SavesSpareTheRest`,
  `CleanIsSent`, `CreationsSpareOwn`, `RenamesKeepFiles`, `EditorInvariance`.

Some of these results are about properties that no run repeats:
`SlotAccounting`, `SingleFlight`, `InvalidationHolds` and `FifoGrant` of the
runner, `NothingForgotten` of the store, `NobodyStranded` and `DisplayBudget` of
the token table, `OneRequest`, `WatchedOrEnding` and `NeverOlder` of the
client's cache.

Model-checked only: every liveness property (the prover has no reasoning about
fairness and `ENABLED`) and the violation. Every other property of a run is
stated by a theorem. Results about recursive definitions for every input are out
of the prover's reach too; no module here needs one.

## 5. What is not modelled

- Request validation and response shapes of the routes, logging, counters.
- Presentation: the other pages, router, theme, styles, formatting and fuzzy
  search; the layout of the editor's tree and its completion, the export of query
  results, the record counts of the object page (which show 0 where a count
  failed), saved selections and the preview of a package.
- Pure functions whose tests enumerate their cases: the manifest writer, the
  normalizer of metadata names, the line diff. They keep no state and the models
  abstract their result.
- The batches of `batchGet()`, which keep no state between them.
- The scripts that install an update once the application has quit, packaging and
  the release workflow.
