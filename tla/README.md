# TLA+ models of the drupal.hu site

The repository is a Drupal 7 installation: Drupal core under `docroot/`,
contributed modules under `docroot/sites/all/modules/contrib`, the site's own
modules under `docroot/sites/all/modules/custom` and `.../features`, deploy
hooks under `hooks/` and scripts under `scripts/`. PHP keeps nothing between
requests, so everything that is hard here happens in database tables that are
shared by requests running at the same time: page requests, form submissions,
and cron, which may overlap with all of them.

Paths below are relative to `docroot/`, and `sites/all/modules/` is left out
where `contrib/` or `custom/` starts a path.

## Inventory

| Component | State | Operations | Hard behaviour | What makes it correct |
|---|---|---|---|---|
| **Locking framework**, `includes/lock.inc` | table `{semaphore}` (name, value, expire); the static `$locks` of a request | `lock_acquire`, `lock_may_be_available`, `lock_wait`, `lock_release`, `lock_release_all` | breaking expired locks races renewals and other breaks; requests die | no two requests rely on one lock; every call returns |
| **System queue**, `modules/system/system.queue.inc`, the reset in `system_cron()`, the workers of `drupal_cron_run()` | table `{queue}` (item_id, created, expire) | create, claim, delete, release, delete the queue, reset expired leases | producers overtake each other between `time()` and `INSERT`; two consumers claim at once; leases run out while a worker works; workers die | running leases exclude each other; the order of first claims; executed before it leaves; executed in the end |
| **Voting API and Vote Up/Down**, `contrib/votingapi`, `custom/vote_up_down` | `{votingapi_vote}`, `{votingapi_cache}`, the variable `votingapi_last_cron` | vote, reset, recalculate, tally by cron, delete with the entity | recalculation is DELETE, SELECT, INSERT without a lock; cron selects by time | cached results agree with the votes; a vote belongs to its user |
| **Site checker**, `custom/dhu_drupalcheck` | `{drupalcheck}` (nid, lastcheck, isdrupal), `{node}` | check by cron, unpublish, hooks on insert and delete | an HTTP request between load and save; a `node_save()` that throws ends the run | a link has its user's URL and is published as it was judged, unless edited under a check; every link gets its turn |
| **Cron runner**, `drupal_cron_run()` in `includes/common.inc` | the lock `cron`, the variable `cron_last` | hooks under the lock, then queue workers without it | runs overlap once the lock is released or its 900 s are over | one run of the hooks at a time |
| **Job Scheduler**, `contrib/job_scheduler` | table `{job_schedule}` | set (remove, insert), reserve, execute, reschedule, check, rebuild | a job reserved by a dead worker; set without a transaction; two dispatches; a dispatch that throws drops the job | a periodic job is not lost and runs once per period |
| **Feeds** with the importer `planet`, `contrib/feeds`, `features/drupalhu_planet` | `{feeds_source}` (state of a batch), `{feeds_item}`, the lock of the source | import in batches, clear, unlock, expire, schedule | a 60 s lock around work that may take longer; whole-record saves of stale state; no unique key on the guid | no item is imported twice; a batch that was begun is finished |
| **Release scraper**, `custom/drupalorg_scraper` | a cache entry | download, parse, pick the latest of each stability | failed downloads are cached | the pick is the maximum |
| **Variables and their cache**, `includes/bootstrap.inc`, `includes/cache.inc` | `{variable}`, its copy in `{cache_bootstrap}`, the lock `variable_init` | `variable_initialize`, `variable_set`, `variable_del` | the copy is SELECT and INSERT under a lock that setters do not take; setters die between write and clear; a store that fails is swallowed | an outdated copy has a reason; a set that returned is seen |
| **Batch API**, `includes/batch.inc`, `includes/batch.queue.inc`, `misc/progress.js`, `misc/batch.js` | a row of `{batch}`, loaded at the start of a request and written back by its shutdown function; a queue per set; the page | start, work for a second, report, finish | reloads overlap with the request they abandon; requests die with the row not written back; callbacks throw; answers get lost | what the callbacks are told is true; nothing runs twice; the page ends |
| **Autocomplete**, `misc/autocomplete.js` | fields, popups, and per address one database object with a cache, a timer and an owner | keys, delayed search, answers, choice, submit | answers in any order; two fields share the object; popups hold the form back | a list fits its text; a choice is a suggestion; the form is sent in the end |
| Drupal core otherwise, contributed modules, themes, exports, scripts | | | third-party code that this site configures and does not change, or code without state | |

How they interact: `drupal_cron_run()` takes the lock `cron`, calls every
`hook_cron()` in turn (`system_cron()`, which resets the leases of the queue;
`votingapi_cron()`; `dhu_drupalcheck_cron()`; `job_scheduler_cron()`, which
puts jobs into the queue), each within a try/catch, releases the lock and only
then works on the queues. Feeds schedules its imports as jobs, a queue worker
runs them, and each takes a lock of the locking framework. Nodes that are
deleted tell Voting API, the site checker and Feeds through hooks. The forms of a
feed (import, delete items) start a batch, and so do updates and imports of
translations; the vote and the cron hooks read and set variables.

The hazards are listed in `PROJECT.json`, each at its line with the properties
that would catch it going wrong, or the reason why none does.

## Modules

One convention holds everywhere: **one SQL statement is one atomic step**, and
between two statements any other request may run. MySQL executes single
statements on the rows concerned atomically. `UPDATE` counts *changed* rows,
because `DatabaseConnection_mysql` does not set `MYSQL_ATTR_FOUND_ROWS`. Where
the code opens a transaction the model either takes it for one step (its
statements touch rows nobody else writes) or commits at its end. Requests may
die between any two statements.

| Module | Models |
|---|---|
| `LeaseLock` | what the lock functions promise: an advisory lock with a lease |
| `Semaphore`, `SemaphoreProofs` | `includes/lock.inc`, statement by statement; implements `LeaseLock`; proofs |
| `ReliableQueue` | what `DrupalReliableQueueInterface` promises |
| `SystemQueue`, `SystemQueueProofs` | `SystemQueue`, the reset in `system_cron()`, the consumers; implements `ReliableQueue`; proofs |
| `JobScheduler` | `drupal_cron_run()`, Job Scheduler and the worker of Feeds around one feed's job |
| `FeedsImport`, `FeedsImportProofs` | the source of a feed, its lock, its nodes, and the requests that work on it; proofs |
| `Voting`, `VotingProofs` | `votingapi.module` and the votes and resets of Vote Up/Down; proofs |
| `DrupalCheck` | `dhu_drupalcheck.module` and the node forms that run next to it |
| `CronProofs` | proofs about `DrupalCheck` and about `JobScheduler`, both of which it extends |
| `VariableCache`, `VariableCacheProofs` | the variables and their cached copy; proofs |
| `Batch`, `BatchProofs` | progressive batches, server and page; proofs |
| `Autocomplete`, `AutocompleteProofs` | `misc/autocomplete.js`; proofs |
| `MC...` | small instances for TLC |

`JobScheduler`, `FeedsImport` and `VariableCache` use locks and queues as
`LeaseLock` and `ReliableQueue` promise them: the lock is a variable with a
holder, an item is free, leased or over. What those promises rest on is checked
and proved once, in `Semaphore` and `SystemQueue`.

### Semaphore

`pc[r]` names the statement request `r` executes next and `call[r]` holds the
local variables of the lock function it is in. `Acquire` computes `$expire`
once; `Renew` and `RenewFails` are the `UPDATE` of a lock the request believes
it has; `Insert` and `InsertFails` are the `INSERT` that fails on the primary
key, after which `SelectFree`, `SelectRow`, `TestExpired`, `Break` and
`BreakNothing` are `lock_may_be_available()`: the `SELECT`, the comparison with
the clock, and the `DELETE` of exactly the row that was read. The `INSERT` is
retried once. `Wait` and `Sleep` are the loop of `lock_wait()`. `ReleaseAll` is
the shutdown function; it may interrupt a lock function, and locks may be taken
after it. `Vanish` ends a process, which leaves rows behind if it was killed.
A process id is not used again, as `_lock_id()` is unique per request.

Time is in ticks and the 0.0001 s of slack in the `DELETE`, which only repairs a
float-to-string conversion, is an exact comparison.

### SystemQueue

`createItem()` is two steps, as in the code: `ReadTime` calls `time()` for the
column `created`, `CreateItem` is the `INSERT` that gives the `item_id`. Other
producers may come in between, so the two orders may differ; `Select` goes by
`created`, then `item_id`, as `claimItem()` does. The clock is one for all
processes and does not go back.

The consumers are written as the loop at the end of `drupal_cron_run()` is:
`Select` and `Claim` or `ClaimLost` are `claimItem()`, `Execute` is the worker
callback, `Delete` is `deleteItem()`, and `Fail` is an exception, which leaves
the item leased, or the death of the process. `Reset` is the `UPDATE` of
`system_cron()`, which compares with a `REQUEST_TIME` that may be `MaxLag` old.
Expire times are kept as the seconds that are left, so that the clock needs no
bound and liveness is not cut off by one; of `created` only the order matters,
so `now` stands still unless somebody has read it. `LateRelease` says whether
some consumer calls `releaseItem()` after its lease; no consumer of this queue
in the repository does, and the properties about leases need that.

### Voting

A request makes one call: a vote (`vud_vote()`, `votingapi_set_votes()`), a
reset (`vud_reset()`), the deletion of an entity, or a cron run. A user may have
several requests at once: `beside` records with each vote which other votes of its
user were under way, so that `VotesAreUnique` can name the pairs that overlapped
(`Overlap`) and hold all others to the window. Each statement
of `votingapi_set_votes()` and `votingapi_recalculate_results()` is an action;
the deletion, which runs in the transaction of `node_delete_multiple()`, reads
its votes (`Snapshot`) and takes effect with `Commit`. Of the result functions
the model keeps two that are computed by different queries: the sum (the query
of `votingapi_votingapi_storage_standard_results()`) and the positives (the one
of `vud_votingapi_results_alter()`); the others read at the same moments. One
tag and the value type points are modelled.

### DrupalCheck

A cron run selects up to `MaxSites` links (`CronStart`), and for each of them
loads the node (`CronLoad`), sends the HTTP request, whose answer is a free
choice (`CronRequest`), saves the node with status 0 if it was refused
(`CronSave`) and stamps the row (`CronMerge`). A `node_save()` that throws, be
it for a node deleted since (`CronLoadsNothing`) or for one that is there
(`CronSaveFails`), ends the run before the row is stamped. Meanwhile users
create, edit, unpublish and delete links. What users and
checks said of a link is kept in history variables: `given` (the URL a user
stored last, none once cron has overwritten an edit), `passed` (the URL of the last complete
check that found Drupal), `disturbed` (somebody saved the node under the check),
`unjudged`. A save stamps the node with the `REQUEST_TIME` of whoever saves it,
which for cron is the start of the run. `{drupalcheck}`.isdrupal is left out: it
is only listed. `node_load($nid, NULL, FALSE)` does not reset the static cache,
as the comment above it hopes; the model assumes that no earlier hook of the
cron run has loaded the node. There is one cron run at a time: its lock lasts
900 s, and 20 requests of at most 30 s end before.

### JobScheduler

Processes start `drupal_cron_run()` again and again (`CronBegins`). Who gets the
lock `cron` runs the hooks: `Unstick` and `SelectJobs` are
`job_scheduler_cron()`, `CreateItem` and `Reserve` are `dispatch()`,
`ResetLeases` is `system_cron()` and ends the part under the lock. Who does not
get it goes straight to the queue, as the code does. `Claim` takes an item and
asks whether the source exists, once per run for the first item
(`FeedsSource::instance()` keeps its object); `Drop` removes the job of a source
that is gone; `Import` or `ImportLocked` is the import; `RemoveJob` and `AddJob`
are the `DELETE` and the `INSERT` of `set()`. Statements throw as well as
processes die: `DispatchFails` is `createItem()` or `reserve()`, after which
`Catch` removes the job, as `job_scheduler_cron()` does with "jobs that have
caused exceptions"; `HookFails` is a statement of the hook outside its try
block, `ResetFails` one of `system_cron()`, `WorkerFails` one of the worker
outside the import. `SaveForm` and `DeleteFeed` are the hooks of the feed node.

There is no clock. A job may become due, a reservation stuck, a lease over, a
dead process's lock free, at any moment (`JobTime`, `LeaseTime`, `LockTime`), so
that every relation between the hour of the job, the lease of the item and the
pace of a worker occurs. `Claim` includes the read of the source's row: only the
feed's deletion changes it, which is as well after as before the `UPDATE` of the
claim. A cron lock is not outlived by its run.

### FeedsImport

One source and one entry of its feed. A worker, or the batch of a form, reads
the row of `{feeds_source}` (`Load`), takes the lock (`AcquireLock`,
`LockRefused`), fetches (which may fail: `FetchFails`), looks the entry up by
its guid and inserts the node if there is none (`Lookup`, `InsertNode`), saves
the row by a `SELECT` and an `UPDATE` or `INSERT` of all its columns (`Probe`,
`SaveUpdate`, `SaveInsert`, `SaveFails`) and releases the lock. `clear()` frees
the lock before it saves (`ClearUnlock`). The form Unlock (`StartUnlock`,
`Open`) clears the progress of a source that is stuck and saves it without a
lock: `lock_release()` frees a lock of the same request only, of which it has
none. `Edit` and `DeleteFeed` are the hooks of the feed node, `Expire` and
`Outlive` the end of a lease of a dead and of a living process. `NextItem` keeps
the object for the next item of the run. `node_save()` is one step: its
transaction includes the row of `{feeds_item}`. A worker may begin at any moment
(when it does is the subject of `JobScheduler`), and `clear()` deletes the nodes
in one chunk.

### VariableCache

Each `variable_set()` makes a version of the table, and the versions are
numbered: the cache, a request's `$conf` and what a set that has returned
promises can be compared. `Get`, `AcquireLock`, `LockRefused`, `Select`, `Store`
and `Unlock` are `variable_initialize()`; `Merge` and `Clear` the two statements
of `variable_set()`; `Flush` is the clearing of all caches. `StoreFails` is a
`cache_set()` whose exception is swallowed: the cache stays as it was. The
changes a request makes to its own `$conf` are not tracked, and the lock is not
waited for (`variable_initialize_wait_for_lock` is off).

### Batch

`row` is the row of `{batch}`, `copy[q]` is what request `q` has loaded of it,
and `Save` is `_batch_shutdown()`, which writes the copy back. In between,
`Complete` and `Delete` are an operation and the removal of its item, `Pass` an
operation that is not finished and keeps its sandbox, `Missing` a pass that
finds no item, `Advance` is `_batch_next_set()`. An operation may end the
request (`Fatal`), and so may a finished callback (`FinishFails`): then the row
stays, and the next `op=finished` calls all callbacks again. `LoopOrSave` lets
the second of progressive mode end after any operation. The page sends
`op=start`, then `op=do` until it reads 100%, then `op=finished` (`Send`,
`Receive`, `React`); it may be reloaded, or give up on an answer (`Reload`,
`LoseAnswer`), which leaves its request running. `hurt` records what has come in
between: two requests at work at once, a kill behind a `deleteItem()`, and a
kill or an exception after which something is done again.

### Autocomplete

The handlers of the keyboard, focus, timer and answers, one action each, with
`populatePopup()` and `search()` in full: the cached answer, the trailing
comma, the timer that is restarted, the owner, the check of the search string
when an answer comes. A key need not change the text (`Press`), and the field may
lose the focus while one is down. A text is one of a small set with what `trim()`
and the server make of it; `Trimmed` need not be idempotent, as the expression of
`autocomplete.js:276` is not: in the instance it makes "a " of "a ../", and "a" of
"a ".

## Runs

| Run | Instance | Shows |
|---|---|---|
| `lock` | 2 requests, 1 lock, leases of 1 and 2, clock to 4, 2 polls | two requests never rely on the lock; every call returns; the table implements `LeaseLock` |
| `queue` | 2 producers, 2 workers, 2 items, lease 1, lag 1, 2 faults | lease exclusion, repeated execution only behind a late worker's back, order of first claims; implements `ReliableQueue` with its liveness |
| `voting_races` | 3 requests, 2 users, 1 node, votes, resets, deletions, 1 death | the right results are cached when all are done; nobody else's vote is touched; an undisturbed request repairs what races and deaths left |
| `voting_cron` | 3 requests, votes, resets and cron runs, users whose windows end, clock to 3, 1 death | votes are unique within the window but for pairs that overlapped; an undisturbed cron run tallies every node voted on since the start of the one before |
| `voting_revision` | 2 requests, 2 nodes | a **violation**: see findings |
| `drupalcheck_links` | 3 links of which a run takes 2, 2 URLs, 1 user with 1 edit, clock to 2, 1 killed run | links keep their users' URLs and are published as judged, unless saved under a check; rows without a node come from one race only; every link that is due is checked, unless saves of links in front of it throw for ever |
| `drupalcheck_form` | 1 link, 1 user, clock to 4 | a **violation**: see findings |
| `jobs` | 2 cron processes, 3 rows, 2 items, 1 death or throwing statement | the job of a feed is lost by a `set()` cut in half or a throwing `dispatch()` only; a feed is imported again and again; jobs of deleted feeds go |
| `feeds` | 1 worker, 1 request each of the forms Import and Delete items or Unlock, 1 edit, 1 fault | two nodes of one entry, a source written back, an edit lost: each only behind the back of the requests named; the lock comes back |
| `batch` | 2 requests, sets of 2, 0 and 1 operations, 1 reload or lost answer, 1 kill, error or throwing callback | success and failure are reported truly; 100% is the end (the first set has operations); nothing runs twice and no sandbox is mixed up unless requests overlap, are killed or a callback throws; the page ends |
| `autocomplete_fields` | 2 fields, 6 texts, one of which has to be trimmed twice, 3 keys | a list fits its text; a choice is a suggestion unless its list was replaced in one of two ways; the throbber tells the truth; suggestions come; the form is sent |
| `variables` | 3 requests, 3 versions, 2 faults | an outdated copy has one of three reasons; a set that returned is seen unless it raced a copy; one request copies; the cache is filled again and again |

Type invariants and inductive invariants that are proved (below) are not
checked again by the runs; the type invariants of `Voting`, `Batch` and
`Autocomplete`, which a mutation can break, are.

Bounds, and why they are enough. A broken lock needs one who is late and one who
breaks it and takes it: two requests; three find the same races of
`lock_may_be_available()` at once, and the proofs hold for any number. A queue
item can be in the hands of an outlived worker and of its successor: two
workers; two producers overtake each other, with two items for the order.
Overlapping recalculations need two requests, and a third one to see what they
left. A cron run of the site checker needs more links than it takes at a time to
have one to starve. A job can be taken from one cron run by the other, each with
an item, next to a row a third `INSERT` adds. An entry is imported by the queue
and by the form; the third request empties the source. A batch needs a set to
leave, one to skip and one to come to, two operations for a count that is wrong
by one, and a second request to overlap with. Two fields share one database
object, and three keys type a text, another and the first again. A variable's
copy is raced by one who sets, while a third starts from it. Clocks are bounded
where absolute times matter (leases begin and end, a window is over, a second
cron run); the counters `MaxFaults`, `MaxDeaths`, `MaxItems`, `MaxRows`,
`MaxNodes`, `MaxEdits`, `MaxSets`, `MaxReloads`, `MaxKeys` bound how often
something may happen, in the guards; none of them stops an action a liveness
property waits for. `CHECK_DEADLOCK FALSE` is set wherever the supply of
requests, items, keys or time is finite: the instance really ends there, as a
site does that nobody visits. Symmetry is used on requests, and only without
liveness.

Fairness.

- `Semaphore`: a process in a lock function runs on (`WF(Continue(r))`); nothing
  makes a request call one.
- `SystemQueue`: a crontab starts cron again and again, so items are looked for
  (`WF(Consume(w))`), leases are reset (`WF(Reset(0))`), and time passes; faults are
  bounded, since nothing is promised of a worker that throws for ever.
- `JobScheduler`: the crontab again, processes that run on, hours, leases and
  locks that pass. Statements throw a bounded number of times.
- `DrupalCheck`: cron is started again and again and HTTP requests time out
  (`WF(CronStep)`). Nothing says that `node_save()` succeeds in the end:
  `DueLinksChecked` names its failures as the one excuse.
- `FeedsImport`: a request that has begun runs on or is killed, and a dead
  process's lease ends. No request has to begin.
- `Batch`: requests and the page's script run on. Nobody has to click.
- `Autocomplete`: timers fire, animations and requests end, and a user who wants
  to send the form tries again when it does not go.
- `VariableCache`: visitors keep coming, and a dead process's lease ends.
- `Voting` states none: its runs check what a step may not do, and what holds
  when requests are done.

## Findings

- `voting_revision` (`votingapi.module:687`): the ids of a deleted entity include
  its revision id, so votes on the node with that id are deleted as well.
- `drupalcheck_form` (`dhu_drupalcheck.module:141`): cron saves with an old
  `REQUEST_TIME`, so that a form opened before the save is accepted after it, and
  a link that was unpublished may be published again unnoticed.

Observations made while modelling, without a run:

- Locks. A renewal in the tick of the last one changes no row and is taken for a
  broken lock (`lock.inc:116`). `lock_may_be_available()` returns FALSE for a free
  lock that another request broke first (`:178`). `$expire` is computed before the
  conflict and the retry, so a slow acquire returns TRUE with an expired lease
  (`:107`).
- Queue. `releaseItem()` goes by `item_id` and frees the item of another consumer
  when it comes after the lease (`system.queue.inc:261`). Items whose `createItem()`
  overlap may be claimed in either order, the one with the greater `item_id` first
  (`system.queue.inc:219`).
- Voting. Two overlapping recalculations leave both results until the next one
  (`votingapi.module:490`). A reset in cron mode leaves nothing that would make
  cron recalculate, although line 487 says "The cron run will pick up the results".
  Two requests of one user both insert (`:202`). A vote of the second in which a
  cron run started is missed if it comes after the run's `SELECT` (`:123`). The
  schedule "manual" is treated like "immediate" (`:227`). A vote under way while
  its node is deleted stays for ever (`vud.theme.inc:403`).
- Site checker. A link whose `node_save()` throws every time stays first in the
  list and ends every run (`dhu_drupalcheck.module:167`); `DueLinksChecked` has to
  name that. An edit stored while cron has the link in hand is overwritten (`:141`).
- Job Scheduler. One `createItem()` or `reserve()` that throws, a deadlock of the
  database for instance, removes a periodic job for good, until its feed node is
  saved (`job_scheduler.module:172`).
- Feeds. The form Unlock frees nobody else's lock: `lock_release()` goes by the id of
  its own request (`FeedsSource.inc:933`).
- Batch. A request killed behind two or more `deleteItem()` leaves a row that counts
  more operations than the queue has: the percentage may read 100 too early, or
  stay the same until the batch is removed after ten days; a set whose
  operations have all run may be reported as failed. Where the first set is
  empty, `$finished` keeps its initial 1 (`batch.inc:231`) while the batch moves to
  the next set; if the second of progressive mode is over by then and that set has
  one operation, the percentage is 1 - 1 + 1 of 1: the page reads 100%, asks for
  `op=finished`, and the operation never runs. A finished callback that throws makes
  every later `op=finished` call all callbacks again (`batch.inc:425`).
- Autocomplete. A text asked for twice may turn a choice into the text "undefined";
  a text that trimming shortens gets no suggestions; nothing calls
  `setStatus('error')`; a popup that is empty or fading swallows the first submit.
  One pass of the trimming (`autocomplete.js:276`) may leave something to trim: of
  "a ../" it makes "a ". A list found for "a" in the cache is then replaced by the
  one for "a " although the list for the trimmed text was right, and a choice
  becomes "undefined" although no text was asked for twice: the second excuse of
  `ChoiceIsSuggestion`.

## Proofs

The proof modules hold for every value of the constants that satisfies the
`ASSUME` of the modelled module: any number of requests, processes, users, locks,
items, rows, operations, times and faults. Each proves that its inductive
invariant holds initially and is kept by every step, action by action, and draws
the theorems from it. TLC has checked each inductive invariant on the instances
above.

**Semaphore.** `LeaseExclusion` is not inductive: a step could delete the row of a
request that relies on it. `IInv` adds `LeaseRecorded` (a request that relies on
a lock owns its row, with the same expire time), `BreaksExpired` (a request about
to `DELETE` has read an expired row), `LeaseAsked` (`$expire` is a timeout later
than some instant that is past; needed for the refinement) and `LocalsInScope`.
The argument is then short: `DELETE` removes exactly the row that was read, and
that row was over, so that nobody relies on it; nobody else writes a row with
somebody's id. `TypeStep`, `LeaseStep`, `BreakStep` and `AskedStep` each treat one
conjunct, action by action. `LockIsExclusive` follows, as a row has one owner.
`RefinementStep` maps every step to one of `LeaseLock` or to a stutter, and
`ImplementsLeaseLock` states the refinement as a whole (`LeaseSpec` has no
fairness).

**SystemQueue.** `IInv` says of ids that they are given out once (`IdsGrow`), of the
column `created` that it is no later than now and no earlier than that of any item
which was in the table when it was read (`TimesGrow`), of a `SELECT` that it
passed over no item that was there when the creation of the one it returned began
and that was never handed out (`SelectedOldest`, which follows from `TimesGrow` and
makes the order inductive), and, unless items are released late, that the
table knows every running lease (`LeaseKnown`) and that an item never handed
out behind a worker's back has one worker at most (`SoleWorker`).
`LeasesExclude` and `NoNeedlessRepeat` assume `~LateRelease`; the order and the
step part of the refinement (`ReliableSafety`) do not.

**JobScheduler** (in `CronProofs`). `JobKept` alone is not inductive: a worker
could remove the job of a feed it takes for gone. `SourceOfFeed` (a feed has its
source) and `KnownIsTrue` (no process believes that the source of a feed does
not exist, or is about to drop it) exclude that; what is left that removes the
row is `set()`, whose process is then at `add`, or dies or throws there and is
recorded in `lost`, and the catch of a `dispatch()` that throws, which is
recorded there as well.

**FeedsImport.** `Locked` (between lookup and insert a request has the lock, unless
it outlived it) gives `InsertsFirst` (who is about to insert has found no node
that is not there still), and that `ImportedOnce`. `Fresh` says of every object in
memory that it has the address of the form unless an edit overtook it, that of the
form Unlock included, and `Gone`
that after a deletion which nobody had in hand no request carries the source;
`Bare` places objects that are not loaded.

**Voting.** `CastOnce` and `OpFitsStep` place votes and requests; `SelectedOwn` says
that the votes selected for a `DELETE` are of the request's own user and entity, or
of the entity deleted, at the moment they are deleted. `VotesGoByTheirIds`
draws from it who may take a vote away: its own user, or the deletion of a node
that has its entity for its id *or its revision id*. That holds without a condition
on ids; `OthersVotesStay`, which is what the comment in the code promises, does not
(the finding `voting_revision`), and is checked where the ids are apart.
`OneVotePerWindow` has no condition either. `OverlapsKnown` (two votes of one user
that are both under way know of each other) and `OthersOlder` (before the `INSERT`
all other votes of the user that did not overlap are older than the window, and
before the `DELETE` they are older or selected) make `VotesAreUnique` inductive.

The results. `RightResultsCached` speaks of a moment at which nobody works on an
entity; `RightComes` says of every moment that each row that is due is cached or
*brought*: by a request on the entity that has yet to read the votes, or that has
read what is still true and not written it. Who changes a vote, and who wipes the
rows, brings the row itself (`OwnSupply`); a request on another entity disturbs
nothing (`OtherSupply`). `Settled` leaves out the entities that a deletion names by
either of its ids, so nothing is assumed of revision ids.
`RowsFit`
says whose rows a request holds. `UndisturbedRepairs` and `CronTalliesNewVotes`
follow from `AloneIsAlone` (nobody works next to a request of `alone`), `Redone`
(what such a request has redone by each statement: between `Wipe` and the first
`INSERT` the entity has no rows, later the cached rows and those still to be
written make the expected ones), `CronCovers` (an entity voted on since the last
run is still to do, in work or right) and `Times` (`votingapi_last_cron` is the
start of a run that has ended). None of these needs to know what a sum is: only
that it depends on the votes alone. `TypeOK` does: `PointsInRange` bounds the sum
over a finite set, which the community modules define by recursion over its
subsets. No induction theorem is used for it; `SumExists` and `PointsInRange`
take a smallest counterexample instead (`LeastOf`).

**DrupalCheck** (in `CronProofs`, next to `JobScheduler`; neither uses the
other's assumptions). `LinksAsJudged` relates the node to what a user stored and
to what the last check found, which are written steps apart and by different
actors. It lacks `LoadedIsTrue`: while no user has disturbed the check, what
cron has loaded is what the node still has, and once it was saved the node is
unpublished. `KnownNodes` keeps a node that is still to come out of everybody's
hands, and `GoneInHand` (a node that is gone while cron has it in hand was noted
as such) is what `OrphansWereInHand` lacks. `JudgedStep` treats the first two
with `LinksAsJudged`, one step per action.

**VariableCache.** `CopiersLock` (who copies has the lock or outlived it) gives
`OneCopies`; `CopyIsRecent` (what is about to be stored is the table, unless raced)
gives `StaleHasReason`, a store that fails leaving the cache as it was;
`CacheIsConfirmed` and `VersionsOrdered` (numbers grow, what
is announced has been made) give `ConfirmedIsSeen`, a property of steps.

**Batch.** `SuccessIsTrue` speaks of what has run, the code only of a number in the
row. `CountsSuffice` connects them: the row, and every request's copy of it,
count at least as many operations as remain of their set (not run, queued, or
completed by this very request and not deleted), and a set was left only when
none remained. `DeleteSuffices` shows that deleting an item takes one from both
sides, `AdvanceSuffices` that a set with nothing to count has nothing left and
the next one starts in full (its first step finds that next set by a
well-ordering argument), `EnoughOnward` that what others do only takes from what
remains. Reloads, overlaps and kills replace a row by an older one, whose count
is larger: so `SuccessIsTrue` needs no condition.

The other properties hold unless `hurt` records what breaks them, and rest on
exact counts. `Alone` says that one request works at a time unless two
overlapped, `Whole` that without overlaps and losses the copy of the request at
work counts exactly what is queued of its set, that nothing is queued of the
sets before it and everything of those behind (`Counts`), that the batch is over
when nothing is left and that its sandbox was filled by the operation that comes
next (`Fits`); the row does so when no request is at work. `SandboxIsOwn` and
`FailureIsTrue` follow. `Once` (what is queued has not run, except the operation
in hand; after the callbacks the row is about to go) gives `OnceEach`; it needs
no exact count, so that a kill behind a `deleteItem()` does not matter to it; a
kill before it and a callback that throws (`redo`, `FailsOnce`) do. `Onward`
(where the first set has operations, no request finds a set without any, so that
`$finished` is never 1 at the percentage) gives `HundredIsLast`. The guard
`Ops[1] # 0` of that property came from the proof: see the observations above.
Each is proved with a few lemmas that say what a step leaves alone (`Serves`,
`Rests`) and one lemma for each action that matters.

**Autocomplete.** `Shown` says of every popup that its field has the focus and owns
the database, that its list is in the cache and was found for the search string or
for what is trimmed of it, and that a highlighted suggestion is in the list or in
one that was replaced; `Searching` says for whom the timer runs. `ShownFitsText`
follows from them, since the field holds the search string while no key is down.
`Throbbing` (the owner's throbber only, and only in the focus) gives
`ThrobberMeansWaiting`. For `ChoiceIsSuggestion`, `AskedOnce` counts: unless a text
was asked for twice, one request at most is under way for each, and none for a text
in the cache; so an answer replaces a list only if it is for a text that trimming
shortens to one that is answered, too (`Retrimmed`, `Chosen`). Nothing is assumed of
the trimming: that it may leave something to trim is part of the property.

Model-checked only: everything that needs fairness (`CallsReturn`, the liveness
in `ReliableSpec`, `DueLinksChecked`, `KeepsImporting`, `JobsOfGoneSourcesGo`,
`LockComesBack`, `PageEnds`, `SuggestionsCome`, `SubmitComesThrough`,
`CacheIsFilled`), which is beyond the prover, and `OthersVotesStay`, which is
not true of all constants. Every other invariant and action property of the
passing runs is a theorem.

## Not modelled

`PROJECT.json` lists every part with its reason. Third-party modules, core code
that this site does not change, themes, exported configuration and shell scripts
are left out for good; so are percent and option votes, `MemoryQueue`, and pages
that only display. By lines most of the repository is of that kind: vendored
JavaScript libraries (OpenLayers and jQuery UI in several builds), Drupal core and
contributed modules. The models cover the parts in which requests, cron, browsers
and failures meet. Of what is modelled, these are left out:

- Job Scheduler: jobs that run once, crontab lines, `execute()` without a queue and
  the rebuild of schedules, none of which this site uses.
- Feeds: other importers, updates of existing nodes, expiry (switched off),
  PubSubHubbub, nodes that editors delete one by one, deletions in several chunks.
- Variables: requests that wait for the lock (switched off), and other cache bins.
- Batch: batches in one request, pages without JavaScript, sets that submit
  handlers add while a batch runs, the removal after ten days.
- Autocomplete: text pasted with the mouse, a list under the mouse while it fades.

## Plan

1. `ReleaseHistory`: the fold of `drupalorg_scraper_release_history_parse()` as a
   function, against "the greatest version of each stability".
2. The other scripts with a protocol of their own: `misc/ajax.js` (requests of one
   form that overlap) and `misc/tabledrag.js`.
3. Updates and expiry in `FeedsImport`, and deletions in several chunks.
4. With each of these, its proofs.
