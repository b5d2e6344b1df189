# A formal model of bcec-club's tournament service

This directory specifies, in TLA+, the parts of the repository that decide
whether a tournament's games are played once, by one worker, and counted once.
Every module is a translation of the Python source; `PROJECT.json` names for
each definition the lines it stands for. TLC checks the modules on small
instances, and TLAPS proves the most important properties for instances of any
size.

## The system

bcec-club runs chess engine tournaments. One PostgreSQL database is shared by

| process | code | what it does |
|---|---|---|
| web application | `cope/web` | pages, administrators' API, live streams |
| scheduler | `cope/runner/local.py` (`run_tournament_service`), `scheduler.py`, `commands.py`, `ratings.py` | a polling cycle: prepares tournaments, generates pairings, ends tournaments, applies rating commits |
| worker server | `cope/runner/worker_server.py`, `local.py` | one asyncio loop with one coroutine per worker websocket; one thread per game being played |
| workers, worker pools | `cope/worker` | run the engines on contributors' machines, answer the server's engine commands |

They communicate through rows (each writes in its own READ COMMITTED
transactions and none holds a lock longer than one), through websockets (server
and worker) and through an internal event stream (everything that should be
shown or should wake somebody up). Nothing in memory survives a restart, except
a pool's credential file and a worker's engine cache.

### Components

| component | state | operations | what makes it correct | module |
|---|---|---|---|---|
| game dispatch | `tournaments.status`, `games.status`, `game_assignments`, `moves`, `workers`; per connection: session, assignment in hand, board | connect, claim, prepare, mark live, record a move, end a game, fail, disconnect, replace, remove a worker, restart, pause/resume/abort | a game has one holder or is in the pool; its moves are one line of play; limits and terminal states are respected; everything in flight ends | `Dispatch` |
| rating commits | `tournament_rating_commits`, `runner_commands`, `rating_history`, `ratings` | request, delete, claim a command, apply, fail, commit or roll back the cycle | each tournament is rated once; the status shown is true; every request is decided | `RatingCommit` |
| pairings and rounds | `games`, `tournament_matches` | round robin, gauntlet, Swiss, knockout rounds, tie-breaks | every pairing is played, byes, seeds and rematches are fair, a round comes after the last one, every tournament ends | `Pairings`, `Rounds` |
| handshake and credentials | `workers.token_hash`, `session_id`, `worker_pools`; the client's memory and the pool's file | mint, authenticate, record, welcome, reconnect, enroll a pool, revoke | a worker that was accepted can come back; a token is used once; the status shown is true; threads are promised once | `Credentials` |
| wake-ups | generation, pending flag, empty-claim cache | wake, wait, claim through the cache | no wake-up is lost, the cache hides no game, no idle worker stays beside a playable game | `Wakeups` |
| engine transport | per connection: the command under way, the game thread, the worker's loop and engine processes, what is on the wire | dispatch an assignment, prepare, command an engine, report, fail, close, collect a forgotten engine object | a reply answers the command it belongs to, both ends stay in step, an engine serves its own assignment only, every assignment is over some day | `EngineTransport` |
| clocks and the end of a game | remaining time and moves to go of each side | start, stop, increment, lose on time | the time charged is the time the worker measured, and a side loses exactly when it has used up what it had | `GameClock`, `EngineTransport` |
| artifact cache | an engine's files in the cache of a machine, its lock, its last failure | lock, look, download, verify, install, remember a failure | a binary is fetched once for all slots; an installed one stays | `ArtifactCache` |
| live streams | publisher queue, snapshot tasks, subscriptions, what the page shows | publish, put back, coalesce, subscribe, overrun, ask again | a page comes to show what was committed | `Streams` |
| registry: engines, versions, categories, suites, tournaments | their tables, the directory of binaries, requests under way | upload, register, delete, edit, propagate, open, save openings | what a row refers to exists; a file without a version is removed; a game keeps its opening | `Registry` |
| chat, resource profiles, database access, authentication, CLI, the rest of the front end | | | | not modelled (see below) |

### What is hard about it

* A websocket's coroutine, the thread of its game, other coroutines, two other
  processes and administrators all write the same rows. Several
  read-then-write sequences are split over statements or transactions.
* A worker may connect again while the server still serves its previous
  session; an old thread may still be searching for a move when its game has
  already been given to another worker.
* The server may die at any point; only `reset_orphaned_worker_connections` at
  the next start repairs the rows.
* An engine's answer names its assignment and the engine, not the command it
  answers; engines fail and connections close in the middle of a search; a
  machine's slots share one cache of engines across processes.
* A committed change travels through five queues to a browser, and each of them
  may drop it.
* A request of an administrator checks in one step and writes in another, on the
  loop or in a thread, beside a directory of files that no transaction covers.
* The scheduler's cycle is one transaction with savepoints inside: an exception
  anywhere undoes everything the cycle did.

`PROJECT.json` lists the hazards one by one, at the line where each bites, with
the properties that would catch it.

## The modules

### `Dispatch` — assignments, game threads, tournament status

| TLA+ | code |
|---|---|
| `tournament`, `games`, `assignments`, `moves`, `workers` | the tables' columns that control anything |
| `conns[s]` | the coroutine `_serve_worker` of session `s` together with the thread it waits for: program counter, websocket open or not, game and key in hand, the thread's board, the verdict it computed |
| `admin[a]`, `scheduler`, `removal` | what an administrator's request, the scheduler's cycle or an uncommitted removal has read or written so far |
| `Authenticate`, `RecordConnection`, `Disconnect`, `SocketCloses` | `_authenticate_worker`, `_record_connection`, `_record_worker_disconnected`, the network |
| `Claim` … `FailAssignment` | the body of `_serve_worker`'s loop up to the start of the thread |
| `StartGame` … `CommitGame`, `ThreadFails` | `run_worker_assignment_game`, a step per transaction, the end split in four |
| `AdminReads/Writes`, `RemoveGames/Assignments/Row`, `SchedulerReads/Writes`, `Crash`, `Restart` | `_change_tournament_status`, `delete_worker`/`revoke_worker`, `run_tournament_matches`, the process's death, `reset_orphaned_worker_connections` |

*Atomicity.* The loop's database calls are synchronous, so a coroutine is not
interrupted by another between two of them unless it awaits (`LoopFree`). Under
READ COMMITTED an UPDATE re-evaluates its WHERE clause on the row it waited
for, so a transaction whose decisive writes are such UPDATEs, or whose writes
hold the row locks that anybody who could disturb it needs, is one action.
Where another writer can commit in between and change the outcome the
transaction is split, and its uncommitted writes keep rows locked
(`GameLocked`, `AssignmentLocked`) until it commits. PostgreSQL may choose any
waiting transaction as a deadlock victim; for a thread that is `ThreadFails`.

*Abstractions.* One tournament, whose worker profile fits every worker and
whose games all exist (round robin and gauntlet); a game may be over at any
ply; moves are told apart by who recorded them; `expired` and `abandoned`, both
inactive, are one status; heartbeats, the presence flush, the preparation
back-off and the data of profiles are left out.

### `RatingCommit` — from results to ratings

| TLA+ | code |
|---|---|
| `commits`, `commands`, `rated`, `exists` | `tournament_rating_commits`, `runner_commands`, how often a tournament's games are in `rating_history`, whether `tournaments` has the row |
| `requests[r]` | an administrator's request between its reads and its writes |
| `cycle` | the scheduler's open transaction: what it wrote and nobody else sees |
| `RequestReads/Checks/Writes` | `request_tournament_rating_commit` |
| `DeleteReads/Writes` | `delete_tournament`; the foreign key of `rating_history` refuses it |
| `ApplyCommand`, `FailCommand` | one turn of `process_pending_runner_commands`, to or from its savepoint |
| `CommitCycle`, `RollBackCycle` | the end of `run_tournament_matches`, or its exception |

`FailCommand` is also enabled when the modelled checks pass, because the checks
on the games (which are not modelled) may fail. Elo arithmetic is not modelled:
what matters is how often it is applied.

### `Credentials` — who is let in, and how workers come back

| TLA+ | code |
|---|---|
| `rows`, `pools` | the rows of `workers` and `worker_pools`: status, session id, one-time token |
| `clients[w]` | `run_worker_client`'s process or task: its credential, and the session that its connection has at the server |
| `coroutines[s]` | the server's coroutine of session `s` |
| `processes[p]`, `files[p]` | `run_worker_pool` and its state file |
| `Mint`, `MintPool`, `TokenExpires`, `Revoke`, `RevokePoolReads/Writes` | the administrator's operations; the removal of a pool is split because nothing is locked between its read and its writes |
| `Accept` | a hello: `_authenticate_worker`, `_validate_worker_resources`, `_record_connection` |
| `Welcome`, `LinkBreaks`, `SlotRetries` | the client's side: the welcome, `ConnectionClosed`, any other exception |
| `Disconnect`, `Restart`, `Enroll` | `disconnect_worker`, `reset_orphaned_worker_connections`, `enroll_worker_pool` |
| `StartPool`, `WelcomePool`, `StopPool`, `Start`, `Stop` | processes of contributors come and go |

The server awaits nothing between reading a hello and committing the session,
and there is one loop, so `Accept` is one action; removals by the web
application in between belong to `Dispatch`. A slot's token is the slot itself,
since it never changes. All workers are on one machine, which is what the
reservation of threads is about; memory is reserved in the same way and left
out. `Lossy` names the workers whose connection may break between the commit
of a session and its welcome.

### `Wakeups` — idle workers and the games that come back

| TLA+ | code |
|---|---|
| `owner[g]` | who plays a game; `Pool`: nobody, and it may be claimed; `Gone`: it does not exist yet, is over, paused, aborted or over the limit |
| `workers[w]` | the coroutine of `handle_connection` and `_serve_worker`: where it is, the lag of its `wake_generation`, what its claim has read |
| `empty` | `_empty_claim_generation`, one entry per capability key |
| `sleeper` | `_wake_pending`, and whose call it is that sleeps, for 50 ms, in `_wake_workers` |
| `unannounced` | history: another process changed the pool, and no wake has happened since |
| `Accept`, `Leave`, `CleanupFails` | `handle_connection` before and after `_serve_worker` |
| `SkipClaim`, `ReadPool`, `TakeGame`, `FindNothing`, `Resume` | `_claim_next_assignment` and `_wait_for_work` |
| `GameEnds`, `AssignmentFails`, `BackOffEnds` | the rest of the loop's body; the thread of the game commits while other coroutines run |
| `CallWake`, `CallWakeElsewhere`, `Wake` | `_wake_workers` up to its sleep and after it, for the connections and for the fallback loop or a stream event |
| `Open`, `Close` | the web application, the scheduler, and removals |

A generation matters only by its distance to the current one, so the model
keeps that lag and does not tell apart those from `MaxLag` on; whether two
such lags are equal is left open (`SkipClaim` and `ReadPool` are both enabled).
What a claim or a release does to the rows is taken by its effect on the pool;
`Dispatch` has the steps. A stream event for an `Open` may be lost, which is
why it obliges nobody: only the fallback loop is relied on. A worker's
resources never change while its row exists, so its capability key is constant.

### `Pairings` and `Rounds` — who plays whom, and when

`Pairings` translates the functions of `scheduler.py` that compute games and
matches from what was played; `Rounds` says when they are called.

| TLA+ | code |
|---|---|
| `Seat`, `Table`, `RoundRobin`, `Gauntlet` | `_round_robin_pairings`, `generate_round_robin_games`, `generate_gauntlet_games`; the rotation is written in closed form |
| `Points`, `Buchholz`, `Rank`, `Ranking`, `ByeOf`, `PairUp`, `Colours`, `SwissRound` | `generate_swiss_round` and its helpers; points are doubled, and the backtracking is a recursive function on the places that are still free |
| `BracketSize`, `SeedOrder`, `FirstPairings`, `KnockoutRound`, `Resolved`, `TieBreak` | `_bracket_seed_order` … `_append_knockout_games` |
| `games`, `matches`, `status` | the rows; a game's id is left out, since the columns of the unique constraint name it |
| `Prepare` | `prepare_tournament` |
| `FinishBegins`, `CycleBegins` | a thread's last transaction, or the scheduler's cycle, has computed what it will write (`Plan`: `_finish_tournament_if_complete`, `advance_tournament`) from what is committed and from its own result |
| `Commit` with `Deciding`, `Additions` | its end: only what is still pending is decided (`finish_tournament_match`), and the next knockout round pairs the winners as they are read after that |
| `RollBack` | the other end; a unique constraint that it violates leaves only `RollBack`, after which the game is played again |

The reads of a transaction are several statements, each with its own snapshot.
Where a later one may show more than the first did and the outcome differs,
`Commit` accounts for it: it chooses between the two for the pair index of
tie-breaks, and reads the winners of the round anew, since a match that the
transaction would decide may have been decided by another. A cycle that reads the matches before, and the games after, another transaction
commits the next round tries to create that round again and violates the
constraint on its first match, which `RollBack` covers. The checks of
`_resolve_knockout_match` for incomplete pairs never bite, because the games of
a pair are created in one transaction. Openings are left out.

### `EngineTransport`, `GameClock`, `ArtifactCache` — a game over a websocket

| TLA+ | code |
|---|---|
| `server`, `game`, `call` | the coroutine `_serve_worker` from the moment it sends an assignment; the thread of `run_worker_assignment_game` and its `GameRunner`; the command that `WorkerEngineTransport` executes for it |
| `client`, `publisher` | `_serve_assignment` and its engine processes; `_EngineInfoPublisher` |
| `toWorker`, `toServer`, `socketOpen` | the websocket: messages in order; what was sent before it closed may still be read or be lost |
| `Dispatch`, `ReceiveReady` … `CompleteAssignment` | the coroutine, back-off and protocol errors included |
| `RunNextMove`, `AfterSearch`, `FinishGame`, `AssignmentLost` | `run_next_move` and the loop around it: start both engines, search, judge the clock, count the move |
| `SendCommand`, `ReceiveInfo/Result/Failure`, `CommandCutOff` | `_execute_engine_command_locked` |
| `Collect`, `LoopBlocked` | Python's collector finds the `EngineInstance` of a game that is over, whose `__del__` sends "quit" and waits; on the loop's own thread it waits for good |
| `ReceiveAssignment` … `ClientStops` | the worker's side: prepare, report, answer, publish information, fail, repeat a failure |
| `TimeManager`, `TimedOut`, `StopClock` | `time_control.py`, one clock |
| `sourceDir`, `temporary`, `failure`, `preparers` | `_ensure_artifact`: the engine's directory, its directory under `.tmp`, the failure file, how far each preparation is |
| `Lock`, `LockFails` … `DownloadFails` | one statement group of `_ensure_artifact` each, with the errors that leave a directory or write no failure file (`RecordFailure`); `Dies`, `Damage`, `CooldownEnds` are what may happen to a machine |

A message's number of the command it belongs to is history, which no guard
reads. The number of a worker's assignments, of plies and of information lines
is bounded by an *instance*, and a behaviour has one. Time is what the worker
measures for a search; an engine may fail at any moment, by its deadline or
otherwise. `EngineTransport` extends `ArtifactCache`: an assignment's two
preparations are preparers of the cache beside the other slots of the machine.
A mishap of the machine is a cooldown that passes or a failure file that cannot
be read, damage or files that cannot be read, a death, or a failure that cannot
be written down. Two simplifications: engine objects are collected only after a
game that ended without an exception, since one that was raised keeps them until
the transport is closed; and an engine whose file vanishes after its preparation
and is fetched again by `_ensure_process` counts as another slot's preparation.

### `Scoresheet` — what the moves of a game promise

An abstract specification: a game is a list of the assignment keys that wrote
its plies, keys are issued, and a key may append as long as nobody has written
behind it. `Dispatch` maps its `moves` to such lists (`score`) and its `issued`
to itself (`Sheet == INSTANCE Scoresheet WITH …`), and `MovesAreAppended` says that
it implements the specification.

### `Streams` — from a commit to an open page

| TLA+ | code |
|---|---|
| `version`, `pages[p].view` | how many changes are committed, how many the page has read |
| `owed`, `outbox`, `sending`, `wire`, `link` | events between a commit and `publish`; `StreamEventPublisher`: its queue, the send under way; the internal websocket |
| `coalescer`, `ready` | the snapshot task of a topic (`_schedule_…_snapshot`); callbacks handed to the loop, each for a subscription, which may have been closed since |
| `pages[p]` | `StreamSubscription` and what the page's script does: the 120 ms timer, the request it asks, its answer |
| `Queued`, `Dropped`, `PutBack`, `LinkBreaks` | a full queue drops an event; an event whose send failed is put at the end if there is room; the rest goes down with the connection |
| `OthersPublish` | the events of other topics, and those that ask for no snapshot, which take the same queue |
| `Subscribe`, `FirstSnapshot`, `Deliver`, `StreamEnds` | `admin_worker_events`, `tournament_events` |
| `LoadDetail`, `AnswerDetail`, `ApplyDetail` | `loadDetail` of `TournamentPage.vue` |
| `WebRestarts` | the web application starts again |

Three kinds of page take the three ways that the code knows: a worker's page is
sent the row itself, a large tournament's page is told that something changed,
a small one's is sent a snapshot which a task has read. An event of the queue
stands for the set of changes it announces: one that is dropped while an earlier
event of its own topic is queued is made up for by what that one makes the web
application read. Events of other topics announce nothing (`{}`), and a change
whose event finds the queue full of them is announced by nothing. `lost` is
history: the changes that this happened to, whose event went down with the
internal connection, or which came too late for a snapshot.

### `Registry` — what administrators register

| TLA+ | code |
|---|---|
| `engines`, `versions`, `categories`, `suites`, `tournaments`, `games` | the tables, as far as rows refer to each other; a suite is the save that its openings' ids come from |
| `artifacts` | the directory of binaries, named by their SHA-256 |
| `requests[r]` | a handler between its steps, and what it has read |
| `ReceiveUpload` … `RefuseVersion` | `admin_create_engine_version`: the file is stored before the row, and taken away when the row is refused; an error may leave it |
| `Removed`, `LeftBehind`, `abandoned` | `_remove_unreferenced_artifact` and the errors before and in it; history: the contents whose file nobody will look at |
| `CheckVersion` … `DeleteEngine` | the deletions: count, delete, count the references to the content, unlink |
| `ValidateTournament` … `DeleteTournament` | API and form of tournaments; what each checks, and what the foreign keys refuse |
| `ListDrafts`, `UpdateCategory` | `_propagate_category_defaults`: drafts are listed, then written as they were listed |
| `SaveSuite`, `DeleteSuite` | `replace_suite_openings`, which gives every opening a new id |
| `PrepareTournament`, `FinishTournament` | the scheduler, by its effect |

The initial state is any installation whose tables and files agree. Names,
active flags of engines and versions, and other columns that nothing refers to
are left out.

## Runs

| run | bounds | what it checks |
|---|---|---|
| `reassignment` | 2 games of 1 ply, 2 workers, 3 sessions, 2 keys; `w1` may be removed, `w2` may connect beside its previous session | `TypeOK`; a pending game is free and no worker has two games, through reconnections and the three statements of a removal; the recorded moves are one line of play although superseded threads still write, and refine `Scoresheet` |
| `abort` | 2 games of 1 ply, 2 workers, 2 administrators, concurrency 1, 1 death of the server | an aborted tournament has nothing open; the limit holds |
| `liveness` | 2 games, 2 workers that may both overlap with themselves, 1 death, fairness | an open game is held; every assignment ends; a tournament that is played through ends |
| `ratings` | 2 tournaments, 2 requests, 3 commands, 1 rollback, fairness | rated once, true status, no deletion of rated tournaments, every request is decided |
| `credentials` | a single worker whose welcomes may be lost, a pool of 1 slot that fits the machine once, 2 tokens, 4 sessions, fairness | true status, tokens admit once, threads are not promised twice, accepted clients stay known, a slot that lost its connection serves again |
| `wakeups` | 2 connections of which one can play only one of 2 games, lags up to 2, fairness | no wake-up is lost, the cache hides no game, an idle connection does not stay beside a game it could play |
| `rounds` | round robin of 2 to 8 players and 1 to 3 cycles, gauntlets of 3 to 6, brackets of 2 to 17, prepared; 13 tournaments of 2 to 6 players played with up to two transactions at once, the results and the number of games bounded for each, fairness | every pairing is played, Swiss pairings, byes and brackets are fair, rounds are in order, a finished tournament is played, every tournament ends |
| `transport` | four instances: two assignments of one ply, and one of two plies, with mishaps of the connection, the engines and the collector; one game of 3 plies with all four time controls; the preparations of two engines beside another slot with 2 mishaps of the machine | replies are their own, both ends in step, time-outs earned, one download, installed files stay, every assignment is over |
| `streams` | a page of each kind, 2 changes, 2 breaks of a connection or restarts, a publisher's queue of 2 events, a subscription of 1, fairness | nothing that was committed is forgotten on its way but where its event is `lost`; a page catches up |
| `registry` | every installation of 1 engine, 3 versions of 2 contents, 1 category, 1 suite; 1 tournament of two versions, rated only with the suite; 5 requests, 2 at a time | references hold; orphaned files are removed but where an error leaves them |
| `stale_finish`, `suite_edit` | the smallest instance that shows it | a disagreement between the code and what it says of itself (below) |

Two keys and three sessions are what it takes for a game to be passed on while
its first thread still plays it and for its worker to come back once more; two
games are what it takes for two ends to race for the tournament's end, and for
a worker to hold one too many; that moves stay one line with more keys and
plies than that is proved.
Two assignments are what it takes for a reply, an engine or a quit of one to
meet the other. A publisher's queue of two events is full with one of the
page's topic and one of another, or with two of others; a second change then
finds the first one's event queued, being sent, or gone. A subscription of one
event is overrun by the second.
Two requests side by side see one check that the other makes stale; three
versions of two contents share one. Keys, sessions, requests, commands, deaths,
mishaps and rollbacks are bounds on the number of events only: nothing in the
code depends on how many there were.
`CHECK_DEADLOCK FALSE` stands in every configuration because the service may
legitimately be at rest, and because bounded sessions and keys run out.
Symmetry is used in safety runs only.

*Fairness.* `Dispatch`: a runnable coroutine is eventually scheduled
(asyncio is first come, first served; strong fairness where `LoopFree` blinks),
threads run and every engine search has a deadline, pings close dead
websockets, the supervisor restarts the server, and a request, a removal or a
scheduler's cycle that has begun goes on. Nobody has to connect, to ask or to
keep a connection. `RatingCommit`: the scheduler polls for ever, and rollbacks
are finitely many. `Credentials`: clients retry for ever, the server answers,
the welcomes of workers outside `Lossy` arrive, and both ends notice a
connection that the other has left; no process has to be started. A stale token
or session takes up to four session ids to be used again, which is why that run
has four. `Wakeups`: each coroutine gets its turn (strong fairness, because a
claim keeps the loop to itself) and the fallback loop calls for ever; no game
has to end, nobody has to connect, and no event has to arrive. Two generations
tell apart a claim at the current one, at the last and at an older one, which
is all that the comparisons in the code can tell.

`Rounds`: games are played to their end, the scheduler polls for ever, and a
transaction that is tried again and again commits at last. `EngineTransport`:
both loops and the game thread run, an engine answers or misses its deadline,
which is why one of `AnswerCommand` and `EngineFails` happens, and a preparation
that holds the lock goes on, because its sockets have timeouts; the connection
need not stay open. A loop that the collector has blocked runs no more, and
`AssignmentsAreOver` excepts it. `Streams`: threads run, the publisher connects again for
ever, the loop serves callbacks and tasks in order, and a browser opens its
stream again and gets answers; nothing has to change.

### Disagreements found

A run demonstrates each of these:

* **A stale thread ends a game** (`stale_finish`): `finish_game` and
  `mark_game_live` write by id, outside the row that was validated; a finished
  game may be made live again. Two promises break with it when a worker
  connects beside its previous session or is removed: the tournament may have
  more open games than its limit, because the stale end frees a slot that its
  successor still uses, and an aborted tournament may get a live game. They are
  therefore stated for tournaments in which this does not happen
  (`NobodySuperseded`), where they are checked and proved.
* **Saving a suite takes the openings from its games** (`suite_edit`):
  `replace_suite_openings` gives every opening a new id, and a game that was
  created before then begins from the ordinary position, or fails again and
  again if it had begun.

The modules have these behaviours too, and their properties are stated so as to
hold beside them:

* **A claim between the statements of a removal** (`repo.py:1928`) leaves an
  assignment that names no worker, which only its coroutine can still release;
  if the server dies first its game stays assigned for good, which
  `OpenGamesAreHeld` leaves out.
* **A rating commit is asked for again after it was applied** (`repo.py:2289`):
  the applied row becomes pending, then failed.
* **A lost welcome locks a client out** (`worker_server.py:308`,
  `client.py:145`): the row names the new session, the client still greets with
  the old one, for ever.
* **An administrator's request overwrites an ended tournament**: `AdminReads`
  sees it running, `CommitGame` of its last game ends it, `AdminWrites` pauses
  it. `app.py:148` says "Valid admin actions on a tournament, per current
  status."; the status that counts is the one read, not the one overwritten. In
  the same way `CheckDraft`, `ChangeStatus`, `UpdateTournament` of `Registry`
  rewrite a tournament that was started in between, and a category's
  propagation writes drafts back as it listed them.
* **A removed worker is inserted again** (`worker_server.py:641`):
  `Authenticate` finds the row, the removal deletes it, `RecordConnection` (an
  upsert, `repo.py:1840`) brings it back.
* **A pool that enrolls while it is revoked keeps its workers**
  (`repo.py:1852`): `RevokePoolReads` lists the workers, `Enroll` adds another,
  `RevokePoolWrites` removes those that were listed. `api.py:1313` says "Worker
  pool revoked and its workers removed."
* **A pool that dies before it has written its slots' tokens** (`pool.py:78`)
  has spent its token and cannot enroll again.
* **Sixty seconds decide a game** (`uci_engine.py:421`): a search that takes
  longer is the engine's failure and loses, whatever the clock shows; so is one
  whose websocket closes, if the assignment is still valid when the thread
  looks.
* **A garbage collection can disturb the next command**: an engine object that
  is found after its game and before the transport is closed sends a "quit",
  whose answer meets what comes next. `InStep` is about sessions without that.
* **A garbage collection can stop the server**: if it is the loop's own thread
  that finds such an object, its `__del__` (`engine_instance.py:370`) waits in
  `future.result()` (`worker_server.py:1043`) for a coroutine of the loop that it
  blocks (`LoopBlocked`). The wait has no timeout, no worker is served any more,
  and pings go unanswered. `AssignmentsAreOver` excepts it.
* **A full filesystem has every slot download anew** (`uci_engine.py:517`): a
  failure file that cannot be written is logged and forgotten, so the next slot
  that gets the lock finds neither engine nor failure. `DownloadsAreShared`
  counts each of these as a mishap.
* **A change may be announced by nothing** (`events.py:138`): all topics share
  the publisher's queue, and an event that finds it full of others for a second
  is dropped, although no event of its own topic is queued. The same holds for
  one that is put back (`events.py:200`). The page shows the change with the next
  one, or when its stream opens again (`lost`).
* **The last change may not reach a small tournament's page**
  (`app.py:2135`): an event that arrives when the pending task has read its
  snapshot is dropped (`TooLate`). What a connection had accepted when it broke
  is lost as well.
* **A page may fall back** (`TournamentPage.vue:260`): an answer that was slower
  than the first snapshot of its reopened stream is applied over it.
* **Clean-up may remove a registered binary**: a deletion counts no version of
  a content, an upload of the same content registers one, and the deletion then
  unlinks the file. An engine that is deleted while a version of it is uploaded
  takes the row with it and leaves the file. So does an error: of an upload that
  fails when its file has its name already (`RefuseUpload`), of the rollback or
  the count, or of the removal itself, which is logged (`LeftBehind`,
  `api.py:144`); a file nobody will look at again is `abandoned`.
* **The form deletes a suite that a tournament uses** (`app.py:1596`), which the
  API refuses.
* **A tie-break may be added twice**: when both last games of a drawn match end
  at once, neither transaction resolves it; the scheduler's cycle and the end
  of a game of another match may then both do so. Mostly the second violates a
  unique constraint, and the game that was ending is lost and played again; if
  it reads the pair index late enough, it adds a second tie-break. The first
  one decides an armageddon match. `RoundsInOrder` and `KnockoutIsFair` say what
  remains true.
* **Colours in a round robin alternate for each pair, not for each player**:
  with an odd number of games per pairing the second seed has Black in all
  games of the odd cycle. `_macros.html:76` promises "Each pairing plays this
  many times, alternating colours.", which `EverybodyMeets` checks.

Read off the code while it was translated, beyond any property: the pages offer
settings of adjudication and of lag compensation (`_macros.html:187`, `:208`,
`:225`, `:237`) of which `local.py` uses only `max_moves` and, when that is
reached, `resign.min_abs_cp`, and unlimited games end after 160 plies; the moves to go
of a tournament control are never set anew (`time_control.py`); the list of
workers never updates, since `WorkersPage.vue` handles only snapshots, and says
"Live".

## Proofs

Eight modules prove, for any constants that satisfy the `ASSUME`s of what they
extend:

| theorem | states | inductive invariant |
|---|---|---|
| `DispatchProofs`: `TypeCorrect` | `TypeOK` | `TInv`: types, and finite boards whose size bounds the plies |
| `PendingFree` | a pending game has no active assignment | `FreeInv`: an uncommitted removal has locked what it releases, and locks exclude each other |
| `OneGameEach` | no worker has two active assignments | `OwnerInv`: an active assignment's key is held by a coroutine of its worker, and that worker's row names that session or the game is about to be released |
| `OpenHeld` | an open game has a coroutine with its key | `HeldInv`: a game of a dead server stays with the worker that `Restart` will release |
| `OneLine` | the moves of a game are one line of play | `MovesInv`: a table and every board are lines, a board is part of its game's table, a key is with one coroutine, and the moves of a key that still writes are the last of its board |
| `MovesAppended` | `Dispatch` implements `Scoresheet` | the same: a ply that is free after a board can only be the next one of the table (`UpToDate`), so the board was complete |
| `ConcurrencyKept`, `AbortIsFinal` | the limit holds, and an abort is final, where nobody is superseded | `OneThread`: a worker has one coroutine, which owns what it holds, so that an active assignment is one of an open game |
| `RatingCommitProofs`: `TypeCorrect` | `TypeOK` | with: only queued commands are processed |
| `RatedAtMostOnce`, `RatedNotDeleted` | rated once, never deleted | `RatedInv`: a tournament that the open cycle rates is locked, there, and unrated outside |
| `CommitsTrue` | the status shown is true | `TruthInv`: an unlocked pending row's command is not yet processed; a row that the cycle wrote is decided |
| `CredentialsProofs`: `TypeCorrect` | `TypeOK` | itself |
| `StatusTrue` | the status shown is true | itself, with the types: a row without a session has no current coroutine |
| `SpentOnce` | a one-time token admits once | `TokensApart`: no token is in two rows, so spending one removes its only copy |
| `AcceptedStayKnown` | accepted clients outside `Lossy` stay known | `ClientsHoldSessions`: at each step of a connection, what the client holds is what its row names, or its slot's token |
| `Fit` | no more threads are promised than the machine has | itself: a client is let in only where its threads fit beside what the others hold, and nobody else's reservation grows |
| `WakeupsProofs`: `TypeCorrect` | `TypeOK` | itself |
| `NoLostWakeup`, `CacheIsSafe` | no wake-up is lost; the cache hides no game | `WakeInv`: the two together with `ClaimsSeeTheGames`, that a claim in progress has read every game it could take, unless a wake is due |
| `EngineTransportProofs`: `CacheTypeCorrect` | `CacheTypeOK` | itself |
| `Shared`, `IntactStays` | one download for all, and one more for each mishap; an installed binary stays | `CacheInv`: one preparation has the lock, what it installs it has verified, and the next download has been paid for by a mishap |
| `CacheImplemented` | `EngineTransport` implements `ArtifactCache` | none: whatever the state, a step of the transport is one of the cache or leaves it alone |
| `TransportShares`, `TransportKeepsArtifacts` | the cache's promises hold while games are played | the cache's, by the refinement |
| `TransportTypeCorrect`, `Timeouts` | `TypeOK`; a side loses on time iff it has used up its time | `TransportInv`: the types with `ClockOK`, that the clock of each side is what its control gave it less what was spent |
| `Replies` | a reply is the answer to the command it is read for | with `ConversationOK`: nothing on the wire is of a later assignment, and while a game is played over an open websocket there is nothing, or one command, or its info lines and at last its answer |
| `NeverOutOfStep` | neither end reads a message it does not expect | with `Orderly`: what the worker is sent next, what is left between two assignments, and that a worker that gave up has said so; as long as nothing was collected early |
| `RegistryProofs`: `TypeCorrect` | `TypeOK` | with: who is to store or remove a file knows a content |
| `References`, `OrphansRemoved` | what a row refers to exists; a file is a version's, will be looked at, or is abandoned: its version went with the engine or an error left it | `RegistryInv`: registered versions were issued, a tournament that is gone has no games, listed drafts name the category whose row is locked, and a version about to be deleted has the content that its request carries |
| `RoundsProofs`: `PairingsMeet` | round robin and gauntlet: everybody meets as often as the options say, once a round at most, with alternating colours | `FixedInv`: no transaction of such a tournament adds games, and the games are those of the pairings but for their results |
| `SwissStaysFair` | a Swiss round has a game or the bye for everybody, byes go round, and a rematch means that there was no other way | `Writers` and `Swiss`: every round that is there, and every round that a transaction is about to add, is fair after the games and byes of the rounds before it. It rests on lemmas about the pairing itself (`SwissRoundIsFair`) |
| `RoundsTypeCorrect` | `RowsOK`, with the unique constraints, in every format | the same `Ordered` as below: the rows of every round and whatever a transaction is about to add fit together (`Sound`, `PlanSound`), and for a knockout, the players of a round play only one match of it (`KnockoutRows`). A plan adds the whole of one round to those it saw, so of two that add the same one the second fails; and the round whose winners a commit reads again is decided in full (`CommittedIs`). For the fixed formats `FixedInv` and `FixedTypes` |
| `RoundsStayInOrder` | a round follows one that is over, a finished tournament has nothing left to play | `Ordered`: that, and that each open transaction decides every pending match of the round after which it adds or ends, and saw every game of it over but its own. Transactions decide what nobody plays again, so what one has seen, no commit of another undoes |
| `KnockoutStaysFair` | losers are out, the winner of a match plays exactly one of the next round, the best seeds are kept apart, byes go to the best seeds, an armageddon game decides a match that was level | `Knockout`: every match has a place in the bracket of all rounds (`InBracket`), was reached by the winners of two neighbours, and a player of it whose seed is among those left has the place that `SeedOrder` gives him there (`Seeding`); with armageddon games `ArmedRows`, below |
| `StreamsProofs`: `TypeCorrect` | `TypeOK` | with `CoalescerOK`: a snapshot task that is not there has read nothing, and only tasks of tournaments read |
| `NothingIsForgotten` | a change stays on its way to a page until it is shown or its event is lost: with a connection, in a queue full of other topics' events, or behind an earlier snapshot | the types; each step is compared with the places where a change can be |

What a theorem states of a run's property was checked by TLC before it was
proved, and so were the inductive invariants, but for those of `Rounds`, which
quantify over plans and partitions. Hardly one of the properties is inductive
alone: that a pending game is free rests on what a
removal that is not committed has locked; that a worker has one game rests on
`RecordConnection` releasing exactly what the previous session left; that moves
are one line rests on whose board may still be behind the table. The two
properties of `Wakeups` need each other: a connection sleeps because of a claim
that found nothing, or because the cache says so. The type invariants of
`RatingCommit`, `Wakeups`, `Registry` and `Streams` are proved and not run.

*Induction.* The library's induction theorems have operators as parameters, so
`CredentialsProofs` proves induction over the numbers and over the subsets of a
finite set from the well-foundedness of their orders (`Induction`,
`SubsetInduction`), for a set `G` of the instances where the claim holds. With
it the sum of threads, which the model defines as a fold, is shown to exist and
to be additive, without which `ReservationsFit` cannot be touched. The circle
method needs no induction, because the model has the rotation in closed form:
`OppositeOnce` and `OppositeSomewhere` show by arithmetic modulo the number of
rounds that two players sit opposite each other in exactly one round at exactly
one table. The Swiss pairing needs it throughout. `Recursion` shows, by
well-founded recursion, that a step which depends on smaller subsets has a
function that satisfies it; so `PairUp` and the fold of `Buchholz` compute what
their equations say, although TLA+ only defines them as choices of a function
that does. By induction over the free places, what the backtracking finds is a
pairing of them (`PairSound`), and it finds one whenever there is one
(`PairComplete`): if some partition of the players into pairs has no rematch,
the pairing has none.

*Knockouts.* `SeedsHalve` says that the order of seeds for `2^(k+1)` places has
at the places `2i - 1` and `2i` the seed of place `i` in the order for `2^k` and
one that is not among the best `2^k`. So whoever wins, a player among the best
`2^k` who is still in when `2^k` players are left is where `SeedOrder[k]` has
him, and there he is alone (`NextPlaces`): two such seeds have not met. That a
match decides who goes on is a fact about games that end while others do: of a
decided match, the games that are not armageddon are over, and its winner has
more points in them or as many and has held an armageddon game (`Won`); of a
match with an armageddon game they are over and level (`Level`). A transaction
plans with rows that others change before it commits. `Later` says what cannot
change: games that are over stay, and games that count come only with the next
round. Therefore both facts carry over from what a transaction sees to what is
there when it commits (`LaterIs`, `LaterWritten`), for any number of open
transactions.

*Only model-checked:* everything temporal under fairness (outside the prover's
reach: `AssignmentsEnd`, `PlayedTournamentsEnd`, `RequestsAreDecided`,
`SlotsReturn`, `IdleWorkersAreOffered`, `TournamentsEnd`, `AssignmentsAreOver`,
`ViewsCatchUp`). Every invariant and every action property of the runs that pass
is a theorem.

## Not modelled

* The Elo arithmetic, the rules of chess (python-chess) and the text of UCI.
* Pages, forms and their parsing, authentication, names and settings that
  nothing refers to; chat, whose announcements are written in the transaction
  of the event they announce; profiles of resources; SQL placeholder rewriting;
  network address allow-lists; the command line; the in-process demonstration
  (`cope/prototype.py`); the browser's code but for what three pages do with
  streams.
* Of `Dispatch`: several tournaments at once, profiles that do not fit,
  heartbeats. Of `EngineTransport`: a websocket after the first, and engines of
  the local prototype. Of `Streams`: search information and clocks (shown and forgotten), event numbers (nobody
  compares them), the limit of subscribers, failing HTTP requests, and the death
  of the runner with its queue. Of `Registry`: the rating commits of a deleted
  tournament (`RatingCommit`), later rounds that read the suite anew, a crash
  between a file and its row, rows of ratings as references.

## Plan

1. `Dispatch`, `RatingCommit`, `Credentials`, `Wakeups` and their proofs;
   `Pairings` and `Rounds` (done).
2. `EngineTransport` with `GameClock` and `ArtifactCache`; `Streams`;
   `Registry`; `Scoresheet` and its refinement; their proofs (done).
3. Theorems about the pairings of fixed and of Swiss tournaments, the
   reservations of threads, the queues of `Streams`, types and unique keys of
   `Rounds`, and `RoundsInOrder` (done).
4. `Commit` of `Rounds` with the winners read again, and `KnockoutIsFair` for
   any number of open transactions (done).
5. `Dispatch` with several tournaments and profiles; chat.
