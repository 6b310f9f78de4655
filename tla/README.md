# A verification project for jackrabbit

jackrabbit dispatches shell commands to remote runners. A Go server keeps runners and
commands in PostgreSQL and pushes commands over server-sent events (SSE); a Go client (the
runner) registers, holds an SSE stream open, executes what arrives and reports the result.
This directory holds TLA+ models of the parts where those pieces race, TLC configurations
that check them on small instances, and TLAPS proofs of the theorems that hold for every
instance. Paths below are relative to the repository root.

Contents: 1 inventory, 2 how the parts interact, 3 modules and how they correspond to the
code, 4 runs and bounds, 5 fairness, 6 proofs, 7 what the checks found, 8 abstractions,
9 what is not modelled, 10 plan, 11 running it.

## 1. Inventory

| Component | State it keeps | Operations | What makes it correct |
|---|---|---|---|
| Store (`server/internal/store/postgres/store.go`, migrations) | tables `runners`, `commands` (and logs, metrics, policies) | one SQL statement each, no transactions over several | a row is claimed once; a claim matches the target and the deadline, by the tags its stream has read |
| Command handlers (`api/handlers/commands.go`) | none; one goroutine per request | `Send` (insert, route, notify), `Kill` | the command reaches only a runner it addresses |
| LISTEN/NOTIFY listener (`cmd/server/main.go`) | a database connection; one goroutine per notification | look up, `hub.Send`, count | sends each notification once; a lost one loses no command for good |
| SSE stream (`api/sse/handler.go`) | a channel of 10 events, a flush goroutine | register, claim the oldest queued row, forward, unregister | what it claims is its own; overlapping streams of one runner do not both send a row |
| SSE hub (`api/sse/hub.go`) | lists of channels per slug under a `sync.RWMutex` | `Register`, `Unregister`, `Send` | no push to a closed channel; a slow stream costs the others nothing; nobody waits forever |
| Result handler (`api/handlers/runners.go`) | none | `ReportResult`: update the row, decrement `active_count` | an outcome comes from an execution that is over; the count stays explained |
| Registry (`api/handlers/runners.go`) | `runners.status`, `last_seen` | register, heartbeat, deregister | a running client ends up online |
| Reaper (`workers/reaper.go`) | none; a ticker | expired commands, orphaned runners, stuck commands | absence is detected; nothing is failed wrongly |
| Client loop (`client/internal/runner/lifecycle.go`, `sse.go`) | `eventCh`, `activeCommand`, `logSeq` | connect with backoff, queue, accept up to the limit, report | an event starts one process at most |
| Executor (`client/internal/runner/executor.go`) | map of running executions, pipes, `logCh` | `Execute`, stream output, wait, `Kill` | every execution that starts reports; output is complete and ordered |
| Log shipper (`client/internal/shipper/logs.go`) | a buffer of lines, batches under way | add, flush by timer or by size | no line twice; order by sequence number |
| Metric shipper (`client/internal/shipper/metrics.go`) | none; reads `Runner.activeCommand` and `Executor.active` | on every tick: which command, which process, look, ship | a sample is of a process of its command, as far as pids allow; a marked command is sampled |
| Logs in the store, `GetLogs` (`store.go`, `handlers/commands.go`) | table `logs` | insert a batch, read a page | a reader that pages through misses nothing |
| Retention worker (`workers/retention.go`) | table `log_retention_policies`; a ticker | delete by age, by size, per policy | deletes only what a policy asks for; every limit takes effect |
| Rollup worker (`workers/rollup.go`) | a ticker | aggregate metrics | never writes anything (section 9) |
| Go SDK `WatchLogs` (and its Python and TypeScript twins) | `lastSeq` | poll the first page | delivers lines as they arrive |
| Web UI (`ui/`), Traefik, the token check, configuration | none worth modelling | | |

## 2. How the parts interact

A command reaches a runner on **two paths that do not know of each other**:

* *note*: `POST /commands` inserts the row, picks a runner (for a tag the least busy online
  one) and calls `pg_notify`; the listener looks the command up, sends it to the runner's
  streams and then increments `active_count`. The row keeps the status `queued`.
* *claim*: a stream that opens starts a goroutine which claims **one** queued row, the
  oldest that matches, increments `active_count` and sends the event.

So a command that is already running through its notification may be claimed and sent again
by the next stream; results overwrite each other without a test of the old status; a queued
row moves only when a stream opens. Each of these steps is a statement or a push of its own,
and between any two of them the connection may break, the client or the server may stop, a
statement may fail or commit without its answer arriving. The server's read timeout of 30 s
ends streams regularly, so reconnections are the normal case and not the exception.

Status values: the server writes `queued` and `claimed`, and what a result carries, which is
`success` or `failed` from the runner of this repository. It reads `pending` and `running`, which
nothing here writes.

The **output** of a command takes a third way: two goroutines cut it into lines and put them
into a channel, one numbers them, the shipper posts them in batches that overtake each other,
the table is trimmed by the retention worker while readers page through it by `seq` and
followers poll it. Beside all that the metric shipper looks for the process to sample through
`activeCommand`, which the main loop and the reporting goroutines write.

## 3. Modules and their correspondence to the code

| Module | What it is |
|---|---|
| `Store` | the two tables, one operator per SQL statement; every other module that touches a table extends it |
| `Dispatch` | a command's way to a runner and back: handlers, listener, streams, flush goroutines, client loop |
| `Ledger` | an abstract specification: what the service promises about one command |
| `Executors` | another: what the executors of all runners promise together. `Dispatch` implements it for all its clients, `Execution` for its one |
| `DispatchInvariant` | the inductive invariants of `Dispatch`, in named parts |
| `DispatchProofs`, `DeliveryProofs` | the theorems about `Dispatch` |
| `Hub`, `HubProofs` | the RWMutex and the channels inside one `hub.Send`, which `Dispatch` takes as one step |
| `Fanout` | the hub without its lock, as its streams see it: `Hub` implements it |
| `Reaper` | the three statements of the reaper, in turn, on the tables of `Store` |
| `Service`, `ServiceProofs` | the whole server: `Dispatch` and `Reaper` on the same tables while time passes; that it implements `Dispatch` |
| `Execution`, `ExecutionProofs`, `OutputProofs` | inside one client: main loop, processes, pipe readers, log numbering and shipping; the proofs about processes, and those about their output |
| `Sampling`, `SamplingProofs` | `Execution` with the metric shipper and the active command beside it |
| `LogStore`, `LogStoreProofs` | the logs table: late batches, retention, paging readers, followers |
| `MCDispatch`, `MCService`, `MCHub`, `MCExecution`, `MCSampling`, `MCLogStore` | instances for TLC |

**Store.** `commands[c]` and `runners[r]` are the rows; `"absent"` is a row that does not
exist. Ids are handed out in insertion order, so comparing ids is comparing `created_at`.
A deadline is none, ahead of `now()` or past; `fresh` says whether `last_seen` is newer than
the reaper's cutoff. `Claimable` is the WHERE clause of `ClaimNextCommand`, including that it
does not know the target type `runner`, which `Send` accepts. `UpsertRunner` replaces the tags of
a runner; `TagSets` has the tag sets its clients may be started with. `Finished` is the set of
statuses a result may carry: the handler writes whatever the request says, the documents list
`success`, `failed` and `cancelled`, and the model assumes that it is none of the statuses the
statements test for (section 8).

**Dispatch.** Variables and their code:

| Variable | Code |
|---|---|
| `note[c]` | how far `CommandHandlers.Send` and `handleNotification` are with c: `inserted`, `routed` (about to NOTIFY), `posted` (notification pending), `sent` (pushed, not counted), `done` |
| `to[c]` | the slug in the notification |
| `stream[k]` | one call of `SSEHandler.Stream`: slug, whether the client still reads, its channel |
| `flush[k]` | its `flushQueuedCommands`: `start`, `looked` (has read the runner, with the `tags` it had), `claimed`, `counted` |
| `up`, `inbox`, `active` | client registered and running; `SSEListener.eventCh`; `Executor.active` |
| `byes` | DELETE requests of stopped clients that the server has not handled; a client that starts again does not wait for them |
| `results`, `settling` | result requests on their way, and between their two statements |
| `starts`, `uncounted`, `offered` | history variables, read by no action: how often an event started a process, the increments that were lost, the runners a command has matched since it was posted |

A claim that meets other claims passes over rows they hold (`FOR UPDATE SKIP LOCKED`): `Locked`
has the rows another flush goroutine may be claiming or a result settling at that moment, and
`ClaimNextCommand` takes a row unless an older one that matches is not among these.

Actions are named after the function whose step they are. `NoteLost`, `FlushClaimLost`,
`FlushGivesUp`, `NoteIncrFails`, `FlushIncrFails`, `ReportLost`, `ReportUnsettled` are the
error paths; `LinkDown`, `Stop`, `ServerCrash`, `Expire`, `Kill` are the surroundings, which
the constant `Environment` switches on or off per run. `Drop` is every reason for which
`handleCommandEvent` returns without a result: the concurrency limit, a payload without
`cmd`, a command already running, a process that does not start. It is enabled for every
event because two of these reasons depend on data the model leaves out.

**Hub.** One step per acquisition of the lock, per critical section under the write lock and
per channel visited by `Send`. A writer in `Lock()` announces itself, which keeps new readers
out, and then waits for those that are in, as `sync.RWMutex` does.

**Reaper and Service.** `reaper` is the next of the three statements of `Reaper.run`; each may
fail, and the next one runs. `Service` puts the reaper beside every step of `Dispatch`
(`Serve`), restarts it with the server (`Restart`) and lets `last_seen` of any runner grow old
(`Age`), but not while a deregistration is under way, which ends in seconds, not in minutes.
`unreaped` is the `runners` table as it would be without the reaper and without time: an
orphaned runner is offline, `last_seen` is always new, `orphaned_at` is never set.

**Execution.** The client of `Dispatch` seen from inside; a *job* is one `command_dispatch`
event, and two jobs may carry the same command id.

| Variable | Code |
|---|---|
| `cmd`, `limit` | command id of a job; `CLIENT_MAX_CONCURRENCY`. Both chosen in `Init` |
| `main` | the job the main loop is at, from the limit test of `handleCommandEvent` to the end of `Execute` |
| `proc[j]` | how far it is: `checked` (`Execute` has found no key), `listed` (has added its own; no process yet), `refused`; then its process and the goroutine that waits for it: `running`, `exited`, `waited` (`cmd.Wait` returned, pipes closed), `forgotten` (deleted from `active`), `closed` (`logCh` closed) |
| `active` | the keys of `Executor.active` |
| `wrote`, `reader` | what the process has written to a pipe; its `streamOutput`: bytes read (`got`), the chunk in work (`data`), `incomplete` |
| `logCh`, `logSeq` | the channel to `streamLogs`; `Runner.logSeq`, a missing key reading as 0 |
| `buffer`, `batches`, `rows` | `LogShipper.buffer`; batches taken from it and not yet inserted; the `logs` table |
| `reported`, `alive` | results handed to the server; whether the client has panicked |
| `lost` | history variable: pieces that fell to a full channel, an unread pipe or a failed batch |

Text is a sequence of numbered pieces, some of which end a line; a read returns any number of
those available, so every way of cutting a line into chunks occurs. `Bare` are the newlines with
no text of their own: a line that is nothing else is blank, and `SkipBlank` passes over it as
`line != ""` (`executor.go:212`) does. A process may close a pipe and run on (`ReadEnds`). `buffer` is a set because
the order of rows is that of their sequence numbers. `Number` is a receive, the numbering and
`LogShipper.Add` in one step: one `streamLogs` goroutine per job does them, and only the
numbering touches state of other goroutines of the same command.

**Sampling** extends `Execution`: `AcceptCommand` and `ReleaseCommand` are its `Handle` and
`HandleResult` with what they do to `activeCommand`, `Elsewhere` is everything else it can do.
`sampler` is the goroutine of `MetricShipper.Start` between two of its steps: `named` (has read
`activeCommand` under `Runner.mu`), `found` (has the pid that `Executor.GetPID` answered under
`Executor.mu`), `sampled` (gopsutil has answered, under no lock); then the POST. A pid is of one
process from `cmd.Start` until it is waited for, and free afterwards: `Collect` looks at whatever
process has it by then, one of this client or one of the rest of the machine (`job` = `NoJob`).
`pid[j]` is the pid of the process of j; `latest` is a history variable: the job accepted last.

**LogStore.** A line is a record with an id of its own, so that two lines may share a number.

| Variable | Code |
|---|---|
| `logs`, `shipping` | the table; batches that runners have sent and the server has not inserted, in no order |
| `today` | the clock, in days |
| `worker` | `Retention.run`: the policy it is at, and which of the two statements of `applyPolicy` is next |
| `reader` | a caller of `GetLogs` that asks for page after page until one is empty: page, size, lines got, lines that were there when it began and have not been deleted |
| `lastSeq`, `delivered` | `WatchLogs`: its local variable, and what it has sent to its channel |

A page is any set of rows that `ORDER BY seq LIMIT OFFSET` may return: rows of equal number
have no fixed order, and each query may choose another. A size statement may delete any set of
the oldest rows. A limit of so many MB is turned into a number of lines as the code does it
(`MaxLogs`): `BytesPerMB` is 1024 * 1024 there and `BytesPerLine`, an estimate, is 100. A policy whose scope is unknown, or whose id is no command id, is an error
(`PolicyFails`), as is any statement that the database refuses.

Operators introduced as *faulty variants* (`ConnectTwice`, `PushWaits`, ...) are used by no
specification. Each is a plausible bug of the definition that follows it; putting it in that
definition's place must break the property `PROJECT.json` names, which shows that the
property depends on the code.

## 4. Runs

| Run | Question | Properties |
|---|---|---|
| `dispatch` | one command of any target type, a client that comes back with other tags, overlapping streams, every surrounding failure | `TypeOK`, `IInv`, `OnlyAddressed`, `AddressInv`, `StartedAtMostOnce`, `FlushExclusive`, `CountInv`, `KeepsLedger`, `ActAsExecutors` |
| `dispatch_live` | two commands wait for one runner that reconnects | `ActiveCountFloor`, `ReconnectsDrainQueue` |
| `dispatch_kill` | is a running command killable? (violated) | `RunningIsKillable` |
| `hub` | three streams of two slugs, two Sends, channels of one event | `TypeOK`, `NoSendOnClosed`, `ListedWhileOpen`, `SendsAsOne`, `NobodyWaitsForever` |
| `service` | the reaper and time beside all handlers, one client that comes and goes, late deregistrations, restarts | `ReaperIsInvisible`, `RunningComesOnline`, `FirstAbsenceDetected` |
| `service_expired` | does the reaper fail expired commands? (violated) | `ExpiredAreFailed` |
| `execution` | two dispatches of one or two commands, tested, added and started in steps, output with blank lines in arbitrary chunks, closes racing readers | `TypeOK`, `OneProcessPerCommand`, `LimitKept`, `ExecutorInv`, `ShippedOnce`, `NoOutputVanishes`, `NumberedInOrder`, `OutputInv`, `EveryRunEnds`, `ActsAsExecutor` |
| `execution_report` | does every run report? (violated) | `EveryRunReports` |
| `execution_lines` | does a log line hold one line? (violated) | `LinesUnmixed` |
| `sampling` | two dispatches sampled while they start, end and report, and their pids are used again | `SamplerOK`, `SamplesAreOwn`, `SamplesInv`, `LatestIsMarked`, `MarkedIsSampled` |
| `logs` | late batches, repeated numbers, three policies one of which fails, a reader, a follower | `TypeOK`, `PagedReadMissesNothing`, `ReadInv`, `DeletesOnlyUnwanted`, `LimitsTakeEffect`, `FollowerReaches` |
| `logs_follow` | does `WatchLogs` deliver every line? (violated) | `FollowerDelivers` |

What the properties say:

* `StartedAtMostOnce`: one dispatch starts one process at most, whatever overlaps or breaks.
  With two paths a command therefore runs at most twice.
* `FlushExclusive`: a claimed row is in the hands of one flush goroutine at most.
* `KeepsLedger`: the tables and executions implement `Ledger`: queued once, claimed for one
  runner and never given back, an outcome only from an execution, replaced only if there were
  two.
* `ActAsExecutors`, `ActsAsExecutor`: the clients of `Dispatch`, and the client of `Execution`
  seen from inside, implement `Executors`: a job begins once, on one machine, below the limit
  and beside no other execution of its command there, and it only ever leaves. `Dispatch` takes
  `handleCommandEvent` and `Execute` as one step; `Execution`, where the limit, the key, the
  insertion and the start are four, says that it may.
* `ActiveCountFloor`: `active_count` may be negative, but never by more than the increments
  that are still to come or were lost. Nothing bounds it from above: an event that is dropped
  by a full channel, a broken link, a busy or crashed client stays counted for good. `CountInv`
  is why: the dispatches a runner has, or is about to get, and that may still be settled are no
  more than those counted and those whose increment is owed.
* `OnlyAddressed` (with its strengthening `AddressInv`): a runner runs and
  reports only commands that name it, or have a tag it had at some time since they were posted, or
  when an opening stream read it. More does not hold: a client that registers again without the
  tag still gets what was routed to it before, and what a flush goroutine claims by the tags it
  has read.
* `ReconnectsDrainQueue`: a claimable row leaves the queue as long as its runner opens streams
  again and again. Nothing else moves it: if the stream stays open, the row stays.
* `SendsAsOne`: the hub implements `Fanout`. To each stream a `Send` is one step, as `Dispatch`
  takes it; it goes through one list from beginning to end, offers its event once to each stream
  of it whether or not the others have room, answers true if one of them took it and false if
  there is none. What it answers when all were full, `Fanout` leaves open (section 7).
* `NobodyWaitsForever`: `Send`, `Register` and `Unregister` all finish although no client ever
  has to read.
* `ReaperIsInvisible`: with `unreaped` in the place of `runners`, the server with its reaper
  behaves as `Dispatch` does: neither the reaper nor the passage of time lets any request,
  stream or client do what it could not do without them. For commands this is more than the
  documents want: they say which of them the reaper fails, and `ExpiredAreFailed` is that claim.
* `RunningComesOnline`: a runner that the reaper has orphaned, or that a late deregistration has
  put offline, is online again as long as its client runs. `FirstAbsenceDetected`: a runner that
  went offline and is not seen for five minutes is found, the first time.
* `OneProcessPerCommand`, `LimitKept`: although the limit is tested, the id looked up, the
  entry inserted and the process started in four steps, between which results and failed starts
  delete entries, a command has one process at a time and the limit holds.
* `ShippedOnce`: a line is in the buffer, in one batch, or in the table, and gets there once,
  however the flushes of the ticker and of a full buffer overlap.
* `NoOutputVanishes`: every piece of text written is still on its way, in the table, or fell to
  one of three places that are known (full channel, pipe closed unread, failed batch). A newline
  with no text before it is not text: it goes with the blank line it ends.
* `OutputInv`: why these two hold: no chunk in work is without the end of a line, a reader sends
  its lines in the order in which they end, and a remainder is sent once, by a reader that is
  done.
* `NumberedInOrder`: the lines of a command carry numbers of their own, those of a pipe in the
  order in which the lines end (`Before`), what has no newline last. It is by their ends that
  lines are ordered: a remainder sent last may hold text that was sent long before. It is
  promised only until the result is reported and only while no other dispatch of the command is
  looked at, since either sets the counter back while lines are still on their way.
* `EveryRunEnds`: a run ends in a report or in the death of the client.
* `SamplesAreOwn`, `SamplesInv`: the mark may move, processes may end and others may start
  between the four steps of a sample; it is of a process of the command it is filed under, unless
  the process that `GetPID` named was waited for before the look at its pid.
* `LatestIsMarked`, `MarkedIsSampled`: the command accepted last keeps the mark while it runs,
  unless an earlier execution of the same command reports; a command that stays marked and
  running is sampled in the end. Nothing is promised to the commands accepted before it.
* `PagedReadMissesNothing`: a line that was there when the reader began, is not deleted and has
  a number of its own is read, whatever batches arrive between two pages. A repeated number or
  a deletion can hide a line.
* `DeletesOnlyUnwanted`, `LimitsTakeEffect`: retention deletes a line only if some policy that
  covers it finds it too old or, at 100 bytes a line, has no room for it beside the lines that are
  not older; and every policy that
  can be applied takes effect although the ones before it, or its first statement, fail.
* `FollowerReaches`: the follower gets past every line on its page, except one numbered 0.

### Bounds

| Bound | Value | Why it is enough |
|---|---|---|
| `Conns` | 2 (1 in `dispatch_live` and `service`) | a flush goroutine of an old stream and one of a new stream of the same runner; a third adds no new pair. Proved for every number. |
| `Runners`, `TagSets` | 1; 2 in `dispatch`, of which one registers, with or without the tag, and the other is who a command may be for instead | a command for somebody else must not reach the live runner, nor one with a tag it never had; two live runners that compete for one tag are beyond the run and inside the theorems |
| `MaxCommands` | 1, 2 in `dispatch_live` | both paths of one command race in full; two commands give the order of claims and fill the channel. Proved for every number. |
| `Environment` | statements, links, clients, the server and deadlines (of commands for the other runner) in `dispatch`; links and kills in `dispatch_live`, kills in `dispatch_kill`; clients, the server and deadlines in `service`, deadlines in `service_expired` | the second command and the reaper multiply the states; what the other surroundings do to them is proved for any `Environment` |
| `ChanCap`, `InboxCap`, `MaxConcurrency` | 1 | the limit is reached with the second event, so dropping occurs |
| `Jobs`, `Limits` in `Execution` | 2, {1, 2} | a second dispatch of the same command, with and without room for it. The executor invariant is proved for every number. |
| `Sources`, `TextOf`, `Newlines`, `LogCap` | 1 pipe, 4 pieces of one job of which the first is a blank line and the third and the fourth end one (nothing of the other job), 1 | a blank line, a line cut in two and one after it, a line without an end (a process may exit at any piece), text that is sent again at the end, a full channel with the second line; the pipes of a job meet only in its channel |
| `Jobs`, `Pids`, `TextOf` in `Sampling` | 2, {1, 2}, no output | the mark moves from one command to the other and back to none; the second process may have the pid of the first, or its own beside it; output is the matter of `execution` |
| `Lines`, `Batches` in `LogStore` | 5 lines in 2 batches (2 in 1 in `logs_follow`) | a number that repeats, a batch that comes late with numbers in between, a line of another command and runner; the paging and deletion theorems hold for all |
| `Policies` | 3 | one that is an error, then a size limit of scope global, then age and size of a runner |
| `BytesPerMB`, `BytesPerLine` | 5, 4 | the policies of 2 and 3 MB have room for 2 and 3 lines, with a remainder that the division drops |
| `DefaultPage`, `LargestPage`, `FollowPage`, `Sizes`, `LastDay` | 1, 2, 2, {0, 2}, 2 | a default page, a full page and a last page that is not full; lines that get too old and lines that do not |
| streams and Sends in `Hub` | 3 and 2 | two channels of one list, one of another, two readers and three writers |

`dispatch` uses the symmetry of the streams; it checks safety only.
`hub` turns the deadlock check off, because all streams and Sends of the instance may be over;
so do the `execution` runs and `sampling`, where the jobs may be over or the client dead, and
`logs_follow`, where nothing is left to ship or to poll. The other runs check deadlock.

## 5. Fairness

* `dispatch_live` assumes that a flush goroutine runs, and strong fairness of its claim: a
  statement that is tried again and again is not refused each time, although every single try
  may fail. It assumes nothing about clients or links; that the runner keeps reconnecting is
  the premise of the property (`[]<>Flushing(r)`), justified by the client's reconnect loop and
  the server's read timeout.
* `HubFairness`: the Go scheduler runs every goroutine that can go on, and `Lock()` is granted
  in turn (strong fairness; `sync.RWMutex` lets a waiting writer in after the readers before
  it). There is no fairness for reading a channel or ending a stream.
* `ServiceFairness`: tickers of clients and reaper tick; a heartbeat of a running client, or the
  reaper's statement about orphans, that is tried again and again succeeds in the end. Nothing
  else is assumed of requests, streams or clients.
* `ExecutionFairness`: a process ends, at its timeout at the latest (`context.WithTimeout`), and
  the waiting and reporting goroutines run. There is no fairness for readers, numbering and
  shipping: nothing makes them be in time.
* `SSpec`: the metric shipper's ticker ticks, and its request is not refused each time (strong
  fairness of `ShipSample`). Processes may run for ever.
* `LogFairness`: the retention ticker ticks, a statement of a policy that is tried again and
  again succeeds in the end (strong fairness per policy and statement), and the follower polls.
  Nothing makes a batch arrive or a reader go on.

## 6. Proofs

Every theorem holds for all values of the constants: any runners, tags, streams, capacities,
request sets and any `Environment`. The assumptions are those of the modules: types of
constants, `None` and `NoCmd` outside the sets they mark, `Finished` apart from the statuses that
the statements test for.

* `TypeCorrect`, `Invariance` (`Spec => []IInv`). `StartedAtMostOnce` alone is not inductive:
  nothing in it keeps an event from being queued twice. `IInv` adds the *token argument*: a
  dispatch is unsent (its notification not yet handled; its row unclaimed or held by one flush
  goroutine), or in one channel, or in one queue, or running, or a result on its way, or gone,
  and moves only forward. A notification is handled once because `note` only advances; a claim
  is sent once because `assigned` is set once and one goroutine holds the row; a channel is
  read by the one live stream of its runner.
* `OneStartPerDispatch`, `OneHolderPerRow`: read off `IInv`.
* `AddressInvariance`, `ReachesOnlyAddressed`: `OnlyAddressed` looks at executions and results
  only. `AddressInv` follows the command back: a notification and an assignment name a runner
  that has matched the row since it was posted (`RoutesOK`), and an event moves from a channel to
  the queue and executor of the same runner (`PlacesOK`). Tags come and go under the readers, so
  `offered` records who has matched, and `MatchesOK` that it misses nobody: whoever matches by the
  tags of the row of `runners`, or by those an opening stream has read, is in it. The types,
  `RowsOK` and `FlushesOK` of `IInv` are hypotheses.
* `CountInvariance`, `CountHasFloor` (module `DeliveryProofs`): `ActiveCountFloor` is not
  inductive, because a decrement must know that its increment is in the count or owed. `CountInv`
  compares cardinalities: count plus debts cover the dispatches that are outstanding. Every step
  is one of five kinds of booking; that a settlement takes a dispatch off the list, and not one
  that is on it twice, is the token argument of `IInv`.
* `ImplementsLedger` (`Spec => Promise!LedgerSpec`): the initial states map to initial states
  and every step maps to a ledger step or a stutter, with `IInv` as the hypothesis.
* `ImplementsExecutors` (module `DispatchProofs`) and `ImplementsExecutor` (module
  `ExecutionProofs`): an accepted event was in a queue, so by the token argument it never started
  before, on no runner; and what `Handle` and `ExecuteTest` have found is still so at the start, by
  `ExecutorInv`.
* `HubInvariance`, `NeverSendsOnClosed`, `ListsOpenStreams`: while a Send pushes, the write
  lock is not in its critical section, so the channels it still visits or has visited are
  exactly the list of its slug, none of them twice, and a listed channel is not closed.
* `ImplementsFanout` (`Spec => Seen!FanoutSpec`): every push is the offer to its stream, the
  critical sections open and close streams, and the rest of the locking does not show. That a
  stream opens or closes only while no Send of its slug is half done, and that the answer is true
  only if the list has a stream, is `InProgress`.
* `ServiceTypes`, `ServiceIsDispatch` (`ServiceSpec =>
  ReaperIsInvisible`, module `ServiceProofs`): `Dispatch` may leave the reaper and time out. The
  statuses its two UPDATEs of `commands` look for are written nowhere, so they match no row. Of a
  runner it changes `offline` into `orphaned` and sets `orphaned_at`, and time changes `fresh`:
  `unreaped` does not show them. What the handlers read of a runner (is it there, is it online,
  how many commands it has) is the same in both tables (`ReadsAlike`), and what they write
  commutes with the mapping (`WritesAlike`). The hypothesis is `TypeOK` and `RowsOK`, proved for
  `ServiceSpec` first.
* `ServiceKeepsPromises`: therefore `StartedAtMostOnce`, `FlushExclusive`, `OnlyAddressed`,
  `ActiveCountFloor`, `KeepsLedger` and `ActAsExecutors` hold of the server with its reaper. The
  theorems of `DispatchProofs` and `DeliveryProofs` are instantiated with the mapped table; those
  properties read nothing of it that the mapping changes.
* `ExecutorInvariance`, `NeverTwiceAtOnce`, `KeepsLimit`: `OneProcessPerCommand` is not
  inductive, because nothing in it ties a process to a key. `ExecutorInv` adds that there are
  as many keys as jobs listed, with a process or without one yet, and that a listed job has its
  key; that the key looked for and not found is still missing when `Execute` inserts it; and that
  from the limit test to the insertion there is room: the main loop is the only goroutine that
  adds, and the others only delete.

* `OutputInvariance`, `ExecutionTypes`, `LinesSentOnce`, `NeverShippedTwice`,
  `OutputIsAccountedFor` (module `OutputProofs`): that no line is shipped twice depends on no two
  lines that are sent being equal, and a stale `incomplete` makes lines overlap. The argument is
  about the last piece of a line. A complete line ends with a newline piece; the newline pieces
  of a chunk in work ascend and are larger than those of earlier chunks (`incomplete` holds none,
  and a read brings pieces not read before), and every line sent so far ends with a smaller one.
  A remainder ends with no newline, and after it its reader is done. The proof of
  `NoOutputVanishes` then follows a piece through its stations, with `OutputIInv` as hypothesis.
  For any jobs, pipes, texts, newlines and channel capacity, and every way reads may cut.
* `LinesNumberedInOrder` (module `OutputProofs`): `NumberedInOrder` adds to that invariant that no
  line in a channel comes before one already numbered or ahead of it, which is what the ascending
  ends give, and that `logSeq` is ahead of every number that a command still alone has been
  given: a reset meets a job that has sent nothing (its readers are off), one that is reported,
  or another job of the command, which then is not alone.
* `SamplingIsExecution` (`SSpec => Spec`): the client with its shipper implements `Execution`,
  so the theorems above hold beside the shipper too (`SamplingKeepsPromises`).
  `SamplesHaveTheirCommand`: a pid is of one process at a time (`StartProcess` takes a free one), so
  whatever process has the shipper's pid is the one `GetPID` named, or that one has been waited
  for; both stay so until the sample is shipped and ever after. `LatestKeepsMark` is inductive given `ExecutorInv`.
* `LogTypes`, `DeletionsAreAskedFor`, `ReadInvariance`, `PagesMissNothing`: paging is a counting
  argument. As long as a line with a number of its own has not been read, at least as many rows
  come before it as the reader has skipped: inserts only add such rows, and a full page that
  stops short of the line consists of them. An empty page therefore comes only after
  the line. `DeletionsAreAskedFor`: `MaxLogs` is the largest number of lines that fit
  (`RoomForMaxLogs`), and the statement keeps that many of those that are not older.

Only model-checked: the liveness properties (`ReconnectsDrainQueue`, `NobodyWaitsForever`,
`RunningComesOnline`, `FirstAbsenceDetected`, `EveryRunEnds`, `LimitsTakeEffect`, `FollowerReaches`,
`MarkedIsSampled`), which, like every statement about fairness, are out of the prover's reach.

## 7. What the checks found

1. `dispatch_kill`: a command dispatched by its notification executes while its row is
   `queued`, and `POST /commands/{id}/kill` answers 404 for it.
2. `execution_report`: `logCh` is closed (`executor.go:114`) without waiting for the readers. A
   reader that still has a line sends to the closed channel and the panic ends the client, so
   the command, and every other one running, is never reported
   (`client/README.md:127`: "On completion, result ... is reported to server").
3. `execution_lines`: `streamOutput` does not clear `incomplete` once its line is complete and
   the chunk ends there (`executor.go:202`); the beginning of the old line is sent again in
   front of a later one (`client/README.md:124`: "streamed line-by-line").
4. `logs_follow`: `WatchLogs` starts with `lastSeq = 0` and delivers only larger numbers
   (`sdk/go/client.go:337`), while a runner numbers from 0: the first line of every command is
   never delivered. It also never asks for a second page (`client.go:324`).
5. `service_expired`: `FailExpiredCommands` looks for `pending` and `running` rows, which do not
   exist (`store.go:607`), so a command past its deadline stays queued, and can no longer be
   claimed, or stays claimed (`README.md:279`: "Marks commands past deadline as failed"; also
   `store.go:600` and `reaper.go:12`). `FailStuckCommands` (`store.go:647`) looks for `running`
   rows, so "Fails commands assigned to unavailable runners" (`README.md:281`) fails alike.

Seen while reading and not a run of its own:

* `Hub.Send` answers true when every channel was full, against its comment (`sse/hub.go:58`:
  "Returns true if at least one connection received the event."). `SendsAsOne` does not settle
  this: `Fanout` lets a Send whose channels were all full answer either way, and fixes the answer
  in the two cases where comment and code agree.
* `orphaned_at` is never reset, so a runner is detected as orphaned once in its life
  (`README.md:280`: "Detects orphaned runners (offline >5min)"). `FirstAbsenceDetected` is what
  holds.
* There is one `activeCommand` for up to `CLIENT_MAX_CONCURRENCY` commands: only the one accepted
  last is sampled, and when it ends none is until the next is accepted.
* A command that times out is meant to report exit code 124 (`client/README.md:133`), but
  `executor.go:132` asks the runner's context for the deadline and not `execCtx`, which has it.
* "Running commands are allowed to complete" at shutdown (`client/README.md:142`), but they run
  under a context that the shutdown cancels.
* `logSeq` is reset before `Execute` refuses a command that is running, and when a result is
  reported while lines are still to be numbered; sequence numbers of a command then repeat.
* A repeated number costs a reader a line when it falls on the border of a page, and a follower
  every line after the counter has started over.
* The rollup calls `date_trunc('1 minute', ...)`, a unit PostgreSQL does not know.

Also visible in the models, without a claim in the documents they contradict: a kill request
reaches nobody, since no client reads `kill_requested_at`; a client that crashes stays
`online`, since only a deregistration makes a runner `offline`; a command of target type
`runner` whose notification is lost is never claimed.

## 8. Abstractions

* A channel is a set, so events of one channel arrive in any order; the code's FIFO order is
  one of them. The events a dead stream's channel still holds are not kept: nobody reads them.
* A client has one live stream at a time. Slugs are unique per client
  (`CLIENT_RUNNER_SLUG`), and the client's loop opens the next stream after the last one ended.
* Routing among equally busy runners is arbitrary.
* Payloads, timeouts in seconds, exit codes and error texts are left out. `ReportResult`
  chooses freely from `Finished`. That this set holds no status the statements test for is an
  assumption (`ResultAssumption`), not a guard of the code: `runners.go:307` writes whatever a
  request carries. The runner in this repository reports `success` and `failed` only.
* An unknown target type or an unregistered slug inserts a row that nothing ever matches; it
  behaves like a command whose notification is lost, and is not enumerated.
* The events a client still has queued when it stops are gone. Two
  deregistrations of one slug at a time are not modelled: a client waits five seconds at most
  for the answer to its own before it ends.
* `Execution` leaves out the timer of a command (a process may exit at any time) and the
  stop of the client, which `Dispatch` has.
* A second `POST /register` of the same slug overwrites status, tags and `last_seen` and keeps
  `active_count` and `orphaned_at`, as the upsert does.
* Rows that another statement has locked are known to the model only as far as `Locked` says: a
  claim may pass over any of them, whether or not the other statement is at work just then.
* A blank line is one of a newline alone; what a line says is left out otherwise.
* `LogStore` takes every line for `BytesPerLine` bytes, as `DeleteLogsBySize` does ("Rough
  estimate: 100 bytes per log entry", `store.go:741`). What `max_size_mb` means for the bytes a
  table really holds is not stated by any property.
* `Sampling` leaves out the numbers in a sample.
* `LogStore` counts time in days and knows one reader and one follower; both only read, so more
  of them would not meet. Lines are inserted by batch in one statement, as the store does.

## 9. Not modelled

* The rollup worker: its first statement truncates to `'1 minute'` or `'5 minutes'`, units that
  PostgreSQL rejects as soon as the window holds a sample. So it never writes a rollup, and the
  flag its second statement sets is read by nothing else. There is no behaviour to state a
  property about.
* The paged reads of metrics and rollups, which have the shape of `GetLogs` and change nothing.
* `WatchCommands` and the read-only calls of the Go SDK.
* The backoff timer of the SSE listener: a value local to one goroutine.
* The generated API client, the web UI, the token comparison, Traefik and configuration loading,
  which keep no state that steps could disturb.

## 10. Plan

Done, in this order: `Store`, `Dispatch` with its runs, `Ledger` and the refinement, the
inductive invariant and its proofs, `Hub`, `Execution`, `LogStore`, `Sampling`, `Service`,
`Executors`, `Fanout`, and the proofs about each of them.

Next: a composition of `Execution` and `LogStore`: the numbers a reader meets are those `Number`
gives.

## 11. Running it

    tlc -workers 2 -config MCDispatch.cfg MCDispatch.tla
    tlapm DispatchProofs.tla

`PROJECT.json` lists the runs, the property mutants, the source lines behind every definition,
the hazards and the theorems.
