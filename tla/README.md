# TLA+ specifications of goddd

goddd is a Go template for web services: a few small domains (login tokens,
unique ids, the version record), the packages they are built from (maps with
deadlines, server-sent events, middleware, configuration) and the program that
wires them together. What is hard in it is not any one function but what
happens when requests, clean-up goroutines, the database and restarts meet.
The modules in this directory describe those meetings; TLC checks them on small
instances and TLAPS proves the main results for all.

Source paths below are relative to the repository.

## 1. Inventory

| Component | Source | State it keeps | Operations |
|---|---|---|---|
| TTLMap | `pkg/conc/ttl_map.go`, `sync_map.go` | two `sync.Map`s (values, deadlines), one cancel function, clean-up goroutines | Store, Load, LoadOrStore, Delete, Clear, Dispose, SetTickerCleanup, SwichFixedTimeClear |
| TTLCache | `pkg/conc/ttl_cache.go` | a TTLMap | Set, Get, Del, SetNX |
| Login tokens | `domain/token/**` | rows in the database, entries in a `Cacher`, markers in a TTLMap | Valid, DelayToken(Now), Create, Update, Delete, DeleteAllForUser, DeleteExpired, Expire |
| Unique ids | `domain/uniqueid/**` | a table with a primary key | UniqueID, UndoUniqueID |
| Event stream | `pkg/web/sse.go` | a channel, a flag, a mutex, a cancel function | Publish, Stop, Close, ServeHTTP |
| Version record | `domain/version/**` | rows in the database, `IsMigrate` | IsAutoMigrate, RecordVersion |
| Start and stop | `main.go`, `internal/app`, `internal/web/api`, `internal/data`, `pkg/server` | the running server, signals | Run, Start, Notify, Shutdown |
| Configuration | `internal/conf` | the file, the current `Bootstrap`, last mtime | SetupConfig, WriteConfig, WatchConfig |
| Middleware | `pkg/web` | gauges, limiters, response buffers | Recover, Metrics, Logger, RateLimiter, Auth, Etag, WrapH, PagerFilter |
| Row helpers | `pkg/orm/update.go` | rows, locks, the pool of connections | First, Update, UpdateWithSession, Delete, List |
| Task group | `pkg/conc/conc.go` | a WaitGroup | GoRun, Wait, UnsafeWaitWithContext |
| Circular queue | `pkg/queue` | a ring of readings | Push, Range |
| File backup, clean-up | `pkg/system` | a channel, a file and its copy; a directory tree | Write, Close, RemoveEmptyDirs |
| Derived values | `pkg/logger/slog.go`, `pkg/reason/model.go` | slices shared by parent and children | WithAttr, With, SetMsg |
| Helpers | `pkg/hook`, the rest of `pkg/system`, `pkg/orm`, `pkg/logger` | none of their own | |

How they meet:

- Requests run concurrently and share a TTLMap with its clean-up goroutine; no
  lock covers the two maps together. TTLCache, the limiter (`pkg/web/limiter.go`)
  and the markers of `DelayToken` are all users of that map.
- `token.Core` calls the cache layer, which calls the database layer and then
  the `Cacher`. The two stores are written one after the other, in no
  transaction, by any number of requests and by the clean-up job.
- `IDManager` relies on the table's primary key alone to keep callers apart.
- An SSE handler goroutine drains a bounded channel that other goroutines fill,
  close, or abandon.
- The program reads its configuration, migrates tables if the version record
  says so, serves, watches the file, and stops on a signal or a server error.
- A request runs through a chain of handlers, all of which may abort, fail or
  panic; requests meet in the counters of Metrics and in the limiters' buckets.

What makes each component correct:

- **TTLMap, TTLCache**: a hit is the value stored under that key and is not
  older than its ttl allows; a value does not vanish early; what has expired is
  removed by somebody; cancelled loops go away, and not half-way through a sweep.
- **Tokens**: a verdict rests on the row, or on a row of not long ago; the cache
  agrees with the database where nothing raced; a token is extended once in a
  window and not once per request; an expired token is refused.
- **Unique ids**: no id in two hands, whatever fails; a call ends.
- **Event stream**: no send on a closed channel; accepted events are written
  once, in order; nobody hangs; a closed stream ends.
- **Version record**: a recorded version means its tables were migrated, and no
  instance serves without the tables of its release.
- **Start, stop**: a signal, or a port in use, ends the program; a request in
  flight is answered first unless it outlasts the timeout.
- **Configuration**: a change made while the file is watched takes effect, and
  the program never leaves a part of a file of its own behind.
- **Middleware**: one answer per request; a gauge that counts what is in flight;
  a handler that gets the body that was sent; no more than a burst let through.
- **Row helpers**: no update is lost or half made, and a deleted row stays deleted.
- **Task group, queue, backup, clean-up, derived values**: a wait returns when all
  is done and not before; the window of the last readings, oldest first; a file
  that is always whole and never goes back; only what is empty is removed; a
  value keeps what it was given.

`PROJECT.json` lists the hazards line by line, with the properties that watch
them.

## 2. Modules

### LossyCache: what an expiring cache promises

Entries may vanish at any moment; a hit is the value that is there, written at
most `Life` ago. This is the contract between TTLMap (which implements it) and
TokenStore (which uses nothing else of its cache).

### TTLMap, TTLMapRaces

One step is one operation on one `sync.Map`: `Store` writes `data` and
`StoreExp` the deadline `exp`; a `Load` that finds a passed deadline goes
through `DelData` and `DelExp`; the sweep visits the deadlines in any order and
removes what had passed when it began. `th[t]` is where goroutine `t` stands.
`kind` and `live` are the clean-up goroutines and the one that `c.cancel`
belongs to: `Switch` starts a new loop and cancels the old one, which may sweep
once more, because `select` picks any ready case. SetNX is a Load and a Store.

Two operations are merged into one step where no other goroutine can tell:
reading the deadline and comparing it with the clock; reading the clock and
writing the deadline. How long a goroutine is held up between its two
steps is bounded by `MaxLag`, which is what the results are stated in; the
bound is a guard of `Tick`. `Range` meets every key, in any order; a key
stored during it may be met or not, since a visit acts on what is there then.

TTLMapRaces adds `raced`, the keys two writers of which have overlapped.

### TokenStore, TokenStoreRaces

`db[h]` is the row of the token with hash `h`, reduced to what verdicts depend
on: the expiry, and whether Expire recorded a reason. An expiry is an instant
with a `zone`: how far its wall clock, read as local time, is ahead of the
instant. That is 0 for a time in `time.Local`, but for the hour that comes twice
when summer time ends, and the difference of the offsets for another location.
`cache` and `written` are an instance of LossyCache. `th[p]` is a call: a read
goes `Valid` (cache), `DbGet`, `NXCheck`, `NXPut`, `Judge`; a write is the
commit, then `Put` or `Drop`. A call may learn of an error although the commit
went through (a lost acknowledgement, a cancelled context): the cache step is
then missing. `Restart` ends every call and empties the cache, which lives in
the process. `Evict` lets the cache lose anything. `Decoded` is the JSON round
trip every cached row makes (`*Token` does not convert to `Token`, so
`pkg/conc/ttl_cache.go:80` falls back to JSON): `MarshalJSON` writes the wall
clock in whole seconds without the zone, `UnmarshalJSON` reads it in
`time.Local`. `Scanned` is a row as the database hands it out: SQLite
(`Textual`) keeps the offset, PostgreSQL the instant. `changed` is a history
variable. TokenStoreRaces adds `tainted`: the hashes with an overlapping write
or a missing cache step.

A hash stands for a token: SHA-256 is taken to be injective, and the owner of a
hash is a constant. There is one row per hash, because tokens are
random; no unique index enforces it.

### TokenDelay

`DelayToken` over an INSTANCE of TTLMap (the map `token.NewCore` creates) with
`Ops <- {"LoadOrStore"}`, the row update after it, and the sweep of the markers.
`Attentive` restricts time to pass only when every token has been used and a
sweep has ended, for the question what happens to a token in steady use.

### UniqueID

`call[p] = <<level, failed>>` is the position in the two loops; the pools of
random strings per length are sets; a failed insert may have gone through. A
caller undoes an id it holds, once, and has stopped using it by then.

### SSE

`Publish` (call), `PublishLock` (mutex and flag), `PublishSend` (channel);
`Close`, `CloseLocked`; `Stop` without the mutex; the handler's `select` as the
actions `Cancelled`, `Receive`, `Drained`. Every event is published once, so that
loss and duplication show.

### Migration

The start of an instance: `Start` (main sets `DBVersion`, the database is
opened), `IsAutoMigrate` (the last record, or an error, decides), `AutoMigrate`
for every table of the release's domains (skipped without effect when the flag
is off), `RecordVersion` (logged and forgotten when it fails), then it serves.
`Exit` may come at any point: a panic of a failing migration, a signal, a kill.
Several instances share the database. A version is the sequence of its numbers;
`VersionToStr` and `CompareVersion` are the string comparison of the code.
`NeedsAssumption` is what the design asks of developers: who changes a table
raises the version, so a release that does not compare as newer needs nothing more.
The set `Tables` stands for the tables of the domains a product wires; in
`wire_gen.go` as it stands only the version table is migrated.

### The parts

The next modules share no state with one another. Each has its own variables,
an `...Init` and a `...Next`; MCParts puts them side by side for one run.

- **Request**: `ctx[r]` is the gin.Context of a request with its writer: where it
  is in its chain (`pos`), on the way down, up or in a panic (`at`), the status,
  the bodies written or held back by the EtagWriter. `Chain` is a constant: the
  handlers of a route in the order of `Use`. One action per middleware and
  direction; where a middleware touches shared state more than once (the two
  counters of Metrics, the reads of `/app/metrics/api`) each is a step. The limiter's
  TTLMap is taken apart as in TTLMap: Load reads the deadline, judges it, deletes
  value and deadline by key or reads the value; LoadOrStore writes the deadline and
  then looks for the value; the sweep finds and deletes. `found` counts how often a
  request or the sweep found a client's deadline passed. `Calls` is what a request may bring: tokens
  that are missing, stale, of another secret or level, and bodies that are
  short, longer than what is logged, larger than the limit, broken off,
  malformed or chunked. gin and net/http are external, as the code uses them.
- **Server**: the goroutine of `Start`, the notify channel, `Run`'s select, the
  shutdown with its timeout, signals, one request per connection. `h2c` holds the
  connections that `h2c.NewHandler` has hijacked.
- **ConfigWatch**: `file` is known by its modification time and whether it is
  whole; an editor writes it at once or in halves; the process writes the
  default file through `config.toml.tmp`, reads, watches, dies and starts again.
- **CirQueue**: Push and Range assignment by assignment, so that a Range may run
  into a Push; **TaskGroup**: the WaitGroup, with tasks that panic, never return
  or start others; **FileBackup**: the channel of one, the copy and the rename;
  **EmptyDirs**: the counting walk over a tree, then the removals in any order.
- **Chunks**: SendSSE, SendChunkPro and SendChunk with the chunk kept back for the
  next tick. **Derive**: Go slices as arrays with a capacity, because whether a
  child overwrites its sibling depends on it. **Pages**: PagerFilter and
  ListWithContext, while rows are added. **RowUpdate**: transactions that read
  with a row lock (PostgreSQL) or through a pool of one connection (SQLite,
  `internal/data/provider.go:23`), change and save.

## 3. Runs

| Run | Question | Result |
|---|---|---|
| `ttl` | Is the pair of maps an expiring cache, with two callers and the sweep? Is a key without write races coherent, and kept until its deadline? | holds |
| `ttl_live` | Are expired entries dealt with, do cancelled loops end, with every operation and both kinds of loop? | holds |
| `ttl_orphan` | "Store deletes the pair after its ttl" (`ttl_map.go:87`) | violated |
| `token` | Are stale verdicts bounded, with two tokens of one user, an expiry in another zone, all operations, restarts, lost acknowledgements? Does the cache agree where nothing raced? | holds |
| `token_expire` | "Expire actively" (`bz.go:60`): is an expired-by-hand token refused? | violated |
| `delay_used` | Does a token in steady use stay valid (`bz.go:12`)? | violated |
| `uid` | No id in two hands, every call ends | holds |
| `sse` | No send on a closed channel, nothing lost, nobody hangs, closed streams end | holds |
| `migration` | Does a recorded version have its tables, does nobody serve without them, with three instances of four releases? Is 0.10.0 after 0.9.0? | holds |
| `parts` | What each part of section 2 owes on its own: 18 properties, below, and: is a token extended at most once in a window? | holds |
| `dirs_lost` | "Removes empty directories" (`dir.go:95`): is any file lost? | violated |
| `sse_close` | "After Stop one should call Close" (`sse.go:75`): does Close return? | violated |

What `parts` shows, property by property:

- Request. **OneAnswer**: the client gets one body, none only with a 304, for an
  unknown custom method or after a panic; a panic below `setupRouter`'s recovery
  is a 500. **GaugeCounts**: an abort is counted out like any other end, and what
  a panic passes by stays counted for ever. **SnapshotSane**: the metrics page
  never shows more requests in flight than there were. **InputWhole**: the
  business function sees the body that was sent, with two exceptions: a body
  without a length is not bound at all, and in debug mode a form that broke off
  passes for a short one, because LoggerWithBody drops the error of its read.
  **BurstKept**: a burst per client, and one more for each time a request or the
  sweep found its deadline passed. One per timeout would be too few: two requests
  may find the same deadline passed, the second deletes, makes a new bucket and
  passes, and the first then deletes that bucket, which it takes for the old one,
  and makes another. `parts` reaches this with three requests and bursts of one.
- Server. **Graceful**, **RunEnds**: see section 1, for a Shutdown before, while
  and after Start listens. Hijacked connections are the exception: Shutdown does
  not wait for them.
- ConfigWatch. **ChangeTakesEffect**: though it may come while an earlier change is
  waited for, read or handed to the callbacks. Changes between main's read and
  the watcher's first stat are missed (the property starts from `lastMod`), and
  a refused or unreadable file is not read again. **OwnWriteWhole**.
- **RangeIsWindow**, **WaitSeesAll**, **WaitReturns**, **SourceAdvances**,
  **EmptyDirsGone**, **LastDelivered**, **NoLostUpdate**: as in section 1. A Range that
  races with a Push may be out of order and show slots never written.
- **DerivedKept**: errors always keep their details, because `With` doubles them
  and so always moves to a new array; contexts keep up to three attributes, but
  from the fourth on a second child of one parent overwrites the first's.
- **PagesCover**: for sizes from 1 to the largest limit. Outside, the limit is
  clamped and the offset is not, so that pages overlap or leave rows out.
- **OncePerWindow**: two requests, one token and the sweep over two windows.

The five violations, in words:

- **ttl_orphan**: a Delete (or the sweep) removes the value; a Store writes value
  and deadline; the Delete goes on and removes that deadline. The new value
  stays without one: Load says it is not there, and the sweep ranges over
  deadlines, so nothing ever removes it.
- **token_expire**: `Expire` writes the column `reason` and leaves `expired_at`;
  `Valid` looks at `expired_at` first and accepts.
- **delay_used**: `LoadOrStore` renews the marker's deadline also when the marker
  is there, so steady use keeps the marker for ever and the token is never
  extended again.
- **dirs_lost**: a directory outside of the time range is skipped before its parent
  counts it. A parent, or the root, that holds nothing else then counts 0, and
  `os.RemoveAll` takes it with the skipped directory and the files in it.
- **sse_close**: a Publish waits for room with the mutex held; after Stop nobody
  receives, and Close waits for the mutex for ever.

Seen while modelling and part of the modules, without a run of their own: SetNX
may overwrite a value stored between its Load and its Store; the sweep and Load
may remove a value stored after they read the deadline; UniqueID hands the same
string "unknown" to everybody when all tries fail; a Stop before the handler has
started does nothing; an event without content ends the stream before
the events behind it; a version of another length counts as newer in both
directions, so two releases such as 1 and 1.0.0 migrate at every change
between them, although `docs/version_en.md` speaks of greater versions only;
an expiry that is not in `time.Local`, or lies in the repeated hour, is shifted by
its zone on every way through the cache, so that a token expires hours early or
late while its row says otherwise; on SQLite `Expire` and `DeleteExpired` compare
times as texts, offsets and all; one timeout of a client's limiter may let as many
bursts pass as requests find it, one for the sweep added.

### Bounds

- `ttl`: one key, two values, two callers, one loop, ttl 1, lag 1, four ticks.
  Every entry of a map is independent of the others except that a Clear or a
  sweep visits several in turn; races are races of two goroutines on one key,
  and four ticks let a value be written, outlive its deadline by more than the
  lag, be removed and be written again. `TTLMapProofs` lifts the two main
  results to any number.
- `ttl_live`: all operations, two loops (the second is started by `Switch`), one
  caller, ttl 0 and a clock of one tick, so that a deadline passes; `MaxLag` is
  larger than the clock and hence no constraint. One caller is enough for the
  question, which is what a loop owes when it meets a caller.
- `token`: two hashes of one user, two processes, `MaxLag` 0, `Life` 1 and a clock
  of two: rows expire, entries outlive the change of their row and are given
  up. That a call may take any time, `MaxLag`, is covered by the proof, which
  holds for every value; with `MaxLag` 0 all interleavings within one unit of
  time are explored. The one expiry asked for is in a zone one second ahead
  (`Second` and `zone` are 2 clock units), on SQLite, so that both the cut and the
  shift of `Decoded` show: the token comes out of the cache one unit late.
- `parts`: one part moves in a behaviour, chosen at the start. The parts share no
  variable and no action of one has a condition on another, so what a part can
  do alone is all it can do, and the state space is the sum of the parts' and not
  the product. Request is run twice: two requests, one of which may ask
  for each of ten chains, while time stands still; and three requests that ask for
  the limiter alone, with bursts of one, a life of one and two ticks, while the
  sweep runs: two find the first one's deadline passed and race with each other,
  with the sweep, or both. ConfigWatch: four writes and
  one death, so that two changes overtake a third. CirQueue: rings of one to
  three and seven pushes, more than two rounds. TaskGroup: three tasks, any of
  them endless. FileBackup: four contents, one crash. EmptyDirs: every tree of
  four directories, every set of files and of times. Chunks: four, one of them
  empty. Derive: six values, enough for an array to grow twice and be shared.
  Pages: sizes from -1 to one more than the limit. RowUpdate: three updates and a
  deletion, on both databases. TokenDelay: two requests over two windows.
- `dirs_lost`: the same trees; the shortest counterexample needs two levels.
- `uid`: two callers, two levels, two tries, three ids, so that collisions,
  exhausted levels and giving up all happen.
- `sse`: three goroutines, two events and an empty one, a channel of one, so
  that a Publish waits for room while others wait for the mutex. TLC may report
  deadlock there, rightly: a stream that has ended and a Publish that waits for
  room with the mutex held is the end, so deadlock is not checked.

- `migration`: three instances (one may migrate, one roll back, one die), four
  releases around a carry (0.9.0, 0.10.0, 1.0.0) and of another length (1), three
  tables.

### Fairness

- Goroutines that can run do run: weak fairness on every caller's next step and
  on the loops. The ticker fires again and again: weak fairness on `Tick` and
  on the sweep.
- The `select` of a cancelled loop sees two ready channels and picks at random:
  strong fairness on `CleanerExit`.
- A `sync.Mutex` hands itself to a waiter that has starved for a millisecond:
  strong fairness on `PublishLock` and `CloseLocked`.
- `uid`: weak fairness on the steps of a call. No fairness is assumed of inserts
  succeeding: a call ends also if none does.
- `parts`: weak fairness on the server's goroutine, on Run and on the shutdown
  timer; on the watcher's loop, whose ticker keeps firing; on every goroutine of
  a task group whose function returns, and on whoever waits. None on requests:
  they need not end.
- Nothing is assumed about callers starting a call.

## 4. Proofs

All theorems are of the specifications as they are checked, for every value of
the constants that satisfies the named assumptions.

- **TTLMapProofs**: `TypeCorrect`; `LifeIsBounded`, `Spec => []BoundedLife`;
  `TTLMapIsACache`, `Spec => ImplementsCache`. The last two assume
  `"LoadOrStore" \notin Ops`: LoadOrStore renews the deadline of a value it
  does not write, so an old value can live on. BoundedLife is not inductive: the
  deadline a Store still owes must be bounded too. `LagInv` says that a Store
  between its two steps wrote no later than the value that is there was written,
  and that a Load between its two steps reads a value whose life had not ended
  when it checked. With it every step of the two maps maps to a step of
  LossyCache: writes of `data` to Put or Drop, answers to Hit or Miss, everything
  else to a stutter. `ApartIsCoherent` and `ApartIsKept` are for all operations,
  with LoadOrStore (`RaceFreeCoherent`, `RaceFreeKept`): on a key whose writers
  never overlapped, `KeyInv` says how far the one writer has come with the pair
  (`Midway`), and that the pair is whole when there is none. The invariant goes
  key by key, so a race on one key does not spoil the others.
- **TokenStoreProofs**: `TypeCorrect` and `StalenessIsBounded`,
  `Spec => []BoundedStaleness`. `StaleInv` is the strengthening: no call has waited
  too long (`Timely`); an entry that disagrees with its row was put within one
  call of the row's last change (`EntriesRecent`); a call that carries an old row
  began before the change (`RowRecent`). A commit makes rows stale and sets
  `changed`, a Put by a call that began before is within `MaxLag` of it, and a hit
  on such an entry comes within `Life` of the Put, hence `Life + 2 * MaxLag`. What a
  verdict may make of an untouched row is `Reading`: its expiry to the second where
  it is in local time, else off by its zone. A row read from the
  database or put in the cache is the stored one, in its zone or in local time
  (`Same`); one that came out of the cache is judged and never put back.
  `ApartIsCoherent` (`QuietCoherent`): on an untainted hash a reader carries the
  row that is there, and what the cache holds while nobody writes is that row
  (`HashInv`); only a writer may find them different, and it puts them right.
- **UniqueIDProofs**: `TypeCorrect`, `IdsAreUnique`, `IdsHaveRows`. Uniqueness needs
  that the row of every id in use is in the table (`ClaimedInTable`) and that a
  caller that gives an id back no longer holds it (`FreedIsLetGo`): only then
  does deleting the row free nobody else's id.
- **MigrationProofs**: `TypeCorrect`, `RecordsAreTrue`, `ServingIsSafe`. The schema
  only grows; `DoneSoFar` says what an instance has established on its way: one
  that migrates has done what is not left in `todo`, one that does not had
  nothing to do, by the record it read and `NeedsAssumption`. How versions
  compare enters through that assumption alone. `OrderIsNumeric` (`NumericOrder`)
  is about the comparison itself and holds for releases whose numbers are below
  a thousand, which is what three digits can show (`core.go:70`): `Pad` gives the
  three digits (`PadIsDigits`), `VersionToStr` puts number i at the places from
  3i - 2 to 3i (`VersionToStrIsJoined`), and the first digit that differs decides
  as the first number that differs does (`JoinedTells`).
- **SSEProofs**: `SendsAreSafe`; `EventsAreKept`, by the mutual exclusion of the
  sender and by what was accepted being what was written followed by what waits.
- **RequestProofs**, for any set of requests, any routes and any chains that
  satisfy `ChainAssumption` (handlers are what `Handlers` lists, a chain ends with
  its only route handler, Metrics and EtagHandler come once, no recovery inside
  an EtagHandler; the chains checked do). `RequestInv` has a part for each of
  the five theorems: where a request stands in its chain and what it may have
  written by then (`AnswersOnce`); that the gauge counts the requests between the
  two halves of Metrics and those a panic took past it, and that the total is at
  least the gauge (`GaugeExact`, `SnapshotConsistent`); what a handler that read
  the body put back (`BodyWhole`); whose bucket is in the limiter, which former
  ones are still in hand, and that no two requests took the same token of a bucket
  (`BurstBound`). Every deletion needs somebody who found the deadline passed, so
  the former buckets of a client, the requests about to delete, and the sweep if it
  is about to, are together at most `found[k]` (`FoundOK`): a Find adds one to both
  sides, a deletion turns one who is about to delete into a former bucket or none.
  For this part, `took` in `ctx` notes which token of which bucket a
  request got, by what the bucket held; no guard reads it.
- **PartsProofs**: a part's specification is its initial condition and its
  next-state relation, as MCParts and MCEmptyDirs take them. `ShutdownIsGraceful`
  (Server) and `OwnWritesAreWhole` (ConfigWatch: a rename finds the temporary file
  whole); `BackupAdvances` (FileBackup): what waits in the channel is newer than
  what is being written, and that newer than what the file holds (`Newer`), so each
  rename advances; a crash empties the channel and loses contents, never their
  order.
  `UpdatesAreKept` (RowUpdate, `NoLostUpdate`): whoever is between its read and its
  commit is alone there, by the row lock or as the owner of the only connection
  (`Alone`), and carries what the row still is (`Carries`). `WaitsSeeAll`
  (TaskGroup, `WaitSeesAll`): the counter is the number of tasks not done, and once
  the helper has seen it at zero nobody is left to start one (`GroupInv`).
  `DelaysApart` (TokenDelay, `OncePerWindow`): after a decision the marker's
  deadline is a window ahead, less `MaxLag`, and a marker is missing, or about to be
  removed, only when the window since the last decision has passed
  (`MarkerInv`); the lag appears because a sweep or a LoadOrStore may act on a
  deadline it read that long ago.
  `EmptyAreGone` (EmptyDirs, `EmptyDirsGone`): undisturbed and with every directory
  recent, the counts are those of what is left and what is left has all the files
  (`CountsRight`); were an empty directory left at the end, the deepest of those
  would have a count of zero.
- **ListProofs**: the parts whose state is a sequence, for every size.
  `RangeShowsWindow` (CirQueue): the slots hold the last pushes, and the Range that
  met no Push is at the slot its output says (`RingFilled`, `RangeExact`).
  `PagesShowAll` (Pages): for a page size within the limit, what was listed is the
  rows up to the next offset. `LastIsSent` (Chunks): a chunk kept back for the next
  tick is the last one taken and behind all that is written; where none is kept
  back, the last one taken is written (`KeptBack`, `LastWritten`).
  `DerivedShows` (Derive): the array of an error is more than half full, so that
  doubling the details never fits; that of a context has one or two slots and is
  full, or has at least four of which the first three are never written again
  (`DeriveInv`). The invariants quantify over all arrays and slices at once.

What is assumed of the constants, beside that marks such as `None` are no
members of the sets they stand beside: `RequestAssumption` (finitely many
requests; a call is one of a route and of what `Brings` lists; a limiter lives
for some time), `ChainAssumption`; `RowAssumption` and `TasksAssumption`
(finitely many actors: the code's pools and groups count them);
`MarkerAssumption` and `GrantAssumption` (times are natural numbers, the grant
is longer than the window: `bz.go`); `SizesAssumption` (the ring's indices are
`uint8`), `PagesAssumption` (the largest limit is not zero), `ChunksAssumption`
and `DirsAssumption` (bounds are natural numbers). TLC evaluates each of them.

Where a proof needs induction over numbers (the directories above one, the digits
of a number, the joined strings), the property is stated as a set of numbers and
the least number outside it is refuted: `LeastNumber` and `EveryNumber`, from the
library's well-foundedness of `<`. That a recursive function does what its
definition says is then a lemma: some function does (`UpUnfolds`, `DigitsUnfold`).

Model-checked only: liveness (`ExpiredIsSwept`, `CancelledReturns`,
`CallReturns`, `CallsReturn`, `ClosedEnds`, `RunEnds`, `ChangeTakesEffect`,
`WaitReturns`), which is out of the prover's reach. Every invariant and every
action property that a passing run checks is also a theorem.

## 5. What is not modelled

Reads without effect (Len, Range, Keys, Values, ListTokens, GlobFiles, GetDirSize);
logging and timing; `GetToken`, which has no caller and always fails; the Session
methods, which do nothing; gorm, SQL and the JSON encoder beyond what is named
above; data races on plain fields (two `SetTickerCleanup` at once, a request that
reads the configuration while the watcher replaces it).

- The token HTTP API is two routes around ListTokens and DeleteToken, the second of
  which is TokenStore's action.
- Middleware that only sets a header, a deadline or a trace, or measures a time;
  RecordResponse, whose buffer is not read; the pprof routes; validation and
  translation of error texts; URL helpers.
- GoSafe, Timer and the hooks: a goroutine nobody waits for, loops around a
  `time.Timer`, wrappers of one library call.
- CleanOldFiles, which removes the first files of a list one by one; asked for none
  it still removes one.
- What some results leave open. **EmptyDirsGone** is about roots other than "." and
  "/", which are their own parents. **PagesCover** takes the order of rows to be
  stable: `ListWithContext` adds no ORDER BY of its own, and a caller that passes
  none relies on the database. **GaugeCounts** says exactly what the gauge shows;
  after a panic that is more than what `internal/web/api/api.go:63` calls the
  current number of requests. TokenStore takes a hash to have one row.
- In Request: buckets do not refill (a burst is what the limiter promises at once),
  a token does not expire between two handlers, a connection is not lost while
  the handlers run. WebSocket and other upgraded connections.
- In ConfigWatch: two writes with the same modification time, which the watcher
  cannot tell apart; a reload puts all values in force but not in the places that
  copied one at the start, such as the JWT secret, the port and the timeouts.
- In Chunks: the sender blocks for ever on its channel once the receiver has given
  up after a failed write; no property asks about the sender.
- The composition of the parts with each other: they share no state.

## 6. Plan

Order: what many parts rest on first.

1. LossyCache, TTLMap, TTLMapRaces, and their proofs (done)
2. TokenStore, TokenStoreRaces, TokenDelay and proofs (done)
3. UniqueID, SSE and proofs (done)
4. Migration and proofs (done)
5. The parts: Request, Server, ConfigWatch, CirQueue, TaskGroup, FileBackup,
   EmptyDirs, Chunks, Derive, Pages, RowUpdate (done)
6. Proofs of every safety property the runs check (done); of liveness none is
   possible with this prover.
