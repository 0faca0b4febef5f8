# Weeder in TLA+

A verification project for *weeder*, an HTTP proxy in front of a seaweedfs
cluster. It contains TLA+ modules translated from the Go sources, TLC
configurations that check them on small instances, and theorems checked by
TLAPS for every value of the constants. All paths below are relative to the
repository; `H` stands for `src/server/proxy_file_handler.go`, `S` for
`src/server/proxy_server.go` and `U` for `src/server/url_generator.go`.

## 1. The system

A client sends plain HTTP to weeder: `GET /dir/name`, `POST /filer/dir/`,
`POST /submit`, `DELETE /dir/name`, `POST /delete`. Weeder chooses one of the
seaweedfs servers of its configuration, a *weed* (a master or a filer), forwards
the request, tries again with the next one when that fails, and falls back to a
second list of servers, the *shadows*, when a file to be read is missing. An
upload may also write the path of the file to a redis cache and path TTLs to a
MySQL table.

| Component | State it keeps | Operations | Talks to |
|---|---|---|---|
| Choice of a server (`U`) | none; reads the configured lists | `getWeed`, `getFileUrl`, `getShadowFileUrl`, `submitUrl`, `checkUrl` | called by each attempt of download, upload, deletion |
| Routing (`S`) | none | mux patterns, `reRouting` | every handler |
| Access checks (`S`) | white lists (constant) | `isWritable`, `isAccessible` | upload, deletion, filer downloads |
| File download (`H`, `S`) | of each request: two retry counters, the last error, the `http.ResponseWriter` | `getFileHandler`, `download`, `downloadShadow`, `writeResponseContent` | weeds, shadows |
| File upload (`H`, `U`) | of each request: fields left, retry counter, result list | `submit`, `doSubmit`, `doSubmitFile`, `doUpload`, `upload` | weeds, redis, MySQL |
| Chunked file registration (`H`, `src/util/http_util.go`) | of each request: the assigned fid | `registerChunkedFileMeta`, `Assign`, `Upload` | master, volume server, filer |
| File deletion (`H`) | of each request: retry counter | `deleteHandler`, `deleteFile`, `weedDelete`, `deleteRequest` | weeds, volume servers |
| Path TTL table (`src/util/mysql/mysql_client.go`) | one row per path, shared | `SetPathMeta` and the queries | MySQL |
| Redis cache (`src/util/redis/redis_client.go`) | path to fid, with expiry, shared | `CacheFilePath` | redis |
| Queries, health, echo | none | read a row, answer a constant | MySQL |
| Statistics (`src/stats`, `src/server/listener.go`) | channels of 100, ring counters, shared | `Start`, `Accept`/`Read`/`Write`/`Close`, `Add` | the listener |
| Volume check (`src/server/proxy_schedule.go`) | a ticker | `scheduleJob`, `checkVolumeStatus` | a master |
| Chunk splitting, configuration, logging, command | no protocol state | | |

`components` in PROJECT.json lists them all with what is modelled of each.

What makes the system hard:

* **Ordering and partial failure on one response.** All attempts of a download
  write into the *same* `http.ResponseWriter`; what a failed attempt left there
  (headers, status line, half a body) is met by the next (`S:267-313`).
* **Lost and late calls.** An upload or a deletion whose answer is lost may have
  been carried out, or may be carried out later, after the retry.
* **Two nested retry loops** (`H:106-120`, `H:807-815`) over the same round number
  that is also the index of the server.
* **Requests that race** for one path: the filer's entry, the cache's entry and
  the TTL row are written by different steps.
* **Absent parts.** An empty list of shadows, a redis client or a database handle
  that is nil, an entry of a white list that is no CIDR, a url or a caller's address that cannot be taken
  apart, an empty path: each is a panic at some point of some handler, and the
  question is what had been done before.
* **No timeouts.** `weedHttpClient` (`S:61`) waits for ever.

`hazards` in PROJECT.json lists these at their lines, with the properties that
cover them, or the reason why none does.

### What makes each component correct

* *Choice*: while there are enough servers of the type, attempts `0, 1, 2, ...` go to
  different servers of that type; beyond that it is known what comes out.
* *Download*: success means one whole answer; a failure is told as one;
  404 needs evidence; giving up needs every server to have been asked; the cost is
  bounded; the handler never spins.
* *Upload*: the reply tells the truth about what is stored; what is stored and not
  in the reply is the price of a failure only; the right TTL; the cache and the
  filer agree, whoever else uploads the file; nothing is set for a request that failed.
* *Deletion*: "ok" follows a removal; a refused request touches nothing; one request
  removes one version.
* *Registration*: a path never names a fid before its manifest is stored; "ok" means that all three
  calls were carried out, a failure that the path was not touched; what is stored and not
  named has a known cause.
* *Path TTL table*: a setting is one indivisible step for whoever waits for it, whatever other settings do
  between its two statements; a setting that was not in trouble leaves a row.
* *Redis cache*: an entry lives for its TTL, so that a file that is gone is not named for longer; what never
  expires has a known cause.
* *Statistics*: no value gets lost; a ring holds the last turn, as long as values come in turn; while
  somebody counts, nobody waits for ever.

## 2. The modules

| Module | Models | Extends |
|---|---|---|
| `Weeds` | `getWeed` as the operator it computes, and the server `getFileUrl`, `getShadowFileUrl`, `submitUrl` choose | |
| `WeedScan` | one call of `getWeed`, iteration by iteration | `Weeds` |
| `Router` | the mux and `reRouting`: the handler of a request | |
| `GetFile` | one download | `Weeds`, `Router` |
| `Upload` | concurrent uploads, the filer's entries, the cache, the TTL table | `Weeds` |
| `Delete` | concurrent deletions of a file that is uploaded again in between | `Weeds` |
| `Register` | concurrent uploads of chunked files: the branch of `doSubmit` for a part named `meta` | `Weeds` |
| `PathTable` | what `SetPathMeta` promises: one indivisible setting per call (abstract) | |
| `PathMeta` | `SetPathMeta` of the MySQL client: INSERT, then UPDATE, over a pool; implements `PathTable` | instantiates `PathTable` |
| `Cache` | the life of a redis entry under uploads, deletions and the clock | |
| `Stats` | the connection wrapper, the bounded channels, the counting goroutine and the rings | |
| `MC...` | the instances for TLC | the module of that name |
| `WeedsProofs`, `WeedScanProofs`, `GetFileProofs`, `UploadProofs`, `RegisterProofs`, `DeleteProofs`, `PathMetaProofs` | theorems | the module they are about |
| `SharedProofs` | theorems about what all requests share in one process and in redis | `Cache` and `Stats` |

`map` in PROJECT.json gives the lines each definition stands for.

### Weeds and WeedScan

A server is its index in the configured list, and a list is the sequence of the
types of its servers. `getWeed` returns a *pointer to its loop variable*. Since
`go.mod` says `go 1.13`, all iterations share that variable, so the pointer shows
whatever was copied into it last. `WeedScan` has this loop as it stands: `i` servers
have been copied into the variable, and a result that is not nil *is* the
`i`-th server. `Weeds!getWeed` is the closed form; `ScanIsGetWeed` connects the two,
and the other modules use the closed form. Two results are not servers: `NoWeed` is
the nil result, `Panic` is what its dereference, or the index of an empty list,
comes to.

### Router

A URI is reduced to what the tests in `reRouting` tell apart: its shape, whether it
begins with `/filer`, and its query. `GetFile` uses `Route` for the three ways into
`getFileHandler` and for `isFiler`.

### GetFile

`pc` follows one request: `start`, then `primary` (a weed is to be asked),
`primaryWait`, `shadow`, `shadowWait`, `copy` (an answer is being written to the
client), `reply`, and the ends `done`, `denied` (outside the white list: no word),
`refused` (405) and `panicked`. A caller is the network it is in, and the white list a sequence of networks, as
`isAccessible` (`S:335-348`) compares the two. Two things make that check panic (`CheckPanics`, `AccessPanics`): an entry
that is no CIDR, of which `initFilerWhite` keeps a nil `*net.IPNet` (`NilNet`), if no entry before it has the
caller; and a caller whose `X-Real-IP` has a `:` whose byte index lies beyond the slice of its runes (`TooWide`). An
address that is cut at the wrong place without a panic is no address, hence in no network. Asking and being answered are two steps, between which
a server may answer anything in `Answers`: one of three classes of status, with or
without a `Content-Length`, and cut after any number of blocks. `Return` is the end
of `download` together with the loop of `getFileHandler`; `ShadowFailed` is the loop
of `download` over the shadows.

`out` is the `ResponseWriter`. Its semantics are those of `net/http` as far as
`writeResponseContent` meets them: `Header().Add` does not replace, so the *first*
`Content-Length` counts; the first write sends the status line and freezes it; writes
beyond the declared length are refused. The body is the sequence of pieces the attempts
contributed, each with its length and whether it is a whole answer.

`asked`, `shadowAsked` and `seen` are history variables. No action reads them. `seen` keeps, by `Marks`, that an answer
was blank, broke off, or was an error page that counted as the file.

### Upload

One call of an upload is one POST of one file by one attempt, and the copy stored for
it is named by the call. `Post` puts it on `net`; a server may `Store` or `Reject` it at
any later time; the handler may take the answer (`Answered`) or lose the connection
(`CallFails`) at any moment while it waits. A store after `CallFails` is the late store that
retries make possible. `entry` is what the filer has under a path, `cache` what redis has,
`pathTtl` the TTL table together with who set a row. `Gate` holds the checks of `submit` in
their order; of `isWritable` it has the outcome, the panic at an entry of `UploadWhite` that is no CIDR included
(`writable = "broken"`, as in `Delete`); `checkUrl` classifies names by what the function does with them, its use of a byte
index on runes included; `AttemptTtl` is `?ttl=` of the URL, which a retry builds anew
without it; `MayRetry` is the test `retry > Config.Retry`, one more than the loops of
the other handlers allow. The range over the map of form fields is a choice among `todo`.

`failed` and `crossed` are history variables. `crossed` has the paths whose latest copy was stored while an earlier
one of the same path still had to be cached (`Uncached`): the filer and the cache may then be left with different
copies, until the next upload that meets no other.

### Register

`registerChunkedFileMeta` makes three calls, one after the other and none of them twice: a master
assigns a fid (`assignWait`), a volume server stores the manifest under it (`manifestWait`), a filer
registers the fid under the path (`registerWait`). Since a request makes each call once, the request
itself is the name of its fid and of its manifest. `checkMeta` ranges over the map of form fields, so that
the file is any of them, or nil if `meta` is alone; the nil pointer is used only after the fid was
assigned. `getWeed` is called without the shortcut for a single server that `submitUrl` takes, and its
result used unseen: `Begin` panics without a master, `ManifestAnswered` without a filer. The url the master assigns
may not parse (`parses`); `url.Parse`'s error is dropped and the nil `*url.URL` used (`H:1089-1090`), so that
`PostManifest` panics. The module goes
from the call of `doSubmit` to its return. What `submit` does before and after it is in `Upload`.
The servers are taken to say in their answers whether they did what was asked, as `Upload`
looks at the error in the answer and not at its status.

### Delete

The file is a `version`; an `Upload` by somebody else makes a new one. A fid is looked up at
a master first: `Redirected`, `NotRedirected` and `LookupFails` are the three ways out
of `weedDelete`'s `Get`, of which the third continues as well, with the master's own URL, because
a connection error is an `*url.Error` with an URL too. `Send`, `Remove`, `Decline`,
`Answered` and `CallFails` are the DELETE, with the same freedom as in `Upload`. A name without a leading slash makes
an URL of the server's address that has no such host, and the attempt fails (`Try`). Names that happen to continue the
address as a query, a fragment or a user (`?x`, `#x`, `@host/x`) would form an URL that is valid; they are not modelled.

### PathTable and PathMeta

`PathTable` is the abstract specification: a call begins, takes effect in one step, and returns. A call *in
trouble* (its connection broke, or the server refused a statement) is promised nothing. One HSET of the redis
clients is such a step. `PathMeta` is the MySQL client: `Exec` takes a connection of the pool and sends a
statement; MySQL carries it out at any later time (`Insert`, `Duplicate`, `Update`) or not (`Refuse`); the
call takes the answer, or loses the connection (`ExecFails`), after which the statement may still be carried out.
`InsertAnswered` goes on to the UPDATE after *any* error, as the code does. The refinement maps every stage
between the call and its return to "calling" (`Phase`); a row written by either statement is the abstract
`Set`. A `Duplicate`, the wait for the pool and the step from INSERT to UPDATE are stutters. `troubled` and
`written` are history variables of `PathMeta` and the state of `PathTable` alike.

`Upload` takes each `SetPathMeta` as one step, which `PathMeta` justifies: it takes effect, or is in trouble and
may or may not have taken effect.

### Cache

One path. An upload has two steps, as in `doSubmitFile`: the filer stores the file, then redis is told. In
between a deletion or another upload may come. `ParseTtlDuration` is an operator on TTLs reduced to a count, a
unit and whether the text is a number at all; its product wraps, as an int64 does, at `MaxInt`. The
two clients differ in what they send: `SetEx` is refused for a duration that is not positive, `Set` takes it for "no
expiry". `CacheFilePath` chooses by `client`, which `initRedisClient` chooses by the number of hosts.

### Stats

A goroutine stamps a value (`Stamp`), waits until the channel has room and goes on (`Send`). `counting` says
whether somebody runs `ServerStats.Start`. `Add` is `RoundRobinCounter.Add` in closed form: the slots its loop walks over,
`Passed`, are emptied; that the loop computes it is `LoopTheorem` of `SharedProofs`. `Index` is the slot of a time. The
rings are parameters: how many slots, and how many ticks each stands for. `total`, `got`, `newest` and `disorder` are
history variables. `got` has one entry for each unit of time of each ring, so that a slot is compared with *one* entry
of it, and what waits in the channel of connections is counted as places with a 1 and places with a -1: neither
property needs a sum over a set or a sequence, which TLAPS could not reason about. `StatsSpec`, `StatsInit`, ... have
their prefix because one proof module extends both this module and `Cache`.

## 3. The runs

All runs finish within a few minutes. `CHECK_DEADLOCK FALSE` is set throughout because the
requests end: a finished instance has no next step.

| Run | Shows |
|---|---|
| `weedscan` | the loop computes the closed form (`ScanIsGetWeed`); while the round is below the number of servers of the type, the result has the type (`RightTypeInRange`) |
| `getfile` | `ServedWhole`, `FailureHonest`, `NotFoundHasEvidence`, `FailoverComplete`, `Amplification`, `PanicsHaveCause`, and `Settles` under fairness |
| `getfile_mixed` | *violated*: `SuccessReturnsThePicture`. Half an answer followed by a whole one, reported as served |
| `getfile_failure` | *violated*: `FailureIsTold404`. Without shadows, the last failed attempt panics; with one, a failure is told as 500, or an error page comes under 200 |
| `upload` | `ReplyIsBacked`, `OrphansNeedFailure`, `CopiesBounded`, `LostTtlNeedsFailure`, `CacheNamesACopy`, `CacheAgrees`, `SettingsFollowReply`, `PanicsHaveCause`, `Settles` |
| `upload_ttl` | *violated*: `TtlForAllFiles`. A file uploaded by a retry has no TTL |
| `register` | `EntryIsBacked`, `OkIsBacked`, `FailureNamesNothing`, `OrphansNeedTrouble`, `NoComeback`, `PanicsHaveCause`, `Settles` |
| `delete` | `OkNeedsRemoval`, `RemovesOnceUnlessLost`, `FailoverComplete`, `Settles` |
| `delete_ok` | *violated*: `OkMeansDeleted`. The status of the answer to a DELETE is not looked at |
| `pathmeta` | `Atomic`: the two statements refine `PathTable`; `OkHasRow`; `Settles`: also with more calls than connections every call returns |
| `cache` | `LivesItsTtl`, `StaleWindow`, and `StaleDies` under fairness: how long redis names what is gone, and which TTLs make that for ever |
| `stats` | `NothingLost`, `AcceptsBounded` (if nobody counts, at most `Cap` connections are ever accepted), `RingIsWindow`, and `EveryoneProceeds` under fairness |

The properties of the passing runs say how far the code's promise goes, conditions
included. `ServedWhole` holds *unless an answer broke off*; `getfile_mixed` shows
that the condition is needed. In the same way `LostTtlNeedsFailure` stands beside `upload_ttl`,
`FailureHonest` and `PanicsHaveCause` beside `getfile_failure` and `OkNeedsRemoval` beside `delete_ok`. `RightTypeInRange` has its
condition for the same reason: at a round equal to the number of servers of the type the pointer shows the last
server of the list, whatever its type (`U:102`). `CacheAgrees` holds at every moment for any number of uploads of one
path, one after the other or interleaved, and excepts two that *crossed* (stored in one order, cached in
the other), a writer in trouble and what a multi-byte name left in the cache; `RingIsWindow` excepts the late values
it names. In these the code does not keep them. `findings` in PROJECT.json quotes, for
each violated property, the comment or the test it was taken from.

What the code says of a failed download has three disagreements with it, and one run. The comment of
`getFileHandler` (`H:70-75`) promises JSON with status 404, and `Test_GetNeverExistFile`
(`src/server/proxy_server_test.go:71-90`) asks for 404. `FailureIsTold404` states the status; that the code sends no JSON at all
(it is made and only logged, `H:154-159`) is plain from the source. `FailureHonest`, which holds, therefore leaves open
whether a failure other than a missing file is told as 404 or as 500. The run's first trace is the panic at `H:792`. The
others are longer, or come after it: keep only the proxy with a shadow in `MCFailureConfigs`, and TLC first shows
an answer that broke off, told as 200; the state with `"page" \in seen` at the end of a request is an error page under 200
(`H:796`), and that with `out.status = 500` the reply of 500 (`H:144`). Either is found by using the negation of
the condition as an invariant. `ServedWhole` speaks of whole answers and counts such a page as one.

`PanicsHaveCause`, of `GetFile`, `Upload` and `Register`, lists every cause a panic can have. In `GetFile` it says of the
white list's causes that no server was asked before, and of the missing shadow that the attempts are used up.

Each property of a passing run has a mutant: a change of one definition such as a programmer
could make (`...OffByOne`, `...Unchecked`, `...NoCount`), kept beside the definition it would
replace, under which TLC finds the property violated.

### Bounds, and why they are enough

* *Lists*: up to four servers of three types in `weedscan`, with rounds 0..3: every
  position of a hit, zero to four servers of a type, and rounds below, at and above their number. The
  theorems remove these bounds.
* *Downloads*: one request. Downloads share nothing, so two of them would only be a product. Twelve
  proxies cover no weed, one weed, two of the type, a last weed of the wrong type; no shadow,
  one, two of the right type and none of the type; 0, 1 and 2 retries; a nil entry of the white list before and behind
  the caller's network. Callers are in the white list, outside it, or have an address that cannot be cut. Bodies have 0, 1 or 2
  blocks: empty, whole and cut, and a first `Content-Length` below, at and above the second
  answer. The theorems remove these bounds as well.
* *Uploads*: two requests, 0 or 1 retries (so up to 2 or 3 attempts), up to two form fields of up to
  two files, two paths, two TTLs. Two requests suffice for every race for one path; one retry
  suffices for a late store to overtake another one. The two of them overwrite each other's file one after the other,
  interleaved and crossed, and one of them may do so twice, with two fields of one path. Each special name, each path setting, each
  refused gate and each absent part occurs in some case of `MCCases`.
* *Registrations*: three requests, two of them for one path and one with two files to choose from, so
  that a lost registration of a first can overtake the ones of a second and a third; a url that does
  not parse; every proxy that lacks a master, a filer or both.
* *Deletions*: two requests, 0 or 1 retries, `MaxVersions = 3`: each of the two attempts of a
  request can remove a version of its own and one remains.

* *Path TTLs*: three calls for one path over two connections: one waits for the pool between its statements while
  the others insert and update. `PathMetaProofs` removes the bounds.
* *Cache*: two uploads of one path, deletions at any time. Durations are five bits wide and the six units keep
  their order; twelve TTLs have each unit's kind, no unit, an unknown one, no number, zero, a negative count, a
  count too large, and products that wrap to a negative and to a short positive duration. Ages are counted up
  to one more than the longest duration.
* *Statistics*: two connections and channels of one value, so that both wait; two rings, of three slots and of two
  slots twice as long; five ticks are enough to go round, to skip a slot, and to come a full turn late. Channels of one value make one of two
  connections the first that is not accepted. The theorems remove these bounds.

There is no symmetry: clients are told apart by what they submit.

### Fairness

`FairSpec` has weak fairness of the handler's *own* steps, for each goroutine: a runnable
goroutine runs. It assumes nothing of the servers, since the HTTP client has no timeout and a
call may hang. Therefore `Settles` says that a handler finishes *or* waits for a server for
ever: it cannot loop. A server's answer is not part of `Handler` and need not come.

In `PathMeta` a call that has begun goes on, and a statement that was sent is answered *or its
connection breaks*: the driver sits on TCP, whose connections do break. Without that the pool could be held for ever and
`Settles` would not hold. In `Cache` only the clock is fair. In `Stats` the goroutines run, and a `select`
of Go chooses among the cases that are ready at random, so that no channel is left out for ever (weak fairness of
`Count(k)`, for each `k`). `EveryoneProceeds` is about servers with a counting goroutine only: without one, the sends
after the first `Cap` wait for ever, and `Accept` with them (`AcceptsBounded`).

## 4. What is proved

TLAPS checks these theorems for all values of the constants, under the assumptions
stated in the modules: the lists are sequences of types, retries and lengths are naturals, and the
requests of `GetFile` are those that are routed to it.

* **`WeedsProofs`**. The rank maps the servers of a type one to one onto `0 .. n-1`
  (`RankOfHit`, `RankInjective`, `RankOnto`), so every server of the type has a round (`HitHasRound`). From it `GetWeedResult` (what `getWeed` returns in each
  of its three cases) and `RoundsSpread` (different rounds, different servers).
* **`WeedScanProofs`**. `LoopImplementsGetWeed`, that is `Spec => []ScanIsGetWeed`. The invariant is
  `LoopInv`: the countdown has lost one round for each server of the type already copied, and the
  pointer is nil until the first of them. `ScanIsGetWeed` speaks about the end only and is not
  inductive; with `LoopInv` it is. `SeenStep` says how the number of servers seen grows. `RightType`
  then follows from `GetWeedResult`, without another induction.
* **`GetFileProofs`**. `TypeCorrect`: type correctness of a download, with both retry counters within
  `0..conf.retry` for every configuration (no run checks it, since the theorem does, but every other theorem of
  the module rests on it). Six more theorems, each with its own strengthening:
  * `Panics` (`PanicsHaveCause`): a handler that turned to an empty list of shadows is at its
    last attempt (`ShadowInv`), and no server is asked before the check of the caller (`UnaskedInv`).
  * `NotFound` (`NotFoundHasEvidence`): the error "not found" is only ever set with evidence
    (`EvidenceInv`), and a status line on the wire belongs to the last error, unless an attempt
    wrote 200 (`StatusInv`).
  * `Failover` (`FailoverComplete`): the servers of all rounds so far have been asked (`AskedInv`), giving
    up means that the rounds are used up (`GiveUpInv`), and every server of the type has a round
    (`HitHasRound` of `WeedsProofs`).
  * `Cost` (`Amplification`): every finished attempt spent at most `retry + 1` requests on the shadows, and
    the current one `Spent` (`CostInv`).
  The last two say what the client sees, over all histories of the one `ResponseWriter`:
  * `Honest` (`FailureHonest`): a missing file is told as 404 and any other failure with a status of failure. As long as the request is pending, a status line that is out, or a length
    that is fixed, is the trace of an answer that broke off or had no body (`TraceInv`, `WriterInv`).
  * `Served` (`ServedWhole`): unless an answer broke off, the body is empty while the request is pending
    (`CleanInv`), and a success is one whole answer (`SuccessInv`). The heart of it is `CleanCopy`: a copy
    into a clean writer leaves it clean or serves one whole answer, even where the length of an
    earlier empty answer is already fixed.
* **`UploadProofs`**. For any number of requests, form fields, retries and servers, and any order in which calls are
  carried out, answered and lost. All eight invariants of the run `upload` are theorems; together they need one
  inductive invariant, `UploadInv`:
  * `ListInv`: a field is to do, in progress or listed, and not two of these. With it and `StoredInv` (an answer
    belongs to the current attempt of its request, says whether the file is stored, and its call is no longer on
    `net`) follows `ReplyTheorem` (`ReplyIsBacked`).
  * `CallInv`: a call is what its request, its field and its attempt make it (`Fits`), and a second attempt has a failed
    call before it. It gives `LostTtlTheorem` (`LostTtlNeedsFailure`) and `CopiesTheorem` (`CopiesBounded`):
    the copies of one field of one request differ in their attempts, so that their number is bounded by that of `0..(conf.retry + 1)`
    (`FS_Injection`). No induction over the attempts is needed.
  * `QuietInv`: while no call of a request failed, a copy of it is listed, or is that of the call in progress, or its
    handler panicked. It is not inductive alone: a field that is posted has to be new (`FreshCall`), which `ListInv` says. It gives
    `OrphansTheorem` (`OrphansNeedFailure`).
  * `CacheInv` is `CacheNamesTheorem` (`CacheNamesACopy`). `AgreeInv` is about a path whose writers had no trouble and
    did not cross (`Sound`): a copy on its way to the cache is the filer's entry, and where none is, the cache
    has that entry, or what a multi-byte name left (`Agrees`). The first half makes it inductive: a copy that is
    cached is then the one the filer has. It gives `CacheAgreesTheorem` (`CacheAgrees`).
  * `SettingInv`: no setting is made before the files are through (`Ordered`), and of those made so far, the last of
    each path has left its row (`Effective`). It gives `SettingsTheorem` (`SettingsFollowReply`).
  * `PanicInv` gives `UploadPanics` (`PanicsHaveCause`); the entry that is no network is met by `Gate` in the first step. That no later attempt
    panics for its round alone is the closed form of `getWeed` (`ChooseResult` of `WeedsProofs`).

  `Frame` says once what a step of one request leaves alone, and `Effects` what it does in terms of its own state;
  the proofs that an invariant is kept cite these and not the actions.
* **`RegisterProofs`**. For any number of requests and any order in which their calls are carried out:
  * `EntriesBacked` and `OkBacked`: a good answer is not sent before the call is carried out (`AnswerInv`), a
    registration is only posted for a stored manifest (`CallInv`), and the stage of a handler says what was
    done for it (`StageInv`). `TypeCorrect` needs them too: that a handler past its first call has a
    fid is a fact about the answer it got.
  * `FailureQuiet` (`FailureNamesNothing`): a request that has not come to its registration has none under way
    (`EarlyInv`), a refused one has no effect (`RefusalInv`), and a registration is posted once (`PostedInv`).
  * `OrphansTheorem` (`OrphansNeedTrouble`): a manifest is stored while its handler waits for it, or the answer was lost;
    and a handler that goes on without its registration has one of the excuses the property lists (`OrphanInv`).
  * `ComebackTheorem` (`NoComeback`): an ok ends the registration it is for, so what is carried out after a request began
    is of requests that had no ok before it (`SettledInv`).
  * `RegisterPanics` (`PanicsHaveCause`): the nil file is seen by `checkMeta` and used only after the first answer;
    `PanicInv` carries its cause from one to the other. The url that does not parse is met in the step that panics.
* **`PathMetaProofs`**. `Implements` (`Atomic`), from an inductive invariant about calls without trouble: a
  statement under way, or an answer, belongs to the stage the call is in (`Waited`, `Heard`), and not both of the
  same statement (`Once`); a call is among `written` exactly where its stage and its answers say so (`Effect`); an
  INSERT that was refused found a row (`Refused`), and rows stay (`RowInv`). It is needed because `PathTable!Set` may be taken only
  once by a call without trouble, and `PathTable!Return` only after it. Each step of `PathMeta` then is a step of
  `PathTable` or a stutter. `OkLeavesRow` (`OkHasRow`) follows from the same invariant.
* **`SharedProofs`**, first part, about `Cache`. For any TTLs, units, number of uploads and width of an integer:
  * `TtlTheorem` (`LivesItsTtl`): age and rest of an entry add up to its TTL. What an entry starts with is arithmetic: the
    product of a well-formed TTL does not wrap, and one that is at least 1 after wrapping is a duration for either
    client (`Wrap` and the lemmas about remainders). `LeftInv`: an entry that is there has at least one tick left.
  * `StaleTheorem` (`StaleWindow`) follows from `LivesItsTtl` and `LeftInv`: an entry that is older than
    its file's absence has been there for less than its TTL.
  The second part is about `Stats`, for any number of connections, ticks, rings, slots, units and `Cap`. Its invariant
  is `StatsInv`, the types with `CountInv` and `RingInv`:
  * `LoopTheorem`: `Turn` is one round of the loop of `RoundRobinCounter.Add`, `Bump` the additions after it, and
    `TurnsLeft` how often the loop is still to run. None left: `Add` is `Bump`. Otherwise one `Turn` lowers `TurnsLeft`
    by one and leaves what `Add` computes unchanged. So the loop ends, and with `Add`'s result; that these two facts amount
    to it is the usual argument by the invariant and the variant of a loop and is not itself a formula here. The
    arithmetic of the slots, `DivMod` to `ModUnique`, rests on quotient and remainder only.
  * `CountTheorem` (`NothingLost`): what a goroutine is about to send says where its connection is (`SendInv`), and the channel of
    connections holds 1 and -1 only (`ChanInv`). `AtAppend` and `AtTail` say what a send and a receive do to the
    places that hold a value; the proof of each action adds up the two sides.
  * `RingTheorem` (`RingIsWindow`): nothing was counted that is newer than `newest` (`NothingAhead`), and `last` is the slot of
    `newest` (`LastIsNewest`). With them the property is inductive: units of one turn have different
    slots (`SameSlot`, `UnitsInOrder`); a value in turn empties exactly the slots of the units it skips and, in a
    new unit, of its own (`PassedUnits`), so that the window moves (`WindowMoves`); the first value opens it (`WindowOpens`). What
    makes the two exceptions of the property necessary is visible there: a late value, or one a full turn
    ahead, has a slot whose unit is not the one the emptying is for.
  * `AcceptsTheorem` (`AcceptsBounded`): if nobody counts, the accepted connections are as many as the places with a 1 in the channel of
    connections (`AcceptsWait`), since each was put there and nothing takes one out. The property alone is not
    inductive: it does not say that the channel is full.
* **`DeleteProofs`**. For any number of requests, retries and versions of the file:
  * `OkRemoved` (`OkNeedsRemoval`): a file can only be gone by somebody's removal (`GoneInv`), a volume server answers
    a DELETE only when it has removed the file, found it gone, or refused (`AnswerInv`), and a handler ends with ok after
    an answer only (`OkInv`).
  * `RemovesOnce` (`RemovesOnceUnlessLost`): until a request loses an answer, every DELETE it sent is answered
    before it goes on (`HeardInv`), so it sends no second one (`SentInv`) and removes one version at most (`FirstInv`).
  * `Failover` (`FailoverComplete`): as for downloads, with `AskedInv`, `RetryInv` and `HitHasRound`.

Each proof of a step has one case for each action, and cites `TypeCorrect`'s
step lemma for the types.

### Model-checked only

* `Settles`, of `GetFile`, `Upload`, `Register`, `Delete` and `PathMeta`: TLAPS has no support here for liveness under fairness.
* `StaleDies` of `Cache` and `EveryoneProceeds` of `Stats`, which are liveness properties as well.
* Nothing else: every invariant of a passing run is stated by a theorem.
* That the two facts of `LoopTheorem` add up to the loop's result, for any number of rounds, is induction over data: its
  theorem in the library takes an operator as a parameter, which none of the provers used here can instantiate.
* The theorems about `getWeed` do not use a recursive definition: the closed form is stated with
  `Cardinality` so that no induction over data is needed. No module declares a `RECURSIVE` operator.

### Not modelled

Health, echo and the queries answer from constants or one row and change nothing. Logging, the
command and `LoadConfig` are input or output. `split` and `splitUpload` have no route
and no caller. `qiniuDelete` returns nil (its body is commented out). The choice of a
`Content-Type` for spreadsheets (`isXlsFile`) changes a header no property is about. The volume check is a timer, one GET
and log lines in a goroutine of its own; a check that is never answered ends it (`src/server/proxy_schedule.go:51`), which
nothing else notices. Of an upload of chunks, what a read error of the manifest's part
does to its content is left out (`io.Copy`'s error at `H:1082` is overwritten at `H:1093`, so a manifest may be
stored cut off): contents of files are not modelled.

Three details are left out. `http.NewRequest` fails in `download` for an
URL that does not parse (`H:783-786`), which the configured addresses and a request's own URI do not make. The names of a
deletion that form an URL without a slash are named under `Delete` above. And `Conn.Close` sends -1 each time
it is called (`src/server/listener.go:64-67`): the model closes each connection once, as a server does; a caller that closes twice would
make the counter of connections too small, which `NothingLost` does not show.

A divergence that is seen in the source and has no run: only the first file of each form
field is uploaded (`H:590`), though the comment at `H:163` says that batches are supported. `NextFile` of `Upload`
models it as it is.

## 5. What could follow

* An abstract retry protocol `Attempts` (at most `retry + 1` attempts, one outcome, no attempt after a success),
  implemented by `GetFile` and `Delete`. It is not written, because what it would promise is stated and proved of
  the two already: `FailoverComplete`, `Amplification`, `RemovesOnceUnlessLost`.
* The query handlers, if they come to read redis before MySQL: `GetFileId` and `GetFileFullPath` have no
  caller now, and `StaleWindow` says what their callers would meet.
