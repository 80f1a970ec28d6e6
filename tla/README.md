# Specifications of the server template

The repository is a project template: a gRPC server in Go with an HTTP gateway
(grpc-gateway and gin), an Angular front-end in `view/`, and a generator in
`jsgenerate/` that copies the template (`*.art` files have `{{pkg}}` filled in).
These modules model the parts of the generated server that are hard to test.
Everything is translated from the code; where the code calls a library that is
not in the repository (xorm, sessionstore, zap, grpc, gorilla/websocket), the
library is modelled by what the calling code relies on.

## 1. Inventory

| Part | State | Operations | Talks to |
|---|---|---|---|
| accounts and sessions (`m/server/session`, `m/server/user`, `signal/session`, `sessionid`) | table `data_of_user`; session store: token -> copy of the user's row at sign-in | Signin, Signout, Refresh, Password, Add, Change, Password (reset), Remove, Find; doInit at start | database, session store, the front-end's session manager |
| modification times (`db/manipulator/modtime`, `m/helper/serve_message`) | one row per table: seconds, etag | Init, Modified, LastModified, ETag; the conditional GET of Find | transactions of the user service, caches of the clients |
| asynchronous log cache (`logger/cache.go`) | channel of lines, buffer of `run`, channels of the Sync handshake, mutex | Write, Sync, run | every goroutine that logs; underlying file or monitor |
| log monitor (`logger/listener.go`) and Attach (`m/server/logger`) | set of listeners, a channel of two lines each | Write, OnChanged, AddListener, RemoveListener, Attach | log cache (caller), gRPC streams |
| websocket forwarding (`m/web/websocket.go`, `m/web/api/v1/logger.go`) | flag `closed`, channel `cancel`, write mutex | Serve, request, response | browser, a gRPC client stream |
| in-process listener (`cmd/internal/daemon/listener.go`) | unbuffered channel, close channel, flag, mutex | Accept, DialContext, Close | the gateway's gRPC client, the in-process gRPC server |
| HTTP conditions and ranges (`m/helper/serve_content.go`) | none | Serve: preconditions, If-Range, parseRange | Download of the logger service |
| front-end session manager (`view/src/app/core/session/session.ts`) | session, promise of a refresh or sign-in in progress | signin, signout, refresh, load | session service |
| front-end websocket clients (`view/src/app/core/net/client.ts`, `session_client.ts`) | socket, back-off, subscriptions | connect, close, send, onmessage | server websockets |
| front-end requests (`core/core/restful.ts`, `core/utils/closed.ts`) | the requests in progress and who listens to them | get, post, delete; the end of a component | pages, gateway |
| users page (`user/query`, `user/dialog`) | the address, fields of the filter, rows, a request left for the next address, a dialog | query, turn the page, add, edit, delete, reset a password | user service |
| log pages (`logger/view`, `attach`, `download`) | levels selected and levels told, a listener, the token of the links | load, select, reset, set, attach, detach | logger service, websocket client |
| routes and guards (`app-routing`, `root.guard.ts`, navigation bar) | the page that is shown | go to a page, sign in and out | every page, session manager |
| other utilities (`loader.ts`, `requirenet.ts`) | a promise shared by callers | nothing calls them; RequireNet loads a script | |
| gateway and servers, web pages, compression, configuration, system service | nothing that changes after start | | |
| generator (`jsgenerate/src`) | the directory it writes to | one pass over the template tree | file system |

How they interact. The browser signs in through the gateway, which dials the
in-process listener; the session service reads the user's row through a slot of
`signal/session` and stores a token with a copy of it. Every later request
carries the token, and services decide from the copy, never from the table. A
service that changes the row therefore revokes the tokens in a second step.
Everything logs; a log line goes through a log cache to the console monitor,
which offers it to the attached clients, whose Attach calls send it on, through
a websocket forward for browsers. There the page of the log has a listener, a
websocket client, for as long as it is attached. The pages send requests which
outlive them: going to another page ends the interest in an answer, not the
request. The generator runs before all of this, once or again over what an
earlier run has left.

What is hard here: the copy of the row against the row (stale data, partial
failure, crash between commit and revocation); blocking channels used under a
mutex (log cache, monitor); clients that go away in the middle of a broadcast;
callers racing with Close; lines cut at buffer boundaries; a modification time
of one second's precision; answers that come after their page has gone, or after
others have changed what they say; files half-written when a run is stopped.
`PROJECT.json` lists each hazard at its line.

## 2. Modules

| Module | Models | State and actions |
|---|---|---|
| `Accounts` | user and session service, session store | `users`, `tokens`; a call that is split by the code (read row / Put; commit / DeleteID) is a record in `call[h]` between its steps. `Boot`, `Crash` and one action per request |
| `LoggerCache` | `logger/cache.go` | `ch`, `sync`, `signal`, `rbuffer`, `p` are the code's `l.ch`, `l.sync`, `l.signal`, `r.buffer`, the copied part of `l.buffer`; `pc` follows Write and Sync, `rpc` follows run and Read |
| `AsyncLog` | what a log sink promises | bytes accepted, bytes delivered; `LoggerCache` implements it |
| `LogMonitor` | `writerMonitor`, `SnapshotListener`, `Attach` | `listeners`, `ch[c]`; the writer's place in Write and OnChanged in `wpc`, each Attach in `pc[c]`; each `select` is one action |
| `PipeListener` | the in-process listener | `done`, `closed`, `mutex`; `at` follows every call of Accept, DialContext and Close, with Go's two phases of a `select` |
| `AtomicListener` | what a listener promises | each call takes effect at one moment; `PipeListener` implements it |
| `WebsocketForward` | `web.Websocket`, `websocketForward`, the handler attach | `closed`, `cancel`, `locker` are the code's; `pc` follows the three goroutines Serve, request and response; the browser (`gone`, `frames`) and the stream (`queue`, `ended`) are external |
| `AttachedBrowser` | `LogMonitor` and `WebsocketForward` joined | an Attach call, its stream and the websocket that forwards it; a shared step is a conjunction of one action of each |
| `UserFind` | modification times, `ServeMessage`, Find | `modtime` and `version` in the database, `stamp[w]` of a transaction in progress, `find[c]` a request between its two reads, `cache[c]` what a client kept |
| `SessionManager` | class `Manager` of session.ts, in every tab, and the interceptor | `subject`, `remember`, `completer` are `subject_`, `remember_`, `refresh_` of each tab; `key` and `last` the two entries of the local storage; `req`, `signing`, `posted` the calls in progress; `alive` and `age` what server and clocks make of a token |
| `WebsocketClient` | `Client`, `ClientImplement` (net/client.ts), `SessionClient`, `Access` (session_client.ts) | `closed`, `completer`, `ws`, `delay`, `access` are the code's; `at` is the place of `promise()`, `waiting` and `writers` who waits for it; per socket, what the browser makes of it (`conn`), what its handlers make of it (`state`) and whether a message has come (`first`) |
| `Subscription` | what a websocket client promises whoever made it | one phase: trying, connected, closed, over; `WebsocketClient` implements it, and `LogPage` has one of them for each listener |
| `Calls` | requests of the front-end and the ends of its components | `call[i]`: what is asked for, whether the server has done it (`served`), whether its component listens (`heard`) |
| `UserPage` | `QueryComponent`, `Request`, the four dialogs; Add, Change, Remove, Password and Find as the page sees them | `address` is the URL; `typed`, `failed` and `count` are fields of `request`, `current` is `request_`; `lastRequest`, `rows` (`source`) and `disabled` are the code's; `table` is the server's, `kept` the answers to queries in the browser's HTTP cache |
| `LogPage` | `ViewComponent`, `AttachComponent`, `DownloadComponent`; SetLevel and Level | `data`, `backup`, `setting` (`disabled`), `ready`, `err`, `listener`, `token` are the code's; `sub[l]` the phase of listener l; `level` is the server's |
| `FrontEnd` | `UserPage` and `LogPage` under the router, its guard and a session | `page`, `session`; leaving a page abandons its calls, a new session is told to the page |
| `Generator` | `main.ts` and `helper.ts` of jsgenerate | `out` is the directory, `run` the run in progress (its uuid, options, entries left), `writes` the writes nothing may have waited for |
| `MC...` | constants and symmetries of the runs | |
| `Server_proofs` | theorems and proofs about `Accounts`, `UserFind`, `PipeListener` and `LoggerCache`, which it extends together: hence names such as `FindNext`, `PipeNext`, `CacheNext` in these | |
| other `..._proofs` | theorems and proofs of the module named | |

History variables, which the code does not have: `ver` and `late` in sessions,
`missed` and `removed` (`Accounts`), `sent` and `out` of the cache, `sent` and
`due` of the monitor, `peer` and `panicked` of the listener, `panicked` and
`frames` of the forward, `unmoved` of Find, `streak` of the websocket client; `missed`, `stale`, `changed` and
the `since` of a call in the pages; `done`, `cut`, `lost` and the `found` of a run
in the generator.
An operator whose name has a suffix, such as `Swap_Store`, is a changed form of
a definition: it says which mistake in the code the properties would find, and
is no part of any specification.

Abstractions worth knowing.

* `Accounts` has a user's password and authorization (whether it holds the role
  `Root`) and leaves the nickname out; a sign-in whose password is wrong, and
  any request refused before it changes something, is a stuttering step. An update
  that is applied although its transaction reports an error is one whose DeleteID
  does not happen, and counts as a missed revocation. Names
  are the identity of users: they are unique and no request changes them.
* `LoggerCache` names a byte by its rank. In `LogMonitor` one chunk handed to
  the monitor is one line.
* In `WebsocketForward` a message that the browser sends and the handler accepts
  changes nothing; attach accepts everything, and `MayReject` stands for other
  handlers of the type `Forward`. A write to a browser that has gone may succeed or fail.
* `UserFind` has the database serialise two updates of one row, which is what an
  UPDATE does; its clock may be set back.
* In `SessionManager` a JavaScript task with the promise callbacks it sets off
  is one action, its access to the local storage included. A session is its
  access token and its user. Once a token has expired, the deadline for
  refreshing it may or may not have passed on the reader's clock, so refresh may
  choose either token it knows of. `Resume` has the callbacks of a refresh in the order in which
  promises run them: a sign-in that waited goes on before `finally`.
* In the pages a JavaScript task is one action, and the router hands a new
  address to the page in the task that changes it. A filter (`name` and
  `nameFuzzy`) is the set of users it matches; a user has a nickname and an
  authorization of two values each. A call is served once or never, and fails
  with or without having been served. A paginator stays on the page it was
  turned to although that page was never listed, so it may offer any page. The
  session is its token and whether it is root's, the listener a `Subscription`;
  signing in and changing one's own password are one step each.
* Find lets the browser keep its answers for five seconds (`SetHTTPCacheMaxAge`,
  `srv.go.art:28`), and afterwards `ServeMessage` may tell it that nothing was
  modified. In `UserPage` the browser keeps, at any time, the answer to any query
  (`Keeps`: one of the page, one that was abandoned, one of another tab), and answers a
  query of the same page, filter and kind of result with it (`Recalled`).
  How long it goes on to do so is left open, as is whether it asks the server: when
  `not modified` hides a change is what `UserFind` is about. It may forget at
  any time, which is not to use what it has kept. Add, Change, Remove and Password
  have other addresses than the query, so their answers make the browser forget
  nothing. The answers of the levels carry no such header.
* In `Generator` the loop over the tree is external: a directory comes before
  what is in it, otherwise in any order. A file is created, and complete in a
  later step. Contents are where they come from and the uuid they hold. An error
  nobody catches stops the process, or, as older versions of Node have it, does
  not: writes go on until `Stop`. There, a write that fails with nobody waiting for it
  (`main.ts:140`) has no action of its own either: its file is one that `Stop` finds
  not whole.
* In `WebsocketClient` a task with its promise callbacks is one action too; the
  way from the delay to the address is a step that precedes any other task. A
  browser reports an error before the close of a socket it could not open, so
  the branch of `onclose` for a socket that was never opened has no action. The
  session manager is reduced to whether somebody is signed in and what becomes
  of a refresh. Heartbeats and `SessionRequest`, which sends over an open
  socket, are left out. `write` is included, although nothing calls it yet.

## 3. Runs

| Run | Bounds | Shows |
|---|---|---|
| `accounts` | 2 users, 2 passwords, 2 tokens, 2 calls in progress, 2 versions of a row, persistent store | sessions agree with the table outside the three windows (below), across crashes; a restart never changes an account |
| `accounts_remove` | Remove requests that name users | the documented effect of Remove does not happen (section 6) |
| `cache` | 2 goroutines, channel of 1, buffer of 2 bytes, lines of 0-3 bytes, 4 calls | answers match requests, the only way logging stops, when a Sync returns, and that the cache implements `AsyncLog`: order, no loss |
| `monitor` | 2 clients, the code's capacity 2, 4 lines | the newest line is kept for whoever does not read, lines are lost at the old end only, and the logger is never held up |
| `pipe` | 2 acceptors, 2 dialers, 2 closers | one Close wins, nobody stays blocked, and the listener implements `AtomicListener`: nothing is handed over after the close, ends are paired, nobody is refused before |
| `forward` | 4 messages of 2 values, a handler that may refuse | one writer, one close, the browser learns why, and every goroutine ends |
| `browser` | 4 lines, one message in transit | what a browser sees of the log, and that one which has gone is forgotten everywhere |
| `find` | 1 client that polls, 2 writers, 3 seconds, 3 changes | what a conditional Find may hide, and that it hides nothing else |
| `session` | 2 tabs, 2 users, 3 tokens, 1 request per tab | a tab shows the user its token belongs to; the promise shared by callers stands for a call in progress |
| `client` | 3 sockets, 1 writer | one connection at a time; the client implements `Subscription`, so that one which is closed receives nothing and comes to rest; one that is not closed keeps trying, backs off and gets its connection back |
| `pages` | 2 users, pages of 1 or 2, 2 filters, 2 calls, 1 listener, 2 levels, 2 tokens, 1 change by others, 1 query that fails, 1 kept list | what a page shows agrees with its address and with the server, or is known to be out of date; only the page that is shown is attached; nothing stays disabled |
| `generator` | 2 runs, one entry of each kind, every option | after a run that ended everything is there and whole; one uuid; what is to be kept is kept; an empty directory is no error |

Why the bounds are enough: each run has at least two of every actor whose races
matter, a capacity that is reached, and one more item than fits. In `accounts`
two versions of a row are what tells an old copy from a current one, and two
calls let a change and its revocation overlap a sign-in or another change. In
`cache` a line is longer than the buffer, so it is cut, and lines may be
shorter, so two are joined; the second goroutine finds the channel full. In
`monitor` four lines through a channel of two drop twice for a client that does
not read. In `find` two changes fall within one second and a third moves the
time, and two writers commit in the other order than they stamped; clients only
read, so one is enough. In `session` the second tab is what changes the storage under the
first, three tokens are two sign-ins and a refresh, and a request of each tab
is what a refresh of the other invalidates. In `client` the browser may
still owe the reports of two sockets while a third is being opened, which is
when an attempt, its completer and `ws_` can be confused. In `pages`
two calls are an abandoned one beside its successor; two users are a list that a
filter or a page cuts and one that it does not; one change by others meets every
state of a request of one's own. The states of independent
parts would multiply, so `MCFrontEnd` has each behaviour be about one of four things
(`scope`): paging, with users added and deleted; editing, with changes by others;
recalling, with the list of one user which the browser keeps, before or after it is
changed by the page, by an edit that was abandoned or by others, the last two not in
one behaviour; the log, whose two levels are not both changed at once. What the
address asks for does not depend on what an answer says, so the browser keeps nothing
where paging is the matter. `RowsCurrent` and `EditKeepsRest` are proved without these
bounds. Going from the users straight to the log is left out, and going home,
which abandons the same requests, is not. One listener is enough because the page forgets
a listener when it closes it, and may attach it again only once it is at rest. In
`generator` two runs are one that may be stopped anywhere and one that finds
what it left; the entries are one of each case the code distinguishes: skipped,
excluded, in `pb`, holding the uuid, renamed, copied. Only `accounts` and `session`,
which check safety alone, use symmetry (of tokens and calls, of tabs and
users). Deadlock is not checked where clients are free to stop.

The types (`TypeOK` of each module with proofs) are proved, not run (section 5).

Fairness. Goroutines that can run do (weak fairness of their steps). Waiting
for a `sync.Mutex` is strongly fair, since Go's mutex hands itself to a waiter
that has starved for a millisecond, and so is a case of a `select`, which picks
among its ready cases at random. No client is obliged to send, to read or to
leave; no caller to log or to close; no revocation to succeed; the server need
not restart. Where a property needs a client that reads or asks, it says so: it
has the form `WF_vars(...) => ...`. A write to a browser that is there and does
not read is not fair, since the code sets no deadline. In `find` a client polls
and neither database nor network fails for ever. In `client` timers
fire, a refresh is answered or fails, and the browser reports what becomes of a
socket that it opens or closes; nobody need sign in, and the server need not
accept, except that `Reconnects` has both as its condition. In `pages` a request
somebody listens to ends, with an answer or an error, as HttpClient's do; one
nobody listens to need not. The generator has no fairness, and no property that
needs it.

## 4. What the properties say

* `SessionsCurrent`: whoever is signed in proved the current password and has
  the current authorization, with exactly three exceptions: the DeleteID of the
  change is still to come, it failed or was cut off by a crash, or the sign-in
  read the row before the change and stored its token after the revocation.
  The last two are real and lasting gaps; the run and the theorem show that there
  is no fourth. `RestartKeepsAccounts`: the seeding at start changes nothing
  once there are accounts.
* `AnswerBelongsToWaiter`, `ImplementsAsyncLog`: what the cache
  gets right. `FrozenForever` and `OnlyFreezeStops`: what it does not: when run
  polls `l.sync` just before Sync sends its request, finds nothing more in `l.ch`
  and waits there, Sync waits for run with the mutex held and nobody can log
  again. `OnlyFreezeStops` says that this is the one way to stop;
  `SyncAnswered` says when a Sync is safe from it.
* `NewestKept`, `BroadcastEnds`: what a listener of the monitor, and the logger
  that calls it, may rely on. `QueueUnbroken`: what waits in a full channel is an
  unbroken run of lines up to the last one offered. OnChanged pops in one `select`
  and pushes in another, and the client may receive in between; still no line
  is lost that is newer than one that is kept.
* `NeverClosedTwice`, `ClosedReleasesAll`, `ImplementsListener`: the contract of a
  listener. A call takes effect where two calls meet, at `close(l.close)`, where
  a `select` finds the channel closed or the context ended, or where `done` is
  read. One who reads it between `close(l.close)` and the store goes on, and is
  refused by the `select` or under the lock.
* `CancelClosedOnce`, `OneWriter`: what would panic in a library. The flag of
  the forward is read without synchronisation, and `Load` may miss a store;
  the swap that follows makes up for that. `ClosedIsExplained`, `SuccessFirst`: what the
  browser is told. `GoneEndsAll` and `StreamEndEndsAll`: no goroutine is left
  blocked in ReadMessage or Recv, although neither is woken by the channel.
* `BrowserInOrder`, `GoneIsForgotten`, `NewestReachesBrowser`: the same for the
  whole way from the logger to the browser.
* `StaleOnlyUnmoved`: `not modified` hides a change only if no change since
  moved the time, which happens within one second or behind a clock set back.
  `MovedIsSeen`: any other change is seen by a client that polls.
* `TokenOfUser`: tabs take over, refresh and overwrite each other's sessions,
  and none shows one user with another's token.
  `NobodyWaitsInVain`: `refresh_` is reset by the `finally` of a refresh after a
  sign-in that waited for it has set its own, so it does not always show what
  is in progress; still no second refresh begins, and whoever waits
  waits for something.
* `OneConnection`: a comment of the client promises it ("保證同時只有一個連接"). A
  socket that is closing may outlive the attempt after it, and its reports must
  not be taken for those of the next one. `ImplementsSubscription`: close
  may come at any point of an attempt and cannot stop all of them at once;
  nothing is received afterwards, all of it ends, and nothing begins again. `KeepsTrying`: the loop of `_connect` is carried from
  callback to callback, and no order of reports drops or doubles it.
  `BacksOff`: the delay is that of the failures in a row, also when one socket
  reports two. `Reconnects`: a client gets its connection back.
* `AddressShown`: while no query is in progress, the list answers the request in
  the address, with these exceptions: the query failed; the address changed
  while another query was in progress, which is then not sent; a request of a
  page that was left behind is sent instead (`lastRequest`), or, for no users,
  nothing is. `missed` records the last two.
* `RowsCurrent`, `EditKeepsRest`: a row says what the table holds, unless the user was
  changed since the server gave the row: by somebody else, by a request nobody listened
  to any more, or, when the browser has answered the query with a list it had
  kept, by anyone, the administrator's own acknowledged edit included. `stale` records
  just these. Since an edit sends both columns, only such a row can undo a change
  of the other one. The answer of an edit brings the row up to date, whichever list
  it came from, and only the answer makes the page change a row.
* `LevelsTrue`: the same for the level a log has, where what is selected, and not
  what was sent, is taken for it when the answer comes. `OnlyAttached`: no order
  of attaching, detaching and leaving lets a listener go on that no page shows.
  `LinkCurrent`: the links to the files hold the session's token, also after a
  refresh. `Usable`: list, dialog, levels and loading come back from every
  failure.
* `Complete`: `writeFile` is not waited for and "success" comes before the files are
  whole, yet the process ends after them; only a file that was being
  written when an earlier run was stopped stays incomplete, when the next run is
  to supplement. `SameUuid`: directory and contents agree on the uuid, however
  many runs it took, unless a run was stopped before it had made the directory.
  `SupplementKeeps`: nothing that was there is touched. `FreshSucceeds`: no two
  templates are written to one file. A run that is neither to supplement nor to
  overwrite fails at a file that exists, whatever it has written before.

## 5. What is proved

For all values of the constants, from the assumptions named in the modules
(capacities are positive, kinds of callers are disjoint, the null value is no
record):

* `Server_proofs`, accounts: `TypeCorrect`, `SessionsAreCurrent`, `RestartIsHarmless`.
  `SessionsCurrent` is not inductive: it says nothing of a sign-in that has read
  its row and not stored its token. The invariant adds `SessionCopies` and
  `SigninCopies` (a copy made at the current version equals the row) and
  `OldOnesExcused` (a session of an older version has its excuse), after which
  the order of versions does the rest. `RestartIsHarmless` rests on
  `DownIsIdle`: while the server is down no call is in progress.
* `Server_proofs`, Find: `FindTypeCorrect`, `NeverAheadOfTable`, `HidesOnlyUnmoved`. The
  invariant speaks of an answer on its way as well as of one that was kept: if the
  time has not moved past it, every later change is in `unmoved`.
* `Server_proofs`, listener: `PipeTypeCorrect`, `NeverPanics` and `RefinesListener`
  (`ImplementsListener`), with `HandsOverOnlyOpen`, `PairsEnds`, `ReportsTruthfully`
  and `ReleasesParked`, from who holds the mutex in Close and what `done` and
  `closed` say of each other there. The refinement maps where a call is to what it
  will return (`Answer`); the invariant is what makes the moments named above
  the right ones: nobody is parked once the channel is closed, so a handover needs
  an open listener, and `done` is set only when it is closed, so whoever reads it may
  refuse. `OneStepToGo` is what makes
  `ClosedReleasesAll` true: on a closed listener the next step of a call is its
  return. `ClosesGoOn`: Close calls do not block each other.
* `Server_proofs`, log cache: `CacheTypeCorrect`, `AnswersMatch`, `FreezeIsPermanent`,
  `DeliversInOrder`, `RefinesAsyncLog`, `OnlyFrozenStandsStill`. The invariant behind the order is that
  what is written, copied, being copied and queued, put one after the other, is
  the sequence 1, 2, ..., `sent`. `OnlyFrozenStandsStill` is what
  `OnlyFreezeStops` says, with the guards of the actions (`CanMove`) in place of
  ENABLED: the lemma `Guards` has that no action takes place without its guard.
* `LogMonitor_proofs`: `TypeCorrect`, `RoomIsMade`, `DeliversInOrder`,
  `KeepsNewest`, `LosesTheOldest` (`QueueUnbroken`), from an invariant on where the writer is (`WriterInv`), on the
  line not yet offered (`FreshInv`, `PastInv`) and on the clients still to be
  visited (`TodoInv`). `LosesTheOldest` also needs
  that whom the logger visits is registered and that nothing waits for a client that is
  not yet (`RegisteredInv`). `BroadcastIsBounded` is what makes `BroadcastEnds` true: once the
  logger has the mutex each step of its own brings it nearer to the Unlock, by the measure
  `StepsLeft`, no step of a client takes it back, and it begins at 4n + 1 for n
  listeners.
* `WebsocketForward_proofs`: `TypeCorrect` and every safety property of the run
  (`NeverPanics`, `WritesExclude`, `CloseIsExplained`), and `SuccessComesFirst`, from
  who may be at `close` (the winner of the swap), who holds the mutex while it
  writes, and which error frame precedes the way to `load`. `NoDeadlock` is the
  part of `GoneEndsAll` and `StreamEndEndsAll` that needs no fairness: until all has ended
  one of the goroutines can go on (`CanGoOn`, the guards again), whether or not
  the browser reads in the first case. `WaitInv` has what they
  wait for: the mutex is held by one that writes, the channel is closed, or about
  to be, when a goroutine has ended.
* `AttachedBrowser_proofs`: `PartsBehave`, that the composition is a behaviour of
  the monitor and one of the forward, so that all that is proved of them
  holds of it (`Logging`, `Forwarding` instantiate their proofs). `ShownInOrder`
  (`BrowserInOrder`) builds on it: the stream lies between the line sent last,
  which the monitor keeps behind `written`, and the frames; `QueueInv`, `FirstInv` and `ShownInv`
  say that what is under way is in order, that it begins with the empty message, and
  that it follows what was shown. They hold while response receives and the browser is
  there; afterwards nothing more is shown. `GoneIsReleased`: until a browser that has
  gone is forgotten, by the handler and by the monitor, the handler, the call of Attach
  or the logger that holds the mutex can go on.
* `SessionManager_proofs`: `TypeCorrect`, `CompletersStandForRequests`,
  `NobodyIsForgotten`, `TokensAreTheirUsers`, `OneRefresh`. The last is that
  a tab refreshes a token by one call at a time, since a refresh in progress always has
  the completer (`CompleterInFlight`), which is looked at before another begins.
  `TokenOfUser` needs to know of the refresh in
  progress that the token posted, and the one the server gave for it, belong to the
  user it was begun for.
* `WebsocketClient_proofs`: `TypeCorrect`, `OneAtATime`, `SilentOnceClosed`,
  `NeverAtRest`, `BacksOffAlways`, and `RefinesSubscription`: the safety part of
  `ImplementsSubscription`. The invariant says what the attempt in
  progress knows of its socket (`Attempting`), which socket may still be
  reported to which handler (`Handled`), what `ws_` is (`Kept`), who carries the loop on
  (`Looping`) and that a refresh pending means a failure was counted (`Refreshing`).
* `FrontEnd_proofs`: `TypeCorrect` and every safety property of the pages: `Shown`
  (`AddressShown`), `Current` (`RowsCurrent`), `LevelsAreTrue`, `Attached`, `Links`,
  `EditsKeep`. What the pages show is not inductive, because it comes
  from answers that are still on their way. `ListenInv` (theorem `OneListens`): one call at most has
  somebody who listens, and what it asks for is what the page still waits for.
  `AnswerInv`: what an answer carries is so on the server, or was changed by
  others since it was served. `KeptInv`: the same of what the browser has kept, whoever
  made the change. `PageInv`: a dialog is modal, and what it edits is
  a row. `WaitsForACall` (`NoneInVain`) is the part of `Usable` that needs no fairness:
  whatever is disabled or loading is so for a call in progress that is listened to.
  With `ListenInv` it says that one call is waited for at a time (lemma `Waiting`),
  so the end of a call releases what it disabled and nothing else, and
  what is abandoned, by a dialog that closes, by the browser's buttons or by the router,
  was not waited for by what stays. Any number of users, filters, calls, levels and listeners.
* `Generator_proofs`: `TypeCorrect`, `AllThere` (`Complete`), `OneUuid` (`SameUuid`),
  `NoConflict` (`FreshSucceeds`), `Supplements` (`SupplementKeeps`), for any tree of
  entries in which, those left out apart, no two have one output and some entry
  lies in a directory of the protocol (`EntriesAssumption`); without the first two
  templates overwrite each other, without the second no uuid is
  ever found again. The invariant follows the writes nobody waits for: each belongs to
  an entry that was visited (`WriteInv`), what is incomplete is being written or was
  cut off (`WholeInv`), what was visited is there or being written (`VisitInv`),
  and one uuid at most has a directory (`UuidInv`).

Proved and not run, because the proof says more: `OutInOrder`, `FrozenForever`
(`LoggerCache`), `PopMakesRoom`, `InOrder` (`LogMonitor`), `CloseReported`,
`NobodyParkedOnClosed`, `ConnectionsPaired`, `NoHandoverAfterClose`, `LastStep`,
`SomeCloseGoesOn` (`PipeListener`), `SuccessFirst` (`WebsocketForward`),
`NeverAhead` (`UserFind`: the time sent with a list is never later than the one
a change after it has to exceed), `CompleterInFlight`, `RefreshesOnce` (`SessionManager`), `NoneInVain` (`FrontEnd`) and
`ClosedIsSilent` (`WebsocketClient`).

Model-checked only: everything under fairness (liveness: `SyncAnswered`,
`BroadcastEnds`, `ClosedReleasesAll`, `GoneEndsAll`, `StreamEndEndsAll`,
`GoneIsForgotten`, `NewestReachesBrowser`, `MovedIsSeen`, `Reconnects`, `Usable`, and the
liveness part of `ImplementsAsyncLog` and `ImplementsSubscription`), because the
prover has no rules for fairness; `OnlyFreezeStops`, which speaks of ENABLED; and
that the guards in `CanMove` and `CanGoOn` suffice for the actions, which is
a matter of reading. What the proofs add to the first are the
bounds and the absence of deadlock named above, for all values of the constants.

## 6. Where code and documentation disagree

* `m/server/user/srv.go.art:194` returns an empty answer for every Remove request
  that names an id, and goes on only for one that names none; the service
  definition (`pb/user/user.proto.art:36`) says "remove user" (`RemoveRemoves`, run
  `accounts_remove`). The page for users believes the answer and takes the row away.
Seen while reading, without a run of its own: ETag and SetETag, which nothing
calls, write the column `unix` with the zero time (`modtime.go.art:104`); a
request refused for one user's token is sent again with the session of the user
signed in since (`session.ts:316`); the `finally` of a refresh resets the completer of a
sign-in that waited for it (`session.ts:375`); a client closed while it waits
for a session opens a socket, with an empty token, and closes it once it is open
(`session_client.ts`); loading a session means that it is to be remembered, also
when refresh loads the entry of another tab, so the next save stores one whose
user had not ticked "Remember me" (`session.ts:190`); a query
of users that is repeated within five seconds, or answered with `not modified`, shows a
user as he was before one's own edit, and the next edit, of the other
column, sends the old value back (`srv.go.art:28`, `edit.component.ts:87`); a tab that was signed out of
while it refreshed is signed in again by the answer (`session.ts:370`); a page of
users whose query failed and that is turned to again leaves a request behind, which
is sent in place of the one for the next address (`query.component.ts:39,118`); a
browser button pressed while a query is in progress changes the address and not
the list (`query.component.ts:63`); a listener that was closed may still write
`connect err` to the terminal (`attach/listener.ts`); an error of the generator is
caught by nobody, and it says "success" before its files are written
(`main.ts:140,162`).

## 7. Plan and what is left out

Modelled so far, in this order: accounts and sessions; the log cache; the log
monitor; the in-process listener; the websocket forward and the attached
browser; the conditional Find; the front-end session manager; the front-end
websocket client; the pages for users and the log; the generator. Next:

1. Preconditions and ranges of HTTP (`m/helper/serve_content.go`) as operators
   over bounded inputs against a reference definition.
2. Proofs: that the monitor implements a specification of its own, a queue that
   loses its oldest lines; what `Reconnects` needs beside fairness.
3. Liveness of the session manager: whoever waits for a refresh is answered, and
   a tab finds the session another tab has stored.

Not modelled: `Loader`, `BasicState`, `RequireState`, `firstPromise` and `SessionRequest` of
the front-end, because nothing calls them; what the terminal shows, language,
theme and the other static pages; rendering, configuration, registration of
services, response compression, the system service and file names of logs,
because they keep no state that a step of another actor could disturb; the
encoding of sessions; the cache inside xorm and the limits of the session
store, because the libraries are not in the repository (a session may be evicted
at any time in `Accounts`).
