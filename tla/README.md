# A formal model of the URL shortening service

TLA+ modules that model the service in `src/`, configurations that check them
with TLC on small instances, and proofs that TLAPS checks for every instance.
Paths below are relative to the root of the repository.

    tlc -workers 2 -config Races.cfg MCURLSystem.tla     # one of the runs
    tlapm URLSystemProofs.tla                            # links, whatever happens
    tlapm ServesLinksProofs.tla                          # links, as one table
    tlapm HTTPServerProofs.tla                           # all proofs about the HTTP process

## The system

One HTTP process and one syncer process share two stores, Postgres and Redis.
Neither process keeps data of its own between two requests or two passes, so
everything that can go wrong with links, accounts and sessions happens between
two commands to the stores. What can go wrong with a request itself - that it is
refused, cut off, not counted, or never ends - happens in the HTTP process around
the handlers.

| Component | State | Operations | What is hard |
|---|---|---|---|
| URL service: `internal/service/url_service.go`, `internal/handler/url_handler.go` | per request: the request, `newData`/`cachedData`, the next command | `ServicePost`, `ServiceGet`, `ServicePut`, `ServiceDelete`, `ServiceGetStats` | up to six commands to two stores per request, no transaction, no lock: cache and row are read, decided on and written at different moments |
| Redis cache of links: `internal/redisrepo/redis_url_repository.go` | hash `short:<code>`, no time to live | `SaveUrl`, `GetUrl`, `GetUrlStats`, `UpdateUrl`, `DeleteUrl`, `IncrementCounter` | single-field writes create partial hashes; a restart brings back an old snapshot |
| Table `urls`: `internal/repository/url_repository.go` | one row per short code | one statement each: insert, select, update, delete, exists | the owner test is in the `WHERE` clause; the counter is only written by the syncer |
| Syncer: `cmd/syncer`, `internal/syncer` | the keys and counters of the current pass | every 30 s: `SCAN`, an `HGET` per key, one `UPDATE` | what it writes is as old as its pass; one bad counter fails the pass |
| User service: `internal/service/user_service.go`, `user_repository.go`, `redis_user_repository.go` | table `url_users`, key `refresh:<id>` | `ServiceRegister`, `ServiceLogin`, `ServiceRefresh` | the token is compared and replaced in two commands; the account exists before the session does |
| Tokens: `internal/authorization` | none (signed, with an expiry) | `GenerateJWT`, `ValidateJWT` | a token stays valid after it was replaced; only Redis knows |
| Request pipeline: `internal/middleware`, `internal/app/router.go`, `internal/dto` | Prometheus counters; per request the keys `jsonBody` and `clientID` of gin's context | request id, metrics, JSON validation, authorization, the router | three tables in three files that have to agree; requests that never reach a handler; slow bodies |
| Lifecycle: `internal/app/app.go`, `cmd/app`, `database/connection.go` | how far `Run` has come, the listener, the pools | start, signal, shutdown, restart | four timeouts that have to fit each other; pools; requests in flight when the stores are closed |
| Configuration, logging, generated API docs, deployment | none | - | - |

How they interact: the handlers call the services, the services call the
repositories, each repository method is one command or a short sequence of
commands. The only communication between two requests, and between the HTTP
process and the syncer, is the shared state of the two stores.

What makes the components correct: a link is seen and changed by its owner
alone; every visit counts once; a deleted link is gone; a redirect goes to the
last acknowledged URL; counters reach Postgres and never shrink there; a user's
session is his own and a refresh token works once; every request is answered, by
the handler it is meant for, and counted; the process ends when it is told to and
comes back when it is not. Some of this holds in every
interleaving and after every failure, some only when requests on the same link
do not overlap. The model separates the two, and finding out which is which was
the purpose of writing it.

## The modules

| Module | Models | Extends |
|---|---|---|
| `URLModels` | the record `URLInfo` and the constants of all link modules | |
| `RedisURLs` | one operator per Redis command of `RedisURLRepository`, and how its methods classify what they read | `URLModels` |
| `PostgresURLs` | one operator per statement of `URLRepository` | `URLModels` |
| `URLService` | the five link requests: one action per command, with the code up to the next; failures of a command, of a reply, of the process | `RedisURLs`, `PostgresURLs` |
| `Syncer` | the passes of the syncer | `RedisURLs`, `PostgresURLs` |
| `URLSystem` | all of these together, with snapshots and restarts of Redis and writes it executes late; the properties of links | `URLService`, `Syncer` |
| `LinkService` | **abstract**: one table of links, every request served in one atomic step | `URLModels` |
| `SerialLinks` | `URLSystem` without failures and with no two overlapping requests on one code; the refinement mapping to `LinkService` | `URLSystem` |
| `URLInvariant` | the inductive invariant `IInv` | `URLSystem` |
| `URLSystemProofs` | theorems and their proofs | `URLInvariant`, `TLAPS` |
| `SerialInvariant` | the inductive invariant `SerialInv` of `SerialLinks` | `SerialLinks`, `URLInvariant` |
| `SerialLinksProofs` | what each command does under it; the serial properties and their proofs | `SerialInvariant`, `URLSystemProofs` |
| `ServesLinksProofs` | the proof of the refinement | `SerialLinksProofs` |
| `UserSessions` | accounts, sessions, refresh tokens, their expiry and their failures; its properties | |
| `SessionInvariant` | the inductive invariant `SessionInv` | `UserSessions` |
| `UserSessionsProofs` | theorems and their proofs | `SessionInvariant`, `TLAPS` |
| `HTTPRoutes` | the tables of the HTTP service: routes, bodies parsed and asserted, statuses, calls of each handler to the stores | |
| `HTTPServer` | the process of `cmd/app` around the handlers: `Run`, the connections and middleware, the pools, all timeouts; its properties | `HTTPRoutes` |
| `ServerInvariant` | the inductive invariant `ServerInv` | `HTTPServer` |
| `HTTPServerProofs` | theorems and their proofs | `ServerInvariant`, `TLAPS` |
| `MCURLSystem`, `MCUserSessions`, `MCHTTPServer` | symmetry sets, and the requests and pool sizes of `server` | |

### State and actions

`urls[code]` is the row of a short code, `cache[code]` its hash, each `Nil` (or
`NoHash`) if it is not there. Of a row the model keeps owner, URL and counter.
A hash has the same fields, any of which may be missing, and a flag for
`updated_at`, whose absence makes `GetUrlStats` fail. `Id` and `CreatedAt` are
written together with the owner and never change, so they are not kept.

A client `c` is a goroutine of the HTTP server. `pc[c]` names the command it
issues next: `"get_lookup"` is the `HGETALL` of `GetUrl`, `"get_count"` the
`HINCRBY`, `"put_url"` and `"put_stamp"` the two `HSET`s of `UpdateUrl`,
`"del_row"` the `DELETE` of Postgres, and so on. An action of `URLService` is
that one command together with all the code up to the next one, because this is
exactly what no other goroutine can interrupt visibly. `data[c]` is the
`newData` of the handler, `hits[c]` the counter a `PUT` has read from the cache,
`status[c]` the answer: `"ok"`, `"notfound"` (404), `"forbidden"` (403) or
`"error"` (500).

In `UserSessions`, `session[u]` is the token at `refresh:<id of u>`, `owner[t]`
the `user_id` a token was signed for; `userID[c]` is the user whose id a handler
has in hand and passes to `SaveRefreshToken`, `newToken[c]` the token it has had
signed. `"insert"`, `"retrieve"`, `"get"` and `"save"` are the four commands.

A pass of the syncer asks `SCAN` for one page after another and reads the keys of
each before it asks for the next. `owed` are the keys `SCAN` has yet to return:
those that have been there since its first page. A page may hold any others too,
the ones it has returned before and new ones; so `batch[code]` is the set of
counters read for a code, and the `UPDATE` writes any one of them, as Postgres
does when a row matches twice.

In `HTTPServer` a client `c` is a connection with at most one request on it.
`stage[c]` says what it waits for: headers (`"connected"`), its body, its handler
or the flush of its answer. What comes before the next wait is one action:
`Arrive` is net/http's parsing, the first three middleware and, if no body is
wanted, the rest of the chain; `ReadBody` is the successful `ShouldBindJSON` and
the rest of the chain. A handler is the sequence of calls to the stores that its
service makes (`HTTPRoutes!Calls`); what the calls do to the stores is the subject of the
other modules. A call takes a connection from the store's pool and gives it back
with its reply. `phase` is the line of `Run` the process has come to, `listener`
the goroutine of `ListenAndServe`.

Time is discrete: `Tick` decrements every timer. It is possible only when
everybody waits for somebody else, so computing takes no time and a timer at zero
is acted upon before time goes on. `timer[c]` is `ReadTimeout` while the body is
read and the context of the handler after that, `write[c]` is `WriteTimeout`,
`grace` the context of `Shutdown`. A command to Postgres ends with the context of
its handler. go-redis does not look at the context once a command is sent, so
one to Redis may go on after it (`Waits`, `CommandExpired`).

The modules of the stores see of all this the failures: that a command may fail
at any moment, as when its pool is closed under it or its time is up
(`CommandFails`), that the process ends (`Crash`), and that a request comes with
the body and the user its handler takes for granted (`Receive`), which is what
`NoPanic` says.

History variables (`ownerOf`, `offered`, `visits`; `delivered`, `late`, `known`;
in `HTTPServer` `received`, `early`, `late`) record what has happened for the sake of the properties. No guard of the program
depends on them, with two exceptions that restrict the environment: a short code
that was ever used is not drawn again, and a user refreshes with tokens he has
been given.

Failures: a command is not executed and the request answers 500
(`CommandFails`); it is executed and its reply is lost (`ReplyLost`); the reply to
a write to Redis does not come in time, and go-redis closes the connection and
sends the command again on another one, or gives up (`WriteTimesOut`,
`SaveTimesOut`: `MaxRetries` is left at its default in
`database/connection.go`); the process is killed (`Crash`); Redis
restarts from its last snapshot or empty (`RedisRestarts`); an `HGET` of the
syncer fails, or a pass, or its process (`SyncFails`). In `HTTPServer`: a start
that fails at any line or a crash later (`Fails`), a listener that fails, bodies
that never come or are not what is asked for, clients that hang up, stores that
never reply.

What was sent on a connection that was closed may still be executed: before the
second attempt, after the request was answered, after other requests have
changed the same key, or never. `copies` holds such commands with what they
write, and `CopyArrives` executes one at any time; a restart of Redis drops them,
as it ends the connections. A command executed twice in a row is the
case in which the copy arrives at once.

## The properties

In every interleaving, with failures (`URLSystem`):

* `CountsBounded`: no copy of a counter ever exceeds the visits counted. (It is
  an upper bound: that overlapping requests lose visits, `lost_visit` shows.)
* `OwnersAgree`: the owner in a hash, on whose word requests are let through
  without asking Postgres, is the one who created the link; partial hashes never
  name one.
* `SuccessIsTheOwners`: a successful answer went to the owner and carries a URL
  he stored under this code.
* `DeletedOnce`: of overlapping DELETEs one succeeds.
* `OnlyOwnersChangeLinks`: no row or hash changes its link in anybody else's
  step - not by a fill, a retry, a write executed late or the syncer.

As long as requests on the same link do not overlap and nothing fails
(`SerialLinks`):

* `ServesLinks`: the service implements `LinkService`. Cache, row, syncer and
  all copies in between look like one table.
* `NoVisitLost`, `DeletedIsGone`, `RedirectIsCurrent`, `ForbiddenIsForeign`,
  `RowCountGrows`.

Under fairness: `CountersReachPostgres`.

Sessions, in every interleaving, with failures (`UserSessions`):

* `SessionsAreOwn`: the key a token is stored under is that of the user it is
  signed for (the code passes the two separately, in three methods, and a retry sends
  them again), and whoever is given a token has shown the password of that account, or
  its current token.
* `ReplacedIsRefused`: whoever comes with a replaced refresh token is turned
  away, whatever logins and refreshes of that user are under way.
* `ReplacedForGood`: a session once replaced or expired is never the current one
  again.
* `NeverLockedOut`: the password of an account opens it, also after a
  registration that failed between the row and the token, whose repetition
  answers that the address is taken.
* `RegisteredOnce`: of overlapping registrations of an address one succeeds.

`ReplacedIsRefused` and `ReplacedForGood` have two exceptions, and the code has
them too. A restart of Redis brings saved tokens back. And so does a `SET` that
was left on a closed connection: refresh `t1` for `t2`, with the `SET` of `t2` sent
twice; refresh `t2` for `t3`; now the first `SET` of `t2` is executed, `t2` is the
session again and `t3` is refused. What the two properties say is that only
a late `SET` of that very token does this (`Replaced` leaves out the
tokens one is yet to be executed for), and no other user's session is ever touched by it.

The HTTP process (`HTTPServer`), in every interleaving, with failures:

* `NoPanic`: a handler always finds what it takes without looking, a body of its
  own type and the user. The middleware chooses the body by its own reading of
  method and path, partly by prefixes; the router and the handlers have theirs.
* `AnswersAreCounted`: the metrics never lag behind the answers clients have
  seen, class by class, the refused ones and those without a route included.
* `LostIsLate`: an answer that `WriteTimeout` keeps from its client was that of
  a handler which ran out of its own five seconds.
* `ClosedIsOverdue`: when `Run` closes the stores, no handler that began before
  `Shutdown` has time left. (One that begins during `Shutdown`, on a connection
  accepted before, may well be cut short, and is not claimed to be safe.)

Under fairness: `Stops` (after SIGTERM the process ends, whatever clients and
stores do), `Answered` (no request stays for ever), `Serves` (unless it is
stopped, the service is up again and again; the one exception is a listener that
failed, after which the process neither serves nor ends: `ListenFails`).

## The runs

| Run | Configuration | Question | States |
|---|---|---|---|
| `races` | `Races.cfg` | What holds whatever interleaves and fails? The four safety invariants, `OnlyOwnersChangeLinks`, and `IInv`. | 1.6 M |
| `serial` | `Serial.cfg` | What holds when requests on a link do not overlap? The refinement, the five serial properties, and `SerialInv`. | 0.3 M |
| `sync` | `Sync.cfg` | Do counters reach Postgres, after any one failure? | 1.0 M |
| `sessions` | `Sessions.cfg` | What holds of accounts and sessions whatever interleaves and fails? | 1.0 M |
| `server` | `Server.cfg` | Is every request answered, counted and ended, and every start and stop of the process? The four safety properties, `ServerInv`, and three liveness properties. | 0.15 M |
| `undead_link` | `UndeadLink.cfg` | violated: `DeletedIsGone`, two overlapping requests | |
| `lost_visit` | `LostVisit.cfg` | violated: `NoVisitLost`, two overlapping requests | |
| `stale_redirect` | `StaleRedirect.cfg` | violated: `RedirectIsCurrent`, two overlapping requests | |
| `owner_forbidden` | `OwnerForbidden.cfg` | violated: `ForbiddenIsForeign`, two overlapping requests | |
| `overflow` | `Overflow.cfg` | violated: `CountersReachPostgres`, a counter beyond the column | |
| `exchange_race` | `ExchangeRace.cfg` | violated: `ExchangedOnce`, two overlapping refreshes | |
| `lost_session` | `LostSession.cfg` | violated: `NoInternalError`, after a restart of Redis | |

Bounds, and why they are enough. Every race the code has is between two
requests on one code, or one request and the syncer, so `races` has two clients
at a time on one code; four requests are enough to create a link, fill or empty
the cache and then race; two users and two URLs tell owner from stranger and new
from old; one failure of any kind can fall between any two steps; `MaxInt = 1`
makes counters overflow. `serial` has a second code, so that requests do overlap
and the pass of the syncer has more than one key; there a third code or client
adds nothing, as a code's state depends on that of no other but through the
syncer's one statement. `sync` needs two codes, so that one may hold up the
other, and one client. `sessions` needs two users and passwords, and three
tokens (the one being replaced and two racing for its place, or one whose `SET`
comes late and the one it displaces); its four requests are enough to register,
refresh twice and come back with the token in between; one failure or restart of
Redis (`MaxFaults`). `sync` and `serial`
have pages of `SCAN` with none, one or both of the keys, some returned twice.
`server` has two connections (`MaxConnections`: two in a behaviour, one after the
other or at once) and pools of one, so that a handler waits for the other's
connection; one failure (`MaxFaults`); its time unit is five seconds, in which the timeouts of the
code are 1, 2, 1 and 1; the requests are one with a body, one with a body and no
user, one with neither, and one without a route whose body is read all the same.
The other routes differ only in the tables of `HTTPRoutes`; for them, see the
proof. Symmetry is used
for safety properties and the refinement only, never for liveness.

`sessions` and its two violated companions switch deadlock checking off: when
all requests have been answered nothing is left to do. So does `server`: a
stopped container does nothing. The link runs check it; there the ticker of the syncer never stops.

Every property of a passing run is broken by a mutant, a plausible bug in the
code, e.g. a `DELETE` that does not look at the number of rows it deleted, a
`WHERE` clause without the owner, a `PUT` that caches the old row, a pass that
does not follow the cursor of `SCAN`. The mutants are the definitions under a
comment "Mutant"; nothing else uses them.

## Fairness

`FairSpec` assumes weak fairness of every handler and of the syncer's steps. A
handler's goroutine is scheduled by the Go runtime and every command returns or
fails: handlers run under a context of five seconds, and the clients of both
stores have time-outs. The loop of `internal/syncer/syncer.go` goes on after a
failed pass, and its ticker never stops; its context has no deadline, so this
assumes that TCP gives up a connection to Postgres that is dead. Nobody is obliged to send a request,
nothing is obliged to fail, and Redis is not obliged to save, nor to execute what
was sent on a closed connection.

`HTTPServer!Fairness` assumes that the goroutine of a connection (`Serve`), that of
`Run` with the container around it, and that of `ListenAndServe` go on when they
can, and that time does. `Serve` holds only what needs nobody else: what a
timeout ends, a call for which there is a connection, an answer that is ready. No
client has to send or read anything, no store has to reply, nothing has to fail,
and nobody has to stop the service. A handler whose connection another one takes
at every turn is not starved: its own context ends.

## What is proved

`URLSystemProofs` proves, for every set of users, codes, URLs and clients and
every value of the bounds, from the named assumptions `NilIsFresh`,
`NilIsNoReply`, `BoundsAreNat` and `MaxIntIsNat` (`Nil` is not a value, bounds
are natural numbers):

* `Inductive`: `Spec => []IInv`
* `TypeCorrect`, `CountsAreBounded`, `OwnersAlwaysAgree`, `OnlyOwnersSucceed`,
  `DeletedAtMostOnce`: `TypeOK` and the four safety invariants of `races`
* `LinksAreTheirOwners`: `OnlyOwnersChangeLinks`

None of the invariants is inductive. A handler acts on what it read some
commands earlier, so what the stores satisfy must also be known of every value
still held by a handler, a snapshot or the syncer's batch. `IInv` says just
that: what each handler holds, and what its passed checks have established, by
the command it is about to issue. The proof rests on one idea: the past of a
code (its creator, the URLs offered for it, the visits counted) only grows, and
everything `IInv` says of a value is stable as the past grows (`HashLasts`,
`RowLasts`, `CountLasts`, `BatchLasts`). So a step preserves what it does not write
(`StoresLast` and the lemmas after it), and for each action only what it writes
remains to be shown.

The bounds on requests and failures play no role in the argument: the theorems
hold for arbitrarily long behaviours with arbitrarily many failures.

`SerialLinksProofs` and `ServesLinksProofs` prove what holds in addition when
nothing fails and no two requests on one link overlap, for any number of links,
users and requests at a time. (`SerialSpec` has these two conditions in its
next-state relation; every behaviour of it is one of `Spec`, so `IInv` holds.)

* `SerialInductive`: `SerialSpec => [](IInv /\ SerialInv)`
* `VisitsAreKept`, `DeletedIsForGood`, `RedirectsAreCurrent`,
  `ForbiddenAreForeign`: the four serial invariants
* `RowCountsGrow`: `RowCountGrows`
* `LinksAreServed`: `SerialSpec => ServesLinks`, the refinement of `LinkService`

The four serial properties speak of moments without a request in flight;
`SerialInv` says how far hash, row, batch and the visits counted may be apart
while there is one. A hash is complete and counts every visit; its URL is that of
the row unless the one `PUT` at work has yet to write it. A row without a hash
counts every visit, but for the one of a `GET` that has yet to fill the cache; a
row whose hash a `DELETE` has just removed may be behind, and nobody will see it
again. The syncer's batch is never older than the row - the reason why a late
`UPDATE` cannot take a counter back. And what a handler found out with one
command (hit or miss, the owner, the URL) is still so at its next.

The proof first says of each command, under this invariant, which of its branches
can be taken and what it writes (`GetLookupDoes`, ..., `DelRowDoes`, `SyncDoes`);
everything else follows from these effects. A step of one request concerns its own code
only, and nobody else works on that (`RequestStep`, `OthersSame`).

For the refinement, `Link(code)` is the link users see, `AskedBy(c)` and
`ReplyTo(c)` a request and its outcome. Each command is mapped to the step of the
table with which it takes effect, or to none: a `GET` counts with its `HINCRBY` or
with the fill of the cache, stats with the command that is answered, `PUT` with
the first write users can see (the hash or, without one, the row), `DELETE` when it can no
longer be refused, `POST` with its `INSERT`, a refusal with its answer. All other
commands, and all steps of the syncer, leave the table as it is (`Silent`,
`Following`, `SyncServed`). The one assumption added is `NilIsNoOutcome`.

`UserSessionsProofs` proves in the same way, from `NilIsNoValue`,
`NilIsNoRequest` and `BoundsAreNumbers`:

* `SessionsInductive`: `Spec => []SessionInv`
* `SessionTypes`: `TypeOK`
* `SessionsNeverCross`, `ReplacedAlwaysRefused`, `NobodyIsLockedOut`,
  `OneRegistration`: `SessionsAreOwn`, `ReplacedIsRefused`, `NeverLockedOut` and
  `RegisteredOnce`
* `ReplacedStaysReplaced`: `ReplacedForGood`

There the strengthening concerns the tokens on their way to Redis. One that a
handler is about to save is held by no other handler and no user has it yet, so
the `SET` of one request never brings back a token another request was answered
with. One in a `SET` left on a closed connection goes to the key of the user it was signed
for; a user may have it, and may have replaced it, by the time it arrives - which
is the exception above, and not excluded by anything in the code. And a client
who came with a replaced token is at its `GET` or refused: what `late` remembers
from its arrival stays true through the steps of all others (`Replaced` never
shrinks but by a restart). For `NeverLockedOut`, no step takes a row of `url_users`
or changes its password, and none but the `INSERT` of a free address adds one.

`HTTPServerProofs` proves, for every set of connections and requests, all pool
sizes, and all timeouts that satisfy `TimeoutsFit` (reading and handling a
request fit into `WriteTimeout`, a handler into the grace of `Shutdown`; the code
has 5 + 5 <= 10 and 5 <= 5 seconds, so neither has any slack):

* `ServerSafety`: `Spec => []ServerInv`
* `NoHandlerPanics`, `AllAnswersAreCounted`, `LostAnswersAreLate`,
  `NoHandlerIsCutShort`: the four safety properties of `server`

The strengthening has three parts. What each stage has set: for `NoPanic` the
three tables need to agree only on routed requests, and that the middleware's
table and the handlers' do is shown for all nine routes. How the timers
lie within each other: what is left of `write[c]` covers the rest of the body and
a whole handler, then the rest of the handler; what is left of `grace` covers
every early handler (`WriteCovers`, `GraceCovers`); `Tick` and every start of a
timer preserve that. And that the answers counted cover those received together with
those about to be sent (`CountsCover`), a statement about the cardinality of a
set of connections, for which the connections have to be finitely many.

## What is only model-checked

All liveness (`CountersReachPostgres`, `Stops`, `Answered`, `Serves`), which under
fairness is beyond the prover. Every other property of a passing run is proved.

## What the model found

* A `GET` or stats request that missed the cache stores its copy of the row
  whenever it gets to it. After a `DELETE` that leaves a link that redirects for
  good (`undead_link`); after a `PUT`, the old URL for good (`stale_redirect`).
* Two `GET`s of an uncached link count one visit (`lost_visit`).
* A `DELETE` between the two commands of a `GET` leaves a hash with nothing but
  a counter, on which the owner is told not to own his link (`owner_forbidden`).
* One counter beyond the column's `INT` stops the synchronisation of all links
  (`overflow`).
* A refresh token is compared and replaced in two commands, so two refreshes can
  succeed with it, one of them with a token that is dead on arrival
  (`exchange_race`).
* A refresh token unknown to Redis ends in a 500, where the tests ask for a 401
  (`lost_session`).
* A `SET` of a refresh token that go-redis sends twice may be executed a second
  time after the token was replaced, and makes it good again (see
  `ReplacedIsRefused`).

What it showed of two known weaknesses, for which the repository promises
nothing that could be checked: a `PUT` whose `UPDATE` fails leaves its URL in
Redis and answers 500, and it is then what a `GET` redirects to (the properties about
owners hold, as the URL is the owner's own; `RedirectIsCurrent` is claimed only
where nothing fails); and when `ListenAndServe` fails the process stays, neither
serving nor ending, so that nothing restarts it (`ListenFails`, the exception in
`Serves`).

## What is not modelled

* A short code drawn twice in the lifetime of the service, or guessed: one
  chance in 36^6 each. A draw of a code that is taken at that moment is
  modelled: the request fails.
* Completing a URL without a scheme: the URLs of the model have one.
* The values of time stamps. Of `updated_at` only its presence matters.
* The foreign key of `urls`: users are never deleted, so it rejects nothing.
* bcrypt (equality of passwords; that it refuses one of more than 72 bytes, a 500,
  is `EarlyErrors` in `HTTPRoutes`, and the passwords of `UserSessions` are shorter) and the signatures of tokens (a token nobody
  made is `Nil`, "no token"). Access tokens are not kept anywhere; the user of a
  link request is the one an access token names.
* Redirects of gin for a path that has a slash too many or too few: no middleware
  runs for them.
* The duration histogram of the metrics, which is written next to the counter, and
  whether `/metrics` reports itself: its answer is larger than net/http's buffers
  and may be sent in part before it is counted.
* The SIGKILL docker sends ten seconds after SIGTERM: it ends the process like any
  crash, and after it nothing is left to go wrong that `Fails` would not show.
* Whether the migrations have run when the service starts
  (`docker-compose.yaml:92-96` waits for the database only): until then commands
  fail.
* What `config.Load` reads, the logger, the generated documentation
  (`docs/docs.go`), monitoring and load tests: no state of the program.

## Plan

1. Done: the link requests, the syncer with the pages of its `SCAN`, and the
   stores, with their abstract specification; accounts and sessions; the HTTP
   process with its pipeline and lifecycle; the safety properties of all three,
   proved.
2. The scheme completion of `ServicePost`/`ServicePut`, as an operator over the
   shapes of a URL.
3. Done: the proofs of the serial properties and of the refinement of `LinkService`.
