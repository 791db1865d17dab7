# A verification of mcp-postgresql

TLA+ models of the parts of this server in which an order of events can go wrong:
the OAuth authorization server and its store, the cache of Google's signing keys,
the manager of database connections and the pools it hands out, the start and the stop
of the HTTP server, the chain of HTTP handlers, access tokens, the tools and the results
they return.  TLC checks the models on small instances, and TLAPS proves all of their safety properties for
every instance.

Run TLC in this directory with `tlc -config X.cfg M`, and `tlapm` on each
`...Proofs.tla`.

## The system

An MCP server that lets a client query PostgreSQL, over stdio or over HTTP.  Over
HTTP it can protect itself with an OAuth server of its own, which leaves the sign-in
to Google.

| component | source | state | operations |
|---|---|---|---|
| OAuth store | `server/oauth_store.go` | `pendingAuthz`, `csrfTokens`, `authCodes`, under one mutex | store, consume, clean up; a ticker calls the clean-up |
| Authorization server | `server/oauth.go` | none of its own | `/authorize`, `/consent`, `/callback`, `/token`, metadata documents |
| Google token validator | `server/oauth_google.go` | `jwks`, `jwksExpiry`, under an RWMutex that is not held while fetching | look a key up, fetch the set, validate an ID token |
| Access tokens | `server/oauth_jwt.go` | a secret | issue, verify |
| Connection manager | `server/server.go` | `connections`: DSN and mode -> pool, under an RWMutex held while connecting | `GetDBWithPreset`, `Close` |
| Database sessions | `server/server.go`, `server/tools.go`, `database/sql` | the sessions of a pool | statements of the tool calls, deadlines |
| Tool handlers | `server/tools.go` | none | eleven tools; validators; rows to CSV |
| HTTP server | `server/http.go`, `main.go` | signal context, listener | serve, shut down, close the pools |
| Middleware | `server/middleware.go` | none | origin, bearer token, request log |
| Configuration, logger | `config/`, `logger/` | read once | load, validate |

How they interact.  A tool call is a goroutine: it resolves its arguments, gets a
pool from the connection manager (perhaps connecting with the manager's lock in
hand), runs one to four statements on the pool, and returns.  Calls share the
manager, the pools and nothing else.  An OAuth flow is four HTTP requests of two
parties, the client and the user's browser, joined only by random identifiers in the
store; the third of them, `/callback`, waits for Google between two operations of
the store, and to check Google's answer it looks a key up in the validator's cache.

What is hard: repeated, overlapping and mixed-up requests (OAuth); fetches that
overtake each other (validator); the double-checked cache and errors half-way through
setting up a pool (manager); errors after a statement has sent rows (results); calls waiting for each other when a pool is at its limit
(sessions); a mode that is set on one session and meant for the pool (sessions);
expiry noticed late (store); a restart (store); shutting down under running calls
(manager, HTTP server); a configuration that changes under tokens that outlive it
(tokens); a body that arrives while it is looked at (middleware); decisions by
substrings of SQL (validators); defaults applied in two places (configuration).  `PROJECT.json` lists these as hazards, each at its line, with the
properties that cover it.

## The modules

| module | models | notes |
|---|---|---|
| `GoMap` | Go's maps | partial functions; used by all others |
| `OAuthStore` | the store | one action per method; most general callers |
| `OAuthServer` | the handlers on top of the store | EXTENDS `OAuthStore`; composition by shared state |
| `AuthorizationGrant` | what the OAuth server promises | abstract: no store, no clock, no browser |
| `GoogleJWKS` | the key cache and Google's rotations | fetches overlap |
| `RWMutex` | `sync.RWMutex` | external |
| `DBManager` | the connection manager | EXTENDS `RWMutex` |
| `PoolSessions` | one pool's sessions and the statements on it | `database/sql` modelled from its use |
| `HTTPLifecycle` | `RunHTTP` and the end of `main` | EXTENDS `DBManager`; composition by shared state |
| `ToolCalls` | the tools: registration, gating of writes, timeouts | EXTENDS `DBManager` |
| `QueryResult` | rows of statements, their errors, the answer | one call, one database |
| `SQLValidators` | the two validators and the choice of the path | on fragments of text |
| `ConnectionString` | defaults, the DSN, what pgx reads in it | on fragments of text |
| `QueryPath` | a query: first validated, then a database found for it | EXTENDS the two before |
| `AccessToken` | JWTs across restarts and configurations | no OAuth flow: tokens are issued at any time |
| `HTTPRequests` | the middleware chain in front of the SDK's handler | one request, its client sends meanwhile |
| `OAuthServerProofs` | | theorems on `OAuthStore` and `OAuthServer` |
| `ManagerUsesProofs` | | theorems on `HTTPLifecycle` and `ToolCalls` |
| `AccessProofs` | | theorems on `AccessToken` and `HTTPRequests` |
| `QueryPathProofs` | | theorems on `QueryPath` and the two modules it extends |
| `GoogleJWKSProofs`, `DBManagerProofs`, `PoolSessionsProofs`, `QueryResultProofs` | | theorems on the module of that name |
| `MC...` | | values of the constants for TLC |

### OAuthStore

The three variables are the three maps.  Every method holds the mutex from its first
line to its last, so each is one atomic action, `ConsumePendingByCSRF`,
`ConsumePendingByGoogleState` and so on, with the code's early returns as disjuncts;
what a method returns is an operator beside it (`PendingOfCSRF`, `StateAccepted`,
`CodeAccepted`).  Three details of the code matter and are kept: a consent consumes
the CSRF token but leaves the authorization pending, an expired entry that is looked
up is deleted on the way, and `Cleanup` deletes the CSRF token of what it purges.
The clock `now` moves by `Tick`; `minted` is a history variable that makes
`randomHex` never repeat itself.  `MaxTime` and `MaxArrival` are bounds for TLC, as
constants: the proofs hold for any value of them.

### OAuthServer

A handler that refuses a request before it touches the store changes nothing and is
no action.  `/callback` is two: `HandleCallback` consumes the pending authorization
and goes to Google; `CallbackSucceeds` or `CallbackFails` is everything after that.
Between the two, any other request, a clean-up or a restart may run.  (When the
stored redirect URI does not parse, the code is stored and yet not delivered;
that is `CallbackSucceeds` followed by no `handleToken`.)  Queries, token forms and
ID-token claims come from finite sets that contain acceptable and unacceptable values;
the checks `ValidQuery`, `validateRedirectURI`, `ValidForm`, `FormMatches`,
`ValidIDToken` and `CheckAccess` are translated.  The registered redirect URIs of a
client, from `config.yml` or from the client's metadata document, are the constant
`RedirectURIs`.  The browser may submit the fields of any consent pages it has been
shown, in any combination, and may come to `/callback` any number of times, with any
state it has seen; the consent page shows the state already, and `/callback` does not
ask whether `/consent` was posted.

`asked`, `approvals`, `codeLog` and `tokens` are history variables.  They are the
refinement mapping to `AuthorizationGrant`.

### GoogleJWKS

`getKey` is split where it does not hold its lock: look-up, request, answer, store,
second look-up.  Google answers with the keys of the moment of `GoogleAnswers`, the
answer arrives later (`AnswerArrives`, within the HTTP client's timeout), and then is
stored over whatever another goroutine stored meanwhile.  A key that does not parse
fails the whole fetch.  Google keeps two keys published and, at a rotation, publishes
the next and withdraws the older.  A tick of the clock is of the order of the HTTP
timeout, so no tick happens between an answer and the return.

### DBManager and RWMutex

`GetDBWithPreset` is split at the lock: the look-up under the read lock (`FastPath`),
the announcement of a writer (`Lock`), the second look-up (`DoubleCheck`), connecting
(`Connected`, `ConnectFails`), the SET for a read-only pool (`SetReadOnly`,
`SetReadOnlyFails`) and the store (`Publish`); the last five run with the lock held,
as in the code.  sqlx's `ConnectContext` opens a pool before it pings the database, and
returns it with the ping's error; so `ConnectFails` leaves an open pool (`connected` is
FALSE), which the code drops.  `RWMutex` has Go's rule that a writer which waits keeps new readers
out, since it decides who can block whom.  Arguments are resolved as in
`resolveConnectionParams` (presets exclude a DSN argument; a preset without a timeout
inherits the configured one); the formats of DSNs are a table, in which two spellings
lead to one native DSN and a third does not parse.

`CloseDB` may run at any time (`HTTPLifecycle` says when): `main` calls it when the HTTP server has shut down,
which gives up on running requests after ten seconds, or the stdio session is over.
`Close` holds the lock from end to end, and is one step.

### PoolSessions

One pool after `createConnectionWithReadOnly`: one session, on which the SET has run
if the pool is read-only.  A statement takes an idle session or opens a new one up to
the limit, and is done when its rows are closed; the code closes them before the next
statement and on every error path.  `Deadline` is the end of `queryCtx`, which covers
all statements of a call, including the wait for a session.

### HTTPLifecycle

`RunHTTP` is `run`, step by step: it starts the goroutine that listens (`serve`), takes
either branch of its `select` when both are ready (`ReceiveError`, `ReceiveDone`), and
shuts down until the requests are over or ten seconds have passed (`ShutdownDone`,
`ShutdownTimesOut`).  `errCh` has its buffer of one and is closed after the error.
Then `main`'s deferred `CloseDB` runs, and the process exits.  A request is a client's;
its call is a `DBManager` call in a goroutine of its own, which goes on when the client
hangs up.  A signal that `RunHTTP` does not catch ends the process at once (`Killed`).
The event stream of a client is a request without a call.

### ToolCalls

Eleven tools are of four kinds, by the function that runs them: `fixed` and `read`
(`handleQueryWithPreset`), `write` (`handleWriteQuery`) and `exec`
(`handleExecWithPreset`).  A call that is refused does nothing.  The others are calls of
`DBManager`, and `calls` remembers what they run.  What the validators let through is
the constant `Tools[t].expects`, anything at all for the tools of a client's queries; how
they decide is `SQLValidators`.

### QueryResult

One call of one or more statements.  The server sends rows and commits or aborts after
the last (`server`, `sent`), independently of the handler that reads them; the
connection or the deadline may end between any two steps (`broken`).  A row is a map
from column name to value, as in the code, and a value is its row and its column.
`desc_table` fails without columns and ignores an error of its fourth statement.

### SQLValidators, ConnectionString and QueryPath

A text is a sequence of fragments, so that a word may begin or end with a keyword,
and the validators' searches are searches for subsequences.  Queries have a WITH clause or
not, one of seven kinds of statement, RETURNING, and an end.  The validators look for
words with one space between them, and SQL allows any white space: so a query has white
space of its own after its first word, inside the WITH clause, after that clause, and
inside the statement.  Literals and comments are left out.  `SELECT INTO` is looked for before the first FROM only, as in the code.
A column may have any name, one that contains a keyword too; `Misleading` says which
names have the validators take them for something else.

`ConnectionString` formats the fields as the code does and has the part of pgx's parser
that reads them back: each turn of its loop is a `ReadSetting`, and `unread` is what it
has not come to.  A field may be blank, the password too, whose default is empty.  `QueryPath` puts the two in the order of the handlers.

### AccessToken

A token is its claims and its key.  A clock tick is a fraction of a second; the dates
of a token are whole seconds.  A request looks twice: `Verify` is
`VerifyAccessToken`, and `CheckExpiration` the test of the SDK's middleware that follows, with ticks between
them.  `Restart` starts another process under any valid configuration.

### HTTPRequests

The four handlers are actions in the order `RunHTTP` nests them, and `ClientSends` may
happen between any two: a byte arrives, the body ends or the connection breaks.  `body`
is what the peek put back and whether the rest follows.

## The runs

| run | question | states | bounds |
|---|---|---|---|
| `oauth_store` | do the store's two indexes ever disagree? is everything abandoned purged? | 89 000 | 2 flows, 3 CSRF tokens, 2 codes, lifetimes 2 and 1; arrivals until 3, clock to 6 |
| `oauth_server` | does the server implement the grant? one code, one token per flow? lifetimes kept? | 71 000 | 2 flows, 2 codes, 5 queries, 5 claims, 7 forms, 3 instants |
| `google_jwks` | are withdrawn keys dropped and published ones found? | 1.8 million | 2 goroutines, 4 keys (2 rotations), clock to 5 |
| `db_manager` | are pools duplicated, lost, mixed up, closed in use? does every call return, and `CloseDB`? | 114 000 | 2 calls and main, 3 pool identities, 1 database in 2 modes |
| `pool_sessions` | does a call hold a session while it waits for one? does every call return? | 13 500 | 3 calls, 2 sessions, 1 or 4 statements |
| `pool_read_only` | is every session of a read-only pool read-only? **No** | | the same |
| `http_lifecycle` | who is cut off by a shutdown? does the process end? | 763 000 | 2 calls and a stream, 2 pool identities, a read-only preset |
| `tool_calls` | by which tools does a write reach a read-only pool? which deadline has a statement? | 159 000 | 2 calls, 4 tools, 2 presets or none, a DSN argument or none, 4 statements |
| `query_result` | is half a result ever answered? are values in their place? | 8 500 | 4 handlers, 3 rows, 2 columns, with equal names or not |
| `query_path` | what does each tool execute? what does pgx connect with? | 553 000 | up to 2 queries in a WITH clause, 5 column names, a space or a line break at each of 4 places; each of 7 fields blank or not, in 2 places |
| `access_token` | for whom, where and how long is a token good? | 763 000 | 10 configurations, 2 issues, 2 ticks a second, clock to 5 |
| `http_requests` | who is refused? is a body read whole? | 52 000 | 12 configurations, 144 requests, bodies to 3 bytes, a peek of 2 |

State counts are rounded, and after symmetry reduction for `oauth_server`,
`google_jwks` and `tool_calls`; no run with a liveness property uses symmetry.

Why the bounds are enough.  *Store*: the indexes can disagree through two entries at
most; ages below, at and above both lifetimes occur.  *Server*: every property relates
at most two flows, or two codes, two callbacks
or two tokens of one flow; the claims include an account let in by domain, one by
address, one that is not, an unverified address and a token for another audience; the
forms mismatch in each field.  With a code lifetime of zero ticks, a code is good in
the instant it is made and expired in the next.  *Keys*: the shortest way to trust a
withdrawn key too long needs it cached, withdrawn and three ticks to pass (the longest
lifetime and one tick of delay); the way to miss a published key needs two fetches, the
older one stored last.  *Manager*: of two calls one holds the lock while the other
waits, with main as a third; two modes of one database are two keys, and the proofs
extend the safety properties to any number.  A pool nobody can
reach lends its identity to a new one, so the identities do not run out.
*Sessions*: with more calls than sessions the pool is at its limit; more idle sessions
than it may keep also occur.  *HTTP server*: one call may be connecting, with the lock,
while another uses its pool or waits; a stream never ends by itself.  *Tools*: one tool
of each kind and a call of each mode at a time, and a `read_query` that lets a write
through; the run is of a server that may write, and `ToolsWritesOnlyByReads` is proved of
one that is read-only too.  *Results*: errors come before, between and after
rows, in a first, a middle and the last statement.  *Path*: each fragment the validators look for
occurs in and out of place; neither half of the path looks at the other, so the run has every query
with one configuration, and every configuration with one query.  *Tokens*: lifetimes of
two, one and minus one seconds against a clock of five ticks, with fractions; the
configurations differ from the first in one thing each, which is enough since every
test is a conjunction.  *Requests*: bodies shorter than the peek, as long, and longer.

Deadlock is checked in all runs but three, since whatever the goroutines have done, one
of them can go on, or a new call, request or clean-up can start.  The three end: the
process exits (`http_lifecycle`), the request is answered (`http_requests`), pgx has
its settings (`query_path`).

### Properties

* `CsrfIndexSound`: a CSRF token in the store leads to a pending authorization that was
  made with it.  Four methods delete from both maps.
* `EventuallyPurged`: nothing stays in the maps for ever.  Fairness: the clock and the
  ticker of `StartCleanupLoop`, which runs until the server's context ends.
* `OneCodePerFlow`, `OneTokenPerFlow`: at most one code and one token from a flow,
  although the exchange with Google lies between two operations of the store.
* `HopsWithinTTL`: consent and callback within the lifetime of the authorization, and
  the token within that of the code, whenever the clean-up runs.
* `ImplementsGrant`: refinement of `AuthorizationGrant`.  A flow is approved at most once
  and not after the sign-in, signed into at most once, by an admitted account, and then
  yields one token for exactly the client, redirect URI and resource it was asked for, to
  the holder of the verifier.  That a flow which is signed into was approved is not part of
  it, since the code does not see to it.
* `StoredUnexpired`: a key set just stored spares the next look-up its fetch, whatever
  `Cache-Control` said and whichever overlapping fetch stored it.
* `TrustEndsInTime`, `NotFoundOnlyNearRotation`: bounds on how long a withdrawn key is
  trusted, and how long a published one can be missed, over all orders in which
  answers are stored.
* `OnlyFailedConnectsLeak`, `OnePoolPerMode`, `PoolAsResolved`, `PoolInUseIsOpen`: the open
  pools `CloseDB` cannot reach are those of failed connects, and no others; of the others
  there is one per database and mode; a call's pool has the database and mode it asked
  for, and is open until `CloseDB`.
* `CallsReturn` (manager), `CloseDBReturns`: fairness is that of goroutines
  (weak, on a call's steps), of the lock (strong: `sync.Mutex` hands over in order once
  a waiter starves), and of the database or the request's context, one of which ends
  each attempt to connect.  No fairness on the start or the end of a call's use of its
  pool, or on the end of `main`.
* `NoHoldAndWait`: a call that waits for a session holds none, and one that has
  returned has given its session back.
* `CallsReturn` (sessions), under either of two assumptions, which the formula states
  itself: `DatabaseAnswers` (each statement is answered and the pool serves its queue in
  order, strong fairness on starting), with no deadline ever met; or `DeadlinesPass`, and
  the database may never answer.
* `CleanReturn`, `AnswersKeepTheirPool`, `LatePoolsAreUnanswered`: `RunHTTP` returns nil
  only after a signal and with no request open; `CloseDB` takes no pool from a call whose
  client waits, and a pool stored after it is for nobody, unless `RunHTTP` returned an
  error.
* `ProcessEnds`: after a signal or a failure to listen the process ends.  Fairness:
  goroutines run, Shutdown's deadline passes, and the lock and connecting as for the
  manager; none on clients, signals or the end of a call's use of its pool.
* `WritesOnlyByReads`: a statement other than a SELECT runs on a read-only pool, or on a
  read-only server, only if `read_query` let it through; the tools that write never get
  there, by any preset, DSN and path.  `DeadlineAsConfigured`: each statement has the preset's timeout,
  else the configured one, else thirty seconds, although presets share pools.
* `OnlyWholeResults`: what enters an answer has been sent whole and committed.
  `OkIsComplete`: a call that succeeds has the results of all its statements, but for the
  one `desc_table` does without.  `CSVFaithful`: values stay in row and column, when
  column names are distinct.
* `PlainStatementsByTheirTool`: without a WITH clause a single statement is executed by
  the tool for its kind, by no other, and by the path that returns its rows, if its
  column's name does not mislead the validator (see below).  A second statement is
  refused where it is found (`SecondFound`): by `read_query` only because it is a
  `DELETE FROM` with one space.
  `SpacedWritesAreNotRead`: what `read_query` executes writes only in parts that have
  something other than a space between their words.
* `SettingsAsConfigured`: pgx reads what the fields say, in both places they may be
  written in; but where the password is empty, it reads the `dbname` setting as the
  password, and everything else as the fields say.
* `GrantedAsIssued`, `RefusedWhenOver`: a token is let in only at the server it was
  issued for, to an account admitted then, for as long as was configured then; and it is
  refused there only when that time is over, whatever restarts have changed.
* `BodyWholeOrNothing`, `EndedBodiesAnswered`: the peek loses no byte of a body, and a
  body that ends or breaks off is answered.  Fairness: the handlers run.
  `CrossSiteAsListed`, `StrangersRefused`: a listed origin is never answered 403, and a
  cross-site request is served only if its origin is listed as it stands (so none with an
  empty list, none whose origin ends in a slash); and no request gets by without its token
  or origin.

### Finding

`EverySessionReadOnly`, checked by `pool_read_only`, does not hold.
`createConnectionWithReadOnly` executes `SET SESSION CHARACTERISTICS AS TRANSACTION
READ ONLY` once on the pool (`server/server.go:279`); it takes effect on the session
that runs it.  The pool opens up to ten sessions and replaces each after an hour; the
others keep the server's default.  The comment above the line ("Set session to
read-only if configured") and `README.md:85` ("`read_only: true` presets block all
write operations at runtime") promise more.  Counterexample: the first session reaches
its lifetime (`LifetimeEnds`), and the next statement (`StartStatement`) opens one that is
not read-only.

### Other disagreements

Seen while modelling.  Where a run's property speaks of one, it is named, and says what
the code does.

* `docs/oauth-setup.md:183` has the server redirect to Google when the user approves, and
  `/callback` after that.  `/callback` accepts the state of any pending authorization and
  does not ask whether `/consent` was posted (`server/oauth.go:250-268`), and the consent
  page has the state in a field (line 215).  `ImplementsGrant` promises no approval.
* The comment at `server/server.go:289` says that `Close` closes all connections.  When
  connecting fails, `ConnectContext` returns the pool it has opened with the error, and
  lines 267-270 drop it: nobody closes it (`OnlyFailedConnectsLeak`).
* `README.md:61` and the comment at `server/middleware.go:18` say that no allowed origins
  means all are; the SDK's handler is given a `CrossOriginProtection` without trusted
  origins (`server/http.go:30`) and refuses cross-site POSTs all the same.  An origin that
  ends in a slash passes `withOriginValidation`, which strips it, and is refused by the
  SDK's handler (`CrossSiteAsListed`).
* With an empty password, the default (`config/config.go:94`, `README.md:99`), the DSN
  reads `password= dbname=...` (`server/server.go:239`); pgx skips the space and takes
  `dbname=...` for the password, so the database is the user's default, not the one of
  `README.md:100` (`SettingsAsConfigured`).
* `read_query` executes `WITH x AS (DELETE`, line break, `FROM t RETURNING *) SELECT * FROM
  x`, and an `UPDATE`, line break, `t SET a = 1` after a WITH clause that has a padded
  SELECT in it, although the comment at `server/tools.go:519` says that such operations
  are blocked: lines 520-527 look for words with one space between them
  (`SpacedWritesAreNotRead`).  For the same reason a second statement gets by, if it is
  none that they look for; the write tools look for a semicolon.
* A preset with a `dsn` and fields connects by the `dsn`, which `README.md:83` says takes
  priority, and is listed by `list_preset` with the fields (`server/tools.go:226`).
* Of two columns with one name an answer has the last value twice (`server/tools.go:644`).
* `SELECT is_delete FROM t` is refused by `read_query`, which finds `DELETE FROM` in it
  (`server/tools.go:520`), and so is any name that ends like a forbidden word
  and is followed by a space.  A name that contains RETURNING sends a write by the path
  for queries (`server/tools.go:608`).  These are the names that `Misleading` excludes.
* A first word that `\r\n` follows is not recognized (`server/tools.go:500`).
* A WITH clause and its SELECT on two lines are refused (`server/tools.go:503`), although
  the comment at line 499 allows WITH...SELECT queries.
* `update_query` executes an INSERT ... ON CONFLICT DO UPDATE that has a WITH clause
  (`server/tools.go:575`); the comment at line 574 says that the clause has to lead to the
  expected operation.

## What is proved

`OAuthServerProofs`, on the store:

* `StoreTypeOK`, `StoreCsrfIndexSound`: the type invariant and `CsrfIndexSound`.  The
  second is not inductive: if a Google state could be used twice, storing an
  authorization would overwrite the entry an older token leads to.  `PendingMinted`
  (the keys of `pendingAuthz` have been minted) excludes that, and `StoreInv` is the
  conjunction of the three.  One step per method.

`OAuthServerProofs`, on the server:

* `ServerImplementsStore`: the server is one of the store's callers, `ServerSpec =>
  StoreSpec`; hence `ServerCsrfIndexSound`.
* `ServerTypesCorrect`, `ServerOneCodePerFlow`, `ServerOneTokenPerFlow`.  The
  inductive invariant `ServerInv` adds `FlowInOnePlace` (a flow is pending, or waiting
  for Google, or has its code, and never two of these) and `CodeInOnePlace` (a code
  is in the store or in a token, never both).  A callback takes its flow out of one
  place before it puts it into the next, and `/token` takes the code out before it
  issues; that is why neither can happen twice.
* `ServerHopsWithinTTL`.  `HopsInv` adds `TimesRecorded`: whatever is in the store, or
  waits for Google, carries the time that the history has for its flow or its code, so
  the age the code looks at is the age the property speaks of.
* `ServerImplementsGrant`, the safety of the whole flow: `ServerSpec => ImplementsGrant`.
  `GrantInv` adds `FlowsSound` (no CSRF token leads to a flow that is approved, and the
  request of a flow is carried along unchanged).  Each action is then one step of the grant
  or none: `AuthorizeAsks`, `ConsentApproves`, `CallbackSignsIn` and `TokenIssues`, with
  `GrantKept` for what an action leaves alone.

`GoogleJWKSProofs`:

* `JWKSTypesCorrect`, `JWKSStoredUnexpired`, `JWKSTrustEnds`, `JWKSNotFoundNearRotation`.
  The properties speak of the end of a look-up; the inductive invariant `JWKSInv` says
  for each stage before it (`Fresh`) how old the keys in hand can be: an answer is as
  old as its call (`Covers`), what is about to be stored is at most `FetchTimeout` old,
  and no key, in hand or in the cache, comes with an expiry later than it may be
  trusted (`ExpiresInTime`).  A store replaces a set that satisfies this by another
  that does, so the order of the stores does not matter.

`DBManagerProofs`:

* `ManagerTypesCorrect`, `ManagerOnlyFailedConnectsLeak`, `ManagerOnePoolPerMode`,
  `ManagerPoolAsResolved`, `ManagerPoolInUseIsOpen`.  `ManagerInv` adds
  `LockDiscipline` (who connects, sets up or publishes holds the lock and its key is
  not cached, so there is at most one of them), `MapSound` (a pool in the map is
  open, connected, and what its key says; the pool being set up is not in the map and
  nobody else has it) and `ConnectedReachable`, one half of `OnlyFailedConnectsLeak`; the
  other half follows from `MapSound`.  `QuietStep` is the lemma for the steps that touch neither map nor
  pools, `UnlockDiscipline` and `HeldDiscipline` are those about the lock.
  `OnePoolPerMode` follows: two pools with one key cannot both be in the map, nor both
  be about to be published, and the second look-up says that not one is in the map
  while the other is about to be.

`PoolSessionsProofs`:

* `PoolTypesCorrect`, `PoolNoHoldAndWait`.  `PoolInv` adds that a call that has not
  returned has a statement to finish, and that the open sessions are finitely many,
  without which their number means nothing.

`ManagerUsesProofs`, on the HTTP server:

* `HTTPImplementsManager`: the HTTP server is one of the manager's environments,
  `HTTPSpec => ManagerSpec`; hence `HTTPKeepsPools`, and `ManagerInv` for what follows.
* `HTTPCleanReturn`, `HTTPAnswersKeepTheirPool`, `HTTPLatePoolsAreUnanswered`.  `HTTPInv`
  adds `ChannelSound` (before Shutdown the goroutine sends its error before it closes the
  channel, so a closed and empty channel means that Shutdown was called) and `RunSound`
  (main closes only when `RunHTTP` has returned; calls come from requests).

`ManagerUsesProofs`, on the tools:

* `ToolsImplementManager`, `ToolsWritesOnlyByReads`, `ToolsDeadlineAsConfigured`.  `ToolInv`
  ties what a call runs to the parameters its arguments resolved to; `PoolAsResolved`,
  from the manager's proofs, ties those to its pool.

`QueryResultProofs`:

* `ResultTypesCorrect`, `ResultsComplete`, `ResultsFaithful`, `ResultsWhole`, for any
  handlers, columns and numbers of rows.  The invariant says of the rows read so far that
  they are the first ones sent, each as its map.

`AccessProofs`:

* `TokenGrantedAsIssued`, `TokenRefusedWhenOver`, for any configurations, claims and
  length of a second.  `TokenInv` ties a token to its issue: it was made for the server
  and an account of the configuration that ran then, and expires that configuration's
  lifetime later, rounded down.  A request looks at a token twice, so the invariant also
  says that what `Verify` has let through was made for the configuration that runs.
  `MadeForSameServer` is the lemma behind both properties: what a token says of its server
  depends on the origin, the path and the secret, and not on how the issuer is written.
* `RequestBodyWhole`, `RequestCrossSiteAsListed`, `RequestStrangersRefused`, for any
  configurations, requests, bodies and size of the peek.  `RequestInv` says at each
  handler what the ones before it have made sure of, and that the rest of a body is still
  to come unless the client broke off before the peek was full.

`QueryPathProofs`:

* `QueryPlainByTheirTool`, `QuerySpacedWritesAreNotRead`: for WITH clauses of any length,
  any column names and any white space.  `VerdictInv` says that the verdict is
  the validator's on the query as it is; the rest are lemmas about texts.
  A search for a fragment in a statement is a search at each of its places
  (`HasAt`), and every statement of a WITH clause lies somewhere in the flattened text
  (`FlattenHas`), so its forbidden words are found (`Betrayed`).
* `QuerySettingsAsConfigured`, for any fields that are words or blank.  `StringInv` says that after
  k turns of pgx's loop `settings` has the first k settings of the formatted string and
  `unread` is the others; `ReadsFirst` is the lemma that a turn reads one setting, no more
  and no less, since its key has no "=" and its value no space.  With an empty password the
  string is read as one of five settings: `dbname=...`, with the space before it, is the
  fourth's value (`EmptyPassword`).

Flattening a sequence of texts is recursive, and `FlattenHas` needs induction: it is done
by the least counterexample (`LeastOf`), which the library's theorem on well-founded
orders gives for a set and without an operator.

The assumptions are those the modules state about their constants, and no other:
`TimesAssumption` and `JWKSAssumption` (times are natural numbers, and a fallback
lifetime is positive; Google publishes two keys at least), `BoundedTTL` (there is a
longest lifetime among those Google may send), `InputsAssumption` and `ParamsAssumption`
(the inputs have the fields' types), `AdmittedAssumption` (who is let in by the settings
is one the operator meant: everybody, if there are no settings), `SizesAssumption` (a
pool may open a session, and a tool call has statements), `ProcsAssumption`,
`NoProcAssumption` and `NoPoolAssumption` (`main` is not a call, and nil is no goroutine
and no pool), `StreamAssumption` (a stream is not a call), `RowsAssumption` (a handler
executes statements), `ToolsAssumption` (a tool is of one of the four kinds, and the
tools with statements of their own have only SELECTs), `TicksAssumption`, `ConfigsAssumption` (lifetimes are
whole numbers, and the settings have the types of their fields), `OriginsAssumption` and
`TokensAssumption` (the listed
origins are origins, and no token at all is not a valid one), `TextsAssumption`
(a column's name is not empty and has no space or semicolon in it, and what is between
words is white space) and `FieldsAssumption` (no field has a blank in it).  The number of flows, codes,
clients, users, forms, goroutines, keys, calls, presets, pools and sessions, the
lifetimes and the bounds are arbitrary; TLC evaluates the assumptions in its runs.

Only model-checked: liveness (`EventuallyPurged`, both `CallsReturn`, `CloseDBReturns`,
`ProcessEnds`, `EndedBodiesAnswered`), which is out of the prover's reach (fairness,
ENABLED).  Every safety property of the passing runs is a theorem.

## What is not modelled

* Signatures, hashing and randomness: `S256` is a table, `randomHex` never repeats, a
  key found is a signature verified, a token's signature is the name of its key.
* Fetching a client's metadata document (network I/O whose result is a constant), the
  metadata endpoints (no state), HTML and HTTP formatting.
* What the middleware logs: `statusWriter` and the fields of a JSON-RPC message.  The
  SDK's own check of the Host header for local servers.
* SQL literals and comments (the validators read them like the rest); quotes,
  backslashes and URLs in DSNs, which `dburl` rewrites.
* The texts of answers: CSV quoting, descriptions of columns, `list_preset`.
* The wrappers no tool calls (`DoQuery`, `HandleExec` and the like).
* Reading YAML and environment variables (configor), logging, the command line; the stdio
  command, which runs the same tools and the same `CloseDB` around the SDK's `Run`.

## Plan

Done: everything above.  What would still be worth having: a statement of which queries
with a WITH clause each write tool executes, and `SpacedWritesAreNotRead` for text with literals
and comments; both need a model of SQL that goes beyond fragments.
