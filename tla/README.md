# LabNTP: formal models, checks and proofs

This directory holds a TLA+ development of LabNTP (`src/`): models of the parts whose
correctness depends on the order of several steps, TLC runs that check them on small
instances, and TLAPS proofs that hold for every instance. Source paths below are
relative to `src/internal/` unless they start with `cmd/` or `docs/`.

## 1. The system

LabNTP is one Go process, `labntp serve`. It answers NTP over UDP from a *snapshot* of
a compiled YAML document, and lets REST and MCP clients change that document.

| Component | State | Operations | What makes it hard |
|---|---|---|---|
| `app` plan, apply, reset (`mutate.go`, `reset.go`, `svc.go`) | the snapshot store (active, previous, bootstrap), the effective addresses; all under `App.mu` | `Plan`, `Apply` (and `PutFilter`, `DeleteFilter`), `Reset` | reset calls the environment several times and any call can fail after others had their effect |
| `app` idempotency cache (`idempotency.go`) | a map and a doubly linked list of at most `IdempotencyMax` entries (256 unless set, `svc.go:23`) | `lookup`, `storePlan`, `storeApply`, `evict`, `clear` | long call sequences; retries; eviction at the limit; two results per key |
| `app` change operations (`operations.go`) and `config`, `compiler` | none | the document after a list of operations; normalise; validate; compile | content hashes that come back |
| `audit` | a ring of events and their numbering | `Record` | the ring at its limit |
| `querylog` | a slice used as a ring | `TryInsert`, `List`, `Reset`, `Resize` | modular indices; a resize in two critical sections; a try-lock with a deadline |
| `ntpserver` loop (`server.go`, `handle.go`) | the UDP socket, the inflight tokens, a wait group, `started`, `stopped` | `Start`, `Rebind`, `Shutdown`, the read loop, one goroutine per packet | four kinds of goroutine; a socket that is replaced while others use it; waiting for all of them |
| `ntpserver` limiters (`ratelimit.go`) | token buckets by client | `allow`, `setRate`, evictions | clock readings that reach the mutex in another order; rates that change under the buckets |
| `ntpview`, `compiler` view anchors | what a compiled view carries: where its clock starts, and when | `compileView` against the view it replaces; served time at an instant, jitter, reference time | a rate clock is handed from snapshot to snapshot; packets are answered while the next one is compiled; the wall clock is stepped; times saturate |
| `control/rest` server | the management listener, its address, the drains of displaced servers, the in-flight gate, the hooks | `Serve`, `Rebind`, `drainAsync`, `Shutdown`, `syncManagementLimits`, the order of checks in `serveHTTP` | a reset over REST rebinds the listener it came in on; a shutdown can come at any moment |
| `auth` | the verifier's token table, the session table | verify, `Replace`, `Create`, `Lookup`, `Delete`, `Clear`, CSRF, roles, origins | two hooks per reload outside any common lock; token files that change; sessions made while the table is cleared; eviction at the limit |
| `capabilities` | none: a frozen table | lookups by route, tool and resource | REST and MCP must agree on it |
| `control/mcp` | an in-flight channel and a limiter of its own, `closed` | every tool and resource, `reloadAuth` | must be the same adapter as REST, of bodies that spell the same values differently |
| `observability` | counters | | |
| `ntpwire`, `ntpkeys`, `domainerr`, `model`, `buildinfo` | none | encoding, digests, value types | |
| `cmd/labntp`, `web` | none | boot, shutdown order, clients | management is drained first, but only until a deadline |

How they interact: a REST or MCP handler calls one `App` operation. `App` takes `App.mu`,
compiles a candidate, and in this order moves listeners (reset only: NTP, then
management), adjusts or wipes the query log, swaps the snapshot, records an audit
event and remembers the result under the client's key. Hooks run after the mutex is
released, in the order of registration: `mcp.reloadAuth`, then `rest.reloadAuth` and
`rest.syncManagementLimits`, so that hooks of two calls can overlap. The MCP adapter is
mounted on the REST server, behind its origin check, gate and limiter; the two share
one verifier, and only REST has sessions. Packet handlers never take `App.mu`: they load the snapshot pointer once and
use it throughout, through the limiters, the reply and the query log. `serve` shuts
down management (REST, MCP, metrics) before the NTP server, all with one deadline.

The properties that make the parts correct:

* **App.** The listeners are where the active snapshot puts them. A failed call leaves no
  trace. Every installed snapshot is in the audit trail, once and in order. A
  cached result is the result of a request with that fingerprint and of a snapshot installed
  since the last reset; while it is cached it does not change. A plan tells what
  an apply from the same base installs. Drift is measured from the last bootstrap.
* **Cache.** List and map agree, both ways, and behave as a bounded recency sequence.
* **Query log.** A bounded log of the newest samples.
* **NTP server.** Tokens and wait group are exact; ready means an open socket; no socket
  is lost; the loop follows a rebind; shutdown leaves nothing running.
* **Limiter.** Deleting idle buckets cannot be noticed; in any period a client gets at most a
  burst and the refill of the period.
* **Management listener.** An address that is bound has an open listener and no listener is left
  behind; displaced servers are waited for; the gate counts exactly and has the active
  snapshot's limit; a reset never waits for the request it is answering.
* **Auth.** When the hooks are done the verifier is that of the active snapshot and the files;
  no session outlives the identity it was verified under; none is lost without a cause.
* **Transports.** The same request is the same App call whichever way it comes in; nobody causes a
  call without the right to it; credentials are looked at only after every limiter was paid.
* **Served time.** A rate view is a clock of its own, moved only by a request to move it; one
  reply's times come from one view; a document that validates can be compiled and served.

## 2. The modules

| Module | Models | Notes |
|---|---|---|
| `IdempCache` | `idempotency.go` as a sequence of entries, most recent first | operators; used by `ControlPlane` |
| `IdempLru`, `IdempList` | the cache's promise as a specification; the map, `head`, `tail`, `prev`, `next` and the code's unlinking and linking | `IdempList` implements `IdempLru` |
| `StateDoc` | `operations.go`, the part of `normalize.go` and `validate.go` that can turn a candidate down or fill it in, the fingerprint | gives `ControlPlane` its parameters `applyOperations`, `Compile`, `Fingerprint` |
| `ControlPlane` | `mutate.go`, `reset.go`, the snapshot store, the audit ring | one action per outcome of plan, apply and reset |
| `MCControlPlane` | an instance: documents, files, bodies, revisions | |
| `IdempListProofs`, `ControlPlaneProofs`, `QueryLogRingProofs`, `NTPServerProofs`, `ManagementProofs`, `AuthReloadProofs`, `TransportsProofs` | theorems about the module of the name | section 5 |
| `PacketTimeProofs` | theorems about `Limiter` and about `ViewClock` with `Config` | section 5 |
| `SampleLog`, `QueryLogRing` | the query log's promise; the slice with its indices | `QueryLogRing` implements `SampleLog` |
| `NTPServer` | read loop, packet handlers, `Rebind`, `Shutdown`, and the steps of reset they can see | a step is what runs between two points where another goroutine can act |
| `Limiter`, `MCLimiter` | one `queryLimiter` | time in ticks; its specification is `LimiterSpec`, as `PacketTimeProofs` extends `ViewClock` too |
| `ManagementServer` | `control/rest/server.go`: `ListenAndServe` to `Shutdown`, the gate, the limits hook | a listener and its `http.Server` are one id |
| `Catalogue` | the capability table, `rest/mux.go`, roles, scopes, origins | operators; used by the next two |
| `AuthReload`, `MCAuthReload` | verifier, session table, the two `reloadAuth` hooks, the REST session requests | one step per critical section |
| `Transports`, `MCTransports` | `serveHTTP` of REST and MCP, decoding, authorisation, every handler, tool and resource | pure functions of a request; steps only choose the way in |
| `Config` | `normalize.go`, `validate.go`, the lookups of `snapshot.go` | operators; used by `ViewClock` |
| `VirtualClock`, `ViewClock`, `MCViewClock` | what mode `rate` promises; `compileView`, `ntpview`, the packet path's use of them | `ViewClock` implements `VirtualClock` |

`ControlPlane` composes `IdempCache`, the audit ring, the store and the listeners; `MCControlPlane`
composes it with `StateDoc`. The properties are at the end of each module, each with the code it
is about; one marked `(Refuted)` is what a document or comment says and the code does not do
(section 3). Of the type invariants (`TypeOK`) the runs `control_plane` and `auth_reload` check
theirs; those of `ControlPlane`, `IdempList`, `QueryLogRing`, `NTPServer`, `Limiter` and `AuthReload` are proved, and
`Typed` of `ManagementProofs` is one in record and function sets. A definition named `Mut...` stands before the one it alters and is a plausible bug;
none is used by a specification. Each property has one that violates it.

**ControlPlane.** `active`, `previous` and `bootstrap` are `snapshot.Store`'s pointers, `cache` is
`App.idemp`, `audit` the ring behind `recordAudit`, `qlog` the log's capacity and fill,
`ntpBound` the NTP server's `bindAddr`, `httpBound` the management listener,
`mgmtEffective` the field of that name, `file` what the bootstrap mount holds. `App.mu` is held
through plan, apply and reset, so that each call is one step; `Plan`, `Apply` and
`Reset` are disjunctions over the way the call ends. The environment's calls
that may fail are named by `Faults`: reading secrets (`auth`), binding NTP (`ntp`),
binding management (`http`), binding the old NTP address again (`rollback`). `labntp serve` always passes
`--management-listen`, whose value wins over the document's, so that in that process a reset never moves management;
whoever builds `App` without the flag, as the tests of `app` and `rest` do, has the resets that do
(`MgmtOverride = NoOverride`).
A document is reduced to listen addresses, auth, query-log size and one
value for everything else; a revision is the document wrapped (`Revision`), which
takes the hash to be injective. Calls of `TryInsert` are steps of their own (`Query`)
only as far as the log's fill goes; how handlers interleave with the inside of a reset
is modelled in `NTPServer`.

**IdempList.** `items` is the map, and `lookup`, `storePlan`, `storeApply`, `evict` and `clear`
are one step each, because `App.mu` is held around them. `unlinkLocked`,
`insertFrontLocked`, `moveFrontLocked` and `removeLocked` are operators on the pair of
link functions, assignment by assignment.

**QueryLogRing.** `Resize` is two steps, `ResizeCopy` (the `List` inside it) and `ResizeInstall`,
because the mutex is free in between. A sample is the number of the `TryInsert` call that
offered it, so that order and repetition can be seen.

**NTPServer.** `sockets` is every socket ever opened and whether it is open; `udp` indexes it. The loop
is at one of its statements (`check`, `conn`, `read`, `leave`); a handler is at `load`,
`decide`, `log`, `release` or `leave`; `Rebind` is at `listen` (no lock held), `commit`
(lock) or `close` (no lock); `Shutdown` at `close` or `wait`. `control` is what a reset is
about to do, `managed` whether management can still send or run requests:
`ShutdownBegins` either finds no request running and management gone, or has given up
waiting for it at the deadline. Packet contents are not modelled: a handler refuses (any
early return) or replies. A rebind after which the management listener fails to move is taken back by a
second one (`undo`), to some address, and the reset ends there.

**Limiter.** One tick is the unit of time in which a whole number of tokens comes back, the burst
is twice the rate (every caller in the code asks for that), and a handler reads the clock in one
step and gets the mutex in a later one, at most `MaxLag` ticks on. Two history
variables make the properties statable: `kept` is every bucket had none been deleted as idle,
`allowance` is what a client may still get under a burst and refill that forget it only when a full
table gives its bucket up.

**ManagementServer.** `current` stands for `Server.http` and `Server.ln`, which are only ever set
together, `addr`, `closed` and `drains` for the fields of those names; `listener`, `accept`, `stopping` and
`drain` are what `net/http` and the drain goroutine keep for each server. `Rebind`
is at `listen` (no lock), `install` (under `s.mu`) or `return` (waiting for the drain goroutine to say
ready); `start` is where `ListenAndServe` is; `Shutdown` is at `stop`, `wait` or `drains`, and sets
`closed` before it takes any lock, as the code does. A request is between `arrived` and
`finishing`, and one that resets is `rebinding` while `Rebind` runs, so that a drain
which waited for its connections would wait for it. Every drain and the shutdown
itself can give up at a deadline. What `http.Server` does with a listener is modelled
from how the code uses it and marked external.

**AuthReload.** `reload[w]` is an apply or a reset with its two hooks: `load` (reading the files),
`equivalent` (rest's comparison), `replace` and `set` (`Verifier.Replace`, which compares and stores in two critical
sections), `notify` and `clear` (`Store.Clear`). `client[c]` is a REST request between `authenticate`,
`authorize` and its handler, with the principal it was given. The session table is a
function from cookies; expiry, touching on lookup, sweeping and eviction on
creation are the code's. `identity` counts the changes of the verifier, so that a session
can be compared with the moment its principal was verified.

**Transports.** A request `q` says what is asked and how it arrives (origin, verb, body, headers,
credentials, what the gates and limiters will answer). `serveREST` and `serveMCP` are the checks in the
code's order, `dispatch`, `RunTool` and `resourceBody` the handlers. An outcome is the App method, the arguments
that tell two calls apart, the error, the limiters paid, and whether credentials
were looked at. `AskREST`, `AskTool` and `AskResource` put one request over each. A request has two bodies, `q.wire`, one per transport,
since they spell durations and byte sizes differently; a body has one of each for all there may be in its
operations or filter, and the duration of an inline state. `CoerceWireTree` is what REST makes of them: strings
become integers and a bare number for a duration is refused. The tools have the SDK decode into
`time.Duration`, behind the schema that `inferToolInput` makes of the Go type. That the SDK checks the arguments
against it, refusing strings, nulls and what lacks a required field, and that it passes a raw state
unchecked, is taken from `mcp/apply_schema_test.go` and the type's definition; the SDK itself is not in the
repository. A token has a role or scopes of its own
(`auth/roles.go:31-36`), and without both every scope.

**Config.** A rule of `Validate` is a predicate over a document in which a text is a value
of the kinds the rule can tell apart. `Legal`, `Required` and `Present` are the forbidden-field matrix. `Match`,
`Allowed` and `VersionOK` are the packet path's questions to a snapshot.

**ViewClock.** `now` has the host's monotonic and wall clock apart, as Go has. `store.view` is the filter's
compiled view, or none: mode, parameters and the pair (`virtual`, `epoch`). `ApplyCompiles` and `ResetCompiles` compile
against the installed view; `Swap` installs, `Fails` abandons; ticks, wall steps and packets can come
between. A handler receives (first clock reading), loads the snapshot, and replies (second
reading). The refinement maps the anchor to `hand`, the instant the clock shows without
bounds, and `VirtualClock` pushes that along tick by tick.

## 3. The runs

Each run is a `.cfg`; all finish in under three minutes with two workers.

| Run | Checks | Instance |
|---|---|---|
| `control_plane` (`ControlPlane.cfg`) | `TypeOK`, `ListenersFollowSnapshot`, `DriftBaseline`, `AuditTrail`, `CachedResultsAreCurrent`, `PlanPredictsApply`, `ReplayAnswersTheRequest`, `LogFitsSnapshot`, `CachedResultIsFinal`, `FailureLeavesNoTrace` | 3 keys (symmetric), a cache of 2, 3 installed snapshots after boot, an audit ring of 2, three bootstrap files, four bodies of which two have one fingerprint, all faults but `rollback` |
| `idemp_list` | `WellLinked`, `ImplementsLru` | 4 keys, a cache of 3, 2 fingerprints |
| `query_log` | `NewestFirst`, `ImplementsSampleLog`, `ResizeLosesOnlyRacing` | capacities 1..3 asked for as 0..4, 6 samples |
| `ntp_server` | `TokensAndWaiters`, `BoundIsOpen`, `NoLostSocket`, `ShutdownLeavesNothing`, `LoopFollowsRebind`, `ShutdownStopsLoop` | 2 addresses, 2 handlers, 1 inflight token, 3 sockets, 2 snapshots after boot, a log of 1 |
| `limiter` | `IdleEvictionUnseen`, `AdmittedWithinRate`, `QuietestForgotten` | 3 clients and 2 handlers (symmetric), room for 2 buckets, rates 1 and 2 per second, 13 seconds, lag 1 |
| `management` (`ManagementServer.cfg`) | `ListenerAccounted`, `DrainsCoverDisplaced`, `ShutdownWaited`, `GateCounts`, `LimitsAreCurrent`, `RebindReturnsToItsRequest` | 2 addresses and the empty one, 2 requests, limits 0 and 1 with a default of 2, 3 servers, 2 changes |
| `auth_reload` | `TypeOK`, `VerifierFollowsSnapshot`, `SessionsFollowIdentity`, `SessionLostForCause` | 3 auth documents, 2 secret files, 2 reloads (symmetric), 1 client, a table of 2, both lifetimes 1, 5 events |
| `transports` | `TransportsAgree`, `CallsAreAuthorized`, `CredentialsCostATurn` | every row of the catalogue, with its arguments varied, by every kind of caller, role, scopes and App failure; eight rows in every way of arriving; six spellings of every duration and size on either side |
| `view_clock` | `RepliesAreConsistent`, `ValidatedDocumentsServe`, `RateKeepsTime` | 8 views (two epochs that are one instant spelled twice), instants -1..4, 4 ticks, the wall at most 1 ahead, 2 compilations, 1 handler; 3906 documents |

Three more runs show where the code does not do what the repository says of it. Each checks one
property and TLC finds it violated; `PROJECT.json` quotes the text.

| Run | What happens |
|---|---|
| `rollback_fails` | The management bind fails in a reset that has moved NTP, and so does binding the old NTP address. NTP stays on the candidate address. Since `oldNTP` is computed from the snapshot, a later reset to the old address does not rebind. |
| `auth_reload_overlap` | Of two overlapping reloads the one that read the older snapshot (or the older files) calls `Replace` last. When both calls have returned, requests are verified against the older tokens. |
| `fingerprint_collision` | `replaceAllowClientCidrs` with an empty list (admit nobody) and without one (admit all) are different requests with one fingerprint (`app/idempotency.go:170`), as the field is `omitempty` (`model/operation.go:32`). Under one key the second is answered with the plan or result of the first, not with `idempotency_conflict`, and installs nothing. |

### Other claims the models refute

These definitions are in the modules, marked `(Refuted)`, and no configuration lists them, so that the runs
above stay about what holds and about the three disagreements that matter most.
Naming one as an invariant or property in the component's `.cfg` gives the trace.

| Definition | What happens |
|---|---|
| `ControlPlane!AppliedKeyRemembered` | Plan with the key of an applied request: its revision is outdated by that very apply, `forgetIdempOnConflict` drops the whole entry (`app/mutate.go:48`), and the retried apply is answered with a conflict, where `docs/guide.md:270` promises a replay. |
| `QueryLogRing!ResizeKeepsNewest` | A sample inserted between `Resize`'s two critical sections (`querylog/ring.go:117`, `:128`) is lost although it is the newest. |
| `NTPServer!ShutdownAlwaysStopsLoop` | A reset that is still running when management's drain gave up installs a socket after `Shutdown` closed the old one (`ntpserver/server.go:220`, `:231`); the read loop blocks on it for good. |
| `NTPServer!RebindDrains` | `Rebind` closes the old socket while requests read from it are unanswered (`ntpserver/server.go:225`). |
| `NTPServer!ResetWipesLog` | A query answered from the old snapshot is in the log after a reset (`app/reset.go:98`), which `docs/guide.md:326` says is empty. |
| `ManagementServer!ShutdownCloses` | A `Rebind` that overtakes `Shutdown` sets `closed` back to false (`control/rest/server.go:266`) and serves on, against the comment at `server.go:347`. |
| `ViewClock!OneDeltaPerPacket` | The reference time of a view that has none of its own is made from the transmit time, which has the jitter already, and gets it again (`ntpserver/handle.go:127`); it can be later than the transmit time. `docs/02-ntp-semantics.md:59-60` has one delta for all three timestamps. To see it, give `MCViews` a view with a jitter of 1. |
| `Transports!StatesCanBeValidated` | REST coerces the durations of an inline state to integers with the rest of the body (`rest/request.go:74`), and `config.DecodeJSON` then refuses them as bare numbers (`config/duration.go:63-68`): a state that has a duration cannot be validated over REST, spelled either way. The tool, which leaves the raw state alone, takes the strings. |

### Further observations

None of these has a property of its own; each is visible in the model it is named with.

* `TryInsert` counts a skipped sample only if a last `TryLock` succeeds, so that `Dropped` can undercount
  (`querylog/ring.go:57-62`; `QueryLogRing` has both outcomes).
* `reloadAuth` drops the error when the files can no longer be read (`control/rest/server.go:518`): the old
  verifier stays (`HookReads`; `VerifierFollowsSnapshot` excepts exactly this case).
* A session made from a principal that was verified before the table was cleared survives the clearing
  (the exception in `SessionsFollowIdentity`).
* REST and MCP part in these places (`Parted` in `Transports`): REST wants durations as strings and
  refuses integers (`docs/06-rest-api.md:30`, `rest/contract_test.go:217-245`), the tools want integers of nanoseconds and refuse strings
  (`mcp/apply_schema_test.go:11-28`, `:51-71`); REST takes a byte size as a string or a number and a null for either, but no
  negative size, the tools take a number alone, negative ones too; the tools' schema requires fields of a filter
  and its view that REST does not ask for before validation; an inline state with durations is refused over
  REST. Further, REST compares a filter's name with
  the path's, refuses a negative limit, and trims the preview address. In all of these one of the two makes no call; what both take
  they read alike, which is what `TransportsAgree` says of such requests. A request that is out of time is
  `internal_error` over REST and `timeout` as a tool. Reset takes no expected revision on either. `authorizeTool`
  lets through a tool that is not in the catalogue (`control/mcp/auth.go:56-65`); there is none.
* An epoch of blanks passes `Validate` and fails in `compileView` with a plain error, hence
  `internal_error` (the exception in `ValidatedDocumentsServe`).
* An `absolute` view is anchored again at every compilation, so that an apply of something else sets its
  clock back to the instant written. A rate view is not; but a rate change that leaves a written
  epoch in place goes back to that epoch, and dropping the epoch at the same rate goes to the
  host's time. A change of rate takes effect when it is compiled and shows when it is
  installed, hence `lag` in `VirtualClock`.
* A rate view stops at 292 years from its anchor, not at the end of the NTP range (`saturatingDuration`). An epoch
  written more than some twenty years outside 1900..2172 lets it stop inside the range, at rate 100 after
  less than three years of running; the views of `view_clock` have no such epoch, and `InstantsNear` of
  `PacketTimeProofs` excludes them.
* A zoned link-local IPv6 client is in no prefix, not even `::/0` (`Contains` in `Config`).

### Why the bounds are enough

* `control_plane`: three keys over two places make the cache evict while two results are in it; three
  installed snapshots make an apply and its undo (a revision that returns), an apply after a reset, and a
  reset after an apply. Two retained events can be compared with each other, and the third makes the audit ring
  drop one. The files differ in both addresses and auth, in the management address alone, and in needing
  normalisation; each body changes several things at once, one fails in its last operation where there is nothing to
  remove, one is refused by the validator, and two share a fingerprint. `fingerprint_collision` and `rollback_fails` have the same
  instance with one key and two snapshots. What the passing run checks is proved without bounds (section 5).
* `idemp_list`: a list of three has a head, a middle and a tail, and the fourth key evicts.
* `query_log`: capacity 3 wraps twice in six samples, and each size is resized to each other.
* `ntp_server`: two handlers of which one can hold the token, so the other is in its deferred calls; a
  rebind and its rollback, or two rebinds, with three sockets.
* `limiter`: one tick is a second. The code's floor of 30 seconds for an idle bucket is lowered to 12
  (`MinIdle`), still above the 8 that four refills of a burst take, so that 13 ticks are enough
  for one to go. Buckets then go earlier than in the code, the harder case for `IdleEvictionUnseen`.
  Two places for three clients fill the table.
* `management`: two requests are a reset that rebinds and another request on the displaced or the new
  server; three servers are two rebinds, so that two drains can be under way at a shutdown; limits of
  1 and the default of 2 lower the gate while two requests are in.
* `auth_reload`: two reloads are what overlap takes, and one client between its steps is enough for a
  session that straddles a reload. Five events are, for instance, two reloads (two each) and an edit, or one reload,
  two sessions and a tick. The documents differ in mode, ids, roles and secrets; an edit can make two
  secrets equal, or a file disappear. A table of two evicts at the third session.
* `transports`: the functions have no state, so what counts is that every branch is taken; the
  requests are a base request with each group of fields varied in all combinations. The spellings of a duration or a
  size are omitted, null, a string, a number and what is neither, with two values and a negative size.
* `view_clock`: the range -1..4 is left at both ends by rates 2 and -1 in four ticks; two
  compilations are a change and a change back, or a change that is abandoned; rate 9 is beyond
  the largest allowed.

Deadlock is checked in `control_plane`, `idemp_list`, `query_log`, `ntp_server`, `limiter` and `auth_reload`. It is
not in `management` (the process may have shut down with nothing to do), `transports` (a request
is answered once by each way) and `view_clock` (time ends at its bound).

## 4. Fairness

`NTPServer` and `ManagementServer` have liveness properties. `NTPServer!Fairness` is weak fairness of the loop's own steps, of each
handler, of `Rebind`, of `Shutdown`'s closing and returning, and of the rest of a reset: Go runs a
goroutine that can run, none of these steps waits on a condition that comes and goes, and
`Shutdown` returns at the latest at its deadline. Nothing is assumed of clients:
no datagram need arrive, so that a loop blocked in `ReadFrom` on an open socket may
stay there, which is what `LoopFollowsRebind` and `ShutdownStopsLoop` are about. Nobody
has to call for a reset, an apply or a shutdown.

`ManagementServer!FairSpec` has weak fairness of `RebindSteps` and of each drain goroutine's first step: a goroutine
that can run runs. No request need ever end, no drain need finish, and no timeout need
come, so that `RebindReturnsToItsRequest` cannot hold because a deadline saved it.

## 5. What is proved

TLAPS checks the proofs in the modules whose names end in `Proofs`. A theorem holds for all values of the constants
that satisfy the named assumptions of its component: any number of keys, documents, samples, sockets, handlers,
clients or reloads, any sizes and limits, any bounds on the length of a behaviour. Where a property is not inductive, a
proof module defines the strengthened invariant as a conjunction of named parts, TLC has checked the parts on the
component's instance, and the proof keeps each relative to the ones before: a lemma for each action, or for each
part and action, one for the initial states, and a temporal step that combines them.

### ControlPlane

| Theorem | Statement |
|---|---|
| `TypeCorrect` | `Spec => []TypeOK`: among the rest, only compiled documents are ever active |
| `ListenersAgree` | `"rollback" \notin Faults => (Spec => []ListenersFollowSnapshot)` |
| `FailuresAreTraceless` | under the same assumption, `Spec => FailureLeavesNoTrace` |
| `DriftIsFromBootstrap` | `Spec => []DriftBaseline` |
| `LogFits` | `Spec => []LogFitsSnapshot` |
| `AuditTrailIsComplete` | `Spec => []AuditTrail` |
| `ResultsAreCurrent` | `Spec => []CachedResultsAreCurrent` |
| `PlansPredict` | `Spec => []PlanPredictsApply` |
| `ReplayIsOfTheRequest` | `Spec => []ReplayAnswersTheRequest`, whatever `Fingerprint` leaves out |
| `ResultsAreFinal` | `Spec => CachedResultIsFinal` |

*Assumptions.* What `StateDoc` must provide: `applyOperations` returns a document or `Rejected`; `Compile`
returns a canonical document (management address filled in, positive query-log
size) or `Rejected`, and leaves reset-only fields that are filled in alone. The rest
say that the special values are not ordinary ones. TLC evaluates all of them in the run. The
assumption on `rollback` is needed: the run `rollback_fails` is the counterexample without it. Nothing is assumed of
`Fingerprint`: that a replay is of the same body, `ReplayAnswersTheBody`, is false, as the run `fingerprint_collision` shows.

*Argument.* The first part of `ControlPlaneProofs` shows that each operator of the cache maps sequences of entries to
sequences of entries. `TypeOK` is then inductive, action by action: `CandidateFacts` and
`BootstrapCandidateFacts` say that what apply and reset install is canonical.
`InstallStep` says that a step changes `active` only by a commit of an accepted candidate or of a
readable bootstrap, and `QuietStep` what every other step leaves alone. Each of the other invariants is
inductive relative to `TypeOK`: for the listeners the commits are compared with the four
ways a reset can fail; for drift the point is that `Candidate` turns down a document whose
reset-only part moved; for the audit trail `RingStep` is a lemma on appending the
next numbered event to a bounded ring of chained events, in the two cases of a ring
with room and a full one.

The theorems about the cache forget its order: `Members` is the set of a cache's entries, and
the lemmas about the cache say of each operator which members it keeps, drops or adds, and that keys stay distinct.
`CacheInv` (distinct keys, within the limit), `AnswersInv` (a plan and a result were computed from their entry's
fingerprint, and a plan says what its operations make of its base) and `ResultsInv` (each result is an event
recorded since the last reset, no event in two entries) are then kept by a case distinction that all of
`Plan` and `Apply` share, in `CacheStep`: the cache keeps old members, or one entry is filled in
from what the call computed. The generation that a commit gives its event is new,
so a filled-in result differs from every cached one; a reset drops results and
baseline together.

### IdempList

| Theorem | Statement |
|---|---|
| `TypeCorrect` | `Spec => []TypeOK` |
| `ListIsWellLinked` | `Spec => []WellLinked` |
| `ListImplementsLru` | `Spec => ImplementsLru` |

*Assumptions.* `IdempMax` is positive; the empty key is not one of `Keys`.

*Argument.* `Shows(l, c)` relates the three fields to a sequence: the map's keys are those of its entries, all different,
`head` and `tail` are its ends, and each entry's links are its neighbours or nil. For every helper a lemma shows that
what the fields show afterwards is the operator of `IdempCache` applied to what they showed before: `Unlinked`, `Removed`,
`Linked`, `MovedFront`, `Inserted`, `Filled`. A walk along the links is a recursive function; `WalkIs` finds it from the
equation it satisfies, with the least place where another solution would differ, so that `Listed` is the sequence
shown (`ListedIs`). The invariant is that the fields show `Listed`, within the limit; the bound matters as
`insertFrontLocked` is modelled to evict at most once. `WellLinked` says the same of
the links by walking along them; `Shows` says it entry by entry, which is the form that the proof of a helper can use. With this refinement the theorems of
`ControlPlane`, which are about the sequence, are about the list the code keeps.

### QueryLogRing

| Theorem | Statement |
|---|---|
| `TypeCorrect` | `Spec => []TypeOK` |
| `ListIsNewestFirst` | `Spec => []NewestFirst` |
| `OnlyRacingSamplesAreLost` | `Spec => ResizeLosesOnlyRacing` |
| `RingImplementsLog` | `Spec => ImplementsSampleLog` |

*Assumptions.* Sizes are natural numbers, `MinCap` is positive and no larger than `MaxCap` (so that the slice is never
empty), and the bound on samples is a natural number.

*Argument.* The arithmetic comes first: two of the last `size` positions of a slice of that many places or more never share a
slot (`MultiplesApart`, `ModWindow`). `IInv` is `TypeOK`, what a resize under way holds, that `List` and the copy of a
resize are each decreasing and older than the next sample, and `Raced` (what `List` has beyond the copy is newer than all
of it, and stands in front). The refinement maps the log to `List` and the copy to the resize's; each action of the ring is shown to be the action of `SampleLog` of the same
name, or a stutter (a sample that is given up), with the equation of sequences proved index by
index: an insertion moves everything down by one and drops the oldest of a full ring, and `ResizeInstall` shows the
newest of the copy.

### NTPServer

| Theorem | Statement |
|---|---|
| `TypeCorrect` | `Spec => []TypeOK` |
| `TokensCounted` | `Spec => []TokensAndWaiters` |
| `BoundHasOpenSocket` | `Spec => []BoundIsOpen` |
| `SocketsAreKept` | `Spec => []NoLostSocket` |
| `ShutdownIsComplete` | `Spec => []ShutdownLeavesNothing` |

*Assumptions.* `ServerAssumption`: the handlers that can exist are finite in number, numbers are natural, the first
address is an address.

*Argument.* `IInv` adds `StartInv` (before `Start` there is nothing), `OrderInv` (how `started`, `stopped` and the steps of
`Shutdown` follow one another), `RebindInv` (what a rebind holds between its steps, and that only one is
under way), `UdpOpen` (the server's socket stays open from `Start` to `Shutdown`) and `ShutdownInv` (with
management stopped, a `Shutdown` about to close holds the server's own socket, past that the socket is closed, and when it
returned without an error the WaitGroup is at zero). `TokensAndWaiters` counts sets of handlers, so that its steps use the
cardinality of a finite set with one element more or less. Management having stopped means no rebind can
begin any more, which is what `ShutdownLeavesNothing` needs of `RebindInv`.

### Limiter

| Theorem | Statement |
|---|---|
| `TypeCorrect` | `LimiterSpec => []TypeOK` |
| `EvictionUnseen` | `ShortWait => (LimiterSpec => []IdleEvictionUnseen)` |
| `WithinRate` | `ShortWait => (LimiterSpec => []AdmittedWithinRate)` |
| `QuietestGoes` | `LimiterSpec => QuietestForgotten` |

*Assumptions.* `LimiterAssumption`: rates are positive and one is the largest (a configured rate is a number of limited
size), times are natural numbers, the table has room for one. `ShortWait` says `MaxLag < IdleTime`: between
reading the clock and getting the mutex a handler waits less than the 30 seconds (or the four refills of a
burst) that a bucket must be idle to go. `EvictionUnseen` needs it: with a lag of nine ticks and an idle
time of eight TLC shows a handler with a reading from before the last admission, whose client's bucket went in
between and comes back full.

*Argument.* `KeptIdle` says that a deleted bucket that is only remembered has been idle for longer than `IdleTime`, so
that with any reading a handler can still have it is full again when its client returns
(`RefillFacts`: two ticks refill a burst). `AllowanceCovers` bounds the allowance from below by `Owed`, the tokens in the
bucket and the refill since at the largest rate: a call with a late reading leaves no more than that
(`ReadyOwed`), and a tick adds the same to both. The products are compared by one lemma (`Refills`), and a call of
`allow` is taken apart once (`AllowFacts`).

### ManagementServer

| Theorem | Statement |
|---|---|
| `ListenersAreAccounted` | `Spec => []ListenerAccounted` |
| `DisplacedAreCovered` | `Spec => []DrainsCoverDisplaced` |
| `ShutdownHasWaited` | `Spec => []ShutdownWaited` |
| `GateIsExact` | `Spec => []GateCounts` |
| `LimitsFollowSnapshot` | `Spec => []LimitsAreCurrent` |

*Assumptions.* `ManagementAssumption`: the requests that can be in flight are finite in number, limits are natural
numbers and the default limit is positive.

*Argument.* None of the properties is inductive. `IInv` adds what the code relies on without saying it, in
conjuncts that are each kept relative to the ones before (one lemma each, one step per action):
`Typed`; `StartInv` (before `Serve` has installed its server there is nothing else); `RebindInv` (one rebind at
a time, of a request that waits for it, whose new server nobody knows of until it is installed);
`ServerInv` (how `drains`, the drain goroutine, `inShutdown` and `Serve` of one server go together);
`ShutdownBegun` (a shutdown no rebind overtook keeps `closed`); `LimitsInv` (the hook that holds
`limitsMu` has read the active snapshot, or another hook is still to come). `WaitInv` and `BusyInv` say where a
shutdown stands with each server it knew: told to stop, or in the copy of the drains it waits for.
`BusyStep` is the lemma both use: only a server that accepts connections gets a first one. `UnmadeFree`
takes the least free server id from the well-foundedness of `<`, and `GateStep` follows `acquire` and `release`
through cardinalities.

### AuthReload

| Theorem | Statement |
|---|---|
| `TypeCorrect` | `Spec => []TypeOK` |
| `VerifierFollows` | `Spec => []VerifierFollowsSnapshot` |
| `SessionsFollow` | `Spec => []SessionsFollowIdentity` |
| `SessionsLostForCause` | `Spec => SessionLostForCause` |

*Assumptions.* `AuthAssumption`: the first auth document is one of the documents and loads from the files the process starts
with; the limit of the table is positive and lifetimes are natural numbers.

*Argument.* Two theorems need that no reloads overlap, which the properties themselves say (the run
`auth_reload_overlap` is what happens otherwise); `SessionsLostForCause` does not. `Serial` says that without an overlap
one reload is under way, if any. Then what rest's hook has read is what the active snapshot says
(`ReadIsCurrent`), and what it is about to set will be announced if it differs (`AnnouncesChange`), so that
a session that outlived its identity is about to be cleared (`ClearsOwed`). `ClearsJustified` is the part that
overlapping reloads keep too: a hook that found a difference either still differs from the verifier, and will
change it itself, or somebody else changed it since the hook began. `RoomFacts` says what eviction leaves of a
full table.

### Transports

| Theorem | Statement |
|---|---|
| `AnswersAreTheTransports` | `Spec => []Served`: an answer is what its transport makes of the request, whichever ways in were asked before |
| `CallsAreAuthorizedAlways` | `Spec => []CallsAreAuthorized` |
| `CredentialsCostATurnAlways` | `Spec => []CredentialsCostATurn` |
| `TransportsAgreeAlways` | `Spec => []TransportsAgree` |

*Assumptions.* `LimitsAreIntegers`: the limit a request asks for is an integer. Otherwise `Requests` is any set, so that
what TLC checks for the requests of `MCTransports` holds for all.

*Argument.* `Served` makes each property one about the functions `serveREST`, `RunTool` and `resourceBody` of one
request. Two things are needed of the catalogue, row by row: no two rows of a method can match the same path
(`RoutesAreDistinct`), so that what a request is routed to is the row it was made from, and the scopes
of a row are those its handlers, tools and resources need. The second goes through `Rightful`, that a caller with given scopes
may cause the call an outcome makes: one lemma for what each scope lets a caller do (`ReadersMay` to
`WritersMay`), one for the handlers and one for the tools of the rows that ask for it.
`CallsAreAuthorizedAlways` then follows the checks in the code's order up to the handler,
and `CredentialsCostATurnAlways` does so up to the first look at credentials. For `TransportsAgreeAlways` the
three functions are compared row by row: what `dispatch` decodes from path, query and body is what a tool takes from its
arguments, on the requests all can carry. For the bodies, `CoercionKeepsValues` says that what REST accepts it reads
with the value written, so that two bodies of equal values that both transports accept give equal calls
(`BodiesAgree`, `StatesAgree`), and where only one accepts, `Parted` holds and the other makes no call.

### ViewClock

| Theorem | Statement |
|---|---|
| `ClockIsSound` | `Spec => []ClockInv` |
| `RepliesAreConsistentAlways` | `Spec => []RepliesAreConsistent` |
| `RateViewsKeepTime` | `InstantsNear => (Spec => RateKeepsTime)` |
| `ValidatedDocumentsServeAlways` | `Spec => []ValidatedDocumentsServe` |

*Assumptions.* `ViewClockAssumption`, which TLC evaluates in the runs: a duration spans the range of NTP time,
as the code's 292 years do; views and documents are of the shape the decoder gives them, valid or not; and the
view of the bootstrap file compiles, as the process does not start otherwise. `InstantsNear` is needed by the
refinement alone: epochs, and the host's time, are no further outside the range than the duration is longer than
it, about twenty years (section 3 says what happens to others). TLC's instance satisfies it.

*Argument.* `ClockInv` says that the views installed, being compiled and held by handlers validated, and were anchored at an instant not
after now; of the snapshot being compiled, that it is what `Compile` makes of some filter and of the snapshot still
installed, at some moment since (`MadeFrom`). The invariant keeps this moment because an installation
happens later than the compilation whose clock reading it shows.

For a reply, `AnswersAgree` compares two readings of one view: between them its clock ran
`Rate * (xmt - rec)`, unless clamping or saturation hid it. Clamping is excluded by `Inside`, saturation by
`Runs`, the exception `RepliesAreConsistent` states.

For the refinement, `SaturationUnseen` says that from a near anchor a saturated span is outside the
range in any case, so that what is served is the clamped `hand` (`ShowsHand`), and `HandMoves` that the
hand moves by the rate with each tick. `FourWays` takes an anchor apart: it is that of the installed view, a written
epoch, what the installed view of another rate showed, or the host's time. Each is a step of
`VirtualClock`, with the ticks between compilation and installation as its `lag`; `NearInv` is kept because a clock that goes on from
what was shown goes on from within the range.

For documents, each section of `Normalize` is shown to change nothing the second time, and a view that validates to fail to compile only for
an epoch of blanks, which the view the program starts with cannot have (`BootInv`): it compiled.

## 6. What is only model-checked, and what is not modelled

*Only model-checked.* `RebindReturnsToItsRequest` of `ManagementServer`, `LoopFollowsRebind` and `ShutdownStopsLoop` of
`NTPServer`, as liveness under fairness is out of the prover's reach. Every other property of a passing run is
also a theorem.

*Not modelled.* Contents of packets and their authentication (`ntpwire`, `ntpkeys`): bit-level,
covered by vector tests. Parsing YAML and JSON beyond whether it refuses and what it makes of durations and sizes; the JSON shapes of
answers and the OpenAPI document; the MCP SDK's sessions and framing, and the stdio bridge; the
web UI; `observability`, which nothing reads back. Redaction of audit diffs and
the external audit sink. Warnings of the compiler. Fields of the document that no
property tells apart. The contents of plans beyond base, candidate and operations. Failure of the NTP
server's `Start`: the process exits.

*Abstractions to keep in mind.* Hashes are injective; secrets are tokens that match or do not. `App`'s calls
are atomic in `ControlPlane`; the parts of a reset that others can see between its steps are in
`NTPServer`, `ManagementServer` and `ViewClock`. Reading the token files is one step. The number of handlers
that exist at a time is bounded by `Handlers`, one more than the tokens; that of requests by `Requests` and
`Clients`. In `Transports` the gates and limiters answer as the request has it. In `ViewClock` one filter
stands for all, since a view's clock depends on no other filter.

## 7. Plan

1. Done: `IdempCache`, `StateDoc`, `ControlPlane`, `IdempLru`/`IdempList`, `SampleLog`/`QueryLogRing`,
   `NTPServer`, `Limiter`, their runs and the first theorems.
2. Done: `ManagementServer` with its proofs, `Catalogue`, `AuthReload`, `Transports`, `Config`, `VirtualClock`/`ViewClock` and
   their runs.
3. Done: proofs for `ControlPlane`, `IdempList` and `QueryLogRing` with their refinements, `NTPServer`, `Limiter` and
   `AuthReload`.
4. Done: proofs for `Transports` with `Catalogue`, and for `ViewClock` with `Config` and the refinement of `VirtualClock`.
5. `ServeProcess`: composition of `ControlPlane`'s reset with `NTPServer` and `ManagementServer` under the
   shutdown order of `serve`.
