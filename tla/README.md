# GoChatX: a TLA+ model of the chat gateway

GoChatX is a chat server in Go: a gateway that keeps WebSocket sessions, rooms
and the list of online users in memory, an auth service behind gRPC, MongoDB for
messages, MySQL for users and Redis for markers and rate limits. This directory
models the parts in which goroutines share state, checks them with TLC on small
instances, and proves the central properties with TLAPS for instances of any
size.

## 1. The system

| Component | Source | State | Operations |
|---|---|---|---|
| Room registry | `internal/gateway/room.go` | `rooms` (ID to `*Room`, under `roomsMu`), `Room.clients` (user ID to `*Client`, under the Room's `mu`) | `getOrCreateRoom`, `addClient`, `removeClient`, `removeEmptyRoom`, `broadcast` |
| Online registry | `internal/gateway/clients.go` | `onlineUsers` (user ID to `*Client`) | `registerOnline`, `unregisterOnline`, `getOnlineClient` |
| WebSocket handler | `internal/gateway/ws_handle.go` | per connection: `me`, `authAttempts`, `sendCh`, two helper goroutines, deadlines | auth, join, leave, send, private, history, ping; clean-up |
| Message store | `internal/storage/mango.go` | the collection of messages with the flag `delivered` | `SaveMessage`, `QueryHistory`, `PullUndeliveredForUser` |
| Moderation | `internal/gateway/api.go`, `middleware.go` | `users.role` | ban, unban, `disconnectUser`, admin middleware |
| Rate limiter | `internal/gateway/middleware.go` | a sorted set per key in Redis | `Limit` |
| Auth service | `internal/auth/service.go` | users, tokens | `Register`, `Login`, `Validate` |
| Presence | `ws_handle.go`, `service.go` | `user:<id>:online`, `last_seen` in Redis | set with and without a time to live, delete |
| Web client | `web/app.js` | socket, timers, attempt counter, joined rooms, the page | log in, connect, reconnect, switch room, log out |
| REST endpoints | `internal/gateway/api.go` | | forward `Register`, `Login`; report; upload |
| Process start and shutdown | `cmd/gateway/main.go`, `cmd/authsvc/main.go` | the clients of MySQL, MongoDB, Redis and the auth service; `AuthClient == nil` (dev mode) | open one after the other, serve, `Shutdown`, `GracefulStop`, deferred `Close` |

How they interact: every connection is one call of `HandleWS` in a goroutine of
its own, plus a write goroutine that drains `sendCh` and a ping goroutine.
Handlers meet in the two registries and in each other's channels: a private
message or a broadcast is a send to another connection's `sendCh`. Sends never
block (`select`/`default`); they drop when the channel is full and panic when it
is closed. Saves to MongoDB run in goroutines of their own. A ban closes the
socket of the session the registry names. The gateway asks the auth service for
every registration, login and token, and goes without any service that it could
not reach at its start. The page is a client of the gateway's HTTP endpoints,
behind the rate limiter, and of one WebSocket at a time.

What is hard here:

* pointers (`*Client`, `*Room`) are used after the lock they were read under has
  been released;
* registry entries are keyed by user ID, and one user may have several sessions,
  one connection several identities;
* clean-up is a sequence of critical sections, and a panic skips it;
* three goroutines share one socket and end each other through channels and
  timeouts;
* the store is read and marked in two operations, and a room message is broadcast,
  stamped and saved in three, while a join adds, reads and answers in three;
* two kinds of locks are nested, and a panic may run through them;
* the limiter's four Redis commands are sent together and may run apart, late or
  not at all;
* either process may be stopped, or die, at any moment, and Redis keeps what the
  sessions wrote;
* the callbacks of the page act on the variables of the page, not on the
  connection that set them up.

What makes each part correct: the registries lead only to connections that are
served and belong to the user; a room is one object for all its users; clean-up
is complete; handlers and goroutines end; a responsive peer is kept; a message
reaches its user once; a member sees what is said; the limit is kept and
nobody is turned away without cause; what outlives a session in Redis goes; the
processes come up and stop; the page has one connection, and none when
nobody is logged in. `PROJECT.json` lists the hazards with their lines.

## 2. The modules

Registries and sessions:

* **`Rooms`**: the room registry. One operator per critical section of
  `room.go`. A `*Room` is an identity, so that a handler can hold a pointer that
  the map no longer has; `newRoom` takes an identity nobody refers to.
* **`Gateway`** (extends `Rooms`): `HandleWS` for all connections over both
  registries. `pc[c]` is the handler's position between two critical sections;
  `op`, `roomID`, `room`, `target`, `todo` are its locals, forgotten when the
  request ends. One action per section: `RoomRequest` is the frame and the
  lookup under `RLock`, `Create` the second look under `Lock`, `Join`, `Remove`,
  `Prune`, `Broadcast` what the caller does with the pointer afterwards. `Scan`,
  `LeaveNext`, `UnregisterOnline`, `Finish` are the clean-up in the code's
  order. `SendTo` is a send to other channels: it succeeds, or the handler
  panics and only the deferred calls run. `Connect` to `AuthOK` are the ways an
  auth frame goes, in both modes; `DevMode` is `AuthClient == nil`. `authedAs`
  is a history variable.
* **`RoomOps`** (extends `Rooms`): what the operations of `room.go` promise
  their callers: each is a short sequence of steps, and every step happens at one
  moment. `Gateway` is built from the same steps.
* **`RoomLocks`** (extends `Rooms`): `room.go` at the level of its locks: `roomsMu` and one
  `mu` per Room, with `sync.RWMutex`'s queue (a waiting writer keeps new readers
  out), the range loop of `broadcast` member by member, the panic in it, the
  count and the delete of `removeEmptyRoom` apart, and the scan of the clean-up Room by
  Room. `Ops` is `RoomOps` under the refinement mapping: a Room whose count was
  zero is gone from the map for everybody else, since the map is locked until the delete.
* **`Pump`**: one connection in time. The handler (`ReadPong` ... `Return`), the
  write goroutine (`Writer*`), the ping goroutine (`Pinger*`), and the
  surroundings: the peer, other handlers that enqueue, and `Tick`. Time advances
  by units when no goroutine is ready. A closed socket may still hand out the frames that
  were read from it before (`unread`). `gone` is a history variable: the time since the
  connection was lost, while any of the three is left. A pong is left out if another is on its
  way: it could only move the deadline once more. `RequestTime` bounds those calls of a request
  that have a timeout (an auth's `Validate` and its pull, 3 s each); the role query and the writes
  to Redis have none (`ws_handle.go:173`, `184`, `185`, `333`, `365`), so `Stall` lets a request or the
  clean-up go on for any time after that, and the history variable `stalled` says that one did since
  the last pong.
* **`Delivery`**: private messages to one user: the sender (`Lookup`, `Route*`),
  the save goroutine (`Save`, `SaveFails`), the pull of every authentication
  (`Register`, `Find`, `Mark`, `Push` and their failures), the write goroutine,
  the end of a session, and the end of the process (`ProcessEnds`), which takes
  the registry, the channels and the saves under way with it.
* **`History`**: one room as one member sees it, from the author's
  `Broadcast`, `Stamp`, `Save` over the viewer's handler (`AddClient`,
  `QueryHistory`, `QueryFails`, `Answer`) and its channel to the page (`OnJoined`,
  `OnMessage`, `OnHistory`, `SwitchAway`, `SwitchBack`). `Newest` is what MongoDB's sort
  and limit return; time stamps are milliseconds, which several messages may share. The
  rest of the server shows in three actions: another session of the viewer's user overwrites or
  deletes the entry in `Room.clients` (`Displace`; `AddClient` may also find its Room removed), the
  author's Room was removed after it was found (`BroadcastStray`), and the channel of another member
  is closed, so that the author's handler panics in the loop, before or after the viewer's turn,
  and neither stamps nor saves (`BroadcastPanics`). `displaced` and `missed` are history variables.
  The viewer's connection stays; a new one is a new viewer.
* **`Moderation`**: who may be connected. `role` is the column in MySQL, `tokens`
  the claims of unexpired tokens. `Register`, `Login` are the auth service,
  `Promote` the operator's SQL. An authentication is `Validate` (gRPC), the role
  query (`CheckPasses`, `CheckRefuses`, or `CheckFails`, which lets the user in) and
  `RegisterOnline`; a ban is `AdminRequest` (the middleware), the `UPDATE` (`Ban`,
  `BanRefused`, `UpdateFails`, or `BanUnanswered`, when it took effect and its
  answer was lost) and `DisconnectUser`. `missed` and `unanswered` are history
  variables. What a registered session does is in `Gateway`; here it may only end,
  with its clean-up or, by a panic, without.

Around them:

* **`RateLimiter`**: `Limit` for the clients of one address on the three endpoints
  behind it. `Start` takes the time; `ZRemRangeByScore`, `ZCard`, `ZAdd`, `Expire` are the
  pipeline's commands as Redis runs them, between those of other requests; `Judge`
  compares; `RedisError` lets the request through with its commands still to
  come, `Cut` loses the rest of them; `Resend` is go-redis' retry (`main.go:128` keeps the
  default): the connection broke before the answers were read, and the whole pipeline runs again
  with the same time stamp; `Tick` expires keys. The set holds
  time stamps, so requests of one millisecond are one member, as in the code.
  `swept` is a history variable: the requests whose member went with a key that
  expired between their `ZADD` and their `EXPIRE`; so is `resent`.
* **`Lifecycle`**: `main` of both processes (`Open` for each service in turn, with or
  without success; `Serve`, `Shutdown`, `CloseNext`, `Exit`; `StartStep`,
  `GracefulStop`, `ServeReturns`), their deaths and new starts, two sessions and a
  `Login` of one user, and the user's key `user:<id>:online`, which both write and
  the sessions delete. `stranded` is a history variable: the last holder of
  the key failed to delete it.
* **`WebClient`**: the connection of the page. One action per task of the
  event loop: the socket's events (`Open`, `Authed`, `Refused`, `Close`), the
  connect timeouts and reconnect timers, including those the page has
  forgotten, the answers of `/api/login`, the two buttons.

Proofs and instances:

* **`GatewayProofs`**, **`ModerationProofs`**, **`RoomLocksProofs`**, **`DeliveryProofs`**,
  **`HistoryProofs`**, **`RateLimiterProofs`**, **`WebClientProofs`**: the theorems about the module of the
  same name. **`SessionProofs`**: those about `Pump` and about `Lifecycle`.
* **`MCGateway`**, **`MCModeration`**, **`MCRateLimiter`**, **`MCRoomLocks`**,
  **`MCHistory`**: symmetry sets and constants that are functions, for TLC.

How they compose. `Gateway` uses `Rooms` as its state; `RoomLocks`, over the same
`Rooms`, justifies that `Gateway` takes the registry's operations as single
steps. The sessions of `Delivery`, `Moderation` and `Lifecycle` are those of `Gateway`
with everything left out but their registration, their pull and their end;
`Pump` is the inside of one of them. `History` takes a member's channel from
`Pump` as a bounded queue that keeps its order. `WebClient` is the other end of
`Pump`'s connection and the caller of the Login in `Lifecycle`.

Operators named `X_Something` before an operator `X` are the mutants listed in
`PROJECT.json`: plausible bugs that the properties must notice.

Abstractions. Message texts, JSON and logging are left out. In `Gateway` a
channel is its closed flag: whether a frame finds room is in `Pump` and
`Delivery`. Frames that are answered on the handler's own channel only ("ping",
"history", malformed ones, requests before "auth") change nothing in `Gateway`.
`Scan` reads all rooms in one step; the code holds `roomsMu` but takes each
Room's lock in turn (`RoomLocks` has it so). The set may then mix moments, but
what it says of the scanning connection's own entries is the same: only that
connection's `Join` creates them, and it is not joining. `Broadcast` sends to
all members in one step, which `ImplementsOps` shows to be the members of one
moment. The channel of a member may be closed in the middle of it; the outcome is
that of a close before or after the whole broadcast. `Prune` counts and
deletes in one step. In the code a handler that found the Room earlier may join
between the two, and a Room with that member is dropped; by `ImplementsOps` this is
the same, for everybody who can tell, as the drop before the join, which
`Gateway` has. (The comment at `room.go:76` says "atomically"; of the map this is
true, of the Room it is not.)

## 3. The runs

| Run | Configuration | Checks |
|---|---|---|
| `gateway_safe` | 2 connections, 2 users, 1 room, 3 Room objects, auth service, 2 attempts | `TypeOK`, `NoDanglingClient`, `RoutedToAuthenticated`, `UnlistedExplained`, `RegistryStable` |
| `gateway_live` | 2 connections of 1 user, dev mode, fair | `RequestsFinish`, `SessionsEnd` |
| `room_locks` | 2 connections of 2 users, 1 room, 3 Room objects, fair | `NoLockLeft`, `NoDeadlock`, `ImplementsOps`, `OperationsFinish` |
| `pump` | timeouts in units of 2 s, fair | `TypeOK`, `ResponsivePeerKept`, `EndsInTime`, `GoroutinesEnd` |
| `delivery` | 2 messages, 2 sessions, limit 1, channel of 1, the process may end, fair | `TypeOK`, `AtMostOnce`, `OfflineTakenUp` |
| `history` | 3 messages, 2 authors, limit 2, channel of 2, 2 requests of the viewer | `TypeOK`, `NoDuplicates`, `AuthorsInOrder`, `ViewComplete` |
| `moderation` | 2 users, 2 connections, 2 admin requests, 1 attempt | `TypeOK`, `AdminClaimsCurrent`, `BanReaches`, `BanLasts` |
| `rate_limiter` | 3 requests, window 3, pipelines of up to 1, time up to 4, limits 2, 1, 3, 1 request sent again at a time | `TypeOK`, `LimitEnforced`, `RejectExplained`, `KeysExpire` |
| `lifecycle` | 2 sessions and 1 login of a user, all services, fair | `LCTypeOK`, `MarkerExplained`, `GatewayComesUp`, `StopsEnd` |
| `web_client` | 4 sockets, 3 timers, 2 login requests, 2 attempts, fair | `TypeOK`, `OneConnection`, `QuietAfterLogout`, `NeverStranded`, `HealthyKept`, `Reconnects` |
| `pump_ping` | timeouts in units of 2 s | finds `PingsHarmless` violated |
| `delivery_mark` | limit 1 | finds `MarkedWereFetched` violated |

**What the passing runs show.**

* `NoDanglingClient`: whatever two sessions of the same or of different users do
  between the scan, the leaving of each room and the unregistering, a connection
  that kept one identity is in neither registry when its channel is closed.
  `RoutedToAuthenticated`: also entries that were fetched long ago lead to
  connections that proved the identity. `UnlistedExplained`: a live session is
  missing from the list of online users in one way only, the clean-up of
  another session of the same user. `RegistryStable`: the double check of
  `getOrCreateRoom` and the test in `removeEmptyRoom` do what they are for.
* `ImplementsOps`: what the locks of `room.go` achieve is that every operation looks
  like the steps of `RoomOps`; `removeEmptyRoom` happens at its count.
  `NoLockLeft`: also a panic in the middle of a broadcast leaves no lock behind.
  `NoDeadlock`: no set of handlers waits in a circle for each other, although a clean-up asks
  for one Room after the other while it has the map's lock, and a writer that only waits keeps
  readers out already. `OperationsFinish`: nor does one wait for ever.
* `ResponsivePeerKept`: pings delayed by their own write, pongs behind requests that take all
  the time their timeouts allow, and the phase of the ticker do not add up to the read deadline, as
  long as the inequality of `PumpAssumption` holds; only a call without a timeout can take the
  rest. `GoroutinesEnd`: in particular after
  a panic, which leaves `pingDone` open. `EndsInTime` says when, again but for a call without a
  timeout: what was read ahead, the
  clean-up and the final wait of 12 s bound the handler and the write goroutine, whatever the
  channel still holds; the ping goroutine ends with them, or at its next tick after a panic.
* `AtMostOnce`: duplicates come from racing pulls only, not from failed marks,
  logins in quick succession, the live path or the end of the process.
  `OfflineTakenUp`: what is stored as undelivered does not stay.
* `NoDuplicates`, `AuthorsInOrder`: a join shows each message once and an author's in
  order, although a message may come live and in the history, and saves overtake
  each other; both rest on the order broadcast, stamp, save and on the answer
  going through the same channel as the messages. `ViewComplete`: a member sees all
  messages but those sent before the answer whose save had not landed when the join read the
  history; those older than the limit; those before a join whose query failed or timed out, which
  shows an empty history; those sent while its entry was another session's of its user, deleted by
  one, or in a Room that had been removed; those whose author had such a Room, or panicked in the
  loop; and what a full channel dropped.
* `AdminClaimsCurrent`: the role in a token is a copy, but the only role the middleware
  asks for is one that no code path takes away, so the copy is never wrong.
  `BanReaches`: with old tokens, overlapping bans, unbans and logins, failing
  queries and sessions that delete each other's entries, a banned user keeps a
  registered open session in no other ways than the three the property names.
  `BanLasts`: nothing but an unban or the operator lifts a ban.
* `LimitEnforced`: whatever pipelines in flight do to the set, a client that
  waits for its answers is not admitted above the limit. `RejectExplained`: a
  rejection has the cause the project's README (line 247) states, as many other requests to the
  endpoint within the window, or one of two that it does not: the key shared with the other
  endpoint, and the request's own member of a pipeline sent again. `KeysExpire`:
  a set without an expiry is the trace of a pipeline that broke off.
* `MarkerExplained`: the key without a time to live is not left behind by
  overlapping sessions, logins and restarts, only by the failures it
  names. `GatewayComesUp`, `StopsEnd`: neither process waits for ever for the other,
  at its start or its end, also when the other is stopped meanwhile.
* `OneConnection`, `QuietAfterLogout`, `HealthyKept`: old timers and timeouts, which the page
  does not cancel, neither open a second connection, nor one after a
  logout, nor end one that was accepted (but see below). `NeverStranded`: nor do they
  take the last handler or timer from a page that is logged in; whatever it waits for has a
  timeout or a close event behind it. `Reconnects`: so it connects again.

**What the violations show.**

* `pump_ping`: both goroutines call `WriteMessage`; a ping due during a slow
  write panics in a goroutine without `recover`, which ends the process.
* `delivery_mark`: `UpdateMany` marks messages the `Find` did not return, those
  above the limit or saved in between; they are never delivered.

**Known gaps**, which the properties above are worded around. No run is spent on
them; each follows from the models as they stand.

* A client fetched from the registry may be gone, its channel closed, when a message is
  sent (`clients.go:37`); the panic skips the sender's clean-up (`RoutePanics`,
  `SendTo`). Without a race it follows when a connection authenticates as two users: the
  clean-up removes the second identity only. This is why `NoDanglingClient` speaks of
  connections with one identity.
* The clean-up of an old session deletes the new session's entry
  (`ws_handle.go:363`): the user is connected, not listed, and messages are stored as for
  an offline user. `UnlistedExplained` is this case and no other.
* A join may enter a Room that was removed after it was found (`room.go:84`): two
  users in one room by name do not see each other.
* The registry holds the newest session of a user, so a ban closes that one and
  leaves the user's other device connected (`api.go:294`). The README (line 357)
  says a ban disconnects the user.
* Two pulls return the same messages (`mango.go:140`): `raced` in `AtMostOnce`.
* Logins and registrations share one set per address, with different limits, and the
  user name is no part of the key (`middleware.go:94`): five logins are enough to refuse every
  registration from that address, in contradiction to the README (line 247: login 10, register 5
  per minute) and to the comment at `middleware.go:94` ("IP + username"). It is the second cause of
  `RejectExplained`.
* A pipeline that go-redis sends again after a broken connection (`middleware.go:56`,
  `main.go:128`) counts its own first `ZADD`: such a request is refused with one other fewer before it than the
  limit. It is the third cause of `RejectExplained`.
* The role query and the writes to Redis run on `context.Background()` (`ws_handle.go:173`, `184`,
  `185`, `333`): one that takes long enough drops a peer that answers every ping, and delays the end
  of a lost connection. `stalled` marks it.
* A member's entry in a Room is its user's: a second session that joins the room takes the
  messages from the first, and when it leaves or ends, neither gets any (`room.go:25`, `31`). A member
  whose channel is closed stops a broadcast half-way (`room.go:47`). `ViewComplete` names both.
* A key that expires between a pipeline's ZADD and EXPIRE (`middleware.go:54`) takes that
  request with it, and more than the limit may be admitted: `swept` in `LimitEnforced`.
* Services are tried at the start only (`main.go:74`): a gateway that came up
  without the auth service stays in dev mode, where a token is a user ID.
* After a reconnect the page lists its rooms, but the new session has joined none;
  the attempts are reset when the socket opens, before "auth" is answered (`app.js:126`);
  messages that arrive between `switchRoom` and its answer are shown twice
  (`app.js:346`); a login that is answered while a reconnect timer is pending is
  closed by that timer. `switched` and `crossed` mark these cases.
* A token keeps the role it was made with for a day (`middleware.go:117`). No code path takes the
  role of an admin away, which is `AdminClaimsCurrent`; an operator who demotes or deletes an admin in
  SQL is not modelled (the README has the statement that promotes only) and would break it.
* The ID in a ban request is a string that MySQL converts and the registry compares as it stands
  (`api.go:239`, `294`): written otherwise than the registry has it, a ban closes no session. The model
  writes every ID as the user's own.
* A channel that is closed while `pushUndelivered` sends to it (`ws_handle.go:408`) is a panic that
  loses the rest of the messages and leaves the session's entry. `Delivery` leaves it out: it only
  loses what a full channel may lose as well.
* Messages are acknowledged before they are saved, and a full channel drops one that is stored as
  delivered; the end of the process loses the saves under way.

**Bounds and why they are enough.** Two connections are the smallest number with
a session of the same user beside one's own, and the conflicts above are all
between two. Two users allow a change of identity. Three Room objects are
more than the map and the other handler can refer to when a new one is needed, so
`newRoom` never runs out. `authAttempts` saturates one above the limit, where the code
behaves the same. In `gateway_safe` and `moderation` connections and users are
interchangeable and TLC uses that symmetry; the runs with liveness do not. The theorems need no
bounds. `Pump`'s units of 2 s divide every timeout of the code; `RequestTime` is 3 units, the
3 s of `Validate` and the 3 s of the pull, and what a call without a timeout takes beyond that is
`Stall`, which no constant bounds. A pong may take a unit. `MaxBacklog` bounds the requests ahead of
a pong, because a client that pipelines slow requests can delay its own pong past the deadline, and
its own end (the frames a closed socket still gives); the run has one, and two do not fit in the
inequality of `PumpAssumption` any more (30 + 10 + 2 + 3 * 6 = 60 s). In `Delivery` a limit and a channel of one
make two messages too many. In `Moderation` two users are an admin and a user to ban (or
two admins), two requests are a ban racing a ban or an unban, and the one attempt
per connection is lifted by the theorems, which hold for every `MaxAuthAttempts`.
In `RoomLocks` two handlers have a reader and a writer wait for each other in every
pair of operations, of which a third adds only more waiters; the Room objects are as in
`Gateway`. In `History` three messages are one more than the limit, and two of one author can be
exchanged; two requests are a join and a leave, a second join, or a switch
away and back. A third, for a join after a leave, took six million states, too many to repeat after
every change; the theorems hold for any number of requests. Entries are lost, Rooms removed and
broadcasts panic without a bound.
In `RateLimiter` limits of 1, 2 and 3, in the order of the code's, are reached by three
requests; the clock passes a window with room on both sides, a pipeline may be a third of a
window late (in the code 500 ms of a minute), and a key that saw one request may expire between
the ZADD and the EXPIRE of the next. One request at a time may have been sent again: its own
member is the only one that a second copy adds to what the properties compare. What is left of a
first copy when the second runs is not modelled beyond what it had run before.
In `Lifecycle` two sessions and a login are the three writers of the key. In `WebClient` two logins, one of them answered late, and the connection of a
timer make three sockets, with one more for a connect timeout still pending; the
attempt counter saturates one above the limit, and the sets of sockets and timers bound only
how many are alive at once: sessions, restarts and reconnections repeat without bound.

**Fairness.** Handlers and goroutines that can run do run (weak fairness): the Go
scheduler is preemptive, and no critical section waits for anything but locks.
`ReadError` is strongly fair: a closed socket hands out finitely many buffered
frames and the handler returns to `ReadMessage` after each. In `Pump` the weak
fairness of the writers includes the end of a write, which the write deadline
forces, and of the handler the end of a request, also of its calls without a timeout, which are
assumed to return in the end (the database and Redis answer or their connections break); time goes
on. In `Delivery` the
user logs in again and again, and the store's two operations succeed infinitely often
(strong fairness of `Register`, `Find`, `Mark`): without that nothing can be
promised. In `RoomLocks` a goroutine inside a section goes on (weak fairness), and one
that waits for a lock gets it in the end (strong fairness of `Acquire`): `sync.RWMutex`
queues readers behind waiting writers, and `sync.Mutex` hands the lock over after a
millisecond of waiting. In `Lifecycle` the steps of both `main`s have timeouts and a `Login` has
its deadline (weak fairness); nobody need start, stop or call anything. In
`WebClient` timers fire, close events come, and a server that can be reached accepts
and answers. No fairness is assumed of clients that send requests or of users.

`CHECK_DEADLOCK FALSE`: connections end, the process may die, and all messages
may be sent; these are the states in which the models stop.

## 4. The proofs

Eight modules hold the theorems. They use no bound: sets of connections, users,
messages, requests, sockets may have any size, limits and buffers any value that the
named assumption of the module allows. Each theorem has the form `Spec => []P` or
`Spec => [][A]_vars`, except the refinement; the invariants they rest on were checked by
TLC as well.

**`GatewayProofs`**, from `RoomsAssumption` and `GatewayAssumption` alone (the nil
values are not elements of the sets; at least one attempt):

* `TypeCorrect`: `TypeOK`, which includes that no critical section is entered with a
  nil pointer;
* `RegistryIsStable`: `RegistryStable`;
* `CleanUpComplete`: `NoDanglingClient`;
* `RoutingCorrect`: `RoutedToAuthenticated`;
* `UnlistedHolds`: `UnlistedExplained`.

`NoDanglingClient` is not inductive: it says nothing before the end. `IInv` adds
`MeAuthenticated` (`me` is an identity the connection proved), `CleanUpOnTrack`
(between the scan and the unregistering, every registered Room that has the
connection as a member is still in its list, or is exactly the Room it is
about to leave) and `CleanUpDone` (`NoDanglingClient` from the wait on). The
argument rests on four kinds of lemmas: who writes each shared structure
(`RegistryWriters`, `OnlineWriters`, `MemberWriters`, `IdentityWriters`); that a
step of one handler leaves the locals of the others alone (`OwnStep`); where an
entry comes from (`OnlineSource`, `MemberSource`, `RegisteredMemberSource`: a
member the step did not add was a member of the Room registered before, since new
Rooms are empty); and how a handler enters the clean-up (`IntoCleaning`,
`IntoDone`). Then `OnTrackStep` and `DoneStep` follow: only a connection adds
itself, it does not during its clean-up, and with one identity its entries are
under the key it deletes. `UnlistedInv` extends `UnlistedExplained` to the whole time
between the registration and the handler's own `unregisterOnline`.

**`ModerationProofs`**, from `ModerationAssumption`: `TypeCorrect`,
`AdminClaimsHold` (`AdminClaimsCurrent`), `BanIsEffective` (`BanReaches`) and
`BanIsLasting` (`BanLasts`). `AdminClaimsCurrent` follows from `RoleWriters` (a role that
changes was not "admin") and `TokenWriters` (a new token has the role of this moment).
`BanReaches` needs two more facts in `IInv`: `CheckedMissed`, a connection
between check and registration has missed the ban of its user if there is one, since
its registration puts it in the registry without another look; and `ListedServed`, a
connection that was not accepted yet is in no entry, so accepting it opens no
banned session. `AccountStep`, `SessionStep` and `AdminStep` show the two together
preserved for one user and one connection at a time.

**`RoomLocksProofs`**, from `RoomsAssumption` and the assumption of `RoomLocks`:

* `TypeCorrect`: the types of the locks and locals;
* `LocksReleased`: `NoLockLeft`. `HeldOnly` and `OneRoom` say which locks a handler may hold at
  which of its positions, so that none is left where it stops;
* `DeadlockFree`: `NoDeadlock`. `WaitsFor` has for every handler without a step of its own those
  whose locks or whose place in a queue keep it so. Readers in a section go on
  (`RoomReadersGoOn`, `MapReadersGoOn`); who owns or waits to own a Room's lock waits for its
  readers only (`RoomOwnerWaits`), a scan for such a one (`ScanWaits`), who owns the map's
  for a Room's (`MapOwnerWaits`), everybody else for one of these (`AnyWaits`): every way along
  `WaitsFor` ends after a few handlers at one that can go on;
* `OperationsImplemented`: `ImplementsOps`, the refinement of `RoomOps`. The initial states map
  to each other, and every action to a step of `RoomOps` or to none (`StutterSteps`, `CallMaps`,
  `LookMaps`, `MovingSteps`, `CountMaps`, `ReturningSteps`). Two facts carry it: a handler that
  creates, keeps or deletes an entry has the lock of the map, so nobody sees a Room between its
  count and its delete (`FreeMap`, `SameMap`); and members stay while a broadcast has
  the Room's read lock (`SentToMembers`), so that all its sends are to the members of one moment.

**`DeliveryProofs`**, from `DeliveryAssumption`: `TypeCorrect` and `DeliveredOnce`
(`AtMostOnce`). A message is `Fresh` while no channel has it and the client has not got it. The
invariant says that what was not routed, or waits in the store as undelivered, is fresh
(`WaitingFresh`); that, unless pulls race, one session marks at a time and its finds are still
undelivered (`OneMarks`); that what a session is to push is marked, fresh and held by no other
(`PushedFresh`); and that a message that is not fresh was received once or is in one place
of one channel (`Once`). `FreshUntilSent` finds the two steps that end freshness.

**`HistoryProofs`**, from `HistoryAssumption`: `TypeCorrect`, `ShownOnce`
(`NoDuplicates`), `ShownInOrder` (`AuthorsInOrder`) and `NothingElseMissed`
(`ViewComplete`). The first two share one relation, `Later(x, m)`: m is another message than x
and not an earlier one of x's author. A message in the channel is later than whatever frames
ahead of it show (`ChannelFine`) and than the page it will be added to (`ViewFine`), because it
was new when they were sent (`NewIsLater`); within a history the order is that of the time
stamps, which follow each author's order (`AuthorsTurn`). For `ViewComplete`, `JoinCovered` says
that history and `missed` have everything from the query to the answer, and `ViewCovered` that
the last "joined" on its way, or the page, with the frames behind it, has it from then on. Each
broadcast either reaches the channel or, while the viewer is `Listed` (it joined and did not leave),
adds its message to `missed` (`SendEffect`).

**`RateLimiterProofs`**, from `RateLimiterAssumption` (a pipeline is late by less than a
window): `TypeCorrect`, `SetsExpire` (`KeysExpire`), `RejectsExplained` (`RejectExplained`),
`LimitHolds` (`LimitEnforced`). For rejections: every member was added by a request
(`SetsExplained`), what left the window stays away between the first two commands, since no
pipeline is late enough to bring it back (`Timely`, `Filtered`), so what was counted are other
requests in the window, and of a pipeline sent again its own (`CountExplained`). For the limit:
the member of a finished request is in the set until it has left the window or is swept (`Kept`), hence among what is counted
(`CountComplete`).

**`SessionProofs`**. From `PumpAssumption`, about `Pump`:

* `PumpTypeCorrect`: `TypeOK`;
* `ResponsiveKept`: `ResponsivePeerKept`. `ToPong` is the longest time until the next pong that
  the handler reads, for each position of the three goroutines and of the pong: what is left of
  the ping period or of the write, the way of the pong, and the work on the frames ahead of it.
  `KeptInv` says that it is below the deadline while the peer responds and no call without a
  timeout has held the handler since the last pong (`InTime`), and that the
  ping goroutine runs meanwhile (`Pinging`); the inequality in the assumption is what a
  new round needs after a pong;
* `EndsSoon`: `EndsInTime`. `HandlerLeft` is the longest time the handler still needs.
  `EndInv` says that it fits, together with `gone`, in `EndTime` (`HandlerInTime`, unless
  `stalled`), that the
  write goroutine is over by then as well (`WriterInTime`), and the ping goroutine by then or
  with its next tick (`PingerInTime`); `Ending` has the order in which
  the socket and the two channels are closed.

About `Lifecycle`: `LifecycleTypeCorrect` (`LCTypeOK`) and `MarkerHolds` (`MarkerExplained`), from
who sets the key without a time to live and who deletes it (`MarkerWriters`) and how a session
stops being its holder (`HolderStep`).

**`WebClientProofs`**, from `WebClientAssumption`: `TypeCorrect`, `ConnectionUnique`
(`OneConnection`), `LogoutIsQuiet` (`QuietAfterLogout`), `HealthyHolds` (`HealthyKept`) and
`NotStranded` (`NeverStranded`).
`QuietInv` adds that nobody is logged in and no login is under way; `HealthyInv` that only the
current socket has a close handler (`HandlerOfWs`), an authentication is that of an open socket
(`OpenWhileAuth`), and without a login in between a timer waits only while there is no connection
(`TimerWaits`); `StrandInv` that the current socket keeps its handler until it has ended
(`WsHandled`), that a connecting one has its timeout and an open one was sent "auth"
(`NoneHangs`).

Only model-checked: the liveness properties (`RequestsFinish`, `SessionsEnd`,
`GoroutinesEnd`, `OfflineTakenUp`, `OperationsFinish`, `GatewayComesUp`, `StopsEnd`, `Reconnects`; TLAPS
has no rules for fairness here). For three of them a theorem has the safety half: `EndsSoon` says by
when the goroutines of `GoroutinesEnd` have ended if time goes on, `DeadlockFree` that the
handlers of `OperationsFinish` never block each other, `NotStranded` that the page of
`Reconnects` always has an event to come.

## 5. Not modelled, and the plan

Not modelled: in the web client, rendering, the view of private messages, the list of users,
registration, uploads and the admin page, which are user interface; `OnlineUsers`,
`Health`, `AdminStats` and `AdminUsers`, which only report; `Upload`, which writes a file under a
new name that nothing else touches; the generated gRPC code; SQL migrations, nginx, compose
files and configuration; bcrypt and JWT, which are taken as what they promise.

What is left: a proof that `Gateway` implements `RoomOps`, so that the two refinements meet. It
needs a `RoomOps` in which a connection may change its user, in which the call and the look-up are
one step, as the handlers of `Gateway` have them, and in which a scan may also look at all Rooms at
once; and a record in `Gateway` of whom a broadcast was sent to.
