# A formal model of GachaMind

GachaMind is a drawing-and-guessing game played in the browser: a room of
players, one of whom draws a secret word while the others guess it in the chat.
Rooms live in the memory of *game-session* shards; a matchmaking service, Redis,
a message queue, a user service with a Postgres database and a WebSocket gateway
surround them. This directory holds TLA+ modules of the parts in which the order
of events decides what happens, the TLC configurations that check them on small
instances, and TLAPS proofs of the central invariants. Paths below are relative
to `src/`.

Run from this directory:

    tlasany Room.tla                                   # parse
    tlc -workers 2 -config MCRoomGame.cfg MCRoom       # model-check
    tlapm Room_proofs.tla                              # check the proofs

`PROJECT.json` lists components, runs, the source lines of each definition, the
hazards, the findings and the theorems.

## 1. The system

| Part | State it keeps | Operations | Talks to |
|---|---|---|---|
| Room game engine (`apps/game-session/src/{room,game,words}.ts`) | per room: players and scores, phase, game id, round, drawer, word, round clock, strokes, who solved, queue of drawers, used words, one timer | join, leave, start-game, guess, draw, clear, two timers | its sockets; the result publisher |
| Connections and joins (`apps/game-session/src/index.ts`, `auth.ts`) | per socket: identity promise, joining flag, joined room; the map of rooms; the `alive` set of the ping | connection, message, close, ping/pong, shutdown | the room; Redis (`isRoomAssignedHere`); nobody for the identity: the token in the cookie is verified locally |
| Room projection and placement (`occupancy.ts`, `matchmaking.ts`, `apps/matchmaking`) | Redis: `room:<code>`, `rooms:joinable`, `session:<shard>`, with expiry | assign, look up, list, room closed; load report, snapshot, heartbeat | shards and matchmaking only meet in Redis, plus a DELETE callback |
| Task protection (`protection.ts`) | when protection was last confirmed | sync on every join, leave and heartbeat | the ECS agent (PUT) |
| Result publisher (`events.ts`) | connection/channel promise | `publishGameEvent` (not awaited) | RabbitMQ |
| Results worker (`apps/results-worker`) | the channel, one unacked message | consume, deliver, ack/nack, stop; connecting is retried at the start, a lost connection ends the process | RabbitMQ; user service (HTTP) |
| Game history (`apps/user/src/history`) | tables `games`, `game_players`, `user_stats` | `saveGameResult`; pages, profile, leaderboard | Postgres |
| Accounts and sessions (`apps/user/src/auth`, `user`) | users, session token | sign up, log in, `me` | Postgres |
| Gateway (`apps/gs-gateway`) | per browser connection: lookup, upstream, relay | upgrade, relay, errors, timeouts | Redis; shards |
| Web room client (`apps/web/src/features/room`) | status, view of the room, canvas, the socket of the hook's effect, the points of a stroke | connect, a handler per message, pointer events, frames | gateway/shard (WebSocket), BFF (HTTP) |
| Web pages and BFF (`apps/web/src/app`) | per page: lists, cursors, requests under way | navigation, lobby buttons, pages of the history, ranking; forwarding routes | matchmaking, user service |
| Shared protocol (`packages/shared`) | none | message types, keys, limits, room codes | everybody |
| Infrastructure (`infra`, Docker files) | declarative | provisioning | — |

### What is hard about it, and what must hold

*Inside a room* a Node process runs one handler at a time, so the difficulty is
not preemption but the order in which joins, answers, departures and two timers
arrive. Each can end a round or a game, through a single timer slot. It must
hold that a game never gets stuck, that nobody draws twice and nobody who waits
is forgotten, that a round nobody can solve is over, and that each ended game is
published exactly once under its own id.

*Around a room* `handleJoin` awaits twice (identity, assignment). The socket may
close, the room may fill, vanish or appear meanwhile. Room membership must agree
with the live connections, rooms must neither leak nor overfill.

*Between processes* there is no transaction: Redis keys expire, callbacks are
fire-and-forget, shards crash. A room must live on one shard; dead shards and
abandoned codes must be forgotten; living rooms must be found again.

*Results* travel at least once: lost acknowledgements, timeouts with the request
still running, two workers, deadlocking transactions. They must count at most
once in the totals, and a result the broker has must not be lost.

*The browser* gets changes, not states, and may join in the middle. When it has
read everything it must show the room as it is, and the word must be on the
drawer's screen only. Pages are left while their requests are under way: an
answer must not be shown under another heading, and a room that was left must
not keep a seat. A stroke is cut into batches by animation frames and must
arrive whole.

*The gateway* joins two sockets that can each fail, end or stay half open at any
moment. Neither half may outlive the other, and what is relayed stays in order.

The list of hazards with their lines and the properties that watch them is in
`PROJECT.json`.

## 2. The modules

| Module | Models | Extends / uses |
|---|---|---|
| `Turns` | abstract specification of a game: who is queued, which timer moves it on, how it ends | |
| `Room` | one room: `room.ts`, `game.ts`, `words.ts` and the room part of `index.ts`; implements `Turns` | `Turns` by `INSTANCE` |
| `RoomClient` | a browser in a room, composed with `Room` through two FIFO channels | `Room` |
| `Connections` | sockets, `handleJoin` across its awaits, `RoomManager`, the ping heartbeat | |
| `Placement` | matchmaking, shards, their projection in Redis, shutdown and crash | |
| `Protection` | `syncTaskProtection` and the ECS agent | |
| `Recording` | abstract specification: a result is added to the totals at most once, wholly or not at all | |
| `Results` | publisher, queue, workers, the saving transaction; implements `Recording` | `Recording` by `INSTANCE` |
| `Gateway` | the WebSocket gateway: upgrade, lookup, connection to the shard, relay | |
| `History` | the tables of the history, the upsert of `user_stats`, the queries of pages and rankings | |
| `HistoryPages` | the profile and ranking pages with their requests under way | `History` |
| `Visits` | lobby, navigation, the effect of `useRoomSocket` over its life | `HistoryPages` |
| `Drawing` | the canvas: from pointer events to batches | |
| `Tab` | one browser tab: the pages, the room and the canvas together | `Visits`, `Drawing` |
| `MCRoom`, `MCRoomClient`, `MCConnections`, `MCPlacement`, `MCResults`, `MCTab` | values, symmetry and views for TLC | the module of that name |
| `Room_proofs`, `Connections_proofs`, `Protection_proofs`, `Placement_proofs`, `Results_proofs`, `Gateway_proofs`, `Tab_proofs` | theorems | the module of that name, `TLAPS` |
| `RoomClient_proofs` | theorems | `RoomClient`, `Room_proofs` |

Each variable carries the name of the field it stands for where there is one, and
each action the name of the handler or the part of it. Operators whose name ends
in `_Faulty` are *not* part of any model. Each is its namesake with a plausible
mistake (a dropped guard, a missing reset, a value read too late); replacing the
operator by it makes the property named in `PROJECT.json` under `mutants` fail,
which shows that the property is sensitive to that code.

### Room

`room.ts`'s fields are variables of the same name. `solvedPlayerIds` is `solved`,
the `Map` of players is the set `players` with the function `score`, and
`roundTimer` says which of the two callbacks the one timer slot holds. One action
per handler: `Join`, `StartGame`, `CorrectGuess`, `Draw`, `DrawClear`, `Leave`,
`RoundTimeout`, `IntermissionTimeout`. What handlers call is part of the action:
`startRound`, `endRound` and `endGame` are the operators `StartRound`, `EndRound`
and `EndGame`, which the actions conjoin; an operator called after an assignment
of its caller reads the primed variable, as the code reads the assigned field.
`Leave` is `handleClose`, written as four cases according to what
`handlePlayerLeftDuringGame` and `removeIfEmpty` do: `LeaveIdleRoom`,
`LeaveTooFew`, `LeaveRound`, `LeaveLast`. After the last one left, a code names a
new `Room`, so the variables of the room are reset.

Abstractions: the text of a chat line (an answer is right or it is not; every
other line changes nothing), the shuffle (any order), `pickWord` (any unused
word), the remaining time of an answer (any value up to the round's length), the
value of the clock (set or not), the points and the colour of a stroke (a `Mark`,
what it looks like). History variables, which no step reads: `results` (published events),
`reveals` (the `round-ended` broadcasts), `drawn`, `gone`, and `games`, which
is also the source of game ids.

### Turns

What a room promises about turns, with the players, the drawer, the queue and the
armed timer as its only variables. Whether a departure leaves nobody to guess is
a choice here, because who has solved the word is not kept. `Room` implements it
(`ImplementsTurns`, checked by `room_game` and proved); the liveness of games is
stated and checked here, because it is about players who come and go for ever. In
the code each join makes a new id, and `Room` keeps that: an id joins once, so a
finite instance of `Room` runs out of newcomers. In `Turns` an id that has left may
join again and stands for another newcomer, so five ids give any number of joins.
`arming` changes with every intermission timer that is armed, which tells a timer
that is cleared and armed again from one that has been pending all the time.

### RoomClient

Each server action is an action of `Room` with what it sends to one player `Me`;
each browser action is one case of `onmessage`, an open or close event, or a
drawing command of the page. `inbox` and `outbox` are the WebSocket in its two
directions: ordered, arbitrarily slow, cut off at any point by
`ConnectionEnds` (a suffix of the inbox is lost). The browser sends strokes and
clears whether or not earlier ones have arrived. What a handler broadcasts is
determined in the operators `Outcome` and `Broadcast` from what the handler did.
The protocol types of the shared package (`ServerToClientMessage`, `GameState`)
are sets that `ClientTypeOK` checks the channels and the view against.
A stroke is the same mark in the browser, in its messages and in the replay buffer:
`handleDraw` clamps points, colour and width to limits that what `DrawCanvas`
produces does not exceed. `SendStroke` asks for the permission of the view; that
the rendered page lags behind the view is in `Drawing`. The chat lines on screen
and the pixels are left out.

### Connections

`conn` follows `readyState` between an open socket and its close event, with
`closing` in between, because handlers run in that gap. `stage` says which await
a `handleJoin` is at; the two continuations are `IdentityKnown` and
`AssignmentKnown`, each with every outcome of the code. `state.joining` is
`stage # "idle"`. A silent peer (`PeerVanishes`) can only be removed by
`Heartbeat`. Codes appear in two spellings and `Normal` is `normalizeRoomCode`,
of which only idempotence is assumed. `UnreadableCookie` is a handshake whose cookie
`decodeURIComponent` does not accept: the promise of its identity rejects with no
handler attached, for which Node ends the process (section 4), so every connection,
join and room of the shard is gone. A join that waits for a rejected promise does
not occur: the rejection is reported before any message of the connection is
handled.

### Placement

`hash[c]` is `room:<code>` with the ticks until it expires, `joinable` the set
`rooms:joinable`, `session[s]` the load key. A tick is one heartbeat interval, and
keys live for `Ttl` ticks (2 in the runs, 3 in the code; fewer ticks of slack is the
harder case). A tick waits for the heartbeats of the shards that run and for
nothing else: requests, joins that await the check, prunings and the DELETE
callbacks of emptied rooms may stay under way across any number of ticks, in which
leases expire. `/assign` takes the steps `PickShard`, `ClaimCode` (HSETNX and EXPIRE
NX, contested by other requests; a code may be drawn again whenever its record is
gone), `Reserve`. Which of the acceptable shards `pickShardForNewRoom` prefers is
abstracted to any that reports.

One Redis pipeline is one step. `Report` is what a handler writes, the snapshots of
its rooms and the load, each of which may fail: it is then logged and not repeated,
as in `syncOccupancy` and `publishSessionLoad`. The heartbeat writes the same way,
so a heartbeat can be lost as well; it may come at any time and any number of times
in a tick, and so covers the snapshots with which a game starts and ends. `loose`
is a history: the codes whose record went while the room was in use, or that
somebody was let into without a check because Redis had failed.

### Protection

Three places for concurrent PUTs, applied by the agent and answered in any order.
A tick is a fraction of the refresh time; every tick sees a heartbeat.

### Results and Recording

`publishGameEvent`, `openChannel` and the loss of the connection on the
publisher's side; the broker's queue with unacked messages put back at the head;
two workers with prefetch 1; and inside the user service the transaction of
`saveGameResult` statement by statement: INSERT with ON CONFLICT DO NOTHING,
which waits for an uncommitted row of the same id, one upsert per player row
with its row lock, commit or rollback, and Postgres breaking a wait cycle. A
worker that gives up on a request leaves it running as an orphan. RabbitMQ,
Postgres and ECS are not under `src/`; of them the model has what the code
relies on.

### Gateway

`handler[c]` is how far `handleUpgrade` is for a connection; `socket` and
`upstream` are its two sockets, `browser` the other end. Frames are numbered by
their sender, so the order and the completeness of what arrives can be read off
`toShard` and `toBrowser`; 0 stands for the upgrade request that
`serializeRequest` writes, and the status of an answer for what `reject` writes.
`CloseBoth` is the pair of "close" handlers: `destroy()` inside the first queues the
"close" event of the other socket before anything else the model tells apart, so
the pair is one step. Three facts about Node decide what
happens: the sockets of an HTTP server stay half open after the peer's FIN, so a
browser that finishes is only noticed by `pipe`, which ends the shard's socket
(`BrowserEnd`); a socket made by `connect()` answers a FIN and closes; and an
"error" event without a listener ends the process, which is the case for a
browser that resets during the lookup (`BrowserResets`, `ProcessEnds`). `Stop`
and `Exit` are SIGTERM with the `redis.quit()` in between.

### History, HistoryPages

`stats[u]` is the row of `user_stats`, and `SaveGameResult` folds the upsert over
the players of an event in one transaction, in any order of games; that this
happens at most once and wholly is what `Results` shows. Games are numbered in
the order of their ids and have a `FinishedAt` that two can share. `ListGames` is
the keyset query with its `LIMIT + 1`, `Top` and `RankOf` the two queries of the
ranking with their different ways to a rank, `Aggregate` the `SELECT` of the
migration that computed the first totals.

A request of a page is served from the tables at one step and arrives at a later
one, after other saves, answers or clicks. A click and the effects of the render it causes
are one step: React runs the effects of a discrete event before the browser paints
or takes the next event. `run` numbers the runs of the
effects of the ranking page, which is what their `cancelled` flags tell apart.
`profile.first` and `ranking.since` are histories of what had been saved when the
page asked.

`PlayerType` and `StatsType` are a player of an event and a row of `user_stats`;
names are any set `Name`, since only their equality matters. Where an `ORDER BY`
leaves the order of rows open (two rows of one member in one game), `InOrder`
allows every order.

### Visits, Drawing, Tab

`runs` are the runs of the effect in `useRoomSocket` that have not come to their
end: looking up the shard, then the states of their socket. Leaving a room runs
the clean-up (`CleanedUp`). The page of another code is a new page with a
`socketRef` of its own. `Assigned` is the answer to a request of the lobby, which
leads to the room also when the lobby was left meanwhile.

The points of a stroke are numbered, so `buffer` and each batch are intervals.
`mayDraw` is the permission the hook has and `canDraw` the one the page was
rendered with: pointer events see the latter, `Render` is the effect that drops a
stroke. `Tab` composes the pages, visits and the canvas: a room page that is left
takes its canvas with it, in the middle of a stroke perhaps.

## 3. The runs

| Run | Instance | States | Shows |
|---|---|---|---|
| `room_game` | 4 ids, room for 3, 2 words, `MAX_ROUNDS` 3, up to 2 games, 1 buffered stroke | 2.3 M | `GameNeverStuck`, `RoundFieldsAgree`, `OpenRoundHasGuesser`, `TurnsAreUnique`, `TurnsAreComplete`, `EveryGamePublishedOnce`, `ResultsAreMeaningful`, `FinishedRoundsRevealed`, `StrokesOfThisRound`; steps: `NoRoundSkipsIntermission`, `GameEndsAfterEveryTurn`; `ImplementsTurns` (refinement of `Turns`) |
| `turns` | 5 ids that may return as newcomers, room for 4, `MAX_ROUNDS` 3 | 2.1 k | under fairness `GameEnds`, `QueuedPlayerDraws` |
| `room_round_ends_twice` | 3 ids | — | violates `EachRoundEndsOnce` (finding 1) |
| `room_rounds_beyond_max` | 3 ids, `MAX_ROUNDS` 2 | — | violates `RoundsWithinMaximum` (finding 2) |
| `room_client` | 4 ids of which one is the browser, room for 3, 2 games, `MAX_ROUNDS` 1, strokes of 2 looks of which 1 is buffered, 2 commands under way | 2.3 M | `ClientTypeOK`, `ViewAgrees`, `RoundSecretsAgree`, `CanvasAgrees` |
| `connections` | 3 sockets, two spellings of a code, room for 2 | 110 k | `MembershipAgrees`, `RoomsAreSound`; under fairness `JoinIsAnswered`, `SilentPeersLeave` |
| `placement` | 2 shards, 1 code, 2 requests that contest it, 1 fault | 1.9 M | `SplitNeedsLoss` |
| `placement_live` | 1 shard, 1 code, 1 request, 2 faults | 160 k | under fairness `DeadShardsAreForgotten`, `UnusedCodesAreFreed`, `LiveRoomsAreProjected` |
| `protection` | up to 2 rooms, 3 PUTs at a time, 1 failure | 9 k | step: `NeverExpiresInUse`; under fairness `ProtectionFollowsRooms` |
| `results` | 4 games, 2 members, 2 workers, 1 fault | 28 k | `NoResultVanishes`; `RecordedAtMostOnce` (refinement of `Recording`); under fairness `QueuedIsSettled` |
| `gateway` | 2 browser connections, up to 2 frames each way | 100 k | `NoHalfRelay`, `RelayedInOrder`; under fairness `UpgradeSettles`, `AbandonedRelaysEnd` |
| `tab` | 1 tab, 2 members, 3 games, 2 room codes, 2 runs of the effect, strokes of 3 points | 272 k | `StatsMatchGames`, `ListIsWhole`, `RankingIsCurrent`, `OneSeatPerTab`, `EveryPointIsSent` |

What each property says is stated above its definition.

### Bounds, and why they are enough

* **Players.** An id joins once (a new UUID per join), so four ids in a room for
  three give newcomers, a full room, a replacement and three players at once. A
  departure can hit a drawer, a solver and an unsolved guesser with somebody left
  of another role. `MinPlayersToStart` is 2 as in the code.
* **`GameBound`** caps games per room (2, so a room plays on after a finished
  game, with used words and the queue reset). `Turns` has no such bound: its
  behaviours are infinite, with any number of games, joins and departures.
* **`MaxRounds`** is 3 in `room_game`. A game of two is below it
  and a newcomer brings it up to it, so that neither `TurnsAreComplete` nor
  `GameEndsAfterEveryTurn` is excused by the cut; a game of three, or a second
  newcomer, reaches and passes it. It is 2 in `room_rounds_beyond_max`, where three ids
  are enough to pass it, and 1 in `room_client`, where it always cuts the queue at the
  start and newcomers bring the later rounds, each with another drawer.
* **`InboxBound`** (0 in `room_client`) lets the server act only when the browser has
  read what earlier handlers sent; what one handler sends (up to four messages) is still
  read one by one. The browser is not held back: its strokes, clears and joins and the
  ends of its connection come between any two messages. Unread messages of several
  handlers would be read in the same order, and the view depends on nothing but that
  order; the theorems show the properties for every bound. **`OutboxBound`** (2) caps
  the commands under way: a stroke behind a stroke, a stroke behind a clear and a clear
  behind a stroke occur. **`CanvasBound`** (2) caps strokes on the canvas, one more than
  the server buffers.
* **`Mark`** has two members in `room_client`, so a lost, repeated or reordered stroke
  of a round is seen.
* **`MaxRooms`, `MaxFaults`, `Refresh`** in `Protection`: one room more than
  needed to see the count change without a change of the wish; one failed PUT
  (the code promises to tolerate one); refresh in 3 ticks.
* **`FaultBound`** counts connection losses, timeouts, crashes and 5xx answers in
  `Results`; in `Placement` crashes, lost calls and handlers that lose some of their
  writes. It is finite because with faults for ever nothing is promised.
* **`MaxBegun`** caps how many requests, joins and departures begin in one tick
  of `Placement`: without a cap infinitely many would fit into one tick and the
  clock would never move. What has begun stays under way as long as it likes, so two
  per tick (`placement`) still let two assignments contest a code
  while a join is between its check and its entry. **`MaxNotices`** (1) caps the DELETE
  callbacks under way for one code.
* One code is enough in `Placement`: codes do not interact, and the contested cases
  are two requests or two shards for the same one.

* **`MaxFrames`** (2) in `Gateway`: one frame that comes with the upgrade request
  and one after it, so that order and loss can be seen. The connections share only
  the process, so two are enough for one to be cut off by the other.
* **`PageSize`** (2) and **`Limit`** (1) in `tab`: member 1 has four rows of the
  three games, two of them of game 3. In the order of the list its rows are those of
  game 2, then of game 3 twice, then of game 1, so the first page ends inside game 3
  when all are saved, and between two games of the same millisecond when game 2 is
  late; the ranking is cut off. **`MaxClicks`** (1):
  one choice of a sort or reload per visit, with both requests of the first run
  still under way. **`MaxAssigns`** (1) and two places for runs: a late answer of
  the lobby while one room is shown and another is being left.
  **`MaxPoints`** (3): a click, a stroke that one batch holds, and one in
  several batches.

Symmetry: in `room_game` over players and words, in `room_client` over the other
players and over marks, in `tab` over room codes and over runs, in
`placement` over shards, requests and clients. All are only compared for equality, the `CHOOSE` in `Without` has
a single candidate, and none of these runs has a liveness property. `room_client` uses
a `VIEW` without the histories `results`, `reveals` and `drawn`: no guard and none
of its properties reads them, and what a step sends depends only on whether the
step makes them longer.

Deadlock is not checked where the model really ends: a room whose ids are used up
(`Room`, `RoomClient`), all games settled (`Results`).

### Fairness

* `Turns`: an armed Node timer fires unless it is cleared, and nothing obliges a
  player to do anything. A round clock is one timer until its round is over, so
  `RoundOver` is weakly fair. An intermission timer that a departure clears and arms
  anew is another timer: weak fairness is on the pair of `IntermissionOver` and the
  present value of `arming`, which a re-arming changes, so nothing has to fire when
  departures restart the intermission for ever. What the code cannot promise is
  therefore a premise of the property: `GameEnds` presumes that from some time on
  nobody joins (newcomers who keep coming extend a game for ever, `index.ts:122`),
  `QueuedPlayerDraws` that from some time on no departure restarts an intermission
  (`game.ts:223`). `Room` has no liveness property of its own: that it implements
  `Turns` is a statement about steps, and the two timers of `Turns` are its two
  callbacks.
* `Connections`: the ping interval runs, the runtime delivers the close event of a
  closing socket, and a promise that a join awaits settles. `isRoomAssignedHere`
  never rejects: it answers true when Redis fails. The identity's promise is either
  fulfilled or rejected at once, in which case its process ends.
* `Placement`: time passes, a running shard's heartbeat comes before the next tick
  (its writes may be lost, up to `FaultBound`), and requests, joins, prunings and
  callbacks under way end, no matter when. No fairness is assumed of clients.
* `Protection`: time passes, the heartbeat comes in every tick, calls under way end.
* `Gateway`: Redis answers or the client gives up, the time-out fires, `pipe`
  moves what has arrived and passes an end on, and a shard (`ws`) answers the end
  of its connection with its own. Nothing is assumed of browsers, nor that a shard
  accepts a connection.
* `Results`: processes that run go on. `SF` for the delivery of a message and for
  the next upsert of a transaction: a message put back waits `REQUEUE_DELAY_MS`
  before it is back at the head, so that the worker which is free meanwhile takes
  what is behind it, and Postgres gives a freed row lock to the transaction that
  waits for it. The strong fairness on delivery presumes that this pause is longer
  than it takes another worker to finish; with one worker it would buy nothing.

## 4. Findings

1. **A round can end twice** (`game.ts:223`, run `room_round_ends_twice`).
   `handlePlayerLeftDuringGame` does not ask whether a round is running. In an
   intermission after everybody solved the word, a departure ends the same round
   again: a second `round-ended` with an empty word replaces the answer on screen
   and the intermission starts over. Departures less than `ROUND_INTERMISSION_MS`
   apart, with newcomers in between, postpone the next round as long as they go on.
2. **A game can have more than `MAX_ROUNDS` rounds** (`index.ts:122`, run
   `room_rounds_beyond_max`). `startGame` cuts the queue at `MAX_ROUNDS`, and each
   newcomer is queued behind it without another look. The shared package calls the
   value the greatest number of rounds of a game.

Four more disagreements between the code and its comments were found with TLC while
modelling. They have no run of their own; the model has the steps that lead to them.

* **A room can live on two shards** (`index.ts:254`; `occupancy.ts:87` says that
  splitting a room over two tasks is prevented). A room that empties and is entered
  again can lose its new record to the DELETE of its first emptying. If its code is
  drawn again before the next heartbeat, it gets assigned to another shard.
  `SplitNeedsLoss` says that nothing but such a loss, or a check that could not be
  made, leads there: the loss is the exception in it, not a case that is left out.
* **A reservation can be listed** (`matchmaking/src/index.ts:168`; lines 179 and 219
  say that only rooms somebody has entered are). A record that expires leaves its code
  in `rooms:joinable`. Somebody who enters a room after its shard has sent the closing
  notices leaves such a code behind when the shard exits; so does a crash. If the code
  is drawn again before a reader prunes it, the lobby lists a room that nobody has
  entered. No property claims the contrary; `LiveRoomsAreProjected` is about the rooms
  that should be in the set, not about those that should not.
* **A stopped shard can stay a candidate** (`game-session/src/index.ts:306`;
  `occupancy.ts:75` says that it drops out immediately). The heartbeat and the handlers
  of open connections publish the load again after `clearSessionLoad`; new rooms are
  then placed on a shard that is gone until the key expires. `DeadShardsAreForgotten`
  says only that they are forgotten in the end.
* **A cookie that cannot be decoded ends the shard** (`auth.ts:33`; the comment at line
  30 promises a guest). `readCookie` is called before the `try`, so the identity's
  promise rejects while nobody waits for it. `UnreadableCookie` is that step;
  `JoinIsAnswered` counts the connections it takes along as closed.

Further observations, also without a run. Most contradict no document or heal by
themselves; where a comment says otherwise, its line is given:

* PUTs of `protection.ts` may be applied or answered out of order, which can leave
  a shard with rooms unprotected until the next refresh or departure
  (`ProtectionFollowsRooms` says only that protection comes back).
* A browser whose join is refused shows "disconnected" in the end: the close event
  overwrites the status `room-full` or `not-found` (`useRoomSocket.ts:269`).
* `"game-started"` carries no players, so the scores of the last game stay on
  screen until the first answer (an exception in `ViewAgrees`); a stroke that
  is on its way when a game ends counts in the next one if the same player opens it
  (the exception in `CanvasAgrees`).
* With a single results worker a result that cannot be saved blocks those behind
  it: the nack puts it back at the head and prefetch 1 takes it again
  (`results-worker/src/index.ts:109`; the comment at line 118 has prefetch keep a
  failed message from blocking the others). With a second worker they get
  through (`QueuedIsSettled`).
* The gateway answers an error of the shard's side with an HTTP response even
  when the relay of frames is established (`gs-gateway/src/index.ts:76`; the comment at
  line 10 has the gateway pass frames on without parsing them); it is the last thing the browser reads (`RelayedInOrder`).
* A browser that resets its connection while its shard is being looked up ends
  the gateway process and with it every relay: the "error" listener is attached
  only at line 78 (`ProcessEnds`). When a shard ends its connection, `socket.destroy()`
  at line 80 may drop what the browser's socket still buffers.
* Pages of a member's history continue after (time, id) of the last row. A member
  who played one game from two tabs has two such rows, and when a page ends
  between them the second is not shown; no *game* is passed over
  (`history.service.ts:117`, `ListIsWhole`).
* An error of a later page replaces the list on the profile page, and the button
  for more is gone until the page is opened again.
* The canvas keeps one buffer for all pointers: two fingers draw one zigzag line.
  The model has one pointer. The server cuts a batch at `MAX_STROKE_POINTS`.
* An answer to a request of the lobby that comes late takes the tab from whatever
  page it shows by then into the room (`lobby/page.tsx:72`).

## 5. What is proved

Thirty-eight theorems are listed in `PROJECT.json`; each holds for every value of
the constants that satisfies the named assumptions. Where a
theorem states the property of a run, the run checks it on its small instance.

**`Room_proofs`** (any number of players and words, any capacity and scoring
rules): `TypeCorrect`, `NeverStuck`, `FieldsAgree`, `OpenRounds`,
`UniqueTurns`, `PublishedOnce`, `MeaningfulResults`, each
`Spec => []` the invariant of the same meaning that `room_game` checks.
Assumptions: `NullAssumption` (null is no player, word or number),
`WordAssumption` (there is a word), `RulesAssumption` (the limits are natural
numbers, `MinPlayersToStart` at least 2, `MaxRounds` and `RoundDuration` not 0).

The invariants are not inductive one by one. That a round is only open with a
guesser needs the drawer to be in the room, which needs the queue to hold only
players of the room; that `endGame` publishes once needs the game id to be set
exactly while playing; that nobody is queued twice needs the order the
game starts with to be injective. The inductive invariant `IInv` is therefore the
conjunction of the six safety properties, `TypeOK`, the fact that `drawn` holds
only players of the room, and `RoundCounted` (a running game has started at least
one round). One lemma per action proves that it is preserved, with a step per
conjunct that the action can disturb; lemmas about `Without` (it keeps the
queue injective and removes exactly one player), `DrawOrders` and
`AnswerScore` are stated once and cited by name.

On top of `IInv` stands a second inductive invariant, `Course`, about what has
happened in the game so far. It gives `CompleteTurns` (`[]TurnsAreComplete`),
`RoundStrokes` (`[]StrokesOfThisRound`) and `RoundsRevealed`
(`[]FinishedRoundsRevealed`). The last is the reason for a
strengthening: `FinishedRoundsRevealed` counts the broadcasts of a round, and
`RevealedOnce` says the same without a count, together with the fact that no
broadcast is about a round that is yet to come; without it the next round
could begin with a broadcast already made. `TurnsAreComplete` is inductive next to
`IInv` while the game is below `MaxRounds` in its announced and in its queued rounds:
who has not drawn is queued, and a
queue that is not cut names everybody (`EverybodyQueued`, by counting: an injection
into a finite set of the same size is onto). `SolversArePresent` and
`FirstGameIsFresh` are there for the browser, below. The two action properties
follow from `IInv` alone: `Intermissions` (`Spec => NoRoundSkipsIntermission`)
and `EndsAfterEveryTurn` (`Spec => GameEndsAfterEveryTurn`).

`TakesTurns` (`Spec => ImplementsTurns`) is the refinement of `Turns`. Each handler is
one action of `Turns` or a step it does not see (answers that leave somebody to
guess, strokes, a departure without effect on turns is `LeaveGame` with nothing else
changed). It rests on `IInv`: that a room plays exactly while a timer is armed maps
the phase to the timer; that the queue holds only players of the room makes the
head of a queue that is not empty a drawer; and that a playing room has enough players
is why the size checks of `endRound` and its callback never decide.

**`RoomClient_proofs`** (any players, words, marks and rules; any bounds on the messages
and commands under way, of which the proof uses nothing but that they are numbers): `ImplementsRoom` (`ClientSpec => Spec`: together with the channels and
the browser the room does nothing module `Room` does not allow, so each theorem
above also holds there), `ClientTypes`, `ViewIsTheRoom` (`[]ViewAgrees`),
`SecretsAgree` (`[]RoundSecretsAgree`) and `CanvasIsTheRoom` (`[]CanvasAgrees`).
The added assumption is that the browser is a player (`MeAssumption`).

The three properties speak of a browser that has read everything. None is
inductive: the messages carry changes, so what the browser will show
depends on the view it has and on everything unread. The inductive invariant
`CInv` therefore *reads ahead*: there is a sequence of views, the first being the
present one, each next one what the handler makes of the next unread message, and
the last `Agrees` with the room (`Sees`). A server action appends messages and
views at the end, and a browser action drops the first. The canvas
needs more, because the page paints on it without being told to. Of
a viewer (`Viewer`) there is a point among the unread messages, the last that wipes
or replaces the canvas, from which on the strokes that come are the room's.
The drawer (`Drawer`) either has a `draw-clear` ahead and has painted
nothing yet (`Waits`), or paints alone (`Paints`): there is a sequence of canvases
that begins with one that shows what a newcomer would be replayed, in which each
command on its way makes the next out of the one before, and which ends with
the canvas on screen. The commands are any number of strokes and clears in any order,
and the server takes them in that order. `Connection` ties membership to
the socket. That nobody who enters has solved the round uses
`SolversArePresent`, and that a stale scoreboard can only be that of an
earlier game uses `FirstGameIsFresh`. Because the chain of views is
quantified existentially and named by the step before it, no recursion is needed.

**`Connections_proofs`**: `TypeCorrect`, `Membership`, `SoundRooms`.
Assumptions: finitely many sockets, `normalizeRoomCode` is idempotent, the
capacity is positive, null is no code. The strengthening is `JoinsPending`: a
connection that is in the middle of a join is not a member of any room and
its wanted code is set and normalized. It is what the flag `state.joining`
provides, and without it `handleJoin` could add a connection to a second room
after its await. A process that ends on an unreadable cookie leaves the empty
initial state (`ProcessEnds`).

**`Results_proofs`** (any games, rosters, workers, requests and numbers of
faults): `TypeCorrect`, `NothingVanishes` (`[]NoResultVanishes`) and
`ImplementsRecording` (`Spec => RecordedAtMostOnce`, the refinement of
`Recording`).
* Nothing vanishes because of `Waited` and `Told`: a worker without a message
  holds none; a request somebody waits for is about the message its worker holds,
  and each worker waits for one; and an answer after which the message is acked
  is true: the game is saved, or was refused for its form.
* The refinement rests on `Booked`: of the open transactions no two insert the
  same game or hold the same row of `user_stats` (`Apart`: the INSERT and the row
  locks wait), and what a transaction has written of a member's row is the
  committed row plus the member's seats among the players it has gone through
  (`Ledger`, with `RowsTo` counting them). A commit is then one `Record` step of
  the abstract specification, and no other step touches the tables.

**`Protection_proofs`**: `TypeCorrect`, and `NeverExpires`:
`EnoughTime /\ Spec => NeverExpiresInUse`. `EnoughTime` (`Refresh >= MaxFaults + 2`)
says that what is left of the protection when its refresh is due is more beats than
there are failing PUTs. In the code a beat takes 20 s and the refresh is due after
30 of the 60 minutes, which leaves 90 beats for failures. The invariant follows
the two clocks: the process never takes its protection for younger than it is
(`KnowsItsAge`), a PUT that was applied was so in the present tick
(`AppliedNow`), and after the refresh is due each tick that ends without a
success has seen a failure of its own (`LateByFailures`).

**`Placement_proofs`** (any shards, codes, requests, clients and bounds):
`TypeCorrect`, and `SplitByLossOnly` (`[]SplitNeedsLoss`), without a condition on faults,
delays or the reuse of codes. The invariant `Recorded` says that a shard which has
players in a room, or somebody about to enter it after the check, is the one its
record names, unless the record was lost while the room was in use (`Lively`,
`loose`). Two shards with one room would both be named. A record only changes its
shard by `HSETNX` on a record that is gone, by a snapshot of a shard where somebody is
in the room or was when the handler began, by expiry, or by a DELETE; the last two
are what `loose` remembers. That such a loss happens without any fault is in section 4.

**`Gateway_proofs`** (any number of connections and frames): `Halves`, `InOrder`.
`Stages` ties the two sockets to how far the handler is, `Early` says that
nothing is relayed before the relay begins, and `Ordered` is `RelayedInOrder` of
one connection. `Stages` must know that the shard's socket is ended only after
the browser has finished: a browser that could still send would break the claim
that everything was passed on before the end.

**`Tab_proofs`** (strokes of any length; any number of rooms, runs of the effect
and requests): of the canvas by itself `CanvasTypes` and `AllSent`
(`CanvasSpec => []EveryPointIsSent`), of the whole tab `OneSeat`
(`[]OneSeatPerTab`), `CanvasInTab` and `AllSentInTab`. `StrokeState` says that
`drawingRef`, the buffer and `flushedRef` go along with the stroke: drawing exactly
while it is begun, the buffer empty otherwise, flushed exactly when a batch has
been sent. `OneSeat` needs that at most one run of the effect has not been
cleaned up (`OneLive`): else a lookup that comes to its end could take `socketRef`
away from an open socket. `CanvasInTab` shows that the tab implements
`CanvasSpec`, so that `AllSent` carries over.

The rest of `Tab_proofs` is about the history (any games, rosters, members, guests
and page sizes): `TotalsAgree` (`[]StatsMatchGames`), `ListStaysWhole`
(`[]ListIsWhole`) and `RankingStaysCurrent` (`[]RankingIsCurrent`). Assumptions:
finitely many games were there before the totals, an event has a time, a name, a
score that is not negative and a rank from 1 (`EventsAssumption`), a missing row is no
row (`NullAssumption`), ids are ordered (`IdsAssumption`), a page has a row
(`LimitsAssumption`).

* *Totals.* `Ledger` says that every row of `user_stats` matches the rows of its
  member in `game_players`: their number, sums, greatest score and time, and the
  name of one of the latest. To be able to reason about the sums at all, a sum of
  numbers `g[x]` is shown to be the number of pairs of an `x` and a unit of it
  (`Units`, `SumIsCount`), and the folds of the model are unfolded and followed
  seat by seat (`FoldExists`, `LoopMatches`). Where one would use induction, the
  proofs take a smallest counterexample: a strict subset of a finite set cannot
  be taken for ever (`LeastSet`, from the well-foundedness the library states). The
  upsert is an `INSERT` for the first row and an update for the others;
  `UpsertMatches` covers both, `AggregateMatches` does so for the migration.
* *The pages.* `Mounted` says whose state and requests there are on which page.
  `Standings` carries, for the ranking page and each of its answers under way that
  is not cancelled, a set of games that explains it: one that contains what was
  saved when the latest run of the effects began. `TopIsRanking` and `RankOfIsPlace`
  show that both queries give the ranking, although one takes the rank from the
  place of the first equal value and the other counts greater ones (`FirstPlace`: in
  a descending list the two agree). `SortExists` and `FirstExists` are why there is
  such a list.
* *The list.* `Reading` says that each game of the first read which is not listed
  comes after the last line, and that more is under way or can be asked for, or an
  error is shown. It must follow the request too: its cursor is the last line, and
  its answer is a page after that line (`PageAfter`), which still holds of the games
  of the first read when others have come in since. `AppendOrdered` puts the page
  behind the list. Two rows of one member in one game are the reason why all this
  is about games: neither of them comes before the other (`PlaceOrder`), so a cursor
  between them passes over the second.

TLC checked `Mounted`, `Standings` and `Reading` as invariants of the instance of
`tab` before they were proved.

Only model-checked: every liveness property (fairness and `ENABLED` are outside the
prover's reach). Every invariant and action property of the runs is a theorem. The
type invariants are theorems; only that of `RoomClient` is also repeated in a
run. `HistoryPages`, `Visits` and `Tab` state none of their own beyond what
`OneSeat` and the proofs about the history need (`RunsTyped`, `Ledger`,
`RankingShown`, `GamesShown`).

## 6. What is not modelled

* Accounts and sessions: each request is one database statement and cryptography,
  and a token needs no server-side state. The one race, two sign-ups for a name, is
  decided by the unique index; the loser gets an unexpected error instead of the
  message (`auth.service.ts:39`).
* The start page, the sign-in forms and the list of rooms in the lobby; chat lines
  and pixels; styling.
* The scoring of candidate shards in `binpack`: replaced by any acceptable shard.
* What the supervisor of a shard does after its process ended by a rejected promise:
  `UnreadableCookie` goes to the empty initial state, that of the next process.
* Redis writes that its client holds back while the connection is away and sends
  later (`occupancy.ts:45`): a write takes effect when it is issued, or it is lost.
  Nor is the phase in a room's snapshot, which only the lobby shows.
* Old code that runs on the new schema while the migration of the totals is being
  rolled out, which `migrations/1789200001000-HistoryLookup.ts:8` allows: what it saves
  never reaches `user_stats`. The model has the migration and the new code as one step.
* Graceful shutdown of a shard is in `Placement`, not in `Connections`.
* Strings: room codes, nicknames, answers and their normalization are compared for
  equality only.
* Provisioning and start-up configuration: no state whose order matters.

## 7. Possible extensions

The core, the surroundings and the browser are covered. What could be added: the
choice among shards (`binpack`) against a reference definition, and a browser that
connects through `Gateway` to `Connections` in one model.
