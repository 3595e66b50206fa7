# J1_Server in TLA+

This directory is a verification development of J1_Server, a C++ game backend of
four servers (login, game, chat, auction) on Boost.Asio, Protocol Buffers and
MySQL. It holds TLA+ modules translated from the source, TLC configurations that
model-check them on small instances, and TLAPS proofs of what matters most for
every size of the instance. `PROJECT.json` lists the components, the runs, which
source lines each definition stands for, the hazards and the theorems.

To check something by hand, in this directory:

    tlc -workers 2 -config AuctionPurchase.cfg MCAuctionPurchase
    tlapm AuctionPurchaseProofs.tla

## 1. The system

### Components

| Component | State it keeps | Operations |
|---|---|---|
| Auction write path (`AuctionService`, the two writing handlers) | tables of listings, characters, transactions, receipts; a connection and its transaction per worker | register, purchase (begin, SELECT FOR UPDATE, charge, take, record, receipts, commit; rollback, retry, restore autocommit, reply) |
| Auction read path | none | list query, receipts query |
| Auction worker pool and `main()` (`AuctionWorkerPool`) | workers with io_context, guard, thread, connection; round-robin turn | Start, PostRead, PostWrite(key), the threads, Stop |
| Auction list cache (`AuctionCache`) | snapshot pointer, packets prepared from it, in-flight flag, request id, dirty flag, two timers | Init, OnConnect, refresh, answer, timeout, MarkDirty, ValidatePurchase, TrySendList |
| Relay and session table (`GameSessionManager`, `AuctionSession`, auction handlers) | session id counter, table, the one link | Register, Unregister, Find, forward, route an answer back |
| `Session` (ServerCore) | closed flag, send queue, writing flag, read buffers; a strand | Start, Send, SendShared, OnWrite, OnHeaderRead, OnBodyRead, Close |
| Packet framing (`PacketUtil`, `Packet.h`) | none; a 16-bit Length and Code before each payload | RequiredSize, Serialize, ParseHeader, Parse |
| `ConnectionPool` | free FIFO, set of borrowed connections | borrow, unborrow |
| Game room, chat room | member map | enter, leave, broadcast |
| Lobby (`LobbyPacketHandler`) | character tables | create, delete, three queries, enter, leave |
| Login server (`SignManager`) | tables account and sessions | check id, sign in, sign up |
| Chat broadcast, accept loops, dispatch tables, object factories, generated protobuf code, packet generators | none of their own | |

### How they interact

Clients talk to the login, game and chat servers over `Session`s. The login
server hands out a token (a row in MySQL); the game server looks it up. The game
server has one main thread for all clients' handlers and one auction thread for
its single `AuctionSession` to the auction server and for the cache's timers; the
two share `GameSessionManager` (a mutex) and the cache's snapshot (a shared_ptr
copied and replaced under a `shared_mutex`). The auction server has one io thread;
every request becomes a task of one of 21 workers, reads for the one reader, writes
by key over the 20 writers (`AuctionServer.cpp:14-15`), and each worker owns one
MySQL connection for its whole life. What the workers share is
the database: row locks, deadlocks and timeouts are how they meet.

### What is hard, and what makes it correct

* **Write path.** Up to 20 workers run multi-statement transactions against rows
  they share, statements throw anywhere, transactions are retried, autocommit is
  switched off and on by hand. Correct: stock, receipts and prices add up
  whatever fails; gold is not created (except by selling at a negative price, which
  registration lets through); what was read under a lock stays true until the end; a lock
  never outlives its transaction; an answer of success is true; purchases of one
  listing are served in order; every purchase is answered; altogether, it behaves
  as an atomic market.
* **Worker pool.** Start can fail half-way, Stop has three phases against running
  threads. Correct: writes of one key are serial and ordered; Stop runs what is
  queued, ends exactly the threads that exist, and returns.
* **Cache.** Answers cross their timeouts, a cancelled timer's handler may already
  be queued, a snapshot is old when it is used. Correct: the loop never dies,
  never asks too often, never takes an old answer for a new one; what it refuses
  the auction server would refuse too, and a listing of a list the cache sent is
  refused as missing only when it is gone, though that list is cut by two limits.
* **Session.** Sends from any thread, completions, errors and overflow meet on the
  strand. Correct: one write at a time, in order, nothing lost while open; the
  read loop neither stops nor forks; a closed session comes to rest; and the
  reader finds the messages one by one in the bytes, which 16-bit lengths allow
  only up to 32767 bytes of payload, and only from a peer that writes true lengths.
* **Relay, room.** Clients leave and others come while answers are on their way;
  any session may name any player. Correct: an answer reaches only who asked; what
  a client was told is what the room holds.
* **Lobby, login.** Several statements per request, exceptions that end the whole
  process, restarts. Correct: a character is whole or absent; an answer is true;
  a request touches only characters of the account it names (that a client names
  its own the code does not check); a token given out works, for its account only.

The hazards in `PROJECT.json` put each of these at the line where it bites.

## 2. The modules

| Module | Models | State and actions against the code |
|---|---|---|
| `AuctionMarket` | abstract: a market with atomic registrations and purchases | `List`, `Buy`, `Ask`, `Answer` promise what a client may rely on |
| `AuctionPurchase` | `AuctionService.cpp`, its handlers, the database as its callers see it | One action per statement of `TryPurchase` (`Begin`, `SelectForUpdate`, `ChargeGold`, `TakeStock`, `RecordTrade`, `GiveReceipts`, `Commit`), `Rollback` (SafeRollback and the catch clause), `RestoreAutoCommit` (SafeRestoreAutoCommit, then retry or reply). `pc[w]`, `cur[w]`, `attempt[w]`, `total[w]`, `seen[w]`, `err[w]`, `ok[w]` are the locals of worker `w`; `charged`, `took`, `logged`, `receipted` are its uncommitted writes; `rows`, `info`, `stock`, `gold`, `trades`, `delivered`, `paid` the committed tables; `listLock`, `goldLock` InnoDB's row locks; `up`, `autocommit` the connection |
| `AuctionWorkerPool` | `AuctionWorkerPool.cpp`, `main()` of the auction server | `Spawn`/`SpawnFails`/`Serve` are Start; `PostRead`/`PostWrite`; `BeginTask`/`EndTask`/`ThreadExits` a worker's thread; `LeaveTry`, `ResetGuard`, `Join`, `Unborrow` the end of main() and Stop() |
| `AuctionCache` | `AuctionCache.cpp` | `OnConnect`, `OnTimer`, `OnRefreshResponse`, `RunTimeout`, `MarkDirty` are its functions; `TimeoutExpires` is the moment a wait can no longer be cancelled; `LoadSnapshot` ... `CallReturns` bracket a main-thread call that uses the snapshot `held`: `Validated` is ValidatePurchase, `TrySendList` sends what `BuildClientPacket` prepared; the auction server's table is the environment. Time is countdowns and ages moved by `Tick` |
| `Packet` | `Packet.h` | operators: `Serialize`, `LengthField` (the size narrowed to a short), `ParseHeader` |
| `OrderedSend` | abstract: an ordered channel that may close | `Accept`, `Write`, `Close` |
| `Session` | `Session.cpp` | `strand` is the FIFO of handlers; `RunEnqueue`, `OnWrite`, `OnHeaderRead`, `OnBodyRead` run its head; `WriteDone`, `WriteFails`, `ReadDone`, `ReadFails` are the socket; a read brings the next message, a header of the peer's own making, or bytes of a payload when an earlier Length was wrong (`framed`, `fits`); `fate` says how the program left run() |
| `AuctionRelay` | `GameSessionManager`, `AuctionSession`, both auction packet handlers of the game server | `Accept`, `Close`, `Forward`, `AnswerFromCache` on the main thread; `OnConnect`, `Refresh`, `LinkWrite`, `LinkLost`, `RelayAnswer` on the auction thread; the auction server answers in any order |
| `Room` | `GameRoom.cpp`, `ChatRoom.cpp` (the same code twice) and their handlers | `Enter`, `Leave`, `Connect`, `Disconnect` |
| `GameServer` | `GameServer.cpp`: the relay and the room over the same sessions | `OnAccept` and `CloseSession` are steps of both components, every other handler of one |
| `LobbyCharacters` | `LobbyPacketHandler.cpp` | One action per statement of the create and delete handlers; `ExceptionEscapes` is what no handler catches: `run()` ends, `main()` returns, `Restart` is a new process |
| `SignIn` | `SignManager.cpp`, the token check of the game server | one action per statement; `InsertToken` and `InsertFails` are turns of the retry loop, and a failed INSERT may have been carried out |

`AuctionPurchase` refines `AuctionMarket`, `Session` refines `OrderedSend`,
`GameServer` composes `AuctionRelay` and `Room`; `AuctionCache` and `Session` use
`Packet`. `MCAuctionPurchase`, `MCAuctionCache` and `MCSession` hold the values of
the structured constants.

What is abstracted: names, item ids, dates, texts of messages and SQL, password
hashing (a nondeterministic verdict), logging. A message is a number, a packet
its kind and its ids. A definition named `X_Something` next to a definition `X`
is a plausible mistake in `X`'s code; the specification never uses it, and each is
used to confirm that a property would notice that mistake.

## 3. The runs

Runs that pass:

| Run (cfg) | What it shows | Bounds |
|---|---|---|
| `purchase` (`AuctionPurchase`) | `StockConserved`, `GoldNeverCreated`, `ReadsStayTrue`, `FailureIsHarmless`, `NoLockLeft`, and `MarketSpec`: the write path implements the atomic market | 2 workers, 2 players, a buyer with two characters, 3 listings, one with a negative price, 2 requests, counts 0 and 2, 2 attempts (2.3 M states) |
| `purchase_answered` (`AuctionAnswered`) | `SuccessIsReal`, `SameListingInOrder`; under fairness `PurchasesAnswered` and `TasksEnd` (a registration whose INSERT throws ends its task too) | 2 workers, 2 players with a character each, 1 listing and a second one that may be registered at price 1 or -1, 2 requests, count 1, 2 attempts (0.18 M states) |
| `worker_pool` (`WorkerPool`) | `SameKeyInOrder`, `SameKeyAlone`, `StopIsClean`, `ConnectionWhileUsed`; under fairness `StopReturns` | 1 reader, 2 writers, 3 keys, 4 tasks, a pool with one connection to spare |
| `cache_refresh` (`CacheRefresh`) | `LoopAlive`, `GapKept`, `OnlyItsOwn`; under fairness `KeepsRefreshing` | gap 1, timeout 2, interval 3; request ids modulo 3; no listings: the loop does not look at them |
| `cache_verdict` (`CacheVerdict`) | `RefusalsAreRight`, `AbsentMeansGone`, `ShownIsThere` | 2 listings of two sellers, the second one's entry too big for a packet, LIMIT 1, client list of 1, quantity up to 2, stale after 1 |
| `session_send` (`SessionSend`) | `SendDiscipline`, `ReadLoop`, `FramingKept`, `ChannelSpec`; under fairness `SentOrClosed`, `ClosedComesToRest` | queue of 2, 5 messages, 3 packets; payloads of 0, 32767, 32768 and 65540 bytes; lengths no SendPacket wrote: -1 and 200 (0.3 M states) |
| `game_server` (`GameServer`) | `AnswersGoHome`, `ToldIsTrue` in the composed server | 2 clients and the cache, 2 requests, 2 players, a 2-bit int |
| `lobby_characters` (`LobbyCharacters`) | `CharactersWhole`, `AnswersAreTrue`, `PooledConnsClean`, `OthersUntouched` | 2 accounts, 3 characters, 2 connections |
| `sign_in` (`SignIn`) | `IssuedTokensWork` | 2 users, 3 tokens |

Runs that show a disagreement between the code and what the repository says of it:

| Run | Statement | What happens |
|---|---|---|
| `purchase_gold` (`AuctionGold`) | the UPDATE deducts the gold of one purchase (`AuctionService.cpp:205`) | it is keyed on account_id: every character of the account that can afford the price pays it (where no account has two, `PurchaseMovesGold` proves the statement) |
| `session_two_writes` (`SessionTwoWrites`) | two async_writes are never under way on one socket (`Session.cpp:84`) | the overflow branch resets `_writing` while a write is under way; the next send starts a second one |
| `sign_up_failed` (`SignInSignUp`) | account id -1 means the sign-up failed (`SignManager.cpp:126`) | the INSERT of a user_id that is taken throws, nothing catches it, the login server ends |

Other disagreements the models contain and no run is about:
registration checks neither the price nor the count a client names
(`AuctionService.cpp:117-126`, `AuctionPacketHandler.cpp:57-71`; both are signed), and
with a negative price the UPDATE under the comment "deduct the gold"
(`AuctionService.cpp:205`) adds gold: `gold >= ?` holds of every character of the
buyer, each is credited, and the seller's receipt is negative (the `purchase` run has
such a listing, and without the condition that none was sold `GoldNeverCreated` fails
in it; the repository has no schema, and a column declared UNSIGNED would refuse the
INSERT);
after the same overflow, the completion of the write that was under way pops from
an empty deque (`Session.cpp:168`; `OnWrite`'s fate "undefined"); listing ids are
drawn before their rows commit, so an id below `maxListId` that a snapshot lacks
may still come up for sale, against the comment at `AuctionCache.cpp:210`
(`AbsentMeansGone` says it only of ids committed when the snapshot was read); a player
whose session disconnected stays in the room and is refused when it comes back
(`GameRoom.cpp:10`); the catch clause for duplicate tokens (`SignManager.cpp:93`)
also catches a lost connection, and the loop turns for ever (`InsertFails`; the
INSERT may have been carried out, and then a row stays whose token nobody was given);
`main()` of the auction server leaves the scope of its io_context before the
workers finish the queued tasks whose replies need it (`AuctionServer.cpp:67-79`);
a payload of more than 32767 bytes is sent with a wrong Length and the reader loses
the framing, or its io thread to a negative size (`Packet.h:28`, `Session.cpp:56`;
`FramingKept` says what holds below that size), and a peer that does not use
`SendPacket` can send a negative Length at any time (`NextHeader`); a list relayed
from the auction server when the cache is stale or its packet is empty
(`AuctionCache.cpp:188-191`) can show a listing younger than the snapshot that
judges its purchase, which is then refused (`ShownIsThere` is about the cache's own
lists).

### Why the bounds are enough

The guards that compare two things have both outcomes within the bounds: a listing
bought in part, whole and beyond; a count of zero and one above it; a price on either
side of zero; gold that suffices for one character, both or none; an empty and a full
send queue; a first attempt and a last one; an id that wraps around and a session id
that turns negative as an int.
Two workers are the least that interleave, and a transaction holds at most two
locks. Every counter that grows has a named bound (`MaxRequests`, `MaxListings`,
`MaxTasks`, `MaxMessages`, `MaxPackets`, `MaxIds`, `MaxAccounts`, `MaxClients`, `AgeCap`).
`CHECK_DEADLOCK FALSE` is set where a bounded run really ends: when the requests,
tasks, messages or clients are used up, or the server has stopped.

### Fairness

Liveness is claimed only under what the code's scheduling gives:

* `AuctionPurchase`: `WF` of each worker's own steps. A worker's thread runs, a
  statement returns or throws, a call on a dead connection throws. Nothing is
  assumed of requests, expiry or failures.
* `AuctionWorkerPool`: `WF(Stop)` (main goes on once it is in Stop) and
  `WF(Thread(w))` (threads are scheduled, tasks end).
* `AuctionCache`: time passes, expired timers run, the auction server gets to each
  request (to answer it or to fail), an answer sent is delivered.
* `Session`: the io thread runs the strand, a write ends or fails, a closed
  socket fails the read under way.

## 4. The proofs

The proofs hold for every value of the constants, under the named assumptions of
the modules (sizes are natural numbers, at least one worker of each kind, the
opening state is well-formed, the characters are finitely many, prices and counts
are integers of either sign; for the relay `MaxClients < 2 * IntLimit`, that is
fewer than 2^32 connections; for the composition, the sessions are the clients).

* `AuctionPurchaseProofs`, first part: `PurchaseTypes`, `PurchaseConservesStock`,
  `PurchaseReadsStayTrue`, `PurchaseLeavesNoLock`. `StockConserved` is not
  inductive alone: that a COMMIT takes exactly what it delivers needs to know that
  the open transaction holds the lock of its listing, that `seen` is still the stock
  and `total` still price times count (`Transactions`), that a worker's task is
  one of the requests (`Tasks`), and that an id drawn and not yet inserted is used
  by nobody (`DrawnIds`). `IInv` is the conjunction of these with `TypeOK`; each
  action preserves it, one lemma per group of actions. Counts and prices may have any
  sign, so that a COMMIT delivers something needs one more fact: a purchase past the
  first check of `TryPurchase` asks for one or more (`Counted`). The effect of making a
  transaction durable is one lemma (`PersistPurchase`), cited by Commit and by a
  connection that dies during its COMMIT.
* `AuctionPurchaseProofs`, second part: `PurchaseSuccessIsReal`,
  `PurchaseFailureIsHarmless`, `PurchaseSameListingInOrder` and
  `PurchaseImplementsMarket`. On top of `IInv`, `AnswersInv` follows every request:
  it waits in the queue its key picks, behind earlier ones (`Routes`); what took
  effect or was answered has left that queue, answers in order (`Past`); at each step
  of a worker it is known whether its request took effect and which checks it has
  passed (`Effect`); every answer given is still true (`Verdict`). The simulation then
  maps Commit, and a connection lost with its COMMIT carried out, to `Buy`, the
  INSERT to `List`, the two replies to `Answer`, an arrival to `Ask`, and every other
  step to a stutter.
* `AuctionPurchaseProofs`, third part, sums: `PurchaseNeverCreatesGold`,
  `PurchaseMovesGold`, `PurchaseDeliversOnce`. A sum over a set is the library's fold,
  defined by recursion, and what is needed of it (`SumUnfolds`, `SumTakesOut`,
  `SumIsMonotone` and the like) is an induction over the set. It is made in the form
  the provers take: the subsets of a finite set on which a claim fails have a smallest
  one, by the well-foundedness of the subset order (`SmallestSet`), and that one leads
  to a contradiction. The theorems then follow from the simulation: only the market's
  `Buy` moves gold or delivers. `PurchaseNeverCreatesGold` has the condition of its
  property: nothing was sold from a listing with a negative price. It is needed:
  such a sale credits every character of the buyer and is owed by the seller once. `PurchaseMovesGold` has a hypothesis, that no account
  has two characters, and so says exactly where the `purchase_gold` finding begins.
* `AuctionPurchaseProofs`, locks and ranks: `PurchaseLeavesNoLock` needs, besides
  `IInv`, that the gold lock is the last one taken (`GoldLast`); from the same two
  follows `PurchasesNeverDeadlock`: no set of workers each of which waits for a row
  lock of another one in it. The model locks all character rows of an account at once
  and has no gap or index locks, so the deadlock errors it still lets statements raise
  stand for those. `PurchaseRetriesEnd` gives each running task a number of steps
  left, at most nine per attempt, that each step of its worker lowers and nothing
  raises; `PurchaseNeverForgotten` says that a purchase is queued or run until it is
  answered. Together they leave to fairness only that a worker takes its next step.
* `AuctionWorkerPoolProofs`: `PoolTypes`, `PoolKeepsOrder`, `PoolRunsKeyAlone`,
  `PoolStopIsClean`, `PoolConnectionWhileUsed`. The invariant says that a write
  sits only in the queue its key picks, that queues are increasing, that what
  finished or runs is before what is queued, and for each phase of Stop which
  workers it has passed. `PoolStopRunsOut` counts what is left to do once main() is in
  Stop: each step of Stop and of a thread lowers its count, nothing raises one any
  more, and the worker Stop joins has ended or can go on.
* `AuctionCacheProofs`, the loop: `CacheTypes`, `CacheLoopAlive`, `CacheGapKept`,
  `CacheOnlyItsOwn`. A timer is armed exactly while it has time left, none is while a
  request is in flight, and the timeouts that may still fire are older than the
  request they would end. The verdicts: `CacheRefusalsAreRight`,
  `CacheAbsentMeansGone`, `CacheShownIsThere`. A snapshot, published, answered or
  held, never lists less than is left of a listing it knew, a listing only goes from
  unused to drawn, listed and gone, and what the cache sent was in a snapshot.
* `SessionProofs`: `SessionTypes`, `SessionSendDiscipline`, `SessionReadLoop`,
  `SessionFramingKept`, and `SessionImplementsChannel`: a completed write is the
  channel's `Write`, an accepted message its `Accept`. `SendInv` ties the queue, the
  writing flag and the handlers on the strand to one write at the socket, `ReadInv`
  counts the one read under way, `FrameInv` says that the reader is at the beginning
  of a message as long as every header was one `SendPacket` wrote for a size below 32768.
* `AuctionRelayProofs`: `RelayTypes`, `RelayAnswersGoHome`. Ids in use are
  below the counter and never shared; every request on its way carries its
  maker's id; narrowing to int gives that id or an unknown one (`NarrowMisses`).
* `GameServerProofs`: for the room, `RoomTypes` and `RoomToldIsTrue` (a session never
  accepted is nobody's and was told nothing); for the composition, `ServerIsRelay` and
  `ServerIsRoom` (it implements each component, step by step), and `ServerTypes` and
  `ServerKeepsPromises`, which follow from them and the components' theorems.
* `LobbyCharactersProofs`: `LobbyTypes`, `LobbyCharactersWhole`,
  `LobbyAnswersAreTrue`, `LobbyPooledConnsClean`, `LobbyOthersUntouched`. The tables
  differ only inside the open transaction, by the statements already run; a rollback
  goes back to `start`; a connection is in the pool or borrowed, never both.
* `SignInProofs`: `SignInTypes`, `SignInIssuedTokensWork`. A token given out is a row
  that stays, no two rows share one, and the loop ends only after its INSERT.

Only model-checked: liveness, and with it anything about ENABLED. Every invariant
and every action property of the passing runs is proved, and three theorems hold the
part of liveness that is safety: what the workers' fairness is needed for is only that
they take steps, not that the steps lead to an end (`PurchaseRetriesEnd`,
`PurchaseNeverForgotten`, `PoolStopRunsOut`).

## 5. What is not modelled, and why

* Generated protobuf code (46,000 of the repository's 50,000 lines of C++), the packet
  generators (build-time Python), the dispatch
  tables (filled once, no state), object factories: no behaviour of their own.
* Chat broadcast: sends to every member and changes nothing; what a send does is
  in `Session`. Accept loops re-arm themselves; an accepted session is
  `Accept`, `Connect` and `OnAccept`.
* `GetReceipts` and the query of a player's own listings read what purchases wrote
  and change no state; what becomes of a reply too long for a packet is in `Session`.
* The cache's hit counters and its pooled buffer: statistics and memory reuse.
* `PacketUtil::Parse`, which hands the body to protobuf.
* The replies of tasks that finish after the sessions' io_context is gone
  (`AuctionServer.cpp:78`): the pool is modelled to the end of Stop, the sessions not.
* `ConnectionPool` beyond what its callers use: the replacement of connections
  dropped by an exception. No caller in the repository borrows again after dropping one.
* The width of a purchase's total: price times count is an exact integer in the
  model, an int64 in the code (`AuctionService.cpp:199`). A total that wraps below zero
  would act like a negative price. Which prices and counts the tables can hold the
  repository does not say.
* Requests the handlers drop at their first line (a registration or purchase without
  its item, a creation that holds not exactly one character, a deletion that names no
  account or character): they borrow, write and answer nothing.
* Whether a client is the account it names: the handlers take the id from the request.
* `MarkDirty` is modelled although nothing in the repository calls it yet.

## 6. State of the project

The components of section 1 that keep state are modelled, each checked by at least
one run, and every safety property of the runs is proved. The order in which
they were taken is the order of their weight in the code: the purchase and its
abstract market, the worker pool, the cache, the session and its channel, the relay,
the room, the lobby and sign-in, the composition of the game server, the framing.

What would extend it:

* A composition of the game server with the auction server's write path, so that a
  client's answer is followed from the worker's commit through the relay. Today the
  two meet at an interface both sides state: `AuctionRelay` allows the auction server
  any order of answers, `AuctionPurchase` shows which answers it gives.
* `ConnectionPool` as a component of its own, if a caller appears that borrows after
  dropping a connection.
* What becomes of replies once the auction server's io_context is destroyed.
