# legacy_server in TLA+

This directory holds TLA+ models of the servers of this repository, the TLC
runs that check them on small instances, and proofs checked by TLAPS.

## The system

A platform of card and slot games. Its processes, and the parts of each:

| part | code | state it keeps | operations |
|---|---|---|---|
| cache server | `Memcache/Memcache/mem_cache.cpp` | rows of two tables, ids in use, forced values to apply | add, charge, charge everything, set, get, bind an id; eviction; start, stop |
| delayed SQL queue | `dependencies/mysql_wrap_include/db_delay_helper.cpp` | pending statements by key, results | push (newest of a key replaces), select with callback, execute a batch, poll |
| trades | `koko_coordinate/msg_client.cpp`, `koko_coordinate.cpp`, `server_config.h` | `glb_trades`: order, state 0 to 3, value, age | prepare, commit, callback, sweep (drop, time out, refund) |
| item grants | `koko_center/koko_center/common.cpp` | none; a stored procedure | synchronous and asynchronous `update_user_item` |
| reward claims | `koko_coordinate/msg_client.cpp` | mails, present bags, login prizes, daily limits in the database | claim: SELECT on the queue, grant, delayed UPDATE |
| sessions | `koko_coordinate.cpp`, `koko_center/.../koko_socket.cpp`, `player.cpp` | `online_players`, `pending_login_users_`, lost flags | login (loaded by the database thread), relogin, drop, remove |
| channels | `koko_coordinate/game_channel.cpp` | players per channel | join, leave, broadcast |
| private rooms | `koko_coordinate/msg_client.cpp` | rooms per game instance | create, enter, leave, close |
| game server registry | `koko_coordinate.cpp` | registered game servers | register, unregister, drop silent ones |
| lucky dial | `koko_coordinate/msg_client.cpp` | prizes, lucky values and logs in the database | charge a fee, draw, hand out, take back |
| five-second tasks | `task_on_5sec` of `koko_coordinate.cpp` and `koko_center.cpp` | none | relay broadcasts and item changes: select, handle, delete by row id |
| game service | `game_service_base/` | players, its side of the trades, cache client, gifts, the phone-fee match | trade out / in with retries, blocking cache calls, timed states |
| account server | `koko_center/koko_center/` | accounts and `is_online` in the database, who is online and codes in memory | register, log in, hand out a coordinator |

They interact by messages over sockets (game service to cache, to the
coordinator and back), through the database (the coordinator's radio and item
changes) and, inside a process, through two threads: a *main loop* that polls
timers, sockets and results, handles all received messages and then runs its
sweeps, and a *database thread* that takes the whole SQL queue as a batch.
Nothing blocks the main loop except the synchronous calls of the database.

What is hard here: a batch is executed in the order of a hash table; a change
is answered long before it is stored; a SELECT and a change of the same row
overlap; a batch is dropped when the connection is gone; orders live in memory
only; a time-out of two seconds races the commit; retries carry the same order
number. For each part, what makes it correct:

- cache: what it answers is what the database will hold; ids are distinct and
  kept; a clean stop stores everything; every command is answered;
- queue: the newest statement of a key wins; each SELECT's callback runs once;
- trades: no charged amount disappears; what a game pays out is covered by the
  platform; money given back in the game was not also paid in; orders end;
- claims: a reward is granted once; sessions: one player object per user, in
  the channels it joined; the dial: fee and prizes belong together; match: a
  player gets one result each time he sat down; cache client: no gold is made;
  notices: nobody is left with an old amount; accounts: `is_online` is true.

The hazards, each at its line, are in `PROJECT.json` with the properties that
cover them, or the reason why none does.

## Modules

| module | what it is |
|---|---|
| `MemCache` | the cache server with its queue, database thread and clients |
| `AtomicStore` | what the cache promises: a store whose commands take effect at once, and what a crash may take back |
| `MemCacheRefinement` | the mapping from `MemCache` to `AtomicStore` |
| `MCMemCache`, `MCMemCache_*.cfg` | instances of the three for TLC |
| `MemCacheProofs` | their theorems |
| `CacheClient` | game servers that transfer, take and give gold by blocking calls, over `AtomicStore` |
| `MCCacheClient` | its instance |
| `TradeCoord` | the coordinator's two-phase trades, with queue, game server and network |
| `MCTradeCoord`, `MCTradeCoord*.cfg` | its instances |
| `TradeCoordProofs` | its theorems |
| `Rewards` | mails, presents, login prizes, purchases and items of one player, over the delayed queue |
| `MCRewards` | its instance |
| `LuckyDial` | the lucky dial, statement by statement, at several coordinators |
| `MCLuckyDial` | its instance |
| `Session` | logins, relogins, lost connections and channel membership at the coordinator |
| `MCSession` | its instance |
| `Notices` | item changes and broadcasts between servers, over the delayed queue (`MCNotices.cfg`) |
| `Accounts` | logins at the account server and the flag `is_online` (`MCAccounts.cfg`) |
| `TelfeeMatch` | the phone-fee match of a game server (`MCTelfeeMatch.cfg`) |
| `RewardsProofs`, `SessionProofs`, `LuckyDialProofs` | the theorems of the three components |
| `GameServiceProofs` | the theorems of `CacheClient` and `TelfeeMatch` |
| `CenterProofs` | the theorems of `Notices` and `Accounts` |
| `Sums`, `SumTheorems` | the sum over a finite set, which `LuckyDial`, `CacheClient` and `Rewards` count with, and what their proofs need of it |

How they are composed: `CacheClient` contains an instance of `AtomicStore` and
takes its steps, and `MemCache` implements `AtomicStore`: so what is shown of the
game servers over the store holds over the cache, outside of the cells the cache
gives up (`CacheClient` has no loose cell and no command lost to a failed
SELECT of a slave row). `Rewards` has the presents that
`LuckyDial` deals as an action of its environment. `TradeCoord`, `Rewards`,
`Notices` and `Accounts` each contain the delayed SQL queue as they meet it: the
coordinator's statements of other parts only come between theirs.

A proof module extends the modules it is about. Where it has two of them, those
share no names: `TelfeeMatch` has `TelfeeInit`, `TelfeeNext`, `TelfeeSpec`,
`Notices` has `NoticeInit`, `NoticeNext`, `NoticeSpec` and so on for what the
other modules call `Init`, `Next`, `Spec`.

### MemCache and the code

A *key* is one cell: a field of an account's row in the main table or the only
field of a slave row. `cached` is the set of rows in `rows_`, `cell` their
`key_value`; `qSave` is the queue of `push_sql_exe` (one pending save per key,
the newest), `bSave` the batch under execution, `results` the list that `poll`
reads, `img` what a SELECT returned. `HandleHit`, `HandleMiss` and
`HandleLookup` are `handle_msg_cache_cmd` for a row that is held, for one that
is not and for the commands nobody answers; `Add`, `Cost`, `CostAll`, `Set`,
`Get` are `update_table` and `query_table` on one cell including the `will_save`
test; `BindNothing`, `BindGenerated`, `BindChosen` are `handle_bind`; `FillRow`
and `DropResult` the callbacks of `load_row`; `Evict` is `check_timeout`;
`TakeBatch`, `ExecSave`, `ExecLoad` and their failures are `pop_and_execute`,
statement by statement in any order; `FetchForce` and `ApplyReload` are the
forced values; `Stop`, `FinalBatch`, `Halt` are the exit and `clean()`;
`MainFails` is `main`'s handler; `Restart` is `init_from_db` with `init_cache`.

Two history variables name the places where the code itself gives up agreement:
`raced`, the rows for which two SELECTs were outstanding at once, and `drift`,
the keys whose last change never reached the queue (`will_save`), was dropped
with a failed batch, or looks absent because the row was warmed with its gold
only. The properties are stated outside of these, and the violation run
`cache_evict` shows one thing that happens inside.

One action abstracts from time: `Evict` needs a row with nothing queued and no
SELECT under way, where the code waits for two hours without use. A queue that
has not been executed for two hours is outside the model.

### AtomicStore and the refinement

`AtomicStore` has a value per key and one open command per client; `Execute`
does what the command says, at one moment between `Issue` and the answer.
`kept` is the set of values a key may have after a crash: those of its pending
saves and the one in the database. `loose` are keys whose content is anybody's
guess (the `raced` and `drift` of `MemCache`), `blind` the clients whose command
the cache has lost. `mode` tells whether the store answers, finishes, or is
closed; after `Close` a key has its value or, if loose, one it had.

`MemCacheRefinement` maps the cache to it: a key's value is that of its cell, or
else what the database will hold; a command that waits for its SELECT is open.
Loading a row, evicting it, taking and executing a batch are steps that change
nothing a caller sees. The mapping is exact: no history beyond that of
`MemCache` is needed.

### CacheClient and the code

The one thread of a game server is at a `stage` of its `job` and in a `phase` of
the call: `SendCmd` is `do_send_cache_cmd`, `ReadAnswer`, `TimeOut`,
`ClosedMeanwhile` are what `get_cache_result` finds while it polls, `Returns`
what `apply_cost`, `give_currency` and `get_currency` make of the result:
`Repeat` and `GiveUp` are the loop of `give_currency`. `DropLate` is
`handle_no_sync_msg`, `Reconnect` `keep_alive` from the main loop. A job is the
transfer of `msg_trade_gold_req`, a withdrawal or a gift.

What the code does and the properties therefore do not claim: a charge that is
executed but answered late is reported as failed, and the gold is gone;
`give_currency` returns a success whatever became of the addition; its loop
waits for the cache to reconnect (the comment at `mem_cache_helper.h:132` says
so), but only the main loop, which the same thread has left, reconnects, so the
addition is not delivered; a balance that cannot be read is 0. `NoGoldMade`
leaves out a killed cache: it falls back cell by cell, so that the charge of a
transfer may be forgotten and its addition kept.

`absent` is finer than what `AtomicStore` promises, which lets a cell of 0 be
there or not as it likes. A charge of a cell that no row holds is a success that
takes nothing (`update_table`, `mem_cache.cpp:830`), so what matters is that it
never happens to gold that is counted: a cell that once held something stays
present, for its row is kept or is read back from the database with every
column, and a transfer only charges what `get_currency` has just shown. With
a cell that could vanish again, `NoGoldMade` would not hold.

Left out: the asynchronous helpers (their callbacks are looked up by sequence)
and all cells but the gold.

### TelfeeMatch and the code

`state`, `regs`, `seats`, `scores` are `state_`, `registers_`, `init_scores_`,
`vscores_`; `armed` counts the timers of each kind that will fire, for
`current_schedule_.reset` drops a pointer and not the timer, whose handler holds
the task. `EnterRegister`, `EnterStart`, `EnterBalance`, `EnterEnd` are the
functions of these names, called by `Fire...` (the four tasks), `Distribute` and
`MatchEnd` (messages of the coordinator); `Update` is `update` with
`distribute_player_to_match`; the rest are the players' messages.

What the code does beside the properties: an old timer may put a running match
into another state, which ends a match early or balances it again over no
scores; entering a match by `msg_enter_match_game_req` books nothing at the
cashier but counts as a registration, so cancelling gives back a fee nobody
paid; refusing a match loses the fee; the ranking is not sorted (the comment at
`telfee_match.cpp:265` says it should be), and the last prize is never dealt.

### Notices and the code

`amount` is what the player has of an item, `shown` what the client at a server
was last told, `onlineAt` whether it is there. `notes` and `casts` are the rows of `user_item_changes` and
`system_allserver_broadcast` for each server, by id; `stmts` the delayed
statements, `results` those executed. `Change` is `update_user_item_async`,
`ChangeNow` its synchronous form, `Task` a round of `task_on_5sec`, `GotNotes`,
`GotCasts`, `GotAmount` its callbacks, `CenterTask` the account server's form,
which reads and deletes without the queue. An INSERT takes its id before it is
seen (`opening`), so rows may appear out of order; `late` names those. `missed`
names a note or an answer that a fault or a restart took.

Left out: `used_v2_radio`, whose rows are shared by all coordinators without
a `for_server`, so that whoever reads first deletes them for all; new-mail
notices; activities. A horn and the gift of a registration are written without
servers and reach none.

### Accounts and the code

`tasks`, `thread`, `pending`, `online` are `sub_thread_process_msg_lst_`, the
database thread, `pending_login_users_` and `online_players`; `queued` and
`batch` its delayed statements, which here only say that a user is offline.
`Load`, `Hook`, `Enlist` are `handle_user_login` and `handle_token_login`;
`EnterFirst`, `EnterAgain`, `EnterInstead`, `EnterCrash` the branches of
`handle_pending_logins`, the last one its access through two empty pointers;
`Sweep` is `update_players` for one user, `Crash` the loss of the process.
`raced` and `leftover` are histories: users marked offline while a login of
theirs was under way, and users a crash or a failed statement left marked. That the
statement a login executes at once to set the mark fails is not modelled.

What the code does beside the properties: a lost player is to be kept five
seconds, but the stamp they count from is only set at the login; a connection
that logs in as a second user leaves the first one online; `is_register_` is set
after the message is queued, so the database thread may clear it first.

### LuckyDial and the code

`dial` is the request of a user with its local variables; each statement that
`one_lucky_dial` executes is an action (`Read`, `Check`, `Grant`, `Log`, `Mark`,
`Present`), with `Draw` and `DrawTop` for the choice between them, `TakeBack`
and `Refund` for the loop and the return of the fee behind a failed draw. Each
user has a coordinator of his own, for the handler holds the main loop.

What the code does beside the properties: prizes are taken back from `index`
down to 1, so the first prize of a failed request stays while the fee of all is
returned (`DialInv` allows it, and nothing else); a full lucky value ignores the
stock; a failed grant, log or mark is ignored; without the configuration
`serial_lucky_dial` each request returns the fee and keeps its prize (the model
assumes it is there); a number of 0 matches no prize. With every prize at its
limit the draw goes on for ever in the main loop, so `DialEnds` needs a prize
without a limit. A draw that the player's own limits refuse is drawn again,
which is a stutter here. The change of the week is left out.

### TradeCoord and the code

`orders` is `glb_trades`: `state` is `trade_state_`, `value` is `value_`, `old`
is `tc_` beyond two seconds, `cur` is what the high half of the kept message's
`dir_` stands for (`do_trade` clears it), `conn` the connection the prepare came
over. `turn` walks the main loop: `poll` (callbacks), `msgs` (everything picked
up in this round), `sweep`. `PrepareCharge`, `PreparePayIn`, `PrepareKnown`,
`CommitUnknown`, `CommitCharge`, `CommitPayIn` are the branches of
`msg_koko_trade_inout::handle_this`; `CallbackOk`, `CallbackFailed`,
`CallbackOrphan` those of the callback in `do_trade`; `SweepDone`,
`SweepFailed`, `SweepLost` those of the sweep with `do_rollback`; `Crash` is the
loss of the process, where `clean()` executes the queue but never polls.
Three things are external and modelled from their use: the stored procedure
`update_user_item`, the socket to a game server, and the game server's side of
the two phases (`game_service_base` has the older, one-phase side, which counts
its requests in `retry_`; that a message without an answer is sent again,
`GameRepeat`, is an assumption the coordinator's answers for known and for
forgotten numbers make). `Repeated` says which messages are: prepares and
commits.

Ledgers say for every order number what was charged, kept by a commit, given
back, lost and paid in. Three history sets name exceptions: `early` (committed
while the query was still running), `overtaken` (committed and then timed out by
the sweep of the same round, though the game server was told of the success),
`renewed` ("everything" charged again under the same number, after the order was
dropped and the prepare repeated). A fourth, `taken`, counts the commits of a
payment in that were handled from the one that queued it on.

What the code does beside the property `PaidOrGivenBack`: the commit of a payment
in is the message that is never answered, for the sweep of the same round erases
the order (`koko_coordinate.cpp:2157-2190`) and the callback then finds none
(`msg_client.cpp:783-786`). A game server that repeats it is refused
(723-726) and gives the money back, although it is paid in; when the repeated
commit is handled in the same round, the payment is queued twice, the second time
in the currency of the game, because `do_trade` cut the first one out of `dir_`.
Neither needs a crash or a fault: with one payment in, `Repeated = {"commit"}`
and `MaxFaults = 0`, TLC finds both when the condition `taken[sn] <= 1` is left
out. With it, the money of a payment is paid in or given back, never both and
never twice, whatever prepares and commits are repeated.

### Rewards and the code

`db` is the tables: `mail` is `user_mail`, `slave` the player's rows of
`user_mail_slave`, `bag` the state in `user_present_bag`, `sign` the row of
`user_sign_prize`, `num` and `numDay` those of `user_day_buy`, `frames`
`user_head_frame`, `acts` `log_buy_goods_by_activity`, `vipDay` `user_last_login_time`. `calls` holds every request
with its place: its SELECT is in the `queue` or the `batch`, was answered (`got`,
`error`), the transaction waits for its next step (`ready`), or it is `done` or
`lost`; `img` is what the SELECT returned. `queue` and `batch` hold the
statements that change something; `results` is what `poll` reads, in order.

Each handler is a `Start`, the execution of its SELECTs in any order with
everything else in the batch, and its callback as one action: `Detail`,
`DeleteOwn`, `NextSelect` and `DeleteSys`, `DeleteAll`, `AttachOwn` and
`AttachSys`, `Present`, `Sign`, `Serial`, `SignList`, `Buy`, with their refusals
and failures; `BuyByActivity` is a purchase that an activity allows once, by the
log it leaves, but only for what has a price and an item (`Logged`); `Use` and
`Send` are `msg_use_present` (and `msg_transfer_gold_to_game`) and the two
`msg_send_present` messages, whose additions may fail behind a charge; `Arrive`
and `Vip` are what a login starts by itself. `Issue` is the present that the
lucky dial deals again: its handler runs in the main loop and executes the
statement at once, so it falls anywhere, also between the statements of a batch
that the database thread executes. `Applied` says what each delayed statement
makes of the tables, in terms of the tables at that time: a statement is
relative (`num + n`), a `now()` is the date of its execution.

Ledgers count what was handed out; the history `raced` has the rows for which
one request read while another one's change was not yet stored, and the presents
dealt again while the mark of the one handed out was on its way (`BagMarked`;
the mark then takes the new one with it, which is lost), `open` the rewards
handed out whose mark a failure lost, and `late` says that midnight passed
during a request for a login prize. In these cases the code does hand out twice
(two claims of a mail in one batch each pass the test): the properties say that
it does in no other. `TakenOnlyGiven` and `ChargedForGoods` need no such
exception for mails and money. `LimitKept` has one more: what an activity offers
free of charge, or without an item, leaves no row in `log_buy_goods_by_activity`
(`msg_client.cpp:2566`), so the SELECT of 2516 never refuses it and it can be
bought again and again, without any race; without the condition `Logged(g)` TLC
shows two purchases of a free good.

Left out: what the items are (gold, props, items of a duration), which a mail
hands out one by one and a present up to the first failure; the expiry of
presents; presents to oneself, and who may send which items (whether a friend is
found or barred is left open); several units of a head frame or of an activity; mails to everybody are all of the kind that a login copies; a VIP has
tickets to receive.

### Session and the code

`sock` is what a connection is to the code: open, closed, or gone when the last
shared pointer is; `client` is its `the_client_`, `conn` in a player the
`from_socket_`, both weak, so `Client` and `Socket` look whether the other still
exists. `logins`, `loading`, `pending` are `sub_thread_process_msg_lst_`, what
the database thread holds, and `pending_login_users_`; `online` is
`online_players`, `in` a player's `in_channels_` and `room` the `players_` of
each channel with the number of the join (0 after a relogin). `LoginChannel`
is `msg_user_login_channel`; `Load`, `LoadFails` and `Hook` are
`handle_user_login` on the database thread; `FirstLogin`, `RepeatedLogin`,
`Relogin` the branches of `handle_pending_logins`; `Join`, `Leave`,
`StaleLeave` are `player_join` and `player_leave` behind the test of authority
in `handle_player_msgs`; `Close` is `koko_socket::close`; `RemoveLost` is
`update_players` for one player. `the_client_` is written by the database thread
and read by the main loop without a lock; the model takes each access as atomic.

The histories name what the code does not handle. `unhooked`: players that no
connection can report as lost, because it closed while the database thread was
loading (the close finds no player to mark), or because another login over the
same connection was hooked in their place (a repeated login of the online
player does that, and its new object then disappears); they stay online until
they log in again. `early`: users that joined or left between `Hook` and
`handle_pending_logins`, with an object that is not online. `stray`: entries
that a stale leave puts into a channel by looking them up. `answered` is the
player whose login a connection was told of.

Left out: delegated logins, bots, broadcasts, the exact five seconds (the time
stamp is that of the login, so they may be over when the connection is lost),
the dropping of messages beyond 20 of a round. A user on a PC has an uid of its
own (the prefix), so it is another member of `Users`.

## Runs

All runs allow the system to stop (bounded sends and faults), so deadlock is not
checked.

| run | instance | shows |
|---|---|---|
| `cache_gold` | 2 clients, the gold and id of an account, a forced value, 1 fault and a restart | `TypeOK`, `Coherent`, `SoleLoader`, `CleanStopSaves`; `ImplementsStore`: each step is one of `AtomicStore` |
| `cache_bind` | 3 accounts, one with an id, the generator; a stop and a restart; fairness | `DistinctIids`, `IidKept`, `Answered`, `EventuallySaved`, `StopCompletes` |
| `cache_evict` (violation) | a cell charged by half | `EvictedOnlySaved`: evicted without being stored |
| `cache_client` | 2 game servers; a player with 3 gold of which 1 may not be transferred, and one with none; a transfer, two withdrawals and a gift; two jobs, 2 faults of the connection or the cache, one repetition; fairness | `GiftInv`, `NoGoldMade`, `CallReturns` |
| `trade` | a charge of everything from a balance of 3 and a payment in; 1 repeated prepare or commit, 2 faults; fairness | `TypeOK`, `Accounted`, `CreditBacked`, `PaidOrGivenBack`, `OrderSettles`, `Answered` |
| `trade_refund` (violation) | a charge of gold | `RefundSameCurrency`: refunded in the other currency |
| `reward_claims` | a mail with and one without attachments, a stranger's, one to everybody; a present, a good with two prices and a limit of 2, a head frame; another one, a good free of charge and one without an item in activities; an item used, gold sent to a friend; two requests of 25, one fault, one present dealt again, one midnight from a Sunday to a Monday; fairness | `ClaimInv` (types, handed out once, marked only when handed out), `PrizeInv` (login prizes once, none forgotten, none out of the list), `PurchaseInv` (limits kept, money and items accounted for), `StaysDeleted`, `EveryRequestAnswered` |
| `lucky` | 2 users with 2 and 1 to pay with, once or three times, a big prize of which there is one and a small one; lucky value 2, 2 faults; fairness | `DialInv` (types, fee or prizes), `StockKept`, `TopEarned`, `DialEnds` |
| `session` | 2 users, 2 connections, 1 channel, join numbers 0 and 1; 3 logins and 4 messages in all; fairness | `SessionInv` (types, one connection), `ChannelsAgree`, `LostPlayerLeaves`, `LoginEnds` |
| `telfee` | 2 matches, one of which goes round by itself, 2 players, 5 messages; fairness | `FeeInv` (types, a registration used once), `PrizedPerEntry`, `MatchEnds` |
| `notices` | 2 coordinators and the account server, one client; 2 changes, broadcasts or faults; fairness | `ItemInv` (types, a stale client is known), `BroadcastHeard`, `ShownSettles` |
| `accounts` | 1 user, 2 connections, 2 player objects, 4 messages, 1 fault; fairness | `MarkInv` (types, marked if and only if online), `FlagsReleased` |

Bounds and why they are enough. `MaxCalls`, `MaxFaults`, `MaxRestarts`,
`MaxRepeats`, `MaxIssues`, `MaxDays`, `MaxLogins`, `MaxMsgs`, `MaxJobs`,
`MaxTries`, `MaxEvents`, `MaxRounds` and `Money` cap what would otherwise be
unlimited; each is at least as large as the number of such events that the
hazards need together: two overlapping commands, a batch and a newer queue
behind it, one failure in each, a restart after which the row is loaded again;
for the trades two competing orders, one repeated prepare or commit, a broken connection
followed by a failed refund or a crash; for the rewards two requests for the
same row, one behind the other or overlapping, from a state with six days of the
week signed, nine in a row and one serial prize left, so that the ends of a week
and of a cycle are reached; for the dial a request of three draws that fails at
the second while another user takes the last big prize; for the sessions three
logins, so that a relogin meets a connection that another user took over, and a
fourth message for the channels they carry along; for the match one message more
than it takes to register, agree, be sent and be interrupted; for the cache's
clients a fault between the two commands of a transfer and one more; for the
notices a change between the two steps of a round about another one; for the
accounts a relogin over each connection and a third. Amounts are small but
chosen so that the special cases occur: an addition to 0, a charge of half, of
everything, of too much. `Pids` is the number of player objects that exist at a
time: a third one is needed only for a second message of the same connection,
which `is_login_` refuses. Every property has a mutant of the code
(`PROJECT.json`, defined next to the original as "Variant") which its run
reports.

Fairness. Both loops are unconditional: the main loop handles every socket and
polls in each round, the database thread takes whatever is queued. So weak
fairness is assumed for handling, polling, taking a batch, executing a
statement successfully, sweeping, the passing of time, and the game server's
reading of answers; for the sessions for loading and hooking a login, for
`handle_pending_logins` and for the removal of each lost player; for the cache's
clients for the polling of the socket and the end of the five seconds; for the
match for each of its timers; for the notices for the task, the callbacks, and
the writes and the reads of the queue, each by itself, because a batch is all
that waited when it was taken; for the account server as for the sessions, with
strong fairness for the loading of a login, because the thread takes statements
first, but only those that waited; for the dial for the next statement, and
strong fairness for drawing a prize without a limit, because the draws are
random and the limits may refuse others meanwhile. Nothing is assumed of
clients' sends, failures, eviction, closing connections, stops or restarts.

## Proofs

`MemCacheProofs` proves for every set of keys, rows, clients and requests, and
every number of calls, faults and restarts, that `TypeOK`, `Coherent`,
`SoleLoader` and `CleanStopSaves` are invariants. The constants' assumptions are
those of the module: each key belongs to a row, each main row has an id key, the
generator lives in a slave row. `Coherent` is not inductive alone. The inductive
invariant `IInv` adds: a pending save belongs to a cached row (otherwise a SELECT
could read the value before it), an executed SELECT of a row nobody raced for is
still what the database holds, each result in the list belongs to one waiting
command, and a stopped process has nothing queued.

`TradeCoordProofs` proves for every set of trades, amounts and balances, and
every number of repeats and faults, that `TypeOK` and `Accounted` are invariants.
The argument is that a number is never charged twice at a time (`OneCharge`):
while its call or the result of its call is on the way, its order exists, is in
state 0 and holds nothing, and nothing removes an order in state 0 (the sweep
tests for it). So the callback always finds the order and moves exactly the
charged amount into it (`CallsTrue`), and the sweep moves it on into the ledger.
The lemmas about `Append`, `Tail` and `Without` on the list of results carry the
bookkeeping. On top of this stand two more. `CreditCovered` (`CreditBacked`):
an order whose charge is done holds what was charged, no answer names more, and
what a commit confirms is in the ledger or in a committed order (`CreditInv`),
for all numbers outside of the three histories. `PaymentsOnce`
(`PaidOrGivenBack`) assumes nothing of what is repeated. The game server sends
prepares until one is answered and commits after that, so in the socket no prepare
comes behind a commit (`PreparesFirst`). A commit that is refused therefore finds
no order, and none will be made: if none queued the payment before (`taken` is 0),
none ever will. While one commit queued it and no further one was handled (`taken`
is 1), the trade was not refused, and what is paid in and what is queued are the
amount of one payment (`PayInOnce`). What happens after a further commit is the
exception that the property names.

The numeric ids are the last part of `MemCacheProofs`. `IdsDistinct`
(`DistinctIids`) rests on the ids an account has in the database, the batch and
the queue together: each is one that `check_unique` knows or one behind the
generator, and no two accounts share any (`IdsInv`). What is assumed is what the
code relies on: ids are written by BIND alone (the game servers send nothing
else on these keys), chosen ids lie below the generated ones (a hazard of its
own), the ids differ at the first start. And the theorem is about behaviours in
which the generator keeps its count: no two SELECTs of its row race, none of its
saves is dropped, and the process is not killed before one is stored. Each of
the three is needed: with one of them left out TLC finds two accounts with the
same id. Faults elsewhere, warmed rows, other rows raced for and restarts are
all allowed. `IdsKept` (`IidKept`) needs only that once the database has an id
nothing else is under way for it (`OneId`), in behaviours where the cache is
right about the ids it holds; again TLC finds the property violated when a row
is raced for or an id looks absent. In the run `cache_bind` all these conditions
hold throughout.

`MemCacheProofs` also proves that `MemCache` implements `AtomicStore`
(`Implements`), under the mapping of `MemCacheRefinement`: the initial state is
one of the store's, and each step of the cache is a step of the store or changes
nothing a caller sees. It rests on `IInv` and on three small facts: what is
reloaded is what the operator forced, only commands on a cell wait for a SELECT,
and every command is one of the requests. The step of a callback is where
`Coherent` is needed: the row it fills is the one the store already had.

`GameServiceProofs` proves, of `TelfeeMatch`, the types, `FeeInv` (inductive with the types) and
`PrizedPerEntry`. Both count something over matches; the lemmas about
cardinalities say that a registration leaves one side of the count and enters
the other, and that a result takes the player out of the scores.

Of `CacheClient` it proves `GiftInv` and `NoGoldMade` for every set of servers
and accounts, and any jobs, repetitions and faults. `ClientInv` says where the
thread of a server is, that nothing is connected while an addition is repeated,
that sequence numbers last, and that the last command of a server is that of its
stage. `GoldInv` is the balance: the gold in the cells, in additions the cache
has yet to execute and in answers the servers have yet to read, in the hands of
a server about to pay, and taken out, is no more than at the start and given.
Each action moves gold from one of these sums to another, or drops it.

`SumTheorems` has what the other proofs need of a sum over a finite set: that it
is a number, that it changes by what one element changes, that it is monotone.
These are inductions over finite sets. The library's induction theorems take an
operator, which cannot be instantiated here, so the proofs take a set of subsets
instead and its minimal counterexample, by the library's well-founded orderings.

`LuckyDialProofs` proves `DialInv`, `StockKept` and `TopEarned` for every set of
users, prizes, stocks and fees. Inductive are: `ProgressInv`, which relates a
request's phase to what it has drawn, kept and failed; `ValueInv`, that the lucky
value in the table, and the one a request works with, is no more than the draws
since the last top prize; `StockInv`, that while a request has looked at the
stock and not logged its prize, one is left for it.

`SessionProofs` proves `SessionInv` and `ChannelsAgree` for every set of users,
connections, channels and join numbers. `IInv` has the types together with what
makes them inductive: whoever holds a player object holds one that exists
(`HoldersInv`), and a connection points to a player that points back, so only
the close of its own connection marks a player as lost (`HookedInv`). For the
channels it takes in addition that an object on its way from the database
thread to `online_players` is in no channel (`NewcomersOut`), except that of a
user in `early`; without that `FirstLogin` could bring entries nobody's list has.

`RewardsProofs` proves `ClaimInv`, `StaysDeleted`, `PrizeInv` and `PurchaseInv`
for every set of mails, presents, goods, currencies and requests, any length of
a week, any number of faults and midnights. All of them rest on one idea. A
request is *in flight* from its SELECT until its last statement is executed, and
of two requests in flight on one row the row is in `raced` (`Alone`). So for a
row that is not raced, what a request has read is still there when its callback
acts, and a statement it left is the only one. For each kind of row an invariant
says what was handed out in terms of the row and the pending statement:
`MailInv`, `BagInv`, `SysInv`, `VipInv`, `SignInv` (with the days of the week
and `late` for the midnight in between) and `BuyInv`. That the money is
accounted for is another argument: for each currency, what the player has, what
is charged and neither refunded nor served, what was sent and used, and the
price of what was bought add up to what he had at first (`SheetInv`), and each
action moves an amount within this sheet; `SumSplit` and `SumChange` say what
one purchase does to a sum over the goods. This needs no exception for a race.
Assumed of the constants is what the handlers test before anything else (a
request names what exists, one of the four login prizes, one frame or activity:
`About`), that the first row of `user_sign_prize` is one the coordinator could
have written, and that there are finitely many goods and currencies.

`CenterProofs` proves, of `Notices`, `ItemInv` and `BroadcastHeard` for every
set of coordinators and homes and any number of changes, broadcasts, failed
statements and restarts. `StaleIsKnown` speaks of the amount a client shows;
answers that are read and not yet sent may be old as well, and each would make
the client show an old amount when its turn comes. So what is inductive is a
statement about every place in the list (`Known`): behind what is shown (place
0), and behind each answer with an old amount, comes news. The news is a change
whose callback has yet to note it, a note on its way or stored, a statement that
reads the amount, or a later answer that has it (`Settling`). A stored note counts
only when no statement under way deletes it (`Kept`): the callback that queues
such a statement queues the reading of the amount with it, and a statement that
reads puts its answer last. `BroadcastHeard` needs, for the statement that deletes
up to an id, that every row below that id was sent or came late (`Waiting`), and
for the answer it comes from, that it has every row below its greatest id or the
row came late (`Reading`). That an id in the process of being inserted is nobody
else's (`Openings`) is what makes a row that appears in between a late one. The
lemmas about bags say what a statement queued and a statement executed do to the
set of those that wait; `MaxBelow` is the one about the greatest id.

Of `Accounts` it proves `MarkInv` for every set of users, connections and player
objects and any number of messages and faults. Inductive is `AccountsInv`. The
mark belongs to the object: the user of an object that a login by password made
is marked and no statement waits that takes the mark, or he is in `raced`
(`Marks`, about objects still in the thread or in `pending_login_users_` as well
as those online). `GoneUnmarked` says the converse and is inductive with it. Both
rest on `Objects`: an object is held once, by the thread, in the list or as
`online_players` of its own user, none that exists is held by nobody, and no
connection points to one that is gone. So when `update_players` takes a user out
and queues the statement, any other object of that user is about to be entered,
which is the race the history records. `ThreadInv` says that the thread takes a
login only when its statements are done. That `Objects` holds is a result of its
own (`ObjectsAreHeldOnce`): no object is leaked and no pointer dangles.

All invariants and action properties of the passing runs that are not about
liveness are proved, `DistinctIids` and `IidKept` under the conditions named
above. Only model-checked: the liveness properties `Answered`
(cache and trades), `EventuallySaved`, `StopCompletes`, `CallReturns`,
`OrderSettles`, `EveryRequestAnswered`, `LostPlayerLeaves`, `LoginEnds`,
`DialEnds`, `MatchEnds`, `ShownSettles` and `FlagsReleased`, since fairness and
ENABLED are out of the prover's reach here. The inductive invariants above were
first checked by TLC on the runs' instances and on larger ones. The theorems are
about the modules' specifications without fairness, hence about those with it.

## Plan

Done, in the order of their importance: the cache and its proofs; the trades and
theirs; the rewards; the sessions; the store that the cache implements, with the
proof; its clients; the lucky dial; the phone-fee match; the notices; the
account server; and the theorems about each of them.

What is left, in this order:

1. in the account server the registration (database thread) beside the change of
   account data (main loop), both of which look a mobile number up before they
   store it; the bank and presents, chains of two synchronous statements like
   `Use` and `Send` of `Rewards`;
2. logins that another server delegates to the coordinator, and bots.

## Not modelled

- The game service's one-phase trades (`platform_koko.h`): they send
  `msg_koko_trade_inout` without a phase to a world server that is not in the
  repository (the coordinator here reads another format, with two phases); what
  its answers mean would be guessed. What the coordinator assumes of the two-phase
  side is in `TradeCoord`.
- Gift system, private rooms, game server registry: tables that handlers fill
  from a message in one step, without a protocol of several steps or actors; a
  model would repeat their assignments.
- The coordinator's `match.cpp` and the older cache servers are not part of the
  build; `mysql_win_include`, `mysqlwrapped` and the like are third-party code,
  and the larger part of the repository's lines.
- Sockets, logging, hashing, configuration: plumbing without state the properties
  depend on. The socket library itself is not in the repository.
