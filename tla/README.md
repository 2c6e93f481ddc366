# A verification of the mmotee server

mmotee is a role-playing game server in C and C++ on the Teeworlds engine. One
process runs several worlds (maps) in one game thread; players connect over UDP;
accounts, items, mail and clans live in a MySQL database that detached threads
read and write. This directory holds TLA+ models of the parts whose correctness
depends on what happens in which order, the TLC configurations that check them
on small instances, and proofs, checked by TLAPS, of the results that matter
most. Paths below are relative to `src/src/`.

Run `tlc -config X.cfg M` for the runs of the table below, and
`tlapm` on the eight modules named `..Proofs` for the proofs.

## 1. The system

### 1.1 Parts, their state and their operations

| Part | Code | State it keeps | Operations |
|---|---|---|---|
| Reliable connection | `engine/shared/network_conn.cpp`, `network.cpp` | connection state, sequence and acknowledgement numbers mod 1024, resend buffer (32 KB ring), packet under construction, timers; chunks of the last packet not yet fetched | Connect, DirectInit, QueueChunk, Flush, Feed, Update, Disconnect, FetchChunk |
| Server and client sockets | `engine/shared/network_server.cpp`, `network_client.cpp` | 64 slots with a connection each, recent connections per address, security token seeds | Recv, Send, Update, Drop, TryAcceptClient, rejoin |
| Server core | `engine/server/server.cpp`, `server.h` | per slot: EMPTY/AUTH/CONNECTING/READY/INGAME, name, map, session (`m_UserID`, `m_LogInstance`), account data, cached inventory, snapshots and acknowledged tick | NewClient, Rejoin and DelClient callbacks, packet handlers, DoSnapshot, map change, start of database jobs |
| Database jobs | `engine/server/sql_jobs.h`, `sql_job.cpp`, `sql_connector.cpp`, `sql_server.cpp` | one lock per database server; each job's own copy of its arguments; the tables | about 35 jobs: login, register, inventory, items, mail, clans, statistics, online list |
| Commands from jobs | `server.cpp`, `sql_jobs.h` | list of commands under a lock | AddGameServerCmd by jobs, execution by the game thread each tick |
| Job pool, host lookup | `engine/shared/jobs.cpp`, `engine.cpp`, `masterserver.cpp` | linked queue under a lock, status and result per job | Add, WorkerThread; RefreshAddresses and Update poll the results |
| Registration | `engine/server/register.cpp` | state START .. REGISTERED/ERROR, chosen master, counts, times | RegisterUpdate each tick, RegisterProcessPacket |
| Master server | `mastersrv/mastersrv.cpp` | listed servers, servers being checked, bans | heartbeat, firewall probes, list packets, purge |
| World | `game/server/gamecontext.cpp`, `gameworld.cpp`, `player.cpp`, `entities/` | players, characters, entity lists, boss and arena timers, votes and menus | OnTick, OnMessage, BossTick, AreaTick, Start/EnterBoss, Start/EnterArea, UseItem, CreateItem, BuyItem |
| Bans | `engine/shared/netban.h`, `netdatabase.h` | pool of 1024 nodes: hash chains, list by expiry, free list | BanAddr, UnbanByAddr, Update, IsBanned |
| Snapshots | `engine/shared/snapshot.cpp`, `engine/server/snap_id_pool.cpp` | stored snapshots per client; ids free, used or timed | builder, CreateDelta/UnpackDelta, storage Add/PurgeUntil/Get, NewId/FreeId |
| Ring buffer | `engine/shared/ringbuffer.cpp` | chain of blocks, produce and consume pointers | Allocate, PopFirst, First, Next |
| Remote console | `engine/shared/econ.cpp`, `network_console.cpp` | console clients, authentication tries | accept, authenticate, drop, ban |
| Packing | `engine/shared/packer.cpp`, `compression.cpp`, `huffman.cpp` | none | variable-length integers, strings, Huffman codes |
| The rest | physics, characters, console, maps, storage, demo, platform, localization, tools, generated protocol | | not candidates, see `components` in PROJECT.json |

### 1.2 How they interact

The game thread runs everything but the jobs. Each turn it pumps the network
(`CNetServer::Update`, then `Recv` until it is empty, each packet fed to the
connection of its slot and its chunks handed to `CServer::ProcessClientPacket`),
ticks the worlds and, under the command lock, executes what jobs have queued for
it. Chat commands start database jobs with `new CSqlJob_..` and `Start`, which
detaches a thread; that thread waits for the lock of its database server, runs
its statements **and writes the client's slot directly**, without any lock the
game thread would take. In between the game thread may have dropped the client,
given the slot to another one, or reset its session. The job pool's one worker
looks up the names of master servers for the registration. A drop is a call chain
too: `CNetServer::Drop` first calls `DelClientCallback`, which tells every world
and clears the slot, and then disconnects.

### 1.3 What is hard, and what makes each part correct

- **Connection**: lost, repeated and reordered packets; sequence numbers that wrap; a
  full buffer; one end gone while the other does not know. *Correct when* every
  vital chunk arrives once, in order, and, if both ends stay, at all; nothing
  still needed is discarded; a vanished peer is noticed.
- **Sessions and accounts**: jobs that run long after they were asked for, on slots
  that meanwhile changed hands; statements that fail half way; a table without unique
  keys. *Correct when* an account is in one session at most, names are unique,
  every job ends and frees the database, a player with the right password gets in.
- **Inventory**: the slot's cache decides between INSERT and UPDATE, in a thread that runs long
  after the request. *Correct when* cache and table agree whenever no job is pending and an item
  changes the account it was meant for. Nothing in the code guards either (see section 5).
- **Job pool**: linked list and polling without the lock. *Correct when* each job runs
  once, in order of arrival, is not added again before it is done, and the
  poller only reads finished results.
- **Slots**: three parts of the program keep a state each for the same slot, and give it up one
  after the other; handshakes that are repeated or late. *Correct when* the three agree, a client
  (address and port) has one live slot, every slot comes back, and a client that can enter does.
- **World events**: two timers, and players who enter, die, drop or change maps at any tick.
  *Correct when* nobody is left inside an event that is not running, and an event that began ends.
- **Registration**: unordered, lost and repeated answers of several masters, and eight times that
  must fit each other. *Correct when* a server that can be reached gets into a list and stays there,
  one that cannot is never listed and is told.
- **Snapshot ids**: two lists in one array, ids that move between them in loops. *Correct when* they are a
  pool whose ids rest before they are used again.
- **Bans, ring buffer, entity lists**: linked structures with two or three roles per node.
  *Correct when* they are a bounded map, a bounded queue and a set.

`hazards` in PROJECT.json lists what can go wrong, each at its line, with the
property that covers it or the reason why none does.

## 2. The modules

| Module | What it is |
|---|---|
| `ReliableStream` | abstract: each direction is a stream, delivered in order, acknowledged only after delivery |
| `NetConnection` | two `CNetConnection`s over a network that loses, repeats and reorders |
| `MCNetConnection` | its instances for TLC |
| `NetConnectionProofs` | type correctness, in-order delivery, completeness of the resend buffer, refinement of `ReliableStream` |
| `Accounts` | sessions: client slots, login and registration jobs, the database lock, the Users table |
| `MCAccounts` | its instances for TLC |
| `Sessions` | abstract: a registration takes a free nick and name, a login looks for its account among all sessions and takes it, each in one step |
| `AccountsProofs` | type correctness, one session per account, unique names, refinement of `Sessions`, jobs bounded |
| `JobQueue` | abstract: a first-in first-out queue that runs each job once per addition |
| `JobPool` | `CJobPool`: the linked queue under its lock, the workers that write status and result without it |
| `MasterServer` | composes `JobPool` with its owner, `CMasterServer`: `RefreshAddresses` and the polling `Update` |
| `MasterServerProofs` | type correctness, intact links, results read, refinement of `JobQueue`, no lookup lost, workers advance |
| `WorldEvents` | boss fight and arena: timers, flags of the players, deaths and spawns |
| `BossFight` | abstract: a party gathers, fights, and goes home after a victory |
| `WorldEventsProofs` | type correctness and the three safety invariants of `WorldEvents`, refinement of `BossFight` |
| `ClientSlots` | composes the slots of `CNetServer`, the clients of `CServer` and the players of `CGameContext` |
| `MCClientSlots` | its instance for TLC |
| `Admission` | abstract: a client is let in when there is room, then goes from stage to stage, or out |
| `ClientSlotsProofs` | type correctness, agreement of the three, one slot per client, the limit per address, refinement of `Admission`, no join stuck |
| `IdPool` | abstract: ids free, used, or resting in the order they were given back |
| `SnapIdPool` | `CSnapIdPool`: both lists in its array, call by call and round by round |
| `SnapIdPoolProofs` | type correctness, whole lists, counters, rest, rightful refusal, refinement of `IdPool` |
| `Registration` | composes `CRegister` with the master servers over a network that loses and repeats |
| `MCRegistration` | its instance for TLC, and that its times fit together |
| `RegistrationProofs` | type correctness, only reachable servers are listed and sent, who is registered is listed, entries are dropped late |
| `RegistrationTimesProofs` | a server that players find stays found |

Definitions named *Mutant* in a comment are plausible mistakes in the code next
to them. They take no part in any specification: each shows that a property would
notice that mistake (`mutants` in PROJECT.json).

### 2.1 NetConnection

State: one function of the two ends per field of `CNetConnection` (`state`,
`seq`, `ack`, `peerAck`, `remoteClosed`, `buffer`, `construct`), `inbox` for the
chunks the unpacker still holds, `net` for the packets in flight, and five history
variables (`sent`, `delivered`, `acked`, `unkept`, `life`).

| Action | Code |
|---|---|
| `Connect`, `Accept` | `CNetConnection::Connect`; `OnPreConnMsg` and `DirectInit` of a server slot |
| `Send(p, flush, kept)` | `CNetServer::Send`/`CNetClient::Send` of a vital chunk: QueueChunk, the resend buffer when it has room, and the Flush that is asked for |
| `Feed*` | the branches of `CNetConnection::Feed`, in its order: acknowledgement window, control messages, resend flag, AckChunks |
| `FetchChunk` | `CNetRecvUnpacker::FetchChunk`: the sequence filter and the resend request |
| `Update`, `Expire` | `CNetConnection::Update` with the owner's reaction to an error (drop, or ban) |
| `Disconnect`, `Flush` | the calls of that name |
| `Lose`, and `old` in `Feed` | the network: a packet is lost, or received and kept to arrive again |

What is abstract. Payloads: a chunk is its sequence number, plus its true index
as history, and only vital chunks are modelled (others bypass the filter). Sizes:
a packet holds `PktCap` chunks, and the buffer, in bytes, `BufSure` chunks of any size and at most
`BufCap`; between the two a chunk is kept or not. One that is not (`unkept`) is sent once, and if it is lost
no resend brings it back: the stream stops there. `UndeliveredKept` says that no other chunk is ever missing. Time: `Update` chooses
which timers have expired. The byte of `num_chunks` is kept (`ChunkMod`), as a
requested resend can put more chunks in a packet than it counts.

What is assumed of the environment, because the code does not enforce it:

- `MaxLead`: an end has fewer than half the sequence numbers unacknowledged.
  `Send` in the code has no window; the resend buffer only bounds what is kept, and may be smaller than `MaxLead`.
- `Fresh`: a packet does not outlive the sequence space. UDP gives no such bound, but at 1024
  numbers and seconds of timeout an older packet is not a matter of the protocol.
- One incarnation per end. A rejoin, which resets a connection in place, is in `ClientSlots`. What
  `FetchChunk` reads of a packet after a handler dropped the connection comes after the end of `delivered`,
  so `InOrder` says nothing about it.

### 2.2 Accounts

State: per slot `nick`, `user` (`m_UserID`) and `log` (`m_LogInstance`); the table
`accounts`; per thread the job it runs and where it is (`job[t].pc`); and `lock`, the holder of
`m_SqlLock`.

| Action | Code |
|---|---|
| `Connect`, `Rejoin`, `Drop` | the three callbacks of `CServer` (with TryAcceptClient's first free slot; `SetClientName` compares with players in the game only, so clients that join together may share a nick) |
| `Login`, `Register`, `ListInventory`, `ChangePassword` | the functions of `CServer` with their guards on `m_LogInstance` and the command's check of `m_UserID`; all through `StartJob` |
| `ConnectSqlServer`, `Disconnect` | `CSqlServer::Connect`, which locks and on failure unlocks; `Disconnect` |
| `Guard` | the comparison of `m_LogInstance` that a job begins with |
| `LoginQuery`, `LoginScan`, `LoginAssign`, `LoginLoad` | the login job: its query (nothing found, or an exception, ends it), one comparison of the scan per step, the assignment, `InitClientDB` |
| `RegisterQuery`, `RegisterInsert` | the registration job: names free, row inserted; the INSERT may fail, or take effect and still throw |
| `OtherQuery` | jobs that touch nothing modelled |
| `Clean` | `CleanInstanceRef` and the end of `Exec` |

What the code leaves undefined is a choice: `CSqlJob::m_Instance` is never
written, so each job's instance is any of `Instances`; `StartJob` takes the value
once, as the job's memory is not written later either. Steps interleave at every access to a
slot that another thread may write; the callbacks of the game thread are one step
each, since a job reads one field of a slot at a time and no property relates two fields of a slot in the middle of a callback.
With `MAX_SQLSERVERS` = 1, `MaxTriesReached` ends
a job after one try, so there are no retries. `Sessions` is what remains when the
threads are left out: a session is a slot's `m_UserID`, and the scan over the slots with its
assignment is one lookup at the moment of the assignment. `Logout` and `SyncOnline` have no
caller. Passwords are not stored: `LoginQuery` chooses.

### 2.3 JobPool and MasterServer

State: `first`, `last` and per job `next`, `prev`, `status`, `result` (the fields of
`CJobPool` and `CJob`); per worker `held` (`pJob`) and `place`; `mstate` and `valid` of
`CMasterServer`; `at` and `i`, where the game thread is in a loop over the servers. History:
`waiting`, the jobs added and not yet fetched, and `fresh`, whether a job's lookup has written an
address since the job was last added.

| Action | Code |
|---|---|
| `RefreshAddresses`, `HostLookup`, `AddJob` | `CMasterServer::RefreshAddresses`: its guard, and per server `HostLookup` in the two halves of `CJobPool::Add`, the `mem_zero` before the lock (`Clear`) and the linking under it (`Enqueue`) |
| `Update`, `Poll` | `CMasterServer::Update`, one server per step, as workers write between two reads |
| `Fetch` | the part of `WorkerThread` under the lock |
| `Begin`, `Call`, `Finish` | RUNNING, the job's function (`HostLookupThread`, which finds an address or not), its result and DONE, without the lock |

What is done under the lock is one step. `result` is stored with the call's return and `status`
after it: both are volatile, in this order. A worker that finds the queue empty only sleeps. `Load`
and `SetDefault` run before the first refresh and decide whether a job starts as PENDING or DONE.

### 2.4 WorldEvents

State: the timers `bossTick`, `winWait`, `areaTick`, `areaEnd` and the flag `bossStart` of
`CGameContext`; the boss bot; per player whether there is a `CPlayer` and a character (`body`), the room
the character came to (`at`) and the flags `inBoss`, `inArea`; and `phase`, the part of the tick that comes next.

| Action | Code |
|---|---|
| `StartTick`, `AreaWarmUp`, `AreaGame`, `BossWin`, `BossWait`, `BossLoss` | `OnTick`: the two parts of `AreaTick`, then the three of `BossTick`, each with its order of tests |
| `StartBoss`, `EnterBoss`, `StartArea`, `EnterArea` | the functions of that name with their callers' tests |
| `Killed`, `SendToJail`, `TryRespawn` | `CCharacter::Die` (operator `Die`, which all ends of events use too), `SendToJail`, `TryRespawn` with `PreSpawn`'s choice of a room |
| `OnClientConnected`, `OnClientDrop` | a player comes or goes, or changes maps |
| `SpawnBoss`, `KillBoss` | the boss's character |

What is abstract. The fight, rewards, messages and the kind of boss (`m_BossType`); prison and rank tests; spectators, who are
players without a character that never respawn. Rooms are closed: a character enters an event from the open map only. The timers
`m_AreaStartTick` and `m_AreaEndGame` are not initialised (`Uninitialised`); negative garbage, which would only make an arena
unusable until the world is made again, is left out. `BossFight` sees a fight by its stage, which the timers
and flags decide (`Stage`), and its party, the players marked `inBoss`. Timers are shortened, in the order of the code's.

Seen while modelling: if all players leave in the 50 ticks after the boss bot is removed, `m_WinWaitBoss` is set
to 2 and counted down before it is compared with 2, so the fight ends as a defeat after a victory; a boss bot left over makes
the next `StartBoss` remove it and nothing else; the last player in the arena wins also when dead, and stays marked until the next spawn and death. A victory outlives its party: if all leave
within the last ten ticks of a fight whose boss is dead, `m_BossStart` is reset and `m_WinWaitBoss` is not, so when players open a fight within the next second, it
has its boss bot removed, and they are sent home when the old victory's time is over, from the lobby or the fight (`GoHome` of `BossFight` comes at any stage for that reason).

### 2.5 ClientSlots

State: per slot `conn`, `peer` (`CNetConnection`), `state` (`CServer::CClient`), `player` (`m_apPlayers`), and `young`; `bans`. Of the
client's program, which is external: `prog`, the messages each way, ACCEPTs under way (`accepts`), and whether the two ends of
a connection belong together (`sync`).

The server makes a slot's connection new, or resets it in place, without the client's knowing. The two ends belong together after that if the client's
numbers can be the first ones again: it knows of nothing it has sent to have arrived, so that it sends it all again (`FirstMessages`, `SendsAgain`; the client decides that
only when it hears of it, so both come from one state). A program that is `up` has got nothing itself; one that has `met` the server has got a map by a
rejoin, but no acknowledgement: a rejoin finds it with its answer to that map on the way, and the map that is sent again is to it an old chunk. Any other
program is cut off (`SendsOn`): its packets acknowledge chunks that the new connection has not sent, and are ignored.

| Action | Code |
|---|---|
| `Connect`, `Accept`, `Lose` | `OnConnCtrlMsg` with CONNECT and ACCEPT: token answered to anybody not banned, `TryAcceptClient`, or `Rejoin` of a client that has a slot |
| `OnPreConnMsg` | the handshake without tokens: accepted at once, and answered before that is known, also when the program has stopped or gone on since (`NewConnection`) |
| `ProcessClientPacket` | `Info`, `Ready`, `StartInfo`, `EnterGame`: NETMSG_INFO, READY, CL_STARTINFO, ENTERGAME with their guards on `m_State` and `m_IsReady` |
| `Update`, `Expire`, `Age` | `CNetServer::Update` of a connection in error: a ban in its first second, a drop later; the ten seconds |
| `Kick`, `ConBanExt`, `BanAddr`, `Unban` | `CServer::Kick`, the commands, `CServerBan::BanExt` with the client that `m_BanID` names |
| `Drop` (in the above) | `CNetServer::Drop`: `DelClientCallback`, the game's `OnClientDrop`, `Disconnect` |
| `ClientStart`, `Receive`, `ClientStop` | the client |

`Admission` sees of all this how far each client has come: the state of its slot, with a stage of its own for a READY client that has a player.

What is abstract. `m_BanID`: a ban of an address drops one client of that address, or none. `Connlimit` and
`DistConnlimit` are a refusal that may happen; so is the wrong version that drops a client. A connection is an ordered stream,
which is what `NetConnection` shows, as long as `sync` holds. Clients follow the protocol. Left out is that the numbers of a client further on and of a
new connection may agree by chance, mod 1024, so that it takes the one for the other. A CONNECT without token may be as late as it likes, even from before the server's start. Connections in error are
`young` only if they were closed, since ten seconds have passed for the others. The address of a dropped slot stays in the code's
connection, where nobody reads it: the model clears it. After a drop the code still processes the rest of the
packet, on an EMPTY slot, where no handler does anything.

Seen while modelling: a client whose ACCEPT comes again while it is READY loses what was on its way to it, gets the map again or nothing, and its second READY is ignored, so that it waits for ever
(`JoinCompletes` speaks of AUTH and CONNECTING and excuses a READY client that may still be hit by an ACCEPT); a client without tokens whose first answer is lost is never answered
again and keeps its slot; `m_BanID` is left from the last ban of the console; `Connlimit` compares addresses with ports where its comment says IP;
jobs of the database call `CServer::Kick` from their own thread; a rejoin in the game keeps the player and resets its session;
slots are given out below `MaxClients() - MAX_BOTS`, so that with `sv_max_clients` at most 40 nobody can join.

### 2.6 SnapIdPool and IdPool

State: the array's `m_Next`, `m_State`, `m_Timeout`, the three list heads, the two counters, the time `now`, and the
call that goes on. `freeList`, `timedList` and `freedAt` are auxiliary: they say what the links should be.

| Action | Code |
|---|---|
| `Begin`, `NewIdRound`, `NewIdReturn` | `NewId`: each round of its loop over expired ids, then `Give` or `Refuse` |
| `TimeoutIdsRound`, `TimeoutIdsReturn` | `TimeoutIds` |
| `FreeId` | `FreeId` of an id in use |
| `Tick` | the clock |

`m_Timeout` is an `int` that gets an `int64` of microseconds: `AsInt` keeps what an int of the model's width (`Half`) keeps. About 36 minutes after the host's
start the int can never be ahead of the time and nothing rests any more; `RestKept` says exactly until when ids rest. The pool is used by the
one game thread only. `FreeId(-1)`, which returns at once, and its assertion on the range are left out.

### 2.7 Registration

State: the fields of `CRegister` and of its master list (`state`, `age`, `count`, `chosen`, `valid`, `got`,
`quiet`), the lookup it waits for, per master the checks that go on (how many with each `m_TryCount`), the two entries this server may have (`listed`),
how many others there are, whether the packets of the list hold it (`sent`), and the packets in flight, counted.

| Action | Code |
|---|---|
| `UpdateStart` .. `UpdateError` | the branches of `RegisterUpdate`; `UpdateHeartbeatAstray` is HEARTBEAT with index -1 |
| `GotCount`, `GotCheck`, `GotOk`, `GotError` | `RegisterProcessPacket`, none of which looks at the state |
| `ServeCount`, `AddCheckserver`, `AddServer`, `IgnoreServer` | the master's main loop |
| `Cycle` | what it does every five seconds: `PurgeServers`, `UpdateServers`, `BuildPackets` |
| `LookupDone` | the end of `RefreshAddresses`, as `MasterServer` shows it |
| `Lose`, `Duplicate`, `Tick` | the network and time |

Time. A step is 2.5 seconds; in it every loop runs and every packet arrives or is lost, so that `Tick` waits for both. The constants of the run are chosen
so that "more than so many steps" are the code's times: 15 s between heartbeats (`HeartbeatEvery` 5), 60 s (`GiveUp` 23), 5 s (`BuildEvery` 1), 90 s (`ExpireTime` 35); the 3 s and 1 s are rounded up.

What is abstract. `m_TryTime` is dropped, as `UpdateServers` runs every five seconds at most; which of several checks an answer ends is a choice; the other
servers of a master stay as many as they were (`Others`); the two legacy server types, bans of the master and the answers to clients are left out.

A check list that is full (`NumChecks`). When this server's own checks fill it, the master refuses one and `crowded` says so; other servers' checks fill
it at any time (`AddCheckserver` may refuse for no reason of its own), which counts as a fault (`MaxFaults`), like the heartbeat lost that it amounts to.

Seen while modelling: FWOK is accepted in any state, and when it comes in UPDATE_ADDRS the server goes on to
REGISTERED and HEARTBEAT with no master chosen, reads and writes the element before its array (in the build `m_RegisterFirst` and
`m_RegisterCount`), and sends no heartbeat for 60 seconds. One such stray packet is harmless (the run has `MaxFaults` 1); with a lost heartbeat
on top, `MaxFaults` 2, the entry expires and `StaysPublished` fails. A comment at `register.cpp:221` says 60 minutes where 120 heartbeats are
about 30. `BuildPackets` stops when it has begun the last of its 16 packets, so that at most 1126 of 1200 servers are sent, and `SendOk` tells a server that it is listed also when `AddServer`
found the list full. `crowded` in the properties stands for all three: no room among the servers, in the packets, or, for this server's own checks, in the list of checks.

## 3. The runs

| Run | Configuration | Instance | Shows |
|---|---|---|---|
| `conn_wrap` | `NetConnWrap.cfg` | N = 6, one end sends up to 6 chunks (the numbers wrap), 2 packets per end in flight, window 2, a buffer for 1 or 2 chunks | types, in-order delivery, nothing needed is discarded though the buffer may be full, refinement of `ReliableStream` |
| `conn_deliver` | `NetConnDeliver.cfg` | server sends 2 chunks, one packet each way, nobody closes | every chunk queued is delivered |
| `conn_close` | `NetConnClose.cfg` | both send one chunk, both may close or expire, packets count chunks mod 2 | no half-open connection |
| `acc_safe` | `AccountsSafe.cfg` | 2 threads, 2 slots, 2 nicks, 2 names, instances -1 and 1 | types, one session per account, unique names, refinement of `Sessions` |
| `acc_end` | `AccountsEnd.cfg` | 2 threads, 1 slot | every job ends |
| `acc_ghost` | `AccountsGhost.cfg` | instances 1 and 2 | **violation**: a right password refused while nobody uses the account |
| `pool` | `MasterServer.cfg` | the code's 4 master servers, 2 workers | types, intact links, results of the current refresh only, refinement of `JobQueue`; every refresh ends |
| `world_events` | `WorldEvents.cfg` | 2 players, boss fights that wait short or long, garbage in the arena's timers | nobody is held by an event that does not run, characters stand where their flags say, a fight has a foe; refinement of `BossFight`; empty fights and won fights end |
| `world_stranded` | `WorldStranded.cfg` | 2 players | **violation**: a death in the arena does not leave it |
| `slots` | `ClientSlots.cfg` | 2 slots, 2 clients behind one address, one of them without tokens | types, the three parts agree on slots and players, one slot per client; refinement of `Admission`; slots come back, clients get in |
| `snap_ids` | `SnapIdPool.cfg` | 3 ids, a rest of 1, ints up to 3, time to 7 | types, whole lists, counters, rest, rightful refusal, refinement of `IdPool` |
| `registration` | `Registration.cfg` | 2 masters, one perhaps full, one fault (a packet lost or doubled, a lookup failed, a check refused), an open or closed or half open firewall | types, only reachable servers listed; a server gets published, stays so, or is told why not |

Why the bounds are enough. In `conn_wrap`, N = 6 is the
smallest sequence space with a window of 2, and 6 chunks take both ends past the wrap, with
older chunks and acknowledgements still in flight there; a second chunk in the window may find the buffer full; two packets per direction give reordering and a duplicate
beside its original. One sender suffices there because the directions share only `Transmit`. In
`acc_safe` two threads and two slots are one login against one other job and one slot
against its replacement; a third thread would only wait for the lock. `CEngine`
starts one worker; two also put two jobs in flight, as the pool allows. Four jobs give the queue both ends and a
middle, and refreshes repeat without bound. In `world_events` the timers keep the code's order and the distances that
its tests tell apart; two players are the last one and the one before, on whom all conditions turn; waits of 6 and 9 are the shortest that the assumptions on the timers allow and a longer one (in the code 5 seconds and more, against one second and 2 ticks that the assumptions ask for). In `slots` two slots and two clients let a client meet its own old slot and another's; the limit per
address does not bite there and is proved. In `snap_ids` three ids give the lists a first, a middle and a last, and the int wraps
twice before the time ends. In `registration` four tries instead of ten still end on the second address and let two heartbeats' checks overlap; `RedoAfter` 1 makes
the server register anew, with perhaps the other master, again and again; the times fit together (`TimesFit`, which TLC evaluates in `MCRegistration`). The
proofs remove these bounds for the safety properties.

Deadlock is not checked (`CHECK_DEADLOCK FALSE`) in the connection runs: the bounds on sends, packets and
closings stop the model, and a connection that is closed for good stops too. All other runs check it.

### 3.1 Fairness

- `TransportFairness` (`conn_deliver`): `Update` is called every turn of the main
  loop, so a timer that has expired acts; strong fairness there because `MaxNet`
  may disable the step for a while, which the code would not. A packet that is sent
  again and again and that the receiver can use gets through once (`Useful`); other packets may always be lost. Fetching goes on.
- `ClosingFairness` (`conn_close`): an end whose peer is gone and from which nothing is in flight
  reaches its ten seconds, and the owner drops a connection in error.
- `FairSpec` of Accounts: a detached thread runs (weak fairness), and a thread
  that waits for the mutex gets it if it is free again and again (strong). No
  fairness for the game thread: nothing promises that a client connects or asks.
- `FairSpec` of MasterServer: the workers run and lookups return; the game thread goes on in a loop it has begun and calls
  `Update` every turn, which `RegisterUpdate` does while `sv_register` is on. A refresh need never be asked for.
- `FairSpec` of WorldEvents: the main loop ticks. No fairness for players, bots or the boss.
- `Fairness` of ClientSlots: the main loop updates every slot; time passes for a slot whose client is gone, and for the first second; a message on
  a connection that both ends keep arrives (`conn_deliver`), and a client answers what it gets. The network repeats an ACCEPT some times, not for ever (`Lose`): a client that is reset
  again and again does not join. Nothing promises that a client starts or that a first handshake packet arrives.
- `Fairness` of Registration: time goes on, which it does only when all that is due is done; the model's loops are as fair as that.

### 3.2 What the violations show

`acc_ghost`. The login job compares `m_LogInstance` once and writes `m_UserID` after its
query. If its client drops in between, the id lands in an empty slot and stays
until some client takes the slot. The scan of `CSqlJob_Server_Login` does not look
at `m_State`, so the player, back on another slot, is refused without a message.

`world_stranded`. A comment in `CCharacter::Die` says that a player who dies leaves the arena; the code clears `m_InArea`
only while a game runs. An arena with fewer than two players is emptied ten ticks before its waiting time ends, but whoever enters in
those ticks is marked, no game begins, and each death brings the player back to the arena until somebody starts another game.

## 4. The proofs

All are for every value of the constants that the modules' `ASSUME`s allow.

**NetConnectionProofs.** The number on the wire says little about the chunk it
stands for, so the inductive invariant `IInv` relates every number to the
history index behind it: `ChunksInv` and `PacketsInv` (every chunk and
acknowledgement kept, under construction, fetched or in flight is the wire form of an index that was
sent or delivered), `NumbersInv` (`seq`, `ack`, `peerAck` are the wire forms of
`sent`, `Len(delivered)`, `acked`), `LifeInv`, `CountsInv` (acked <= delivered <= sent),
`InboxInv`, and `InOrder` itself. `InOrder` alone is not inductive: that the next number
in order is the next chunk needs `FilterExact`, which uses that a fresh chunk lies within half
the sequence space (`WireInjective`, `BackroomOrders`). `WindowOrders` and `FeedKnows` do the
same for acknowledgements. Results:

- `TypeCorrect`: `Spec => []TypeOK`.
- `DeliveredInOrder`: `Spec => []InOrder`.
- `ResendComplete`: `Spec => []UndeliveredKept`, from `KeptInv`: the buffer of an end that is online holds,
  in order and none twice, the chunks from the first unacknowledged one to the last queued, but for those in `unkept`;
  `AckKept` shows that `AckChunks` pops exactly what its acknowledgement covers. No relation between the window and
  the buffer is assumed.
- `ImplementsStream`: `Spec => StreamSpec`, each step a `Queue`, `Deliver`, `Learn` or stutter of `ReliableStream`.

**AccountsProofs.** `IInv` adds to the properties what a job knows while it holds
the database: `LockInv` (a job between its guard and its disconnect is the
holder, so there is at most one), `KindInv` (which kind of job is at which place),
`ScanInv` (no slot below the scan's index has the account's id; at the assignment no
slot at all has it), `InsertInv` (no account has the name or nick about
to be inserted). The step that matters is that no other step can assign an id or append a row meanwhile: the game thread only ever
resets sessions. Results: `TypeCorrect`, `LoginIsUnique`, `NamesAreUnique`.

Two more rest on `JobInv`, what a job's fields hold at each place. `ImplementsSessions`: `Spec => SessionsSpec`; a login's step is its assignment, which is
allowed because of `ScanInv`, and a registration's its INSERT, because of `InsertInv`; every other step of a thread stutters and every reset of the
game thread is a `LogOut`. `JobsAdvance`: a step of a thread makes the rank of its job less (the places ahead of it, the slots it has not compared, the job it may start), and no step of
another makes it more. That is the safety half of `JobsEnd`: what remains for TLC is that the threads get their turns.

**MasterServerProofs.** `QueueIntact` holds only if nobody clears or adds a job
that is queued, and nothing in `CJobPool` prevents that. `IInv` therefore says who may touch a job when: `OnceInv` (a job is in the queue
once, or held by one worker), `DoneInv` (a job that is done is neither), `RefreshInv` (the jobs that
`RefreshAddresses` still has to add are free, since it starts only in INIT or READY), `FreshInv`, `ResultInv`
(a finished job's result tells whether it found an address) and `PollInv` (the servers `Update` has
passed are done, unless it has gone back to UPDATE). Results: `TypeCorrect`, `LinksIntact`, `ResultsAreRead`, and
`ImplementsQueue`, each step an `Add`, `Take`, `Finish` or stutter of `JobQueue`. `LostInv` says that a lookup that was added and is not done is in the queue or held
by a worker; with it `NothingLost` (`Update` never waits for a lookup that nobody will do) and `LookupsAdvance` (a worker's step brings one lookup nearer to its end, and only the owner's
adding takes one back), the safety half of `RefreshEnds`.

**WorldEventsProofs.** `FoePresent` is not inductive: that a fight has a boss depends on how late its bot can be removed. `IInv` adds
`BegunInv` (a timer at or below `Gather` means the fight has begun) and `FoeInv` (an event goes on without a boss bot only after a victory, or when nobody is in it and nobody can enter); the
assumption that the bot of a won fight is removed before another fight can begin is one the code's numbers satisfy. One lemma per action. Results:
`TypeCorrect`, `NobodyForgotten`, `RoomsAreRight`, `FoeIsThere`.

`ImplementsBossFight` (`Spec => FightSpec`) needs `FightInv`: a fight has begun only at or below `Gather`, and (`LeftInv`) once a
victory without players has been cut short, to `WinEnd`, either nobody is in a fight, or a new one is still in the lobby with its timer so far ahead that the victory is over before that fight begins.
This uses the assumption `WinEnd <= w - Gather`.

**ClientSlotsProofs.** `IInv` is the conjunction of the invariants with `PerIpLimit` and `SyncInUse` (only a live
connection belongs to a client), which `ProcessClientPacket` needs: a message is handled on a slot in use only. `LimitStays` and `LimitAsked` count the
slots of an address. Results: `Typed`, `StatesAndConnectionsAgree`, `StatesAndPlayersAgree`, `SlotOfAClientUnique`, `LimitPerAddressHolds`.

`ImplementsAdmission`: `Spec => AdmissionSpec`; `OneSlotPerClient` makes a client's stage well defined and `PerIpLimit` lets `Admit` count clients where the code counts slots.
`JoinNeverStuck` and `JoinsProceed` are the safety half of `JoinCompletes`: with `JoinInv`, a client in AUTH or CONNECTING whose connection
holds always has the message that takes it further under way, in one direction or the other, and no step of another client, of the network or of the server takes it away before the client is in the game,
but for an ACCEPT that finds the client READY.

**SnapIdPoolProofs.** `ListsWhole` says that an array and a head spell out a sequence; `PutFirst`, `TakeFirst` and `PutLast` are the three
operations on such a list, proved once for any list, and `LinkElsewhere` that a change of one list's links leaves the other alone. `TimesKept` relates each
id's `m_Timeout` to the time it was given back, through the int; `FreeRested` says that ids in the free list have had their rest. `IntOfTime` is the arithmetic of the width. Results: `TypeCorrect`, `ListsStayWhole`,
`CountersRight`, `RestIsKept`, `RefusalIsRight`, and `ImplementsIdPool`.

**RegistrationProofs.** `OnlyReachableListed` needs `AnswersReachable`: an answer to a check is only ever on its way from an address that the
firewall leaves open. Results: `TypeCorrect`, whose counts never go below zero because an answer ends a check only if there is one, and `ListedIsReachable`.
With `ListInv`, which relates the state of the server, the FWOKs under way, the entries of the masters and what they send, and for times with `Freq <= GiveUp` and `Freq < ExpireTime`
(1, 60 and 90 seconds in the code): `RegisteredListed` (a server that takes itself for registered is in some master's list, or a list was full), `SentReachable` (a master sends players
only what a check has reached) and `DroppedLate` (it stops sending a server only if it has not heard of it for `ExpireTime`, or its list is full).

**RegistrationTimesProofs.** `PublishedStays`: `Spec => StaysPublished`, for any number of masters and other servers, any firewall and all times that fit together, as long as `MaxFaults` is at most
1 (two faults break it, see 2.7). The argument is about deadlines. `In(d)` says that the next FWOK comes within `d`, or a list is full: before the fault the server is on the one way that things then go
(`Clean`), after it on one of those that are left (`Within`). A deadline of `Clean` already has room for the fault, so
`DeadlineKept` holds for every action: it leaves the deadline as it is, `Tick` brings it one step nearer and it never passes, and an FWOK that comes sets a new one, `Longest` away. `TimesInv` says that whenever until then, and until the next list is built, players can find the server, an entry that lives so long makes it so (`Covered`); `CycleCovers`, `TickCovers` and `ListingCovers` show that it stays so.
`TimesFit` is the whole of what the argument asks of the eight times: two checks between two heartbeats, two heartbeats before the server gives up, its query of the masters not longer than that, and the longest way to the next FWOK
(wait, look for masters, give up, register anew) shorter than the life of an entry. The code's times meet it, and the last with hardly anything to spare: in the run's
steps it is 33 and two lookups of the masters' names against 35, so a lookup may take one step, which `MaxLookup` is. `OthersFit` says that a master never begins with more servers than it can hold.

**Only model-checked**: the liveness properties as such (`EventuallyDelivered`,
`NoHalfOpen`, `JobsEnd`, `RefreshEnds`, `EmptyFightEnds`, `VictoryEnds`, `SlotsFreed`, `JoinCompletes`, `GetsPublished`, `ToldOfFirewall`), since TLAPS has no reasoning about fairness or ENABLED
here, although the steps they take are proved for `JobsEnd`, `RefreshEnds` and `JoinCompletes`; and the violations, which are traces.

## 5. What is not modelled

Parts that could be modelled and are not:

- **Item, mail and clan jobs**, and the shop and crafting that start them. Each is a pair of statements whose effect is
  in the SQL text; the cache in the slot is read and written by every thread without a lock or a check. The properties one would state (cache and table
  agree, the right account pays) have plain counterexamples in the code, which are listed as hazards at their lines, and no text of the repository promises them.
- **The pool behind the bans** (`netdatabase.h`) and the **remote console** (`econ.cpp`, `network_console.cpp`). `ClientSlots` has what a ban does to
  slots; the pool's list work is of the kind shown for `SnapIdPool`, the console's pairing of slots and callbacks of the kind shown for the players.
- **Snapshot builder, delta and storage, ring buffer, packing, Huffman codes**: pure functions and pointer arithmetic within one call of one thread.
- **Quests, bots, levels, votes**: arithmetic on one player's data in one thread.

Left out for good: movement, collision and damage
(floating point, one thread, no protocol), console and configuration, maps and
storage, demos, websockets, localization, tools, generated and vendored code (most of the repository: ICU and the MySQL headers). Weak memory is
not modelled: the unsynchronised fields that jobs and the game thread share are aligned
integers, and each access is one step. Several maps in one process are commented out in `server.cpp` and left out with it.

## 6. Plan

What was planned and is done, the most consequential for the players' data first: `NetConnection`, `Accounts`, `JobPool` with `MasterServer`,
`ClientSlots` (server slots and client states in one module, since all that is hard lies between the two), `WorldEvents`, `Registration`, `SnapIdPool`, each with its proofs; then
for each part an abstract specification and the proof that it is implemented (`Registration` has none: what it promises is a matter of times, `RegistrationTimesProofs`), and the safety halves of the liveness properties.

What is left, should the project be taken further: the ban pool refined to a bounded map from addresses to times, with the
remote console as its second client; the items of an account with the command list back to the game thread, once the code says which
account a job means; the snapshot delta and variable-length integers against their inverse over bounded inputs.
