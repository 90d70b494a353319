# A verification development for the CK game server

TLA+ models of the C++ server in `src/Projects/MainServer`, checked with TLC, and
theorems about them checked with TLAPS. The server is a small IOCP game server:
clients connect, announce a player name, buy items in a shop whose offers are
replaced every few seconds, and have their inventories kept in MySQL.

## 1. Inventory of the system

| Component | State | Operations | Who calls them |
|---|---|---|---|
| Connection slots: `IOCPServer`, `stClientInfo` | per slot: socket, connected flag, time of the last close, receive buffer, send queue | `PostAccept`, `AcceptCompletion`, `BindRecv`, `SendMsg`, `SendCompleted`, `Close` | the accepter thread; 4 worker threads, each of which may get any completion; for `SendMsg` also the threads of the game |
| `GameServer` | per slot: bytes of an unfinished packet | `OnConnect`, `OnClose`, `OnReceive`, `Run`, `End` | workers, main thread |
| `PacketManager` | queue of slot indices, a queue of packets per `User`, queue of connection events, callbacks per packet type | `ReceivePacketData`, `PushSystemPacket`, `ProcessPacket`, `BroadcastPacket`, `End` | workers; the process thread; main thread |
| `UserManager` | pool of `User`, set of registered slots, counter | `AddUser`, `DeleteUser`, `GetUserByName`, `GetAllUser` | callbacks; synchronisation thread; reset thread |
| `User` | name, items, packets of a slot, with a lock each | `SetName`, `AddItemCount`, `GetItemAll`, `ClearItem` | callbacks; synchronisation thread |
| `RConnection` | – | `Connect`, `Disconnect` | process thread |
| `RShop` | list of offers | `Buy`, `RequireItemList`, `ResetItem` | process thread; reset thread |
| `RIenventory` | the provider pointer; tables in the database | `Connect`, `Disconnect`, `SynchronizeDB` | process thread; synchronisation thread |
| `RReplicationPlayer` | – | `Join`, `Synchronize` | process thread |
| `PacketUtil`, `Route` | – | packing with the length in front, unpacking | workers; callbacks |
| Unity client: `Client`, `NetworkClient`, `Replicator` | replicas of the other players | announce a name, buy, move; make and move replicas | its main thread |
| `RPing`, `RedisManager` | see section 7 | | |

Threads: one accepter, the workers, one process thread, one reset thread, one
synchronisation thread, the main thread. They meet in four places: the queues of
`PacketManager` (one lock), the registry (one lock), the offers of the shop (one
lock) and the users (two locks each). Every lock is held for one read or write
and never while another thread is waited for.

What is hard here, and what each component must get right:

* **dispatch** – a request is found through two queues filled and emptied by
  different calls; requests and connection events overtake each other. Requests
  must be served in the order of arrival and the registry must follow the events,
  although a client may give its request the type of an event.
* **shop** – the lock is released between taking units from an offer and giving
  them to the buyer, and between copying the list and sending it; a reset may come
  in between. The count that a client asks for is any int, below zero included. No
  offer may be oversold, no unit lost, and clients must see what is.
* **inventories** – name and items of a slot are read apart, rows are written long
  after they were read, two threads save, the database fails, and slots are used
  again by other players, who may buy before they have a name. Items must be
  neither multiplied nor lost.
* **slots** – any worker gets any completion, two may find a connection broken,
  and a slot is used again. Messages must go out in order, and each session's end
  must be announced.
* **framing** – receives cut the stream anywhere, also inside a length; the rest is
  kept in a buffer that outlives the client. Packets must come out whole and in
  order, and the loop over them must end.
* **replication** – begins and ends of sessions may be pushed in either order, the
  end twice, and late; a packed buffer is freed once per recipient; a slot may be
  used again before the game knows that its client left. Players must learn of each
  other, and of nobody twice.

`PROJECT.json` lists the hazards one by one at their lines, those that no property
covers yet included.

## 2. Modules

| Module | Models | |
|---|---|---|
| `UserManager` | the registry | extended by `PacketManager`, `Shop` and `Replication` |
| `User` | what adding a count does to an item of a user, with ints that wrap | extended by `Shop`, `ShopLedger` and `Inventory` |
| `PacketManager` | queues, process thread, order of callbacks | extends `UserManager`, `Counting` |
| `PacketFifo` | *abstract:* one line of requests and one of events, served fairly | implemented by `PacketManager` |
| `Shop` | the shop with the process thread and the reset thread | extends `UserManager`, `User` |
| `ShopLedger` | *abstract:* a purchase is one exchange between shelf and buyer | implemented by `Shop` |
| `Inventory` | loading and saving with the process thread and the synchronisation thread | extends `User` |
| `Session` | one connection slot with accepter and workers | |
| `SlotEvents` | *abstract:* the connection events that the network layer pushes | implemented by `Session`; `Replication` composes it with the game |
| `PacketUtil` | the length in front of a packet, byte by byte | |
| `Framing` | `GameServer::OnReceive` of one slot, for client after client | extends `PacketUtil` |
| `Replication` | who is told of which player: network layer, event queue, registry, `Join`, clients | extends `UserManager`, instantiates `SlotEvents` |
| `Counting` | occurrences of a value in a sequence | |
| `…Proofs` | theorems about the module of that name | |
| `MC…` | the instances for TLC | |

Steps are as fine as the locks: whatever the code does under one lock is one
action, and everything between two locks is a step other threads may come before.

* **`PacketManager`.** The three deques have their names (`mPacketQueue` is the one
  in `User`); `pc` is the place of the process thread in `ProcessPacket`; `todo` the
  callbacks left of the packet at hand, in the order in which `RouteInit` registers
  them. The network may call `ReceivePacketData` and `PushSystemPacket` for every
  slot at every time: nothing is assumed of the order of CONNECT and DISCONNECT. The
  type of a request is any of `RequestTypes`, which may have `SYSTEM_USER_CONNECT` and
  `SYSTEM_USER_DISCONNECT` in it: nothing in the code looks at it before it selects the
  callbacks. `lastEvent` and `imposed` (the slots whose client requested a system type)
  are history variables.
* **`Shop`.** `mItemList` is the code's; each offer also has the number of the lot
  it comes from, which only the properties read, like `sold` and `raised`. A purchase
  asks for any int, `Counts` is not restricted: below zero it adds to the offer and
  takes from the buyer, which may erase the item or enter it with a count below zero,
  and -1 adds to the offer and then looks like no purchase (`RShop.cpp:85`); `raised`
  counts these. `INT_MAX` is the greatest int, at which sums wrap. `pc` has the place of
  both threads. `shopView` and `inventoryView` are what was last handed to each
  slot's socket, in the order of the calls of `SendPacketFunc`. The process thread
  runs one callback at a time, so those without an unlock are one action (`Connect`,
  `Disconnect`, `NotifyName`). What the database answers is arbitrary.
* **`Inventory`.** Each access to a name or an item list is a step, and so is each
  statement to the database; `SaveFails`, `Fault` and the disjuncts that use it are
  its exceptions. The tables are a set of names that have one and the rows in them.
  Saving writes only what the user has, as the code does; it never deletes a row.
  `Buy` is what `RShop::Buy` does to the inventory, for any count but -1 and for slots
  that no name was announced for, too: what is bought there counts for the players that
  the slot serves (`Buyers`), since it may be stored under the next name. A player with
  a sum below the least int is `overdrawn`: the sum wraps. The end of a session may be announced twice, so `Disconnect` may run for a slot that
  is registered no more. `bought`, `announced` and `clean` are history variables:
  `announced` has the slots whose client has announced a name since its slot's last
  DISCONNECT, and `clean` is reset by a name or a purchase that is handled out of time
  (after the DISCONNECT of its client, before its name, or a second name of one
  session), by a purchase of less than one unit or one whose sum erases the item, and by
  a DISCONNECT that finds the synchronisation thread writing an earlier copy of the same
  slot.
* **`Session`.** The variables of `stClientInfo` have their names; `operations` are
  the overlapped operations that no worker has handled; `pc` is the place of each
  worker in `WokerThread`. An operation may complete well or not, at any time.
  Times are abstract: closed long ago, just now, or not since it was last offered.
  `pushed` has the connection events of the last session, for `SlotEvents`.
* **`Framing`.** A byte is its position in the stream of the client, or 0 if an
  earlier client sent it; a header is recognised by its bytes. `curPos`, `size`,
  `buf1` and `lastSize` are the code's. Each turn of the loop is a step. The length is
  converted to bytes and back by `PacketUtil`. What stands where a length is expected
  may be none. In the receive the place then moves by it, forth, back or (with -4) not
  at all, for ever (`NoHeader`); in a rest as many bytes are joined as it says
  (`CompleteNoHeader`), and where that goes past the buffers the worker is `lost`, and
  the model stops until the next client. `clean` records that no packet took three receives
  and that no client left an unfinished one.
* **`Replication`.** The network layer is `SlotEvents` for all slots; its events go
  through `mSystemPacketQueue` to `Connect`, `Disconnect` and `Join`. A newcomer is
  registered in one step (`Connect`, up to `AddUser`) and sent what there is to send in
  another (`SendJoin`); `joining` has him in between. `sent` is what each client has been
  sent about players, in order. Shop lists and inventories, which both threads send
  (`BroadcastPacket`, `Answer`), are not kept, and may come at any time, before the
  first message about a player, too; but a slot without a client that is sent anything
  is `stalled`, as `session_stalled` shows. `listed` has the slots that a list of users
  taken at some time may hold, since it is used after it was taken. The users after the
  first one in `Join`'s loop are sent a freed buffer: they get the message or `Garbage`,
  and with two of them or more the server may die. `session` numbers the clients of a slot, so that
  the properties can tell them apart where the messages cannot. `clean` records that
  everything about a client was handled before its slot had the next one. Its clients
  request no system types: what these do to the registry is in `PacketManager`.

## 3. Runs that pass

| Run | Shows | Bounds |
|---|---|---|
| `packet_manager` | `QueuesAgree`, `RegistryFollowsEvents`, `JoinSeesItsUser`; `ServesInOrder` (implements `PacketFifo`, with its strong fairness); `EndReturns` | 2 slots, 4 packets of both kinds, four types of request: one with a callback, the end marker and both system types |
| `shop` | `LotsBalance`; `PurchasesAreAtomic` (implements `ShopLedger`) | 1 user, 1 item, offers of 2 units, the greatest int is 3, purchases of 1, 2, 0, -1 and the least int, 2 offers ever, 1 purchase of -1 from each |
| `shop_refresh` | `OwnersSeeInventory`; `ViewsRepaired` | 2 users with names of their own that come and go, 1 item, purchases of 1, 2 offers of 2 units, every query may fail |
| `inventory` | `OnlyBoughtItems`, `NothingLost`, `EventuallySaved` | 2 slots with one player each, 1 item, 2 purchases of 1 or -2, the greatest int is 2, 1 failure of the database |
| `session` | `OneReader`, `SendsInOrder`, `FreesWhatWasSent`, `EveryEndAnnounced`, `WatchedUntilRefused`, `OfferedAgain`; `ImplementsSlotEvents` (implements `SlotEvents`) | 3 workers, 2 socket handles, 3 messages |
| `framing` | `DeliversTheStream`, `NothingHeldBack`, `ReadsWhatCame`; `Returns` | buffers of 12 bytes, three streams of two or three packets of 4 to 12 bytes |
| `replication` | `PlayersMeet`, `RegistryFollows`, `ToldOnce`, `JoinFirst`, `PositionsFollow` | 3 slots, one of them used twice, 2 events waiting, one request from the clients of that slot |

Each passing run also checks the type invariant of its module; `shop_refresh` leaves
that to `shop`.

Why the bounds are enough to be worth something:

* `packet_manager`: four packets let requests of two clients interleave with the
  begin and the end of one, a slot be announced twice, and a client forge an event
  between two others.
* `shop`: two offers are enough for one reset that draws the same item twice and
  for two resets that draw it once, so a purchase can be under way when its offer
  is replaced. The counts are a part of an offer, all of it, none, and the three ways
  below zero: taken for no purchase, entered or erased in the inventory, and (the least
  int) wrapping the offer. Among the properties of `shop`, none relates two users.
* `shop_refresh`: two users, of which one buys while the other comes, goes or asks. The
  names are distinct because `OwnersSeeInventory` fails otherwise (see `shop_names`).
* `inventory`: two purchases are enough for one to be made while the other is being
  saved, and one failure can hit any statement. A purchase of -2 erases a unit whose row
  stays, or enters a count below zero, and a second one wraps it. Each slot has its own player, since
  `OnlyBoughtItems` fails otherwise (see `inventory_shared`). `NothingLost` speaks of
  the behaviours that are `clean` so far; each of the things that reset `clean`, and a
  failure of the database, does lose a unit within these bounds when it is allowed.
* `session`: three workers let one accept while two find the slot closed; three
  messages are one pending, one queued and one for the next session. The number of
  sessions is not bounded.
* `framing`: a receive may hold two packets and part of a third, a packet fills the
  buffer, another is nothing but its length, and every cut of the three streams into
  receives occurs, also inside a length, as does a new client after each.
* `replication`: three slots are what `main.cpp` asks for, and the least with which
  a buffer is used after it is freed. A slot that is used twice is enough for a
  client to meet what was left of another; two events in the queue let its end, its
  begin and those of another slot overtake each other.

Every property is violated by a plausible mutation of the code, listed in
`PROJECT.json` and defined beside the operation it changes.

### Fairness

* Weak fairness of the process thread, the reset thread and the synchronisation
  thread: they loop for ever, their locks are held for one step, their sleeps end,
  and every call of the database returns or throws. None for the network or the
  clients: requests may stop.
* In `Session`, weak fairness of the accepter, of each worker once it has a
  completion, and of the completions of a closed socket: Windows completes what was
  pending when it closes one. Nothing makes a client connect, send or leave.
* `PacketFifo` promises strong fairness for either line; the loop of the process
  thread gives it from its weak fairness alone, because each turn looks at both.

`Session!WaitElapses` assumes that the wait before a slot is used again
(`RE_USE_SESSION_WAIT_TIMESEC`, 3 seconds) is long enough for all operations of the
closed socket to be handled. The code does nothing to ensure it.

* In `Framing`, weak fairness of the worker that runs `OnReceive`, which waits for
  nothing. `Replication` assumes no fairness and states safety only.

`packet_manager`, `session` and `replication` do not check deadlock: the server stops
after `End`, a slot stops when the accepter fails to offer it, and in `replication`
all clients may have gone, or the server may have died in `Join`.

## 4. Runs that find a violation

Each states what a comment of the code says and shows a behaviour of the code that
does not do it. They use the behaviours in which every request is handled while its
client is registered (`OrderlySpec` of `Shop` and of `Inventory`), or, in
`session_stalled`, in which Windows takes every send to a connected client.

| Run | Claim | What happens |
|---|---|---|
| `shop_stale_list` | `SendCurrentShopItemList` refreshes the clients' lists (`RShop.h:45`) | the reset thread copies the list, a purchase changes and broadcasts it, the older copy is sent last |
| `shop_names` | `Buy` refreshes the buyer's inventory (`RShop.cpp:90`) | the slot is found by name among all slots, also those that a player has left |
| `inventory_shared` | `UpdateInventoryDB` stores the inventory of a player (`RIenventory.h:31`) | a slot has the name of its new player and still the items of its last one |
| `inventory_lost` | `Disconnect` synchronises the database (`RIenventory.h:20`) | a save that began earlier is written later, with fewer units |
| `session_stalled` | a refused send is handled as the end of its connection (`ClientInfo.h:236`) | nobody handles it; it blocks the queue of the next client of the slot |

The first is repaired by the next reset (`ViewsRepaired`); the fourth is repaired
only while the player stays (`EventuallySaved`), and it is the one way to lose items
besides failures and late requests (`NothingLost`). The last is for ever, in every
instance (`StalledForEver`).

## 5. Theorems

For every number of slots, packets, items, offers, workers and messages, under the
assumptions on constants that the modules name:

* **`PacketManagerProofs`.** `TypeCorrect`. `QueuesAlwaysAgree`: each push adds one
  index and one packet of the same slot, each pop takes one of both; the lemmas of
  `CountingProofs` say what appending and removing do to the number of occurrences
  (by cardinalities of finite sets: no induction is needed). `ImplementsFifo`: the
  state mapping `Waiting` takes the i-th index to the packet at its rank in its
  user's queue, and each step of the code maps to a step of `PacketFifo` or to none.
  `JoinAlwaysSeesItsUser` and `RegistryAlwaysFollowsEvents`: the registry with the
  packet at hand and the events in the queue applied to it is where the last event puts
  each slot. Requests may be of any type; what one of a system type does concerns its
  own slot only, which is then among those that the second theorem leaves out.
* **`ShopLedgerProofs`.** `LedgerAlwaysBalanced`: in the abstract shop, lots on the
  shelf are distinct and among those used, lots not used have sold nothing, and what
  is left of an offer and what was sold of it make a full lot, with one unit more for
  each purchase of -1; for counts of any int, since an offer that wraps leaves the shelf.
* **`ShopProofs`.** `TypeCorrect`. `PurchasesAlwaysAtomic`: the offers in the list
  have distinct lots among those stocked; each step then maps to one of the ledger,
  `Buy` to the purchase (or, with -1, to the raise of an offer) and `CreditBuyer` to
  none, whether or not a reset came in between. No assumption is made of the counts but
  that they are ints.
  `LotsAlwaysBalance` follows from both. `OwnersAlwaysSee`, for slots whose names are
  disjoint (`NamesAreUnique`): the only view that may be out of date is that of the
  buyer whose purchase is under way, and the lookup by name leads back to him.
* **`InventoryProofs`.** `TypeCorrect`: a table is only ever created for a name that
  was announced. `AlwaysOnlyBoughtItems`, for slots that serve one player each
  (`OnePlayerPerSlot`; a player may have several slots): what either thread has read
  and will write is of the player it writes it for and no more than he has bought
  (`SaveInv`); what was read from a table is added to a slot that has none of the item
  (`LoadInv`), which needs that purchases are made by the thread that loads; and a slot
  without a name, too, holds no more than its player bought (`OwnInv`). Purchases are of
  any int, and nothing is claimed of players with a sum that wrapped. `AlwaysNothingLost`, for slots that serve one player each and players that use
  one slot each (`OnePlayerPerSlot`, `OneSlotPerPlayer`): while nothing has happened
  after which it promises nothing (`Careful`; then no count is below one, `StockInv`),
  a slot and what is still to be loaded
  into it are all that its player bought (`Whole`); its table is so too, with the rows
  that the save of Disconnect has still to write, whenever nobody will buy before the
  table is read again (`InTable`); and a copy that the synchronisation thread has still
  to write then is up to date (`Fresh`). The last is what a late copy would break.
* **`SessionProofs`.** `AlwaysSendsInOrder` and `AlwaysFreesWhatWasSent`: the queue
  holds the last messages given to `SendMsg`, at most one send is pending and it is
  the front, and nothing behind the front was ever sent. Only `SendMsg` and
  `SendCompleted` touch the queue, so closing and reuse need no case of their own.
  `SlotTypeCorrect`, `AlwaysOneReader` and `AlwaysEveryEndAnnounced`: what may be
  pending in each phase of a slot's life (`LifeInv`), and that the one receive is
  either pending or with one worker (`ReaderInv`).
  `AlwaysWatchedUntilRefused`: step by step, with `LifeInv` for the accept that begins a
  session. `StalledForEver`: a queue with messages and no send pending sends nothing
  ever again, so what `session_stalled` shows on an instance is so for all. `SlotNeverLost`
  is the safety behind `OfferedAgain`: no race of `Close` and `PostAccept` leaves a slot
  with a time stamp that keeps the accepter away and neither client nor pending accept.
  `SlotImplementsSlotEvents`: that a session ends at most twice needs a count: the
  workers about to close, the ends pushed, and the operations that may still make a
  worker close (one receive, one send) are together never more than two.
* **`FramingProofs`.** `HeaderRoundTrip`, for every 32-bit integer. `TypeCorrect`,
  `AlwaysDeliversTheStream`, `NeverHoldsBack`, `AlwaysReadsWhatCame`, for all streams
  and sizes of the buffers: what was handed over, the rest and what is unread of the
  receive are the stream up to `arrived` (`InStream`), and a rest is shorter than the
  packet it begins, so a header is found exactly where a packet starts. `TypeCorrect`
  holds of all receives, the others of those that are `clean`.
* **`ReplicationProofs`.** `TypeCorrect`, `RegistryAlwaysFollows` (the last event of a
  slot is in the queue or is what the registry says), `PlayersAlwaysMeet` (of two
  clients the one whose CONNECT is handled later finds the other in the registry; a
  newcomer who has not been sent his messages yet is `joining`), and, while slots are forgotten before they are used again, `AlwaysToldOnce`,
  `AlwaysJoinFirst` and `PositionsAlwaysFollow`.

None of the invariants is inductive by itself: the strengthening is the conjunction
named in the module (for instance `SendInv` in `SessionProofs`), shown to hold
initially and to be kept by every action, one lemma or step per action.

Only model-checked: all liveness (`EndReturns`, the fairness of `ServesInOrder`,
`ViewsRepaired`, `EventuallySaved`, `OfferedAgain`, `Returns`), which is beyond the
prover. Every safety property of a passing run is proved; three of them under a
condition on constants that the run's configuration meets: `OwnersSeeInventory`
(`NamesAreUnique`), `OnlyBoughtItems` (`OnePlayerPerSlot`) and `NothingLost`
(`OnePlayerPerSlot` and `OneSlotPerPlayer`). That `Inventory` has a slot at all is an
assumption of the module. That the slots of `Replication`'s network layer are each what
`Session` implements is by construction: they share nothing, and each step is of one.

## 6. Plan

Order: what the program is for first (dispatch, shop, inventories), then the network
below it, then the rest. Done: sections 2 to 5. What could still be added:

1. The receiving side of the Unity client, which takes what one `Receive` brings for
   one packet, behind the sending side of `Session`.
2. `Inventory` and `Shop` composed: rows that the shop takes for arbitrary would be
   those of the tables.

## 7. Not modelled

* `RPing`: counts pings for a line of the log and sends nothing. `RShop::Sell` and
  `RReplicationPlayer::Des` are empty.
* `RedisManager`: the call that starts it is commented out, so its threads never run
  and its queues stay empty.
* Packing and unpacking beyond the length (`PacketUtil`, `Route`), protobuf: a packet
  is a record. Most lines of the repository are generated protobuf code
  (`*.pb.h`, `*.pb.cc`), the headers of protobuf, hiredis and MySQL under
  `src/CppCommon` and copies of them; the program's own code is a few thousand lines,
  most of which the models name.
* The Unity client's receiving thread, which loses packets that come together, and
  its views, which keep the places that a shorter list leaves over: the server is
  checked up to what it hands to the socket. Clients need not be Unity's: they may ask
  for any count of any item, before they have a name and after they have left (`Shop`,
  `Inventory`), for any type of packet (`PacketManager`), and send bytes that are no
  packet (`Framing`, whose properties are about streams of packets all the same).
* What requests of a system type do to the players that clients see: `Replication` has
  none. `PacketManager` has what they do to the registry, and `Shop` and `Inventory`
  register and remove any slot at any time, whoever asked for it.
* Start-up and shutdown of the network threads, the completion of a failed
  `AcceptEx`, and memory.
* Item names and descriptions, coordinates; MySQL and Windows beyond what section 2
  says.

## 8. How to run

In this directory: `tlc -config MCShop.cfg MCShop` for a run,
`tlapm ShopProofs.tla` for the proofs of a module. The community modules must be on
the library path.
