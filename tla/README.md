# A verification development of snownet

snownet is a C++ descendant of skynet: an actor runtime. Services exchange
messages through per-service queues; a few worker threads share the queues out,
a timer thread and a socket thread feed them, and most services are Lua states.
This directory holds TLA+ modules that model its core, TLC configurations that
check them on small instances, and TLAPS proofs of what matters most.

## Inventory

| part | source | state | operations | what is hard |
|---|---|---|---|---|
| message queue | `snownet-src/snownet_mq.cc` | circular array, `in_global`, `release`, overload threshold; the global list of queues | push, pop, expand, mark, release, drop; global push and pop | one flag decides whether a push links the queue; expansion with `head` anywhere; release races with the last pushes |
| dispatch | `snownet-src/snownet_server.cc` | contexts with a reference count, `init`, total of contexts, exit monitor | new, grab, release, push, send, message_dispatch, exit, kill, abort | workers, senders and retirements interleave at every lock; a queue outlives its context |
| handle table | `snownet-src/snownet_handle.cc` | slots by handle, next handle, sorted names | register, retire, retireall, grab, findname, namehandle | doubling while contexts come and go, wrap of handles, handle set after registration |
| threads | `snownet-src/snownet_start.cc` | sleepers' count, quit flag | thread loops, wakeup, stop | unlocked reads, lost wakeups, orderly end |
| locks | `rwlock.h`, `spinlock.h` | two atomic counters; a flag | lock, unlock, trylock | every interleaving of atomic reads and updates |
| socket server | `snownet-src/socket_server.cc` | slots by socket id, write lists, direct write buffer, command pipe, requests in flight | open, listen, start, close, shutdown, send, UDP; poll | workers write directly while the socket thread sends or closes; ids are reused; partial writes |
| timer | `snownet-src/snownet_timer.cc` | five-level wheel, 32-bit tick | timeout, update | cascades at level boundaries, wrap, unlock while delivering |
| harbor and cluster | `service-src/service_harbor.cc`, `service/cslave.lua`, `service/cmaster.lua` | connection state per node, global names, waiting messages; the slave's connections, names, waiters; the master's table | send by handle or name, handshake, receive, close; register, query, link, connect | order and fate of messages queued before a name or a connection is known; who dials whom while nodes start; who is told what when one goes |
| gate | `service-src/service_gate.cc`, `databuffer.h`, `hashid.h` | connections, buffered chunks | framing, forward, kick | packets split anywhere |
| Lua runtime | `service-src/service_snlua.cc`, `lualib/snownet.lua`, `lualib/snownet/queue.lua` | coroutines by session, sleepers, wakeup queue, failed calls, fork queue, requests to answer | call, ret, response, sleep, wait, wakeup, fork, timeout, exit, dispatch; critical sections | late answers, early wakeups, reuse of coroutines, failures half way, peers that die |
| multicast | `service/multicastd.lua`, `lualib/snownet/multicast.lua`, `lualib-src/lua-multicast.cc` | groups of subscribers per node, the nodes known to the owner, reference counts of packages | subscribe, unsubscribe, publish, delete | a subscription waits for the owner while others of its node come and go; one block of memory shared by services |
| socket channel | `lualib/snownet/socketchannel.lua`, `lualib/snownet/socket.lua` | the channel's socket, queue of requests, dispatch thread, who connects; the socket entries with the coroutine suspended on each | request, connect, close, changehost; open, read, close, socket messages | every call yields in the middle of something; answers are paired with requests by order alone |
| Lua services and libraries | `service/*.lua`, `lualib/snownet/*.lua`, `lualib-src/*.cc` | launcher, service manager, data center, cluster, shared objects, codecs | | reference counts shared by services; waiters that must be woken |
| modules, environment, log, daemon, endless-loop monitor | the rest of `snownet-src` | | | start-up, I/O, reports |

How they meet: a service's callback runs in a worker and calls into
`snownet_server.cc` (send, launch, kill), which uses the handle table to find a
context and pushes to its queue; the queue links itself in the global list; a
worker pops it. The timer and the socket thread push to queues too and wake the
workers. Contexts are reference counted, by the handle table and by whoever has
grabbed them; the queue of a deleted context comes back through the global list
so that a worker drains it and tells the senders. A Lua service turns each
message it is dispatched into the resumption of a coroutine. A message whose
handle is of another node goes to the harbor service, which the slave service
tells of connections and names; the slaves find each other through the master.

What makes each part correct is stated by the properties below, and
`PROJECT.json` lists under "hazards" where the code is exposed, line by line,
with the property that watches each place or the reason none does yet.

## Modules

**Mailbox** - what a message queue promises: messages leave in order of
arrival, one thread holds the queue at a time, only an empty queue may be
parked unlisted, only a closed and drained one is freed.

**MessageQueue** - `snownet_mq.cc` for one queue, from `snownet_mq_create` to
`_release`. The variables are the fields of `struct message_queue`; `listed`
counts its links in the global list, `held` says that a thread has it, `freed`
that it is gone. Every function takes the queue's spin lock for its body, so
each is one action. It implements Mailbox with the array read from `head`. The
call sites (dispatch, launch, deletion) are guards: who may pop and when.
`reported` is a history variable: the largest backlog that has been reported
since a worker last found the queue empty.

**Actors** - what the dispatch promises the author of a service: one message at
a time, in order, after its init succeeded, none after its instance is
released; messages left over are bounced, and each sender that can be reached
finds an error in its mailbox before the next one is bounced (`owed` is who is
still to be told).

**Dispatch** - `snownet_server.cc` with the global list and several queues. A
context is `context`, `ref`, `init`; its queue `messages`, `in_global`,
`release`, `queue`. Every thread has a program counter `pc` and the locals of
the functions it is in. An action is one step between two points where another
thread could see the difference: a body under a lock, or one atomic counter
operation. For instance `snownet_context_message_dispatch` is `Fetch`, `Grab`,
`MqPopMessage` or `MqPopEmpty`, `MqLen`, a callback (`Send`, `Launch`, `Kill`,
in any order and number up to the bound), `Return`, `Swap`, `Requeue`, and
`Put` for the release; the last `Put` leads to `Mark` and `Free`
(`delete_context`). It uses the FIFO that MessageQueue is shown to implement
and the handle table as the set of live handles. Launching up to the init
callback is one action, because nobody can name the handle before; what may
happen between the stages of a launch after that is not merged. It implements
Actors.

**HandleStorage** - `snownet_handle.cc`: the slots, the search for a free one
from `handle_index` with its wrap at `HANDLE_MASK`, the doubling, the binary
search of names; `Register` and `Assign` are apart because
`snownet_context_new` stores the handle after the lock is released. The names'
array is a sequence (its capacity is left out), the harbor byte is left out.
`fault` records a failed assertion or a NULL context.

**WorkerSleep** - `snownet_start.cc`: the loops of the worker, timer, socket
and monitor threads as program counters; what is done under the mutex is one
action, the unlocked looks at `sleep` are steps of their own.

**TimerWheel, Alarms** - `snownet_timer.cc`: filing by expiry, the cascade of
at most one list per tick, the delivery of a tick's list with the wheel
unlocked, and what the clock's readings make of it. Lists are sequences; a
critical section is one action. It implements Alarms, where a timeout is an
entry in an agenda. The code first looks at the list of the old tick, for
timeouts of zero ticks; these are answered without the wheel, and
`FiledByExpiry` says that the list is empty then, so the model makes that a
guard of `Tick`.

**SocketServer** - `socket_server.cc` for TCP. `slot` holds the fields of
`struct socket_st` with `dw` for the direct write buffer, `sending` and `tag`
for the two halves of `sending`, and `watch` for what the poll waits for;
`pipe` is the control pipe; `poll` says where the socket thread is and
`calling` where each caller is; `open` and `wire` are the kernel's. Callers:
`Reserve`, `Reserved` (connect and listen), `Request` (close, shutdown, start),
and for a send `Send`, `Look`, `Try`, `Recheck`, `DirectWrite`, `Store`, or
`Inc` and `Push`. Socket thread: one action per command (`Open`, `Listen`,
`Start`, `Close`, `SendSocket`, `Dec`), `SendBuffer`, `SendList` (one write),
`AllSent`, force_close as `BeginClose` and `EndClose` with the lock between,
`Wait` and the events. The lock is `dw_lock`, and trylock is what it is: it
succeeds if the lock was held. A failed write is the huge unsigned number the
code makes of it (`Again`). Services send only to sockets they were told are
open or accepted, and any call may name an id that is closed by then. Where the
code asserts, `poll.pc` becomes "abort" and the thread stops. `lost` is a
history variable: the socket thread has taken a slot from who is reserving it
(below).

**LuaService** - `snownet.lua` for one service, between the messages it is
dispatched. `pc` says where the dispatch function is: idle, in the coroutine
`cur`, in the two calls that `suspend` makes of `dispatch_wakeup` and
`dispatch_error_queue`, in the loop over the fork queue. The tables have their
names of the source; `frame` is what a coroutine is stopped at and cleans up
when it goes on, `running` is `running_thread`, `owed` the calls of
`dispatch_error_queue` still on the stack, and `kicks` the empty functions that
a failed coroutine forks. A suspension is one action, what follows it others;
between two suspensions the running coroutine makes any calls of the library
(`Call`, `Sleep`, `Wait`, `Timeout`, `Fork`, `Wakeup`, `Ret`, `Response`,
`Respond`, `Enter`, `Leave`, `Throw`, `Exit`, `Finish`) in any order. Peers
answer, fail or die at any time, and timers fire late. The next fork is any of
them, as `next` promises no order. `asked` is what the peer has been answered,
kept for `AnsweredOnce`; `doubled` that a token has been put in the wakeup
queue twice. Messages come in the batches of
`snownet_context_message_dispatch`, which hands the rest of its batch to a
service that has exited: `MessageDone` returns to idle after an exit too, and
`young` are the sessions asked for since the batch began, whose answers, after
the exit, no longer come. Where the unpack of a message raises, its coroutine
is created and charged with the session but never starts (`Stillborn`).

**Harbor** - `service_harbor.cc` on every node. `peer[h][x]` is h's `struct
slave` for x with what h has written to their connection (`wire`); `name` is
the table of names with the messages that wait for them; `box` and `text` are
what the slave and the harbor have sent each other. `sent` and `got` number the
messages by handle. A packet is read whole.

**Cluster** - `cslave.lua` on every node and `cmaster.lua`, composed with
Harbor. `phase` says how far a node's start is, `slaves`, `globalname`,
`queryname`, `monitor`, `slave_node` and `global_name` are the sources' tables,
`up` and `dn` the connections to the master. An action is what a coroutine does
between two yields: reading one package from the master, the answer to a
`socket.open`, accepting one connection, one command. Connections break, nodes
lose the master and crash.

**Multicast** - one channel: `multicast.lua` in the subscribers and the
publishers, `multicastd.lua` on each node, and the counts of
`lua-multicast.cc`. `chan` is what a service has of the channel, `inbox` its
undelivered messages, `to[n][x]` what daemon n has yet to read from x, in
order; `calling` are the subscriptions that wait for the owner. A publication
that a subscriber receives is `Unpacked`: its dispatch function then runs, and
may wait, until `Handled` closes the package (`handling`), or the unpack raises
and nobody will close it (`lost`, a history variable, which also takes what a
service has in hand when it exits and what is sent to it after). `published` and
`handed` count what went out and what each subscriber was sent, `crossed`
records the crossing that `NothingMissed` excepts.

**SocketChannel** - `socketchannel.lua` in order mode with the part of
`socket.lua` under it. Coroutines run until they yield, so that one step is the
code between two points where the choice is real, `cur` is who runs, and
`ready` the wakeup queue; that a suspension resumes exactly the next one woken
is what LuaService establishes. `pool` is `socket_pool` together with what a
coroutine still holds of an entry that has left it, `pending` is `__thread`
with `__request` beside it, None in it the close signal. A caller goes through
`Check`, `Seek`, `Try`, `Opened`, `Establish`, `Finish`, `CheckAgain`, `Send`;
the dispatch thread through `Loop`, `Pop`, `Read`, `Got`, `Take`, `Deliver` or
`Fail` and `Broken`. `server`, `wire` and `closing` are the socket thread and
the peer; its events come in order through `inbox`, where a `snownet.yield`
queues too. Callers catch the errors that requests raise.

**RWLock** - `rwlock.h`, one action per atomic read or update, with the
counters as chars.

**MessageQueueProofs, DispatchProofs, WorkerSleepProofs, SocketServerProofs,
LuaServiceProofs, MulticastProofs, HandleStorageProofs, TimerWheelProofs** -
theorems and proofs.

MC modules instantiate these for TLC. Operators marked "mutant of" are
deliberately wrong variants of the definition named: each property must fail
when its variant is put in place.

## Runs

| run | instance | what it shows |
|---|---|---|
| `mq_ring` | capacity 2, two messages, at most 5 waiting, overload from 1 | two expansions with `head` in every place; the threshold is doubled several times in one pop, and what is reported rises; the queue is parked, announced, marked and drained at every stage |
| `dispatch` | workers of weight -1 and 0, a timer, two root services (one the exit monitor) and one to launch, 2 operations (sends, launches, kills), weak fairness | reference counts and the total of contexts, places of queues, refinement of Actors (with the error to the sender of a bounced message), backlogs drain, retired services are freed |
| `handle_storage` | a table of two slots that doubles, three handles, five services, one launcher, an aborter, two names | handles and names are found, past the wrap too; abort misses nothing registered as its last pass began |
| `worker_sleep` | three workers, two services, three pushes, with fairness | sleepers counted, no lost work, everybody ends |
| `timer` | blocks of 2 ticks, levels of 2 lists (32 ticks), two timeouts, delays 0, 1, 2, 5, 9, 15, the clock up to 2 ticks ahead or stepping back, with fairness | filing, refinement of Alarms (answered once, at their tick, in the order of the requests), every timeout fires |
| `socket` | two slots, three ids (the third takes the first's slot), two callers, four calls, messages of two units, one failed write | requests in flight and waiting bytes counted, one caller's messages in order |
| `socket_trylock` | the same without failed writes | expected violation, below |
| `lua` | three coroutines, a peer that asks once and may die, three sessions, two tokens waiting, sections two deep, the batch that goes on after the exit | who waits is registered once, nothing a message sets off is left before the exit, the request is answered once, the queue is exclusive |
| `cluster` | two nodes that ask two things of any kind, faults included; two that register a name and send to it, three asks; three nodes that only meet; with fairness | order by handle, waiters remembered, the nodes form a mesh |
| `multicast` | one subscriber on the owner's node, two on another, five asks (subscribe, leave, publish, delete, exit), two publications, unpacks that raise, dispatch functions that wait | packages counted exactly, nothing missed |
| `channel` | two requests, one of them answered in two pieces, and a third call of any kind, one refused connection, with fairness | a request gets its own answer or the error, one coroutine connects, every call ends |
| `rwlock` | two writers, a reader | expected violation, below |

Bounds. Two workers and one outside thread give every pairwise race of dispatch
against dispatch, send and retirement; a worker of weight -1 takes one message
a time and one of weight 0 the whole backlog, other weights take less of it.
Two operations allow a launch and the death of the newborn or of its creator,
and a send to a service that dies, in all orders; the safety properties have
also been run with three operations and no monitor, and the liveness properties
with two services and four. In `worker_sleep` three workers separate "some
sleep" from "all sleep". In `handle_storage` the table starts with two slots
instead of four, and there are three handles instead of 0xffffff, so that the
table doubles, the handles wrap and the slots run out; the arithmetic is the
same for every power of two. Two doublings (seven handles, four services) and
three names have been run as well. The symmetry used is that of contexts, which
the code never compares. In `timer` the two timeouts are asked for at every tick of the
counter, so that each delay crosses each boundary of each level and the wrap;
the delays have one of every level, and no more than half the range, as an
`int` of the 32-bit tick. In `socket` two units make a partial write, two
callers race with each other and with the socket thread, two slots let a
listening socket accept and a slot be reused, and four calls are a listen, a
start and two sends, or a connect, sends and a close. A wait returns one event;
an event that is stale when its turn comes is then the write half of one whose
read half came first. Larger instances (five calls with one socket; two events
a wait) and random simulation with seven calls have found nothing else. In
`lua` two coroutines can wait for each other and a third comes from the pool,
and three sessions are one for each of them to block on, or a call, a sleep and
a timeout of one; requests and the exit count among what the three sessions
bound. The one peer is caller and callee: it asks, is called and dies, so that
its end meets both a call to it and a request of it. The coroutines are interchangeable, except that the code
takes the last one recycled, which the model leaves open. In `cluster` the
scenarios (`Crowds`) are separate initial states: three nodes are needed for
one to learn of another that starts after it while it still waits for a third,
and two for everything that concerns a connection; all kinds of asks and faults
in pairs, and the name's journey with one more. In `multicast` five asks are
two subscriptions, an unsubscription that leaves the node, a third subscription
and a publication; two packages let one be bound while another is on its way.
In `channel` two requests are one that is read for and one that waits, and the
third caller disturbs them; a coroutine whose call has returned may call again
before anybody else runs, which a third caller stands for. The safety
properties also hold with a fourth (two requests, a close or changehost, a
request or connect; 2.3 million states). `CHECK_DEADLOCK FALSE` is set where
the modelled threads may all be done (`handle_storage`, every service launched
and retired), where the violated lock would stop (`rwlock`), and where a lock
left set stops the socket thread in force_close, or an assertion ends it
(`socket*`); in `lua` the service exits, and in `cluster`, `multicast` and
`channel` the services have asked all they may.

Fairness. Every thread is a system thread in an endless loop: weak fairness of
its next step. Callbacks are assumed to return (a callback that loops is what
the endless-loop monitor reports), and their number of operations is bounded.
No fairness is given to spurious wakeups, nor to events arriving at the socket:
liveness then rests on the timer's tick, as in the code. The exit command has
strong fairness in the socket thread's poll, since it stays in the pipe while
other events are handed over, and the poll reads the pipe before the sockets.
In `cluster` the nodes and the master together are weakly fair
(`WF_vars(System)`): a message that lies in a queue or on a connection is read
sometime, since between what services ask the system comes to rest. No fairness
is given to what services ask or to faults, and `Meshed` is stated without
faults: a peer that dies before it has dialled leaves the slave's
`snownet.wait()` without end. In `channel` the service's thread is weakly fair
as a whole (one message or coroutine after the other), a connect succeeds or
fails sometime, a peer that owes an answer gives it or closes (`Honours`; an idle
connection may stay open for ever), and the socket thread serves close requests; a peer that is silent for ever would leave its
request waiting, for the channel knows no timeout.

## What the violations show

* `rwlock` / `OneWriter`: `rwlock_wlock` lets two writers in. Its second loop
  (`while (lock->write == 0)lock->write++`) is left at once if another writer
  has incremented in between, and the test for 1 that follows cannot tell whose
  increment it sees. HandleStorage takes the table's lock at its word, so that
  its properties are those of the table under a correct lock.
* `socket_trylock` / `BlockedByDirectWrite`: `spinlock_trylock` returns the
  flag's previous value. On a free lock it fails and leaves the lock set; on a
  held one it succeeds. Two senders and the socket thread then write to one
  descriptor, a lock left set stops force_close, and the write watch a direct
  writer asked for may be switched off. `SendingCounted`, `BacklogCounted` and
  `OwnOrder` hold all the same: the double check and the count of requests
  carry them.

What the code does elsewhere that a reader of the models will meet, and that
the passing runs take as it is:

* Two launches in flight while a third doubles the table break the assertion of
  `snownet_handle.cc:65`: the handle is stored in the context after the table's
  lock is released (`Assign`). The run of HandleStorage has one launcher, which
  is how the system runs when every launch goes through the launcher service.
* After 0xffffff handles the search for a slot skips one residue; the doubling
  may then read a NULL slot (`fault = "null"`, which the run reaches).
* The result of `write` is unsigned (`socket_server.cc:1710`, `678`), so that a
  failure moves the buffer back by one; what is sent begins before the message
  (`Again`).
* `reserve_id` takes a slot with a compare-and-swap and writes the new id later
  (`socket_server.cc:397`). Until then the slot answers to the id of its last
  socket. A late close of that id ends the program in force_close's assertion,
  or, if requests to it are still on their way, half closes the slot under the
  caller who is reserving it; `open_socket`, failing on the first of two, frees
  the slot a second time. Two ids can then share a slot, `new_fd` forgets what
  is in flight, and the assertion of dec_sending_ref fails; a message written
  directly can then overtake one that waits in the pipe. The instance of
  `socket` is too small for either; both were met as steps that the proofs of
  `SendingCounted` and `OwnOrder` could not make, and the properties are stated
  until it happens (`lost`).
* Messages to a name that have been moved to the queue of a node not yet
  connected are sent without a handle, and come back as errors
  (`DispatchName`). Messages to a name whose node is in its handshake overtake
  its queue.
* A harbor keeps the descriptor of a connection it has lost: later messages go
  nowhere, and the error that `service_harbor.cc:532` means to send is not
  sent. The master's notice of a node that is down does not reach the harbor
  either.
* A name registered twice is announced with the second address while the master
  keeps the first (`cmaster.lua:79-85`).
* A wakeup token put in the queue twice stops `dispatch_wakeup`: the tokens
  behind it wait for the next suspension (`doubled`).
* `snownet.exit` drops the fork queue so that "no fork coroutine can be execute
  after snownet.exit" (`snownet.lua:294`), but `snownet_context_message_dispatch`
  hands the rest of its batch to the service all the same. The handlers of these
  messages fork, and their forks run; they meet the wakeup tokens and the failed
  calls that the exit has left, since QUIT dispatches neither queue; and a
  request that is first handled then stays open if its handler waits, for the
  answers it waits for are dropped with the queue. So `NothingLeftBehind` and
  `QueueIsExclusive` promise what they do about the queues until the exit, and
  `AnsweredOnce` has requests that came "late". A session that is put in the
  error queue twice, as a call that is left there by the exit can be, makes
  `dispatch_error_queue` resume nothing and throw.
* A request whose unpack raises is charged to a coroutine that never starts
  (`snownet.lua:586`): it is answered only by the error that the exit sends.
* Unsubscribing as the last of a node while another of the node waits for the
  answer to its SUB makes the owner forget the node (`crossed`).
* A subscriber that exits with messages undelivered, or with a dispatch function
  that waits, keeps their packages; so does one whose unpack raises, which
  `multicast.lua:78` calls before `pcall` protects anything, so that `mc.close`
  in the next line is not reached (`lost`). A dispatch function that yields
  holds its package until it returns. `mc_remote` leaves the pointer's block.
* A socket channel can lose a request, in ways that its first comment ("capture
  socket error in request/response transaction") excludes. `Abandoned`: the
  peer sends the first piece of an answer and closes, another request's write
  fails, and its `socket.close` waits for the reader; the piece wakes the
  reader, `suspend` (`socket.lua:36`) wakes the closer, the reader reads the
  second piece and is suspended again, the closer removes the entry, the close
  message finds none. The reader waits for ever, and so does every later
  connect, for the dispatch thread to end. `Forsaken`: a dispatcher that has
  delivered an answer finds `__sock` gone (`socketchannel.lua:166`) and ends
  with requests queued. `strayed`: the next connection inherits them, pairs
  them with the wrong answers, or takes an old close signal and stays without a
  dispatcher. OwnAnswer and CallsEnd are stated but for these, and show that
  there are no others.
* A `close` while a connect is under way is not looked at again: the connection
  is made and stays open on a closed channel.

## Proofs

`MessageQueueProofs` proves, for every initial capacity, set of messages and
bound, `TypeOK`, `ScheduledOnce`, `NothingStranded`, `ReportsRise` and
`ImplementsMailbox`. The inductive invariant has two parts for the queue. `RingInv` says that the occupied part of the
array, from `head` on, holds messages (never an unwritten slot); with it the
array is a sequence, and the lemmas `PushAppends` (with and without expansion)
and `PopTakesOldest` show what push and pop do to it. `PlaceInv` says where the
queue can be and what its flags then are: a live queue that is held or listed
has its flag up, one that is neither has it down, is unmarked and empty.
`ScheduledOnce` alone is not inductive: without "held or listed means flag up"
a push could link a queue twice. The proof uses `QueueAssumption`.
`TypeOK` and `ReportsRise` need `LoadInv`: what has been reported is not above
the threshold, what is to be reported lies between the two, and the threshold
is above 0, without which doubling it would go nowhere. That the loop of
`snownet_mq_pop` ends, with a threshold that covers the backlog, is
`DoublingEnds`: its turns are a recursive function, shown to grow by the least
counterexample in a set of naturals, because the library's induction theorem
takes an operator.

`DispatchProofs` proves every safety property of Dispatch - `TypeOK`,
`ReferencesCounted`, `QueueHasOnePlace` and the refinement `ImplementsActors` -
for any finite sets of workers, outside threads and services, any operations
and any weights. `DispatchAssumption` says that the sets are finite, workers
and outside threads are distinct, and the weights are -1 or a natural number
whose power of two is a positive number. The inductive invariant has four
parts.

- `ThreadInv` says, per thread, which locals are set at which program counter,
  with a call of send or release taken as what the caller will return to
  (`At`). Without it nobody knows that the context a thread puts back is the
  one it grabbed.
- `RefInv`: a context's count is the number of threads that hold a reference
  plus one for the handle table, so at 0 one thread and no other deletes it and
  its queue is marked exactly then. `TotalInv` counts the live contexts.
- `PlaceInv`: a queue that is announced or marked is in the global list or in
  one pair of hands, any other is in neither and is empty. It rests on
  `RefInv`: a push to a queue nobody holds would link it a second time.
- `OpenInv`: whoever can be found has been through its init, or its launcher is
  still on the way to open it or retire it; nobody dispatches one that has not.

That an action touches the locals of one thread only (`StepIsLocal`) and the
lemmas on cardinalities carry most of the steps. For the refinement every
action is mapped to its action of Actors or to a stutter; the messages a thread
drops one at a time are those Actors bounces. The error it then sends is what
Actors owes: `ThreadInv` says that it comes from the queue being drained, and
its grab and its push are `Tell`, or `TellNobody` when the sender has been
retired (`OwedSame`, `ErrandEnds`, `GrabTells`).

`WorkerSleepProofs` proves `TypeOK`, `SleepersCounted` and
`NobodySleepsPastQuit` for every finite number of workers. The invariant adds that the
timer is past its check once quit is raised, that the total was 0 then and
stays 0, and that the count equals the cardinality of the workers between the
increment and the decrement; the leaf facts about cardinality come from
FiniteSetTheorems.

`SocketServerProofs` proves `Shape` (the types, with who may have which slot,
request or event in hand), `BacklogCounted`, `SendingCounted` and `OwnOrder` for
any number of callers, slots, ids and calls, partial and failed writes included;
the one assumption is `SocketAssumption`.

- `Shape` is inductive by itself: the pipe holds requests about ids that were
  handed out, a caller's request is one it may make, and the socket thread's
  slot is still its own at every stage of a poll, since only it closes.
- `BInv` is `BacklogCounted` for every slot. The sizes of lists are summed, and
  a send, a partial write, a move between the lists or the direct write buffer
  changes both sides alike.
- `SendingCounted` says that `sending` counts the requests on their way to the
  slot's socket (`CountOK`). That needs to know who may still speak of the slot
  while it changes hands: `FreshOK` says that an id without a descriptor is
  with one caller or in one request, alone on its reserved slot, and known to
  nobody who may send. Both hold as long as the state is `Sound`: no assertion
  has failed and no slot was lost. `HashAndTag` is why a late request is never
  counted for the slot's next socket: slot and tag together tell the id.
- `OwnOrder` rests on one more invariant, `OInv`, which was run through TLC
  first. A message is in a caller's hand, in the pipe, in the slot (the high
  list, the low list, the rest of a direct write) or on the wire.
  `HandOK`: what a caller has in hand is the latest of its messages anywhere.
  `LineOK`: for the socket that has the slot's descriptor, what is on the wire
  or in the hand of a caller past the double check comes before the rest of a
  direct write, that before the high list, and that before the pipe; while the
  socket thread sends, when the rest of a direct write can no longer be put
  before the high list, the two hold nothing of the same caller. A caller passes the double check only when lists, rest
  and `sending` are empty, and by `SendingCounted` the pipe then holds nothing
  for the socket: this is how the count carries the order, and why the order is
  lost where the count is. The broken trylock does no harm to it: of two callers
  that write to one descriptor at once each has its own latest message, and the
  property is about the messages of one. `DescriptorOK` says which slots
  have an open descriptor, so that a new socket begins with an empty line.

`LuaServiceProofs` proves every property of LuaService - `TypeOK`,
`RegisteredOnce`, `NothingLeftBehind`, `QueueIsExclusive`, `AnsweredOnce` - for
any finite number of coroutines and requests, any peers and any bounds. The
assumption `LuaServiceAssumption` is that nil and the library's marks are no
service, request or coroutine, and that coroutines and requests are finitely
many; the invariants were run through TLC before they were proved.

- `Base` is inductive by itself. None of the five properties is: that a token
  names a sleeper, say, needs to know who else may have been resumed. `RunInv`
  says that the current coroutine is the running thread, which is what Fork has
  to restore; `RegInv` that sessions name their coroutines and coroutines their
  sessions, one to one, so that a resumption clears exactly one entry;
  `WorldInv` that a sleeper's timer is still to come and that nothing can
  answer a wait, so that BREAK is left only where it will be taken away;
  `ErrInv` that, until the exit, the error queue holds calls that wait, each
  once (`ErrValid`), and that somebody is still owed its dispatch; `DepthInv` that a coroutine's depth is
  the queue's count. All resumptions (an answer, a token, an error, a fork) go
  through one lemma, `ResumptionKeeps`, all registrations through
  `RegisterKeeps`.
- `TokInv`, on `Base`: until the exit the wakeup queue holds sleepers, each
  once, and while it holds one a suspend is still to come - of the coroutine
  that runs, by the stack (`owed`), or by an empty fork. `NothingLeftBehind` follows at `idle`. Since
  an exit is final (`ExitIsFinal`), what follows it need not keep the invariant,
  which has to hold of every step before it.
- `QueInv`, on both, and until the exit: a queue with a thread and nobody in it has been handed to
  that thread, whose token is the only one in the wakeup queue among those that
  wait for it. Without "the only one" a thread could be woken while another is
  inside, where queue.lua's assertion would fail.
- `AnsInv`, on `Base`: a request is held by one coroutine or one closure, only
  while it is open or after the exit, and a coroutine of the pool holds none
  (`Charged`). Before the exit an open request is held; after it none of a
  living peer is open but those that came late, and these are held.

`MulticastProofs` proves every property of Multicast - `TypeOK`,
`PackagesCounted`, `NothingMissed` - for any nodes, any finite set of services
and any bounds. `MulticastAssumption` says that services are not nodes, each
is on one node, and None (Lua's nil) is no set of either. Most of the proof is
about the queues between services, daemons and owner: `Grown` and `Shrunk` say
what a message more at the end or less at the head does to whether a message is
in a queue (`In`), at most once (`Once`) and in which order (`NotBehind`), and
one lemma per action (`SubDoes`, `DelDoes`, ...) says which queues it changes.

- `Shape` and `GroupsOK`: each queue holds only what its sender can say; a
  group has services of its node, is counted right, and is dissolved rather
  than empty. `TypeOK` adds `AskedOnce`: a SUB is in one place of its way to
  the daemon, the owner and back.
- `MemberOK`: who is subscribed, or is to be answered, has no USUB on its way
  and is in its group, while the channel is there.
- `NodeOK`: the owner tells the end of a channel only after it (`EndOK`); it
  knows each node with subscribers, and a node says that its last one has left
  before it asks for the next (`RemoteOK`, until `crossed`): hence a subscriber
  has been sent all but what is in the queue of its node (`HandedOK`).
- `PackageOK`: a publication is in one queue towards the owner, or past it and
  then once in the queue of each node it is sent to, and where it is still to
  come its package is unbound. So `mc_bindrefer` never meets references of the
  same package, and the count it sets is that of the services it sends to.
  `CountOK`: from then on it is the number of services that use the package, by
  a message, by a dispatch function or by having lost it. A service has one use
  at most (`UseOnce`), so that each close ends a use (`UseEnds`), and the three
  numbers of `PackagesCounted` add up to that of the services (`HoldingsAre`).

`HandleStorageProofs` proves `RegisteredIsFound` and `AbortRetiresAll` with one
launching thread, `NamesAreFound` and `TypeOK` with any number, for any number
of services and aborters. `HandleAssumption` says that `HANDLE_MASK + 1` is a
power of two, of which the first size is a divisor greater than 1.

- `TypedInv`: the types, that the size of the table divides the number of
  handles (`SizeInv`), that a launcher between the two steps has a context and
  a handle (`LaunchInv`), and that the names are in strict order. The types
  rest on arithmetic: the handles tried in one search meet every slot but the
  first, before and after the wrap (`CandidatesMeet`), and a doubling leaves
  more slots than contexts (`DoublingKeeps`), so that the search after it
  cannot fail.
- `SlotsInv`: a context is at the slot of its handle, or of the handle its
  launcher still holds for it (`PendingInv`). A doubling keeps it only when no
  context waits for its handle (`DoublesReady`): it goes by 0 otherwise. With
  one launcher that is always so, since the one who doubles the table is the
  one who would store the handle; with more it is the hypothesis of
  `LateHandleIsAllThatBreaks`, and the collision above is what happens
  without it.
- `PassInv`: what an abort saw is not behind its scan. A retirement between its
  two locks, a new service in a slot already passed, and a doubling under the
  scan keep it: modulo the new size a handle is where it was or one old size
  further (`HalfIs`), never behind.
- The names: the recursions of the search and of the copying that a retirement
  does are shown to have values, and the right ones, by induction over the
  interval (`SearchFinds`) and the position (`OthersSorted`).

`TimerWheelProofs` proves `FiledByExpiry` and `ImplementsAlarms` for every size
of a block and a level, any timeouts and any readings of the clock.
`WheelAssumption` says that a level has at least two lists and that a delay is
shorter than the counter's range by more than one list of the last level, which
an `int` is by half the range. It is needed: a longer delay can end in the
present block of some level, where it would be filed and answered too early.

- Places are numbered -1 (`near`) to 3; a tick has a block at each level, and
  `Home` is the innermost level at which it shares the next block with the
  present. Quotients nest (`DivNests`), so the list within `Home` tells exactly
  the blocks (`BlockIs`).
- `BlockMoves`, `WrapMoves`, `NothingMoves`: of the timeouts ahead, a tick
  changes the place of those only that lie in the one list `timer_shift` files
  again - the outermost block to begin, or list 0 of level 3 at the wrap.
- `WheelOK`: what a list holds belongs there, and what is pending is in its
  list. It is inductive only with `Ahead`: a pending timeout lies at a later
  tick, or so far behind that the wrap comes first.
- `Due` is what a wheel has for a tick, in order. Filing a list again keeps it
  for every tick (`ShiftedOK`): what is due at one tick is in one list, and the
  list it is filed to held nothing due at that tick. A new timeout comes last
  at its own (`FiledLast`, `FiledOthers`), a delivery takes all that is due
  (`PresentIs`). With `Due` as the agenda each step is one of Alarms.
- What `add_node` does to a list is `Among`, a recursive function; that it has
  a value, keeps the order and goes through concatenations is shown by
  induction on the list (`ListInduction`).

Only model-checked: liveness (`BacklogDrains`, `RetiredIsFreed`, `WorkIsTaken`,
`EveryThreadEnds`, `EveryTimeoutFires`, `Meshed`, `CallsEnd`), which the prover
does not handle; and everything about Harbor, Cluster and SocketChannel.

## Not modelled

The parts marked so in `PROJECT.json`, and inside the modelled parts: message
payloads, sessions, logging and statistics; remote destinations; the logger's
reserved context and `snownet_context_dispatchall`; failed allocation; accesses
to freed memory (Dispatch keeps the flag of a freed context down and goes on).
Of the socket server: UDP, bind, options, warnings, statistics, the move of
`alloc_id` by a call that finds no free slot. Of the Lua runtime: tracing, the
packing of protocols, `snownet.init` and the loading of services, the coroutine
library for services. Of the cluster: LINKMASTER, local names, addresses,
packets cut by the stream, the bytes of the handshake. Of multicast: NEW,
several channels, the daemons' finding of each other.

The gate is a sequential service over bytes: its framing can be wrong (with
neither broker, agent nor watchdog the payload stays in the buffer and is read
as the next header), but not by an order of events, so a model of it would be
its arithmetic again. The Lua C libraries and the clients of databases are
codecs and protocols of one connection. The vendored Lua and the examples are
not part of the runtime.

## Plan

1. Proofs: `HandlesInOrder` for any number of nodes.
2. The launcher and the service manager on LuaService's rules; the reference
   counts of `lua-stm.cc` and `lua-sharedata.cc`.
3. SocketServer with a correct lock as a parameter: what then holds of half
   closed sockets, the write watch and torn messages, with liveness; UDP.
