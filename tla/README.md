# A verification project for `cocurrency`

The repository shows the same few concurrency paradigms (shared memory, CSP,
actors, STM, coroutines, continuations, IO multiplexing) as small programs in
eleven languages. Each program is independent of the others; inside each, a few
threads, coroutines, processes or event handlers share a few objects. This
directory holds TLA+ models of those programs, the TLC runs that check them, and
TLAPS proofs of what matters most about them.

## 1. Inventory

State, operations, interaction, and what makes each component correct. (M) marks
what is modelled today; everything else is in the plan below and, with its
reason, in `PROJECT.json`.

| component | source | state and operations | interaction | correct when |
|---|---|---|---|---|
| STM engine (M) | `python/stm/stm_model.py` | TVars (value, version, lock), one global lock, a read set and a write set per transaction; `atomically`, `read_tvar`, `write_tvar`, `validate`, `commit`, `_write` | threads, by shared TVars, each read and each publication under its own lock | transactions are atomic although reads, validation and publication are not; no conflict raises; retries end |
| STM clients (M) | same, `tests/test_stm_model.py` | transfers with a ledger TVar, `_or_else`, transactions beside direct writes | through the engine | money conserved, ledger exact, one alternative per `orElse` |
| lock bank (M) | `python/shared_memory_lock/bank_account.py` | balance and lock per account; deposit, withdraw, get, transfer | threads, locks taken in id order | calls atomic, never overdrawn, no deadlock, refusals release the locks |
| CSP channel (M) | `python/csp/channel_demo.py` | queue, closed flag, lock, two Events | senders and receivers that poll with a 1 ms wait | FIFO, exactly once, close seen by all, no lost wake-up for ever |
| bounded buffers (M) | `python/…/thread_producer_consumer.py`, `python/…/asyncio_producer_consumer.py`, `cpp/…/producer_consumer.cpp` | a list and a condition variable; an `asyncio.Queue` | producers, consumers, a done flag in C++ | as the channel; nobody asleep while he could go on |
| other channels (M: C++, Java, Scala) | `cpp/csp`, `java/csp`, `scala/csp` | C++: queue, closed flag, two condition variables, `notify_one`; Java, Scala: a `LinkedBlockingQueue` | threads | as the channel, and close must wake senders |
| print servers (M) | `python`, `cpp`, `java`, `scala`, `kotlin`, `haskell`, `erlang`, `go`, `lua`, `javascript` | a mailbox, a worker, reply objects; start, tell, ask, stop | messages; replies by queue, promise, future, MVar | jobs in order, each answered once, a shutdown message exactly at its place, no late reply taken for another, nobody left waiting whose job was printed |
| echo servers (M) | `python/io_multiplexing/{select,poll,epoll}_server.py` | sockets, interest sets, one output buffer per client; accept, read, write, close | a loop over kernel readiness; clients that send, half-close, reset | what comes back is a prefix of what was sent, in upper case; buffers drain; one client's end does not stop the others |
| event-driven servers (M) | `python/io_multiplexing/{nio_reactor,proactor}_server.py` | handlers registered with an asyncio loop; transports, streams and one coroutine per client | callbacks in a ready queue, awaits, a server closed at any time | as the echo servers; no callback outlives its connection; `drain` bounds what is held; who ends is closed |
| other banks | `java/stm`, `java/shared_memory_lock`, `scala/shared_memory`, `haskell/{stm,shared_memory}`, `erlang/actor`, `lua/{stm,shared_memory}`, `kotlin/shared_memory`, `go/shared_memory` | balances under monitors, MVars, processes, versions | threads, processes, a crash between two messages | money conserved, snapshots consistent |
| coroutine scheduler and its fallback (M) | `python/stackful_coroutine/greenlet_demo.py` | a run queue that a coroutine itself reorders; threads with token and message queues | cooperative switches; tokens and joins | round robin, every coroutine ends |
| continuations, generators, explicit stacks, T9 (M) | `python/continuation_cps`, `python/stackless_coroutine/{stackless_vs_stackful,yield_fibonacci}.py`, `python/t9_combinations.py` | closures, a trampoline, frames in a list, a generator's variables, a shared path | a caller that bounces, steps, resumes or sends | the forms compute the same function; the native stack they need is known |
| other coroutine schedulers | `lua`, `javascript` | run queues, wait lists, promises | cooperative switches | capacity kept, nothing resumed into an empty buffer |
| other sequential demos | Fibonacci, CPS, Hanoi, Bend | none | none | one recursive equation |

The hard behaviours, each at its line, are the `hazards` of `PROJECT.json`.

## 2. Modules

| module | models | implements |
|---|---|---|
| `STM` | the engine of `stm_model.py`; its clients extend it | |
| `STMBank` | `stm_bank_transfer` from several threads, `join`, the report | `AtomicBank` |
| `STMClients` | `_or_else` with both ways to ask for a retry, and transactions that add to TVars, beside `TVar._write` | |
| `LockBank` | `bank_account.py` | `AtomicAccounts` |
| `PyChannel` | `Channel` of `channel_demo.py` and its workers | `AtomicChannel` |
| `EchoSockets` | external: the kernel's queues and the clients; servers extend it | |
| `EchoServers` | the select, poll and epoll servers, chosen by `kind` | `EchoService` |
| `EventServers` | the reactor and the two proactors, chosen by `kind` | `EchoService` |
| `PrintServers` | the print servers of ten languages, chosen by `kind` | `PrintQueue` |
| `CondBuffers` | the bounded buffers of threads and of asyncio and the C++, Java, Scala channels, chosen by `kind` | |
| `Coroutines` | the greenlet scheduler and its fallback of threads, chosen by `kind` | |
| `Continuations` | fifteen functions that keep the rest of the computation themselves, chosen by `prog` | |
| `Traversals` | the tree walk and the generator chain by recursion over their data, to compare with `Continuations` | |
| `ContinuationTests` | the session of `python/tests` that calls the functions of `Continuations` and judges what they return | |
| `AtomicBank`, `AtomicAccounts`, `AtomicChannel`, `EchoService`, `PrintQueue` | what the component promises, one step per call or per unit | |
| `STMBankProofs`, `STMClientsProofs`, `CondBuffersProofs`, `PrintServersProofs`, `EchoServersProofs`, `EventServersProofs` | theorems about the module each is named after | |
| `PyThreadsProofs` | theorems about `LockBank` and `PyChannel`, the Python programs on locks and events | |
| `CoroutinesProofs` | theorems about `Coroutines` and `Continuations`, programs of one thread | |
| `MC*` | the small instances for TLC; `MCSequential` puts those of `MCCoroutines` and `MCContinuations`, which share nothing, side by side | |

Operators named after a mistake (`GetNewest`, `RequeueFirst`, `EntryInverted`, …)
stand before the definition they vary. They are not used by any specification:
each is a plausible bug under which one property of one run must fail, and
`PROJECT.json` pairs them.

### STM (`STM`, `STMBank`, `STMClients`)

`value` and `version` are the fields of the TVars, `readSet` and `writeSet` the
dictionaries of each thread's `Transaction`, `globalLock` the holder of
`_GLOBAL_LOCK`, `pc` the place in `atomically()` and `todo` what the running
`for` loop has not visited. One step is one acquisition of a TVar's own lock:
the lock protects a read, or a comparison and a publication, and nothing else is
taken inside, so finer steps would add no behaviour. The three scans are the
`validate()` before the lock, the one after it, and the one at the head of
`commit()`. `commit()` publishes one TVar per step, so that other transactions
see half-made commits; whether they may commit what they computed from one is
what the properties ask. Clients supply the bodies: in `STMBank` a body reads
`from`, then `to` (with the funds check and both writes), then the ledger, and
the main thread joins and reads the three TVars one at a time. In `STMClients` the
takers run `_or_else` over two accounts, the depositors write every TVar of a
`Program`, and a main thread writes TVars with `_write`, which takes no global lock.
`expected` and `published` are history variables.

Reads and writes of the dictionaries are scanned in any order. That over-approximates
insertion order, so the safety results carry over.

### Lock bank (`LockBank`)

`owner` is the holder of each account's lock, `taken` how many locks a call has,
`step` and `local` the place inside its `+=` and `-=`, each a load and a store.
`LockOrder` is the stable sort by `account_id` of line 50. A refused amount or
missing money raises with the locks held; `Release` models the exit of the
`with` statements.

### Channel (`PyChannel`)

A locked section is one step; between the section that found the buffer full or
empty and `Event.wait` the thread holds nothing (`place = "park"`). `set()` followed
by `clear()` wakes only the threads inside the wait; `close()` leaves the event
set. `sent` and `given` are history variables: every item put, and how many were
taken. `_send_event` needs no variable, since it is always cleared with the lock
held right after it was set. `__len__` changes nothing and is left out.

### Echo servers (`EchoSockets`, `EchoServers`)

The loops (select, poll, and three trigger modes of epoll) differ in what they register, how they handle one event and what
they do at an error; what they share is written once, and `kind` (chosen in
`Init`) says which loop runs. A unit is some bytes that no `send` or `recv`
splits; upper case is the only thing a server does to them, and a unit of the
stream stays the same unit. `inq` and `outq` are the two kernel queues of a
connection; a full `outq` (bound `Room`) makes `send` take a part or nothing.
`batch` holds the events of the last call that are not handled yet, and clients
move between any two handlers. Descriptors are reused, lowest first. `edges` is
epoll's ready list: an edge-triggered descriptor is reported only while it is
on it, and `poll` takes it off; new data, a new hole in a full send queue, a
half-close, a reset and `modify` put it back. What the servers do not catch
ends their loop (`Cleanup`): EBADF in select, `poller.modify` on a descriptor
that the read half of the same event has unregistered (`WriteNothing`), and a
`BlockingIOError` in the level-triggered handlers, which `EventsStillTrue` and
`LoopEndsOnlyAfterAClient` show does not happen.

`IInv` cuts each client's stream at the places where its units wait: read by
the client, in the send queue, in `_send_bufs`, in the receive queue. It also says what
becomes of an event between `poll` and its handler (`BatchInv`), that what an
edge-triggered descriptor has left to do is on the ready list or in the batch
(`EdgeInv`), and whose descriptors select still watches (`StaleInv`).

### Event-driven servers (`EventServers`)

A step is one callback of the asyncio loop, or what a coroutine does between two
awaits; clients, and `Stop`, come between any two. `reader` and `writer` are what
`add_reader` and `add_writer` have registered, `batch` the callbacks already in the
loop's ready queue, which removing a registration cancels. The reactor's handler
reads, echoes into `_send_buf` and registers its writer while that is not empty.
For the proactors a transport is modelled by what asyncio does for them: it reads
until it is paused, writes at once what the socket takes and buffers the rest,
pauses writing above `HighWater`, and loses its connection at a reset, or after its
buffer has been flushed once it is closed. `inbox`, `eof` and `paused` are the
`StreamReader` and the flow control that `await read` and `await drain` wait for, and
`task` is the await at which `_handle_client` stands. `IInv` cuts each client's
stream as in `EchoServers`, at two more places, `inbox` and the transport's buffer,
and says which stage of the transport goes with which await of the coroutine
(`TaskInv`), how much may be buffered at each (`FlowInv`), and who is not registered
any more (`EndedAreUnregistered`).

### Print servers (`PrintServers`)

Ten programs have the same shape: clients post jobs, an actor takes and prints
them one by one, and somebody stops it. Each language is a record of five
traits: what the shutdown is (a message behind the jobs, the end of the input, or
a flag that the loop reads), whether `stop` waits for the actor, whether `ask`
waits for ever or for some seconds, what runs the actor (a thread, a client that
resumes a coroutine, timer callbacks), and how many messages the mailbox holds.
`mailbox`, `counter` and `running` are the code's fields; `current` and
`server = "busy"` stand for the sleep between taking a job and printing it, in
which clients go on. A reply is addressed to the call that sent the job; in Java
and Erlang that call may have timed out by then, and the client asked again.
The record decides which disjuncts of an action apply, so one statement of
`NoJobLost` or `OwnAnswer` covers all languages, and `IsPrintQueue` compares them
with one abstract server. Each message carries `before`, a history: how many jobs
had been accepted when it was posted. Go and Lua run one client, as their demos do.

### Buffers on conditions (`CondBuffers`)

`buf` is the list or queue, `closed` is `closed_` of the C++ channel and `done`
of `producer_consumer.cpp`. `pc` says whether a thread runs, sleeps in `wait`, was
woken and has to take the lock again, or (`"notify"`) has unlocked and has not
notified yet, as in `producer_consumer.cpp`. A woken thread competes with the others and
looks at its predicate again. `Notify` is `notify_all` on one condition in Python and
in `producer_consumer.cpp`, and `notify_one` on the condition of the other side in the C++
channel. `WakeForNothing` is the spurious wakeup that C++ allows. The Java and
Scala channels hand everything to a `LinkedBlockingQueue`, which is external: a
call that cannot be served waits inside it. Their capacity 0 means one place
and no bound. `sent` and `taken` are history variables. For asyncio the threads are
coroutines: a `put` or `get` that cannot go on waits in the queue (external), which
wakes one of the other side at a time; a consumer asks for a fixed number of items,
and `gather` waits for all.

### Coroutines (`Coroutines`)

With greenlets a step is one turn of `Scheduler.run`: pop, switch, the coroutine's
step to its next suspension, append. Coroutine A of the demo pops and appends on the
same queue while it runs (`RotateAndSwitch`); with the queue empty its `pop(0)`
raises through the scheduler. Without greenlet each coroutine is a thread;
`main` is the place of `ThreadScheduler.run` in its two loops, `resume_q` and
`sched_q` count tokens and messages. How often a coroutine suspends is an input; the
demo's numbers are one of them.

### Continuations (`Continuations`)

The functions are run as a machine that calls, applies the innermost frame, bounces,
or steps. A closure is the frame of what it captured; `depth` counts the frames on the
interpreter's stack, one for each call of a Python function, `__init__` included:
plain CPS of n! takes 2n + 2, trampolined n + 5, and the search that finds its even
number in place i takes i + 6, of which `invoke`, `cc` and `Jump.__init__` are the
last three. This is what the limit counts from CPython 3.12 on; until 3.11 the
making of a `Jump`, `Bounce` or `Done` costs one more. A `RecursionError` is a step that
would pass `limit`. The five T9 forms differ in where a combination goes: to the
caller's list or to the result, and share one run through the letters of a key.
`fact_direct`, `fib_direct` and `calls` are recursive functions, about which proofs
can speak; what is recursive over a tree or yields a sequence is in `Traversals`,
for TLC alone. `Results` says of a program what its direct form, its definition and its
docstring say. Where a test or a demo says otherwise of the code there is a run of its
own (`ContinuationTests`) that finds the statement violated (section 4); the explicit stack's own events are
part of `ContInv`, and `Traversed` compares them with the generators' without the two of
the leaf.

## 3. Runs

| run | instance | shows |
|---|---|---|
| `stm_bank` | 3 threads, 2 accounts, opening 1 and 2, transfers of 1, 1 and 2 | the smallest bank in which a transfer must wait for another's money and three commits conflict. Money, ledger, overdrafts, the audit after join, no RuntimeError, refinement of `AtomicBank`, and every transfer made in the end |
| `stm_clients` | 2 takers (one per retry style), 2 depositors over one and two TVars, 1 direct write | no change is lost, each taker is paid by one alternative, exactly once, both RuntimeErrors of `commit()` are reachable, and every transaction ends but a flag taker's while its first account cannot pay |
| `lock_bank` | 3 threads, 3 accounts, transfers in a ring, refused amounts, deposits, withdrawals, a read | atomic calls, no deadlock, every call returns |
| `py_channel` | 2 senders, 2 receivers, buffer of 2, a close in the middle | FIFO and exactly once, `None` only at the end, no wake-up lost for ever, refinement of `AtomicChannel` |
| `echo_servers` | select, poll, epoll LT, ET and ONESHOT; 2 clients, 2 descriptors, 2 units each, room for 1 in a send queue | no unit is lost, doubled or given to the other client, no edge is missed, no event is stale when handled, and who stays gets everything back (with ONESHOT: unless a send took a part) |
| `echo_select_ends` | select | violation: one client's end of file ends the loop for all |
| `event_servers` | reactor, protocol, streams; 2 clients with 3 and 1 units, 2 descriptors, room for 1, water marks of 0 and 1, a server that closes at any time | as `echo_servers`; no callback outlives its connection, `drain` bounds the buffer, a writer is registered exactly while there is output, every connection that ends is closed and its coroutine is done |
| `print_servers` | ten languages, 2 clients, up to 7 calls each, one client stops the server while the other tells and asks | order and completeness of printing, a sentinel exactly at its place, no late reply taken for another ask, exact status counts, refinement of `PrintQueue` |
| `cond_buffers` | six buffers, 2 producers and 2 consumers over one place (Java: capacity 0, one place; Scala: capacity 0, no bound), a thread that closes the two C++ ones | FIFO and capacity although woken threads are overtaken, no notification wasted on the wrong thread, the end seen by every consumer after the last item, every call returns |
| `sequential` | A, B and C, 60 ways to suspend up to 4, 3 and 2 times, each with greenlets and with the fallback | nobody gets more than a step ahead of one that has not ended, although A reorders the queue, and nobody is lost from the queue (`LockStep`); no scheduler returns early, and only those end that may (`OnlyTheyEnd`); a coroutine ends if and only if: with greenlets always, but for A when it suspends with nobody left; in the fallback, when it suspends at most once |
| | and, beside it, 15 functions on 263 pairs of function and argument, stack limits 14 and 30 | each form computes what its direct form, definition or docstring says (`Results`, and `Traversed` for what is defined by recursion over trees and levels); the calls of a trampolined function never nest, its continuations do, and the stack that each needs is known (`StackUse`); every program ends |
| `continuation_tests` | ten tests of `python/tests`, one after another, limit 16 for 1000 | violation: four of them fail |
| `greenlet_hang` | the demo's three coroutines, the fallback | violation: the demo does not complete |

**Bounds.** The bounds are those of the instances: the numbers of threads and
the calls each makes (`Jobs`, `Program`, `Ops`), `MaxDirect` direct writes,
`MaxSize`, `MaxUnits` per client, `Room`, `MaxFd`, `MaxCalls`, and the inputs
`Programs` and `Args`. Versions, values and history variables are bounded by them, so no
state constraint is used. Three threads are enough for a thread to overtake two
others in different phases; the theorems below lift the bank results to any
number. Two units and room for one are the least with a partial send; two
descriptors for two clients let one be closed and used again while the batch still
names it; three units of one client are the least that fill the kernel's queue, the
transport's buffer and the stream at once, with `ReadSize` 1, `HighWater` 0,
`InboxHigh` 1 and `InboxLow` 0. One place with two threads on each side is the least in which a
notification can reach the wrong thread; the second item of each producer makes it
sleep again. Two asks in a row (`MaxCalls` bounds the program's length) are what a late
reply needs to meet the wrong ask. Four suspensions of A reach the empty queue, and two of any coroutine the missing
token. The stack limits lie inside the ranges of the arguments, on both sides of
each bound; the search has lists of up to 12 numbers, so that it overflows on the way
down, on the way out, and just not. In `sequential` all instances of either side run
beside one short run of the other, which is as good as alone: no action of one side reads
what the other changes. `continuation_tests` scales the interpreter's limit of
1000 frames to 16, and each test's largest argument to one on the same side of the limit; the
ten tests then pass and fail as those of the repository do. Deadlock is checked in every run but `print_servers`, `sequential`,
`greenlet_hang` and `continuation_tests`: the last step of the specification (`Exit`,
`Joined`, `Idle`) is the program's end. Computations simply end, and the fallback
really waits for ever, as `EndsIffItMay` says. In
`print_servers` an `ask` behind the stop really waits for ever, and
`NobodyForgotten` says that only such an `ask` does. With a spurious wakeup
possible the two C++ buffers never deadlock formally; `EveryCallReturns` covers them.

**Fairness.** Every thread is weakly fair: the operating system schedules it and
a wait with a timeout ends. A lock is not assumed fair; the liveness results do
not need it, because each instance asks for a lock finitely often or a loser's
conflict means that another transaction has committed. An echo server is weakly
fair (its thread is scheduled), and so is each client's reading of what has come for it;
nobody has to send, close or reset. The print servers and their clients are
weakly fair, and so is an `ask` or `stop` with a timeout. A thread woken in
`CondBuffers` is scheduled, but nothing has to wake for no reason, so
liveness rests on the code's own notifications. An asyncio loop runs its ready queue
in order, so each callback and each coroutine of `EventServers` that stays ready runs. The
greenlet scheduler and the functions of `Continuations` are one thread that goes on.

**Properties without a line in a cfg.** A module states some properties that its run
checks only as parts or consequences of its invariant: `NoOverdraft` (both banks),
`EventsStillTrue`, `DrainHoldsBack`, `NoneMeansTheEnd`, the four that make up
`BooksBalance`, `NoLostChange`. Theorems state them by name.

## 4. Findings

Each is a run that TLC must find violated; `PROJECT.json` quotes the line.

1. A client that disconnects from the select server ends it: `_handle_read`
   closes the socket without `read_fds`, and the next `select()` raises
   (`echo_select_ends`).
2. Without the greenlet library the demo of `greenlet_demo.py` hangs: a coroutine gets
   one token, and each of the demo's suspends at least twice (`greenlet_hang`).
3. The trampoline does not keep the factorial from overflowing the stack: the calls do
   not nest, the continuations they have built do. `fact_cps_trampoline(1000)` of the
   demo and `(2000)` of the test raise RecursionError under Python's default limit
   (`continuation_tests`; `StackUse` says exactly when).
4. `run_stackful` also enters and leaves the leaf, so that it differs from
   `run_stackless` for every n, against the demo, the benchmark and the tests
   (`continuation_tests`).
5. `send((a, b))` to `fibonacci_with_send` itself returns `a`; the three sends after it
   give b, a + b, a + 2b, and the demo and the test expect a first (`continuation_tests`).
6. `fib_cps(13)` takes 1506 frames, so the test that goes up to 14 raises RecursionError
   under the default limit (`continuation_tests`).

Findings 3 to 6 are four tests of one session, in which each runs whatever became of the
one before; the counterexample ends with all four in `failed`.

More behaviours met while modelling. The passing properties named here state them
exactly, so that a change of the code would show; the others are observations.

* `_or_else` with `txn.retry()`: the flag is looked at only in `atomically()`, so the
  second alternative is never tried, against the docstring of line 390. The demo of
  line 383, where the first account can never pay, does not return
  (`WaitingTakers` in `EveryThreadEnds`).
* With EPOLLONESHOT a partial send is never continued: nothing re-arms the
  descriptor (`Disarmed` in `EverythingEchoed`).
* The fallback's coroutines run at the same time, once they have their token; the
  `ThreadScheduler`, "round-robin" by its docstring, takes no turns.
* A sender asleep in the C++ channel when `close()` is called goes back to sleep:
  the predicate of line 31 asks for `!closed_`, so the throw of line 33 is never
  reached (`EveryCallReturns` excepts it). The demos close after their last send.
* A second `read_tvar` replaces the read-set entry of the first one, and the
  transaction may commit what it computed from the first: `NoLostChange` fails
  for the program `<<x, x>>` in `STMClients`.
* `test_retry_on_insufficient_funds` starts no depositor, although its comment counts
  on one: its transaction retries for ever.
* Capacity 0, called unbuffered in the Python, C++, Java and Scala channels, means no
  bound, no bound, one place and no bound: `send` returns before anybody receives.
* `commit()` can raise with part of the write set published, when `_write`
  interferes (reachable in `stm_clients`).
* `transfer(a, a, n)` waits for its own lock, and two accounts with one
  `account_id` escape the ordered locking (the stable sort keeps the order of the
  arguments); the premise `Orderly` of the theorem `NoDeadlock` excludes both.
* The poll server's loop ends when a socket is readable with end of file and
  writable in the same event; `LoopEndsOnlyAfterAClient` allows it.
* The reactor's `_cleanup` says that it closes sockets (line 334) and leaves those of
  its clients open; at end of file its handler drops output not yet sent. In the
  stream server `wait_closed` in the `finally` raises again after a reset.
* Kotlin's and Lua's `stop` drops the jobs that still wait, and JavaScript's timers
  go on after it; `StopInItsPlace` is about the other languages only.

## 5. Proofs

All theorems hold for every value of the constants allowed by the named
assumptions (`NoThreadAssumption`, `BankAssumption`, `ClientsAssumption`,
`AccountsAssumption`, `ChannelAssumption`, `BuffersAssumption`, `PrintersAssumption`,
`SocketsAssumption`, `ServersAssumption`, `EventServersAssumption`, `CoroutinesAssumption`,
`ContinuationsAssumption`): any number of threads, clients, coroutines, descriptors and
calls, any capacity, any programs and inputs. Each module proves its `IInv`
(`ChannelInv`, `SchedInv`, `ContInv`) inductive, one lemma per action; the theorem
`Invariance` says so, and the others follow from it or use it step by step.

* **`STMBankProofs`**. `IInv` says: the global lock is held by exactly the
  thread past line 158 (`LockInv`); a scan stays inside its dictionary
  (`ScanInv`); a version seen is never newer than the present one, and an equal
  version means an equal value (`ReadInv`); what the lock holder has validated
  stays current until it is published (`ValidInv`); what a body wrote follows
  from what it read (`BodyInv`); and the books balance if a validated commit
  counts as made (`BooksInv`). None of the properties is inductive alone:
  conservation needs to know that a publication is computed from current
  values, which needs the validation, which needs the lock. `Atomicity` then
  maps the end of the last validation to the abstract transfer and every other
  step to a stutter.
* **`STMClientsProofs`**. `NoChangeIsLost` says that the TVars hold the last direct write
  and every change published since, although `_write` goes round the global lock. The
  argument does not use the lock: what a transaction writes is its change added to the
  value it read (`BodyInv`), an entry whose version is current has the current value
  (`ReadInv`), and the commit loop compares versions in the step that publishes.
  `AllOrNothing` counts what has been published (`PublishInv`). Both need `ReadOnce`:
  no program reads a TVar twice. Without it `BodyInv` fails, and with it
  `NoLostChange` (section 4).
* **`PyThreadsProofs`**. For `LockBank`, `IInv` ties lock ownership to the number of
  locks taken, and keeps what a call checked true until it has stored. `NoDeadlock`
  follows the waiting calls upwards: among the locks awaited take the one with
  the highest rank; its holder waits for none. `Atomicity` maps the check of
  each call to the abstract call.
  For `PyChannel`, `ChannelInv` says that the buffer is the part of the history
  that has not been given away (`BufferInv`), that only a thread inside `send`
  or `recv` waits (`WaitInv`), and that nobody is told an open channel is
  closed (`EndInv`). `EndOfStream` needs `EndInv`: after a `None` the buffer
  stays empty only because no later `send` is accepted. `ChannelAtomicity` maps each
  locked section that returns to one abstract call and every other step to a
  stutter.
* **`CondBuffersProofs`**. `NoLostWakeup` says of six buffers at once that nobody sleeps
  through what he waits for: his predicate is false, or a `notify_all` is on its way, or,
  where one thread is notified at a time, as many are awake as can be served. It is an
  invariant only together with `IInv`: who sleeps is inside a call (`CallInv`), a
  buffer that is closed has no sender left that would need a place (`CloseInv`), and each
  `notify_one` goes to the condition whose predicate the step has made true. The
  steps of the proof count sets: a wakeup moves one thread from `Asleep` to `Woken`.
* **`PrintServersProofs`**. One invariant for ten languages. `NoJobLost` cuts the list
  of accepted jobs at the places where they are: printed, being printed, in the
  mailbox. `CallInv` says that a job belongs to a call that has returned or waits
  (without it a late reply could be taken for another ask); `ServerInv` who prints
  when; `StopInv` that a stop in the mailbox stands where it was posted, for which
  every message carries the number of jobs accepted `before` it. `ShutdownInOrder`
  and `AnswersAreRight` follow, and `EveryServerIsAQueue` maps each step to one of
  `PrintQueue` or a stutter.
* **`EchoServersProofs`**. Select, poll and epoll with three trigger modes. `StreamInv` and
  `BufferInv` say where each unit of a client's stream is. `BatchInv` says that an
  event outlives its connection only as "out" and only after a client has ended, and
  that a level-triggered handler finds what its event says (`EventsAreTrue`,
  `EndsAfterAClient`); `EdgeInv` that what an edge-triggered descriptor has left to do is
  on the ready list or among the events (`EdgesAreKept`), for which the read loop keeps its
  event until `recv` would block; `StaleInv` that select meets EBADF only after a client has
  ended. That `accept` finds a free descriptor is a pigeonhole argument over
  `LinkInv` and `Cardinality(Clients) <= MaxFd`. The lemma `Moves` says what a step of any
  actor can do to one connection, and each part of `IInv` is proved over those
  moves, not over the actions. `EveryServerEchoes` maps a `recv` of the client to the
  abstract echo of the unit.
* **`EventServersProofs`**. The reactor and the two proactors. `LinkInv`, `StreamInv` and
  the pigeonhole argument are as in `EchoServersProofs`, with two more places for a unit.
  `TaskInv` ties the coroutine to its transport: one that closes has nothing left in its
  `StreamReader` and its client has ended, and only a reset breaks a connection.
  `NoCallbackOfTheClosed` is kept because whoever reads no more, or has lost the
  connection, is not registered (`EndedAreUnregistered`), so `connection_lost`
  closes a descriptor nobody is called for. `DrainHoldsBack` needs `FlowInv`: a coroutine
  that reads has a buffer below the mark, since `drain` let it go on only when
  the transport had not paused it. The proof has one lemma per callback and per step of a
  coroutine; `ConnStep` shows that such a step concerns one client and one descriptor,
  and the lemmas on `Cut` move units between two neighbouring places of a stream.
* **`CoroutinesProofs`**. For `Coroutines`, `SchedInv` describes the queue as one round:
  who has still a step to make in it, then who has made it (`InRound`); whoever moves
  another to the end of the queue does so within that order. `AheadInv` turns this into
  steps, and says who is left when the rotation meets an empty queue. In the fallback
  each token and each message has one place (`ThreadAt`). `RoundRobin` and `WhoEnds`
  follow for any number of coroutines and suspensions.

  For `Continuations`, `ContInv` says of each program that what it keeps is the stack of its
  open calls. TLAPS knows a recursive function only as a CHOOSE, and its library's
  induction takes an operator; the lemmas `Counting` and `Recursion` go round this: the
  numbers up to which a function with the wanted equations exists are a set, and the
  well-founded order of the numbers shows that it has them all. They give `fact_direct`, `fib_direct`
  and `calls` their equations. The factorial's frames hold `arg`, `arg - 1`, …; for
  Fibonacci `FibState` adds the numbers and the stack depths of all open calls (`Chain`),
  of which a frame keeps only the last answer, so that the value returned and the depth
  reached are known together. The search has met odd numbers only, on a stack as deep as
  they are many; that there is one first even number (`OneFirst`) makes its limit exact. The explicit stack has a
  frame per level, and how many events it has yielded follows from its height. A generator
  stands at some distance from the pair that was sent last, and `Terms` is the
  recurrence between them. For T9 each open call owns the combinations of the letters it
  has been through (`Own`): a combination found is new and comes last in the
  order (`ListedTogether`), a call that returns hands over exactly one letter of its
  caller's, and the outermost, when it returns, has all. `SameResults` and `StackNeeded` follow.
  What is inductive is `Inductive`: `ContInv` with `Results`, `FibState`, and the shape of
  the tree walk's frames, which is proved to raise nothing unforeseen; its result is
  `Traversed`.

`BooksAreKept` puts together the four theorems on the bank's balances, ledger and audit.

Model-checked only: liveness and `ENABLED` (outside TLAPS's reach), that is
`EndsIffItMay`, `Ends`, the properties of the other runs that say that a call
returns or that a refinement is fair; and `Traversed`, whose operators are RECURSIVE over trees
and sequences. Every other invariant and action property that a run checks is stated by a
theorem. The three violated properties of section 4 are TLC's too.

## 6. Plan

1. STM, its other clients, lock bank, Python channel, with proofs (done).
2. Echo servers: `select`, `poll`, `epoll`, the reactor and the proactors over one
   external module of sockets (done). All are proved safe and shown to implement
   `EchoService`.
3. Actors: the print servers of ten languages, with proofs (done).
4. Condition variables: the bounded buffers, asyncio's queue and the C++, Java and
   Scala channels, with proofs (done).
5. Coroutines, with proofs (done).
6. Continuations, generators and T9, with proofs (done).
7. The other banks: Java STM (balances written back to the wrong account when the
   ids sort the other way), Scala ledger (a statement that is not a snapshot),
   Erlang and Haskell transfers of two steps, Lua's swapped direction; the Lua channel
   scheduler and the promise channels.

## 7. Not modelled

The banks, channels and schedulers of item 7 are not modelled yet; `PROJECT.json`
lists them with their hazards. The Fibonacci, continuation and deep-recursion demos of
the other languages have one actor and no shared state, and Bend programs are pure
functions over a state that is passed along. The end of `asyncio.run` (cancelling what
is left), `worker_coroutine` of the asyncio demo, which shares nothing, and benchmarks are
left out. Printing, timing measurements and sleeps are left out too; a sleep only
delays a thread, which any step of another may do as well.
