# prog_sistema in TLA+

The repository holds a remote-command server and its client, written in C for
Linux and Windows (`src/sources/`, 16 files), and the sample programs of a book
on Windows programming (`src/Win32SmpEd2/`), which are servers over pipes and
sockets, thread and semaphore libraries and an emulation of the UNIX message
queues. This directory holds the TLA+ modules that model them, the TLC
configurations that check the models and the proofs that TLAPS checks. Every
definition is translated from the code. Line numbers without a path are of
files in `src/sources/`; the samples are named by their chapter.

## 1. The system

### The server and its client

| Part | State it keeps | Operations | What makes it correct |
|---|---|---|---|
| `queue.h` | array, front, rear, size, capacity | `createQueue`, `enqueue`, `dequeue` | a bounded FIFO, for any number of wrap-arounds |
| `synchronization.h` | one semaphore; critical sections | create, increment, wait; create, enter, leave, destroy | what its callers expect: see dispatch and log |
| dispatch: `server.c` 200-330, 401-515 | `connections`, `connections_cs`, the semaphore, the descriptors | `main`'s accept loop, one iteration of `thread_exec` | every connection is served by exactly one worker and closed; no token without an entry, no entry without a token; no lock is lost |
| `threads.h` | the queue of thread handles | `create_thread_pool`, `destroy_thread_pool` | as many workers as asked; the next pool starts from nothing |
| life cycle: `server.c` 332-545, `daemonize.h` | `sighup`, the settings, the socket | `daemonize`, the SIGHUP handler, restart, teardown | a SIGHUP leads to a restart with the new settings; the wait for pending connections ends |
| parameters: `server.c` 57-189 | `port`, `n_threads`, `s`, `conf_file`, `log_file` | `get_parameters`, `parse_conf_file`, `update_parameters` | a file reads as the command line of its words, where one can say which words count |
| `authentication.h` | the two tokens and the challenge | `authenticate_client`, `authenticate_server` | nothing runs for a client whose user did not type the token |
| `networking.h`, `security.h` | none; the seed of `rand()` | `send_long`, `recv_long`, `generateToken` | the value sent is the value received |
| `commands.h`, `client.c` | buffers, files, one connection | `execute_command`, `exec`, `parse_command`, `handle_response` | code and result belong to this request; a transfer reported complete is complete; the dialogue ends |
| `logging.h` | `filename`, `log_cs`, the file | `set_logging`, `log_request`, `stop_logging` | one writer at a time, each thread's lines once and in order, the lock always comes back |

`main` reads the parameters, sets up logging, becomes a daemon and loops: it
creates the semaphore, the pool, the socket, the queue and its critical
section, then accepts. Each accepted connection is queued inside
`connections_cs` and announced by `increment_semaphore`. A worker waits on the
semaphore, dequeues inside `connections_cs`, authenticates the client, executes
its command, answers, calls `log_request` (under `log_cs`) and closes. A SIGHUP
re-reads the configuration file in the handler and makes `main` leave the
accept loop, wait for the queue to empty, destroy everything and start over.

### The Windows programs

| Part | State it keeps | What makes it correct |
|---|---|---|
| CHAPTR10 `QueueObj*.c`, `ThreeStage*.c`: queue objects with six combinations of guard, wait and signal; a pipeline of producers, transmitter, receiver, consumers | a queue, a mutex or critical section and two events each | no thread sleeps through the signal meant for it; every message comes once, in order, to its consumer; the program ends |
| CHAPTR10 `MultiSem.c`, `MultiSemx.c`, `TestMultiSem.c`: a semaphore that is waited for by several units | counter, mutex, event, a second mutex for first come, first served; a table of names mapped by all processes | units are neither made nor lost; a name is one count; nobody passes the first in line |
| `msg_emulation`: `msgget`, `msgsnd`, `msgrcv`, `msgctl` over one mutex and condition variables | a table of queues, byte and message counts, `msg_busy` | order per type, counts equal to contents, no queue removed under a call, every matched call returns; one table for each process |
| CHAPTR12 `serverSK`, `serverSKST`, `serverSKHA`, CHAPTR13 `serviceSK`, their client: a thread per connection, an accept thread, a polling `main` | slots with status and handle, temporary files, the connections | `main` joins the thread it means; a response is the client's own; a user who quits is let go; a shutdown ends the server |
| CHAPTR12 `SendReceiveSKST.c`, `SendReceiveSKHA.c`: messages out of a byte stream | what was read beyond a message, per thread or per socket | messages come whole however `recv` cuts them |
| CHAPTR11 `serverNP`, CHAPTR14 `serverSM`, `serverNPCP`, the client, the locating broadcast | pipe instances, connect threads, a completion port | a client that asked is answered with its own output; a shutdown reaches every worker |

### What is hard

* main and all workers share the queue, the semaphore and one lock, and every
  call has an error path that continues or breaks at a different point; main
  sleeps inside the lock when the queue is full (`server.c` 497-500);
* the SIGHUP handler interrupts main anywhere and changes settings that main
  reads several times; the teardown runs while workers serve;
* every `recv` may return part of a message, and ends a file transfer if so;
  the buffer of the answer's code outlives a request;
* a guard that is left before a wait begins, so that a signal passes between
  the two; time limits that return with a second mutex held;
* a handle that is stored after its thread has begun, closed and used again;
* files named after a slot that the next client takes over;
* counts kept apart from what they count, in code with many early returns.

`PROJECT.json` lists each hazard with its line.

## 2. The modules

### The server and its client

| Module | Models | State and actions against the code |
|---|---|---|
| `QueueOps`, `Queue`, `Fifo` | `queue.h` as operators on a record; any sequence of calls; what it promises (abstract) | fields of the same names; slots never written hold `Garbage` |
| `Dispatch`, `Handoff` | main's accept loop and `thread_exec`; what they promise (abstract) | `mpc`/`wpc` name the next call; one action per call that others can observe, each with its error path; `fd` says which descriptors are open, and a closed one can be accepted again |
| `RequestLog` | `log_request` called by many workers | `pc` names the next call; `file` is the log |
| `Network` | the connection (external, from how it is used) | two streams of units; `Received` is what `recv` can return; `whole`: this session's `recv` does not cut what was sent |
| `Security` | `security.h` and the conversions of `networking.h` | a number is a set of bits, the token any function of the passphrase, and each program has its own order of bytes |
| `Authentication` | `authentication.h` | one action per `send` or `recv` with the check that follows |
| `ClientParameters` | options of `client.c`, `parse_command` | operators over words; decide which requests exist |
| `Session` | one worker and its clients in turn: `execute_command`, `handle_response` and both main programs | `code` and `reply` are the worker's buffers, `outcome` and `cret` the return values, `serverFile` and `clientFile` what was written |
| `Dialogue` | no code: what the two sides of a `Session` agree on, the invariant of its proofs | `Agreement` says for each pair of next calls what the two streams hold |
| `Parameters` | `get_parameters`, `parse_conf_file`, `update_parameters` | operators over words, with the missing NULL of the file's argv; the loop over the words is a recursive function |
| `Lifecycle` | `main` from the options through `daemonize` to the end of the SIGHUP loop, `threads.h`, the handler | `pc` is main's next call; connections and threads are counted; the handler may run in main or in a worker, between any two steps |

`Dispatch` extends `QueueOps`: main and the workers run on the real circular
array. `Dialogue` extends `Session`. `Queue` and `Dispatch` are refined to `Fifo` and `Handoff` with
`INSTANCE ... WITH`. `Session` extends `Authentication`, which extends `Network`
and `Security`; it is the inside of the step `Serve` of `Dispatch`. `Lifecycle`
surrounds `Dispatch`, with its workers reduced to three steps.

Which calls may fail is the constant `Faults`, a set of call names, so that a run
or a theorem can say "whatever fails except `leave_cs`". A failing call takes the
code's own path.

Abstractions. A struct Connection is its descriptor; `sem_wait` interrupted by a
signal repeats the call, a stutter; `fwrite` and `fclose` of a log line are one
step. In `Session` a message is two units, so that it can arrive in parts, and a
file a sequence of numbered units; `BufferSize` (2048 bytes in the code) is more
than a message. What `strcmp` reads behind an unterminated buffer is any outcome.
`code` is not initialised and has no room for a null (`server.c` 263, 299), so `send`
takes as many of its bytes as come before one: a code of an earlier request, or bytes
that nobody wrote, none of them, one unit, as many as a code has, or `Overruns` of
them (`Unwritten`); what goes past a code is read as the result of the request. LIST,
SIZE and EXEC differ in the command line that is run and are one command. A number
that `recv` cuts is taken to differ from the one sent.

In `Lifecycle` a line of the configuration file is its words and whether it ends with a
newline, which `strtok` leaves in the last word: `atoi` passes over it, a path keeps it.

### The Windows programs

| Module | Models | State and actions against the code |
|---|---|---|
| `QueueObj` | `q_get`, `q_put`, creation and destruction in six builds | a build is a record of choices: mutex or critical section, `SignalObjectAndWait` or not, polling or not, pulse or set, auto or manual reset. Leaving the guard and waiting are two steps where the code makes two calls |
| `ThreeStage` | `ThreeStage.c` on those queues | producers, transmitter, receiver, consumers, and `main`, which terminates the two in the middle |
| `MultiSem` | the two libraries | a library is a record of the choices in which they differ; between taking `hMutex` and blocking is one step; pulses reach only who waits |
| `TestMultiSem` | the test program | `NumProduced`, `NumConsumed`, the monitor's test as a property, the control-c handler; `startCount` and `users` remember what a count began with and who has used it since; the mutex of a thread that has ended is abandoned, and the next owner is told so |
| `MsgEmulation` | `msg_emulation.c` on the macros of Windows and over pthreads | from taking `q_guard` to waiting or leaving it is one step; a program is a sequence of calls per thread; bits of `msgflg` and modes are pairs |
| `TestMsgEmulation` | a process of its test program: `main`, its producer, its consumer or both | sequences of calls; `pthread_create` and `pthread_join` make a thread wait for the place another has reached. `mq_table` is static (`msg_emulation.c` 85), so a second process would have a table of its own and take no part |
| `SocketServer` | `main`, accept thread, server threads, clients of the four programs | a build is a record of the choices of each program; handle values are used again; a thread that fails takes the process with it as in the code; the thread of `serverSKHA` ends without closing its connection |
| `StreamMessages`, `SocketMessages` | the framing; what it promises the socket servers | operators on byte sequences over every way of cutting, each `recv` of each loop with any number of the bytes that have come, as recursive functions; a thread that reads its sockets in any order is the code's caller |
| `PipeServer` | `serverNP`, `serverSM`, `serverNPCP`, client, `LOCSRVER`, `SRVRBCST` | the shared actions are written once; `program` says which server runs; completions come in any order; the test of `ShutDown`, the blocking `ReadFile` and the store of the flag are three steps |

`ThreeStage`, `TestMultiSem` and `TestMsgEmulation` extend the library that their
programs call; `SocketMessages` joins
`SocketServer` with `StreamMessages`, which stands apart since any program may use it.

Abstractions. A message of the socket and pipe servers is one unit; a command
writes numbered lines instead of running. Named pipes, mailslots, events,
mutexes and completion ports belong to the system and are modelled by how the
programs use them: an instance listens from its creation and, after a
disconnection, from the next `ConnectNamedPipe`. The states of a service are
only those `ServiceSpecific` acts on, not those it reports.

`MC*` modules give TLC its sets of failing calls, symmetries, command lines and
programs. The `*Proofs` modules hold the theorems.

## 3. The runs

| Run | Checks | Bounds | Shows |
|---|---|---|---|
| `queue` | `Consistent`, `ImplementsFifo`, no deadlock | 3 items, capacity 3 | indices pass the end of the array; empty, full and wrapped queues occur; any number of calls |
| `dispatch` | `NoEntryStranded`, `OwnedOnce`, `AcceptedIsClosed`, no deadlock | 2 workers, capacity 2, 4 connections, no faults | with more connections than places the queue fills and main sleeps; every open connection still has one owner |
| `dispatch_faults` | `MutualExclusion`, `DequeueFindsEntry`, `ServedAlone`, `ImplementsHandoff` | 3 workers, capacity 3, 5 connections, every call may fail | these hold on every error path |
| `dispatch_full` | finding: `WaitForRoomEnds` | 3 connections, capacity 2 | one connection more and main waits for ever inside the lock that the workers need (497) |
| `log` | `OneWriter`, `LinesInOrder`, `LogRequestReturns` | 3 threads, 2 requests each, every call may fail | three writers, each with an earlier and a later request; what a failed `fopen` does is the exception that `LogRequestReturns` names |
| `session` | `RunsAuthenticated`, `UncutTransferIsExact`, `OkMeansExecuted`, `DialogueEnds`, no deadlock | buffer 3, files of 0, 2, 3, 4 units, 2 passphrases, two machines of opposite byte order, all command lines of up to two words and longer ones | a file that is empty, shorter than a buffer, fills it, needs two; every code that nobody wrote, up to one of twice a code's length (`Overruns`); clients killed anywhere; both kinds of network; any number of clients |
| `lifecycle` | `FileReadsAsCommandLine`, `SizesAgree`, `PendingAreTaken`, `FlagEndsService` | 6 command lines, 9 lines of a file with and without a newline, 2 clients, 2 signals, every call may fail | a SIGHUP in every state and a second one after the restart it began; refused, negative and oversized numbers; a line that ends in an option, in a path, or has one word too many |
| `pipeline` | `DeliveredInOrder`, `NoLostSignal`, `ProgramEnds` | one pair with two blocks or two pairs with one message, blocks of 2, arrays of 3, six builds | queues fill and empty; two producers meet on one queue |
| `emulation` | `NothingLostOrReordered`, `CountsAgree`, `NotRemovedUnshared`, `ScriptsEnd`, `TestEnds` | 3 threads, up to 4 calls each, 2 queues, 3 short messages per queue, both sets of macros | a queue and the system at their limit, messages cut, missed and removed, users without permission; `TestEnds` is about the test program as one process that produces and consumes |
| `multisem` | `ConsistencyTest`, `OneCountPerName`, `FirstComeFirstServed`, `ControlCEnds` | 2 processes, 2 consumers and a producer, maximum 2, one round each, both libraries | a consumer of two units against one of one; two processes that create one name one after the other, or at once; one without threads that exits and leaves its count to the next; control-c anywhere |
| `sockets` | `JoinsTheStoppedThread`, `ResponseIsOwn`, `MessagesAreWhole`, `ShutdownEnds`, `QuitEnds` | 2 clients, 1 slot, 3 handle values, one command and a last request, texts of up to 3 characters in a buffer of 7 | the second client takes over slot, file and handle value of the first, which may be killed |
| `pipes` | `PrintedIsOwn`, `AskedIsAnswered`, `ShutdownReachesWorkers` | 2 clients, 2 instances, 1 ready thread, one command | more users than ready threads; connections that are forced, stolen or broken; a shutdown while a worker waits, reads or stores; failing calls. A second command of one client makes 1.3 million states, too many for the liveness properties: that a thread starts its next response with an empty file is said by the theorem `Printed`, for any number of commands |

Two of everything is what these interactions need: a second worker, client,
signal or restart meets what the first left behind; three where two already
hold both roles (a third thread to be passed, a third writer). Deadlock is
checked where the system cannot stop. In the other runs it may: workers that
have all ended, programs that return, requests that are used up.

`UncutTransferIsExact`, `OkMeansExecuted` and `DialogueEnds` are about sessions with
`whole`, where `recv` delivers a send that fits the buffer as one piece, as a
loopback does. Without it they are false: a transfer cut by `recv` is reported
done (`commands.h` 139), and the rest of a cut command can make a file fill its
last buffer, so that both sides wait. Two reports mean nothing even then, and the
properties except them by name: the OK of a worker whose client left before it sent
the file (`recv` returns 0, and `strncmp` compares bytes that nobody wrote with "200",
`commands.h` 218-226), and that of a client whose worker sent an unwritten code of
more than `CODE_SIZE` bytes, for instance after the failed `fwrite` of 153-156, whose
rest the client reads as the result.

### Fairness

* `Dispatch`: weak fairness of every step of main except `accept` (nobody has to
  connect) and of a worker except `Serve` (`recv` has no time limit). What clients
  must do is said by the property: `ClientsFinish` and `AlwaysRoom` in
  `AcceptedIsClosed`. A worker passed over at `enter_cs` is passed over by one that
  takes an entry, so weak fairness is enough.
* `RequestLog`: strong fairness of a thread's steps that do not fail, since each
  competes for `log_cs` again and again; a mutex does not starve a waiter for
  ever. That `enter_cs` fails is not counted on.
* `Session`: weak fairness of the worker and the client; nobody has to be killed.
* `Lifecycle`: weak fairness of main and of a worker's calls; clients need not finish.
* The Windows programs: weak fairness of every thread, as the system schedules all
  that can run, with each wait for a free mutex served in the end; for the thread of
  the control-c handler, whose mutex the consumers take again and again, this is strong
  fairness. Control-c, killed clients and failures are never owed. Users type a bounded number of
  commands and then leave (`MaxCommands`).

Liveness properties name the states that a defect makes hopeless as their
assumption: they hold in all other runs, and each exception is one of the facts below.
`WaitsForAccept`: main of a socket server waits for a pending `accept`. `SlotLost`: a slot
whose thread could not be created; `QuitEnds` is also not about `serverSKHA`, which does
not close the connection. `Lost`: a thread of a pipe server that a failed call, a write
without end or a forced connect has taken away, or a shutdown whose flag was
overwritten. `Deserted`: a `serverNPCP` that has lost every worker. `PendingAreTaken`
needs workers that come back again and again. `FlagEndsService` is not about a flag that rises while
main waits in a full queue. `ControlCEnds` is about threads that ask, together, for no
more than what is there and what the handler will release, of a count that no other
process takes from and whose maximum refuses no release (`UnitsForAll`; `OneUnitEach` is
the case the handler is written for). In other cases a thread may wait for ever.

### Mutants

Each property of a passing run has a mutated definition of the model, kept beside
the original and marked `mutant` in a comment, that a plausible slip in the code
would give (a lock not waited for, a kept buffer not looked at, a `continue` left
out) and that makes TLC find the property violated.

### What modelling the code showed

The server and its client:

* `server.c` 497: run `dispatch_full`. `logging.h` 63: a failed `fopen` returns with the
  lock taken and all later calls block. `server.c` 301, 307: `break` after a failed
  `send` ends the worker and leaves the connection open. `server.c` 501: after a
  failed `leave_cs` main closes a descriptor that is still queued.
* The semaphore refuses a token when its maximum is below the queue's capacity:
  on Windows with `-n` over 100 (`SEM_MAX`). `n_threads` may be negative.
* `server.c` 160: the argc of a file is one less than that of the same command line, so
  a last `-s` or `-l` of a file is not read; a last path keeps the newline of the line
  (156-160), so `-l file` at its end opens a log of another name; a tenth word is
  stored behind `argv[]`. A number option without its value ends the process.
* `server.c` 517: the wait is for connections that are queued. A request in service when
  it ends is killed with its worker (`DestroyPool`), contrary to the comment.
* `threads.h` 21: `pthread_kill` with signal 9 ends the whole process: with a thread
  in the pool no restart ever completes. `server.c` 527 frees `log_cs` under a worker.
* `client.c` 70: an unsupported option is not refused, and client and worker wait for
  each other. SIZE without a name ends the server (`commands.h` 110).
* `server.c` 299: the code of an earlier client may answer a refused request;
  `OkMeansExecuted` shows the client does not take it for success. A buffer nobody wrote
  is sent up to the first null, past its end if need be, and what follows the fourth
  byte is read as the result. `commands.h` 218: an upload whose client leaves before
  sending is compared with bytes nobody wrote.

The Windows programs:

* Pipeline: `QueueObj.c` leaves the guard before it waits, so a pulse can pass; its time
  limit saves it. `ThreeStageCS.c` 164 may terminate a thread inside a critical section.
  A block that is not full is never sent (`ThreeStage.c` 225). `q_full` is true of a
  queue that holds one message, whatever its size (`QueueObj.c` 101-105).
* `MultiSem.c` takes its two mutexes in the wrong order and locks up; in both, an early
  time-out returns with `hMutexa` held, a name is created outside the table's mutex and
  never cleared, and `Flags & 4 == 1` (283) never notices an event that was not
  created. After a thread ended with `hMutexa` the next owner is told `WAIT_ABANDONED_0`: it has its units, but the
  test program takes the result for a failure and does not count them. The table's
  memory lives as long as a process with a named count has it mapped. The handler of
  control-c releases one unit for each consumer (`TestMultiSem.c` 331-339): a consumer
  that waits for two, a release refused at the maximum, or units that another process
  takes leave a thread waiting for ever.
* `msg_emulation.c` 85: the table of queues is one of the process, as line 22 and `readme.txt`
  93-97 say; the consumer that the test program plans as a process of its own
  (`msg_emulation_test.c` 6-17) waits for ever. `msgctl` on an invalid id returns with
  `q_guard` taken (883);
  `msgflg & IPC_CREAT == 0` (666, 673) tests the wrong thing; removing a queue does not
  lower the system's counts; empty messages are lost; a cut or missed receive leaves the
  counts wrong; `msg_busy` is cleared by whichever of two calls returns first;
  `em_set_all_ids` sets the wrong group (1149).
* Socket servers: `serverSKST`, `serverSKHA` and the service join through an array that is
  never filled, so the process exits when `main` meets a stopped slot; closing the
  listener first makes the pending `accept` fail and cuts clients off; they compare
  with "$ShutFlagServer" where the client sends "$ShutDownServer". `serverSK` may scan
  a slot whose accept thread is still there, close its handle and begin another.
  `serverSKHA` copies the socket to a local `ConnectSck` (172, 185) and closes the global
  `ConnectSock` (273-274), which never held one: the client's connection stays open,
  and a user who quits waits until the whole server ends.
  A client whose server goes away inside a response spins (`clientSK.c` 127-149).
* Framing: a text must take less than half the buffer, since a piece without its end is
  counted twice (`SendReceiveSKST.c` 122, 129); one thread that reads two sockets mixes
  them (SKST).
* Pipe servers: `serverNPCP` loses a worker to each client that quits with its read
  pending; blocked threads of `serverSM` never see `ShutDown`; a thread without its
  temporary file answers with nothing, and in `serverSM` (120-121) it raises an exception
  that ends the process; a failed overlapped write waits for ever (207).
  `serverNP` (198-205) makes a connection to release its own connect thread, which any
  listening instance may get: the worker can then wait for ever for a thread that
  nobody connects to, which the comment at 208-215 calls solved. `ShutDown = ShutDown ||
  ...` (147; `serverNPCP.C` 173) is a read and a store: a worker whose request came just
  before the flag was set takes it back. A worker in `ReadFile` sees no flag until its
  client writes or leaves.

## 4. The theorems

All hold for every value of the constants under the named ASSUMEs: any finite set of
workers, any capacity, any number of requests, any width of numbers.

* `DispatchProofs`, the queue: `i % n` is i or i - n below 2n (`WrapOnce`); the slots of the
  entries are distinct; `Enqueue` appends to the contents, `Dequeue` removes their head;
  `QueueTypeCorrect`, `StaysConsistent`, `QueueIsFifo` (`Queue` implements `Fifo`). The
  inductive invariant is `WellFormed`: without `RearFollowsFront` the next enqueue could
  overwrite an entry, without `ItemsWritten` a dequeue could return garbage.
* `DispatchProofs`, the hand-off: `TypeCorrect`; `Exclusion`; `TokensAreCovered`, the counting invariant
  sem + claimants + token owed <= size, which says that a worker past the semaphore
  finds an entry on any error path; `IncrementAlwaysUnlocks`, from SemMax >= Capacity;
  `NothingStranded`, that the same count is an equality when no call fails.
  Counting needs exclusion (at most one thread is between the change of the queue and
  the change of its pc) and lemmas for one worker that joins or leaves the claimants.
  In the same module `OneOwner`, `OwnersHaveOpenConnections`, `Refinement` (`Dispatch`
  implements `Handoff`), assuming that `leave_cs` does not fail and SemMax >= Capacity: the
  two assumptions are exactly the two hazards. The inductive invariant joins ownership,
  openness and the well-formed array. `AloneWhileServed` needs only SemMax >= Capacity:
  in its invariant `ServiceInv` ownership holds as long as the lock was never lost, and
  after the first `leave_cs` that fails nothing enters or leaves the queue any more.
* `SessionProofs`, the exchange: `NumbersArrive`, `recv_long` undoes `send_long` between any
  two machines, from the cancellation of two swaps; `AcceptsExactly`, the worker accepts the
  two numbers of a client exactly when its user typed the server's token, from the
  cancellation of `Xor`. `Authenticated`, no command is received or run for a client whose
  user did not type the token, however `recv` cuts the messages and whenever clients are
  killed. `RunsAuthenticated` is not inductive: the invariant `Exchange` says what the two
  streams and the client's `xor` hold in each phase of the exchange, and hands the
  worker's check to `NumbersArrive` and `AcceptsExactly`.
* `SessionProofs`, the dialogue after it: `OkIsExecuted` (`OkMeansExecuted`) and `TransferExact`
  (`UncutTransferIsExact`), for files and buffers of any size and any number of clients. Both
  are about both sides and any unwritten code, with the two exceptions named above.
  They follow from the invariant `Agreement` of module `Dialogue`: for each place where the worker
  and the client can be, what is in the two streams and how much of the file each has
  read and written; the receiver leaves its loop at the first message that does not fill
  the buffer, so the invariant counts in multiples of the buffer. One lemma per call shows
  that it is kept, by the worker's calls, the client's and a client that is killed.
* `SessionProofs`, the log at the end of a session: `TypeCorrect`, `Exclusion`, `LockReturned` (if `fopen` and `leave_cs` do not
  fail), `NothingLost` (if `fwrite` does not), `LinesAreInOrder` (for all faults: the numbers
  in the file stay below the thread's current one until its line is written).
* `LifecycleProofs`: `SizesStayEqual`, the queue has the size of the pool that was
  asked for while no restart is due: a handler that changes `n_threads` sets the flag.
  `FileIsACommandLine` (`FileReadsAsCommandLine`): whatever the settings and whatever the
  line, accepted, refused or too long, every setting gets from the file the value that
  the words that count give on a command line whose last word is typed with the
  newline of the file. The two loops are compared word by word, by induction on the
  number of words; the invariant `SettingsTyped` says which settings the handler can
  meet. The words that count (`WordsRead`) are those `argv[]` has room for, but for a last
  one that is not the value of the option before it.
* `MsgEmulationProofs`, for any threads, programs, table and sizes: `UseInvHolds`, `UsedIsNotRemoved`
  (`NotRemovedUnshared`), `ListsKeepTheirOrder` (`NothingLostOrReordered`), `CountsAreExact`
  (`CountsAgree`). The first rests on `UseInv`, in which a thread that waits has a queue that
  is in use and marked busy, and a free slot is empty; every step is one of a few effects
  on the data. Order and counts are invariants over `UseInv`: what a queue holds of a type is
  what was sent and not yet received, in order, and the counts are sums over the contents,
  for which sums over sequences are recursive functions with their lemmas. The
  assumption `ProgramsAssumption` says that programs consist of calls.
* `ThreeStageProofs`, for any number of pairs, messages and places and all six builds:
  `TypeCorrect`, with what makes the rest short: as `q_full` is written a queue holds one
  message at most, so that its content is one slot; and every thread is in the call that
  its loop makes. `Delivery` (`DeliveredInOrder`): the messages on their way, from the
  receiver's buffer through the block in the queue and the transmitter's block back to the
  first queue, form one sequence, `InTransit`; in it the messages of each pair are numbered
  from the one its consumer's queue will take next up to the producer's count (`Carries`).
  Most steps leave the sequence as it is; the receiver takes its head and a producer
  appends. `SignalsAreKept` (`NoLostSignal`) is proved from the stronger `SignalInv`, which
  counts threads that have left the guard and not begun to wait: for them the event must
  be set already, or another thread be about to enter. With more than one place in use
  this argument would not do: one `SetEvent` releases one thread.

* `MultiSemProofs`, for any processes, threads, inputs and names and both libraries:
  `TypeCorrect`, for which the range of every count, key and handle has to be followed
  through creation by name; `ServedInOrder` (`FirstComeFirstServed`), from the invariant
  that whoever is between the two mutexes owns `hMutexa` (`OwnersHold`), time-outs that
  return early included; `OneCount` (`OneCountPerName`), for a table with an entry for each
  process: an entry counts the processes that have it (`RefsCounted`), the names in the
  table differ, and no entry is given away while a process has it (`EntriesTaken`). The
  first attempt failed for a reason: two creations of different names can also meet. An
  entry is free again while it still shows its old name; a process that is given it and
  has not yet written the new name can be joined by one that creates the old. So
  `overlapped` is set by any two named creations at a time, not by two of one name. With
  more processes than entries the search finds no free entry (`MultiSemx.c`), which the
  theorem leaves out.
  `Consistent` (`ConsistencyTest`) needs no such assumption. Its invariant `CountInv` joins
  to the types and owners that a thread's call suits its role and the history names every
  process that has a count (`UsesOK`), that each count is between 0 and its maximum
  (`CountsInRange`), and `Accounted`: over the users of a count, what the statistics show
  plus what their threads have released or taken and not yet put into the statistics is
  the count less what it began with. The sums are the library's
  `SumFunctionOnSet`, over processes and over threads; their lemmas (one term changes, one
  joins, two sets are disjoint) go by a smallest subset for which they fail. The test was
  first stated over all processes that name the count, which is no invariant: a process
  without threads exits and leaves its count, and a process of the old name can join an
  entry that is being given to another name. Hence `users`, and the condition in
  `Monitored` that they all know the count by one name.

* `PipeServerProofs`, for any clients, instances, threads, commands, failing calls and killed
  clients, and all three servers: `TypeCorrect`, and `Printed` (`PrintedIsOwn`). The invariant
  has two halves. `ControlInv` says who may use an instance: in `serverNP` and `serverSM` the
  thread of that number, in `serverNPCP` one thread at a time, the one that took the only
  completion the instance has pending (`KeyOK`). `Phase` says, for a client that talks to an
  instance, which of four phases its command is in: unanswered, being answered by the one
  thread that serves the instance (what is printed, what is in the pipe and what the thread
  has still to send make up the output), answered, or cut off by the end of the server. One
  lemma per action shows that both are kept; a thread's steps on other instances do not
  touch a client's phase.

* `SocketServerProofs`, for any clients, slots, handle values, commands, failing calls and
  killed clients, and all four programs: `TypeCorrect`, `Joins` (`JoinsTheStoppedThread`) and
  `OwnResponse` (`ResponseIsOwn`). The invariant has three parts. `TableInv` ties a slot's
  status and stored handle to the one thread that lives in it; as a scan that the flag cuts
  short begins an accept thread on the slot it has reached, even one in use, it is claimed
  only before a shutdown and while main is between finding a stopped thread and joining it
  (`Early`). `SlotsDiffer`, that two threads that execute requests have two
  slots, outlives the shutdown: a thread that begins then sees the flag and executes
  nothing. So no temporary file has two writers, and `Phase` says of each client, as for
  the pipes, how what it printed, what is on its way and what its thread has still to
  send make up the output of its command. One lemma per action.
* `SocketServerProofs`, the framing: `ReadsWhole`, for any texts without a null, any number of
  messages, buffers and headers of any size and every way in which `recv` cuts the streams:
  a thread that calls receive as often as there are messages and ends has got what was
  sent, in order, whichever socket it reads next. With a null at the end a text must take
  less than half the buffer (`Fits`); a thread reads one socket, or any number with the
  handles of SKHA. The proof has two inductions. Within a call, a message and what follows
  it begin the bytes to come (`Begins`), and after i passes the call has either returned
  the text, with what follows split between what it keeps and the stream (`Come`), or
  taken at least i bytes and may still ask for more (`Coming`). Between calls, each socket's kept
  bytes and stream are the messages not yet got (`InStep`), and a call adds one element to
  a finite set, `Done`, of messages and ends, so that all are done after as many calls as
  there are. `Framed` (`MessagesAreWhole`) applies it to the library of each program.

Induction over numbers is used in these proofs for sets (`NatSetInduction`, from the
well-founded order of the library), since the library's induction theorem takes a
predicate and no installed prover instantiates it. A recursive function over 0 .. n is
shown to exist by the same induction (`StepByStep`), after which its equations can be used;
for this the loops of the framing and the sums are functions and not RECURSIVE operators.

Only model-checked: the liveness properties (`AcceptedIsClosed`, `LogRequestReturns`,
`DialogueEnds`, `FlagEndsService`, `ProgramEnds`, `ScriptsEnd`, `TestEnds`, `ControlCEnds`,
`PendingAreTaken`, `ShutdownEnds`, `QuitEnds`, `AskedIsAnswered`, `ShutdownReachesWorkers`) and the absence of deadlock in
the runs that check it, since fairness and ENABLED are out of the prover's reach. Every
safety property that a run checks is also a theorem.

## 5. Not modelled

* Of the server and the client: the cursor that `strtok` shares between threads, SIGPIPE,
  the seed of `rand()`, the overflow of `cmd` by long arguments, the text of addresses,
  dates and messages (`get_ip`, `get_port`, `get_time`), `constants.h` and the scratch test.
  `PROJECT.json` names those that are hazards, with the reason no property covers them.
* Of the Windows programs: the simpler predecessors of what is modelled (`simplePC`,
  `eventPC` of CHAPTR09, `multiPCav`, `ThbObject`, `testTHB` and the deliberately defective
  `QueueObjX` of CHAPTR10), the services' registration and status reports
  (`SimpleService`, `ServiceShell`, `serviceSK`), the job shell (CHAPTR06), which keeps its
  table in a file, the sorting and counting threads (`sortMT`, `grepMT`, statistics),
  which share nothing but a join, the generated RPC stubs (CHAPTR15), the vendored
  `pthread.h`, and the file, directory, registry, security, memory and console
  utilities, which are sequential.

What could follow: a composition of `Dispatch` with `RequestLog` in place of `Serve`, for a
worker that blocks on `log_cs`.
