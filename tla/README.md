# UAVTelemetryReceiver: models and proofs

The firmware under `src/Project_mbed_stm32f10x_src` is a telemetry receiver for an
STM32F103 board: a handful of tasks over the RTX kernel of mbed exchange key
presses, positions, alarms and status through a publish/subscribe broker. This
directory holds TLA+ modules of its parts, TLC configurations that check them on
small instances, and proofs of their main properties for every instance.

Paths below are relative to `src/Project_mbed_stm32f10x_src`. Own code is `main.cpp`,
`user-common`, `user-modules` and `user-tasks` (about 2300 lines); `mbed-src` and
`mbed-rtos` are vendored.

## 1. Inventory

| Component | State | Operations | Talks to |
|---|---|---|---|
| `MsgBroker` (`user-modules/MsgBroker.h`) | `topic_list`; per topic: `observer_list`, `data`, `datasize`, `count` | `init`, `deinit`, `installTopic`, `removeTopic`, `attach`, `detach`, `publish`, `consumed`, `getTopicData`, `getTopicDatasize` | every task, which calls it in its own context; callbacks run in the publisher's task |
| `List` (`List.h`, `List_tpp.h`) | `_first`, `_last`, `_search`, `_count`, nodes on the heap | `addItem`, `removeItem`, `getFirstItem`, `getNextItem`, `searchItem`, destructor | the broker: one list of topics, one of observers per topic |
| `KeyDecoder` | `_currentkey`, `_lastkey`, `_timeout`, `_keydata`, `_th` | `run`, `readKeyboard`, press and release callbacks | EXTI interrupts, its thread's signals, publishes `/keyb` |
| `SysManager` | pointers to the last updates | `run`, `OnTopicUpdateCallback` | attached to `/gps`, `/keyb`, `/alarm`, `/stat`; drives beeper and LEDs |
| `VirtualReceiver` | decoder state, PDU buffer, timeouts | `run`, `send`, `decodePdu`, CRC | serial link; attached to `/gps`, `/keyb`; publishes `/alarm`, `/stat`. `main` does not create it |
| `GpsReader` | receive buffer, `_gpsdata` | `run`, receive callback | serial receive interrupt; publishes `/gps` |
| `BeepGenerator`, `LedFlasher` | state, shots left, period | `beepStart`/`beepStop`, `ledStart`/`ledStop`, timer callback | RTX software timers, whose thread has priority High |
| `main` | - | installs four topics, starts the kernel, creates the tasks | all |
| RTX (`mbed-rtos/rtx`) | TCBs, ready and delay lists, timer list | signals, waits, timers, dispatch | all tasks, interrupts |
| HAL (`mbed-src`) | peripheral registers | EXTI and UART handlers | interrupts |

What is hard in it:

* **Concurrency.** KeyDecoder (High) preempts GpsReader (AboveNormal), which preempts
  SysManager (Normal). All of them walk the same lists through the cursor `_search`
  that lives *in the list*, and change the same `count`, and `MUTEX_LOCK` is empty.
* **Callbacks under the lock.** `publish` calls observers back in the middle of its
  loop; the callback sets a signal, so a subscriber may run before the loop ends.
* **Waiting.** `Thread::signal_wait` with several flags waits for all of them.
* **Interrupts against a scan.** Keys bounce while `readKeyboard` reads twelve pins.
* **Time.** Repeat timeouts, answer timeouts, periodic software timers restarted
  while running.
* **Partial failure.** A failed allocation, a topic not found, a refused publish.

What makes each part correct: for the broker, that lookups, counts and deliveries are
those of an atomic publish/subscribe service; for the list, that links, ends, count
and heap agree and that it is a sequence with a cursor; for KeyDecoder, that no edge
is lost, that what is published was read, and that repetition stops; for SysManager,
that each update is consumed; for VirtualReceiver, that a command is answered or
times out and that both ends resynchronise; for the timers, that a callback runs at
its deadline and a pattern plays to its end.

The hazards, with the line where each bites and the property that covers it, are the
list `hazards` of `PROJECT.json`.

## 2. Plan

Order of work: the broker first, because every task goes through it; then what feeds
it; then its consumers and the kernel services they lean on.

| Module | Content | State |
|---|---|---|
| `Broker` | abstract atomic publish/subscribe | done |
| `MsgBroker`, `MCMsgBroker` | the broker, one action per shared access | done |
| `ItemList`, `List`, `MCList` | abstract sequence with a cursor; the linked list on its heap | done |
| `RtxSignals` | event flags of a thread | done |
| `KeyDecoder`, `KeyDecoderNew`, `MCKeyDecoder` | keyboard task and interrupts; its constructor | done |
| `SysManager`, `MCSysManager` | the task that answers updates, over `Broker` | done |
| `Deadlines`, `RtxTimers`, `TimerService`, `MCTimerService` | abstract timers; the kernel's timer list; the list as a service | done |
| `TimerOwner`, `BeepGenerator`, `LedFlasher`, `Blink`, `Indicators`, `MCIndicators` | the timers as their users hold them; buzzer and led; what each promises; both on the timers they share | done |
| `PduCodec`, `PduLink`, `MCPduLink` | frames and their decoder; the decoder at the end of a faulty line | done |
| `VirtualReceiver`, `MCVirtualReceiver` | the modem task over `Broker`, `RtxSignals` and `PduCodec` | done |
| `GpsReader`, `MCTasks` | the serial task on the UART registers and their interrupt; SysManager below it | done |
| `MsgBroker_proofs` | types; exact lookups and no fault; exact counter and refinement of `Broker`, with the mutex and as `main` has it | proved |
| `KeyDecoder_proofs`, `SysManager_proofs`, `PduLink_proofs` | types and safety of these; `KeyDecoder_proofs` also has `KeyDecoderNew` and `GpsReader` | proved |
| `List_proofs` | links and heap agree; refinement of `ItemList` | proved |
| `VirtualReceiver_proofs` | no update forgotten, the timeout, what is sent | proved |
| `Timers_proofs` | the timer list, one tick of it; refinement of `Deadlines`, and of `Blink` by buzzer and led; a led that follows its plan | proved |

Composition: `SysManager` and `VirtualReceiver` are built over `Broker`, which
`MsgBroker` implements; `BeepGenerator` and `LedFlasher` extend `TimerOwner`, so that `Indicators`,
which extends both, has one `RtxTimers` for the two; `KeyDecoderNew` extends `KeyDecoder`;
`MCTasks` puts SysManager below GpsReader; four modules share `RtxSignals`,
and two share `PduCodec`.

What is left is what the prover does not do: liveness under fairness (section 5), which stays
with the runs.

## 3. The modules

### Broker and MsgBroker

`Broker` is the promise: `subscribed[n]`, `outstanding[n]` and `latest[n]`; an update
of `n` is accepted only when nobody owes `consumed()`, is then owed by exactly the
tasks attached at that moment, and stays the latest until all of them have answered.

`MsgBroker` follows the code. Every task has a `pc`; each action is one access to
something shared, so that a preemption can fall between any two of them:

* `FindFirst`, `FindNext`, `FindStep`, `NotFound` are `findTopic`: `search` is
  `topic_list->_search`, which `getNextItem` loads (`FindNext`) and stores (`FindStep`).
* `PublishCheck`, `PublishStore`, `CountLoad`, `CountStore`, `Notify`, `NextObserver`,
  `StepObserver` are `publish`: the refusals, the assignment of `data`, then per
  observer `count++` as a load and a store, the callback, and the next observer.
* `AttachLink` and `AttachSeal` are `addItem` in `attach`: the node is reachable
  before its `next` is written. `raw` holds the nodes in between; a walk over one may
  follow anything (label `fault`). `Sealed` is what remains reachable when two calls
  overlap; it is exact for two.
* `GetTopicData`, `Fetch`, `Consumed`, `ConsumedStore` are a subscriber's answer.
  `consumed` goes on with a null topic when the lookup failed, and after `getTopicData` the
  subscriber reads through the null it gave back: both are `fault` too (`NotFound`).
* `data[n]` names the task whose buffer the topic points to: the code keeps the
  pointer, so a later write of the publisher (`CallPublish`) shows through it.
* `InstallTopic` is `main` before the kernel starts; its allocation may fail.

`Running` is RTX's rule: nobody runs while a task of higher priority is ready; equal
priorities interleave freely. `Locked` chooses between the code as it is (`FALSE`, the
macros are empty) and the port to a mutex that the header describes (`TRUE`).
`latest` and `owed` are history variables.

Abstracted: topic names are model values, datasize is right or wrong (`WrongSize`),
payloads are values. `attach` gets its memory (`:219` writes to it without a test).
`exception` is examined by nobody, so results of refused calls are not kept.

### List and ItemList

`List` keeps `_first`, `_last`, `_search`, `_count`, the `prev`, `next` and `item` of
each node and the set of allocated nodes; every operation is one action, and the
destructor is a loop of actions. Nodes are reused after `free`, and `malloc` may run
out, which faults as in the code (`addItem` writes through the null pointer). Null
items, which the broker never adds, are left out. `ItemList` is a sequence with a
cursor that becomes unknown when the item under it is removed.

### RtxSignals, KeyDecoder and KeyDecoderNew

`RtxSignals` has the event word of a thread as a record with the operators of
`rt_Event.c`: the wait always asks for *all* the flags named.

`KeyDecoder` has the pins, the latched lines, the thread and the task. `Edge` moves a
pin and latches the line, `Irq` runs the callback, and the task's actions are the
steps of the constructor's last lines and of `run`, the scan being one action per key,
so that edges and interrupts fall inside it. `Timeout` ends the delay of the wait.
Abstracted: a key code is the set of keys down; the debounce wait is a step that takes
unspecified time.

`KeyDecoderNew` begins with the constructor's first line: `Attach("fall")`,
`Attach("rise")` and `Disable` for each key in turn, with the edges a line is set for,
the callbacks attached and the NVIC vectors that lines share (`gpio_irq_api.c`). `Run`
hands over to `KeyDecoder`. `_th` holds what `new` left in it until the end. A callback that
uses it before is a `fault`, or else has no effect that the model has; `early` remembers
the keys it came from.

### SysManager

`run()` over the atomic broker: the attach calls, the wait for all four flags, and per
topic `Clear`, `Consume` and `Beep`. `Publish` is one step with its callback, because all
publishers have higher priorities than SysManager. The program keeps a pointer to the
publisher's buffer: `WriteStatus` is the publisher that writes the next status there before
a publish that may be refused, and the handler of `/stat` loads the mode from it up to four
times (`Show`, `ShowAlt`, `ShowRth`). A publish in the middle of a lookup may hide the topic
(finding `broker_main_lookup`), so each `Consume` and `Show` may also go to `missed`, where the
program has read through null. `branches` and `consumes` say for which topics the callback
sets a flag and the handler calls `consumed`. They never change, and are chosen at the start
from `Variants`: the code as it is (no branch for `/stat`, no `consumed` for `/alarm`), the code
with that branch, and with both.

### Deadlines, RtxTimers and TimerService

`RtxTimers` has the list `os_timer_head` as in `rt_CMSIS.c`: `tcnt` counts from the timer
before, so `Insert` and `Remove` move a delay to and from the neighbour; `TimerTick`
decrements the head, takes all that reach 0 off the list, and of each in turn posts the
message and, if it is periodic, inserts it again (`after`, the handler's loop); delays are cut to `Width`, 2^16 in the code. `TimerService` lets
anybody start, restart, stop, create and delete timers at any moment. `Deadlines` is
the promise: each timer has its own time left, and each expiry is one callback.

### TimerOwner, BeepGenerator, LedFlasher, Blink and Indicators

`TimerOwner` has the timers and the call in progress, which the two drivers share. Both write the buzzer or the led in the timer callback and restart a periodic timer
there. `BeepHalt`/`BeepArm` (and `LedHalt`/`LedArm`) are `beepStart`'s `stop()` and the
rest up to `start()`, so that ticks and the other's callbacks fall in between.
`Indicators` puts them on one timer list. `Blink` is the promise: a command is a plan
of steps, each on or off for exactly its ticks. `BeepPlan` and `LedPlan` state it for the
commands whose plan the headers give and the code keeps: a beep of one shot, once or
repeated, and the led's modes but for one fast flash. The other commands are given in the
run all the same, as interference. For the buzzer, on means that its status is BEEP: what the
output does then is `Sounds`, which is violated.

### PduCodec, PduLink and VirtualReceiver

`PduCodec` has `getCRC`, the frame that `send` makes, and `decodePdu` as a function of
receiver and byte. `PduLink` puts the decoder at the end of a line with a peer that
answers in time, late or unasked, and a line that corrupts and loses bytes; `awaited`
is the answer that was sent to a waiting receiver and not disturbed since.

`VirtualReceiver` is the task: its wait, the timeout branch, the polling loop, the
handlers of `/keyb` and `/gps`, and `send`. It is composed with the broker, an observer of
`/alarm` and `/stat`, and the peer. `buffer` is what the data of a topic points to: the data of
an update that has been given back, of the one that is owed, or of one written later, before
a publish that is refused (`Write`). `Copy` reads it at that moment. Both `Copy` and `Consume` may
miss their topic, as in SysManager. `Arrive` is a byte with its interrupt, which clears RXNE before
the task goes on: only a load of the status register that the interrupt lets go first, in
`readable()` or in the loop of `getc()`, sees the byte.

### GpsReader

The status and data registers of the UART, the interrupt handler of `serial_api.c` and
the task. A load of the status register may be the last instruction before an interrupt
(`late`), so the task decides on a status that has changed. `seen` is a history variable.

### What the models show besides their properties

These are facts of the code that the models carry, with the lines where they are. The
first three are violated runs, and findings of `PROJECT.json`.

| Where | What |
|---|---|
| `MsgBroker.h:378` | `findTopic`'s cursor is shared: a preempted lookup misses a topic (`broker_main_lookup`), against `MsgBroker.h:41` |
| `SysManager.cpp:77` | the wait is for all four flags, and nobody sets that of `/stat`: no key beeps (`sys_beeps`), against `SysManager.h:11` |
| `BeepGenerator.cpp:68` | the pulse is 0 from the constructor on, as `period_us` keeps the duty cycle: nothing sounds (`buzzer`), against `BeepGenerator.h:7` |
| `MsgBroker.h:315` | with two subscribers at different priorities and no mutex, a decrement of `count` is lost |
| `VirtualReceiver.cpp:149` | `/stat` is published with the size of an alarm and refused (`Stat`) |
| `rt_CMSIS.c:883` | `osTimerStart` of a running timer keeps its period (`cmsis_os.h:438` says restart); so beeps and flashes keep their first one |
| `KeyDecoder.cpp:203` | a repeat timeout publishes the last reading, also if the key is up by then |
| `MsgBroker.h:287` | a refused publish has overwritten what the topic points to (`WriteStatus`, `Write`): a status may be shown of which half is another one's |
| `List_tpp.h:118`, `:38` | `removeItem` on an empty list reads through null; removing the node under the cursor leaves the cursor on freed memory. No caller does either |
| `serial_api.c:201` | `uart_irq` clears RXNE after the callback: a byte is lost, and `getc` (`:286`) may then spin |
| `VirtualReceiver.cpp:121`, `:144` | a missing answer is reported also when it has arrived; a NACK is not reported |
| `VirtualReceiver.cpp:231` | after a failed check each further byte is taken for a check byte, until a timeout or a command; the head flag is not escaped in the data, so such remains may hold it |

Some more comments of the repository say what the code does not do. No property is stated
of these, neither for the comment nor for the code; they are disagreements a maintainer has to settle:

* A press without a release does not wake KeyDecoder (`KeyDecoder.cpp:184` waits for both flags;
  `KeyDecoder.h:7-10`, `KeyDecoder.cpp:187`).
* A dual or quad beep is in BEEP once, then silent for two or four times as long
  (`BeepGenerator.cpp:36`; `BeepGenerator.h:37-38`).
* After a single fast flash the led is dark for 2 s, its off time and its wait
  (`LedFlasher.cpp:40`; `LedFlasher.h:38` and `SysManager.cpp:110` say 1 s).
* VirtualReceiver waits for a byte of the peer, a key and a position together before it passes
  anything on (`VirtualReceiver.cpp:115`; `VirtualReceiver.h:12`).
* A PDU of size 0 is received as one of size 1 (`VirtualReceiver.cpp:221`; `VirtualReceiver.h:93`).
* The handler of `/alarm` never calls `consumed` (`SysManager.cpp:79-82`), so a second alarm is refused
  (`SysManager.h:12`).
* `removeTopic` frees a topic without its observers (`MsgBroker.h:176`), and `detach` leaves the
  topic's count as it is (`:252`). Nobody calls them.

## 4. The runs

| Run | Instance | Shows |
|---|---|---|
| `broker_locked` | 3 tasks interleaving freely, 2 topics, `/keyb` with two observers, one publisher with a wrong size, fair | under the mutex: exact lookups and counter, no fault, refinement of `Broker`, and every call comes back |
| `broker_main` | the tasks and priorities of `main`, no mutex, two values | with one publisher above one subscriber the broker implements `Broker` all the same, its counter included |
| `broker_main_lookup` | same, one value | **violated**: a preempted lookup misses an installed topic |
| `list` | 3 nodes, 2 items | links, count, heap; the destructor frees all; refinement of `ItemList` |
| `keys` | 2 keys whose lines share a vector, fair | which keys the constructor exposes, no other use of `_th` before it is set, no edge lost, timeout armed exactly while a key is held, repetition stops and tracks a steady keyboard |
| `timers` | 3 timers, one of them one-shot, queue of 2, counters of 0 to 4 | the list of differences implements `Deadlines` |
| `indicators` | 4 beeps and all led modes | a beep of one shot and the planned flashes keep their times, the led follows its plan, beeps end |
| `buzzer` | same | **violated**: a buzzer in BEEP has no pulses |
| `tasks` | the three variants of SysManager, 3 status values, below GpsReader with 3 bytes | nothing used before it is set, no update forgotten, GpsReader never sleeps on a byte it has not asked for |
| `sys_beeps` | SysManager as it is, fair | **violated**: an update of `/keyb` gets no beep |
| `pdu` | bytes of 4 bits, buffer of 4, 4 answers, two of which hold the head flag, 2 faults | no write behind the buffer, resynchronisation |
| `virtual` | bytes of 3 bits, an ACK and a NACK, fair | nothing forgotten, timeout armed exactly when needed, each command with an update of its own and data not older than it, the protocol comes to rest |

Each violated run is a disagreement between the code and its comment; it is a finding
of `PROJECT.json`, with the line it contradicts.

**Bounds.** Most models count nothing without limit, so no bound cuts a behaviour short;
the instances only limit how many things there are. Two topics make a lookup that must
step; two observers make a loop with a next turn, which every hazard of `count` needs;
three tasks give a publisher, a subscriber above and one below (in `broker_locked` all
priorities are equal, which allows every interleaving some assignment allows). Two keys
are enough to press one while another is held, to move a key that was already scanned,
and to have a second key on a vector. Three nodes give a first, a middle and a last, and
three timers the same on the timer list. Bounds proper: `MaxBytes` (three bytes that the gps module
sends; the registers hold one, and the task has forgotten a byte two later), `MaxFaults`
(two, for a frame damaged while the line is still in the last one), `MaxLate` (one tick
that a callback may take) and `QueueSize` (with three timers, two places and the waiting
thread just suffice; the program has two timers and four places), `Width` (5 and not
65536, so that delays are cut in the run), bytes of three and four bits (a head flag,
the bit of a NACK and data that is neither). `Indicators` counts in units of 100 ms, of which all times in
the two drivers are multiples.

Deadlock is not checked in `broker_main` and `broker_main_lookup`, where a task may fault
and the program stops there; in `tasks`, `sys_beeps` and `virtual`, where a lookup that misses
stops it, and the code as it is sleeps for good; and in `list`, which ends with its destructor.

**Fairness.**

* `broker_locked`: strong fairness of a task's own steps once it is in a call. A
  low-priority task is preempted again and again, but publishers sleep between updates
  (`Thread::wait(50)` and the wait of `KeyDecoder::run`), so it gets the processor
  infinitely often. Nobody has to publish, and no wake-up is fair: a task that
  waits for several flags may never be woken by one of them.
* `keys`: weak fairness of the constructor, of the task (the highest priority, which
  nothing else disables), of the tick that ends its delay and of the latched interrupts;
  none of the user's edges.
* `sys_beeps`: weak fairness of the task and of main's assignment. The publishers owe nothing.
* `indicators`: the timer thread has priority High and ends its callbacks, the owner (Normal)
  completes a call it has begun, and time goes on while a timer runs. Written with
  `[]<>` rather than `WF`, which says the same here and spares TLC the evaluation of
  `ENABLED` on nested operators.
* `virtual`: weak fairness of the task and of its timeout; strong fairness of `NoMore`,
  as the polling loop is faster than a serial line. The peer and the publishers owe nothing.
* `list`: weak fairness of the destructor's loop.

## 5. The proofs

All are for arbitrary constants: any sets of tasks, topics, values and keys, any
priorities, publishers and subscribers, any width of bytes and any buffer size that meet
the assumptions in the modules (`ConfigAssumption`, `VariantAssumption`, `ModeAssumption`,
`CodecAssumption`, `LineAssumption`, `FrameAssumption`, `FitAssumption`,
`HeapAssumption`, `NewAssumption`, `TimersAssumption`, `RoomAssumption`, `ServiceAssumption`,
`IndicatorsAssumption`),
which TLC evaluates on the runs' instances.

`MsgBroker_proofs`: `TypeCorrect`, with or without the mutex. `TypeOK` alone is not
inductive: a register has the right type only where it is used, and `ConsumedStore`
subtracts one from a register that must be positive; `Registers` says so.

The same module, assuming `Locked`: `LookupsExact` and `NeverFaults`. The
inductive invariant `Safe` adds that a task between lock and unlock is the holder
(`Mutex`), that nobody calls the broker before `main` is done (`Boot`), that topics are
installed once (`Distinct`), where a walk has got to (`Walk`: the cursor is at some
position up to which no name matched), that whoever is notified or past its lookup has
an installed topic (`Installed`), and that an unfinished node belongs to a task that
is still in `addItem` (`RawSealed`). The lemma `Alone` carries most of the argument:
while one task is under the mutex, another one can only go from its update to
`consumed()`, or begin a call.

Also assuming `Locked`: `CountsExact` and `BrokerRefines`. `Exact`
adds to `Safe` that a task is attached to a topic once, that whoever was notified owes
an answer and is not notified a second time meanwhile (`Owes`), that the counter is
the number of answers owed unless somebody is in the notification loop (`Counted`), and
what the loop has done so far (`Notifying`: at the k-th observer the counter is k - 1
or k, and those to come have not been notified, although a subscriber of higher
priority may already be answering). `Prepared` says that a publisher announces a value it has written.
`StepRefines` then maps `AttachLink`,
`PublishStore` and the end of `consumed` to the atomic operations and all else to a
stutter.

For the code as it is, without a mutex: `MainCounts` and `MainRefines`, the same two facts,
assuming `OneAbove(p, s)`: only `p` publishes, only `s` subscribes, and `p` has the higher
priority. That is `main` (`p` the keyboard task, `s` SysManager), and the constants of
`broker_main`. `Pair` is the inductive invariant. By the priorities the subscriber moves only
while the publisher is idle (`PairActs`), so a call of the publisher is one step to it; the
publisher, though, may find the subscriber anywhere. What has to be shown is that it then
leaves alone what the subscriber holds: a subscriber between the load and the store of
`count--` has seen 1 (`Tallied`), every update on that topic is refused meanwhile, and a
notification loop that runs is on another topic. A subscriber caught inside `addItem`
(`Single`) can send the publisher to a fault, which breaks no promise as nothing moves
afterwards. With two subscribers of different priorities the counter is no longer exact
(`MsgBroker.h:315`, in the table of section 3), and lookups are not exact even here
(`broker_main_lookup`).

`KeyDecoder_proofs`: `TypeCorrect`, `EdgesLeaveTraces`, `RepeatFollowsReading`, for any set of keys:
of the running task, and again of `KeyDecoderNew`, whose constructor an edge may interrupt
between any two of its steps (`NewTypeCorrect` and its companions). A callback that uses `_th` too
early may fault; `Broken` says what is known then, `Sound` what is known otherwise.
`FirstExposed` is `OnlyFirstExposed`: a vector is enabled until the first of its keys is done.
`NewFaultsOnlyEarly` is `FaultsOnlyEarly`: from the end of the constructor on, no line is enabled
before `_th` is set.

`SysManager_proofs`: `TypeCorrect`, `NeverFaults`, `NeverForgets`, for any
choice of branches and `consumed` calls. The invariant turns on `Standing`: a flag that
is set, and a handler still to come, each stand for one update that is still owed, and
never both for the same topic. So a topic accepts no update between its handler's clear
and its `consumed` (which is why clearing forgets nothing), and a status that is to be shown has
been published (`Published`). That it is the status of the update given back cannot be proved, as it
is not so: the buffer is the publisher's.

`PduLink_proofs`: `TypeCorrect`, `StaysInBuffer`, `AcceptsAnswers`. `Sized`
bounds the data by the size in the two states that store it, which makes the buffer
safe against any bytes. `Aligned` is the argument for resynchronisation: while an
undisturbed answer is under way, the receiver is at the same byte of its frame as the
line, so its last byte meets a receiver in `RECV_DATA` with the same data. The check byte
of a frame is a byte (`CrcIsByte`): `getCRC` is a function on the positions of its argument, and
that it exists with bytes as values is shown by a least counterexample
(`NatLessThanWellFounded`, `WFMin`), as the induction theorems take an operator. Nothing is assumed of the
data of an answer but that it fits.

`VirtualReceiver_proofs`: `ForgetsNothing`, `TimeoutFollows`, `EachCommandIsOwed`. `Standing` says of
both topics that an answer is owed exactly when the flag is set or the handler is still
to come in this pass, and never for both reasons, so `CLEAR_FLAG` clears nothing it has not
handled, and a handler finds its update owed; then what the publisher's buffer holds is that
update or a later one, and so is what was copied from it (`Copied`). `AtRest` says that
between two passes the decoder waits for a response exactly when the timeout is armed.

`List_proofs`: `StaysWellFormed` and `ImplementsSequence`. The invariant `Linked` says that some
sequence of nodes is the list (`IsChain`): without repetition, every allocated node in it, `next`
and `prev` of each its neighbours, `first` and `last` its ends. `Extends` and `Unlinks` are what
`addItem` and `removeItem` do to such a sequence. The model reads the list as the code does, from `first` on
(`NodeAt`); `WalkIsPadded` shows by a least counterexample that this walk is the sequence.
Then each action is one of `ItemList` on its contents, `Cut` being the removal.

`KeyDecoder_proofs` also proves `NeverSleepsOnAByte` of `GpsReader`, which is `LooksAgain`: the other
task that an interrupt wakes. `GpsAsleep` says what a blocked task waits for; `GpsRemembered`, that a
byte nobody has asked about is in the register, or has set the flag, or has woken a task that is
on its way to `readable()`.

`Timers_proofs`: first come facts about the timer list. `InsertGives` and `RemoveGives` say what is
in the list and who is running afterwards, `TickGives` what one tick does to all timers at once:
its loop, a recursive function, exists and keeps the list well formed (`TickStep`, a least
counterexample over its turns).

`TimersKeepDeadlines` is `ImplementsDeadlines`. The sums of delays before each timer are never
added up in the proof: `Runs` says, of a function that gives each timer its ticks left, that every
counter in the list is the difference of two of its values, and `LeftIs` that the sum is then that value.
`InsertRuns` and `RemoveRuns` keep this (no counter wraps around, as a difference of two values that fit
fits too), `DownRuns` and `RestRuns` are the tick's countdown and what it takes off the list, and
`TurnCarries` is one turn of its loop. The invariant `Timely` adds the messages: no timer is twice in
`Backlog` (called back or queued), so by the pigeonhole principle the queue has room (`Room`), and a
timer that waits there expires only after the thread must be through. What this rests on is in
`RoomAssumption`, as many messages as timers but one, and `ServiceAssumption`, no delay shorter than the
thread may take. The code has 4 messages for 2 timers whose shortest delay is 200 ticks of 1 ms.

The invariant of the two drivers has `Kernel` (a timer is
in the list once if it runs, else not at all; no message is left while the thread waits),
`Buzzes` and `Flashes` (which output goes with which state, and which states need a running
timer), and `Calling` (between the two halves of a start the timer rests and nobody calls back).
So a callback comes only from a timer that its driver expects it of.

`BeepKeepsItsTime` and `LedKeepsItsPlan` are `BeepTimesKept` and `FlashesAsPlanned`, each a
refinement of `Blink`. They take from the proof of the deadlines that every timer has its own ticks
left (`Dues`), which no call for the other timer changes (`Same`). `Paced` adds to the invariant
above that a timer whose callback is due has only just started anew (`Timed`), that a buzzer at work has
its timer running with the time of the beep or with the wait for a period and one period of
silence for each shot left (`BeepTimes`), and that a led at work has the times of its mode
(`LedTimes`). `BeepSeen` and `LedSeen` say, from the ticks left alone, which step that is and
how old it is. The proof first follows the code in everything it is asked for: `BeepCourse` and
`LedCourse` are what it makes of every command, those included that have no plan, and a tick is
then a `Tick` of the course, a callback `Advance` or, within a silence of several shots, nothing.
`BeepStepOfPlan` and `LedStepOfPlan` go from the course to the plan: they agree on the commands that
have one, and the others are rest to it.

`LedFollowsPlan` is `LedFollows`: the led is lit in STAT_FLASH alone (`Flashes`), and those are the steps
that the plan has on (`LedOn`).

Each safety property proved is checked by the corresponding run as well, except the types
of `KeyDecoder`, `SysManager` and `PduLink`: `TypeCorrect` proves those, and no
run repeats them.

Only model-checked: the liveness properties (`CallsReturn`, `RepeatStops`, `RepeatTracks`, `BeepEnds`,
`ComesToRest`, `Destroyed`), which rest on fairness and are outside what the prover does.

## 6. Not modelled

The repository is about 125000 lines, of which 2300 are the program's own; the rest is
mbed's library as shipped: device headers, STM32 HAL drivers (timers, I2C, SPI, SD, USB,
Ethernet and so on, most of them never called), CMSIS and the RTX kernel. Models of
those would say nothing of this program. The own code is modelled but for what is named
here, and of the vendored code what the program's behaviour rests on: event flags, timers,
the EXTI and UART handlers, PWM pulses. A share of the whole is therefore small by nature.

* **RTX** beyond that: ready lists, context switches, mutexes, semaphores, memory pools,
  the OR-wait. Its scheduling enters as who may interrupt whom. `main`'s own thread has
  priority Normal and never sleeps, so it shares the processor with SysManager by round
  robin, against what `main.cpp:52` says; fairness holds all the same.
* **Drivers**: pin and clock configuration, `putc` (which waits on TXE), formats and baud
  rates, overrun errors of the UART and the interrupts they repeat. `UartHandle` is one
  variable for all ports; only one port is in use.
* **MsgBroker**: `deinit`, `removeTopic`, `detach` and `getTopicDatasize`, which nobody in the
  program calls, and an `attach` that gets no memory, which faults where it stands.
  `getTopicData` reads `topic->data` after `MUTEX_UNLOCK` (`MsgBroker.h:340`), which is part of
  the step under the lock here, as nobody removes a topic.
* **List**: `setLimit` cannot be instantiated (it names an undeclared exception).
* **VirtualReceiver**: `main` does not create it. The TxIrq callback sets a flag nobody waits
  for; both alarm codes are 0 and `ALARM_WRONG_RESPONSE` is never raised.
* **GpsReader**: the decoder is a `#warning` in the source, and `/gps` is never published.
* **BeepGenerator**: the pulse width as the timer's registers round it (`BeepGenerator.cpp:68`
  scales it by the duty cycle of the period before; on or off is what the model keeps).
* Destructors of tasks, which are never reached.
