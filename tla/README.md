# IHome control terminal: TLA+ models and proofs

The repository is the firmware of a home control terminal: an STM32F4 board with uC/OS-II and lwIP
1.4.1 (NETCONN interface). The terminal keeps a connection to a central **server**, accepts one
**user** on port 8080, takes commands from both, drives a lamp, a temperature and humidity sensor
and a camera, and answers.

This directory holds TLA+ models of the parts where tasks, queues, connections and memory meet, the
TLC configurations that check them, and TLAPS proofs. Paths and line numbers below are those of the
repository. Its Chinese comments are GBK-encoded.

Contents: [1 Inventory](#1-inventory) · [2 Modules](#2-modules) · [3
Runs](#3-runs-what-is-checked-and-what-it-shows) · [4 Fairness](#4-fairness) · [5 Proofs](#5-proofs)
· [6 What the runs disagree with](#6-where-code-and-documentation-disagree) · [7
Limits](#7-limits-of-the-models) · [8 Plan](#8-plan)

## 1 Inventory

### How the parts fit

```
            server                                  user
              |                                       |
   tcpip thread (prio 5), netconns, recvmboxes, acceptmbox    (lwIP)
     |             |                 |              |
 connect (6)  client recv (9)   server (8)    server recv (10)
     |             |   \             |          /   |
     |             |    +-- tcp_handle_event --+    |       queue of 10
     |             |               |                |
     |             |         handle (11) -----------------+
     |             |           |   led_event 6, dht11_event 6, camera_event 6
     +-------------|-----------+       |            |             |
     |     tcp_send_event, 20      led (17)    dht11 (18)    camera (19)
     |             |                   |            |             |
     +-------->  send (12)  <----------+------------+      writes directly
```

Tasks share no lock. What they share is: five kernel queues of pointers, the globals
`tcp_clientconn`, `serverconn`, `isConnected`, `isAuthed`, `isAccepted`, `isChecked`,
`camera_start`, `ihome_start_flag`, and the heap `SRAMEX`. A message is always **several** pointers
posted one after the other (who it is from or for, then its parts); nothing but their order in the
queue ties them together. uC/OS-II runs the ready task with the smallest priority number, so which
tasks can come between two steps of which others follows from `task_priority.h`.

### Components

| component | code | state | operations | hard behaviour | what makes it correct |
|---|---|---|---|---|---|
| Outgoing message path | `tcp_client.c` 116-134, 646-680, 927-990; `ihome_function.c` posts | `tcp_send_event`, the two pointers of the send task, link flags, buffers | post a tag, post a text, pend twice, write, free | producers preempt each other inside a pair; full queue; timeout inside a pair | a text reaches the peer of its own tag; each buffer has one owner; no lost wake-up; recovery at a message boundary |
| Client link | `tcp_client.c` 82-207, 301-321, 941-981; `api_lib.c`, `api_msg.c` | `tcp_clientconn`, `isConnected`, `isAuthed`, netconns and their recvmboxes | connect, log in, receive, close, note a failed write | a global pointer that three tasks use, replaced and deleted between their steps; stale answers; resets | the tasks work on the same connection; the login in force is that connection's; the netconns come back; the link comes back |
| User link | `tcp_server.c`; `tcp_client.c` 631-684, 973-981; `ihome_function.c` 150-266 | `conn`, `serverconn`, `isAccepted`, `isChecked`, netconns, acceptmbox | accept, receive, check the password, write (send and camera task), close, note a failed write | as above, with the flag cleared by three tasks; users queue up; a password outlives its user; two tasks write, and block, on one netconn | a user is heard, closed and checked as himself; his netconn comes back; the next one is served |
| Incoming message path | `tcp_client.c` 163-246, `tcp_server.c` 157-187 | `tcp_handle_event`, buffers of 200 and 7 bytes | copy, post two, pend two | pairs of two receive tasks torn; second pend times out; buffers never freed | a text is handled as that of the peer it came from |
| Command interpreter | `tcp_client.c` 209-925 | cursor `i`, `account`, the message | one command per turn of a loop, two branches (server's and user's) | invalid commands between valid ones, cuts, the end of the buffer | every valid command is carried out once, in order; the loop ends |
| Lamp path | `tcp_client.c` 455-512, 806-863; `ihome_function.c` 291-499 | `led_event`, three pointers, the lamp | three posts; three pends, switch, answer, three frees | full queue inside a command, timeout inside a command, a buffer freed twice | one command's parts switch the lamp; its answer goes to who asked |
| Temperature and humidity | `ihome_function.c` 501-688 | `dht11_event`, three pointers | three pends, read the sensor, answer | failed readings, frees that are skipped | an answer for each request; memory comes back |
| Camera | `ihome_function.c` 40-289, `camera.c` | `camera_event`, `camera_start`, `jpeg_data_ok`, `jpeg_data_len`, two DMA buffers | pend two, capture three frames with two interrupts, write in pieces | flags shared with interrupts, writes beside the send task | what is sent of a picture is one frame from its head on |
| Memory allocator | `malloc.c` | a table of one `u16` a 32-byte block, for each of three banks | `mymalloc`, `myfree` | no lock: tasks preempt a call between its search and its marks | two pointers never own a block; failure only when there is no room |
| lwIP port | `sys_arch.c` | mailboxes and semaphores on kernel queues | post, trypost, fetch with a time, valid | full mailboxes; times within one tick | nothing posted is lost; the time reported is the time waited |
| Kernel queue | `os_q.c`, helpers of `os_core.c` | ring of pointers, wait list, fields of the task control blocks | `OSQCreate`, `OSQDel`, `OSQFlush`, `OSQAccept`, `OSQQuery`, `OSQPost`, `OSQPostFront`, `OSQPostOpt`, `OSQPendAbort`, `OSQPend`, the tick | a post, a deletion, an abort and the tick between the two halves of a pend | a bounded FIFO: nothing lost, doubled or overtaken; no task waits beside a message or for ever unasked |
| Boot and address | `main.c`, `lwip_comm.c` | tasks, queues, `dhcpstatus` | create queues, get an address, create the network tasks | a step that fails is repeated from the start | the tasks exist once, after the queues |
| lwIP, uC/OS-II, FatFs, StdPeriph, drivers, USMART | vendored | | | | third-party: used through what the callers see |

`PROJECT.json` lists the same components with their state of modelling, and under `hazards` every
point of this code that is hard to test, at its line, with the properties that cover it or the
reason why none does yet.

## 2 Modules

| module | models | lines it stands for |
|---|---|---|
| `TcpSend` | the outgoing message path | `tcp_client.c` 26-44, 100-134, 646-680, 933-990; `os_q.c` 458-475, 608-646 |
| `TcpSendProofs` | theorems about it | |
| `RecvPath` | the incoming message path | `tcp_client.c` 163-191, 217-246; `tcp_server.c` 178-187; `os_q.c` 449-475, 608-646 |
| `Dht11Path` | requests to the sensor, from the parser's posts to the answer | `tcp_client.c` 757-805; `ihome_function.c` 508-686 |
| `Requests` | both: a request from its arrival to its answer | the same |
| `RequestsProofs` | theorems about the composition | |
| `ClientLink` | the link to the server | `tcp_client.c` 82-207, 229-245, 301-321, 933-990; parts of `api_lib.c`, `api_msg.c` |
| `ClientLinkProofs` | theorems about it | |
| `ServerLink` | the link to the user | `tcp_server.c` 23-200; `tcp_client.c` 631-684, 933-990; `ihome_function.c` 150-266; parts of `api_lib.c`, `api_msg.c` |
| `ServerLinkProofs` | theorems about it | |
| `Mbox` | lwIP's mailboxes, timers and thread on the kernel, with the data they carry from the interrupt to the receiving task | `sys_arch.c` 115-166; `tcpip.c` 74-150; `timers.c` 266-308, 434-474; `api_msg.c` 222-262; `tcp_in.c` 349-379; `api_lib.c` 351-425; `ethernetif.c` 80-126; `os_core.c` 893-962; `tcp_client.c` 157-205 |
| `Camera` | the camera task, its two interrupts, its queue | `ihome_function.c` 87-288; `camera.c` 25-34, 79-117; `dcmi.c` 25-34, 86-93, 166-173; `tcp_client.c` 511-570, 864-917 |
| `Heap` | what callers of `malloc.c` rely on (abstract) | |
| `Malloc` | `malloc.c`, access by access; implements `Heap` | `malloc.c` 65-158 |
| `MemoryProofs` | theorems about `Malloc` and `Camera` | |
| `LampPath` | lamp commands from the parser to the answer, on the allocator's table | `tcp_client.c` 455-512, 833-862; `ihome_function.c` 300-499 |
| `LampPathProofs` | theorems about it | |
| `Commands` | the parser of received messages | `tcp_client.c` 209-925 |
| `InputProofs` | theorems about `Mbox` and `Commands` | |
| `MessageQueue` | what users of `os_q.c` rely on (abstract) | |
| `OSQueue` | the kernel's queue; implements `MessageQueue` | `os_q.c` 63-865; `os_core.c` 893-962, 1033-1090, 1186-1197 |
| `OSQueueProofs` | theorems about it | |
| `MC...` | values for TLC | |

A definition named `X_Something` next to `X` is a plausible slip in `X`; each checked property has
one that breaks it, listed in `PROJECT.json` (`mutants`). `Camera` and `Commands` call their
specifications `CameraSpec` and `CommandsSpec`, as each shares a module of proofs with another.

### TcpSend

One action is what a task does from one point where another can run to the next. `PostAuth(p, to)`
and `PostMsg(p)` are the two `OSQPost` calls of a message of task `p` (they are the same in the
connect, handle, led and dht11 tasks, so there is one pair of actions for any set `Producer`). The
send task has `LoopHead`, `LinkCheck`, `PendAuth`, `PendMsg`, `MsgTimeout`, `StartWrite`, `Discard`,
`FinishWrite`; `LinkChange` is any task that sets `isConnected` or `isAccepted`. `OSQPost` is
`HandOver` (to the waiting task), `Append1` or `Refuse`, as in `os_q.c` 625-646; a refused buffer is
lost, as its callers only print a message. `Runs(p)` and `SendRuns` are the scheduler: a task caught
inside its pair is ready, and keeps everything below it from running.

History variables: `wire` (the writes), `dropped`, and `torn`, which is set when two producers are
inside their pairs at once, when half a pair is refused, or when the wait for a text times out, and
cleared when the path is quiet. `torn` makes it possible to say precisely *when* the path can be
wrong: `PairIntegrity`.

### RecvPath, Dht11Path, Requests

`RecvPath` is the mirror of `TcpSend`: two producers (`Receive`, `PostText`), tcp_client_recv and
tcp_server_recv, and one consumer (`Pend`, `TakeAuth`, `TakeMsg`, `Timeout`). The first receive task
may come between the two posts of the second; tcp_handle_task runs only when neither has anything to
do. `Timeout` is the second pend that ends with nothing: the code prints the error and goes on with
a null pointer. `torn` is set by a refusal, by a preemption inside a pair, and cleared when the path
is quiet.

`Dht11Path` has `Ask` for what tcp_handle_task posts for a whole row of requests (dht11_task, at
priority 18, does not run between its posts, except to be given the first buffer when it waits), and
dht11_task step by step: `DhtPend`, `DhtTake`, `DhtTimeout`, then `NotForMe`, `NoReading` or
`Answer`, and `DhtFree`. A buffer is the number of the request it is part of and which part it is;
the comparisons of texts are `IsAuth`, `IsKind`, `IsHere`. `NoReading` goes back to the top without
freeing anything, as the `continue` statements at 555, 587, 622 and 656 do.

`Requests` conjoins them: `TakeMsg /\ CarryOut` is one step of both, the other steps leave the other
half unchanged, and `DhtRuns` is the priority of dht11_task below the three tasks of `RecvPath`.

### Mbox

`sys_arch.c` on the kernel's queues, with the three parts of lwIP that depend on what it reports:
tcpip_thread's loop with the list of timers (`Sleep`, `TimedOut`, `FireDue`, `Fetch`), `recv_tcp`,
and `netconn_recv_data`. `Input` is `tcp_input` for the segment TCP expects: it calls `recv_tcp`
(`RecvTcp`) for the data and once more for a FIN, which comes in a segment of its own or with the
last data (`together`), has no pbuf, and is acknowledged whatever becomes of it. `Elapsed` and
`Reported` are `sys_arch_mbox_fetch`'s time, with its test `>` that takes an unchanged clock for one
that has gone round; `Valid` is its `sys_mbox_valid`. `Insert` and `TakeTime` are `sys_timeout` and
`sys_timeouts_mbox_fetch` on a list of relative times. `age` counts the ticks since a timer was set;
`slack`, the ms by which what has happened since may bring it forward: one for each report (`+ 1` in
`Reported`), and `Short`, what rounding down to ticks cut off the wait of the timer that fired
before it. `InTime` adds the two, with what is cut off its own wait. `Arrive` is the Ethernet
interrupt: it takes a pbuf and posts, or drops the frame. Segments are numbered; the peer sends one
again until it is acknowledged. The receiving task (`Delay`, `Call`, `Recv`, `Return`) is
tcp_client_recv as far as its mailbox goes.

### Camera

camera_task (`LookAtStart` to `EndNotSent`; `PieceSent` to `EndNotSent` are the loop that writes a
picture in pieces, with its bound `Pieces`, thirty fewer than there are whole ones, in unsigned
numbers), the camera port (`PortWord`, `FrameEnd`, `PortStops`)
and both interrupts as parts of the port's steps: `Move` with the last word of a buffer is
`jpeg_dcmi_rx_callback`; `FrameEnd` is `jpeg_data_process` with its three cases of `jpeg_data_ok`
(`Collect`, `Restart`, nothing). A word knows its place in its frame and how many frames old it is;
so a picture made of two frames, of old words, or with a word missing is told from a whole one.
`UserCommand` and `ServerCommand` are the two branches for CTL_VIDEO: the first posts two buffers
and sets `camera_start`, the second posts three and sets nothing.

### ClientLink

State: the three globals, the state of each netconn (`free`, `connecting`, `open`, `fin` after the
server's close, `dead` after a reset), its recvmbox, and the program counters of the connect,
receive, handle and send tasks. The receive task reads the global `tcp_clientconn` anew at each call
(`RecvCall`, `RecvClose`), while its call in progress stays on `recvconn`: the difference between
the two is what `ClosesOwn` and `ListensToCurrent` are about. `Delete`, `Arrive`, `Spins` are what
`netconn_delete`, `recv_tcp`/`err_tcp` and `netconn_recv_data` do. The server's side is `Fin`,
`Rst`, `Reply`. `SendWriteWakesConnect` and `LateHandshake` are the encounter of a write with a
`netconn_connect` in progress on the same netconn (one semaphore `op_completed` for both).

Every step waits for its task's turn: no task above it is ready. A sleep may end at any moment. A
handshake ends when the tasks below connect have nothing left to do (`RoundTrip`): it takes a round
trip over the network, they take instructions. Without this, a send task caught between a failed
write and `isConnected = 0` would take down the connection made in the meantime, and a reply queued
before it would count for it.

### ServerLink

The other link, built the same way: `RecvCall` and `RecvClose` read the global `serverconn`, the
call in progress is on `recvconn`. `ServerAccept` is the return of `netconn_accept` with what
follows to the first sleep; users who wait are in `acceptmbox`. The program counters of the sleeps
in `tcp_server_task` (three, ten and two seconds) are one, `poll`: each ends at any moment, and the
only thing looked at afterwards is `isAccepted`. `write[w]` is what the send task and the camera
task have of a `netconn_write`: it blocks on a netconn until the send buffer has taken it
(`Written`), fails, or, for the camera beside the send task, is `refused` and waits for the other's
signal. `TakeBack` is what both do with an error.

History variables say where the code stops keeping its promise: `cut`, a failed write has cleared an
`isAccepted` in force; `late`, `isChecked` was set by a password whose user had left.

### Heap, Malloc

`Heap` says: a pointer gets a run of blocks that meets no run in use, and keeps it until it is
released. `Malloc` has one step per access to the table: `BeginMalloc`, `ScanOn`, `ScanFound`,
`ScanFailed` (the search downward with the counters `offset` and `cmemb`), `Mark`, `BeginFree`,
`Clear`. `Preemptive` says whether a task of higher priority can start a call inside another's.
`HeapSpec == H!Spec` is the refinement; the mapping is the identity on `held`.

### LampPath

`Receive` posts all commands of one message, from either peer at any moment (the handle task is
above the led task and is not interrupted by it); `led_task` has a step per pend, per free, per
post. `Timeout` is a pend that ends with nothing: the pointer it was for is NULL, the others keep
what they had, nothing is freed, and the loop begins anew. `SendAnswer` comes when it likes, so that
answers wait in `tcp_send_event` while a write is held up.

Memory is the allocator's own table: lengths in blocks, the highest free run first, and `Freed`
reads the entry of the block it is given, so a block freed twice is harmless, or taken from its next
owner, exactly as in the code. `FreeSwitch` and `FreeMsg` are lines 343 and 495: the switch's text
is freed at both. `robbed` is set when a free of a buffer that is not led_task's any more meets a
block that is in use: from there on a buffer may be written while another still uses it, and the
properties say nothing. A switch that is neither ON nor OFF leaves the block with the text of its
last owner (`Written`). The 7 + 1 blocks of each received message are never freed, as in the code
(919).

History variables: each part posted has a number; `taken` and `switched` keep the numbers of the
parts that were compared. `whole` has the commands all of whose parts led_event took, but for one
directly behind a command cut off (`cut`) that led_task has not done with.

### Commands

One turn of the parsing loop is one step; the handle task's branch for the server's messages and the
one for the user's are one set of actions, differing where the code does (`Known`, `LoginReply`,
`UserLogin`, `Video`). `acts` collects what the turn posts and sets. The reference the parser is
checked against is not another parser: a message is a row of items, each a row of fields that a
separator closes, what stands behind the last of them, and END (`Item`, `Text`). `Does` gives what
an item orders from its fields alone, without a cursor, and `CarriesOutAll` compares `acts` with the
orders of the items in turn. `Standing` leaves out the items that are swallowed: it goes through the
row with the number of characters an account begun by the end of an item has read so far, which
`Within` bounds by what is read for an account; `Fits` is what the buffer holds of the row whole;
`CutShort` allows for what the beginning of a command that TCP has cut still says.

### MessageQueue, OSQueue

`MessageQueue` is a bounded sequence with waiting tasks; a message is in it, or the `outcome` of one
task that need wait no longer, or gone. `TcpSend`, the two links and `LampPath` use a sequence for
each kernel queue: this pair of modules is the reason why they may.

Each action of `OSQueue` is one critical section of the kernel. `OSQPend` has two: the first takes a
message or enters the wait list, the second (`OSQPendEnd`) runs when the task is scheduled again and
reads from its control block how the wait ended. In between, `OSQPost`, `OSQDel`, `OSQPendAbort` and
`OSTimeTick` write that block. The tick only makes a task ready; it stays in the wait list until it
runs, so a post that comes first still hands it its message and turns the timeout into a success.
`PostAs` is the common body of the three posts (`broadcast` and `front` are `OSQPostOpt`'s options),
`OS_EventTaskRdy(ws, ...)` the kernel function called once for each task of `ws`. A caller is any
ready task: priorities decide who runs, and all the orders they could give are allowed.

The mapping: `Items` reads the ring from `OSQOut` on, through the wrap (`Slot`); `Outcomes` is what
stands in the control block of a task that has left the wait list and not run yet. `OSQDel` gives a
waiting task the null pointer *and no error*, although its note 1 says that such a task finds the
deletion in the return code of `OSQPend`; `MessageQueue` says what the code does.

## 3 Runs: what is checked and what it shows

| run | configuration | properties | shows |
|---|---|---|---|
| `tcp_send` | producers 11 and 17 around the send task (12), two messages each, queue of 3, fairness | `PairIntegrity` `OneOwner` `InOrderOnce` `Settles` | a message is misrouted only while the path is torn; buffers have one owner; order and at-most-once hold torn or not; the path always gets back to a message boundary |
| `requests` | `tcp_handle_event` of 2, `dht11_event` of 6, three messages of one request or of three, a sensor that may not answer, fairness | `HandledAsOwn` `PairsKept` `AnswersAsker` `OnlyTheseLost` `Realigns` | nothing is carried out as another peer's, torn or not; a pair is lost only to a refusal or a preemption; an answer is one request's and goes to who asked; the memory lost is what queues refused and four blocks for each silent sensor; both tasks get back in step |
| `client_link` | 3 netconns, 3 faults, answers of both kinds, other senders, fairness | `AuthIsCurrent` `ClosesOwn` `ListensToCurrent` `LosesOnlyResets` `StaysLoggedIn` | the login in force is the current connection's; until a write meets a connect in progress (`early`) the global pointer is safe under these priorities and the pool loses only reset connections; without resets and refusals the client ends logged in |
| `client_link_reset` | 2 netconns, 1 reset | `KeepsConnecting` violated | see 6 |
| `server_link` | 2 netconns, one message in each mailbox and queue, right and wrong passwords, until `cut`, fairness | `ClosesOwn` `ListensToUser` `NoneStranded` `CheckedIsCurrent` `AcceptsAgain` | until a failed write takes back `isAccepted`, the user is heard, closed and checked as himself and no connection is stranded; users who close are followed by the next |
| `mbox` | a clock of 5 values, 5 ms a tick, timers of 15 and 20 ms, mailboxes of 3, 3 pbufs, 2 packets on the way, 4 segments of data and a FIN, alone or with the last, 2 frames a tick, fairness | `NothingLost` `OnTime` `AllRead` | what TCP acknowledged reaches the task, in order, but for a FIN that came with the data which took the mailbox's last entry; a timer is early only by what reports and rounding add up to, or after a message in the tick of the call, and never stops; the FIN is read unless it is that one, or the recvmbox is full at a moment when the task asks for a message |
| `camera` | frames of 1 to 6 words, two buffers of 2, `jpeg_data_buf` of 13, pieces of 2 words of which the last 1 is kept back, counts to 7, `camera_event` of 3, fairness | `WholePicture` `InBuffer` `Films` | the pieces sent are the beginning of one frame, all of it but what the code keeps back, whatever the flag, the buffers and the length were left at; the interrupts stay inside the buffer; a video that is to be is sent |
| `malloc` | 5 blocks, 3 pointers, sizes 1, 2, 3 and 6 (too large) | `TypeOK` `TableAgrees` `HeapSpec` `FailsOnlyWhenFull` | without preemption the allocator implements `Heap` |
| `malloc_preempted` | 3 blocks, 2 pointers | `MarksEmpty` violated | see 6 |
| `lamp` | 40 blocks, 2 messages of up to 3 commands of either peer, 4 commands in all, ON for this lamp, OFF for another and a switch that is neither, `led_event` of 6, timeouts and held-up answers at any moment, until `robbed`, fairness | `AppliesWhole` `AnswersAsker` `AllFreed` `CarriedOut` | until led_task frees a block of somebody else: a switch of the lamp is of one command, in order, its answer goes to who asked, memory comes back but for what is accounted for, and what was queued whole is carried out, unless it came directly behind the beginning of a command cut off |
| `commands` | buffer of 30, names up to 3, rows of up to 3 commands, some with empty ones between, and pieces of cut ones | `TypeOK` `CarriesOutAll` `ReadsOn` | every valid command is carried out once, in order, whatever stands between (also an empty account or id), unless the item before it has swallowed it; the loop ends |
| `os_queue` | 2 tasks and the rest of the program, 2 messages, queue of 2, timeouts 0 to 2, fair clock | `TypeOK` `NobodyStranded` `Implements` `TimedWaitEnds` | the kernel's ring and wait list are the bounded queue; nobody sleeps who cannot be woken; a timed wait ends |

A `TypeOK` is in a run where a counter or an index could leave its range; the types of `TcpSend`,
`ClientLink` and `ServerLink` are proved (section 5), and so are `NoLostWakeup` of `TcpSend` and
`NoMessageBesideWaiter` of `OSQueue`.

**Why the bounds are enough.**

* `tcp_send`: what can go wrong needs one producer above the send task and one below it: the upper
  one interrupts the lower one's pair and the send task's. A queue of 3 is full after one and a half
  messages, so tags and texts are both refused; order is about two messages of one task. The
  theorems of section 5 have no bound.
* `requests`: `tcp_handle_event` of 2 is full after one message, so either half of the next is
  refused; three messages are two of one peer around one of the other. `dht11_event` has its real
  size of 6: a row of three requests is nine parts, and what is refused of it meets dht11_task in
  the middle of another. A row with a request for somebody else's sensor is among them.
* `client_link`: 3 netconns are one in use, one being abandoned and a spare; the fourth of the real
  pool (`MEMP_NUM_NETCONN`) is the listening one. After 3 faults the pool may be empty
  (`NoNetconn`). One answer in each mailbox and two messages in the queue are enough for an answer
  or a login to be late by one connection.
* `server_link`: one user accepted and one who waits; a third would wait behind the second. One
  message in each mailbox and queue is enough for a password or an answer to outlive its user, and
  to fill them. `UntilCut` keeps TLC from going on after `cut`, of which nothing is claimed (section
  7). Deadlock is checked.
* `malloc`: 5 blocks and runs up to 3 give holes too small to use, a run at either end of the table,
  and a request larger than the bank. No bound in the theorems.
* `lamp`: a message of three commands is 9 parts for 6 entries: the queue refuses parts of the
  third, and one more command can follow what is left of it. Two messages let the second come at any
  point of the first and of its answers, from the same peer or the other. 40 blocks hold the two
  received messages (16), four commands (16) and two answers. `Unrobbed` keeps TLC from going on
  after `robbed`, which stays TRUE and is an exception of each of the four properties: nothing they
  say is left unlooked at. Without it, `AppliesWhole` and `AnswersAsker` with their `~robbed`
  dropped are violated (section 6). Deadlock is checked.
* `commands`: a row of three has an invalid item in front of, between or after valid ones, and is
  longer than the buffer for most choices. Names of 2 and a limit of 3 keep the terms short; the
  arithmetic of the cursor depends on the lengths only. A lamp command is cut at every place, its
  end before a valid command and its beginning behind one.
* `mbox`: a clock of 5 goes round several times; 15 and 20 ms of 5 ms ticks make two timers that are
  due together, apart, each first, and by times that are no whole number of ticks. 3 entries and 3
  pbufs keep the program's proportion (both 20): the recvmbox fills with the pool empty, and is full
  for the FIN that comes with the last data. 4 segments of data are one more than fill it: the task
  can be deaf before its first read and after it. 2 packets on the way (`INPKT`, 8 in the program)
  and 2 frames a tick put a lost, a repeated and a next segment side by side. `FramesPerTick` is the
  bound of the wire: a model in which frames come without the clock going on would let no timer ever
  fire.
* `camera`: frames of 1 to 6 words end before, at and behind the end of a buffer of 2; so the stream
  stops at either place of either buffer. Pieces of 2 with 1 kept back make pictures of no piece, of
  one and of two with and without a remainder, and of fewer pieces than are kept back, for which the
  count wraps; 7 is more than any count that does not. 13 words are exactly what
  `DataSizeAssumption` asks for. A queue of 3 takes one order of the server's, or one of the user's
  and a part of the next.
* `os_queue`: a ring of 2 wraps, fills and empties at each index. Two waiting tasks tell the most
  urgent from all (`HPT`, broadcast). A timeout of 2 has a tick that only counts and one that ends
  it; 0 is the wait without end. No bound on queue, tasks, messages or timeouts in the theorems.

`CHECK_DEADLOCK FALSE` stands where a bound on the number of messages or faults stops the model
(`TcpSend`, `ClientLink`, `Requests`). Every other run checks deadlock.

## 4 Fairness

* `TcpSend`: weak fairness of the send task and of each producer that has begun a pair: a ready task
  with nothing above it runs; a 2000-tick wait ends; a write returns. Beginning a message is never
  forced.
* `ClientLink`: weak fairness of the handle task and of the server's answer; strong fairness of the
  connect, receive and send tasks, of the connection attempt, and of the late end of a handshake.
  Strong, because these are enabled again and again rather than always: a two-second sleep ends at a
  moment that does not depend on the others, and a server that is up accepts some attempt.
  `StaysLoggedIn` also assumes that the server does not reset connections; the run
  `client_link_reset` shows that it needs to.
* `ServerLink`: weak fairness of `netconn_accept`'s return, of the end of a blocked write and of
  every user's leaving; strong fairness of the accepting task's sleep and of the receiving, handle,
  send and camera tasks, which those above them disable again and again. `AcceptsAgain` also assumes
  no reset, as `KeepsConnecting` shows for the other link, and no `cut`.
* `Requests`: weak fairness of the second post of each receive task, of tcp_handle_task and of
  dht11_task, with their timeouts: ready tasks with nothing above them run, and the clock goes on.
  That a message comes is never forced.
* `Mbox`: weak fairness of tcpip_thread and of the clock, strong fairness of the receiving task (the
  thread, above it, disables its steps again and again) and of the arrival of the segment TCP
  expects: the peer sends it again until it is acknowledged, and the wire brings it at last.
* `Camera`: weak fairness of camera_task and of the port: frames end while the port is on. No
  command is forced.
* `LampPath`: weak fairness of the led task, of its timeouts and of the send task.
* `Commands`: weak fairness of a turn and of leaving the loop.
* `OSQueue`: weak fairness of `OSTimeTick` alone: the clock's interrupt never stops. No task is
  forced to do anything.

## 5 Proofs

TLAPS checks all of these for every value of the constants.

**`TcpSendProofs`**, for any set of producers, any distinct priorities, any size of the queue
(`PrioAssumption`, `AddresseeAssumption`, `SizeAssumption`):

* `TypeCorrect`: `Spec => []TypeOK`. Strengthened by `PointersSet`, which ties the two pointers to
  the program counter (a text pointer is set exactly between taking a text and freeing it).
* `WakeupsKept`: the send task never waits while the queue holds something.
* `MessagesArePaired`: `PairIntegrity`. The inductive invariant is `PairInv`; its core `Aligned`
  says that while nothing is torn, tags and texts alternate along the queue, each text after its own
  tag, what the send task expects next stands first, and a producer is inside a pair exactly when
  the last buffer on the way is its tag. `PairIntegrity` alone is not inductive: it looks at writes
  already made, and says nothing of the queue they come from.
* `BuffersOwned`: `OneOwner`, with `Posted` (no live buffer is newer than what its producer has
  posted), without which a new buffer could equal an old one.
* `TextsInOrder`: `InOrderOnce`, torn or not. The invariant is that what was written, the text in
  hand and the queue are, in this order, in line (`InLine`), and that all of it is older than what
  is still to be posted (`AllOld`).

**`RequestsProofs`**, for any sizes of the two queues, any texts and any number of messages
(`HandleSizeAssumption`, `DhtSizeAssumption`, `TextAssumption`: what is carried out is a row of
requests):

* `HandledAsOwnHolds`, `PairsKeptHolds`, from `PairInv`. It speaks of `Stream`, what tcp_handle_task
  has taken and not used followed by what a post has given it and by the queue: in it a text stands
  right behind its own name or behind something that is no name (`ChainInv`); the texts of a peer
  rise along what was taken, the stream, and what is to be posted (`OrderInv`); while nothing is
  torn names and texts take turns and the stream ends in a name exactly when a task is inside its
  pair (`WholeInv`). The two properties look only at what was taken, and say nothing of the stream
  it was taken from.
* `AnswersAskerHolds`, from `AskInv` beside `PairInv`: along dht11_event, with what a post has
  handed over, a part and the next belong to one request unless the next is a name (`LinkInv`), so
  three parts that read as a name, a kind and this sensor are one request's; names rise, and what is
  answered is older than every name still there (`FreshInv`). It needs `PairInv` because the peer
  that is answered is the one named with the message, who must be the one that sent it.
* `OnlyTheseLostHolds`, from `LostInv`, the accounts of dht11_task's memory: the blocks obtained and
  not freed are those of its queue and its pointers, those refused, and four for each silent sensor.
  What a queue weighs is a recursive function; the lemmas say what an append and a removal do to it.

**`ClientLinkProofs`**, for any pool of netconns, any queues, any number of faults
(`ConnAssumption`, `FaultAssumption`, `AnswerAssumption`, `BoundAssumption`):

* `TypeCorrect`: `Spec => []TypeOK`.
* `AuthIsCurrentHolds`, from `AuthInv`: the server owes answers only on the connection in use
  (`Owes`); whatever else the receive task may be blocked on holds no answer (`NoOldAnswer`); so
  every reply in `tcp_handle_event` is of this connection (`AllCurrent`). The property is about
  `isAuthed` alone, which says nothing of the replies on their way to it. The heart is the lemma
  `QuietWhenUp`: when a connection comes up, the receive and the handle task have nothing left over,
  because connect goes on only when they are idle.
* `ClosesOwnHolds`, `ListensToCurrentHolds`, `LosesOnlyResetsHolds`, from `LinkInv`: until `early`,
  what the four program counters say of the connection in use (`Used`), of the one the receive task
  sleeps on, whose end, if it has come, is in its mailbox (`Listens`), and of all the others
  (`OneInUse`). None of the three is inductive by itself: that the receive task's close meets the
  right connection depends on the send task's not having cleared `isConnected` under it.

**`ServerLinkProofs`**, for any number of users, mailboxes and queues (`ConnAssumption`,
`PasswordAssumption`, `BoundAssumption`):

* `TypeCorrect`, `ClosesOwnHolds`, `ListensToUserHolds`, `NoneStrandedHolds`,
  `CheckedIsCurrentHolds`, from `ServerInv`: until `cut`, who is accepted waits no longer, who waits
  waits once, nobody else has a netconn that lives (`Users`); the receiving task is on the user
  accepted (`Listens`); who counts as checked is he (`Checked`). `Users` is needed for all: without
  it a user could be in `acceptmbox` twice.

**`InputProofs`**, `Mbox`, for any number of segments and timers, and any mailbox with at least as
many entries as there are pbufs (`MboxAssumption`, `PoolAssumption`):

* `NothingLostHolds`, from `MboxInv`: the numbers read, in the task's hands and in the recvmbox
  follow one another (`InOrder`); each pbuf is in one place (`Pbufs`), where the message of a task
  and the FIN have none. From the count follows `RoomForNext`: when a segment is to be put into the
  recvmbox, the mailbox has room, because the segment has a pbuf that is not in it. For a FIN with
  data the data may have taken the last entry: then there are as many pbufs as entries, and the FIN
  is the one thing missing (`Dropped`). With fewer pbufs than entries, nothing is lost at all.
  `NothingLost` alone does not count pbufs.
* `NeverEarlyHolds`: `Spec => [][NeverEarly]_vars`, the safety half of `OnTime`, for any finite set
  of timers and any intervals the clock can measure (both in `MboxAssumption`). `TimerInv` says for
  each timer that the ms that have passed, its slack, and what the list says is left reach its
  period, the time waited in the call in progress counted on both sides (`Timely`, `DueInv`); each
  timer is in the list once (`TimerType`); the clock is ahead of `t0` by what was waited, round the
  clock or not (`WaitInv`). The property speaks of the timer that fires, the invariant of all of
  them, by the sums of the times before them: what an insertion and a removal do to these sums is in
  lemmas of their own. It needs all of `slack`: a timer whose period is no whole number of ticks,
  or that comes behind one of those, fires early by what rounding cuts off, which shows only with
  periods such as the run's.

**`InputProofs`**, `Commands`, for buffers and names of any length, any names that fit their arrays
and any messages that are rows of items (`SizeAssumption`, `NamesAssumption`, `MessagesAssumption`;
what the last one excludes is in section 7, and of that only `CarriesOutAllHolds` makes use):

* `CursorInReach`: `CommandsSpec => []TypeOK`. The cursor is at most two past the buffer, and what
  is read is no longer than the buffer. `CommandsInv` adds that it is a row of characters
  (`TextInv`). Wherever a turn leaves the cursor (behind a type, a switch, a name, a skipped
  command), the lemmas `NameEnds`, `SkipsTo` and `Places` bound it by the end of the text or of the
  buffer, in whichever branch.
* `TurnsAdvance`: `[][Turn => i' > i]`: a turn moves the cursor on, whatever it reads. With
  `CursorInReach` there are at most as many turns as the buffer has characters: the reason why
  `ReadsOn` holds.
* `CarriesOutAllHolds`: `CommandsSpec => []CarriesOutAll`, for rows of any number of items with any
  number of fields of any length. The parser is shown to read back what was written, without a
  grammar: `MessageInv` says which message the text is of; `ReadInv` where in it the cursor is
  (`Reached`) and that `acts` is what the items behind it order. It is at the beginning of an item
  where no account is open; or between the fields of an item carried out, with nothing left there
  that reads as a command; or beyond the items that fit; or at the end. `CarriesOutAll` looks at the
  last of these only and is far from inductive.
  The lemmas go from characters to rows. `FieldsLie`, `TailLies` and `ItemsLie` say where in the
  text each field stands; `FieldAt` and `NameAt`, that a type or a name is read at a field exactly
  when the field is one; `MainTurn`, that a turn at an item with a valid head does what `Does` says
  and leaves the cursor behind the fields it `Takes`; `VoidTurn`, that a turn where there is no such
  head does nothing and skips to the next item; `OpeningTurn`, that behind an item that ends in what
  reads as a type the account is read through items without separators, as `Standing` counts, and
  the item it ends in is skipped.

**`LampPathProofs`**, for any number of blocks, any size of the queue, any number and lengths of
messages of either peer, at any moment (`SizeAssumption`, `BoundAssumption`, `AskedAssumption`):

* `InvHolds`: `Spec => []Inv`, the invariant of the three below; `Inv` is `robbed \/ Inner`, and
  `Inner` has these parts. `OwnInv`: every block that is queued, held or sent heads a run of the
  table of its own, and of the other blocks in use there are as many as eight for each message and
  what was lost. `QueueInv`: the parts on their way are parts of commands, in the order they came,
  and between two of them only the end of a command and whole commands can be missing. `TakenInv`:
  what led_task has taken is the beginning of one command. `SwitchInv` and `SendInv`: the switches,
  and the answers written and waiting in `tcp_send_event`, are those of such commands.
* `AppliesWholeHolds`, `AnswersAskerHolds`, `AllFreedHolds`. They look at the lamp, at the answers,
  and at memory at rest; none is inductive without the others, as the text in a block is right only
  while the block is not another's. The case that matters is the free of a buffer that led_task has
  freed before (`StepFree`): either it meets a block in use, and `robbed` says so, or a free one,
  and it changes nothing. That a block in use has an owner at all is `OwnInv`'s business. Neither a
  command cut by a full queue nor a timeout needs an argument of its own: what comes next in the
  stream is then the first part of a command or of no use in its place.

**`MemoryProofs`**, `Camera`, for buffers and frames of any length (`CameraAssumption`,
`DataSizeAssumption`):

* `InBufferHolds`, from `CameraInv`: for each of the three frames camera_task lets go by, what may
  be in `jpeg_data_buf` and in the buffer being filled, by the frame's words so far (`Filled`, a
  case for each). `DataSizeAssumption`, two longest frames and a buffer less a word, is what the
  worst of these cases needs: a picture that was not sent, a buffer half filled, and the first frame
  behind them.
* `WholePictureHolds`, from `PictureInv`: the third frame's words so far are at the beginning of
  `jpeg_data_buf` and of the buffer (`ThirdWords`). The first two frames are let go by precisely to
  get there, and the invariant is where that shows. `SendInv` is about the loop that writes: what is
  out are the words from the beginning of the buffer on, as many as the pieces sent have; of a
  picture of at least `HELD` pieces there are never more than its length allows, and exactly as many
  when the loop ends by itself.

**`MemoryProofs`**, `Malloc`, for any number of blocks, any tasks, pointers and sizes:

* `TypeCorrect`, with and without preemption: no counter leaves the table.
* `Inductive`, `TableRight`, `FailureIsReal`, `Implements`, when calls do not interrupt each other
  (`~Preemptive`). The invariant `IInv` is the types and `Books`: one call at a time; entries say
  the length of their run; a used entry belongs to a pointer or to the call in progress; runs are
  disjoint; the call that searches has passed over free blocks only since the last used one and over
  no free run of its length; the run being marked or cleared is nobody's. `Implements` maps `Mark`'s
  last step to `Heap`'s `Alloc`, `BeginFree` to `Release`, all else to a stutter.

**`OSQueueProofs`**, for any tasks with any priorities, any messages, any size of the queue above
zero and any timeouts (`TaskAssumption`, `MessageAssumption`, `SizeAssumption`):

* `TypeCorrect`: `Spec => []TypeOK`; the indices never leave the storage.
* `WaitersOnEmpty`, `Wakeable`: `NoMessageBesideWaiter` and `NobodyStranded`, from the invariant
  `Waiters`: a wait list goes with an empty queue that exists, and `Sound(t)` holds for each task:
  what the wait list, the ready list, `pending` and the control block say of it agree. Without the
  control block's part the two properties are not inductive: nothing would tell a task woken by the
  tick, still listed, from one that a post has woken.
* `QueueImplemented`: `Spec => Implements`. `RingRight` ties `OSQIn` to `OSQOut + OSQEntries` modulo
  the size; with it and `Waiters`, lemmas about `Slot` show that a post appends or prepends to
  `Items`, a take removes the head, and every step is one of `MessageQueue` or a stutter (the tick).

**Induction.** What a recursive function gives for every argument cannot be had from the library's
theorem of induction, which takes the statement as an operator and which these provers cannot
instantiate. Where it was needed (`Weight`, `Due`, `Timers`, `Receive`'s posts, the rows of items of
a message) the proofs use that a set of numbers that is not empty has a least one (`LeastNumber`,
from `NatLessThanWellFounded` and `WFMin`): a set is a value, so that the numbers for which a
statement fails can be given as one. The functions are local to their definitions; a constant chosen
by their equation (`DueOf`, `Posts`, `Flattened`, `SetTimers`) gives them a name, and a lemma says
that it satisfies it.

**Only model-checked.**

* Liveness: `Settles`, `Realigns`, `StaysLoggedIn`, `AcceptsAgain`, `AllRead`, `Films`,
  `CarriedOut`, `ReadsOn`, `TimedWaitEnds`, and the second half of `OnTime` (that every timer goes
  on firing). Fairness and `ENABLED` are outside what the provers do.

## 6 Where code and documentation disagree

Each is a run whose counterexample is a sequence of steps of the code.

* `KeepsConnecting` (`tcp_client.c` 8, *stm32 keep connecting with server*): a reset that comes
  while the receive task sleeps. `netconn_recv` returns `ERR_RST` at once, the loop knows only
  `ERR_CLSD`, never blocks, and the send task below it, which would notice, does not run.
* `MarksEmpty` (`malloc.c` 104, *found nmemb contiguous empty blocks*): a call that interrupts
  another between search and marks gets the same blocks.

Eight more were met while modelling and are inside the properties that hold, rather than runs of
their own:

* `tcp_client.c` 930-931 (*as "client": send message to server*, *as "server": send message to
  user*): the handle task preempts the led task between its tag and its text; the led task's tag is
  paired with the handle task's tag, and every text after it goes by another's tag until the path
  has been quiet. `PairIntegrity` says that this happens only while `torn`.
* `ihome_function.c` 355 (*the identity is sent to the send task*): the switch's text is freed at
  343 and 495, and in between its block may get another owner. When a write is held up, it is the
  answer's tag, still queued: the second free takes it away, and the next command writes the name of
  its own peer into it. When a message comes between the two frees, it is the name in front of its
  first command, in `led_event`: the one after it writes over it. `AppliesWhole` and `AnswersAsker`
  except what follows (`robbed`). Without `~robbed`, and without the constraint of `LampPath.cfg`,
  the first is violated after 33 steps, the second after 15.
* `tcp_client.c` 840 (*send ON OFF to the led task*), in ordinary use: of three commands in one
  message, 7 of the 9 parts are taken (six entries, and the first, handed to led_task while it
  waits). led_task carries out two, takes the third's name and waits 500 ticks for its switch. A
  command that comes in this time is taken for the rest: its name for the switch, which it is not,
  whereupon led_task frees what it has and begins anew; its switch and its lamp's id are then taken
  for names of peers, and dropped. Neither command is carried out, no message says so, and all parts
  of the second were queued. `CarriedOut` excepts exactly this command (`whole` leaves out the one
  behind what was cut off); with the exception dropped, it is violated.
* `tcp_client.c` 490-505, 843-852: for a switch that is neither LAMP_ON nor LAMP_OFF a buffer is
  posted and nothing written into it. It says what its last owner left there, and if that was ON or
  OFF the lamp is switched. `AppliesWhole` allows for it (`"other"`).
* `ihome_function.c` 198 (*what remains must be sent, too*): what is less than a piece never is, nor
  are the last thirty pieces; for a picture of fewer than thirty, `jpegtimes-30` wraps and the loop
  goes on into the memory behind it until a write fails. `WholePicture` says what is sent of a
  picture of at least thirty pieces, and excepts the others.
* `api_msg.c` 231 (*recvmbox already deleted*): `sys_mbox_valid` is false of a mailbox that is full,
  too. A FIN that comes in one segment with the data which takes the twentieth entry finds the
  mailbox full, is acknowledged and thrown away, and the task never learns that the connection has
  ended. `NothingLost` and `AllRead` except it (`FinLost`).
* `tcp_client.c` 259 (*the current command is invalid, skip to the next*): a command that is well
  formed and of no use to this side (333) is not skipped; when its only argument is one character,
  it passes for a type and swallows the command that follows. `Standing` in `CarriesOutAll` is
  exactly the set of cases.
* CTL_VIDEO START from the *server* (`tcp_client.c` 511-570) posts an order and never sets
  `camera_start`: only the user's branch does, so the server's order alone starts no video; and it
  posts a buffer more than camera_task takes. `Films` is stated of `camera_start`, not of orders.

## 7 Limits of the models

* `TcpSend`: nobody else frees a buffer of the path; that led_task does is `LampPath`'s subject.
* `ClientLink`: `ClosesOwn`, `ListensToCurrent` and `LosesOnlyResets` hold until `early`: a report
  written while the connect task is inside `netconn_connect` signals the semaphore the connect task
  waits for (`SendWriteWakesConnect`), which then goes on with a connection that is not open yet;
  after it each of the three can be broken. No user is connected; mailboxes (20 entries) never fill;
  blocked writes and the camera's own are in `ServerLink` only (in `Mbox` a recvmbox does fill);
  when the receive task closes a netconn that is still connecting, the model ends (it would take
  over its semaphore). A write on a deleted netconn may succeed or fail.
* `ServerLink`: nothing is claimed after `cut`. It happens when a write to the user fails: to no
  connection (an answer posted after he left), to one reset, or beside a write that blocks; and when
  the camera's write to the *server* fails, which clears `isAccepted` and not `isConnected`
  (`ihome_function.c` 251, 261). The accepting task then takes the next user, `isChecked` still set,
  while the receiving task waits for the first, and each of the four safety properties can be
  broken. `CheckedIsCurrent` needs `~late` too: a password in `tcp_handle_event` when its user
  leaves is for the next one if he comes in before it is handled, or after. `AcceptsAgain` needs
  `NeverReset`: a reset before the receiving task's call makes it spin, as in `KeepsConnecting`. A
  close waits for the write that blocks (the code frees the netconn under it). After a refusal has
  ended the send task's write early, lwIP goes on with the data as if it had not. `isConnected` may
  be anything. The camera may write whenever it runs; `camera_start` and the pieces are left out.
  Taking a login from the queue and handling it are one step.
* `Malloc`: callers give back what they hold, once. `LampPath` is about one that does not. The run
  `malloc` and the theorems but `TypeCorrect` take calls that do not interrupt each other; the
  program's tasks do interrupt each other on `SRAMEX`, and the run `malloc_preempted` is about that.
* `LampPath`: led_task is the only sender, and `tcp_send_event` never refuses (that it may is
  `TcpSend`'s subject). Nothing is claimed after `robbed`. Messages come while there is room for
  them: a heap that is full is undefined behaviour in this code and in no model. A text shorter than
  a block is written as one. The brightness control by ambient light (311-322) only sets a PWM
  output.
* `Commands`: an id is copied as it is; the code uses it as the format of a `sprintf` (424, 447 and
  others), which differs for an id with a percent sign. What was not received is NUL in the buffer;
  the two pointers of a message arrive as a pair; the memory behind `account` is not modelled.
  `MessagesAssumption` leaves out the messages for which the code does what `CarriesOutAll` denies,
  as model checking without it shows:
  - a valid command without its last argument: the code reads one beyond its END, from the next;
  - an id longer than `ACCOUNT_MAX + 1` characters, which is posted cut, and a login's password
    longer than that, the rest of which reads as a type and may swallow the next command;
  - an argument too many, of one character, followed by the name of somebody who may give orders and
    by a subtype: it is carried out as a command (`~Headed(p, Behind(p, f))`);
  - two empty fields next to each other, and an item behind another that begins with one: the code
    takes any character but NUL for a type or a value when a separator follows it, the END or the
    separator in front of it too. One empty field, an account or an id among them, is not excluded.
* `OSQueue`: one queue. `MessageQueue` lets any post go to the front or to all who wait, as
  `OSQPostOpt` does: `Implements` would not notice an `OSQPost` that put its message at the front
  (`InOrderOnce` of `TcpSend` does). The type of the block is tested together with the critical
  section that follows (the code tests it before), so a queue is not deleted while another task
  enters it. The free lists of control blocks (`OS_QInit`) are left out; `OSQFlush` is called with a
  queue, as it does not test.
* `RecvPath`: how a message is cut into what netconn_recv gives (`Commands` has the pieces); the
  buffers' memory, which nobody frees, is in `LampPath` (`AllFreed`). After a timeout the code reads
  address 0, the table of interrupts, as a message; in it nothing looks like a command.
* `Dht11Path`: the values read. `DHT11_Read_Data` reports a success for a reading whose sum is
  wrong; the answer then carries an earlier value. What becomes of the answer in `tcp_send_event` is
  `TcpSend`'s subject: `Answer` lets the queue take either part or refuse it.
* `Mbox`: what tcpip_thread does with a message takes less than a tick. TCP is reduced to numbers:
  the next segment is accepted, others are not. With fewer entries than pbufs (`PoolAssumption`; the
  program has 20 and 20) `recv_tcp` would throw away data that it acknowledges. A recvmbox that is
  full at a moment when the task asks for a message, the first or a later one, is never read again:
  `AllRead` excepts it (`Deaf`).
  The 32-bit product of the wrapped difference is 21 474 832 ms and not the value here; both are
  longer than any timer's time.
* `Camera`: `DataSizeAssumption` holds in the program (76800 words, buffers of 5120) for pictures of
  up to 35840 words, 140 KiB; longer ones after a picture whose end could not be sent would be
  written past `jpeg_data_buf`. `Prompt`: camera_task gets from switching the port on to its first
  look at `jpeg_data_ok` before a frame has passed. A stream that is switched off raises no transfer
  interrupt. The head of a picture is at its beginning, so that the search for it ends at once. The
  1000 bytes of a piece are a number of words; the text in front of each is left out. What is sent
  of a picture of fewer than thirty pieces is in the model and in no property. Writes of pieces
  beside the send task are in `ServerLink`.

### Not modelled

* Boot and address (`main.c`, `lwip_comm.c`): runs once, one step after another, before the tasks of
  these models exist.
* The rest of the kernel, lwIP's protocols, FatFs with its tables of characters, the chip vendor's
  libraries, the LCD, touch and PHY drivers, USMART, fonts and pictures. These are more than nine of
  every ten lines of the repository. They are third-party code or device registers whose behaviour
  is not in the source, tables without state, or examples nothing calls; the models take from them
  what the program's own code sees, and name it external where it is not in the repository.
* `myrealloc` has no caller; `sys_arch_sem_wait`'s time is used without a timeout only.

## 8 Plan

What would come next, in order of what the terminal depends on most:

1. `Session`: what the rest of the program relies on of either link (nobody, connected, checked;
   each with one connection), refined by `ClientLink` and `ServerLink` as far as the code allows,
   and both composed over one handle and one send task.
2. `Boot`: queues before tasks, the repeated `tcp_client_init`, DHCP or static address.
3. Theorems: what of `LampPath` holds on after `robbed` (a block taken away spoils only what was in
   it), and the links' properties after a failed write.
