# Verification of the homework programs

TLA+ models of the programs in `src/`, the TLC runs that check them, and TLAPS
proofs of every safety property the runs check: of the three chat servers, the
copies, the benchmarks, the packet capture and modifier with the sender and
receiver around it, and the directory programs. The repository is five sets of
small C programs for Linux without any document, so the models are read off the
code and off the messages it prints.

## 1. The system

| part | source | state | operations | with whom |
|---|---|---|---|---|
| threaded chat server | `hw4/server_thread.c` | table `clients`, `total_connections`, `client_mutex`, one stack per handler | accept, register, spawn; look up the number, recv, broadcast, leave | clients over TCP; its own threads over the table |
| epoll chat server | `hw4/server_epoll.c` | table, interest list, batch of events | epoll_wait, accept, recv, broadcast, clean up | clients; the kernel's ready list |
| io_uring chat server | `hw4/server_io_uring.c` | table, requests (`IoRequest`), completions | accept done, recv done, submit again, clean up | clients; the kernel, which accepts and receives on its own |
| chat client | `hw4/client.c` | one socket, two threads | connect, start the thread; send a line, print what arrives, leave | a server; each other, by ending the process |
| blocking copy | `hw3/hw3_1/HW3_1.c` | two file positions | read, write | the file system |
| io_uring copy | `hw3/hw3_2/HW3_2.c` | buffers, `info`, offsets and counts | fill, submit, wait, read done, write done | the kernel's ring |
| file benchmarks | `hw1/HW1_{1,2,3}.c` | one file, a stdio buffer or a mapping | six phases: create, read, write, at random | page cache and disk |
| packet capture | `hw5/HW5_1.c` | saved interface flags, packet socket, counters | set up, receive in one of three modes, restore | the interface, which other programs share |
| packet modifier | `hw5/HW5_1_5.c` | the same, and the buffer it rewrites | check, rewrite, sum up, send | the interface; other modifiers |
| UDP sender, receiver | `hw5/Sender.c`, `hw5/Receiver.c` | one packet; the queue of a socket | build, send; bind, receive, print | each other, and the modifiers that see the packet |
| directory listing | `hw2/hw2_1/HW2_1_{1,2,3}*.c` | a directory stream, a place in the row | readdir, lstat, print | the file system |
| recursive search | `hw2/hw2_2/HW2_2*.c` | a directory stream and a path per level | readdir, print, recurse | the file system |
| scripts, makefiles | `hw1/run_test.sh`, `hw4/Makefile`, `hw5/Makefile` | none | build and run | |

What is hard in them, and what makes each correct:

* *Chat servers.* Handlers and main race on the table; descriptors and slots are
  used again as soon as they are free; a batch of events or a queue of
  completions is older than the state it meets; `send` blocks; clients vanish at
  any point; `accept`, `pthread_create`, `epoll_ctl` and `send` fail. Correct
  means: one room, in which every member hears every message of the others since
  it joined, in one order, under the number its sender was given; what a client
  held comes back when it leaves.
* *Copies.* Completions come in any order, results may be short or errors, a
  submit may take nothing. Correct means: every unit in its own place, no buffer
  in two hands, an end that means complete, and an end.
* *Sniffers.* Two of them share the flags of one interface and see each other's
  output; lengths in packets contradict each other; frames queue up before
  `bind`. Correct means: flags put back, counts of what was received, and a
  rewritten packet that stays inside what was received and still verifies.
* *Benchmarks.* What is timed as "synchronous" must be on the disk; each phase
  relies on the file the one before it left.
* *Directories.* Every level keeps a stream open, of which there are not
  arbitrarily many; paths are cut off at the size of a buffer; what cannot be
  opened is passed over. Correct means: every match once, by its path, with
  named exceptions; an end; and of each entry its own metadata.
* *Clients.* Two threads end one process, at the same time and from either side;
  a client that does not read stops a server. Correct means: it goes on reading
  until it ends, and it ends when its user, the server or a signal says so.

`PROJECT.json` lists the hazards one by one with their lines.

## 2. Modules

A name in the models is the name in the code where there is one. An action is a
system call with the code up to the next one that may block or fail, or a
critical section that cannot block. Mutations of a definition, which are used to
check that the properties can fail, stand right before it and are named
`mutant:`.

### hw4: chat

* `Sockets` - what the servers use of the kernel: the descriptor table (lowest
  free number first), the backlog, and per connection its peer state, bytes sent
  and taken, and the broadcasts on the stream to the client. It contains the
  actions of the clients (`Connect`, `ClientSend`, `ClientRead`, `ClientExit`).
  Bytes are counted, not spelled; `recv` returns any part of what waits.
  `send` blocks on a full buffer, succeeds into the void after a close, reports
  a reset once, and then raises SIGPIPE, which ends the process.
* `ChatServer` - what the three servers copy from each other: the table
  (`Register`, `Unregister`, `IdOfFd`) and one iteration of `broadcast_msg`
  (`BroadcastTo`). `log`, `joined`, `idOf` are history variables. It also has
  what all three are judged by: `HasExactly`, `QuitNoticeIsLast`, and the mapping
  to `ChatRoom` with `IsChatRoom`.
* `ThreadServer` - `server_thread.c`. main is `AcceptCall`, `AcceptReturn`,
  `AcceptFail`, `RegisterClient`, `Reject`, `Spawn`, `SpawnFail`; a handler is
  `ScanSlot`, `ReadId` (the unlocked search, two reads per slot), `Recv`,
  `BroadcastLock`, `BroadcastSend` (one slot each), `BroadcastUnlock`, `Unlist`,
  `Close`. `client_id = 0` stands for the uninitialised variable.
* `EpollServer` - `server_epoll.c`. `EpollWait` picks any `MaxEvents` of the
  ready descriptors; the batch `events` is served one by one in any order;
  `of` remembers what each descriptor was when it was reported.
* `UringServer` - `server_io_uring.c` with the kernel side of the ring
  (`KernelAccept`, `KernelRecv`): the kernel takes connections and bytes while
  the thread is elsewhere; completions queue up in `cq`. Requests that are
  prepared wait in `sq`; `io_uring_submit`, whose result the code ignores, may
  leave them there, and then the next call takes them along. Clean-up is two steps,
  `CloseClient` and `Unlist` (lines 188 and 189-194): in between the kernel may
  accept, and give the closed descriptor to a new connection while the old slot
  still lists it.
* `ChatClient` - `client.c`: main (`Start`, `Spawn`, `Fgets`, `SendLine`,
  `Return`) and `msg_recv_handler` (`Recv`, `RecvEnd`, `Exit`) of each client, on
  the connections of `Sockets`. `Mishaps` are a `pthread_create` that fails and
  Ctrl-C; `Deaf` is a client without its reading thread. `recv` does not
  distinguish the errors it goes on after: a reset is reported once, and then the
  end of the stream.
* `UringChat` - the io_uring server with these clients in the place of those of
  `Sockets`. `ClientsAsAssumed` says that this changes nothing: it implements
  `UringServer!Spec` with the fairness the server alone was given.
* `ChatRoom` - the abstract room: `Join`, `Say`, `Quit`, `Leave`, `Hear`, and
  `Vanish` for connections that break. A message is said only when all members
  that can be reached have heard the ones before it. Each server implements it
  (`IsChatRoom`), with membership read off the table, the room off `log`, what was
  heard off the streams and who is gone off the connections.
* `MCThread`, `MCEpoll`, `MCUring`, `MCUringChat` - instances.

### hw3: copying

* `FileCopy` - the abstract copy: units arrive in their own places in any order,
  and it is over when none is missing, or given up.
* `UringCopy` - `async_io`: `Open`, the `Fill` loop, `Submit`, the completions
  `ReadDone` and `WriteDone`, `WaitFails`, and the kernel's `CompleteRead` and
  `CompleteWrite`, which move data between buffers and files by the buffer's
  content at that moment. Data are numbered units, `SIZE` of them in a block.
* `BlockingCopy` - `blocking_io`: `Open`, and `Read` and `Write` at the file
  positions.
* `CopyProgram` - `main`: the one after the other, to the same output file, which
  the second truncates. It extends `UringCopy` and takes `BlockingCopy` as an
  instance on variables of its own.

### hw5: sniffers

* `PacketSocket` - what `HW5_1.c` and `HW5_1_5.c` share: opening the socket,
  reading, setting and restoring the flags, `bind`, and the error path of each;
  frames that arrive go to every open socket, of all interfaces until it is
  bound; `Kill` is a signal. Two history variables say which calls on the flags each
  has made (`calls`) and who had saved flags without having put them back when it set
  them (`older`).
* `Capture` - the three modes. A frame is how many of its headers are complete,
  its type, protocol and addresses, and whether its `ihl` is below the minimum
  (`broken`). The byte of the protocol is read from the
  buffer, where a frame that ends before it leaves the byte of an older one.
  `recvfrom_fails` is the error exit of each loop; what mode1 then prints is
  `total_captured`, a constant.
* `Modifier` - the chain of checks (`AcceptsIp`, `AcceptsUdp`, `AcceptsTcp`),
  and in `log` what was written, summed and sent, as sets of byte positions. A
  frame has its real lengths. What is sent is seen by the other modifiers, and
  on a loopback interface by all.
* `Checksum` - `checksum()` as a function of a buffer of bytes with `BYTE` values,
  and, as the reference, what a receiver of those bytes adds up. `Sender.c` has
  the same function.
* `UdpRelay` - `Sender.c` (`Sendto`; nobody sees what it does before) and
  `Receiver.c` (`Listen`, `Show`, `ShowFails`) around the modifiers, which are on a
  host that sees the packet in promiscuous mode only. The receiver's kernel takes
  packets whose lengths agree (`Deliverable`): the original, and each copy that
  was sent (`Forward`).
* `MCCapture`, `MCModifier` - instances. `Modifier` extends `Checksum`, so that
  `ChecksumsVerify` says of the packets it sends what a receiver adds up.

### hw2: directories

* `FileTree` - a tree of named entries that does not change, paths as sequences of
  letters, `Cut` for `snprintf` into a buffer of `PathMax` letters, and `Lookup`,
  the kernel's path resolution, so that a path that was cut off leads where it
  leads. `WellFormed` is what the programs may rely on: what is in a directory
  has a name of its own there, without a slash, and every node is below `Top`.
* `FileSearch` - `search()` as a stack of calls, each with its stream and the
  entries left in it: `Begin`, `Entry` (a turn of the loop up to the next call),
  `ReturnFrom`, `End`. `Matches`, the reference, is read off the tree.
* `Listing` - the loops of the three stages of `ls`. A line is the entry it names
  and the node its metadata are of.
* `MCDirectories` - five trees; one of the programs runs.

### hw1: benchmarks

* `FileBench` - the six phases of the three programs over a file of units of
  `WRITE_BLOCK_SIZE`. `pend` is the buffer of the FILE, `cache` the page cache,
  `disk` what a power failure would leave, `held` what was in the FILE at the last
  `fsync`; the kernel writes back whenever it likes. `create_file` uses stdio in all
  three programs.

### Proofs

* `ChatServerProofs` - lemmas about `Sockets`, `ChatServer` and the mapping to
  `ChatRoom`, which the proofs about the three servers share.
* `ThreadServerProofs`, `EpollServerProofs`, `UringServerProofs` - the servers.
* `CopyProofs`, `FileBenchProofs` - both copies; the benchmarks.
* `SnifferProofs` - the flags of the interface, for captures and for modifiers;
  what a capture counts and shows; the modifier, its checksum and the relay.
* `DirectoryProofs` - the listing and the search.

## 3. Runs

Deadlock is not checked in any run: all these programs end, or wait for
clients, frames or requests that need never come, so that a state without a
successor is a normal one.

| run | bounds | shows |
|---|---|---|
| `MCThread_safety` | 3 clients, 2 slots, 1 byte each, `pthread_create` fails | types; descriptors, slots and numbers belong together; exact delivery in one order; a number is always found; no handler ends with its slot |
| `MCThread_live` | 2 clients, 1 broadcast fills a buffer, accept and `pthread_create` fail | refinement of `ChatRoom`; everything sent is broadcast, slot and descriptor are given back |
| `MCThread_label` | 3 clients, 2 slots, nothing fails | expected violation, section 6 |
| `MCEpoll_safety` | 3 clients, 2 slots, 2 events a batch, accept and epoll_wait fail | table, interest list and descriptors belong together; refinement of `ChatRoom` |
| `MCEpoll_live` | 2 clients, 2 bytes, 2 events a batch, every call fails | no event goes stale in its batch; everything sent is broadcast, slot and descriptor are given back, also while accept fails without end |
| `MCUring_safety` | 3 clients, 2 slots, accept, submit and the wait fail | types; table, requests, completions and descriptors belong together; one recv per listed client, one accept, submitted or still in the ring; refinement of `ChatRoom` |
| `MCUring_live` | 3 client programs, 2 slots, accept and their `pthread_create` fail, Ctrl-C; the third starts late | the programs are the clients that the server runs assume; they end; liveness of the server |
| `CopyProgram` | blocks of 2, 2 and 1 units, 2 buffers, every call fails or is short | blocking copy: order; io_uring copy: buffers and counts, the refinement of `FileCopy` (places, and an end that is complete), and an end unless a request was short, failed or was not submitted |
| `MCCapture_all` | 1 program with 3 frames or 2 with 1 frame, in any of the modes, frames cut off anywhere or broken, 2 to count or show; every call but the restoring one fails; signals | flags, counters, what is shown |
| `MCModifier_all` | 2 modifiers, 1 frame with lengths around every check, or the sender's packet and the receiver; every call fails; buffers of 2 to 9 bytes of 3 values | bounds and headers, no frame modified twice, what the receiver shows, checksums that verify |
| `FileBench` | 3 blocks, 3 random operations | what a power failure may lose, whole reads |
| `MCDirectories` | 5 trees of up to 7 entries, 3 streams, paths of 6 letters, `opendir` and `lstat` fail | exactly the matches are printed, the search ends, each line shows its own entry |

*Why the bounds are enough.* Two slots with three clients give the refused
client, the slot that is used again and a broadcast past a third party; a third
descriptor lets a number be used again while an older handler runs. A buffer of
one or two broadcasts lets `send` block. More bytes than one matter only for
splitting and merging, which `MaxSend = RecvMax = 2` in `MCEpoll_live` has. Two
buffers and three blocks use a buffer a second time and end with a short block.
Two sniffers are the fewest that interfere over the flags, and do so over nothing
else, so that one frame is enough there; the frames are looked at with one sniffer:
of three one can be cut off after a whole one was in the buffer, two can be shown in
order with a third between them, and one is left when the loop is over. The lengths in `MCModifier` lie on,
one below and one above each comparison; one frame is enough there, because what
is sent comes to the other modifier as a second one. Three values of a byte
produce carries out of the carries, as 256 do. The trees have each case once:
hidden entries, a name that occurs in several places and as a directory, a type
that `readdir` does not tell, one directory more in each other than can be open,
and paths that are cut off to another directory and to one that is being
searched. In `MCUring_live` a third program (`LateClient`) is started when the two
slots are taken and nothing is under way (`Quiet`), and is turned away; from then on
the users only watch (`MCSpec`). This restricts nothing but steps of users, of which
no fairness is assumed, so that each behaviour that remains is one of the program;
it is what makes "the server closed the connection" happen while the server goes on,
besides its end by SIGPIPE. `accept` fails by the kernel's choice there, never for want
of a descriptor: that is in the epoll runs. The bounds that are not in the code are
`MaxSend`, `MaxFrames`, `FewFrames`, `MaxLog` and `MaxLen`; they are guards or sets of
initial states. `MaxFd`,
`Backlog`, `SockBuf` and `RecvMax` stand for limits of the kernel and the code.

Symmetry is used without liveness only, over the clients and over the sniffers,
which `Init`, `Next` and the properties treat alike.

## 4. Fairness

* Threads are scheduled: weak fairness of main and of each handler. A mutex that
  is free is granted in the end; with weak fairness of `BroadcastLock`,
  `RegisterClient` and `Unlist` this holds in the runs because a client can make
  only finitely many broadcasts happen.
* A client's receiving thread keeps reading (`client.c:18-25` is a loop around
  `recv`). Without it one silent client stops all servers, as the code does. For
  the runs of the thread and epoll servers this is assumed; `MCUring_live` checks
  it of the program (`ClientsAsAssumed`), from weak fairness of `Spawn` and
  `Return` in main and of `msg_recv_handler`. Nothing is assumed of `fgets`: a user
  may type nothing for ever.
* A directory search is one thread that runs.
* The kernel completes requests it holds when they can complete.
* epoll moves what it reports to the tail of its ready list, so that a
  descriptor that stays ready is reported in the end: strong fairness per
  descriptor.
* No client has to connect, send or leave, and no failure has to happen.

## 5. Proofs

The theorems hold for every value of the constants that the named assumptions of
the modules allow (`SocketsAssumption`, `ChatServerAssumption` and the one of each
server; `ChatClientAssumption`; `UringCopyAssumption`; `PacketSocketAssumption`,
`CaptureAssumption`, `ModifierAssumption`, `ChecksumAssumption`,
`UdpRelayAssumption`; `FileBenchAssumption`; `FileTreeAssumption`): any number of
clients, slots, descriptors, buffers, blocks and frames, any trees, and any set
of failures, but for the hypotheses named below. Each is about a specification
without fairness. `UdpRelayAssumption` says that no other host sends a packet like
the sender's; without it nothing could tell the receiver's datagrams apart.

Every proof about a program has one shape: an invariant that is inductive and
implies the property, one lemma that the initial state satisfies it, and lemmas
that each action keeps it. TLC checked each inductive invariant on the run's instance before
it was proved.

### The chat servers

What the servers share is proved once, in `ChatServerProofs`. `TableInv` relates table and descriptors: a connection is behind at most one descriptor
(`OneFd`), no two active slots have one descriptor (`SlotsDiffer`), a slot holds
an open descriptor and the number of its connection (`SlotsHold`), and who is
not accepted yet was never numbered (`PendingFresh`). The epoll server keeps it; the
io_uring server keeps it but for one slot, for one step. `RegisterTable` and
`CleanTable` say what registration and clean-up do to it.

*Threads.*

1. `TypeCorrect` (`TypeOK`). `TypeOK` alone is not inductive: the loop counter of
   a handler must be a slot where the code uses it as an index (`IndexOK`).
2. `DescriptorsAreOwned` (`DescriptorsOwned`) and `SlotsAreServed` (`SlotsServed`).
   `OwnInv` says what each connection goes through: not accepted yet, held by
   main, or held by its handler (`Unaccepted`, `MainOwns`, `HandlersOwn`), and
   that the connection of an active slot still has its descriptor (`SlotsOwn`).
   Closing after unlisting is what keeps the last one.
3. `LabelsAreSet` (`LabelIsSet`): the unlocked search ends with some number.
   `SearchInv`: a number goes with every descriptor in the table (`NumbersSet`),
   and a search without a number has the slot that main filled for it still
   before it (`Ahead`).
4. `QuitNoticesAreLast` (`QuitNoticeIsLast`). `MutexOwn`: the holder of
   `client_mutex` is the one handler inside the broadcast loop. `ByeInv`: the
   source of a quit notice is on its way out, and `OutStep`: it never comes back.
5. `DeliveryIsExact` (`ExactDelivery`). `DeliveryInv` adds that the newest
   message is the holder's, that nobody joined after the end of the log, and that
   each stream is exact up to the last broadcast that has passed its slot.

*epoll.*

1. `TypeCorrect` and `EventsStayCurrent` (`EventsCurrent`), whatever fails. The
   property needs that the event being served has left the batch (`BatchInv`), so
   that closing its descriptor touches no other event, and that a connection is
   behind one descriptor and a new one behind none (`DescInv`).
2. `DescriptorsAreOwned` (`DescriptorsOwned`), under `"epoll_ctl" \notin Faults`: a
   failed `epoll_ctl` leaves a slot with a closed descriptor (section 6). `OwnInv`
   adds `TableInv` and that epoll watches every slot (`Watched`).

*io_uring.*

1. `TypeCorrect` (`TypeOK`), with the part that a completion names a connection.
2. `OneRequestEach` (`RequestsUnderWay`) and `DescriptorsAreOwned`. They need each
   other. `CountInv`: of each listed client the receives that are prepared or with
   the kernel (`Asked`), completed (`Queued`) or being served (`Handling`) are
   one, and of others none. `OwnInv`: `KeptTable`, `StaleInv`, and the descriptor in
   the request and in each completion is the one the client is still on
   (`RequestFd`, `CompletionsOwn`). A client with a completion in the queue is
   served, because there is one for it; its descriptor is closed only when that one
   is handled, so that it cannot be given away before. Between `CloseClient` and
   `Unlist` the slot of the closed client is stale, and the kernel may have given its
   descriptor to a new connection. So `KeptTable` is `TableInv` of the other slots
   (`Kept`; who is behind one is `Served`), and `StaleInv` says of the stale one that
   it has the number of the client that left, and that whoever has the descriptor
   has no number, hence no slot: the loop that looks for the descriptor finds the
   stale slot and no other. `KeptAll`: at every other place the two are the same.
   The lemmas `ConcatHits`, `AppendHits`, `TailHits` count in sequences.

*All three implement the room:* `IsOneRoom` (`IsChatRoom`) in each of
`ThreadServerProofs`, `EpollServerProofs` (under `"epoll_ctl" \notin Faults`) and
`UringServerProofs`. Registration is `Join`; the start of a broadcast is `Say`, or
`Quit` when it is a quit notice; one iteration of the loop is `Hear` or nothing;
unlisting is `Leave`, for the io_uring server already the close, after which `Unlist`
changes nothing; a client that closes or is refused is `Vanish`; everything
else changes nothing in the room. The invariant is `RoomServed` over the
ownership above. What it has to carry differs:

* that everybody heard everything before the next message (`AllHaveHeard`): with
  threads from the mutex and `DeliveryInv`; in the single-threaded servers from
  `HearInv`, each slot being `Behind` by one only while the loop has not reached it;
* that who says something is a member that has not said goodbye, and that no
  member that can be reached said it: with threads, `PartedGone` and
  `HandlersListed`; in the others `ByeInv`, who said goodbye is listed (with
  io_uring: served) only until the same event or completion is done with, and `ServeInv` or `EndInv`: a receive
  that ended did so because the client has gone. For the io_uring server this
  is said of completions that wait in the queue, too.

*With the client programs.* `ProgramsAreClients`: every step of `UringChat` is one of
`UringServer` or none, because all a client program does to its connection is to
connect, send, read or leave while the server runs (`ProcessAllowed`). So the
results about the server hold with the programs around it (`ProgramsAreServed`).

### The copies

`CopyInv` is inductive for `async_io`. `HandInv`: a buffer in use is in one place,
in the ring, in the kernel or completed, and `LoopInv`: `active_reqs` counts them
and is zero at the end. `RangesInv`: the blocks under way are disjoint parts of what
was read. `ContentInv`: a buffer holds what its read brought. `DestInv`: each unit
is on the destination at most in its place, and `BytesCounted`. From it:

* `NoRequestForgotten` (`EachInOneHand`), `WritesAreCounted` (`BytesCounted`);
* `AsyncIsFileCopy` (`IsFileCopy`): `CompleteWrite` is the step in which units
  arrive, and the end by the loop's condition is complete, because `bytes_written`
  counts units (`DoneIsComplete`);
* `ProgramCopies`: the same of the program with the blocking copy before it, whose
  steps leave those variables alone (`ProgramRunsCopy`);
* `BlockingKeepsOrder` (`BlockingInOrder`), from `OrderInv`: the destination is
  filled up to its position from the source before its position, in order.

### The capture

`CountsAreFrames` (`CountsAreOfFrames`), for any number of sniffers and of frames.
`CaptureInv` is the property with the types it needs and with what the loop does;
above all, the byte at the place of the protocol is one of the protocols whatever was
received before (`BufferIsProto`). A frame then raises the counters of its kinds and,
only when it is cut off, that of another protocol (`RaisedOfKind`); it raises one
counter of the types or is too short for any, and one of the protocols when it is IPv4
(`RaisedTotals`). `Loop`: the loop's counter is the number of frames received, at
most `PACKET_NUM`; it is that number when the loop ended by itself and less when
`recvfrom` failed, so that the constant that is printed is right in the first case
only. `PlacesKept` says that a sniffer gets past its loop in these two ways or by a
signal.

`ShowsWhatItShould` (`ShownInOrder`) compares two sequences: `ShownKept` says that
what was shown, without the broken frames, is what was received, without the
frames that are not due. `Kept` reads the recursive function `KeptOf`, and the lemma
`KeptAppend` says that one more element is kept or left out. Each step appends to
both or to neither.

### The flags, the modifier, and the relay

Let `Inv(F)` say that the queues hold frames of `F` and the log entries made
from them. It is inductive for every `F` that holds what arrives and is closed
under sending (`StepInv`). With `F` all frames whose fields have their width it
gives `TypeCorrect` and `StaysInBounds` (`InBounds`): the checks bound the
payload whatever the lengths say (`AcceptedFits`, `EntryInBounds`). With `F` the
frames whose payload was never replaced or that are marked as outgoing it gives
`NoFrameTwice` (`ModifiedOnce`), under `~Loopback`. `InBounds` has one part more
than bounds: of the headers only the checksums change.

`FlagsRestoredAlone` and `ListensWhileRunning` are proved for any number of
modifiers (`FlagsAreRestored`, `ListensUnlessCleared`) and for any number of
captures (`CaptureRestoresFlags`, `CaptureListens`). The steps of either are
reduced to four kinds (`SnifferSteps`: it goes on, saves, sets or restores), and
`FlagsInv` is kept by each: who has saved a set flag has it from somebody who is
to clear it (`SomebodyClears`); and who has set it has it set until one of those clears
it who had saved their flags before (`Listens`). That nobody else can, is `Overlap`:
who saves flags later saves them set, or after such a one has cleared them already
(`Excused`). `CallsMade` says which calls lie behind each place, and thus that who
fails before it has set the flags puts none back.

`ChecksumsAreAccepted` (`ChecksumsVerify`) holds for buffers of any length and a
byte of any number of values. `checksum()` and the receiver's sum are recursive
functions, and the library's induction theorems take the formula as a parameter,
which the provers cannot instantiate; `Induction` and `Recursion` say the same of
sets of numbers, from a least element. The sums of the words in the two orders of
bytes agree up to multiples of `WORD - 1` (`SumsRelate`); folding the carries
keeps that and ends below `WORD` (`FoldedIs`); so the complement that is stored
brings the sum over all words to `WORD - 1` (`StoredSum`), for an even and an
odd number of bytes.

`RelayIsModifier` says that with sender and receiver around them the modifiers
still satisfy `Modifier!Spec`, so that all this holds there. `RelayedOnce`
(`Relayed`), under `~Loopback` and for finitely many modifiers, counts: what the
receiver was given is at most one more than the modifiers that no longer have the
packet before them (`RelayInv`, `Passed`), and only the first of it is no copy.

### The benchmarks

`BenchInv` gives `WritesReachTheDisk` (`WritesAreDurable`) and `ReadsAreWhole`
(`ReadsWhole`) for files of any size and any positive number of random operations.
`CacheInv`: the kernel has all that stdio does not hold. `PendInv`: what stdio holds,
the half of a block that was written last at random, or of a sequence the block it is
in (`Buffered`). `DiskInv`: from an `fsync` to the next write, over `fclose` and the
return, what is not on the disk was in the buffer at the `fsync` (`held`). `DataInv`:
what the phases before have written stays readable.

### The directories

What is recursive in the tree is handled by two lemmas from `WellFormed`:
`TreeInduction` (what holds of `Top` and of the entries of every directory it
holds of holds of all) and `TreeRecursion` (there is a function with a given value
at each node made from that of its directory), which give `Above` and `PathOf`
their equations (`AboveIs`, `PathIs`). Both theorems then rest on one fact about
paths: no two nodes have one path, because a name has no slash in it
(`SplitOnce`, `PathsDiffer`), so that the kernel finds by a path that was not cut
off its node and nothing else, a second slash included (`Found`).

* `LinesAreOwn` (`ListsItsOwn`). `ListInv`: each line is about the entry it names
  or is one of the two exceptions (`OwnLines`, `StatIsOwn`); what is not hidden is
  printed, complained about or still to come (`AllListed`); and `count` is the place
  in the last row (`RowsFull`).
* `SearchFinds` (`FindsExactly`). `SearchInv` looks at the calls whose path was not
  cut off. Such a call is about the directory of its path, and there are as many
  calls below it as directories above (`CallsOwn`), from which the limit on streams
  follows. A path that was cut off may lead back into what is being searched, but
  has only cut-off paths below it (`PathMade`). Below an entry that is left nothing was printed
  or is being searched (`FreshBelow`), hence each path once (`PrintedOnce`). A match
  was printed, is below an entry that is left (`Pending`), or has one of the four
  reasons not to be (`NoneMissed`).

### Only model-checked

* Liveness and everything under fairness, with the fairness in
  `ClientsAsAssumed`: out of the prover's reach. Its safety part is proved
  (`ProgramsAreClients`).
* `SearchEnds`, that a search ends, is one of them, although streams run out.

`MCEpoll_safety` has the hypothesis of the theorems about the epoll server: its
`Faults` do not contain `epoll_ctl` either.

`QuitNoticesAreLast` and `ProgramCopies` are no properties of runs by themselves;
the runs show the first as a part of `IsChatRoom` (`Quit` is said once), and the
second is three properties of `CopyProgram` in one.

## 6. What the checks found

One run is expected to fail; its trace contradicts what the program says of
itself.

* `MCThread_label`, `server_thread.c:48`: the search for `client_id` takes no
  mutex, ignores `is_active` and goes on after a match. While main fills a slot,
  or when an old slot has the same descriptor, it ends with another client's
  number, and messages go out as `[Client %d]` with it.

Other behaviour is in the models, and the properties are stated so as to say
exactly what remains true:

* `pthread_create` returns a positive number on failure and is compared with
  `< 0`, in the threaded server and in the client. In the server
  (`server_thread.c:153`) the slot stays listed, its descriptor open, and nobody
  serves them: `SlotsServed` names this exception, `DeparturesCleaned` is about
  connections with a handler. In the client (`client.c:63`) nobody reads: when its
  buffers are full the server waits in `send` with everybody else behind. The
  exception `Deaf` in the properties of `MCUring_live` is needed.
* `send` to a client that was reset raises SIGPIPE, which ends each of the three
  servers (`server_thread.c:30`, `server_epoll.c:27`, `server_io_uring.c:40`):
  liveness is claimed until the process ends. `ClientEnds`: its clients notice.
* A failed `epoll_ctl` closes the connection but keeps its slot
  (`server_epoll.c:122`), so that the limit is reached with fewer clients:
  `DescriptorsOwned` holds without that failure, and `MCEpoll_live` is about the
  clients that are `Connected`. The slot it leaves may lie before one with the same
  descriptor and is then given back in its place: `DeparturesCleaned` says that the
  descriptor always comes back, and the slot unless it is `Shadowed`.
* A failed `io_uring_submit` (`server_io_uring.c:56`, `:72`) leaves the accept or
  the recv in the ring until the next request is submitted, and for ever if that
  was the only one: `RequestsUnderWay` counts what is in the ring as well, and the
  liveness run leaves this failure out.
* One short or failed result, or a submit that takes nothing, and `async_io`
  never ends (`HW3_2.c:105`, `:156`): `CopyEnds` names these reasons (`Lost`,
  `Stuck`) and no other.
* Two sniffers that overlap leave the interface promiscuous, and so does a signal
  (`HW5_1.c:278`, `HW5_1_5.c:171`): `FlagsRestoredAlone`. When the one that
  saved clear flags ends, the other, which set them after that, no longer listens:
  `ListensWhileRunning` names this reason and no other; above all, one that failed
  before it had set the flags puts nothing back.
* mode1 prints "Total captured packets: %d" with the constant `PACKET_NUM`
  (`HW5_1.c:80`), also after an error of `recvfrom` (`HW5_1.c:33-36`), when it is more
  than were received: `CountsAreOfFrames` says both.
* Frames of other interfaces, queued between `socket` and `bind`, are counted, and
  are modified and sent out of the named interface (`HW5_1.c:253`,
  `HW5_1_5.c:297`); the properties hold for them too.
* A frame that ends before its protocol byte counts as the protocol of an older
  one, and one shorter than an Ethernet header only in the constant total that
  `HW5_1.c:80` prints: `CountsAreOfFrames`.
* `HW2_1_1` with another directory than `.` shows what has the same name in the
  current one, or an error (`:27`); `HW2_1_3` uses the path: `ListsItsOwn`.
* A path of 1023 letters or more is cut off; what is then printed or searched may
  be something else, and a directory may be searched again inside itself
  (`HW2_2:53`). The search ends all the same, because streams run out.
  Directories that cannot be opened, are too deep or whose type `readdir` does not
  tell are left out without a message, also when "cannot find" is printed then:
  `FindsExactly` names these exceptions.
* A frame with an `ihl` below 5 is shown with ports from inside its IPv4 header
  (`HW5_1.c:141`), and no other frame is: `ShownInOrder`.
* At the end of its input the client prints its prompt without end
  (`client.c:74`); it still ends when the server closes: `ClientEnds`.
* `fsync(fileno(fp))` without `fflush` misses what was just written with `fwrite`:
  no "Random Synchronous Write" of `HW1_1.c` (`:63`, `:186`) is on the disk, or even in
  the kernel, when its `fsync` is over, and the last block of each of its writing
  functions is handed over by `fclose` after the last `fsync` (`:121-123`, `:164-166`,
  `:191`). `WritesAreDurable` says that this block is lost by a power failure at
  most, and that `HW1_2.c` and `HW1_3.c` lose nothing.

## 7. What is not modelled

* Starting the servers (socket, bind, listen, `io_uring_queue_init`): they end on
  a failure before anything else exists. `io_uring_get_sqe` of the io_uring server
  always succeeds: the ring has more entries than requests can be prepared in the
  runs.
* Texts, addresses, the clock. A `send` that takes a part of a message, which a
  blocking socket does not do unless interrupted.
* The buffering of stdio is the default of glibc with a buffer of 4096 bytes, but
  for whole blocks, which glibc may write past the buffer (`create_file`, where nothing
  depends on it). A full disk is not modelled: the benchmarks ignore every result of a write.
* On the loopback interface a modified packet comes back and is modified for
  ever. The model has this (`Loopback`), with the number of sent frames bounded
  by `MaxLog`. The proofs of `TypeCorrect` and `StaysInBounds` cover it, the run
  does not; `ModifiedOnce` is about the other interfaces, as nothing in the
  repository says on which the program may run.
* In `Capture`, frames that end inside the IPv4 header but after its protocol byte
  (24 to 33 bytes) have no length of their own.
* In `UringCopy` an `io_uring_submit` takes all requests or none.
* Ports and addresses that a broken frame is shown with; only that they are its
  own or not.
* A file system that changes during a search or a listing, but for entries that
  vanish before `lstat`. Metadata and their layout, links that `readlink` follows.
* The client programs are composed with the io_uring server only. Towards the
  others they are the clients of `Sockets`, which may do whatever the program may
  (the first part of `ClientsAsAssumed`). Signals between two calls of a server.
* `run_test.sh` and the makefiles: they build and start the programs.

## 8. Plan

The order was: the chat servers, because they hold the concurrency of the
repository, then the copies, the sniffers and the benchmarks, then the client,
the sender and receiver and the programs of hw2; and the proofs in the same
order. Every program is modelled, and every invariant that a run checks is
proved, but for `LabelsAreTrue`, which is false. What could be added:

1. The client programs around the threaded and the epoll server, as `UringChat` has
   them around the third.
2. A file system that changes during a search.
