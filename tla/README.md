# Specifications of the course programs and of the pomodoro timer

The repository is a collection of independent C programs, `HW01` to `HW17` and
`pomodoro`. This directory models those that have logic of their own in TLA+,
checks the models with TLC and proves some of their properties with TLAPS.
`PROJECT.json` lists every component, every run, the source lines each
definition stands for, the hazards, and the theorems.

## Inventory

No two programs share code or talk to each other; what interacts is inside a
program, or between it and the kernel, its clients and its user.

| program | state | operations | what is hard | what makes it right |
|---|---|---|---|---|
| HW14 mouse driver | ring buffer, `head`, `tail`, `mouse_mutex`, `display_mode` | `mouse_read`, `mouse_write`, the timer callback, `mode_store` | users and the timer meet at the cursors; the buffer is full or empty; a fault in the middle of a copy | a call is atomic and says what it moved; nothing unwritten is read; every call returns |
| HW14 module | a buffer, six kernel registrations and a timer, in the order of `mouse_init` | `mouse_init`, `mouse_exit`, the users meanwhile | a failure half way, users before the end of init, a timer that arms itself during exit | what was registered is released, in the opposite order, once, and under nobody's feet |
| HW12 file server | epoll set, table of connections by descriptor, the requests being gathered, the transfer in progress | accept, recv, answer, send, close | edge-triggered events, requests in pieces, reuse of descriptors, clients that leave or do not read, descriptors that run out | answers go to those who asked, once; requests are answered; no client's data in another's slot |
| HW10 log parser | buckets of file names, a map per thread, the merged maps | deal out, parse, join and merge, sort and print | schedules of the threads, empty buckets, large totals | the totals are those of a sequential reading; the report is the heaviest first |
| pomodoro | settings, timer state and its GLib source, the configuration file, the autostart entry | start, stop, tick, change of a setting, language dialog, close, tray | a dialog with a nested main loop between ticks, restarts, several ways to end | one timeout at most; phases keep their time and alternate; what is set is kept |
| HW08 size daemon | name of the socket, listening queue, the client it serves | bind, accept, read, reply, end by signal | a second copy, signals at any point, kills, silent clients | the name is there while its server runs and gone after a clean end |
| HW03 hash | open-addressing array, size, capacity | get, add, rehash | probes at the end of the array, rehash onto a used cell | a word has one element, its count is the number of reads |
| HW17 2048 | board | four moves, new tile, tests of the end | edges of the board, merges in a row of equal tiles | moves follow the rule of the game; a game ends when it must |
| HW06 logger | a flag, a FILE, a mutex | init, log, cleanup | cleanup during a log call, a second init, a crash between two writes | no use after close; whole lines, in the file when the call returns |
| HW01 zip lister | a growing buffer, the offset of the walk | read the file, find the end record, check the members, list them | a comment that looks like a record, offsets from either end of the JPEG, what is cut off | all members are listed, once |
| HW09 crc32 | offset, checksum | map a piece, fold it in | a size that is a multiple of the piece, a call that fails, a file that changes meanwhile | the checksum is that of the whole file |
| HW11 figlet client | a socket | read until a full stop, write, read | end of file, a message in pieces | the exchange ends |
| HW15 column statistics | sums, least and greatest value | two SQL passes | a table that changes between the passes, cells that are no numbers | mean and variance are of one table |
| HW04 weather, HW05 directory view, HW07 assembly list, HW13 strace report, HW16 cube | none that outlives a call | one pass of library calls | nothing a model would reach | |

Everything in this code that is hard to test is in the list `hazards` of
`PROJECT.json`, at its line, with the properties below that would catch it.

## Modules and the code

Definitions keep the names of the functions they stand for where TLA+ allows it.
An operator introduced by a comment that begins "A slip" or "Slips" is not part
of a model: it is a plausible mistake in the definition that follows it, used to
see that a property would notice it.

**`CharDevice`, `MouseDriver`** (`HW14-driver/mouse_driv.c`). `CharDevice` is what
the driver promises: a bounded queue of bytes; a write appends a prefix of its
data as long as there is room, a read takes what is there up to its length, each
in one step; either may fault after moving some bytes. `MouseDriver` is the code:
`pc` of a caller is "lock" before `mutex_lock`, "loop" inside the critical
section, and each iteration of a loop is a step (`StoreByte`, `ReadByte`), as are
the returns (`WriteReturns`, `ReadReturns`, `WriteFaults`, `ReadFaults`).
`moved` is the counter `i` or `copied`; `Timer` is the callback, which is never
started twice at once because `mod_timer` is its last call. The callback takes
`display_mode` (`ChangeMode` changes it) before the mutex, which it takes in a softirq, where
it may not sleep and may have interrupted the holder itself; `Caught` is a callback that has
come to a mutex in use. The fresh buffer holds
`Junk`, as `kmalloc` leaves it. `AtomicCalls` states that `MouseDriver`
implements `CharDevice` under the mapping `Queue`: while a writer holds the
mutex its bytes are not in the queue yet, while a reader does, the bytes it has
taken are still there.

**`FileServer`** (`HW12-FileServer/src/server.c`). One step per system call of the
server's only thread. `EpollWait` takes the ready list; `AcceptConn`, `RecvData` and
`RecvEnd` handle one event of the batch, in any order; `Refuse`, `StartFile`,
`SendChunk`, `FinishFile` are `handle_request` and `send_file`, between which
the clients go on. The kernel is external: `ready` (an item enters it by an edge
and leaves it with `epoll_wait`), `backlog`, descriptors (`Lowest`: the lowest
one free), the peers' ends of the connections, and send buffers of `SndCap`
items. A client is one connection with one request, of a kind that
`handle_request` tells apart, in `Segments` pieces. `connections[fd]` is `conn`,
`reading` and `data`, where `data` says how many pieces of which client the text
contains, so that old text is seen if it stays. `recv` and a slot are bounded by
the same `BUFFER_SIZE - 1`, the pieces in `Room`: one `recv` takes what has arrived up to that
(`Received`), and where the text does not fit behind what the slot has, `strncat`
writes beyond it (`RecvOverflow`). A non-blocking `write` takes a chunk whole, in part or
not at all (`Taken`, in halves, since a part of any length leaves the same hole); its result is
ignored, and `lost` has what was not taken whole, so that an item in `stream` and in `lost`
was cut short. `dead` is the end by SIGPIPE, `overrun` an index beyond the table, `overflow`
a text beyond a slot.

**`FileService`** is what the loop is for, without descriptors, slots, edges and buffers:
complete requests have their turns in any order, each once; a turn is a status or a
file, header first and chunk after chunk; an item goes to the client that asked, or is
cut short, or lost. `ServesInTurn` maps the loop to it: a request is complete when all its pieces are
sent, a file is under way while `pc` is in the transfer, or was when SIGPIPE ended the
program, and everything the loop does apart from its writes is a stutter.

**`LogParser`** (`HW10-LogParser/src/main.c`). `DealOut` and `EndOfDir` are
`split_files`, for every order of `readdir`; `CreateThread`, `JoinThread` and
`Report` are the loops of `main`; `ParseLine` and `CloseFile` the thread. A line
is what `parse_log_line` makes of it, a map of entries a function. `Compare`
returns an int of `IntBits` bits, as `compare_by_value` does, and `Orders`
is what `qsort` may make of it; with a comparison that is no order any
arrangement is allowed.

**`Pomodoro`** (`pomodoro/src`). `proc` is the program: up, in the nested loop of
the language dialog (during which `Tick` goes on), exited or killed. `sources` are
GLib's live timeouts, `timerId` what the program remembers of them. `file` and
`desktop` survive; `Launch` reads `file` through `load_settings`. `CloseWindow`
saves; `QuitFromTray` does not.

**`IPC`** (`HW08-IPC/src`). The `Copies` are processes that run the program, one run
after another, in one directory. `file` is whose socket the name stands for.
`CleanExit` may come at any point after `signal`, `Kill` at any point at all,
`BrokenPipe` with an answer to a client that is gone. `Reply` blocks, as `send` does, while the
client's socket holds `AnswerCap` answers that it has not taken (`Receive`); a client may send
for ever. Every way to end goes
through `Die`, which closes the sockets, and `close_server` unlinks the name
without asking whose it is.

**`Hash`** (`HW03-Hash/src`). The loop of `main` over the words of a file: `Count`
when `get_element` finds the word, `AddElement` with its `rehash` otherwise,
`Overrun` when the walk leaves the array. `get_element` does not wrap, `add_element`
does, and `rehash` does not probe. A word is its hash, which is negative where the
sum has overflowed, and `Home` is C's remainder.

**`SlideRow`, `Game2048`** (`HW17-2048/src/main.c`). `SlideAndMergeRow` is the three
loops of the function as folds (`Keep` and `MergeAt` are their bodies); `Rule` is the rule of the game written without
them. `Game2048` has the board, the four moves as views of its lines (`Cell`,
`Place`), the random tile and the tests of `gameLoop`. `TileIsEarned` compares a board with the
one before it: what changed it was one of the moves, that move has moved something, and one
cell that it left empty (`OneMore`) has a 2 or a 4.

**`MouseModule`** (the end of `mouse_driv.c`). `Steps` are the registrations of
`mouse_init` in order, `Label` the place in `Unwind` that each failure jumps to,
`Exit` the calls of `mouse_exit`; `held` is what is registered. `Acquire`,
`Fail`, `Undo` and `TearDown` take or release one thing at a step, and between
them files are opened (from the registration of the device on), used and closed,
`display_mode` is used and the timer runs. The kernel is external as the code
relies on it: an open file keeps a live module in place (`Rmmod`), but one that
is still being loaded may fail under it (`orphans`); removing the sysfs file and
the timer wait for whoever is inside. A failing `register_chrdev` returns `result`,
which was not set: `InitFails` takes any value for it, and after a zero the module
stays as if loaded, until a removal releases what is not there (`oops`).

**`Logger`** (`HW06-Logger/src/logger.c`). Every access to `initialized` and
`log_fp` and every call on the FILE or the mutex is a step. The `Owner` is `main`; the
`Workers` call `logger_log` at any time. A line is its beginning (`Prefix`) and
its end (`Text`), so that `mixed` sees one written into another; `Flush` and
`Trace` are what follows; `Crash` is the use of a closed file.

**`ZipList`** (`HW01-Zipjpeg/src`). An archive is what an archiver made of a list
of members: a front, records, a comment; `pc` follows `read_file` (the doubling
buffer), `find_eocdr`, the checks of `zip_read` and the walk of `zip_member`. A record
is a cell with the fields that the code uses, whatever else is in the file is a byte.

**`Figlet`** (`HW11-Network/src/convertor.c`). The addresses of `print_message`, then
`read_msg` twice: a read takes any part of what is on the wire, the buffer is
cleared once and `strlen` decides what the last character is. A `write` to a server that has
closed is lost if it is the first since, and a SIGPIPE if its RST has come.

**`Crc32`** (`HW09-CRC32/src`). The loop of `get_crc32` piece by piece and byte by
byte, with calls that fail and a file that others lengthen or shorten; a byte that
is no longer there ends the program (`killed`, by SIGBUS). The checksum is the sequence of
the bytes it was computed from.

**`ColumnStats`** (`HW15-DB/src/main.c`). Two queries, each of which sees one
committed table (`seen`), row by row through the callbacks; `Commit` is another
process. `Count`, `Sum` and `SumSquares` are what a reader of one table would
compute; `variance` is kept as an integer, `count` squared times the code's sum of
squared distances from the mean, so that no division rounds.

**`SmallPrograms`** composes `SlideRow`, `Game2048`, `ZipList`, `Figlet`, `Crc32`,
`ColumnStats` and `Logger` side by side: the variable `program` says which of them a
behaviour runs, and the variables of the others are idle. These programs do not
interact; they share a module because each is small, and each behaviour is
exactly a behaviour of one of them.

The modules `MC...` give the constants of the others values for TLC.

## Runs

| run | instance | what it shows |
|---|---|---|
| `MouseDriver` | one writer, one reader, the timer, a buffer of three cells | the refinement `AtomicCalls`; that every call returns unless the callback is caught (`CallsReturn`) |
| `MouseModule` | two files, the timer and `display_mode`; any registration may fail | nobody is inside the driver without its buffer, what is released is held and is the newest |
| `FileServer_files` | three clients: two files, one too long for the send buffer, and a missing path; requests of two, one and three pieces, the last longer than a slot; two slots | whose data a slot holds, which edges are still to come and what no edge will bring (`UnreadIsCovered`), right and whole answers, and that the accept queue never catches up after a lost edge (`NeverCatchUp`); the refinement `ServesInTurn` |
| `FileServer_dirs` | three clients: a file, a directory, a POST; three descriptors, of which two have slots | no silent close, leaked descriptors are the directories asked for, what is accepted and answered in the end |
| `LogParser_full` | four files and a directory entry that is none, 1, 2, 3 or 5 threads | the totals of a sequential reading, no file forgotten or shared, the order of the report where differences fit, termination |
| `LogParser_far` | one file, totals further apart than an int | `TopIsHeaviest` fails |
| `Pomodoro_full` | two times each, two languages, two starts, a minute of two seconds | one timeout, the language on disk, phases that keep their time and alternate |
| `Pomodoro_exit` | the same | `SavedOnExit` fails |
| `SmallPrograms` | see the bounds | 2048: the loops compute the rule, `canMove` agrees with the moves, a board changes by a move that is one, and by one new tile after it (`SlidesByTheRule`, `CanMoveIsRight`, `OneTilePerMove`); `ListsEveryMember`, `FramingHolds`, `ChecksumOfAPrefix` and `MomentsOfOneTable` of the next four; of the logger, that lines stay whole and reach the file and who can be hit by a cleanup (`LogIsWhole`, `OnlyOverlapUsesClosed`) |
| `Hash` | five words, an array of four cells, eight reads | the probe ends, a word is found where it is, counts are right or lost by a collision in `rehash` |
| `IPC` | two copies, three starts, three clients, a backlog of one | the name after clean stops, the name of a copy that runs, one copy behind each client that is connected (`OneCopyPerClient`), what a waiting client waits for |

The two runs that are expected to fail:

- `SavedOnExit`. `pomodoro/README.md:59` says that the settings are saved on exit.
  The tray's Quit (`main_window.c:331-338`) calls `gtk_main_quit`, and `main`
  returns without `save_settings`. In the same direction,
  `README.md:76-80` names `~/.config/pomodoro_timer/config.ini`, created at
  the first launch; `settings.c:18` names the directory `pomodoro`, and the file
  is written only by a close of the window or a change of the language.
- `TopIsHeaviest`. `main.c:58` of the log parser narrows a difference of two longs
  to an int, so two urls 2 GiB apart may be printed in the wrong order under
  "Top heavy URLs:". `TopIsHeaviestOfNear` is what does hold.

The types of the large modules, the mutex of the driver and the counters of its
calls are not checked by a run: they are established by proofs (below).

Some properties that hold say what the code does rather than what one would
wish: `NeverCatchUp` (one accept per edge leaves connections behind for ever),
`LeaksAreDirectories` (each request for a directory costs a descriptor),
`UnreadIsCovered` (of a request longer than a slot the rest may stay unread for ever, and a hang-up
whose edge was used up by the text before it is never noticed), `SmallFilesWhole` (larger files
may arrive with holes), `CallsReturn` (the callback may stop everything), `CountsAreRight` (a count
may be too small after a rehash), `WaitingNeedsAHolder` (a client that says nothing, does not
take its answers or never stops asking holds up all others), and `NameIsKept`, which allows that a copy ended between its
`signal` calls and `bind` takes away another copy's name. In the same way
`BufferOutlivesItsUsers` excepts the file that was opened while `mouse_init`
was failing, `ReleasesWhatItHolds` the unset result, `OnlyOverlapUsesClosed` the log calls
that a cleanup overlaps, `LogIsWhole` a logger that is initialised a second time
(its mutex has been destroyed and is not initialised again), `ListsEveryMember`
an end record inside a comment and an archive whose end record is at offset 0;
`FramingHolds` says in which cases the client waits for ever, `ChecksumOfAPrefix` that a failed
mapping shows the checksum of a part, and `MomentsOfOneTable` that the variance
mixes two tables if another process commits between the queries.

### Bounds

- Driver: three cells give room for two bytes. The writer's data (one and two bytes) and the
  events (one and two) fill it from every position of the cursors, so
  wrapping, truncation and emptiness come in every combination; reads ask for 0 or
  2 bytes. The callback is the second writer that competes for the ring. The
  proofs cover all other numbers and sizes.
- File server: three clients, since two are needed to lose an edge of the
  listening socket and a third to come after them and to reuse a descriptor. One to three
  pieces per request and a `Room` of two distinguish partial from whole, a slot that is exactly
  full from one that is exceeded, and a `recv` that leaves text behind; a send buffer of two chunks
  (`SndCap = 4` halves, 2 in `FileServer_dirs`) and files of one and two chunks distinguish those
  that fit, and a client that has drained half a chunk lets the next one be cut. Both tables have two slots
  (`TableSize = 7`): three connections overrun it, and so do two and a leak, where
  `MaxFd = 7` has one descriptor beyond the table and `MaxFd = 8` two, so that a file can be opened
  when the slots are taken.
- Log parser: five threads are more than there are files, one and two share them
  unevenly. `IntBits` stands for 32.
- Pomodoro: `MaxStarts = 2` bounds the identities of timeouts in one run of the
  program: a stale one needs a second start. A minute of two seconds lets a
  phase be interrupted between ticks.
- Hash: from four cells the table is rehashed twice, to eight and sixteen, within
  eight reads; the homes of the words collide in the first, in the second or in
  both arrays, and one is the last cell.
- Module: two files let one be open while another is inside a call; the
  registrations are those of the code.
- `SmallPrograms`. The rows are of the real length, all 256 over 0, 2, 4 and 8 and what
  repeated moves make of them; the board is two by two, where each cell is both at an
  edge and a neighbour, and a game of up to 16 reaches full boards and both
  ends. Archives have up to two members, a comment of any length up to `MaxComment`, two
  cells, and a first buffer of two (`FirstCap`), which doubles once or more.
  Messages have up to two characters and a prompt, for a buffer of four, with two
  addresses; all ways to cut them come up. Files of up to five bytes meet pieces of
  four and pages of two: below, at and above a piece, and a page beyond. Tables have
  up to three rows over a negative number, zero, a positive one and a text
  (`MCSmallPrograms` names these and the archives, since a cfg cannot). The logger has two workers, since
  two lines are needed to mix; the owner's second initialisation is the last that
  differs.
- IPC: a backlog of one (5 in the code) is filled by the third client, and a third
  start follows a stop of either copy. A client has at most one message and one answer under way
  (`MaxMsgs`, `AnswerCap`), but no limit to their number: it can ask for ever, and two
  messages without a `Receive` between them block the daemon in `send`.

### Fairness

Safety runs use `Spec`. Liveness is checked under `FairSpec`, which
assumes weak fairness of what the scheduler or the main loop must run: a caller
inside a driver handler goes on, and a process at the mutex gets it in the end (Linux
hands a mutex to a waiter that has been passed over, hence strong fairness of
`Lock` for processes only). The callback cannot wait for a mutex: it is only assumed to take
one that stays free, and while it is `Caught` by one in use nothing is assumed of anybody in the
driver, since the holder may be the process that the callback has interrupted. Fair are
further the server's only thread, which waits nowhere but in `epoll_wait`; main and every thread of the log parser; GLib's timeout in a
main loop that runs; a copy of the daemon that is not blocked in a call. Nothing is
assumed of users, clients, signals or the end of a process.

`CHECK_DEADLOCK FALSE` is set where the system may stop: a server that waits for clients who need
not come, a program that has ended, a table whose file has ended, a module or a logger after a fatal
fault. The driver and the log parser (which says with `Terminated` where it may end) are checked for
deadlock, and so is the pomodoro timer.

## Proofs

Constants are assumed only what the named assumptions of the modules state: for the
driver a buffer of at least one cell and disjoint sets of users, for the log
parser a finite directory and positive numbers of threads, for the timer positive
times, for the daemon that the values for no file and a stale one are no copies, for
the hash table finitely many words, a load factor below one and room for one word in
the first array, for the logger that the owner is no worker, for the figlet client and
crc32 a buffer, pieces and pages of at least one byte, for the column statistics that
what counts as a number is an integer and neither a text nor NaN, for 2048 a row and a board of
at least one cell and natural numbers in it, for the zip lister that archives are what archivers write, with a comment no
longer than what `find_eocdr` tries, and for the file server a finite set of clients, a table that ends within the descriptors of the process, files of fewer
than 200 chunks (an item of a stream is a status or the number of a chunk), positive
counts and a send buffer of at least one chunk; for the daemon also that a socket takes an
answer. TLC evaluates each in a run.

**`MouseDriver_proofs`.** `TypeCorrect`: `TypeOK` is inductive as it stands; the
arithmetic of the cursors is in `SuccOfSlot`. `MutexHeldInLoops`: so is `MutexInv`,
given the types. `ReadersNeverSeeJunk`: `NoJunk` says that
`Contents`, the bytes between the cursors, are bytes that were written; it is
inductive because a store appends to `Contents` (`StoreAppends`) and a read takes
its head (`ReadTakes`), which are lemmas about the modular arithmetic of
`Count` and the two cursors (`CountBounds`, `CellsInUse`).

`CallsTrackTheRing`: `CallInv`, the strengthening
that the refinement needs. The bytes a writer has stored are the last
`moved` bytes of `Contents`, and a reader in its loop has received exactly
`moved` bytes. With it `CallsAreAtomic` maps each step: entering a call to
the call of the device, a return to `Write` or `Read`, a fault to its faulty
form, and locks and single bytes to stutters (`StoredBytesLast` and
`MoveElement` show that they leave `Queue` alone).

**`LogParser_proofs`.** The inductive invariant `Filled` relates `index`
to the buckets: bucket `t` is empty exactly when `t` is beyond the files dealt out,
and a file that is in a bucket is no longer in `dir`. `FilesHaveOneThread`
follows: `nthreads` only shrinks to the first empty bucket (`EveryBucketGetsAThread`),
and each entry is returned once (`FilesStayPrivate`).

The totals are counted, not added. `ReadTo` and `GetsOfFirst` are sets of places in
the files: what a thread has read, and what the joined threads have read.
`Tally` makes the two maps of such a set, and `TallyOfAll` is `Reference`. A weight
is the number of elements of a set (`WeightCounts`), so that the tally of two disjoint sets
is the merge of their tallies (`TalliesMerge`) and one more line is one call of
`add_to_map` (`LineIsTallied`). The inductive invariant `CountInv` says that a thread's
maps are the tally of what it has read, that `final` is that of the threads joined, and
that every file is in a bucket when `dir` is empty; `CountsLikeOneThread` is its last
moment, where all buckets together are all files. `HeaviestArePrinted`: what is printed
is the beginning of some result of `qsort` (`Printed`), and with totals within `Half`
of each other `Compare` is the exact difference (`NearIsExact`), so that every such
result is sorted (`SortedIsHeaviest`).

**`Hash_proofs`.** One invariant, `IInv`, carries the four theorems. `ProbeEnds` bounds the
number of used cells by `size`, and `size` by the load; an insertion uses one more
cell (`AddedSize`), a rehash, which may put two words into one cell, no more
(`RehashLosesOnly`), and with twice the cells one more word is within the load
(`LoadAfter`).
`TableInv` says that an element lies at or after its home with no gap and no element of
its own word between, for as long as no search has left the array; this is what
`get_element` needs (`FoundAtItsPlace`) and what an insertion preserves
(`FreeWhereSought`, `AddedInPlace`). That it survives a rehash, which does not probe, is
because every word is then in its home (`RehashKeepsTheLast`). `CountInv`: a word that was
read is counted exactly, or it is `Robbed`: it shares a home in one of the later
arrays with another word that was read, which a rehash may have put in its place. `CapacityInv` ties the arrays in
which two words may collide to those that a run can have (`CapacityGrows`).

**`IPC_proofs`.** `CleanStopsAllowRestart` speaks of the moment when nobody runs and is
not inductive. `NameInv` is: a name that stands for a copy stands for one
past `bind`, which therefore has its handlers, and a stale name was left by a
copy that was killed when it had them. `CleanStopsFreeTheName` follows, and so does
`NamesAreKept`, because the only steps that take a name from its owner go through
`close_server`. `PlaceInv` is about the clients: whoever waits stands in one queue, once,
of a copy that listens, and is not the one being served there; whoever has a connection is
served by one copy; whoever is served is there or gone. Of a step only the places that it
touches need an argument: a copy that moves on keeps them all (`MovesKeepPlaces`), one that
ends, in whatever way, cuts off its own clients and nobody else's (`EndsKeepPlaces`).
`ClientsHaveOneCopy` follows. It is the safety half of `WaitingNeedsAHolder`, which
speaks of the copy that a waiting client waits for.

**`Pomodoro_proofs`.** `TypeCorrect`, then `OneTimeoutAtMost` and
`LanguageStaysSaved`, each inductive given the types; `PhasesRunTheirTime` holds of every
step of `Next` by itself.

**`FileServer_proofs`** proves every safety property of the file server and the
refinement, in four parts, each of which uses those before it.
`IInv` is about descriptors, events and requests. `SlotIsolation` and `UnreadIsCovered` are not
inductive alone: they need that a client is in the accept queue or behind
one slot, once (`WiringInv`), that nothing is received of a client before it is accepted
(`UnheardInv`), and that an event of the batch still has something to
report (`EventInv`), which holds because each descriptor is handled once per batch and a
closed one leaves it. `NoEmptyCall` follows with `QueueInv`, and
`NeverCatchUp` from it, action by action: an accept takes one connection and one edge.
`Replies` says, client by client (`ReplyOf`), what has been written: nothing to a
client that is connected and not answered (`Silent`), and during a transfer a
header and then chunks below `next`, each in the stream, lost, or both (`Sending`). It implies `RightReply` and
`BodyInOrder`, which make up `OneRightReply`, and `SmallFilesWhole` and `NoSilentClose`. Two frame
lemmas carry most steps (`UnansweredKeeps`, `OthersKeep`); `Refuse`, `StartFile` and `SendChunk` write.
`LeakInv` counts: there are no more leaked descriptors than clients that have asked for
a directory and are gone, since each such answer adds one to both; `LeaksAreDirectories`
follows by cardinalities.
What a client has not drained is at most two halves for each item of its stream (`Flight`), so
that an item is cut or lost only where the items before it have filled the send buffer.
A slot that is left with unread text behind it is full, since one `recv` takes all
there is up to the room of a slot: this is what the proof of `UnreadIsCovered` adds at `RecvData`.
`ClientsAreServedInTurn` is the refinement. Only a write shows in `FileService`; the rest
is `QuietServes` or, for a client's last piece, its `Ask`. What a write needs is
`AskedHasItsTurn`: the client whose request is complete at its slot has sent all of
it (`IInv`) and has been written nothing yet (`Replies`).

**`MouseModule_proofs`.** `HeldByPhase`: in each phase `held` is exactly a prefix of
the registrations, given by `step`; with it `UsersHaveTheBuffer`, `NothingReleasedTwice` and
`ReleasedInReverse`, which rest on the order of `Unwind`, `Exit` and `Label`
(`UnwindIsReversed`, `ExitIsReversed`, `LabelsAreRight`).

**`SmallPrograms_proofs`**, program by program; each theorem speaks of the behaviours in
which `program` is the one it is about.
`ChecksumIsOfAPrefix`: `CrcInv` counts the bytes folded in (`CoverInv`: all pieces before
`crc_offset`, and in the loop the part of the piece that is done) and says that they are
the first bytes of the file unless it was cut (`PrefixInv`).
`WholeMessagesAreFramed`: after every read the nonzero cells of the buffer are the first
`longest` ones (`LongestInv`), where a read that is shorter than an earlier one leaves the
rest of that one; `strlen` therefore looks at the end of the longest read, and a
client that waits with nothing on the wire has had a shorter read or a full buffer
(`StuckInv`). A client that reads whole messages is where `WholeInv` says.
`MomentsAreOfOneTable`: after `next_row` rows of the first query the count, sum, least and
greatest value are those of that part of the table (`FirstSeen`), and in the second
the sum of squares that of the rows read, about the first table's mean (`SecondSeen`). `RowsAdd`
says what one more row adds, over `SumsAdd`, the one property of the recursive sum.
`LoggerInvariant`: while the logger is fresh, whoever is between `Prefix` and `Unlock`
holds the mutex (`LineInv`); afterwards only what a cleanup has overlapped can still be in
a call with a closed file (`OverlapInv`). `LinesStayWhole` and `CleanupIsToBlame` are
consequences.
`CanMoveAlwaysFits` and `EveryMoveAddsATile` are about a board of any size. The
loops of `slideAndMergeRow` are folds of the community modules; `FoldExists` says that such
a fold has a value, and `KeepLoop` and `MergeLoop` unroll them into one row per
iteration. What each loop does to the holes and twins of a row follows iteration by iteration
(`TilesOfRow`, `MergedRow`, together `SlidRow`): a row with a hole or twins ends in a hole
when it has been slid, any other is left alone. `Views` says that a key looks at every cell
once, so that a move is known from its rows (`ShiftedLines`); a board that none
of the four moves changes therefore has no hole, unless it is empty, and no twins
(`CanMoveFits`). That a board is never empty is `GameInv`, the invariant.
For the sum, `Weigh` counts one unit for every 1 in a cell, whatever the order; the sum of
the board is that (`SumWeighs`), the loops keep it (`TilesWeigh`, `MergedWeighs`), so a move
does (`ShiftKeepsSum`), and a move that has moved something leaves room for the tile
(`RoomForATile`), which is then the only difference (`TileIsNew`). What `slideAndMergeRow`
reports as moved has changed (`MovedIsChanged`): a merge has left fewer tiles than there were
(`TilesLost`, `MovedRowChanges`).
`MovesFollowTheRule` is about a row of any length. `PackedRow`: the first loop puts the
n-th tile into cell n, which is what `Packed` says. `LeadsStep`: whether a tile leads a pair,
which the rule defines by the run it stands in, depends on its left neighbour alone, and so
`MergeIsRule`, the invariant of the second loop, is that the cells behind it are as the rule
has them, the cell before it is empty if the tile there does not lead, and the rest is
untouched; it needs that a packed row has no tile behind a hole. A move that has merged
something has fewer tiles than before, here too by `TilesLost`, so that the row has changed.
`EveryMemberIsListed` is about archives of any length. Where the records of an archive are
in its file is known from how it is put together: `PartsAreThere` finds the parts of a
flattened sequence, `Parts` and `WholeIs` the entries of the directory, the local headers
and the end record, and `EndRecords` says that there is no other end record but the one that the
comment may hold. The invariant `ZipInv` has `find_eocdr` on its way to that record, the fields
of `zip` as the archiver meant them (`OwnZip`) or those of the inner record (`InnerZip`),
and `offset` at the beginning of an entry (`Off`), with the names of those before it listed;
`EntryIs` takes each loop from one entry to the next. A file that has lost its last cells has
no end record whose comment ends with the file, which is why `zip_read` refuses it.

Some lemmas need induction over data (`SumsAdd` over a table, `WeightCounts` and
`SumWeighs` over a finite set, the loops over a row, the parts of an archive). The library's induction theorems take
an operator, which the provers cannot instantiate, but its statements that the naturals and
the subsets of a finite set are well-founded do not: these lemmas are proved from a least
counterexample, or by `CountingUp`, which is induction up to a number with a set in
place of the operator.

Only model-checked: all liveness (`CallsReturn`, `AcceptedInTurn`,
`RequestsAnswered`, `PhasesAlternate`, `Terminates`, `WaitingNeedsAHolder`), which
the prover does not support. Every safety property that a passing run checks is also a
theorem. The two refinements are proved for `Spec`, without fairness.

## Plan

Every program whose logic outlives one call now has a model. What is left:
`MouseDriver` with `MouseModule`, the ring buffer inside the life of its module, so that
a call of a driver that is going away meets the ring as well as the registrations.

## Not modelled

Left out altogether, because no state outlives a call or nothing but library calls
happens: the weather client (one request, one print), the directory view (one recursion
that fills a widget), the assembly list (one pass over three numbers), the trace report
(no code), the cube (GLUT and floating point), and the notification sound of the
timer (a pipeline that is built and forgotten).

Left out of the modelled programs: the text of messages, labels, log lines and
answers (so also that the answer 501 is sent with a length six more than its
text has); printing; memory that cannot be allocated; a `pthread_create` that fails, after
which the log parser joins a thread that has no id; what the kernel does with a timer
callback that has come to a mutex in use (it may sleep, complain or hang, and after `Caught`
the model promises nothing but safety); the rounding of floating-point numbers; and what a
program does after undefined behaviour, where the models stop in "overrun", "overflow",
"oops" or "crashed".
