# ostrichserver in TLA+

Specifications, model-checking configurations and proofs for ostrichserver, an
HTTP server in C (`src/`): a master process, a worker process with one accept
thread and a pool of event threads, an HTTP request parser and the handlers of
header lines.

## 1. The system

    launch ── os_daemon ── master ── fork ──> worker: event threads, control socket, accept thread
              (common.c)   (main.c, signals.c)        (processor.c)  (reconfig.c)    (acceptor.c, server.c)

    client ── accept thread ──event──> external queue ──> event thread ── epoll ── http_request ── parser
              (acceptor.c)   (processor.c)  (atomiclist)     (thread.c)   (eventpoll.c) (http_request.c) (http_parse.c)

| component | source | state | operations | interacts by |
|---|---|---|---|---|
| lock-free list | atomiclist.c/.h, atomic.h | `head` (pointer and 16-bit version), link of each item | push, pop, popall | shared memory, 64-bit compare-and-swap |
| event loop | acceptor.c, processor.c, thread.c, event.c, mutex.c | `next_thread`; per thread an external queue with mutex and condition, `collectqueue`, `postponedqueue` | accept, assign_thread, enqueue, wakeup, dequeueall, main loop, process_event | shared queues, mutex/condition, callbacks (`event_handler`) |
| timed events | queue.c, timer.c | ten buckets of events per thread | enqueue, check, process_ready | called by the main loop |
| HTTP parser | http_parse.c, http_request.c | `http_request`: parser state and offsets | http_parse_request_line, os_http_validate_host, the answer | called again on each chunk of input |
| HTTP connection | http_request.c, recv.c, eventpoll.c, osbuf.h | connection buffer, read handler, epoll registration | wait_request, process_request_line, recv, event add/del | callbacks from epoll |
| header table | http.c, hashtable.c | `http_header_hashtable`, `headers_in` | add, isexist, header handlers | function pointers in the table; the caller is not written yet |
| dictionary | dict.c | two tables, `rehashidx`, a rwlock | add, find, replace, delete, rehash | configuration, shared by threads |
| configuration | config.c, reconfig.c, record.config | `records` dictionary | parse file, get record | dictionary |
| processes | main.c, signals.c, notify.c, common.c | signal masks and flags, process group, children | options, daemon, fork, signal handlers, master loop | signals, `waitpid` |
| sockets of a worker | server.c, acceptor.c, reconfig.c | the port, the name `reconfig_socket` | bind, listen, unlink | what other processes hold |
| spin lock | spinlock.c | lock word | lock, trylock, unlock | shared memory |
| strings, memory, stubs | memory.c, osstring.c, arrays.h, connection.c, ... | none | helpers | - |

What is hard: several threads share each list without a lock, so any two loads
and a CAS of different threads may interleave; the event thread tests its
external queue before, under and after a mutex while accept threads push
without it; events move between two stacks and must keep their order; the
parser is resumed at any byte; the master reacts to signals that arrive at any
moment, to any process of its group, and the server may be launched again while
processes of an earlier launch have the port and the name of the socket.

### What makes each component correct

* list: the linked structure is always a well-formed list; an item is on it or
  owned by one thread; a successful CAS never installs an outdated link (ABA);
  each call takes effect at one instant (it implements a stack); some call
  always completes.
* event loop: a connection that is accepted is handled exactly once, by the
  thread it was assigned to, in the order of assignment, and eventually; a
  wake-up is never missed; the poll event of a thread survives every round; the
  load is even.
* parser: the result does not depend on how the input was cut in chunks.
* connection: every byte received is parsed once; a closed connection is not
  touched again.
* dictionary and configuration: the last record of a name counts, no name
  is lost to another, and every file is read to its end.
* header table: a header that was added is found and no other is; `headers_in`
  is what the header lines say, in whatever order they come.
* processes: one process of a launch serves; a signal is served once it can be,
  and children that ended do not stay; no signal takes the port from a worker;
  a launch comes up or fails, whatever another one holds.

## 2. Modules

### `SharedStack`, `AtomicList`, `MCAtomicList`, `AtomicListProofs`

`AtomicList` models `atomic_list_push`, `atomic_list_pop` and
`atomic_list_popall` with one action per access to shared memory. `pc[p]` is the
next access of thread `p`; `old[p]` is the copy of `head` that the thread
loaded; `next[i]` is the link in item `i`; `head` is the pair of pointer and
version. A version has `VersionMod` values (65536 in the code) and `NextVersion`
wraps around. `lst`, `held`, `chain` and `age` are auxiliary: the list that the
links should represent, what a thread owns and is about to own, and how often
the head has changed since a pop loaded it. The model assumes what every tagged
pointer needs and what the constraint `WithinVersionWindow` states: while one
pop is between its load and its CAS, the head does not change `VersionMod` times.

`SharedStack` is the promise: push, pop and popall in one step each.
`ImplementsStack` is the refinement.

### `Mailbox`, `EventLoop`, `EventLoopProofs`

`EventLoop` models the accept threads (`Accept`, `AssignRead`, `AssignWrite`,
`Push`, `WakeLock`, `WakeSignal`) and the event threads (`ThreadInit`,
`Drain...`, `TestExternal`, `Dequeue...`, `Idle...`). The external queue is the
stack that `AtomicList` implements. `tpc[t]` is the place in
`thread_main_event_loop`: draining `collectqueue`, testing the external queue,
inside `thread_event_dequeue`, or draining `postponedqueue`. The event handlers
`netio_init` and `netio_pollevent` live in a file that is not in the repository;
they are steps that return.

`Mailbox` is the promise: per event thread a FIFO of connections, each handled
once. In the refinement mapping the mailbox of a thread is its collect queue
(without the poll event) followed by its external queue reversed.

### `HostName`, `RequestLine`, `MCRequestLine`, `RequestLineProofs`, `RequestPartsProofs`

`RequestLine` models `http_parse_request_line` with one action per `case` of its
`switch`, each consuming one byte. `Enter`, `Again` and `Done`/`Fail` are the
ways into and out of a call: what survives between two calls is `r` (the fields
of `http_request`, `r.state` among them), `pos` and the buffer; `p` and `state`
are the local variables. `Receive` may bring a byte between any two calls, so
every way to cut a line into calls is explored. Pointers are indexes into the
buffer. `LineSpans` and `UriSpans` are the strings that
`http_process_request_line` and `http_process_request_uri` cut out; their
lengths are unsigned in the code. The properties compare what the parser leaves
behind with definitions over the whole buffer that know nothing of its states
(`FirstFrom`: the first byte of a set from a position on).

`HostName` is the scan of `os_http_validate_host` as a recursive function over
the bytes of the host, and its verdict. The name that the scan cuts out is put
into a local variable of the caller and dropped, so its bytes are not modelled.
`RefuseLine`, `CopyFails` and `ProcessLine` are what `http_process_request_line`
does once a line is there: an answer with status 400, with 500 when an
`os_malloc` fails (of a copy of a complex URI, or of a host with upper case),
`http_process_request` for a version below 1.0 (`"simple"`), or
`http_process_request_headers` (`"headers"`).

The Win32 branches are left out. The comparison of the method name, four bytes
at a time, is modelled by what it does. Only the first line of a connection is
parsed: after an HTTP/0.9 line the code would parse a second one into the same
request without resetting `request_end`, `http_protocol` or the flags.

### `HttpConnection`, `MCHttpConnection`, `HttpConnectionProofs`

One connection in `http_request.c`. `handler` is the `event_handler` that the
next event runs; `pc` is the place of the event thread in
`http_wait_request_handler` (`"wait"`), `http_read_request_header` (`"read"`) or
after the parser's return (`"parse"`). `ready` is the edge that `epoll_wait`
will report. `os_recv` returns any number of the bytes that are there, and for a
request of 0 bytes what Linux returns. A byte is abstracted to its effect on the
parser, which is the contract that `RequestLine` checks: a part of a line, a
wrong byte (the parser returns without moving `b->pos`), or the end of a line.
`sent` and `verdicts` are histories. Allocation is assumed to succeed and timers
do not exist (`add_timer` is empty, event.h). That the event is registered once
and stays active is what `net.c`, which is not in the repository, has to do:
`epoll_event_add(ev, 0)` on an event that is not active would register it
without `EPOLLIN`.

### `Dict`, `Config`, `MCConfig`, `ConfigProofs`

`Config` models `config_parse_file` and the one question that is asked of the
configuration: `acceptor_init` looks up `net.tcp.listen`. `line` and `nextln`
are the two pointers of those names, as line numbers, because they move
separately: `iter_to_next_line` moves `line` to where `strtok_r` stopped and
lets `strtok_r` cut the next token, and the loop itself skips empty lines.
`Comment`, `Record`, `BadType` and `Crash` are the ways through the body of the
loop. A crash is an outcome of its own: `record_make` takes the length of a name
that is NULL.

`Dict` models `dict_create`, `dict_add` and `dict_find`, which `Config` uses. Two
things in it are not what the names suggest, and the properties say what follows
from them. `_dict_key_index` refuses a key when the bucket holds a *different*
one (`dict_cmp_key` is 0 for equal keys, dict.c:281) and passes over an equal
one; and nothing ever calls the rehash step, so that a second table, once it is
made, stays. Hence the promise is weaker than a map: `PortIsLast` (the last
record of a name counts, while there is one table) and `PortFound` (a record is
lost only to names of its buckets). In the shipped record.config no two names
share a bucket.

### `HashTable`, `Headers`, `MCHeaders`, `HeadersProofs`

`HashTable` is open addressing as in hashtable.c: `AddBucket` and `SearchBucket`
are the buckets that an insertion and a search probe, which wrap around at
different bounds (`htable->size`, and `MAXHASHTABLELEN` for a search). The two
further hashes of a string, by which a search compares, stand for its name.

`Headers` fills the table with `http_headers` (`AddHeader`, the loop of
`http_header_hashtable_init`) and then takes header lines (`HeaderLine`): the name
is searched in the table, and the handler of the entry that is found changes
`headers_in`. The code that reads header lines is not in the repository, so
`HeaderLine` is external: it calls a handler as the type of `header_parser` says.
The handlers are translated from http.c; a pointer to a header is the number of
its line. The entries behind `#if` are not built (`HTTP_GZIP` and the others are
defined nowhere).

### `Processes`, `ProcessesProofs`

`pc[x]` is the place of the main thread of process `x` in `main()`, from
`os_daemon` to the loop around `sigsuspend`, or in `os_worker_start`. A launch has
at most three processes: the one that is launched, the one that `os_daemon`
forks, and the worker; with `-t` the launched one does everything itself. A fork
and its failure are both possible, as its results are. `Ends` is the end of a
process: its children lose their parent, its parent gets `SIGCHLD`, and the port
that it had is free or kept by connections that it closed. `Takers` says which
thread a pending signal can be delivered to, by the masks: the main thread before
`sigprocmask` and inside `sigsuspend`, or a thread that does not block it.
`HandleStop`, `HandleChild` and `HandleUser` are the handlers of signals.c. More
than one signal may be delivered before `sigsuspend` returns (`"woken"`). Between two
calls of it, where the loop looks at the flag, the process is at a place of its own
(`"loop"`): `FlagWakes` says that the handler of `SIGUSR1` does not run there.

Between processes there are two things outside: `port`, which `Listen` gets if it
is free (`bind` fails silently otherwise, since `SO_REUSEADDR` is set after it; the
`listen` that follows then takes another port, which nobody knows), and `name`,
which `Unlink` removes and `Bind` makes if it is missing. Every launch is taken to
name the same port.

Left out: reading the configuration and changing the title lie between
`os_daemon` and `sigprocmask` and touch nothing that another process sees, so they
are part of `Block`. `workerid`, `workerstatus`, `masterid` and `restart` are
written and never read. `event_notify_signal` writes to `event_fd`, which nobody
opens (`event_notify_init` has no caller) and nobody reads. The thread of the
control socket accepts connections and does nothing with them.

## 3. Runs

| run | instance | shows |
|---|---|---|
| `list_full` | 2 threads, 3 items, 3 versions, all calls | shapes, conservation, no ABA, refinement of the stack |
| `list_progress` | 2 threads, 2 items, fair | lock freedom |
| `loop_fair` | 1 accept thread (`MAX_ACCEPTOR_THREADS`), 2 event threads, 3 connections, fair | order, single handling, eventual handling, even load, polling forever |
| `request_line` | 18 families of lines, cut into calls in every way | the line, its target, flags, version and host are found; no length is negative; the line goes to the right handler |
| `complex_uri_comment` | the paths of `request_line` | http.h:143 against the code: `complex_uri` is set for `GET /#` and for `//` too |
| `connection` | buffer of 3 bytes, 5 bytes sent, close or reset at any time, fair | no byte or edge is lost, the first verdict is on the first line, refusals stay, a line that fits is answered |
| `premature_close` | the same | http_request.c:223 against the code: a full buffer is reported as a close by the client |
| `config` | 4 names, files of up to 4 odd lines or 6 records | the parser stays in the file; the port is the last one named, and lost only to names of its buckets |
| `config_empty_lines` | the same | config.c:168 against the code: an empty line after the last record crashes the parser |
| `headers` | the 18 shipped names with their hashes, 4 other names, up to 3 header lines | lookups are right and stay in the table; `headers_in` is what the lines say |
| `processes` | 2 launches, 2 signals TERM or USR1, 1 crash | one server per launch, the socket keeps its name, the worker keeps the port, USR1 is not missed |
| `processes_progress` | 2 launches, 1 signal INT, USR1 or USR2, 1 crash, fair | signals are served, zombies reaped, a launch comes up or fails |

Bounds. Three items let a pop hold one, read the link to the second and find the
third removed, which is what ABA needs; three versions let the counter wrap
within one run. Three connections on two threads put two on one thread, so that
order matters, and let one arrive while the other is being moved. Larger
instances (three threads on the list; four connections or three event threads)
pass as well and take minutes.

A client of `RequestLine` sends a fixed opening and then up to five bytes of an
alphabet: the opening leads the parser to one part of the line, the alphabet has
one byte of every class that this part tells apart. The version clients reach
65535 and 65536, where the 16-bit fields wrap. A buffer of 3 with 5 bytes sent
lets a line fit, fill the buffer exactly, or not fit, and leaves bytes unread
behind a full buffer.

The hashes of `MCHeaders` are what `hashstring` gives for the shipped names,
modulo 1024 (`HashTable` takes them modulo the size again). No two of the 18
names start at the same bucket and the last bucket stays free, so that a search
never goes beyond the table: `LookupFinds` shows that the wrap at 1024 is not reached,
not that it would do no harm; the four other names start at a taken bucket, at
free ones, and at the last one. Three lines let a header come between two others
of one name. The values are classes of what the handlers look for in them: each
pair of browser words, and what may come after `MSIE `.

Two launches let one take the name from the other or fail to get the port; with
two signals one may come while the other is pending, and one crash may hit any
process at any point, between `unlink` and `bind` too. `processes_progress` is
smaller because its properties are liveness; signals and crashes are finitely
many in it, so `[]<>` means that the processes settle in a state in which the
property holds or return to it for ever.

The four names of `MCConfig` share their bucket with the port in both tables, in
the first only, and in the second only. The first table has two buckets and is
full at four entries, so six records reach the second table and add to it. The
odd lines are one of each kind that the parser tells apart.

Symmetry is used for the runs without liveness, over threads and items that the
configuration treats alike.

## 4. Fairness

A thread that has left `accept` and a thread inside a list call is a running
thread: weak fairness of its next step is that the operating system schedules
it. No fairness is assumed for starting a call or for clients connecting. An
event thread is always in its loop; `netio_pollevent` returns because its
`epoll_wait` has a timeout (`EPTIMEOUT`, eventpoll.h:31).

In `HttpConnection` the handlers run to their end and the event thread comes back
to `epoll_wait` (which `PollsForever` of `EventLoop` shows): weak fairness of
the server's steps. Nothing is assumed of the client.

In `Processes` the main threads run (weak fairness of `Runs(x)`), and the kernel
delivers a signal that some thread can take (weak fairness of the handlers of
`x` together). No launch, signal or crash is assumed to happen, a port that
closed connections keep need not become free, and a fork may fail each time.

## 5. Proofs

`AtomicListProofs` proves for any threads, items and number of versions
`TypeCorrect`, `ListKeepsShape`, `ChainsKeepShape`, `ItemsConserved`, `NoABA` and `Refinement`. The
inductive invariant `IInv` adds to the checked invariants what each local copy
means (`Pointers`), that a copy whose version is the current one was taken at
most `age` changes ago and so equals the head (`Versions`), and that nobody
else writes the link of an item that a thread owns (`Untouched`).

`EventLoopProofs` proves, for any numbers, `TypeCorrect`, `NoSleep`,
`PollEventKept` and `Refinement`. `LoopInv` adds the place of each thread
(`LoopPlace`): from its test of the list to its popall the list is not empty,
as nobody else removes from it; that is why the thread never sleeps.
For the refinement `Fresh` is added: an accept thread holds a connection that
no mailbox has had. `SpreadsEvenly` needs a single accept thread (`OneAcceptor`;
`MAX_ACCEPTOR_THREADS` is 1, and with two of them `next_thread++` loses an update and
`EvenLoad` is false). Its invariant counts in rounds: every thread below
`next_thread % n` has had `q + 1` connections, the others `q` (`Rounds`), where a
connection whose number was drawn and which is not pushed yet is left out (`Pushed`).

`HttpConnectionProofs` proves, for every size of the buffer and any number of
bytes, `TypeCorrect`, `Stream`, `EdgesKept`, `FirstVerdictRight` and
`RefusalIsFinal`. `LineInv` adds what the checked invariants need to be
inductive: which handler may be running (`Place`); what has been parsed before
the first verdict, and that after a verdict of `premature` or `error` nothing
more can be read into the buffer (`FirstFound`); and that a wrong byte which was
reported is still the next one at which the parser stops (`StuckAtWrong`). The
least element of a set of positions, on which `Min` rests, is obtained from the
well-foundedness of `<` (`LeastExists`).

`ConfigProofs` proves, for every set of files, names and hash values,
`TypeCorrect`, `LastRecordWins` and `LostOnlyToRivals`. `ConfigInv` adds three
parts. `LoopPlace`: `nextln` is where `strtok_r` stops when it is called at `line`,
and no line before `line` ends the parsing. `Buckets`: the entries of a bucket
are records of one name, the latest first, that the parser has handled
(`Handled`). `Kept`: every record that was handled is in a table, or an older
record of another name is in its bucket. That is what links a record that is not
found to the rival that the file names before it; `PortFound` itself says nothing of
the tables and cannot be carried from step to step.

`ProcessesProofs` proves, for any number of launches, signals and crashes,
`ProcessesTyped`, `OneServerAlways`, `NameAlwaysBound`, `PortIsKept` and
`FlagAlwaysWakes`. `Inv` adds three parts. `Roles`: which places each of the three
processes of a launch can be at, and that the worker does not exist before its
parent has forked it. `Masks`: whoever is past `sigprocmask` blocks the signals
and has no thread that does not. `Servers`: who is past `eventprocessor_init` has
threads, and the port is only with a process that lives and has them. `PortIsKept`
follows because a worker is never in `sigsuspend` and so takes no signal at all
(`Deaf`), only a crash ends it.

`HeadersProofs` proves `HeadersTyped`, `LastBucketFree`, `LookupAlwaysFinds` and
`FieldsAlwaysRight`, for every size, every search bound that is not smaller, any
number of lines and all hashes with `SpreadAssumption`: from no bucket on start as
many of the names as there are buckets. TLC evaluates it for the shipped names,
hashes and size. With one name more the table would be taken up to its last bucket,
and the search for another name that starts at that bucket would leave the table.
`TableInv` is the invariant: `Filled` (the buckets hold what was added), `Chain` (no
bucket is free between the start of a name and its bucket) and `Once` (no name is in
two buckets). `Chain` is kept only while no insertion wraps around, that is while
the last bucket is free (`LastFree`), and `LastStaysFree` gets that back from `TableInv` by
counting: if the last bucket were taken, the names in the unbroken run of buckets
up to it would all start in that run (`Chain`), and they are as many as its buckets
(`Once`), more than the assumption allows. `FieldsAlwaysRight` says that each field of
`headers_in` is what the handler of its name is to make of the lines (`AllRight`,
`FieldsRight` for an arbitrary sequence of lines, by cases of the handler that one more
line runs). It rests on the search: a header whose entry is not found would be
skipped.

`RequestLineProofs` proves, for every size of the buffer and any bytes in any
number of calls, `LineTyped`, `LengthsAlwaysFit` and `LineAlwaysEnds`. `LineInv` says
for every state of the parser which pointers are set at the byte it has reached and
in which order they lie (`Place`): for example that in a URI no extension is after the
arguments, and that a state from which the parser may go back into the URI has
no arguments yet. At the end of a line this gives `Fits`, which is `LengthsFit` span
by span; `LengthsFit` itself is about complete lines only and cannot be carried from
byte to byte. `ReadInv` says what has been read at that byte (`Read`): only line ends
before the first byte of the line and no LF since, and a CR only as the last byte,
in the state `almost_done`.

`RequestPartsProofs` proves `TargetAlwaysFound`, `VersionAlwaysFound`, `FlagsAlwaysExact`,
`AlwaysRouted` and `HostAlwaysJudged`, for the same constants.
`TargetFound` searches the line from its start: the first space, the first byte
after it that is none, the first `:` or `/` of the host, the last byte before the spaces
and the protocol. The parser has only its state and one pointer per part, and may take
`H` after a space for a protocol or a space for a part of the URI. `Meant` says of each
state what this pair knows of the bytes read so far: which bytes lie at the pointers,
and which do not occur between them. `TellInv` (`PointersAlwaysTell`) is `Meant` of the
request between calls and in them, and at the end of the line it makes each pointer the
least element of the set that `TargetFound` takes the minimum of (`TargetIs`).
A second invariant is needed: `Place` alone would hold of a parser that
passes the first `:`.

`NoteInv` (`NotesAlwaysTrue`) says of each state what the parser has noted besides its
pointers (`Notes`). `Versioned`: the two fields hold the values of the digits read so
far. The value of a string of digits is a recursive function, which the provers cannot
unfold; the invariant carries the table of its values instead (`Sums`), one digit
longer with each byte, and `NumeralIs` shows that this table is the function; that a
remainder may be taken after every digit or once at the end is `ShiftModulo`. `Marked`: of
the URI read so far, `k` is the byte after which it is not checked any further, or its end,
and the flags, `args_start` and `uri_ext` are those of the bytes before and after `k`
(`Noted`). The hard step is the way back into the URI (`MarkedBack`): what was noted when
the URI seemed to end must be true of the longer URI, because the bytes between are
spaces only. `AnswerInv` links the answer to the version that the parser returned.

`HostAlwaysJudged` is about what http_request.c does with the host afterwards. The scan
of a host (`Scan`) is a recursive function over its bytes; `SoFar` is the table of its
values, what the bytes up to `n` amount to: whether a dot followed a dot, where the last
dot is, whether a bracket is open. `ScanSoFar` shows by the least counterexample that the
function has these values for every `n`. The table is right of hosts as the parser
cuts them only (`HostLike`): without a slash or a NUL, with a colon only between
brackets, which `Meant` says of the bytes between `host_start` and `host_end`. That no byte is
a NUL is `NulInv` (`NoNulTaken`): no state takes one, although only some of them name
it, because every other one takes the bytes of a class or refuses the line. `JudgeInv`
links the answer that was sent with what the scan returned.

Only model-checked is what holds under fairness: `LockFreedom`, `ImplementsFairMailbox`,
`PollsForever`, `LineAnswered`, `SignalsServed` and `ComesUp`.

## 6. Not modelled

* Timed events (queue.c, timer.c): no code under `src/` gives an event a timeout,
  the call that would put one into a bucket is commented out (thread.c:58) and
  the buckets are always empty.
* The spin lock (spinlock.c): nobody takes it.
* dict.c: `dict_replace`, `dict_replace_raw`, the rehash step and `dict_release` have no
  caller.
* The title of the processes (main.c:135-246): a layout of `argv` in memory.
* `net.c`, `netio_init` and the reader of header lines are not in the repository; what
  a connection does after its request line is not written yet
  (`http_finalize_request`, `http_process_request_headers` and `http_process_request`
  only print). `http_close_request` releases a connection after a failed
  `os_malloc` or `epoll_ctl`, and after a timeout, which nothing reports;
  no code follows it, and it is not modelled.
* Allocation failures, except where they decide the answer to a line.
* arrays.h, memory.c and the rest of osstring.c: helpers without state; most of
  the macros of arrays.h have no user.
