# A verification of ironmonkey-conpot in TLA+

This directory holds TLA+ models of the sensor in this repository: conpot (an
industrial honeypot, `src/conpot`, `src/bin/conpot`) and what is deployed around
it (`src/deploy/ironmonkey`: a supervisor and a log forwarder). TLC checks the
models on small instances, and the TLA+ proof system proves some of their
properties for every value of the constants.

Run, in this directory, `tlc -config <run>.cfg <module>.tla` for a row of the
table of runs below, and `tlapm <module>.tla` for a proof module.
`PROJECT.json` maps each definition to the lines of code it stands for.

## 1. The system

```
 clients ──► protocol servers ──► SessionManager ──► AttackSession.add_event
             (one greenlet per       (a list)              │
              connection)                                  ▼
                  ▲                                     log queue
                  │ rate limiter (UDP)                     │
                                                           ▼
             databus (shared values)                   LogWorker ──► sqlite, syslog, ... , JSON file
                                                                                      │
 conpot_supervisor (PID 1): spawns, samples, restarts conpot                          ▼
                                                     conpot_forwarder: tail ─► map ─► post ─► IronPot
                                                                                  └─► dead-letter spool
```

Everything in conpot runs as gevent greenlets of one thread: code between two
blocking calls is atomic. conpot, the supervisor and the forwarder are separate
processes, which share the JSON log file.

### Inventory

In the last column "partly" is a component whose control is modelled but for the
operations section 5 leaves out.

| Component | State | Operations | What makes it hard | What makes it correct | Status |
|---|---|---|---|---|---|
| Sessions (`core/attack_session.py`, `core/session_manager.py`) | the list of sessions; per session its start and its events by millisecond | `get_session`, `add_event` | the connections of one source share a session; a handler may hold a session that expiry has removed; several events in one millisecond; the clock may be set back | no event overwrites another; keys in event order | partly |
| Log queue and worker (`core/log_worker.py`) | the queue, the event in hand, `enabled` | the loop over the sinks, `_process_sessions`, `stop` | sinks yield between two of them; expiry runs only when the queue is silent, and changes the list it iterates over | each sink is given each event once and in order; only idle sessions expire, and they do | partly |
| Boot and shutdown (`bin/conpot`) | the list `servers` | start in order, stop and join in order; exit on any unhandled exception | a stop waits for a greenlet of each server, but ends no handler and no proxy; what is still queued or recorded later | the shutdown ends; a crash leaves the files in order | partly with the pipeline |
| JSON log (`core/loggers/json_log.py`) | the open file | append a line | a long line reaches the file in two pieces; the file is never reopened | with the forwarder | modelled |
| Forwarder, tail (`conpot_forwarder.py`, `tail_and_forward`) | open file, position, idle counter | open, read, poll, look for a rotation | the file is renamed under both processes; a line is read while it is written; either process may restart | no record twice or out of order; a rotation is noticed once conpot has left the old file; exchanges are posted | modelled |
| Forwarder, post (`_post_event`, `_observation_ts`, `_write_dead_letter`) | last stamp, attempt, spool files | stamp, post, retry, spool, rotate the spool | lost and late answers, a clock set back, a kill between any two steps, `OSError`s | one row per exchange; every record is accounted for; the spool is bounded and in order | modelled |
| Forwarder, parsing (`_map_record`, `_parse_*`) | none | pure functions of a record | truncated and odd frames | total, and equal to a reference definition | only which records are dropped |
| Rate limiter (`utils/rate_limit.py`) | a bounded table of token buckets in LRU order | `allow` | floods from many addresses; a source that is evicted comes back | bounded table; bounded rate; slow sources pass; few log lines | modelled |
| Supervisor (`conpot_supervisor.py`) | child, strikes, last sample | spawn, sample, stop, signal handler | signals between any two steps; a child that dies or starves at any moment | one conpot at a time, none left behind; only a wedged one is killed, and it is | modelled |
| Databus (`core/databus.py`) | values, observers | get, set, observe, reset | observers run later, in greenlets of their own | what an observer starts ends, whatever is set meanwhile | partly with Kamstrup |
| IEC 60870-5-104 (`protocols/IEC104`) | send and receive counters, unacknowledged frames with T1 timers, T2 greenlet, send buffer | U-, S- and I-frames, T1, T2, T3 | timers race frames and answers; counters wrap | what is received is acknowledged; what is acknowledged does not time out; no data outside data transfer; a silent peer is dropped | partly, one connection |
| Modbus (`protocols/modbus`) | slaves and blocks of registers, on the databus | configure, receive, the PDU functions | a peer that closes inside a request; broadcast; blocks that overlap | a handler ends; one block holds an address | partly on one type of block |
| TFTP (`protocols/tftp`) | transfers, the open file, copies for analysis | read and write requests, one packet, timeout, end | transfers of one name overlap; a file is written when it is closed | what is kept as a copy is a whole upload | modelled |
| FTP, virtual file system (`protocols/ftp`, `core/virtual_fs.py`, `core/filesystem.py`) | log-in, data channel, two events, three queues, the lock of the file system; the store and its cache of owners and modes | commands and transfers | three greenlets per client that wait for one another; the cache is kept by hand; an upload is checked now and written later | no transfer without log-in; the lock is an upload's; no owner in the cache outlives its file; a client that goes is let go | partly |
| IPMI (`protocols/ipmi`) | one session for all clients, the fields of the handshake, the BMC | datagrams of the handshake, requests | clients' handshakes overwrite one another | the session is listed where it is closed; its key is one user's | partly |
| S7comm (`protocols/s7comm`) | the stage of a connection | connect, negotiate, serve | `recv` returns several packets at once, or a part of one; parsers raise | answers in order and after the handshake | partly |
| EtherNet/IP (`protocols/enip`) | statistics by peer, tags | TCP and UDP transactions | one table for both; cpppo answers inside the request | what is recorded is the client's request | partly, cpppo external |
| HTTP (`protocols/http`) | a connection's request and reply | the methods, pages, status pages, fall-backs | a text changes its length on the way out; a fetch fails half-way | a reply ends where it says | partly |
| Kamstrup (`protocols/kamstrup_meter`, `kamstrup_management`) | the databus, `server_active`, the parser's buffer | management commands, restart, requests | observers and timers; a stream cut anywhere; several requests in one piece | requests parsed as sent; a connection ends with the first piece after a restart began; a restart ends | partly |
| Guardian AST (`protocols/guardian_ast`) | names of a connection, its buffer | commands and reports | a command ends at a line feed or at any "00" | a report shows the names its connection's commands were read with | partly |
| Proxy (`protocols/proxy`) | two sockets | relay | either side closes between a read and a send | all that is relayed is recorded, in order; the relay ends | partly |
| SNMP, BACnet (`protocols/snmp`, `protocols/bacnet`) | counters; objects written at start | the library's | - | - | not modelled but for the rate limit |
| Usage simulator (`emulators/kamstrup`) | - | takes over the meter's registers | fractions where numbers are cut into bytes | with Kamstrup | partly with Kamstrup |
| Other emulators, other sinks, wrapper and utilities, tools, tests, templates | none that interacts | - | - | - | not modelled |

## 2. Modules

| Module | Models | Uses |
|---|---|---|
| `EventPipeline` | sessions, queue, log worker, boot and shutdown, crash and restart | |
| `LogTail` | the JSON file between conpot's logger and the forwarder's tail | |
| `EventPost` | stamping, posting, retrying and spooling one record after the other | `ExchangeStore` |
| `ExchangeStore` | abstract: how IronPot's table may grow | |
| `RateLimiter` | `UdpRateLimiter` | |
| `Supervisor` | the supervisor's `main` and signal handler, and its child | |
| `Iec104Link` | one connection of the IEC 104 server: receive loop, link layer, timers | |
| `FtpSession` | one FTP connection: three greenlets, log-in, data channel, uploads and the lock | |
| `FtpFiles` | FTP's file commands over `core/filesystem.py`: the store and its cache | |
| `TftpTransfer` | TFTP transfers of one file name | |
| `IpmiServer` | the IPMI server's one session, its handshake and its commands | |
| `S7Server` | one S7comm connection | |
| `EnipServer` | EtherNet/IP's TCP and UDP handlers | |
| `HttpServer` | one kept-alive HTTP connection | |
| `KamstrupManagement` | the management commands, as assignments to the databus | |
| `Kamstrup` | both Kamstrup services, the databus with its observers, the restart | `KamstrupManagement` |
| `KamstrupParser` | the meter's request parser over a stream cut anywhere | |
| `Modbus` | the configuration of slaves and blocks, and the connections | |
| `GuardianAst` | Guardian AST connections | |
| `ProxyRelay` | one connection of the proxy | |
| `MCServices` | the thirteen above as one instance | all of them |
| other `MC*` | constants for TLC | the module they are named after |
| `EventPipelineProofs`, `LogTailProofs`, `EventPostProofs`, `RateLimiterProofs`, `SupervisorProofs`, `Iec104LinkProofs` | the theorems of one component each | the module they are named after |
| `IpmiKamstrupProofs` | the theorems of the IPMI session and of the meter's parser by themselves | `IpmiServer`, `KamstrupParser` |
| `MCServicesProofs` | the theorems of the protocol services | `MCServices`, `IpmiKamstrupProofs` |

Definitions whose comment begins with "mutant" are never used by a
specification. Each is a plausible bug in the definition that follows it; with
it in place, the property that `PROJECT.json` pairs it with is violated.

### EventPipeline

One action per atomic stretch of code. `Open` is a handler's `get_session` with
its NEW_CONNECTION event, `Activity` an exchange, `Close` the event that ends it
and `Leave` an end without one (a quiet protocol's, a finished TFTP transfer's,
one that raises). Protocols in `Quiet` (proxy, http, snmp) record neither a
connection nor its end, so their sessions may be without an event, which the
worker measures from their start. What `set_ended` writes is read by nothing and
is left out. `AddEvent` is `add_event` with its search for a free millisecond.
`Take`, `Wait`, `Publish`, `ProcessSessions` and `WorkerExit` are the worker's
loop: `Publish` hands the event to one sink, because network sinks yield and
other greenlets then run.

`Interrupt` begins the shutdown loop over `servers`, at entry `stopAt`. A protocol
is stopped (`StopServer`: its listener is closed), its `serve_forever` comes to an
end (`ServerReturns`), and only then does `greenlet.get()` go on (`JoinServer`).
The log worker has the same two steps, `StopWorker` and `JoinWorker`, with its
loop in between. The proxies come after it: `Proxy.stop()` does nothing and their
greenlets ended when the listener had been started (`PassProxy`), so they accept
until the process exits. No handler is ended by any of this; what handlers record
once the worker is done stays in the queue. `Crash` is the death of the process,
`Fresh` what the next one starts with (nothing but the sinks' files is kept) and
`Restart` its start.

An `AttackSession` object is an index into `sess`; the list
`SessionManager._sessions` is the set `sessions` of indices: the code appends new
objects and removes, so its order is the order of creation. All connections of
one protocol and source share the listed session: the forwarder counts on it
(`conpot_forwarder.py:1332`), while the comment at `attack_session.py:26`, "one
instance per connection", says otherwise; no property takes a side, and what
several handlers do to one session is what `NoEventOverwritten` and
`KeysInEventOrder` are about. `_process_sessions` removes from the list it
iterates over, so of a run of timed-out entries every second one survives the
pass (`Gone`).

Abstracted: an event is its number; a session is its protocol and source;
`get(timeout=2)` may raise `Empty` at any time while the worker waits. Time is in
ticks with `MsPerSec` ticks to a second, so truncation to seconds is kept.
The two methods `delete_session` and `purge_sessions` have no caller in the
program and are no actions. A second interrupt, which would break the shutdown
loop off, is not modelled.

### LogTail

A file is a sequence of pieces: a record is one piece, or a head and a tail if
it is longer than the writer's buffer (`WriteHead`, `WriteTail`). `ConpotStarts`
opens or creates the file the path names; `Rotate` renames it away, with or
without a new one in its place; conpot goes on writing to the file it has open.
The forwarder's program counter `fpc` follows `tail_and_forward`: `OpenLog`
seeks to the end, `ReadLine` takes pieces up to a newline or the end of the file,
`Parses` is `json.loads`, `ReadNothing` and `Woken` are the idle poll with the
look at the inode after `IdleChecks` of them. While it posts (`fpc = "post"`) the
file grows unseen. The history `due` holds the exchanges completed while the
forwarder was tailing: those a reader may expect to be posted.

Every line starts the idle counter anew, and conpot goes on writing to the file it
has open. So a rotation is looked for only once the renamed file has been silent
for `IdleChecks` polls: with a line every ten seconds it is not noticed for as
long as conpot writes there. `RotationNoticed` promises the reopening only once
conpot has left the file (`whandle # fh`); until then its lines are still read.
What is lost is what conpot writes to the renamed file after a silence in which
the forwarder has left it, which `LogTailRotated.cfg` shows.

### EventPost and ExchangeStore

`Map` stamps the next record (`_observation_ts`); `Accepted`, `Rejected` and
`Failed` are the outcomes of one post. IronPot is external. It inserts an event
under `ExchangeKey`, the stamp and what was asked (session, service and
`protocol_data`, the constant `Pdu`), and does nothing when the key is taken
(`Insert`). A post that was not answered in time is in `late` and is stored at any
later moment (`Late`) or never. The history `accepted` holds what was answered
with a 2xx. `SpoolRotate` and `SpoolAppend` are the halves of
`_write_dead_letter`, `SpoolError` its `except`. `Kill` loses the module state
`_last_observation_ts` and the record in hand, though not a post on its way.
`Tick` sets the clock to any reading, so it also goes back.

`ExchangeStore` is what the forwarder means IronPot's table to be: a row of its own
for each exchange, under a key no other row has, with stamps that tell the order
within one life of the forwarder; rows come in any order, as a post may be
stored late. `ImplementsStore` states that `EventPost` keeps to it. Of the stamps
of two lives it promises nothing: when the clock is set back across a restart, a
stamp may be given again, and an exchange with the PDU of an earlier one is merged
with it. That is counted in `EveryRecordAccounted`, and `EventPostStepBack.cfg`
shows it against the comment that calls the stamps "monotonic by construction".

### RateLimiter

One `allow` is one action, `Admit` or `Drop`, with the refill, the move to the
end of the `OrderedDict`, the eviction and the report line in it. A token is
`Unit` fractions, so that the code's floats become integers without rounding
that the code does not have. `watch` is an observer that starts counting a
source's datagrams at any instant and starts anew when the source gets a new
bucket; `line` remembers the last report about each source. `enabled` is assumed:
a disabled limiter has no state.

### Supervisor

`main` is a program counter with one action per step that another process or a
signal can come between: `Spawn` (the child runs) and `Assign` (`_child` is
bound) are two, since a handler in between sees no child. `Signal` and
`SignalDone` are `_forward_signal`, which may start between any two steps of
`main` and holds it up until the child is stopped. `_stop_child` is `StopFrom`
(is there something to stop?) and `StopEnds` (TERM, grace, KILL and wait are
over). CPU ticks and log size are kept as what a sample tells apart: the child
spun all through the interval (`spun`), the size changed (`grew`), the file is
there (`present`). The history `quiet` counts whole intervals in which the child
really spun and wrote nothing, independently of `strikes`.

### Iec104Link

A connection has one greenlet. `Receives` takes the peer's next frame, of any
kind and with any number the peer likes; a frame is pipelined when it is taken
without `Wait`, the step in which `recv` blocks and the hub runs. Every handler
is one action up to its first answer; the answers, which the code's generators
yield, wait in `todo` and leave one at a time through `SendU`, `SendS`, `SendI` or
`BufferI` (the branches of `send_104frame`), so a timer may fire between two of
them. T2 is a `spawn_later` whose start is pending (`t2 = "timer"`) until it fires;
`gevent.kill` cancels a pending start at once, so after `KillT2` the test
`if not self.t2_caller` finds none. When it fires, its greenlet sends one S-frame
of six octets, which is assumed not to wait for the socket. `sentmsgs` is a set, since
nothing depends on its order; an entry holds both the number it was sent as and
the number its frame has now, which a resend out of `send_buffer` rewrites. What
a command does to the registers, and the layout of its answers, is abstracted to
the number of I-frames it draws. `k` of the templates is read by nothing ("not
implemented yet") and is no constant here. `T_0` is longer than `T_3`, so the
socket's own timeout never fires while the link waits, and a send is assumed not
to block for a timer's length.

What the module shows of the code beside its properties: the I-frame that fills
the window, and a sequence error, are both answered with the bytes of an S-frame
where `handle()` expects frames to iterate over, so neither S-frame leaves; and
after the send number has wrapped, or when buffered frames are sent a second
time, a frame may stay under T1 though it is acknowledged. The last two are the
exceptions in `T1SupervisesUnacknowledged`, which therefore says what the wrap and
the renumbering do at most, and promises that nothing unacknowledged escapes T1
only until the first wrap.

### FtpSession

`FTPHandlerBase.handle` spawns three greenlets, joins them and starts over; `pc`
holds where each is in the round. `Select` is apart from `handle_cmd_channel`,
which uses what it saw after the other two have run. `process_ftp_command` takes
one command (any of `Commands`), through `pre_process_cmd` (530 before the
log-in) and `process_command` (too many attempts) to its `do_*`. A command that
must wait leaves its greenlet in "stop", "start", "accept", "connect", "lock",
"recvWait" or "get", and goes on in an action of its own: `StopResumes`,
`StartResumes`, `Accepted`, `Connected`, `TakeLock`, `RecvDone`, `WriteUpload`.
`handle_data_channel` and `DataReceived` are the third greenlet. The events
`_data_channel_send` and `_data_channel_recv` are `chan.send` and `chan.recv`.
`Stuck` lists what a command can wait for that only another command, of the same
greenlet, could bring; `GoneClientDropped` is stated but for these, and
`UploadEnds` shows that one of them is reached.

### FtpFiles

A path is a sequence of names and a name is its length, which tells a name from
a longer one that begins with it: `removedir` drops the cache entries of every
path whose *string* contains the directory's, siblings and deeper paths included
(`StringIn`), and `do_RMD` glues its argument to the working directory without a
separator (`Glued`). Several clients give commands, each client's one after the
other. A command is one action but for an upload: `do_STOR` and `do_STOU` check
the permission and then wait for the lock and for the data (`Awaits`), while the
other clients go on; `Receives` writes the file when the data is there, over
whatever the path has become. `raised` is set by a command that ends in an
exception nobody answers: `removedir`'s `pop` of an entry that an earlier removal
has dropped, and `do_RNTO` of a directory. Permissions are those of
`AbstractFS.access` over the cache. The initial states are the trees the
configuration may have copied in; `MCServices` takes two of them.

`NoGhost` is one direction of what the cache and the store have to do with one
another: nothing has an owner that is not stored. The other one is false in this
code: removing a full `/a` drops the entry of `/ab`, which stays and which nobody
may access until a listing of its directory gives it an entry again.

### TftpTransfer

`start`, `cycle`, `TftpTimeout` and `end` are the calls of `TftpServer.handle`. A
handler waits for one packet after the request, so an upload of more than one
block is never complete, and never copied. Opening for writing empties the file
at once, its contents arrive when it is closed, and another transfer may do
either in between: `CopyIsWhole` says what the copy is then.

### IpmiServer

`session` is the server's one session and `listed` the addresses that have one;
`shaken` is what the handshake keeps on the server. A datagram is one action. A
message is under the key of the client that could have made it; sequence numbers
and hashes are reduced to "accepted" (`Reaches`) or `Dropped`, either of which
any client can bring about.

### S7Server

A packet is its kind, and each stage says for each kind whether it is answered,
dropped, or makes a parser raise. The first packet is read by its length; after
it `recv(1024)` may return several packets, or end inside one. What it returns is
parsed as one packet from its first byte on, a truncated one included, and the
rest is lost; the next `recv` may begin with the rest of a packet, which is then
parsed as one (`Received`: `taken` packets were received to their end, of the
next one a part if `begun`). So what a packet is, is chosen when it is read. The
answers are a history of what was answered: the packet or the rest of it (`rest`),
and what it was read as.

### EnipServer

A row of `connections` is made by a TCP handler or a datagram of the same address
and goes with the handler. `enip_process` is cpppo's in-place answer, the reason
why `_cip_request_facts` masks the reply bit and reads values of writes only.

### HttpServer

A text is its length in characters and in bytes. `Receive`, `Body`, `Load`,
`Head`, `Payload` and `Log` are the steps of a `do_*` method between two writes
to the socket; the template's choices are the initial states. `load_status` and
`load_entity` fetch a page from another system where the template says so, and
fall back to the page of 503 when that fails; the headers of a fetch that failed
after they had come are kept and go out before those of the fall-back (`stale`,
`After`). `inStep` says whether the client finds the next reply where this one
ends: for what is served from here it does, or the handler ends, unless it
carries such headers. `RepliesDelimited` exempts those replies and those relayed.

### Kamstrup, KamstrupManagement, KamstrupParser

`respond` gives the assignments a management command makes, up to one whose
argument cannot be parsed, where the handler dies with the assignments before it
made. Setting `reboot_signal` spawns `notify_observers`, whose callback puts the
meter out of service and sets a timer (`set_reboot_done`); a new connection puts
it back at once. A piece of a reader's stream (`Piece`) completes any number of
requests; the inner loop takes one after the other (`Turn`), answers each after a
delay (`Reply`) and does not look at `server_active`; the outer loop looks at it
after the piece (`Again`). So a connection gets all answers of one more piece, and
`served` counts those pieces. The parser is a module of its own over a stream of
bytes reduced to what the scan tells apart; `unescaped` remembers whether a cut
inside an escape has made the scan undo an escape twice, for which the property
makes an exception: the next scan starts over and the bytes before the cut have
already been changed.

### Modbus, GuardianAst, ProxyRelay

In `Modbus` a block is where it starts and its registers. `add_block` looks at the
blocks as the code does and may be refused, which ends the configuration. A
connection reads a header (`Received`), then the rest (`Handled` or
`RestMissing`). In `GuardianAst` a read ends at a line feed or at a "00" anywhere
in what has come, so a name may be read whole, cut short or empty (`S60200` ends
in "00" itself), and one read may hold two commands, the second as a part of the
first one's name (`Texts`). `ReportsShowNames` is about the names as they were
read. In both, a peer that closes inside a request is read for ever by a loop that
never waits, and as gevent switches only when something waits nothing else of the
process runs: `Spinning` and `Blocked`, for which the liveness properties make an
exception. In `ProxyRelay` a piece is recorded and then sent on; `send` may take a
part of it, and the rest is dropped (`torn`).

### MCServices

The services share no state but the hub. `svc` picks the one a behaviour
follows, the others stay in an initial state, and the fairness of each is
restated under `svc`; so a run checks all of them and its states add up. The
properties group those of the modules by what they are about.

Notes on the code that have no run: `!SA` is listed among the commands that force
a restart (`commands.py:53`) and does not; `!AS` enables the alarm server before
it fails on its address, and `!SC` stores the first of its settings; an HTTP
status page fetched from elsewhere loses its chunked header and gets no
Content-Length, where the comment in `load_status` says it does; two readings of
one Kamstrup escape are described above.

## 3. Runs

| Run | Expect | What is asked |
|---|---|---|
| `EventPipeline.cfg` | pass | types; each sink gets every event once and in order across crashes, and gets them in the end; no event overwritten; keys in event order wherever the clock went; no early expiry, and timed-out sessions leave; a shutdown ends while handlers and a proxy go on. Two clients behind one address and a proxied one, a clock that is set back, one crash, an interrupt at any point |
| `LogTail.cfg` | pass | nothing posted twice or out of order; a rotation noticed once conpot has left the renamed file; what is on a line of its own is posted |
| `LogTailRotated.cfg` | violation | every exchange is posted: not what conpot writes to the renamed file after the forwarder has left it |
| `EventPost.cfg` | pass | the table grows as `ExchangeStore` says; every record is accounted for; the spool is in order and bounded |
| `EventPostStepBack.cfg` | violation | every accepted exchange has a row of its own: not when a restart and a clock set back give it the stamp of an earlier one with the same PDU |
| `RateLimiter.cfg` | pass | types; table bounded and in LRU order; bounded rate in any window; slow sources pass; report lines an interval apart |
| `Supervisor.cfg` | pass | one conpot, no orphan, only a wedged one is killed, a wedged or dead one is replaced, a signal ends the supervisor |
| `Iec104Link.cfg` | pass | types; what is under T1 is what is unacknowledged, but for the wrap and renumbered frames; what is owed is under T2; I-frames only between STARTDT_con and STOPDT_con; at most one test frame; a silent peer is dropped after T3 + T1 |
| `Iec104LinkAck.cfg` | violation | at w telegrams an acknowledgement is sent: the handler ends with an exception instead |
| `MCServices.cfg` | pass | the protocol services: who owns a transfer and the lock; log-in attempts; no cached owner without a file, and whole copies; the IPMI session; what is recorded and answered is what was read; requests parsed as sent, one more piece served while the meter is down and a restart that ends; a client that goes is let go |
| `FtpUpload.cfg` | violation | an upload ends when no data comes: it waits for ever, with the lock of the file system |
| `ModbusOverlap.cfg` | violation | one block holds an address: `add_block` takes a block that overlaps one it did not look at |

The violations are disagreements between the code and a sentence written beside
it, quoted in `PROJECT.json` under "findings". What the same code does get right
is a passing run of the same module.

Bounds. Each is a constant named in a guard (`Max...`) or in a constraint, and is
as large as the case it is for. In `EventPipeline.cfg` three connections are two
behind one address and one of a proxy; two sessions are what one protocol and the
proxy make, or one protocol before and after expiry; two events collide in one
session, or are in hand and behind it; a second of two ticks, a timeout of one
second and a clock that steps by 1 or by -2 up to two ticks make both truncations
and a step back; one crash is enough, as a process keeps nothing of the one before
but the files. Four records let a record be torn and three others surround it; two
inodes are a rotation and three are a rotation during a rotation; a spool cap of
two with records of one and two bytes has rotation below, at and above the cap,
and four records rotate twice, the second clobbering the first; two readings of
the clock and one kill are a step back across a restart, and of four records three
ask the same. A table of two entries with three sources evicts; a burst of two and
a half tokens has an admission, a partial token and a full bucket; five frames to
an IEC 104 link and a modulus of three wrap its send number, with a window of
three, a buffer of one frame and answers of two; three faulty children let one die
and another be wedged during one another's replacement. In `MCServices.cfg` one
command on the wire and two items in a queue of the data channel let a command
arrive while a transfer waits; names of one and two letters are a name and a
longer one that begins with it, and two clients with four paths stored and three
commands between them let one change what the other's upload was checked for; two
transfers, two IPMI clients, two EtherNet/IP peers and handlers (one address may
be in TCP and in a datagram), two meter readers, two Modbus and two Guardian peers
are what it takes for one to meet the other; three S7 packets, each cut in two at
most, are the least that reach a request, and any of them may be read with the
next; two pieces of a reader's stream with up to two requests in each are one
before and one after the restart began; three pieces of the proxy are two in one
direction and one in the other; two Kamstrup frames are one before and one after a
wrong checksum or a cut; two restarts of the meter overlap. Three Modbus blocks
and addresses up to two are the least that overlap unnoticed. In `RateLimiter.cfg`
sources that no observer counts are symmetric; the properties do not tell them
apart and are no liveness properties.

Fairness. gevent runs every ready greenlet and fires every timer, so the log
worker's steps, its timeout, the shutdown loop, the end of a stopped server's
greenlet and a restart by the supervisor are weakly fair; clients, crashes and
interrupts are not. The forwarder and the supervisor are single loops of calls
that all return (timeouts on the post, the waits and the sleeps), so their steps
are weakly fair. In the services a handler whose socket is ready, a timer that is
due and a greenlet that was spawned run; what a client does is not fair, except
that an FTP data connection ends at some time (the network's time-out), that the
lock of the file system is given to who waits for it (`TakeLock` and the clock's
`GoStale` are strongly fair: they are enabled again and again and not for good),
and that the far side of the proxy makes room in the end. A process does not
survive SIGKILL. Clients need not fall silent: `TimedOutEventuallyExpires` only
says what becomes of a session that stays timed out, and `EveryEventLogged`
exempts a process that dies and, of a shutdown, the events still queued when the
worker ended.

## 4. Proofs

Every invariant that a passing run checks is a theorem for all values of the
constants, and so are its action properties and the refinement of
`ExchangeStore`. A theorem `Spec => []P` is proved by an inductive invariant,
with one lemma for the initial state and one for each action or group of them.
What follows names, for each module, what had to be added to the property.
Where an argument goes over data (a search, a running sum, the tails of a
sequence, what is below a directory) it is by the least natural number for which
it fails (`LeastNat`), or a tail is characterised by what it must satisfy
(`Tails`) and shown to exist.

`RateLimiterProofs` assumes `LimiterAssumption` only (natural numbers, a positive
rate, burst and table). The type invariant alone is inductive, the window bound
is not: `Counts` strengthens it to the sum of what an observer has counted, what
the bucket holds, and what the bucket is still owed for the time since its last
datagram, which never exceeds the burst and the rate since the observer began.
`LinesCovered` does the same for the report lines of sources that are forgotten
and return. Theorems: `TypeCorrect`, `WindowBounded`, `TableKept`,
`SlowSourcesPass` (assuming the burst is at least one token: with a template's
burst below one nothing ever passes), `LinesApart`.

`EventPipelineProofs` assumes the module's named assumptions (the clock's steps
are integers, sinks are distinct, servers contain the log worker and every
connection's protocol). `Sound` is about each session: its keys are finite in
number, which the search for a free millisecond needs to end (`FreeKeyIsFree`),
and as many as its events; one of them is at or after its last touch (the latest
reading of the clock at one of its events); and from that time on they have no
gap. `InFlight` says that the queue holds exactly the last events recorded, in
order, and that the hand holds the one before them; `Given(k)` places what sink
`k` was given against that. From these follow `FifoDelivery`, `NoEventOverwritten`
and, with the arithmetic of the two truncations, `NoEarlyExpiry`.
`KeysInEventOrder` needs no assumption on the clock: an event recorded when the
clock reads no less than it did at the earlier ones starts its search in the part
without a gap, or beyond it, and so finds a key above all of them. Theorems:
`TypeCorrect`, `Delivered`, `NothingOverwritten`, `KeysOrdered`,
`ExpiredWhenIdle`.

`LogTailProofs` assumes `TailAssumption` (at least one file and one idle check).
`PostedOnceInOrder` needs to know what may still be read: `FilesInOrder` says
that a piece which begins a record comes after the pieces of all earlier ones,
in every file, and `PostedIsBehind` that what was posted is earlier than every
record that begins beyond the forwarder's position. A rotation or a restart
opens a file at its end, which makes the second vacuous. Theorem: `InOrderOnce`.

`EventPostProofs` assumes `PostAssumption` (sizes and retries are positive, the
cap is a natural number, 0 for none). `Ordered` adds to the order within a spool
file that what was moved away precedes what came after and that the record in hand
is in neither; `Sized` that the spool is below its cap between the look at its
size and the append; `Stamped` relates all of `Posts` (what is stored, may yet be
stored late, or was accepted): any two of them are told apart by when they were
observed, which of one life of the forwarder their stamps tell too, up to the last
one given, and of the record in hand there is only one. With it an insertion under
a key that is not taken is a step of `ExchangeStore`, whenever it comes, and one
under a key that is taken leaves the table alone, which is the step of the
refinement that is not plain. That an accepted record may have been merged with
one of another life is part of the statements, not of the hypotheses. Theorems:
`Accounted`, `ReplayInOrder`, `Bounded`, `Implements`.

`SupervisorProofs` assumes `SupervisorAssumption` (a positive number of strikes).
`Lineage` says where the program counter lets `_child` lag behind the last child
spawned, and that every earlier child has been waited for; `Well` that a child
that is not faulty is stopped only when the sensor is; `Counted` that an observer
who counts whole quiet intervals has as many as there are strikes, and one more
between an interval's end and the sample. Theorems: `OneAtATime`, `NoneLeft`,
`OnlyWedged`.

`Iec104LinkProofs` assumes `Iec104Assumption` (positive modulus, window and
timeouts) and is built in layers. `TypeInv` adds to the types that what is owed
to the peer is what is counted, without which nothing bounds either.
`T2CoversUnacknowledged` is then inductive by itself. `DataOnlyStarted` needs
`Phases`: data transfer is allowed before its confirmation has left and forbidden
before the end is confirmed, and what is still in `todo` says how far that has
come. `Clocks` relates T3, the peer's silence and the age of the test frame under
T1; with it and T1 < T3, a hypothesis of the two theorems that every template
meets, T3 cannot come due while a test frame is out. `Numbered` is what
`T1SupervisesUnacknowledged` needs: the send number keeps step with the number of
frames sent through every wrap of a modulus that is not given, only a renumbered
frame or one of an earlier round stays under T1 once it is acknowledged, and
until the first wrap nothing unacknowledged escapes T1; its steps rest on lemmas
about `%` and `\div`. Theorems: `TypeCorrect`, `Covered`, `OnlyStarted`, `OneTest`,
`SilentDropped`, `T1Supervises`.

`IpmiKamstrupProofs` is about two services by themselves. For IPMI it assumes that
no client is named as the two marks for "no client" and "a key of two"
(`ClientNames`), and `MaxPriv \in Nat`. With the fields' types `SessionIsListed` is
inductive: a client can only replace the session together with its listing
(`Closes`), and the user whose key is kept is forgotten only with the session
(`Stays`). For the Kamstrup parser `ParserInv` says, as long as no byte was
unescaped twice, that the buffer is a part `done` that the scan has read and a
part `ahead` that it has not; that `ahead` and what has not come yet are together
the rest of what the client sent, `done` being the unescaped beginning of the
request the scan is in (`Inside`), or empty before the first and after the last
(`Before`, `After`); and that the scan dies at the first request with a wrong
checksum. Theorems: `Listed`, `ReturnedAsSent` (`MaxFrames \in Nat`).

`MCServicesProofs` carries this to the composition. By `Steps` a step of
`MCServices` is a step of a service or leaves that service alone, so that each has
an invariant of its own, proved of its own actions:
- FTP: `FtpInv` adds to the types and to `FtpOwned` what a greenlet that waits is
  waiting for (`Awaited`): the command it was, and that its client was logged in.
- Store and cache: `FilesInv` adds that the root is a directory, and `UploadsTyped` what
  an upload that waits will write; `NothingBelow`
  shows that nothing is below what is not a directory, so removing or renaming
  what the code looks at leaves no entry of the cache without its file.
- TFTP: `TftpInv` says that nothing of a transfer shows in the store or in a copy
  before the transfer has ended (`Unseen`), and what a copy holds then (`Copied`).
- S7: `S7Inv` says that the answers are in the order of the packets, or parts of
  packets, that they answer, none beyond what was received; and what each stage
  has behind it. What a packet was read as plays no part in it.
- EtherNet/IP: `RecordsTheRequest` is inductive by itself.
- HTTP: `HttpInv` says that a reply made here, but for one with stale headers, is
  `Delimited` as it is built.
- Guardian: `AstInv` reads the names a report shows off the commands before it, with
  the text each was read with.
- Proxy: `ProxyInv` counts the one piece on its way.
- Meter: `MeterInv` says that a connection whose handler waits for a piece while the
  meter is down has been served for none since.
The IPMI server and the parser are the instance `Alone` of `IpmiKamstrupProofs`,
whose definitions are shown to be those of `MCServices` (`SameSession`,
`SameParser`). The hypotheses are natural-number bounds, room for at least one
recorded value (`MaxValues \in Nat \ {0}`, `_MAX_CIP_VALUES`), `ClientNames`, and a TFTP
transfer not being named as the mark for "no transfer". Theorems:
`TransfersOwned`, `NeverLoggedIn` (an action property: too many bad logins are for
good, whichever command was waiting), `LeftAsTheyWere`, `ListedAmongServices`,
`AskedIsRecorded`, `OnePieceServedWhileDown`, `RequestsAreWhole`.

Only model-checked: the liveness properties, as fairness is out of the provers'
reach: `EveryEventLogged`, `TimedOutEventuallyExpires`, `ShutdownCompletes`,
`RotationNoticed`, `WholeLinePosted`, `SensorRecovers`, `SignalEnds`, `RestartEnds`
and `PeersLetGo`. The properties that are violated are refuted by TLC's behaviours
and have no theorem.

## 5. Not modelled, and why

- What a sink does with an event (SQL, syslog, TAXII, STIX): I/O and formatting.
- Option parsing, template validation, dropping of privileges, persona files:
  checks made once before anything runs.
- A second SIGTERM while the supervisor's handler of the first one runs, and a
  second interrupt during conpot's shutdown.
- What a source gains by being evicted from the rate limiter's table: it returns
  with a full burst. `WindowBound` is about one bucket.
- A container runtime that kills the supervisor itself: nothing of the sensor is
  left to have a property.
- cpppo, bacpypes, pysnmp, modbus_tk, tftpy and scapy: third-party parsers and
  state machines, external; modelled from how they are used where a module says
  so.
- SNMP: pysnmp runs it; what this repository adds is a delay and values it reads
  when asked. BACnet beyond its rate limit: objects written at start, services of
  bacpypes.
- The forwarder's protocol parsers and the layout of IEC 104 frames, S7 packets,
  Kamstrup replies and Guardian reports: functions from bytes to fields without
  state, which the repository's tests reach.
- The registers of `DeviceDataController`: what a command does to them decides
  how many I-frames answer it, which `Iec104Link` leaves open.
- FTP's TYPE, REST positions and the contents of files; mounting of sub-systems
  in the virtual file system.

## 6. Plan

1. Done: the pipeline, the log file, the forwarder's posting, the rate limiter,
   the supervisor, IEC 104 and the protocol services.
2. `Iec104Link` with the registers of `DeviceDataController`, shared by all
   connections: a command's value against an interrogation under way.
3. The parsers of the forwarder as functions over bounded byte sequences, with a
   reference definition.
4. Proofs: done for every invariant and action property that a passing run
   checks. Left: that the modules of `MCServices` have typed states, as theorems
   of their own where their invariants do not contain it already, and whatever
   items 2 and 3 add.
