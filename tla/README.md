# libartibeus-ctrl in TLA+

`libartibeus-ctrl` is the library of the control board of a small satellite. It
runs on a microcontroller without an operating system whose power may fail at any
instruction: RAM is lost, FRAM ("non-volatile") is kept, and the program starts
again at `main`. An application, linked with the library, runs as a sequence of
*tasks*; a task cut short by a power failure is run again. The library receives
packets from the radio (UART 0) and from the experiment board (UART 1), sentences
from a GNSS receiver (UART 2), keeps readings and records in FRAM for telemetry,
and answers the ground's requests.

This directory holds TLA+ models of that code, TLC configurations that check them
on small instances, and proofs that TLAPS checks for every value of the constants.
Paths below are relative to `src/src/`.

To check: `tlc -config X.cfg M` for the pairs in the table of runs, `tlapm M.tla`
for the `*Proofs` modules. `PROJECT.json` lists runs, mutants, findings,
hazards and theorems, and maps every definition to the lines it models.

## 1. Inventory

### 1.1 Components

| component | code | state | operations |
|---|---|---|---|
| undo log | `backup.c` | FRAM: `double_buffer`, `backup_data`, two `dbl_buffer_count`s (one for each context) | `write_to_log`, `restore_from_backup` |
| packet link 0 (radio) | `handle_uarts.c` 51-128, 231-295 | FRAM: pool `UART0_BUFFERS` with `active`, `complete`, `full_len` and the packet; RAM: statics of the receiver | `handle_progress_uart0` (interrupt, one call for each byte), `process_uart0` (application) |
| packet link 1 (experiment board) | `handle_uarts.c` 130-227, 297-382 | the same for `UART1_BUFFERS` | `handle_progress_uart1`, `process_uart1` |
| GNSS link | `handle_uarts.c` 384-443 | two `gps_data` objects, `cur_gps_data`, parser state | `handle_progress_uart2` (interrupt) |
| published readings | `query.c` 56-254 | FRAM: for each reading a pair of buffers and a pointer | `artibeus_set_xl/_g/_m/_pwr/_gps/_time/_date`, the getters |
| message ring | `query.c` 302-357 | FRAM: `expt_ascii_buffer`, tail, head, full | push, pop, pointer update, empty test, send |
| telemetry ring | `query.c` 360-418 | FRAM: `telem_buffer`, tail, head, full | the same |
| telemetry record | `query.c` 262-300 | a packet | `artibeus_set_telem_pkt` |
| command dispatch and acks | `handle_uarts.c` 64-122, 148-221; `comm.c` 232-242, 285-334 | FRAM: pending message ids, what acks are awaited | the two switches, `comm_return_ack`, `comm_return_nack`, `comm_return_telem`, `expt_return_ack`, `expt_write_jump` |
| packet formatting | `comm.c` 26-125, 191-215 | the packet objects `comm_msg`, `expt_msg` | `comm_format_pkt`, `expt_format_pkt`, the senders, `comm_transmit_pkt` |
| RF kill and score | `comm.c` 337-360 | RAM: kill count; FRAM: flag, score | `update_rf_kill_count`, `update_score` |
| time for the experiment | `comm.c` 244-283 | none | `expt_set_time`, `expt_set_time_utc` |
| self-tests | `comm.c` 128-189, 217-230 | none | `comm_ack_check`, `comm_rf_check`, `comm_transmit_ready`, `expt_ack_check` |
| start-up, burn wire | `artibeus.c` | a flag that the wire is burnt | `artibeus_init`, `_first_init`, `_burn_wire` |

`comm.c` 362-948 is inside `#if 0`.

### 1.2 How they interact

- **Interrupts.** Each UART's receive interrupt calls `handle_progress_uart<n>`,
  which stores into the pool (or the GNSS objects) between any two stores of the
  main program. No code masks it.
- **The application's loop** calls `process_uart0` and `process_uart1` again and
  again; these look at the flags of every buffer, handle the packet of each
  complete one (the command switch calls the components below) and free it.
- **Tasks and the undo log.** A task calls `write_to_log` before it changes an
  object whose old value a retry needs. At the end of the task the context is
  switched, which empties the log. At boot `restore_from_backup` undoes what the
  log holds. `process_uart<n>` and the push of both rings use the log; the pops and
  all the setters do not.
- **Readings** go through the getters, by pointer, into `artibeus_set_telem_pkt`,
  whose record is pushed on the telemetry ring; a request of the ground pops it.

### 1.3 What is hard about it

The table gives what makes a component correct; `PROJECT.json` lists each hazard at
its line.

| component | hard behaviours | correct when |
|---|---|---|
| undo log | power failure between any two stores, also during recovery; a cell saved twice; arrays that fill up | a task takes effect as a whole or not at all; the arrays are not overrun; recovery ends |
| packet links | interrupt against main program on two flags without a lock; pool full; failure between handling and commit; buffers reused before the commit; one handler saving the other's flags | only whole frames are handled; each frame is handled by a task that commits; no buffer is lost; every frame is handled in the end |
| GNSS link | interrupt moves the object that the main program reads | while the power is on the position shown gets neither older nor worse; a pointer stays good for a known time |
| readings | failure inside a setter; three setters sharing a pair of buffers; pointers kept by callers | a reading is whole, the latest, and stays put while it is read |
| rings | failure inside a push; retry of a pop; indices at the wrap; lengths taken from a frame | records are neither lost nor torn; a pop returns a record that was pushed |
| dispatch, acks | several commands in one scan, frames that arrive during it; acks that cross, repeat or get lost; one number for the acks of several commands | an ack answers a packet with the number that is waited for |
| formatting | lengths at their bounds; objects that keep the last packet | what is sent is what was asked for |
| kill, score | frames handled again after a failure; bytes left from earlier frames; a volatile count and a lasting flag | the radio dies if and only if it was told to; a torn score is repaired |
| time | division of negative numbers, leap years, 32 bits | seconds by the calendar, nothing overflows |

## 2. Modules

| module | what it is |
|---|---|
| `AtomicTask` | abstract: a task's memory changes by its commit, or not at all |
| `UndoLog` | `backup.c`, store by store; implements `AtomicTask` |
| `UartRx` | one packet link: receive interrupt, buffer pool, `process_uart<n>` |
| `UartPair` | both links in one program; link 0 of it implements `UartRx` with the saves of the other |
| `Ring` | both rings of `query.c` |
| `AtomicRegisters` | abstract: a setter takes effect in one step, or not at all |
| `Registers` | the seven setters and the getters of `query.c`; implements `AtomicRegisters` |
| `Gnss` | `handle_progress_uart2` |
| `Time` | operators: `expt_set_time`'s arithmetic, and the calendar it should agree with |
| `Packets` | formatting and sending of packets, as conjuncts of actions |
| `Commands` | the switches of `process_uart0` and `process_uart1`, with `comm.c`; built from `Packets` and `Time` |
| `UndoLogProofs`, `UartRxProofs`, `UartPairProofs`, `RegistersProofs`, `GnssProofs`, `RingProofs`, `CommandsProofs`, `TimeProofs` | theorems |
| `MC*` | values of constants for TLC |

Operators named `Mut*` stand before a definition and give a form of it that a
plausible bug would have; nothing uses them. `PROJECT.json` says which property
each of them breaks. They keep the properties honest.

### 2.1 `UndoLog`

Memory is a function from addresses to bytes. `write_to_log` is `BeginLog` (test of
the index, computation of `last_addr`), `CopyByte` (one byte of the `memcpy`),
`StoreSource`, `StoreDest`, `StoreLen`, `CountUp`; a refusal is `LogRefused`, after
which the task writes all the same, as no caller looks at the result.
`restore_from_backup` is `RestoreNext`, `UndoByte`, `DropEntry`, `RestoreDone`.
`Crash` is possible in every state and loses exactly the RAM. So is `Interrupt`, which
stores into a cell of `Shared` without a save: the receive interrupts do that to the
flags of the packet buffers, also while those are being saved or restored, and before
`restore_from_backup` has run. The other cells are `Private` to the tasks. The task is external:
it may write any cell that it asked to have saved (`WriteNv`), and it ends by
preparing the other context and switching to it, the two stores of the
intermittent-computing runtime that `backup.c` shows through `curctx` and `dbl_buffer_count`.

What the log promises about a cell depends on who writes it. A private cell is
recovered (`Recoverable`, `TasksAreAtomic`). Of a shared cell only this can be said:
the byte that will come back is the one the cell had when it was first saved,
whatever is saved or undone later, and no cell that was not saved is touched
(`OldestComesBack`). This is what `UartRx`, `Ring` and `Commands` take the log to do.
The one exception is a cell that an interrupt writes during the copy of its
own bytes (`disturbed`, a history variable): its saved byte is the old or the new one,
or, while it is restored, the interrupt's byte stays. A flag has one byte, stored
and copied by single instructions, so for a flag this is the interrupt coming
before or after the copy.
`RecoveryAdvances` says that every step of `restore_from_backup` makes `Left`, a bound
on its remaining steps, smaller: it ends however often it is interrupted.

The arrays are modelled longer than declared. A write behind their end goes to cells
that nobody uses, the kindest thing the build can do; `LogInBounds` says when
that happens.

### 2.2 `UartRx` and `UartPair`

One received byte is one action, since the interrupt is not itself interrupted:
`WaitEsp0`, `WaitEsp1`, `RejectLen`, `NoBuffer`, `Claim`, `Receive`, one for each
state and outcome of the receiver's switch. The main program goes store by store:
`Call`, then for each buffer `Skip`, or `Found`, `LogComplete`, `LogActive`,
`Handle`, `ClearComplete`, `ClearActive`; then `Return`. The test of the two flags
is one step: the interrupt only ever sets them, so a second read can find nothing
that a single read would not.

The constants hold the differences between the two functions. Link 0 clears the
mark to 0 and saves its own flags (`CLEARED = 0`, `LogsOwn`); link 1 clears the mark
to 1 and saves those of link 0 (`CLEARED = 1`, `~LogsOwn`). `ForeignLogs` says that
another handler saves this link's flags: that is link 0 as link 1 leaves it.

The undo log is modelled as it is proved to behave (`OldestComesBack`): of a flag
saved several times in a task, the value at the first save comes back. Recovery goes
flag by flag, newest entry first (`PutBackActive`, `DropActive`, `PutBackComplete`,
`DropComplete`, together `Recover`), with bytes and further power failures between the
stores; `Restore` is the start of the application once the log is empty. Between two
entries of one flag recovery shows a newer value of it for a moment; that is left out.

History variables make the promises stateable: `whole` (buffers with every byte of
the frame they announce), `owed` (received and not yet handled by a committed task),
`done` (handled by the running task), `reclaimed` (claimed for a new frame while the
log holds flags of the old one), `tainted` (made visible by something else than a
frame: a claim of a buffer whose mark is still set or that is being freed at this
moment, or recovery of flags of a reclaimed buffer), `misled` (buffers of which
`process_uart1` saved flags while they held no complete frame) and `erased` (owed
buffers of which recovery has put such flags back: their frames are gone, and stay owed).

`OnlyPowerLoses` compares the states before and after a step: a frame that was received
whole and not yet handled is taken away by no step of the interrupt, of either handler
or of the commit, on either kind of link. What takes frames away is the power failure
itself, and the recovery after it with the flags of `misled` buffers; these frames
are in `erased`, and the property says nothing of them.

`ReceivesInBounds` covers `pkt.msg`, too, which has `OPENLST_MAX_PAYLOAD_LEN` bytes behind
the first `PRE_HEADER_LEN`. That the longest frame accepted fits there is
`LinkFitsAssumption`: both numbers are configured outside this repository, and nothing in
the code compares them.

`UartPair` is two instances of `UartRx`; the processor is in at most one of the two
functions, the commit, power failure and recovery are common, and
`SaveForUart1` is the step in which `process_uart1` saves flags of link 0. Its
constants are those of both links, and `PairAssumption` contains what
`ConstantsAssumption` and `LinkFitsAssumption` of `UartRx` ask of each. That link 1 of the
program is a link as `UartRx` has it is plain from the text of `UartPair`, which writes each of
its steps as one of link 1 or none; what has to be shown is that link 0 is, although
`process_uart1` saves its flags (`Uart0IsALink`).

### 2.3 `Ring`

`which` chooses between the rings, which differ in the entry a pop reads, `tail - 1`
for telemetry, `tail` for messages, and in what a push copies. A push is eight steps,
three of them saves of `tail`, `head` and `full`; the copy is two steps with the bytes
`Torn` in between. An entry is a function from its bytes (`EntrySize`) to the records
they belong to.

For telemetry a push stores the whole record. For messages
`artibeus_push_ascii_pkt` wants a `buffer_t *` and gets `pkt.msg` of one
(`handle_uarts.c:206`), so that it sees the packet three bytes too far: what it takes
for the length byte is the first byte of the sequence number, and the copy is 8 bytes
shorter than that byte says (`query.c:308`). `Lengths` has all outcomes: a part of the entry, up to
all but its last byte, the rest staying as an older message left it; or, below 8, a
`size_t` near its maximum, with which `memcpy` goes over the whole memory (`Overrun`).
Nothing is known of the program after that, and the properties end there (`pc =
"overrun"`); the same holds for `PushAscii` of `Commands`.

### 2.4 `Registers`

All readings, each with its pair of buffers and the pointer, and the pair that the
three inertial setters share. A store of a reading is two steps with `Torn` in
between. `Get` is a caller that keeps the pointer. Applications differ in the
setters they call (`called`, chosen at the start), which keeps the state space
small without ruling out any order of calls among those setters.

### 2.5 `Gnss`

The NMEA parser belongs to `libgnss`, which is not part of the repository: any byte
may have any outcome the code distinguishes. `Take` is the main program reading
`cur_gps_data`, the pointer it gets staying in use. Where `gps_data` lies is decided
in `libgnss`, so `Crash` allows both: what was in RAM is lost and the position with it
(`LoseFixes`), or all stays but for an object that was being decoded (`KeepFixes`).

### 2.6 `Time`, `Packets` and `Commands`

`Packets` has the two packet objects and `wire`, what the last step has put on a
link: the packet, how many bytes of it go out, and what the code asked to send. So
"sent is what was asked" is a property of a state. `format_pkt` leaves the object as
it was when it refuses, and the senders do not look. A payload is one number: the
time, the index of the first byte of a message, the fill byte of a test.

`Commands` has the scan (`CallProcess`, `Skip`, `Found`, `SaveActive`, `Handle`,
`ClearComplete`, `ClearActive`, `Return`), where `Handle` takes one case of the switch
of its link or passes the frame on (`Relay`), and two cases go on in steps of their
own: the copy of the score (`StartScore`, `EndScore`, torn in between) and the pieces
of `comm_transmit_pkt` (`Transmit`, `TransmitEnd`). The application (external) starts
the experiment board's program (`WriteJump`, again and again), waits for acks of
the ground, sends messages, tests, switches supplies, commits.

The receive interrupt runs between any two of these steps: `Claim` takes a buffer and
stores `active` and the length, `Receive` stores the next part of the frame and with the
last one the mark. A frame has two parts, up to the command and behind it, because a
short frame has only the first (`PartsOf`); what lies behind stays as an earlier frame
left it (`Stored`), and the switch reads it. So the race of `UartRxClearRace` is there,
too, and the flag `raced` of a link tells that it has happened. Its header is one
part: in a raced buffer a handler could see half of one, and the properties say nothing
of such buffers. Recovery goes flag by flag; both functions save flags of link 0
(`Found`, `SaveActive`), as in the code.

`BoardAcks` is the experiment board: it acks a packet that has reached it, late,
several times, in any order, or never. `traffic`, chosen at the start, says which
frames may arrive and what the application does, as `called` does in `Registers`.

History variables: `got` (packets that reached the board); `kills` (kill commands that
arrived with their own keys) and `heard` (those since the last recovery); `stale` (other
frames that arrived in a buffer where they show the keys of an earlier one); `erased` (a
recovery has taken away a frame with a score), `reclaimed` and `raced`.

`expt_set_time` gets six bytes that are meant as time and date, and reads bytes 0
to 2 as hour, minute, second *and* as day, month, year. In `process_uart1` these
are the time of day, and bytes 3 to 5 nothing (section 4). `Time` keeps formula and
bytes apart: `seconds(date, time)` is the formula, and `sec` what the code makes of it,
`seconds` of the same three bytes twice. The first is right (section 5), the second no time at all;
`sec` takes a time of day (`TimesOfDay`, with the leap second; `TimesAssumption` says that
the application reads no other). The reference is the calendar from its definition
(`DaysSince2000`) and the epoch J2000, noon of 1 January 2000 in Terrestrial Time, which was
64.184 seconds ahead of UTC (`J2000`); so the code's 43136 is derived, not repeated. `Computed`
lists the intermediate results of the expression, which the code holds in `int32_t`.

## 3. Runs

| run | question | bounds, and why they are enough |
|---|---|---|
| `MCUndoLog` | Does a task behave atomically whatever store a failure falls on, and what comes back of cells that interrupts write? Does recovery get ahead? | 2 bytes of memory, one of which interrupts write at any time, objects of 1 or 2 bytes, 2 saves in a task: a cell saved twice, overlapping objects, a private and a shared cell in one object, an interrupt before, during and after each copy, and a failure at each byte occur |
| `MCUndoLogLive` | Does recovery end? Also fires the refusal. | one entry too many for a log of 1 |
| `MCUartRx` | Link 0, with another handler saving its flags at any time: frames whole, kept until the commit, no buffer lost, nothing taken away but by power failures and their recovery, all handled | 2 buffers (a lower one that hides a higher one), frames of 2 bytes that fill `pkt.msg`, lengths too short and too long; the theorems cover other lengths and numbers |
| `UartRxClearRace` | *violated, without any power failure:* only whole frames are handled | as above, lengths 2 and 3, without the other handler |
| `UartRxLost` | *violated:* on link 1 a frame that no committed task has handled is visible | the same, `LogsOwn = FALSE`; the trace ends after a recovery |
| `MCUartPair` | Is link 0 of the whole program one that `UartRx` describes? | one buffer each, lengths of 2 |
| `MCRing` | Are records safe in both rings? | 4 entries of 2 bytes, 2 pushes a task: rings fill, wrap, overwrite; messages of every length, that which overruns included |
| `RingPopsARecord` | *violated, without any power failure:* a pop reads a record | 3 entries |
| `MCRegisters` | Are readings atomic, whole, and put while read? | applications that call all three inertial setters, an inertial one and power, position and time, date; 4 powers, so that differences wrap |
| `MCGnss` | Does the shown position only improve, power failures apart? | 3 times |
| `MCCommands` | Do commands do what they say: acks, kill, score, packets? | below |
| `CommandsExtraJumps` | *violated, without a power failure in the trace:* the kill count is ahead of the kill commands by two at most | 2 buffers, `MAX_KILL_COUNT = 5` as in the code, at most 5 frames that show a kill command |

`MCCommands` has 2 buffers on each link, so that two frames wait in one scan (a later
one that hides the ack of an earlier one, a score above or below another frame) and a
buffer is claimed while another is handled or freed; `MAX_KILL_COUNT = 1` in place of 5,
with at most `MaxShown = 2` frames that show a kill command, so that the flag is set by
the second; lengths of messages that do not fit (246) and
that take several pieces (600); one tail of the rings; 2 numbers of acks to wait
for. There are eleven traffics, each with what has to meet and little more, as each
multiplies the states: kill commands with short
frames that show old keys; scores with frames on the other link, and with frames that no
switch knows; records and messages; self-tests; acks of the ground; relays in both
directions and supplies; the jump with requests of the time; requests of the other
time, and messages, with pings. `PendingAckIsCurrent` meets late and double acks in the
jump's traffic. The theorems cover every other traffic, number of buffers and value.

Deadlock is checked in all of them.

**Bounds in guards.** `LogsPerTask` (saves in a task), `PushesPerTask`, and the
counters `sets` and `decoded`, which stop at `Lost = 2`, when the pointer they speak
of is worth nothing any more. `Ring` keeps the newest `N - PushesPerTask` records of
committed tasks: a task in progress may overwrite the others.

**Fairness.** `RecoveryEnds` assumes weak fairness of `restore_from_backup`: it is
the only code that runs after a boot, and a processor with power goes on.
`EveryFrameHandled` assumes weak fairness of the main program of `UartRx` inside
recovery and the handlers, since interrupts return after one byte, and strong
fairness of the call of `process_uart<n>`: the application's loop comes back to it
for ever, whatever it does in between. Both properties speak of behaviours in which
power failures stop. Nothing is assumed of the senders, which may fill buffers for ever
or stop.

## 4. What the checks show

What holds:

- **A task is atomic**, also when recovery is cut short again and again, and a cell
  saved several times ends with its oldest value (`TasksAreAtomic`, `Recoverable`).
  This needs that no save is refused. Interrupts that write saved cells, at any
  time, disturb neither that nor the other cells (`OldestComesBack`).
- **Recovery gets ahead** in each of its steps (`RecoveryAdvances`), also after
  refused saves.
- **On both links**, also on the one whose flags nobody saves, a whole frame is
  taken away before it is handled by nothing but a power failure, or on link 0 the recovery
  after it with flags that `process_uart1` saved too early (`OnlyPowerLoses`), in
  untainted buffers.
- **Of link 0**, every frame handled is whole, except in *tainted* buffers, and every
  frame comes back until a task that handled it commits, except in *tainted*, *reclaimed*, and
  *misled* or *erased* ones. The exceptions are the three mechanisms that break the
  promise: the flags without a lock, the reuse of a freed buffer before the task that
  freed it commits, and the saves that `process_uart1` makes in the name of link 0. Of
  frames in those buffers nothing is promised, and some are lost.
- **A ring keeps its records** through failures at any store of a push, although pops
  save nothing (`RecordsIntact`): for telemetry whole records, for messages as much as the
  push has copied, until a message makes a copy run over the memory.
- **Each reading changes as a whole**, without an undo log (`RegistersAreAtomic`);
  the change of power belongs to the reading shown before.
- **A pointer** from a getter shows the same value until the second setter call.
- **The position** never gets worse while the power is on (`NeverWorse`); a power failure
  keeps it or leaves none.
- **A pending ack** told to the application answers a packet with the number it waits
  for (`PendingAckIsCurrent`), although acks come late and twice, and the number goes
  through `TRANSLATE_SEQNUM` one way and through a single byte the other. Which packet has
  that number is another matter, see below.
- **The radio** is declared dead only after more than `MAX_KILL_COUNT` kill commands
  have come (`KillIsMeant`), as long as no other frame shows the keys of one: a frame
  handled again after a power failure is counted in a count that the failure has reset.
  In the other direction, no command that arrives while the power is on is overlooked
  (`KillIsObeyed`): what has not been counted still waits in a buffer. It speaks of
  commands since the last recovery, as `restore_from_backup` may take away a frame
  that has arrived between the boot and it. Both except links on which a buffer was claimed
  between the two stores that free it, or put back after it was claimed again (`raced`).
- **A torn score** is copied again (`ScoreRepaired`), but for the cases listed below.
- **Packets** go out as asked, with the length they announce, up to 245 bytes
  (`SentAsAsked`).
- **The formula for the time** counts the seconds from J2000 to every date and time of
  day from 2000 on, and no operation on the way overflows (theorems, no run). What the code
  gives it is not a date, see below.

Where the code does not do what its comments say (each is a run, and a finding):

1. A byte that arrives between `complete = 0` and `active = 0` claims the buffer that
   is being freed; the second store then hides the claim, and the buffer is later
   claimed with its mark still set and handled while a frame is being received into
   it (`UartRxClearRace`; `handle_uarts.c:124`).
2. `process_uart1` saves the flags of link 0 and not its own: power fails when the mark
   of a handled frame is cleared and the task is not committed, and after the recovery
   the frame is not there for the task that is run again (`UartRxLost`;
   `handle_uarts.c:143`).
3. The telemetry pop reads `telem_buffer[-1]` when the tail has wrapped
   (`RingPopsARecord`; `query.c:362`).
4. A frame with sub-command `RF_KILL` and nothing behind it shows the keys that an earlier
   kill command left in its buffer, and counts. The comment accepts "an extra jump or 2"
   (`handle_uarts.c:88`); the run has three after one kill command, and with
   `MAX_KILL_COUNT` of them the radio is declared dead (`CommandsExtraJumps`; `comm.c:340`).

Met on the way, without a run of their own; these are shown by changing a
constant of a run above:

- `write_to_log` admits one entry more than `double_buffer` has (`backup.c:32`): with
  `LogsPerTask = DBL_BUFF_LEN + 1`, `LogInBounds` fails.
- With `LogsPerTask > DBL_BUFF_LEN + 1`, `Recoverable` fails: refused saves are ignored.
- `AtLeastOnce` without the exception of `misled` buffers, and `OnlyPowerLoses` without
  that of `erased` ones, fail: the saves made for a frame of link 1 keep link 0 flags
  from *before* a frame of link 0 arrived, and the recovery after a failure takes that
  frame away.
- With `Rings = {"ascii"}`, `PopsARecord` fails: that pop reads the entry the next
  push will fill, which may never have been written.
- A pop repeated after a power failure moves `head` twice, though `query.h:39` lists its
  update as "Safe from power interruptions", and `head` takes one
  value too many, so the empty test does not tell whether records are left. The record
  that a request gets is always the newest: a second request gets it again.
- An inertial setter cut short leaves a torn third in the hidden buffer, which the next
  setter of *another* reading publishes: `ImuWhole` excepts exactly this (`exposed`).
  `query.h:39` says "Safe from power interruptions" of `artibeus_get_imu`, too.
- Without any failure, a setter of one inertial reading publishes its third with the two
  thirds of the other buffer, which are older than those shown before, though
  `query.c:56` says "Returns pointer to latest imu data" (`StoreImu`, `SwapImu`).
- `NeverWorse` is about the power being on; nothing in `handle_uarts.c` restores a position.

These stand in the text of `Commands` and `Packets` as the code has them:

- A message of more than 245 bytes leaves no room for the header and is refused
  (`comm.c:41`), but `comm_send_cmd` sends all the same: the packet before it, with the
  length of the new one. So records of the message ring (248 bytes) never go out, nor does any full
  piece of `comm_transmit_pkt` (251 bytes). This is the exception in
  `SentAsAsked`. The pieces are also taken from the end of the message, each from
  `len - 251`, while the last one is taken from the middle.
- `TRANSLATE_SEQNUM` moves the low byte up and drops the high one (`comm.h:80` says
  that it works in both directions). It does no harm, because every number the
  code sends has a low byte of 0 (`Survives`, in the proof).
- `COMM_ENABLE` compares an 8-bit flag with `0xABCD`, and so never holds back: a
  frame of the experiment board switches a dead radio on again. With a flag of 16 bits
  the relay would go on sending, to a radio without power.
- The date never reaches the experiment board. `process_uart1` declares `time_date` as an
  array of *pointers* (`handle_uarts.c:167`), so the date goes to
  `time_date + 3` pointers, behind the six bytes; bytes 3 to 5 are not
  initialised. `expt_set_time` then uses hour, minute and second as day, month and
  year, too; `SET_TIME_UTC` sends three uninitialised bytes.
- `artibeus_set_telem_pkt` returns a pointer one byte into the packet, so the
  first byte of the record is skipped and one behind it sent. `expt_format_pkt` copies
  six bytes more than the payload has.
- A message of the experiment board whose sequence number has a first byte below 8 makes
  `artibeus_push_ascii_pkt` copy over the memory (`Overrun`, section 2.3).
- `ScoreRepaired` without its exception `erased` fails: if `process_uart1` saves flags
  of a buffer of link 0 before a score arrives there, and power fails while the score is
  copied, the recovery brings back the flags of the empty buffer and the score stays torn.
- Without the exception `raced`, `KillIsObeyed` fails with the power on: a kill command
  received into a buffer that was claimed between its two stores is complete and not
  active, and the next frame is stored over it.
- A `GET_TIME` of the board replaces the number the application waits for, so
  the ACK of the `SET_TIME` ends the wait for the jump; the return value
  (`RCVD_PENDING_ACK` or `RCVD_PENDING_BOOTLOADER_ACK`) is all that tells the two apart. And
  each scan returns one value: a later frame of the scan can hide the ack.

## 5. What is proved

| theorem | statement | under |
|---|---|---|
| `UndoLogProofs!TypeCorrect` | `Spec => []TypeOK` | |
| `UndoLogProofs!AlwaysRecoverable` | `Spec => []Recoverable` | `NeverRefused` |
| `UndoLogProofs!LogBringsOldestBack` | `Spec => OldestComesBack` | `NeverRefused` |
| `UndoLogProofs!EachSavedCellComesBack` | each saved cell has exactly one byte that comes back | |
| `UndoLogProofs!RecoveryTerminates` | `Spec => RecoveryAdvances` | |
| `UndoLogProofs!StaysInBounds` | `Spec => []LogInBounds` | `LogHasRoom` |
| `UndoLogProofs!ImplementsAtomicTask` | `Spec => TasksAreAtomic` | `NeverRefused` |
| `UartRxProofs!TypeCorrect`, `NoOverrun`, `WholeFrames`, `NoBufferLost`, `OnlyPowerFailuresLose` | `TypeOK`, `ReceivesInBounds`, `HandledFrameIsWhole`, `NoOrphan`, `OnlyPowerLoses` | |
| `UartRxProofs!SteadyLinkLosesNothing` | every whole frame stays visible until it is handled | no power failure (`SteadySpec`) |
| `UartRxProofs!FramesDelivered` | `AtLeastOnce` | `LogsOwn` |
| `UartPairProofs!ImplementsUart0` | `Uart0IsALink` | |
| `UartPairProofs!PairStaysInBounds`, `PairFramesAreWhole`, `PairLosesNoBuffer`, `PairOnlyPowerLoses` | `ReceivesInBounds`, `HandledFrameIsWhole`, `NoOrphan`, `OnlyPowerLoses` of both links of the program | |
| `UartPairProofs!PairKeepsUntilCommit` | `AtLeastOnce` of link 0 of the program, with its exceptions | |
| `RegistersProofs!TypeCorrect`, `PointersStayGood`, `ChangesAdd`, `ImuNeverTorn`, `ImplementsAtomicRegisters` | `TypeOK`, `KeptPointerGood`, `ChangeOfShown`, `ImuWhole`, `RegistersAreAtomic` | |
| `GnssProofs!TypeCorrect`, `PointersStayGood`, `PositionImproves` | `TypeOK`, `KeptPointerGood`, `NeverWorse` | |
| `RingProofs!TypeCorrect`, `RecordsStay` | `TypeOK`, `RecordsIntact` | |
| `CommandsProofs!TypeCorrect`, `SentAsIs`, `KillsAreMeant`, `KillsAreObeyed`, `AcksAreCurrent`, `ScoresRepaired` | `TypeOK`, `SentAsAsked`, `KillIsMeant` (and the count itself, `Killing`), `KillIsObeyed`, `PendingAckIsCurrent`, `ScoreRepaired` | |
| `TimeProofs!DaysByTheCalendar` | the day number is that of the calendar | years from 2000 on |
| `TimeProofs!SecondsByTheCalendar` | `seconds(date, time)` are the seconds since J2000 | dates from 2000 on, a time of day |
| `TimeProofs!NothingOverflows` | all results of `expt_set_time` fit `int32_t` | a time of day |

All of them also rest on the assumptions of the modules on their constants
(`ConstantsAssumption`, `LinkFitsAssumption`, `PairAssumption`, `RegistersAssumption`, `GnssAssumption`,
`RingAssumption`; for `Commands`, `PacketsAssumption`, `BuffersAssumption`,
`KillAssumption`, `ValuesAssumption`, `TrafficAssumption` and `TimesAssumption`), which TLC evaluates in
each run. `TrafficAssumption` says that frames have the types of frames and that the
board acks only what it got; `PacketsAssumption` that a packet has room for
everything the library sends of its own accord but the records of the rings.
`NeverRefused` is `LogsPerTask <= DBL_BUFF_LEN + 1`; `LogHasRoom` is what the bound of `write_to_log`
and the missing test of `backup_data` make the application's duty; `LogsOwn` is
what link 0 does, and `ImplementsUart0` says that link 0 of the whole program is
such a link.

**The undo log's invariants.** `LogInv` is about the log alone and holds whatever the
tasks do, refused saves included: entries lie one behind the other in
`backup_data` (`EntriesOK`; so that a copy disturbs none), and of the entry being
written (`Writing`) and of the one being undone (`Undoing`) the bytes copied so far
equal memory, except where an interrupt came between (`disturbed`). `IInv` adds
that a task writes only what valid entries cover (`TaskOK`), which is what a refused save
breaks, and `Recoverable`. Each step is first shown to keep every cell (`CellKept`:
this is `OldestComesBack`); `Recoverable` then follows from that alone
(`RecoverableKept`), as no interrupt writes a private cell and a cell gets covered when
it still has its committed value. Refinement follows: at
`RestoreDone` no entry is valid, so by `Recoverable` the private memory is the
committed one. That a saved cell has an oldest entry at all is a least-number
argument (`SomeOldest`). Termination takes an entry to be worth `MaxLen + 3` steps,
more than undoing any entry needs (`StepsPerEntry`).

**The link's invariant.** `Sound` says that in an untainted buffer the mark speaks the
truth. It survives a step only with `Receiving` (no frame is received into a
buffer about to be freed), `Scanning` (the buffer being handled stays visible),
`LogShape` (the order in which the two flags are saved) and `LogSound` (bringing the saved
flags back is right unless the buffer was claimed again). That only power
failures and the recovery of misled buffers lose frames adds `Keeping`, which holds whoever saves the
flags: what the log has of a buffer that is not misled are flags of a complete frame, and
the buffer being freed is one whose frame was handled. Delivery adds `OwnLog` (a link that
saves its own flags does so before it clears them) and `OwedOrDone`.

**The pair.** Each action of `UartPair` is an action or a stutter of each link.
`process_uart1` uses its index for a buffer of link 0, so `ScanIndex` and
`UART1_BUFFER_CNT <= UART0_BUFFER_CNT` are needed. The theorems about a link are then
not proved again: `rx0` and `rx1` are instances of `UartRxProofs` at the variables of the two
links; its assumptions on constants are proved of both, its specification follows from
`ImplementsUart0` and, for link 1, from a lemma that follows the text of `UartPair`
(`ImplementsUart1`), and so its theorems speak of the program.

**The readings' invariant.** `Whole` says that shown values are whole and, at the swap,
that the hidden buffer holds the setter's argument: then the swap is the abstract
write and every other step a call, a failure or a stutter. `Keeping` says which
buffer a good pointer names: the one the running setter does not fill. `Imu` says
where a torn inertial reading can be; `Changing` carries the difference from the call
to the swap. For `Gnss` it is enough that a fresh pointer names the shown object.

**The rings' invariant.** `RecordsIntact` speaks of the tail that a recovery would bring
back. `Tails` says that the running tail is ahead of it by exactly the records of
the task, and `Pushing` what a push has stored so far, so that its last store adds
one record in front, of the length it was given. That the copy hits no record kept is
the lemma `Apart`, and it needs `PushesPerTask < N`: entries behind the safe tail and those
ahead of it are different only while fewer than `N` are in use.

**The commands' invariants.** `Where` ties the step to the link and the log: only frames of
link 0 have steps of their own, and a buffer that is handled has its flags in the log.
`Pool` is what is left of `Sound` of `UartRx` here, on a link that has not `raced`: a
marked buffer is claimed, one that is being received into is claimed and not marked, and
neither is it the one being handled or freed (`Owned`); and recovery brings a mark back only to a
buffer that is or will be claimed and is not being received into (`Logged`). The other
invariants rest on it, and so have the exception `raced`.
`Killing` counts: kill commands that the running program has counted and those still
waiting in the buffers of link 0 are together at most the frames that arrived showing one,
`kills + stale` (`Uncounted`). A power failure resets the first number, and what recovery brings back
belongs to the second. `Obeying` bounds the same sum from below by the commands
heard since the last recovery; it needs that the count cannot wrap before it exceeds
`MAX_KILL_COUNT`, which is in `KillAssumption`.
`Acking` follows the numbers: what the board acks survives the way through one
byte (`Survives`), so an ack in a buffer, or on its way into one, and the number waited for
belong to the same packet (`Answers`, `Answered`, `Current`). `Scoring` says that a
score leaves its buffer only after it was copied. `SentAsIs` needs only the types.

**The calendar.** `jd` and the calendar agree month by month once the number of leap years
since 2000 is in closed form. That it is (`LeapYearsCounted`) is an induction
over the years, put as the absence of a first year that is counted wrong, since the provers
cannot instantiate an induction rule.

**Only model-checked:** the liveness properties `RecoveryEnds` and
`EveryFrameHandled`, which are out of the prover's reach. Of the
first, the part that is safety is proved: recovery cannot run for ever
(`RecoveryAdvances`); what is left to fairness is that it runs at all.
Every other property of a passing run is a theorem.

## 6. What is not modelled, and why

- Telemetry record assembly (`artibeus_set_telem_pkt`): straight-line code that runs
  between interrupts that do not touch what it reads. `Ring` has its stores as one
  copy that a failure may cut short, `Commands` its packet.
- Start-up and burn wire (`artibeus.c`): pins and clocks; the burn is repeated until
  the flag after it is stored, which is one guard.
- What `expt_ack_check` polls from the line: `libmspuartlink`, external.
- Which readings a time is taken from: `Commands` takes any time of `traffic.times`;
  `Registers` says what a getter shows.
- The disabled bootloader code in `comm.c`, and the build files.
- `libgnss`, the runtime that runs tasks, and the drivers: external. Only what this
  code sees of them is modelled.
- Bytes of a packet beyond those that the receiver and the switches tell apart; the
  wording of replies.

## 7. Plan

Done: undo log, with interrupts; links and their composition, with the theorems of
a link carried over to both; rings; readings; position; commands,
packets, kill, score and time. What could come next, in order of importance:

1. `Commands` shown to implement the scan of `UartPair` for frames in two parts, so that
   the theorems of `UartRx` speak of commands.
2. An abstract mailbox between sender and application (put, take, bring back), and the proof that
   `UartRx` without tainted buffers implements it.
3. Which packet an awaited ack is for: with a number of its own for each, that a jump which is
   repeated is acked in the end.
4. `comm_transmit_pkt` with pieces that fit, to show what a repaired loop would send.
5. The telemetry record as a snapshot of `Registers`.
