# A verification of hoymilesClient

hoymilesClient reads and writes Hoymiles microinverters through a DTU, over
Modbus on a serial line (RTU) or over TCP, with a copy of libmodbus that is
compiled in and CLI11 for its command line. This directory holds TLA+ modules
that model the program and the parts of both libraries, TLC configurations that
check them on small instances, and theorems that TLAPS proves for every value of
the constants.

The reference is the source. Paths are given from the root of the repository, as
`src/main.cpp`, or by the file's name alone where that is clear. In
`PROJECT.json` they carry one more leading `src/`. It also names, for every
definition, the lines it models (`map`).

Commands, to be run in this directory:

    tlasany Discovery.tla                               parse a module
    tlc -workers 2 -config MCDiscovery.cfg MCDiscovery  run a configuration
    tlapm Discovery_proofs.tla                          check proofs


## 1. Inventory of the system

The program is one sequential process, without threads. What makes it hard is
the other side (a DTU that is slow, silent, or goes away), the data that
outlives a failed request, the system calls that fail in the middle, and state
that several parts share without saying so.

| Component | Source | State it keeps | Operations |
|---|---|---|---|
| Command line | `main.cpp:15-98`, `inc/CLI11.hpp` | the arguments left, what each option was given | read an argument, convert, call back, refuse |
| Program run | `main.cpp`, constructor and writes of `dtu.cpp` | options, `connected`, slave address, `rtuId`, the choice `microinvertersToChoose` | connect, scan, loop, list, write, signal |
| Discovery | `Dtu::populateMicroinverters` | slot address, read buffer, `lastSuccesful`, `addressToSkip`, the inventory | read a slot, take it, refuse it |
| Reading loop | `Dtu::updateMicroinverters`, `Microinverter::update*` | per microinverter the ports' data and one `age` | select, read a chunk of parameters or statuses, fail, print |
| Port | `port.cpp` | a port's parameters, `currentFixed`; the list of names, shared by all ports | decide on the current, decode, print |
| Decoding | `portParametersGeneric.cpp`, `portParameters.cpp` | the value of a parameter | registers to a number or a serial; totals in `microinverter.cpp` |
| Modbus client | `modbus.c`, `modbus-tcp.c`, `modbus-rtu.c` | transaction identifier, socket or line with its receive buffer | every request function, receive, flush |
| Modbus server | same files | register mappings, a confirmation to ignore | receive, reply, reply with an exception |
| Connecting, serial line | `modbus-tcp.c`, `modbus-rtu.c`, `modbus.c` | contexts, descriptors, speed, mode and signal of the line | make, set, connect, listen, accept, send, receive, close, free, recover |
| DTU-wide commands and sums | `dtu.cpp`, `microinverter.cpp` | none | called from nowhere |
| SunSpec | `sunspec*.cpp` | none | unfinished, never instantiated |

How they interact:

- `main` has its command line parsed, which ends the program on any error, and
  builds one `Dtu`. Its constructor connects and runs the discovery once. The
  inventory never changes afterwards.
- The reading loop calls the Modbus client once per chunk of ports. A result of
  -1 ends the update of that microinverter. The connection is not looked at
  again, and nothing reconnects.
- An answer that comes after the timeout stays in the socket. It is the state
  that one call of the Modbus client leaves to the next one.
- A receiver finds out from the bytes it has read how many are still to come.
  Client and server work by the same table, and one wrong length puts every
  message after it out of step.
- A context has one descriptor, by its number only. The operating system gives
  closed numbers out again.
- Printing changes state: with `-A`, each port extends the list of names that
  `main` keeps and all ports share.
- A signal handler ends the process by `exit(0)` at any moment. SIGABRT has the
  same handler, so an uncaught exception ends with status 0 as well.

What makes each component correct, and what is hard about it:

- **Command line.** How a line is spelled must not change what it means, and a
  transport must come with all that it takes. Hard: values that look like options,
  lists that end where the next option begins, flags in one argument, `needs`
  that look at the count of an option and not at its value.
- **Discovery.** The inventory must be exactly what the answered slots say,
  each port once, under its own serial number. Hard: retries, a buffer that
  keeps the slot before it when a read fails, an address that is advanced before it is
  used, and a branch meant to step back.
- **Modbus client and server.** A call must return the answer of its own request,
  a success must tell the truth about the server's memory, every call must
  return. Hard: late, lost, damaged answers, identifiers that wrap round,
  connections that close in the middle of a call, other slaves on the line.
- **Connecting.** Whichever stage fails, no descriptor may leak or be closed twice,
  and a serial line must be given back as it was found. Hard: stages in two
  different orders, a number in the context that is closed already, contexts that
  are set before they are connected.
- **Reading loop.** What is shown must not be older than what it is said to be.
  Hard: chunks that fail in the middle, two updates that share one age.
- **Port.** One current, of the right scale, whatever was read first. No
  parameter twice. Hard: decisions taken once by the data of the moment; a list
  that all ports extend.
- **Decoding.** A total must be what the counters say. Hard: numbers of two
  registers, read at different times.
- **Program run.** Polls only a connected DTU, writes to what was chosen and
  in order, ends when it should. Hard: uninitialised members, signals.

The hazards of this code, each at its line and with the properties that guard
it, are in `PROJECT.json`.


## 2. Modules

| Module | Models | Run by | Proofs |
|---|---|---|---|
| `PrefixDiscovery` | abstract: slots are taken from the first on until one is not | through `Discovery` | |
| `Discovery` | `Dtu::populateMicroinverters` | `MCDiscovery` | `Discovery_proofs` |
| `ModbusClient` | read and write calls over both backends, message by message | `MCModbusClient` | `ModbusClient_proofs` |
| `ModbusFrames` | the frames of every function code: built, measured, compared, with their checksum | through `ModbusLink` | `ModbusLink_proofs` |
| `ModbusServer` | `modbus_reply` on a mapping | through `ModbusLink` | `ModbusLink_proofs` |
| `RemoteMemory` | abstract: what a call promises about the server's memory | through `ModbusLink` | |
| `ModbusLink` | a client and a server, byte by byte | `MCModbusLink` | `ModbusLink_proofs` |
| `ModbusContext` | contexts, descriptors and the serial line through connecting, failing and closing | `MCModbusContext` | `ModbusContext_proofs` |
| `Polling` | the reading loop and its updates | `MCPolling` | `Polling_proofs` |
| `PortDisplay` | `fixCurrent`, numbers of two registers, totals, `printParameters` | `MCPortDisplay` | `PortDisplay_proofs` |
| `CommandLine` | the options of `main` and how CLI11 reads a line | through `Session` | |
| `Session` | `main`, the constructor, listing, writing, signals | `MCSession` | `Session_proofs` |
| `Selection` | a loop that passes over some of what it goes through | through `PortDisplay`, `Session` | `Recursion` |
| `Recursion` | nothing: induction, and facts about recursive definitions and folds | | itself |

The modules divide the program as its calls do. `Session` reads its command line
argument by argument with `CommandLine`, has the whole scan as one step (a prefix
of the slots, which is what `Discovery` shows of it) and a pass of the loop as
one step (`Polling` has its inside). `Discovery` and `Polling` have a call of the
Modbus client as one step that succeeds or fails, which is what `ModbusClient`
shows over TCP. `ModbusLink` goes below the messages of `ModbusClient`: it
composes the client, the receiver and the server, each with real bytes.
`ModbusContext` is about everything in libmodbus that is not a message.
`PortDisplay` has what an update does to the data of the ports, and what
is shown of them.

Definitions that begin with the comment "Mutant:" are not part of a model. They
are plausible mistakes in the code; put in the place of the definition after
them, each makes a property fail, which shows that the property says something.

### Discovery

A slot is a block of 0x19 registers. The module writes addresses as slot
numbers, `NumSlots` is 100 in the code. `ReadSlot` is one turn of the inner loop
(dtu.cpp:77-80), `TakeSlot` and `RefuseSlot` are the two branches after it, with
the advance of the address before them, and `EndScan` leaves the loop. The
buffer `registers` is modelled: a failed read leaves it as it was, `Unread` at
the start. `Decode` stands for the serial number's hexadecimal digits read by
`std::stoll`. Two labels may decode to one serial, and `Unparsable` is the
exception that leaves the constructor. `addressToSkip` and the branch that steps
back are there as written, although they turn out to be dead. `taken` is a
history variable. `PrefixSpec` is the refinement: a slot that
is taken is a step of `PrefixDiscovery`, the first refusal closes the inventory
there, and everything else is a stutter.

### ModbusClient

A call is `SendRequest` (or a refusal, or a failing `send`) followed by one of
the actions of `Returns`. The DTU takes requests from `dtuIn`, in order, and puts
answers into `stream`, the receive buffer. `PreCheck` is the backend's check (the
identifier over TCP; over RTU only the slave address, and the DTU is the only
slave), `Corresponds` is `check_confirmation`: function and number of values
for a read, address and value for a write. The connection goes from up through
closed to reset, as a socket does. `setting` is the program's context over TCP or
over RTU, or one with `MODBUS_ERROR_RECOVERY_PROTOCOL`, which the program leaves
off; modelled with it on, it shows what is missing. Each message has an age in
calls, a history that no action's guard looks at but the bound in `Timeout`.

Simplifications: an answer arrives in one piece (`ModbusLink` has the pieces);
the DTU echoes the address and value of a write, and answers a read with as many
registers as were asked for.

### ModbusFrames, ModbusServer, ModbusLink, RemoteMemory

`ModbusFrames` builds requests of all twelve function codes from their arguments
(bits packed eight to a byte, registers high byte first), adds the TCP header or the
CRC of a serial line, and has the two tables from which `_modbus_receive_msg`
takes the length of a message (`MetaLength`, `DataLength`), and
`check_confirmation`. The CRC goes through two tables as in modbus-rtu.c; the
tables themselves are computed from the polynomial. Bits are taken out of words by
division, eight weights of them, and put together by sums: the mask of
`MaskWriteRegister` (`Masked`) is the old bits where it has them, and others
elsewhere. `IsRequest` is what a client function may be called with; a raw request
may have any function code and any bytes, and only its size is checked (`Refused`).
An exception is answered with the function code plus 128 in one byte, so that one to
a raw function code above 127 wraps round.

`ModbusServer` is `modbus_reply`: the checks of number and address in the order
of the code, the reply, and the mapping afterwards. `reply.flush` says that the
code sleeps and flushes, which throws away what else has come.

`ModbusLink` puts a client, a server and, on a serial line, another slave
together. `toServer` and `toClient` are the bytes that were sent and not read;
all actions take messages off them by the length that the bytes themselves
tell. A receiver may run into its timeout with any number of bytes read; a server that
waits for a request has no timeout before the first one, but has that of a response
while it waits for the confirmation it is to ignore (`TimesOut`), which is how it
gets over a slave that stays silent (`ListensAgain`). If more
was to come, that counts as a fault ("late"), as do a connection closed by the
server, a busy server, a silent slave, and a byte damaged or lost; `MaxFaults`
bounds them. The identifier wraps round after 65535. `Measured` is the condition of
`NothingLeft` and of what `RemoteMemory` promises of failures: raw requests have the
arguments of their function code (`Complete`), and on a serial line a known function
code, a unit that exists, and one that answers. `recovery` stands for both modes of recovery, link and protocol. The
program around the server is that of libmodbus's own examples: it receives and
replies, and closes the connection when receiving fails.

`RemoteMemory` is what a user of the client may believe. A request that was sent
may be carried out once, more than once or never. A success tells the truth
about the memory unless something has happened that the frames cannot show: on a
serial line, which has no identifiers, an answer that came late or never. A failure
on a line where nothing has gone wrong means that the request was not
for this memory. `MemorySpec` says that `ModbusLink` keeps that.

### ModbusContext

A call that sets up a descriptor is a `job` that goes through the stages of `Route`,
each a system call that can fail. Over TCP and serial lines `connect` writes the
descriptor into the context at once (`Direct`), over the protocol independent
backend and for listening it is in a variable first. `DirectStageFails`,
`NextAddress` and `CallFails` are the ways out. `Send` and `Receive` are here for
what recovery makes of the context: `Reconnects` closes and connects anew in the
middle of them. `Timed` is the choice among the three timeouts. `lost`
has the descriptors that the program itself gives up, by connecting or accepting
on a connected context or by freeing one that was not closed.

The operating system gives out the lowest free number, as POSIX says. The serial
line has a speed (the termios settings are set and restored as a whole), an RS485
mode and an RTS signal; opening it raises the signal, as Linux drivers do.
A context in mode "none" is one of a build without `TIOCSRS485` and
`TIOCM_RTS`. The build of this repository is one: `config.h` of its libmodbus
undefines `HAVE_DECL_TIOCSRS485` and `HAVE_DECL_TIOCM_RTS`, and
`modbus_rtu_set_serial_mode`, which the constructor of `Dtu` calls (dtu.cpp:20)
without looking at its result, always fails there. In a build with them it would
fail as well, since the context is not connected yet.

A context that is told to use RTS "up" before it is connected leaves the signal
raised, and so the bus reserved, from opening the line until its first send.
`LineAsAgreed` therefore speaks of RTS "down" only.

Three calls of the driver may fail without the library looking: the `tcgetattr` that
saves the settings (modbus-rtu.c:661), the `tcsetattr` that restores them (:1114), and
the two ioctls that set RTS (:245, :251). `GetDescriptor`, `Restored` and `SetSignal`
have both outcomes of them, and `slips` is a history of which have failed (of setting
RTS, until it is set again). A context that has saved nothing has `Unset` in its
`saved`: whatever `malloc` returned, which closing then gives to the line.
`LineAsAgreed` says which of its parts hold in spite of them: a connected line has the
speed and the mode that its context takes it to have.

`NextAddress` has the rule of the protocol independent backend for its result: a connect
is successful if the context has a descriptor (modbus-tcp.c:443), be it an old one. No
property is about that result (see the end of the next section).

### Polling

One action per turn of the chunk loops (`ReadParameters`, `ReadStatuses`), per
way out of them (`ParametersFail`, `ParametersDone`, `StatusesFail`,
`StatusesDone`) and per outcome of the lookup by serial. `PortsToRead` is the
arithmetic of the loops at microinverter.cpp:34 and 59. A port's data is
represented by the number of the pass it was read in.

### PortDisplay

`MayExceed` and `MayNotExceed` are the comparison at port.cpp:102 in integers.
Both may hold for a product that is exactly the power: the code compares
`float`s, and rounding may decide either way. `Erased` then is the set of
parameters that may go. `ReadValue` is `getValueFromRegisters`: the registers
printed in decimal one after the other and read back as one number. `energy` is
the counter in each slot of the DTU, which goes on by itself (`Produce`), `value`
what was last read of a port. The scan reads a port from its own slot
(`ScanPort`), but files it under the address of the next (`FiledSlot`,
dtu.cpp:81), which is where updates read it (`UpdatePort`): the last port is then
read from a slot without a port, whose registers may hold anything. The update of
a microinverter may break off, and the next one's goes on (`UpdateFails`).
`updated` is a history of the ports that an update has read. `Extended` is the
extension of the shared list; the order in which the code appends does not matter
to the properties, and is that of `SetToSeq`. `shown` is the line of each port.

### CommandLine and Session

An argument is what it looks like to the parser: a short or a long option with
what is attached to it, a word with its parts between commas, or the mark `--`.
`ParseSingle` is CLI11's `_parse_single`, one argument at a time; `Thrown` lists
what the parser would throw in the order of `App::_parse` and `App::_process`,
of which only the first is thrown. `Callback` has the conversions by the type of
`main`'s variable, among them the widths of `uint16_t` and `int`.

The other variables of `Session` are `main`'s, the register map, the content
of the member `rtuId`, which this constructor does not initialise (so it is any
value of `Garbage`), and what the run does. `WithSlave` is `modbus_set_slave`
with its range check. `Aborts` is an assertion of the RTU backend on a slave
address that was never set, or the exception of an unparsable serial. `Signal`
may happen anywhere. Writes are modelled by the slot whose registers they touch;
what they change there is not.


## 3. Runs

| Run | Question | Result |
|---|---|---|
| `discovery` | Does the scan implement `PrefixDiscovery` (the inventory is the run of slots before the first refusal), is everything in it once, does a microinverter's start address stand for the filed addresses of all its ports (all of them one slot past the real one, see the findings), does the scan end, is its backtracking dead? | yes |
| `modbus` | With late, lost, damaged answers and closed connections, over TCP, RTU and TCP with recovery: are answers matched to requests, is a confirmed write done, does every call return, does only a loss reduce the lag, would recovery bring the client back in step? | yes |
| `modbus_link` | Byte by byte and with every function code: do the calls keep the promises of `RemoteMemory`, do receivers take whole messages, does a server listen again after it has passed over a request of a slave that stays silent? | yes |
| `modbus_context` | With failing stages, dying peers and a network that goes away: does no call leak a descriptor or use a closed number, does every call end, is the serial line as agreed as far as the library looks at what the driver answers? | yes |
| `polling` | Does the age bound that of the statuses, do updates leave prefixes, are requests legal, does each pass end? | yes |
| `polling_parameter_age` | Does the age bound that of the parameters? | **no** |
| `session` | Does the spelling of a line not matter, does a transport come with what it takes, is only a connected DTU polled, are writes tried in order and all of them, do runs end or go on as they should? | yes |
| `session_address` | Do requests carry the address given with `-a`? | **no** |
| `session_write` | Does a write reach the chosen microinverter only? | **no** |
| `display` | One current per port, for good, an HM at its own scale, lines that show what was asked; totals of updated ports that never fall and never run ahead of the slots they are read from, within one register? | yes |
| `production_rollover` | Do totals never fall when a counter passes 65535? | **no** |
| `display_all` | Does `-A` show all parameters of every port? | **no** |

The five that fail are findings; `PROJECT.json` quotes the line each contradicts.

- **Writes and polls go one slot too far.** The scan advances the address
  (dtu.cpp:81) before it files the microinverter and the port under it. A write
  to a microinverter of one port changes the state of the one after it. The
  updates use the same address: each port is filled from the slot after its own,
  and `-T` shows for a microinverter more or less than its ports have produced.
- **The address given with `-a` is overwritten** by an uninitialised member
  (dtu.cpp:62), whenever that happens to be in the range of slave addresses.
- **The age says nothing of the parameters.** An answered request for statuses
  sets it to 0 (microinverter.cpp:74), although the parameters of the same pass,
  and of any number before it, could not be read.
- **A counter that passes 65535 Wh is shown as 10 Wh.** Its registers, 1 and 0,
  are put one after the other as decimal digits (portParametersGeneric.cpp:76).
- **With `-A` the current of an MI is not shown once an HM was printed.** The
  list of names that all ports share is only looked through while it is shorter
  than what the port has (port.cpp:166).

More things one should know, which follow from the models and have no run of
their own:

- One slot that fails three times hides all microinverters behind it, also on a
  register map without holes: the scan reads nothing after a refusal
  (`NothingAfterRefusal` says so and is proved). A later slot is never tried.
- Over RTU the late answer to a read is accepted as that of the next read with
  the same number of registers. No identifier is in such an answer: that is why
  `trusted` ends with it in `RemoteMemory`.
- With 21 ports or more the statuses are asked for with 126 registers, which
  `modbus_read_registers` refuses: they are never read, and the microinverter
  ages for ever (microinverter.cpp:59). `SmallRequests` proves that up to 20
  ports every request is legal.
- An MI that is first read at night, or with a measured power at or below voltage
  by current, loses the current with its own scale for the rest of the run
  (port.cpp:102 compares 0 > 0).
- On a serial line a raw request with a function code of no known length leaves
  bytes behind, because the checksum is taken too early (modbus.c:1124 is not
  reached); `Measured` excludes it from `NothingLeft`.
- A server that passes over a request for another slave skips the next message,
  whatever it is: if that slave is silent, and a request for the server itself comes
  before the timeout of a response is over (modbus-rtu.c:296), it skips that.
- Over the protocol independent backend a connect may report success without a
  connection: its result is that of `ctx->s < 0` (modbus-tcp.c:443), and a context
  whose connection has died, and which was not closed, keeps the old descriptor when no
  address of the name can be reached. (This program connects over TCP and serial lines
  only.)
- The value to write has no initialiser (main.cpp:89): without `-V` whatever it holds
  is written (main.cpp:145).
- `-h` counts whatever its value, even `--help=false`, and `--write=false` is
  enough for the options that need `-w`.
- An option without an attached value takes the next argument even if that is an
  option: `TakesNoOption` is the condition of `SpellingsAgree`. The option may be the
  last of a cluster of flags: spelled apart, `-wS -wA` is `-w -S -wA`, and `-S` takes
  `-wA` for its value in both; but `-wA` behind `-S` spelled apart is `-w -A`, of which
  `-S` takes `-w` alone. A condition that looks only at arguments with one option
  leaves this line in.

### Bounds, and why they are enough

- `discovery`: 4 slots, so that there are slots before, at and behind a refusal,
  and two microinverters of two ports; 3 tries as in the code; four labels, of
  which two decode to one serial and one is unparsable. All register maps, and
  all patterns of failed reads, are enumerated.
- `modbus`: 3 identifiers and answers up to 2 calls late, the largest delay
  below a full round, so that the identifiers wrap while answers are under way.
  Requests: two blocks of one size, one that is too large, and two writes of one
  value to different addresses.
- `modbus_link`: every function code, in and out of range of a mapping whose
  blocks begin at different addresses and whose ten bits do not fill two bytes;
  raw requests with wrong contents, requests for another slave and a broadcast.
  Two calls, so that one fault reaches the call after it.
- `modbus_context`: two contexts and three descriptors, enough for a connection
  beside a listener or a serial line and for a closed number to be given out
  anew; a name with two addresses, so that one can fail; a rate of 14400 that no
  constant stands for; two faults, one descriptor lost by the program, and one kind of failure
  that the library does not look at (`MaxSlips`), any number of times. A
  program is one of four (what its contexts are and which settings it changes),
  1 478 983 states between them.
- `polling`: a microinverter of 20 ports, so with four requests for its
  parameters and one at the limit of 125 registers for its statuses, and one of
  one port; three passes, so that data two passes old exist; choices that are
  empty, have a repetition, or a serial that does not exist.
  `MaxPasses` only bounds the endless loop of `main`.
- `session`: all lines of up to three arguments out of fifteen (options, clusters
  of flags, attached values, numbers, words, nothing, the mark), and 360 whole
  lines of a transport, a task and a choice; register maps that are empty, hold
  a microinverter of two ports before another one, or two of one port each, and
  garbage in `rtuId` that is -1, the right address, another one, or out of range.
- `display`: two ports of an HM before one of an MI, readings by day on either side
  of the comparison and equal to it, at dusk, and by night; lists given with `-P`
  that are empty, hold a current, do not exist at all, or repeat a name; counters
  of zero, a power of ten and the width of a register, also in the slot past the last
  port, 319 275 states. The rollover run has counters past that width.

### Fairness

- The program is sequential, and each call it makes returns: weak fairness of
  `Next` in `Discovery` and `Polling`, of `Step` in `Session`.
- In `ModbusClient`, weak fairness of `Calls` (the loop calls again), of
  `Returns` (a wait ends by its answer, its timeout or the end of the connection)
  and of `DtuWorks` (a DTU works on; it may lose answers all the same when
  `Lossy`). `CallReturns` is what the timeout guarantees.
- In `ModbusContext`, weak fairness of `Library` (a call goes on with its stages,
  and a timeout that was given to select() strikes) and of `NetworkReturns`,
  without which a send with link recovery repeats for ever by design. That bytes
  come is not fair: a receive ends by its timeout, if it has one.
- In `ModbusLink`, weak fairness of `IgnoringEnds`: a server that waits for a
  confirmation to ignore has a timeout, which select() lets strike with nothing read
  (modbus.c:398). Nothing else there is fair.
- Nothing is assumed of signals, losses, closings: they may never come.
- `BackInStep` supposes in its own statement that from some time on no call ends
  with its answer still to come. Without that no client could catch up.

Where `CHECK_DEADLOCK FALSE` is set, the system really stops: a scan and a run of
the program end, and `polling` and `modbus_link` end at their bounds of passes and
calls.


## 4. Theorems

Every proof is checked from its leaves. Nothing is assumed but the `ASSUME`s of
the module, on types of constants, and what is named here.

| Theorem | Says | Assumes |
|---|---|---|
| `Discovery_proofs!TypeCorrect` | `[]TypeOK` | |
| `Discovery_proofs!BacktrackNeverTaken` | the branch that steps back is dead | |
| `Discovery_proofs!RefusalIsFinal` | after a refusal nothing is read or filed | |
| `Discovery_proofs!EachEntryOnce` | one entry per serial, one port per number | |
| `Discovery_proofs!AnchoredAtFirstPort` | a microinverter starts at its first port | |
| `Discovery_proofs!PortsContiguous` | a port's filed address is the start address plus its position | each microinverter's slots in one run (`Grouped`, in the property) |
| `Discovery_proofs!ImplementsPrefix` | the scan implements `PrefixDiscovery` | |
| `ModbusClient_proofs!TypeCorrect` | `[]TypeOK`, all settings | |
| `ModbusClient_proofs!TcpAnswersItsRequest` | a successful call has its own answer | TCP |
| `ModbusClient_proofs!TcpSuccessInStep` | a success leaves nothing outstanding | TCP |
| `ModbusClient_proofs!LagIsForever` | the lag falls only by a loss | no protocol recovery |
| `ModbusClient_proofs!ConfirmedIsExecuted` | a confirmed write was carried out, both backends | |
| `ModbusLink_proofs!TypeCorrect` | `[]TypeOK`, all requests, raw ones included, and all faults | |
| `ModbusLink_proofs!NothingIsLeft` | on a line where nothing has gone wrong, receivers take whole messages and leave no byte, both backends | `Measured`, in the property |
| `ModbusLink_proofs!PromisesKeptUntilTrouble` | every step is one of `RemoteMemory`, both backends, every function code | `Untroubled` so far |
| `ModbusLink_proofs!PromisesKept` | `ModbusLink` implements `RemoteMemory` (`MemorySpec`) | `Untroubled` always |
| `ModbusContext_proofs!TypeCorrect` | `[]TypeOK` | |
| `ModbusContext_proofs!NothingIsLeaked` | no call leaves a descriptor that nobody knows | |
| `ModbusContext_proofs!OneOwnerEach` | no closed number is used, none has two owners | |
| `ModbusContext_proofs!LineStaysAsAgreed` | the serial line is what its context takes it for | the line works; without what follows an unnoticed failure to save or restore its settings or to set RTS |
| `Polling_proofs!TypeCorrect` | `[]TypeOK` | |
| `Polling_proofs!AgeIsHonest` | the age bounds that of the statuses | limit of 125 registers |
| `Polling_proofs!FreshnessIsPrefix` | no port is older than one after it | |
| `Polling_proofs!SmallRequests` | requests are legal | limit of 125, at most 20 ports |
| `Session_proofs!IgnoringChangesNothing` | only a connected DTU is polled | |
| `Session_proofs!TransportComplete` | a transport comes with all that it takes | |
| `Session_proofs!TypeCorrect` | `[]TypeOK`, the parser included | |
| `Session_proofs!WritesAreInOrder` | a write tries each chosen microinverter once, in order | |
| `Session_proofs!SpellingsNeverMatter` | two spellings of a line have one outcome, from every point of the parse | no option takes another for its value (`TakesNoOption`, in the property) |
| `PortDisplay_proofs!TypeCorrect` | `[]TypeOK` | |
| `PortDisplay_proofs!OneCurrentKept` | one current per decided port | |
| `PortDisplay_proofs!DecidedOnce` | a decision is never revised | |
| `PortDisplay_proofs!HmDecidedRight` | an HM keeps its scale | its power is 0 with its current (`HmReadings`, in the property) |
| `PortDisplay_proofs!ReadBack` | a counter is read back right if and only if it fits one register | |
| `PortDisplay_proofs!NeverAhead` | the total of updated ports is at most what is counted where updates read | counters fit one register |
| `PortDisplay_proofs!NeverFalls` | the total of updated ports never falls | counters fit one register |
| `PortDisplay_proofs!LinesRight` | a line shows nothing twice, and with `-A` all there is | the conditions in the property |

The arguments:

- **Dead backtracking.** `BacktrackUnreachable` is inductive: `lastSuccesful`
  false forbids a read, so `registerCount` stays -1, so no slot is taken, so
  `lastSuccesful` stays false. `RefusalIsFinal` follows from it.
- **The inventory.** `Filed` says what one filing makes of an inventory that is
  unique and anchored; `OnlyTakingFiles` that nothing else changes it.
  `Following` adds that the buffer of a successful read holds the slot the loop
  is at and that as many slots were taken as were passed, with which each step of
  the scan maps to a step of `PrefixDiscovery` or a stutter.
- **Contiguous ports.** `Runs`: every port lies in the slot that its place
  in its microinverter says, and every slot passed is that of a port. In a
  grouped map the next slot of a known microinverter holds a port that it lacks,
  and the slot before it is of the same microinverter; that slot was passed, so
  it is that of its last port (`NextOfRun`). Filing the slot therefore
  lengthens the run by one (`RunAppended`).
- **TCP answers its request.** That the answer fits is not inductive: one has to
  know of every message under way. `InStep` says that the distance of a
  message's identifier from the current one is its age and that ages are at most
  `MaxLate`; that ages fall from the front of either queue to its end, and that
  everything in `dtuIn` is younger than everything in `stream`; and that a
  message of age 0 carries the pending request. Since `MaxLate < TidMod`, an
  identifier equal to the current one means age 0 and hence the right request,
  and as the youngest message of all it is also the last one, which gives
  `TcpSuccessInStep`. That an answer be less than 65536 calls late is the only
  assumption on the DTU.
- **Lag.** Counted action by action: each call that ends by an answer takes one
  and each request adds one. Only a flush, a loss or the end of the connection
  removes one alone, and without recovery there is no flush.
- **Confirmed writes.** `Confirmations`: each answer under way that confirms a
  write is that of a write in `executed`. The echo names operation, address and
  value, which is the whole request (`EchoNamesRequest`), so accepting it
  confirms that same write.
- **Bytes under way.** That what `modbus_reply` writes fits its mapping needs that the
  request has the bytes which the reply reads. A message is whole if it has the length
  that its own bytes tell (`IsMessage`); what a receiver takes is whole
  (`MessageTaken`), whatever comes behind it, so a request has its arguments
  (`RequestShape`), a legal one writes values of its block (`WrittenType`), and
  the answer is bytes that fit a frame and say how many they are
  (`ResponsePduType`, `ReplyType`). On the other side a client function's arguments
  are bytes of a frame too (`RequestPduType`), and a checksum is two bytes
  (`CrcType`, by induction over the message). `TypeInv` adds to the types
  that the messages the other slave has to answer are whole (`OthersWhole`).
- **Nothing is left.** The invariant `LeftInv` is that a line on which nothing has gone
  wrong is `Orderly`: the connection is up, and it is in one of four states. It is
  quiet, with at most one whole answer on its way to the client that waits; or the
  server is asked, by one request behind what it still hears of others; or it is done
  with a broadcast that the other slave has yet to read; or the other slave is asked. What
  a server on a serial line still hears of others (`Overheard`) is the smallest set of
  byte sequences with the empty one to which a request for another slave with its
  answer can be added in front. The server takes them off one message at a time, and
  whether it is to ignore an answer next is part of the state of the exchange it is in
  (`Heard`); so what it reads begins with a message of the kind that it expects
  (`OrderlyFront`), it takes that one and no more (`MessageFirst`), and never
  gives up (`GivesUpLeft`). Where the other slave has answered,
  an exchange is added behind what was heard and not in front; that this is as good
  follows from the set being the smallest (`OverheardMore`, `HeardMore`). Behind a raw
  request of an unknown function code over TCP there may be bytes that its length does
  not count; the server refuses it and flushes them (`RequestServed`). A step that is in order
  only while requests are `Measured` can rely on it, because `asked` and `faults`
  only grow (`Grows`, `CleanBefore`). When the server may not act nothing is left for
  it, and an idle client has taken its answer (`LeftInvLeaves`).
- **The calls keep their promises.** `Untroubled` is that nothing has gone wrong, that
  requests are `Measured`, and that no raw request was to write, since `RemoteMemory`
  does not say what such a one does. `LeftInv` has two parts for it: while the
  client waits, what stands behind what the server still hears of others is the frame of
  its request (`AskedServer`), and once an answer has come for a request to this memory, it
  is the right one (`AnswerFor`, in `Answered`): its check finds it whole, the request
  has had its effect, and `check_confirmation` accepts it with the values that the memory
  holds, or else the request was out of range and is not accepted.
  `RightAnswer` shows that of the answer that `modbus_reply` makes of the frame that a client
  function has built. A frame says what was asked (`FrameSays`, with `Says`), word by word
  and bit by bit: what was packed comes out again (`PackedBack`, `OctetBack`, `HoldsWords`).
  So the server finds it legal exactly if the memory has what is asked
  (`Carried`), and writes what `RemoteMemory` says; the masked write is where the two
  differ most, the code's by bits and the abstract one by a sum over all sixteen
  (`MaskedIsSum`). Carried out again it would change nothing (`EffectOnce`). What the
  client takes out of the answer is what the server has put there, both count on the same
  length, and the echoes are equal (`Confirmed`); an exception is not
  taken for success (`ExceptionTaken`). The checksum of what was sent is right (`OwnFrame`).
  With that each step maps to one of `RemoteMemory` (`StepRefines`): the server carries
  out the request of the client and no other (`ServedRefines`), and a client that runs into
  its timeout has asked somebody else (`MayAct`, `Quiet`).
- **Descriptors.** `JobInv` says where in its route a job has its descriptor.
  `Owners` is `OneOwner` with what is still being made: a context in the middle
  of a direct connect has a socket or a line that is not up yet, and it is the
  job's. `Owned` is that every number in use is known to somebody. Together
  they are inductive; each way out of a stage either hands the descriptor on or
  closes it (`Replaced`, `Dropped`, `GivenUp`).
- **The serial line.** `Sole` says that one context at most is of a serial line.
  `Agrees` says what that context may believe at each stage of connecting: before
  the line is open it has the speed it was found with; once it is open, that speed
  is saved in the context; once it is up, the speed is the context's. Closing
  restores the saved speed from each of these points. A line that has broken
  is excluded, because restoring it fails. That what was saved is what was found, and
  that a line without a context is as it was found, holds as long as it is `Reliable`:
  no descriptor was lost and saving and restoring have never failed unnoticed. The rest
  of `Agrees` does not depend on it.
- **Honest age.** In the middle of a pass the age of a microinverter that is
  still to be handled may owe one for this pass. `AgeOwed` says which;
  `AllOrNothing` says that statuses are read with one request or not at all,
  which is where the limit of 125 enters: with it the statuses of 21 ports
  are never read in part. A larger limit makes the theorem false, for the
  first answered chunk of several clears the age of all ports.
- **Freshness.** `PrefixInv` adds to the property that of the update in progress:
  the ports done have this pass's number, which no other exceeds.
- **Currents.** `OneCurrent` together with the types of the two functions is
  inductive; `HmDecidedRight` adds that `Erased` of an HM's reading is
  `pvCurrentMI`.
- **Polling only connected.** `FoundByConnection`: without a connection the
  inventory is empty, and the loop wants one.
- **Complete transports.** `AcceptedByNow`: from the end of the parse on the needs of
  all options are met on the command line, and what `main` knows of `-r` and `-t`
  was on it. Following `Needs` from either of them gives the rest.

- **Totals.** `ReadBack` is arithmetic: the digits of the low register are at most
  five, so the concatenation multiplies the high register by at most 100000 where
  65536 were right, and never by 65536. `NeverAhead` and `NeverFalls` are about a
  microinverter whose ports have all been updated, since before that its values are
  partly of the ports' own slots and partly of the slots after them; they need that
  no port is decoded from its own slot again (`ScanFirst`), and
  that a sum over ports is monotone in its terms (`FoldDefines`, by induction over
  the set of ports). Their hypothesis `OneRegister` (what is produced stays below
  65536) is what the finding of the run `production_rollover` shows to be
  necessary: with larger counters the code shows less than before.
- **Lines.** The shared list is without duplicates while the command line names
  nothing twice, it keeps what the command line asked for, and it is only extended
  by what the port at hand has (`ListInv`). What a line shows of it is a
  selection, which keeps order and injectivity (`SelectedMembers`).
- **Types of a run.** Every argument the parser works off is one again, also the rest
  of a cluster of flags, and results are arguments. What `main` takes for an integer
  converted to one: the callbacks throw otherwise (`AcceptedConverts`), and the parse is then not
  accepted. Between the scan and the writing the inventory is a selection of the
  register map, so every microinverter that is written to has a slot
  (`TargetsAreThere`).
- **Writes in order.** `WriteInv`: once a write is under way the choice has been filled
  in, and the attempts are the selection of the part of the choice gone through.
  Appending one to the part appends one or none to the selection
  (`SelectedWithOneMore`), and the selection of a beginning is a beginning of the
  selection (`SelectedFromBeginning`).
- **Two spellings.** `SpellingsAgree` is about two parses of lines of different
  lengths, and needs of the state only its type. `Alike` says when two states of the parser are in step: they have collected the
  same, and the one has left the line of the other spelled apart, of which a flag of the
  first argument may have been taken already. A step of each leads to states that are
  alike again (`StepAlike`): an argument that names nothing moves in both (`MoveAlike`), a
  flag is taken off a cluster or off the front (`FlagAlike`), and an option finds its value
  attached or behind it (`ValueAlike`). The last needs what its value is without
  the two `CHOOSE`s of `ParseValue` (`Takes`): the first argument that is not empty, and for
  a list the words behind it, which are spelled like themselves (`SpelledWords`).
  `TakesNoOption` is handed on to the rest of a line and to a cluster that has lost a
  flag (`TakesNoOptionLater`, `TakesNoOptionCut`). Behind the mark nothing is looked at any
  more, and the states agree in whether anything is left over. `ParseAll` is a fold; the
  lemmas `ParseSteps` and `ParseEnds` make it a sequence of steps that is still from
  the size of its line on (`PartsTaken`: a step makes the line smaller), so that both
  spellings are at their ends after as many steps as both lines have parts.
- **Induction over data.** `Recursion` derives induction over the natural numbers
  and over finite sequences from the least element of a set of numbers, in a form
  that quantifies over sets and not over operators, and with it that a recursive
  function, a fold over a set and `FlattenSeq` satisfy their equations.

### Only model-checked

- Liveness (`ScanEnds`, `CallReturns`, `BackInStep`, `CallsEnd`, `PassEnds`,
  `OneShotEnds`, `PollsUntilKilled`, `ListensAgain`), which is beyond this prover.
- What `RemoteMemory` promises once something has gone wrong. That holds within the bounds
  of `modbus_link` and is no theorem, for it is not true of every setting: a damaged
  message may happen to have a right checksum; identifiers recur after 65536 calls; and a
  client without recovery that runs into its timeout in the middle of a message reads on
  within it, where registers may hold what looks like a frame.

## 5. What is not modelled, and why

- Of CLI11: subcommands, positionals, validators, configuration files, the
  environment and the formatting of help. No option of the program uses them.
- Of libmodbus: the quirks, backends and `set_rts` functions of the user's own,
  `modbus_set_socket`, delays, the parity and sizes of the serial line, the
  conversions to floating point of modbus-data.c, and the code for Windows.
  The program uses none of them, or passes constants through to the driver.
- DTU-wide commands and sums of `Dtu`, `turnOff` and `isOff` of `Port`: called from
  nowhere, and what they promise depends on what the DTU makes of a write to its
  own registers. Two things about them are visible from the code alone: `isOff`
  is true for a status of 1, while `turnOff` writes 0, and `getCurrentOnOff` divides
  integers. SunSpec: no object of it is ever made.
- Scaling of single registers: a division without state. The missing sign of
  temperatures is listed as a hazard.
- The value to write when `-V` is left out is uninitialised. It is passed on
  unchanged, and no state depends on it.


## 6. Plan

The order was that of importance: discovery and the Modbus client first, since
everything shown or written depends on them; then the reading loop, what is shown,
and the run; then libmodbus below its messages, connecting, and the command line.

What could still be added, in the order in which it would say most:

1. `Polling` and `Discovery` over a client that may be out of step, so that a stale
   answer over RTU reaches the inventory and the shown data: which of their
   invariants survive.
2. A line of `ModbusLink` with three slaves, and two faults in place of one.
3. Decoding of single registers, with the sign of temperatures.
