# A verification of the Riden dongle firmware

The firmware (C++ for the ESP8266) puts a Riden power supply on a WiFi network. It talks Modbus RTU to the
supply over one serial line and offers it to the network four ways: a raw SCPI socket, VXI-11, Modbus TCP and a
web page. Here are TLA+ models of its core, the TLC configurations that check them and TLAPS proofs about them.

Everything is one thread: `loop()` in `main.cpp` calls each server's `loop()` in turn. What makes the program
hard is that a handler which needs the power supply waits for it *inside* its call and runs the Modbus library
meanwhile, which may call back into another component; that the library's, the handlers' and the clients' ideas of
time differ; and that two servers share one SCPI parser, with its buffers, while their clients come and go.

## Inventory

| Component (source) | State | Operations | Hard behaviour | Correct when |
|---|---|---|---|---|
| `RidenModbus` (`riden_modbus.cpp`) | `initialized`, `timeout`, the library's active transaction | `begin`, `loop`, three register operations, about 80 accessors on top of them | waits with a time limit while the library has another; late answers; `millis()` wraps | a result reported as good is the answer to this very request; every call returns |
| `RidenModbusBridge` (`riden_modbus_bridge.cpp`) | `transaction_id`, `slave_id`, `ip`, the library's raw callback | `modbus_tcp_raw_callback`, `modbus_rtu_raw_callback`, list and disconnect clients | a callback waits without a limit; the other callback runs in somebody else's wait; lost answers | each TCP client gets the answer to its request, once, under its own transaction number |
| modbus-esp8266 and the power supply (not in the repository) | active transaction, its age and buffer; the line | `task`, `readHreg`, `writeHreg`, `rawRequest`, `onRaw`, `server` | answers lost, late, refused, spoilt | (environment) |
| `RidenScpi`, socket server and parser (`riden_scpi.cpp`) | `client`, input buffer, `write_buffer`, `external_control`, `external_output_ready` | `loop`, `read`, `write`, claim and release, flush, disconnect | partial lines; clients that go away before their answer; another server takes the parser over | only whole lines of one client are executed; answers go to whoever asked |
| `RidenScpi`, commands | SCPI error queue | 26 handlers | failed reads; writes that arrive late; units and conversions | an answer is what the supply held while it was asked; what was acknowledged holds |
| `VXI_Server` (`vxi_server.cpp`), `SCPI_handler` (`scpi_bridge.h`) | `client`, port | `loop`, `create_link`, `destroy_link`, `read`, `write`, disconnect | a client that drops its link without `DESTROY_LINK`; unread output | one client at a time; control of the parser is held exactly while a client uses it |
| `RPC_Bind_Server`, `cyclic_uint32_t` | the buffers of both transports; a port counter | bind requests over UDP and TCP | no answer while a VXI-11 client is connected; port rotation between bind and connect; late or lost packets | the port in the answer is the one listened on; every client is served in the end |
| `RidenHttpServer` | none | status, details, set, toggle, configuration, reboot, disconnect, upload | pages read in pieces; read, then write; failures half way | what a page shows belongs together; a toggle changes the output it has seen |
| `RidenConfig` | configuration, config portal flag | `begin` with migration, getters, setters, `commit` | reset between two steps | a valid configuration is always read back; the portal opens once |
| `main.cpp` | `connected`, `has_time`, `did_update_time` | `setup`, `loop` | boot retries; a failure of mDNS ends the boot; the NTP answer arrives at any time | the web page comes up; the clock is set once time is known |
| time zones, `http_static.h`, logging; WiFiManager, mDNS, OTA; scripts | tables, generated or third-party code | | | not modelled |

`RidenScpi` and `RidenHttpServer` call `RidenModbus`; `RidenModbusBridge` uses its library object directly (it is a
friend) and installs a callback in it; `VXI_Server` calls `RidenScpi` through `SCPI_handler`; the web server calls
`disconnect_client` of the three others. All share the one serial line.

`PROJECT.json` lists the hazards of each part at its source line with the properties that cover it.

## Modules

| Module | What it is |
|---|---|
| `ModbusRTU` | the library's master and the power supply, as the environment: operators the gateway's handlers conjoin |
| `ModbusGateway` | `RidenModbus` and `RidenModbusBridge` on that line, run by one thread |
| `RegisterAccess` | abstract: accesses to the power supply's registers, carried out at most once and in order; refined by `ModbusGateway` |
| `ModbusGatewayProofs` | the proofs about `ModbusGateway` |
| `RidenRegisters` | the registers, the accessors of `RidenModbus` and their conversions, as tables and operators |
| `RegisterCalls` | a handler at work: its register accesses one by one, as `RegisterAccess` promises them, with everybody else's changes in between |
| `ScpiCommands` | the SCPI command handlers and the error queue |
| `HttpPages` | the web pages that reach the power supply |
| `RemoteControl` | SCPI clients, browsers and the clock synchronisation together |
| `RemoteControlLemmas` | what the tables and operators of these modules return: items, writes, commands, queries, plans |
| `RemoteControlProofs` | the proofs about `RemoteControl` |
| `InstrumentAccess` | abstract: the SCPI parser is free, or belongs to one VXI-11 client |
| `RidenScpi` | the parser's buffers, external control and the raw socket server |
| `VxiServer` | `VXI_Server` on top of it, with its clients |
| `InstrumentServers` | both, the web interface's disconnect and all clients, in the order of `loop()`; refines `InstrumentAccess` |
| `MCInstrumentServers` | symmetry of the connections, for its four configurations |
| `InstrumentServersProofs` | the proofs about `InstrumentServers` |
| `CyclicPort` | `cyclic_uint32_t` |
| `VxiBind` | `RPC_Bind_Server`, the listening side of `VXI_Server`, and clients that look for the instrument |
| `VxiBindProofs` | the proofs about `VxiBind` |
| `Dongle` | the dongle from power-up to `loop()`: configuration in flash, boot, portal, clock, reboot |
| `DongleProofs` | the proofs about `Dongle` |

Operators whose comment begins with "Mutant" are variants of the operator that follows with one plausible
mistake in it. No specification uses them. Each property has one that breaks it, which shows that the property and
the bounds of its run can tell the code from a wrong one.

### ModbusGateway and the code

`phase` is the program counter of the thread: `loop`, in the first or second `wait_for_inactive` of a register
operation (`wait_idle`, `wait_answer`), or in the loop of `modbus_tcp_raw_callback` (`bridge_wait`). `Call` is any
handler's call of a register operation (SCPI, web page, boot: they differ in nothing that matters to the line);
`WaitIteration` is one round of `wait_for_inactive`, the comparison with `millis()` included; `SendRequest` and
`AnswerSeen` are what follows the two waits. `TcpRequest`, `BridgeIteration` and `Forward` are
`modbus_tcp_raw_callback`; `RtuRawCallback` is the other callback, and a part of `Task`, because `modbus.task()` calls
it. `Task` occurs in `LoopTask`, `WaitIteration` and `BridgeIteration`, the three places where the firmware runs it.

A request is named by its serial number and so is its answer; only the *shape* (function and register count) of an
answer is visible to the library, as on a real RTU line. `buf` is what the running call's buffer holds (0: what was
on the stack), `data` the call whose buffer the library points to; when that call has returned, `MasterPDU` may or may
not overwrite the buffer of the call now waiting, at the same depth of the same stack. `reqs`, `replies`, `last` and
`waited` are history.

The environment's constants say how bad the line is: `PSU_LATENCY` (against `TIMEOUT`, the handlers' 500 ms, and
`LIB_TIMEOUT`, the library's one second), `PSU_SILENT` (requests or answers get lost), `PSU_REFUSES` (exceptions),
`SEND_FAILS` (the library does not take a request). `Garbled` is a frame that arrived on top of an unread one.
`CLOCK` is the modulus of `millis()`.

### InstrumentServers and the code

`turn` is which part of `loop()` comes next: the three parts of `RidenScpi::loop` (accept, read, reap; under external
control only the first), `VXI_Server::loop`, `RidenHttpServer::loop`. Clients connect, send and go away between any two
of them. A raw client sends pieces of lines, `sent[c][k]` says whether the k-th ends a line; one `LoopRead` reads up to
the first newline or all there is, as the code's loop does. A VXI-11 client makes one call at a time. An answer is named
by the last piece of the line it answers. A `WiFiClient` is true while the peer is connected *or* unread data is there
(`Alive`, `VxiAlive`); whether `connected()` agrees when only data is left is left open. `INPUT_LENGTH` is
the buffer size in pieces. `done`, `rawOut`, `vxiOut` and `holder` (the client whose `CREATE_LINK` claimed control) are
history; `holder` is also the refinement mapping for `owner` of `InstrumentAccess`.

### RemoteControl and the code

Four modules, each extending the one before it: `RidenRegisters`, `RegisterCalls`, `ScpiCommands`, `HttpPages`;
`RemoteControl` puts them together. The line is not modelled here again: a register access is `Perform` (it is
carried out), `Answered`, and possibly `GiveUp`, after which a write may still be carried out (`PerformLate`), though
before any later access. That is what `RegisterAccess` says, and `ModbusGateway` refines `RegisterAccess` when the
power supply answers every request in the library's time; on a worse line the gateway's own runs show what happens.

A handler is a list of accesses, `todo`, with its name in `task`; `got` is what its reads returned, `failed` that one
has failed. Handlers stop at a failed access but for those that show firmware version and serial number and the speed
test (`GoesOn`). `Start` and `End` are entry to and return from a handler, which in the code is a call from `loop()`:
no two handlers run at once, but `Move` (front panel, power supply, Modbus TCP clients by way of the bridge) and
`PerformLate` come between any two of their steps. `history` holds the registers at each moment since the running
handler, or the last one, began; `asked` what each setting was last acknowledged to be, `touched` who has interfered;
all three, and `reply`, are history.

`Layout` is `riden_modbus_registers.h`, the tables `MeasurementCalls` ... `PresetCalls` the accessors, `Encode` and
`Decode` their conversions. A voltage or current is a whole number of 1/10000; `LevelToValues` cuts it to the model's
step and may lose one step more, as `uint16_t(voltage * v_multi)` does in doubles, and takes any outcome the compiler
may produce when the product does not fit. `SetCommands` and `Queries` say of each SCPI command which values it lets
through and which accessor it calls. A handler that fails pushes an error, but for `OUTPut:MODE?`; the error queue is the
library's, `Push` its overflow.

### VxiBind and the code

`turn` is which server `loop()` calls next, in its order: `Bind` (`RPC_Bind_Server::loop`), `Vxi` (`VXI_Server::loop`),
`Http` (a disconnect, the start of a firmware upload, or nothing). `process_request` reads its request from the buffer of
the transport that `onUDP` names, and the answer carries the number found there; `BindTcp` includes what
`get_bind_packet` does when bytes come late: without the length it gives up, without the rest the buffer still holds
the request before. `begin_next` stops the server and moves to the next port unless the range is one port; whether the
library forgets connections it has not handed out is left open. What is said over a link is `VxiServer`'s, so here a
connected client is `open` until it leaves (`leaving`), closes (`half_closed` with an unread call, `done` without) or
falls silent (`vanished`). Clients number their requests independently, so two may use the same number. `fresh`,
`mishaps` and `told[c].late` are history.

Before it answers a TCP client the code waits until there is room to write in, without a limit. If the client has aborted
there never is: the thread is `held` and nobody is served any more (`BindTcpAborted`, `VxiAborted`, `Held`). `VxiServer` has
the same wait, in `send_vxi_packet`; it says what may go wrong, not what must happen, and a thread that stands still does
no wrong, so it leaves the wait out.

### Dongle and the code

`pc` is where the thread is: `begin` and `psu` are the two calls in `setup()`, `wifi`, `portal`, `in_portal` and
`connect`, `mdns` and `no_mdns` the parts of `connect_wifi`, `loop` and `http` the two halves of `loop()`; `reset` stands before `ESP.reset()`.
`RidenConfig::commit` is called from four places, so it has labels of its own (`commit`, `write`) and a return label
(`after`). `flash` is what the EEPROM library's sector holds: a configuration of version 1 or 2, or something else
(`Erased`: `begin` treats all of that alike). The library erases the sector and then writes it. The configuration, 112 bytes, fits
in one page of the flash, so a power failure leaves all or nothing of it; after the erasure it leaves nothing.
With a power supply, and so a host name, `connect_wifi` begins mDNS next (`BeginMdns`); when that fails an endless loop holds
the thread (`HeldByMdns`). The form of `handle_config_post` is filled in with any name and any rate: `OtherNames` are texts
that are no time zone, `Bauds` has rates other than the power supply's.
`Told` is the redirect that ends `handle_config_post`: from then on the user believes that the settings are saved.
`posted`, `spoiled`, `clock_set`, `asked` and `opened` are history. `connected` stands for `RidenModbus::initialized`
as well until `setup()` copies the one to the other.

Five seconds of calls of `RidenModbus::begin` are `BOOT_TRIES` calls. A supply that has not booted, or whose rate is not
the configured one, does not answer; one that could answer may be too late. The power supply feeds the dongle, so
`PowerFailure` resets both; `ESP.reset()` resets the dongle only. WiFiManager's own portal, which `autoConnect` opens
when it knows no network, is a part of `connect`.

## Runs

All runs but `RemoteControl` check for deadlock; there the bound on handlers ends every behaviour. With symmetry, which
only safety runs use, clients are interchangeable.

| Run | Bounds | Shows |
|---|---|---|
| `GatewaySafe` | 2 clients, 3 reads, latency 3 > library's 2 > handlers' 1, clock 4; silent, refusing, failing; fair | `TypeOK`, `ForwardedOnce` in the worst environment, and `HandlersReturn`: every wait ends |
| `GatewayHealthy` | 2 clients, 3 requests, latency 2, clock 5; nothing lost or refused; fair | `HonestResult`, `AnswerMatchesRequest`: late answers and nested callbacks do no harm as long as every request is answered before the library gives up; `ClientAnswered`: every TCP client then gets an answer; and `ImplementsRegisterAccess` |
| `ServersRaw` | 2 raw, 1 VXI-11, 3 pieces, buffer of 2 | `TypeOK`, `RawLinesIntact`, `RawGetsOwnAnswers` |
| `ServersVxi` | 1 raw, 2 VXI-11, 2 writes each; drops | `VxiAnswersKept`, `ControlOnlyWithLink`, `ImplementsAccess` |
| `RemoteControl` | 2 handlers, 2 changes by others, 5 of the items watched (currents, treated like voltages, are left to the theorems), an error queue of 2, one voltage | `ShownTogether`, `AcknowledgedHolds`, `SettingsReadBack`, `ToggleFlips` |
| `VxiBind` | 1 UDP and 2 TCP clients, 2 ports given in reverse, 2 mishaps, uploads that fail; fair | `AnswersOwnRequest`, `ToldPortListened`, `ClientsServed` |
| `DongleLife` | 1 time zone and a name that is none, 2 rates of which the default is wrong, 2 calls at boot, 2 reboots, 1 power failure, 1 flash fault; fair | `SettingsSurvive`, `PortalOnRequest`, `WebPageComesUp`, `PortalOpens`, and `ClockGetsSet` for a supply that takes the time when told |

Three requests are what the interesting schedules need: one that gets lost or late, one that meets its leftovers, one
more that meets both. A clock of 5 with a timeout of 1 wraps in the middle of waits. Two clients of a kind are enough
for what one leaves behind for the next. Three pieces with a buffer of two give a line that fits, one that does not,
and a rest without a newline. Two reboots, one of them into the portal, with one power failure and one flash fault let
each of the four saves (defaults, flag set, flag cleared, settings) be the one that is cut short, with a boot after it.
Two handlers are one that leaves something behind (a late write, a setting) and one that meets it; two changes
by others are one on each side of a page's chunk or of a toggle's halves. The items watched have registers at the end
of a chunk that would be 16 long, two registers, a conversion with a step, a clock, a byte and a flag among them. 0.29 V is
a level whose product in doubles is not a whole number. Three clients are one that is served, one that waits for its
answer and one whose connection waits; two mishaps are one that breaks the retry after another.

Five runs end in a violation; each is a place where the code and what it says of itself part.

| Run | What TLC finds |
|---|---|
| `GatewayLostAnswer` | the answer to a forwarded request is lost; the raw callback stays installed, and the next handler's answer goes to the TCP client under the old transaction number, while the handler's read succeeds with an uninitialised value |
| `GatewayClockWraps` | just before `millis()` wraps a wait gives up at once |
| `ServersDropped` | after a VXI-11 client went away without `DESTROY_LINK` the server has dropped it, or accepted another one, and control of the parser is still held: the raw server stays disabled |
| `ServersUnread` | a client goes away with an answer unread, which stays in `write_buffer`; the VXI-11 client that reads next gets it in front of its own answer |
| `DongleClock` | the one `set_clock` of a boot fails, `did_update_time` is set all the same, and the clock is never set |

More were seen while modelling and have no run. A request the power supply refuses with an exception, and
one the library drops, are reported as a success (`riden_modbus.cpp:720`, `:754`), other than `riden_modbus.h:131` says.
When `rawRequest` fails, the error is addressed to the slave's number instead of the client's IP address (`riden_modbus_bridge.cpp:90`, `Forward`). After a handler's
time-out the library still holds the address of a buffer on its stack (`riden_modbus.cpp:715`, `data` and `MasterPDU`).
A toggle whose read fails switches the output on (`riden_http_server.cpp:470`).
`OUTPut:MODE?` gives neither answer nor error when its read fails (`riden_scpi.cpp:444`). The full page's calibration
may be torn, registers 55 to 62 lying on both sides of a chunk's end. A level is cut, not rounded: 0.29 V becomes 0.28 V.
`SYSTem:TIME` cuts its numbers to bytes unchecked. A preset index is documented to begin at one and checked as if it
began at zero, so M9 is refused (`riden_modbus.cpp:516`; nobody calls it). A late rest of a TCP bind request is answered
with the previous request's answer and number (`rpc_packets.cpp:63`). A firmware upload that fails leaves the dongle
without UDP, so without bind by UDP, until it reboots (`riden_http_server.cpp:319`). After a disconnect by the web page
or a client's own, the port does not move on, other than `rpc_enums.h:26` says of "each time". When `MDNS.begin` fails, the boot ends in an endless loop, without web page
and servers (`main.cpp:154`). A TCP client that aborts before its answer is written holds the thread
(`rpc_packets.cpp:148`, `:183`). A `DEV_WRITE` that is longer than the parser's input buffer is dropped and answered as if it
had been carried out, with no error in the queue (`riden_scpi.cpp:706`, `WriteIgnored`).

### Fairness

`FairSpec` has weak fairness for each action of the thread (the firmware never stops between two statements, and
`loop()` is called forever by the Arduino core), for the clock, and for the power supply in the sense that a request
in its queue is at some time answered, refused or, when `PSU_SILENT`, lost. Nobody is obliged to make a request, and
nothing is assumed about when a wait and the answer meet: a wait ends because the library drops a transaction that is
too old, which is `Expired` in `ModbusRTU`. In the runs with fairness `MaxReq` bounds requests, so the thread is
finally alone with the clock.

In `VxiBind` the three servers have weak fairness, and so have clients that ask, connect and leave: a client that wants
the instrument asks again until it has had its link. `SF(DisconnectSilent)` says that of a client that has fallen silent
somebody disconnects it by the web page; the code has no time limit for a VXI-11 client, and without this no other client
would ever be served. A client that aborts before its answer may hold the thread forever; `ClientsServed` has this
as its exception. `RemoteControl` has no liveness property: its waits are the gateway's.

In `Dongle` the thread has weak fairness. `SF(WifiConnected)` says that the user's network is there: a boot that tries often
enough joins it, which for the portal means that the user fills it in. Without it the dongle would rightly reset forever. Of
`MDNS.begin` nothing is assumed: `WebPageComesUp` says that the page comes up again and again, or mDNS has failed for good.
`SF(Loop /\ clock_set')` says that a supply told the time again and again takes it at some time: a retry would be enough,
and `DongleClock` shows that there is none. Nothing is assumed of the NTP answer, of the supply at boot, or of users.

## Proofs

TLAPS proves, for every value of the constants that satisfies the `ASSUME`s:

* `TypeCorrect`: `Spec => []TypeOK` of `ModbusGateway`.
* `BridgeForwardsOnce`: `Spec => []ForwardedOnce`, in any environment. The invariant (`BridgeInv`) ties
  `transaction_id` and `ip` to a request of that client as long as the callback is installed, and says that a
  transaction number among the replies is older than the one waiting, so that the callback, which clears itself,
  cannot send it twice.
* `HonestOnHealthyLine` and `ClientsGetTheirAnswers`: `HonestResult` and `AnswerMatchesRequest` under `HealthyLine`
  (`~PSU_SILENT`, `~PSU_REFUSES`, `PSU_LATENCY <= LIB_TIMEOUT`). Neither property is inductive: that an answer in the
  receive buffer is the active request's needs `LineInv` (what is on the wire, in the buffer and active is one and the
  same request, and the library never drops it before), that a forwarded request is the active one needs its
  counterpart for the bridge, and that the running call's buffer holds its own answer needs `ThreadInv` and
  `ResultInv` (a request is sent on an idle line only). `HealthyInv` is their conjunction.

* `GatewayImplementsAccess`: `HealthyLine => (Spec => ImplementsRegisterAccess)`, with `OrderInv` besides `HealthyInv`:
  requests are on the wire in their order, each newer than all that have been carried out, and one that still waits for
  its turn is newer than all of them.

and of `InstrumentServers`, for any number of connections, pieces and calls and any buffer size:

* `ServersTypeCorrect`: `Spec => []TypeOK`, with the bound on the input buffer. `TypeInv` adds that a waiting `DEV_WRITE`
  has not used up its client's writes.
* `ControlNeedsLink` and `ServersImplementAccess`: `Spec => []ControlOnlyWithLink` and `Spec => ImplementsAccess`, every
  step of the two servers being one of `InstrumentAccess` or a stutter. The invariant (`AccessInv`) says that a connection
  is in the backlog once and only before it is served, that the flag and `holder` agree, that of all clients with a link
  only the one the server talks to may still be heard from, and that `RidenScpi::loop` gets past its first part only
  while the parser is free.
* `RawLinesStayIntact` and `RawAnswersAreOwn`: `Spec => []RawLinesIntact` and `Spec => []RawGetsOwnAnswers`. Both need to
  know what is in the buffers the two servers share. `RawInv` says: while the raw client may still send, the input buffer
  is exactly what it has sent since its last newline (`LineSoFar`) and the output buffer is empty (`BuffersInv`);
  whenever the VXI-11 server may write there is no such client (`QuietInv`, from the order of `loop()`); every line
  executed for a raw client is a stretch of what it sent, from one newline to the next (`LinesInv`); and no answer sent
  so far is of a piece the dongle has not read yet (`AnswersInv`), so the next one is newer than all of them.

and of `Dongle`, for any number of reboots, power failures, flash faults, time zones and rates:

* `DongleTypeCorrect`: `Spec => []TypeOK`. `TriesInv` adds that a call of `begin` is left whenever one is made.
* `SettingsAreKept`: `Spec => []SettingsSurvive`. `SavedInv` says that what `commit` is about to write is what the user
  knows, unless it is the user's own change (`after = "loop"`); with `SavedIsLoaded`, that `begin` reads back what
  `commit` has written, this carries the settings through erasure, write and reset.
* `PortalOpensOnRequest`: `Spec => []PortalOnRequest`. `Due` is how often the portal may still open without anybody
  asking: the flag in flash, the return to `connect_wifi` under way, and a save that will set the flag or has cleared
  it count. No step but a request or a flash fault increases `opened + Due`.

and of `VxiBind`, for any number of clients and any range of ports:

* `CyclicGoesRound`: next and previous undo each other, and only a range of one value stands still.
* `BindTypeCorrect`: `Spec => []TypeOK`, with the port in its range.
* `BindAnswersAreOwn`: `Spec => []AnswersOwnRequest`. `PacketInv` says that a datagram under way, or in the buffer, with the
  number of its sender's last request is that request.
* `ToldPortIsListened`: `Spec => []ToldPortListened`, with `Listens` (the server listens on `vxi_port`), `ToldInRange` and
  `FreshListened`.

and of `RemoteControl`, for any watched items (`Output` is one of them) of which others change any, any number of handlers
and of changes by others, any levels asked for, any supply (`PSU_ID`), and any widths of registers and bytes that hold a
year and a minute, a byte being no wider than a register:

* `AcknowledgedStays`: `Spec => []AcknowledgedHolds`. What can spoil an acknowledged setting is a write that is still to
  come: of the running handler, or one given up on (`late`). `AskedInv` says that the settings of both are not
  acknowledged, and that those which are hold now. `WrittenInv` is what makes a new acknowledgement true: once the
  handler's own write has been answered no earlier one is left, and what it wrote holds unless others have touched it
  meanwhile.
* `PagesShowOneMoment`: `Spec => []ShownTogether`. `SeenInv` says of each read that is done that what is now in `got` are
  the registers of one moment. It is kept because the reads of a page do not overlap (`PlansApart`), and it implies the
  property because each group of items that belong together lies inside one read (`PlansShow`), chunks of 20 registers
  included. `TodoInv` says that the reads still to do are the rest of that plan.
* `TogglesFlip`: `Spec => []ToggleFlips`. `ToggleInv` says that the state the toggle read was one of this request, and that
  the other one is in its history from the moment of its write.
* `SettingsAreReadBack`: `Spec => []SettingsReadBack`. `SteadyInv` says that what was acknowledged before a handler began
  held at every moment of it, so the query may have read at any of them; `QueryAgrees` that decoding undoes encoding up
  to the step of the supply's model.
* `RemoteControlTypeCorrect`: `Spec => []TypeOK`. That every value fits its register needs the ranges each command and page
  lets through; the length of `history` needs `SizeInv`, which counts the write of the running handler and a late one.

`ReplyInv` serves all of them: only the last step of a handler makes a reply, so (`RepliesStand`) a property of replies needs
to be shown of that step only. `IInv`, the conjunction of the parts, is the inductive invariant of the first four.

`RemoteControlLemmas` says of the tables, case by case, what the proofs above need of them. It is the
only place where the commands, queries and pages are gone through one by one.

and of `InstrumentServers` once more:

* `VxiAnswersAreKept`: `Spec => []VxiAnswersKept`. `KeptInv` says that as long as the holder of the parser is connected each of
  its answers is in the output buffer, ready to be read, or has been sent; `WritersInv` that lines are executed for clients
  that had a link then and, if still connected, have it now; so a client that creates a link has no answer waiting yet.

Checked by TLC only: everything about liveness (`HandlersReturn`, `ClientAnswered`, `ClientsServed`, `WebPageComesUp`,
`PortalOpens`, `ClockGetsSet`), which is beyond the prover. Violations are TLC's as well. Every invariant of
a run that passes, and both refinements, are theorems.

## Plan

1. Done: `ModbusGateway`, then `InstrumentServers` with its abstract specification, then `Dongle`; `VxiBind` with
   `CyclicPort`; the registers, SCPI commands and web pages; `RegisterAccess` and its refinement; and the proofs above.
   Twelve configurations is as many as a reader will follow, so a new run takes the place of an old one or joins it.
2. Worth modelling next: the table of TCP clients of the Modbus library with `disconnect_client` of the bridge; sizes of
   the output buffer.
3. Theorems worth proving next: that the register accesses of `RegisterCalls` are those that `RegisterAccess` promises, which
   `RemoteControl` takes from it by construction; and whatever the models of (2) promise.

## Not modelled

Sizes of the output buffer in bytes and the text of answers and pages; the accessors of `RidenModbus` that nobody calls
(calibration, single presets); the bridge's list of clients; WiFi, mDNS, OTA, how pages are rendered; time zones;
names of a time zone that do not fit their array (`riden_config.cpp:159`), and what the serial library makes of a rate of 0.
`MOCK_RIDEN` builds, which do not talk to a power supply, are not considered.
