# WIZ550SR firmware: TLA+ models, model checking and proofs

The WIZ550SR is a serial-to-Ethernet module: an STM32F103 with a WIZnet W5500, a chip that
runs TCP/IP itself and shows its sockets as registers. `src/WIZ550SR_App` is the application,
`src/WIZ550SR_Boot` the boot loader that replaces it. There is no operating system: a main loop
calls everything over and over, and three things go on under it at the same time: the interrupt
handlers (data UART, millisecond timer), the W5500 with the network behind it, and resets.
This directory holds TLA+ modules for the parts of the firmware where these meet, TLC
configurations that check them on small instances, and TLAPS proofs for every instance.

    tlc -workers 2 -config s2e_conn.cfg MCS2eConn      model-check one run
    tlapm S2eConn_proofs.tla                           check the proofs of one module

`PROJECT.json` lists the components, the runs, the code lines each definition stands for, the
hazards and the theorems. Paths below are relative to `src/`; App = `WIZ550SR_App/src`, Boot =
`WIZ550SR_Boot/src`.

## 1. Inventory

| part (code) | state | operations | what makes it correct | here |
|---|---|---|---|---|
| Ring buffer (App `PlatformHandler/ring_buffer.[ch]`) | storage, two free-running 32-bit counters | Insert, InsertMult, Pop, PopMult, Flush, counts | the count stays in 0 .. size through every wrap; a FIFO | `RingBuffer` |
| Data UART (App `uartHandler.c`) | `txring`, `rxring`, CR1's interrupt enables, data registers | `UART_read`, `UART_write`, `UART_buffer_flush`, the interrupt handler | nothing lost, reordered or duplicated between main loop and handler; no lost wake-up | `UartRing` |
| Serial-to-Ethernet data mode (App `S2E/S2E.c`) | `net->state`, `mixed_state`, the flags and times, `prev_len`, the status of this pass | `s2e_run` with one handler per socket status, `auth_process`, `ether_to_uart`, `uart_to_ether` | password before data; roles; pace of connects; idle, dead and unauthenticated connections end | `S2eConn` |
| Millisecond timer (App `timerHandler.c`) | the same flags and times, ms and s counters | `TIM2_IRQHandler` | timers and pass agree on who owns a flag | `S2eConn`, `Trigger`, `NetStart` |
| W5500 socket calls (App `ioLibrary/Ethernet/socket.c`) | a socket's status, receive buffer, `sock_is_sending` | socket, close, listen, connect, disconnect, send(to), recv(from) | the status machine the callers rely on | `S2eConn`, `AtSock` |
| Serial trigger, packing (App `S2E.c:45-411`) | guard-time states, `pattern_offset` | `trigger_*_process`, packing conditions | "+++" with its guard times, and only that, leaves the data mode; a block leaves when time, size or delimiter says so | `Trigger` |
| AT commands (App `ATcmd/cmdrun.c`, `atcmd.c`) | `sockstat`, `sockbusy`, the command under way | open, close, send, receive, DNS query | a socket is claimed once and given back closed; every command is answered | `AtSock`; NSET, FDNS: `NetStart` |
| AT socket events (App `ATcmd/library/sockutil.c`) | watched events and callbacks per socket | `sockwatch_*` | whatever a socket can report is watched for | `AtSock` |
| Configuration protocol (App `Configuration/`) | the packet `S2E_Packet` | search, set, reset, firmware upload | an accepted request is stored before the reset | the update request, `Net_Conf` |
| Configuration storage (App `storageHandler.c`, `eepromHandler.c`) | EEPROM | page-wise read, write, erase | a reset during a write | the update request, in `BootUpdate` |
| DHCP client (App `dhcp.c`) | `dhcp_state`, lease, retries | `DHCP_run`, `parseDHCPMSG`, timeouts, conflict check | an address is in use whenever the loop runs; a lease is the address in use, and is renewed | `Dhcp`, `NetRenewal` |
| DNS client (App `dns.c`) | retry count, seconds, both kept between lookups | `DNS_run` | a lookup ends | `Dns` |
| Boot loader update (Boot `main.c`, `flashHandler.c`) | flash, stored request, progress | `application_update`, erase, write, jump | a partial image is never run, through power failures | `BootUpdate` |
| TFTP client (Boot `tftp.c`, `netutil.c`) | state, block, port, retry timer, write point, packet buffer | `TFTP_run` and its receive handlers | blocks stored once, in place, in order; the download ends | `BootUpdate` |
| Start-up and main loop (App `main.c`, `gpioHandler.c`) | where main is, failures counted, `run_dns` | DHCP, then DNS, then the loop under the watchdog | the start ends without any server | `NetStart` |
| Platform drivers, register access, loop-back examples, vendor libraries | | | | not modelled: register input/output and third-party code |

How they interact: the UART handler and the main loop share the rings and CR1; the timer and
`s2e_run` share the `xxx_flag` / `xxx_time` pairs without masking each other; `s2e_run` reads a
socket's status once a pass and acts on it while the W5500 moves on; the application hands the
boot loader a request through the EEPROM and a reset; the boot loader meets a TFTP server that
knows nothing of its resets.

What is hard to test in it, and therefore what the properties are about: interrupts between the
load and the store of CR1 or between two stores of a flush; a status used after it is stale;
flags that outlive the connection they were raised for; timers restarted by what the peer sends;
unsigned variables that receive negative error codes; late, repeated and foreign TFTP packets;
power failing between any two writes. `PROJECT.json` lists each hazard at its line with the
properties that would catch it, or the reason why none does yet.

## 2. What the modules model

### RingBuffer, ByteFifo, UartRing (MCUartRing)

`RingBuffer` translates `ring_buffer.[ch]`: a ring is its storage and two counters that wrap at
`Modulus = 2 * Half` (2^32 in the build, a constant here) and are masked by `Size - 1`.
`GetCount` reads the difference as a signed number, as the C code does. The bulk operations
exist as the two segments the code copies.

`UartRing` adds the callers. The interrupt handler preempts the main loop and runs to completion,
so `Isr` is one action, and a main-loop step needs `~IrqPending`. A call of the main loop is cut
wherever it touches what the handler touches: load and store of `USART_ITConfig` (`txMask`,
`txLoad`, `txUnmask`, ...), each segment of a copy, and each store of `RingBuffer_Flush`, whose
order the compiler may choose (`FlushOrders`). The firmware flushes both rings with the interrupts
on: `rxring` where the data mode finds no connection, `txring` together with it where the command
mode begins (`S2E.c:386`) and where MDATA leaves it (`cmdrun.c:914`). `TxShift` and `LineByte` are
the hardware. `UART_read_blk` repeats `UART_read` and adds no action of its own. A byte that arrives while the
data register is full is lost in the receiver, as in the chip.

`ByteFifo` is the promise to the rest of the system, a bounded FIFO that may also be cleared:
what goes in comes out in order and once. `TxCarriesInOrder` and `RxCarriesInOrder` say that the
two rings, with interrupts, masks, segments and counter wraps, implement it.

One thing breaks the transmit ring: a transmit interrupt between the two stores of its flush, after
which the counters no longer belong together and a revolution of old bytes may go out, or new ones
be stranded, until the next flush (finding 1). The variable `torn` remembers that this happened; no
step reads it. The properties of the transmit ring are about the states outside it (`TxWhole`), and
`TxCarriesInOrder` takes a torn ring for an empty one: what it sends is not accounted for. The
receive ring needs no such condition.

### S2eConn (MCS2eConn)

One TCP or UDP socket in data mode, in all four working modes. A pass of `s2e_run` is a sequence
of actions along `pc`: `ReadStatus`, `NetworkState` (the flush of `rxring`, `net->state`, the
decision to ask for the password), the handler of the status that was read (`SockClose`,
`SockInit`, ...), then `AuthLook` / `AuthRecv` (`auth_process`) or `RecvLook` / `RecvTake` /
`Forward` (`ether_to_uart`) and `SendLook` / `SendOut` (`uart_to_ether`). The cuts are where the
code reads the chip again or uses something it read before; between them the network
(`PeerConnects`, `PeerData`, `ConnectionLost`, `LinkChange`, ...), the serial line and the timer
may take any number of steps. `Millisecond` and `Second` are `TIM2_IRQHandler`; `Second` is the
tick on which the seconds counters run as well, and how many ticks a second has is left open.
Where the code clears a flag and its time by two stores, the tick that may fall between them is
part of the action (`ResetReconn`, `AuthDone`).

Abstracted: payload is right or wrong as part of a password (`Bytes`) or merely counted (serial
data); a pass may or may not find the packing conditions of `uart_to_ether` met, and
`ether_to_uart` may or may not find room; the serial trigger is off. The configured addresses and
ports are valid: with a zero in one of them `socket` or `connect` fails before the chip is touched,
and every pass tries again. `send` closes the socket itself when the chip reports a time-out
(`SendOut`). `session` and `since` are
history: who opened this connection, whether its password was right, whether payload went
through, and the ticks since the last unanswered connect. `net->state` is part of the stored
configuration, so a run may start with any value of it. `net->reconnection = 0` is excluded (the
timer would then clear the flag at every tick, which is no pace to speak of).

### Trigger (MCTrigger)

What the data mode does with the bytes in `rxring`, which `S2eConn` only counts: the packing
conditions of `uart_to_ether` and the guard-time states of the serial trigger. The ring is a
sequence of bytes here (`UartRing` shows that it behaves as one). A pass is `ReadStatus`, one
action of the trigger's state (`TriggerNone`, `TriggerReady`, `SearchPart`, `PartCount`, ...; cut
where `trigger_flag` or the count of the ring is read twice), `Look` (the conditions and the length), `Take` and
`Send`. `SerialByte`, `Tick` and `Link` may happen between any two. `FirstEnd` is
`RingBuffer_SerachPattern`, with what becomes of it when the offset lies behind the data: the
unsigned difference makes it look through bytes that are gone, perhaps for ever (`hang`, which
only the watchdog ends). `Offset` caps the offset at `Far`, from where every search starts
behind any count.

The search offset is reset by a flush in mixed mode only. In server, client and UDP mode it stays
behind, and the next search runs over the whole storage (`S2E.c:265-274`): bytes that were sent long
ago, and whose slots were not written since, may then pass for the code, and the command mode is
entered though nobody typed it. `CodeSeen` and `OffsetInData` are therefore about mixed mode, and
`CodeSeen` about the others only while the offset lies within the data that has come since.

Seen while modelling, and left as the code has it: a full `rxring` without a delimiter is never
sent when the delimiter is the only condition, hence `~Due` in `DataGoes`; a `+` that arrives
between the search and the store of `ready_cnt` is taken for old, so that the code is not
recognised, and one between the two counts of a part of the code likewise; and a `trigger_flag` that reaches 2 between its check and the search skips the
guard time behind the code.

### AtSock (MCAtSock)

The socket commands of the AT mode, the watches and the callback. The build has one such socket.
A pass is one command (`Nopen`, `NcloseTcp`, `SendData`, `Mdata`, ... or `NoCommand`), then
`sockwatch_run`, one action per watched event in the order of its bits, each with what
`atc_async_cb` does about it. The chip and the peer (`Network`, external) move between any two.
Where a call blocks, `pc` waits (`waitClose`, `waitData`, `waitCls`) until the chip is done or
the watchdog resets the module; `CRITICAL_ERR` is the place `halt`.

Seen while modelling: a connect that is refused, or whose connection ends before `sockutil.c:203`
looks, is never answered, because only ESTABLISHED and TIMEOUT are looked for (`Overlooked`); a
client whose connect failed sits in INIT, where its NCLOSE is never answered (`NeverOpened`);
MDATA gives the socket back and leaves `sockbusy`; after the first NSEND the socket is a blocking
one, so the next `disconnect` may wait longer than the watchdog does; a time-out between the two
reads of the tried close ends in `CRITICAL_ERR`. These are named in `BusyEnds` or reach the
watchdog; none has a document to disagree with, so they are no findings.

### Dhcp, Dns, NetStart (MCNetStart)

`Dhcp` has one action for each thing a call of `DHCP_run` may do (`Discover`, `Request`,
`Assign`, `Decline`, `Refused`, `Renew`, `Wait`, `Repeat`, `GiveUp`, ...). The client checks
neither transaction nor server, so the next message may be any message at any time, which is the
whole network model. `Dns` is the waiting lookup; its counters outlive it. `NetStart` composes
the two: the start phase of `main` (`StartDhcp`, `StartAddress`, `StartDns`, ...), the main loop
with the commands that touch the clients (`Nset`, `Fdns`), the second of the timer interrupt, the
watchdog, which is enabled from the loop on, and servers that fall silent.

What this shows about the code, stated in the model where it matters: a NAK leads to DISCOVER
without sending one, and an exhausted REQUEST too, so offers that nobody acknowledges keep the
start phase going for ever without a failure (`StartEnds` therefore assumes silence);
an address stays in use after a NAK and through time-outs; `DNS_run` may take nine seconds in a loop
whose watchdog takes one. `run_dns` starts as 1 (`main.c:52`), so the first pass of the main loop
looks up as well: with a name server that is down the module is reset again and again, right after
each start.

A renewal that grants another address changes nothing: `dhcp_ip_update` is never called, since the
address is compared with a copy of itself. `AddressInUse` is therefore about the address the lease
began with. `NetRenewal` adds what the last acknowledgement of a renewal granted, for what `dhcp.h`
says of it (finding 4). `Renews` says little of time: that no finite lease is kept for ever without
a renewal being asked for or the module starting anew, not when it asks.

### FirmwareSlot, BootUpdate (MCBootUpdate)

`BootUpdate` follows an update from the request in the application
(`process_firmware_upload_init`: `StoreRequest`, `StoreRest`, because the storage is written page
by page: after the first part the request may name no server, or still that of an older request) through the reset, the boot loader's `application_update`, the passes of `TFTP_run`
(`TimeoutCheck`, then `Receive` or `ReceiveNothing`), `save_data` (`ErasePage`, `WriteStart`,
`WriteEnd`), the end (`UpdateFailed`, `ClearRequest`) and the jump. `PowerFails` is enabled in
every state: flash and EEPROM keep what they have, a page under the pen is `Torn`, the rest
starts again. The TFTP server and the network are external: every packet that a port of the
server ever sent may arrive, now or later, once, often or never; a repeated read request opens
another port. `Lingering` says whether a transfer that began before a reset may still send
afterwards. A block's content is its number; one block fills one page of the model, where the
code erases all pages on block 1 and then writes at a running write point.

`FirmwareSlot` is the promise: the image is replaced only on request and never while it runs, a
request is settled only when the new image is whole, and only a whole image runs. `KeepsSlot` is
the refinement, with `image`, `wanted` and `running` mapped to flash, request and `pc`.

## 3. Runs

| run | module, bounds | shows |
|---|---|---|
| `uart_ring` | MCUartRing; ring of 2, 3-bit counters, chunks of 1 and 2, two byte values, both rings flushed in both store orders; two states whose rings have the same counters and hold the same bytes are one (`MCView`) | types, the ring is never touched unmasked, no lost wake-up, counts in range, both rings implement `ByteFifo` (1.6 million states) |
| `uart_flush_tx` | the same without `MCView` | **violation**: a transmit flush need not leave the ring empty |
| `s2e_conn` | MCS2eConn; all modes, with and without password, password of 2, reconnection 2, inactivity off or 1, receive buffer of 2 | types, `AuthBeforeData`, `MixedRole`, `PacedConnects` (1.7 million states) |
| `s2e_live` | client and mixed, password set, timeouts of 1 | `AuthDeadline`, `IdleCloses`, `ClientRetries`, `SerialConnects`, `LinkLossNoticed` |
| `s2e_inactivity` | server, inactivity 2 | **violation**: an expired inactivity timer of the last connection ends the next one |
| `s2e_recv_error` | server | **violation**: a failed `recv` is forwarded as 65529 bytes |
| `boot_update` | MCBootUpdate; 4 blocks, 3 server ports, timeout 2, 3 retries, no lingering packets, power failures | types, `OnlyWholeRuns`, `WritesErased`, `BlocksInPlace`, `KeepsSlot`, `QuietWithoutInput`, `DownloadEnds` (207 thousand states) |
| `boot_linger` | 3 blocks, lingering packets | **violation**: success is reported for an incomplete image |
| `trigger` | MCTrigger; ring of 4, bytes `+` and `x`, guard time 2, five settings | types, `OffsetInData`, `CodeSeen`, `PacketsAsConfigured`, `DataGoes` (591 thousand states) |
| `at_sock` | MCAtSock; server, client and UDP | types, `ReleasedIsClosed`, `TriesAreBusy`, `NothingMissed`, `BusyEnds`, `EndNoticed`, `PeerServed` (2662 states) |
| `net_start` | MCNetStart; two addresses, leases of 2 seconds and for ever, waits of 2 and 3, one repetition, one failure allowed | types, `AddressInUse`, `StartEnds`, `Renews` (333 thousand states) |
| `net_renewal` | NetRenewal; the same with leases of 2 seconds | **violation**: the address a renewal grants is not put to use |

Why the bounds are enough. A ring of 2 with 3-bit counters is full, empty, split over its end and
wrapped within a few bytes, and a chunk of 2 takes both segments; the proofs then lift what
matters to every size. In `S2eConn` a password of 2 in a buffer of 2 has a part of the password,
a wrong one and a full buffer; a reconnection time of 2 distinguishes "now", "one tick short" and
"expired"; one serial byte is enough because only its presence is looked at. In `BootUpdate` four
blocks have a first, a last and two between them, so a repeated block is neither the next nor
the last, and three ports allow a repeated read request and one after a power failure. In
`Trigger` a ring of 4 holds the code and a byte around it, or two packets of 2, and the five
settings are the trigger alone, each packing condition alone, and two mixtures. `AtSock` is finite
as it stands. In `NetStart` two addresses let a later message offer, or a renewal grant,
another one than the lease began with, and the client compares addresses with nothing that tells more
apart;
`MaxTick` (3) lies above every limit that the seconds are compared with. Counters are bounded in the guards or by `AtMost`, which keeps a time at the limit that the code compares
with `>=`.

Deadlock is checked in every run: none of the systems may stop.

### Fairness

* UART: none, the properties are safety. A byte that arrives on a full receive ring ends all
  progress: the handler does not read the data register, its cause stays, and the main loop never
  runs again. No property promises otherwise.
* Data mode: `WF(MainStep)` (the main loop runs), `WF(Second)` (the timer ticks), and weak fairness
  of the W5500 giving up on a SYN or FIN, by its own retransmission limit. Nothing is asked of
  the peer, the serial line or the link.
* Boot loader: `WF(MainStep)` and `WF(Tick)`. Nothing is asked of the network; power may keep
  failing, which the `~>` of `DownloadEnds` counts as an end of that download.
* Trigger and packing: `WF(MainStep)`, `WF(Tick)`, `WF(Watchdog)`. No byte has to come, the command
  mode may last, and nothing is asked of the socket.
* AT sockets: weak fairness of the main loop's parts (a command or none, then each look), of a
  blocking wait *or* the watchdog that ends it, and of the chip giving up on a SYN or FIN.
* Start: `WF(MainStep)`, `WF(SecondProcess)`, and of a watchdog that has been starved for more than
  its second. Nothing is asked of a server; in `StartEnds` they have to be silent.

## 4. Proofs

Seven modules, one for each component that is run and a second one for the UART, prove theorems for
every value of the constants, from the assumptions named in the modules only (`RingAssumption`,
`UartAssumption`, `S2eAssumption`, `BootAssumption`, `AtSockAssumption`, `TriggerAssumption`,
`DhcpAssumption`, `DnsAssumption`, `NetStartAssumption`), which the runs evaluate. Every invariant,
every `[][A]_vars` property and every refinement that a passing run checks is also proved. What is
left to TLC is liveness; of three of those properties the part that is about single steps is proved,
that a bounded quantity only ever falls and what makes it fall (`PasswordCountsDown`,
`DownloadCountsDown`, `StartCountsDown`).

**UART, interrupts and indices** (UartRing_proofs: `TypeCorrect`, `ExclusiveAccess`, `ReceiveSafe`,
`NoLostWakeup`, `NoOverrun`, `TornByFlushOnly`). For every ring size, counter width and chunk length
(`MaxChunk < Half`, because `num` is an `int`), and whichever rings are flushed. `IInv` is inductive
without any condition; it needs what the properties do not say, because it is true between two steps
of one call only: a CR1 that `USART_ITConfig` has loaded and not yet stored has every interrupt that
is still enabled (`LoadedCr1`: meanwhile only the handler changes CR1, and it only turns TXE off),
the second segment of a copy fits (`SegmentFits`: the other side only makes more room, or more
data), and half a flush of the receive ring has let at most one byte in (`HalfFlush`). The receive
side needs nothing else, so that nothing that befalls the transmit ring reaches it (`ReceiveSafe`).

The firmware flushes `txring` too, and the handler may then tear the counters apart, as
`uart_flush_tx` shows. `TxUnlessTorn`, inductive together with `IInv`, holds the transmit side's
invariant from each whole flush to the next torn one; `NoLostWakeup` and `NoOverrun`, the properties
of `uart_ring`, follow. `TornByFlushOnly` says that nothing else tears the ring: a run in which no
transmit interrupt is due between the two stores of a transmit flush (`TxFlushHit`) has none.

**UART, contents** (UartFifo_proofs: `TxInOrder`, `RxInOrder`, `TxLosesByFlushOnly`,
`RxLosesByFlushOnly`, `FlushClears`). Both rings implement `ByteFifo`, the transmit ring counted as
empty from a torn flush to the next one. The contents of a ring are a sequence computed from storage
and counters, so the lemmas say what each operation of `RingBuffer` does to it: slots repeat every
`Size` counts although the counters wrap at `Modulus`, because one divides the other; a write of the
handler or of a segment appends what it writes (its slots are beyond the contents and different from
each other); advancing the tail leaves a suffix; a copy is what stood in front. The first store of a
flush is the only step that takes more than the application gets, on either side
(`TxLosesByFlushOnly` for whole rings, `RxLosesByFlushOnly`). `FlushClears` is the converse of the
counterexample of `uart_flush_tx`: a flush that the transmit interrupt does not meet leaves the ring
empty as ring_buffer.h says, whatever state it found it in.

**Data mode** (`TypeCorrect`, `Authenticated`, `RolesAgree`, `Paced`, `PasswordCountsDown`).
For every mode, password length, buffer size and timeout. `ConnInv` has six parts beside the types:
`StatusInv` bounds what the socket may have become since the pass read its status, and says that
a socket that is not connected yet is only handled by a pass whose `net->state` is back at
"disconnect"; `OpenerInv` ties `mixed_state` to the connection from listen or connect on;
`SeenInv` says that a pass knows a connection before it asks for the password and that
`auth_flag` is not raised again while it stays up; `AuthInv`, the heart, says that a peer that
owes the password is one no pass has seen yet or one that `auth_flag` stands for, so every path
to the data handlers is closed; `PaceInv` relates `reconn_flag` and `reconn_time` to the time
since the last connect (with the tick that two stores can lose); `DataInv` keeps the password in
the buffer between look and take, and a timer that is off at zero.
`PasswordCountsDown`: as long as a connection owes its password (`Doubted`), the pair of what may
still change in the receive buffer (`Changes`) and the seconds left of the wait (`Patience`) never
grows in the lexicographic order, every second in which the clock runs and every change makes it
smaller, and a pass that finds the wait over ends the connection. A stream of wrong bytes puts the
end off at most as often as the buffer has bytes.

**Boot loader.** On any network, lingering packets included: `TypeCorrect`, `ProgramsErased`,
`StoresInPlace`, and `StaysQuiet`, for which the packet left in the buffer has to be known to
be one that has been dealt with (`BufInv`). If no packet
of an earlier boot is left (`~Lingering`): `RunsWhole`, `SuccessWhole` and `ImplementsSlot`, the
refinement of `FirmwareSlot`. Three layers: `FlashInv` describes the flash by the point a download
has reached (pages erased so far, blocks 1 .. `wp` - 1 in place, the one being written);
`NetInv` says that the server is at most one block ahead of what was acknowledged and that
nothing was acknowledged that is not in the flash, so the last block can only be the one that was
due; `SlotInv` says that the request stands until the image is whole. `boot_linger` shows that
`NetInv`, and with it the promise, needs its assumption.
`DownloadCountsDown`, again of every network: blocks still to come, time-outs left and seconds left,
in this order, never grow while a download lasts; each second and each time-out makes them smaller,
and the clock that counts them is on until the download has failed. That a repeated or unexpected
block does not start the clock again is what makes it true.

**Trigger and packing** (`TypeCorrect`, `SearchEnds`, `CodeTyped`, `Packed`). For every ring size,
code of three bytes, guard time and settings. The lemmas say what a search that starts within the
data finds (`SearchInData`, `DelimiterFound`) and that appending a byte moves nothing
(`AppendKeeps`). The invariant adds where each state of the trigger can meet each place of the
loop (`Places`: bytes are only taken in NONE and READY, so the code is never cut), how far a code
that has begun reaches (`CodeBegun`), and that a packet whose length is decided is in the ring
(`PacketReady`). `CodeTyped` promises the three bytes of the code in mixed mode; in the other modes
only where the search ended within the data, which after a flush that left the offset behind it need
not.

**AT sockets** (`TypeCorrect`, `ReleasedClosed`, `OneAnswer`, `EverythingWatched`). For every set
of protocols. `AtInv` ties the allocation to the chip: which status a claimed socket may have for
each set of watches, and at each place of `sockwatch_run` what the looks before it have left.

**Start** (`TypeCorrect`, `AddressHeld`, `StartCountsDown`). For every set of addresses and leases,
and all limits. `LeaseInv`: an address that was offered stays known until it is acknowledged, and the one in use
is never taken back; with it every call that answers LEASED leaves an address in use, the one the
lease began with or the stored one (`AddressHeld`; not always the one granted last, see finding 4).
`StartCountsDown`: when no server answers, what is left of the start, as the phase, the failures
still accepted in it, the way through one attempt (a request that is given up leads to DISCOVER, a
DISCOVER that is given up is a failure), repetitions and seconds, never grows; every step of main
that finds more to do than to wait makes it smaller, and so does every second that finds main
waiting. It needs that only the address of a request is declined (`DeclineInv`).

Only model-checked: liveness (`AuthDeadline`, `IdleCloses`,
`ClientRetries`, `SerialConnects`, `LinkLossNoticed`, `DownloadEnds`, `DataGoes`, `BusyEnds`,
`EndNoticed`, `PeerServed`, `StartEnds`, `Renews`). Weak fairness is about `ENABLED`, which this
prover cannot reason about, and the end of a descent needs an induction it does not do: from the
three countdowns to `AuthDeadline`, `DownloadEnds` and `StartEnds` these two steps are missing.

## 5. Where code and documents differ

1. `ring_buffer.h:86` says that a flush "Resets the ring buffer to empty". With the transmit
   interrupt on, a pop between its two stores leaves the counters apart (`uart_flush_tx`).
2. `inactive_flag` outlives its connection: the first pass over the next one takes it and
   disconnects (`S2E.c:524`, run `s2e_inactivity`).
3. `len` in `ether_to_uart` is a `uint16_t`, so `if(len < 0)` never holds and an error of `recv`
   is forwarded as 65529 bytes (`S2E.c:139`, run `s2e_recv_error`).
4. `dhcp.h:78` and `:100` promise that a changed address in an acknowledgement is put to use; the
   client compares its own address with a copy of it (`dhcp.c:765`) and goes on with the old one
   (run `net_renewal`).
5. In `STATE_DATA` any short DATA packet ends the download with success, whatever its number and
   port (`tftp.c:449`, run `boot_linger`).

## 6. Not modelled

The modules stand for the parts of the firmware that decide something while something else is
going on. They cover about 3500 source lines: nearly all of `S2E.c`, and of the timer, ring buffer,
boot loader main and DHCP sources what is not printing or message layout. That is a small share of
the repository, because some 115 thousand of its lines are the chip vendor's, in two copies. Left out,
and why:

* Vendor code: CMSIS and the STM32 peripheral library (in both trees, most of the repository's
  lines), `w5500.[ch]` and `wizchip_conf.c` below the socket calls, `loopback.c`, which nobody
  calls. It holds no state of this program, and the chip behind it appears as external actions.
* Start-up and drivers (clocks, pins, SPI, I2C, UART and timer configuration): straight-line
  register access. The I2C driver is bit timing.
* Configuration storage and the configuration protocol, beyond the update request: a set request
  copies one structure, writes it page by page and resets. A reset between two pages leaves a
  mixture that nothing detects and nothing promises to; the pages on which the boot loader acts
  are in `BootUpdate`. The boot loader's copies of these files are near identical.
* Text: the line editor and the argument checks of `atcmd.c`, the layout of DHCP and DNS messages,
  names and their compression. The AT commands that only copy an argument into the settings or
  print one (MMODE, MPASS, MNAME, MUSART, MSAVE and the queries).
* Failing flash operations: the code prints the error and goes on.
* Progress of the UART: with a full receive ring there is none (section 3), and up to that point it
  rests on the ratio of character times to instructions, which the model does not have.
* `socket` and `connect` called with an address or port of zero: they fail before the chip is
  touched, and the pass tries again.

One limit of the composition: `S2eConn`, `Trigger` and `AtSock` each take the data mode, the
commands and the connection they do not describe as a source of any legal input, rather than
running together; their product would be beyond TLC and would add no step that one of them does
not already allow. `Trigger` takes the connection as authenticated, `S2eConn` leaves open whether
a packing condition is met, and both flush `rxring` where the code does.
