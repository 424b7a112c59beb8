# A verification model of the Wavious LPDDR PHY firmware

The repository is the firmware of an LPDDR PHY: a FreeRTOS task that boots the
PHY, changes its frequency together with the memory controller (MC) and takes
part in the update and mastership handshakes of the DFI bus. This directory
holds TLA+ modules of its concurrent core, TLC runs and TLAPS proofs.

Paths below are relative to the root of the repository.

## 1. The system

| Component | State | Operations | Talks to |
|---|---|---|---|
| PHY firmware task, `firmware/phy_task.c` | `status.ready`, `status.error`, the state machines `fsm.fsw` and `fsm.dfi`, the queue `mq` | one handler per event | every device; answers its callers with task notifications |
| PHY firmware API, `firmware/phy_api.c` | none | `firmware_phy_start`, `firmware_phy_prep_switch`; send, wait, retry | the queue, notifications |
| PHYUPD timer and periodic calibration task, `phy_task.c:482-571` | `phyMstrEvent` | ask for an update, ask for mastership and give it back | the queue; reads `fsm.dfi` |
| Interrupt handlers, `dev/dfi`, `dev/fsw`, `dev/pll` | enable and sticky bits | queue one message, mask or clear the source | the queue |
| PLL device, `dev/pll/device.c` | current, next and previous VCO, the frequency of each, enable bits | prepare, switch, disable, calibrate | written by the firmware task only |
| Frequency-switch hardware, `dev/fsw`, `drivers/fsw` | DFI mode, PREP_DONE, POST_WORK_DONE | armed by PREP, disarmed after the lock | MC, PLL |
| DFI handshakes, `drivers/dfi/dfi_intf.c` | request lines, INIT_COMPLETE override | raise, withdraw, wait | MC |
| DFI buffer, packets and FIFO, `dev/dfi/{buffer,packet,command}.c`, `drivers/dfi/dfi_fifo.c` | packet list, FIFO masks | build commands, fill, send, flush | DRAM device, boot, PREP |
| WDDR device, `dev/wddr/device.c` | `is_booted` | boot, prepare a switch, IO calibration and update | all devices |
| Channel and sense amplifiers, `dev/channel/device.c` | calibration codes | calibrate a receiver | boot |
| Common block and ZQCAL, `dev/cmn/device.c` | driver codes | search for the codes | boot, timer |
| DRAM device, `dev/dram/device.c` | mode registers | update for a frequency | boot, PREP |
| Applications, `app/` | IDLE, READY, ERROR | mailbox requests | firmware API |

What is hard is not in any one of them: five actors of different priorities,
three kinds of interrupts and an independent MC share two state machines, one
queue and the clock tree. Requests cross on the bus, an answer may be on its
way when the question is withdrawn, the clock changes before the firmware
learns of it, a message may be dropped or answered RETRY, and every handler
spins with the highest priority on lines the MC drives.

What makes the components correct:

- *firmware task*: no handshake in the middle of a switch; ungranted requests
  withdrawn before INIT_COMPLETE rises; every switch, update and call ends;
- *PLL device*: the running VCO is never reconfigured or turned off, and
  firmware and hardware agree on it between switches;
- *API*: the answer is there when the caller looks, and it is its own;
- *interrupts*: no edge is lost, no source fires for an old request;
- *DRAM sequences*: what a call returns as prepared is complete, in the order
  of its timestamps, and each enable, word and command is in the clock the
  timings ask for, whatever was rounded, truncated or not allocated;
- *boot*: it ends, and when dfi_init_complete is released nothing is forced any
  more, whatever an earlier call left behind when it returned half way;
- *calibration*: the codes saved are the trip points, or lie in the noise of
  the amplifier; the comparator is off afterwards; in the end the copy in use
  has the codes of the table;
- *two copies of the registers*: the one in use is configured, group by group,
  for the clock the PHY runs on, and nobody writes it but an update;
- *DFI buffer*: a switch sends the mode registers of its frequency, all of them
  and only them, and gives the bus back.

## 2. Modules

| Module | Models |
|---|---|
| `PhyFsm` | the events and the two tables of transitions (`phy_task.c:104-272`) |
| `PllVco` | the PLL device as operators on a record (`dev/pll/device.c`, `wddr_sw_freq_switch`) |
| `PhyTask` | the firmware task, interrupt handlers, main task, periodic task, timer, and the MC and switch hardware as environment |
| `FreqSwitch` | the abstract specification of a frequency change, which `PhyTask` and `WddrDevice` both implement |
| `PhyTaskProps` | types, safety, fairness and liveness, the refinement mapping |
| `PhyInv` | the invariants from which those properties follow |
| `PhyTask_proofs`, `PhyClock_proofs`, `PhyBus_proofs`, `PhyHost_proofs` | TLAPS proofs: types and handlers; the clock; acknowledges, callers and masterships; the queue, the lock, a serialising host and the refinement |
| `MCPhyTask` | the TLC instance |
| `DfiPacket` | the packets of a DFI buffer and the phases filled in them, as operators (`dev/dfi/packet.c`) |
| `DramSeq` | the sequences of `dev/dram/device.c`: WRFIFO, RDFIFO and RDDQ reads, write levelling, command bus training, mode registers of a switch |
| `DramSeqProps`, `MCDramSeq` | where a sequence must put what; the timings of the shipped table |
| `DramInv` | what a table must satisfy for that, and the invariants of the loops |
| `DramSeq_proofs` | TLAPS proofs about the sequences |
| `ZqCal` | the ZQ calibration: two searches for each of two voltages, the comparator, the pairs of codes in the table (`dev/cmn/device.c`, `drivers/cmn/cmn_zqcal.c`) |
| `SenseAmp` | the calibration of the sense amplifiers of a slice (`dev/channel/device.c`, `drivers/dq/dq_sa.c`) |
| `DfiFifo` | the DFI buffer as operators on a record: clear, fill, send, disable (`dev/dfi/buffer.c`, `drivers/dfi/dfi_fifo.c`) |
| `WddrDevice` | the WDDR device, composed of these four and `PllVco`: `wddr_boot` step by step, preparation and completion of a switch, calibration under the timer, updates (`dev/wddr/device.c`) |
| `WddrDeviceProps`, `MCWddrDevice` | its types, safety, fairness and liveness, the refinement mapping; the TLC instance |
| `WddrCal_proofs` | TLAPS lemmas about the two calibrations |
| `WddrDevice_proofs`, `WddrBoot_proofs` | TLAPS proofs about the device: types, calibrations and the FIFO; the clock, the refinement and the boot |

**State.** `fsw` and `dfi` are `currentState` of the two machines, which
`stateM_handleEvent` writes after the entry action has returned; so a handler
that waits is split into labelled steps (`pc`), each ending where it first
reads or writes something another actor sees, and `fsw'`/`dfi'` is assigned in
the last one. `cur` is the message in the handler. `irqEn` and `sticky` are the
interrupt controller, `phyLines` and `mcLines` the DFI signals. `pll` is the
firmware's picture of the clock, `hwVco` the VCO that really clocks the PHY.
`notify` is the notification value of a waiting task, `main` and `per` the
position of the main and of the periodic task.

**Actions.** One action per handler step, named for the handler: `PrepBegin`
and `PrepConfigure` are `fsw_prepare_switch_handler`; `PendingBegin`,
`SendMrw`, `AbortDisable`, `AbortDeassert`, `AbortDone`, `NoAbort` and `Release`
are `fsw_pending_entry_handler`; `PostSwitch` is `fsw_post_switch_handler`.
`Dismiss` is every path on which `handle_fsw_event` and `handle_dfi_event`
change no state: refused, RETRY, or no transition.

**DRAM sequences** run in the task that calls them and share nothing with the
rest, so that `DramSeq` is a module of its own; its task meets `PhyTask` in
`PrepConfigure`, which counts the prepared buffer as one step. A call is a walk
through its packets, one step per `create_*_packet_sequence` or per group of
calls between two loops: `WrfifoBegin` and `ReadBegin` compute the groups,
`AddressPacket` is the loop of `dram_create_address_packet_sequence`,
`BurstBegin` the delay to the first enable, `WrfifoPacket`, `ReadPacket`,
`WrlvlPacket` and `CbtPacket` the bodies of the `do` loops, `Closing` the last
packet. Integers keep the widths of the code (`U8`, `U16`). A packet records
its time, the frames of the command, the DRAM cycles with enables and the index
of the words in each; the bits of a command and of the data are left out. A
buffer has `room` for so many packets, after which `create_packet` returns
NULL: `OutOfPackets` where the code looks at it, a silent skip where it does
not.

**The WDDR device.** `PhyTask` looks at the firmware from its messages and
counts `wddr_boot` and a preparation as one step each; `WddrDevice` looks from
the device and takes for granted what `PhyTask` establishes: no update and no
PREP once the hardware has moved (`Settled`). The two meet in `FreqSwitch`,
where that is a guard and which both are shown to implement.
`bp` is the label of `wddr_boot`: one action for each device call whose effect
can be seen or that waits, with every early return (`BootSliceFailed`,
`BootTrain`, a failed calibration that sets `halted`), and `BootStart` may be
called again after a failure. `Prep` is the whole of `wddr_prep_switch`; each
prep function of the source is an operator named for it (`CaTxPrep`, `DqRxPrep`,
...) on one copy of the registers. A copy records for each group of registers
the frequency it was written for, the driver codes of CK and DQS, and who has
the pads, so that a forgotten group, a stale code or a pad left in loopback
can be told. `fsw` is the frequency-switch block with the overrides; the
hardware moves in `HwSwitch`, on its own and perhaps before the firmware task
has seen INIT_START (`SwitchStart`). The FIFO is drained by the hardware
(`Drain`). A calibration (`cal`) is the same module at boot and under the
timer; in the latter the firmware task may come between any two of its
steps. The trip points are chosen anew for each calibration, since voltage and
temperature move them.

**Scheduling.** The firmware task has priority `configMAX_PRIORITIES - 1`
(`phy_task.c:306`), above the main task and the periodic task, so these run
only while it is `Blocked`; interrupts preempt all tasks. The priority of the
timer task is set in the RTOS submodule, which this repository does not hold:
`TimerSlices` chooses between a timer that runs only when the firmware task is
blocked and one that may share its priority.

**Hardware assumptions.** A DFI source latches its edge whether it is enabled
or not (the sticky bits that `dfi_init` and `fsw_init` turn on). A status bit
of the PLL is latched only while its enable is set, and enabling the lock
interrupt with the PLL locked reports the lock (comment at
`dev/pll/device.c:47-65`). The switch hardware takes part in a switch when
PREP_DONE is set. INIT_COMPLETE rises when the PLL is locked, the firmware put
the switch hardware back and its override is released.

**The MC** starts a switch only after the host was told that the PHY is ready
for it, grants mastership only outside a switch, keeps a granted acknowledge up
until the request is withdrawn, and then drops it. Two constants bound what
else it may do: `McCtrlUpd` (it uses CTRLUPD) and `McMayAckLate` (it may still
acknowledge PHYUPD during a switch). `HostSerialises` says that the host sends
no PREP while a switch is under way.

**Faults.** A definition `X_Y` is `X` with the fault `Y` planted. It is used
nowhere; substituting it for `X` shows that a property notices the fault.

## 3. Runs

| Run | Shows |
|---|---|
| `nominal` | 26 862 states. `TypeOK`; updates happen under an acknowledge and for the running VCO (`UpdateIsSafe`); a switch finds a filled buffer and a VCO (`SwitchIsPrepared`); the running VCO is left alone (`RunningVcoUntouched`); the queue never holds three messages (`QueueHasRoom`); calls, switches, updates and masterships end; `FreqSwitch` is implemented |
| `adversarial` | 967 495 states. With lost messages and locks, late acknowledges, CTRLUPD and a timer of high priority at once: nothing is open while a switch is pending, requests are withdrawn in time, acknowledge interrupts are armed only for open requests, a mastership is granted and will be given back, firmware and hardware agree on the clock, an answer is there when the main task looks; a lock is lost only with a loss of lock latched beside it or a full queue (`LockIsKept`) |
| `prep_pending` | *violation.* `firmware_phy_prep_switch` returns pdPASS for a PREP that was ignored in `fswPending` |
| `ctrlupd_boot` | *violation.* CTRLUPD is served after it was disabled; the machine stays in `dfiCtrlUpd` and answers RETRY to every switch |
| `periodic_wait` | *violation.* the periodic task waits for ever, because its request was ignored and answered SUCCESS |
| `reboot` | *violation.* a start that succeeds after a failed one leaves a firmware that refuses every event |
| `sequences` | 14 066 states. Every sequence for the four clocks of the table, reads also behind earlier packets: times increase, write and read bursts, command bus training and mode registers are where they must be, no loop runs on for ever (`RoomSuffices`) |
| `cbt_vref` | *violation.* the wait for VREF in command bus training is truncated to 8 bits at the fastest clock |
| `device` | 222 028 states. Calibrations find the right codes and turn the comparator off; nothing forced is left at the release of dfi_init_complete, after a failed boot too; software and hardware agree on clock, copy and FIFO through switches; the copy in use is touched by updates only and the VCO in use not at all (`RunningVcoKept`); `FreqSwitch` is implemented (`DeviceImplementsSwitch`); the boot ends (`BootEnds`) and the codes in use become those of the table (`CodesHeal`) |
| `sa_codes` | *violation.* the register of MSR 0 and rank 0 does not hold the codes after a calibration: clearing a bit for the search of one amplifier wipes the code of its other |
| `loopback` | *violation.* a prepare and a switch do not reset the whole loopback state: CA_RDDATA_EN stays set |
| `pll_sender` | *violation.* the uninitialised `xSender` of the PLL interrupt handler overwrites another answer |

**Bounds.** Two frequencies (two PHY VCOs take turns, so that a third adds no
new pattern). In `adversarial` one of them is invalid. `MsgQueueLen` is 16 in
the code: `nominal` uses 3, so that `QueueHasRoom` says that two slots are
enough under strict priorities; `adversarial` uses 2, so that messages are
really lost and the timer's assertion really fails. `PrepTries` is the code's 3
in `nominal` and 2 in `adversarial`. The host of `adversarial` serialises its
PREPs only to keep the run short: with `HostSerialises = FALSE` the same
properties hold on 5.5 million states, their theorems have no such condition,
and `prep_pending` runs with it. `MaxLoss` bounds the losses of lock.
`AppGuards` says whether the application
boots in its IDLE state only, as `wddr_main` does; `nominal` lets it call start
again, which the firmware refuses. In `nominal` the boot and `xTimerStart` may
fail. `StackGarbage` is what the uninitialised `xSender` may hold: NULL or the main
task in `nominal`, the periodic task in `pll_sender`, NULL elsewhere.
`adversarial` does not check deadlock, because a failed assertion stops the
MCU; `nominal` does.

In `sequences` the timings are those of `include/table/wddr/table_vals.h`, all
of ratio 1:2, and the enable offsets 0 to 8 put a group at both cycles of a
packet and on both sides of the command's end. The command takes two packets:
`Rooms` 1 runs out in it, 3 and 9 in the burst; 56 is the storage of a switch
and 64 the hardware FIFO. Most calls are documented for an empty buffer (as in
`include/dev/dram/device.h:357`), RDFIFO is not: `Lasts` has reads begin behind
packets that end at 1 (an empty buffer) or 60. The clocks are kept in 8 bits.
Offset 238 for a write, and 98 for a read behind 60, make the largest of them
255; one more wraps, which no line of the code checks.

**A disagreement no run shows.** `include/dev/dram/device.h:410-411` says that
an RDFIFO follows the last packet of the buffer by WRITE_LATENCY + BL + TWTR +
1; the code leaves 1 (`dev/dram/device.c:421-434`), as for RDDQ. `ReadAligned`
takes the code's side: the command follows all packets of the buffer, and the
enables are counted from it. How far behind them it goes is left out of the
property. Nothing in the source has a TWTR, so that the distance in the comment
cannot be stated as a run; a caller that appends an RDFIFO to a WRFIFO has to
leave the distance itself.

In `device` there are two channels of one byte and one bit: two channels for
the order of the slices and the chip select of a channel that failed, a bit
with two amplifiers for what they share; the proofs are for any number. Codes run to 3, enough for trip points and bands at,
inside and beyond either end, and for a second voltage that fails after the
first. `FifoDepth` 2 is filled by the longer MRW list. `MaxBoots` 2 is a
failed boot and the next. `BootOptions` are nothing, the amplifiers with the
VCOs, and ZQ with training; to keep the run short `RunBoots` and `RunOptions`
let only a first boot with ZQ and training go on to run time, where alone the
options matter; the proofs have no such bound on failed boots.

`nominal` needs three of its choices. With `HostSerialises = FALSE` a second
PREP that meets the INIT_START of the first uses up the only free VCO, and
the next switch has neither VCO nor packets; and a PREP after the clock has
changed, but before PLL_LOCK is handled, configures the VCO the PHY runs on.
With `McMayAckLate = TRUE` an
acknowledge between `disable_irq` and the withdrawal in an abort stays latched
and is taken for the answer to the next request; the DFI rules that
`phy_task.c:661-668` quotes leave such an MC open. With `MaxLoss > 0` a loss of
lock hides a lock that was latched with it: the switch then hangs until the PLL
loses its lock and locks again (`SwitchEnds`), and the extra messages need more
than two slots. That the lock is lost in no other way, however often the PLL
loses it, is `LockIsKept`, which `adversarial` checks with a loss. These are
hazards in `PROJECT.json`, not findings: no line of the repository rules them
out.

**Fairness** (`Fairness`). The firmware task and the interrupt handlers get
weak fairness: nothing has a higher priority. The steps by which the main and
the periodic task finish what they began get strong fairness: the timer and
the MC interrupt them again and again, but the period of the timer is orders of
magnitude longer than a handler. Starting something (`MainCall`,
`PeriodicWake`, `TimerFires`, `McInitStart`, the boot's outcome) is never fair.
The MC and the PLL get weak fairness on what they must finish: lowering
INIT_START, locking, INIT_COMPLETE, acknowledging a request and dropping the
acknowledge.

In `WddrDevice` (`Fairness` of `WddrDeviceProps`) the boot, the FLLs, the
amplifiers, the FIFO, the MC's answer to dfi_init_complete, the steps of a
switch under way and the calibration get weak fairness: the main task has
nothing else to do while it boots, and the hardware answers. The timer is
periodic, so that it fires again (`TimerFires`, `TimerReturns`). `Update` gets
strong fairness at times when no calibration runs: the MC acknowledges within
its tPHYUPD response time, the period of the timer is milliseconds. `Prep` and
`SwitchStart` are the host's and the MC's, and never fair, and neither is
`HwSwitch` before the firmware task has seen INIT_START; `CodesHeal` is about
executions in which they come to rest.

**Refinement.** `FreqSwitch` has four phases: idle, prepared, draining,
locking. It keeps apart the clock the firmware believes in (`clock`), the one
the hardware runs on (`running`), the target, the frequency each VCO is
configured for, and the requests. It says that only the VCO which does not run
is configured, that no request is raised once a switch began, that one which
was granted is carried out on the clock the firmware believes in, that the rest
is withdrawn before the lock, and that a switch completes on its target.

- `PhyTask` (`ImplementsSwitch`, run `nominal`): `Phase` maps PREP_DONE to
  prepared, the steps of `fsw_pending_entry_handler` to draining and
  `fswPending` to locking; clock and target are `p_vco_current` and
  `p_vco_next`, `running` is `hwVco`, the requests are the PHYUPD and PHYMSTR
  lines. It holds with a serialising host only. `LateGrants` is
  `McMayAckLate`: an MC that acknowledges late gets an update after the
  clock has moved.
- `WddrDevice` (`DeviceImplementsSwitch`, run `device`): `up` is the end of
  `wddr_boot`, the phase is `sw`, `running` is the VCO selected by the
  frequency-switch block, the request is that of the timer. The whole boot,
  with its own switch by override, maps to `Boot`.

## 4. Proofs

### The firmware task

For every set of frequencies, queue length, boot outcome, content of the
uninitialised sender and behaviour of the MC that the constants admit
(`PhyTaskAssumption`), under the further conditions of the third column:

| Theorem | States | Provided that |
|---|---|---|
| `TypeCorrect`, `HandlersCorrect`, `PendingCorrect`, `WithdrawalCorrect` (`PhyTask_proofs`) | `TypeOK`, `HandlerInv`, `PendingIsQuiet`, `RequestsWithdrawn` | |
| `ClockCorrect` (`PhyClock_proofs`) | `ClockIsKnown` | |
| `ReplyCorrect`, `AckCorrect` (`PhyBus_proofs`) | `ReplyIsThere`, `AckIsArmedOnce` | |
| `UpdateCorrect` | `UpdateIsSafe` | `~McMayAckLate` |
| `MasterCorrect` | `MasterIsGranted` | `Periodic \notin StackGarbage` |
| `RoomCorrect` (`PhyHost_proofs`) | `QueueHasRoom` | `~TimerSlices`, `~McCtrlUpd`, `MsgQueueLen >= 5 + 2 * MaxLoss` |
| `LockCorrect` | `LockIsKept` | |
| `SwitchPrepared`, `VcoUntouched` | `SwitchIsPrepared`, `RunningVcoUntouched` | `HostSerialises`, and `MaxLoss = 0` or `Main \notin StackGarbage` |
| `SwitchRefined` | `ImplementsSwitch` | the same |

Each condition is about another party. `~McMayAckLate` is an MC that makes no
use of a freedom the DFI rules quoted at `phy_task.c:661-668` leave it, and
without it `UpdateIsSafe` fails; `HostSerialises` is one PREP at a time;
section 3 says what happens without them. `~TimerSlices` and
`~McCtrlUpd` keep the timer and the request for CTRLUPD from queueing while a
handler runs. A loss of lock, whose interrupt the firmware turns on itself
(`phy_task.c:403`), is admitted everywhere: it brings two messages at most, the
loss and another lock, which is where `5 + 2 * MaxLoss` comes from. `MaxLoss`
counts the losses of a whole execution, so that the 16 slots of the code are
proved enough for five; losses without end, while a handler spins, do fill
any queue. The bound is safe and not tight: without losses TLC never
finds more than three messages in the queue, whenever the MC acknowledges, and
four with one loss. `Periodic \notin StackGarbage` is what
`pll_sender` is about: if the uninitialised `xSender` names a waiting task,
that task takes a lock for its answer. The main task may be named as
long as only a lock, and not a loss of lock, is signed with it: it is refused
while the task waits or comes when nobody does. Messages may be lost in all of
them but `RoomCorrect`, whose subject is that none is.

The types are not inductive alone: the last step of a handler moves the state
machine by the table row it started with, and that the row still exists
depends on the machine not having moved in between. `HandlerInv` says so for
every label, together with which request lines may be up in which state of
`dfi`; `IndInv` is its conjunction with `TypeOK`. The proof has one case per
action (`FwStep`, `IsrStep`, `TaskStep`, `EnvStep`), and lemmas about the queue,
the tables (`FswTargets`, `DfiTargets`, `DfiSources`) and the PLL (`PllTyped`).
`PendingIsQuiet` is then a conjunct; for `RequestsWithdrawn`, `OverrideDropped`
shows that only the end of the boot and `Release` drop the override, the boot
happens before `ready`, and at `Release` the invariant leaves no request but
that of a granted mastership.

`ClockIsKnown` says nothing of the time of a switch, so its invariant must.
`ClockInv` follows the INIT_START of each switch as a token: on the line and
in the sticky bit, in the queue, in the handler, in `fswPending`, consumed by
`PostSwitch`. `OneToken` says that there is at most one, and only while the MC
switches; a full queue may lose it, never double it. `ClockFollows` relates the
clock to it: before the MC moves the clock, and after a switch whose token is
gone and whose hardware is disarmed, the clock is on `p_vco_current`; once it
has moved and the token is there, it is on `p_vco_next`. `OnlyWhenReady` keeps
all of it apart from the boot, which moves the clock on its own. A repeated
PREP during a switch is no exception: it finds the same free VCO.

The other invariants are in `PhyInv`, each proved once and cited by the later
ones. TLC had checked them all in the instances of `nominal` and `adversarial`
before.

- `AckInv` follows an acknowledge on the PHY's side, from the armed interrupt
  to the message and its handler. A message may outlive its request, when an
  abort comes first; it is then refused in `fswPending`, because the lock that
  ends that state is queued behind it.
- `McInv` follows it on the MC's side: an edge latched or queued belongs to an
  acknowledge that is still up, for a request that is still up.
- `VcoInv`: a PHY VCO in use, or about to be, was turned on for a valid
  frequency. With `McInv` and `ClockInv` it gives `UpdateIsSafe`.
- `ReplyInv`: the request a task waits for is queued, in the handler, or
  answered. `PeriodicInv` says the same of the periodic task and keeps its
  request, its grant, the completion and the state of `dfi` in step.
- `HostInv`, for a serialising host: no switch is under way from the call of a
  PREP to its return, and a switch that may start or has not been taken up
  is prepared. It rests on `AcceptInv`: no handler runs before a start.
- `EdgeInv`: from the release of INIT_COMPLETE to the end of `fswPending` the
  lock interrupt is armed, and there are no more messages and latched bits of
  the PLL than it had edges: one lock, and a loss and a lock for each loss.
  `LockIsKept` follows from it with `AcceptInv` (no lock is refused before a
  start), step by step: only `PllIsr` takes a sticky bit away.
- `QueueInv`: a task sends to an empty queue and interrupts queue behind it.
  With `EdgeInv` for the PLL, `AckInv` and `McInv` for the acknowledges and
  `ClockInv` for INIT_START, `QueueBound` counts the messages by their events.
- `LockInv` (for `MaxLoss = 0`): one edge of the lock for each switch; `HostInv`
  needs it when a lock may be signed with the main task.

`SwitchRefined` maps initial states to initial states (`InitSwitch`) and has
one lemma for each step of `FreqSwitch`; a step of the firmware task that is no
step of the switch leaves its variables alone (`FwStutters`, `OthersStutter`).
Two of them are more than bookkeeping. `PrepareRefines` needs `HostInv`, that a
PREP finds no switch under way, and `ClockInv`, that the VCO it configures is
then not the one that runs. `FinishRefines` needs `McInv`: the acknowledge that
is handled belongs to a request that is up and so, with an MC that does not
acknowledge late, the hardware has not moved (`RunsOnCurrent`).

### The WDDR device

All safety properties of the run `device` are theorems, from the named
assumptions of `ZqCal`, `SenseAmp`, `DfiFifo` and `WddrDevice` about their
constants: any number of channels, bytes, bits and codes, any trip points,
bands with `lo <= hi`, any FIFO with lists that fit it, any number of boots.

| Theorem | States | Rests on |
|---|---|---|
| `TypeCorrect` (`WddrDevice_proofs`) | `TypeOK` | `TypeInv` |
| `ZqCodesAreExact`, `ZqFailuresAreReal`, `ZqComparatorOff` | `CodesAreExact`, `FailuresAreReal`, `ComparatorOff` | `ZqInv` |
| `SaCodesInBand` | `SaCodeInBand` | `SaInv` |
| `AlwaysConfigured`, `NeverTouched`, `LoopbackIsLeft` (`WddrBoot_proofs`) | `InUseConfigured`, `InUseUntouched`, `PadsLeaveLoopback` | `ClockInv` |
| `VcoIsKept` (`WddrBoot_proofs`) | `RunningVcoKept` | `ClockInv` |
| `DeviceRefinesSwitch` (`WddrBoot_proofs`) | `DeviceImplementsSwitch` | `ClockInv`, `IdleInv` |
| `BusComesBack`, `PreparedIsSent` (`WddrDevice_proofs`) | `BusIsReturned`, `SwitchSendsPrepared` | `FifoInv` |
| `NothingIsForced`, `SaCodesInPlace` (`WddrBoot_proofs`) | `ReleasedClean`, `SaShadowHolds` | `ForcedInv`, `SliceInv`, and `ClockInv`, `FifoInv` for the clock and the bus |

- `ZqInv` (in `WddrCal_proofs`, with a lemma per step of a calibration): no code
  below the one tried trips; what was found is the trip point; the pair of the
  first voltage stays; a failure has its cause.
- `SaInv` (`WddrCal_proofs`): all codes below the one tried on the way up read
  1, all above the one tried on the way down read 0; so both codes found are
  within a step of the band, and so is their average (`AverageInBand`).
- `TypeInv` joins these with the types of the rest. The properties of a
  calibration hold wherever it is called from, so the actions are split by what
  they change (`NextCases`) and all but a few leave it alone.
- `ClockInv` is needed because `InUseConfigured` says nothing of the boot and
  of the time of a switch. `BootClock` follows the overrides through the boot;
  `RunClock` says that from PREP on the other VCO and the other copy
  (`Target`) are ready, and that they change places when the hardware moves. The
  same two facts keep the running VCO (`VcoIsKept`): a PREP configures
  the other one, and the one that is turned off at the end of a switch is the
  one the hardware has left.
- `IdleInv` adds that there is no target outside a switch and no request once a
  switch began. `DeviceRefinesSwitch` takes one lemma for each step of
  `FreqSwitch`, and one for the boot (`BootRefines`): its steps have nothing in
  common but what `ClockInv` says before and after them, which is what `Boot`
  asks for.
- `FifoInv`: what has left the FIFO and what is in it make up the prepared
  list (`DrainKeepsOrder`); nothing drains while the bus is not the buffer's.
- `SliceInv`: the slices before the one at hand are done, in the order of the
  two loops (`NextIsNext`, `LastIsLast`), whatever an earlier call that failed
  left in chip selects, gearboxes and amplifiers.

TLC found `ClockInv`, `IdleInv`, `FifoInv`, `ForcedInv` and `SliceInv` to hold
in the instance of `device`.

### The DRAM sequences

All properties of the run `sequences` are theorems of `DramSeq_proofs`, for any
timings of the widths they have in C (`DramSeqAssumption`), both ratios, any
enable offsets and last timestamps of 16 bits, both burst lengths and any
number of packets, under
conditions on the table (`DramInv`) that are named in the theorem:

| Theorem | States | Provided that |
|---|---|---|
| `TypeCorrect` | `TypeOK` | |
| `WriteCorrect` | `WriteAligned` | `Writes` |
| `ReadCorrect` | `ReadAligned` | `Reads` |
| `TrainCorrect` | `CbtToggles` | `Trains`, `Settles` |
| `UpdateCorrect` | `MrwComplete` | `Updates` |
| `OrderCorrect` | `TimesAdvance` | all of these |
| `RoomCorrect` | `RoomSuffices` | all of these and `Fits` |

| Condition | Says of the timings |
|---|---|
| `Writes` | the clocks of `dram_prepare_wrfifo_sequence`, which it keeps in `uint8_t` (`dev/dram/device.c:365`), fit them, and the first enable comes after the last command frame (`WriteFits`) |
| `Reads` | the same of `rddata_dram_clk` (`device.c:429`, `ReadFits`), behind every last timestamp in `Lasts` |
| `Trains` | the time that the last data of command bus training is held fits in 8 bits (`HoldFits`) |
| `Settles` | the wait for VREF, truncated to 8 bits, is not 0 (`VrefFits`). That it may be *shortened* is the finding of `cbt_vref`; none of the properties here depends on its length |
| `Updates` | `t_vref_ca_long` is not 0, and two of them fit a timestamp with the other waits (`MrwFits`) |
| `Fits` | `phy_wr_en` is at most 35 and `t_sh_train` at most 49 clocks, which 56 packets hold at one cycle a packet; the largest in the table are 6 and 4 |

The assumption `TableFits` of `MCDramSeq` has TLC evaluate them on the four
clocks of the table. They restate the sums of the code: beyond one of them a
clock wraps, a wait is 0, or, at one cycle a packet, the packets run out. TLC
violates a property one step beyond each; only `MrwFits` and the bound on
`phy_wr_en` in `Fits` are rounded down and leave a margin.

The argument is about one loop at a time, because a call has one kind
(`StepsOf`). `Begin` is the clock behind the last packet that was there before.

- `Due` is the timestamp of the next packet. `Stands` says where a group stands
  when that packet comes, by arithmetic on its first clock: nothing of it is
  sent before `Due`, all of it before is. `Given` is the clocks that have been
  sent. `MaskWindow` relates the bits of `determine_group_mask`, which looks at
  offset and remaining phases only, to the clocks of the packet: that lemma is
  where a wrong offset, or a group that starts in the second cycle of a packet
  and ends in the first, would show. `GivenNext` says what a packet adds. With
  them `WriteBurst`, `ReadBurst` and `TrainData` are inductive, and an empty
  group (`StandsLast`) has given all its clocks.
- A command whose packets ran out is silently cut. It is never returned
  as a success, since no packet comes back and the loop that follows asks for
  one (`Short`); this is why `AddressInv` tells the two cases apart.
- Training returns success even when its last packet is not there. `TrainInv`
  therefore follows the packets that carry data (`Driven`) and the distance of
  all others from them (`Held`), which no later packet can shorten.
- `UpdateRegister` places each frame of the register at hand by its distance
  from the buffer's end (`Lined`) and keeps the frames sent before in their
  distances (`Apart`). `Latest` bounds the timestamp, so that none wraps.
- `SequenceInv` joins them with `Ordered`, from which `TimesAdvance`
  follows at every step of a call and not at its end only.
- `RoomInv` adds that the command of training has its packet. The other loops
  have theirs because the burst invariants bound the packets used by the clock
  reached (`WriteRoom`, `ReadRoom`, `TrainRoom`).

TLC found all of `DramInv` to hold before it was proved, on 587 232 states: both
ratios, timings at 0, at the boundaries of the conditions and between, buffers
of 0 to 10 and of 56 packets.

### What is only model-checked

Every safety property of a passing run is a theorem. Liveness (`CallReturns`,
`SwitchEnds`, `UpdateEnds`, `MasterEnds`, `BootEnds`, `CodesHeal`) is
model-checked only, since fairness and ENABLED are beyond the prover. The
violations are counterexamples and need no proof. That the guarantee
`PhyTask` gives through `FreqSwitch` is the one `WddrDevice` assumes with
`Settled` is read off `FreqSwitch` (`Prepare` and `Finish`), not proved: the
two models are not composed.

## 5. Plan

Done: the firmware task, the DRAM sequences, boot, both calibrations, the DFI
FIFO and the preparation of the copies, and the proofs of section 4. Next, in
this order:

1. The phases of a write-levelling packet at both ratios, as a theorem of
   `DramSeq` (section 6).
2. An abstract calibration, a search for a trip point, that `ZqCal` implements.
3. A composition of `PhyTask` and `WddrDevice` that shares their PLL, so that
   the assumption `Settled` is discharged by a proof.

## 6. Not modelled

Most lines of the repository are generated register headers
(`include/drivers/wddr`, 28 264 lines) and tables of values
(`include/table`, 8 146 lines), which have no behaviour of their own, and
setters of single register fields (`drivers/ca`, `drivers/dq`, `drivers/cmn`,
`drivers/vco`), which a model would only repeat: the copies of `WddrDevice`
record what they are written for. The `map` therefore names a small share of
all lines.

Also left out: the mailbox and its protocol (in the absent RTOS submodule), the
version queries, the host application that only boots. The
uninitialised `data` of a PLL message is read by no handler of that event.
The timeout of `xTaskNotifyWait` is not an action: `ReplyIsThere` says that
when the main task runs again its answer is present, so that the timeout
changes nothing. LP events, INIT_COMPLETE and PLL_INIT_LOCK are never sent: no
handler sends the first, and the interrupts of the other two stay off
(`dev/fsw/device.c:72`, `dev/pll/device.c:69`). A start that fails at
`xTimerStart` deletes the timer (`phy_task.c:408`); a later start of the deleted
timer may succeed or fail in the model, since the timer is not created again. Of the DRAM device, the calls that
write a single mode register and send it are left out: they build one command
of `DramSeq`. `dram_prepare_wrlvl_sequence` fills up to four phases of a packet
whatever the ratio; the table has the ratio 1:2 only, at which a packet has
four.

Of the WDDR device:

- training (`wddr_train`) is the integrator's; it is taken to succeed or fail,
  and to use loopback or not;
- the accesses to registers inside one driver call are one step. They are
  atomic towards the calibration, whose registers no other task writes, but a
  preparation and the timer task share the table: `ZqSaveN` and `ZqSaveP` keep
  that visible;
- the timer task is taken to be below the firmware task here; `PhyTask` has the
  other choice (`TimerSlices`). A calibration asked for by CTRLUPD is in
  `PhyTask` only;
- pulses that change nothing lasting: the clear bits of the FIFOs other than
  the DFI buffer's, the enables of the interpolators, the CSP synchronisation.
  That WDATA_CLR empties the ingress FIFO is an assumption;
- `channel_enable` and the VREF of the receivers, which the boot writes a second
  time with the values of the preparation (`dev/wddr/device.c:185`);
- the CK interpolator of the DRAM is filled from the configuration of CA
  (`dev/wddr/device.c:856`); in the shipped table the two agree, so that the
  model has one group for both;
- `pll_calibrate_vco` does nothing, and does not say so, once the PHY has a
  clock of its own (`dev/pll/device.c:191`): a second boot calibrates no VCO,
  which `BootStart` shows but no document rules out;
- the egress FIFO and `dfi_buffer_read_packets`, which nothing in the
  repository calls outside of training. It accepts as many packets as the FIFO
  holds, 64, for a buffer of `PACKET_BUFFER_DEPTH`.
