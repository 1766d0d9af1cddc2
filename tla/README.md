# Verification of embedded-twin

TLA+ models of the hardware simulator in `twin/`, TLC runs that check them on
small instances, and TLAPS proofs of what matters most for every instance.
File and line references are to `src/twin/…` unless they say otherwise.

## The system

embedded-twin simulates a circuit board. A netlist and a bill of materials
become a *Board IR*; `build_twin` turns it into nets and component models on a
discrete-event kernel; firmware runs on an emulated Cortex-M or as Python
callbacks; a power engine integrates currents; a scenario injects stimuli and
judges the trace. Everything is one thread. What makes it hard is not threads
but *callbacks on a shared clock*: components schedule events, few are ever
cancelled, net changes reach listeners later in the same instant, and the
emulated CPU runs a slice of instructions in no simulated time at all.

### Inventory

| Part | State it keeps | Operations | Talks to | What makes it correct |
|---|---|---|---|---|
| Kernel (`core/kernel.py`) | clock, heap, sequence number | `schedule`, `cancel`, `step`, `run_until`, `run` | calls everyone back | order by (time, seq), nothing due is left, loops end |
| Nets (`core/net.py`) | drives, level, voltage, contention | `drive`, `_resolve`, `_notify` | kernel (zero-delay event), listeners | strongest drives win, no change is missed |
| Passive, input and power parts | conducting / on / lit / pressed | `start`, `_update`, `press`, `release` | nets, power engine | what they drive agrees with what they read once the board is settled |
| Power engine (`power/engine.py`) | loads, edges, charge, peak, drain | `set_load`, `add_*`, `accrue`, `report` | parts' reflect functions, read late | Kirchhoff; charge is the integral of current |
| ARMv7-M system (`cpu/armv7m.py`, `cpu/unicorn_backend.py`) | pending, active, masks, stacks, PC | SCS stores, entry, return, SVC, reset, slice loop | instruction emulator, MCU | preemption by priority, frames unwind, no access lost or doubled |
| MCU (`components/mcu.py`) | sleeping, power state, slice events, GPIO | `_run_slice`, `_wake_now`, `pend_irq`, SysTick | kernel, CPU, peripherals, engine | one slice chain, no lost wake-up, bounded tick latency |
| Cellular modem (`components/radio.py`) | off/booting/searching/registered, timers, load | supply changes, timers, AT commands, kick-off | kernel, network, UART, engine | off without supply, never stalls, bursts end, registers when it can |
| GNSS, BLE (`components/radio.py`, `env/`) | fix, lock time / connection, missed time | 1 s tick / connection events | kernel, environment, UART | states follow the supply; a lost link is noticed |
| UART, I2C, SPI (`comm/`), sensors, flash | line busy time, selected device, command state, pointer | `send`, `transfer`, `write`, `read` | nets, kernel | bytes once and in order; a transaction is decoded by its own bytes |
| STM32F4/nRF52 peripherals (`cpu/periph.py`, `cpu/profiles/`) | registers, FIFOs, subscriptions | register reads and writes, `advance`, `on_rx` | MCU, buses, nets | an interrupt for every event, none stale |
| Scenario (`scenario/`, `core/trace.py`) | stimuli, trace, verdicts, lock; between runs `sys.modules` and the model registry | `run`, `_fire`, `evaluate`, `make_lock` | everyone | stimuli at their time or no verdict; a lock tells inputs apart |
| Factory (`factory/`) | drafted model, iterations, installed files | draft, test, revise, install, load | LLM, subprocess, file system | only what passed is installed, loaded or built |
| Ingest, IR (`ingest/`, `ir/`) | none over time | parse, merge, bind | files, runner | a model key that is given is never guessed again; the parsers are functions of a file |
| Assembler, CLI, viewer | none over time | print, draw | files | not modelled |

`PROJECT.json` lists the same parts with their status, and under `hazards`
every place where this code can go wrong in a way a test would hardly reach:
coalesced notifications, timers that outlive what they were for, sources the
engine is not told of, nesting across stacks, sleeping with something pending,
services dropped at a limit, crashes between two writes. Each hazard names the
properties that would catch it, or why none does yet.

## The modules

| Module | Models | Abstract specification |
|---|---|---|
| `SimKernel` | the kernel's loops, lazily dropped events, callbacks that return or raise | `EventCalendar` (refinement) |
| `Nets` | nets with the parts on them, from start-up on | – |
| `PowerEngine` | loads, tree solution, accrual, batteries | `LoadMeter` (each step maps to a meter step) |
| `Exceptions` | pending/active sets, entry, return, reset, slice budget, an RTOS switching tasks | – |
| `McuLoop` | the slice loop, WFI, wake-ups and SysTick around the processor of `Exceptions`, which it extends | `Exceptions` (each step of the loop is one of its steps, or none) |
| `CellModem` | the modem's life cycle with its uncancelled timers | – |
| `SerialPorts` | UART lines, the STM32 USART and the nRF52 UARTE behind them, firmware with interrupt handlers | `ByteLine` (refinement) |
| `TrackerBoard` | the composition of the five below: firmware in slices, the kernel's events between them | – |
| – `GpioPins` | the three GPIO ports and what they drive | – |
| – `SpiBoard` | `SpiStm32`, `SpiBus`, the flash and the accelerometer, selected by pins of `GpioPins` | what transactions ask for (`want`) |
| – `I2cBoard` | `I2cStm32`, `I2CBus`, temperature sensors | what reads are due (`asked`, `reply`) |
| – `PinInterrupts` | EXTI, a timer's update interrupt, and the slices, sleeps and alarms they depend on | – |
| – `Wireless` | the GNSS receiver and the BLE module on one supply | – |
| `ScenarioRun` | scenarios run one after the other while their inputs change; extends the two below | – |
| – `ModelFactory` | draft, test, revise, install, with crashes | – |
| – `Assertions` | the trace's queries and every assertion type, as functions | – |

`MC*` modules give the constants of an instance; `*Proofs` modules hold the
theorems. In each module the operators under *Seeded faults* are used by no
specification: each is a plausible mistake in one operator of the model, and
`PROJECT.json` names the property that fails when it takes that operator's
place. They show that the property depends on the code it is about.

### SimKernel

`queue` is the heap as a set: the heap's head is the least event by `Before`
(dataclass order on `time`, `seq`). `until` tells which loop runs: a horizon in
`run_until`, `Drain` in `run` (and `step`, which is `run(1)`), `Off` outside.
`Dispatch` pops, sets the clock and puts the callback on the stack (`busy`);
while it is there it may `Schedule` and `Cancel` at will, then `CallbackReturn`
or `CallbackRaise`, which leaves the loop. `ran` is a history variable.
`EventCalendar` states what callers are promised: a cancelled event is gone at
once, the first of the calendar runs, the clock skips only empty stretches.
The refinement maps the calendar to the live events of the heap.

### Nets

A wire state is a record (`drives`, `state`, `events`) so that one part's
update, which may drive two nets, is one action built from `DriveNet`. `todo`
is the list of parts still to be called: at first the start order of the
board, then the listeners of the net at the head of `events`. `Runs` runs the
part at its head; only stimuli can come between two notifications, since other
kernel events of the same instant may be interleaved there, but not between
two listeners of one notification. A driver never heard of counts as released,
which `_resolve` treats the same. Volts are integers; only the maximum, the
diode drop and the regulator's 80 % threshold are computed from them.

### PowerEngine

Currents are integers, time is in ticks. `Accrue` is `accrue()`: nothing in
the same instant, else the whole interval since the last accrual at the
currents it solves *now*. `Switch` is a part that changes over: it flips what
its reflect function reads and the engine is not told, as in the code.
`Pass` is what one round of the loop in `rail_currents` reflects, `ReflectAll`
that round in registration order, `RailCurrents` all the rounds. `Metered` adds what the open interval would
be charged if it ended now: against it, the engine is an exact meter as long
as no edge switches (`MetersLoads`). When one does it is not, since nothing
accrues before the flag flips: the open interval is then charged to the new
source (hazard engine.py:91).

### Exceptions and McuLoop

Firmware is arbitrary within its means: it stores to the NVIC and SCB, masks,
calls SVC, and leaves its handlers by the link value it was given. Each store
is a fault that the slice loop services (`Serviced`), after which it may take
an exception (`Inject`). Stacks are modelled by who each frame resumes:
`msp` is a sequence, each process stack holds at most one frame, and `Dispatch`
is the external RTOS switching PSP in PendSV or starting tasks in SVC
(modelled from `src/examples/freertos-blinky` and
`src/tests/test_rtos_mechanics.py`). Priorities are a constant. The operations
on the CPU are functions on a record `cpu`, so that entry, return and
injection compose as in the code.

`McuLoop` extends `Exceptions` and adds kernel time. Its firmware is that of
`Exceptions`: `Access` stands for every store or load in the system control
space that changes nothing else, SysTick's registers among them, and any
service may be the one that uses up the slice (`ServicesEnd`). A slice takes no
time; `runs` and `wakes` are the kernel's events for `_run_slice` and
`_wake_now`. Since a slice is one kernel event, other events cannot come
between its steps; `PendIrq` inside it stands for what the slice's own stores
make the peripherals do.

### CellModem

Timers count down: `timers[k][d]` is how many events of kind `k` the kernel
holds that are due in `d` ticks, so runs need no clock. The environment
switches the supply, loads towers and moves the board. `notify` is the net's
pending notification. The supply does not change twice in one instant (see the
hazard at radio.py:173: without this assumption a glitch within an instant can
leave the modem searching without a timer).

### SerialPorts

`wire[p]` holds the deliveries that `Uart.send` has scheduled for port `p`, in
the order of scheduling, with ticks to go; `busy` is `_tx_busy_until` as ticks
from now. `IsNext` picks as the kernel does, the first scheduled of those due,
and `Deliver` is the whole of `_deliver`: every other port that listens on the
net appends to its FIFO, or stores through `UarteNrf.on_rx`. `dma` are the
UARTE's registers; they are pure functions of a register file (`Received`,
`Arm`, `Finish`, `Latch`), applied by the tasks and by bytes alike. Firmware
writes registers in any order and at any time, with one restriction: it does
not start a reception before it has set RXD.PTR. `phase` is its interrupt
handler, which works until it sees nothing left and then returns; bytes may
come between the two, because a slice may end there. `told`, `run` and `heard`
are history variables: which events raised an interrupt and are not cleared,
what a reception ought to have got, and what was delivered last.

`ByteLine` promises a shift register: a byte leaves one byte time after its
predecessor, or after it was given to an idle line. The refinement maps its
line to the bytes of `wire[p]` and its shift to the time the first has to go.

### TrackerBoard

The peripherals meet in one place: a slice of firmware takes no simulated time
and no other event falls into it, while what the slice did to nets is announced
by zero-delay events after it. `slicing` says whether the emulator runs;
`Firmware` is one register access, `Events` one kernel event or stimulus, and
`Begin` waits until what changed has been announced, as the kernel's order
within an instant has it. `uses` picks at the start which part of the board
a behaviour exercises. The parts share the pins, the slices and the clock and
are otherwise independent, so looking at them one at a time loses nothing and
keeps the run small.

`GpioPins` keeps latches and directions as sets of pins; `Applied` is
`_apply`, `_drive_bit` and the loop of `_update`: only changed bits reach their
nets. `SpiBoard` takes its selects from those pins: a byte goes at once to
the first attached device whose select is low, while the select's edge
(`edges`) reaches the device by `Tell`. The history variables `sent`, `clean`
and `want` say what a transaction was and what it asked for. Bytes sent in the
slice that lowers a select are excepted from `Decoded`; without the exception
TLC shows a command that is wiped by the select that should have begun it.
`I2cBoard` is the polled register interface (`sr1` as a set of flags);
firmware waits for RXNE before it reads. `PinInterrupts` has EXTI's binding
and remembered levels, and the timer as the code keeps it: a start, a count of
updates seen, a quotient. Only `Wired` pins have a net: a line that selects
another one stays unbound until IMR is written again. `rewired` marks the
lines whose EXTICR was written when the code no longer looks at it, or not
before the next IMR write; of these `LinesHear` does not ask which pin they hear. `Wireless` counts times down as `CellModem` does;
sky and packet loss are choices, `polls` and `link` record what a fix and a
connection's end must have been preceded by.

### ScenarioRun

One process runs a line of scenarios (`session`), any of which may be started
in a fresh process instead; meanwhile a designer edits the board and firmware
files, each a version number, and the factory of another process installs
models. `stage` is how far `ScenarioRun.run` has come: models, board,
firmware, running. `modules`, `registry` and `imported` outlive a run as
`sys.modules` and the registry do. A draft is named by its job and iteration,
so it is told apart from every other; whether it passes is pytest's choice.
`Raise`, `ImportRaises` and an unknown stimulus leave a run where the code's
exceptions do. The board extends the trace by what it likes (`Board`), the
report of currents is a choice, and `Verdicts` is `evaluate` over every
assertion type. `level` and `touched` are history variables, and `results`
keeps what each result was made from beside its lock.

## The runs

| Run | Instance and bounds | Distinct states | Shows |
|---|---|---|---|
| `sim_kernel` | 3 `schedule` calls, delays −1..2, horizons 0, 2, 3, caps 1, 3 | 31 764 | order, completeness, refinement, termination of the loops |
| `nets` | 10 parts, 8 nets, 3 stimuli of 11 kinds | 175 588 | settled boards are consistent, resistors pass on levels and invent none, boards settle |
| `power` | 3 edges, 2 loads of 2 currents, 1 battery, 2 ticks | 107 384 | Kirchhoff, books, exact metering of loads |
| `exceptions` | 2 IRQs, PendSV, SysTick, SVC, 2 tasks, 2 services a slice, nesting 2 | 501 760 | nesting by priority, unwinding, arbitration |
| `mcu_loop` | slice 2, tick periods 1 and 3, 5 units of time, 1 IRQ, 3 services a slice | 6 790 248 | one slice chain, no lost wake-up, tick latency |
| `cell_modem` | 2 towers, 4 environment changes, delays 2, 3–4, 5, 1 | 38 133 | no stall, no stuck burst, registration |
| `serial_ports` | 3 ports in a ring, 2 bytes, 2 buffers of 2, 4 configuration writes | 1 384 221 | shift registers, faithful EasyDMA, no forgotten interrupt |
| `scenario_run` | 1 generated model, 2 jobs of 2 iterations, 3 scenarios in 3 sessions, 2 edits | 478 079 | only models that passed, locks, verdicts |
| `tracker_board` | 2 pins, 4 SPI bytes, 2 sensors and a dead address, 1 line with 3 ports, two of them wired, periods 1 and 3, 8 units of time, times to fix 1–3 | 1 763 396 | pins, SPI and I2C transactions, edges, updates, fixes, connections |

Why the bounds are enough. *Kernel*: ordering needs two events and a third
that is cancelled or comes later; horizons lie before, on and after an event,
and −1 is refused. *Nets*: the board is the tracker's power path; three
stimuli suffice to change a net, change it back and disturb another in one
instant, and the resistor chain gives a level two hops; a pin and a pull-up on one
net differ in voltage. *Power*: the edges
register in every order, so leaves come before and after their parents; two
ticks give an interval that is split by a change and one that is not.
*Exceptions*: two levels of nesting give each link value (F1, F9, FD), and two
interrupts of different priority with a tie between one of them and SysTick
give each outcome of arbitration; `Budget` is out of reach in this run and 2
in `steps_over`, where 64 would only lengthen the trace. *MCU*: periods
shorter and longer than a slice, and time for a stale wake-up to meet a later
sleep. *Modem*: the order of the delays is that of the defaults (boot 2 s,
search 3–8 s, retry 10 s, send 0.5 s); four changes are two power cycles, which
is what two boot timers need, or a cycle with a kick. *Ports*: two bytes are
enough for two sends that overlap, for a byte that comes while the handler
runs, and, with a MAXCNT of 1, for one that comes after the end of a reception;
four writes set PTR, MAXCNT and an enable, and change one of them again. The
rates differ by a factor of two, so a slow byte and two fast ones meet. Bytes
and buffers are symmetric: nothing compares them. *Scenarios*: two jobs are an
installation and one that replaces it or is cut short; the second run of a
process meets the modules of the first; stimuli are listed out of order, two
at one time, one after the end, one unknown, and every assertion type occurs.
*Board*: four bytes hold a write enable and a program command with a one-byte
address and its data, across two transactions; the accelerometer's
bytes are an auto-incremented write that wraps from 63 to 0 and a read. Two
sensors and an address without one are what a cut-off write can be mistaken
for. Eight units are two of the longer timer periods with sleeps, a stop and a
restart between them. The start modes are cold and warm; hot comes from
either.

`CHECK_DEADLOCK FALSE` stands where a board, a CPU at a bound, a session that
is over, or a firmware that faulted really may stop.

### Where the code and its documentation disagree

Three runs check a sentence of the repository and TLC refutes it. `findings` in
`PROJECT.json` quotes each sentence and tells the counterexample.

| Run | Sentence | What happens |
|---|---|---|
| `steps_over` | armv7m.py:8–10 | the last service a slice has budget for loses its PC (unicorn_backend.py:135–153) |
| `modem_cycle` | radio.py:151–152 | a boot timer of an earlier power cycle throws a registered modem back (radio.py:183) |
| `nets_ring` | passives.py:3–5 | two parallel resistors are each other's source and hold a level that nothing drives any more (passives.py:27–32) |

A fourth disagreement needs no run to be seen.
docs/adr/0001-versioning-and-traceability.md:9 and README.md:23 promise that a
lock has the hashes of netlist, firmware and models. `make_lock`
(lockfile.py:20–42) hashes no model, has only the name of a behavioural
firmware, and hashes firmware files after the run that has read them
(runner.py:193). `LockTells` is what does hold: the board, and a firmware file
that nobody edits during a run. The hazards list further places where a property had to
except something: each exception is named there and in the property's comment.

### Fairness

`LoopReturns` assumes that the kernel's loop goes on (it is a plain `while`)
and that a callback ends: weak fairness on both, none on the code that
schedules. `Settles` assumes that a queued notification is dispatched and
that the loop over its listeners goes on, not that stimuli stop: their number
is bounded. `Registers` assumes that the kernel dispatches what is due and
that time passes; nothing is assumed of the environment, and the property
itself asks only for supply and a tower with room for good. Safety runs assume
no fairness.

## The proofs

`tlapm` checks every theorem for all values of the constants allowed by the
modules' assumptions, and those assumptions are evaluated by TLC on every
passing run. 10 216 obligations in eight modules.

* **`SimKernelProofs`.** `NothingOverdue` alone is not inductive: that a
  dispatched event comes after the last one needs every event in the heap to
  lie after `ran`, in (time, seq), and its number below `nextSeq`
  (`HeapAhead`); that popping one event removes one needs unique numbers
  (`SeqUnique`); that a new event is live needs cancelled numbers to have been
  issued (`HandlesIssued`). From that invariant follow the type invariant,
  `NothingOverdue`, the two action properties and, step by step, the refinement
  of `EventCalendar` (which implies `DispatchOrder`, so that the run need not
  check it on its own). `LeastElement` gives the non-empty heap its head.
* **`NetsProofs`.** `SettledConsistent` speaks of settled states only. The
  strengthening `NoLostUpdate` says that *always* each reactive part agrees
  with its nets or is due: it is on `todo`, or a net it reads has a notification
  queued. `DriveRewires` is the key lemma: driving a net changes what parts
  read only together with a queued notification for that net. It holds for
  every board that names its listeners (`NetlistAssumption`). Resistors go by
  strengths, which nobody announces, and still settle (`WeakSideFollows`): a
  resistor that is not due drives a side only with what the other one has and
  because something else drives that one (`InStep`). `StaysInStep` is the
  heart of it: as long as the states of its nets stay, whoever comes or goes,
  the last other driver of a side cannot leave unnoticed, since the resistor
  itself does not drive that side. Phantom levels then need resistors that
  drive each other in a cycle; `NoDrivenCycle` takes a smallest such set and
  removes a leaf. The theorem assumes `Forest`, which the board of run `nets`
  satisfies and that of `nets_ring` does not (`CycleAssumption`).
* **`PowerEngineProofs`.** The solver is made of recursive functions, which to
  the prover are CHOOSE expressions: `SumsExist`, `AlongExists` and
  `PassingExists` show that functions with those recursions exist, by induction
  on the members of a set (`UpTo`), and `RailCurrentsType` that they lead to a
  current for every rail, on any board. From there the type invariant and
  `MetersLoads` follow step by step (`AccrueReads`: once accrued, the meter
  reads what the books say). `Kirchhoff` needs the rails to be a tree (`Tree`,
  as the docstring of engine.py has it: each edge leads to a lower rail) and
  rests on `Solved`: the law holds for the edges reflected so far, and none of
  the others draws on what one of them was reflected from. `LeavesExist` makes
  each pass take one, so that they all are (`CurrentsSolve`); `SumTakesOut`
  says that a sum may be taken in any order. Battery and rail books agree
  because a battery that is not registered yet has missed no accrual
  (`AllRegistered`: time starts when all are).
* **`McuProofs`** is about `Exceptions` and `McuLoop`. `PriorityNesting` is inductive with the types of
  `active` and `pending`. `Inject` chooses a most urgent injectable exception;
  `MostUrgentExists` shows there is one, `MinFacts` that `ActivePriority` is a
  lower bound of all active priorities, `AppendNests` and `FrontNests` that
  entry and return keep the nesting. `Unwinds` alone is not inductive: which
  stack a return reads depends on the depth, so `Stacked` adds that the main
  stack holds at least the frames of the nested handlers, whatever a switched
  task left below them, and that a process stack holds nobody's frame but its
  own thread's. `EnterStacked` and `ReturnStacked` shift the places of all
  frames by one. `InjectExhausts` (whoever could still run would have been
  chosen) gives `MostUrgentFirst`. `LoopRunsCpu` carries all of it into the
  slice loop. The loop's own invariant `LInv` names the one slice event that a
  running CPU has ahead and bounds its time by SysTick's deadline (`Chain`,
  `Timely`); a CPU asleep has an alarm at or before that deadline instead
  (`Ticking`). Waking is where the two meet: the slice that `WakeKeeps`
  schedules is timely because its alarm has not passed. `TicksAreTimely`
  assumes that 0 is no reload value: writing it stops the timer, but leaves a
  deadline behind for the time it is written over.
* **`CellModemProofs`.** The invariant ties each transient state to a timer
  unless the supply's drop is still to be noticed (`NeverStalls`, `Bursting`),
  and the state to the supply (`Supplied`, `OffIsSilent`). `LaterFacts`,
  `FiredFacts` and `ElapseFacts` say what each operation on timers keeps.
* **`SerialPortsProofs`.** The refinement rests on `LineInv`: the deliveries of
  a port are a train, spaced by its byte time, whose last is due when the port
  gets free. `SendTrain`, `DeliverTrain` and `ElapseTrain` are facts about
  sequences alone; `IsNext` then always picks the head. For the receivers,
  `NothingForgotten` needs that an interrupt is owed only for an event that is
  latched *and* enabled, since the handler's last look sees no other
  (`RxInv`), and `DmaFaithful` needs that an open reception still has the PTR
  and MAXCNT of its start (`Faithful`). `ReceiveFaithful` is the step of one
  byte, for any register file.

* **`ScenarioRunProofs`.** `OnlyConformant` rests on where the factory stands:
  what is being installed has passed, and the files written so far are this
  job's (`Stages`); the three files of a model are of jobs in the order of
  their writing, whatever crash came between (`InOrder`). `LockTells` rests on
  results being `Honest`: an input that nobody touched since a run began still
  has the version the run read. The types need that
  the clock stays within the longest scenario (`EndFacts`, by induction over
  the finite set of scenarios) and that every handler ends in a verdict
  (`HoldsType`). `VerdictsTell` speaks of evaluated runs only; `Told` says what
  is true all along: while a scenario runs, the events in its trace are exactly
  the stimuli no longer due, at their times, in order, and each before every
  one that is due (`Chronicle`), and the trace tells at any moment what the
  level was at the end of every instant. TLC checked it as an invariant before
  it was proved. Nothing is assumed of sorting: the order of the trace follows
  from `IsNext`. `Select` is a recursive function over a trace;
  `KeepingExists` shows by induction on its length (`UpTo`) that there is one,
  and `SelectFacts` and `LevelFacts` say what one more record changes in a
  selection and in the level it tells.
* **`TrackerBoardProofs`.** Each part has an inductive invariant of its own,
  and `Projected`, `PinProjected` and `SpiProjected` show that a step of the
  board is a step or a stutter of each part, so that no proof looks at the
  others' actions. `I2cInv` ties what is queued to what firmware was promised
  (`reply.due = reply.got \o rx`) and says that after a START nothing is left
  of the transfer before. `GnssInv`: the lock time is the run of good polls.
  `BleInv` gives the identity behind supervision: silence is the missed
  time plus what has passed of the interval. `ExtiInv` speaks of masked lines
  too, and says that an unmasked line that is not bound selected a pin without
  a net. `TimInv` needs that the last counted update (`Base`) is never in the
  future and, asleep, that an alarm is set for the next. `SpiInv` says that a
  device in `clean` has either not been told and got nothing, or decodes what
  it got; `FlashNextFields` and its like carry the devices' types through a byte.
  `BoardIsTyped` adds what no other property needs: memories hold bytes
  (`Memories`), a timer has not counted more updates than units have passed
  since its start (`Counted`), and a connection has missed less than a timeout
  and an interval (`Waits`).

Only model-checked: liveness (`LoopReturns`, `Settles`, `Registers`), which is
beyond the prover. Every other property of the passing runs is proved. What is
proved of a recursive function (the solver's passes, `Select`) is its value
after one more step, and what follows from that for the states that are
reached; the functions themselves are not proved equal to another definition
for every input.

## Not modelled

Real-valued quantities (energy, voltage sag, state of charge, temperatures,
path loss, satellite geometry) are left out or reduced to a choice. The parsers
of ingest, YAML, the tables of part-name patterns, assembler, compiler driver,
CLI, report, export and the viewer are formatting and I/O. The instruction
emulator (Unicorn), pytest and the LLM are external: they stand behind the
actions of the firmware and the choices of the factory. Within modelled parts:
IPR/SHPR writes, sub-word stores, SCS reads, the buck converter's ratio, LED
rails, the echo, line buffer and text of AT commands, NMEA sentences, bytes of
the BLE uplink, a timer's counter reads and UG bit, ADC, RCC, PWR and the nRF52
clock, the twin profile's UART, sleep and exit registers.

### Assumptions of the models

* The write of one file is atomic, and the scenario's own file is not edited
  during a session (`ModelFactory`, `ScenarioRun`).
* The modem's supply does not change twice in one instant (`CellModem`).
* Firmware sets RXD.PTR before its first reception (`SerialPorts`), waits for
  RXNE on I2C, and leaves at most `MaxRx` SPI replies unread (`TrackerBoard`).
* The interrupts of `PinInterrupts` are enabled in the NVIC and not masked;
  `Exceptions` and `McuLoop` are about the rest of their way.
* The two SPI devices are both attached, in either order.

## Plan

Done: every module above and the proofs listed. What a next step would take
up, in this order: sub-word stores, which reach two hazards (armv7m.py:213,
periph.py:113); line assembly of the AT modules; the buck converter in
`PowerEngine`; sources that change over among the steps of the meter once the
code announces them; `SettledConsistent` for the stronger of two driven sides
of a resistor once changes of strength are announced.
