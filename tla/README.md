# TLA+ models of the sio_pch board test tools

The repository holds small C programs that a production line runs as root on
network appliances. They test or program a board through I/O ports: the GPIO
registers of the PCH, the index and data ports of a super I/O chip, and, through
the super I/O's iLPC2AHB bridge, the registers of an ASPEED BMC. There are no
unit tests; each tool needs the board it was written for.

This directory models the tools, checks the models with TLC and proves
what matters most with TLAPS. Line numbers refer to the files under `src/`.

## 1. Inventory

| component | state | operations | interacts with |
|---|---|---|---|
| `tools/bypass.c` | pair, cfg lines, sendbit, position in the run; outside it, the CPLD's configuration of each port pair | `bypass_setup`, `sio_bypass_setup`, `ast_bypass_setup`, `ast_gpio_init`, `check_arguments`, `read_config` | libpch, libsio; the CPLD on the board |
| `tools/libpch.c` | registers USE_SEL, IO_SEL, LVL of three banks, BLINK | enable, direction, level, blink: each a read and a write of a whole register | every PCH tool |
| `tools/gpio.c` | list of pins, position in it | set pins, blink pins; PCH and super I/O | libpch, libsio |
| `tools/loopback.c` | pair of pins, which of four calls | drive one pin, read the other | libpch, libsio; jumpers |
| `tools/libsio.c` | index port, selected logical device, configuration mode; iLPC2AHB address and data bytes | enter, exit, select, read, write; GPIO tables for four chips; bridge accesses | every super I/O and BMC tool |
| `tools/wdt.c` | watchdog registers of three chip families | arm the watchdog | libsio |
| `tools/hwmon.c` | bank select, min and max of every sensor, verdict | read sensors for some seconds; PECI and I2C engines of the BMC | libsio |
| `tools/scan_sio.c` | configuration mode of the chip probed | probe 0x4E, then 0x2E | ports |
| `tools/scan_pci.c` | hidden or visible P2SB bridge | read a base address | PCI configuration ports |
| `tools/i2cget.c` | switch position, min, max and error of 25 sensors | read four groups of voltages and the rest, each second | libpch, i2cbusses, SMBus |
| `tools/i2cbusses.c` | growing array of adapters | collect, look up, open | /proc, /sys |
| `tools/nct6683d.c` | page, index and data port of the embedded controller | read, write | the controller's firmware |
| `tools/read_fw_ver.c`, `util.c`, `useless_crypto.c`, `misc/*` | none worth a model | straight-line port accesses, messages | |
| `script/*` | exit status of the last tool | run one tool after another | all tools |

What is hard in this code, and what makes each part correct:

* **A run can die anywhere.** The operator interrupts it, and the next run meets
  half-set lines, a sendbit left HIGH, pins left as outputs. For bypass: a
  configuration is taken over whole or not at all, and only the one asked for.
  For loopback: the verdict depends on the board, not on what was left behind.
* **Registers are shared and written back whole.** A change of one bit carries the
  bits of 31 other pins, as they were read. A pin must change only on behalf of a
  run that names it, and the level bits of undriven pins follow the wire.
* **Timing.** The CPLD may miss an edge shorter than 100 ms.
* **Numbers are mapped to lines.** Pairs to bits, groups and sendbits; GPIO numbers
  to banks and bits. The mapping must not make one name mean another.
* **Index and data ports, bridge sequences, polled engines** (libsio, hwmon,
  nct6683d): not one access but a protocol, with no lock and often no timeout.

`PROJECT.json` lists each hazard with its line and the properties that cover it,
or says why none does yet.

## 2. Modules

An arrow points to what is implemented (a refinement that TLC checks and TLAPS proves); a
plain line to what is used.

```
PCH pins       Bypass ---> BypassSpec
               Bypass --- Pins --- Loopback          PchGpio ---> Pins

super I/O      SioPorts ---> SioRegs --- SioCalls --- SioTables --- SioGpio
               ScanSio

BMC            Ilpc2ahb ---> Ahb                     BmcSensors

monitors       Hwmon ---> SensorTest --- SensorTables
               Wdt   Nct6683d   I2cMonitor   I2cBusses   HaLed
```

| module | models | proofs | TLC |
|---|---|---|---|
| `Pins` | what a library call does to one pin: one step per bit changed | | through the others |
| `PchGpio` | libpch.c and the PCH path of gpio.c, one step per port access, several processes | `PchGpioProofs` | `MCPchGpio` |
| `BypassSpec` | what a run of bypass promises | | through Bypass |
| `Bypass` | bypass.c on all three backends, and the CPLD | `BypassProofs` | `MCBypass` |
| `Loopback` | PCH path of loopback.c, and jumpers with faults | `LoopbackProofs` | `MCLoopback` |
| `SioCalls` | the calls of libsio.c as data, and what each does to a register | | through SioGpio |
| `SioTables` | the GPIO tables of libsio.c, as sequences of calls | | through SioGpio |
| `SioRegs` | what the tools take a super I/O chip for: an array of registers | | through SioPorts |
| `SioPorts` | libsio.c 9-180, one step per `outb_p` or `inb_p`, and the chip | `SioPortsProofs` | `MCSuperIo` |
| `SioGpio` | super I/O paths of gpio.c and loopback.c, one step per call, and jumpers | `SioGpioProofs` | `MCSuperIo` |
| `ScanSio` | scan_sio.c | `ToolsProofs` | `MCSuperIo` |
| `Ahb` | what the tools take the BMC for: a memory | | through Ilpc2ahb |
| `Ilpc2ahb` | libsio.c 182-342, one step per register access, and the device | `BmcProofs` | `MCBmc` |
| `BmcSensors` | hwmon.c on AST chips, read_fw_ver.c, and the BMC's engines | `BmcProofs` | `MCBmc` |
| `SensorTables` | registers and formulas of hwmon.c's super I/O chips | | through Hwmon |
| `SensorTest` | what a sensor test promises | `HwmonProofs` | through Hwmon |
| `Hwmon` | hwmon.c on super I/O chips, one step per port access, and the chip | `HwmonProofs` | `MCTools` |
| `Wdt` | wdt.c, and watchdogs that count meanwhile | `ToolsProofs` | `MCTools` |
| `Nct6683d` | nct6683d.c, and the embedded controller | `ToolsProofs` | `MCTools` |
| `I2cMonitor` | i2cget.c: switch, rounds, limits, failing reads | `ToolsProofs` (the end) | `MCTools` |
| `I2cBusses` | i2cbusses.c: the array of adapters, failing allocations | `ToolsProofs` | `MCTools` |
| `HaLed` | misc/s0391_ha_led.c, failing transfers | `ToolsProofs` | `MCTools` |

`MCSuperIo`, `MCBmc` and `MCTools` put several programs on one board. The variable
`tool` says which of them is used; the others stay in one initial state. They share
no state while they run, because the test scripts start one tool at a time, so a product
of all of them would only multiply the states.

### Pins

`use`, `out` and `latch` are the sets of pins that are GPIOs, have direction output,
and have their level bit set. `Level` of a pin is its latch when it is driven and the
board's pull otherwise. `SetLevel` also gives any value to the latches of undriven
pins of the same bank (`Shared`): `buf = inl_p(LVL)` reads their wires and `outl_p`
writes that back (libpch.c:89-92).

### PchGpio

`reg[r]` is the set of `<<bank, bit>>` that are 1 in register r. A process is in
`pc[p]` about to change a register; `Read` is the `inl_p`, `Write` the `outl_p` and the
move to the next register or pin (`Advance`), `Kill` may come between them.
`FirstReg` is the early return of `pch_gpio_blink_config` for pins above 31. The
two modules are tied by `PinsImplemented`: every `Write` is one step of
`Pins`, every other action a stutter. This is what justifies the coarser steps of
`Bypass` and `Loopback` on the PCH.

### Bypass

`phase`, `i` and `op` are the program counter: the function, its loop index, and
which access to the pin is next.

| code | phases | accesses to each pin |
|---|---|---|
| `ast_gpio_init` loops (362-438) | `init_pair`, `init_cfg`, `init_send` | direction |
| `pair_setup`, `sio_pair_setup`, first loop of `ast_bypass_setup` | `pair` | PCH: USE_SEL, IO_SEL, LVL; F71: direction, data; AST: data |
| `cfg_setup`, `sio_cfg_setup`, second loop | `cfg` | the same |
| `cpld_trigger`, `sio_cpld_trigger`, `ast_cpld_trigger` | `low`, `delay_low`, `high`, `delay_high`, `drop` | the same; `usleep(CPLD_DELAY)` |

`CurPin` and `CurLevel` say which pin gets which level, with `Group` (S0961: `pair / 2`
after the decrement), `NewPair` and `SendNo` (S1451: pairs above 8 on the second
sendbit). The CPLD is external, known from bypass.c:674 ("falling-edge trigger, the
delay time must longer than 100ms"): `store[s][code]` is the configuration it holds, for
each sendbit, for each code on the pair lines. On a falling edge it copies the cfg
lines to the entry that the pair lines select; it must do so when HIGH and the LOW
before lasted (`held`, `armed`), and may do so otherwise. `Kill` ends a run anywhere,
`Start` begins the next after any pause.

### BypassSpec

A table from pairs to configurations; a run is a `Start`, an `Apply` that changes the
entry of the pair asked for, and a `Finish` that is allowed only when the entry is
right; or it is killed before or after `Apply`.

### Loopback

For each pair of jumpered pins four calls of `gpio_set_then_read`: LOW and HIGH in
both directions. `fault` holds the jumpers that are open and the pins that cannot
drive. A wire with two drivers at odds may read as either (while a pair is turned
round this happens), one that nobody drives reads as its pulls. `ReadPin` is the bit
that line 43 really looks at: it passes the GPIO number, not its position in the
bank, as the shift count.

### SioCalls, SioRegs, SioPorts

A job is a sequence of calls: `Enter`, `Exit`, `Select(dev)`, `Read`, `Write` and
`Change`, which is `sio_gpio_enable`, `_set`, `_dir_in` or `_dir_out` (read a register,
clear some bits, set some, write it back). Bytes are sets of bits. `CellOf` puts
registers from 30h up in the selected device and those below in the chip. `SioRegs`
does a call in one step on an array. `SioPorts` does it by port accesses on a chip that
shows its registers only after the key has been written twice (`open`, `half`), at one
`index`, with one selected device `ldn` for everybody. A run may be killed at every
access; nothing resets the chip. `RegsImplemented`: at its last port access each call
does its step of `SioRegs`, all other accesses are stutters. This justifies one step per
call in `SioGpio`, `Wdt` and `ScanSio`.

### SioTables, SioGpio

`FintekIndex`, `Nct6Index`, `Nct5Index`, `EnLdn`, `EnOffset`, `Ldn` and `MultiFunc` are
the tables of libsio.c 344-625, with the first line that holds winning (`Find`).
`SioGpio` runs `sio_gpio_config` and `sio_gpio_set_then_read` over them: `part` is the
pin or the one of the four calls per pair, `callNo` the library call in it. `Put` gives the level bits
of undriven pins of the register their wires' levels, as a read-modify-write does.
`GiveUp` is the `exit(1)` after ERR when a table has no entry (`Known` says that all have
one); `exit` is "refused" then, to tell it from the status 1 of a failed test.
`GpioAssumption` says what `Pin` is: pins of which no two share a bit, and whose registers
each belong to one group. `OwnNumbers` says that a number after `-g` is one of these pins or
has no entry; `super_io_fifty` shows what happens otherwise.

### ScanSio

`unlock`, `vid`, `dev` and `lock` are the parts of `sio_find` at 4Eh, and at 2Eh when no
vendor is read. A chip may have been left open at either address.

### Ahb, Ilpc2ahb

`Program[c]` is the sequence of register accesses of a call: `Setup` (enable, length, four
address bytes), then `Use` (data and trigger). `Fetch` and `Store` are what the device does
at the trigger. `MemoryImplemented`: each call is one access to memory, at the trigger. A call
that has passed it counts as served, with what its remaining reads will give as result.

### BmcSensors

The PECI and the I2C engine each have an address, a fire bit, a transfer under way and
a data register. The tool sets the address, fires, waits for the fire bit to fall
(not in `init_peci`), waits while busy, and reads. Fans and voltages are two bytes in two
accesses; of a voltage's second byte the two lowest bits count (`HighByte`, hwmon.c:760),
whatever its register has above them. `had` is what the sensor has measured since its reading began, against which
an answer is judged.

### SensorTables, SensorTest, Hwmon

`SensorTest` takes every reading whole, at one moment of the sensor's turn, and keeps
least, greatest and result. `Hwmon` does it by port accesses: bank select as a
read-modify-write of register 4Eh on Nuvoton and Winbond chips, index, byte, and for
fans a second byte; sensors drift all the time. `Held` is the chip's part in this: the low
byte of a count is kept as it was when the high one was read. A fan count of 0 on a
Fintek chip ends the process by a division (`Fault`).

### Wdt

`Changes` is the order of the register changes of each setup function, `Effect` what
each does to the watchdog `w`: unit, count, start bit, output, status, and for AST chips
reload value, lock and pin. `Tick` is a second, at any time. The watchdog may be
counting in minutes or, but for a Fintek's, on the fast clock when the tool starts. `pin` is
whether the reset pin is the watchdog's: an AST chip's is made so by the last change, a
Fintek's is as the BIOS left it, which is perhaps GPIO14 (`PinTaken`).

### Nct6683d, I2cMonitor, I2cBusses, HaLed

`Nct6683d`: page, index and data port; the page port takes a page only when it holds
FFh. `I2cMonitor`: `place` is the turn, the row and the step at it. A turn moves the
switch, waits, and reads and checks the rows behind it in the order of the table
(`After`); the last turn has the rows with their own input and the fans. Rows behind the
switch share a register, whose last sample stays until the chip takes the next. `I2cBusses`: the array of adapters with its end mark,
growing by `Bunch`; every allocation may fail, the first one too (`NoBunch`); `heap` is what
is allocated, `open` the streams: the list of names, and the directory of a device, which
is opened for an adapter without a name of its own. `HaLed`: one
byte write, ten word writes that blink the LED, and a read back; each may fail.

## 3. Runs

| run | instance | what it shows | distinct states |
|---|---|---|---|
| `bypass_s0361` | PCH, pairs 1 and 4, opposite configurations | `LatchOnlyRequested`, `OnlyNamedPairChanges`, `RunDelivers` under `FairSpec` | 88 000 |
| `bypass_s0101` | F71889AD, pairs 2, 3, 8 | `DeliveredOnExit`, `LatchOnlyRequested` | 155 000 |
| `bypass_s1451` | AST2400, pairs 2, 10 (same code, other sendbit) and 16 | `IInv`, refinement of `BypassSpec` | 118 000 |
| `bypass_s0961` | PCH, three groups, pairs 2, 3, 6 | `DeliveredOnExit`, `OnlyOwnLines` | 464 000 |
| `bypass_pair_nine` | S0361, pairs 1 and 9 | **violation** of `OnlyNamedPairChanges` | |
| `bypass_pair_two` | S0361, pair 2 | **violation** of `PairCommentEncoding` | |
| `pch_gpio` | two processes, GPIO 31, 32, 63, 64 | `IInv`, `DoneAsAsked`, `NeighboursKept`, `PinsImplemented` | 234 000 |
| `loopback` | S0211's three pairs, no or one fault | `PassSound`, `FailSound` | 362 000 |
| `super_io` | NCT5533D (S1131) and NCT6776F (S0361), two pairs each; four jobs by port accesses; six chips at two addresses | `IInv`, `RegsImplemented`, `PinsInv`, `LoopbackTells`, `OthersKept`, `ScanInv` | 734 000 |
| `super_io_fifty` | NCT5533D, GPIO 50 and 54 | **violation** of `OnlyItsGroup` | |
| `bmc` | four kinds of call on two words; two CPUs, two temperature chips, a fan, a voltage | `IInv`, `MemoryImplemented`, `AnswersInv`, `Ends`, `ReadingNear` under `BmcFairness` | 966 000 |
| `tools` | six tools, see `MCTools` | `IInv`, `StatusTells`, `TestImplemented`, `WdtInv`, `NotEarly`, `EcInv`, `SampleInv`, `ErrorsMarked`, `FailureStops`, `LedInv`, `BussesInv`, `LookupTells`, `Leftovers` | 464 000 |

The properties:

* `LatchOnlyRequested`: the CPLD changes only the entry of the present run's pair, to
  the present run's configuration, whatever earlier runs left on the lines.
* `DeliveredOnExit`: after exit status 0 the entry is right.
* `OnlyNamedPairChanges`: over the pairs that the usage text names.
* `OnlyOwnLines`: a run moves no line of another group (but see "Divergences" for S1451).
* `RunDelivers`: a run that is not killed ends, and has delivered.
* `BypassAbstract`: every behaviour is one of `BypassSpec`.
* `DoneAsAsked`: exit status 0 of gpio means every pin on the command line is as asked.
* `NeighboursKept`: function, direction, blinking and driven level of a pin change only
  while a run that names it goes on.
* `PassSound`, `FailSound`: PASS means no fault on any pair; FAIL is given at a faulty one.
* `PinsInv`: pins the run is done with are outputs at the level asked, in an
  enabled group with the pin function selected, whatever calls for later pins do.
* `OthersKept`: direction and driven level of a super I/O pin change only by runs that name it.
* `LoopbackTells`: status 0 means that every pair is jumpered, status 1 that the pair it
  stopped at is not.
* `IInv` of `super_io`, `RegsImplemented`: a call reaches the register and device its job names,
  whatever a killed run left in lock, key, index and selected device.
* `ScanInv`: the chip named is there, at the first address with one, and is locked again.
* `IInv` of `bmc`, `MemoryImplemented`: what a call has put into the bridge is still there;
  each call is one access to just the bytes it names.
* `AnswersInv`: a data register about to be read holds an answer of the sensor asked,
  from this reading, although `init_peci`, another CPU or a killed run used the engine before.
* `Ends`: a run that is not killed ends, polling without a limit.
* `ReadingNear`: a fan consists of bytes that it has had, a voltage of a low byte and two
  bits that it has had; a CPU is shown at most two degrees too warm and never too cold.
* `IInv` of `tools`: a sensor's byte is read from its own bank.
* `TestImplemented`, `StatusTells`: every reading is the sensor's at one moment; the status
  is 1 exactly when some reading of the test was out of limits.
* `WdtInv`, `NotEarly`: after status 0 the watchdog has the seconds of `-t` to go, whatever
  it was doing, and resets the machine then and not before; a Fintek's whose pin is GPIO14
  runs down and does nothing.
* `EcInv`: at the data port page and index are those of the call; a byte returned was in
  the register during the call.
* `SampleInv`, `ErrorsMarked`, `FailureStops`: a voltage is read from a sample of its own
  input; the rows marked are those out of limits; no round follows one in which a reading
  failed, fans included, unless it is that of a fan without a lower limit.
* `LedInv`: after status 0 the LED's register holds VALUE although word writes went to it.
* `BussesInv`, `LookupTells`, `Leftovers`: the array ends with an empty entry; a number
  found is that of the only adapter of the name; no memory is left at the end, and the list
  of names is left open exactly when an allocation failed while it was read.

Every property of a passing run comes with a mutant, an operator marked "Slip" in the
module: a plausible mistake in the code (the pulse before the cfg lines, a loop one
short, the group forgotten, a delay that returns at once, level before direction, the
neighbours' bits lost, two tools on a bank, ...) under which TLC finds that property violated.

### What the violations show

* **Pair 9 reprograms pair 1.** `check_arguments` (bypass.c:183) rejects only pairs
  below 1. Three lines carry `pair - 1`, so 9 is 1 again; the tool exits 0. The usage
  text ends at 8. (On S0961 pairs above 6 read past the configured pins; this is
  outside the model.)
* **GPIO 50 on an NCT5533D is GPIO 20.** `nct5xxx_get_gpio_dir_index` has `gpio <= 75` for
  `== 75` (libsio.c:418), so every number that no earlier line names gets the register of
  group 7, and the callers' check for -1 never rejects one. In device 9 that is GPIO2's.
* **The comment's encoding is not the code's.** bypass.c:624-627 and 758-761 say that
  pair 2 puts binary 010 on the lines; the code decrements first and puts 001.

### Divergences met while modelling

These are places where code and documentation disagree, or where a mistake of the code
is visible, but which the models leave outside their inputs; each was found by reading
the lines while writing the module, and a property above is stated so that it says what does hold.

* wdt.c:111 skips five header lines. README.CONF:118 says "The first 2 lines are header",
  and conf/wdt/*.conf have two: `fscanf` finds the end of the file, and chip and address
  are whatever was on the stack. `Start` of `Wdt` lets the chip be recognised or not (`hit`).
* wdt.c:156 and 186 write the time to an 8-bit register: `-t 256` loads
  0. wdt.c:210 computes `CLOCK * time` in 32 bits: `-t 4295` reloads 32 704 microseconds.
  `WdtAssumption` keeps `-t` in 1..255, on AST chips in 1..4294.
* wdt.c:164-169 says that WDTRST of a Fintek chip is a multi-function pin, which a BIOS that
  disables the watchdog leaves as GPIO14, so that "the watchdog reset will fail".
  `fin_wdt_setup` does not look: it arms the watchdog, and the tool returns 0. `WdtInv` names
  the case: the counter runs down, its status is set, and the machine goes on.
* i2cbusses.c:170, 176, 276 and 283 return from within the loops, without the `fclose` of
  185 or the `closedir` of 290; `ddir` (233) is never closed. `Leftovers` says when the first
  happens; of the second `open` keeps the trace.
* hwmon.c:834 has a table for the NCT6776D, but `bank_select` (565-570) clears the bank
  bits of NCT6776F, NCT6779D and W83 only: after bank 5, bank 0 stays 5.
* bypass.c:430-434: on S1451 `ast_gpio_init` makes both sendbits outputs, whichever the pair
  needs; one that was undriven over a HIGH latch rises. Only falling edges count, so no
  entry changes; `OnlyOwnLines` names the exception.
* hwmon.c:739 and 750: a fan of an AST chip that goes from 01FFh to 0200h between the two
  reads is shown as 02FFh. `ReadingNear` says byte by byte what is true.
* hwmon.c:472 adds the 1 of the two's complement on the wrong side: CPU temperatures
  come out up to two degrees too high, which `ReadingNear` bounds.
* i2cget.c:187: the -1 of a failed fan read disappears in an unsigned number, so that the
  check at 356 never fires. The speed made of it is 0, so that the program still ends, with
  the fan marked, but not if the fan's lower limit is 0 or its read failed too: `FailureStops`
  says this. 352: a failed read of the upper limit is the mark of no limit; `ErrorsMarked`
  excludes such rows.
* scan_sio.c:133 and 168: `DEVID_ERROR` is never returned (0xFF for a 16-bit number, 0xFFFF
  after the version bits are cleared). `DevError` is in the model and unreachable.
* s0391_ha_led.c:393: each of ten word writes overwrites `res`; a failed byte write goes
  unnoticed. `LedInv` holds thanks to the read back.

### Bounds

Pins, boards and configuration files are finite and taken from `conf/`, so the runs
are bounded by their requests and starting states only. Two or three requests suffice
for a run to meet the remains of another one for a different pair, a different group,
and the same code on the other sendbit. The properties look at the pair of at most two
runs: the CPLD's entries for different codes do not influence each other. `PowerOn`
holds pins in the native state, all outputs, all inputs, and sendbits unlike the rest;
what kills leave is reached from there. In `pch_gpio` the four pins are the two ends of
the boundaries 31/32 and 63/64, the commands cover both levels, blinking, a pin that
blinking rejects and a list over two banks. Nothing counts, so no counter needs a
bound.

* `super_io`: the pins of the pairs are in groups that share register numbers with
  others (GPIO 20 and 74 on the NCT5533D, 70 to 74 and 20 on the NCT6776F); the commands
  name pins in two groups, a pin with a table entry missing and one that needs a pin
  function. Boards have all jumpers, one of two, or none. The jobs of
  the port model use two devices with the same index, and one ends by giving up. Two processes, of which one runs at a time, are enough for one to meet what any other left.
* `bmc`: the two words differ in the bytes written to F0h, F2h and F3h, so that each stale
  address byte is noticed; a write of one byte and of a word, a read of each. The bridge
  starts as after power on, and killed runs leave everything else. One value of the fan per high byte is
  enough for torn readings. The voltage's register has a bit above the ten, 4607 and 4608
  being 511 and 512 for the tool. The second CPU's temperature is not that of the first.
* `tools`: sensors in banks 1, 5 and 6, two of them with the same index; `<TIMES>` of 1 and 2, which lets
  a bad round be followed by a good one. Watchdog times are the least,
  a longer one, and for NCT the greatest; `MaxTick` is above each, and is the only counter bound. The array of adapters
  grows by 3 and the directory has up to 6 entries: two growths.

### Fairness

`FairSpec` of `Bypass` adds `WF_vars(Step)`: a running process keeps being scheduled.
`usleep` returns and no access waits for anything, so the code has no loop that could
spin. `Start` and `Kill` are not fair: nobody must start or kill a tool.

`Ends` needs more, because hwmon.c polls: `BmcFairness` (`SensorsFairness` of `BmcSensors`) adds
that the BMC's engines take up a command for a device that exists and finish it, with
or without an error. For an address that no CPU has they do not, and the loop then never
ends, as the comment at hwmon.c:436 fears; `BmcAssumption` has the file name CPUs of the
board. `Again`, which also stands for a kill, is not fair.

### Assumptions

* Configuration files are well formed and name different pins (`ConfigAssumption`).
* The board holds an AST board's undriven sendbits LOW, and super I/O and BMC pins are
  GPIOs already (`BoardAssumption`). `ast_gpio_init` makes the sendbits outputs before
  the lines are set (430-434), so a pull-up over a LOW latch would be an edge too early.
* For the theorems `NamedPairCorrect` and those that say so, requests name pairs of the
  usage text (`ReqInRange`); without it the first violation above is the counterexample.
* `-o` of gpio is 0 or 1. Runs that share a bank do not overlap (`Start` of `PchGpio`):
  nothing in the code ensures this, the scripts do by running one tool at a time. The
  mutant `StartAnyBank` shows the lost update otherwise.
* The processor takes a shift count modulo 32, as x86 does (`BitOf`, `ReadPin`).
* Pulls are steady, and a jumper joins just the two pins of its pair. On super I/O chips
  an open wire reads low.
* One tool at a time, as the scripts do (`Begin` of `SioPorts` and `Ilpc2ahb`); the mutants
  `BeginAny` show what two tools at once would do.
* The embedded controllers behave as their data sheets say: a fan's low byte is held
  when the high byte has been read (`Held`), the I2C engine of the BMC takes a command
  within the second that the tool sleeps, the SCH5027 samples every input within 350 ms.

## 4. Proofs

All theorems hold for every value of the constants that satisfies the modules'
assumptions: any board, pins, requests, starting states, any number of processes.

`BypassProofs`, from `ReqInRange`: `Invariance` (`[]IInv`), `TypeCorrect`,
`Delivered`, `LatchCorrect`, `NamedPairCorrect`, `OwnLinesCorrect`, `Refinement`. None of
the properties is inductive by itself. `IInv` adds, for a running tool:
`AccessOrder` (which access can be next, and that a pin is a driven GPIO when
its level is written), `AstDirections` (how far `ast_gpio_init` has come), `LinesReady`
(the lines written so far carry the request and are driven) and `Pulse` (the sendbit
is LOW for 100 ms, then HIGH and armed for 100 ms, so that the last edge cannot be
missed). The argument: until `low` no sendbit falls, because each step changes the
level of one pin and of undriven pins nothing (`SetLevel` spoils only latches of
undriven pins); from `low` on, all six lines carry the request, so any edge, early or
not, latches the right thing; `drop` must.

`PchGpioProofs`: `Invariance`, `TypeCorrect`, `DoneCorrect`, `NeighboursCorrect`,
`PinsRefinement`. `IInv` joins `Apart` (running processes share no bank), `Fresh` (what
a process has read is still what the register holds, but for undriven pins' wires) and
`Progress` (the pins done so far are as asked).

`LoopbackProofs`: `Invariance`, `PassCorrect`, `FailCorrect`. `Shown` says what each
passed read has shown: after LOW, that pin 1 drives the wire or the wire idles LOW;
after HIGH, that pin 1 drives the wire.

`SioPortsProofs`, from `JobAssumption` (what a job is: the key first, a device selected
before its registers are used, nothing after `sio_exit`) and `KeyAssumption` (the key is
not the byte that locks): `Invariance` and `CallsAreSteps`, for any set of jobs, registers,
key, and number of tools one after the other. `IInv` joins `Alone` (one tool runs), `Obeys`
(after the first call the chip is open, after a `Select` it has that device, after the
index write of a call it shows that register) and `Fresh` (what a change has read is still
there). The argument: nothing of the chip's state is assumed at the start of a run; two key
bytes open it whatever was half written or, if it is open already, only move the index;
from then on every access that needs the lock, index or device is preceded by the one that
sets it. Then the last access of a call is its step of `SioRegs` (`OutbDataEffect`,
`ShownFacts`), and the others leave the registers alone.

`SioGpioProofs`, from `GpioAssumption` and, as a hypothesis of each theorem, `OwnNumbers`:
`PinsCorrect`, `LoopbackTellsCorrect` and `OthersCorrect`, for any pins, commands, jumpers, bits
left in the chip and runs killed before. The program of a run is a sequence of calls put
together from tables, so the proof first says what a piece does and then joins pieces: `Act` is
one change with the register and bit it reaches (the device is that of the last `select`
before it), `Wished` that each change of a program is one that its run wishes for, and that the
level of a pin is set only after its group's enable bit and its direction (`Led`).
`WishedJoined` joins two pieces; `FunctionShape`, `OutPiece`, `InPiece` are the pieces, for every
row of the tables; `PartShape` is the program of a part. `WishFacts` is the reason why nothing
is undone: a run wishes for one level of each bit only, because directions, levels, enable bits
and pin functions are in registers apart (`Apart`). What remains are level bits that a
read-modify-write changes on the way: those belong to pins that do not drive, so to none that
this run has set (`HeldKept`). `PinsInv` with `LoopbackTells` is then inductive (`AdvanceKeeps`:
what a part has done, and which pairs HIGH has passed through); `TestTells` reads the
wire of a pair that is jumpered, or not, when all four bits of the test are in place.

`BmcProofs`, on the bridge, from `AhbAssumption` and `BridgeAssumption` (addresses fit 32 bits,
values are bytes): `BridgeCorrect` (`[]IInv`) and `BridgeImplementsMemory`, for any memory,
calls, register contents before and number of tools. `Prepared` says that whatever a call has
written so far is still in the registers, `OneCall` that one call at a time has them,
`Collected` that the bytes a word read has gathered are the low ones of the data registers.
The argument: a call writes the length and all address bytes before its trigger, so nothing of
an earlier call, killed or not, is left in what the trigger uses; at the trigger `Addr` is the
call's address (`AddrIs`: the four bytes put together give it back) and the device takes or
gives just the bytes of that call (`Triggered`, `StoreIs`); after it the data registers do not
change until the call returns. So the trigger maps to `Serve` of `Ahb`, the return to `Leave`,
everything else to a stutter.

`BmcProofs`, on the sensors, from `BmcAssumption` (the file names CPUs, chips and inputs of the
board; a CPU answers a negative number of 16 bits, its distance below the throttling
temperature, hwmon.c:469-472): `AnswersCorrect` and `ReadingsNear`. `AnswersInv` joins `AnswerFresh`
with `OnCourse` (which steps belong to which kind of sensor), `Addressed` (the engine holds the
address asked), `Transferred` (after the fire bit the transfer is still to be taken, under way, or
done, and then its answer is of this reading or an error), `Measured` and `LowByte`. A voltage's
high byte is taken modulo 4 (`HighByteValue`, `TenBits`), so that no register is assumed to have ten bits. The argument:
the wait for the fire bit makes sure that the transfer waited for is this one and not the rest of
an earlier one, whose answer would be another sensor's.

`HwmonProofs`, from `SensorAssumption` (the file's lines name pins that the tables list, and no
two lines a common register) and `Bank0Assumption`: `TestStatus`, `HwmonCorrect`, `HwmonStatus`,
`HwmonImplementsTest`. `StatusSoFar` ties least, greatest and result to whether any reading was out
of limits. `BankRight`, `InTurn` and `HalfRead` say where a turn is: from the write of register
4Eh on, the bank is the sensor's; a fan half read is of one moment, because nobody else reads
the chip between its bytes and the low one is held. `RowFits` evaluates the tables for each
chip: indices and banks that the registers can hold. A sensor's last port access is then
`Take` of `SensorTest` (`SameReading`), and the bank, index and first byte are stutters.

`ToolsProofs` holds the proofs of the small tools, each from its module's assumption:

* `LedCorrect`: `Blinked` says that after an even number of turns, and on the read back, the LED's
  register has VALUE; ten is even and the last transfer decides the status.
* `EcCorrect`: `OnItsWay` says that a page is written only while the port is released.
* `ScanCorrect`: `AskedSoFar` says what has been found out about the address being asked; a chip left
  open answers as one that has just been opened.
* `WdtCorrect`, `WdtNotEarly`: `Underway` lists, for each family, what every change
  leaves behind for the next; the counter loses at most `Second` a tick (`CountedDown`), also in
  the modes it may have been left in, which are slower. With a Fintek's pin taken the count may
  reach 0 while the tool works, and the argument goes on from there. `ReloadFits` is the arithmetic of the AST
  reload value, which is why `-t` ends at 4294 there.
* `MonitorSamplesOwn`, `MonitorMarks`, `MonitorFailureStops`, for any table, values measured and
  limits that `MonitorAssumption` admits: `SwitchSet` says where the switch is at each step of a
  turn and that after the wait no register has a sample of another position; rows that share a
  register have different positions, so the sample is the row's own (`OwnInput`). `LimitsHeld`
  says which limits a row has at each step. `Following` is what the order of places rests on:
  the next place is the least one after this (so a turn's rows follow its switch, `SameTurn`, and a
  row is checked when its place is left, `CheckedOnward`). `FailuresSeen` is the inductive part of
  the last theorem: a byte of a fan that failed, the low one or the high, is followed by a speed of 0.
* `BussesCorrect`, `BussesLookup`, `BussesLeftovers`: `Ended` (the array grows when one place is
  left, so the end mark survives: `MoreRoom`), `NamesListed`, `Allocated`, `Opened` (the
  list is open while it is read, and after that only if an allocation failed) and `Looked` (what
  the walk has found so far).

Only model-checked:

* `RunDelivers` and `Ends`: liveness, beyond the provers.

## 5. Not modelled

* `scan_pci.c`: reads configuration space and prints; hides and unhides the P2SB bridge around
  one read, in a straight line. `util.c`, `useless_crypto.c`: a prompt and a comparison of
  constant strings. `i2c-dev.h`: the kernel's header.
* `misc/` but for `s0391_ha_led.c`: programs for one board each that write a few ports;
  `gpioset.c` makes the calls of `gpio.c`.
* `bypass.c`: the writes to the BMC's pin function and command source registers at the
  start of `ast_gpio_init` (325-359), malformed configurations, board names behind a directory,
  pairs past the arrays on S0961.
* `hwmon.c`: the scaling of AST voltages, the display; `hwmon-sch5027.c`, a program for one board.
* `i2cget.c`: the screen and the least and greatest values, which are only shown.
* `i2cbusses.c`: the choice between /proc and sysfs, parsing of numbers, opening the device.
* The DEBUG build, and loopback's build without tables.

## 6. Plan

1. In `Bypass`: the BMC's function and command source registers (325-359).
2. A model of two tools that do overlap on a super I/O chip, to state what an operator
   who starts two must expect.
