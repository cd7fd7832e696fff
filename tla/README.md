# A TLA+ model of gs_emu

gs_emu is a single-threaded RV32IMA emulator derived from NEMU: an interpreter
(`src/src/isa/riscv32`), memory-mapped devices (`src/src/device`), a debugger
(`src/src/monitor/sdb`), differential testing against a reference interpreter
(`src/src/cpu/difftest`, `src/tools/*-diff`), and the configuration and build tools
it is made with (`src/tools/kconfig`, `src/tools/fixdep`, `src/scripts/build.mk`).
There are no threads. What makes the emulator hard is that one loop interleaves guest
instructions, device ticks, window events and debugger commands over global
variables; what makes the tools hard is cached state, files that several programs
write one after another, and crashes between the steps.

Paths below are relative to the repository root, `src/`.

## 1. Inventory

| Component | State | Operations | Hard behaviour |
|---|---|---|---|
| Hart: traps and privileges (`src/isa/riscv32/inst.c`, `init.c`) | `cpu.pc`, `Decode.dnpc`, `cur_pri`, trap CSRs, `have_RISCVException` | `irp_and`, `decode_exec`, delegation, `illegal_instruction`, `mret`, `sret`, CSR writes | trap nesting, exceptions left in a global, uninitialised `dnpc`, two status words that are not views of one |
| CLINT (`src/device/clint.c`) | `mtime`, `mtimecmp`, two words each | `clint_update`, guest word stores, `wfi` update, word-wise comparison | 64-bit values updated and compared in halves |
| Atomics (`src/isa/riscv32/atomic_mem_word.c`) | the list `cpu.amw` | `lr.w`, `sc.w`, `amo*` | reservations outlive context switches |
| Keyboard (`src/device/keyboard.c`) | ring `key_queue`, `key_f`, `key_r`, data port | `send_key`, `key_enqueue`, `key_dequeue` | full and empty look alike, events while stopped |
| Run control (`src/cpu/cpu-exec.c`, `src/monitor/sdb/sdb.c`, `src/device/device.c`, `src/utils/state.c`) | `nemu_state`, loop counter, batch flag | `cpu_exec`, `execute`, the commands, `device_update`, `main` | many writers of `nemu_state`, window closed at any moment, exit status |
| Differential testing (`src/cpu/difftest/dut.c`, `src/isa/riscv32/difftest/dut.c`) | both register files, skip flags | `difftest_step`, `difftest_skip_*`, `isa_difftest_checkregs`, the mismatch prompt | flags set in one step and consumed in another, tolerance, drift |
| MiniRV32IMA reference (`tools/rv32ima-diff`) | its core: pc, CSRs, a timer of its own | `MiniRV32IMAStep`, `difftest_regcpy` | a second interpreter and a second clock, only partly compared |
| QEMU reference (`tools/qemu-diff`) | connection, packet buffers | `gdb_send`, `gdb_recv`, the difftest calls | acknowledgement, retry, a peer that dies |
| I/O map, physical memory (`src/device/io`, `src/memory`) | region table, device pages | `new_space`, `add_mmio_map`, `map_read`, `map_write` | bound and overlap tests at the edges |
| Serial port, RTC (`src/device/serial.c`, `timer.c`) | device pages, `is_eofd` | I/O handlers | one register with two meanings, end of input, a latch |
| SD card (`src/device/sdcard.c`, driver `resource/sdcard/nemu.c`) | registers, image position, `read_ext_csd`, `blk_addr` | commands, data words | modes that outlive a request, unfinished transfers |
| Expression evaluator (`src/monitor/sdb/expr.c`) | token array, two stacks | `make_token`, `tokens_calculation` | precedence, unary operators, array limit |
| Configuration (`tools/kconfig`) | menu tree, symbols with cached values, `.config` | `menu_finalize`, `sym_calc_value`, `conf_read`, `conf_write`, the modes of `conf` | recursion with caches, choices, three-valued logic, values that come and go |
| Incremental build (`tools/fixdep`, `scripts/build.mk`, `confdata.c`) | `.config`, `auto.conf`, `autoconf.h`, time stamps, `.d` files | `conf_write`, `conf_write_autoconf`, `conf_touch_deps`, `parse_dep_file`, the make rules | crashes between renames, stale objects |
| Boot (`src/monitor/monitor.c`) | options, image | `parse_args`, `init_*`, `load_img` | none: a fixed sequence (in which `csr_init` overwrites what `--mode` stored) |
| VGA, audio, disk, syscon, tracing, MIPS and LoongArch skeletons, kconfig's menu front end, Spike and KVM glue | - | - | pixel copies, empty files, printing, screen drawing, upstream code |

Interaction. `main` calls `init_monitor` and then `sdb_mainloop`. A command calls
`cpu_exec(n)`; `execute` alternates `exec_once`, `difftest_step` and
`device_update`. `isa_exec_once` polls the CLINT through the I/O map (`irp_and`)
before every instruction; every device access calls `difftest_skip_ref`.
`difftest_step` steps the reference, through a shared library (MiniRV32IMA) or a
socket (QEMU). `device_update` ticks the CLINT and polls SDL at most 60 times a second,
which feeds `send_key` and may set `nemu_state.state = NEMU_QUIT`. A guest ends the
run through `set_nemu_state`. At build time `conf` writes `.config`, then
`auto.conf` and `autoconf.h` (its mode `syncconfig`), and touches a file per changed
symbol; the compiler's list of dependencies goes through `fixdep`, which replaces
`autoconf.h` by the files of the symbols a source mentions; make compares time stamps.

What each component has to get right: a return instruction restores what the trap
took, handlers are not preempted, an exception stays with its instruction, the next
pc is defined, no due timer is missed and the guest progresses (hart, CLINT); one
store-conditional per load-reserved (atomics); a bounded FIFO (keyboard); an ended
program stays ended, closing the window stops the guest, a command does what it was
asked, the exit status is the verdict (run control); errors do not pile up unseen,
and two correct interpreters do not diverge (differential testing); a call of the
reference takes effect once (QEMU client); one owner per address, input read once and
in order, one reading per time, each request its own blocks (devices); values
independent of the order of calculation, one value per choice, files that read back
as they were written (configuration); nothing saved is lost and nothing stale is kept
(build).

## 2. Modules

| Module | Models | Kind |
|---|---|---|
| `KeyFifo` | what the keyboard promises | abstract specification |
| `Keyboard`, `MCKeyboard`, `KeyboardProofs` | `keyboard.c`; implements `KeyFifo` | specification, instance, proofs |
| `Clint` | `clint.c` and the accesses of `inst.c` to it | component, extended by `Hart` |
| `Hart`, `MCHart` | `isa_exec_once`, `irp_and`, `decode_exec`, `execute` | specification composed with `Clint`, guest images (proofs in `LockstepProofs`) |
| `RefIma` | `MiniRV32IMAStep` | operators on the reference's core |
| `Lockstep`, `MCLockstep`, `LockstepProofs` | `Hart` and `RefIma` under `difftest_step` | composition, guest images, proofs of it and of `Hart` |
| `Monitor`, `MCMonitor`, `MonitorProofs` | debugger, `cpu_exec`, window, exit status | specification, instance, proofs |
| `Difftest`, `MCDifftest`, `DifftestProofs` | `difftest_step`, flags and comparison | specification, instance, proofs |
| `RefApi` | what `difftest_step` expects of a reference | abstract specification |
| `GdbRemote`, `MCGdbRemote`, `GdbRemoteProofs` | `tools/qemu-diff`; implements `RefApi` | specification, instance, proofs |
| `LrSc`, `LrScProofs` | `lr.w`/`sc.w`/`amo*` and the reservation list | specification, proofs |
| `Serial`, `SdCard` | the devices' callbacks | components, extended by `Bus` |
| `Bus`, `MCBus`, `BusProofs` | I/O map, devices, guest drivers | composition, layouts and requests, proofs |
| `Expr`, `MCExpr` | the debugger's evaluator | specification, instance |
| `KExpr` | `tools/kconfig/expr.c` | pure operators |
| `KParser`, `MCKParser` | the expression stack of `parser.y` and `KExpr`'s promises | specification, instance |
| `KMenu`, `KSymbol`, `KConfData` | `menu.c` with the parser's actions, `symbol.c`, `confdata.c` | operators on tables and state |
| `KConf`, `MCKConf` | `conf.c` on top of them | specification, Kconfig files |
| `KBuild`, `MCKBuild`, `KBuildProofs` | configuration files, fixdep, make, crashes | specification, instance, proofs |

Definitions keep the names of the C functions. A definition with an underscore
suffix (`EnterM_KeepsMIE`, `Again_AfterQuit`, ...) is a plausible mistake in the
definition below it; replacing the one by the other breaks the property named in
`PROJECT.json`, which shows that the property depends on that code.

### Keyboard
`key_queue`, `key_f` and `key_r` are the ring; `key_enqueue` writes, advances and only
then asserts, so the overflowing event has already overwritten the index when the
process dies (`alive`). `send_key` drops unmapped keys and events that arrive while
`nemu_state` is not RUNNING; `SetRunning` is `cpu_exec` starting or stopping. The
refinement mapping takes the ring's contents from `key_f` up to `key_r` to the abstract
sequence, of capacity `KEY_QUEUE_LEN - 1`, and a dead process to an empty one.

### Hart
An iteration of `isa_exec_once` has three phases: `irp_and` (poll, interrupt or
not), the body of the instruction, and the common tail of `decode_exec` that handles
the exception left in `have_RISCVException`, followed by `cpu.pc = s->dnpc`.
`DnpcAfter` and `ExcAfter` are the macro `dnpc_and_check`: a misaligned target
leaves `dnpc` as it was. `dnpc` starts arbitrary because `Decode s` is an uninitialised
local (`cpu-exec.c:77`), and becomes arbitrary again whenever a new `cpu_exec`
starts. `mstatus` and `sstatus` are separate records, as they are separate words of
`cpu.csr`; bit 3 of `sstatus`, which `irp_and` tests, is separate from SIE. A guest
image is a set of instructions any of which may be fetched at any address. Integer,
multiply, load and store instructions are the one action `alu`, since they differ
only in the value of `rd`; stores to the CLINT are `sw`. The default build is
modelled: M/S/U, no compressed instructions, misaligned data accesses allowed, the
CLINT incremented by `clint_update`. `mctx` and `sctx` remember, for the properties
only, what the pending return has to restore; `assigned` whether `dnpc` was ever
written.

### Lockstep
The build with `CONFIG_DIFFTEST_REF_MINIRV32I`. `Lockstep` takes `Hart`'s actions as
they are and puts `difftest_step` after each iteration: the reference steps on the
same memory, its time goes into the low word of the CLINT (`memory/host.h:37` stores
four bytes of eight), the pcs are compared. The build starts with the reference's
registers: `init_difftest` (`cpu/difftest/dut.c:106`) copies them over those `init_isa`
set, which leaves MPP clear (`difftest_regcpy` in `LInit`). In this build `clint_update` sets the time
to the host's, so a tick may set any pair of words. `LockstepAgrees` is conditional on
`~split`: there are two clocks and two timer comparisons (word-wise in `irp_and`,
64-bit and with a zero test in the reference), so one side may take an interrupt when
the other does not. The guest programs compared (`Compared`) keep to what both treat
alike, which `Comparable` says of an instruction and `ComparedAssumption` of the
programs. Atomic instructions do not count among the `alu` of these programs: where
`sc.w` differs from the reference is the subject of `LrSc`. Left out too are `wfi`, `ebreak`, `sret` (which the reference takes for `mret`), the supervisor CSRs
(which it ignores), misaligned targets and vectored `mtvec`. The privilege level, MPP
and mcause part silently, because CSRs are never compared; the property says which
registers agree nevertheless. The images of `MCHart` with supervisor code run in the
same model without a reference.

### Monitor
`ctl` is the program counter of the only thread. `exec_once` either continues or sets
`nemu_state` to END (guest trap, with its return value) or ABORT (difftest);
`exec_panic` is a failing `Assert`. `device_update` polls or returns early
(`device_update_poll`, `device_update_skip`). The window may be closed at any time
(`CloseWindow`, external); the prompt discards queued events
(`sdl_clear_event_queue`). A number typed after `si` is cut to the unsigned word `N`
(`ToWord`) before it is tested; `want` keeps the number as it was typed.
`is_batch_mode` is chosen once.

### Difftest
One register and one pc per side. An instruction adds one; a faulty one adds
something else or goes elsewhere. `Dert` and `Differs` are the wrap-around 32-bit
difference and the comparison with the tolerance, `abs(INT_MIN)` being undefined and
therefore either. `MINIRV32I` is the build. `skip_dut_nr_inst` stays 0
(`difftest_skip_dut` is only called with `nr_dut = 0`), so its branch is left out; the
early return on `skip_dut_one_inst` can never be taken, which `SkipsAreDead` checks.

### LrSc
Tasks share the hart and may be switched between any two instructions. Nodes are
appended by `lr.w`, and the first one with the address is removed by a successful
`sc.w`. Any task may execute `sc.w` at any time, after an `lr.w` of its own or not, and
need not follow an `lr.w` with one: `inst.c:309` only asks whether the list holds a
node for the address. Beside the list, `slot` is the reservation of the reference
(`mini-rv32ima.h:483-489`), which a later `lr.w` replaces; `used` says whether an `sc.w`
has answered it. What a task stores is the word it read plus one.

### Bus, Serial, SdCard
`Bus` starts with `init_device`: for every device `new_space` and `add_mmio_map`, whose
failing assertions end the emulator (`panic`). Then drivers run, and the guest may
switch between them at any access: a console that polls the line status and reads or
writes a byte, a reader of the two clock words, and the card driver of
`resource/sdcard/nemu.c` with its scatter list (`Bus` follows that driver's loops:
command, pieces, words, stop command, response). An address is a register, a page of
I/O space a unit. Every access goes through `paddr_read` or `paddr_write`. Not caught
by the code: a region that encloses memory. No configuration has one, because all
devices share the 2 MB of `io_space` (`src/device/io/map.c:21`), much less
than the 128 MB of memory (`LayoutAssumption`). A region that wraps around is accepted; nothing
reaches it. With the 1600x1200 VGA mode
(`src/device/Kconfig:93`) the frame buffer is larger than `IO_SPACE_MAX`, so that
the assertion of `new_space` ends every start; the run contains that layout.
After the end of a redirected input the line status is 0xFF and the data register
reads its last byte again; a driver that reads the data register at start-up, before
polling, discards what was typed before. SD reads past the end of the image repeat the
last word, and the card always claims 16 GB; single-block commands and reads of SDHSTS
end the emulator. `difftest_skip_ref`, called for every access to a device, is in
`Difftest`.

### GdbRemote and RefApi
`RefApi` is the whole promise: one call at a time, which takes effect as if at one
moment and returns the reference's registers or an empty answer, or the process ends.
`GdbRemote` has the client character by character where it matters (start, run-length
marker, escape, checksum), the acknowledgements, and a stub that executes commands.
Registers are words of two bytes. A call may be several commands (a memory copy longer
than a packet, an `exec` of several steps, registers read and written back), so the
refinement mapping takes the call to have happened when it returns: until then the
abstract reference is `before`, a history variable that keeps what it was when the
call came. The stub and the connection
are external; the connection may damage the body of a packet, not its framing (damage
to framing hangs both sides: there is no timeout in `protocol.c`) and not so that the
checksum still fits. The stub may die. End of file while a reply is awaited ends the
emulator with status 0 (`errx(0, ...)`); while an acknowledgement is awaited it counts
as a refusal, and the packet is sent again until the write raises SIGPIPE. Connecting
retries for ever if QEMU never listens. The result of `gdb_setregs` is ignored by its
caller, that of `gdb_memcpy_to_qemu` asserted. Mode without acknowledgements is never
started.

### Expr
One call of `expr`: `make_token` fills the array (its length checked, the last slot
included), then each step is a token or one turn of a loop over the two stacks. Reads
below a stack and pushes past its end are undefined and end in "undefined". A
dereference of a word that is neither memory nor a device fails an assertion
(`src/device/io/map.c:37`) and ends the debugger, as do a null pointer and a
division by zero: "abort". `CValue` evaluates the tree the text stands for as C does,
which is what `tools/gen-expr/gen-expr.c` takes for the right answer; expressions whose
value C leaves open, or whose intermediate values leave the range that `int` and
`unsigned` share, have none. `Supported` says for which expressions the debugger is
right: no product and no difference before a `+` or `-`, and dereferences at the right
end only.

### KExpr, KParser, KMenu, KSymbol, KConfData, KConf
A tristate is 0, 1 or 2; an expression is a record tree. `KExpr` has the constructors,
`expr_eq`, the three rewriting passes (`expr_eliminate_yn`, `expr_transform`,
`expr_eliminate_dups` with `expr_join_or` and `expr_join_and`),
`expr_eliminate_eq`, the evaluation, the dependency tests `expr_contains_symbol` and
`expr_depends_symbol`, and the printer. `KParser` is the parser's value stack: every
expression it can hold is checked.

`KMenu` turns a sequence of statements into the menu tree, with `menu_finalize`:
dependencies pushed down, submenus found, choices given their types and values.
`KSymbol` is the value calculation with its caches: a state `st` holds `SYMBOL_VALID`,
`SYMBOL_WRITE`, `SYMBOL_DEF_USER`, the user's values, the current ones and the
visibilities, and every C function that writes them is an operator from `st` to `st`.
A function that writes in several steps is a chain of operators, each taking the state
(or the state and a value, `[st, v]`) that the step before left.
`KConfData` reads and writes files, as sequences of lines. `KConf` is `conf` in its
modes, run again and again on the same disk, with Kconfig files that may change in
between; the recursion over the menu is a stack of tasks, every question may get any
answer.

Seen while modelling, and so in the model: a tristate choice at m whose values are all
n is not recorded in `.config`; an optional choice that gains a value in a new version
of its file loses `SYMBOL_DEF_USER` and becomes n; whether a choice value is written
can depend on the order of the hash table, through a visibility that has not been
recalculated; an int symbol without a default makes `conf_string` ask for ever at end
of input (such a symbol is not in the files). `OrderDoesNotMatter` is about values
and visibility and therefore leaves `SYMBOL_WRITE` out.

### KBuild
A step is one system call that another program could see: the three renames of
`confdata.c`, one touched file, the compiler's two outputs, fixdep's output. Any
program may be killed between them (`crash`). A text is a set of words; a word names a
symbol, may have the suffix `_MODULE` and may be part of a longer word, which fixdep does
not look at. Time stamps are kept as the set of things newer than each object, which is
all make asks. The developer edits files, chooses configurations, cleans, and may run
make at any moment, also after an interrupted `syncconfig` and without running it
again. After that (`early`) and a return to the old configuration an object may be
stale, because no rule of the Makefile depends on `auto.conf`, which
`confdata.c:1093` takes for granted. Out of reach of fixdep, and left out: the
`CONFIG_CC_*` flags, which reach the compiler's command line only, and a symbol whose
own name ends in `_MODULE`. Nobody edits while make runs, and
`KCONFIG_OVERWRITECONFIG` is not set.

## 3. Runs

| Run | Bounds | Shows |
|---|---|---|
| `keyboard` | 4 slots, 2 mapped keys, 1 unmapped scan code | the ring implements `KeyFifo`; pending slots hold key codes |
| `hart` | 8 addresses, 1-bit CLINT words, 6 guest images | `mret` restores the context, handlers are not preempted, due timers are pending, exceptions stay with their instruction, a changed `rd` goes with a misaligned pc only, the pc is defined, the guest keeps executing |
| `lockstep` | the same, 2 compared images and those with delegation, 1 time unit per reference step | hart and MiniRV32IMA agree until their clocks part them; `sret` restores the context, traps never lower the privilege |
| `monitor` | words 0..3, numbers -1..5 | an ended program never runs, closing stops within one instruction and eventually, `si` and `c EXPR` do what was asked, batch exit status |
| `difftest` | register 0..7, tolerance 1, errors -1, 0, 1, 4, both builds | drift is bounded, pending skips are dead |
| `lrsc` | 2 tasks, 2 words, 2 `lr.w` per word (`MaxLr`) | one `sc.w` per `lr.w`; the last `lr.w` is answered as in the reference |
| `bus` | 7 layouts, 2 typed bytes, 4 clock ticks, 3 requests (`MaxTyped`, `MaxTime`, `MaxRequests`), blocks of 2 words, image of 3 words or none | regions are disjoint, typed bytes are read once and in order, the clock words belong together, requests move their own blocks |
| `gdb` | 3 calls (`MaxCalls`), 2 damaged packets (`MaxBad`), 5 bytes of memory, packets of 2 | every call takes effect once, returns the right value, and ends |
| `kexpr` | 3 leaves of 9 kinds (`MaxLeaves`), 1 negation (`MaxNots`) | rewriting keeps the value, equality and dependency tests are sound, printing parses back |
| `kconf` | 3 Kconfig files of 5 or 6 symbols, 13 modes, 2 runs (`MaxRuns`), 2 random draws | order of calculation, choices, rounds of questions, saved and minimal files |
| `kbuild` | 2 symbols, 3 configurations, 1 object of 2 files with 2 texts each | no saved configuration is lost, no finished make is stale |
| `expr` | trees of up to two operators over 3 leaves, of three over 2, one of four; words 0..255, 11 tokens, memory 3..9 | where `Supported` holds, the debugger prints C's value |

Why the bounds are enough. Eight addresses hold an aligned and a misaligned address
on both sides of the wrap of `pc + 4`. One-bit words give every order of two 64-bit
numbers in halves, carries and wraps included. `Garbage = {2}` is misaligned and
different from every address a correct run uses. A ring of four slots fills, wraps and
overflows. A count of three takes the loop through its first, a middle and its last
iteration; of the other numbers 0 and 4 are refused, -1 and 5 are cut to accepted ones.
Three binary operators put one on each side of another and one below that; 11 tokens
hold the longest of these expressions with its parentheses. With errors of 1 and half
the range every branch of `Differs` occurs and errors can accumulate. Three requests
put a failed one and a complete one before a third; pieces of one and a half blocks
make the scatter list and the block boundary disagree; the third word of the image lies
on a block that is only half there. Three calls put two of different kinds before the
one looked at, and the longest buffer needs three packets, the last of them short, with
a byte that is escaped. Every pair of leaf kinds meets in `expr_join_or` and
`expr_join_and` with three leaves, and a third is left for the rewriting to continue
with. The three Kconfig files hold between them select, imply, range, submenus by
dependency, visible-if, choices of both types, optional choices and m; two runs are one
that writes and one that reads, with another file or mode in between. Objects have
nothing to do with each other but what they read, so that one object is enough for
`kbuild`; the theorem is for any number.

Deadlock checking is off where the program may really stop (the process has exited,
an assertion failed, the guest ended, a comparison aborted) and where a bound ends the
run (`MaxRuns`, `MaxCalls`, `MaxLeaves`).

Fairness. `Hart`: weak fairness of `isa_exec_once`, since `execute` calls it again
as long as `nemu_state` is RUNNING; ticks and new `cpu_exec` calls are not assumed.
`Monitor`: weak fairness of the thread's own steps, and strong fairness of
`device_update_poll`, because `device_update` polls whenever 1/60 s has passed and
time passes while instructions execute. `GdbRemote`: weak fairness of the client, of
QEMU starting to listen and of QEMU serving, which are processes of the host; neither
damage nor a crash is assumed to happen or to stop. Users and windows are never
assumed to act.

## 4. Proofs

All theorems hold for every value of the constants allowed by the named assumptions.

* `KeyboardProofs`: `PendingAreCodesAlways` and the refinement
  `KeyboardImplementsFifo`. The inductive invariant is `TypeOK /\ PendingAreCodes`.
  The core are `EnqueueAppends`, `DequeueTakesHead` and `FullWhenAsserted`: advancing
  an index modulo the length appends to, or takes the head of, the ring's contents,
  and the indices meet only when it was full. Assumes a ring of at least two slots and
  a keymap into keys or `NONE`.
* `LockstepProofs`, first part (the hart alone): type correctness, `MretReturns`, `SretReturns`,
  `HandlerNotPreempted`, `TrapNeverLowersPrivilege`, `ExceptionsDoNotLeak`,
  `WritebackTrapsOnlyMisaligned`, `DueTimerPending`, `NextPcIsDefined`, for every set
  of guest images, address space and word size. The inductive invariant `HInv` says
  that while a context is open the CSRs its return will read still hold it and the
  interrupt enable of its level is off. `MretReturns` alone is not inductive: nothing
  in it says what `mepc` and `mstatus` hold between trap and return. For machine mode
  it is conditional on RUNNING, because `ebreak` overwrites `mepc` as the run ends.
  `ExceptionsDoNotLeak` needs `HInv` (an interrupt cannot be taken while an exception
  is left over), `NextPcIsDefined` needs `RetireAssigned` (after a body, `dnpc` was
  written or an exception is pending), and `DueTimerPending` rests on `DueIsHit`: the
  word-wise comparison is implied by the 64-bit one.
* `MonitorProofs`: type correctness, `EndedNeverRuns`, `CloseStopsWithinOne`,
  `StopMeansDone`, `BatchExitStatus`. The inductive invariant `RunInv` says for each
  place the thread can be (`AtExec`, `AtDevice`, `AtDone`, `AtPrompt`) which states,
  counters and flags are possible there. `StopMeansDone` is for every word size and every
  number of a word; what happens to other numbers is in section 6.
* `KBuildProofs`: `SavedConfigNeverLost` and `BuildsAreCurrent`, for any symbols,
  configurations, files, texts and objects. The inductive invariant `IInv` says for
  each object what may have gone out of date since it was compiled and where that is
  still visible: a changed text is newer than the object; a changed symbol it mentions
  is newer, or still to be touched (`Touched`), or hidden by `early`; the dependency
  file names every file read and every symbol mentioned, or its recipe is unfinished and
  the object will be made again. `BuildIsCurrent` alone says nothing of the time
  between two finished makes. `DepCovers` rests on the lemma about `parse_dep_file`,
  that what it drops (`autoconf.h`, repeated files) is replaced or still there. Assumes
  that each object reads its own source, that files are not symbols, and that `NoObj` is
  no object.

* `DifftestProofs`: type correctness, `DriftIsBounded`, `SkipsAreDead`,
  `OnlyMiniRV32IMACompares`, for every register size, tolerance and set of errors. The
  inductive invariant says when a step is due, that the skip flags are clear whenever a
  step could find them set, and that nothing was compared in the builds that skip
  everything. Drift alone is inductive only for the steps that compare; the others
  copy the registers, which is why the flags belong to it.
* `LrScProofs`: type correctness, `OneScPerLr`, `LastLrIsAnswered` and
  `ScSucceedsOnUnusedLr`, for any tasks, any addresses and any number of `lr.w`. The
  lemmas count the places of a word in the list: `lr.w` adds one, `deleteNode` takes one,
  and the other words keep theirs. With types, the two properties are inductive. From
  the counts follows when `sc.w` stores: exactly when some `lr.w` of its word, whoever's
  and however old, has not been used up.
* `LockstepProofs`, second part: `LockstepAgrees`, `SretReturns` and `TrapNeverLowersPrivilege` for
  the composed specification, for every comparable guest program. The inductive
  invariant `LInv` is `HInv` of the hart, the aligned pcs and the CSRs the two sides
  share (`Agreement`: `Core` while an instruction is due, `Result` and `Trapped` between
  the hart's iteration and the reference's step). `LockstepAgrees` says nothing of the
  time between the two.
* `BusProofs`: `OneOwnerPerAddress` for every layout, and, for layouts whose driven
  devices do not wrap around the address space (`InOnePiece`),
  `ConsoleReadsWhatWasTyped`, `ClockIsOneReading` and `RequestsDoTheirBlocks`, the last
  for every image, list of requests and block size. The condition is needed: a region
  that wraps is accepted and empty, so an access to its registers may reach another
  device. `RInv` holds during boot: the regions so far are disjoint and have both ends
  outside memory; that an interval with both ends outside memory and no longer than
  memory does not meet it is `PmemIsInterval` and the lemmas after it. `DInv` adds
  where each driver stands: the byte in the register is the next one typed whenever
  the line status the console saw says so, and the low word latched is that of the
  high word read. `SInv` (`Agreed`) says for each place a request can be, before its own
  command (`Unstarted`), moving its data (`Moving`) or after it (`Ended`), what the card
  and the driver have in common: `Progress` relates the position in the image, the words
  in the driver's buffer or sent, and the image before the request; `Budget` counts the
  words still to come in this block and those of the blocks behind it, all of them if
  there was no error; `Total` is what that comes to at the end. `RequestsDoTheirBlocks`
  speaks of finished requests only, and a request is interleaved with the accesses of
  the other drivers. `RequestAssumption`: the pieces of memory are not empty, a request
  with data has blocks, and the EXT_CSD is read into one buffer of its size.
* `GdbRemoteProofs`: `EveryCallOnce`, the safety half of `ImplementsReference`: every
  step of client, connection and stub is a step of `RefApi` or a stutter, for every set
  of calls, packet size and memory, however many packets are damaged and wherever QEMU
  dies; if calls also end (`Ref!CallsEnd`), the whole refinement holds. The inductive
  invariant `GInv` says what may lie in the connection at each place the client can be
  (`AtSend`, `AtAck`, `AtRecv`): before the acknowledgement the command under way, whole
  or damaged, or the answer to it; while receiving, the rest of one frame that answers
  this command and no earlier one. `Calling` relates the commands left to the call, and
  `Stage` says that the stub's reference is exactly `Done` commands into the call, or
  `Done + 1` once the stub has answered: a command is never executed twice, although it
  is sent again whenever it is refused. `ImplementsReference` compares states only when
  a call returns and says nothing of the messages in between. `Taken` is the
  parser after any number of characters of a frame. From it follows
  `FramesAreDecodedOrRefused`: `recv_packet` decodes every encoding of every reply, plain,
  escaped or with a run, and refuses it with any one character damaged. The checksum is
  a recursive function; what it computes is proved by induction over the natural
  numbers, stated of sets (`Induction`, from the well-foundedness of `<`). Assumes
  `MtuAssumption` (a packet has room for a byte) and `CallsAssumption` (the calls of
  `difftest-def.h`: counts, addresses, bytes, a pc of one word).

Every one of these inductive invariants was checked by TLC, on the run's instance or a
wider one, before it was proved.

Only model-checked: liveness (`KeepsRetiring`, `ClosingStops`, and in
`ImplementsReference` that calls end, `Ref!CallsEnd`), because fairness and ENABLED are
out of the prover's reach; and the properties of `KParser` and `KConf`, whose operators
are recursive over trees (induction over data), and `SupportedValueIsC` of `Expr`, for
the same reason.

## 5. Not modelled

* The value semantics of the integer instructions, CSRs other than the trap CSRs, and
  memory contents: they are data to every property here.
* Boot: a fixed sequence of assignments and one `fread`.
* Tracing, disassembly, logging, register printing: output only. The system controller
  only prints. VGA copies pixels to SDL. Audio and disk are empty files;
  `dev_raise_intr` is empty, so the periodic signal of `alarm.c` does nothing; the
  watchpoint pool has no operation that uses it; MSIP exists in the CLINT page but
  nothing reads it.
* Port I/O: no device of the RISC-V build is on it. Accesses that straddle two
  registers or two regions: the code checks the first byte only and nothing says what
  they should return.
* The MIPS32 and LoongArch32r back ends: upstream skeletons without privileged state.
* Spike and KVM glue: they drive software that is not in this repository; `RefApi`
  states what is expected of it.
* kconfig's menu front end (`mconf.c`, `lxdialog`), lexer and preprocessor: screen
  drawing and text; the front end changes symbols through functions that are modelled.
  Of the modelled files: help texts, searching, string escapes, hex numbers,
  environment variables, warnings.
* `gen-expr`: its generator is unfinished and produces the empty text.

## 6. Where code and repository disagree

Read from the source while modelling, and visible in the actions named; the properties
are stated so that they do not claim these cases:

* The debugger does not print C's value (`sdb.c:97`, `gen-expr.c:26`) for two kinds of
  expressions, which `Supported` leaves out. The final loop of `tokens_calculation`
  evaluates sums from the right (`expr.c:308-319`): `$a0-2-2`, with 7 in `$a0`, prints 7
  instead of 3. And the case of `+` and `-`, when a product or quotient is on the stack,
  reduces it and breaks without pushing the operator (`expr.c:290-303`): `2-2/3-2`
  prints 2 instead of 0. A dereference before a `+` or `-` loses that operator too,
  before a `*` or `/` it is repeated until the number stack overflows (266-277), and
  inside parentheses the operator below it is the one tested (246-252).
* `si -1` runs 2^32 - 1 instructions: the message of `sdb.c:133` calls counts that are
  not positive invalid, but the count is stored in an unsigned word before it is tested
  (`sdb.c:131-132`, `ToWord`).
* `sc.w` answers any `lr.w` of its word that was not used up (`inst.c:309`), in the
  reference only the last `lr.w` (`mini-rv32ima.h:487-488`). After `lr.w` of one word and
  `lr.w` of another, `sc.w` of the first stores; if another task stored to it in between,
  that update is lost.

* MTIP rises before the 64-bit compare value is reached, because a greater low word
  alone is enough (`inst.c:164`, `TimerHit`).
* A trap that is not delegated does not enter machine mode: `inst.c:88-107` never
  assigns `cur_pri` (`EnterM`).
* The delegated trap clears SIE, bit 1 (`inst.c:386`, `EnterS`), and `irp_and` tests
  bit 3.
* With Spike or QEMU nothing is ever compared: the timer poll before each instruction
  marks it as one to skip (`dut.c:99`, `include/device/map.h:41`).
* Answers 1 and 2 to the mismatch prompt abort all the same (`isa/riscv32/difftest/dut.c:80`).
* The S-interrupt branch returns without entering S (`inst.c:182`); `wfi` drops the
  carry out of MTIMELO (`inst.c:344`); a misaligned `jalr` clears `rd` (`inst.c:234`);
  with bit 0 of `mtvec` set an exception fails the alignment check and falls through
  (`inst.c:97`).
* `auto.conf` has no rule that depends on it (`KBuild`, `early`); the largest VGA mode
  does not fit in the I/O space (`Bus`); see section 2.

## 7. Plan

1. Done: keyboard and its refinement; hart with CLINT; run control; differential
   testing with both references; atomics; devices on the bus; expression evaluator;
   configuration; incremental build; proofs for keyboard, hart, lockstep, run control,
   differential testing, atomics, bus with console, clock and card, build, QEMU client.
2. `Boot`: the order of initialisation composed with `Hart!Init`, and the CSR index
   lookup including the unknown index.
