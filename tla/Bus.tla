-------------------------------- MODULE Bus ---------------------------------
(***************************************************************************)
(* The guest's devices behind the bus.  At boot init_device                *)
(* (src/device/device.c) gives every device a piece of the I/O space       *)
(* (new_space, src/device/io/map.c) and a region of the address space      *)
(* (add_mmio_map, src/device/io/mmio.c); afterwards each load or store of  *)
(* the guest goes through paddr_read or paddr_write (src/memory/paddr.c)   *)
(* to memory or to the callback of the device that owns the address.  An   *)
(* address is a register here, a page of I/O space a unit.                 *)
(*                                                                         *)
(* The guest runs drivers, and the scheduler may switch between them after *)
(* any access: a console that polls the line status and reads or writes a  *)
(* byte, a clock that reads the time high word first, and the SD host      *)
(* driver of resource/sdcard/nemu.c.                                       *)
(***************************************************************************)
EXTENDS Integers, Sequences, FiniteSets, FiniteSetsExt, SequencesExt, Serial, SdCard

CONSTANTS Layouts,     \* device configurations: [addr, len, pages] by device
          Order,       \* the devices in the order of init_device
          Workloads,   \* sets of drivers that run together
          AddrSpace,   \* addresses are 0 .. AddrSpace - 1 (2^32)
          MBase, MSize,\* physical memory
          NR_MAP,      \* regions add_mmio_map has room for
          IoSpaceMax,  \* pages of I/O space
          Stdins,      \* standard inputs: <<tty, bytes waiting at boot>>
          Keys,        \* bytes that can be typed
          MaxTyped, MaxTime,
          Images,      \* SD card images: <<present, words>>
          Requests,    \* requests of the MMC core
          MaxRequests

ASSUME MemAssumption == /\ MBase \in Nat /\ MSize \in Nat /\ AddrSpace \in Nat
                        /\ MSize < AddrSpace /\ MBase + MSize <= AddrSpace
\* No device is larger than memory: they share the 2 MB of io_space.
ASSUME LayoutAssumption ==
  \A l \in Layouts, d \in Range(Order) :
    l[d].addr \in 0 .. AddrSpace - 1 /\ l[d].len \in 1 .. MSize
\* The devices that have a driver, and the registers it uses.
ASSUME DriverAssumption ==
  /\ Order \in Seq(Range(Order)) /\ {"serial", "rtc", "sdhci"} \subseteq Range(Order)
  /\ \A l \in Layouts : l["serial"].len >= 8 /\ l["rtc"].len >= 2 /\ l["sdhci"].len >= 17
ASSUME InputAssumption == /\ Stdins \subseteq BOOLEAN \X Seq(Int) /\ Keys \subseteq Int
                          /\ Images \subseteq BOOLEAN \X Seq(Int \X Int)

VARIABLES config,      \* the layout and the workload of this build and guest
          maps, space, \* the regions, and the pages of I/O space handed out
          panic,       \* an assertion failed: the emulator is gone
          dev,         \* the devices
          typed, now,  \* what was typed, and the host's clock
          con, clk,    \* the console and the clock driver
          drv          \* the SD host driver

vars == <<config, maps, space, panic, dev, typed, now, con, clk, drv>>
-----------------------------------------------------------------------------
\* Memory and regions; the comparison is one of unsigned numbers.
in_pmem(addr) == (addr - MBase) % AddrSpace < MSize
map_inside(map, addr) == addr >= map.low /\ addr <= map.high
fetch_mmio_map(addr) == {i \in DOMAIN maps : map_inside(maps[i], addr)}

Low(d)   == config.layout[d].addr
Right(d) == (Low(d) + config.layout[d].len - 1) % AddrSpace

Overlaps_LeftOnly(d) ==
  \/ in_pmem(Low(d))
  \/ \E i \in DOMAIN maps : Low(d) <= maps[i].high /\ Right(d) >= maps[i].low
\* What report_mmio_overlap is called for.
Overlaps(d) ==
  \/ in_pmem(Low(d)) \/ in_pmem(Right(d))
  \/ \E i \in DOMAIN maps : Low(d) <= maps[i].high /\ Right(d) >= maps[i].low

Booted == Len(maps) = Len(Order)
Due(d) == Order[Len(maps) + 1] = d

\* new_space asserts after it has moved on; add_mmio_map before it adds.
init_dev(d) ==
  /\ ~panic /\ ~Booted /\ Due(d)
  /\ space' = space + config.layout[d].pages
  /\ IF space' >= IoSpaceMax \/ Len(maps) >= NR_MAP \/ Overlaps(d)
     THEN panic' = TRUE /\ UNCHANGED maps
     ELSE /\ maps' = Append(maps, [name |-> d, low |-> Low(d), high |-> Right(d)])
          /\ UNCHANGED panic
  /\ UNCHANGED <<config, dev, typed, now, con, clk, drv>>
-----------------------------------------------------------------------------
\* The callback of a device, and the assertions it makes.
Callback(d, s, offset, is_write) ==
  CASE d = "serial" -> serial_io_handler(s, offset, is_write)
    [] d = "rtc"    -> rtc_io_handler(s, offset, is_write, now)
    [] d = "sdhci"  -> sdcard_io_handler(s, offset)
    [] OTHER        -> s
Accepts(d, s, offset) == d = "sdhci" => sdcard_accepts(s, offset)

\* Callback first, then the read; or the write first, then the callback.
AfterRead(d, offset) == Callback(d, dev[d], offset, FALSE)
AfterWrite(d, offset, v) == Callback(d, [dev[d] EXCEPT !.base[offset] = v], offset, TRUE)

\* The load or the store of one register, by its address: the device or
\* memory that answers, or the end of the emulator.  What a load returns is
\* Loaded(addr), unless it panics.
Owner(addr) == LET i == Min(fetch_mmio_map(addr)) IN maps[i]
Loaded(addr) == IF in_pmem(addr) THEN 0
                ELSE AfterRead(Owner(addr).name, addr - Owner(addr).low).base[addr - Owner(addr).low]
paddr_read(addr) ==
  CASE in_pmem(addr) -> UNCHANGED <<dev, panic>>
    [] ~in_pmem(addr) /\ fetch_mmio_map(addr) # {} ->
         LET m == Owner(addr)
             o == addr - m.low
         IN IF Accepts(m.name, dev[m.name], o)
            THEN dev' = [dev EXCEPT ![m.name] = AfterRead(m.name, o)] /\ UNCHANGED panic
            ELSE panic' = TRUE /\ UNCHANGED dev
    [] OTHER -> panic' = TRUE /\ UNCHANGED dev
paddr_write(addr, v) ==
  CASE in_pmem(addr) -> UNCHANGED <<dev, panic>>
    [] ~in_pmem(addr) /\ fetch_mmio_map(addr) # {} ->
         LET m == Owner(addr)
             o == addr - m.low
         IN IF Accepts(m.name, [dev[m.name] EXCEPT !.base[o] = v], o)
            THEN dev' = [dev EXCEPT ![m.name] = AfterWrite(m.name, o, v)] /\ UNCHANGED panic
            ELSE panic' = TRUE /\ UNCHANGED dev
    [] OTHER -> panic' = TRUE /\ UNCHANGED dev

Running(task) == ~panic /\ Booted /\ task \in config.workload
-----------------------------------------------------------------------------
\* The console: what it saw of the line status, and what it has read.
con_poll == /\ Running("console")
            /\ paddr_read(Low("serial") + LSR)
            /\ con' = IF panic' THEN con ELSE [con EXCEPT !.lsr = Loaded(Low("serial") + LSR)]
            /\ UNCHANGED <<config, maps, space, typed, now, clk, drv>>
con_recv == /\ Running("console") /\ con.lsr % 2 = DR /\ Len(con.got) <= MaxTyped
            /\ paddr_read(Low("serial") + RX)
            /\ con' = IF panic' THEN con
                      ELSE [con EXCEPT !.lsr = 0, !.got = Append(@, Loaded(Low("serial") + RX))]
            /\ UNCHANGED <<config, maps, space, typed, now, clk, drv>>
\* printk from another context may come between the poll and the read.
con_send == /\ Running("console") /\ Len(con.sent) < MaxTyped
            /\ \E c \in Keys : /\ paddr_write(Low("serial") + RX, c)
                               /\ con' = [con EXCEPT !.sent = Append(@, c)]
            /\ UNCHANGED <<config, maps, space, typed, now, clk, drv>>
\* set_termios and the like.
con_setup == /\ Running("console")
             /\ \E r \in {IER, FCR, LCR, MCR} : paddr_write(Low("serial") + r, WLEN8)
             /\ UNCHANGED <<config, maps, space, typed, now, con, clk, drv>>
\* A key is typed, on a terminal.
Type == /\ Running("console") /\ Len(typed) < MaxTyped /\ dev["serial"].tty
        /\ \E c \in Keys : /\ typed' = Append(typed, c)
                           /\ dev' = [dev EXCEPT !["serial"].stdin = Append(@, c)]
        /\ UNCHANGED <<config, maps, space, panic, now, con, clk, drv>>

\* The time, high word first.
clk_high == /\ Running("clock") /\ clk.pc = "high"
            /\ paddr_read(Low("rtc") + 1)
            /\ clk' = IF panic' THEN clk
                      ELSE [clk EXCEPT !.pc = "low", !.high = Loaded(Low("rtc") + 1), !.asked = now]
            /\ UNCHANGED <<config, maps, space, typed, now, con, drv>>
clk_low == /\ Running("clock") /\ clk.pc = "low"
           /\ paddr_read(Low("rtc"))
           /\ clk' = IF panic' THEN clk
                     ELSE [clk EXCEPT !.pc = "high", !.time = clk.high * TimeLow + Loaded(Low("rtc"))]
           /\ UNCHANGED <<config, maps, space, typed, now, con, drv>>
Tick == /\ Running("clock") /\ now < MaxTime /\ now' = now + 1
        /\ UNCHANGED <<config, maps, space, panic, dev, typed, con, clk, drv>>
-----------------------------------------------------------------------------
\* The SD host driver.  mrq: [op, blk, blocks, sg, sbc, stop]; sg is the list
\* of the lengths in bytes of the pieces of memory the data is in.
HasData(mrq) == mrq.op \in {"READ_MULTIPLE_BLOCK", "WRITE_MULTIPLE_BLOCK", "SEND_EXT_CSD"}
IsRead(mrq)  == mrq.op # "WRITE_MULTIPLE_BLOCK"
Opcode == CASE drv.cmd = "sbc"  -> "SET_BLOCK_COUNT"
            [] drv.cmd = "stop" -> "STOP_TRANSMISSION"
            [] OTHER            -> drv.mrq.op
Arg == CASE drv.cmd = "sbc" -> drv.mrq.blocks
         [] drv.cmd = "cmd" -> drv.mrq.blk
         [] OTHER           -> 0

\* Memory comes in pieces that are not empty; the EXT_CSD is read into one
\* buffer of its size.
ASSUME RequestAssumption ==
  /\ Requests \subseteq [op : STRING, blk : Nat, blocks : Nat, sg : Seq(Nat \ {0}),
                         sbc : BOOLEAN, stop : BOOLEAN]
  /\ \A r \in Requests :
       /\ HasData(r) => r.blocks > 0
       /\ r.op = "SEND_EXT_CSD" => r.blocks = 1 /\ r.sg = <<4 * BlockWords>>

\* use_sbc: only reads are announced with CMD23.
UseSbc(mrq) == mrq.sbc /\ HasData(mrq) /\ IsRead(mrq)

nemu_request ==
  /\ Running("sd") /\ drv.pc \in {"idle", "done"} /\ drv.nr < MaxRequests
  /\ \E r \in Requests :
       drv' = [drv EXCEPT !.pc = "arg", !.mrq = r, !.nr = @ + 1, !.error = FALSE,
                          !.cmd = IF UseSbc(r) THEN "sbc" ELSE "cmd",
                          !.sg = r.sg, !.buf = << >>, !.sent = 0,
                          !.before = dev["sdhci"].img]
  /\ UNCHANGED <<config, maps, space, panic, dev, typed, now, con, clk>>

\* nemu_send_command: the argument, then the command ...
write_arg == /\ Running("sd") /\ drv.pc = "arg"
             /\ paddr_write(Low("sdhci") + SDARG, Arg)
             /\ drv' = [drv EXCEPT !.pc = "command"]
             /\ UNCHANGED <<config, maps, space, typed, now, con, clk>>
write_cmd == /\ Running("sd") /\ drv.pc = "command"
             /\ paddr_write(Low("sdhci") + SDCMD, Opcode)
             /\ drv' = IF drv.cmd = "cmd" /\ HasData(drv.mrq)
                       THEN [drv EXCEPT !.pc = "piece", !.left = drv.mrq.blocks - 1,
                                        !.blksize = 4 * BlockWords]
                       ELSE [drv EXCEPT !.pc = "response"]
             /\ UNCHANGED <<config, maps, space, typed, now, con, clk>>

\* ... and the data: nemu_transfer_block_pio, once per block.  A block ends
\* where its bytes are moved or its memory turns out unusable.
NextBlock(d) == IF d.left = 0 THEN [d EXCEPT !.pc = "response"]
                ELSE [d EXCEPT !.left = @ - 1, !.blksize = 4 * BlockWords]
Piece == LET have == Head(drv.sg) IN IF have < drv.blksize THEN have ELSE drv.blksize
sg_miter_next ==
  CASE drv.blksize = 0 -> NextBlock(drv)
    [] drv.blksize > 0 /\ drv.sg = << >> -> NextBlock([drv EXCEPT !.error = TRUE])
    [] drv.blksize > 0 /\ drv.sg # << >> /\ Piece % 4 # 0 ->
         NextBlock([drv EXCEPT !.error = TRUE, !.sg = Tail(@), !.sent = @ + Head(drv.sg) \div 4])
    [] OTHER -> [drv EXCEPT !.pc = "word", !.words = Piece \div 4, !.blksize = @ - Piece,
                            !.sg = IF Head(@) = Piece THEN Tail(@)
                                   ELSE <<Head(@) - Piece>> \o Tail(@)]
next_piece == /\ Running("sd") /\ drv.pc = "piece"
              /\ drv' = sg_miter_next
              /\ UNCHANGED <<config, maps, space, panic, dev, typed, now, con, clk>>

AfterWord == [drv EXCEPT !.words = @ - 1, !.pc = IF drv.words = 1 THEN "piece" ELSE "word"]
read_word == /\ Running("sd") /\ drv.pc = "word" /\ IsRead(drv.mrq)
             /\ paddr_read(Low("sdhci") + SDDATA)
             /\ drv' = IF panic' THEN drv
                       ELSE [AfterWord EXCEPT !.buf = Append(@, Loaded(Low("sdhci") + SDDATA))]
             /\ UNCHANGED <<config, maps, space, typed, now, con, clk>>
write_word == /\ Running("sd") /\ drv.pc = "word" /\ ~IsRead(drv.mrq)
              /\ paddr_write(Low("sdhci") + SDDATA, <<drv.nr, drv.sent + 1>>)
              /\ drv' = [AfterWord EXCEPT !.sent = @ + 1]
              /\ UNCHANGED <<config, maps, space, typed, now, con, clk>>

\* nemu_finish_command and nemu_transfer_complete: the next command of the
\* request, if there is one.
AfterResponse ==
  CASE drv.cmd = "sbc" -> [drv EXCEPT !.cmd = "cmd", !.pc = "arg"]
    [] /\ drv.cmd = "cmd" /\ HasData(drv.mrq)
       /\ drv.mrq.stop /\ (drv.error \/ ~UseSbc(drv.mrq)) ->
         [drv EXCEPT !.cmd = "stop", !.pc = "arg"]
    [] OTHER -> [drv EXCEPT !.pc = "done"]
read_response == /\ Running("sd") /\ drv.pc = "response"
                 /\ paddr_read(Low("sdhci") + SDRSP0)
                 /\ drv' = IF panic' THEN drv ELSE AfterResponse
                 /\ UNCHANGED <<config, maps, space, typed, now, con, clk>>
-----------------------------------------------------------------------------
Init == /\ \E l \in Layouts, w \in Workloads : config = [layout |-> l, workload |-> w]
        /\ maps = << >> /\ space = 0 /\ panic = FALSE /\ now = 0
        /\ \E i \in Stdins, m \in Images :
             /\ "console" \notin config.workload => i = CHOOSE j \in Stdins : TRUE
             /\ "sd" \notin config.workload => m = CHOOSE j \in Images : TRUE
             /\ dev = [d \in Range(Order) |->
                         CASE d = "serial" -> serial_init(i[1], i[2])
                           [] d = "rtc"    -> rtc_init
                           [] d = "sdhci"  -> sdcard_init(m[1], m[2])
                           [] OTHER        -> << >>]
             /\ typed = i[2]
        /\ con = [lsr |-> 0, got |-> << >>, sent |-> << >>]
        /\ clk = [pc |-> "high", high |-> 0, asked |-> 0, time |-> 0]
        /\ drv = [pc |-> "idle", mrq |-> << >>, nr |-> 0, error |-> FALSE, cmd |-> "cmd",
                  sg |-> << >>, buf |-> << >>, sent |-> 0, before |-> << >>,
                  left |-> 0, blksize |-> 0, words |-> 0]

Next == \/ \E d \in Range(Order) : init_dev(d)
        \/ con_poll \/ con_recv \/ con_send \/ con_setup \/ Type
        \/ clk_high \/ clk_low \/ Tick
        \/ nemu_request \/ write_arg \/ write_cmd \/ next_piece
        \/ read_word \/ write_word \/ read_response

Spec == Init /\ [][Next]_vars
-----------------------------------------------------------------------------
(* Once the regions are in place, no address belongs to two of memory and  *)
(* the devices, whatever addresses and sizes were configured: the tests of *)
(* the two ends of a region (mmio.c:39) and of its overlap with every      *)
(* earlier one are enough for regions that do not enclose memory, those    *)
(* that wrap around included.                                              *)
OneOwnerPerAddress ==
  \A addr \in 0 .. AddrSpace - 1 :
    Cardinality(fetch_mmio_map(addr)) + (IF in_pmem(addr) THEN 1 ELSE 0) <= 1

(* The console reads the bytes that were typed, all of them and in order,  *)
(* although one register holds the byte received and the byte sent, and    *)
(* output may come between the poll and the read (serial.c:66,94).  At the *)
(* end of a redirected input every byte has been read; what is read after  *)
(* that is whatever the register holds.                                    *)
ConsoleReadsWhatWasTyped ==
  LET s == dev["serial"] IN
    /\ ~s.is_eofd => con.got \o s.stdin = typed
    /\ s.is_eofd  => IsPrefix(typed, con.got)
    /\ s.out = con.sent

(* A time read high word first is the time at which it was asked for: the  *)
(* two words never come from two readings of the clock (timer.c:24).       *)
ClockIsOneReading == ~panic /\ clk.pc = "high" => clk.time = clk.asked

\* The words of the image that request r covers, and those the file has.
Covered(r) == r.blk * BlockWords + 1 .. (r.blk + r.blocks) * BlockWords

(* A finished request has done what was asked of the card and no more: a   *)
(* read returns the blocks as they were, a write leaves exactly its data   *)
(* in its blocks and every other word alone, the EXT_CSD read gets the     *)
(* register, and a failed request has touched nothing outside its blocks - *)
(* whatever requests, failed ones included, came before it, since the card *)
(* keeps its mode and position between them (sdcard.c:51,90).              *)
RequestsDoTheirBlocks ==
  (drv.pc = "done" /\ ~panic) =>
    LET r == drv.mrq
        img == dev["sdhci"].img
        old == drv.before
    IN /\ \A w \in DOMAIN old : w \notin Covered(r) \/ IsRead(r) => img[w] = old[w]
       /\ IsRead(r) => img = old
       /\ r.op = "SEND_EXT_CSD" /\ ~drv.error =>
            drv.buf = [w \in 1 .. BlockWords |-> ExtCsd(w - 1)]
       /\ dev["sdhci"].fp /\ ~drv.error /\ r.op = "READ_MULTIPLE_BLOCK" =>
            /\ Len(drv.buf) = r.blocks * BlockWords
            /\ \A w \in Covered(r) \cap DOMAIN old :
                 drv.buf[w - r.blk * BlockWords] = old[w]
       /\ dev["sdhci"].fp /\ ~drv.error /\ r.op = "WRITE_MULTIPLE_BLOCK" =>
            \A w \in Covered(r) : img[w] = <<drv.nr, w - r.blk * BlockWords>>
       /\ drv.error /\ ~IsRead(r) =>
            \A w \in Covered(r) \cap DOMAIN img :
              img[w][1] = drv.nr \/ (w \in DOMAIN old /\ img[w] = old[w])
=============================================================================
