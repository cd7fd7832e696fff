----------------------------- MODULE BusProofs ------------------------------
(***************************************************************************)
(* The bus for every layout, input and set of drivers: regions are         *)
(* disjoint, and what the guest's console and clock see of their devices.  *)
(***************************************************************************)
EXTENDS Bus, FiniteSetTheorems, SequenceTheorems, TLAPS

Addr == 0 .. AddrSpace - 1
Region == [name : Range(Order), low : Addr, high : Addr]

\* Every region is that of its device, with both ends outside memory, and
\* does not meet an earlier one.
RInv ==
  /\ config.layout \in Layouts
  /\ maps \in Seq(Region) /\ Len(maps) <= Len(Order)
  /\ \A i \in DOMAIN maps :
       /\ maps[i] = [name |-> Order[i], low |-> Low(Order[i]), high |-> Right(Order[i])]
       /\ ~in_pmem(maps[i].low) /\ ~in_pmem(maps[i].high)
  /\ \A i, j \in DOMAIN maps :
       i < j => ~(maps[j].low <= maps[i].high /\ maps[j].high >= maps[i].low)
-----------------------------------------------------------------------------
(* Addresses.                                                              *)

LEMMA PmemIsInterval ==
  ASSUME NEW a \in Addr
  PROVE  in_pmem(a) <=> MBase <= a /\ a < MBase + MSize
<1>1. a \in Nat /\ a < AddrSpace /\ AddrSpace \in Nat /\ AddrSpace > 0
  BY MemAssumption DEF Addr
<1>2. CASE a >= MBase
  <2>1. (a - MBase) % AddrSpace = a - MBase
    BY <1>1, <1>2, MemAssumption
  <2> QED
    BY <1>1, <1>2, <2>1, MemAssumption DEF in_pmem
<1>3. CASE a < MBase
  <2>1. (a - MBase) % AddrSpace = a - MBase + AddrSpace
    BY <1>1, <1>3, MemAssumption
  <2> QED
    BY <1>1, <1>3, <2>1, MemAssumption DEF in_pmem
<1> QED
  BY <1>1, <1>2, <1>3, MemAssumption

LEMMA Ends ==
  ASSUME RInv, NEW d \in Range(Order)
  PROVE  /\ Low(d) \in Addr /\ Right(d) \in Addr
         /\ Low(d) <= Right(d) => Right(d) = Low(d) + config.layout[d].len - 1
         /\ Low(d) + config.layout[d].len <= AddrSpace => Low(d) <= Right(d)
<1> DEFINE n == config.layout[d].len
<1>1. Low(d) \in 0 .. AddrSpace - 1 /\ n \in 1 .. MSize
  BY LayoutAssumption DEF RInv, Low
<1> HIDE DEF n
<1>2. Low(d) \in Nat /\ n \in Nat /\ n >= 1 /\ n < AddrSpace /\ AddrSpace \in Nat
  BY <1>1, MemAssumption
<1>3. Right(d) = (Low(d) + n - 1) % AddrSpace
  BY DEF Right, n
<1>4. CASE Low(d) + n <= AddrSpace
  <2>1. Right(d) = Low(d) + n - 1
    BY <1>1, <1>2, <1>3, <1>4
  <2> QED
    BY <1>1, <1>2, <1>4, <2>1 DEF Addr, n
<1>5. CASE Low(d) + n > AddrSpace
  <2>1. Right(d) = Low(d) + n - 1 - AddrSpace
    BY <1>1, <1>2, <1>3, <1>5
  <2> QED
    BY <1>1, <1>2, <1>5, <2>1 DEF Addr, n
<1> QED
  BY <1>2, <1>4, <1>5

\* A device's region does not meet memory, although only its ends are tested.
LEMMA NotInMemory ==
  ASSUME RInv, NEW a \in Addr, NEW i \in fetch_mmio_map(a)
  PROVE  ~in_pmem(a)
<1>1. /\ i \in DOMAIN maps /\ maps[i].low <= a /\ a <= maps[i].high
  BY DEF fetch_mmio_map, map_inside
<1>2. /\ maps[i] \in Region /\ Order[i] \in Range(Order)
      /\ maps[i].low = Low(Order[i]) /\ maps[i].high = Right(Order[i])
      /\ ~in_pmem(maps[i].low) /\ ~in_pmem(maps[i].high)
  BY <1>1 DEF RInv, Region
<1> DEFINE lo == maps[i].low
           hi == maps[i].high
           n == config.layout[Order[i]].len
<1>3. lo \in Addr /\ hi \in Addr
  BY <1>2 DEF Region
<1>4. n \in 1 .. MSize /\ hi = lo + n - 1
  BY <1>1, <1>2, <1>3, Ends, LayoutAssumption DEF RInv, Addr
<1>5. ~(MBase <= lo /\ lo < MBase + MSize) /\ ~(MBase <= hi /\ hi < MBase + MSize)
  BY <1>2, <1>3, PmemIsInterval
<1> HIDE DEF lo, hi, n
<1>6. ~(MBase <= a /\ a < MBase + MSize)
  BY <1>1, <1>3, <1>4, <1>5, MemAssumption DEF Addr, lo, hi
<1> QED
  BY <1>6, PmemIsInterval

\* No address lies in two regions, even if one of them wraps around.
LEMMA OneRegion ==
  ASSUME RInv, NEW a \in Addr, NEW i \in fetch_mmio_map(a)
  PROVE  fetch_mmio_map(a) = {i}
<1> SUFFICES ASSUME NEW j \in fetch_mmio_map(a)
             PROVE  j = i
  OBVIOUS
<1>1. /\ i \in DOMAIN maps /\ maps[i].low <= a /\ a <= maps[i].high
      /\ j \in DOMAIN maps /\ maps[j].low <= a /\ a <= maps[j].high
  BY DEF fetch_mmio_map, map_inside
<1>2. /\ maps[i].low \in Addr /\ maps[i].high \in Addr
      /\ maps[j].low \in Addr /\ maps[j].high \in Addr /\ i \in Nat /\ j \in Nat
  BY <1>1 DEF RInv, Region
<1>3. maps[j].low <= maps[i].high /\ maps[j].high >= maps[i].low
  BY <1>1, <1>2 DEF Addr
<1>4. maps[i].low <= maps[j].high /\ maps[i].high >= maps[j].low
  BY <1>1, <1>2 DEF Addr
<1> QED
  BY <1>1, <1>2, <1>3, <1>4 DEF RInv

LEMMA InitRInv == Init => RInv
<1> SUFFICES ASSUME Init
             PROVE  RInv
  OBVIOUS
<1>1. config.layout \in Layouts /\ maps = << >>
  BY DEF Init
<1>2. Len(Order) \in Nat
  BY DriverAssumption
<1> QED
  BY <1>1, <1>2 DEF RInv

LEMMA BootRInv ==
  ASSUME RInv, NEW d \in Range(Order), init_dev(d)
  PROVE  RInv'
<1>1. config' = config /\ maps \in Seq(Region) /\ Len(maps) \in Nat /\ Len(Order) \in Nat
  BY DriverAssumption DEF init_dev, RInv
<1>2. CASE maps' = maps
  BY <1>1, <1>2 DEF RInv, Low, Right
<1>3. CASE maps' # maps
  <2> DEFINE m == [name |-> d, low |-> Low(d), high |-> Right(d)]
             n == Len(maps) + 1
  <2>1. /\ ~Overlaps(d) /\ maps' = Append(maps, m) /\ ~Booted /\ d = Order[n]
    BY <1>3 DEF init_dev, Due
  <2>2. m \in Region
    BY Ends DEF Region
  <2> HIDE DEF m
  <2>3. /\ maps' \in Seq(Region) /\ Len(maps') = n /\ maps'[n] = m
        /\ \A i \in DOMAIN maps : maps'[i] = maps[i]
        /\ DOMAIN maps' = DOMAIN maps \cup {n} /\ n \notin DOMAIN maps
    BY <1>1, <2>1, <2>2
  <2>4. Len(maps') <= Len(Order)
    BY <1>1, <2>1, <2>3 DEF RInv, Booted
  <2>5. m.name = d /\ m.low = Low(d) /\ m.high = Right(d)
    BY DEF m
  <2>6. ASSUME NEW i \in DOMAIN maps'
        PROVE  /\ maps'[i] = [name |-> Order[i], low |-> Low(Order[i]), high |-> Right(Order[i])]
               /\ ~in_pmem(maps'[i].low) /\ ~in_pmem(maps'[i].high)
    <3>1. CASE i = n
      BY <2>1, <2>3, <2>5, <3>1 DEF m, Overlaps
    <3>2. CASE i \in DOMAIN maps
      BY <2>3, <3>2 DEF RInv
    <3> QED
      BY <2>3, <2>6, <3>1, <3>2
  <2>7. ASSUME NEW i \in DOMAIN maps', NEW j \in DOMAIN maps', i < j
        PROVE  ~(maps'[j].low <= maps'[i].high /\ maps'[j].high >= maps'[i].low)
    <3>1. i \in DOMAIN maps
      BY <1>1, <2>3, <2>7
    <3>2. CASE j = n
      BY <2>1, <2>3, <2>5, <3>1, <3>2 DEF Overlaps
    <3>3. CASE j \in DOMAIN maps
      BY <2>3, <2>7, <3>1, <3>3 DEF RInv
    <3> QED
      BY <2>3, <2>7, <3>2, <3>3
  <2>8. \A e : Low(e)' = Low(e) /\ Right(e)' = Right(e)
    BY <1>1 DEF Low, Right
  <2>9. \A a : in_pmem(a)' = in_pmem(a)
    BY DEF in_pmem
  <2> QED
    BY <1>1, <2>3, <2>4, <2>6, <2>7, <2>8, <2>9 DEF RInv
<1> QED
  BY <1>2, <1>3

\* Nothing but init_device changes the regions.
LEMMA NextRInv == RInv /\ [Next]_vars => RInv'
<1> SUFFICES ASSUME RInv, [Next]_vars
             PROVE  RInv'
  OBVIOUS
<1>1. CASE \E d \in Range(Order) : init_dev(d)
  BY <1>1, BootRInv
<1>2. CASE UNCHANGED <<config, maps>>
  BY <1>2 DEF RInv, Low, Right
<1> QED
  BY <1>1, <1>2 DEF Next, vars, con_poll, con_recv, con_send, con_setup, Type, clk_high, clk_low,
     Tick, nemu_request, write_arg, write_cmd, next_piece, read_word, write_word, read_response

(* For every layout of devices no larger than memory: whatever regions the *)
(* boot accepts (mmio.c:36-54), an address has one owner at most.          *)
THEOREM OneOwnerAlways == Spec => []OneOwnerPerAddress
<1>1. RInv => OneOwnerPerAddress
  <2> SUFFICES ASSUME RInv, NEW a \in Addr
               PROVE  Cardinality(fetch_mmio_map(a)) + (IF in_pmem(a) THEN 1 ELSE 0) <= 1
    BY DEF OneOwnerPerAddress, Addr
  <2>1. CASE fetch_mmio_map(a) = {}
    BY <2>1, FS_EmptySet
  <2>2. CASE fetch_mmio_map(a) # {}
    <3>1. PICK i \in fetch_mmio_map(a) : TRUE
      BY <2>2
    <3>2. fetch_mmio_map(a) = {i} /\ ~in_pmem(a)
      BY <3>1, OneRegion, NotInMemory
    <3>3. Cardinality(fetch_mmio_map(a)) = 1
      BY <3>2, FS_Singleton, Zenon
    <3> QED
      BY <3>2, <3>3
  <2> QED
    BY <2>1, <2>2
<1> QED
  BY <1>1, InitRInv, NextRInv, PTL DEF Spec
-----------------------------------------------------------------------------
(* Accesses of the drivers.                                                *)

Driven == {"serial", "rtc", "sdhci"}
\* The highest register a driver uses.
LastRegister(d) == CASE d = "serial" -> 7 [] d = "rtc" -> 1 [] OTHER -> 16

\* The devices with a driver do not wrap around the address space.
InOnePiece == \A d \in Driven : Low(d) + config.layout[d].len <= AddrSpace

\* Register o of device d answers for its address.
LEMMA DriverOwns ==
  ASSUME RInv, InOnePiece, Booted, NEW d \in Driven, NEW o \in 0 .. LastRegister(d)
  PROVE  /\ ~in_pmem(Low(d) + o) /\ fetch_mmio_map(Low(d) + o) # {}
         /\ Owner(Low(d) + o).name = d /\ Owner(Low(d) + o).low = Low(d)
<1>1. d \in Range(Order) /\ config.layout \in Layouts
  BY DriverAssumption DEF Driven, RInv
<1>2. LastRegister(d) \in Nat /\ config.layout[d].len >= LastRegister(d) + 1
  BY <1>1, DriverAssumption DEF Driven, LastRegister
<1>3. /\ Low(d) \in Addr /\ Right(d) \in Addr /\ config.layout[d].len \in Nat
      /\ Right(d) = Low(d) + config.layout[d].len - 1
  BY <1>1, Ends, LayoutAssumption DEF InOnePiece
<1>4. Low(d) <= Low(d) + o /\ Low(d) + o <= Right(d) /\ Low(d) + o \in Addr
  <2>1. o \in Nat /\ o <= LastRegister(d)
    BY <1>2
  <2>2. Low(d) \in Nat /\ Right(d) \in Nat /\ Right(d) < AddrSpace /\ AddrSpace \in Nat
    BY <1>3, MemAssumption DEF Addr
  <2>3. Low(d) <= Low(d) + o /\ Low(d) + o <= Right(d)
    BY <1>2, <1>3, <2>1, <2>2
  <2> QED
    BY <2>1, <2>2, <2>3 DEF Addr
<1>5. PICK i \in DOMAIN Order : Order[i] = d
  BY <1>1 DEF Range
<1>6. i \in DOMAIN maps
  <2>1. DOMAIN maps = 1 .. Len(maps) /\ DOMAIN Order = 1 .. Len(Order)
    BY DriverAssumption DEF RInv
  <2> QED
    BY <2>1 DEF Booted
<1>7. maps[i].name = d /\ maps[i].low = Low(d) /\ maps[i].high = Right(d)
  BY <1>5, <1>6 DEF RInv
<1>8. i \in fetch_mmio_map(Low(d) + o)
  BY <1>4, <1>6, <1>7 DEF fetch_mmio_map, map_inside
<1>9. fetch_mmio_map(Low(d) + o) = {i} /\ ~in_pmem(Low(d) + o)
  BY <1>4, <1>8, OneRegion, NotInMemory
<1>10. Min({i}) = i
  <2>1. i \in Nat
    BY <1>6 DEF RInv
  <2> QED
    BY <2>1 DEF Min
<1> QED
  BY <1>7, <1>9, <1>10 DEF Owner

\* So an access changes that device and no other, or ends the emulator.
LEMMA DriverReads ==
  ASSUME RInv, InOnePiece, Booted, NEW d \in Driven, NEW o \in 0 .. LastRegister(d)
  PROVE  /\ Loaded(Low(d) + o) = AfterRead(d, o).base[o]
         /\ paddr_read(Low(d) + o) =>
              IF Accepts(d, dev[d], o)
              THEN dev' = [dev EXCEPT ![d] = AfterRead(d, o)] /\ UNCHANGED panic
              ELSE panic' = TRUE /\ UNCHANGED dev
<1> DEFINE a == Low(d) + o
<1>1. ~in_pmem(a) /\ fetch_mmio_map(a) # {} /\ Owner(a).name = d /\ Owner(a).low = Low(d)
  BY DriverOwns
<1>2. a - Low(d) = o
  <2>1. Low(d) \in Int
    BY Ends, DriverAssumption DEF Driven, Addr
  <2> QED
    BY <2>1 DEF LastRegister
<1> HIDE DEF a
<1> QED
  BY <1>1, <1>2 DEF Loaded, paddr_read, a

LEMMA DriverWrites ==
  ASSUME RInv, InOnePiece, Booted, NEW d \in Driven, NEW o \in 0 .. LastRegister(d), NEW v,
         paddr_write(Low(d) + o, v)
  PROVE  IF Accepts(d, [dev[d] EXCEPT !.base[o] = v], o)
         THEN dev' = [dev EXCEPT ![d] = AfterWrite(d, o, v)] /\ UNCHANGED panic
         ELSE panic' = TRUE /\ UNCHANGED dev
<1> DEFINE a == Low(d) + o
<1>1. ~in_pmem(a) /\ fetch_mmio_map(a) # {} /\ Owner(a).name = d /\ Owner(a).low = Low(d)
  BY DriverOwns
<1>2. a - Low(d) = o
  <2>1. Low(d) \in Int
    BY Ends, DriverAssumption DEF Driven, Addr
  <2> QED
    BY <2>1 DEF LastRegister
<1> HIDE DEF a
<1> QED
  BY <1>1, <1>2 DEF paddr_write, a
-----------------------------------------------------------------------------
(* The console and the clock.                                              *)

SerialType == [base : [0 .. 7 -> Int], stdin : Seq(Int), tty : BOOLEAN, is_eofd : BOOLEAN,
               out : Seq(Int)]
ConType == [lsr : Int, got : Seq(Int), sent : Seq(Int)]
RtcType == [base : [0 .. 1 -> Int]]
ClkType == [pc : {"high", "low"}, high : Int, asked : Nat, time : Int]

\* The bytes the console has read and those still waiting are those typed; a
\* status that asks for a read is backed by a byte or by the end of the input.
ConsoleInv ==
  LET s == dev["serial"] IN
    /\ s \in SerialType
    /\ typed \in Seq(Int) /\ con.got \in Seq(Int) /\ con.sent \in Seq(Int)
    /\ con \in ConType
    /\ s.is_eofd => s.stdin = << >> /\ ~s.tty
    /\ con.lsr % 2 = DR => s.is_eofd \/ s.stdin # << >>
    /\ ConsoleReadsWhatWasTyped

\* Between its two loads the clock driver has the high word, and the device
\* the low word, of one time.
ClockInv ==
  /\ dev["rtc"] \in RtcType
  /\ now \in Nat /\ clk \in ClkType
  /\ clk.pc = "low" => /\ dev["rtc"].base[0] = clk.asked % TimeLow
                       /\ clk.high = clk.asked \div TimeLow
  /\ clk.pc = "high" => clk.time = clk.asked

DInv == /\ RInv /\ DOMAIN dev = Range(Order)
        /\ InOnePiece => ConsoleInv /\ ClockInv

\* An update of the device page.
WithBase(s, o, v) == [s EXCEPT !.base[o] = v]

LEMMA BaseUpdate ==
  ASSUME NEW s \in SerialType, NEW o \in 0 .. 7, NEW v \in Int
  PROVE  /\ WithBase(s, o, v) \in SerialType
         /\ WithBase(s, o, v).tty = s.tty /\ WithBase(s, o, v).is_eofd = s.is_eofd
         /\ WithBase(s, o, v).stdin = s.stdin /\ WithBase(s, o, v).out = s.out
         /\ WithBase(s, o, v).base[o] = v
<1>1. s.base \in [0 .. 7 -> Int]
  BY DEF SerialType
<1> QED
  BY <1>1 DEF SerialType, WithBase

\* The status register tells of a byte or of the end of the input.
LEMMA StatusRead ==
  ASSUME NEW s \in SerialType, s.is_eofd => s.stdin = << >> /\ ~s.tty
  PROVE  LET t == serial_io_handler(s, LSR, FALSE)
         IN  /\ t \in SerialType /\ t.stdin = s.stdin /\ t.tty = s.tty /\ t.out = s.out
             /\ s.is_eofd => t.is_eofd
             /\ t.is_eofd => t.stdin = << >> /\ ~t.tty
             /\ t.base[LSR] \in Int
             /\ t.base[LSR] % 2 = DR => t.is_eofd \/ t.stdin # << >>
<1> DEFINE n == NoteEof(s)
           t == [n EXCEPT !.base[LSR] = LineStatus(s)]
<1>0. /\ s.base \in [0 .. 7 -> Int] /\ s.stdin \in Seq(Int) /\ s.tty \in BOOLEAN
      /\ s.is_eofd \in BOOLEAN /\ s.out \in Seq(Int)
  BY DEF SerialType
<1>1. serial_io_handler(s, LSR, FALSE) = t
  BY DEF serial_io_handler, RX, LSR, LCR
<1>2. LineStatus(s) \in Int /\ IsKBHit(s) \in {-1, 0, 1}
  BY DEF LineStatus, IsKBHit, READY
<1>3. /\ n.base = s.base /\ n.stdin = s.stdin /\ n.tty = s.tty /\ n.out = s.out
      /\ n.is_eofd = (s.is_eofd \/ AtEof(s)) /\ n \in SerialType
  BY <1>0 DEF NoteEof, SerialType, AtEof
<1>4. AtEof(s) <=> s.stdin = << >> /\ ~s.tty
  BY <1>0 DEF AtEof
<1> HIDE DEF n
<1>5. /\ t \in SerialType /\ t.tty = n.tty /\ t.is_eofd = n.is_eofd /\ t.stdin = n.stdin
      /\ t.out = n.out /\ t.base[LSR] = LineStatus(s)
  <2>1. LSR \in 0 .. 7 /\ LineStatus(s) \in Int /\ n \in SerialType
    BY <1>2, <1>3 DEF LSR
  <2>2. t = WithBase(n, LSR, LineStatus(s))
    BY DEF WithBase
  <2> HIDE DEF t
  <2> QED
    BY <2>1, <2>2, BaseUpdate
<1>6. n.is_eofd <=> (s.is_eofd \/ AtEof(s))
  BY <1>3, Zenon
<1>7. LineStatus(s) % 2 = DR => n.is_eofd \/ s.stdin # << >>
  <2>1. CASE IsKBHit(s) = 0
    BY <2>1 DEF LineStatus, READY, DR
  <2>2. CASE IsKBHit(s) = 1
    BY <1>0, <2>2 DEF IsKBHit
  <2>3. CASE IsKBHit(s) = -1
    BY <1>6, <2>3 DEF IsKBHit
  <2> QED
    BY <1>2, <2>1, <2>2, <2>3
<1> HIDE DEF t
<1> QED
  BY <1>1, <1>2, <1>3, <1>4, <1>5, <1>7, <1>6

\* An update of the receive register and the input.
Received(s, v, q) == [s EXCEPT !.base[RX] = v, !.stdin = q]

LEMMA ReceivedType ==
  ASSUME NEW s \in SerialType, NEW v \in Int, NEW q \in Seq(Int)
  PROVE  /\ Received(s, v, q) \in SerialType
         /\ Received(s, v, q).tty = s.tty /\ Received(s, v, q).is_eofd = s.is_eofd
         /\ Received(s, v, q).stdin = q /\ Received(s, v, q).out = s.out
         /\ Received(s, v, q).base[RX] = v
<1>1. s.base \in [0 .. 7 -> Int] /\ RX \in 0 .. 7
  BY DEF SerialType, RX
<1> QED
  BY <1>1 DEF SerialType, Received

\* A read of the receive register takes the next byte, if there is one.
LEMMA ByteRead ==
  ASSUME NEW s \in SerialType, s.is_eofd => s.stdin = << >> /\ ~s.tty,
         s.is_eofd \/ s.stdin # << >>
  PROVE  LET t == serial_io_handler(s, RX, FALSE)
         IN  /\ t \in SerialType /\ t.tty = s.tty /\ t.out = s.out /\ t.is_eofd = s.is_eofd
             /\ t.base[RX] \in Int
             /\ s.is_eofd => t.stdin = s.stdin
             /\ ~s.is_eofd => t.base[RX] = Head(s.stdin) /\ t.stdin = Tail(s.stdin)
<1> DEFINE n == NoteEof(s)
<1>0. /\ s.base \in [0 .. 7 -> Int] /\ s.stdin \in Seq(Int) /\ s.tty \in BOOLEAN
      /\ s.is_eofd \in BOOLEAN /\ s.out \in Seq(Int)
  BY DEF SerialType
<1>1. serial_io_handler(s, RX, FALSE) = serial_getc(s)
  BY DEF serial_io_handler, RX, LSR, LCR
<1>2. /\ n.base = s.base /\ n.stdin = s.stdin /\ n.tty = s.tty /\ n.out = s.out /\ n \in SerialType
      /\ n.is_eofd = (s.is_eofd \/ AtEof(s))
  BY <1>0 DEF NoteEof, SerialType, AtEof
<1>3. AtEof(s) => s.is_eofd
  BY <1>0 DEF AtEof
<1>4. n.is_eofd = s.is_eofd
  BY <1>0, <1>2, <1>3
<1>5. IsKBHit(s) # 0
  BY <1>0 DEF IsKBHit, AtEof
<1>6. serial_getc(s) = ReadKBByte(n)
  BY <1>5 DEF serial_getc
<1> HIDE DEF n
<1>7. CASE s.is_eofd
  <2>1. ReadKBByte(n) = n
    BY <1>4, <1>7 DEF ReadKBByte
  <2>2. n.base[RX] \in Int
    BY <1>0, <1>2 DEF RX
  <2> QED
    BY <1>1, <1>2, <1>4, <1>6, <1>7, <2>1, <2>2
<1>8. CASE ~s.is_eofd
  <2> DEFINE h == Head(s.stdin)
             q == Tail(s.stdin)
  <2>1. h \in Int /\ q \in Seq(Int)
    BY <1>0, <1>8
  <2>2. ReadKBByte(n) = Received(n, h, q)
    BY <1>0, <1>2, <1>4, <1>8 DEF ReadKBByte, Received
  <2> HIDE DEF h, q
  <2>3. n \in SerialType
    BY <1>2
  <2>4. /\ Received(n, h, q) \in SerialType
        /\ Received(n, h, q).tty = n.tty /\ Received(n, h, q).is_eofd = n.is_eofd
        /\ Received(n, h, q).stdin = q /\ Received(n, h, q).out = n.out
        /\ Received(n, h, q).base[RX] = h
    BY <2>1, <2>3, ReceivedType
  <2>5. serial_io_handler(s, RX, FALSE) = Received(n, h, q)
    BY <1>1, <1>6, <2>2
  <2> HIDE DEF n
  <2> QED
    BY <1>2, <1>4, <1>8, <2>1, <2>4, <2>5 DEF h, q
<1> QED
  BY <1>0, <1>7, <1>8

\* A store of v, and the callback.
Stored(s, o, v) == serial_io_handler([s EXCEPT !.base[o] = v], o, TRUE)

\* Stores reach the output or the device page only.
LEMMA PortWritten ==
  ASSUME NEW s \in SerialType, NEW v \in Int, NEW o \in {RX, IER, FCR, LCR, MCR}
  PROVE  /\ Stored(s, o, v) \in SerialType
         /\ Stored(s, o, v).tty = s.tty /\ Stored(s, o, v).is_eofd = s.is_eofd
         /\ Stored(s, o, v).stdin = s.stdin
         /\ o = RX => Stored(s, o, v).out = Append(s.out, v)
         /\ o # RX => Stored(s, o, v).out = s.out
<1> DEFINE e == [s EXCEPT !.base[o] = v]
           t == serial_io_handler(e, o, TRUE)
<1>0. s.base \in [0 .. 7 -> Int] /\ s.out \in Seq(Int) /\ o \in 0 .. 7
  BY DEF SerialType, RX, IER, FCR, LCR, MCR
<1>1. /\ e \in SerialType /\ e.tty = s.tty /\ e.is_eofd = s.is_eofd /\ e.stdin = s.stdin
      /\ e.out = s.out /\ e.base[o] = v
  BY <1>0 DEF SerialType
<1>2. Stored(s, o, v) = t
  BY DEF Stored
<1> HIDE DEF e
<1>3. CASE o = RX
  <2>1. t = [e EXCEPT !.out = Append(e.out, v)]
    BY <1>1, <1>3 DEF serial_io_handler, serial_putc, RX, LSR, LCR
  <2>2. Append(e.out, v) \in Seq(Int)
    BY <1>0, <1>1
  <2> HIDE DEF t
  <2>3. /\ t \in SerialType /\ t.tty = e.tty /\ t.is_eofd = e.is_eofd /\ t.stdin = e.stdin
        /\ t.out = Append(e.out, v)
    BY <1>1, <2>1, <2>2 DEF SerialType
  <2> QED
    BY <1>1, <1>2, <1>3, <2>3
<1>4. CASE o # RX
  <2>1. t = WithBase(e, o, 0) \/ t = e
    BY <1>4 DEF WithBase, serial_io_handler, RX, IER, FCR, LCR, MCR, LSR
  <2> HIDE DEF t
  <2>2. o \in 0 .. 7 /\ e \in SerialType /\ 0 \in Int
    BY <1>0, <1>1
  <2>3. ASSUME t = WithBase(e, o, 0)
        PROVE  /\ t \in SerialType /\ t.tty = e.tty /\ t.is_eofd = e.is_eofd
               /\ t.stdin = e.stdin /\ t.out = e.out
    BY <2>2, <2>3, BaseUpdate
  <2> QED
    BY <1>1, <1>2, <1>4, <2>1, <2>3
<1> QED
  BY <1>3, <1>4

LEMMA AppendLast ==
  ASSUME NEW s \in Seq(Int), NEW t \in Seq(Int), NEW c \in Int
  PROVE  /\ Append(t, c) \in Seq(Int) /\ Append(t, c) # << >>
         /\ s \o Append(t, c) = Append(s \o t, c)
<1>1. Append(t, c) \in Seq(Int) /\ Len(Append(t, c)) = Len(t) + 1 /\ Len(t) \in Nat
  OBVIOUS
<1>2. Append(t, c) # << >>
  BY <1>1, EmptySeq
<1>3. s \o t \in Seq(Int) /\ <<c>> \in Seq(Int)
  OBVIOUS
<1>4. Append(t, c) = t \o <<c>>
  BY AppendIsConcat
<1>5. Append(s \o t, c) = (s \o t) \o <<c>>
  BY <1>3, AppendIsConcat
<1>6. (s \o t) \o <<c>> = s \o (t \o <<c>>)
  BY <1>3, ConcatAssociative
<1> QED
  BY <1>1, <1>2, <1>4, <1>5, <1>6

LEMMA PrefixGrows ==
  ASSUME NEW s \in Seq(Int), NEW t \in Seq(Int), NEW x \in Int, IsPrefix(s, t)
  PROVE  IsPrefix(s, Append(t, x))
<1>1. /\ Len(s) <= Len(t) /\ Len(s) \in Nat /\ Len(t) \in Nat
      /\ SubSeq(s, 1, Len(s)) = SubSeq(t, 1, Len(s))
  BY DEF IsPrefix
<1>2. /\ Append(t, x) \in Seq(Int) /\ Len(Append(t, x)) = Len(t) + 1
      /\ \A i \in 1 .. Len(s) : Append(t, x)[i] = t[i]
  BY <1>1
<1>3. SubSeq(Append(t, x), 1, Len(s)) = SubSeq(t, 1, Len(s))
  BY <1>1, <1>2
<1> QED
  BY <1>1, <1>2, <1>3 DEF IsPrefix

LEMMA WholeIsPrefix ==
  ASSUME NEW s \in Seq(Int)
  PROVE  IsPrefix(s, s)
<1>1. Len(s) <= Len(s)
  OBVIOUS
<1> QED
  BY <1>1 DEF IsPrefix

LEMMA NextByte ==
  ASSUME NEW s \in Seq(Int), NEW t \in Seq(Int), t # << >>
  PROVE  Append(s, Head(t)) \o Tail(t) = s \o t
<1>1. /\ Append(s, Head(t)) \in Seq(Int) /\ Tail(t) \in Seq(Int) /\ Len(s) \in Nat /\ Len(t) \in Nat
      /\ Len(Append(s, Head(t))) = Len(s) + 1 /\ Len(Tail(t)) = Len(t) - 1 /\ Len(t) >= 1
  OBVIOUS
<1> DEFINE l == Append(s, Head(t)) \o Tail(t)
           r == s \o t
<1>2. l \in Seq(Int) /\ r \in Seq(Int) /\ Len(l) = Len(s) + Len(t) /\ Len(r) = Len(s) + Len(t)
  BY <1>1
<1>3. ASSUME NEW i \in 1 .. Len(s) + Len(t)
      PROVE  l[i] = r[i]
  <2>1. CASE i <= Len(s)
    BY <1>1, <2>1
  <2>2. CASE i = Len(s) + 1
    BY <1>1, <2>2
  <2>3. CASE i > Len(s) + 1
    BY <1>1, <2>3
  <2> QED
    BY <1>1, <2>1, <2>2, <2>3
<1> HIDE DEF l, r
<1>4. l = r
  BY <1>2, <1>3
<1> QED
  BY <1>4 DEF l, r

\* An access of one driver leaves the devices of the others alone.
LEMMA AccessFrame ==
  ASSUME RInv, InOnePiece, Booted, NEW d \in Driven, NEW o \in 0 .. LastRegister(d),
         paddr_read(Low(d) + o) \/ \E v : paddr_write(Low(d) + o, v)
  PROVE  \A e \in DOMAIN dev \ {d} : dev'[e] = dev[e]
<1>1. CASE paddr_read(Low(d) + o)
  BY <1>1, DriverReads
<1>2. CASE \E v : paddr_write(Low(d) + o, v)
  BY <1>2, DriverWrites
<1> QED
  BY <1>1, <1>2

LEMMA AccessDomain ==
  ASSUME NEW a, paddr_read(a) \/ \E v : paddr_write(a, v)
  PROVE  DOMAIN dev' = DOMAIN dev
BY DEF paddr_read, paddr_write
-----------------------------------------------------------------------------
LEMMA SerialInit ==
  ASSUME NEW tty \in BOOLEAN, NEW in \in Seq(Int)
  PROVE  /\ serial_init(tty, in) \in SerialType /\ ~serial_init(tty, in).is_eofd
         /\ serial_init(tty, in).stdin = in /\ serial_init(tty, in).out = << >>
<1>1. [r \in 0 .. 7 |-> IF r = LSR THEN READY ELSE 0] \in [0 .. 7 -> Int] /\ << >> \in Seq(Int)
  BY DEF READY
<1> QED
  BY <1>1 DEF serial_init, SerialType

LEMMA InitDInv == Init => DInv
<1> SUFFICES ASSUME Init
             PROVE  DInv
  OBVIOUS
<1>1. PICK i \in Stdins, m \in Images :
        /\ dev = [d \in Range(Order) |->
                    CASE d = "serial" -> serial_init(i[1], i[2])
                      [] d = "rtc"    -> rtc_init
                      [] d = "sdhci"  -> sdcard_init(m[1], m[2])
                      [] OTHER        -> << >>]
        /\ typed = i[2]
  BY DEF Init
<1>2. DOMAIN dev = Range(Order) /\ "serial" \in Range(Order) /\ "rtc" \in Range(Order)
  BY <1>1, DriverAssumption
<1>3. dev["serial"] = serial_init(i[1], i[2]) /\ dev["rtc"] = rtc_init
  BY <1>1, <1>2
<1>4. i[1] \in BOOLEAN /\ i[2] \in Seq(Int)
  BY InputAssumption
<1>5. con = [lsr |-> 0, got |-> << >>, sent |-> << >>] /\ << >> \in Seq(Int)
  BY DEF Init
<1>6. ConsoleInv
  <2> DEFINE s == dev["serial"]
  <2>1. /\ s \in SerialType /\ ~s.is_eofd /\ s.stdin = typed /\ s.out = << >>
        /\ typed \in Seq(Int)
    BY <1>1, <1>3, <1>4, SerialInit
  <2> HIDE DEF s
  <2>2. << >> \o s.stdin = typed
    BY <2>1
  <2>3. con.lsr % 2 # DR
    BY <1>5 DEF DR
  <2> QED
    BY <1>5, <2>1, <2>2, <2>3 DEF ConsoleInv, ConsoleReadsWhatWasTyped, s, ConType
<1>7. ClockInv
  <2>1. rtc_init \in RtcType
    BY DEF rtc_init, RtcType
  <2> QED
    BY <1>3, <2>1 DEF Init, ClockInv, RtcType, ClkType
<1> QED
  BY <1>2, <1>6, <1>7, InitRInv DEF DInv

\* The console sees its device, and what it has read, only.
LEMMA ConsoleFrame ==
  ASSUME ConsoleInv, dev'["serial"] = dev["serial"], UNCHANGED <<typed, con>>
  PROVE  ConsoleInv'
BY DEF ConsoleInv, ConsoleReadsWhatWasTyped

LEMMA ConsolePolls ==
  ASSUME DInv, InOnePiece, con_poll
  PROVE  ConsoleInv'
<1> DEFINE s == dev["serial"]
           t == serial_io_handler(s, LSR, FALSE)
<1>1. /\ RInv /\ ConsoleInv /\ Booted /\ ~panic /\ "serial" \in DOMAIN dev /\ "serial" \in Driven
      /\ LSR \in 0 .. LastRegister("serial") /\ Accepts("serial", s, LSR)
  BY DriverAssumption DEF DInv, con_poll, Running, Driven, LSR, LastRegister, Accepts
<1>2. /\ Loaded(Low("serial") + LSR) = AfterRead("serial", LSR).base[LSR]
      /\ dev' = [dev EXCEPT !["serial"] = AfterRead("serial", LSR)] /\ panic' = panic
  BY <1>1, DriverReads DEF con_poll
<1>3. AfterRead("serial", LSR) = t
  BY DEF AfterRead, Callback
<1>4. /\ dev'["serial"] = t /\ typed' = typed
      /\ con' = [con EXCEPT !.lsr = t.base[LSR]]
  BY <1>1, <1>2, <1>3 DEF con_poll
<1>5. /\ s \in SerialType /\ (s.is_eofd => s.stdin = << >> /\ ~s.tty)
      /\ typed \in Seq(Int) /\ con.got \in Seq(Int)
      /\ con \in ConType
      /\ (~s.is_eofd => con.got \o s.stdin = typed) /\ (s.is_eofd => IsPrefix(typed, con.got))
      /\ s.out = con.sent
  BY <1>1 DEF ConsoleInv, ConsoleReadsWhatWasTyped
<1> HIDE DEF s
<1>6. /\ t \in SerialType /\ t.stdin = s.stdin /\ t.tty = s.tty /\ t.out = s.out
      /\ s.is_eofd => t.is_eofd
      /\ t.is_eofd => t.stdin = << >> /\ ~t.tty
      /\ t.base[LSR] \in Int
      /\ t.base[LSR] % 2 = DR => t.is_eofd \/ t.stdin # << >>
  BY <1>5, StatusRead
<1> HIDE DEF t
<1>7. /\ con'.lsr = t.base[LSR] /\ con'.got = con.got /\ con'.sent = con.sent
      /\ con' \in ConType
  BY <1>4, <1>5, <1>6 DEF ConType
<1>8. t.is_eofd => IsPrefix(typed, con.got)
  <2> SUFFICES ASSUME t.is_eofd, ~s.is_eofd
               PROVE  IsPrefix(typed, con.got)
    BY <1>5
  <2>0. con.got \o s.stdin = typed /\ s.stdin = << >>
    BY <1>5, <1>6
  <2>1. con.got = typed
    BY <1>5, <2>0, ConcatEmptySeq
  <2> QED
    BY <1>5, <2>1, WholeIsPrefix
<1> QED
  BY <1>4, <1>5, <1>6, <1>7, <1>8 DEF ConsoleInv, ConsoleReadsWhatWasTyped, ConType

\* An update of the console after a byte.
Got(c, l, g) == [c EXCEPT !.lsr = l, !.got = g]

LEMMA GotType ==
  ASSUME NEW c \in ConType, NEW l \in Int, NEW g \in Seq(Int)
  PROVE  /\ Got(c, l, g) \in ConType /\ Got(c, l, g).lsr = l /\ Got(c, l, g).got = g
         /\ Got(c, l, g).sent = c.sent
<1> DEFINE e == [c EXCEPT !.lsr = l]
<1>1. e \in ConType /\ e.lsr = l /\ e.sent = c.sent
  BY DEF ConType
<1>2. Got(c, l, g) = [e EXCEPT !.got = g]
  BY DEF Got, ConType
<1> HIDE DEF e
<1> QED
  BY <1>1, <1>2 DEF ConType

LEMMA ConsoleReceives ==
  ASSUME DInv, InOnePiece, con_recv
  PROVE  ConsoleInv'
<1> DEFINE s == dev["serial"]
           t == serial_io_handler(s, RX, FALSE)
<1>1. /\ RInv /\ ConsoleInv /\ Booted /\ ~panic /\ "serial" \in DOMAIN dev /\ "serial" \in Driven
      /\ RX \in 0 .. LastRegister("serial") /\ Accepts("serial", s, RX)
  BY DriverAssumption DEF DInv, con_recv, Running, Driven, RX, LastRegister, Accepts
<1>2. /\ Loaded(Low("serial") + RX) = AfterRead("serial", RX).base[RX]
      /\ dev' = [dev EXCEPT !["serial"] = AfterRead("serial", RX)] /\ panic' = panic
  BY <1>1, DriverReads DEF con_recv
<1>3. AfterRead("serial", RX) = t
  BY DEF AfterRead, Callback
<1>4. /\ dev'["serial"] = t /\ typed' = typed
      /\ con' = [con EXCEPT !.lsr = 0, !.got = Append(@, t.base[RX])]
  BY <1>1, <1>2, <1>3 DEF con_recv
<1>5. /\ s \in SerialType /\ (s.is_eofd => s.stdin = << >> /\ ~s.tty)
      /\ typed \in Seq(Int) /\ con.got \in Seq(Int)
      /\ con \in ConType
      /\ (~s.is_eofd => con.got \o s.stdin = typed) /\ (s.is_eofd => IsPrefix(typed, con.got))
      /\ s.out = con.sent /\ (s.is_eofd \/ s.stdin # << >>)
  BY <1>1 DEF ConsoleInv, ConsoleReadsWhatWasTyped, con_recv
<1>6. s.stdin \in Seq(Int)
  BY <1>5 DEF SerialType
<1> HIDE DEF s
<1>7. /\ t \in SerialType /\ t.tty = s.tty /\ t.out = s.out /\ t.is_eofd = s.is_eofd
      /\ t.base[RX] \in Int
      /\ s.is_eofd => t.stdin = s.stdin
      /\ ~s.is_eofd => t.base[RX] = Head(s.stdin) /\ t.stdin = Tail(s.stdin)
  BY <1>5, ByteRead
<1> HIDE DEF t
<1>8. Append(con.got, t.base[RX]) \in Seq(Int)
  BY <1>5, <1>7
<1>9. /\ con'.lsr = 0 /\ con'.got = Append(con.got, t.base[RX]) /\ con'.sent = con.sent
      /\ con' \in ConType
  <2> DEFINE g == Append(con.got, t.base[RX])
  <2>1. con' = Got(con, 0, g)
    BY <1>4, <1>5 DEF Got
  <2>2. g \in Seq(Int)
    BY <1>8
  <2> HIDE DEF g
  <2>3. con \in ConType /\ 0 \in Int
    BY <1>5
  <2>4. /\ con'.lsr = 0 /\ con'.got = g /\ con'.sent = con.sent
        /\ con' \in ConType
    BY <2>1, <2>2, <2>3, GotType
  <2> QED
    BY <2>4 DEF g
<1>10. con'.lsr % 2 # DR
  BY <1>9 DEF DR
<1>11. ~t.is_eofd => con'.got \o t.stdin = typed
  <2> SUFFICES ASSUME ~t.is_eofd
               PROVE  con'.got \o t.stdin = typed
    OBVIOUS
  <2>1. /\ ~s.is_eofd /\ s.stdin # << >> /\ t.base[RX] = Head(s.stdin) /\ t.stdin = Tail(s.stdin)
        /\ con.got \o s.stdin = typed /\ con.got \in Seq(Int)
    BY <1>5, <1>7
  <2>2. Append(con.got, Head(s.stdin)) \o Tail(s.stdin) = con.got \o s.stdin
    BY <1>6, <2>1, NextByte
  <2> QED
    BY <1>9, <2>1, <2>2
<1>12. t.is_eofd => IsPrefix(typed, con'.got)
  BY <1>5, <1>7, <1>9, PrefixGrows
<1> QED
  BY <1>4, <1>5, <1>7, <1>9, <1>10, <1>11, <1>12 DEF ConsoleInv, ConsoleReadsWhatWasTyped, ConType

LEMMA ConsoleSends ==
  ASSUME DInv, InOnePiece, con_send
  PROVE  ConsoleInv'
<1>1. PICK c \in Keys : /\ paddr_write(Low("serial") + RX, c)
                        /\ con' = [con EXCEPT !.sent = Append(@, c)]
  BY DEF con_send
<1> DEFINE s == dev["serial"]
           t == Stored(s, RX, c)
<1>2. /\ RInv /\ ConsoleInv /\ Booted /\ ~panic /\ "serial" \in DOMAIN dev /\ "serial" \in Driven
      /\ RX \in 0 .. LastRegister("serial") /\ Accepts("serial", [s EXCEPT !.base[RX] = c], RX)
  BY DriverAssumption DEF DInv, con_send, Running, Driven, RX, LastRegister, Accepts
<1>3. dev' = [dev EXCEPT !["serial"] = AfterWrite("serial", RX, c)]
  BY <1>1, <1>2, DriverWrites
<1>4. AfterWrite("serial", RX, c) = t
  BY DEF AfterWrite, Callback, Stored
<1>5. dev'["serial"] = t /\ typed' = typed
  BY <1>2, <1>3, <1>4 DEF con_send
<1>6. /\ s \in SerialType /\ (s.is_eofd => s.stdin = << >> /\ ~s.tty)
      /\ typed \in Seq(Int) /\ con.got \in Seq(Int) /\ con.sent \in Seq(Int)
      /\ con \in ConType
      /\ (con.lsr % 2 = DR => s.is_eofd \/ s.stdin # << >>)
      /\ (~s.is_eofd => con.got \o s.stdin = typed) /\ (s.is_eofd => IsPrefix(typed, con.got))
      /\ s.out = con.sent
  BY <1>2 DEF ConsoleInv, ConsoleReadsWhatWasTyped
<1>7. c \in Int /\ RX \in {RX, IER, FCR, LCR, MCR}
  BY InputAssumption
<1> HIDE DEF s
<1>8. /\ t \in SerialType /\ t.tty = s.tty /\ t.is_eofd = s.is_eofd /\ t.stdin = s.stdin
      /\ t.out = Append(s.out, c)
  BY <1>6, <1>7, PortWritten
<1> HIDE DEF t
<1>9. Append(con.sent, c) \in Seq(Int)
  BY <1>6, <1>7
<1>10. /\ con'.lsr = con.lsr /\ con'.got = con.got /\ con'.sent = Append(con.sent, c)
       /\ con' \in ConType
  <2> DEFINE g == Append(con.sent, c)
  <2>1. con' = [con EXCEPT !.sent = g]
    BY <1>1, <1>6
  <2>2. g \in Seq(Int)
    BY <1>9
  <2> HIDE DEF g
  <2>3. /\ con'.lsr = con.lsr /\ con'.got = con.got /\ con'.sent = g
        /\ con' \in ConType
    BY <1>6, <2>1, <2>2 DEF ConType
  <2> QED
    BY <2>3 DEF g
<1> QED
  BY <1>5, <1>6, <1>8, <1>9, <1>10 DEF ConsoleInv, ConsoleReadsWhatWasTyped

LEMMA ConsoleSetsUp ==
  ASSUME DInv, InOnePiece, con_setup
  PROVE  ConsoleInv'
<1>1. PICK r \in {IER, FCR, LCR, MCR} : paddr_write(Low("serial") + r, WLEN8)
  BY DEF con_setup
<1> DEFINE s == dev["serial"]
           t == Stored(s, r, WLEN8)
<1>2. /\ RInv /\ ConsoleInv /\ Booted /\ ~panic /\ "serial" \in DOMAIN dev /\ "serial" \in Driven
      /\ r \in 0 .. LastRegister("serial") /\ Accepts("serial", [s EXCEPT !.base[r] = WLEN8], r)
  BY DriverAssumption DEF DInv, con_setup, Running, Driven, IER, FCR, LCR, MCR, LastRegister,
     Accepts
<1>3. dev' = [dev EXCEPT !["serial"] = AfterWrite("serial", r, WLEN8)]
  BY <1>1, <1>2, DriverWrites
<1>4. AfterWrite("serial", r, WLEN8) = t
  BY DEF AfterWrite, Callback, Stored
<1>5. dev'["serial"] = t /\ typed' = typed /\ con' = con
  BY <1>2, <1>3, <1>4 DEF con_setup
<1>6. /\ s \in SerialType /\ (s.is_eofd => s.stdin = << >> /\ ~s.tty)
      /\ typed \in Seq(Int) /\ con.got \in Seq(Int) /\ con.sent \in Seq(Int)
      /\ con \in ConType
      /\ (con.lsr % 2 = DR => s.is_eofd \/ s.stdin # << >>)
      /\ (~s.is_eofd => con.got \o s.stdin = typed) /\ (s.is_eofd => IsPrefix(typed, con.got))
      /\ s.out = con.sent
  BY <1>2 DEF ConsoleInv, ConsoleReadsWhatWasTyped
<1>7. WLEN8 \in Int /\ r \in {RX, IER, FCR, LCR, MCR} /\ r # RX
  BY DEF WLEN8, RX, IER, FCR, LCR, MCR
<1> HIDE DEF s
<1>8. /\ t \in SerialType /\ t.tty = s.tty /\ t.is_eofd = s.is_eofd /\ t.stdin = s.stdin
      /\ t.out = s.out
  BY <1>6, <1>7, PortWritten
<1> HIDE DEF t
<1> QED
  BY <1>5, <1>6, <1>8 DEF ConsoleInv, ConsoleReadsWhatWasTyped

LEMMA KeyTyped ==
  ASSUME DInv, InOnePiece, Type
  PROVE  ConsoleInv'
<1>1. PICK c \in Keys : /\ typed' = Append(typed, c)
                        /\ dev' = [dev EXCEPT !["serial"].stdin = Append(@, c)]
  BY DEF Type
<1> DEFINE s == dev["serial"]
           t == dev'["serial"]
<1>2. /\ s \in SerialType /\ ~s.is_eofd
      /\ typed \in Seq(Int) /\ con.got \in Seq(Int) /\ con.sent \in Seq(Int)
      /\ con \in ConType
      /\ con.got \o s.stdin = typed
      /\ s.out = con.sent /\ con' = con /\ "serial" \in DOMAIN dev
  BY DriverAssumption DEF DInv, Type, ConsoleInv, ConsoleReadsWhatWasTyped
<1>3. s.stdin \in Seq(Int) /\ c \in Int
  BY <1>2, InputAssumption DEF SerialType
<1>4. t = [s EXCEPT !.stdin = Append(s.stdin, c)]
  BY <1>1, <1>2
<1> HIDE DEF s, t
<1> DEFINE q == Append(s.stdin, c)
<1>5. q \in Seq(Int) /\ q # << >>
  BY <1>2, <1>3, AppendLast
<1>6. typed' \in Seq(Int)
  BY <1>1, <1>2, <1>3
<1>7. con.got \o q = Append(typed, c)
  BY <1>2, <1>3, AppendLast
<1> HIDE DEF q
<1>8. /\ t \in SerialType /\ t.tty = s.tty /\ t.is_eofd = s.is_eofd /\ t.stdin = q
      /\ t.out = s.out
  BY <1>2, <1>4, <1>5 DEF SerialType, q
<1> QED
  BY <1>1, <1>2, <1>5, <1>7, <1>8, <1>6 DEF ConsoleInv, ConsoleReadsWhatWasTyped, t

LEMMA Words ==
  ASSUME NEW t \in Nat
  PROVE  /\ t % TimeLow \in Int /\ t \div TimeLow \in Int
         /\ (t \div TimeLow) * TimeLow + (t % TimeLow) = t
<1>1. TimeLow \in Nat /\ TimeLow > 0
  BY TimeLowAssumption
<1>2. t % TimeLow \in Int /\ t \div TimeLow \in Int
  BY <1>1
<1>3. (t \div TimeLow) * TimeLow + (t % TimeLow) = t
  BY <1>1
<1> QED
  BY <1>2, <1>3

LEMMA ClockReadsHigh ==
  ASSUME DInv, InOnePiece, clk_high
  PROVE  ClockInv'
<1> DEFINE s == dev["rtc"]
           t == rtc_io_handler(s, 1, FALSE, now)
<1>1. /\ RInv /\ ClockInv /\ Booted /\ ~panic /\ "rtc" \in DOMAIN dev /\ "rtc" \in Driven
      /\ 1 \in 0 .. LastRegister("rtc") /\ Accepts("rtc", s, 1)
  BY DriverAssumption DEF DInv, clk_high, Running, Driven, LastRegister, Accepts
<1>2. /\ Loaded(Low("rtc") + 1) = AfterRead("rtc", 1).base[1]
      /\ dev' = [dev EXCEPT !["rtc"] = AfterRead("rtc", 1)] /\ panic' = panic
  BY <1>1, DriverReads DEF clk_high
<1>3. AfterRead("rtc", 1) = t
  BY DEF AfterRead, Callback
<1>4. /\ dev'["rtc"] = t /\ now' = now
      /\ clk' = [clk EXCEPT !.pc = "low", !.high = t.base[1], !.asked = now]
  BY <1>1, <1>2, <1>3 DEF clk_high
<1>5. /\ s \in RtcType /\ now \in Nat
      /\ clk \in ClkType
  BY <1>1 DEF ClockInv, RtcType
<1>6. now % TimeLow \in Int /\ now \div TimeLow \in Int
  BY <1>5, Words
<1> HIDE DEF s
<1>7. t \in RtcType /\ t.base[0] = now % TimeLow /\ t.base[1] = now \div TimeLow
  <2> DEFINE b == [r \in 0 .. 1 |-> IF r = 0 THEN now % TimeLow ELSE now \div TimeLow]
  <2>1. t = [s EXCEPT !.base = b]
    BY DEF rtc_io_handler
  <2>2. b \in [0 .. 1 -> Int] /\ b[0] = now % TimeLow /\ b[1] = now \div TimeLow
    BY <1>6
  <2> HIDE DEF b, t
  <2>3. t \in RtcType /\ t.base = b
    BY <1>5, <2>1, <2>2 DEF RtcType
  <2> QED
    BY <2>2, <2>3
<1> HIDE DEF t
<1>8. /\ clk' \in ClkType
      /\ clk'.pc = "low" /\ clk'.high = t.base[1] /\ clk'.asked = now
  BY <1>4, <1>5, <1>6, <1>7 DEF ClkType
<1> QED
  BY <1>4, <1>5, <1>7, <1>8 DEF ClockInv, RtcType

LEMMA ClockReadsLow ==
  ASSUME DInv, InOnePiece, clk_low
  PROVE  ClockInv'
<1> DEFINE s == dev["rtc"]
<1>1. /\ RInv /\ ClockInv /\ Booted /\ ~panic /\ "rtc" \in DOMAIN dev /\ "rtc" \in Driven
      /\ 0 \in 0 .. LastRegister("rtc") /\ Accepts("rtc", s, 0)
  BY DriverAssumption DEF DInv, clk_low, Running, Driven, LastRegister, Accepts
<1>2. /\ Loaded(Low("rtc") + 0) = AfterRead("rtc", 0).base[0]
      /\ paddr_read(Low("rtc") + 0) =>
           dev' = [dev EXCEPT !["rtc"] = AfterRead("rtc", 0)] /\ panic' = panic
  BY <1>1, DriverReads
<1>3. AfterRead("rtc", 0) = s
  BY DEF AfterRead, Callback, rtc_io_handler
<1>4. Low("rtc") + 0 = Low("rtc")
  BY <1>1, Ends, DriverAssumption DEF Addr
<1>5. /\ dev'["rtc"] = s /\ now' = now
      /\ clk' = [clk EXCEPT !.pc = "high", !.time = clk.high * TimeLow + s.base[0]]
  <2>1. Loaded(Low("rtc")) = s.base[0]
    BY <1>2, <1>3, <1>4
  <2>2. dev' = [dev EXCEPT !["rtc"] = s] /\ panic' = panic
    BY <1>2, <1>3, <1>4 DEF clk_low
  <2>3. clk' = [clk EXCEPT !.pc = "high", !.time = clk.high * TimeLow + Loaded(Low("rtc"))]
    BY <1>1, <2>2 DEF clk_low
  <2> QED
    BY <1>1, <2>1, <2>2, <2>3 DEF clk_low
<1>6. /\ s \in RtcType /\ now \in Nat
      /\ clk \in ClkType
      /\ s.base[0] = clk.asked % TimeLow /\ clk.high = clk.asked \div TimeLow
  BY <1>1 DEF ClockInv, RtcType, clk_low
<1> HIDE DEF s
<1>7. clk.high * TimeLow + s.base[0] = clk.asked /\ clk.asked \in Nat
  BY <1>6, Words DEF ClkType
<1>8. clk' = [clk EXCEPT !.pc = "high", !.time = clk.asked]
  BY <1>5, <1>7
<1>9. /\ clk' \in ClkType
      /\ clk'.pc = "high" /\ clk'.time = clk'.asked
  <2>1. /\ clk \in ClkType
        /\ clk.asked \in Int
    BY <1>6, <1>7
  <2>2. clk'.pc = "high" /\ clk'.time = clk.asked /\ clk'.asked = clk.asked
    BY <1>8, <2>1
  <2> QED
    BY <1>8, <2>1, <2>2 DEF ClkType
<1> QED
  BY <1>5, <1>6, <1>9 DEF ClockInv, RtcType

\* The host's clock may run ahead of what the guest has asked for.
LEMMA ClockFrame ==
  ASSUME ClockInv, dev'["rtc"] = dev["rtc"], clk' = clk, now' = now \/ now' = now + 1
  PROVE  ClockInv'
<1>1. now' \in Nat
  BY DEF ClockInv
<1> QED
  BY <1>1 DEF ClockInv

\* Whatever a driver does, it reaches its device only.
LEMMA NextDInv == DInv /\ [Next]_vars => DInv'
<1> SUFFICES ASSUME DInv, [Next]_vars
             PROVE  DInv'
  OBVIOUS
<1>1. RInv /\ RInv' /\ DOMAIN dev = Range(Order)
  BY NextRInv DEF DInv
<1>2. /\ {"serial", "rtc", "sdhci"} \subseteq DOMAIN dev
      /\ \A d \in Driven : d \in {"serial", "rtc", "sdhci"}
  BY <1>1, DriverAssumption DEF Driven
<1>3. config' = config
  BY DEF Next, vars, init_dev, con_poll, con_recv, con_send, con_setup, Type, clk_high, clk_low,
     Tick, nemu_request, write_arg, write_cmd, next_piece, read_word, write_word, read_response
<1>4. InOnePiece' = InOnePiece
  BY <1>3 DEF InOnePiece, Low
<1>5. SUFFICES /\ DOMAIN dev' = DOMAIN dev
               /\ InOnePiece => ConsoleInv' /\ ClockInv'
  BY <1>1, <1>4, <1>5 DEF DInv
<1>6. InOnePiece => ConsoleInv /\ ClockInv
  BY DEF DInv
<1>7. CASE UNCHANGED <<dev, typed, now, con, clk>>
  BY <1>6, <1>7, ConsoleFrame, ClockFrame
\* The accesses of the drivers.
<1>8. ASSUME NEW d \in Driven, NEW o \in 0 .. LastRegister(d), Booted,
             paddr_read(Low(d) + o) \/ \E v : paddr_write(Low(d) + o, v)
      PROVE  /\ DOMAIN dev' = DOMAIN dev
             /\ InOnePiece => \A e \in DOMAIN dev \ {d} : dev'[e] = dev[e]
  BY <1>1, <1>8, AccessDomain, AccessFrame
<1>9. /\ \A o \in {RX, IER, FCR, LCR, MCR, LSR} : o \in 0 .. LastRegister("serial")
      /\ \A o \in {0, 1} : o \in 0 .. LastRegister("rtc")
      /\ \A o \in {SDCMD, SDARG, SDRSP0, SDDATA} : o \in 0 .. LastRegister("sdhci")
  BY DEF LastRegister, RX, IER, FCR, LCR, MCR, LSR, SDCMD, SDARG, SDRSP0, SDDATA
<1>10. CASE con_poll
  <2>1. DOMAIN dev' = DOMAIN dev /\ (InOnePiece => dev'["rtc"] = dev["rtc"])
    BY <1>2, <1>8, <1>9, <1>10 DEF con_poll, Running, Driven
  <2> QED
    BY <1>6, <1>10, <2>1, ConsolePolls, ClockFrame DEF con_poll
<1>11. CASE con_recv
  <2>1. DOMAIN dev' = DOMAIN dev /\ (InOnePiece => dev'["rtc"] = dev["rtc"])
    BY <1>2, <1>8, <1>9, <1>11 DEF con_recv, Running, Driven
  <2> QED
    BY <1>6, <1>11, <2>1, ConsoleReceives, ClockFrame DEF con_recv
<1>12. CASE con_send
  <2>1. DOMAIN dev' = DOMAIN dev /\ (InOnePiece => dev'["rtc"] = dev["rtc"])
    BY <1>2, <1>8, <1>9, <1>12 DEF con_send, Running, Driven
  <2> QED
    BY <1>6, <1>12, <2>1, ConsoleSends, ClockFrame DEF con_send
<1>13. CASE con_setup
  <2>1. DOMAIN dev' = DOMAIN dev /\ (InOnePiece => dev'["rtc"] = dev["rtc"])
    BY <1>2, <1>8, <1>9, <1>13 DEF con_setup, Running, Driven
  <2> QED
    BY <1>6, <1>13, <2>1, ConsoleSetsUp, ClockFrame DEF con_setup
<1>14. CASE Type
  <2>1. DOMAIN dev' = DOMAIN dev /\ dev'["rtc"] = dev["rtc"]
    BY <1>2, <1>14 DEF Type
  <2> QED
    BY <1>6, <1>14, <2>1, KeyTyped, ClockFrame DEF Type
<1>15. CASE clk_high
  <2>1. DOMAIN dev' = DOMAIN dev /\ (InOnePiece => dev'["serial"] = dev["serial"])
    BY <1>2, <1>8, <1>9, <1>15 DEF clk_high, Running, Driven
  <2> QED
    BY <1>6, <1>15, <2>1, ClockReadsHigh, ConsoleFrame DEF clk_high
<1>16. CASE clk_low
  <2>1. Low("rtc") + 0 = Low("rtc")
    BY <1>1, Ends, DriverAssumption DEF Addr
  <2>2. DOMAIN dev' = DOMAIN dev /\ (InOnePiece => dev'["serial"] = dev["serial"])
    BY <1>2, <1>8, <1>9, <1>16, <2>1 DEF clk_low, Running, Driven
  <2> QED
    BY <1>6, <1>16, <2>2, ClockReadsLow, ConsoleFrame DEF clk_low
<1>17. CASE Tick
  BY <1>6, <1>17, ConsoleFrame, ClockFrame DEF Tick
<1>18. CASE write_arg \/ write_cmd \/ read_word \/ write_word \/ read_response
  <2>1. /\ Booted /\ UNCHANGED <<typed, now, con, clk>>
        /\ \E o \in {SDCMD, SDARG, SDRSP0, SDDATA} :
             paddr_read(Low("sdhci") + o) \/ \E v : paddr_write(Low("sdhci") + o, v)
    BY <1>18 DEF write_arg, write_cmd, read_word, write_word, read_response, Running
  <2>2. /\ DOMAIN dev' = DOMAIN dev
        /\ InOnePiece => dev'["serial"] = dev["serial"] /\ dev'["rtc"] = dev["rtc"]
    BY <1>2, <1>8, <1>9, <2>1 DEF Driven
  <2> QED
    BY <1>6, <2>1, <2>2, ConsoleFrame, ClockFrame
<1> QED
  BY <1>7, <1>10, <1>11, <1>12, <1>13, <1>14, <1>15, <1>16, <1>17, <1>18 DEF Next, vars,
     init_dev, nemu_request, next_piece

(* Every standard input and every interleaving of the drivers: the console *)
(* reads what was typed and its output is what it sent (serial.c:66,94),   *)
(* where no device that has a driver wraps around the address space: the   *)
(* far end of such a region may fall to another device (mmio.c:39).        *)
THEOREM ConsoleReadsAlways == Spec => [](InOnePiece => ConsoleReadsWhatWasTyped)
<1>1. DInv => (InOnePiece => ConsoleReadsWhatWasTyped)
  BY DEF DInv, ConsoleInv
<1> QED
  BY <1>1, InitDInv, NextDInv, PTL DEF Spec

(* Every width of the clock's words, and the host's clock running ahead    *)
(* between the two reads: the time is that of the first (timer.c:24).      *)
THEOREM ClockReadsOnce == Spec => [](InOnePiece => ClockIsOneReading)
<1>1. DInv => (InOnePiece => ClockIsOneReading)
  BY DEF DInv, ClockInv, ClockIsOneReading
<1> QED
  BY <1>1, InitDInv, NextDInv, PTL DEF Spec
-----------------------------------------------------------------------------
(* The card.                                                               *)

Word == Int \X Int
Names == Commands \cup {"none"} \cup {r.op : r \in Requests}
RegVal == Word \cup Int \cup Names
SdType == [base : [0 .. 31 -> RegVal], fp : BOOLEAN, img : Seq(Word), pos : Nat, addr : Nat,
           blkcnt : Int, write_cmd : BOOLEAN, read_ext_csd : BOOLEAN]
DrvType == [pc : {"idle", "arg", "command", "piece", "word", "response", "done"},
            mrq : Requests \cup {<< >>}, nr : Nat, error : BOOLEAN,
            cmd : {"sbc", "cmd", "stop"}, sg : Seq(Nat \ {0}), buf : Seq(RegVal), sent : Nat,
            before : Seq(Word), left : Nat, blksize : Nat, words : Nat]

\* Where a request stands: before its own command, moving its data, after it.
Unstarted(d) == \/ d.cmd = "sbc" /\ d.pc \in {"arg", "command", "response"}
                \/ d.cmd = "cmd" /\ d.pc \in {"arg", "command"}
Moving(d)    == d.cmd = "cmd" /\ d.pc \in {"piece", "word"} /\ HasData(d.mrq)
Ended(d)     == \/ d.pc = "done"
                \/ d.pc = "response" /\ d.cmd # "sbc"
                \/ d.pc \in {"arg", "command"} /\ d.cmd = "stop"

First(d) == d.mrq.blk * BlockWords
\* Words of this block still to come.
Rest(d) == (d.blksize \div 4) + (IF d.pc = "word" THEN d.words ELSE 0)

Untouched(s, d) == s.img = d.before /\ ~s.read_ext_csd

\* The data moved so far, for the three kinds of data.
ReadSoFar(s, d) ==
  /\ Untouched(s, d) /\ ~s.write_cmd
  /\ s.fp => /\ s.pos < Len(s.img) => s.pos = First(d) + Len(d.buf)
             /\ s.pos >= Len(s.img) => First(d) + Len(d.buf) >= Len(s.img)
             /\ \A i \in 1 .. Len(d.buf) :
                  First(d) + i <= Len(s.img) => d.buf[i] = s.img[First(d) + i]
WrittenSoFar(s, d) ==
  /\ ~s.read_ext_csd /\ s.write_cmd
  /\ ~s.fp => s.img = d.before
  /\ s.fp => /\ s.pos >= First(d) /\ Len(d.before) <= Len(s.img)
             /\ s.pos > First(d) => s.pos <= Len(s.img)
             /\ ~d.error => d.sent = s.pos - First(d)
             /\ \A w \in 1 .. Len(s.img) :
                  IF w > First(d) /\ w <= s.pos
                  THEN s.img[w][1] = d.nr /\ (~d.error => s.img[w] = <<d.nr, w - First(d)>>)
                  ELSE /\ w <= Len(d.before) => s.img[w] = d.before[w]
                       /\ w > First(d) => w <= Len(d.before)
ExtSoFar(s, d) ==
  /\ s.img = d.before /\ ~d.error /\ Len(d.buf) <= BlockWords
  /\ \A i \in 1 .. Len(d.buf) : d.buf[i] = ExtCsd(i - 1)
  /\ s.read_ext_csd <=> Len(d.buf) < BlockWords
  /\ s.read_ext_csd => s.addr = Len(d.buf)
Progress(s, d) ==
  /\ d.mrq.op = "READ_MULTIPLE_BLOCK"  => ReadSoFar(s, d)
  /\ d.mrq.op = "WRITE_MULTIPLE_BLOCK" => WrittenSoFar(s, d)
  /\ d.mrq.op = "SEND_EXT_CSD"         => ExtSoFar(s, d)

\* Every block has a share of the words; without an error none is skipped.
Share(d, moved, n) == moved <= n /\ (~d.error => moved = n)
Budget(s, d) ==
  /\ d.left < d.mrq.blocks
  /\ \E q \in 0 .. BlockWords : d.blksize = 4 * q
  /\ d.pc = "word" => d.words > 0
  /\ LET n == (d.mrq.blocks - d.left) * BlockWords - Rest(d)
     IN  /\ d.mrq.op = "READ_MULTIPLE_BLOCK" => Share(d, Len(d.buf), n)
         /\ d.mrq.op = "WRITE_MULTIPLE_BLOCK" /\ s.fp => Share(d, s.pos - First(d), n)
  /\ d.mrq.op = "SEND_EXT_CSD" =>
       /\ d.left = 0
       /\ \/ d.pc = "piece" /\ d.buf = << >> /\ d.blksize = 4 * BlockWords /\ d.sg = d.mrq.sg
          \/ d.blksize = 0 /\ Rest(d) = BlockWords - Len(d.buf)
Total(s, d) ==
  LET n == d.mrq.blocks * BlockWords
  IN  /\ d.mrq.op = "READ_MULTIPLE_BLOCK" => Share(d, Len(d.buf), n)
      /\ d.mrq.op = "WRITE_MULTIPLE_BLOCK" /\ s.fp => Share(d, s.pos - First(d), n)
      /\ d.mrq.op = "SEND_EXT_CSD" => Len(d.buf) = BlockWords

\* The card and its driver together.
Agreed(s, d) ==
  /\ s.base[SDARG] \in Nat
  /\ d.pc = "idle" => ~s.read_ext_csd
  /\ d.pc # "idle" => d.mrq \in Requests /\ (Unstarted(d) \/ Moving(d) \/ Ended(d))
  /\ d.pc = "command" /\ d.cmd = "cmd" => s.base[SDARG] = d.mrq.blk
  /\ d.pc # "idle" /\ Unstarted(d) =>
       Untouched(s, d) /\ d.buf = << >> /\ d.sent = 0 /\ d.sg = d.mrq.sg /\ ~d.error
  /\ d.pc # "idle" /\ Moving(d) => Progress(s, d) /\ Budget(s, d)
  /\ d.pc # "idle" /\ Ended(d) =>
       IF HasData(d.mrq) THEN Progress(s, d) /\ Total(s, d) ELSE Untouched(s, d)
SInv == ~panic => /\ dev["sdhci"] \in SdType /\ drv \in DrvType
                  /\ Agreed(dev["sdhci"], drv)
-----------------------------------------------------------------------------
(* What the card's handler does to its state.                              *)

WordAt(s, a, v) == [s EXCEPT !.base[SDDATA] = v, !.addr = a]

\* A word put in the data register.
LEMMA WordAtType ==
  ASSUME NEW s \in SdType, NEW a \in Nat, NEW v \in RegVal
  PROVE  /\ WordAt(s, a, v) \in SdType
         /\ WordAt(s, a, v).base[SDARG] = s.base[SDARG] /\ WordAt(s, a, v).base[SDDATA] = v
         /\ WordAt(s, a, v).addr = a /\ WordAt(s, a, v).img = s.img /\ WordAt(s, a, v).pos = s.pos
         /\ WordAt(s, a, v).fp = s.fp /\ WordAt(s, a, v).write_cmd = s.write_cmd
         /\ WordAt(s, a, v).read_ext_csd = s.read_ext_csd
<1> DEFINE b == [s.base EXCEPT ![SDDATA] = v]
<1>1. /\ s.base \in [0 .. 31 -> RegVal] /\ SDDATA \in 0 .. 31 /\ SDARG \in 0 .. 31 /\ SDARG # SDDATA
  BY DEF SdType, SDDATA, SDARG
<1>2. b \in [0 .. 31 -> RegVal] /\ b[SDDATA] = v /\ b[SDARG] = s.base[SDARG]
  BY <1>1
<1>3. WordAt(s, a, v) = [s EXCEPT !.base = b, !.addr = a]
  BY DEF WordAt, SdType
<1> HIDE DEF b
<1> QED
  BY <1>2, <1>3 DEF SdType

\* A word of the EXT_CSD.
LEMMA ExtCsdType ==
  ASSUME NEW a \in Nat
  PROVE  ExtCsd(a) \in RegVal
BY DEF ExtCsd, RegVal, Word

\* Fields of a card.
LEMMA Fields ==
  ASSUME NEW s \in SdType
  PROVE  /\ s.addr \in Nat /\ s.addr + 1 \in Nat /\ s.pos \in Nat /\ s.pos + 1 \in Nat
         /\ s.img \in Seq(Word) /\ s.base \in [0 .. 31 -> RegVal]
         /\ s.fp \in BOOLEAN /\ s.write_cmd \in BOOLEAN /\ s.read_ext_csd \in BOOLEAN
<1>1. s.addr \in Nat /\ s.pos \in Nat
  BY DEF SdType
<1>2. /\ s.img \in Seq(Word) /\ s.base \in [0 .. 31 -> RegVal]
      /\ s.fp \in BOOLEAN /\ s.write_cmd \in BOOLEAN /\ s.read_ext_csd \in BOOLEAN
  BY DEF SdType
<1>3. s.addr + 1 \in Nat /\ s.pos + 1 \in Nat
  BY <1>1
<1> QED
  BY <1>1, <1>2, <1>3, Zenon

\* The words of the EXT_CSD, and the end of the mode.
LEMMA ExtWord ==
  ASSUME NEW s \in SdType, s.read_ext_csd
  PROVE  /\ sdcard_data(s) \in SdType
         /\ sdcard_data(s).base[SDARG] = s.base[SDARG]
         /\ sdcard_data(s).base[SDDATA] = ExtCsd(s.addr)
         /\ sdcard_data(s).addr = s.addr + 1 /\ sdcard_data(s).img = s.img
         /\ sdcard_data(s).read_ext_csd <=> s.addr # BlockWords - 1
<1> DEFINE e == (s.addr # BlockWords - 1)
           w == [s EXCEPT !.read_ext_csd = e]
           a == s.addr + 1
           v == ExtCsd(s.addr)
<1>1. a \in Nat /\ v \in RegVal
  BY Fields, ExtCsdType
<1>2. w \in SdType /\ w.base = s.base /\ w.img = s.img /\ w.addr = s.addr
  BY DEF SdType
<1>3. w.read_ext_csd <=> e
  BY DEF SdType
<1>4. sdcard_data(s) = WordAt(w, a, v)
  BY DEF sdcard_data, WordAt, SdType
<1> HIDE DEF w, a, v
<1>5. /\ WordAt(w, a, v) \in SdType
      /\ WordAt(w, a, v).base[SDARG] = w.base[SDARG]
      /\ WordAt(w, a, v).base[SDDATA] = v
      /\ WordAt(w, a, v).addr = a
      /\ WordAt(w, a, v).img = w.img
      /\ WordAt(w, a, v).read_ext_csd = w.read_ext_csd
  <2>1. w \in SdType
    BY <1>2
  <2> QED
    BY <1>1, <2>1, WordAtType
<1> QED
  BY <1>2, <1>3, <1>4, <1>5 DEF a, v

Positioned(s, a, p, m) == [s EXCEPT !.addr = a, !.pos = p, !.img = m]

\* A card moved to another position, or with another image.
LEMMA PositionedType ==
  ASSUME NEW s \in SdType, NEW a \in Nat, NEW p \in Nat, NEW m \in Seq(Word)
  PROVE  /\ Positioned(s, a, p, m) \in SdType
         /\ Positioned(s, a, p, m).base = s.base
         /\ Positioned(s, a, p, m).pos = p /\ Positioned(s, a, p, m).img = m
         /\ Positioned(s, a, p, m).fp = s.fp /\ Positioned(s, a, p, m).write_cmd = s.write_cmd
         /\ Positioned(s, a, p, m).read_ext_csd = s.read_ext_csd
BY DEF Positioned, SdType

\* Without an image nothing moves.
LEMMA NoImage ==
  ASSUME NEW s \in SdType, ~s.read_ext_csd, ~s.fp
  PROVE  /\ sdcard_data(s) \in SdType
         /\ sdcard_data(s).base = s.base /\ sdcard_data(s).img = s.img
         /\ sdcard_data(s).fp = s.fp /\ sdcard_data(s).write_cmd = s.write_cmd
         /\ ~sdcard_data(s).read_ext_csd
<1> DEFINE a == s.addr + 1
           p == s.pos
           m == s.img
<1>1. a \in Nat /\ p \in Nat /\ m \in Seq(Word)
  BY Fields
<1>2. sdcard_data(s) = Positioned(s, a, p, m)
  BY DEF sdcard_data, Positioned, SdType
<1> HIDE DEF a, p, m
<1>3. /\ Positioned(s, a, p, m) \in SdType
      /\ Positioned(s, a, p, m).base = s.base
      /\ Positioned(s, a, p, m).img = m
      /\ Positioned(s, a, p, m).fp = s.fp
      /\ Positioned(s, a, p, m).write_cmd = s.write_cmd
      /\ Positioned(s, a, p, m).read_ext_csd = s.read_ext_csd
  BY <1>1, PositionedType
<1> QED
  BY <1>2, <1>3 DEF m

\* A read of the image.
LEMMA ImageRead ==
  ASSUME NEW s \in SdType
  PROVE  ~s.read_ext_csd /\ s.fp /\ ~s.write_cmd =>
         /\ sdcard_data(s) \in SdType
         /\ sdcard_data(s).base[SDARG] = s.base[SDARG] /\ sdcard_data(s).img = s.img
         /\ sdcard_data(s).fp /\ ~sdcard_data(s).write_cmd /\ ~sdcard_data(s).read_ext_csd
         /\ s.pos >= Len(s.img) => sdcard_data(s).pos = s.pos
         /\ s.pos < Len(s.img) => /\ sdcard_data(s).pos = s.pos + 1
                                  /\ sdcard_data(s).base[SDDATA] = s.img[s.pos + 1]
<1> DEFINE a == s.addr + 1
           p == s.pos
           n == s.pos + 1
           m == s.img
           v == s.img[s.pos + 1]
           x == Positioned(s, a, p, m)
           y == Positioned(s, a, n, m)
           z == WordAt(y, a, v)
<1>1. a \in Nat /\ n \in Nat /\ p \in Nat /\ m \in Seq(Word)
  BY Fields
<1> HIDE DEF a, p, n, m, v
<1>2. /\ x \in SdType /\ x.base = s.base /\ x.pos = p /\ x.img = m /\ x.fp = s.fp
      /\ x.write_cmd = s.write_cmd /\ x.read_ext_csd = s.read_ext_csd
  BY <1>1, PositionedType
<1>3. /\ y \in SdType /\ y.base = s.base /\ y.pos = n /\ y.img = m /\ y.fp = s.fp
      /\ y.write_cmd = s.write_cmd /\ y.read_ext_csd = s.read_ext_csd
  BY <1>1, PositionedType
<1> HIDE DEF x, y
<1>4. y \in SdType
  BY <1>3
<1>5. ASSUME v \in RegVal
      PROVE  /\ z \in SdType /\ z.base[SDARG] = y.base[SDARG] /\ z.base[SDDATA] = v
             /\ z.img = y.img /\ z.pos = y.pos /\ z.fp = y.fp /\ z.write_cmd = y.write_cmd
             /\ z.read_ext_csd = y.read_ext_csd
  BY <1>1, <1>4, <1>5, WordAtType
<1> SUFFICES ASSUME ~s.read_ext_csd, s.fp, ~s.write_cmd
             PROVE  /\ sdcard_data(s) \in SdType
                    /\ sdcard_data(s).base[SDARG] = s.base[SDARG] /\ sdcard_data(s).img = s.img
                    /\ sdcard_data(s).fp /\ ~sdcard_data(s).write_cmd
                    /\ ~sdcard_data(s).read_ext_csd
                    /\ s.pos >= Len(s.img) => sdcard_data(s).pos = s.pos
                    /\ s.pos < Len(s.img) => /\ sdcard_data(s).pos = s.pos + 1
                                             /\ sdcard_data(s).base[SDDATA] = s.img[s.pos + 1]
  OBVIOUS
<1>6. CASE s.pos >= Len(s.img)
  <2>1. sdcard_data(s) = x
    BY <1>6 DEF sdcard_data, ReadWord, Positioned, SdType, x, a, p, m
  <2>2. ~(s.pos < Len(s.img))
    BY <1>1, <1>6 DEF p, m
  <2> QED
    BY <1>2, <2>1, <2>2 DEF p, m
<1>7. CASE s.pos < Len(s.img)
  <2>1. v \in Word /\ ~(s.pos >= Len(s.img))
    BY <1>1, <1>7 DEF p, m, v
  <2>2. v \in RegVal
    BY <2>1 DEF RegVal
  <2>3. sdcard_data(s) = z
    BY <2>1 DEF sdcard_data, ReadWord, Positioned, WordAt, SdType, y, z, a, n, m, v
  <2> HIDE DEF z
  <2> QED
    BY <1>3, <1>5, <1>7, <2>1, <2>2, <2>3 DEF n, m, v
<1>8. s.pos >= Len(s.img) \/ s.pos < Len(s.img)
  BY <1>1 DEF p, m
<1> QED
  BY <1>6, <1>7, <1>8

\* A write of the image: the word at the position, and zeros up to it where
\* the file was shorter.
LEMMA ImageWritten ==
  ASSUME NEW s \in SdType, s.base[SDDATA] \in Word
  PROVE  ~s.read_ext_csd /\ s.fp /\ s.write_cmd =>
         /\ sdcard_data(s) \in SdType
         /\ sdcard_data(s).base = s.base /\ sdcard_data(s).pos = s.pos + 1
         /\ sdcard_data(s).fp /\ sdcard_data(s).write_cmd /\ ~sdcard_data(s).read_ext_csd
         /\ Len(sdcard_data(s).img) = IF s.pos < Len(s.img) THEN Len(s.img) ELSE s.pos + 1
         /\ sdcard_data(s).img[s.pos + 1] = s.base[SDDATA]
         /\ \A w \in 1 .. Len(sdcard_data(s).img) :
              w # s.pos + 1 /\ w <= Len(s.img) => sdcard_data(s).img[w] = s.img[w]
<1> DEFINE a == s.addr + 1
           n == s.pos + 1
           l == IF s.pos < Len(s.img) THEN Len(s.img) ELSE s.pos + 1
           m == [i \in 1 .. l |-> IF i = n THEN s.base[SDDATA]
                                  ELSE IF i <= Len(s.img) THEN s.img[i] ELSE <<0, 0>>]
           x == Positioned(s, a, n, m)
<1>1. s.addr + 1 \in Nat /\ s.pos + 1 \in Nat /\ s.pos \in Nat /\ s.img \in Seq(Word)
  BY Fields
<1>2. l \in Nat /\ n \in 1 .. l /\ l >= Len(s.img) /\ Len(s.img) \in Nat
  BY <1>1
<1>3. <<0, 0>> \in Word
  BY DEF Word
<1>4. \A i \in 1 .. Len(s.img) : s.img[i] \in Word
  BY <1>1
<1>5. a \in Nat /\ n \in Nat
  BY <1>1
<1> HIDE DEF a, l, n
<1>6. ASSUME NEW i \in 1 .. l
      PROVE  m[i] \in Word
  BY <1>2, <1>3, <1>4, <1>6
<1>7. m \in Seq(Word) /\ Len(m) = l
  <2>1. m \in [1 .. l -> Word]
    BY <1>6
  <2> HIDE DEF m
  <2> QED
    BY <1>2, <2>1
<1>8. m[n] = s.base[SDDATA] /\ \A w \in 1 .. l : w # n /\ w <= Len(s.img) => m[w] = s.img[w]
  BY <1>2
<1> HIDE DEF m
<1>9. /\ x \in SdType /\ x.base = s.base /\ x.pos = n /\ x.img = m /\ x.fp = s.fp
      /\ x.write_cmd = s.write_cmd /\ x.read_ext_csd = s.read_ext_csd
  BY <1>5, <1>7, PositionedType
<1>10. ~s.read_ext_csd /\ s.fp /\ s.write_cmd => sdcard_data(s) = x
  BY DEF sdcard_data, WriteWord, Positioned, SdType, x, a, l, m, n
<1> HIDE DEF x
<1> QED
  BY <1>7, <1>8, <1>9, <1>10 DEF l, n

\* What each command leaves in the card.
LEMMA CommandDone ==
  ASSUME NEW s \in SdType, NEW c \in Names, s.base[SDARG] \in Nat
  PROVE  /\ sdcard_handle_cmd(s, c) \in SdType
         /\ sdcard_handle_cmd(s, c).base[SDARG] = s.base[SDARG]
         /\ sdcard_handle_cmd(s, c).img = s.img /\ sdcard_handle_cmd(s, c).fp = s.fp
         /\ c \in {"READ_MULTIPLE_BLOCK", "WRITE_MULTIPLE_BLOCK"} =>
              /\ sdcard_handle_cmd(s, c).read_ext_csd = s.read_ext_csd
              /\ sdcard_handle_cmd(s, c).write_cmd <=> c = "WRITE_MULTIPLE_BLOCK"
              /\ s.fp => sdcard_handle_cmd(s, c).pos = s.base[SDARG] * BlockWords
         /\ c = "SEND_EXT_CSD" => /\ sdcard_handle_cmd(s, c).read_ext_csd
                                  /\ sdcard_handle_cmd(s, c).addr = 0
         /\ c \notin {"READ_MULTIPLE_BLOCK", "WRITE_MULTIPLE_BLOCK", "SEND_EXT_CSD"} =>
              /\ sdcard_handle_cmd(s, c).read_ext_csd = s.read_ext_csd
              /\ sdcard_handle_cmd(s, c).write_cmd = s.write_cmd
              /\ sdcard_handle_cmd(s, c).pos = s.pos /\ sdcard_handle_cmd(s, c).addr = s.addr
<1> DEFINE t == sdcard_handle_cmd(s, c)
<1>1. /\ s.base \in [0 .. 31 -> RegVal] /\ SDRSP0 \in 0 .. 31 /\ SDARG \in 0 .. 31
      /\ SDARG # SDRSP0 /\ SDARG \notin 4 .. 7 /\ c \in RegVal
  BY DEF SdType, SDRSP0, SDARG, RegVal
<1>2. CASE c \in {"SEND_OP_COND", "ALL_SEND_CID", "SEND_CSD", "SEND_STATUS"}
  <2> DEFINE b == [r \in DOMAIN s.base |-> IF r \in Answered(c) THEN c ELSE s.base[r]]
  <2>1. b \in [0 .. 31 -> RegVal] /\ b[SDARG] = s.base[SDARG]
    BY <1>1 DEF Answered
  <2>2. t = [s EXCEPT !.base = b]
    <3>1. t = Respond(s, c)
      BY <1>2 DEF sdcard_handle_cmd
    <3> QED
      BY <3>1 DEF Respond
  <2> HIDE DEF b, t
  <2>3. /\ t \in SdType /\ t.base = b /\ t.img = s.img /\ t.fp = s.fp /\ t.pos = s.pos
        /\ t.addr = s.addr /\ t.read_ext_csd = s.read_ext_csd /\ t.write_cmd = s.write_cmd
    BY <2>1, <2>2 DEF SdType
  <2> QED
    BY <1>2, <2>1, <2>3 DEF t
<1>4. CASE c = "SEND_EXT_CSD"
  <2>2. t = [s EXCEPT !.read_ext_csd = TRUE, !.addr = 0]
    BY <1>4 DEF sdcard_handle_cmd
  <2> HIDE DEF t
  <2>3. /\ t \in SdType /\ t.base = s.base /\ t.img = s.img /\ t.fp = s.fp
        /\ t.addr = 0 /\ t.read_ext_csd
    BY <2>2 DEF SdType
  <2> QED
    BY <1>4, <2>3 DEF t
<1>5. CASE c = "SET_BLOCK_COUNT"
  <2> DEFINE n == s.base[SDARG] % 65536
  <2>2. t = [s EXCEPT !.blkcnt = n]
    BY <1>5 DEF sdcard_handle_cmd
  <2>4. n \in Int
    OBVIOUS
  <2> HIDE DEF n, t
  <2>3. /\ t \in SdType /\ t.base = s.base /\ t.img = s.img /\ t.fp = s.fp /\ t.pos = s.pos
        /\ t.addr = s.addr /\ t.read_ext_csd = s.read_ext_csd /\ t.write_cmd = s.write_cmd
    BY <2>2, <2>4 DEF SdType
  <2> QED
    BY <1>5, <2>3 DEF t
<1>6. CASE c \in {"READ_MULTIPLE_BLOCK", "WRITE_MULTIPLE_BLOCK"}
  <2> DEFINE w == (c = "WRITE_MULTIPLE_BLOCK")
             p == IF s.fp THEN s.base[SDARG] * BlockWords ELSE s.pos
  <2>1. p \in Nat /\ w \in BOOLEAN
    <3>1. s.base[SDARG] * BlockWords \in Nat
      BY BlockWordsAssumption
    <3> QED
      BY <3>1 DEF SdType
  <2>2. t = [s EXCEPT !.addr = 0, !.write_cmd = w, !.pos = p]
    <3>1. t = prepare_rw(s, w)
      BY <1>6 DEF sdcard_handle_cmd
    <3> QED
      BY <3>1 DEF prepare_rw
  <2>5. s.fp => p = s.base[SDARG] * BlockWords
    OBVIOUS
  <2> HIDE DEF p, t, w
  <2>3. /\ t \in SdType /\ t.base = s.base /\ t.img = s.img /\ t.fp = s.fp /\ t.pos = p
        /\ t.read_ext_csd = s.read_ext_csd /\ t.write_cmd = w
    BY <2>1, <2>2 DEF SdType
  <2> QED
    BY <1>6, <2>3, <2>5 DEF t, w
<1>7. CASE c \notin {"SEND_OP_COND", "ALL_SEND_CID", "SEND_CSD", "SEND_STATUS", "SEND_EXT_CSD",
                     "SET_BLOCK_COUNT", "READ_MULTIPLE_BLOCK", "WRITE_MULTIPLE_BLOCK"}
  <2>1. t = s
    BY <1>7 DEF sdcard_handle_cmd
  <2> QED
    BY <1>7, <2>1
<1> QED
  BY <1>2, <1>4, <1>5, <1>6, <1>7

\* Fields of a request.
LEMMA RequestType ==
  ASSUME NEW r \in Requests
  PROVE  /\ r.op \in Names /\ r.blk \in Nat /\ r.blocks \in Nat /\ r.sg \in Seq(Nat \ {0})
         /\ HasData(r) => r.blocks > 0
         /\ r.op = "SEND_EXT_CSD" => r.blocks = 1 /\ r.sg = <<4 * BlockWords>>
         /\ r.sbc \in BOOLEAN /\ r.stop \in BOOLEAN /\ r.blk * BlockWords \in Nat
<1>1. r.blk \in Nat /\ r.op \in Names
  BY RequestAssumption DEF Names
<1>2. r.blk * BlockWords \in Nat
  BY <1>1, BlockWordsAssumption
<1> QED
  BY <1>1, <1>2, RequestAssumption

\* What Agreed and Progress look at in a card, the registers excepted.
SameCard(s, t) == /\ t.img = s.img /\ t.fp = s.fp /\ t.pos = s.pos /\ t.addr = s.addr
                  /\ t.write_cmd = s.write_cmd /\ t.read_ext_csd = s.read_ext_csd
\* The same request, as far.
SameData(d, e) == /\ e.mrq = d.mrq /\ e.nr = d.nr /\ e.error = d.error /\ e.buf = d.buf
                  /\ e.sent = d.sent /\ e.before = d.before

\* Progress depends on the card and on the data of the request only.
LEMMA SameProgress ==
  ASSUME NEW s, NEW d, NEW t, NEW e, SameCard(s, t), SameData(d, e)
  PROVE  /\ Untouched(s, d) => Untouched(t, e)
         /\ Progress(s, d) => Progress(t, e)
         /\ Total(s, d) => Total(t, e)
<1>1. Untouched(s, d) => Untouched(t, e)
  BY DEF SameCard, SameData, Untouched
<1>2. First(e) = First(d)
  BY DEF SameData, First
<1>3. ReadSoFar(s, d) => ReadSoFar(t, e)
  BY <1>1, <1>2 DEF SameCard, SameData, ReadSoFar
<1>4. WrittenSoFar(s, d) => WrittenSoFar(t, e)
  BY <1>2 DEF SameCard, SameData, WrittenSoFar
<1>5. ExtSoFar(s, d) => ExtSoFar(t, e)
  BY DEF SameCard, SameData, ExtSoFar
<1>6. Progress(s, d) => Progress(t, e)
  BY <1>3, <1>4, <1>5 DEF SameData, Progress
<1>7. Total(s, d) => Total(t, e)
  BY <1>2 DEF SameCard, SameData, Total, Share
<1> QED
  BY <1>1, <1>6, <1>7

\* Between two requests the card is in no mode of its own.
LEMMA QuietBetween ==
  ASSUME NEW s \in SdType, NEW d \in DrvType, Agreed(s, d)
  PROVE  d.pc \in {"idle", "done"} => ~s.read_ext_csd
<1>1. CASE d.pc = "idle"
  BY <1>1 DEF Agreed
<1>2. CASE d.pc = "done"
  <2>1. IF HasData(d.mrq) THEN Progress(s, d) /\ Total(s, d) ELSE Untouched(s, d)
    BY <1>2 DEF Agreed, Ended
  <2>2. CASE ~HasData(d.mrq)
    BY <2>1, <2>2 DEF Untouched
  <2>3. CASE d.mrq.op = "READ_MULTIPLE_BLOCK"
    BY <2>1, <2>3 DEF HasData, Progress, ReadSoFar, Untouched
  <2>4. CASE d.mrq.op = "WRITE_MULTIPLE_BLOCK"
    BY <2>1, <2>4 DEF HasData, Progress, WrittenSoFar
  <2>5. CASE d.mrq.op = "SEND_EXT_CSD"
    <3>1. ExtSoFar(s, d) /\ Len(d.buf) = BlockWords
      BY <2>1, <2>5 DEF HasData, Progress, Total
    <3> QED
      BY <3>1, BlockWordsAssumption DEF ExtSoFar
  <2> QED
    BY <2>2, <2>3, <2>4, <2>5 DEF HasData
<1> QED
  BY <1>1, <1>2

\* A new request starts where the last one ended.
LEMMA Requested ==
  ASSUME NEW s \in SdType, NEW d \in DrvType, NEW e \in DrvType, NEW r \in Requests,
         Agreed(s, d), d.pc \in {"idle", "done"},
         e.pc = "arg", e.mrq = r, e.error = FALSE, e.cmd = IF UseSbc(r) THEN "sbc" ELSE "cmd",
         e.sg = r.sg, e.buf = << >>, e.sent = 0, e.before = s.img
  PROVE  Agreed(s, e)
<1>1. ~s.read_ext_csd /\ s.base[SDARG] \in Nat
  BY QuietBetween DEF Agreed
<1>2. Unstarted(e) /\ ~Moving(e) /\ ~Ended(e)
  BY DEF Unstarted, Moving, Ended
<1>3. Untouched(s, e)
  BY <1>1 DEF Untouched
<1> QED
  BY <1>1, <1>2, <1>3 DEF Agreed

\* The argument register is written.
LEMMA ArgWritten ==
  ASSUME NEW s \in SdType, NEW t \in SdType, NEW d \in DrvType, NEW e \in DrvType,
         Agreed(s, d), d.pc = "arg", SameCard(s, t), t.base[SDARG] \in Nat,
         d.cmd = "cmd" => t.base[SDARG] = d.mrq.blk,
         SameData(d, e), e.pc = "command", e.cmd = d.cmd, e.sg = d.sg
  PROVE  Agreed(t, e)
<1>1. e.mrq = d.mrq /\ e.buf = d.buf /\ e.sent = d.sent /\ e.error = d.error
  BY DEF SameData
<1>2. /\ Unstarted(d) <=> Unstarted(e)
      /\ Ended(d) <=> Ended(e)
      /\ ~Moving(d) /\ ~Moving(e)
  BY DEF Unstarted, Ended, Moving
<1>3. /\ Untouched(s, d) => Untouched(t, e)
      /\ Progress(s, d) => Progress(t, e)
      /\ Total(s, d) => Total(t, e)
  BY SameProgress
<1>4. Ended(e) => IF HasData(e.mrq) THEN Progress(t, e) /\ Total(t, e) ELSE Untouched(t, e)
  BY <1>1, <1>2, <1>3 DEF Agreed
<1>5. Unstarted(e) => Untouched(t, e) /\ e.buf = << >> /\ e.sent = 0 /\ e.sg = e.mrq.sg /\ ~e.error
  BY <1>1, <1>2, <1>3 DEF Agreed
<1>6. e.mrq \in Requests /\ (Unstarted(e) \/ Moving(e) \/ Ended(e))
  BY <1>1, <1>2 DEF Agreed
<1> QED
  BY <1>1, <1>2, <1>4, <1>5, <1>6 DEF Agreed

\* Bytes and words.
LEMMA QuarterOf == \A n \in Nat : 4 * n \in Nat /\ (4 * n) \div 4 = n /\ (4 * n) % 4 = 0
OBVIOUS

\* A command that moves no data.
LEMMA PlainCommand ==
  ASSUME NEW s \in SdType, NEW t \in SdType, NEW d \in DrvType, NEW e \in DrvType,
         Agreed(s, d), d.pc = "command", d.cmd = "cmd" => ~HasData(d.mrq),
         SameCard(s, t), t.base[SDARG] = s.base[SDARG],
         SameData(d, e), e.pc = "response", e.cmd = d.cmd, e.sg = d.sg
  PROVE  Agreed(t, e)
<1>1. e.mrq = d.mrq /\ e.buf = d.buf /\ e.sent = d.sent /\ e.error = d.error
  BY DEF SameData
<1>2. /\ d.cmd = "sbc" => Unstarted(d) /\ Unstarted(e) /\ ~Ended(e) /\ ~Moving(e)
      /\ d.cmd = "cmd" => Unstarted(d) /\ ~Unstarted(e) /\ Ended(e) /\ ~Moving(e)
      /\ d.cmd = "stop" => ~Unstarted(e) /\ Ended(d) /\ Ended(e) /\ ~Moving(e)
      /\ d.cmd \in {"sbc", "cmd", "stop"}
  BY DEF Unstarted, Ended, Moving, DrvType
<1>3. /\ Untouched(s, d) => Untouched(t, e)
      /\ Progress(s, d) => Progress(t, e)
      /\ Total(s, d) => Total(t, e)
  BY SameProgress
<1>4. Ended(e) => IF HasData(e.mrq) THEN Progress(t, e) /\ Total(t, e) ELSE Untouched(t, e)
  BY <1>1, <1>2, <1>3 DEF Agreed
<1>5. Unstarted(e) => Untouched(t, e) /\ e.buf = << >> /\ e.sent = 0 /\ e.sg = e.mrq.sg /\ ~e.error
  BY <1>1, <1>2, <1>3 DEF Agreed
<1>6. e.mrq \in Requests /\ (Unstarted(e) \/ Moving(e) \/ Ended(e))
  BY <1>1, <1>2 DEF Agreed
<1>7. e.pc # "idle" /\ e.pc # "command"
  OBVIOUS
<1> QED
  BY <1>1, <1>2, <1>4, <1>5, <1>6, <1>7 DEF Agreed

\* A command that starts the data.
LEMMA DataCommand ==
  ASSUME NEW s \in SdType, NEW t \in SdType, NEW d \in DrvType, NEW e \in DrvType,
         Agreed(s, d), d.pc = "command", d.cmd = "cmd", HasData(d.mrq),
         t = sdcard_handle_cmd(s, d.mrq.op),
         SameData(d, e), e.pc = "piece", e.cmd = "cmd", e.sg = d.sg,
         e.left = d.mrq.blocks - 1, e.blksize = 4 * BlockWords
  PROVE  Agreed(t, e)
<1> DEFINE r == d.mrq
<1>1. /\ e.mrq = r /\ e.buf = d.buf /\ e.sent = d.sent /\ e.error = d.error
      /\ e.before = d.before /\ e.nr = d.nr
  BY DEF SameData
<1>2. Unstarted(d) /\ Moving(e) /\ ~Unstarted(e) /\ ~Ended(e)
  BY <1>1 DEF Unstarted, Ended, Moving
<1>3. /\ r \in Requests /\ s.base[SDARG] = r.blk /\ s.base[SDARG] \in Nat
      /\ Untouched(s, d) /\ d.buf = << >> /\ d.sent = 0 /\ d.sg = r.sg /\ ~d.error
  BY <1>2 DEF Agreed
<1>4. /\ r.op \in Names /\ r.blk \in Nat /\ r.blocks \in Nat /\ r.blocks > 0
      /\ r.op = "SEND_EXT_CSD" => r.blocks = 1 /\ r.sg = <<4 * BlockWords>>
      /\ r.blk * BlockWords \in Nat
  BY <1>3, RequestType
<1>5. /\ t.base[SDARG] = s.base[SDARG] /\ t.img = s.img /\ t.fp = s.fp
      /\ r.op \in {"READ_MULTIPLE_BLOCK", "WRITE_MULTIPLE_BLOCK"} =>
           /\ t.read_ext_csd = s.read_ext_csd
           /\ t.write_cmd <=> r.op = "WRITE_MULTIPLE_BLOCK"
           /\ s.fp => t.pos = s.base[SDARG] * BlockWords
      /\ r.op = "SEND_EXT_CSD" => t.read_ext_csd /\ t.addr = 0
  <2> DEFINE o == r.op
             u == sdcard_handle_cmd(s, o)
  <2>1. o \in Names /\ s.base[SDARG] \in Nat
    BY <1>3, <1>4
  <2> HIDE DEF o, r
  <2>2. /\ u.base[SDARG] = s.base[SDARG] /\ u.img = s.img /\ u.fp = s.fp
        /\ o \in {"READ_MULTIPLE_BLOCK", "WRITE_MULTIPLE_BLOCK"} =>
             /\ u.read_ext_csd = s.read_ext_csd
             /\ u.write_cmd <=> o = "WRITE_MULTIPLE_BLOCK"
             /\ s.fp => u.pos = s.base[SDARG] * BlockWords
        /\ o = "SEND_EXT_CSD" => u.read_ext_csd /\ u.addr = 0
    BY <2>1, CommandDone
  <2> QED
    BY <2>2 DEF o, r
<1>6. /\ t.img = e.before /\ Len(t.img) \in Nat /\ Len(e.buf) = 0 /\ First(e) \in Nat
      /\ First(e) = r.blk * BlockWords
  <2>1. s.img \in Seq(Word) /\ s.img = d.before
    BY <1>3 DEF SdType, Untouched
  <2>2. First(e) = r.blk * BlockWords
    BY <1>1 DEF First
  <2>3. Len(e.buf) = 0
    BY <1>1, <1>3
  <2> QED
    BY <1>1, <1>4, <1>5, <2>1, <2>2, <2>3
<1>7. ReadSoFar(t, e) \/ r.op # "READ_MULTIPLE_BLOCK"
  BY <1>1, <1>3, <1>5, <1>6 DEF ReadSoFar, Untouched
<1>8. WrittenSoFar(t, e) \/ r.op # "WRITE_MULTIPLE_BLOCK"
  <2> SUFFICES ASSUME r.op = "WRITE_MULTIPLE_BLOCK"
               PROVE  WrittenSoFar(t, e)
    OBVIOUS
  <2>1. ~t.read_ext_csd /\ t.write_cmd /\ (t.fp => t.pos = First(e)) /\ e.sent = 0
    BY <1>1, <1>3, <1>5, <1>6 DEF Untouched
  <2> QED
    BY <1>6, <2>1 DEF WrittenSoFar
<1>9. ExtSoFar(t, e) \/ r.op # "SEND_EXT_CSD"
  <2> SUFFICES ASSUME r.op = "SEND_EXT_CSD"
               PROVE  ExtSoFar(t, e)
    OBVIOUS
  <2>1. t.read_ext_csd /\ t.addr = 0 /\ ~e.error
    BY <1>1, <1>3, <1>5
  <2> QED
    BY <1>6, <2>1, BlockWordsAssumption DEF ExtSoFar
<1>10. Progress(t, e)
  BY <1>1, <1>7, <1>8, <1>9 DEF Progress
<1>11. Budget(t, e)
  <2>1. Rest(e) = BlockWords
    BY QuarterOf, BlockWordsAssumption DEF Rest
  <2>2. (e.mrq.blocks - e.left) * BlockWords - Rest(e) = 0
    BY <1>1, <1>4, <2>1, BlockWordsAssumption
  <2>3. r.op = "WRITE_MULTIPLE_BLOCK" /\ t.fp => t.pos - First(e) = 0
    BY <1>3, <1>5, <1>6
  <2>4. e.left < e.mrq.blocks /\ (\E q \in 0 .. BlockWords : e.blksize = 4 * q)
    BY <1>1, <1>4, BlockWordsAssumption
  <2>5. e.mrq.op = "SEND_EXT_CSD" =>
          e.left = 0 /\ e.pc = "piece" /\ e.buf = << >> /\ e.sg = e.mrq.sg
    BY <1>1, <1>3, <1>4
  <2> QED
    BY <1>1, <1>6, <2>2, <2>3, <2>4, <2>5 DEF Budget, Share
<1> QED
  BY <1>1, <1>2, <1>3, <1>5, <1>10, <1>11 DEF Agreed

\* The response: the next command, or the end.
LEMMA Responded ==
  ASSUME NEW s \in SdType, NEW d \in DrvType, NEW e \in DrvType,
         Agreed(s, d), d.pc = "response", SameData(d, e), e.sg = d.sg,
         \/ d.cmd = "sbc" /\ e.cmd = "cmd" /\ e.pc = "arg"
         \/ d.cmd # "sbc" /\ e.cmd = "stop" /\ e.pc = "arg"
         \/ d.cmd # "sbc" /\ e.pc = "done"
  PROVE  Agreed(s, e)
<1>1. e.mrq = d.mrq /\ e.buf = d.buf /\ e.sent = d.sent /\ e.error = d.error
  BY DEF SameData
<1>2. /\ d.cmd = "sbc" => Unstarted(d) /\ Unstarted(e) /\ ~Ended(e) /\ ~Moving(e)
      /\ d.cmd # "sbc" => ~Unstarted(e) /\ Ended(d) /\ Ended(e) /\ ~Moving(e)
  BY DEF Unstarted, Ended, Moving, DrvType
<1>3. /\ Untouched(s, d) => Untouched(s, e)
      /\ Progress(s, d) => Progress(s, e)
      /\ Total(s, d) => Total(s, e)
  BY SameProgress DEF SameCard
<1>4. Ended(e) => IF HasData(e.mrq) THEN Progress(s, e) /\ Total(s, e) ELSE Untouched(s, e)
  BY <1>1, <1>2, <1>3 DEF Agreed
<1>5. Unstarted(e) => Untouched(s, e) /\ e.buf = << >> /\ e.sent = 0 /\ e.sg = e.mrq.sg /\ ~e.error
  BY <1>1, <1>2, <1>3 DEF Agreed
<1>6. e.mrq \in Requests /\ (Unstarted(e) \/ Moving(e) \/ Ended(e))
  BY <1>1, <1>2 DEF Agreed
<1>7. e.pc # "idle" /\ e.pc # "command" /\ s.base[SDARG] \in Nat
  BY DEF Agreed
<1> QED
  BY <1>1, <1>2, <1>4, <1>5, <1>6, <1>7 DEF Agreed

\* One more block.
LEMMA Products ==
  ASSUME NEW a \in Int, NEW b \in Nat
  PROVE  a * b \in Int /\ (a + 1) * b = a * b + b
OBVIOUS

\* While data moves: the request, and the numbers of the invariant.
LEMMA MovingFacts ==
  ASSUME NEW s \in SdType, NEW d \in DrvType, Agreed(s, d), d.pc \in {"piece", "word"}
  PROVE  /\ Moving(d) /\ d.cmd = "cmd" /\ HasData(d.mrq) /\ d.mrq \in Requests
         /\ ~Unstarted(d) /\ ~Ended(d)
         /\ Progress(s, d) /\ Budget(s, d)
         /\ d.mrq.blocks \in Nat /\ First(d) \in Nat /\ d.left \in Nat
         /\ Len(d.buf) \in Nat /\ s.pos \in Nat /\ Len(s.img) \in Nat
         /\ Len(d.before) \in Nat /\ d.sent \in Nat
         /\ s.base[SDARG] \in Nat
<1>1. /\ Moving(d) /\ d.cmd = "cmd" /\ HasData(d.mrq) /\ d.mrq \in Requests
      /\ ~Unstarted(d) /\ ~Ended(d) /\ s.base[SDARG] \in Nat
  BY DEF Agreed, Moving, Unstarted, Ended
<1>2. d.mrq.blocks \in Nat /\ d.mrq.blk * BlockWords \in Nat
  BY <1>1, RequestType
<1>3. /\ d.left \in Nat /\ Len(d.buf) \in Nat /\ s.pos \in Nat /\ Len(s.img) \in Nat
      /\ Len(d.before) \in Nat /\ d.sent \in Nat
  <2>1. d.left \in Nat /\ d.sent \in Nat /\ s.pos \in Nat
    BY DEF DrvType, SdType
  <2>2. d.buf \in Seq(RegVal) /\ d.before \in Seq(Word) /\ s.img \in Seq(Word)
    BY DEF DrvType, SdType
  <2> QED
    BY <2>1, <2>2
<1> QED
  BY <1>1, <1>2, <1>3 DEF Agreed, First

\* The end of a block: its bytes are moved, or its memory is unusable.
LEMMA BlockEnd ==
  ASSUME NEW s \in SdType, NEW d \in DrvType, NEW e \in DrvType,
         Agreed(s, d), d.pc = "piece",
         e.mrq = d.mrq, e.nr = d.nr, e.buf = d.buf, e.before = d.before, e.cmd = d.cmd,
         \/ e.error = d.error /\ e.sent = d.sent /\ d.blksize = 0
         \/ e.error /\ d.mrq.op # "SEND_EXT_CSD",
         IF d.left = 0 THEN e.pc = "response"
         ELSE e.pc = "piece" /\ e.left = d.left - 1 /\ e.blksize = 4 * BlockWords
  PROVE  Agreed(s, e)
<1> DEFINE B == d.mrq.blocks
           k == d.left
           m == (B - k) * BlockWords
           R == Rest(d)
           n == m - R
<1>1. /\ Progress(s, d) /\ Budget(s, d) /\ HasData(d.mrq) /\ d.mrq \in Requests
      /\ First(d) \in Nat /\ s.base[SDARG] \in Nat /\ d.cmd = "cmd"
  BY MovingFacts
<1>2. /\ B \in Nat /\ k \in Nat /\ Len(d.buf) \in Nat /\ s.pos - First(d) \in Int
  BY MovingFacts
<1>3. First(e) = First(d) /\ HasData(e.mrq) /\ e.mrq \in Requests /\ e.mrq.blocks = B
  BY <1>1 DEF First
<1>4. /\ k < B /\ BlockWords \in Nat /\ BlockWords > 0 /\ R \in Nat /\ m \in Int /\ n \in Int
      /\ d.blksize = 0 => R = 0
  <2>1. PICK q \in 0 .. BlockWords : d.blksize = 4 * q
    BY <1>1 DEF Budget
  <2>2. Rest(d) = q /\ q \in Nat
    BY <2>1, BlockWordsAssumption, QuarterOf DEF Rest
  <2>3. d.blksize = 0 => q = 0
    BY <2>1, <2>2
  <2>4. k < B
    BY <1>1 DEF Budget
  <2>5. m \in Int
    BY <1>2, BlockWordsAssumption, Products
  <2> HIDE DEF m
  <2> QED
    BY <2>2, <2>3, <2>4, <2>5, BlockWordsAssumption
<1>5. Progress(s, e)
  <2>1. d.mrq.op = "READ_MULTIPLE_BLOCK" => ReadSoFar(s, e)
    BY <1>1, <1>3 DEF Progress, ReadSoFar, Untouched
  <2>2. d.mrq.op = "WRITE_MULTIPLE_BLOCK" => WrittenSoFar(s, e)
    <3>1. CASE e.error = d.error /\ e.sent = d.sent
      BY <1>1, <1>3, <3>1 DEF Progress, WrittenSoFar
    <3>2. CASE e.error
      BY <1>1, <1>3, <3>2 DEF Progress, WrittenSoFar
    <3> QED
      BY <3>1, <3>2
  <2>3. d.mrq.op = "SEND_EXT_CSD" => ExtSoFar(s, e)
    BY <1>1, <1>3 DEF Progress, ExtSoFar
  <2> QED
    BY <2>1, <2>2, <2>3 DEF Progress
\* The budget of the block is used up, or missed with an error.
<1>6. \A moved \in Int : Share(d, moved, n) => Share(e, moved, m)
  <2> HIDE DEF m, R
  <2>1. CASE e.error = d.error /\ d.blksize = 0
    <3>1. n = m
      BY <1>4, <2>1
    <3> QED
      BY <2>1, <3>1 DEF Share
  <2>2. CASE e.error
    <3>1. \A moved \in Int : moved <= n => moved <= m
      BY <1>4
    <3> QED
      BY <2>2, <3>1 DEF Share
  <2> QED
    BY <2>1, <2>2
<1>7. /\ d.mrq.op = "READ_MULTIPLE_BLOCK" => Share(e, Len(d.buf), m)
      /\ d.mrq.op = "WRITE_MULTIPLE_BLOCK" /\ s.fp => Share(e, s.pos - First(d), m)
  BY <1>1, <1>2, <1>6 DEF Budget
<1>8. d.mrq.op = "SEND_EXT_CSD" => k = 0 /\ Len(d.buf) = BlockWords
  <2> SUFFICES ASSUME d.mrq.op = "SEND_EXT_CSD"
               PROVE  k = 0 /\ Len(d.buf) = BlockWords
    OBVIOUS
  <2>1. d.blksize = 0 /\ k = 0
    BY <1>1 DEF Budget
  <2>2. d.blksize # 4 * BlockWords
    BY <1>4, <2>1
  <2>3. R = BlockWords - Len(d.buf)
    BY <1>1, <2>2 DEF Budget
  <2> HIDE DEF R
  <2> QED
    BY <1>2, <1>4, <2>1, <2>3
<1>9. CASE k = 0
  <2>1. e.pc = "response" /\ ~Unstarted(e) /\ ~Moving(e) /\ Ended(e)
    BY <1>1, <1>9 DEF Unstarted, Moving, Ended
  <2>2. B - k = B
    BY <1>2, <1>9
  <2>3. m = B * BlockWords
    BY <2>2
  <2>4. Total(s, e)
    BY <1>3, <1>7, <1>8, <2>3 DEF Total
  <2> QED
    BY <1>1, <1>3, <1>5, <2>1, <2>4 DEF Agreed
<1>10. CASE k # 0
  <2>1. /\ e.pc = "piece" /\ ~Unstarted(e) /\ Moving(e) /\ ~Ended(e)
        /\ e.left = k - 1 /\ e.blksize = 4 * BlockWords
    BY <1>1, <1>3, <1>10 DEF Unstarted, Moving, Ended
  <2>2. Rest(e) = BlockWords
    BY <2>1, QuarterOf, BlockWordsAssumption DEF Rest
  <2>3. (e.mrq.blocks - e.left) * BlockWords - Rest(e) = m
    <3> DEFINE c == B - k
    <3>1. c \in Int /\ e.mrq.blocks - e.left = c + 1
      BY <1>2, <1>3, <2>1
    <3> HIDE DEF c
    <3>2. (c + 1) * BlockWords = c * BlockWords + BlockWords /\ c * BlockWords \in Int
      BY <1>4, <3>1, Products
    <3> DEFINE u == (c + 1) * BlockWords
               v == c * BlockWords
    <3>3. u = v + BlockWords /\ v \in Int
      BY <3>2
    <3> HIDE DEF u, v
    <3>4. u - Rest(e) = v
      BY <1>4, <2>2, <3>3
    <3>5. (e.mrq.blocks - e.left) * BlockWords = u
      BY <3>1 DEF u
    <3> QED
      BY <3>4, <3>5 DEF v, c
  <2>4. e.left < B
    BY <1>2, <1>4, <2>1
  <2>5. \E q \in 0 .. BlockWords : e.blksize = 4 * q
    BY <1>4, <2>1
  <2>6. Budget(s, e)
    BY <1>3, <1>7, <1>8, <1>10, <2>1, <2>3, <2>4, <2>5 DEF Budget
  <2> QED
    BY <1>1, <1>3, <1>5, <2>1, <2>6 DEF Agreed
<1> QED
  BY <1>9, <1>10

\* A piece of memory is taken for p bytes of the block.
LEMMA PieceTaken ==
  ASSUME NEW s \in SdType, NEW d \in DrvType, NEW e \in DrvType, NEW p \in Nat,
         Agreed(s, d), d.pc = "piece", p > 0, p <= d.blksize, p % 4 = 0,
         d.mrq.op = "SEND_EXT_CSD" => p = 4 * BlockWords,
         SameData(d, e), e.pc = "word", e.cmd = d.cmd, e.left = d.left,
         e.words = p \div 4, e.blksize = d.blksize - p
  PROVE  Agreed(s, e)
<1>1. /\ Progress(s, d) /\ Budget(s, d) /\ HasData(d.mrq) /\ d.mrq \in Requests
      /\ s.base[SDARG] \in Nat /\ d.cmd = "cmd"
  BY MovingFacts
<1>2. /\ e.mrq = d.mrq /\ e.buf = d.buf /\ e.error = d.error
      /\ First(e) = First(d)
  BY DEF SameData, First
<1>3. /\ ~Unstarted(e) /\ Moving(e) /\ ~Ended(e)
  BY <1>1, <1>2 DEF Unstarted, Moving, Ended
<1>4. Progress(s, e)
  BY <1>1, SameProgress DEF SameCard
<1>5. PICK q \in 0 .. BlockWords : d.blksize = 4 * q
  BY <1>1 DEF Budget
<1>6. PICK h \in Nat : p = 4 * h /\ h > 0 /\ h <= q
  <2>1. q \in Nat /\ p \div 4 \in Nat /\ p = 4 * (p \div 4)
    BY <1>5, BlockWordsAssumption
  <2>2. p \div 4 > 0 /\ p \div 4 <= q
    BY <1>5, <2>1
  <2> QED
    BY <2>1, <2>2
<1>7. /\ Rest(d) = q /\ Rest(e) = q /\ e.words = h /\ e.blksize = 4 * (q - h)
      /\ q - h \in 0 .. BlockWords /\ q \in Nat
  BY <1>5, <1>6, BlockWordsAssumption DEF Rest
<1>8. d.mrq.op = "SEND_EXT_CSD" =>
        e.blksize = 0 /\ Rest(e) = BlockWords - Len(e.buf)
  <2> SUFFICES ASSUME d.mrq.op = "SEND_EXT_CSD"
               PROVE  e.blksize = 0 /\ Rest(e) = BlockWords - Len(e.buf)
    OBVIOUS
  <2>1. h = BlockWords /\ q = BlockWords /\ d.blksize # 0
    BY <1>5, <1>6, BlockWordsAssumption
  <2>2. d.buf = << >>
    BY <1>1, <2>1 DEF Budget
  <2> QED
    BY <1>2, <1>7, <2>1, <2>2, BlockWordsAssumption
<1>9. Budget(s, e)
  <2>1. \A x, y \in Int : Share(d, x, y) => Share(e, x, y)
    BY <1>2 DEF Share
  <2>2. d.mrq.op = "SEND_EXT_CSD" => e.left = 0
    BY <1>1 DEF Budget
  <2>3. \E r \in 0 .. BlockWords : e.blksize = 4 * r
    BY <1>7
  <2>4. e.words > 0 /\ e.left < e.mrq.blocks
    BY <1>1, <1>2, <1>6, <1>7 DEF Budget
  <2>5. /\ d.mrq.op = "READ_MULTIPLE_BLOCK" =>
             Share(d, Len(d.buf), (d.mrq.blocks - d.left) * BlockWords - Rest(d))
        /\ d.mrq.op = "WRITE_MULTIPLE_BLOCK" /\ s.fp =>
             Share(d, s.pos - First(d), (d.mrq.blocks - d.left) * BlockWords - Rest(d))
    BY <1>1 DEF Budget
  <2>6. Rest(e) = Rest(d)
    BY <1>7
  <2>7. /\ e.mrq.op = "READ_MULTIPLE_BLOCK" =>
             Share(e, Len(e.buf), (e.mrq.blocks - e.left) * BlockWords - Rest(e))
        /\ e.mrq.op = "WRITE_MULTIPLE_BLOCK" /\ s.fp =>
             Share(e, s.pos - First(e), (e.mrq.blocks - e.left) * BlockWords - Rest(e))
    BY <1>2, <2>5, <2>6 DEF Share
  <2> QED
    BY <1>2, <1>8, <2>2, <2>3, <2>4, <2>7 DEF Budget
<1> QED
  BY <1>1, <1>2, <1>3, <1>4, <1>9 DEF Agreed

\* One word less of the piece: its share of the block becomes one more moved.
LEMMA WordsLeft ==
  ASSUME NEW s \in SdType, NEW t \in SdType, NEW d \in DrvType, NEW e \in DrvType,
         Agreed(s, d), d.pc = "word", t.base[SDARG] = s.base[SDARG], t.fp = s.fp,
         e.mrq = d.mrq, e.error = d.error, e.cmd = d.cmd, e.left = d.left, e.blksize = d.blksize,
         e.words = d.words - 1, e.pc = IF d.words = 1 THEN "piece" ELSE "word",
         Progress(t, e),
         d.mrq.op # "WRITE_MULTIPLE_BLOCK" => Len(e.buf) = Len(d.buf) + 1,
         d.mrq.op = "WRITE_MULTIPLE_BLOCK" /\ t.fp => t.pos = s.pos + 1
  PROVE  Agreed(t, e)
<1>1. /\ Budget(s, d) /\ HasData(d.mrq) /\ d.mrq \in Requests
      /\ s.base[SDARG] \in Nat /\ d.cmd = "cmd"
  BY MovingFacts
<1>2. First(e) = First(d) /\ First(d) \in Nat /\ d.mrq.blocks \in Nat /\ d.left \in Nat
      /\ Len(d.buf) \in Nat /\ s.pos \in Nat
  BY MovingFacts DEF First
<1>3. /\ ~Unstarted(e) /\ Moving(e) /\ ~Ended(e)
  BY <1>1, <1>2 DEF Unstarted, Moving, Ended
<1>4. PICK q \in 0 .. BlockWords : d.blksize = 4 * q
  BY <1>1 DEF Budget
<1>5. d.words \in Nat /\ d.words > 0
  BY <1>1 DEF Budget, DrvType
<1>6. Rest(d) = q + d.words /\ Rest(e) = q + d.words - 1 /\ q \in Nat
  BY <1>4, <1>5, BlockWordsAssumption DEF Rest
<1> DEFINE m == (d.mrq.blocks - d.left) * BlockWords
<1>7. m \in Int
  BY <1>2, BlockWordsAssumption, Products
<1>8. (e.mrq.blocks - e.left) * BlockWords = m
  OBVIOUS
<1>9. m - Rest(e) = (m - Rest(d)) + 1 /\ m - Rest(d) \in Int
  <2> HIDE DEF m
  <2> QED
    BY <1>5, <1>6, <1>7
<1>10. \A x \in Int : Share(d, x, m - Rest(d)) => Share(e, x + 1, m - Rest(e))
  <2> DEFINE u == m - Rest(d)
             v == m - Rest(e)
  <2>1. u \in Int /\ v = u + 1
    BY <1>9
  <2> HIDE DEF u, v
  <2>2. \A x \in Int : Share(d, x, u) => Share(e, x + 1, v)
    BY <2>1 DEF Share
  <2> QED
    BY <2>2 DEF u, v
<1>11. /\ d.mrq.op = "READ_MULTIPLE_BLOCK" => Share(d, Len(d.buf), m - Rest(d))
       /\ d.mrq.op = "WRITE_MULTIPLE_BLOCK" /\ s.fp => Share(d, s.pos - First(d), m - Rest(d))
  BY <1>1 DEF Budget
<1>12. /\ d.mrq.op = "READ_MULTIPLE_BLOCK" => Share(e, Len(e.buf), m - Rest(e))
       /\ d.mrq.op = "WRITE_MULTIPLE_BLOCK" /\ t.fp => Share(e, t.pos - First(e), m - Rest(e))
  <2> HIDE DEF m
  <2>1. ASSUME d.mrq.op = "READ_MULTIPLE_BLOCK"
        PROVE  Share(e, Len(e.buf), m - Rest(e))
    BY <1>2, <1>10, <1>11, <2>1
  <2>2. ASSUME d.mrq.op = "WRITE_MULTIPLE_BLOCK", t.fp
        PROVE  Share(e, t.pos - First(e), m - Rest(e))
    <3>1. t.pos - First(e) = (s.pos - First(d)) + 1 /\ s.pos - First(d) \in Int
      BY <1>2, <2>2
    <3> QED
      BY <1>10, <1>11, <2>2, <3>1
  <2> QED
    BY <2>1, <2>2
<1>13. d.mrq.op = "SEND_EXT_CSD" =>
         e.left = 0 /\ e.blksize = 0 /\ Rest(e) = BlockWords - Len(e.buf)
  <2> SUFFICES ASSUME d.mrq.op = "SEND_EXT_CSD"
               PROVE  e.left = 0 /\ e.blksize = 0 /\ Rest(e) = BlockWords - Len(e.buf)
    OBVIOUS
  <2>1. d.left = 0 /\ d.blksize = 0 /\ Rest(d) = BlockWords - Len(d.buf)
    BY <1>1 DEF Budget
  <2>2. Len(e.buf) = Len(d.buf) + 1
    OBVIOUS
  <2>3. Rest(e) = Rest(d) - 1
    BY <1>5, <1>6
  <2>4. Rest(e) = BlockWords - Len(e.buf)
    BY <1>2, <2>1, <2>2, <2>3, BlockWordsAssumption
  <2> QED
    BY <2>1, <2>4
<1>14. Budget(t, e)
  <2>1. e.left < e.mrq.blocks /\ \E r \in 0 .. BlockWords : e.blksize = 4 * r
    BY <1>1, <1>4 DEF Budget
  <2>2. e.pc = "word" => e.words > 0
    BY <1>5
  <2> QED
    BY <1>8, <1>12, <1>13, <2>1, <2>2 DEF Budget
<1> QED
  BY <1>1, <1>3, <1>14 DEF Agreed

\* What a word appended to the buffer leaves of it.
LEMMA Appended ==
  ASSUME NEW b \in Seq(RegVal), NEW v \in RegVal
  PROVE  /\ Append(b, v) \in Seq(RegVal) /\ Len(Append(b, v)) = Len(b) + 1
         /\ Append(b, v)[Len(b) + 1] = v
         /\ \A i \in 1 .. Len(b) : Append(b, v)[i] = b[i]
OBVIOUS

\* A word of the image, or nothing at the end of it or without an image.
LEMMA ImageWordRead ==
  ASSUME NEW s \in SdType, NEW d \in DrvType, NEW e \in DrvType,
         Agreed(s, d), d.pc = "word", d.mrq.op = "READ_MULTIPLE_BLOCK",
         e.buf = Append(d.buf, sdcard_data(s).base[SDDATA]),
         e.mrq = d.mrq, e.before = d.before
  PROVE  /\ sdcard_data(s) \in SdType /\ sdcard_data(s).base[SDARG] = s.base[SDARG]
         /\ sdcard_data(s).fp = s.fp
         /\ ReadSoFar(sdcard_data(s), e)
<1> DEFINE t == sdcard_data(s)
           v == t.base[SDDATA]
           n == Len(d.buf)
           F == First(d)
<1>a. ~s.read_ext_csd /\ s.fp /\ ~s.write_cmd =>
         /\ t \in SdType
         /\ t.base[SDARG] = s.base[SDARG] /\ t.img = s.img
         /\ t.fp /\ ~t.write_cmd /\ ~t.read_ext_csd
         /\ s.pos >= Len(s.img) => t.pos = s.pos
         /\ s.pos < Len(s.img) => t.pos = s.pos + 1 /\ v = s.img[s.pos + 1]
  BY ImageRead
<1>b. ~s.read_ext_csd /\ ~s.fp =>
         /\ t \in SdType /\ t.base = s.base /\ t.img = s.img
         /\ t.fp = s.fp /\ t.write_cmd = s.write_cmd /\ ~t.read_ext_csd
  BY NoImage
<1>c. t \in SdType => v \in RegVal
  BY DEF SdType, SDDATA
<1> HIDE DEF t, v
<1>1. /\ ReadSoFar(s, d) /\ F \in Nat /\ s.pos \in Nat /\ Len(s.img) \in Nat /\ n \in Nat
      /\ d.buf \in Seq(RegVal)
  BY MovingFacts DEF Progress, DrvType
<1>2. s.img = d.before /\ ~s.read_ext_csd /\ ~s.write_cmd
  BY <1>1 DEF ReadSoFar, Untouched
<1>3. t \in SdType /\ t.base[SDARG] = s.base[SDARG] /\ t.fp = s.fp /\ t.img = s.img
      /\ ~t.write_cmd /\ ~t.read_ext_csd
  <2>1. CASE s.fp
    BY <1>a, <1>2, <2>1 DEF SdType
  <2>2. CASE ~s.fp
    BY <1>b, <1>2, <2>2
  <2> QED
    BY <2>1, <2>2
<1>4. e.buf = Append(d.buf, v) /\ v \in RegVal
  BY <1>c, <1>3 DEF t, v
<1>5. Len(e.buf) = n + 1 /\ e.buf[n + 1] = v /\ \A i \in 1 .. n : e.buf[i] = d.buf[i]
  BY <1>1, <1>4, Appended
<1>6. First(e) = F /\ Untouched(t, e)
  BY <1>2, <1>3 DEF First, Untouched
<1>7. ASSUME s.fp
      PROVE  /\ t.pos < Len(t.img) => t.pos = F + Len(e.buf)
             /\ t.pos >= Len(t.img) => F + Len(e.buf) >= Len(t.img)
             /\ \A i \in 1 .. Len(e.buf) : F + i <= Len(t.img) => e.buf[i] = t.img[F + i]
  <2> DEFINE p == s.pos
             l == Len(s.img)
  <2>1. /\ p < l => p = F + n
        /\ p >= l => F + n >= l
        /\ \A i \in 1 .. n : F + i <= l => d.buf[i] = s.img[F + i]
    BY <1>1, <1>7 DEF ReadSoFar
  <2>2. p >= l => t.pos = p
    BY <1>a, <1>2, <1>7
  <2>3. p < l => t.pos = p + 1 /\ v = s.img[p + 1]
    BY <1>a, <1>2, <1>7
  <2>4. Len(t.img) = l /\ t.img = s.img /\ p \in Nat /\ l \in Nat
    BY <1>1, <1>3
  <2> HIDE DEF p, l, n, F
  <2>5. CASE p >= l
    <3>1. F + n >= l /\ t.pos = p /\ F \in Nat /\ n \in Nat
      BY <1>1, <2>1, <2>2, <2>5
    <3>2. \A i \in 1 .. n + 1 : F + i <= l => i \in 1 .. n
      BY <2>4, <3>1
    <3>3. \A i \in 1 .. n + 1 : F + i <= l => e.buf[i] = s.img[F + i]
      BY <1>5, <2>1, <3>2
    <3>4. F + Len(e.buf) >= l /\ ~(t.pos < l)
      BY <1>5, <2>4, <2>5, <3>1
    <3> QED
      BY <1>5, <2>4, <3>3, <3>4
  <2>6. CASE p < l
    <3>1. p = F + n /\ t.pos = F + (n + 1) /\ v = s.img[F + (n + 1)] /\ F \in Nat /\ n \in Nat
      BY <1>1, <2>1, <2>3, <2>4, <2>6
    <3>2. \A i \in 1 .. n + 1 : i = n + 1 \/ i \in 1 .. n
      BY <3>1
    <3>3. \A i \in 1 .. n + 1 : F + i <= l => e.buf[i] = s.img[F + i]
      BY <1>5, <2>1, <3>1, <3>2
    <3>4. t.pos = F + Len(e.buf)
      BY <1>5, <3>1
    <3> QED
      BY <1>5, <2>4, <3>1, <3>3, <3>4
  <2> QED
    BY <2>4, <2>5, <2>6
<1>8. ReadSoFar(t, e)
  BY <1>3, <1>6, <1>7 DEF ReadSoFar
<1> QED
  BY <1>3, <1>8 DEF t

\* A word of the EXT_CSD.
LEMMA ExtWordRead ==
  ASSUME NEW s \in SdType, NEW d \in DrvType, NEW e \in DrvType,
         Agreed(s, d), d.pc = "word", d.mrq.op = "SEND_EXT_CSD",
         e.buf = Append(d.buf, sdcard_data(s).base[SDDATA]),
         e.mrq = d.mrq, e.before = d.before, e.error = d.error
  PROVE  /\ sdcard_data(s) \in SdType /\ sdcard_data(s).base[SDARG] = s.base[SDARG]
         /\ ExtSoFar(sdcard_data(s), e)
<1> DEFINE t == sdcard_data(s)
           v == t.base[SDDATA]
           n == Len(d.buf)
<1>a. s.read_ext_csd =>
        /\ t \in SdType /\ t.base[SDARG] = s.base[SDARG]
        /\ v = ExtCsd(s.addr) /\ t.addr = s.addr + 1 /\ t.img = s.img
        /\ t.read_ext_csd <=> s.addr # BlockWords - 1
  BY ExtWord
<1>b. t \in SdType => v \in RegVal
  BY DEF SdType, SDDATA
<1> HIDE DEF t, v
<1>1. ExtSoFar(s, d) /\ Budget(s, d) /\ n \in Nat /\ d.buf \in Seq(RegVal)
  BY MovingFacts DEF Progress, DrvType
<1>2. d.blksize = 0 /\ Rest(d) = BlockWords - n /\ d.words \in Nat /\ d.words > 0
  BY <1>1 DEF Budget, DrvType
<1>3. n < BlockWords
  <2>1. Rest(d) = d.words
    BY <1>2 DEF Rest
  <2> QED
    BY <1>1, <1>2, <2>1, BlockWordsAssumption
<1>4. /\ s.read_ext_csd /\ s.addr = n /\ s.img = d.before /\ ~d.error
      /\ \A i \in 1 .. n : d.buf[i] = ExtCsd(i - 1)
  BY <1>1, <1>3 DEF ExtSoFar
<1>5. /\ t \in SdType /\ t.base[SDARG] = s.base[SDARG] /\ v = ExtCsd(n)
      /\ t.addr = n + 1 /\ t.img = e.before /\ (t.read_ext_csd <=> n # BlockWords - 1)
  BY <1>a, <1>4
<1>6. e.buf = Append(d.buf, v) /\ v \in RegVal
  BY <1>b, <1>5 DEF t, v
<1>7. Len(e.buf) = n + 1 /\ e.buf[n + 1] = v /\ \A i \in 1 .. n : e.buf[i] = d.buf[i]
  BY <1>1, <1>6, Appended
<1> HIDE DEF n
<1>8. \A i \in 1 .. n + 1 : e.buf[i] = ExtCsd(i - 1)
  <2>1. \A i \in 1 .. n + 1 : i = n + 1 \/ i \in 1 .. n
    BY <1>1
  <2>2. (n + 1) - 1 = n
    BY <1>1
  <2> QED
    BY <1>4, <1>5, <1>7, <2>1, <2>2
<1>9. n + 1 <= BlockWords /\ (n # BlockWords - 1 <=> n + 1 < BlockWords)
  BY <1>1, <1>3, BlockWordsAssumption
<1>10. ExtSoFar(t, e)
  BY <1>4, <1>5, <1>7, <1>8, <1>9 DEF ExtSoFar
<1> QED
  BY <1>5, <1>10 DEF t

\* A word into the image.
LEMMA WordWritten ==
  ASSUME NEW s \in SdType, NEW d \in DrvType, NEW e \in DrvType,
         Agreed(s, d), d.pc = "word", d.mrq.op = "WRITE_MULTIPLE_BLOCK",
         s.base[SDDATA] = <<d.nr, d.sent + 1>>,
         e.sent = d.sent + 1, e.nr = d.nr,
         e.mrq = d.mrq, e.before = d.before, e.error = d.error
  PROVE  /\ sdcard_data(s) \in SdType /\ sdcard_data(s).base[SDARG] = s.base[SDARG]
         /\ sdcard_data(s).fp = s.fp /\ (s.fp => sdcard_data(s).pos = s.pos + 1)
         /\ WrittenSoFar(sdcard_data(s), e)
<1> DEFINE t == sdcard_data(s)
           p == s.pos
           l == Len(s.img)
           F == First(d)
           L == Len(t.img)
<1>1. /\ WrittenSoFar(s, d) /\ F \in Nat /\ p \in Nat /\ l \in Nat /\ Len(d.before) \in Nat
      /\ d.sent \in Nat /\ d.nr \in Nat
  BY MovingFacts DEF Progress, DrvType
<1>0. s.base[SDDATA] \in Word
  BY <1>1 DEF Word
<1>a. ~s.read_ext_csd /\ s.fp /\ s.write_cmd =>
        /\ t \in SdType /\ t.base = s.base /\ t.pos = p + 1
        /\ t.fp /\ t.write_cmd /\ ~t.read_ext_csd
        /\ L = IF p < l THEN l ELSE p + 1
        /\ t.img[p + 1] = s.base[SDDATA]
        /\ \A w \in 1 .. L : w # p + 1 /\ w <= l => t.img[w] = s.img[w]
  BY <1>0, ImageWritten
<1>b. ~s.read_ext_csd /\ ~s.fp =>
         /\ t \in SdType /\ t.base = s.base /\ t.img = s.img
         /\ t.fp = s.fp /\ t.write_cmd = s.write_cmd /\ ~t.read_ext_csd
  BY NoImage
<1> HIDE DEF t, L
<1>2. ~s.read_ext_csd /\ s.write_cmd
  BY <1>1 DEF WrittenSoFar
<1>3. CASE ~s.fp
  <2>1. /\ t \in SdType /\ t.base = s.base /\ t.img = s.img /\ t.fp = s.fp /\ t.write_cmd
        /\ ~t.read_ext_csd
    BY <1>b, <1>2, <1>3
  <2>2. s.img = d.before
    BY <1>1, <1>3 DEF WrittenSoFar
  <2>3. WrittenSoFar(t, e)
    BY <1>3, <2>1, <2>2 DEF WrittenSoFar
  <2> QED
    BY <1>3, <2>1, <2>3 DEF t
<1>4. CASE s.fp
  <2>1. /\ t \in SdType /\ t.base = s.base /\ t.pos = p + 1 /\ t.fp /\ t.write_cmd
        /\ ~t.read_ext_csd
        /\ L = IF p < l THEN l ELSE p + 1
        /\ t.img[p + 1] = <<d.nr, d.sent + 1>>
        /\ \A w \in 1 .. L : w # p + 1 /\ w <= l => t.img[w] = s.img[w]
    BY <1>a, <1>2, <1>4
  <2>2. /\ p >= F /\ Len(d.before) <= l /\ (p > F => p <= l)
        /\ ~d.error => d.sent = p - F
        /\ \A w \in 1 .. l :
             IF w > F /\ w <= p
             THEN s.img[w][1] = d.nr /\ (~d.error => s.img[w] = <<d.nr, w - F>>)
             ELSE /\ w <= Len(d.before) => s.img[w] = d.before[w]
                  /\ w > F => w <= Len(d.before)
    BY <1>1, <1>4 DEF WrittenSoFar
  <2> HIDE DEF p, l, F
  <2>3. First(e) = F
    BY DEF First, F
  <2>4. /\ t.pos >= F /\ Len(e.before) <= L /\ t.pos <= L /\ L \in Nat /\ p + 1 > F
        /\ ~e.error => e.sent = t.pos - F
    BY <1>1, <2>1, <2>2
  <2>5. ASSUME NEW w \in 1 .. L
        PROVE  IF w > F /\ w <= p + 1
               THEN t.img[w][1] = e.nr /\ (~e.error => t.img[w] = <<e.nr, w - F>>)
               ELSE /\ w <= Len(e.before) => t.img[w] = e.before[w]
                    /\ w > F => w <= Len(e.before)
    <3>1. CASE w = p + 1
      <4>1. t.img[w] = <<d.nr, d.sent + 1>> /\ w > F /\ w <= p + 1
        BY <2>1, <2>4, <3>1
      <4>2. ~d.error => d.sent + 1 = w - F
        BY <1>1, <2>2, <3>1
      <4> QED
        BY <4>1, <4>2
    <3>2. CASE w # p + 1 /\ w <= l
      <4>1. t.img[w] = s.img[w] /\ w \in 1 .. l
        BY <1>1, <2>1, <2>4, <3>2
      <4>2. w <= p + 1 <=> w <= p
        BY <1>1, <2>4, <3>2
      <4>3. IF w > F /\ w <= p
            THEN s.img[w][1] = d.nr /\ (~d.error => s.img[w] = <<d.nr, w - F>>)
            ELSE /\ w <= Len(d.before) => s.img[w] = d.before[w]
                 /\ w > F => w <= Len(d.before)
        BY <2>2, <4>1
      <4> QED
        BY <4>1, <4>2, <4>3
    <3>3. CASE w # p + 1 /\ w > l
      <4>1. w <= p /\ ~(p > F) /\ w > Len(d.before)
        BY <1>1, <2>1, <2>2, <2>4, <3>3
      <4>2. ~(w > F) /\ ~(w <= Len(d.before))
        BY <1>1, <2>4, <4>1
      <4> QED
        BY <4>2
    <3> QED
      BY <1>1, <2>4, <3>1, <3>2, <3>3
  <2>6. WrittenSoFar(t, e)
    BY <1>1, <2>1, <2>3, <2>4, <2>5 DEF WrittenSoFar, L
  <2> QED
    BY <1>4, <2>1, <2>6 DEF t, p
<1> QED
  BY <1>3, <1>4

\* The driver's block and piece.
LEMMA NextBlockType ==
  ASSUME NEW d \in DrvType, d.pc = "piece"
  PROVE  /\ NextBlock(d) \in DrvType
         /\ NextBlock(d).mrq = d.mrq /\ NextBlock(d).nr = d.nr /\ NextBlock(d).buf = d.buf
         /\ NextBlock(d).before = d.before /\ NextBlock(d).cmd = d.cmd
         /\ NextBlock(d).error = d.error /\ NextBlock(d).sent = d.sent
         /\ IF d.left = 0 THEN NextBlock(d).pc = "response"
            ELSE /\ NextBlock(d).pc = "piece" /\ NextBlock(d).left = d.left - 1
                 /\ NextBlock(d).blksize = 4 * BlockWords
<1> DEFINE l == d.left - 1
           b == 4 * BlockWords
<1>1. CASE d.left = 0
  <2>1. NextBlock(d) = [d EXCEPT !.pc = "response"]
    BY <1>1 DEF NextBlock
  <2> QED
    BY <1>1, <2>1 DEF DrvType
<1>2. CASE d.left # 0
  <2>1. NextBlock(d) = [d EXCEPT !.left = l, !.blksize = b]
    BY <1>2 DEF NextBlock, DrvType
  <2>2. l \in Nat /\ b \in Nat
    BY <1>2, QuarterOf, BlockWordsAssumption DEF DrvType
  <2> HIDE DEF l, b
  <2>3. /\ NextBlock(d) \in DrvType /\ NextBlock(d).mrq = d.mrq /\ NextBlock(d).nr = d.nr
        /\ NextBlock(d).buf = d.buf /\ NextBlock(d).before = d.before
        /\ NextBlock(d).cmd = d.cmd /\ NextBlock(d).error = d.error
        /\ NextBlock(d).sent = d.sent /\ NextBlock(d).pc = "piece"
        /\ NextBlock(d).left = l /\ NextBlock(d).blksize = b
    BY <2>1, <2>2 DEF DrvType
  <2> QED
    BY <1>2, <2>3 DEF l, b
<1> QED
  BY <1>1, <1>2

Failed(d, g, n) == [d EXCEPT !.error = TRUE, !.sg = g, !.sent = n]
Taken(d, n, b, g) == [d EXCEPT !.pc = "word", !.words = n, !.blksize = b, !.sg = g]

\* A block given up.
LEMMA FailedType ==
  ASSUME NEW d \in DrvType, NEW g \in Seq(Nat \ {0}), NEW n \in Nat
  PROVE  /\ Failed(d, g, n) \in DrvType /\ Failed(d, g, n).pc = d.pc
         /\ Failed(d, g, n).mrq = d.mrq /\ Failed(d, g, n).nr = d.nr
         /\ Failed(d, g, n).buf = d.buf /\ Failed(d, g, n).before = d.before
         /\ Failed(d, g, n).cmd = d.cmd /\ Failed(d, g, n).error
         /\ Failed(d, g, n).left = d.left
BY DEF Failed, DrvType

\* A piece of memory taken.
LEMMA TakenType ==
  ASSUME NEW d \in DrvType, NEW n \in Nat, NEW b \in Nat, NEW g \in Seq(Nat \ {0})
  PROVE  /\ Taken(d, n, b, g) \in DrvType /\ Taken(d, n, b, g).pc = "word"
         /\ SameData(d, Taken(d, n, b, g))
         /\ Taken(d, n, b, g).cmd = d.cmd /\ Taken(d, n, b, g).left = d.left
         /\ Taken(d, n, b, g).words = n /\ Taken(d, n, b, g).blksize = b
BY DEF Taken, SameData, DrvType

\* The memory that is left.
LEMMA Pieces ==
  ASSUME NEW g \in Seq(Nat \ {0}), g # << >>
  PROVE  /\ Head(g) \in Nat /\ Head(g) > 0 /\ Tail(g) \in Seq(Nat \ {0})
         /\ Head(g) \div 4 \in Nat
         /\ \A p \in Nat : p < Head(g) => <<Head(g) - p>> \o Tail(g) \in Seq(Nat \ {0})
<1>1. Head(g) \in Nat \ {0} /\ Tail(g) \in Seq(Nat \ {0})
  OBVIOUS
<1> DEFINE h == Head(g)
           u == Tail(g)
<1> HIDE DEF h, u
<1>2. ASSUME NEW p \in Nat, p < h
      PROVE  <<h - p>> \o u \in Seq(Nat \ {0})
  <2>1. h - p \in Nat \ {0} /\ u \in Seq(Nat \ {0})
    BY <1>1, <1>2 DEF h, u
  <2> DEFINE k == h - p
  <2> HIDE DEF k
  <2>2. <<k>> \in Seq(Nat \ {0})
    BY <2>1 DEF k
  <2>3. <<k>> \o u \in Seq(Nat \ {0})
    BY <2>1, <2>2
  <2> QED
    BY <2>3 DEF k
<1>3. h \div 4 \in Nat /\ h > 0
  BY <1>1 DEF h
<1> QED
  BY <1>1, <1>2, <1>3 DEF h, u

\* Taking a piece keeps the agreement.
LEMMA PieceMoves ==
  ASSUME NEW s \in SdType, drv \in DrvType, Agreed(s, drv), drv.pc = "piece"
  PROVE  sg_miter_next \in DrvType /\ Agreed(s, sg_miter_next)
<1> DEFINE g == drv.sg
           b == drv.blksize
           e == sg_miter_next
<1>1. b \in Nat /\ g \in Seq(Nat \ {0}) /\ drv.sent \in Nat
  BY DEF DrvType
<1>2. CASE b = 0
  <2>1. e = NextBlock(drv)
    BY <1>2 DEF sg_miter_next
  <2>2. e \in DrvType
    BY <2>1, NextBlockType
  <2>3. Agreed(s, e)
    <3> HIDE DEF e
    <3>1. /\ e.mrq = drv.mrq /\ e.nr = drv.nr /\ e.buf = drv.buf /\ e.before = drv.before
          /\ e.cmd = drv.cmd /\ e.error = drv.error /\ e.sent = drv.sent
          /\ IF drv.left = 0 THEN e.pc = "response"
             ELSE e.pc = "piece" /\ e.left = drv.left - 1 /\ e.blksize = 4 * BlockWords
      BY <2>1, NextBlockType
    <3> QED
      BY <1>2, <2>2, <3>1, BlockEnd
  <2> QED
    BY <2>2, <2>3
\* The EXT_CSD is read into one piece that fits.
<1>3. ASSUME b > 0, drv.mrq.op = "SEND_EXT_CSD"
      PROVE  g # << >> /\ Piece = 4 * BlockWords /\ Piece % 4 = 0
  <2>1. Budget(s, drv) /\ drv.mrq \in Requests
    BY MovingFacts
  <2>2. b = 4 * BlockWords /\ g = drv.mrq.sg
    BY <1>1, <1>3, <2>1 DEF Budget
  <2>3. g = <<4 * BlockWords>>
    BY <1>3, <2>1, <2>2, RequestType
  <2>4. g # << >> /\ Head(g) = 4 * BlockWords
    BY <2>3
  <2>5. Piece = 4 * BlockWords
    BY <2>2, <2>4 DEF Piece
  <2> QED
    BY <2>4, <2>5, QuarterOf, BlockWordsAssumption
\* A block that ends with an error.
<1>4. ASSUME NEW h \in Seq(Nat \ {0}), NEW n \in Nat, e = NextBlock(Failed(drv, h, n)),
             drv.mrq.op # "SEND_EXT_CSD"
      PROVE  e \in DrvType /\ Agreed(s, e)
  <2> DEFINE f == Failed(drv, h, n)
  <2>1. /\ f \in DrvType /\ f.pc = "piece" /\ f.mrq = drv.mrq /\ f.nr = drv.nr /\ f.buf = drv.buf
        /\ f.before = drv.before /\ f.cmd = drv.cmd /\ f.error /\ f.left = drv.left
    BY FailedType
  <2>2. e = NextBlock(f)
    BY <1>4
  <2> HIDE DEF f, e
  <2>3. /\ NextBlock(f) \in DrvType
        /\ NextBlock(f).mrq = f.mrq /\ NextBlock(f).nr = f.nr /\ NextBlock(f).buf = f.buf
        /\ NextBlock(f).before = f.before /\ NextBlock(f).cmd = f.cmd
        /\ NextBlock(f).error = f.error
        /\ IF f.left = 0 THEN NextBlock(f).pc = "response"
           ELSE /\ NextBlock(f).pc = "piece" /\ NextBlock(f).left = f.left - 1
                /\ NextBlock(f).blksize = 4 * BlockWords
    BY <2>1, NextBlockType
  <2>4. /\ e \in DrvType /\ e.mrq = drv.mrq /\ e.nr = drv.nr /\ e.buf = drv.buf
        /\ e.before = drv.before /\ e.cmd = drv.cmd /\ e.error
        /\ IF drv.left = 0 THEN e.pc = "response"
           ELSE e.pc = "piece" /\ e.left = drv.left - 1 /\ e.blksize = 4 * BlockWords
    BY <2>1, <2>2, <2>3
  <2> QED
    BY <1>4, <2>4, BlockEnd
<1>5. CASE b > 0 /\ g = << >>
  <2>1. e = NextBlock(Failed(drv, g, drv.sent))
    <3>1. e = NextBlock([drv EXCEPT !.error = TRUE])
      BY <1>5 DEF sg_miter_next
    <3>2. [drv EXCEPT !.error = TRUE] = Failed(drv, g, drv.sent)
      BY DEF Failed, DrvType
    <3> QED
      BY <3>1, <3>2
  <2> QED
    BY <1>1, <1>3, <1>4, <1>5, <2>1
<1>6. ASSUME b > 0, g # << >>
      PROVE  /\ Piece \in Nat /\ Piece > 0 /\ Piece <= b /\ Piece <= Head(g)
             /\ b - Piece \in Nat /\ Piece \div 4 \in Nat
  <2>1. Head(g) \in Nat /\ Head(g) > 0
    BY <1>1, <1>6, Pieces
  <2>2. Piece = IF Head(g) < b THEN Head(g) ELSE b
    BY DEF Piece
  <2> HIDE DEF b, g
  <2> QED
    BY <1>1, <1>6, <2>1, <2>2
<1>7. CASE b > 0 /\ g # << >> /\ Piece % 4 # 0
  <2> DEFINE n == drv.sent + Head(g) \div 4
  <2>1. e = NextBlock(Failed(drv, Tail(g), n))
    <3>1. e = NextBlock([drv EXCEPT !.error = TRUE, !.sg = Tail(@),
                                    !.sent = @ + Head(drv.sg) \div 4])
      BY <1>7 DEF sg_miter_next
    <3>2. [drv EXCEPT !.error = TRUE, !.sg = Tail(@), !.sent = @ + Head(drv.sg) \div 4]
            = Failed(drv, Tail(g), n)
      BY DEF Failed, DrvType
    <3> QED
      BY <3>1, <3>2
  <2>2. Tail(g) \in Seq(Nat \ {0}) /\ n \in Nat
    <3>1. Head(g) \div 4 \in Nat /\ Tail(g) \in Seq(Nat \ {0})
      BY <1>1, <1>7, Pieces
    <3> QED
      BY <1>1, <3>1
  <2>3. drv.mrq.op # "SEND_EXT_CSD"
    BY <1>3, <1>7
  <2> HIDE DEF n
  <2> QED
    BY <1>4, <2>1, <2>2, <2>3
<1>8. CASE b > 0 /\ g # << >> /\ Piece % 4 = 0
  <2> DEFINE p == Piece
             k == p \div 4
             c == b - p
             h == IF Head(g) = p THEN Tail(g) ELSE <<Head(g) - p>> \o Tail(g)
  <2>1. e = Taken(drv, k, c, h)
    <3>1. e = [drv EXCEPT !.pc = "word", !.words = Piece \div 4, !.blksize = @ - Piece,
                          !.sg = IF Head(@) = Piece THEN Tail(@)
                                 ELSE <<Head(@) - Piece>> \o Tail(@)]
      BY <1>8 DEF sg_miter_next
    <3> HIDE DEF e
    <3> QED
      BY <3>1 DEF Taken, DrvType
  <2>2. p \in Nat /\ p > 0 /\ p <= b /\ p <= Head(g) /\ c \in Nat /\ k \in Nat /\ p % 4 = 0
    BY <1>6, <1>8
  <2>3. h \in Seq(Nat \ {0})
    <3>1. Head(g) \in Nat /\ Tail(g) \in Seq(Nat \ {0})
          /\ \A q \in Nat : q < Head(g) => <<Head(g) - q>> \o Tail(g) \in Seq(Nat \ {0})
      BY <1>1, <1>8, Pieces
    <3> HIDE DEF p, g
    <3>2. Head(g) = p \/ p < Head(g)
      BY <2>2, <3>1
    <3> QED
      BY <2>2, <3>1, <3>2
  <2>4. drv.mrq.op = "SEND_EXT_CSD" => p = 4 * BlockWords
    BY <1>3, <1>8
  <2>5. k = p \div 4 /\ c = drv.blksize - p
    OBVIOUS
  <2> HIDE DEF e, p, k, c, h
  <2>6. /\ e \in DrvType /\ e.pc = "word" /\ SameData(drv, e)
        /\ e.cmd = drv.cmd /\ e.left = drv.left /\ e.words = k /\ e.blksize = c
    <3> DEFINE x == Taken(drv, k, c, h)
    <3>1. c \in Nat /\ k \in Nat
      BY <2>2
    <3>2. /\ x \in DrvType /\ x.pc = "word" /\ SameData(drv, x)
          /\ x.cmd = drv.cmd /\ x.left = drv.left /\ x.words = k /\ x.blksize = c
      BY <2>3, <3>1, TakenType
    <3> HIDE DEF x
    <3>3. e = x
      BY <2>1 DEF x
    <3> QED
      BY <3>2, <3>3
  <2>7. Agreed(s, e)
    BY <2>2, <2>4, <2>5, <2>6, PieceTaken
  <2> QED
    BY <2>6, <2>7 DEF e
<1>9. b = 0 \/ b > 0
  BY <1>1
<1> QED
  BY <1>2, <1>5, <1>7, <1>8, <1>9

\* A register of the file is set.
LEMMA RegisterSet ==
  ASSUME NEW s \in SdType, NEW o \in 0 .. 31, NEW v \in RegVal
  PROVE  /\ WithBase(s, o, v) \in SdType /\ SameCard(s, WithBase(s, o, v))
         /\ WithBase(s, o, v).base[o] = v
         /\ \A q \in 0 .. 31 : q # o => WithBase(s, o, v).base[q] = s.base[q]
<1> DEFINE b == [s.base EXCEPT ![o] = v]
<1>1. s.base \in [0 .. 31 -> RegVal]
  BY DEF SdType
<1>2. b \in [0 .. 31 -> RegVal] /\ b[o] = v /\ \A q \in 0 .. 31 : q # o => b[q] = s.base[q]
  BY <1>1
<1>3. WithBase(s, o, v) = [s EXCEPT !.base = b]
  BY DEF WithBase, SdType
<1> HIDE DEF b
<1>4. /\ WithBase(s, o, v) \in SdType /\ SameCard(s, WithBase(s, o, v))
      /\ WithBase(s, o, v).base = b
  BY <1>2, <1>3 DEF SdType, SameCard
<1> QED
  BY <1>2, <1>4

\* The card's handler after the accesses of the driver.
LEMMA CardReads ==
  ASSUME RInv, InOnePiece, Booted, ~panic, "sdhci" \in DOMAIN dev, NEW o \in {SDRSP0, SDDATA},
         paddr_read(Low("sdhci") + o), ~panic'
  PROVE  /\ dev'["sdhci"] = sdcard_io_handler(dev["sdhci"], o)
         /\ Loaded(Low("sdhci") + o) = sdcard_io_handler(dev["sdhci"], o).base[o]
<1>1. "sdhci" \in Driven /\ o \in 0 .. LastRegister("sdhci")
  BY DEF Driven, LastRegister, SDRSP0, SDDATA
<1>2. /\ Loaded(Low("sdhci") + o) = AfterRead("sdhci", o).base[o]
      /\ dev' = [dev EXCEPT !["sdhci"] = AfterRead("sdhci", o)]
  BY <1>1, DriverReads
<1>3. AfterRead("sdhci", o) = sdcard_io_handler(dev["sdhci"], o)
  BY DEF AfterRead, Callback
<1> QED
  BY <1>2, <1>3

\* A register write of the driver reaches the handler.
LEMMA CardWrites ==
  ASSUME RInv, InOnePiece, Booted, ~panic, "sdhci" \in DOMAIN dev,
         NEW o \in {SDARG, SDCMD, SDDATA}, NEW v,
         paddr_write(Low("sdhci") + o, v), ~panic'
  PROVE  dev'["sdhci"] = sdcard_io_handler(WithBase(dev["sdhci"], o, v), o)
<1>1. "sdhci" \in Driven /\ o \in 0 .. LastRegister("sdhci")
  BY DEF Driven, LastRegister, SDARG, SDCMD, SDDATA
<1>2. dev' = [dev EXCEPT !["sdhci"] = AfterWrite("sdhci", o, v)]
  BY <1>1, DriverWrites
<1>3. AfterWrite("sdhci", o, v) = sdcard_io_handler(WithBase(dev["sdhci"], o, v), o)
  BY DEF AfterWrite, Callback, WithBase
<1> QED
  BY <1>2, <1>3

\* What the handler does at each register.
LEMMA HandlerOf ==
  ASSUME NEW s
  PROVE  /\ sdcard_io_handler(s, SDCMD) = sdcard_handle_cmd(s, s.base[SDCMD])
         /\ sdcard_io_handler(s, SDDATA) = sdcard_data(s)
         /\ sdcard_io_handler(s, SDARG) = s /\ sdcard_io_handler(s, SDRSP0) = s
BY DEF sdcard_io_handler, SDCMD, SDDATA, SDARG, SDRSP0
-----------------------------------------------------------------------------
(* The steps of the card's driver.                                         *)

LEMMA CardRequested ==
  ASSUME SInv, nemu_request
  PROVE  SInv'
<1> DEFINE s == dev["sdhci"]
           d == drv
           e == drv'
<1>1. /\ s \in SdType /\ d \in DrvType /\ Agreed(s, d) /\ d.pc \in {"idle", "done"}
      /\ dev' = dev /\ panic' = panic /\ ~panic
  BY DEF SInv, nemu_request, Running
<1>2. PICK r \in Requests :
        e = [d EXCEPT !.pc = "arg", !.mrq = r, !.nr = @ + 1, !.error = FALSE,
                      !.cmd = IF UseSbc(r) THEN "sbc" ELSE "cmd",
                      !.sg = r.sg, !.buf = << >>, !.sent = 0, !.before = s.img]
  BY DEF nemu_request
<1> DEFINE c == IF UseSbc(r) THEN "sbc" ELSE "cmd"
           g == r.sg
           n == d.nr + 1
           m == s.img
           z == << >>
<1>3. /\ c \in {"sbc", "cmd", "stop"} /\ g \in Seq(Nat \ {0}) /\ n \in Nat /\ m \in Seq(Word)
      /\ z \in Seq(RegVal) /\ r \in Requests \cup {<< >>}
  <2>1. g \in Seq(Nat \ {0})
    BY RequestType
  <2>2. n \in Nat /\ m \in Seq(Word)
    <3>1. d.nr \in Nat
      BY <1>1 DEF DrvType
    <3>2. m \in Seq(Word)
      BY <1>1, Fields
    <3> QED
      BY <3>1, <3>2
  <2>3. z \in Seq(RegVal) /\ c \in {"sbc", "cmd", "stop"} /\ r \in Requests \cup {<< >>}
    OBVIOUS
  <2> QED
    BY <2>1, <2>2, <2>3
<1>4. e = [d EXCEPT !.pc = "arg", !.mrq = r, !.nr = n, !.error = FALSE,
                    !.cmd = c, !.sg = g, !.buf = z, !.sent = 0, !.before = m]
  BY <1>1, <1>2 DEF DrvType
<1> HIDE DEF s, d, e, c, g, n, m, z
<1>5. /\ e \in DrvType
      /\ e.pc = "arg" /\ e.mrq = r /\ e.error = FALSE /\ e.cmd = c /\ e.sg = g /\ e.buf = z
      /\ e.sent = 0 /\ e.before = m
  BY <1>1, <1>3, <1>4 DEF DrvType
<1>6. Agreed(s, e)
  BY <1>1, <1>5, Requested DEF c, g, m, z
<1> QED
  BY <1>1, <1>5, <1>6 DEF SInv, s, e

\* Driver: the argument.
LEMMA CardArgument ==
  ASSUME RInv, InOnePiece, "sdhci" \in DOMAIN dev, SInv, write_arg
  PROVE  SInv'
<1> SUFFICES ASSUME ~panic'
             PROVE  SInv'
  BY DEF SInv
<1> DEFINE s == dev["sdhci"]
           t == dev'["sdhci"]
           d == drv
           e == drv'
           a == Arg
<1>1. /\ s \in SdType /\ d \in DrvType /\ Agreed(s, d) /\ d.pc = "arg" /\ ~panic /\ Booted
      /\ paddr_write(Low("sdhci") + SDARG, a) /\ e = [d EXCEPT !.pc = "command"]
  BY DEF SInv, write_arg, Running
<1>2. a \in Nat /\ (d.cmd = "cmd" => a = d.mrq.blk)
  <2>1. d.mrq \in Requests
    BY <1>1 DEF Agreed
  <2>2. d.mrq.blk \in Nat /\ d.mrq.blocks \in Nat
    BY <2>1, RequestType
  <2> QED
    BY <2>2 DEF Arg
<1>3. t = WithBase(s, SDARG, a)
  <2>1. t = sdcard_io_handler(WithBase(s, SDARG, a), SDARG)
    BY <1>1, CardWrites
  <2> HIDE DEF t, s, a
  <2> QED
    BY <2>1, HandlerOf
<1>4. a \in RegVal /\ SDARG \in 0 .. 31
  BY <1>2 DEF RegVal, SDARG
<1> HIDE DEF s, t, d, e, a
<1>5. t \in SdType /\ SameCard(s, t) /\ t.base[SDARG] = a
  BY <1>1, <1>3, <1>4, RegisterSet
<1>6. e \in DrvType /\ SameData(d, e) /\ e.pc = "command" /\ e.cmd = d.cmd /\ e.sg = d.sg
  BY <1>1 DEF DrvType, SameData
<1>7. Agreed(t, e)
  BY <1>1, <1>2, <1>5, <1>6, ArgWritten
<1> QED
  BY <1>5, <1>6, <1>7 DEF SInv, t, e

\* Driver: the command.
LEMMA CardCommand ==
  ASSUME RInv, InOnePiece, "sdhci" \in DOMAIN dev, SInv, write_cmd
  PROVE  SInv'
<1> SUFFICES ASSUME ~panic'
             PROVE  SInv'
  BY DEF SInv
<1> DEFINE s == dev["sdhci"]
           t == dev'["sdhci"]
           d == drv
           e == drv'
           o == Opcode
           u == WithBase(s, SDCMD, o)
<1>1. /\ s \in SdType /\ d \in DrvType /\ Agreed(s, d) /\ d.pc = "command" /\ ~panic /\ Booted
      /\ paddr_write(Low("sdhci") + SDCMD, o)
      /\ e = IF d.cmd = "cmd" /\ HasData(d.mrq)
             THEN [d EXCEPT !.pc = "piece", !.left = d.mrq.blocks - 1, !.blksize = 4 * BlockWords]
             ELSE [d EXCEPT !.pc = "response"]
  BY DEF SInv, write_cmd, Running
<1>2. d.mrq \in Requests /\ s.base[SDARG] \in Nat
  BY <1>1 DEF Agreed
<1>3. /\ o \in Names /\ (d.cmd = "cmd" => o = d.mrq.op)
      /\ d.cmd # "cmd" => o \in {"SET_BLOCK_COUNT", "STOP_TRANSMISSION"}
  <2>1. d.mrq.op \in Names /\ d.cmd \in {"sbc", "cmd", "stop"}
    BY <1>1, <1>2, RequestType DEF DrvType
  <2>2. d.cmd = "cmd" => o = d.mrq.op
    BY DEF Opcode
  <2>3. d.cmd = "sbc" => o = "SET_BLOCK_COUNT"
    BY DEF Opcode
  <2>4. d.cmd = "stop" => o = "STOP_TRANSMISSION"
    BY DEF Opcode
  <2> DEFINE q == d.mrq.op
  <2>5. q \in Names /\ (d.cmd = "cmd" => o = q)
    BY <2>1, <2>2
  <2> HIDE DEF o, q
  <2>6. o \in Names
    <3>1. "SET_BLOCK_COUNT" \in Names /\ "STOP_TRANSMISSION" \in Names
      BY DEF Names, Commands
    <3>2. d.cmd = "sbc" \/ d.cmd = "cmd" \/ d.cmd = "stop"
      BY <2>1
    <3> QED
      BY <2>3, <2>4, <2>5, <3>1, <3>2, Zenon
  <2>7. d.cmd # "cmd" => o \in {"SET_BLOCK_COUNT", "STOP_TRANSMISSION"}
    BY <2>1, <2>3, <2>4
  <2> QED
    BY <2>2, <2>6, <2>7
<1>4. o \in RegVal /\ SDCMD \in 0 .. 31 /\ SDARG \in 0 .. 31 /\ SDCMD # SDARG
  BY <1>3 DEF RegVal, SDCMD, SDARG
<1>5. t = sdcard_io_handler(u, SDCMD)
  BY <1>1, CardWrites
<1> HIDE DEF s, t, d, e, o
<1>6. u \in SdType /\ SameCard(s, u) /\ u.base[SDCMD] = o /\ u.base[SDARG] = s.base[SDARG]
  <2> DEFINE c == SDCMD
  <2>1. s \in SdType /\ o \in RegVal /\ c \in 0 .. 31
    BY <1>1, <1>4
  <2> HIDE DEF c
  <2>2. /\ WithBase(s, c, o) \in SdType /\ SameCard(s, WithBase(s, c, o))
        /\ WithBase(s, c, o).base[c] = o
        /\ \A q \in 0 .. 31 : q # c => WithBase(s, c, o).base[q] = s.base[q]
    BY <2>1, RegisterSet
  <2> QED
    BY <1>4, <2>2 DEF c
<1> HIDE DEF u
<1>7. t = sdcard_handle_cmd(u, o)
  BY <1>5, <1>6, HandlerOf
<1>8. Agreed(u, d)
  <2>1. SameData(d, d)
    BY DEF SameData
  <2>2. /\ Untouched(s, d) => Untouched(u, d)
        /\ Progress(s, d) => Progress(u, d)
        /\ Total(s, d) => Total(u, d)
    BY <1>6, <2>1, SameProgress
  <2>3. ~Moving(d) /\ d.pc # "idle"
    BY <1>1 DEF Moving
  <2> QED
    BY <1>1, <1>6, <2>2, <2>3 DEF Agreed
<1>9. t \in SdType /\ t.base[SDARG] = u.base[SDARG]
  BY <1>2, <1>3, <1>6, <1>7, CommandDone
<1>10. CASE d.cmd = "cmd" /\ HasData(d.mrq)
  <2> DEFINE l == d.mrq.blocks - 1
             b == 4 * BlockWords
  <2>1. e = [d EXCEPT !.pc = "piece", !.left = l, !.blksize = b]
    BY <1>1, <1>10
  <2>2. d.mrq.blocks \in Nat /\ d.mrq.blocks > 0
    BY <1>2, <1>10, RequestType
  <2>3. l \in Nat /\ b \in Nat
    BY <2>2, BlockWordsAssumption
  <2> HIDE DEF l, b
  <2>4. /\ e \in DrvType /\ SameData(d, e) /\ e.pc = "piece" /\ e.cmd = "cmd" /\ e.sg = d.sg
        /\ e.left = l /\ e.blksize = b
    BY <1>1, <1>10, <2>1, <2>3 DEF DrvType, SameData
  <2>5. t = sdcard_handle_cmd(u, d.mrq.op)
    BY <1>3, <1>7, <1>10
  <2>6. Agreed(t, e)
    BY <1>1, <1>6, <1>8, <1>9, <1>10, <2>4, <2>5, DataCommand DEF l, b
  <2> QED
    BY <1>9, <2>4, <2>6 DEF SInv, t, e
<1>11. CASE ~(d.cmd = "cmd" /\ HasData(d.mrq))
  <2>1. e = [d EXCEPT !.pc = "response"]
    BY <1>1, <1>11
  <2>2. /\ e \in DrvType /\ SameData(d, e) /\ e.pc = "response" /\ e.cmd = d.cmd /\ e.sg = d.sg
    BY <1>1, <2>1 DEF DrvType, SameData
  <2>3. o \notin {"READ_MULTIPLE_BLOCK", "WRITE_MULTIPLE_BLOCK", "SEND_EXT_CSD"}
    BY <1>3, <1>11 DEF HasData
  <2>4. SameCard(u, t)
    <3> DEFINE x == sdcard_handle_cmd(u, o)
    <3>1. u.base[SDARG] \in Nat
      BY <1>2, <1>6
    <3>2. /\ x.img = u.img /\ x.fp = u.fp
          /\ x.read_ext_csd = u.read_ext_csd /\ x.write_cmd = u.write_cmd
          /\ x.pos = u.pos /\ x.addr = u.addr
      BY <1>3, <1>6, <2>3, <3>1, CommandDone
    <3> QED
      BY <1>7, <3>2 DEF SameCard
  <2>5. Agreed(t, e)
    BY <1>1, <1>6, <1>8, <1>9, <1>11, <2>2, <2>4, PlainCommand
  <2> QED
    BY <1>9, <2>2, <2>5 DEF SInv, t, e
<1> QED
  BY <1>10, <1>11

\* Driver: the next piece.
LEMMA CardPiece ==
  ASSUME SInv, next_piece
  PROVE  SInv'
<1>1. /\ dev["sdhci"] \in SdType /\ drv \in DrvType /\ Agreed(dev["sdhci"], drv)
      /\ drv.pc = "piece" /\ dev' = dev /\ drv' = sg_miter_next
  BY DEF SInv, next_piece, Running
<1>2. sg_miter_next \in DrvType /\ Agreed(dev["sdhci"], sg_miter_next)
  BY <1>1, PieceMoves
<1> QED
  BY <1>1, <1>2 DEF SInv

\* Driver: the response.
LEMMA CardResponse ==
  ASSUME RInv, InOnePiece, "sdhci" \in DOMAIN dev, SInv, read_response
  PROVE  SInv'
<1> SUFFICES ASSUME ~panic'
             PROVE  SInv'
  BY DEF SInv
<1> DEFINE s == dev["sdhci"]
           t == dev'["sdhci"]
           d == drv
           e == drv'
<1>1. /\ s \in SdType /\ d \in DrvType /\ Agreed(s, d) /\ d.pc = "response" /\ ~panic /\ Booted
      /\ paddr_read(Low("sdhci") + SDRSP0) /\ e = AfterResponse
  BY DEF SInv, read_response, Running
<1>2. t = s
  BY <1>1, CardReads, HandlerOf
<1>3. \/ d.cmd = "sbc" /\ e = [d EXCEPT !.cmd = "cmd", !.pc = "arg"]
      \/ d.cmd # "sbc" /\ e = [d EXCEPT !.cmd = "stop", !.pc = "arg"]
      \/ d.cmd # "sbc" /\ e = [d EXCEPT !.pc = "done"]
  <2>1. CASE d.cmd = "sbc"
    BY <1>1, <2>1 DEF AfterResponse
  <2>2. CASE d.cmd # "sbc"
    BY <1>1, <2>2 DEF AfterResponse
  <2> QED
    BY <2>1, <2>2
<1> HIDE DEF s, t, d, e
<1>4. /\ e \in DrvType /\ SameData(d, e) /\ e.sg = d.sg
      /\ \/ d.cmd = "sbc" /\ e.cmd = "cmd" /\ e.pc = "arg"
         \/ d.cmd # "sbc" /\ e.cmd = "stop" /\ e.pc = "arg"
         \/ d.cmd # "sbc" /\ e.pc = "done"
  BY <1>1, <1>3 DEF DrvType, SameData
<1>5. Agreed(s, e)
  BY <1>1, <1>4, Responded
<1> QED
  BY <1>1, <1>2, <1>4, <1>5 DEF SInv, t, e

\* Driver: a word is read.
LEMMA CardReadsWord ==
  ASSUME RInv, InOnePiece, "sdhci" \in DOMAIN dev, SInv, read_word
  PROVE  SInv'
<1> SUFFICES ASSUME ~panic'
             PROVE  SInv'
  BY DEF SInv
<1> DEFINE s == dev["sdhci"]
           t == sdcard_data(s)
           d == drv
           e == drv'
           v == t.base[SDDATA]
           b == Append(d.buf, v)
           w == d.words - 1
           p == IF d.words = 1 THEN "piece" ELSE "word"
<1>1. /\ s \in SdType /\ d \in DrvType /\ Agreed(s, d) /\ d.pc = "word" /\ ~panic /\ Booted
      /\ IsRead(d.mrq) /\ paddr_read(Low("sdhci") + SDDATA)
      /\ e = [AfterWord EXCEPT !.buf = Append(@, Loaded(Low("sdhci") + SDDATA))]
  BY DEF SInv, read_word, Running
<1>2. dev'["sdhci"] = t /\ Loaded(Low("sdhci") + SDDATA) = v
  <2>1. /\ dev'["sdhci"] = sdcard_io_handler(dev["sdhci"], SDDATA)
        /\ Loaded(Low("sdhci") + SDDATA) = sdcard_io_handler(dev["sdhci"], SDDATA).base[SDDATA]
    BY <1>1, CardReads
  <2> QED
    BY <2>1, HandlerOf
<1>3. e = [d EXCEPT !.words = w, !.pc = p, !.buf = b]
  BY <1>1, <1>2 DEF AfterWord, DrvType
<1> HIDE DEF s, t, d, e, v, b, w, p
<1>4. /\ d.mrq \in Requests /\ HasData(d.mrq) /\ d.cmd = "cmd"
      /\ d.mrq.op \in {"READ_MULTIPLE_BLOCK", "SEND_EXT_CSD"}
      /\ Budget(s, d) /\ d.words \in Nat /\ d.words > 0
  <2>1. d.mrq \in Requests /\ HasData(d.mrq) /\ d.cmd = "cmd" /\ Budget(s, d)
    BY <1>1, MovingFacts
  <2>2. d.words \in Nat /\ d.words > 0
    BY <1>1, <2>1 DEF Budget, DrvType
  <2> QED
    BY <1>1, <2>1, <2>2 DEF HasData, IsRead
<1>5. /\ d.buf \in Seq(RegVal) /\ w \in Nat /\ p \in {"piece", "word"}
  BY <1>1, <1>4 DEF DrvType, w, p
<1>6. ASSUME v \in RegVal
      PROVE  /\ e \in DrvType /\ e.mrq = d.mrq /\ e.error = d.error /\ e.cmd = d.cmd
             /\ e.left = d.left /\ e.blksize = d.blksize /\ e.words = w /\ e.pc = p
             /\ e.before = d.before /\ e.nr = d.nr /\ e.buf = b /\ Len(b) = Len(d.buf) + 1
  <2>1. b \in Seq(RegVal) /\ Len(b) = Len(d.buf) + 1
    BY <1>5, <1>6, Appended DEF b
  <2>2. p \in {"idle", "arg", "command", "piece", "word", "response", "done"}
    BY <1>5
  <2> QED
    BY <1>1, <1>3, <1>5, <2>1, <2>2 DEF DrvType
\* The value is in the register afterwards, so it is a register's value.
<1>7. t \in SdType => v \in RegVal
  BY DEF SdType, SDDATA, v
<1>8. t \in SdType
  <2>1. CASE d.mrq.op = "READ_MULTIPLE_BLOCK"
    <3>1. ~s.read_ext_csd /\ ~s.write_cmd
      BY <1>1, <2>1, MovingFacts DEF Progress, ReadSoFar, Untouched
    <3>2. ~s.read_ext_csd /\ s.fp /\ ~s.write_cmd => t \in SdType
      BY <1>1, ImageRead DEF t
    <3>3. ~s.read_ext_csd /\ ~s.fp => t \in SdType
      BY <1>1, NoImage DEF t
    <3> QED
      BY <3>1, <3>2, <3>3
  <2>2. CASE d.mrq.op = "SEND_EXT_CSD"
    <3> DEFINE n == Len(d.buf)
    <3>1. ExtSoFar(s, d) /\ n \in Nat
      BY <1>1, <2>2, MovingFacts DEF Progress
    <3>2. n < BlockWords
      <4>1. d.blksize = 0 /\ Rest(d) = BlockWords - n
        BY <1>1, <1>4, <2>2 DEF Budget
      <4>2. Rest(d) = d.words
        BY <1>1, <1>4, <4>1 DEF Rest
      <4> HIDE DEF n
      <4> QED
        BY <1>4, <3>1, <4>1, <4>2, BlockWordsAssumption
    <3>3. s.read_ext_csd
      BY <3>1, <3>2 DEF ExtSoFar
    <3>4. s.read_ext_csd => t \in SdType
      BY <1>1, ExtWord DEF t
    <3> QED
      BY <3>3, <3>4
  <2> QED
    BY <1>4, <2>1, <2>2
<1>9. /\ e \in DrvType /\ e.mrq = d.mrq /\ e.error = d.error /\ e.cmd = d.cmd
      /\ e.left = d.left /\ e.blksize = d.blksize /\ e.words = d.words - 1
      /\ e.pc = IF d.words = 1 THEN "piece" ELSE "word"
      /\ e.before = d.before /\ e.nr = d.nr /\ e.buf = Append(d.buf, sdcard_data(s).base[SDDATA])
      /\ Len(e.buf) = Len(d.buf) + 1
  BY <1>6, <1>7, <1>8 DEF b, v, t, w, p
<1>10. /\ sdcard_data(s).base[SDARG] = s.base[SDARG] /\ sdcard_data(s).fp = s.fp
       /\ Progress(sdcard_data(s), e)
  <2>1. CASE d.mrq.op = "READ_MULTIPLE_BLOCK"
    <3>1. /\ sdcard_data(s).base[SDARG] = s.base[SDARG] /\ sdcard_data(s).fp = s.fp
          /\ ReadSoFar(sdcard_data(s), e)
      BY <1>1, <1>9, <2>1, ImageWordRead
    <3> QED
      BY <1>9, <2>1, <3>1 DEF Progress
  <2>2. CASE d.mrq.op = "SEND_EXT_CSD"
    <3>1. /\ sdcard_data(s).base[SDARG] = s.base[SDARG]
          /\ ExtSoFar(sdcard_data(s), e)
      BY <1>1, <1>9, <2>2, ExtWordRead
    <3>2. sdcard_data(s).fp = s.fp
      BY <1>1, <1>8 DEF sdcard_data, ReadWord, WriteWord, SdType, t
    <3> QED
      BY <1>9, <2>2, <3>1, <3>2 DEF Progress
  <2> QED
    BY <1>4, <2>1, <2>2
<1>11. Agreed(t, e)
  <2>1. t \in SdType /\ t.base[SDARG] = s.base[SDARG] /\ t.fp = s.fp /\ Progress(t, e)
    BY <1>8, <1>10 DEF t
  <2>2. d.mrq.op # "WRITE_MULTIPLE_BLOCK"
    BY <1>4
  <2> QED
    BY <1>1, <1>9, <2>1, <2>2, WordsLeft
<1> QED
  BY <1>2, <1>8, <1>9, <1>11 DEF SInv, e

\* Driver: a word is written.
LEMMA CardWritesWord ==
  ASSUME RInv, InOnePiece, "sdhci" \in DOMAIN dev, SInv, write_word
  PROVE  SInv'
<1> SUFFICES ASSUME ~panic'
             PROVE  SInv'
  BY DEF SInv
<1> DEFINE s == dev["sdhci"]
           d == drv
           e == drv'
           v == <<d.nr, d.sent + 1>>
           u == WithBase(s, SDDATA, v)
           t == sdcard_data(u)
           n == d.sent + 1
           w == d.words - 1
           p == IF d.words = 1 THEN "piece" ELSE "word"
<1>1. /\ s \in SdType /\ d \in DrvType /\ Agreed(s, d) /\ d.pc = "word" /\ ~panic /\ Booted
      /\ ~IsRead(d.mrq) /\ paddr_write(Low("sdhci") + SDDATA, v)
      /\ e = [AfterWord EXCEPT !.sent = @ + 1]
  BY DEF SInv, write_word, Running
<1>2. dev'["sdhci"] = t
  <2>1. dev'["sdhci"] = sdcard_io_handler(u, SDDATA)
    BY <1>1, CardWrites
  <2> QED
    BY <2>1, HandlerOf
<1>3. e = [d EXCEPT !.words = w, !.pc = p, !.sent = n]
  BY <1>1 DEF AfterWord, DrvType
<1>4. /\ d.mrq.op = "WRITE_MULTIPLE_BLOCK" /\ d.cmd = "cmd"
      /\ Budget(s, d) /\ d.words \in Nat /\ d.words > 0 /\ d.nr \in Nat /\ d.sent \in Nat
  <2>1. Budget(s, d) /\ d.cmd = "cmd"
    BY <1>1, MovingFacts
  <2>2. d.words \in Nat /\ d.words > 0 /\ d.nr \in Nat /\ d.sent \in Nat
    BY <1>1, <2>1 DEF Budget, DrvType
  <2> QED
    BY <1>1, <2>1, <2>2 DEF IsRead
<1>5. v \in Word /\ v \in RegVal /\ SDDATA \in 0 .. 31 /\ SDARG \in 0 .. 31 /\ SDARG # SDDATA
  BY <1>4 DEF Word, RegVal, SDDATA, SDARG
<1>6. w \in Nat /\ n \in Nat /\ p \in {"piece", "word"}
  BY <1>4
<1> HIDE DEF s, t, d, e, u, w, p, n
<1>7. /\ e \in DrvType /\ e.mrq = d.mrq /\ e.error = d.error /\ e.cmd = d.cmd
      /\ e.left = d.left /\ e.blksize = d.blksize /\ e.words = w /\ e.pc = p
      /\ e.before = d.before /\ e.nr = d.nr /\ e.buf = d.buf /\ e.sent = n
  <2>2. p \in {"idle", "arg", "command", "piece", "word", "response", "done"}
    BY <1>6
  <2> QED
    BY <1>1, <1>3, <1>6, <2>2 DEF DrvType
<1>8. u \in SdType /\ SameCard(s, u) /\ u.base[SDDATA] = v /\ u.base[SDARG] = s.base[SDARG]
  <2> DEFINE c == SDDATA
  <2>1. s \in SdType /\ v \in RegVal /\ c \in 0 .. 31
    BY <1>1, <1>5
  <2> HIDE DEF c, v
  <2>2. /\ WithBase(s, c, v) \in SdType /\ SameCard(s, WithBase(s, c, v))
        /\ WithBase(s, c, v).base[c] = v
        /\ \A q \in 0 .. 31 : q # c => WithBase(s, c, v).base[q] = s.base[q]
    BY <2>1, RegisterSet
  <2> QED
    BY <1>5, <2>2 DEF c, u
<1>9. Agreed(u, d) /\ u.fp = s.fp /\ u.pos = s.pos
  <2>1. SameData(d, d)
    BY DEF SameData
  <2>2. Progress(s, d) => Progress(u, d)
    BY <1>8, <2>1, SameProgress
  <2>3. Budget(s, d) => Budget(u, d)
    BY <1>8 DEF Budget, SameCard
  <2>4. ~Unstarted(d) /\ ~Ended(d) /\ Moving(d) /\ d.pc # "idle" /\ d.pc # "command"
    BY <1>1, MovingFacts
  <2> QED
    BY <1>1, <1>8, <2>2, <2>3, <2>4 DEF Agreed, SameCard
<1>10. /\ t \in SdType /\ t.base[SDARG] = u.base[SDARG] /\ t.fp = u.fp
       /\ u.fp => t.pos = u.pos + 1
       /\ WrittenSoFar(t, e)
  <2>1. /\ e.sent = d.sent + 1 /\ e.nr = d.nr /\ e.mrq = d.mrq /\ e.before = d.before
        /\ e.error = d.error
    BY <1>7 DEF n
  <2>2. u \in SdType /\ d \in DrvType /\ e \in DrvType /\ Agreed(u, d)
    BY <1>1, <1>7, <1>8, <1>9
  <2>3. d.pc = "word" /\ d.mrq.op = "WRITE_MULTIPLE_BLOCK" /\ u.base[SDDATA] = <<d.nr, d.sent + 1>>
    BY <1>1, <1>4, <1>8
  <2>4. /\ sdcard_data(u) \in SdType /\ sdcard_data(u).base[SDARG] = u.base[SDARG]
        /\ sdcard_data(u).fp = u.fp /\ (u.fp => sdcard_data(u).pos = u.pos + 1)
        /\ WrittenSoFar(sdcard_data(u), e)
    BY <2>1, <2>2, <2>3, WordWritten
  <2> QED
    BY <2>4 DEF t
<1>11. Progress(t, e)
  BY <1>4, <1>7, <1>10 DEF Progress
<1>12. Agreed(t, e)
  <2>1. /\ e.words = d.words - 1 /\ e.pc = IF d.words = 1 THEN "piece" ELSE "word"
    BY <1>7 DEF w, p
  <2>2. d.mrq.op = "WRITE_MULTIPLE_BLOCK" /\ t.fp => t.pos = u.pos + 1
    BY <1>10
  <2> QED
    BY <1>1, <1>4, <1>7, <1>8, <1>9, <1>10, <1>11, <2>1, <2>2, WordsLeft
<1> QED
  BY <1>2, <1>7, <1>10, <1>12 DEF SInv, e

\* A card just plugged in.
LEMMA CardInit ==
  ASSUME NEW fp \in BOOLEAN, NEW img \in Seq(Word)
  PROVE  /\ sdcard_init(fp, img) \in SdType /\ ~sdcard_init(fp, img).read_ext_csd
         /\ sdcard_init(fp, img).base[SDARG] \in Nat
<1> DEFINE b == [r \in 0 .. 31 |-> CASE r = SDCMD  -> "GO_IDLE_STATE"
                                     [] r = SDARG  -> 0
                                     [] r = SDDATA -> <<0, 0>>
                                     [] OTHER      -> "none"]
<1>1. "GO_IDLE_STATE" \in RegVal /\ 0 \in RegVal /\ <<0, 0>> \in RegVal /\ "none" \in RegVal
  BY DEF RegVal, Names, Commands, Word
<1>2. ASSUME NEW r \in 0 .. 31
      PROVE  b[r] \in RegVal
  BY <1>1, <1>2
<1>3. b \in [0 .. 31 -> RegVal] /\ b[SDARG] = 0
  <2>1. b \in [0 .. 31 -> RegVal]
    BY <1>2
  <2>2. b[SDARG] = 0
    BY DEF SDCMD, SDARG, SDDATA
  <2> QED
    BY <2>1, <2>2
<1>4. sdcard_init(fp, img) = [base |-> b, fp |-> fp, img |-> img, pos |-> 0, addr |-> 0,
                              blkcnt |-> 0, write_cmd |-> FALSE, read_ext_csd |-> FALSE]
  BY DEF sdcard_init
<1> DEFINE s == sdcard_init(fp, img)
<1> HIDE DEF b
<1>5. s \in SdType
  BY <1>3, <1>4 DEF SdType
<1>6. ~s.read_ext_csd
  BY <1>4
<1>7. s.base[SDARG] = 0
  BY <1>3, <1>4
<1> QED
  BY <1>5, <1>6, <1>7

\* No request has been made yet.
LEMMA InitSInv == Init => SInv
<1> SUFFICES ASSUME Init
             PROVE  SInv
  OBVIOUS
<1>1. PICK i \in Stdins, m \in Images :
        dev = [d \in Range(Order) |->
                 CASE d = "serial" -> serial_init(i[1], i[2])
                   [] d = "rtc"    -> rtc_init
                   [] d = "sdhci"  -> sdcard_init(m[1], m[2])
                   [] OTHER        -> << >>]
  BY DEF Init
<1>2. dev["sdhci"] = sdcard_init(m[1], m[2])
  BY <1>1, DriverAssumption
<1>3. m[1] \in BOOLEAN /\ m[2] \in Seq(Word)
  BY InputAssumption DEF Word
<1>4. /\ dev["sdhci"] \in SdType /\ ~dev["sdhci"].read_ext_csd
      /\ dev["sdhci"].base[SDARG] \in Nat
  BY <1>2, <1>3, CardInit
<1>5. << >> \in Seq(Nat \ {0}) /\ << >> \in Seq(RegVal) /\ << >> \in Seq(Word)
      /\ << >> \in Requests \cup {<< >>}
  OBVIOUS
<1>6. drv \in DrvType /\ drv.pc = "idle"
  <2> DEFINE z == << >>
  <2>1. drv = [pc |-> "idle", mrq |-> z, nr |-> 0, error |-> FALSE, cmd |-> "cmd",
               sg |-> z, buf |-> z, sent |-> 0, before |-> z,
               left |-> 0, blksize |-> 0, words |-> 0]
    BY DEF Init
  <2>2. /\ z \in Seq(Nat \ {0}) /\ z \in Seq(RegVal) /\ z \in Seq(Word)
        /\ z \in Requests \cup {<< >>}
    BY <1>5
  <2> HIDE DEF z
  <2> QED
    BY <2>1, <2>2 DEF DrvType
<1> QED
  BY <1>4, <1>6 DEF SInv, Agreed

\* An access to another device leaves the card alone.
LEMMA CardFrame ==
  ASSUME SInv, dev'["sdhci"] = dev["sdhci"], drv' = drv, panic' \/ ~panic
  PROVE  SInv'
BY DEF SInv

\* Every step keeps the agreement.
LEMMA NextSInv ==
  ASSUME DInv, InOnePiece, SInv, [Next]_vars
  PROVE  SInv'
<1>1. RInv /\ DOMAIN dev = Range(Order)
  BY DEF DInv
<1>2. /\ {"serial", "rtc", "sdhci"} \subseteq DOMAIN dev
      /\ \A d \in Driven : d \in {"serial", "rtc", "sdhci"}
  BY <1>1, DriverAssumption DEF Driven
<1>3. ASSUME NEW d \in {"serial", "rtc"}, NEW o \in 0 .. LastRegister(d), Booted,
             paddr_read(Low(d) + o) \/ \E v : paddr_write(Low(d) + o, v)
      PROVE  dev'["sdhci"] = dev["sdhci"]
  BY <1>1, <1>2, <1>3, AccessFrame DEF Driven
<1>4. /\ \A o \in {RX, IER, FCR, LCR, MCR, LSR} : o \in 0 .. LastRegister("serial")
      /\ \A o \in {0, 1} : o \in 0 .. LastRegister("rtc")
  BY DEF LastRegister, RX, IER, FCR, LCR, MCR, LSR
<1>5. CASE UNCHANGED <<dev, drv>> /\ (panic' \/ ~panic)
  BY <1>5, CardFrame
<1>6. CASE UNCHANGED vars
  BY <1>6 DEF vars, SInv
<1>7. CASE con_poll
  BY <1>3, <1>4, <1>7, CardFrame DEF con_poll, Running
<1>8. CASE con_recv
  BY <1>3, <1>4, <1>8, CardFrame DEF con_recv, Running
<1>9. CASE con_send
  BY <1>3, <1>4, <1>9, CardFrame DEF con_send, Running
<1>10. CASE con_setup
  BY <1>3, <1>4, <1>10, CardFrame DEF con_setup, Running
<1>11. CASE Type
  <2>1. dev'["sdhci"] = dev["sdhci"]
    BY <1>2, <1>11 DEF Type
  <2> QED
    BY <1>11, <2>1, CardFrame DEF Type, Running
<1>12. CASE clk_high
  BY <1>3, <1>4, <1>12, CardFrame DEF clk_high, Running
<1>13. CASE clk_low
  <2>1. Low("rtc") + 0 = Low("rtc")
    BY <1>1, Ends, DriverAssumption DEF Addr
  <2> QED
    BY <1>3, <1>4, <1>13, <2>1, CardFrame DEF clk_low, Running
<1>14. CASE nemu_request
  BY <1>14, CardRequested
<1>15. CASE write_arg
  BY <1>1, <1>2, <1>15, CardArgument
<1>16. CASE write_cmd
  BY <1>1, <1>2, <1>16, CardCommand
<1>17. CASE next_piece
  BY <1>17, CardPiece
<1>18. CASE read_word
  BY <1>1, <1>2, <1>18, CardReadsWord
<1>19. CASE write_word
  BY <1>1, <1>2, <1>19, CardWritesWord
<1>20. CASE read_response
  BY <1>1, <1>2, <1>20, CardResponse
<1>21. CASE (\E d \in Range(Order) : init_dev(d)) \/ Tick
  BY <1>5, <1>21 DEF init_dev, Tick, Running
<1> QED
  BY <1>6, <1>7, <1>8, <1>9, <1>10, <1>11, <1>12, <1>13, <1>14, <1>15, <1>16, <1>17, <1>18,
     <1>19, <1>20, <1>21 DEF Next

\* Multiplication distributes over addition.
LEMMA Distribute ==
  \A a, b, c \in Nat : (a + b) * c = a * c + b * c /\ a * c \in Nat /\ b * c \in Nat
OBVIOUS

\* A finished request.
LEMMA Finished == SInv => RequestsDoTheirBlocks
<1> SUFFICES ASSUME SInv, drv.pc = "done", ~panic
             PROVE  LET r == drv.mrq
                        img == dev["sdhci"].img
                        old == drv.before
                    IN /\ \A w \in DOMAIN old : w \notin Covered(r) \/ IsRead(r) => img[w] = old[w]
                       /\ IsRead(r) => img = old
                       /\ r.op = "SEND_EXT_CSD" /\ ~drv.error =>
                            drv.buf = [w \in 1 .. BlockWords |-> ExtCsd(w - 1)]
                       /\ dev["sdhci"].fp /\ ~drv.error /\ r.op = "READ_MULTIPLE_BLOCK" =>
                            /\ Len(drv.buf) = r.blocks * BlockWords
                            /\ \A w \in Covered(r) \cap DOMAIN old :
                                 drv.buf[w - r.blk * BlockWords] = old[w]
                       /\ dev["sdhci"].fp /\ ~drv.error /\ r.op = "WRITE_MULTIPLE_BLOCK" =>
                            \A w \in Covered(r) : img[w] = <<drv.nr, w - r.blk * BlockWords>>
                       /\ drv.error /\ ~IsRead(r) =>
                            \A w \in Covered(r) \cap DOMAIN img :
                              img[w][1] = drv.nr \/ (w \in DOMAIN old /\ img[w] = old[w])
  BY DEF RequestsDoTheirBlocks
<1> DEFINE s == dev["sdhci"]
           d == drv
           r == d.mrq
           F == First(d)
           n == r.blocks * BlockWords
<1>1. /\ s \in SdType /\ d \in DrvType /\ d.pc = "done" /\ r \in Requests
      /\ IF HasData(r) THEN Progress(s, d) /\ Total(s, d) ELSE Untouched(s, d)
  BY DEF SInv, Agreed, Ended
<1>2. /\ s.img \in Seq(Word) /\ d.before \in Seq(Word) /\ d.buf \in Seq(RegVal)
      /\ s.pos \in Nat /\ Len(s.img) \in Nat /\ Len(d.before) \in Nat /\ Len(d.buf) \in Nat
  <2>1. s.img \in Seq(Word) /\ s.pos \in Nat
    BY <1>1, Fields
  <2>2. d.before \in Seq(Word) /\ d.buf \in Seq(RegVal)
    BY <1>1 DEF DrvType
  <2> QED
    BY <2>1, <2>2
<1>3. F \in Nat /\ n \in Nat /\ F = r.blk * BlockWords /\ Covered(r) = F + 1 .. F + n
  <2>1. r.blk \in Nat /\ r.blocks \in Nat /\ BlockWords \in Nat
    BY <1>1, RequestType, BlockWordsAssumption
  <2>2. /\ (r.blk + r.blocks) * BlockWords = r.blk * BlockWords + n
        /\ r.blk * BlockWords \in Nat /\ n \in Nat
    BY <2>1, Distribute
  <2> QED
    BY <2>2 DEF Covered, First
<1> HIDE DEF s, d, F, n
<1>4. CASE ~HasData(r)
  <2>1. s.img = d.before /\ IsRead(r)
        /\ r.op \notin {"READ_MULTIPLE_BLOCK", "WRITE_MULTIPLE_BLOCK", "SEND_EXT_CSD"}
    BY <1>1, <1>4 DEF Untouched, HasData, IsRead
  <2> QED
    BY <2>1 DEF s, d
<1>5. CASE r.op = "READ_MULTIPLE_BLOCK"
  <2>1. ReadSoFar(s, d) /\ Share(d, Len(d.buf), n) /\ s.img = d.before /\ IsRead(r)
    BY <1>1, <1>5 DEF HasData, Progress, Total, ReadSoFar, Untouched, IsRead, n
  <2>2. ASSUME s.fp, ~d.error
        PROVE  /\ Len(d.buf) = n
               /\ \A w \in Covered(r) \cap DOMAIN d.before : d.buf[w - F] = d.before[w]
    <3>1. Len(d.buf) = n
      BY <2>1, <2>2 DEF Share
    <3>2. \A i \in 1 .. n : F + i <= Len(s.img) => d.buf[i] = s.img[F + i]
      BY <2>1, <2>2, <3>1 DEF ReadSoFar, F
    <3>3. ASSUME NEW w \in Covered(r) \cap DOMAIN d.before
          PROVE  d.buf[w - F] = d.before[w]
      <4>1. w - F \in 1 .. n /\ F + (w - F) = w /\ w <= Len(s.img)
        <5>1. w \in F + 1 .. F + n /\ w \in 1 .. Len(d.before)
          BY <1>2, <1>3, <3>3
        <5> QED
          BY <1>2, <1>3, <2>1, <5>1
      <4> QED
        BY <2>1, <3>2, <4>1
    <3> QED
      BY <3>1, <3>3
  <2> QED
    BY <1>3, <1>5, <2>1, <2>2 DEF s, d, n
<1>6. CASE r.op = "WRITE_MULTIPLE_BLOCK"
  <2>1. /\ WrittenSoFar(s, d) /\ (s.fp => Share(d, s.pos - F, n))
        /\ ~IsRead(r)
    BY <1>1, <1>6 DEF HasData, Progress, Total, IsRead, n, F
  <2>2. ~s.fp => s.img = d.before
    BY <2>1 DEF WrittenSoFar
  <2>3. ASSUME s.fp
        PROVE  /\ s.pos >= F /\ Len(d.before) <= Len(s.img)
               /\ s.pos > F => s.pos <= Len(s.img)
               /\ s.pos - F <= n /\ (~d.error => s.pos - F = n)
               /\ \A w \in 1 .. Len(s.img) :
                    IF w > F /\ w <= s.pos
                    THEN s.img[w][1] = d.nr /\ (~d.error => s.img[w] = <<d.nr, w - F>>)
                    ELSE /\ w <= Len(d.before) => s.img[w] = d.before[w]
                         /\ w > F => w <= Len(d.before)
    BY <2>1, <2>3 DEF WrittenSoFar, Share, F
  <2> DEFINE p == s.pos
             l == Len(s.img)
  <2>4. ASSUME NEW w \in DOMAIN d.before, w \notin Covered(r)
        PROVE  s.img[w] = d.before[w]
    <3>1. CASE ~s.fp
      BY <2>2, <3>1
    <3>2. CASE s.fp
      <4>1. w \in 1 .. Len(s.img) /\ w <= Len(d.before)
        BY <1>2, <2>3, <2>4, <3>2
      <4>2. ~(w > F /\ w <= s.pos)
        BY <1>2, <1>3, <2>3, <2>4, <3>2, <4>1
      <4> QED
        BY <2>3, <3>2, <4>1, <4>2
    <3> QED
      BY <3>1, <3>2
  <2>5. ASSUME s.fp, ~d.error, NEW w \in Covered(r)
        PROVE  s.img[w] = <<d.nr, w - F>>
    <3>1. w \in 1 .. Len(s.img) /\ w > F /\ w <= s.pos
      <4>1. w \in F + 1 .. F + n
        BY <1>3, <2>5
      <4>2. p - F = n /\ p >= F /\ (p > F => p <= l)
        BY <2>3, <2>5
      <4>3. p \in Nat /\ l \in Nat /\ F \in Nat /\ n \in Nat
        BY <1>2, <1>3
      <4> HIDE DEF p, l
      <4>4. w \in 1 .. l /\ w > F /\ w <= p
        BY <4>1, <4>2, <4>3
      <4> QED
        BY <4>4 DEF p, l
    <3> QED
      BY <2>3, <2>5, <3>1
  <2>6. ASSUME NEW w \in Covered(r) \cap DOMAIN s.img
        PROVE  s.img[w][1] = d.nr \/ (w \in DOMAIN d.before /\ s.img[w] = d.before[w])
    <3>1. CASE ~s.fp
      BY <2>2, <2>6, <3>1
    <3>2. CASE s.fp
      <4>1. w \in 1 .. Len(s.img) /\ w > F
        BY <1>2, <1>3, <2>6
      <4>2. w <= Len(d.before) => w \in DOMAIN d.before
        BY <1>2, <4>1
      <4> QED
        BY <2>3, <3>2, <4>1, <4>2
    <3> QED
      BY <3>1, <3>2
  <2> QED
    BY <1>3, <1>6, <2>1, <2>4, <2>5, <2>6 DEF s, d
<1>7. CASE r.op = "SEND_EXT_CSD"
  <2>1. ExtSoFar(s, d) /\ Len(d.buf) = BlockWords /\ IsRead(r)
    BY <1>1, <1>7 DEF HasData, Progress, Total, IsRead
  <2>2. s.img = d.before /\ \A i \in 1 .. BlockWords : d.buf[i] = ExtCsd(i - 1)
    BY <2>1 DEF ExtSoFar
  <2>3. d.buf = [w \in 1 .. BlockWords |-> ExtCsd(w - 1)]
    <3>1. DOMAIN d.buf = 1 .. BlockWords /\ d.buf = [w \in DOMAIN d.buf |-> d.buf[w]]
      BY <1>2, <2>1
    <3> QED
      BY <2>2, <3>1
  <2> QED
    BY <1>7, <2>1, <2>2, <2>3 DEF s, d
<1> QED
  BY <1>4, <1>5, <1>6, <1>7 DEF HasData

(* For every image, every list of requests and of pieces of memory, every  *)
(* block size: what a finished request has moved, whatever came before it  *)
(* and whatever other drivers did in between (sdcard.c:51,90), where no    *)
(* device with a driver wraps around the address space.                    *)
THEOREM RequestsAlwaysDoTheirBlocks == Spec => [](InOnePiece => RequestsDoTheirBlocks)
<1> DEFINE Inv == DInv /\ (InOnePiece => SInv)
<1>1. Init => Inv
  BY InitDInv, InitSInv
<1>2. Inv /\ [Next]_vars => Inv'
  <2>1. [Next]_vars => config' = config
    BY DEF Next, vars, init_dev, con_poll, con_recv, con_send, con_setup, Type, clk_high, clk_low,
       Tick, nemu_request, write_arg, write_cmd, next_piece, read_word, write_word, read_response
  <2>2. config' = config => InOnePiece' = InOnePiece
    BY DEF InOnePiece, Low
  <2> QED
    BY <2>1, <2>2, NextDInv, NextSInv
<1>3. Inv => (InOnePiece => RequestsDoTheirBlocks)
  BY Finished
<1> QED
  BY <1>1, <1>2, <1>3, PTL DEF Spec
=============================================================================
