------------------------------- MODULE Serial -------------------------------
(***************************************************************************)
(* The 8250-like serial port of src/device/serial.c and the real-time      *)
(* clock of src/device/timer.c: what their callbacks do to the device page *)
(* `base` and to the host.  The values are the bytes of the registers; the *)
(* clock counts in words of TimeLow ticks (2^32 microseconds in the code). *)
(***************************************************************************)
EXTENDS Integers, Sequences

CONSTANT TimeLow      \* ticks per unit of the high word of the clock

ASSUME TimeLowAssumption == TimeLow \in Nat \ {0}

\* linux/serial_reg.h
RX  == 0
IER == 1
FCR == 2
LCR == 3
MCR == 4
LSR == 5
MSR == 6
WLEN8 == 3
DR    == 1
READY == 96           \* UART_LSR_TEMT | UART_LSR_THRE

\* A port on a standard input that holds `in`; `tty` when it can be written.
serial_init(tty, in) ==
  [base |-> [r \in 0 .. 7 |-> IF r = LSR THEN READY ELSE 0],
   stdin |-> in, tty |-> tty, is_eofd |-> FALSE, out |-> << >>]

\* -1, 0 or 1, and the end of file noticed on the way.
AtEof(s) == Len(s.stdin) = 0 /\ ~s.tty
NoteEof(s) == [s EXCEPT !.is_eofd = @ \/ AtEof(s)]
IsKBHit(s) == CASE s.is_eofd \/ AtEof(s) -> -1
                [] OTHER                 -> IF Len(s.stdin) > 0 THEN 1 ELSE 0

ReadKBByte(s) ==
  IF s.is_eofd \/ s.stdin = << >> THEN s
  ELSE [s EXCEPT !.base[RX] = Head(s.stdin), !.stdin = Tail(s.stdin)]

serial_putc(s) == [s EXCEPT !.out = Append(@, s.base[RX])]
serial_getc_Peeks(s) ==
  LET t == NoteEof(s) IN IF IsKBHit(s) = 1 THEN [ReadKBByte(t) EXCEPT !.stdin = t.stdin] ELSE t
serial_getc(s) == LET t == NoteEof(s) IN IF IsKBHit(s) # 0 THEN ReadKBByte(t) ELSE t

\* x | IsKBHit() in a byte, for x with the lowest bit clear.
LineStatus(s) == LET hit == IsKBHit(s) IN IF hit = -1 THEN 255 ELSE READY + hit

serial_io_handler(s, offset, is_write) ==
  CASE offset = RX  -> IF is_write THEN serial_putc(s) ELSE serial_getc(s)
    [] offset = LSR -> IF is_write THEN s
                       ELSE [NoteEof(s) EXCEPT !.base[LSR] = LineStatus(s)]
    [] offset = LCR -> IF is_write /\ s.base[LCR] = WLEN8
                       THEN [s EXCEPT !.base[LCR] = 0] ELSE s
    [] OTHER        -> [s EXCEPT !.base[offset] = 0]
-----------------------------------------------------------------------------
rtc_init == [base |-> [r \in 0 .. 1 |-> 0]]

\* A read of the high word takes the time for both words.
rtc_io_handler_EachWord(s, offset, is_write, us) ==
  IF is_write THEN s
  ELSE [s EXCEPT !.base[offset] = IF offset = 0 THEN us % TimeLow ELSE us \div TimeLow]
rtc_io_handler(s, offset, is_write, us) ==
  IF is_write \/ offset # 1 THEN s
  ELSE [s EXCEPT !.base = [r \in 0 .. 1 |->
                             IF r = 0 THEN us % TimeLow ELSE us \div TimeLow]]
=============================================================================
