----------------------------- MODULE GdbRemote ------------------------------
(***************************************************************************)
(* The QEMU reference: tools/qemu-diff speaks the gdb remote protocol to a *)
(* QEMU it forked.  A call of the differential-testing interface           *)
(* (diff-test.c) becomes gdb commands (gdb-host.c), each of them a packet  *)
(* that is sent until it is acknowledged and a reply that is asked for     *)
(* again until its checksum is right (protocol.c).  QEMU is external, and  *)
(* modelled from how the client uses it: it acknowledges, executes, sends  *)
(* the reply, and sends it again when it is refused.  The connection may   *)
(* damage the body of a packet, never its framing, and QEMU may die.       *)
(***************************************************************************)
EXTENDS Integers, Sequences, SequencesExt

CONSTANTS Calls, NoCall,
          MemSize,      \* cells of the reference's memory
          MTU,          \* cells of memory in a packet: 1500 bytes
          MaxCalls, MaxBad

ASSUME MtuAssumption == MTU \in Nat \ {0} /\ MemSize \in Nat

\* The calls of difftest-def.h, with words of two bytes.
ASSUME CallsAssumption ==
  /\ NoCall \notin Calls
  /\ \A c \in Calls : \/ c.op = "exec" /\ c.n \in Nat
                      \/ c.op = "memcpy" /\ c.addr \in Nat /\ c.buf \in Seq(0 .. 255)
                      \/ c.op = "to_ref" /\ c.pc \in Nat /\ c.pc < 65536
                      \/ c.op = "to_dut"

VARIABLES client,       \* where the client stands
          c2s, s2c,     \* the connection: packets and acknowledgements, bytes
          qemu,         \* the server
          before,       \* the reference when the call came (history)
          calls, bad    \* calls made and packets damaged, for the bounds

vars == <<client, c2s, s2c, qemu, before, calls, bad>>
-----------------------------------------------------------------------------
\* Characters.
PLUS == 43
MINUS == 45
DOLLAR == 36
HASH == 35
STAR == 42
ESC == 125
isxdigit(c) == c \in 48 .. 57 \cup 65 .. 70 \cup 97 .. 102
hex_encode(d) == IF d > 9 THEN 97 + d - 10 ELSE 48 + d
hex_nibble(c) == CASE c \in 48 .. 57 -> c - 48
                   [] c \in 65 .. 70 -> c - 65 + 10
                   [] OTHER          -> c - 97 + 10
gdb_decode_hex(msb, lsb) == IF isxdigit(msb) /\ isxdigit(lsb)
                            THEN 16 * hex_nibble(msb) + hex_nibble(lsb) ELSE 65535

\* A word of two bytes, the low one first, as four digits and back.
HexByte(b) == <<hex_encode(b \div 16), hex_encode(b % 16)>>
HexWord(w) == HexByte(w % 256) \o HexByte(w \div 256)
gdb_decode_hex_str(s) == gdb_decode_hex(s[1], s[2]) + 256 * gdb_decode_hex(s[3], s[4])
HexRegs(regs) == HexWord(regs[1]) \o HexWord(regs[2])
DecodeRegs(s) == [i \in 1 .. 2 |-> gdb_decode_hex_str(SubSeq(s, 4 * i - 3, 4 * i))]

Sums(s) == LET sum[i \in 0 .. Len(s)] == IF i = 0 THEN 0 ELSE (sum[i - 1] + s[i]) % 256
           IN sum
Sum(s) == Sums(s)[Len(s)]

\* recv_packet, one character at a time: "seek" waits for the first '$', in
\* "count" the character after a '*' is due, "sum" takes the two digits.
Start == [mode |-> "body", reply |-> << >>, sum |-> 0, escape |-> FALSE, digits |-> << >>]
AddChar(s, c) == [s EXCEPT !.reply = Append(@, IF s.escape THEN (IF (c \div 32) % 2 = 1
                                                                 THEN c - 32 ELSE c + 32)
                                               ELSE c),
                           !.escape = FALSE]
Body(s, c) ==
  CASE c = DOLLAR -> Start
    [] c = HASH   -> [s EXCEPT !.mode = "sum"]
    [] c = ESC    -> [s EXCEPT !.escape = TRUE, !.sum = (@ + c) % 256]
    [] c = STAR /\ s.reply # << >> -> [s EXCEPT !.mode = "count", !.sum = (@ + c) % 256]
    [] OTHER      -> AddChar([s EXCEPT !.sum = (@ + c) % 256], c)
Repeat(s, c) ==
  IF c < 29 \/ c > 126 \/ c \in {DOLLAR, HASH}
  THEN Body(AddChar([s EXCEPT !.mode = "body"], STAR), c)
  ELSE [s EXCEPT !.mode = "body", !.sum = (@ + c) % 256,
                 !.reply = @ \o [i \in 1 .. c - 29 |-> Last(s.reply)]]
RecvChar(s, c) == CASE s.mode = "seek"  -> IF c = DOLLAR THEN Start ELSE s
                    [] s.mode = "body"  -> Body(s, c)
                    [] s.mode = "count" -> Repeat(s, c)
                    [] OTHER            -> [s EXCEPT !.digits = Append(@, c)]
Seek == [Start EXCEPT !.mode = "seek"]
sum_ok(p) == p.sum = gdb_decode_hex(p.digits[1], p.digits[2])

\* send_packet, and a reply of the server: in full, with the first run of a
\* character shortened, or with the first character escaped.
Frame(body) == <<DOLLAR>> \o body \o <<HASH>> \o HexByte(Sum(body))
Run(s) == CHOOSE n \in 1 .. Len(s) : /\ \A i \in 1 .. n : s[i] = s[1]
                                     /\ n = Len(s) \/ s[n + 1] # s[1]
RunLength(s) == LET n == Run(s) IN
  IF n < 4 \/ n - 1 + 29 \in {DOLLAR, HASH} THEN s
  ELSE <<s[1], STAR, n - 1 + 29>> \o SubSeq(s, n + 1, Len(s))
Escaped(s) == <<ESC, IF (s[1] \div 32) % 2 = 1 THEN s[1] - 32 ELSE s[1] + 32>> \o Tail(s)
Encodings(s) == {s, RunLength(s), Escaped(s)}
OK == <<79, 75>>
E14 == <<69, 49, 52>>
T05 == <<84, 48, 53>>
-----------------------------------------------------------------------------
\* The commands a call becomes.
gdb_si == [cmd |-> "s"]
gdb_getregs == [cmd |-> "g"]
gdb_setregs == [cmd |-> "G"]
small(dest, buf) == [cmd |-> "M", dest |-> dest, buf |-> buf]
Chunks(len) == IF len = 0 THEN 1 ELSE (len + MTU - 1) \div MTU
gdb_memcpy_to_qemu(dest, buf) ==
  [k \in 1 .. Chunks(Len(buf)) |->
     small(dest + (k - 1) * MTU, SubSeq(buf, (k - 1) * MTU + 1,
                                   IF k * MTU < Len(buf) THEN k * MTU ELSE Len(buf)))]
Commands(c) == CASE c.op = "exec"   -> [i \in 1 .. c.n |-> gdb_si]
                 [] c.op = "memcpy" -> gdb_memcpy_to_qemu(c.addr, c.buf)
                 [] c.op = "to_ref" -> <<gdb_getregs, gdb_setregs>>
                 [] OTHER           -> <<gdb_getregs>>

\* difftest_init: QEMU is forked, and the client connects as soon as it can.
Connect == /\ client.pc = "connect" /\ qemu.state = "listening"
           /\ c2s' = Append(c2s, [cmd |-> "+"])      \* gdb_begin
           /\ client' = [client EXCEPT !.pc = "idle"]
           /\ UNCHANGED <<s2c, qemu, before, calls, bad>>

Invoke == /\ client.pc = "idle" /\ calls < MaxCalls
          /\ \E c \in Calls :
               client' = [client EXCEPT !.call = c, !.todo = Commands(c),
                                        !.pc = IF Commands(c) = << >> THEN "return" ELSE "send"]
          /\ before' = qemu.ref /\ calls' = calls + 1
          /\ UNCHANGED <<c2s, s2c, qemu, bad>>

\* The G command carries the caller's registers, and QEMU's own for the rest.
NewRegs == <<client.call.pc, client.qemu_r[2]>>
Payload(c) == CASE c.cmd = "G" -> HexRegs(NewRegs)
                [] c.cmd = "M" -> [i \in 1 .. 2 * Len(c.buf) |->
                                     HexByte(c.buf[(i + 1) \div 2])[IF i % 2 = 1 THEN 1 ELSE 2]]
                [] OTHER       -> << >>
Packet == [cmd |-> Head(client.todo).cmd, bad |-> FALSE, data |-> Payload(Head(client.todo)),
           dest |-> IF Head(client.todo).cmd = "M" THEN Head(client.todo).dest ELSE 0]

\* gdb_send: the packet; a connection QEMU has left takes one more write
\* before the next one ends the client (SIGPIPE) ...
send_packet == /\ client.pc = "send" /\ ~client.reset
               /\ IF qemu.state = "dead"
                  THEN UNCHANGED c2s /\ client' = [client EXCEPT !.pc = "ack", !.reset = TRUE]
                  ELSE c2s' = Append(c2s, Packet) /\ client' = [client EXCEPT !.pc = "ack"]
               /\ UNCHANGED <<s2c, qemu, before, calls, bad>>
sigpipe == /\ client.pc = "send" /\ client.reset
           /\ client' = [client EXCEPT !.pc = "exit"]
           /\ UNCHANGED <<c2s, s2c, qemu, before, calls, bad>>
\* ... and one character: anything but '+', the end of file too, sends again.
gdb_send_ack_Any(c) == IF c = -1 THEN "send" ELSE "recv"
gdb_send_ack(c) == IF c = PLUS THEN "recv" ELSE "send"
get_ack == /\ client.pc = "ack"
           /\ \/ /\ s2c # << >> /\ s2c' = Tail(s2c)
                 /\ client' = [client EXCEPT !.pc = gdb_send_ack(Head(s2c))]
              \/ /\ s2c = << >> /\ qemu.state = "dead" /\ UNCHANGED s2c
                 /\ client' = [client EXCEPT !.pc = gdb_send_ack(-1)]
           /\ UNCHANGED <<c2s, qemu, before, calls, bad>>

\* What is done with the reply.  Only memcpy cares whether it is OK.
AfterReply(reply) ==
  LET cmd == Head(client.todo).cmd
      c   == [client EXCEPT !.todo = Tail(@),
                            !.ok = @ /\ (cmd = "M" => reply = OK),
                            !.qemu_r = IF cmd = "g" THEN DecodeRegs(reply) ELSE @]
  IN [c EXCEPT !.pc = IF c.todo # << >> THEN "send" ELSE "return"]

\* gdb_recv: a packet with the wrong checksum is refused and awaited again.
recv_char ==
  /\ client.pc = "recv" /\ s2c # << >> /\ s2c' = Tail(s2c)
  /\ LET p == RecvChar(client.p, Head(s2c)) IN
       IF Len(p.digits) < 2
       THEN client' = [client EXCEPT !.p = p] /\ UNCHANGED c2s
       ELSE /\ c2s' = Append(c2s, [cmd |-> IF sum_ok(p) THEN "+" ELSE "-"])
            /\ client' = [(IF sum_ok(p) THEN AfterReply(p.reply) ELSE client) EXCEPT !.p = Seek]
  /\ UNCHANGED <<qemu, before, calls, bad>>
recv_eof == /\ client.pc = "recv" /\ s2c = << >> /\ qemu.state = "dead"
            /\ client' = [client EXCEPT !.pc = "exit"]
            /\ UNCHANGED <<c2s, s2c, qemu, before, calls, bad>>

\* The call returns, or its assertion fails.
Return == /\ client.pc = "return"
          /\ client' = IF client.call.op = "memcpy" /\ ~client.ok
                       THEN [client EXCEPT !.pc = "exit"]
                       ELSE [client EXCEPT !.pc = "idle", !.call = NoCall,
                               !.ret = IF client.call.op = "to_dut"
                                       THEN client.qemu_r[1] ELSE 0,
                               !.qemu_r = <<0, 0>>]
          /\ UNCHANGED <<c2s, s2c, qemu, before, calls, bad>>
-----------------------------------------------------------------------------
\* QEMU's gdb stub (external).
Listen == /\ qemu.state = "starting"
          /\ qemu' = [qemu EXCEPT !.state = "listening"]
          /\ UNCHANGED <<client, c2s, s2c, before, calls, bad>>

InMemory(p) == p.dest + Len(p.data) \div 2 <= MemSize
Executed(p, r) ==
  CASE p.cmd = "s" -> [r EXCEPT !.regs = <<(@[1] + 1) % 65536, (@[2] + 1) % 65536>>]
    [] p.cmd = "G" -> [r EXCEPT !.regs = [i \in 1 .. 2 |->
                         gdb_decode_hex(p.data[4 * i - 3], p.data[4 * i - 2])
                           + 256 * gdb_decode_hex(p.data[4 * i - 1], p.data[4 * i])]]
    [] p.cmd = "M" /\ InMemory(p) -> [r EXCEPT !.mem = [a \in DOMAIN @ |->
                         IF a \in p.dest .. p.dest + Len(p.data) \div 2 - 1
                         THEN LET k == 2 * (a - p.dest) + 1
                              IN gdb_decode_hex(p.data[k], p.data[k + 1])
                         ELSE r.mem[a]]]
    [] OTHER -> r
ReplyTo(p) == CASE p.cmd = "g" -> HexRegs(qemu.ref.regs)
                [] p.cmd = "G" -> OK
                [] p.cmd = "M" -> IF InMemory(p) THEN OK ELSE E14
                [] OTHER       -> T05

Serve == /\ qemu.state = "listening" /\ c2s # << >> /\ c2s' = Tail(c2s)
         /\ LET p == Head(c2s) IN
              CASE p.cmd = "+" -> UNCHANGED <<s2c, qemu>>
                [] p.cmd = "-" -> s2c' = s2c \o qemu.last /\ qemu' = [qemu EXCEPT !.hit = FALSE]
                [] p.cmd \notin {"+", "-"} /\ p.bad ->
                     s2c' = Append(s2c, MINUS) /\ UNCHANGED qemu
                [] OTHER -> \E e \in Encodings(ReplyTo(p)) :
                              /\ s2c' = s2c \o <<PLUS>> \o Frame(e)
                              /\ qemu' = [qemu EXCEPT !.ref = Executed(p, @), !.last = Frame(e), !.hit = FALSE]
         /\ UNCHANGED <<client, before, calls, bad>>

\* The faults: a damaged command, a damaged reply (one character, once: the
\* checksum cannot see two that cancel out), and the death of QEMU.
DamageCommand == /\ bad < MaxBad /\ bad' = bad + 1
                 /\ \E i \in DOMAIN c2s : /\ c2s[i].cmd \notin {"+", "-"} /\ ~c2s[i].bad
                                          /\ c2s' = [c2s EXCEPT ![i].bad = TRUE]
                 /\ UNCHANGED <<client, s2c, qemu, before, calls>>
DamageReply == /\ bad < MaxBad /\ bad' = bad + 1
               /\ ~qemu.hit /\ qemu' = [qemu EXCEPT !.hit = TRUE]
               /\ \E k \in DOMAIN s2c :
                    /\ {s2c[k], s2c[k] + 1} \cap {DOLLAR, HASH, PLUS} = {}
                    /\ s2c' = [s2c EXCEPT ![k] = @ + 1]
               /\ UNCHANGED <<client, c2s, before, calls>>
Crash == /\ qemu.state = "listening" /\ client.pc # "connect"
         /\ qemu' = [qemu EXCEPT !.state = "dead"]
         /\ c2s' = << >>
         /\ UNCHANGED <<client, s2c, before, calls, bad>>
-----------------------------------------------------------------------------
Init == /\ client = [pc |-> "connect", call |-> NoCall, todo |-> << >>, ok |-> TRUE,
                     qemu_r |-> <<0, 0>>, ret |-> 0, reset |-> FALSE, p |-> Seek]
        /\ c2s = << >> /\ s2c = << >>
        /\ qemu = [state |-> "starting", last |-> << >>, hit |-> FALSE,
                   ref |-> [regs |-> <<0, 0>>, mem |-> [a \in 0 .. MemSize - 1 |-> 0]]]
        /\ before = qemu.ref /\ calls = 0 /\ bad = 0

Client == Connect \/ send_packet \/ sigpipe \/ get_ack \/ recv_char \/ recv_eof \/ Return
Next == Client \/ Invoke \/ Listen \/ Serve \/ DamageCommand \/ DamageReply \/ Crash

\* The client and QEMU are processes the host schedules.
Spec == Init /\ [][Next]_vars /\ WF_vars(Client) /\ WF_vars(Listen) /\ WF_vars(Serve)
-----------------------------------------------------------------------------
Ref == INSTANCE RefApi WITH
         ref  <- IF client.call = NoCall THEN qemu.ref ELSE before,
         call <- client.call, ret <- client.ret, up <- client.pc # "exit"

(* Each call of the differential-testing interface acts on the reference   *)
(* exactly once and returns what the reference holds, and it returns or    *)
(* the emulator ends - however often packets are damaged and sent again    *)
(* (gdb_send, gdb_recv), however a buffer falls into packets               *)
(* (gdb_memcpy_to_qemu), and although setting the compared registers takes *)
(* a read and a write of all of them (difftest_regcpy).                    *)
ImplementsReference == Ref!Spec
=============================================================================
