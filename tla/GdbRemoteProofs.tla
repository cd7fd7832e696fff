--------------------------- MODULE GdbRemoteProofs ---------------------------
(***************************************************************************)
(* For every set of calls, packet size and memory, however often packets   *)
(* are damaged and sent again: gdb-host.c and protocol.c carry out each    *)
(* call of the differential-testing interface once and return what it      *)
(* should (the safety half of ImplementsReference).                        *)
(***************************************************************************)
EXTENDS GdbRemote, SequenceTheorems, WellFoundedInduction, TLAPS

-----------------------------------------------------------------------------
\* The inductive invariant.

Byte == 0 .. 255
Reg == {w \in Nat : w < 65536}
Reference == [regs : Reg \X Reg, mem : [0 .. MemSize - 1 -> Byte]]
Command == [cmd : {"s", "g", "G"}] \cup [cmd : {"M"}, dest : Nat, buf : Seq(Byte)]
Message == [cmd : {"+", "-"}]
             \cup [cmd : {"s", "g", "G", "M"}, bad : BOOLEAN, data : Seq(Nat), dest : Nat]
Parser == [mode : {"seek", "body", "count", "sum"}, reply : Seq(Nat), sum : Byte,
           escape : BOOLEAN, digits : Seq(Nat)]

Clients == [pc : {"connect", "idle", "send", "ack", "recv", "return", "exit"},
            call : Calls \cup {NoCall}, todo : Seq(Command), ok : BOOLEAN,
            qemu_r : Reg \X Reg, ret : Reg, reset : BOOLEAN, p : Parser]
Servers == [state : {"starting", "listening", "dead"}, last : Seq(Nat), hit : BOOLEAN,
            ref : Reference]
TypeOK ==
  /\ client \in Clients /\ c2s \in Seq(Message) /\ s2c \in Seq(Nat) /\ qemu \in Servers
  /\ before \in Reference

\* A call after i of its commands.
Fits(m) == m.dest + Len(m.buf) <= MemSize
AllFit(c, i) == \A k \in 1 .. i : Fits(Commands(c)[k])
Moved(c, i) == IF i * MTU < Len(c.buf) THEN i * MTU ELSE Len(c.buf)
Stage(c, b, i, r) ==
  /\ c.op = "exec" => r = [b EXCEPT !.regs = <<(@[1] + i) % 65536, (@[2] + i) % 65536>>]
  /\ c.op = "memcpy" =>
       /\ r.regs = b.regs
       /\ AllFit(c, i) =>
            \A a \in 0 .. MemSize - 1 :
              r.mem[a] = IF a \in c.addr .. c.addr + Moved(c, i) - 1
                         THEN c.buf[a - c.addr + 1] ELSE b.mem[a]
  /\ c.op = "to_ref" => r = IF i = 2 THEN [b EXCEPT !.regs = <<c.pc, @[2]>>] ELSE b
  /\ c.op = "to_dut" => r = b

Count == Len(Commands(client.call))
Done == Count - Len(client.todo)
Calling ==
  /\ client.call \in Calls /\ Done >= 0
  /\ client.todo = SubSeq(Commands(client.call), Done + 1, Count)
  /\ client.call.op \in {"to_ref", "to_dut"} /\ Done >= 1 => client.qemu_r = before.regs
  /\ client.call.op = "memcpy" /\ client.ok = TRUE => AllFit(client.call, Done)
  /\ client.call.op # "memcpy" => client.ok = TRUE

\* The connection.
Pluses(q) == \A j \in DOMAIN q : q[j].cmd = "+"
Ends(q, m) == q # << >> /\ q[Len(q)] = m /\ Pluses(SubSeq(q, 1, Len(q) - 1))
Wire(f, k) == IF k = 0 THEN f ELSE [f EXCEPT ![k] = @ + 1]
Hittable(f, k) == k = 0 \/ (k \in DOMAIN f /\ {f[k], f[k] + 1} \cap {DOLLAR, HASH, PLUS} = {})

\* The parser after m characters of the body, undamaged and damaged.
Controlled(e, m, p) ==
  /\ p.digits = << >>
  /\ p.mode = IF m = 2 /\ e[2] = STAR THEN "count" ELSE "body"
  /\ m >= 1 /\ e[1] # ESC => p.reply # << >>
Whole(r, e, m, p) == e = r /\ p.escape = FALSE /\ p.reply = SubSeq(r, 1, m)
Flipped(r, e, m, p) ==
  /\ e = Escaped(r)
  /\ p.escape = IF m = 1 THEN TRUE ELSE FALSE
  /\ p.reply = SubSeq(r, 1, m - 1)
Shortened(r, e, m, p) ==
  /\ e = RunLength(r) /\ e # r /\ p.escape = FALSE
  /\ p.reply = SubSeq(r, 1, IF m = 0 THEN 0 ELSE IF m <= 2 THEN 1 ELSE Run(r) + m - 3)
Decoded(r, e, m, p) == Whole(r, e, m, p) \/ Flipped(r, e, m, p) \/ Shortened(r, e, m, p)
\* The parser after n characters of a frame whose character k is damaged.
Taken(r, e, k, n, p) ==
  LET L == Len(e)
      m == IF n <= L + 1 THEN n - 1 ELSE L
      f == Wire(Frame(e), k)
  IN  IF n = 0 THEN p = Seek
      ELSE /\ p.sum = (Sums(e)[m] + (IF k \in 2 .. m + 1 THEN 1 ELSE 0)) % 256
           /\ k > n \/ k = 0 => Decoded(r, e, m, p)
           /\ n <= L + 1 => Controlled(e, m, p)
           /\ n > L + 1 => p.mode = "sum" /\ p.digits = SubSeq(f, L + 3, n)

\* QEMU's last frame, as it may lie in the connection.
Reply == ReplyTo(Packet)
Sent(q, r, e, k) == /\ e \in Encodings(r) /\ q.last = Frame(e)
                    /\ k \in 0 .. Len(Frame(e)) /\ Hittable(Frame(e), k)
                    /\ k # 0 => q.hit = TRUE

AtSend == s2c = << >> /\ Pluses(c2s) /\ client.p = Seek
AtAck ==
  /\ client.p = Seek
  /\ \/ /\ Stage(client.call, before, Done, qemu.ref)
        /\ \/ s2c = << >> /\ qemu.state = "dead" /\ Pluses(c2s)
           \/ /\ s2c = << >> /\ qemu.state # "dead"
              /\ \E b \in BOOLEAN : Ends(c2s, [Packet EXCEPT !.bad = b])
           \/ Len(s2c) = 1 /\ s2c[1] # PLUS /\ Pluses(c2s)
     \/ /\ Stage(client.call, before, Done + 1, qemu.ref) /\ Pluses(c2s)
        /\ \E e \in Encodings(Reply), k \in 0 .. Len(qemu.last) :
             Sent(qemu, Reply, e, k) /\ s2c = <<PLUS>> \o Wire(Frame(e), k)
AtRecv ==
  /\ Stage(client.call, before, Done + 1, qemu.ref)
  /\ \/ /\ Pluses(c2s)
        /\ \E e \in Encodings(Reply), k \in 0 .. Len(qemu.last),
              n \in 0 .. Len(qemu.last) - 1 :
             /\ Sent(qemu, Reply, e, k) /\ s2c = SubSeq(Wire(Frame(e), k), n + 1, Len(Frame(e)))
             /\ Taken(Reply, e, k, n, client.p)
     \/ /\ s2c = << >> /\ client.p = Seek
        /\ qemu.state = "dead" \/ Ends(c2s, [cmd |-> "-"])
        /\ \E e \in Encodings(Reply) : qemu.last = Frame(e)

GInv ==
  /\ TypeOK
  /\ client.reset = TRUE => qemu.state = "dead"
  /\ client.pc = "connect" => qemu.state # "dead"
  /\ client.pc \in {"connect", "idle"} => client.call = NoCall /\ client.ok = TRUE /\ AtSend
  /\ client.pc \in {"send", "ack", "recv"} => Calling /\ client.todo # << >>
  /\ client.pc = "send" => AtSend /\ Stage(client.call, before, Done, qemu.ref)
  /\ client.pc = "ack" => AtAck
  /\ client.pc = "recv" => AtRecv
  /\ client.pc = "return" => Calling /\ client.todo = << >> /\ AtSend
                             /\ Stage(client.call, before, Done, qemu.ref)
  /\ client.pc = "exit" => client.call \in Calls /\ (qemu.state = "dead" \/ Pluses(c2s))

-----------------------------------------------------------------------------
\* Checksums.

\* Induction over the natural numbers, stated of sets.
LEMMA Induction ==
  ASSUME NEW T \in SUBSET Nat, 0 \in T, \A n \in T : n + 1 \in T
  PROVE  T = Nat
<1> DEFINE R == {p \in Nat \X Nat : p[1] < p[2]}
           S == Nat \ T
<1>1. OpToRel(<, Nat) = R
  BY DEF OpToRel
<1>2. IsWellFoundedOn(R, Nat)
  BY <1>1, NatLessThanWellFounded
<1>3. SUFFICES ASSUME S # {} PROVE FALSE
  OBVIOUS
<1>4. PICK i \in S : \A j \in S : <<j, i>> \notin R
  BY <1>2, <1>3, WFMin
<1>5. i \in Nat /\ i # 0 /\ i - 1 \in Nat /\ (i - 1) + 1 = i
  OBVIOUS
<1>6. i - 1 \notin T
  BY <1>5
<1>7. <<i - 1, i>> \in Nat \X Nat /\ <<i - 1, i>>[1] < <<i - 1, i>>[2]
  BY <1>5
<1> QED
  BY <1>4, <1>5, <1>6, <1>7

\* Sums of bytes are bytes.
LEMMA Bytes ==
  /\ 0 \in Byte /\ Byte \subseteq Nat
  /\ \A a \in Byte, b \in Nat : (a + b) % 256 \in Byte
<1>1. ASSUME NEW a \in Byte, NEW b \in Nat
      PROVE  (a + b) % 256 \in Byte
  <2>1. a + b \in Nat
    BY DEF Byte
  <2> DEFINE c == a + b
  <2> HIDE DEF c
  <2>2. c % 256 \in Int /\ 0 <= c % 256 /\ c % 256 <= 255
    BY <2>1 DEF c
  <2> QED
    BY <2>2 DEF Byte, c
<1>2. 0 \in Byte /\ Byte \subseteq Nat
  BY DEF Byte
<1> QED
  BY <1>1, <1>2

\* The recursive definition of the checksum has a value.
LEMMA SumsExist ==
  ASSUME NEW L \in Nat, NEW s \in [1 .. L -> Nat]
  PROVE  \E g \in [0 .. L -> Byte] :
           g[0] = 0 /\ \A i \in 1 .. L : g[i] = (g[i - 1] + s[i]) % 256
<1> DEFINE Is(g, n) == /\ g \in [0 .. n -> Byte] /\ g[0] = 0
                       /\ \A i \in 1 .. n : g[i] = (g[i - 1] + s[i]) % 256
           T == {n \in Nat : n <= L => \E g : Is(g, n)}
<1>1. 0 \in T
  <2>1. Is([i \in 0 .. 0 |-> 0], 0)
    BY Bytes
  <2> HIDE DEF Is
  <2> QED
    BY <2>1
<1>2. ASSUME NEW n \in T
      PROVE  n + 1 \in T
  <2> HIDE DEF Is
  <2>1. n \in Nat /\ (n <= L => \E g : Is(g, n))
    OBVIOUS
  <2>2. SUFFICES ASSUME n + 1 <= L
                 PROVE  \E h : Is(h, n + 1)
    BY <2>1
  <2>3. PICK g : Is(g, n)
    BY <2>1, <2>2
  <2> HIDE DEF T
  <2>4. /\ g \in [0 .. n -> Byte] /\ g[0] = 0
        /\ \A i \in 1 .. n : g[i] = (g[i - 1] + s[i]) % 256
    BY <2>3 DEF Is
  <2> DEFINE h == [i \in 0 .. n + 1 |-> IF i <= n THEN g[i] ELSE (g[n] + s[n + 1]) % 256]
  <2>5. g[n] \in Byte /\ s[n + 1] \in Nat
    BY <2>1, <2>2, <2>4
  <2>6. (g[n] + s[n + 1]) % 256 \in Byte
    BY <2>5, Bytes
  <2>7. h \in [0 .. n + 1 -> Byte] /\ h[0] = 0
    BY <2>1, <2>4, <2>6
  <2>8. ASSUME NEW i \in 1 .. n + 1
        PROVE  h[i] = (h[i - 1] + s[i]) % 256
    <3>1. CASE i <= n
      <4>1. h[i] = g[i] /\ h[i - 1] = g[i - 1] /\ i \in 1 .. n
        BY <2>1, <3>1
      <4>2. g[i] = (g[i - 1] + s[i]) % 256
        BY <2>4, <4>1
      <4> HIDE DEF h
      <4> QED
        BY <4>1, <4>2
    <3>2. CASE i = n + 1
      <4>1. h[i] = (g[n] + s[n + 1]) % 256 /\ h[i - 1] = g[n]
        BY <2>1, <3>2
      <4> QED
        BY <3>2, <4>1
    <3> QED
      BY <2>1, <3>1, <3>2
  <2> HIDE DEF h
  <2>9. Is(h, n + 1)
    BY <2>7, <2>8 DEF Is
  <2> QED
    BY <2>9
<1>3. T \in SUBSET Nat
  OBVIOUS
<1> HIDE DEF T, Is
<1>4. L \in T
  BY <1>1, <1>2, <1>3, Induction
<1>5. \E g : Is(g, L)
  BY <1>4 DEF T
<1> QED
  BY <1>5 DEF Is

\* The checksum runs on: what the recursive definition of Sum means.
LEMMA SumsDef ==
  ASSUME NEW s \in Seq(Nat)
  PROVE  /\ Sums(s)[0] = 0
         /\ \A i \in 0 .. Len(s) : Sums(s)[i] \in Byte
         /\ \A i \in 1 .. Len(s) : Sums(s)[i] = (Sums(s)[i - 1] + s[i]) % 256
<1> DEFINE L == Len(s)
           f == Sums(s)
<1>1. L \in Nat /\ s \in [1 .. L -> Nat]
  OBVIOUS
<1>2. f = CHOOSE g : g = [i \in 0 .. L |-> IF i = 0 THEN 0 ELSE (g[i - 1] + s[i]) % 256]
  BY DEF Sums
<1> HIDE DEF L, f
<1>3. PICK g \in [0 .. L -> Byte] :
        g[0] = 0 /\ \A i \in 1 .. L : g[i] = (g[i - 1] + s[i]) % 256
  BY <1>1, SumsExist
<1>4. g = [i \in 0 .. L |-> IF i = 0 THEN 0 ELSE (g[i - 1] + s[i]) % 256]
  BY <1>1, <1>3
<1>5. f = [i \in 0 .. L |-> IF i = 0 THEN 0 ELSE (f[i - 1] + s[i]) % 256]
  BY <1>2, <1>4
<1>6. f[0] = 0 /\ \A i \in 1 .. L : f[i] = (f[i - 1] + s[i]) % 256
  BY <1>1, <1>5
<1> DEFINE U == {n \in Nat : n <= L => f[n] \in Byte}
<1>7. 0 \in U
  BY <1>6, Bytes
<1>8. ASSUME NEW n \in U
      PROVE  n + 1 \in U
  <2>1. SUFFICES ASSUME n + 1 <= L
                 PROVE  f[n + 1] \in Byte
    OBVIOUS
  <2>2. n \in Nat /\ n + 1 \in 1 .. L /\ f[n] \in Byte
    BY <1>1, <2>1
  <2> HIDE DEF U
  <2>3. f[n + 1] = (f[n] + s[n + 1]) % 256 /\ s[n + 1] \in Nat
    BY <1>1, <1>6, <2>2
  <2> DEFINE a == f[n]
             b == s[n + 1]
  <2>4. a \in Byte /\ b \in Nat
    BY <2>2, <2>3
  <2> HIDE DEF a, b
  <2>5. (a + b) % 256 \in Byte
    BY <2>4, Bytes
  <2> QED
    BY <2>3, <2>5 DEF a, b
<1>9. U \in SUBSET Nat
  OBVIOUS
<1> HIDE DEF U
<1>10. U = Nat
  BY <1>7, <1>8, <1>9, Induction
<1>11. \A i \in 0 .. L : f[i] \in Byte
  BY <1>1, <1>10 DEF U
<1> QED
  BY <1>6, <1>11 DEF L, f

-----------------------------------------------------------------------------
\* Numbers as digits.

(* Hexadecimal.                                                            *)

Digit == 48 .. 57 \cup 97 .. 102

\* A digit and back; the character after it stands for another digit or none.
LEMMA HexDigit ==
  ASSUME NEW d \in 0 .. 15
  PROVE  /\ hex_encode(d) \in Digit /\ isxdigit(hex_encode(d))
         /\ hex_nibble(hex_encode(d)) = d
         /\ isxdigit(hex_encode(d) + 1) => hex_nibble(hex_encode(d) + 1) = d + 1
<1>1. CASE d <= 9
  <2>1. hex_encode(d) = 48 + d
    BY <1>1 DEF hex_encode
  <2> QED
    BY <1>1, <2>1 DEF isxdigit, hex_nibble, Digit
<1>2. CASE d > 9
  <2>1. hex_encode(d) = 87 + d
    BY <1>2 DEF hex_encode
  <2> QED
    BY <1>2, <2>1 DEF isxdigit, hex_nibble, Digit
<1> QED
  BY <1>1, <1>2

\* A byte as two digits and back; with one digit changed, not back.
LEMMA HexByteBack ==
  ASSUME NEW b \in Byte
  PROVE  /\ HexByte(b) \in Seq(Nat) /\ Len(HexByte(b)) = 2
         /\ \A i \in 1 .. 2 : HexByte(b)[i] \in Digit
         /\ gdb_decode_hex(HexByte(b)[1], HexByte(b)[2]) = b
         /\ gdb_decode_hex(HexByte(b)[1] + 1, HexByte(b)[2]) # b
         /\ gdb_decode_hex(HexByte(b)[1], HexByte(b)[2] + 1) # b
<1> DEFINE u == b \div 16
           v == b % 16
           x == hex_encode(u)
           y == hex_encode(v)
<1>1. u \in 0 .. 15 /\ v \in 0 .. 15 /\ b = 16 * u + v
  BY DEF Byte
<1>2. HexByte(b) = <<x, y>>
  BY DEF HexByte
<1> HIDE DEF u, v
<1>3. /\ x \in Digit /\ isxdigit(x) /\ hex_nibble(x) = u
      /\ isxdigit(x + 1) => hex_nibble(x + 1) = u + 1
  BY <1>1, HexDigit
<1>4. /\ y \in Digit /\ isxdigit(y) /\ hex_nibble(y) = v
      /\ isxdigit(y + 1) => hex_nibble(y + 1) = v + 1
  BY <1>1, HexDigit
<1> HIDE DEF x, y
<1>5. gdb_decode_hex(x, y) = b
  BY <1>1, <1>3, <1>4 DEF gdb_decode_hex
<1>6. gdb_decode_hex(x + 1, y) # b
  <2>1. gdb_decode_hex(x + 1, y) = IF isxdigit(x + 1) THEN 16 * (u + 1) + v ELSE 65535
    BY <1>3, <1>4 DEF gdb_decode_hex
  <2> QED
    BY <1>1, <2>1
<1>7. gdb_decode_hex(x, y + 1) # b
  <2>1. gdb_decode_hex(x, y + 1) = IF isxdigit(y + 1) THEN 16 * u + (v + 1) ELSE 65535
    BY <1>3, <1>4 DEF gdb_decode_hex
  <2> QED
    BY <1>1, <2>1
<1>8. x \in Nat /\ y \in Nat
  BY <1>3, <1>4 DEF Digit
<1>9. /\ <<x, y>> \in Seq(Nat) /\ Len(<<x, y>>) = 2
      /\ \A i \in 1 .. 2 : <<x, y>>[i] \in Digit
  BY <1>3, <1>4, <1>8
<1> QED
  BY <1>2, <1>5, <1>6, <1>7, <1>9

\* Two sequences, one after the other.
LEMMA Concat ==
  ASSUME NEW s \in Seq(Nat), NEW t \in Seq(Nat)
  PROVE  /\ s \o t \in Seq(Nat) /\ Len(s \o t) = Len(s) + Len(t)
         /\ \A i \in 1 .. Len(s) : (s \o t)[i] = s[i]
         /\ \A i \in 1 .. Len(t) : (s \o t)[Len(s) + i] = t[i]
<1>1. s \o t \in Seq(Nat) /\ Len(s \o t) = Len(s) + Len(t)
  OBVIOUS
<1>2. \A i \in 1 .. Len(s) + Len(t) :
        (s \o t)[i] = IF i <= Len(s) THEN s[i] ELSE t[i - Len(s)]
  OBVIOUS
<1>3. Len(s) \in Nat /\ Len(t) \in Nat
  OBVIOUS
<1>4. ASSUME NEW i \in 1 .. Len(s)
      PROVE  (s \o t)[i] = s[i]
  BY <1>2, <1>3
<1>5. ASSUME NEW i \in 1 .. Len(t)
      PROVE  (s \o t)[Len(s) + i] = t[i]
  <2>1. Len(s) + i \in 1 .. Len(s) + Len(t) /\ ~(Len(s) + i <= Len(s)) /\ (Len(s) + i) - Len(s) = i
    BY <1>3
  <2> QED
    BY <1>2, <2>1
<1> QED
  BY <1>1, <1>4, <1>5

\* A word as four digits and back.
LEMMA HexWordBack ==
  ASSUME NEW w \in Reg
  PROVE  /\ HexWord(w) \in Seq(Nat) /\ Len(HexWord(w)) = 4
         /\ \A i \in 1 .. 4 : HexWord(w)[i] \in Digit
         /\ gdb_decode_hex(HexWord(w)[1], HexWord(w)[2])
              + 256 * gdb_decode_hex(HexWord(w)[3], HexWord(w)[4]) = w
<1> DEFINE u == w % 256
           v == w \div 256
           s == HexByte(u)
           t == HexByte(v)
<1>1. u \in Byte /\ v \in Byte /\ w = u + 256 * v
  BY DEF Byte, Reg
<1>2. HexWord(w) = s \o t
  BY DEF HexWord
<1> HIDE DEF u, v
<1>3. /\ s \in Seq(Nat) /\ Len(s) = 2 /\ \A i \in 1 .. 2 : s[i] \in Digit
      /\ gdb_decode_hex(s[1], s[2]) = u
  BY <1>1, HexByteBack
<1>4. /\ t \in Seq(Nat) /\ Len(t) = 2 /\ \A i \in 1 .. 2 : t[i] \in Digit
      /\ gdb_decode_hex(t[1], t[2]) = v
  BY <1>1, HexByteBack
<1> HIDE DEF s, t
<1> DEFINE g == s \o t
<1>5. /\ g \in Seq(Nat) /\ Len(g) = 4 /\ g[1] = s[1] /\ g[2] = s[2]
      /\ g[3] = t[1] /\ g[4] = t[2]
  <2>0. s \in Seq(Nat) /\ t \in Seq(Nat) /\ Len(s) = 2 /\ Len(t) = 2
    BY <1>3, <1>4
  <2>1. /\ g \in Seq(Nat) /\ Len(g) = Len(s) + Len(t) /\ \A i \in 1 .. Len(s) : g[i] = s[i]
        /\ \A i \in 1 .. Len(t) : g[Len(s) + i] = t[i]
    BY <2>0, Concat, Zenon
  <2> HIDE DEF g
  <2>2. g[2 + 1] = t[1] /\ g[2 + 2] = t[2]
    BY <2>0, <2>1
  <2> QED
    BY <2>0, <2>1, <2>2
<1> HIDE DEF g
<1>6. ASSUME NEW i \in 1 .. 4
      PROVE  g[i] \in Digit
  <2>1. s[1] \in Digit /\ s[2] \in Digit /\ t[1] \in Digit /\ t[2] \in Digit
    BY <1>3, <1>4
  <2>2. i = 1 \/ i = 2 \/ i = 3 \/ i = 4
    OBVIOUS
  <2> QED
    BY <1>5, <2>1, <2>2
<1>7. gdb_decode_hex(g[1], g[2]) = u /\ gdb_decode_hex(g[3], g[4]) = v
  BY <1>3, <1>4, <1>5
<1>8. HexWord(w) = g
  BY <1>2 DEF g
<1> QED
  BY <1>1, <1>5, <1>6, <1>7, <1>8

\* The registers as eight digits and back.
LEMMA HexRegsBack ==
  ASSUME NEW regs \in Reg \X Reg
  PROVE  /\ HexRegs(regs) \in Seq(Nat) /\ Len(HexRegs(regs)) = 8
         /\ \A i \in 1 .. 8 : HexRegs(regs)[i] \in Digit
         /\ DecodeRegs(HexRegs(regs)) = regs
         /\ [i \in 1 .. 2 |->
               gdb_decode_hex(HexRegs(regs)[4 * i - 3], HexRegs(regs)[4 * i - 2])
                 + 256 * gdb_decode_hex(HexRegs(regs)[4 * i - 1], HexRegs(regs)[4 * i])] = regs
<1> DEFINE s == HexWord(regs[1])
           t == HexWord(regs[2])
           h == HexRegs(regs)
<1>1. h = s \o t
  BY DEF HexRegs
<1>0. regs[1] \in Reg /\ regs[2] \in Reg /\ regs = <<regs[1], regs[2]>>
  OBVIOUS
<1>2. /\ s \in Seq(Nat) /\ Len(s) = 4 /\ \A i \in 1 .. 4 : s[i] \in Digit
      /\ gdb_decode_hex(s[1], s[2]) + 256 * gdb_decode_hex(s[3], s[4]) = regs[1]
  BY <1>0, HexWordBack, Zenon
<1>3. /\ t \in Seq(Nat) /\ Len(t) = 4 /\ \A i \in 1 .. 4 : t[i] \in Digit
      /\ gdb_decode_hex(t[1], t[2]) + 256 * gdb_decode_hex(t[3], t[4]) = regs[2]
  BY <1>0, HexWordBack, Zenon
<1> HIDE DEF s, t, h
<1>4. /\ h \in Seq(Nat) /\ Len(h) = 8
      /\ \A i \in 1 .. 4 : h[i] = s[i]
      /\ \A i \in 1 .. 4 : h[4 + i] = t[i]
  <2>1. s \in Seq(Nat) /\ t \in Seq(Nat) /\ Len(s) = 4 /\ Len(t) = 4
    BY <1>2, <1>3
  <2>2. /\ h \in Seq(Nat) /\ Len(h) = Len(s) + Len(t) /\ \A i \in 1 .. Len(s) : h[i] = s[i]
        /\ \A i \in 1 .. Len(t) : h[Len(s) + i] = t[i]
    BY <1>1, <2>1, Concat, Zenon
  <2> QED
    BY <2>1, <2>2
<1>5. h[1] = s[1] /\ h[2] = s[2] /\ h[3] = s[3] /\ h[4] = s[4]
  BY <1>4
<1>6. h[5] = t[1] /\ h[6] = t[2] /\ h[7] = t[3] /\ h[8] = t[4]
  <2>1. h[4 + 1] = t[1] /\ h[4 + 2] = t[2] /\ h[4 + 3] = t[3] /\ h[4 + 4] = t[4]
    BY <1>4
  <2> QED
    BY <2>1
<1>7. ASSUME NEW i \in 1 .. 8
      PROVE  h[i] \in Digit
  <2>1. CASE i <= 4
    BY <1>2, <1>4, <2>1
  <2>2. CASE i > 4
    <3>1. i - 4 \in 1 .. 4 /\ 4 + (i - 4) = i
      BY <2>2
    <3> QED
      BY <1>3, <1>4, <3>1
  <2> QED
    BY <2>1, <2>2
<1> DEFINE D(i) == gdb_decode_hex(h[4 * i - 3], h[4 * i - 2])
                     + 256 * gdb_decode_hex(h[4 * i - 1], h[4 * i])
<1>8. D(1) = regs[1] /\ D(2) = regs[2]
  BY <1>2, <1>3, <1>5, <1>6
<1>9. \A i \in 1 .. 2 : gdb_decode_hex_str(SubSeq(h, 4 * i - 3, 4 * i)) = D(i)
  <2> TAKE i \in 1 .. 2
  <2> DEFINE g == SubSeq(h, 4 * i - 3, 4 * i)
  <2>1. \A j \in 1 .. 4 : g[j] = h[(4 * i - 3) + j - 1]
    BY <1>4
  <2>2. g[1] = h[4 * i - 3] /\ g[2] = h[4 * i - 2] /\ g[3] = h[4 * i - 1] /\ g[4] = h[4 * i]
    <3>1. /\ (4 * i - 3) + 1 - 1 = 4 * i - 3 /\ (4 * i - 3) + 2 - 1 = 4 * i - 2
          /\ (4 * i - 3) + 3 - 1 = 4 * i - 1 /\ (4 * i - 3) + 4 - 1 = 4 * i
      OBVIOUS
    <3> HIDE DEF g
    <3> QED
      BY <2>1, <3>1
  <2> HIDE DEF g
  <2>3. gdb_decode_hex_str(g) = D(i)
    BY <2>2 DEF gdb_decode_hex_str
  <2> QED
    BY <2>3 DEF g
<1> HIDE DEF D
<1>10. [i \in 1 .. 2 |-> D(i)] = regs
  <2>1. [i \in 1 .. 2 |-> D(i)] = <<D(1), D(2)>>
    OBVIOUS
  <2> QED
    BY <1>0, <1>8, <2>1, Zenon
<1>11. DecodeRegs(h) = [i \in 1 .. 2 |-> D(i)]
  BY <1>9 DEF DecodeRegs
<1> QED
  BY <1>4, <1>7, <1>10, <1>11 DEF D, h

-----------------------------------------------------------------------------
\* The encodings of a reply.

(* What QEMU may send for a reply.                                         *)

\* Characters of a reply, and of the body of a frame.
Letter == 48 .. 84 \cup 97 .. 102
Plain == 16 .. 34 \cup 48 .. 116
IsText(r) == r \in Seq(Nat) /\ Len(r) \in 1 .. 8 /\ \A i \in 1 .. Len(r) : r[i] \in Letter
Shape(e) ==
  /\ e \in Seq(Nat) /\ Len(e) >= 1
  /\ \A i \in 1 .. Len(e) :
       \/ e[i] \in Plain
       \/ i = 1 /\ e[i] = ESC
       \/ i = 2 /\ e[i] = STAR /\ e[1] \in Plain /\ Len(e) >= 3 /\ e[3] \in 29 .. 34
Flip(x) == IF (x \div 32) % 2 = 1 THEN x - 32 ELSE x + 32

\* Taking an escape off undoes it.
LEMMA FlipBack ==
  ASSUME NEW x \in Letter
  PROVE  Flip(x) \in Plain /\ Flip(Flip(x)) = x
<1>1. CASE x \in 48 .. 63
  <2>1. x \div 32 = 1 /\ (x - 32) \div 32 = 0
    BY <1>1
  <2>2. Flip(x) = x - 32
    BY <2>1 DEF Flip
  <2>3. Flip(x - 32) = x
    BY <1>1, <2>1 DEF Flip
  <2> QED
    BY <1>1, <2>2, <2>3 DEF Plain
<1>2. CASE x \in 64 .. 84
  <2>1. x \div 32 = 2 /\ (x + 32) \div 32 = 3
    BY <1>2
  <2>2. Flip(x) = x + 32
    BY <2>1 DEF Flip
  <2>3. Flip(x + 32) = x
    BY <1>2, <2>1 DEF Flip
  <2> QED
    BY <1>2, <2>2, <2>3 DEF Plain
<1>3. CASE x \in 97 .. 102
  <2>1. x \div 32 = 3 /\ (x - 32) \div 32 = 2
    BY <1>3
  <2>2. Flip(x) = x - 32
    BY <2>1 DEF Flip
  <2>3. Flip(x - 32) = x
    BY <1>3, <2>1 DEF Flip
  <2> QED
    BY <1>3, <2>2, <2>3 DEF Plain
<1> QED
  BY <1>1, <1>2, <1>3 DEF Letter

\* One character escaped.
LEMMA EscapedIs ==
  ASSUME NEW r, IsText(r)
  PROVE  /\ Escaped(r) \in Seq(Nat) /\ Len(Escaped(r)) = Len(r) + 1
         /\ Escaped(r)[1] = ESC /\ Escaped(r)[2] = Flip(r[1])
         /\ \A j \in 3 .. Len(r) + 1 : Escaped(r)[j] = r[j - 1]
<1> DEFINE s == <<ESC, Flip(r[1])>>
           t == Tail(r)
           e == s \o t
           L == Len(r)
<1>1. L \in 1 .. 8 /\ r \in Seq(Nat) /\ r # << >> /\ r[1] \in Letter
  BY DEF IsText
<1>2. Flip(r[1]) \in Nat
  <2>1. Flip(r[1]) \in Plain
    BY <1>1, FlipBack
  <2> QED
    BY <2>1 DEF Plain
<1>3. s \in Seq(Nat) /\ Len(s) = 2 /\ s[1] = ESC /\ s[2] = Flip(r[1])
  BY <1>2 DEF ESC
<1>4. t \in Seq(Nat) /\ Len(t) = L - 1 /\ \A j \in 1 .. L - 1 : t[j] = r[j + 1]
  BY <1>1
<1>5. Escaped(r) = e
  BY DEF Escaped, Flip
<1> HIDE DEF s, t
<1>6. /\ e \in Seq(Nat) /\ Len(e) = Len(s) + Len(t) /\ \A i \in 1 .. Len(s) : e[i] = s[i]
      /\ \A i \in 1 .. Len(t) : e[Len(s) + i] = t[i]
  BY <1>3, <1>4, Concat, Zenon
<1> HIDE DEF e, L
<1>7. ASSUME NEW j \in 3 .. L + 1
      PROVE  e[j] = r[j - 1]
  <2>1. j - 2 \in 1 .. L - 1 /\ 2 + (j - 2) = j /\ (j - 2) + 1 = j - 1
    BY <1>1
  <2>2. e[2 + (j - 2)] = t[j - 2] /\ t[j - 2] = r[(j - 2) + 1]
    BY <1>3, <1>4, <1>6, <2>1
  <2> QED
    BY <2>1, <2>2
<1>8. Len(e) = L + 1 /\ e[1] = ESC /\ e[2] = Flip(r[1])
  BY <1>1, <1>3, <1>4, <1>6
<1> QED
  BY <1>5, <1>6, <1>7, <1>8 DEF L

\* The first run of a character.
LEMMA RunIs ==
  ASSUME NEW r, IsText(r)
  PROVE  Run(r) \in 1 .. Len(r) /\ \A i \in 1 .. Run(r) : r[i] = r[1]
<1> DEFINE L == Len(r)
           Q(n) == (\A i \in 1 .. n : r[i] = r[1]) /\ (n = L \/ r[n + 1] # r[1])
           T == {n \in Nat : n < L => \A i \in 1 .. n + 1 : r[i] = r[1]}
<1>1. L \in 1 .. 8
  BY DEF IsText
<1> HIDE DEF L
<1>2. \E n \in 1 .. L : Q(n)
  <2>1. SUFFICES ASSUME \A n \in 1 .. L : ~Q(n) PROVE FALSE
    OBVIOUS
  <2>2. 0 \in T
    OBVIOUS
  <2>3. ASSUME NEW n \in T PROVE n + 1 \in T
    <3>1. SUFFICES ASSUME n + 1 < L PROVE \A i \in 1 .. n + 2 : r[i] = r[1]
      OBVIOUS
    <3>2. n + 1 \in 1 .. L /\ \A i \in 1 .. n + 1 : r[i] = r[1]
      BY <1>1, <3>1
    <3>3. r[n + 2] = r[1]
      BY <2>1, <3>1, <3>2
    <3> QED
      BY <3>2, <3>3
  <2>4. T \in SUBSET Nat
    OBVIOUS
  <2> HIDE DEF T
  <2>5. L - 1 \in T
    BY <1>1, <2>2, <2>3, <2>4, Induction
  <2>6. \A i \in 1 .. (L - 1) + 1 : r[i] = r[1]
    BY <1>1, <2>5 DEF T
  <2>7. Q(L)
    BY <1>1, <2>6
  <2> QED
    BY <1>1, <2>1, <2>7
<1>3. Run(r) = CHOOSE n \in 1 .. L : Q(n)
  BY DEF Run, L
<1>4. Run(r) \in 1 .. L /\ Q(Run(r))
  BY <1>2, <1>3
<1> QED
  BY <1>4 DEF L

\* The first run shortened.
LEMMA RunLengthIs ==
  ASSUME NEW r, IsText(r), RunLength(r) # r
  PROVE  LET n == Run(r)
             e == RunLength(r)
         IN  /\ n \in 4 .. 6 /\ n <= Len(r) /\ \A i \in 1 .. n : r[i] = r[1]
             /\ e \in Seq(Nat) /\ Len(e) = Len(r) + 3 - n
             /\ e[1] = r[1] /\ e[2] = STAR /\ e[3] = n + 28
             /\ \A j \in 4 .. Len(r) + 3 - n : e[j] = r[n + j - 3]
<1> DEFINE n == Run(r)
           L == Len(r)
           s == <<r[1], STAR, n + 28>>
           t == SubSeq(r, n + 1, L)
           e == s \o t
<1>1. /\ n \in 1 .. L /\ L \in 1 .. 8 /\ r \in Seq(Nat) /\ r[1] \in Nat
      /\ \A i \in 1 .. n : r[i] = r[1]
  BY RunIs DEF IsText, Letter
<1>2. n >= 4 /\ n - 1 + 29 \notin {DOLLAR, HASH} /\ RunLength(r) = <<r[1], STAR, n - 1 + 29>> \o t
  <2>1. RunLength(r) = IF n < 4 \/ n - 1 + 29 \in {DOLLAR, HASH} THEN r
                       ELSE <<r[1], STAR, n - 1 + 29>> \o t
    BY DEF RunLength
  <2> HIDE DEF n, t
  <2>2. n \in Nat
    BY <1>1
  <2>3. ~(n < 4 \/ n - 1 + 29 \in {DOLLAR, HASH})
    BY <2>1
  <2> QED
    BY <2>1, <2>2, <2>3
<1> HIDE DEF n, L
<1>3. n \in 4 .. 6 /\ n - 1 + 29 = n + 28
  BY <1>1, <1>2 DEF DOLLAR, HASH
<1>4. RunLength(r) = e
  BY <1>2, <1>3
<1>5. s \in Seq(Nat) /\ Len(s) = 3 /\ s[1] = r[1] /\ s[2] = STAR /\ s[3] = n + 28
  BY <1>1, <1>3 DEF STAR
<1>6. t \in Seq(Nat) /\ Len(t) = L - n /\ \A j \in 1 .. L - n : t[j] = r[n + j]
  <2>1. /\ t \in Seq(Nat) /\ Len(t) = IF n + 1 <= L THEN L - (n + 1) + 1 ELSE 0
        /\ \A i \in 1 .. L - (n + 1) + 1 : t[i] = r[n + 1 + i - 1]
    <3>1. \A i \in n + 1 .. L : r[i] \in Nat
      BY <1>1 DEF L
    <3> QED
      BY <1>1, <3>1, SubSeqProperties DEF L
  <2>2. ASSUME NEW j \in 1 .. L - n PROVE t[j] = r[n + j]
    <3>1. j \in 1 .. L - (n + 1) + 1 /\ n + 1 + j - 1 = n + j
      BY <1>1
    <3> QED
      BY <2>1, <3>1
  <2> QED
    BY <1>1, <2>1, <2>2
<1> HIDE DEF s, t
<1>7. /\ e \in Seq(Nat) /\ Len(e) = Len(s) + Len(t) /\ \A i \in 1 .. Len(s) : e[i] = s[i]
      /\ \A i \in 1 .. Len(t) : e[Len(s) + i] = t[i]
  BY <1>5, <1>6, Concat, Zenon
<1> HIDE DEF e
<1>8. Len(e) = L + 3 - n /\ e[1] = r[1] /\ e[2] = STAR /\ e[3] = n + 28
  <2>1. Len(s) = 3 /\ 1 \in 1 .. 3 /\ 2 \in 1 .. 3 /\ 3 \in 1 .. 3
    BY <1>5
  <2>2. e[1] = s[1] /\ e[2] = s[2] /\ e[3] = s[3]
    BY <1>7, <2>1
  <2>3. Len(e) = L + 3 - n
    BY <1>1, <1>3, <1>6, <1>7, <2>1
  <2> QED
    BY <1>5, <2>2, <2>3
<1>9. ASSUME NEW j \in 4 .. L + 3 - n
      PROVE  e[j] = r[n + j - 3]
  <2>1. j - 3 \in 1 .. L - n /\ 3 + (j - 3) = j /\ n + (j - 3) = n + j - 3
    BY <1>1
  <2>2. e[3 + (j - 3)] = t[j - 3] /\ t[j - 3] = r[n + (j - 3)]
    BY <1>5, <1>6, <1>7, <2>1
  <2> QED
    BY <2>1, <2>2
<1> QED
  BY <1>1, <1>3, <1>4, <1>7, <1>8, <1>9 DEF n, L

\* What recv_packet relies on in the body of any encoding.
LEMMA ShapeOf ==
  ASSUME NEW r, IsText(r), NEW e \in Encodings(r)
  PROVE  Shape(e)
<1>1. Letter \subseteq Plain
  BY DEF Letter, Plain
<1>2. r \in Seq(Nat) /\ Len(r) \in 1 .. 8 /\ \A i \in 1 .. Len(r) : r[i] \in Letter
  BY DEF IsText
<1>3. CASE e = r
  <2>1. \A i \in 1 .. Len(e) : e[i] \in Plain
    BY <1>1, <1>2, <1>3
  <2> QED
    BY <1>2, <1>3, <2>1 DEF Shape
<1>4. CASE e = Escaped(r)
  <2>1. /\ e \in Seq(Nat) /\ Len(e) = Len(r) + 1 /\ e[1] = ESC /\ e[2] = Flip(r[1])
        /\ \A j \in 3 .. Len(r) + 1 : e[j] = r[j - 1]
    BY <1>4, EscapedIs
  <2>2. ASSUME NEW i \in 1 .. Len(e), i # 1
        PROVE  e[i] \in Plain
    <3>1. CASE i = 2
      BY <1>2, <2>1, <3>1, FlipBack
    <3>2. CASE i > 2
      <4>1. i \in 3 .. Len(r) + 1 /\ i - 1 \in 1 .. Len(r)
        BY <1>2, <2>1, <3>2
      <4> QED
        BY <1>1, <1>2, <2>1, <4>1
    <3> QED
      BY <1>2, <2>1, <2>2, <3>1, <3>2
  <2> QED
    BY <1>2, <2>1, <2>2 DEF Shape
<1>5. CASE e = RunLength(r) /\ e # r
  <2> DEFINE n == Run(r)
  <2>1. /\ n \in 4 .. 6 /\ n <= Len(r) /\ e \in Seq(Nat) /\ Len(e) = Len(r) + 3 - n
        /\ e[1] = r[1] /\ e[2] = STAR /\ e[3] = n + 28
        /\ \A j \in 4 .. Len(r) + 3 - n : e[j] = r[n + j - 3]
    BY <1>5, RunLengthIs
  <2> HIDE DEF n
  <2>2. ASSUME NEW i \in 1 .. Len(e), i > 2
        PROVE  e[i] \in Plain
    <3>1. CASE i = 3
      <4>1. n + 28 \in Plain
        BY <2>1 DEF Plain
      <4> QED
        BY <2>1, <3>1, <4>1
    <3>2. CASE i > 3
      <4>1. i \in 4 .. Len(r) + 3 - n /\ n + i - 3 \in 1 .. Len(r)
        BY <1>2, <2>1, <3>2
      <4> QED
        BY <1>1, <1>2, <2>1, <4>1
    <3> QED
      BY <1>2, <2>1, <2>2, <3>1, <3>2
  <2>3. e[1] \in Plain /\ e[3] \in 29 .. 34 /\ Len(e) >= 3
    <3>1. r[1] \in Plain
      BY <1>1, <1>2
    <3>2. n + 28 \in 29 .. 34 /\ Len(r) + 3 - n >= 3
      BY <1>2, <2>1
    <3> QED
      BY <2>1, <3>1, <3>2
  <2>4. ASSUME NEW i \in 1 .. Len(e)
        PROVE  \/ e[i] \in Plain
               \/ i = 2 /\ e[i] = STAR /\ e[1] \in Plain /\ Len(e) >= 3 /\ e[3] \in 29 .. 34
    <3>1. i = 1 \/ i = 2 \/ i > 2
      OBVIOUS
    <3> QED
      BY <2>1, <2>2, <2>3, <3>1
  <2> QED
    BY <2>1, <2>3, <2>4 DEF Shape
<1> QED
  BY <1>3, <1>4, <1>5 DEF Encodings

(* One character, for each case of recv_packet.                            *)

\* Characters stay characters.
LEMMA FlipNat ==
  ASSUME NEW c \in Nat
  PROVE  Flip(c) \in Nat
<1>1. (c \div 32) % 2 = 1 => c >= 32
  OBVIOUS
<1> QED
  BY <1>1 DEF Flip

\* A character of the body with its escape taken off.
LEMMA AddCharIs ==
  ASSUME NEW p \in Parser, NEW c \in Nat
  PROVE  /\ AddChar(p, c) \in Parser
         /\ AddChar(p, c).reply = Append(p.reply, IF p.escape = TRUE THEN Flip(c) ELSE c)
         /\ AddChar(p, c).escape = FALSE /\ AddChar(p, c).mode = p.mode
         /\ AddChar(p, c).sum = p.sum /\ AddChar(p, c).digits = p.digits
<1> DEFINE x == IF p.escape = TRUE THEN Flip(c) ELSE c
           t == Append(p.reply, x)
<1>1. p.escape \in BOOLEAN /\ p.reply \in Seq(Nat)
  BY DEF Parser
<1>2. x \in Nat
  BY FlipNat
<1>3. AddChar(p, c) = [p EXCEPT !.reply = t, !.escape = FALSE]
  BY <1>1 DEF AddChar, Flip
<1> HIDE DEF x
<1>4. t \in Seq(Nat)
  BY <1>1, <1>2
<1> HIDE DEF t
<1>5. /\ [p EXCEPT !.reply = t, !.escape = FALSE] \in Parser
      /\ [p EXCEPT !.reply = t, !.escape = FALSE].reply = t
      /\ [p EXCEPT !.reply = t, !.escape = FALSE].escape = FALSE
      /\ [p EXCEPT !.reply = t, !.escape = FALSE].mode = p.mode
      /\ [p EXCEPT !.reply = t, !.escape = FALSE].sum = p.sum
      /\ [p EXCEPT !.reply = t, !.escape = FALSE].digits = p.digits
  BY <1>4 DEF Parser
<1> QED
  BY <1>3, <1>5 DEF t, x

Summed(p, c) == [p EXCEPT !.sum = (@ + c) % 256]

\* Every character but '#' and '$' counts for the checksum.
LEMMA SummedIs ==
  ASSUME NEW p \in Parser, NEW c \in Nat
  PROVE  /\ Summed(p, c) \in Parser /\ Summed(p, c).sum = (p.sum + c) % 256
         /\ Summed(p, c).mode = p.mode /\ Summed(p, c).reply = p.reply
         /\ Summed(p, c).escape = p.escape /\ Summed(p, c).digits = p.digits
<1> DEFINE u == (p.sum + c) % 256
<1>1. p.sum \in Byte
  BY DEF Parser
<1>2. u \in Byte
  BY <1>1, Bytes
<1>3. Summed(p, c) = [p EXCEPT !.sum = u]
  BY DEF Summed, Parser
<1> HIDE DEF u
<1>4. /\ [p EXCEPT !.sum = u] \in Parser /\ [p EXCEPT !.sum = u].sum = u
      /\ [p EXCEPT !.sum = u].mode = p.mode /\ [p EXCEPT !.sum = u].reply = p.reply
      /\ [p EXCEPT !.sum = u].escape = p.escape /\ [p EXCEPT !.sum = u].digits = p.digits
  BY <1>2 DEF Parser
<1> QED
  BY <1>3, <1>4 DEF u

\* A character like any other.
LEMMA OtherChar ==
  ASSUME NEW p \in Parser, NEW c \in Nat, p.mode = "body", c \notin {DOLLAR, HASH, ESC},
         c = STAR => p.reply = << >>
  PROVE  /\ RecvChar(p, c) \in Parser /\ RecvChar(p, c).mode = "body"
         /\ RecvChar(p, c).reply = Append(p.reply, IF p.escape = TRUE THEN Flip(c) ELSE c)
         /\ RecvChar(p, c).escape = FALSE /\ RecvChar(p, c).digits = p.digits
         /\ RecvChar(p, c).sum = (p.sum + c) % 256
<1>1. RecvChar(p, c) = AddChar(Summed(p, c), c)
  <2>1. RecvChar(p, c) = Body(p, c)
    BY DEF RecvChar
  <2>2. Body(p, c) = AddChar([p EXCEPT !.sum = (@ + c) % 256], c)
    BY DEF Body
  <2> QED
    BY <2>1, <2>2 DEF Summed
<1> DEFINE s == Summed(p, c)
<1>2. /\ s \in Parser /\ s.sum = (p.sum + c) % 256 /\ s.mode = p.mode /\ s.reply = p.reply
      /\ s.escape = p.escape /\ s.digits = p.digits
  BY SummedIs
<1> HIDE DEF s
<1>3. /\ AddChar(s, c) \in Parser
      /\ AddChar(s, c).reply = Append(s.reply, IF s.escape = TRUE THEN Flip(c) ELSE c)
      /\ AddChar(s, c).escape = FALSE /\ AddChar(s, c).mode = s.mode
      /\ AddChar(s, c).sum = s.sum /\ AddChar(s, c).digits = s.digits
  BY <1>2, AddCharIs
<1>4. RecvChar(p, c) = AddChar(s, c)
  BY <1>1 DEF s
<1> QED
  BY <1>2, <1>3, <1>4

\* An escape, and a star after a character.
LEMMA EscapeChar ==
  ASSUME NEW p \in Parser, p.mode = "body"
  PROVE  /\ RecvChar(p, ESC) \in Parser /\ RecvChar(p, ESC).mode = "body"
         /\ RecvChar(p, ESC).reply = p.reply /\ RecvChar(p, ESC).escape = TRUE
         /\ RecvChar(p, ESC).digits = p.digits /\ RecvChar(p, ESC).sum = (p.sum + ESC) % 256
<1> DEFINE s == Summed(p, ESC)
           q == [s EXCEPT !.escape = TRUE]
<1>1. RecvChar(p, ESC) = q
  <2>1. ESC \notin {DOLLAR, HASH, STAR}
    BY DEF DOLLAR, HASH, ESC, STAR
  <2>2. RecvChar(p, ESC) = [p EXCEPT !.escape = TRUE, !.sum = (@ + ESC) % 256]
    <3>1. RecvChar(p, ESC) = Body(p, ESC)
      BY DEF RecvChar
    <3> QED
      BY <2>1, <3>1 DEF Body
  <2> QED
    BY <2>2 DEF Summed, Parser
<1>2. /\ s \in Parser /\ s.sum = (p.sum + ESC) % 256 /\ s.mode = p.mode /\ s.reply = p.reply
      /\ s.digits = p.digits
  BY SummedIs DEF ESC
<1> HIDE DEF s
<1>3. /\ q \in Parser /\ q.escape = TRUE /\ q.sum = s.sum /\ q.mode = s.mode
      /\ q.reply = s.reply /\ q.digits = s.digits
  BY <1>2 DEF Parser
<1> QED
  BY <1>1, <1>2, <1>3

\* a star after a character,
LEMMA StarChar ==
  ASSUME NEW p \in Parser, p.mode = "body", p.reply # << >>
  PROVE  /\ RecvChar(p, STAR) \in Parser /\ RecvChar(p, STAR).mode = "count"
         /\ RecvChar(p, STAR).reply = p.reply /\ RecvChar(p, STAR).escape = p.escape
         /\ RecvChar(p, STAR).digits = p.digits /\ RecvChar(p, STAR).sum = (p.sum + STAR) % 256
<1> DEFINE s == Summed(p, STAR)
           q == [s EXCEPT !.mode = "count"]
<1>1. RecvChar(p, STAR) = q
  <2>1. STAR \notin {DOLLAR, HASH, ESC}
    BY DEF DOLLAR, HASH, ESC, STAR
  <2>2. RecvChar(p, STAR) = [p EXCEPT !.mode = "count", !.sum = (@ + STAR) % 256]
    BY <2>1 DEF RecvChar, Body
  <2> QED
    BY <2>2 DEF Summed, Parser
<1>2. /\ s \in Parser /\ s.sum = (p.sum + STAR) % 256 /\ s.mode = p.mode /\ s.reply = p.reply
      /\ s.escape = p.escape /\ s.digits = p.digits
  BY SummedIs DEF STAR
<1> HIDE DEF s
<1>3. /\ q \in Parser /\ q.escape = s.escape /\ q.sum = s.sum /\ q.mode = "count"
      /\ q.reply = s.reply /\ q.digits = s.digits
  BY <1>2 DEF Parser
<1> QED
  BY <1>1, <1>2, <1>3

\* The count of a run.
LEMMA CountChar ==
  ASSUME NEW p \in Parser, p.mode = "count", p.reply # << >>, NEW c \in 29 .. 34
  PROVE  /\ RecvChar(p, c) \in Parser /\ RecvChar(p, c).mode = "body"
         /\ RecvChar(p, c).reply = p.reply \o [i \in 1 .. c - 29 |-> Last(p.reply)]
         /\ RecvChar(p, c).escape = p.escape
         /\ RecvChar(p, c).digits = p.digits /\ RecvChar(p, c).sum = (p.sum + c) % 256
<1> DEFINE s == Summed(p, c)
           t == p.reply \o [i \in 1 .. c - 29 |-> Last(p.reply)]
           q == [s EXCEPT !.mode = "body", !.reply = t]
<1>1. RecvChar(p, c) = q
  <2>1. ~(c < 29 \/ c > 126 \/ c \in {DOLLAR, HASH})
    BY DEF DOLLAR, HASH
  <2>2. RecvChar(p, c) = [p EXCEPT !.mode = "body", !.sum = (@ + c) % 256,
                                   !.reply = @ \o [i \in 1 .. c - 29 |-> Last(p.reply)]]
    BY <2>1 DEF RecvChar, Repeat
  <2> QED
    BY <2>2 DEF Summed, Parser
<1>2. /\ s \in Parser /\ s.sum = (p.sum + c) % 256 /\ s.mode = p.mode /\ s.reply = p.reply
      /\ s.escape = p.escape /\ s.digits = p.digits
  BY SummedIs
<1>3. t \in Seq(Nat)
  <2>1. p.reply \in Seq(Nat) /\ Last(p.reply) \in Nat
    BY DEF Parser, Last
  <2>2. c - 29 \in Nat
    OBVIOUS
  <2>3. [i \in 1 .. c - 29 |-> Last(p.reply)] \in Seq(Nat)
    BY <2>1, <2>2
  <2> QED
    BY <2>1, <2>3, Concat
<1> HIDE DEF s, t
<1>4. /\ q \in Parser /\ q.escape = s.escape /\ q.sum = s.sum /\ q.mode = "body"
      /\ q.reply = t /\ q.digits = s.digits
  BY <1>2, <1>3 DEF Parser
<1> QED
  BY <1>1, <1>2, <1>4 DEF t

-----------------------------------------------------------------------------
\* A frame on its way to the client.

(* The body of a frame.                                                    *)

\* A character on its way, at most one of a frame damaged.
OneOf(e, i, c) == \/ c = e[i]
                  \/ c = e[i] + 1 /\ {e[i], e[i] + 1} \cap {DOLLAR, HASH, PLUS} = {}

\* What it can be, by its place in the body.
LEMMA CharOf ==
  ASSUME NEW e, Shape(e), NEW i \in 1 .. Len(e), NEW c, OneOf(e, i, c)
  PROVE  /\ c \in Nat /\ c \notin {DOLLAR, HASH}
         /\ c = ESC => i = 1 /\ e[1] = ESC
         /\ c = STAR <=> i = 2 /\ e[2] = STAR
         /\ i = 2 /\ e[2] = STAR => e[1] # ESC
         /\ i = 3 /\ e[2] = STAR => c \in 29 .. 34
<1>1. DOLLAR = 36 /\ HASH = 35 /\ PLUS = 43 /\ ESC = 125 /\ STAR = 42
  BY DEF DOLLAR, HASH, PLUS, ESC, STAR
<1>2. \/ e[i] \in Plain
      \/ i = 1 /\ e[i] = ESC
      \/ i = 2 /\ e[i] = STAR /\ e[1] \in Plain /\ Len(e) >= 3 /\ e[3] \in 29 .. 34
  BY DEF Shape
<1>3. \/ c = e[i]
      \/ c = e[i] + 1 /\ e[i] \notin {36, 35, 43} /\ e[i] + 1 \notin {36, 35, 43}
  BY <1>1 DEF OneOf
<1>4. c \in Nat /\ c \notin {36, 35} /\ (c = 125 => i = 1 /\ e[1] = 125)
      /\ (c = 42 <=> i = 2 /\ e[2] = 42)
  <2>1. CASE e[i] \in Plain
    <3>1. ASSUME NEW x \in Plain
          PROVE  x \in Nat /\ x # 35 /\ x # 36 /\ x # 41 /\ x # 42 /\ x # 124 /\ x # 125
      BY DEF Plain
    <3>2. /\ e[i] \in Nat /\ e[i] # 35 /\ e[i] # 36 /\ e[i] # 41 /\ e[i] # 42
          /\ e[i] # 124 /\ e[i] # 125
      BY <2>1, <3>1
    <3> QED
      BY <1>1, <1>3, <3>2
  <2>2. CASE i = 1 /\ e[i] = ESC
    BY <1>1, <1>3, <2>2
  <2>3. CASE i = 2 /\ e[i] = STAR
    BY <1>1, <1>3, <2>3
  <2> QED
    BY <1>2, <2>1, <2>2, <2>3
<1>5. e[2] = STAR /\ i \in {2, 3} => e[1] \in Plain /\ e[3] \in 29 .. 34
  <2>1. SUFFICES ASSUME e[2] = STAR, i \in {2, 3}
                 PROVE  e[1] \in Plain /\ e[3] \in 29 .. 34
    OBVIOUS
  <2>2. 2 \in 1 .. Len(e)
    <3>1. Len(e) \in Nat
      BY DEF Shape
    <3> QED
      BY <2>1, <3>1
  <2>3. STAR \notin Plain
    BY <1>1 DEF Plain
  <2> QED
    BY <2>1, <2>2, <2>3 DEF Shape
<1>6. e[2] = STAR /\ i = 2 => e[1] # ESC
  <2>1. ESC \notin Plain
    BY <1>1 DEF Plain
  <2> QED
    BY <1>5, <2>1
<1>7. e[2] = STAR /\ i = 3 => c \in 29 .. 34
  BY <1>1, <1>3, <1>5
<1> QED
  BY <1>1, <1>4, <1>6, <1>7

\* The parser keeps to the frame, whatever was damaged.
LEMMA BodyStep ==
  ASSUME NEW e, Shape(e), NEW m \in 0 .. Len(e) - 1, NEW p \in Parser, Controlled(e, m, p),
         NEW c, OneOf(e, m + 1, c)
  PROVE  /\ RecvChar(p, c) \in Parser /\ Controlled(e, m + 1, RecvChar(p, c))
         /\ RecvChar(p, c).sum = (p.sum + c) % 256
<1> DEFINE q == RecvChar(p, c)
           i == m + 1
<1>1. Len(e) \in Nat /\ m \in Nat /\ i \in 1 .. Len(e)
  BY DEF Shape
<1>2. /\ c \in Nat /\ c \notin {DOLLAR, HASH}
      /\ c = ESC => i = 1 /\ e[1] = ESC
      /\ c = STAR <=> i = 2 /\ e[2] = STAR
      /\ i = 2 /\ e[2] = STAR => e[1] # ESC
      /\ i = 3 /\ e[2] = STAR => c \in 29 .. 34
  BY <1>1, CharOf
<1>3. /\ p.digits = << >>
      /\ p.mode = IF m = 2 /\ e[2] = STAR THEN "count" ELSE "body"
      /\ m >= 1 /\ e[1] # ESC => p.reply # << >>
      /\ p.reply \in Seq(Nat)
  BY DEF Controlled, Parser
<1>4. CASE m = 2 /\ e[2] = STAR
  <2>1. 1 \in 1 .. Len(e) /\ 2 \in 1 .. Len(e) /\ OneOf(e, 2, e[2])
    BY <1>1, <1>4 DEF OneOf
  <2>2. e[1] # ESC
    BY <1>4, <2>1, CharOf
  <2>3. p.mode = "count" /\ p.reply # << >> /\ c \in 29 .. 34
    BY <1>2, <1>3, <1>4, <2>2
  <2>4. /\ q \in Parser /\ q.mode = "body" /\ q.digits = p.digits /\ q.sum = (p.sum + c) % 256
        /\ q.reply = p.reply \o [j \in 1 .. c - 29 |-> Last(p.reply)]
    BY <2>3, CountChar
  <2>5. q.reply # << >>
    <3>1. Last(p.reply) \in Nat /\ c - 29 \in Nat
      BY <1>3, <2>3 DEF Last
    <3>2. [j \in 1 .. c - 29 |-> Last(p.reply)] \in Seq(Nat)
      BY <3>1
    <3> DEFINE s == p.reply
               t == [j \in 1 .. c - 29 |-> Last(p.reply)]
    <3>3. s \in Seq(Nat) /\ t \in Seq(Nat) /\ s # << >> /\ q.reply = s \o t
      BY <1>3, <2>3, <2>4, <3>2
    <3> HIDE DEF s, t, q
    <3>4. s \o t \in Seq(Nat) /\ Len(s \o t) = Len(s) + Len(t)
      BY <3>3, Concat, Zenon
    <3>5. Len(s) \in Nat /\ Len(s) # 0 /\ Len(t) \in Nat
      BY <3>3
    <3> QED
      BY <3>3, <3>4, <3>5
  <2> QED
    BY <1>3, <1>4, <2>4, <2>5 DEF Controlled
<1>5. CASE ~(m = 2 /\ e[2] = STAR)
  <2>1. p.mode = "body"
    BY <1>3, <1>5
  <2>2. CASE c = ESC
    <3>1. /\ q \in Parser /\ q.mode = "body" /\ q.reply = p.reply /\ q.digits = p.digits
          /\ q.sum = (p.sum + c) % 256
      BY <2>1, <2>2, EscapeChar
    <3>2. i = 1 /\ e[1] = ESC
      BY <1>2, <2>2
    <3> QED
      BY <1>3, <3>1, <3>2 DEF Controlled
  <2>3. CASE c = STAR
    <3>1. i = 2 /\ e[2] = STAR /\ p.reply # << >>
      BY <1>1, <1>2, <1>3, <2>3
    <3>2. /\ q \in Parser /\ q.mode = "count" /\ q.reply = p.reply /\ q.digits = p.digits
          /\ q.sum = (p.sum + c) % 256
      BY <2>1, <2>3, <3>1, StarChar
    <3> QED
      BY <1>3, <3>1, <3>2 DEF Controlled
  <2>4. CASE c # ESC /\ c # STAR
    <3>1. /\ q \in Parser /\ q.mode = "body" /\ q.digits = p.digits
          /\ q.sum = (p.sum + c) % 256
          /\ q.reply = Append(p.reply, IF p.escape = TRUE THEN Flip(c) ELSE c)
      BY <1>2, <2>1, <2>4, OtherChar
    <3>2. q.reply # << >>
      BY <1>3, <3>1
    <3>3. ~(i = 2 /\ e[2] = STAR)
      BY <1>2, <2>4
    <3> QED
      BY <1>3, <3>1, <3>2, <3>3 DEF Controlled
  <2> QED
    BY <2>2, <2>3, <2>4
<1> QED
  BY <1>4, <1>5

\* A sequence, character by character.
LEMMA PrefixOf ==
  ASSUME NEW s \in Seq(Nat)
  PROVE  /\ SubSeq(s, 1, 0) = << >> /\ SubSeq(s, 1, -1) = << >> /\ SubSeq(s, 1, Len(s)) = s
         /\ \A m \in 0 .. Len(s) - 1 : /\ SubSeq(s, 1, m) \in Seq(Nat) /\ s[m + 1] \in Nat
                                       /\ Append(SubSeq(s, 1, m), s[m + 1]) = SubSeq(s, 1, m + 1)
<1>1. ASSUME NEW m \in 0 .. Len(s) - 1
      PROVE  /\ SubSeq(s, 1, m) \in Seq(Nat) /\ s[m + 1] \in Nat
             /\ Append(SubSeq(s, 1, m), s[m + 1]) = SubSeq(s, 1, m + 1)
  <2> DEFINE t == SubSeq(s, 1, m)
             u == SubSeq(s, 1, m + 1)
  <2>1. Len(s) \in Nat /\ m \in Nat /\ m + 1 \in 1 .. Len(s) /\ s[m + 1] \in Nat
    OBVIOUS
  <2>2. t \in Seq(Nat) /\ Len(t) = m /\ \A i \in 1 .. m : t[i] = s[i]
    BY <2>1
  <2>3. u \in Seq(Nat) /\ Len(u) = m + 1 /\ \A i \in 1 .. m + 1 : u[i] = s[i]
    BY <2>1
  <2> HIDE DEF t, u
  <2>4. /\ Append(t, s[m + 1]) \in Seq(Nat) /\ Len(Append(t, s[m + 1])) = m + 1
        /\ \A i \in 1 .. m + 1 : Append(t, s[m + 1])[i] = s[i]
    BY <2>1, <2>2
  <2> DEFINE w == Append(t, s[m + 1])
  <2>5. w \in Seq(Nat) /\ Len(w) = m + 1 /\ \A i \in 1 .. m + 1 : w[i] = s[i]
    BY <2>4
  <2> HIDE DEF w
  <2>6. w = u
    <3>1. Len(w) = Len(u) /\ \A i \in 1 .. Len(w) : w[i] = u[i]
      BY <2>3, <2>5
    <3> QED
      BY <2>3, <2>5, <3>1, SeqEqual
  <2> QED
    BY <2>1, <2>2, <2>6 DEF t, u, w
<1>2. SubSeq(s, 1, 0) = << >> /\ SubSeq(s, 1, -1) = << >>
  OBVIOUS
<1>3. SubSeq(s, 1, Len(s)) = s
  OBVIOUS
<1> QED
  BY <1>1, <1>2, <1>3

\* The run a count stands for.
LEMMA Repeated ==
  ASSUME NEW s \in Seq(Nat), NEW n \in 2 .. Len(s), \A i \in 1 .. n : s[i] = s[1]
  PROVE  SubSeq(s, 1, 1) \o [i \in 1 .. n - 1 |-> Last(SubSeq(s, 1, 1))] = SubSeq(s, 1, n)
<1> DEFINE t == SubSeq(s, 1, 1)
           r == [i \in 1 .. n - 1 |-> Last(t)]
           u == SubSeq(s, 1, n)
<1>1. Len(s) \in Nat /\ n \in Nat /\ n - 1 \in Nat /\ s[1] \in Nat
  OBVIOUS
<1>2. t \in Seq(Nat) /\ Len(t) = 1 /\ t[1] = s[1]
  BY <1>1
<1>3. u \in Seq(Nat) /\ Len(u) = n /\ \A i \in 1 .. n : u[i] = s[i]
  BY <1>1
<1> HIDE DEF t
<1>4. r \in Seq(Nat) /\ Len(r) = n - 1 /\ \A i \in 1 .. n - 1 : r[i] = s[1]
  BY <1>1, <1>2 DEF Last
<1> HIDE DEF r, u
<1>5. /\ t \o r \in Seq(Nat) /\ Len(t \o r) = Len(t) + Len(r)
      /\ \A i \in 1 .. Len(t) : (t \o r)[i] = t[i]
      /\ \A i \in 1 .. Len(r) : (t \o r)[Len(t) + i] = r[i]
  BY <1>2, <1>4, Concat, Zenon
<1> DEFINE v == t \o r
<1> HIDE DEF v
<1>6. v \in Seq(Nat) /\ Len(v) = n /\ v[1] = s[1]
  BY <1>1, <1>2, <1>4, <1>5 DEF v
<1>7. ASSUME NEW i \in 1 .. n
      PROVE  v[i] = u[i]
  <2>1. CASE i = 1
    BY <1>1, <1>3, <1>6, <2>1
  <2>2. CASE i > 1
    <3>1. i - 1 \in 1 .. n - 1 /\ 1 + (i - 1) = i
      BY <1>1, <2>2
    <3>2. (t \o r)[1 + (i - 1)] = r[i - 1] /\ r[i - 1] = s[1]
      BY <1>2, <1>4, <1>5, <3>1
    <3>3. u[i] = s[1]
      BY <1>3
    <3> QED
      BY <3>1, <3>2, <3>3 DEF v
  <2> QED
    BY <2>1, <2>2
<1>8. v = u
  BY <1>3, <1>6, <1>7
<1> QED
  BY <1>8 DEF t, r, u, v

\* Replies are short.
LEMMA TextLength ==
  ASSUME NEW r, IsText(r)
  PROVE  r \in Seq(Nat) /\ Len(r) \in Nat /\ Len(r) >= 1 /\ Len(r) <= 8
<1>1. r \in Seq(Nat) /\ Len(r) \in 1 .. 8
  BY DEF IsText
<1> DEFINE L == Len(r)
<1>2. L \in 1 .. 8
  BY <1>1
<1> HIDE DEF L
<1>3. L \in Nat /\ L >= 1 /\ L <= 8
  BY <1>2
<1> QED
  BY <1>1, <1>3 DEF L

\* An undamaged character brings the reply on: in a reply sent in full,
LEMMA WholeStep ==
  ASSUME NEW r, IsText(r), NEW m \in 0 .. Len(r) - 1,
         NEW p \in Parser, Controlled(r, m, p), Whole(r, r, m, p)
  PROVE  Whole(r, r, m + 1, RecvChar(p, r[m + 1]))
<1> DEFINE c == r[m + 1]
           q == RecvChar(p, c)
<1>1. r \in Seq(Nat) /\ Len(r) \in Nat /\ m \in Nat /\ \A j \in 1 .. Len(r) : r[j] \in Letter
  BY DEF IsText
<1>2. \A x \in Letter : x \in Nat /\ x # ESC /\ x # STAR /\ x # DOLLAR /\ x # HASH
  BY DEF Letter, ESC, STAR, DOLLAR, HASH
<1>3. c \in Letter /\ m + 1 \in 1 .. Len(r)
  BY <1>1
<1>4. c \in Nat /\ c \notin {DOLLAR, HASH, ESC} /\ c # STAR
  BY <1>2, <1>3
<1>5. ~(m = 2 /\ r[2] = STAR)
  BY <1>1, <1>2
<1>6. p.mode = "body" /\ p.escape = FALSE /\ p.reply = SubSeq(r, 1, m)
  BY <1>5 DEF Controlled, Whole
<1> HIDE DEF c
<1>7. q.reply = Append(p.reply, IF p.escape = TRUE THEN Flip(c) ELSE c) /\ q.escape = FALSE
  BY <1>4, <1>6, OtherChar
<1>8. Append(SubSeq(r, 1, m), r[m + 1]) = SubSeq(r, 1, m + 1)
  BY <1>1, PrefixOf
<1>9. q.reply = SubSeq(r, 1, m + 1)
  BY <1>6, <1>7, <1>8 DEF c
<1> QED
  BY <1>7, <1>9 DEF Whole, c

\* with its first character escaped,
LEMMA FlippedStep ==
  ASSUME NEW r, IsText(r), NEW e, e = Escaped(r), NEW m \in 0 .. Len(e) - 1,
         NEW p \in Parser, Controlled(e, m, p), Flipped(r, e, m, p)
  PROVE  Flipped(r, e, m + 1, RecvChar(p, e[m + 1]))
<1> DEFINE c == e[m + 1]
           q == RecvChar(p, c)
<1>0. Len(r) \in Nat /\ Len(r) >= 1
  BY TextLength
<1>1. r \in Seq(Nat) /\ Len(r) \in 1 .. 8 /\ m \in Nat /\ \A j \in 1 .. Len(r) : r[j] \in Letter
  BY DEF IsText
<1>2. /\ Len(e) = Len(r) + 1 /\ e[1] = ESC /\ e[2] = Flip(r[1])
      /\ \A j \in 3 .. Len(r) + 1 : e[j] = r[j - 1]
  BY EscapedIs
<1>3. /\ \A x \in Letter : x \in Nat /\ x \notin {DOLLAR, HASH, ESC} /\ x # STAR
      /\ \A x \in Plain : x \in Nat /\ x \notin {DOLLAR, HASH, ESC} /\ x # STAR
  BY DEF Letter, Plain, ESC, STAR, DOLLAR, HASH
<1>4. e[2] \in Plain /\ Flip(e[2]) = r[1]
  BY <1>1, <1>2, FlipBack
<1>5. e[2] \notin {DOLLAR, HASH, ESC} /\ e[2] # STAR /\ e[2] \in Nat
  BY <1>3, <1>4
<1>6. /\ p.mode = "body" /\ p.escape = (IF m = 1 THEN TRUE ELSE FALSE)
      /\ p.reply = SubSeq(r, 1, m - 1)
  BY <1>5 DEF Controlled, Flipped
<1>7. SubSeq(r, 1, 0) = << >> /\ SubSeq(r, 1, -1) = << >>
  BY <1>1, PrefixOf, Zenon
<1>8. CASE m = 0
  <2>1. c = ESC /\ 0 - 1 = -1 /\ (0 + 1) - 1 = 0
    BY <1>2, <1>8
  <2>2. q.reply = p.reply /\ q.escape = TRUE
    BY <1>6, <2>1, EscapeChar
  <2>3. SubSeq(r, 1, m - 1) = << >> /\ SubSeq(r, 1, (m + 1) - 1) = << >>
    BY <1>7, <1>8, <2>1
  <2>4. q.reply = SubSeq(r, 1, (m + 1) - 1)
    BY <1>6, <2>2, <2>3
  <2>5. m + 1 = 1
    BY <1>8
  <2> QED
    BY <2>2, <2>4, <2>5 DEF Flipped
<1>9. CASE m = 1
  <2>1. c = e[2] /\ 1 - 1 = 0 /\ (1 + 1) - 1 = 1
    BY <1>9
  <2>2. p.escape = TRUE /\ p.reply = << >>
    BY <1>6, <1>7, <1>9, <2>1
  <2> HIDE DEF c
  <2>3. c \in Nat /\ c \notin {DOLLAR, HASH, ESC} /\ c # STAR /\ Flip(c) = r[1]
    BY <1>4, <1>5, <2>1
  <2>4. q.reply = Append(p.reply, IF p.escape = TRUE THEN Flip(c) ELSE c) /\ q.escape = FALSE
    BY <1>6, <2>3, OtherChar
  <2>5. Append(SubSeq(r, 1, 0), r[0 + 1]) = SubSeq(r, 1, 0 + 1)
    <3>1. 0 \in 0 .. Len(r) - 1
      BY <1>0
    <3> QED
      BY <1>1, <3>1, PrefixOf
  <2>6. Append(<< >>, r[1]) = SubSeq(r, 1, 1)
    BY <1>7, <2>5
  <2>7. (m + 1) - 1 = 1 /\ ~(m + 1 = 1)
    BY <1>9
  <2>8. q.reply = SubSeq(r, 1, 1)
    BY <2>2, <2>3, <2>4, <2>6
  <2>9. q.reply = SubSeq(r, 1, (m + 1) - 1)
    BY <2>7, <2>8
  <2> QED
    BY <2>4, <2>7, <2>9 DEF Flipped, c
<1>10. CASE m > 1
  <2>1. m + 1 \in 3 .. Len(r) + 1 /\ (m + 1) - 1 = m /\ m \in 1 .. Len(r)
    BY <1>1, <1>2, <1>10
  <2>2. c = r[m]
    BY <1>2, <2>1
  <2>3. p.escape = FALSE
    BY <1>1, <1>6, <1>10
  <2> HIDE DEF c
  <2>4. c \in Nat /\ c \notin {DOLLAR, HASH, ESC} /\ c # STAR
    BY <1>1, <1>3, <2>1, <2>2
  <2>5. q.reply = Append(p.reply, IF p.escape = TRUE THEN Flip(c) ELSE c) /\ q.escape = FALSE
    BY <1>6, <2>4, OtherChar
  <2>6. Append(SubSeq(r, 1, m - 1), r[(m - 1) + 1]) = SubSeq(r, 1, (m - 1) + 1)
    <3>1. m - 1 \in 0 .. Len(r) - 1
      BY <1>1, <2>1
    <3> QED
      BY <1>1, <3>1, PrefixOf
  <2>7. (m - 1) + 1 = m /\ (m + 1) - 1 = m /\ ~(m + 1 = 1)
    BY <1>1, <1>10
  <2>8. q.reply = SubSeq(r, 1, (m + 1) - 1)
    BY <1>6, <2>2, <2>3, <2>5, <2>6, <2>7
  <2> QED
    BY <2>5, <2>7, <2>8 DEF Flipped, c
<1> QED
  BY <1>1, <1>8, <1>9, <1>10

\* and with its first run shortened.
LEMMA ShortenedStep ==
  ASSUME NEW r, IsText(r), NEW e, Shape(e), NEW m \in 0 .. Len(e) - 1,
         NEW p \in Parser, Controlled(e, m, p), Shortened(r, e, m, p)
  PROVE  Shortened(r, e, m + 1, RecvChar(p, e[m + 1]))
<1> DEFINE c == e[m + 1]
           q == RecvChar(p, c)
           n == Run(r)
           g(i) == SubSeq(r, 1, IF i = 0 THEN 0 ELSE IF i <= 2 THEN 1 ELSE n + i - 3)
<1>0. Len(r) \in Nat /\ Len(r) >= 1
  BY TextLength
<1>1. r \in Seq(Nat) /\ Len(r) \in 1 .. 8 /\ m \in Nat /\ \A j \in 1 .. Len(r) : r[j] \in Letter
  BY DEF IsText
<1>2. e = RunLength(r) /\ e # r /\ p.escape = FALSE /\ p.reply = g(m)
  BY DEF Shortened
<1>3. /\ n \in 4 .. 6 /\ n <= Len(r) /\ \A j \in 1 .. n : r[j] = r[1]
      /\ Len(e) = Len(r) + 3 - n
      /\ e[1] = r[1] /\ e[2] = STAR /\ e[3] = n + 28
      /\ \A j \in 4 .. Len(r) + 3 - n : e[j] = r[n + j - 3]
  BY <1>2, RunLengthIs
<1>4. SUFFICES q.reply = g(m + 1) /\ q.escape = FALSE
  BY <1>2 DEF Shortened
<1>5. /\ p.mode = IF m = 2 THEN "count" ELSE "body"
      /\ m >= 1 /\ e[1] # ESC => p.reply # << >>
  BY <1>3 DEF Controlled
<1>6. \A x \in Letter : x \in Nat /\ x \notin {DOLLAR, HASH, ESC} /\ x # STAR
  BY DEF Letter, ESC, STAR, DOLLAR, HASH
<1>7. e[1] # ESC
  <2>1. 1 \in 1 .. Len(r)
    BY <1>0
  <2> QED
    BY <1>1, <1>3, <1>6, <2>1
<1>8. SubSeq(r, 1, 0) = << >>
  BY <1>1, PrefixOf, Zenon
<1> HIDE DEF n
<1>9. CASE m = 0
  <2>1. c = r[1] /\ p.mode = "body" /\ 0 + 1 = 1
    BY <1>3, <1>5, <1>9
  <2>2. g(m) = SubSeq(r, 1, 0) /\ g(m + 1) = SubSeq(r, 1, 1)
    BY <1>9
  <2> HIDE DEF c, g
  <2>3. c \in Nat /\ c \notin {DOLLAR, HASH, ESC} /\ c # STAR
    BY <1>1, <1>6, <2>1
  <2>4. q.reply = Append(p.reply, IF p.escape = TRUE THEN Flip(c) ELSE c) /\ q.escape = FALSE
    BY <2>1, <2>3, OtherChar
  <2>5. Append(SubSeq(r, 1, 0), r[0 + 1]) = SubSeq(r, 1, 0 + 1)
    <3>1. 0 \in 0 .. Len(r) - 1
      BY <1>0
    <3> QED
      BY <1>1, <3>1, PrefixOf
  <2> QED
    BY <1>2, <2>1, <2>2, <2>4, <2>5
<1>10. CASE m = 1
  <2>1. c = STAR /\ p.mode = "body" /\ p.reply # << >>
    BY <1>3, <1>5, <1>7, <1>10
  <2>2. g(m) = SubSeq(r, 1, 1) /\ g(m + 1) = SubSeq(r, 1, 1)
    BY <1>10
  <2>3. q.reply = p.reply /\ q.escape = p.escape
    BY <2>1, StarChar
  <2> HIDE DEF g, q
  <2> QED
    BY <1>2, <2>2, <2>3
<1>11. CASE m = 2
  <2>1. c = n + 28 /\ c \in 29 .. 34 /\ p.mode = "count" /\ p.reply # << >> /\ c - 29 = n - 1
    BY <1>3, <1>5, <1>7, <1>11
  <2>2. g(m) = SubSeq(r, 1, 1)
    BY <1>11
  <2>3. g(m + 1) = SubSeq(r, 1, n)
    <3>1. n + (m + 1) - 3 = n /\ ~(m + 1 = 0) /\ ~(m + 1 <= 2)
      BY <1>3, <1>11
    <3> QED
      BY <3>1
  <2> HIDE DEF c, g
  <2>4. q.reply = p.reply \o [j \in 1 .. c - 29 |-> Last(p.reply)] /\ q.escape = p.escape
    BY <2>1, CountChar
  <2>5. n \in 2 .. Len(r)
    BY <1>1, <1>3
  <2>6. SubSeq(r, 1, 1) \o [j \in 1 .. n - 1 |-> Last(SubSeq(r, 1, 1))] = SubSeq(r, 1, n)
    BY <1>1, <1>3, <2>5, Repeated
  <2>7. p.reply = SubSeq(r, 1, 1)
    BY <1>2, <2>2
  <2>8. q.reply = SubSeq(r, 1, 1) \o [j \in 1 .. n - 1 |-> Last(SubSeq(r, 1, 1))]
    BY <2>1, <2>4, <2>7
  <2> HIDE DEF q
  <2> QED
    BY <1>2, <2>3, <2>4, <2>6, <2>8
<1>12. CASE m > 2
  <2> DEFINE k == n + m - 3
  <2>1. /\ m + 1 \in 4 .. Len(r) + 3 - n /\ n + (m + 1) - 3 = k + 1 /\ k \in 0 .. Len(r) - 1
        /\ k + 1 \in 1 .. Len(r) /\ ~(m = 0) /\ ~(m <= 2) /\ ~(m + 1 = 0) /\ ~(m + 1 <= 2)
        /\ m # 2
    BY <1>1, <1>3, <1>12
  <2>2. c = r[k + 1]
    BY <1>3, <2>1
  <2>3. g(m) = SubSeq(r, 1, k) /\ g(m + 1) = SubSeq(r, 1, k + 1) /\ p.mode = "body"
    BY <1>5, <2>1
  <2> HIDE DEF c, g, k
  <2>4. c \in Nat /\ c \notin {DOLLAR, HASH, ESC} /\ c # STAR
    BY <1>1, <1>6, <2>1, <2>2
  <2>5. q.reply = Append(p.reply, IF p.escape = TRUE THEN Flip(c) ELSE c) /\ q.escape = FALSE
    BY <2>3, <2>4, OtherChar
  <2>6. Append(SubSeq(r, 1, k), r[k + 1]) = SubSeq(r, 1, k + 1)
    BY <1>1, <2>1, PrefixOf
  <2> HIDE DEF q
  <2> QED
    BY <1>2, <2>2, <2>3, <2>5, <2>6
<1> QED
  <2>1. m = 0 \/ m = 1 \/ m = 2 \/ m > 2
    BY <1>1
  <2> QED
    BY <1>9, <1>10, <1>11, <1>12, <2>1

\* In all three encodings.
LEMMA DecodeStep ==
  ASSUME NEW r, IsText(r), NEW e \in Encodings(r), NEW m \in 0 .. Len(e) - 1,
         NEW p \in Parser, Controlled(e, m, p), Decoded(r, e, m, p)
  PROVE  Decoded(r, e, m + 1, RecvChar(p, e[m + 1]))
<1>1. CASE Whole(r, e, m, p)
  <2>1. e = r
    BY <1>1 DEF Whole
  <2> QED
    BY <1>1, <2>1, WholeStep DEF Decoded
<1>2. CASE Flipped(r, e, m, p)
  <2>1. e = Escaped(r)
    BY <1>2 DEF Flipped
  <2>2. Flipped(r, e, m + 1, RecvChar(p, e[m + 1]))
    BY <1>2, <2>1, FlippedStep
  <2> QED
    BY <2>2 DEF Decoded
<1>3. CASE Shortened(r, e, m, p)
  <2>1. Shape(e)
    BY ShapeOf
  <2> QED
    BY <1>3, <2>1, ShortenedStep DEF Decoded
<1> QED
  BY <1>1, <1>2, <1>3 DEF Decoded

\* The parser at the '$',
LEMMA DecodeStart ==
  ASSUME NEW r, IsText(r), NEW e \in Encodings(r)
  PROVE  /\ Start \in Parser /\ Seek \in Parser /\ Decoded(r, e, 0, Start)
         /\ Controlled(e, 0, Start) /\ Start.sum = 0
<1>1. /\ Start \in Parser /\ Seek \in Parser /\ Start.sum = 0 /\ Start.reply = << >>
      /\ Start.escape = FALSE /\ Start.mode = "body" /\ Start.digits = << >>
  <2>1. 0 \in Byte /\ << >> \in Seq(Nat)
    BY Bytes
  <2> QED
    BY <2>1 DEF Start, Seek, Parser
<1>2. Controlled(e, 0, Start)
  <2>1. ~(0 >= 1) /\ ~(0 = 2)
    OBVIOUS
  <2> QED
    BY <1>1, <2>1 DEF Controlled
<1>3. SubSeq(r, 1, 0) = << >> /\ SubSeq(r, 1, -1) = << >>
  <2>1. r \in Seq(Nat)
    BY DEF IsText
  <2> QED
    BY <2>1, PrefixOf, Zenon
<1>4. CASE e = r
  <2>1. Whole(r, r, 0, Start)
    BY <1>1, <1>3 DEF Whole
  <2> QED
    BY <1>1, <1>2, <1>4, <2>1 DEF Decoded
<1>5. CASE e = Escaped(r)
  <2>1. 0 - 1 = -1 /\ ~(0 = 1)
    OBVIOUS
  <2>2. SubSeq(r, 1, 0 - 1) = << >>
    BY <1>3, <2>1
  <2>3. Start.reply = SubSeq(r, 1, 0 - 1)
    BY <1>1, <2>2
  <2>4. Flipped(r, e, 0, Start)
    BY <1>1, <1>5, <2>1, <2>3 DEF Flipped
  <2> QED
    BY <1>1, <1>2, <2>4 DEF Decoded
<1>6. CASE e = RunLength(r) /\ e # r
  <2>1. Shortened(r, e, 0, Start)
    BY <1>1, <1>3, <1>6 DEF Shortened
  <2> QED
    BY <1>1, <1>2, <2>1 DEF Decoded
<1> QED
  BY <1>1, <1>2, <1>4, <1>5, <1>6 DEF Encodings

\* and at the '#': it holds the reply.
LEMMA DecodeEnd ==
  ASSUME NEW r, IsText(r), NEW e \in Encodings(r), NEW p, Decoded(r, e, Len(e), p)
  PROVE  p.reply = r
<1>0. Len(r) \in Nat /\ Len(r) >= 1
  BY TextLength
<1>1. r \in Seq(Nat) /\ Len(r) \in 1 .. 8
  BY DEF IsText
<1>2. SubSeq(r, 1, Len(r)) = r
  BY <1>1, PrefixOf, Zenon
<1>3. CASE Whole(r, e, Len(e), p)
  BY <1>2, <1>3 DEF Whole
<1>4. CASE Flipped(r, e, Len(e), p)
  <2>1. e = Escaped(r) /\ p.reply = SubSeq(r, 1, Len(e) - 1)
    BY <1>4 DEF Flipped
  <2>2. Len(e) - 1 = Len(r)
    <3>1. Len(e) = Len(r) + 1
      BY <2>1, EscapedIs
    <3> QED
      BY <1>0, <3>1
  <2> QED
    BY <1>2, <2>1, <2>2
<1>5. CASE Shortened(r, e, Len(e), p)
  <2>1. /\ e = RunLength(r) /\ e # r
        /\ p.reply = SubSeq(r, 1, IF Len(e) = 0 THEN 0 ELSE IF Len(e) <= 2 THEN 1
                                  ELSE Run(r) + Len(e) - 3)
    BY <1>5 DEF Shortened
  <2>2. Run(r) \in 4 .. 6 /\ Run(r) <= Len(r) /\ Len(e) = Len(r) + 3 - Run(r)
    BY <2>1, RunLengthIs
  <2>3. ~(Len(e) = 0) /\ ~(Len(e) <= 2) /\ Run(r) + Len(e) - 3 = Len(r)
    BY <1>0, <2>2
  <2> QED
    BY <1>2, <2>1, <2>3
<1> QED
  BY <1>3, <1>4, <1>5 DEF Decoded

-----------------------------------------------------------------------------
\* Frames and their checksums.

\* One character more, wherever the damage was.
LEMMA ShiftSum ==
  ASSUME NEW a \in Nat, NEW d \in Nat, NEW x \in Nat, NEW h \in Nat
  PROVE  (((a + d) % 256) + (x + h)) % 256 = (((a + x) % 256) + (d + h)) % 256
<1>1. ASSUME NEW u \in Nat, NEW v \in Nat
      PROVE  ((u % 256) + v) % 256 = (u + v) % 256
  OBVIOUS
<1> DEFINE u == a + d
           w == a + x
<1>2. u \in Nat /\ w \in Nat /\ x + h \in Nat /\ d + h \in Nat /\ u + (x + h) = w + (d + h)
  OBVIOUS
<1> HIDE DEF u, w
<1>3. ((u % 256) + (x + h)) % 256 = (u + (x + h)) % 256
  BY <1>1, <1>2
<1>4. ((w % 256) + (d + h)) % 256 = (w + (d + h)) % 256
  BY <1>1, <1>2
<1> QED
  BY <1>2, <1>3, <1>4 DEF u, w

\* A frame, character by character,
LEMMA FrameIs ==
  ASSUME NEW e \in Seq(Nat)
  PROVE  LET f == Frame(e)
             L == Len(e)
             h == HexByte(Sum(e))
         IN  /\ f \in Seq(Nat) /\ Len(f) = L + 4
             /\ f[1] = DOLLAR /\ f[L + 2] = HASH /\ f[L + 3] = h[1] /\ f[L + 4] = h[2]
             /\ \A i \in 1 .. L : f[i + 1] = e[i]
<1> DEFINE L == Len(e)
           h == HexByte(Sum(e))
           d == <<DOLLAR>>
           b == d \o e
           g == <<HASH>>
           c == b \o g
           f == c \o h
<1>1. L \in Nat /\ Sum(e) \in Byte
  BY SumsDef DEF Sum
<1>2. h \in Seq(Nat) /\ Len(h) = 2
  BY <1>1, HexByteBack
<1>3. d \in Seq(Nat) /\ Len(d) = 1 /\ d[1] = DOLLAR /\ g \in Seq(Nat) /\ Len(g) = 1 /\ g[1] = HASH
  BY DEF DOLLAR, HASH
<1> HIDE DEF h, d, g
<1>4. /\ b \in Seq(Nat) /\ Len(b) = Len(d) + Len(e)
      /\ \A i \in 1 .. Len(d) : b[i] = d[i]
      /\ \A i \in 1 .. Len(e) : b[Len(d) + i] = e[i]
  BY <1>3, Concat, Zenon
<1> HIDE DEF b
<1>5. /\ c \in Seq(Nat) /\ Len(c) = Len(b) + Len(g)
      /\ \A i \in 1 .. Len(b) : c[i] = b[i]
      /\ \A i \in 1 .. Len(g) : c[Len(b) + i] = g[i]
  BY <1>3, <1>4, Concat, Zenon
<1> HIDE DEF c
<1>6. /\ f \in Seq(Nat) /\ Len(f) = Len(c) + Len(h)
      /\ \A i \in 1 .. Len(c) : f[i] = c[i]
      /\ \A i \in 1 .. Len(h) : f[Len(c) + i] = h[i]
  BY <1>2, <1>5, Concat, Zenon
<1>7. f = Frame(e)
  BY DEF Frame, f, c, b, g, d, h
<1> HIDE DEF f, L
<1>8. Len(e) = L /\ Len(b) = L + 1 /\ Len(c) = L + 2 /\ Len(f) = L + 4
  BY <1>1, <1>2, <1>3, <1>4, <1>5, <1>6 DEF L
<1>9. b[1] = DOLLAR /\ \A i \in 1 .. L : b[1 + i] = e[i]
  BY <1>1, <1>3, <1>4, <1>8
<1>10. /\ c[1] = DOLLAR /\ c[L + 2] = HASH
       /\ \A i \in 1 .. L : c[1 + i] = e[i]
  <2>1. 1 \in 1 .. Len(b) /\ 1 \in 1 .. Len(g) /\ Len(b) + 1 = L + 2
    BY <1>1, <1>3, <1>8
  <2>2. ASSUME NEW i \in 1 .. L PROVE c[1 + i] = e[i]
    <3>1. 1 + i \in 1 .. Len(b)
      BY <1>1, <1>8
    <3> QED
      BY <1>5, <1>9, <3>1
  <2> QED
    BY <1>3, <1>5, <1>9, <2>1, <2>2
<1>11. f[1] = DOLLAR /\ f[L + 2] = HASH
  <2>1. 1 \in 1 .. Len(c) /\ L + 2 \in 1 .. Len(c)
    BY <1>1, <1>8
  <2> QED
    BY <1>6, <1>10, <2>1
<1>12. f[L + 3] = h[1] /\ f[L + 4] = h[2]
  <2>1. 1 \in 1 .. Len(h) /\ 2 \in 1 .. Len(h) /\ Len(c) + 1 = L + 3 /\ Len(c) + 2 = L + 4
    BY <1>1, <1>2, <1>8
  <2> QED
    BY <1>6, <2>1
<1>13. ASSUME NEW i \in 1 .. L PROVE f[i + 1] = e[i]
  <2>1. 1 + i \in 1 .. Len(c) /\ 1 + i = i + 1
    BY <1>1, <1>8
  <2> QED
    BY <1>6, <1>10, <2>1
<1>14. /\ Frame(e) \in Seq(Nat) /\ Len(Frame(e)) = L + 4
       /\ Frame(e)[1] = DOLLAR /\ Frame(e)[L + 2] = HASH
       /\ Frame(e)[L + 3] = h[1] /\ Frame(e)[L + 4] = h[2]
       /\ \A i \in 1 .. L : Frame(e)[i + 1] = e[i]
  BY <1>6, <1>7, <1>8, <1>11, <1>12, <1>13
<1> QED
  BY <1>14 DEF L, h

\* and with one of them damaged.
LEMMA WireIs ==
  ASSUME NEW f \in Seq(Nat), NEW k \in 0 .. Len(f)
  PROVE  /\ Wire(f, k) \in Seq(Nat) /\ Len(Wire(f, k)) = Len(f)
         /\ \A i \in 1 .. Len(f) : Wire(f, k)[i] = f[i] + (IF i = k THEN 1 ELSE 0)
<1>1. CASE k = 0
  <2>1. Wire(f, k) = f
    BY <1>1 DEF Wire
  <2>2. ASSUME NEW i \in 1 .. Len(f) PROVE f[i] = f[i] + (IF i = k THEN 1 ELSE 0)
    <3>1. f[i] \in Nat /\ i # k
      BY <1>1
    <3> QED
      BY <3>1
  <2> QED
    BY <2>1, <2>2
<1>2. CASE k # 0
  <2>1. Wire(f, k) = [f EXCEPT ![k] = f[k] + 1]
    BY <1>2 DEF Wire
  <2>2. k \in 1 .. Len(f) /\ f[k] + 1 \in Nat
    BY <1>2
  <2> DEFINE w == [f EXCEPT ![k] = f[k] + 1]
  <2>3. w \in Seq(Nat) /\ Len(w) = Len(f)
    BY <2>2
  <2>4. ASSUME NEW i \in 1 .. Len(f) PROVE w[i] = f[i] + (IF i = k THEN 1 ELSE 0)
    <3>1. f[i] \in Nat
      OBVIOUS
    <3> QED
      BY <2>2, <3>1
  <2> QED
    BY <2>1, <2>3, <2>4
<1> QED
  BY <1>1, <1>2

\* What the parser has taken of a frame, before and behind the '#'.
InBody(r, e, k, n, p) ==
  /\ p.sum = (Sums(e)[n - 1] + (IF k \in 2 .. n THEN 1 ELSE 0)) % 256
  /\ k > n \/ k = 0 => Decoded(r, e, n - 1, p)
  /\ Controlled(e, n - 1, p)
InSum(r, e, k, n, p) ==
  /\ p.sum = (Sum(e) + (IF k \in 2 .. Len(e) + 1 THEN 1 ELSE 0)) % 256
  /\ k > n \/ k = 0 => Decoded(r, e, Len(e), p)
  /\ p.mode = "sum" /\ p.digits = SubSeq(Wire(Frame(e), k), Len(e) + 3, n)

\* The three stretches of a frame.
LEMMA TakenIs ==
  ASSUME NEW r, NEW e \in Seq(Nat), NEW k, NEW p, NEW n \in Nat
  PROVE  /\ n = 0 => (Taken(r, e, k, n, p) <=> p = Seek)
         /\ n \in 1 .. Len(e) + 1 => (Taken(r, e, k, n, p) <=> InBody(r, e, k, n, p))
         /\ n > Len(e) + 1 => (Taken(r, e, k, n, p) <=> InSum(r, e, k, n, p))
<1> DEFINE L == Len(e)
<1>1. L \in Nat
  OBVIOUS
<1>2. CASE n = 0
  <2>1. Taken(r, e, k, n, p) <=> p = Seek
    BY <1>2 DEF Taken
  <2>2. ~(n > L + 1) /\ ~(n \in 1 .. L + 1)
    BY <1>1, <1>2
  <2> QED
    BY <2>1, <2>2
<1>3. CASE n \in 1 .. L + 1
  <2>1. n # 0 /\ n <= L + 1 /\ ~(n > L + 1) /\ (n - 1) + 1 = n
    BY <1>1, <1>3
  <2>2. Taken(r, e, k, n, p) <=> InBody(r, e, k, n, p)
    BY <2>1 DEF Taken, InBody
  <2> QED
    BY <2>1, <2>2
<1>4. CASE n > L + 1
  <2>1. n # 0 /\ ~(n <= L + 1) /\ ~(n \in 1 .. L + 1)
    BY <1>1, <1>4
  <2>2. Taken(r, e, k, n, p) <=> InSum(r, e, k, n, p)
    BY <1>4, <2>1 DEF Taken, InSum, Sum
  <2> QED
    BY <2>1, <2>2
<1> QED
  BY <1>1, <1>2, <1>3, <1>4

\* A frame that may have been damaged in one place.
LEMMA WireOf ==
  ASSUME NEW e, Shape(e), NEW k \in 0 .. Len(Frame(e)), Hittable(Frame(e), k)
  PROVE  LET w == Wire(Frame(e), k)
             L == Len(e)
         IN  /\ w \in Seq(Nat) /\ Len(w) = L + 4 /\ w[1] = DOLLAR /\ w[L + 2] = HASH
             /\ k # 1 /\ k # L + 2 /\ k \in 0 .. L + 4
             /\ \A i \in 1 .. L : /\ w[i + 1] = e[i] + (IF k = i + 1 THEN 1 ELSE 0)
                                  /\ OneOf(e, i, w[i + 1])
             /\ w[L + 3] = HexByte(Sum(e))[1] + (IF k = L + 3 THEN 1 ELSE 0)
             /\ w[L + 4] = HexByte(Sum(e))[2] + (IF k = L + 4 THEN 1 ELSE 0)
<1> DEFINE f == Frame(e)
           w == Wire(f, k)
           L == Len(e)
           h == HexByte(Sum(e))
<1>1. e \in Seq(Nat) /\ L \in Nat
  BY DEF Shape
<1>2. /\ f \in Seq(Nat) /\ Len(f) = L + 4
      /\ f[1] = DOLLAR /\ f[L + 2] = HASH /\ f[L + 3] = h[1] /\ f[L + 4] = h[2]
      /\ \A i \in 1 .. L : f[i + 1] = e[i]
  BY <1>1, FrameIs
<1>3. k \in 0 .. Len(f) /\ Hittable(f, k)
  OBVIOUS
<1> HIDE DEF f, h
<1>4. /\ w \in Seq(Nat) /\ Len(w) = Len(f)
      /\ \A i \in 1 .. Len(f) : w[i] = f[i] + (IF i = k THEN 1 ELSE 0)
  BY <1>2, <1>3, WireIs
<1>5. k # 0 => {f[k], f[k] + 1} \cap {DOLLAR, HASH, PLUS} = {}
  BY <1>3 DEF Hittable
<1>6. k # 1 /\ k # L + 2
  <2>1. f[1] = DOLLAR /\ f[L + 2] = HASH /\ L + 2 # 0
    BY <1>1, <1>2
  <2>2. ASSUME k # 0, f[k] = DOLLAR \/ f[k] = HASH PROVE FALSE
    BY <1>5, <2>2
  <2> QED
    BY <2>1, <2>2
<1> HIDE DEF w
<1>7. \A i \in 1 .. L + 4 : w[i] = f[i] + (IF i = k THEN 1 ELSE 0)
  <2>1. Len(f) = L + 4
    BY <1>2
  <2> QED
    BY <1>4, <2>1, Zenon
<1>8. w[1] = DOLLAR /\ w[L + 2] = HASH
  <2>1. 1 \in 1 .. L + 4 /\ L + 2 \in 1 .. L + 4
    BY <1>1
  <2>2. DOLLAR \in Nat /\ HASH \in Nat
    BY DEF DOLLAR, HASH
  <2>3. w[1] = f[1] + (IF 1 = k THEN 1 ELSE 0)
    BY <1>7, <2>1
  <2>4. w[L + 2] = f[L + 2] + (IF L + 2 = k THEN 1 ELSE 0)
    BY <1>7, <2>1
  <2>5. f[1] = DOLLAR /\ f[L + 2] = HASH
    BY <1>2
  <2> QED
    BY <1>6, <2>2, <2>3, <2>4, <2>5
<1>9. /\ w[L + 3] = h[1] + (IF k = L + 3 THEN 1 ELSE 0)
      /\ w[L + 4] = h[2] + (IF k = L + 4 THEN 1 ELSE 0)
  <2>1. L + 3 \in 1 .. L + 4 /\ L + 4 \in 1 .. L + 4
    BY <1>1
  <2> QED
    BY <1>2, <1>7, <2>1
<1>10. ASSUME NEW i \in 1 .. L
       PROVE  /\ w[i + 1] = e[i] + (IF k = i + 1 THEN 1 ELSE 0)
              /\ OneOf(e, i, w[i + 1])
  <2>1. i + 1 \in 1 .. L + 4 /\ e[i] \in Nat
    BY <1>1
  <2>2. w[i + 1] = e[i] + (IF i + 1 = k THEN 1 ELSE 0)
    BY <1>2, <1>7, <2>1
  <2>3. CASE k = i + 1
    <3>1. k # 0 /\ f[k] = e[i]
      BY <1>2, <2>1, <2>3
    <3>2. {e[i], e[i] + 1} \cap {DOLLAR, HASH, PLUS} = {}
      BY <1>5, <3>1
    <3>3. w[i + 1] = e[i] + 1
      BY <2>2, <2>3
    <3> QED
      BY <2>3, <3>2, <3>3 DEF OneOf
  <2>4. CASE k # i + 1
    <3>1. w[i + 1] = e[i]
      BY <2>1, <2>2, <2>4
    <3> QED
      BY <2>1, <2>4, <3>1 DEF OneOf
  <2> QED
    BY <2>3, <2>4
<1>11. k \in 0 .. L + 4 /\ Len(w) = L + 4
  BY <1>2, <1>3, <1>4
<1> QED
  BY <1>4, <1>6, <1>8, <1>9, <1>10, <1>11 DEF w, f, h

\* One character after the other: the first one,
LEMMA FirstChar ==
  ASSUME NEW r, IsText(r), NEW e \in Encodings(r), NEW k \in Nat, k # 1, NEW p, p = Seek
  PROVE  RecvChar(p, DOLLAR) \in Parser /\ Len(RecvChar(p, DOLLAR).digits) < 2
         /\ InBody(r, e, k, 1, RecvChar(p, DOLLAR))
<1>1. RecvChar(Seek, DOLLAR) = Start
  BY DEF RecvChar, Seek, Start
<1>2. /\ Start \in Parser /\ Decoded(r, e, 0, Start)
      /\ Controlled(e, 0, Start) /\ Start.sum = 0
  BY DecodeStart
<1>3. Start.digits = << >>
  BY DEF Start
<1>4. Sums(e)[0] = 0
  <2>1. e \in Seq(Nat)
    BY ShapeOf DEF Shape
  <2> QED
    BY <2>1, SumsDef
<1>5. (Sums(e)[0] + (IF k \in 2 .. 1 THEN 1 ELSE 0)) % 256 = 0 /\ 1 - 1 = 0
  BY <1>4
<1>6. InBody(r, e, k, 1, Start)
  <2>1. Start.sum = (Sums(e)[1 - 1] + (IF k \in 2 .. 1 THEN 1 ELSE 0)) % 256
    BY <1>2, <1>5
  <2>2. Decoded(r, e, 1 - 1, Start) /\ Controlled(e, 1 - 1, Start)
    BY <1>2, <1>5
  <2> QED
    BY <2>1, <2>2 DEF InBody
<1> QED
  BY <1>1, <1>2, <1>3, <1>6

\* one of the body,
LEMMA BodyChar ==
  ASSUME NEW r, IsText(r), NEW e \in Encodings(r), NEW k \in Nat, NEW n \in 1 .. Len(e),
         NEW p \in Parser, InBody(r, e, k, n, p),
         NEW c, c = e[n] + (IF k = n + 1 THEN 1 ELSE 0), OneOf(e, n, c)
  PROVE  RecvChar(p, c) \in Parser /\ Len(RecvChar(p, c).digits) < 2
         /\ InBody(r, e, k, n + 1, RecvChar(p, c))
<1> DEFINE q == RecvChar(p, c)
           m == n - 1
           d == IF k \in 2 .. n THEN 1 ELSE 0
           h == IF k = n + 1 THEN 1 ELSE 0
<1>1. Shape(e) /\ e \in Seq(Nat) /\ Len(e) \in Nat
  BY ShapeOf DEF Shape
<1>2. m \in 0 .. Len(e) - 1 /\ m + 1 = n /\ (n + 1) - 1 = n /\ n \in 1 .. Len(e) /\ e[n] \in Nat
  BY <1>1
<1>3. /\ p.sum = (Sums(e)[m] + d) % 256 /\ Controlled(e, m, p)
      /\ k > n \/ k = 0 => Decoded(r, e, m, p)
  BY DEF InBody
<1> HIDE DEF m
<1>4. q \in Parser /\ Controlled(e, n, q) /\ q.sum = (p.sum + c) % 256
  <2>1. OneOf(e, m + 1, c)
    BY <1>2
  <2>2. q \in Parser /\ Controlled(e, m + 1, q) /\ q.sum = (p.sum + c) % 256
    BY <1>1, <1>2, <1>3, <2>1, BodyStep
  <2> QED
    BY <1>2, <2>2
<1>5. Len(q.digits) < 2
  <2>1. q.digits = << >>
    BY <1>4 DEF Controlled
  <2> QED
    BY <2>1
<1>6. q.sum = (Sums(e)[n] + (IF k \in 2 .. n + 1 THEN 1 ELSE 0)) % 256
  <2> DEFINE a == Sums(e)[m]
  <2>1. a \in Byte /\ Sums(e)[n] = (Sums(e)[n - 1] + e[n]) % 256 /\ n - 1 = m
    <3>1. m \in 0 .. Len(e)
      BY <1>1, <1>2
    <3> QED
      BY <1>1, <1>2, <3>1, SumsDef DEF m
  <2>2. Sums(e)[n] = (a + e[n]) % 256 /\ a \in Nat
    <3>1. Sums(e)[n] = (Sums(e)[m] + e[n]) % 256
      BY <2>1
    <3>2. a \in Nat
      BY <2>1, Bytes
    <3> QED
      BY <3>1, <3>2
  <2>3. d \in Nat /\ h \in Nat /\ c = e[n] + h
    <3>1. d = 0 \/ d = 1
      OBVIOUS
    <3>2. h = 0 \/ h = 1
      OBVIOUS
    <3>3. c = e[n] + h
      BY Zenon
    <3> QED
      BY <3>1, <3>2, <3>3
  <2>4. (IF k \in 2 .. n + 1 THEN 1 ELSE 0) = d + h
    <3>1. n \in Nat
      BY <1>2
    <3> QED
      BY <3>1
  <2> DEFINE x == e[n]
  <2> HIDE DEF a, d, h, x
  <2>5. (((a + d) % 256) + (x + h)) % 256 = (((a + x) % 256) + (d + h)) % 256
    <3>1. x \in Nat
      BY <1>2 DEF x
    <3> QED
      BY <2>2, <2>3, <3>1, ShiftSum
  <2>6. p.sum = (a + d) % 256 /\ c = x + h /\ Sums(e)[n] = (a + x) % 256
    BY <1>3, <2>2, <2>3 DEF a, x
  <2> QED
    BY <1>4, <2>4, <2>5, <2>6
<1>7. k > n + 1 \/ k = 0 => Decoded(r, e, n, q)
  <2>1. SUFFICES ASSUME k > n + 1 \/ k = 0 PROVE Decoded(r, e, n, q)
    OBVIOUS
  <2>2. k > n \/ k = 0
    BY <1>2, <2>1
  <2>3. c = e[m + 1]
    <3>1. k # n + 1
      BY <1>2, <2>1
    <3> QED
      BY <1>2, <3>1
  <2>4. Decoded(r, e, m, p)
    BY <1>3, <2>2
  <2>5. Decoded(r, e, m + 1, RecvChar(p, e[m + 1]))
    BY <1>2, <1>3, <2>4, DecodeStep
  <2> QED
    BY <1>2, <2>3, <2>5
<1>8. InBody(r, e, k, n + 1, q)
  <2> HIDE DEF q
  <2> QED
    BY <1>2, <1>4, <1>6, <1>7 DEF InBody
<1> QED
  BY <1>4, <1>5, <1>8

\* the '#' behind it,
LEMMA HashChar ==
  ASSUME NEW r, IsText(r), NEW e \in Encodings(r), NEW k \in Nat,
         NEW p \in Parser, InBody(r, e, k, Len(e) + 1, p), k # Len(e) + 2
  PROVE  RecvChar(p, HASH) \in Parser /\ Len(RecvChar(p, HASH).digits) < 2
         /\ InSum(r, e, k, Len(e) + 2, RecvChar(p, HASH))
<1> DEFINE L == Len(e)
           q == [p EXCEPT !.mode = "sum"]
           w == Wire(Frame(e), k)
<1>1. Shape(e) /\ L \in Nat /\ L >= 1
  BY ShapeOf DEF Shape
<1>2. /\ p.sum = (Sums(e)[(L + 1) - 1] + (IF k \in 2 .. L + 1 THEN 1 ELSE 0)) % 256
      /\ k > L + 1 \/ k = 0 => Decoded(r, e, (L + 1) - 1, p)
      /\ Controlled(e, (L + 1) - 1, p)
  BY DEF InBody
<1>3. (L + 1) - 1 = L
  BY <1>1
<1>4. Controlled(e, L, p) /\ (k > L + 1 \/ k = 0 => Decoded(r, e, L, p))
  BY <1>2, <1>3
<1>5. p.mode = "body" /\ p.digits = << >>
  <2>1. ~(L = 2 /\ e[2] = STAR)
    <3>1. SUFFICES ASSUME L = 2, e[2] = STAR PROVE FALSE
      OBVIOUS
    <3>2. \/ e[2] \in Plain
          \/ e[2] = ESC /\ 2 = 1
          \/ Len(e) >= 3
      <4>1. 2 \in 1 .. L
        BY <3>1
      <4> QED
        BY <1>1, <4>1 DEF Shape
    <3>3. STAR \notin Plain
      BY DEF STAR, Plain
    <3> QED
      BY <1>1, <3>1, <3>2, <3>3
  <2> QED
    BY <1>4, <2>1 DEF Controlled
<1>6. RecvChar(p, HASH) = q
  <2>1. RecvChar(p, HASH) = Body(p, HASH)
    BY <1>5 DEF RecvChar
  <2>2. HASH # DOLLAR /\ HASH # ESC /\ HASH # STAR
    BY DEF HASH, DOLLAR, ESC, STAR
  <2> QED
    BY <2>1, <2>2 DEF Body
<1>7. q \in Parser /\ q.digits = << >> /\ q.sum = p.sum /\ q.mode = "sum" /\ q.reply = p.reply
      /\ q.escape = p.escape
  BY <1>5 DEF Parser
<1>8. k > L + 2 \/ k = 0 => Decoded(r, e, L, q)
  <2>1. k > L + 2 => k > L + 1
    BY <1>1
  <2>2. Decoded(r, e, L, p) => Decoded(r, e, L, q)
    BY <1>7 DEF Decoded, Whole, Flipped, Shortened
  <2> QED
    BY <1>4, <2>1, <2>2
<1>9. SubSeq(w, L + 3, L + 2) = << >>
  <2>1. L + 3 > L + 2 /\ L + 3 \in Int /\ L + 2 \in Int
    BY <1>1
  <2> HIDE DEF w, L
  <2> QED
    BY <2>1
<1>10. q.sum = (Sum(e) + (IF k \in 2 .. L + 1 THEN 1 ELSE 0)) % 256
  BY <1>2, <1>3, <1>7 DEF Sum
<1>11. q.digits = SubSeq(w, L + 3, L + 2)
  BY <1>7, <1>9
<1>12. InSum(r, e, k, L + 2, q)
  <2> HIDE DEF q
  <2> QED
    BY <1>7, <1>8, <1>10, <1>11 DEF InSum
<1>13. Len(q.digits) < 2
  <2> HIDE DEF q
  <2> QED
    BY <1>7
<1> QED
  BY <1>6, <1>7, <1>12, <1>13

\* A digit of the checksum.
LEMMA DigitIs ==
  ASSUME NEW p \in Parser, p.mode = "sum", NEW c \in Nat
  PROVE  /\ RecvChar(p, c) \in Parser /\ RecvChar(p, c).mode = "sum"
         /\ RecvChar(p, c).digits = Append(p.digits, c)
         /\ RecvChar(p, c).sum = p.sum /\ RecvChar(p, c).escape = p.escape
         /\ RecvChar(p, c).reply = p.reply
<1> DEFINE q == [p EXCEPT !.digits = Append(@, c)]
<1>1. RecvChar(p, c) = q
  BY DEF RecvChar
<1>2. Append(p.digits, c) \in Seq(Nat)
  BY DEF Parser
<1>3. /\ q \in Parser /\ q.mode = "sum" /\ q.digits = Append(p.digits, c)
      /\ q.sum = p.sum /\ q.escape = p.escape /\ q.reply = p.reply
  BY <1>2 DEF Parser
<1> QED
  BY <1>1, <1>3

\* Two digits.
LEMMA PairOf ==
  ASSUME NEW s \in Seq(Nat), Len(s) = 2
  PROVE  s[1] \in Nat /\ s[2] \in Nat
OBVIOUS

\* A sequence and one element more.
LEMMA AppendIs ==
  ASSUME NEW s \in Seq(Nat), NEW n \in Nat, Len(s) = n, NEW c \in Nat
  PROVE  /\ Len(Append(s, c)) = n + 1 /\ Append(s, c)[n + 1] = c
         /\ \A i \in 1 .. n : Append(s, c)[i] = s[i]
OBVIOUS

\* The second of two digits.
LEMMA SecondOf ==
  ASSUME NEW s \in Seq(Nat), Len(s) = 1, NEW c \in Nat
  PROVE  Len(Append(s, c)) = 2 /\ Append(s, c)[1] = s[1] /\ Append(s, c)[2] = c
<1>1. /\ Len(Append(s, c)) = 1 + 1 /\ Append(s, c)[1 + 1] = c
      /\ \A i \in 1 .. 1 : Append(s, c)[i] = s[i]
  BY AppendIs
<1> DEFINE t == Append(s, c)
<1> HIDE DEF t
<1>2. t[1] = s[1] /\ 1 + 1 = 2
  BY <1>1 DEF t
<1> QED
  BY <1>1, <1>2 DEF t

\* What was decoded is kept.
LEMMA SameDecoded ==
  ASSUME NEW r, NEW e, NEW m, NEW p, NEW q, q.reply = p.reply, q.escape = p.escape,
         Decoded(r, e, m, p)
  PROVE  Decoded(r, e, m, q)
BY DEF Decoded, Whole, Flipped, Shortened

\* the first digit of the checksum,
LEMMA FirstDigit ==
  ASSUME NEW r, NEW e, Shape(e), NEW k \in 0 .. Len(Frame(e)), Hittable(Frame(e), k),
         NEW p \in Parser, InSum(r, e, k, Len(e) + 2, p),
         NEW c, c = Wire(Frame(e), k)[Len(e) + 3]
  PROVE  RecvChar(p, c) \in Parser /\ Len(RecvChar(p, c).digits) < 2
         /\ InSum(r, e, k, Len(e) + 3, RecvChar(p, c))
<1> DEFINE L == Len(e)
           w == Wire(Frame(e), k)
           q == RecvChar(p, c)
<1>1. L \in Nat
  BY DEF Shape
<1>2. w \in Seq(Nat) /\ Len(w) = L + 4 /\ k \in 0 .. L + 4
  BY WireOf
<1>3. /\ p.sum = (Sum(e) + (IF k \in 2 .. L + 1 THEN 1 ELSE 0)) % 256
      /\ k > L + 2 \/ k = 0 => Decoded(r, e, L, p)
      /\ p.mode = "sum" /\ p.digits = SubSeq(w, L + 3, L + 2)
  BY DEF InSum
<1>4. c = w[L + 3]
  OBVIOUS
<1> HIDE DEF w, L, q
<1>5. SubSeq(w, L + 3, L + 2) = << >> /\ c \in Nat
  <2>1. L + 3 > L + 2 /\ L + 3 \in Int /\ L + 2 \in Int /\ L + 3 \in 1 .. Len(w)
    BY <1>1, <1>2
  <2> QED
    BY <1>2, <1>4, <2>1
<1>6. q \in Parser /\ q.mode = "sum" /\ q.digits = Append(p.digits, c)
      /\ q.sum = p.sum /\ q.escape = p.escape /\ q.reply = p.reply
  BY <1>3, <1>5, DigitIs DEF q
<1>7. Append(<< >>, c) = SubSeq(w, L + 3, L + 3) /\ Len(Append(<< >>, c)) = 1
  <2>1. L + 3 \in 1 .. Len(w) /\ L + 3 \in Nat
    BY <1>1, <1>2
  <2> DEFINE i == L + 3
             u == SubSeq(w, i, i)
             v == Append(<< >>, c)
  <2> HIDE DEF i
  <2>2. u \in Seq(Nat) /\ Len(u) = 1 /\ u[1] = w[i]
    BY <1>2, <2>1 DEF i
  <2>3. v \in Seq(Nat) /\ Len(v) = 1 /\ v[1] = c
    BY <1>5
  <2> HIDE DEF u, v
  <2>4. u = v
    <3>1. u[1] = v[1]
      BY <1>4, <2>2, <2>3 DEF i
    <3>2. \A j \in 1 .. Len(u) : u[j] = v[j]
      BY <2>2, <3>1
    <3> QED
      BY <2>2, <2>3, <3>2, SeqEqual
  <2> QED
    BY <2>3, <2>4 DEF u, v, i
<1>8. q.digits = SubSeq(w, L + 3, L + 3) /\ Len(q.digits) < 2
  <2>1. q.digits = Append(<< >>, c)
    BY <1>3, <1>5, <1>6
  <2> HIDE DEF q
  <2>2. Len(q.digits) = 1
    BY <1>7, <2>1
  <2> QED
    BY <1>7, <2>1, <2>2
<1>9. k > L + 3 \/ k = 0 => Decoded(r, e, L, q)
  <2>1. k > L + 3 => k > L + 2
    BY <1>1, <1>2
  <2>2. Decoded(r, e, L, p) => Decoded(r, e, L, q)
    BY <1>6, SameDecoded
  <2> QED
    BY <1>3, <2>1, <2>2
<1>10. InSum(r, e, k, L + 3, q)
  <2>1. q.sum = (Sum(e) + (IF k \in 2 .. L + 1 THEN 1 ELSE 0)) % 256
    BY <1>3, <1>6
  <2>2. q.sum = (Sum(e) + (IF k \in 2 .. Len(e) + 1 THEN 1 ELSE 0)) % 256
    BY <2>1 DEF L
  <2>3. k > L + 3 \/ k = 0 => Decoded(r, e, Len(e), q)
    BY <1>9 DEF L
  <2>4. q.digits = SubSeq(Wire(Frame(e), k), Len(e) + 3, L + 3)
    BY <1>8 DEF L, w
  <2> QED
    BY <1>6, <2>2, <2>3, <2>4 DEF InSum
<1> QED
  BY <1>6, <1>8, <1>10 DEF q, L

\* and the second: the frame is good if and only if nothing was damaged.
LEMMA LastDigit ==
  ASSUME NEW r, IsText(r), NEW e \in Encodings(r), NEW k \in 0 .. Len(Frame(e)),
         Hittable(Frame(e), k), NEW p \in Parser, InSum(r, e, k, Len(e) + 3, p),
         NEW c, c = Wire(Frame(e), k)[Len(e) + 4]
  PROVE  /\ Len(RecvChar(p, c).digits) = 2 /\ RecvChar(p, c) \in Parser
         /\ sum_ok(RecvChar(p, c)) <=> k = 0
         /\ k = 0 => RecvChar(p, c).reply = r
<1> DEFINE L == Len(e)
           w == Wire(Frame(e), k)
           q == RecvChar(p, c)
           h == HexByte(Sum(e))
           S == Sum(e)
<1>0. Shape(e)
  BY ShapeOf
<1>1. L \in Nat /\ e \in Seq(Nat) /\ S \in Byte
  <2>1. e \in Seq(Nat) /\ L \in Nat
    BY <1>0 DEF Shape
  <2> QED
    BY <2>1, SumsDef DEF Sum
<1>2. /\ w \in Seq(Nat) /\ Len(w) = L + 4 /\ k \in 0 .. L + 4 /\ k # 1 /\ k # L + 2
      /\ w[L + 3] = h[1] + (IF k = L + 3 THEN 1 ELSE 0)
      /\ w[L + 4] = h[2] + (IF k = L + 4 THEN 1 ELSE 0)
  BY <1>0, WireOf
<1>3. /\ p.sum = (S + (IF k \in 2 .. L + 1 THEN 1 ELSE 0)) % 256
      /\ k > L + 3 \/ k = 0 => Decoded(r, e, L, p)
      /\ p.mode = "sum" /\ p.digits = SubSeq(w, L + 3, L + 3)
  BY DEF InSum
<1>4. c = w[L + 4]
  OBVIOUS
<1>5. /\ h \in Seq(Nat) /\ Len(h) = 2 /\ h[1] \in Nat /\ h[2] \in Nat
      /\ gdb_decode_hex(h[1], h[2]) = S
      /\ gdb_decode_hex(h[1] + 1, h[2]) # S /\ gdb_decode_hex(h[1], h[2] + 1) # S
  <2>1. /\ h \in Seq(Nat) /\ Len(h) = 2
        /\ gdb_decode_hex(h[1], h[2]) = S
        /\ gdb_decode_hex(h[1] + 1, h[2]) # S /\ gdb_decode_hex(h[1], h[2] + 1) # S
    BY <1>1, HexByteBack
  <2> HIDE DEF h, S
  <2>2. h \in Seq(Nat) /\ Len(h) = 2
    BY <2>1
  <2>3. h[1] \in Nat /\ h[2] \in Nat
    BY <2>2, PairOf
  <2> QED
    BY <2>1, <2>3
<1>6. k = 0 => Decoded(r, e, Len(e), p)
  BY <1>3
<1> HIDE DEF w, L, q, h, S
<1>7. L + 3 \in 1 .. Len(w) /\ L + 4 \in 1 .. Len(w) /\ L + 3 \in Nat
  BY <1>1, <1>2
<1>8. c \in Nat /\ w[L + 3] \in Nat
  BY <1>2, <1>4, <1>7
<1>9. p.digits \in Seq(Nat) /\ Len(p.digits) = 1 /\ p.digits[1] = w[L + 3]
  <2> DEFINE i == L + 3
             u == SubSeq(w, i, i)
  <2> HIDE DEF i
  <2>1. u \in Seq(Nat) /\ Len(u) = 1 /\ u[1] = w[i]
    BY <1>2, <1>7 DEF i
  <2> QED
    BY <1>3, <2>1 DEF i
<1>10. /\ q \in Parser /\ q.digits = Append(p.digits, c) /\ q.sum = p.sum
       /\ q.escape = p.escape /\ q.reply = p.reply
  BY <1>3, <1>8, DigitIs DEF q
<1>11. Len(q.digits) = 2 /\ q.digits[1] = w[L + 3] /\ q.digits[2] = w[L + 4]
  <2> DEFINE d == p.digits
  <2>1. d \in Seq(Nat) /\ Len(d) = 1 /\ d[1] = w[L + 3]
    BY <1>9
  <2> HIDE DEF d
  <2>2. Len(Append(d, c)) = 2 /\ Append(d, c)[1] = d[1] /\ Append(d, c)[2] = c
    <3>1. d \in Seq(Nat) /\ Len(d) = 1 /\ c \in Nat
      BY <1>8, <2>1
    <3> QED
      BY <3>1, SecondOf
  <2> QED
    BY <1>4, <1>10, <2>1, <2>2 DEF d
<1>12. sum_ok(q) <=> p.sum = gdb_decode_hex(w[L + 3], w[L + 4])
  BY <1>10, <1>11 DEF sum_ok
<1>13. S % 256 = S /\ (S + 1) % 256 # S /\ S + 0 = S
  BY <1>1 DEF Byte
<1>14. sum_ok(q) <=> k = 0
  <2>1. CASE k \in 2 .. L + 1
    <3>1. k # 0 /\ k # L + 3 /\ k # L + 4
      BY <1>1, <2>1
    <3>2. p.sum = (S + 1) % 256 /\ w[L + 3] = h[1] + 0 /\ w[L + 4] = h[2] + 0
      BY <1>2, <1>3, <2>1, <3>1
    <3>3. w[L + 3] = h[1] /\ w[L + 4] = h[2]
      BY <1>5, <3>2
    <3> QED
      BY <1>5, <1>12, <1>13, <3>1, <3>2, <3>3
  <2>2. CASE k \notin 2 .. L + 1
    <3>1. p.sum = S
      <4>1. p.sum = (S + 0) % 256
        BY <1>3, <2>2
      <4> QED
        BY <1>13, <4>1
    <3>2. k = 0 \/ k = L + 3 \/ k = L + 4
      BY <1>1, <1>2, <2>2
    <3>3. CASE k = 0
      <4>1. k # L + 3 /\ k # L + 4
        BY <1>1, <3>3
      <4>2. w[L + 3] = h[1] /\ w[L + 4] = h[2]
        BY <1>2, <1>5, <4>1
      <4> QED
        BY <1>5, <1>12, <3>1, <3>3, <4>2
    <3>4. CASE k = L + 3
      <4>1. k # L + 4 /\ k # 0
        BY <1>1, <3>4
      <4>2. w[L + 3] = h[1] + 1 /\ w[L + 4] = h[2]
        BY <1>2, <1>5, <3>4, <4>1
      <4> QED
        BY <1>5, <1>12, <3>1, <4>1, <4>2
    <3>5. CASE k = L + 4
      <4>1. k # L + 3 /\ k # 0
        BY <1>1, <3>5
      <4>2. w[L + 3] = h[1] /\ w[L + 4] = h[2] + 1
        BY <1>2, <1>5, <3>5, <4>1
      <4> QED
        BY <1>5, <1>12, <3>1, <4>1, <4>2
    <3> QED
      BY <3>2, <3>3, <3>4, <3>5
  <2> QED
    BY <2>1, <2>2
<1>15. k = 0 => q.reply = r
  <2>1. Decoded(r, e, Len(e), p) => p.reply = r
    BY DecodeEnd
  <2> QED
    BY <1>6, <1>10, <2>1
<1> QED
  BY <1>10, <1>11, <1>14, <1>15 DEF q

\* The client with the next character of QEMU's frame.
LEMMA TakenStep ==
  ASSUME NEW r, IsText(r), NEW e \in Encodings(r), NEW k \in 0 .. Len(Frame(e)),
         Hittable(Frame(e), k), NEW n \in 0 .. Len(Frame(e)) - 1, NEW p \in Parser,
         Taken(r, e, k, n, p)
  PROVE  LET q == RecvChar(p, Wire(Frame(e), k)[n + 1]) IN
         /\ q \in Parser
         /\ n + 1 < Len(Frame(e)) => Len(q.digits) < 2 /\ Taken(r, e, k, n + 1, q)
         /\ n + 1 = Len(Frame(e)) => /\ Len(q.digits) = 2 /\ (sum_ok(q) <=> k = 0)
                                     /\ k = 0 => q.reply = r
<1> DEFINE L == Len(e)
           w == Wire(Frame(e), k)
           c == w[n + 1]
           q == RecvChar(p, c)
<1>1. Shape(e) /\ e \in Seq(Nat) /\ L \in Nat
  BY ShapeOf DEF Shape
<1>2. Len(Frame(e)) = L + 4 /\ Frame(e) \in Seq(Nat)
  BY <1>1, FrameIs
<1>3. /\ w[1] = DOLLAR /\ w[L + 2] = HASH /\ k # 1 /\ k # L + 2 /\ k \in 0 .. L + 4
      /\ \A i \in 1 .. L : /\ w[i + 1] = e[i] + (IF k = i + 1 THEN 1 ELSE 0)
                           /\ OneOf(e, i, w[i + 1])
  BY <1>1, WireOf
<1>4. n \in Nat /\ k \in Nat /\ n <= L + 3
  BY <1>1, <1>2
<1>5. CASE n = 0
  <2>1. p = Seek /\ c = DOLLAR
    BY <1>1, <1>3, <1>5, TakenIs
  <2>2. q \in Parser /\ Len(q.digits) < 2 /\ InBody(r, e, k, 1, q)
    BY <1>3, <1>4, <2>1, FirstChar
  <2>3. n + 1 = 1 /\ 1 \in 1 .. L + 1 /\ 1 # L + 4 /\ 1 \in Nat
    BY <1>1, <1>5
  <2> HIDE DEF q
  <2>4. Taken(r, e, k, 1, q)
    BY <1>1, <2>2, <2>3, TakenIs
  <2> QED
    BY <1>2, <2>2, <2>3, <2>4 DEF q
<1>6. CASE n \in 1 .. L
  <2>1. InBody(r, e, k, n, p)
    <3>1. n \in 1 .. L + 1
      BY <1>1, <1>6
    <3> QED
      BY <1>1, <1>4, <3>1, TakenIs
  <2>2. c = e[n] + (IF k = n + 1 THEN 1 ELSE 0) /\ OneOf(e, n, c)
    BY <1>3, <1>6
  <2> HIDE DEF c
  <2>3. q \in Parser /\ Len(q.digits) < 2 /\ InBody(r, e, k, n + 1, q)
    BY <1>4, <1>6, <2>1, <2>2, BodyChar
  <2>4. n + 1 \in 1 .. L + 1 /\ n + 1 # L + 4 /\ n + 1 \in Nat
    BY <1>1, <1>6
  <2> HIDE DEF q
  <2>5. Taken(r, e, k, n + 1, q)
    BY <1>1, <2>3, <2>4, TakenIs
  <2> QED
    BY <1>2, <2>3, <2>4, <2>5 DEF q, c
<1>7. CASE n = L + 1
  <2>1. InBody(r, e, k, L + 1, p)
    <3>1. L + 1 \in 1 .. L + 1 /\ L + 1 \in Nat
      BY <1>1
    <3> QED
      BY <1>1, <1>7, <3>1, TakenIs
  <2>2. n + 1 = L + 2 /\ c = HASH /\ L + 2 > L + 1 /\ L + 2 \in Nat /\ L + 2 # L + 4
    BY <1>1, <1>3, <1>7
  <2> HIDE DEF c
  <2>3. q \in Parser /\ Len(q.digits) < 2 /\ InSum(r, e, k, L + 2, q)
    BY <1>3, <1>4, <2>1, <2>2, HashChar
  <2> HIDE DEF q
  <2>4. Taken(r, e, k, L + 2, q)
    BY <1>1, <2>2, <2>3, TakenIs
  <2> QED
    BY <1>2, <2>2, <2>3, <2>4 DEF q, c
<1>8. CASE n = L + 2
  <2>1. InSum(r, e, k, L + 2, p)
    <3>1. L + 2 > L + 1 /\ L + 2 \in Nat
      BY <1>1
    <3> QED
      BY <1>1, <1>8, <3>1, TakenIs
  <2>2. n + 1 = L + 3 /\ c = w[L + 3] /\ L + 3 > L + 1 /\ L + 3 \in Nat /\ L + 3 # L + 4
    BY <1>1, <1>8
  <2> HIDE DEF c
  <2>3. q \in Parser /\ Len(q.digits) < 2 /\ InSum(r, e, k, L + 3, q)
    BY <1>1, <1>4, <2>1, <2>2, FirstDigit
  <2> HIDE DEF q
  <2>4. Taken(r, e, k, L + 3, q)
    BY <1>1, <2>2, <2>3, TakenIs
  <2> QED
    BY <1>2, <2>2, <2>3, <2>4 DEF q, c
<1>9. CASE n = L + 3
  <2>1. InSum(r, e, k, L + 3, p)
    <3>1. L + 3 > L + 1 /\ L + 3 \in Nat
      BY <1>1
    <3> QED
      BY <1>1, <1>9, <3>1, TakenIs
  <2>2. n + 1 = L + 4 /\ c = w[L + 4]
    BY <1>1, <1>9
  <2> HIDE DEF c
  <2>3. /\ Len(q.digits) = 2 /\ q \in Parser
        /\ sum_ok(q) <=> k = 0
        /\ k = 0 => q.reply = r
    BY <2>1, <2>2, LastDigit
  <2>4. ~(n + 1 < L + 4)
    BY <1>1, <2>2
  <2> QED
    BY <1>2, <2>2, <2>3, <2>4 DEF c
<1> QED
  <2>1. n = 0 \/ n \in 1 .. L \/ n = L + 1 \/ n = L + 2 \/ n = L + 3
    BY <1>1, <1>4
  <2> QED
    BY <1>5, <1>6, <1>7, <1>8, <1>9, <2>1

\* Damage to what the client has yet to take.
LEMMA TakenBefore ==
  ASSUME NEW r, NEW e, Shape(e), NEW n \in Nat, NEW k \in n + 1 .. Len(Frame(e)),
         NEW p, Taken(r, e, 0, n, p)
  PROVE  Taken(r, e, k, n, p)
<1> DEFINE L == Len(e)
           f == Frame(e)
           v == Wire(f, 0)
           w == Wire(f, k)
<1>1. e \in Seq(Nat) /\ L \in Nat
  BY DEF Shape
<1>2. Len(f) = L + 4 /\ f \in Seq(Nat)
  BY <1>1, FrameIs
<1>3. k > n /\ k \in Nat /\ k # 0 /\ k <= L + 4 /\ n < L + 4
  BY <1>1, <1>2
<1>4. CASE n = 0
  BY <1>1, <1>4, TakenIs
<1>5. CASE n \in 1 .. L + 1
  <2>1. InBody(r, e, 0, n, p)
    BY <1>1, <1>5, TakenIs
  <2>2. ~(k \in 2 .. n) /\ ~(0 \in 2 .. n)
    BY <1>3, <1>5
  <2>3. InBody(r, e, k, n, p)
    BY <2>1, <2>2 DEF InBody
  <2> QED
    BY <1>1, <1>5, <2>3, TakenIs
<1>6. CASE n > L + 1
  <2>1. InSum(r, e, 0, n, p)
    BY <1>1, <1>6, TakenIs
  <2>2. ~(k \in 2 .. L + 1) /\ ~(0 \in 2 .. L + 1)
    BY <1>1, <1>3, <1>6
  <2>3. SubSeq(v, L + 3, n) = SubSeq(w, L + 3, n)
    <3>1. 0 \in 0 .. Len(f) /\ k \in 0 .. Len(f)
      BY <1>1, <1>2, <1>3
    <3>2. /\ v \in Seq(Nat) /\ Len(v) = Len(f)
          /\ \A i \in 1 .. Len(f) : v[i] = f[i] + (IF i = 0 THEN 1 ELSE 0)
      BY <1>2, <3>1, WireIs
    <3>3. /\ w \in Seq(Nat) /\ Len(w) = Len(f)
          /\ \A i \in 1 .. Len(f) : w[i] = f[i] + (IF i = k THEN 1 ELSE 0)
      BY <1>2, <3>1, WireIs
    <3> HIDE DEF v, w, f, L
    <3>4. ASSUME NEW i \in L + 3 .. n PROVE v[i] = w[i] /\ w[i] \in Nat /\ v[i] \in Nat
      <4>1. i \in 1 .. Len(f) /\ i # k /\ i # 0
        BY <1>1, <1>2, <1>3
      <4> QED
        BY <3>2, <3>3, <4>1
    <3> DEFINE s == SubSeq(v, L + 3, n)
               t == SubSeq(w, L + 3, n)
    <3>5. L + 3 \in Int /\ n \in Int
      BY <1>1
    <3>6. /\ s \in Seq(Nat) /\ Len(s) = (IF L + 3 <= n THEN n - (L + 3) + 1 ELSE 0)
          /\ \A i \in 1 .. n - (L + 3) + 1 : s[i] = v[L + 3 + i - 1]
      BY <3>4, <3>5, SubSeqProperties
    <3>7. /\ t \in Seq(Nat) /\ Len(t) = (IF L + 3 <= n THEN n - (L + 3) + 1 ELSE 0)
          /\ \A i \in 1 .. n - (L + 3) + 1 : t[i] = w[L + 3 + i - 1]
      BY <3>4, <3>5, SubSeqProperties
    <3> HIDE DEF s, t
    <3>8. ASSUME NEW i \in 1 .. Len(s) PROVE s[i] = t[i]
      <4>1. i \in 1 .. n - (L + 3) + 1 /\ L + 3 + i - 1 \in L + 3 .. n
        BY <1>1, <3>6
      <4> QED
        BY <3>4, <3>6, <3>7, <4>1
    <3>9. s = t
      BY <3>6, <3>7, <3>8, SeqEqual
    <3> QED
      BY <3>9 DEF s, t
  <2>4. InSum(r, e, k, n, p)
    BY <2>1, <2>2, <2>3, <1>3 DEF InSum
  <2> QED
    BY <1>1, <1>6, <2>4, TakenIs
<1> QED
  BY <1>1, <1>3, <1>4, <1>5, <1>6

\* All of QEMU's replies are of this kind.
LEMMA Replies ==
  /\ \A regs \in Reg \X Reg : IsText(HexRegs(regs))
  /\ IsText(OK) /\ IsText(E14) /\ IsText(T05)
<1>1. ASSUME NEW regs \in Reg \X Reg PROVE IsText(HexRegs(regs))
  <2>1. /\ HexRegs(regs) \in Seq(Nat) /\ Len(HexRegs(regs)) = 8
        /\ \A i \in 1 .. 8 : HexRegs(regs)[i] \in Digit
    BY HexRegsBack
  <2>2. Digit \subseteq Letter
    BY DEF Digit, Letter
  <2> QED
    BY <2>1, <2>2 DEF IsText
<1>2. OK \in Seq(Nat) /\ E14 \in Seq(Nat) /\ T05 \in Seq(Nat)
  BY DEF OK, E14, T05
<1>3. Len(OK) = 2 /\ Len(E14) = 3 /\ Len(T05) = 3
  BY DEF OK, E14, T05
<1>4. /\ \A i \in 1 .. 2 : OK[i] \in Letter
      /\ \A i \in 1 .. 3 : E14[i] \in Letter
      /\ \A i \in 1 .. 3 : T05[i] \in Letter
  BY DEF OK, E14, T05, Letter
<1> QED
  BY <1>1, <1>2, <1>3, <1>4 DEF IsText

(* recv_packet decodes each encoding of each reply, character by character *)
(* and whatever run it shortens, and refuses a frame with any one of its   *)
(* characters damaged: run[n] is the parser after n characters.            *)
THEOREM FramesAreDecodedOrRefused ==
  ASSUME NEW r, IsText(r), NEW e \in Encodings(r), NEW k \in 0 .. Len(Frame(e)),
         Hittable(Frame(e), k), NEW run, run[0] = Seek,
         \A n \in 0 .. Len(Frame(e)) - 1 :
           run[n + 1] = RecvChar(run[n], Wire(Frame(e), k)[n + 1])
  PROVE  LET p == run[Len(Frame(e))] IN
         /\ Len(p.digits) = 2
         /\ (sum_ok(p) <=> k = 0)
         /\ k = 0 => p.reply = r
<1> DEFINE F == Len(Frame(e))
           T == {n \in Nat : n < F => run[n] \in Parser /\ Taken(r, e, k, n, run[n])}
<1>1. F \in Nat /\ F >= 4
  <2>1. Shape(e)
    BY ShapeOf
  <2>2. e \in Seq(Nat)
    BY <2>1 DEF Shape
  <2>3. F = Len(e) + 4 /\ Len(e) \in Nat
    BY <2>2, FrameIs
  <2> HIDE DEF F
  <2> QED
    BY <2>3
<1>2. ASSUME NEW n \in 0 .. F - 1, run[n] \in Parser, Taken(r, e, k, n, run[n])
      PROVE  /\ n + 1 < F => run[n + 1] \in Parser /\ Taken(r, e, k, n + 1, run[n + 1])
             /\ n + 1 = F => /\ Len(run[n + 1].digits) = 2
                             /\ sum_ok(run[n + 1]) <=> k = 0
                             /\ k = 0 => run[n + 1].reply = r
  <2>1. run[n + 1] = RecvChar(run[n], Wire(Frame(e), k)[n + 1])
    BY <1>2
  <2> QED
    BY <1>2, <2>1, TakenStep
<1>3. 0 \in T
  BY DecodeStart DEF Taken
<1>4. ASSUME NEW n \in T PROVE n + 1 \in T
  <2>1. n \in Nat /\ n + 1 \in Nat
    OBVIOUS
  <2>2. ASSUME n + 1 < F
        PROVE  run[n + 1] \in Parser /\ Taken(r, e, k, n + 1, run[n + 1])
    <3>1. n \in 0 .. F - 1 /\ n < F
      BY <1>1, <2>1, <2>2
    <3>2. run[n] \in Parser /\ Taken(r, e, k, n, run[n])
      BY <3>1
    <3> QED
      BY <1>2, <2>2, <3>1, <3>2
  <2> QED
    BY <2>1, <2>2
<1>5. T = Nat
  <2>1. T \in SUBSET Nat
    OBVIOUS
  <2> HIDE DEF T
  <2> QED
    BY <1>3, <1>4, <2>1, Induction
<1>6. F - 1 \in 0 .. F - 1 /\ F - 1 < F /\ F - 1 \in Nat /\ (F - 1) + 1 = F
  BY <1>1
<1>7. run[F - 1] \in Parser /\ Taken(r, e, k, F - 1, run[F - 1])
  BY <1>5, <1>6
<1> HIDE DEF F, T
<1>8. /\ Len(run[F].digits) = 2
      /\ sum_ok(run[F]) <=> k = 0
      /\ k = 0 => run[F].reply = r
  <2> DEFINE n == F - 1
  <2>1. n \in 0 .. F - 1 /\ run[n] \in Parser /\ Taken(r, e, k, n, run[n]) /\ n + 1 = F
    BY <1>6, <1>7
  <2> HIDE DEF n
  <2>2. /\ Len(run[n + 1].digits) = 2
        /\ sum_ok(run[n + 1]) <=> k = 0
        /\ k = 0 => run[n + 1].reply = r
    BY <1>2, <2>1
  <2> QED
    BY <2>1, <2>2
<1> QED
  BY <1>8 DEF F

-----------------------------------------------------------------------------
\* The commands of a call.

\* How a buffer falls into packets.
LEMMA Products ==
  /\ \A a \in Nat : a * MTU \in Nat /\ (a + 1) * MTU = a * MTU + MTU
  /\ \A a, b \in Nat : a <= b => a * MTU <= b * MTU
  /\ 0 * MTU = 0 /\ 1 * MTU = MTU /\ MTU \in Nat /\ MTU >= 1
<1>1. MTU \in Nat /\ MTU >= 1
  BY MtuAssumption
<1>2. ASSUME NEW a \in Nat PROVE a * MTU \in Nat /\ (a + 1) * MTU = a * MTU + MTU
  BY <1>1
<1>3. ASSUME NEW a \in Nat, NEW b \in Nat, a <= b PROVE a * MTU <= b * MTU
  <2>1. b - a \in Nat /\ a + (b - a) = b
    BY <1>3
  <2> DEFINE d == b - a
  <2> HIDE DEF d
  <2>2. (a + d) * MTU = a * MTU + d * MTU /\ a * MTU \in Nat /\ d * MTU \in Nat
    BY <1>1, <2>1 DEF d
  <2> QED
    BY <2>1, <2>2 DEF d
<1> QED
  BY <1>1, <1>2, <1>3

\* The number of packets is enough for the buffer, and no packet but the only one is empty.
LEMMA ChunksIs ==
  ASSUME NEW len \in Nat
  PROVE  /\ Chunks(len) \in Nat \ {0}
         /\ len = 0 => Chunks(len) = 1
         /\ len > 0 => (Chunks(len) - 1) * MTU < len
         /\ len <= Chunks(len) * MTU
<1>1. MTU \in Nat /\ MTU >= 1
  BY MtuAssumption
<1>2. CASE len = 0
  <2>1. Chunks(len) = 1 /\ 1 * MTU = MTU
    BY <1>1, <1>2 DEF Chunks
  <2> QED
    BY <1>1, <1>2, <2>1
<1>3. CASE len > 0
  <2> DEFINE x == len + MTU - 1
             q == x \div MTU
             m == x % MTU
  <2>1. x \in Nat /\ x >= MTU
    BY <1>1, <1>3
  <2> HIDE DEF x
  <2>2. q \in Int /\ m \in 0 .. MTU - 1 /\ x = MTU * q + m
    BY <1>1, <2>1
  <2>3. q >= 1
    <3>1. SUFFICES ASSUME q <= 0 PROVE FALSE
      BY <2>2
    <3> HIDE DEF q, m
    <3>2. MTU * q <= 0
      BY <1>1, <2>2, <3>1
    <3> QED
      BY <1>1, <2>1, <2>2, <3>2
  <2>4. Chunks(len) = q
    BY <1>3 DEF Chunks, x
  <2> HIDE DEF q, m
  <2>5. q * MTU = x - m /\ (q - 1) * MTU = x - m - MTU
    BY <1>1, <2>1, <2>2
  <2>6. (q - 1) * MTU < len /\ len <= q * MTU
    BY <1>1, <2>2, <2>5 DEF x
  <2> QED
    BY <1>3, <2>2, <2>3, <2>4, <2>6
<1> QED
  BY <1>2, <1>3

\* What has been moved by a packet.
LEMMA MovedIs ==
  ASSUME NEW c, c.buf \in Seq(Byte), NEW i \in Nat
  PROVE  /\ Moved(c, i) \in 0 .. Len(c.buf) /\ Moved(c, 0) = 0
         /\ Moved(c, Chunks(Len(c.buf))) = Len(c.buf)
         /\ i < Chunks(Len(c.buf)) =>
              Moved(c, i) = i * MTU /\ Moved(c, i) <= Moved(c, i + 1)
<1> DEFINE len == Len(c.buf)
           C == Chunks(len)
<1>1. len \in Nat
  OBVIOUS
<1>2. C \in Nat \ {0} /\ (len = 0 => C = 1) /\ (len > 0 => (C - 1) * MTU < len) /\ len <= C * MTU
  BY <1>1, ChunksIs
<1>3. /\ Moved(c, i) = IF i * MTU < len THEN i * MTU ELSE len
      /\ Moved(c, 0) = IF 0 * MTU < len THEN 0 * MTU ELSE len
      /\ Moved(c, C) = IF C * MTU < len THEN C * MTU ELSE len
      /\ Moved(c, i + 1) = IF (i + 1) * MTU < len THEN (i + 1) * MTU ELSE len
  BY DEF Moved
<1> HIDE DEF len, C
<1>4. i * MTU \in Nat /\ (i + 1) * MTU = i * MTU + MTU /\ 0 * MTU = 0 /\ C * MTU \in Nat
      /\ MTU \in Nat /\ MTU >= 1
  BY <1>2, Products
<1>5. Moved(c, i) \in 0 .. len /\ Moved(c, 0) = 0 /\ Moved(c, C) = len
  BY <1>1, <1>2, <1>3, <1>4
<1>6. i < C => Moved(c, i) = i * MTU /\ Moved(c, i) <= Moved(c, i + 1)
  <2>1. SUFFICES ASSUME i < C PROVE Moved(c, i) = i * MTU /\ Moved(c, i) <= Moved(c, i + 1)
    OBVIOUS
  <2>2. CASE len = 0
    <3>1. i = 0
      BY <1>2, <2>1, <2>2
    <3> QED
      BY <1>3, <1>4, <2>2, <3>1
  <2>3. CASE len > 0
    <3>1. C - 1 \in Nat /\ i <= C - 1
      BY <1>2, <2>1
    <3>2. i * MTU <= (C - 1) * MTU
      BY <3>1, Products
    <3>3. i * MTU < len
      <4>1. (C - 1) * MTU \in Nat
        BY <3>1, Products
      <4> QED
        BY <1>1, <1>2, <1>4, <2>3, <3>2, <4>1
    <3> QED
      BY <1>1, <1>3, <1>4, <3>3
  <2> QED
    BY <1>1, <2>2, <2>3
<1> QED
  BY <1>5, <1>6 DEF len, C

\* Each packet starts where the one before it ended.
LEMMA ChunkIs ==
  ASSUME NEW c, c.op = "memcpy", c.addr \in Nat, c.buf \in Seq(Byte)
  PROVE  /\ Commands(c) = gdb_memcpy_to_qemu(c.addr, c.buf)
         /\ Len(Commands(c)) = Chunks(Len(c.buf))
         /\ Len(Commands(c)) \in Nat
         /\ \A k \in 1 .. Chunks(Len(c.buf)) :
              Commands(c)[k] = small(c.addr + Moved(c, k - 1),
                                     SubSeq(c.buf, Moved(c, k - 1) + 1, Moved(c, k)))
<1> DEFINE C == Chunks(Len(c.buf))
<1>1. Commands(c) = gdb_memcpy_to_qemu(c.addr, c.buf)
  BY DEF Commands
<1>2. C \in Nat
  BY ChunksIs
<1>3. Len(Commands(c)) = C
  BY <1>1, <1>2 DEF gdb_memcpy_to_qemu
<1>4. ASSUME NEW k \in 1 .. C
      PROVE  Commands(c)[k] = small(c.addr + Moved(c, k - 1),
                                     SubSeq(c.buf, Moved(c, k - 1) + 1, Moved(c, k)))
  <2>1. Commands(c)[k] = small(c.addr + (k - 1) * MTU,
                               SubSeq(c.buf, (k - 1) * MTU + 1,
                                      IF k * MTU < Len(c.buf) THEN k * MTU ELSE Len(c.buf)))
    BY <1>1 DEF gdb_memcpy_to_qemu
  <2>2. Moved(c, k - 1) = (k - 1) * MTU
    <3>1. k - 1 \in Nat /\ k - 1 < C
      BY <1>2
    <3> QED
      BY <3>1, MovedIs
  <2>3. Moved(c, k) = IF k * MTU < Len(c.buf) THEN k * MTU ELSE Len(c.buf)
    BY DEF Moved
  <2> QED
    BY <2>1, <2>2, <2>3
<1> QED
  BY <1>1, <1>2, <1>3, <1>4

\* A piece of a buffer.
LEMMA PieceIs ==
  ASSUME NEW s \in Seq(Byte), NEW a \in 0 .. Len(s), NEW b \in a .. Len(s)
  PROVE  /\ SubSeq(s, a + 1, b) \in Seq(Byte) /\ Len(SubSeq(s, a + 1, b)) = b - a
         /\ \A j \in 1 .. b - a : SubSeq(s, a + 1, b)[j] = s[a + j]
<1>1. Len(s) \in Nat /\ a \in Nat /\ b \in Nat /\ a + 1 \in Int /\ b \in Int
  OBVIOUS
<1>2. \A i \in a + 1 .. b : s[i] \in Byte
  BY <1>1
<1> DEFINE t == SubSeq(s, a + 1, b)
<1>3. /\ t \in Seq(Byte) /\ Len(t) = (IF a + 1 <= b THEN b - (a + 1) + 1 ELSE 0)
      /\ \A i \in 1 .. b - (a + 1) + 1 : t[i] = s[a + 1 + i - 1]
  BY <1>1, <1>2, SubSeqProperties
<1> HIDE DEF t
<1>4. Len(t) = b - a
  BY <1>1, <1>3
<1>5. ASSUME NEW j \in 1 .. b - a PROVE t[j] = s[a + j]
  <2>1. j \in 1 .. b - (a + 1) + 1 /\ a + 1 + j - 1 = a + j
    BY <1>1
  <2> QED
    BY <1>3, <2>1
<1> QED
  BY <1>3, <1>4, <1>5 DEF t

\* The kinds of call.
LEMMA CallIs ==
  ASSUME NEW c \in Calls
  PROVE  /\ c # NoCall
         /\ \/ c.op = "exec" /\ c.n \in Nat
            \/ c.op = "memcpy" /\ c.addr \in Nat /\ c.buf \in Seq(Byte)
            \/ c.op = "to_ref" /\ c.pc \in Reg
            \/ c.op = "to_dut"
<1>1. c # NoCall
  BY CallsAssumption
<1>2. \/ c.op = "exec" /\ c.n \in Nat
      \/ c.op = "memcpy" /\ c.addr \in Nat /\ c.buf \in Seq(0 .. 255)
      \/ c.op = "to_ref" /\ c.pc \in Nat /\ c.pc < 65536
      \/ c.op = "to_dut"
  BY CallsAssumption
<1>3. ASSUME NEW x \in Nat, x < 65536 PROVE x \in Reg
  BY <1>3 DEF Reg
<1>4. 0 .. 255 = Byte
  BY DEF Byte
<1>5. c.op = "memcpy" /\ c.addr \in Nat /\ c.buf \in Seq(0 .. 255)
      => c.op = "memcpy" /\ c.addr \in Nat /\ c.buf \in Seq(Byte)
  BY <1>4
<1>6. c.op = "to_ref" /\ c.pc \in Nat /\ c.pc < 65536 => c.op = "to_ref" /\ c.pc \in Reg
  BY <1>3
<1> QED
  BY <1>1, <1>2, <1>5, <1>6

\* The commands they become.
LEMMA CommandsIs ==
  ASSUME NEW c \in Calls
  PROVE  /\ Commands(c) \in Seq(Command) /\ Len(Commands(c)) \in Nat
         /\ c.op = "exec" => /\ Len(Commands(c)) = c.n
                             /\ \A i \in 1 .. c.n : Commands(c)[i] = gdb_si
         /\ c.op = "to_ref" => Commands(c) = <<gdb_getregs, gdb_setregs>>
         /\ c.op = "to_dut" => Commands(c) = <<gdb_getregs>>
<1>1. gdb_si \in Command /\ gdb_getregs \in Command /\ gdb_setregs \in Command
  BY DEF gdb_si, gdb_getregs, gdb_setregs, Command
<1>2. CASE c.op = "exec" /\ c.n \in Nat
  <2>1. Commands(c) = [i \in 1 .. c.n |-> gdb_si]
    BY <1>2 DEF Commands
  <2> HIDE DEF gdb_si, Command
  <2>2. /\ [i \in 1 .. c.n |-> gdb_si] \in Seq(Command)
        /\ Len([i \in 1 .. c.n |-> gdb_si]) = c.n
    BY <1>1, <1>2
  <2> QED
    BY <1>2, <2>1, <2>2
<1>3. CASE c.op = "to_ref"
  <2>1. Commands(c) = <<gdb_getregs, gdb_setregs>>
    BY <1>3 DEF Commands
  <2>2. <<gdb_getregs, gdb_setregs>> \in Seq(Command)
    BY <1>1
  <2>3. Len(<<gdb_getregs, gdb_setregs>>) = 2
    OBVIOUS
  <2> QED
    BY <1>3, <2>1, <2>2, <2>3
<1>4. CASE c.op = "to_dut"
  <2>1. Commands(c) = <<gdb_getregs>>
    BY <1>4 DEF Commands
  <2>2. <<gdb_getregs>> \in Seq(Command)
    BY <1>1
  <2>3. Len(<<gdb_getregs>>) = 1
    OBVIOUS
  <2> QED
    BY <1>4, <2>1, <2>2, <2>3
<1>5. CASE c.op = "memcpy" /\ c.addr \in Nat /\ c.buf \in Seq(Byte)
  <2> DEFINE C == Chunks(Len(c.buf))
             s == Commands(c)
  <2>1. /\ s = gdb_memcpy_to_qemu(c.addr, c.buf)
        /\ Len(s) = C /\ Len(s) \in Nat
        /\ \A k \in 1 .. C :
              s[k] = small(c.addr + Moved(c, k - 1),
                           SubSeq(c.buf, Moved(c, k - 1) + 1, Moved(c, k)))
    BY <1>5, ChunkIs
  <2> HIDE DEF s
  <2>2. ASSUME NEW k \in 1 .. C PROVE s[k] \in Command
    <3> DEFINE a == Moved(c, k - 1)
               b == Moved(c, k)
    <3>1. k - 1 \in Nat /\ k \in Nat /\ k - 1 < C /\ (k - 1) + 1 = k
      BY <2>1
    <3>2. a \in 0 .. Len(c.buf) /\ a <= b
      BY <1>5, <3>1, MovedIs
    <3>3. b \in 0 .. Len(c.buf)
      BY <1>5, <3>1, MovedIs
    <3> HIDE DEF a, b
    <3>4. Len(c.buf) \in Nat
      BY <1>5
    <3>5. b \in a .. Len(c.buf)
      BY <3>2, <3>3, <3>4
    <3>6. SubSeq(c.buf, a + 1, b) \in Seq(Byte)
      BY <1>5, <3>2, <3>5, PieceIs
    <3>7. c.addr + a \in Nat
      BY <1>5, <3>2
    <3>8. s[k] = small(c.addr + a, SubSeq(c.buf, a + 1, b))
      BY <2>1 DEF a, b
    <3> QED
      BY <3>6, <3>7, <3>8 DEF small, Command
  <2>3. s \in Seq(Command)
    <3>1. s = [k \in 1 .. C |-> s[k]]
      BY <2>1 DEF gdb_memcpy_to_qemu
    <3>2. C \in Nat
      BY <2>1
    <3> HIDE DEF C
    <3>3. [k \in 1 .. C |-> s[k]] \in Seq(Command)
      BY <2>2, <3>2
    <3> QED
      BY <3>1, <3>3
  <2> QED
    BY <1>5, <2>1, <2>3 DEF s
<1> QED
  BY <1>2, <1>3, <1>4, <1>5, CallIs

\* The cells of a packet, as digits and back.
Digits(b) == [i \in 1 .. 2 * Len(b) |-> HexByte(b[(i + 1) \div 2])[IF i % 2 = 1 THEN 1 ELSE 2]]
\* and back.
LEMMA DigitsBack ==
  ASSUME NEW b \in Seq(Byte)
  PROVE  /\ Digits(b) \in Seq(Nat) /\ Len(Digits(b)) = 2 * Len(b)
         /\ Len(Digits(b)) \div 2 = Len(b)
         /\ \A j \in 1 .. Len(b) :
              gdb_decode_hex(Digits(b)[2 * (j - 1) + 1], Digits(b)[2 * (j - 1) + 1 + 1]) = b[j]
<1> DEFINE L == Len(b)
<1>1. L \in Nat /\ 2 * L \in Nat /\ (2 * L) \div 2 = L
  OBVIOUS
<1>2. ASSUME NEW i \in 1 .. 2 * L
      PROVE  HexByte(b[(i + 1) \div 2])[IF i % 2 = 1 THEN 1 ELSE 2] \in Nat
  <2>1. (i + 1) \div 2 \in 1 .. L
    BY <1>1
  <2> DEFINE x == b[(i + 1) \div 2]
  <2>2. x \in Byte
    BY <2>1
  <2> HIDE DEF x
  <2>3. HexByte(x) \in Seq(Nat) /\ Len(HexByte(x)) = 2
    BY <2>2, HexByteBack
  <2>4. HexByte(x)[1] \in Nat /\ HexByte(x)[2] \in Nat
    BY <2>3, PairOf
  <2> QED
    BY <2>4 DEF x
<1>3. Digits(b) \in Seq(Nat) /\ Len(Digits(b)) = 2 * L
  <2> DEFINE g(i) == HexByte(b[(i + 1) \div 2])[IF i % 2 = 1 THEN 1 ELSE 2]
  <2>1. \A i \in 1 .. 2 * L : g(i) \in Nat
    BY <1>2
  <2>2. Digits(b) = [i \in 1 .. 2 * L |-> g(i)]
    BY DEF Digits
  <2> HIDE DEF g
  <2> DEFINE m == 2 * L
  <2>3. m \in Nat
    BY <1>1
  <2> HIDE DEF m
  <2>4. [i \in 1 .. m |-> g(i)] \in Seq(Nat) /\ Len([i \in 1 .. m |-> g(i)]) = m
    BY <2>1, <2>3 DEF m
  <2> QED
    BY <2>2, <2>4 DEF m
<1>4. ASSUME NEW j \in 1 .. L
      PROVE  gdb_decode_hex(Digits(b)[2 * (j - 1) + 1], Digits(b)[2 * (j - 1) + 1 + 1]) = b[j]
  <2> DEFINE i == 2 * (j - 1) + 1
  <2>1. /\ i \in 1 .. 2 * L /\ i + 1 \in 1 .. 2 * L /\ i % 2 = 1 /\ (i + 1) % 2 # 1
        /\ (i + 1) \div 2 = j /\ ((i + 1) + 1) \div 2 = j
    BY <1>1
  <2> HIDE DEF i
  <2>2. Digits(b)[i] = HexByte(b[j])[1] /\ Digits(b)[i + 1] = HexByte(b[j])[2]
    BY <2>1 DEF Digits
  <2>3. b[j] \in Byte
    OBVIOUS
  <2>4. gdb_decode_hex(HexByte(b[j])[1], HexByte(b[j])[2]) = b[j]
    BY <2>3, HexByteBack
  <2> QED
    BY <2>2, <2>4 DEF i
<1> QED
  BY <1>1, <1>3, <1>4

\* The command under way.
LEMMA HeadTodo ==
  ASSUME TypeOK, Calling, client.todo # << >>
  PROVE  /\ Count \in Nat /\ Done \in Nat /\ Done < Count
         /\ client.call \in Calls
         /\ Head(client.todo) = Commands(client.call)[Done + 1]
         /\ Head(client.todo) \in Command
         /\ Tail(client.todo) \in Seq(Command)
         /\ Len(Tail(client.todo)) = Count - (Done + 1)
         /\ Tail(client.todo) = SubSeq(Commands(client.call), (Done + 1) + 1, Count)
<1> DEFINE s == Commands(client.call)
           t == client.todo
           d == Done
           n == Count
<1>1. client.call \in Calls /\ d >= 0 /\ t = SubSeq(s, d + 1, n)
  BY DEF Calling
<1>2. s \in Seq(Command) /\ Len(s) \in Nat
  BY <1>1, CommandsIs
<1>3. n = Len(s) /\ d = n - Len(t)
  BY DEF Count, Done
<1>4. t \in Seq(Command) /\ t # << >>
  BY DEF TypeOK, Clients
<1> HIDE DEF s, t, d, n
<1>5. Len(t) \in Nat /\ Len(t) # 0
  BY <1>4
<1>6. n \in Nat /\ d \in Nat /\ d < n /\ d + 1 \in 1 .. Len(s) /\ n \in d + 1 .. Len(s)
  <2>1. d >= 0 /\ Len(s) \in Nat
    BY <1>1, <1>2
  <2> DEFINE l == Len(t)
  <2>2. l \in Nat /\ l # 0 /\ d = n - l
    BY <1>3, <1>5
  <2> HIDE DEF l
  <2> QED
    BY <1>3, <2>1, <2>2
<1>7. Head(SubSeq(s, d + 1, n)) = s[d + 1] /\ Tail(SubSeq(s, d + 1, n)) = SubSeq(s, (d + 1) + 1, n)
  BY <1>2, <1>6, HeadTailOfSubSeq
<1>8. Head(t) \in Command /\ Tail(t) \in Seq(Command) /\ Len(Tail(t)) = Len(t) - 1
  BY <1>4, HeadTailProperties
<1>9. Len(Tail(t)) = n - (d + 1)
  BY <1>3, <1>5, <1>6, <1>8
<1> QED
  BY <1>1, <1>6, <1>7, <1>8, <1>9 DEF s, t, d, n

\* The packet for it, by the kind of call.
LEMMA ExecPacket ==
  ASSUME TypeOK, Calling, client.todo # << >>, client.call.op = "exec"
  PROVE  Packet = [cmd |-> "s", bad |-> FALSE, data |-> << >>, dest |-> 0]
<1>1. Head(client.todo) = Commands(client.call)[Done + 1] /\ Done + 1 \in 1 .. Count
      /\ client.call \in Calls
  BY HeadTodo
<1>2. Head(client.todo) = gdb_si
  BY <1>1, CommandsIs DEF Count
<1>3. Head(client.todo).cmd = "s"
  BY <1>2 DEF gdb_si
<1>4. Payload(Head(client.todo)) = << >>
  BY <1>3 DEF Payload
<1> QED
  BY <1>3, <1>4 DEF Packet

\* Registers are read with one command,
LEMMA DutPacket ==
  ASSUME TypeOK, Calling, client.todo # << >>, client.call.op = "to_dut"
  PROVE  Packet = [cmd |-> "g", bad |-> FALSE, data |-> << >>, dest |-> 0] /\ Done = 0
<1>1. Head(client.todo) = Commands(client.call)[Done + 1] /\ Done \in Nat /\ Done < Count
      /\ client.call \in Calls
  BY HeadTodo
<1>2. Commands(client.call) = <<gdb_getregs>>
  BY <1>1, CommandsIs
<1>3. Done = 0
  <2>1. Count = 1
    BY <1>2 DEF Count
  <2> QED
    BY <1>1, <2>1
<1>4. Head(client.todo).cmd = "g"
  BY <1>1, <1>2, <1>3 DEF gdb_getregs
<1>5. Payload(Head(client.todo)) = << >>
  BY <1>4 DEF Payload
<1> QED
  BY <1>3, <1>4, <1>5 DEF Packet

\* set with two,
LEMMA RefPacket ==
  ASSUME TypeOK, Calling, client.todo # << >>, client.call.op = "to_ref"
  PROVE  \/ Done = 0 /\ Packet = [cmd |-> "g", bad |-> FALSE, data |-> << >>, dest |-> 0]
         \/ /\ Done = 1 /\ Packet = [cmd |-> "G", bad |-> FALSE, data |-> HexRegs(NewRegs),
                                     dest |-> 0]
            /\ NewRegs = <<client.call.pc, before.regs[2]>>
<1>1. Head(client.todo) = Commands(client.call)[Done + 1] /\ Done \in Nat /\ Done < Count
      /\ client.call \in Calls
  BY HeadTodo
<1>2. Commands(client.call) = <<gdb_getregs, gdb_setregs>>
  BY <1>1, CommandsIs
<1>3. Done = 0 \/ Done = 1
  <2>1. Count = 2
    BY <1>2 DEF Count
  <2> QED
    BY <1>1, <2>1
<1>4. CASE Done = 0
  <2>1. Head(client.todo).cmd = "g"
    BY <1>1, <1>2, <1>4 DEF gdb_getregs
  <2>2. Payload(Head(client.todo)) = << >>
    BY <2>1 DEF Payload
  <2> QED
    BY <1>4, <2>1, <2>2 DEF Packet
<1>5. CASE Done = 1
  <2>1. Head(client.todo).cmd = "G"
    BY <1>1, <1>2, <1>5 DEF gdb_setregs
  <2>2. Payload(Head(client.todo)) = HexRegs(NewRegs)
    BY <2>1 DEF Payload
  <2>3. client.qemu_r = before.regs
    BY <1>5 DEF Calling
  <2> QED
    BY <1>5, <2>1, <2>2, <2>3 DEF Packet, NewRegs
<1> QED
  BY <1>3, <1>4, <1>5

\* and memory is written piece by piece.
LEMMA CopyPacket ==
  ASSUME TypeOK, Calling, client.todo # << >>, client.call.op = "memcpy"
  PROVE  LET c == client.call
             a == Moved(c, Done)
             b == Moved(c, Done + 1)
             s == SubSeq(c.buf, a + 1, b)
         IN  /\ Packet = [cmd |-> "M", bad |-> FALSE, data |-> Digits(s), dest |-> c.addr + a]
             /\ Head(client.todo) = small(c.addr + a, s) /\ Head(client.todo).cmd = "M"
             /\ c.addr \in Nat /\ c.buf \in Seq(Byte)
             /\ a \in Nat /\ b \in a .. Len(c.buf) /\ s \in Seq(Byte) /\ Len(s) = b - a
             /\ \A j \in 1 .. b - a : s[j] = c.buf[a + j]
<1> DEFINE c == client.call
           d == Done
           a == Moved(c, d)
           b == Moved(c, d + 1)
           s == SubSeq(c.buf, a + 1, b)
<1>1. /\ Head(client.todo) = Commands(c)[d + 1] /\ d \in Nat /\ d < Len(Commands(c))
      /\ c \in Calls
  BY HeadTodo DEF Count
<1>2. c.addr \in Nat /\ c.buf \in Seq(Byte)
  BY <1>1, CallIs
<1> HIDE DEF c, d
<1>3. c.op = "memcpy"
  BY DEF c
<1>4. /\ Len(Commands(c)) = Chunks(Len(c.buf)) /\ Len(Commands(c)) \in Nat
      /\ \A k \in 1 .. Chunks(Len(c.buf)) :
              Commands(c)[k] = small(c.addr + Moved(c, k - 1),
                                     SubSeq(c.buf, Moved(c, k - 1) + 1, Moved(c, k)))
  BY <1>2, <1>3, ChunkIs
<1>5. Head(client.todo) = small(c.addr + a, s)
  <2>1. d + 1 \in 1 .. Chunks(Len(c.buf)) /\ (d + 1) - 1 = d
    BY <1>1, <1>4
  <2>2. Commands(c)[d + 1] = small(c.addr + Moved(c, (d + 1) - 1),
                                   SubSeq(c.buf, Moved(c, (d + 1) - 1) + 1, Moved(c, d + 1)))
    BY <1>4, <2>1
  <2> QED
    BY <1>1, <2>1, <2>2
<1>6. a \in 0 .. Len(c.buf) /\ b \in a .. Len(c.buf)
  <2>1. a \in 0 .. Len(c.buf) /\ a <= b
    BY <1>1, <1>2, <1>4, MovedIs
  <2>2. b \in 0 .. Len(c.buf)
    <3>1. d + 1 \in Nat
      BY <1>1
    <3> QED
      BY <1>2, <3>1, MovedIs
  <2>3. Len(c.buf) \in Nat
    BY <1>2
  <2> HIDE DEF a, b
  <2> QED
    BY <2>1, <2>2, <2>3
<1> HIDE DEF a, b
<1>7. s \in Seq(Byte) /\ Len(s) = b - a /\ \A j \in 1 .. b - a : s[j] = c.buf[a + j]
  BY <1>2, <1>6, PieceIs
<1> HIDE DEF s
<1> DEFINE h == Head(client.todo)
<1>8. h.cmd = "M" /\ h.dest = c.addr + a /\ h.buf = s
  BY <1>5 DEF small
<1> HIDE DEF h
<1>9. Payload(h) = Digits(s)
  BY <1>8 DEF Payload, Digits
<1>10. Packet = [cmd |-> "M", bad |-> FALSE, data |-> Digits(s), dest |-> c.addr + a]
  BY <1>8, <1>9 DEF Packet, h
<1>11. a \in Nat
  BY <1>6
<1> QED
  BY <1>2, <1>5, <1>6, <1>7, <1>8, <1>10, <1>11 DEF c, d, a, b, s, h

\* Instructions counted one by one.
LEMMA WordSum ==
  ASSUME NEW x \in Nat, NEW n \in Nat
  PROVE  /\ (x + n) % 65536 \in Reg
         /\ (((x + n) % 65536) + 1) % 65536 = (x + (n + 1)) % 65536
<1>1. ASSUME NEW a \in Nat PROVE a % 65536 \in Reg
  <2>1. a % 65536 \in Nat /\ a % 65536 < 65536
    OBVIOUS
  <2> QED
    BY <2>1 DEF Reg
<1>2. ASSUME NEW a \in Nat PROVE ((a % 65536) + 1) % 65536 = (a + 1) % 65536
  OBVIOUS
<1>3. x + n \in Nat /\ (x + n) + 1 = x + (n + 1)
  OBVIOUS
<1> QED
  BY <1>1, <1>2, <1>3

\* The piece of L bytes at D is what a window at A gains as it grows from u to v.
InWindow(A, u, v, L, D, a) ==
  /\ a \in D .. D + L - 1 => /\ a - D + 1 \in 1 .. v - u
                             /\ u + (a - D + 1) = a - A + 1
                             /\ a \in A .. A + v - 1
  /\ a \notin D .. D + L - 1 => (a \in A .. A + v - 1 <=> a \in A .. A + u - 1)

\* Two neighbouring pieces of memory are one.
LEMMA Windows ==
  ASSUME NEW A \in Nat, NEW u \in Nat, NEW v \in Nat, u <= v, NEW L, L = v - u, NEW a \in Int,
         NEW D, D = A + u
  PROVE  InWindow(A, u, v, L, D, a)
BY DEF InWindow

\* The server carries out the command of each kind of call.
LEMMA ExecStep ==
  ASSUME NEW c, c.op = "exec", NEW b \in Reference, NEW i \in Nat, NEW r, Stage(c, b, i, r),
         NEW p, p.cmd = "s"
  PROVE  Executed(p, r) \in Reference /\ Stage(c, b, i + 1, Executed(p, r))
<1> DEFINE e == Executed(p, r)
           x == b.regs[1]
           y == b.regs[2]
<1>1. x \in Nat /\ y \in Nat /\ b = [regs |-> b.regs, mem |-> b.mem]
      /\ b.mem \in [0 .. MemSize - 1 -> Byte]
  BY DEF Reference, Reg
<1>2. r = [b EXCEPT !.regs = <<(x + i) % 65536, (y + i) % 65536>>]
  BY DEF Stage
<1>3. e = [r EXCEPT !.regs = <<(r.regs[1] + 1) % 65536, (r.regs[2] + 1) % 65536>>]
  BY DEF Executed
<1> HIDE DEF x, y
<1>4. r.regs = <<(x + i) % 65536, (y + i) % 65536>> /\ r = [regs |-> r.regs, mem |-> b.mem]
  <2> DEFINE w == <<(x + i) % 65536, (y + i) % 65536>>
  <2> HIDE DEF w
  <2>1. r = [b EXCEPT !.regs = w] /\ b = [regs |-> b.regs, mem |-> b.mem]
    BY <1>1, <1>2 DEF w
  <2>2. r.regs = w /\ r = [regs |-> w, mem |-> b.mem]
    BY <2>1
  <2> QED
    BY <2>2 DEF w
<1>5. r.regs[1] = (x + i) % 65536 /\ r.regs[2] = (y + i) % 65536
  BY <1>4
<1>6. (r.regs[1] + 1) % 65536 = (x + (i + 1)) % 65536
  BY <1>1, <1>5, WordSum
<1>7. (r.regs[2] + 1) % 65536 = (y + (i + 1)) % 65536
  BY <1>1, <1>5, WordSum
<1> DEFINE u == (x + (i + 1)) % 65536
           v == (y + (i + 1)) % 65536
<1>8. u \in Reg /\ v \in Reg
  <2>1. i + 1 \in Nat
    OBVIOUS
  <2> QED
    BY <1>1, <2>1, WordSum
<1>9. e = [r EXCEPT !.regs = <<u, v>>]
  BY <1>3, <1>6, <1>7
<1> HIDE DEF u, v, e
<1>10. e = [regs |-> <<u, v>>, mem |-> b.mem]
  BY <1>4, <1>9
<1>11. e \in Reference
  BY <1>1, <1>8, <1>10 DEF Reference
<1>12. e = [b EXCEPT !.regs = <<u, v>>]
  BY <1>1, <1>10
<1>13. Stage(c, b, i + 1, e)
  BY <1>12 DEF Stage, u, v, x, y
<1> QED
  BY <1>11, <1>13 DEF e

\* Reading changes nothing.
LEMMA GetStep ==
  ASSUME NEW r, NEW p, p.cmd = "g"
  PROVE  Executed(p, r) = r
BY DEF Executed

\* Setting the registers changes the compared one only.
LEMMA SetStep ==
  ASSUME NEW c, c.op = "to_ref", c.pc \in Reg, NEW b \in Reference, NEW p, p.cmd = "G",
         p.data = HexRegs(<<c.pc, b.regs[2]>>), NEW r, Stage(c, b, 1, r)
  PROVE  Executed(p, r) \in Reference /\ Stage(c, b, 2, Executed(p, r))
<1> DEFINE n == <<c.pc, b.regs[2]>>
           d == HexRegs(n)
           e == Executed(p, r)
<1>1. r = b
  BY DEF Stage
<1>2. n \in Reg \X Reg
  BY DEF Reference
<1>3. e = [r EXCEPT !.regs = [i \in 1 .. 2 |->
                gdb_decode_hex(d[4 * i - 3], d[4 * i - 2])
                  + 256 * gdb_decode_hex(d[4 * i - 1], d[4 * i])]]
  BY DEF Executed
<1> HIDE DEF n
<1>4. [i \in 1 .. 2 |-> gdb_decode_hex(d[4 * i - 3], d[4 * i - 2])
                          + 256 * gdb_decode_hex(d[4 * i - 1], d[4 * i])] = n
  BY <1>2, HexRegsBack
<1>5. e = [b EXCEPT !.regs = n]
  BY <1>1, <1>3, <1>4
<1> HIDE DEF e
<1>6. e \in Reference
  BY <1>2, <1>5 DEF Reference
<1>7. Stage(c, b, 2, e)
  BY <1>5 DEF Stage, n
<1> QED
  BY <1>6, <1>7 DEF e

\* A packet of memory writes the next piece, if all the pieces fit.
LEMMA CopyStep ==
  ASSUME NEW c, c.op = "memcpy", c.addr \in Nat, c.buf \in Seq(Byte), NEW b \in Reference,
         NEW i \in Nat, NEW r \in Reference, Stage(c, b, i, r),
         NEW s \in Seq(Byte), NEW u \in Nat, NEW v \in u .. Len(c.buf),
         u = Moved(c, i), v = Moved(c, i + 1), Len(s) = v - u,
         \A j \in 1 .. v - u : s[j] = c.buf[u + j],
         NEW p, p.cmd = "M", p.data = Digits(s), p.dest = c.addr + u,
         AllFit(c, i + 1) => AllFit(c, i) /\ c.addr + u + Len(s) <= MemSize
  PROVE  /\ Executed(p, r) \in Reference /\ Stage(c, b, i + 1, Executed(p, r))
         /\ InMemory(p) <=> c.addr + u + Len(s) <= MemSize
<1> DEFINE e == Executed(p, r)
           A == c.addr
           L == Len(s)
<1>1. /\ Len(Digits(s)) \div 2 = L
      /\ \A j \in 1 .. L :
              gdb_decode_hex(Digits(s)[2 * (j - 1) + 1], Digits(s)[2 * (j - 1) + 1 + 1]) = s[j]
  BY DigitsBack
<1>2. InMemory(p) <=> A + u + L <= MemSize
  BY <1>1 DEF InMemory
<1>3. A \in Nat /\ L \in Nat /\ L = v - u /\ v \in Nat /\ u <= v
  OBVIOUS
<1>4. r.mem \in [0 .. MemSize - 1 -> Byte] /\ r = [regs |-> r.regs, mem |-> r.mem]
      /\ r.regs \in Reg \X Reg
  BY DEF Reference
<1>5. r.regs = b.regs
      /\ (AllFit(c, i) => \A a \in 0 .. MemSize - 1 :
              r.mem[a] = IF a \in A .. A + u - 1 THEN c.buf[a - A + 1] ELSE b.mem[a])
  BY DEF Stage
<1>6. CASE ~InMemory(p)
  <2>1. e = r
    BY <1>6 DEF Executed
  <2>2. ~AllFit(c, i + 1)
    BY <1>2, <1>6
  <2>3. Stage(c, b, i + 1, r)
    BY <1>5, <2>2 DEF Stage
  <2> QED
    BY <1>2, <2>1, <2>3
<1>7. CASE InMemory(p)
  <2> DEFINE D == A + u
             f == [a \in 0 .. MemSize - 1 |->
                     IF a \in D .. D + L - 1 THEN s[a - D + 1] ELSE r.mem[a]]
  <2>1. e = [r EXCEPT !.mem = [a \in DOMAIN r.mem |->
                         IF a \in p.dest .. p.dest + Len(p.data) \div 2 - 1
                         THEN LET k == 2 * (a - p.dest) + 1
                              IN gdb_decode_hex(p.data[k], p.data[k + 1])
                         ELSE r.mem[a]]]
    BY <1>7 DEF Executed
  <2>2. DOMAIN r.mem = 0 .. MemSize - 1 /\ p.dest = D /\ Len(p.data) \div 2 = L /\ D \in Nat
    BY <1>1, <1>3, <1>4
  <2> HIDE DEF D, L, A
  <2>3. ASSUME NEW a \in D .. D + L - 1
        PROVE  /\ gdb_decode_hex(p.data[2 * (a - D) + 1], p.data[2 * (a - D) + 1 + 1])
                    = s[a - D + 1]
               /\ s[a - D + 1] \in Byte
    <3>1. a - D + 1 \in 1 .. L /\ (a - D + 1) - 1 = a - D
      BY <1>3, <2>2
    <3>2. gdb_decode_hex(Digits(s)[2 * ((a - D + 1) - 1) + 1],
                         Digits(s)[2 * ((a - D + 1) - 1) + 1 + 1]) = s[a - D + 1]
      BY <1>1, <3>1
    <3>3. s[a - D + 1] \in Byte
      BY <3>1, ElementOfSeq DEF L
    <3> QED
      BY <3>1, <3>2, <3>3
  <2>4. e = [r EXCEPT !.mem = f]
    <3>1. e = [r EXCEPT !.mem = [a \in 0 .. MemSize - 1 |->
                 IF a \in D .. D + L - 1
                 THEN gdb_decode_hex(p.data[2 * (a - D) + 1], p.data[2 * (a - D) + 1 + 1])
                 ELSE r.mem[a]]]
      BY <2>1, <2>2
    <3>2. [a \in 0 .. MemSize - 1 |->
                 IF a \in D .. D + L - 1
                 THEN gdb_decode_hex(p.data[2 * (a - D) + 1], p.data[2 * (a - D) + 1 + 1])
                 ELSE r.mem[a]] = f
      BY <2>3
    <3> QED
      BY <3>1, <3>2
  <2>5. f \in [0 .. MemSize - 1 -> Byte]
    BY <1>4, <2>3
  <2> HIDE DEF f, e
  <2>6. e = [regs |-> r.regs, mem |-> f]
    BY <1>4, <2>4
  <2>7. e \in Reference
    BY <1>4, <2>5, <2>6 DEF Reference
  <2>8. ASSUME AllFit(c, i + 1), NEW a \in 0 .. MemSize - 1
        PROVE  e.mem[a] = IF a \in A .. A + v - 1 THEN c.buf[a - A + 1] ELSE b.mem[a]
    <3>1. r.mem[a] = IF a \in A .. A + u - 1 THEN c.buf[a - A + 1] ELSE b.mem[a]
      BY <1>5, <2>8 DEF A, L
    <3>2. e.mem[a] = IF a \in D .. D + L - 1 THEN s[a - D + 1] ELSE r.mem[a]
      BY <2>6 DEF f
    <3>3. D = A + u /\ a \in Int
      BY DEF D
    <3>6. InWindow(A, u, v, L, D, a)
      BY <1>3, <3>3, Windows, Zenon
    <3>4. CASE a \in D .. D + L - 1
      <4>1. a - D + 1 \in 1 .. v - u /\ u + (a - D + 1) = a - A + 1 /\ a \in A .. A + v - 1
        BY <3>4, <3>6, Zenon DEF InWindow
      <4>2. s[a - D + 1] = c.buf[u + (a - D + 1)]
        BY <4>1
      <4> QED
        BY <3>2, <3>4, <4>1, <4>2
    <3>5. CASE a \notin D .. D + L - 1
      <4>1. a \in A .. A + v - 1 <=> a \in A .. A + u - 1
        BY <3>5, <3>6, Zenon DEF InWindow
      <4> QED
        BY <3>1, <3>2, <3>5, <4>1
    <3> QED
      BY <3>4, <3>5
  <2>9. Stage(c, b, i + 1, e)
    <3>1. e.regs = b.regs
      BY <1>5, <2>6
    <3>2. AllFit(c, i + 1) => \A a \in 0 .. MemSize - 1 :
            e.mem[a] = IF a \in c.addr .. c.addr + Moved(c, i + 1) - 1
                       THEN c.buf[a - c.addr + 1] ELSE b.mem[a]
      BY <2>8 DEF A
    <3> QED
      BY <3>1, <3>2 DEF Stage
  <2> QED
    BY <1>2, <2>7, <2>9 DEF e, L, A
<1> QED
  BY <1>6, <1>7

\* The pieces so far fit if and only if each one has.
LEMMA NextFits ==
  ASSUME TypeOK, Calling, client.todo # << >>, client.call.op = "memcpy"
  PROVE  /\ Done \in Nat
         /\ AllFit(client.call, Done + 1) =>
              AllFit(client.call, Done) /\ Fits(Head(client.todo))
         /\ AllFit(client.call, Done) /\ Fits(Head(client.todo)) =>
              AllFit(client.call, Done + 1)
<1> DEFINE c == client.call
           i == Done
           h == Head(client.todo)
<1>1. h = Commands(c)[i + 1] /\ i \in Nat
  BY HeadTodo
<1> HIDE DEF c, i, h
<1>2. AllFit(c, i + 1) => AllFit(c, i) /\ Fits(h)
  <2>1. SUFFICES ASSUME AllFit(c, i + 1) PROVE AllFit(c, i) /\ Fits(h)
    OBVIOUS
  <2>2. \A k \in 1 .. i + 1 : Fits(Commands(c)[k])
    BY <2>1 DEF AllFit
  <2>3. i + 1 \in 1 .. i + 1 /\ \A k \in 1 .. i : k \in 1 .. i + 1
    BY <1>1
  <2>4. AllFit(c, i)
    BY <2>2, <2>3 DEF AllFit
  <2> QED
    BY <1>1, <2>2, <2>3, <2>4
<1>3. AllFit(c, i) /\ Fits(h) => AllFit(c, i + 1)
  <2>1. SUFFICES ASSUME AllFit(c, i), Fits(h), NEW k \in 1 .. i + 1
                 PROVE  Fits(Commands(c)[k])
    BY DEF AllFit
  <2>2. k \in 1 .. i \/ k = i + 1
    BY <1>1
  <2>3. CASE k \in 1 .. i
    BY <2>1, <2>3 DEF AllFit
  <2>4. CASE k = i + 1
    BY <1>1, <2>1, <2>4
  <2> QED
    BY <2>2, <2>3, <2>4
<1> QED
  BY <1>1, <1>2, <1>3 DEF c, i, h

\* A command that QEMU carries out takes the call one stage further.
LEMMA Executes ==
  ASSUME TypeOK, Calling, client.todo # << >>, NEW r \in Reference,
         Stage(client.call, before, Done, r)
  PROVE  /\ Executed(Packet, r) \in Reference
         /\ Stage(client.call, before, Done + 1, Executed(Packet, r))
         /\ Packet.cmd = "g" => Executed(Packet, r) = r
<1> DEFINE c == client.call
           b == before
           i == Done
           e == Executed(Packet, r)
<1>1. c \in Calls /\ i \in Nat /\ b \in Reference
  BY HeadTodo DEF TypeOK
<1>2. Stage(c, b, i, r)
  OBVIOUS
<1>3. CASE c.op = "exec"
  <2>1. Packet = [cmd |-> "s", bad |-> FALSE, data |-> << >>, dest |-> 0]
    BY <1>3, ExecPacket
  <2>2. Packet.cmd = "s"
    BY <2>1
  <2> HIDE DEF c, b, i
  <2>3. e \in Reference /\ Stage(c, b, i + 1, e)
    BY <1>1, <1>2, <1>3, <2>2, ExecStep
  <2> QED
    BY <2>2, <2>3 DEF c, b, i
<1>4. CASE c.op = "to_dut"
  <2>1. Packet = [cmd |-> "g", bad |-> FALSE, data |-> << >>, dest |-> 0] /\ i = 0
    BY <1>4, DutPacket
  <2>2. Packet.cmd = "g"
    BY <2>1
  <2>3. e = r
    BY <2>2, GetStep
  <2>4. Stage(c, b, i + 1, r)
    BY <1>2, <1>4 DEF Stage
  <2> QED
    BY <2>3, <2>4
<1>5. CASE c.op = "to_ref"
  <2>1. CASE i = 0 /\ Packet = [cmd |-> "g", bad |-> FALSE, data |-> << >>, dest |-> 0]
    <3>1. Packet.cmd = "g"
      BY <2>1
    <3>2. e = r
      BY <3>1, GetStep
    <3> HIDE DEF c, b, i
    <3>3. Stage(c, b, 1, r)
      BY <1>2, <1>5, <2>1 DEF Stage
    <3>4. i + 1 = 1
      BY <2>1
    <3> HIDE DEF e
    <3>5. e \in Reference /\ Stage(c, b, i + 1, e)
      BY <3>2, <3>3, <3>4
    <3> QED
      BY <3>2, <3>5 DEF c, b, i, e
  <2>2. CASE /\ i = 1 /\ Packet = [cmd |-> "G", bad |-> FALSE, data |-> HexRegs(NewRegs),
                                   dest |-> 0]
             /\ NewRegs = <<c.pc, b.regs[2]>>
    <3>1. Packet.cmd = "G" /\ Packet.data = HexRegs(NewRegs)
      BY <2>2
    <3>2. Packet.data = HexRegs(<<c.pc, b.regs[2]>>)
      BY <2>2, <3>1
    <3>3. c.pc \in Reg
      BY <1>1, <1>5, CallIs
    <3> HIDE DEF c, b, i
    <3>4. Stage(c, b, 1, r)
      BY <1>2, <2>2
    <3>5. e \in Reference /\ Stage(c, b, 2, e)
      BY <1>1, <1>5, <3>1, <3>2, <3>3, <3>4, SetStep
    <3>6. i + 1 = 2
      BY <2>2
    <3> HIDE DEF e
    <3>7. Stage(c, b, i + 1, e)
      BY <3>5, <3>6
    <3> QED
      BY <3>1, <3>5, <3>7 DEF c, b, i, e
  <2> QED
    BY <1>5, <2>1, <2>2, RefPacket
<1>6. CASE c.op = "memcpy"
  <2> DEFINE u == Moved(c, i)
             v == Moved(c, i + 1)
             s == SubSeq(c.buf, u + 1, v)
             p == Packet
             h == Head(client.todo)
  <2>1. /\ p = [cmd |-> "M", bad |-> FALSE, data |-> Digits(s), dest |-> c.addr + u]
        /\ h = small(c.addr + u, s)
        /\ c.addr \in Nat /\ c.buf \in Seq(Byte)
        /\ u \in Nat /\ v \in u .. Len(c.buf) /\ s \in Seq(Byte) /\ Len(s) = v - u
        /\ \A j \in 1 .. v - u : s[j] = c.buf[u + j]
    BY <1>6, CopyPacket
  <2>2. AllFit(c, i + 1) => AllFit(c, i) /\ Fits(h)
    BY <1>6, NextFits
  <2> HIDE DEF c, b, i
  <2>3. u = Moved(c, i) /\ v = Moved(c, i + 1)
    OBVIOUS
  <2> HIDE DEF u, v, s, h
  <2>4. Fits(h) => c.addr + u + Len(s) <= MemSize
    BY <2>1 DEF Fits, small
  <2>5. p.cmd = "M" /\ p.data = Digits(s) /\ p.dest = c.addr + u
    BY <2>1
  <2> HIDE DEF p
  <2>6. AllFit(c, i + 1) => AllFit(c, i) /\ c.addr + u + Len(s) <= MemSize
    BY <2>2, <2>4
  <2>7. Executed(p, r) \in Reference /\ Stage(c, b, i + 1, Executed(p, r))
    BY <1>1, <1>2, <1>6, <2>1, <2>3, <2>5, <2>6, CopyStep, ZenonT(60)
  <2> QED
    BY <2>5, <2>7 DEF p, c, b, i
<1> QED
  BY <1>1, <1>3, <1>4, <1>5, <1>6, CallIs

\* What comes back.
LEMMA Asked ==
  ASSUME TypeOK, Calling, client.todo # << >>
  PROVE  /\ Packet \in Message /\ Packet.bad = FALSE
         /\ Packet.cmd \in {"s", "g", "G", "M"} /\ Packet.cmd = Head(client.todo).cmd
         /\ IsText(ReplyTo(Packet))
         /\ Packet.cmd = "g" => DecodeRegs(ReplyTo(Packet)) = qemu.ref.regs
         /\ client.call.op = "memcpy" => /\ Packet.cmd = "M"
                                         /\ ReplyTo(Packet) = OK => Fits(Head(client.todo))
         /\ client.call.op # "memcpy" => Packet.cmd # "M"
         /\ client.call.op \in {"to_ref", "to_dut"} => (Packet.cmd = "g" <=> Done = 0)
<1>1. client.call \in Calls /\ Done \in Nat
  BY HeadTodo
<1>2. qemu.ref.regs \in Reg \X Reg /\ before.regs \in Reg \X Reg
  BY DEF TypeOK, Servers, Reference
<1>3. IsText(HexRegs(qemu.ref.regs)) /\ IsText(OK) /\ IsText(E14) /\ IsText(T05)
  BY <1>2, Replies
<1>4. IsText(ReplyTo(Packet))
  BY <1>3 DEF ReplyTo
<1>5. Packet.cmd = "g" => DecodeRegs(ReplyTo(Packet)) = qemu.ref.regs
  BY <1>2, HexRegsBack DEF ReplyTo
<1>6. Packet.cmd = Head(client.todo).cmd /\ Packet.bad = FALSE
  BY DEF Packet
<1>7. ASSUME NEW m \in {"s", "g", "G", "M"}, NEW d \in Seq(Nat), NEW a \in Nat,
             Packet = [cmd |-> m, bad |-> FALSE, data |-> d, dest |-> a]
      PROVE  Packet \in Message
  BY <1>7 DEF Message
<1>8. CASE client.call.op = "exec"
  <2>1. Packet = [cmd |-> "s", bad |-> FALSE, data |-> << >>, dest |-> 0]
    BY <1>8, ExecPacket
  <2>2. Packet.cmd = "s" /\ Packet \in Message
    BY <2>1 DEF Message
  <2> QED
    BY <1>4, <1>5, <1>6, <1>8, <2>2
<1>9. CASE client.call.op = "to_dut"
  <2>1. Packet = [cmd |-> "g", bad |-> FALSE, data |-> << >>, dest |-> 0] /\ Done = 0
    BY <1>9, DutPacket
  <2>2. Packet.cmd = "g" /\ Packet \in Message
    BY <2>1 DEF Message
  <2> QED
    BY <1>4, <1>5, <1>6, <1>9, <2>1, <2>2
<1>10. CASE client.call.op = "to_ref"
  <2>1. CASE Done = 0 /\ Packet = [cmd |-> "g", bad |-> FALSE, data |-> << >>, dest |-> 0]
    <3>1. Packet.cmd = "g" /\ Packet \in Message
      BY <2>1 DEF Message
    <3> QED
      BY <1>4, <1>5, <1>6, <1>10, <2>1, <3>1
  <2>2. CASE /\ Done = 1
             /\ Packet = [cmd |-> "G", bad |-> FALSE, data |-> HexRegs(NewRegs), dest |-> 0]
             /\ NewRegs = <<client.call.pc, before.regs[2]>>
    <3>1. NewRegs \in Reg \X Reg
      <4>1. client.call.pc \in Reg /\ before.regs[2] \in Reg
        BY <1>1, <1>2, <1>10, CallIs
      <4> QED
        BY <2>2, <4>1
    <3>2. HexRegs(NewRegs) \in Seq(Nat)
      BY <3>1, HexRegsBack
    <3>3. Packet \in Message /\ Packet.cmd = "G"
      BY <2>2, <3>2 DEF Message
    <3> QED
      BY <1>4, <1>5, <1>6, <1>10, <2>2, <3>3
  <2> QED
    BY <1>10, <2>1, <2>2, RefPacket
<1>11. CASE client.call.op = "memcpy"
  <2> DEFINE c == client.call
             u == Moved(c, Done)
             s == SubSeq(c.buf, u + 1, Moved(c, Done + 1))
             p == Packet
             h == Head(client.todo)
  <2>1. /\ p = [cmd |-> "M", bad |-> FALSE, data |-> Digits(s), dest |-> c.addr + u]
        /\ h = small(c.addr + u, s)
        /\ c.addr \in Nat /\ u \in Nat /\ s \in Seq(Byte)
    BY <1>11, CopyPacket
  <2>2. Digits(s) \in Seq(Nat) /\ Len(Digits(s)) \div 2 = Len(s)
    BY <2>1, DigitsBack
  <2> HIDE DEF c, u, s, h
  <2>3. c.addr + u \in Nat
    BY <2>1
  <2>4. p \in Message /\ p.cmd = "M" /\ p.data = Digits(s) /\ p.dest = c.addr + u
    BY <2>1, <2>2, <2>3 DEF Message
  <2> HIDE DEF p
  <2>5. ReplyTo(p) = IF InMemory(p) THEN OK ELSE E14
    BY <2>4 DEF ReplyTo
  <2>6. OK # E14
    <3>1. Len(OK) = 2 /\ Len(E14) = 3
      BY DEF OK, E14
    <3> QED
      BY <3>1
  <2>7. ReplyTo(p) = OK => InMemory(p)
    BY <2>5, <2>6
  <2>8. InMemory(p) => Fits(h)
    BY <2>1, <2>2, <2>4 DEF InMemory, Fits, small
  <2>9. /\ Packet \in Message /\ Packet.cmd = "M"
        /\ ReplyTo(Packet) = OK => Fits(Head(client.todo))
    BY <2>4, <2>7, <2>8 DEF p, h
  <2> QED
    BY <1>4, <1>5, <1>6, <1>11, <2>9
<1> QED
  BY <1>1, <1>8, <1>9, <1>10, <1>11, CallIs

-----------------------------------------------------------------------------
\* The invariant holds, action by action.

\* The types, field by field.
LEMMA Fields ==
  ASSUME TypeOK
  PROVE  /\ client.p \in Parser /\ client.todo \in Seq(Command) /\ client.ok \in BOOLEAN
         /\ client.qemu_r \in Reg \X Reg /\ client.ret \in Reg /\ client.reset \in BOOLEAN
         /\ client.call \in Calls \cup {NoCall}
         /\ qemu.ref \in Reference /\ qemu.last \in Seq(Nat) /\ qemu.hit \in BOOLEAN
         /\ qemu.state \in {"starting", "listening", "dead"}
         /\ before \in Reference /\ c2s \in Seq(Message) /\ s2c \in Seq(Nat)
BY DEF TypeOK, Clients, Servers

\* What the call has done, and its next packet, depend on these fields only.
LEMMA Kept ==
  ASSUME client'.call = client.call, client'.todo = client.todo, client'.ok = client.ok,
         client'.qemu_r = client.qemu_r, before' = before
  PROVE  (Calling => Calling') /\ Done' = Done /\ Packet' = Packet
<1>1. Count' = Count /\ Done' = Done
  BY DEF Count, Done
<1>2. Calling => Calling'
  BY <1>1 DEF Calling
<1>3. Packet' = Packet
  BY DEF Packet, Payload, NewRegs
<1> QED
  BY <1>1, <1>2, <1>3

\* A connection with nothing but acknowledgements on it,
LEMMA PlusesOf ==
  ASSUME NEW q \in Seq(Message)
  PROVE  /\ Pluses(<< >>)
         /\ Pluses(q) => Pluses(Append(q, [cmd |-> "+"]))
         /\ q # << >> /\ Pluses(q) => Head(q).cmd = "+" /\ Pluses(Tail(q))
<1>1. Pluses(<< >>)
  BY DEF Pluses
<1>2. ASSUME Pluses(q) PROVE Pluses(Append(q, [cmd |-> "+"]))
  BY <1>2 DEF Pluses
<1>3. ASSUME q # << >>, Pluses(q) PROVE Head(q).cmd = "+" /\ Pluses(Tail(q))
  <2>1. Head(q) = q[1] /\ 1 \in DOMAIN q
    BY <1>3
  <2>2. \A j \in DOMAIN Tail(q) : j + 1 \in DOMAIN q /\ Tail(q)[j] = q[j + 1]
    BY <1>3
  <2> QED
    BY <1>3, <2>1, <2>2 DEF Pluses
<1> QED
  BY <1>1, <1>2, <1>3

\* with one more message behind them,
LEMMA EndsOf ==
  ASSUME NEW q \in Seq(Message), Pluses(q), NEW m
  PROVE  Ends(Append(q, m), m)
<1> DEFINE t == Append(q, m)
<1>1. t # << >> /\ Len(t) = Len(q) + 1 /\ t[Len(t)] = m
  OBVIOUS
<1>2. SubSeq(t, 1, Len(t) - 1) = q
  BY <1>1
<1> QED
  BY <1>1, <1>2 DEF Ends

\* and without its first message.
LEMMA EndsTail ==
  ASSUME NEW q \in Seq(Message), NEW m, Ends(q, m)
  PROVE  /\ q # << >>
         /\ Len(q) = 1 => Head(q) = m /\ Tail(q) = << >>
         /\ Len(q) # 1 => Head(q).cmd = "+" /\ Ends(Tail(q), m)
<1> DEFINE n == Len(q)
           t == Tail(q)
<1>1. q # << >> /\ n \in Nat \ {0} /\ q[n] = m /\ Pluses(SubSeq(q, 1, n - 1))
  BY DEF Ends
<1>2. \A j \in 1 .. n - 1 : q[j].cmd = "+"
  <2>1. \A j \in 1 .. n - 1 : j \in DOMAIN SubSeq(q, 1, n - 1) /\ SubSeq(q, 1, n - 1)[j] = q[j]
    BY <1>1
  <2> QED
    BY <1>1, <2>1 DEF Pluses
<1>3. /\ Head(q) = q[1] /\ t \in Seq(Message) /\ Len(t) = n - 1
      /\ \A j \in 1 .. n - 1 : t[j] = q[j + 1]
  BY <1>1
<1> HIDE DEF n
<1>4. CASE n = 1
  <2>1. Head(q) = m
    BY <1>1, <1>3, <1>4
  <2>2. Len(t) = 0
    BY <1>3, <1>4
  <2>3. t = << >>
    <3> HIDE DEF t
    <3> QED
      BY <1>3, <2>2
  <2> QED
    BY <1>1, <1>4, <2>1, <2>3 DEF n
<1>5. CASE n # 1
  <2>1. 1 \in 1 .. n - 1 /\ n - 1 \in 1 .. n - 1 /\ (n - 1) + 1 = n
    BY <1>1, <1>5
  <2>2. Head(q).cmd = "+"
    BY <1>2, <1>3, <2>1
  <2>3. t[n - 1] = m
    BY <1>1, <1>3, <2>1
  <2>4. Pluses(SubSeq(t, 1, n - 2))
    <3>1. SUFFICES ASSUME NEW j \in DOMAIN SubSeq(t, 1, n - 2)
                   PROVE  SubSeq(t, 1, n - 2)[j].cmd = "+"
      BY DEF Pluses
    <3> HIDE DEF t
    <3>2. n - 2 \in 0 .. Len(t)
      BY <1>1, <1>3, <2>1
    <3>3. /\ DOMAIN SubSeq(t, 1, n - 2) = 1 .. n - 2
          /\ \A i \in 1 .. n - 2 : SubSeq(t, 1, n - 2)[i] = t[i]
      BY <1>3, <3>2
    <3>4. j \in 1 .. n - 2 /\ SubSeq(t, 1, n - 2)[j] = t[j]
      BY <3>3
    <3>5. t[j] = q[j + 1] /\ j + 1 \in 1 .. n - 1
      BY <1>1, <1>3, <3>4
    <3> QED
      BY <1>2, <3>4, <3>5
  <2> HIDE DEF t
  <2>5. Len(t) - 1 = n - 2 /\ t[Len(t)] = m /\ t # << >>
    BY <1>1, <1>3, <2>1, <2>3
  <2>6. Ends(t, m)
    BY <2>4, <2>5 DEF Ends
  <2> QED
    BY <1>1, <1>5, <2>2, <2>6 DEF t, n
<1> QED
  BY <1>4, <1>5

\* A call starts with the reference as it is.
LEMMA StageZero ==
  ASSUME NEW c \in Calls, NEW r \in Reference
  PROVE  Stage(c, r, 0, r)
<1>1. r = [regs |-> r.regs, mem |-> r.mem] /\ r.regs \in Reg \X Reg
      /\ r.mem \in [0 .. MemSize - 1 -> Byte]
  BY DEF Reference
<1>2. r.regs = <<r.regs[1], r.regs[2]>> /\ r.regs[1] \in Reg /\ r.regs[2] \in Reg
  BY <1>1
<1>3. \A w \in Reg : (w + 0) % 65536 = w
  BY DEF Reg
<1>4. r = [r EXCEPT !.regs = <<(r.regs[1] + 0) % 65536, (r.regs[2] + 0) % 65536>>]
  BY <1>1, <1>2, <1>3
<1>5. ASSUME c.op = "memcpy", NEW a \in 0 .. MemSize - 1
      PROVE  a \notin c.addr .. c.addr + Moved(c, 0) - 1
  <2>1. c.addr \in Nat /\ c.buf \in Seq(Byte)
    BY <1>5, CallIs
  <2>2. Moved(c, 0) = 0
    BY <2>1, MovedIs
  <2> QED
    BY <2>1, <2>2
<1> QED
  BY <1>4, <1>5 DEF Stage

\* A step of the client keeps the types.
LEMMA ClientTypes ==
  ASSUME TypeOK, client' \in Clients, c2s' \in Seq(Message), s2c' \in Seq(Nat),
         qemu' = qemu, before' = before
  PROVE  TypeOK'
BY DEF TypeOK

\* difftest_init.
LEMMA ConnectKeeps ==
  ASSUME GInv, Connect
  PROVE  GInv'
<1>1. TypeOK /\ client.pc = "connect" /\ client.call = NoCall /\ client.ok = TRUE /\ AtSend
      /\ (client.reset = TRUE => qemu.state = "dead")
  BY DEF GInv, Connect
<1>2. /\ client' = [client EXCEPT !.pc = "idle"] /\ c2s' = Append(c2s, [cmd |-> "+"])
      /\ s2c' = s2c /\ qemu' = qemu /\ before' = before
  BY DEF Connect
<1>3. client' \in Clients /\ client'.pc = "idle" /\ client'.call = NoCall /\ client'.ok = TRUE
      /\ client'.p = client.p /\ client'.reset = client.reset
  BY <1>1, <1>2 DEF TypeOK, Clients
<1>4. c2s' \in Seq(Message) /\ Pluses(c2s')
  <2>1. c2s \in Seq(Message) /\ [cmd |-> "+"] \in Message
    BY <1>1, Fields DEF Message
  <2> QED
    BY <1>1, <1>2, <2>1, PlusesOf DEF AtSend
<1>5. TypeOK'
  BY <1>1, <1>2, <1>3, <1>4, ClientTypes, Fields
<1>6. AtSend'
  BY <1>1, <1>2, <1>3, <1>4 DEF AtSend
<1> QED
  BY <1>1, <1>2, <1>3, <1>5, <1>6 DEF GInv

\* A call comes.
LEMMA InvokeKeeps ==
  ASSUME GInv, Invoke
  PROVE  GInv'
<1>1. TypeOK /\ client.pc = "idle" /\ client.ok = TRUE /\ AtSend
      /\ (client.reset = TRUE => qemu.state = "dead")
  BY DEF GInv, Invoke
<1>2. PICK c \in Calls :
        client' = [client EXCEPT !.call = c, !.todo = Commands(c),
                                 !.pc = IF Commands(c) = << >> THEN "return" ELSE "send"]
  BY DEF Invoke
<1>3. c2s' = c2s /\ s2c' = s2c /\ qemu' = qemu /\ before' = qemu.ref
  BY DEF Invoke
<1>4. Commands(c) \in Seq(Command) /\ Len(Commands(c)) \in Nat
  BY CommandsIs
<1>5. /\ client' \in Clients /\ client'.call = c /\ client'.todo = Commands(c)
      /\ client'.pc = (IF Commands(c) = << >> THEN "return" ELSE "send")
      /\ client'.ok = TRUE /\ client'.p = client.p /\ client'.reset = client.reset
  BY <1>1, <1>2, <1>4 DEF TypeOK, Clients
<1>6. TypeOK'
  BY <1>1, <1>3, <1>5, Fields DEF TypeOK
<1>7. AtSend'
  BY <1>1, <1>3, <1>5 DEF AtSend
<1>8. Count' = Len(Commands(c)) /\ Done' = 0
  BY <1>4, <1>5 DEF Count, Done
<1>9. Stage(client.call, before, Done, qemu.ref)'
  <2>1. Stage(c, qemu.ref, 0, qemu.ref)
    BY <1>1, Fields, StageZero
  <2> QED
    BY <1>3, <1>5, <1>8, <2>1
<1>10. Calling'
  <2>1. SubSeq(Commands(c), 0 + 1, Len(Commands(c))) = Commands(c)
    BY <1>4
  <2>2. AllFit(c, 0)
    BY DEF AllFit
  <2> QED
    BY <1>5, <1>8, <2>1, <2>2 DEF Calling
<1> QED
  BY <1>1, <1>3, <1>5, <1>6, <1>7, <1>9, <1>10 DEF GInv

\* Its packet is sent, and sent again.
LEMMA SendKeeps ==
  ASSUME GInv, send_packet
  PROVE  GInv'
<1>1. /\ TypeOK /\ client.pc = "send" /\ client.reset = FALSE /\ AtSend
      /\ Calling /\ client.todo # << >> /\ Stage(client.call, before, Done, qemu.ref)
  BY Fields DEF GInv, send_packet
<1>2. s2c' = s2c /\ qemu' = qemu /\ before' = before
  BY DEF send_packet
<1>3. s2c = << >> /\ client.p = Seek /\ Pluses(c2s)
  BY <1>1 DEF AtSend
<1>4. CASE qemu.state = "dead"
  <2>1. client' = [client EXCEPT !.pc = "ack", !.reset = TRUE] /\ c2s' = c2s
    BY <1>4 DEF send_packet
  <2>2. /\ client' \in Clients /\ client'.pc = "ack" /\ client'.p = Seek
        /\ client'.call = client.call /\ client'.todo = client.todo
        /\ client'.ok = client.ok /\ client'.qemu_r = client.qemu_r
    BY <1>1, <1>3, <2>1 DEF TypeOK, Clients
  <2>3. TypeOK'
    BY <1>1, <1>2, <2>1, <2>2, Fields, ClientTypes
  <2>4. Calling' /\ Done' = Done
    BY <1>1, <1>2, <2>2, Kept
  <2>5. AtAck'
    BY <1>1, <1>2, <1>3, <1>4, <2>1, <2>2, <2>4 DEF AtAck
  <2> QED
    BY <1>1, <1>2, <1>4, <2>2, <2>3, <2>4, <2>5 DEF GInv
<1>5. CASE qemu.state # "dead"
  <2>1. client' = [client EXCEPT !.pc = "ack"] /\ c2s' = Append(c2s, Packet)
    BY <1>5 DEF send_packet
  <2>2. /\ client' \in Clients /\ client'.pc = "ack" /\ client'.p = Seek
        /\ client'.call = client.call /\ client'.todo = client.todo
        /\ client'.ok = client.ok /\ client'.qemu_r = client.qemu_r
        /\ client'.reset = FALSE
    BY <1>1, <1>3, <2>1 DEF TypeOK, Clients
  <2>3. Packet \in Message /\ Packet.bad = FALSE /\ Packet.cmd \in {"s", "g", "G", "M"}
    BY <1>1, Asked
  <2>4. c2s' \in Seq(Message) /\ Ends(c2s', Packet)
    BY <1>1, <1>3, <2>1, <2>3, Fields, EndsOf
  <2>5. TypeOK'
    BY <1>1, <1>2, <2>2, <2>4, Fields, ClientTypes
  <2>6. Calling' /\ Done' = Done /\ Packet' = Packet
    BY <1>1, <1>2, <2>2, Kept
  <2>7. Packet = [Packet EXCEPT !.bad = FALSE]
    BY <2>3 DEF Message
  <2>8. Ends(c2s', [Packet' EXCEPT !.bad = FALSE])
    BY <2>4, <2>6, <2>7
  <2>9. AtAck'
    BY <1>1, <1>2, <1>3, <1>5, <2>2, <2>6, <2>8 DEF AtAck
  <2> QED
    BY <1>1, <1>2, <2>2, <2>5, <2>6, <2>9 DEF GInv
<1> QED
  BY <1>4, <1>5

\* The connection is gone.
LEMMA SigpipeKeeps ==
  ASSUME GInv, sigpipe
  PROVE  GInv'
<1>1. TypeOK /\ client.pc = "send" /\ client.reset = TRUE /\ Calling /\ qemu.state = "dead"
  BY Fields DEF GInv, sigpipe
<1>2. client' = [client EXCEPT !.pc = "exit"] /\ c2s' = c2s /\ s2c' = s2c /\ qemu' = qemu
      /\ before' = before
  BY DEF sigpipe
<1>3. client' \in Clients /\ client'.pc = "exit" /\ client'.call = client.call
  BY <1>1, <1>2 DEF TypeOK, Clients
<1>4. TypeOK'
  BY <1>1, <1>2, <1>3, Fields, ClientTypes
<1> QED
  BY <1>1, <1>2, <1>3, <1>4 DEF GInv, Calling

\* The reply to the command under way stays the same while the registers do.
LEMMA ReplyKept ==
  ASSUME Packet' = Packet, qemu'.ref.regs = qemu.ref.regs
  PROVE  Reply' = Reply
BY DEF Reply, ReplyTo, InMemory

\* A command under way has a reply.
LEMMA Asking ==
  ASSUME TypeOK, Calling, client.todo # << >>
  PROVE  IsText(Reply)
BY Asked DEF Reply

\* QEMU's frame on its way.
LEMMA SentIs ==
  ASSUME IsText(Reply), NEW e, NEW k, Sent(qemu, Reply, e, k)
  PROVE  /\ e \in Encodings(Reply) /\ Shape(e) /\ qemu.last = Frame(e)
         /\ e \in Seq(Nat) /\ Frame(e) \in Seq(Nat) /\ Len(Frame(e)) = Len(e) + 4
         /\ Len(e) \in Nat
         /\ k \in 0 .. Len(Frame(e)) /\ Hittable(Frame(e), k) /\ (k # 0 => qemu.hit = TRUE)
         /\ Wire(Frame(e), k) \in Seq(Nat) /\ Len(Wire(Frame(e), k)) = Len(Frame(e))
<1>1. /\ e \in Encodings(Reply) /\ qemu.last = Frame(e) /\ k \in 0 .. Len(Frame(e))
      /\ Hittable(Frame(e), k) /\ (k # 0 => qemu.hit = TRUE)
  BY DEF Sent
<1>2. Shape(e)
  BY <1>1, ShapeOf
<1>3. e \in Seq(Nat)
  BY <1>2 DEF Shape
<1>4. Frame(e) \in Seq(Nat) /\ Len(Frame(e)) = Len(e) + 4 /\ Len(e) \in Nat
  BY <1>3, FrameIs
<1>5. Wire(Frame(e), k) \in Seq(Nat) /\ Len(Wire(Frame(e), k)) = Len(Frame(e))
  BY <1>1, <1>4, WireIs
<1> QED
  BY <1>1, <1>2, <1>3, <1>4, <1>5

\* The packet is acknowledged, or has to be sent again.
LEMMA GetAckKeeps ==
  ASSUME GInv, get_ack
  PROVE  GInv'
<1>1. /\ TypeOK /\ client.pc = "ack" /\ AtAck /\ Calling /\ client.todo # << >>
      /\ client.p = Seek /\ (client.reset = TRUE => qemu.state = "dead")
  BY DEF GInv, get_ack, AtAck
<1>2. c2s' = c2s /\ qemu' = qemu /\ before' = before
  BY DEF get_ack
<1>3. ASSUME NEW pc \in {"send", "recv"}, client' = [client EXCEPT !.pc = pc], s2c' \in Seq(Nat)
      PROVE  /\ client'.pc = pc /\ client'.p = Seek /\ client'.call = client.call
             /\ client'.todo = client.todo /\ client'.reset = client.reset
             /\ TypeOK' /\ Calling' /\ Done' = Done /\ Packet' = Packet
  <2>1. /\ client' \in Clients /\ client'.pc = pc /\ client'.p = Seek
        /\ client'.call = client.call /\ client'.todo = client.todo
        /\ client'.ok = client.ok /\ client'.qemu_r = client.qemu_r
        /\ client'.reset = client.reset
    BY <1>1, <1>3 DEF TypeOK, Clients
  <2>2. TypeOK'
    BY <1>1, <1>2, <1>3, <2>1, Fields, ClientTypes
  <2> QED
    BY <1>1, <1>2, <2>1, <2>2, Kept
<1>4. ASSUME client' = [client EXCEPT !.pc = "send"], s2c' = << >>, Pluses(c2s),
             Stage(client.call, before, Done, qemu.ref)
      PROVE  GInv'
  <2>1. /\ client'.pc = "send" /\ client'.p = Seek /\ client'.call = client.call
        /\ client'.todo = client.todo /\ client'.reset = client.reset
        /\ TypeOK' /\ Calling' /\ Done' = Done
    BY <1>3, <1>4
  <2>2. AtSend'
    BY <1>2, <1>4, <2>1 DEF AtSend
  <2> QED
    BY <1>1, <1>2, <1>4, <2>1, <2>2 DEF GInv
<1>5. s2c \in Seq(Nat)
  BY <1>1, Fields
<1>6. CASE /\ Stage(client.call, before, Done, qemu.ref)
           /\ s2c = << >> /\ qemu.state = "dead" /\ Pluses(c2s)
  <2>1. s2c' = << >> /\ client' = [client EXCEPT !.pc = gdb_send_ack(-1)]
    BY <1>6 DEF get_ack
  <2>2. gdb_send_ack(-1) = "send"
    BY DEF gdb_send_ack, PLUS
  <2> QED
    BY <1>4, <1>6, <2>1, <2>2
<1>7. CASE s2c = << >> /\ qemu.state # "dead"
  BY <1>7 DEF get_ack
<1>8. CASE /\ Stage(client.call, before, Done, qemu.ref)
           /\ Len(s2c) = 1 /\ s2c[1] # PLUS /\ Pluses(c2s)
  <2>1. s2c # << >> /\ Head(s2c) = s2c[1] /\ Tail(s2c) = << >>
    <3>1. s2c # << >> /\ Head(s2c) = s2c[1]
      BY <1>5, <1>8
    <3>2. Tail(s2c) \in Seq(Nat) /\ Len(Tail(s2c)) = Len(s2c) - 1
      BY <1>5, <3>1, HeadTailProperties
    <3>3. Len(Tail(s2c)) = 0
      BY <1>8, <3>2
    <3> QED
      BY <3>1, <3>2, <3>3, EmptySeq
  <2>2. s2c' = << >> /\ client' = [client EXCEPT !.pc = gdb_send_ack(Head(s2c))]
    BY <2>1 DEF get_ack
  <2>3. gdb_send_ack(Head(s2c)) = "send"
    BY <1>8, <2>1 DEF gdb_send_ack
  <2> QED
    BY <1>4, <1>8, <2>2, <2>3
<1>9. CASE /\ Stage(client.call, before, Done + 1, qemu.ref) /\ Pluses(c2s)
           /\ \E e \in Encodings(Reply), k \in 0 .. Len(qemu.last) :
                Sent(qemu, Reply, e, k) /\ s2c = <<PLUS>> \o Wire(Frame(e), k)
  <2>1. PICK e \in Encodings(Reply), k \in 0 .. Len(qemu.last) :
               Sent(qemu, Reply, e, k) /\ s2c = <<PLUS>> \o Wire(Frame(e), k)
    BY <1>9
  <2> DEFINE w == Wire(Frame(e), k)
             F == Len(Frame(e))
  <2>2. IsText(Reply)
    BY <1>1, Asking
  <2> HIDE DEF w, F
  <2>3. w \in Seq(Nat) /\ Len(w) = F /\ qemu.last = Frame(e) /\ F \in Nat /\ F >= 4
    <3>1. w \in Seq(Nat) /\ Len(w) = F /\ qemu.last = Frame(e)
      BY <2>1, <2>2, SentIs DEF w, F
    <3>2. F = Len(e) + 4 /\ Len(e) \in Nat
      BY <2>1, <2>2, SentIs DEF F
    <3> QED
      BY <3>1, <3>2
  <2>4. s2c # << >> /\ Head(s2c) = PLUS /\ Tail(s2c) = w
    <3>1. s2c = <<PLUS>> \o w
      BY <2>1 DEF w
    <3> QED
      BY <2>3, <3>1 DEF PLUS
  <2>5. s2c' = w /\ client' = [client EXCEPT !.pc = gdb_send_ack(PLUS)]
    BY <2>4 DEF get_ack
  <2>6. gdb_send_ack(PLUS) = "recv"
    BY DEF gdb_send_ack
  <2>7. /\ client'.pc = "recv" /\ client'.p = Seek /\ client'.call = client.call
        /\ client'.todo = client.todo /\ client'.reset = client.reset
        /\ TypeOK' /\ Calling' /\ Done' = Done /\ Packet' = Packet
    BY <1>3, <2>3, <2>5, <2>6
  <2>8. Reply' = Reply
    BY <1>2, <2>7, ReplyKept
  <2>9. Taken(Reply, e, k, 0, client'.p)
    BY <2>7 DEF Taken
  <2>10. s2c' = SubSeq(w, 0 + 1, F)
    BY <2>3, <2>5
  <2>11. 0 \in 0 .. Len(qemu.last) - 1
    BY <2>3 DEF F
  <2>12. AtRecv'
    BY <1>2, <1>9, <2>1, <2>7, <2>8, <2>9, <2>10, <2>11 DEF AtRecv, w, F
  <2> QED
    BY <1>1, <1>2, <2>7, <2>12 DEF GInv
<1> QED
  BY <1>1, <1>6, <1>7, <1>8, <1>9 DEF AtAck

\* QEMU is gone.
LEMMA RecvEofKeeps ==
  ASSUME GInv, recv_eof
  PROVE  GInv'
<1>1. TypeOK /\ client.pc = "recv" /\ Calling /\ qemu.state = "dead"
  BY DEF GInv, recv_eof
<1>2. client' = [client EXCEPT !.pc = "exit"] /\ c2s' = c2s /\ s2c' = s2c /\ qemu' = qemu
      /\ before' = before
  BY DEF recv_eof
<1>3. client' \in Clients /\ client'.pc = "exit" /\ client'.call = client.call
  BY <1>1, <1>2 DEF TypeOK, Clients
<1>4. TypeOK'
  BY <1>1, <1>2, <1>3, Fields, ClientTypes
<1> QED
  BY <1>1, <1>2, <1>3, <1>4 DEF GInv, Calling

\* The call returns.
LEMMA ReturnKeeps ==
  ASSUME GInv, Return
  PROVE  GInv'
<1>1. /\ TypeOK /\ client.pc = "return" /\ Calling /\ AtSend
      /\ (client.reset = TRUE => qemu.state = "dead")
  BY DEF GInv, Return
<1>2. c2s' = c2s /\ s2c' = s2c /\ qemu' = qemu /\ before' = before
  BY DEF Return
<1>3. CASE client.call.op = "memcpy" /\ ~client.ok
  <2>1. client' = [client EXCEPT !.pc = "exit"]
    BY <1>3 DEF Return
  <2>2. client' \in Clients /\ client'.pc = "exit" /\ client'.call = client.call
        /\ client'.reset = client.reset
    BY <1>1, <2>1 DEF TypeOK, Clients
  <2>3. TypeOK'
    BY <1>1, <1>2, <2>2, Fields, ClientTypes
  <2>4. client'.call \in Calls /\ Pluses(c2s')
    BY <1>1, <1>2, <2>2 DEF Calling, AtSend
  <2> QED
    BY <1>1, <1>2, <2>2, <2>3, <2>4 DEF GInv
<1>4. CASE ~(client.call.op = "memcpy" /\ ~client.ok)
  <2> DEFINE x == IF client.call.op = "to_dut" THEN client.qemu_r[1] ELSE 0
  <2>1. client' = [client EXCEPT !.pc = "idle", !.call = NoCall, !.ret = x, !.qemu_r = <<0, 0>>]
    BY <1>4 DEF Return
  <2>2. x \in Reg /\ <<0, 0>> \in Reg \X Reg
    BY <1>1, Fields DEF Reg
  <2>3. client.ok = TRUE
    BY <1>1, <1>4, Fields DEF Calling
  <2> HIDE DEF x
  <2>4. /\ client' \in Clients /\ client'.pc = "idle" /\ client'.call = NoCall
        /\ client'.ok = client.ok /\ client'.p = client.p /\ client'.reset = client.reset
    BY <1>1, <2>1, <2>2 DEF TypeOK, Clients
  <2>5. TypeOK'
    BY <1>1, <1>2, <2>4, Fields, ClientTypes
  <2>6. AtSend'
    BY <1>1, <1>2, <2>4 DEF AtSend
  <2> QED
    BY <1>1, <1>2, <2>3, <2>4, <2>5, <2>6 DEF GInv
<1> QED
  BY <1>3, <1>4

\* A reply is taken: the call is one command further.
LEMMA Advance ==
  ASSUME TypeOK, Calling, client.todo # << >>, Stage(client.call, before, Done + 1, qemu.ref),
         client' = [AfterReply(Reply) EXCEPT !.p = Seek], before' = before
  PROVE  /\ client' \in Clients /\ Calling' /\ Done' = Done + 1
         /\ client'.pc = (IF client'.todo = << >> THEN "return" ELSE "send")
         /\ client'.p = Seek /\ client'.call = client.call /\ client'.reset = client.reset
<1> DEFINE h == Head(client.todo)
           t == Tail(client.todo)
           ok == client.ok /\ (h.cmd = "M" => Reply = OK)
           q == IF h.cmd = "g" THEN DecodeRegs(Reply) ELSE client.qemu_r
           pc == IF t # << >> THEN "send" ELSE "return"
           c == client.call
<1>1. /\ Packet.cmd \in {"s", "g", "G", "M"} /\ Packet.cmd = h.cmd
      /\ (Packet.cmd = "g" => DecodeRegs(Reply) = qemu.ref.regs)
      /\ (c.op = "memcpy" => Packet.cmd = "M" /\ (Reply = OK => Fits(h)))
      /\ (c.op # "memcpy" => Packet.cmd # "M")
      /\ (c.op \in {"to_ref", "to_dut"} => (Packet.cmd = "g" <=> Done = 0))
  BY Asked DEF Reply
<1>2. /\ Count \in Nat /\ Done \in Nat /\ Done < Count /\ c \in Calls
      /\ t \in Seq(Command) /\ Len(t) = Count - (Done + 1)
      /\ t = SubSeq(Commands(c), (Done + 1) + 1, Count)
  BY HeadTodo
<1>3. q \in Reg \X Reg
  <2>1. qemu.ref.regs \in Reg \X Reg /\ client.qemu_r \in Reg \X Reg
    BY Fields DEF Reference
  <2> QED
    BY <1>1, <2>1
<1>4. client' = [client EXCEPT !.todo = t, !.ok = ok, !.qemu_r = q, !.pc = pc, !.p = Seek]
  <2> DEFINE d == [client EXCEPT !.todo = t, !.ok = ok, !.qemu_r = q]
  <2>1. AfterReply(Reply) = [d EXCEPT !.pc = IF d.todo # << >> THEN "send" ELSE "return"]
    BY DEF AfterReply
  <2> HIDE DEF t, ok, q
  <2>2. d.todo = t
    BY DEF TypeOK, Clients
  <2>3. client' = [[d EXCEPT !.pc = pc] EXCEPT !.p = Seek]
    BY <2>1, <2>2
  <2>4. client = [client EXCEPT !.p = client.p] /\ client \in Clients
    BY DEF TypeOK, Clients
  <2> QED
    BY <2>3, <2>4 DEF Clients
<1>5. Seek \in Parser
  <2>1. IsText(Reply) /\ Reply \in Encodings(Reply)
    BY Asking DEF Encodings
  <2> QED
    BY <2>1, DecodeStart
<1> HIDE DEF q, ok, t, h
<1>6. ok \in BOOLEAN
  BY Fields DEF ok
<1>7. /\ client' \in Clients /\ client'.pc = pc /\ client'.todo = t /\ client'.ok = ok
      /\ client'.qemu_r = q /\ client'.call = c /\ client'.p = Seek
      /\ client'.reset = client.reset
  BY <1>2, <1>3, <1>4, <1>5, <1>6 DEF TypeOK, Clients
<1>8. Count' = Count /\ Done' = Done + 1
  <2>1. Count' = Count
    BY <1>7 DEF Count
  <2>2. Done' = Count - Len(t)
    BY <1>7, <2>1 DEF Done
  <2> QED
    BY <1>2, <2>1, <2>2
<1>9. c.op \in {"to_ref", "to_dut"} => q = before.regs
  <2>1. SUFFICES ASSUME c.op \in {"to_ref", "to_dut"} PROVE q = before.regs
    OBVIOUS
  <2>2. CASE Done = 0
    <3>1. h.cmd = "g" /\ q = qemu.ref.regs
      BY <1>1, <2>1, <2>2 DEF q
    <3>2. Stage(c, before, 1, qemu.ref)
      BY <2>2
    <3>3. qemu.ref = before
      BY <2>1, <3>2 DEF Stage
    <3> QED
      BY <3>1, <3>3
  <2>3. CASE Done # 0
    <3>1. Done >= 1
      BY <1>2, <2>3
    <3>2. client.qemu_r = before.regs
      BY <2>1, <3>1 DEF Calling
    <3>3. h.cmd # "g"
      BY <1>1, <2>1, <2>3
    <3> QED
      BY <3>2, <3>3 DEF q
  <2> QED
    BY <2>2, <2>3
<1>10. c.op = "memcpy" /\ ok => AllFit(c, Done + 1)
  <2>1. SUFFICES ASSUME c.op = "memcpy", ok PROVE AllFit(c, Done + 1)
    OBVIOUS
  <2>2. client.ok = TRUE /\ h.cmd = "M"
    BY <1>1, <2>1, Fields DEF ok
  <2>3. Fits(h)
    BY <1>1, <2>1, <2>2 DEF ok
  <2>4. AllFit(c, Done)
    BY <2>1, <2>2 DEF Calling
  <2> QED
    BY <2>1, <2>3, <2>4, NextFits DEF h
<1>11. c.op # "memcpy" => ok = TRUE
  <2>1. SUFFICES ASSUME c.op # "memcpy" PROVE ok = TRUE
    OBVIOUS
  <2>2. client.ok = TRUE /\ h.cmd # "M"
    BY <1>1, <2>1 DEF Calling
  <2> QED
    BY <2>2 DEF ok
<1>12. Calling'
  <2>1. Done' >= 0
    BY <1>2, <1>8
  <2>2. client'.todo = SubSeq(Commands(c), Done' + 1, Count')
    BY <1>2, <1>7, <1>8
  <2> QED
    BY <1>2, <1>7, <1>8, <1>9, <1>10, <1>11, <2>1, <2>2 DEF Calling
<1> QED
  BY <1>7, <1>8, <1>12 DEF pc

\* The next character of what lies in the connection.
LEMMA Onward ==
  ASSUME NEW w \in Seq(Nat), NEW F, F = Len(w), NEW n \in 0 .. F - 1
  PROVE  LET s == SubSeq(w, n + 1, F) IN
         /\ F \in Nat /\ s # << >> /\ Head(s) = w[n + 1]
         /\ Tail(s) = SubSeq(w, (n + 1) + 1, F) /\ Tail(s) \in Seq(Nat)
         /\ n + 1 = F => Tail(s) = << >>
<1>1. F \in Nat /\ n \in Nat /\ n + 1 \in 1 .. F /\ n + 1 <= F
  OBVIOUS
<1> DEFINE s == SubSeq(w, n + 1, F)
<1>2. s \in Seq(Nat) /\ Len(s) = F - n /\ s # << >>
  <2>1. s \in Seq(Nat) /\ Len(s) = F - n
    <3>1. /\ n + 1 \in 1 .. Len(w) + 1 /\ F \in n + 1 - 1 .. Len(w)
          /\ F - (n + 1) + 1 = F - n
      BY <1>1
    <3>2. s \in Seq(Nat)
      BY <1>1, SubSeqProperties
    <3>3. Len(s) = F - (n + 1) + 1
      BY <1>1
    <3> QED
      BY <3>1, <3>2, <3>3
  <2> HIDE DEF s
  <2> QED
    BY <1>1, <2>1
<1>3. Head(s) = w[n + 1] /\ Tail(s) = SubSeq(w, (n + 1) + 1, F)
  BY <1>1, HeadTailOfSubSeq
<1>4. Tail(s) \in Seq(Nat) /\ Len(Tail(s)) = Len(s) - 1
  BY <1>2, HeadTailProperties
<1> HIDE DEF s
<1>5. ASSUME n + 1 = F PROVE Tail(s) = << >>
  <2>1. Len(Tail(s)) = 0
    <3> DEFINE m == Len(Tail(s))
    <3>1. m = F - n - 1
      BY <1>2, <1>4
    <3> HIDE DEF m
    <3>2. m = 0
      BY <1>1, <1>5, <3>1
    <3> QED
      BY <3>2 DEF m
  <2> QED
    BY <1>4, <2>1, EmptySeq
<1> QED
  BY <1>1, <1>2, <1>3, <1>4, <1>5 DEF s

\* A character of the reply: the reply goes on, is taken, or is refused.
LEMMA RecvCharKeeps ==
  ASSUME GInv, recv_char
  PROVE  GInv'
<1>1. /\ TypeOK /\ client.pc = "recv" /\ AtRecv /\ Calling /\ client.todo # << >>
      /\ (client.reset = TRUE => qemu.state = "dead") /\ s2c # << >>
  BY DEF GInv, recv_char
<1>2. qemu' = qemu /\ before' = before /\ s2c' = Tail(s2c)
  BY DEF recv_char
<1>3. Stage(client.call, before, Done + 1, qemu.ref) /\ Pluses(c2s)
      /\ \E e \in Encodings(Reply), k \in 0 .. Len(qemu.last), n \in 0 .. Len(qemu.last) - 1 :
             /\ Sent(qemu, Reply, e, k) /\ s2c = SubSeq(Wire(Frame(e), k), n + 1, Len(Frame(e)))
             /\ Taken(Reply, e, k, n, client.p)
  BY <1>1 DEF AtRecv
<1>4. PICK e \in Encodings(Reply), k \in 0 .. Len(qemu.last), n \in 0 .. Len(qemu.last) - 1 :
             /\ Sent(qemu, Reply, e, k) /\ s2c = SubSeq(Wire(Frame(e), k), n + 1, Len(Frame(e)))
             /\ Taken(Reply, e, k, n, client.p)
  BY <1>3
<1>5. IsText(Reply)
  BY <1>1, Asking
<1> DEFINE w == Wire(Frame(e), k)
           F == Len(Frame(e))
           q == RecvChar(client.p, w[n + 1])
<1>6. /\ e \in Encodings(Reply) /\ qemu.last = Frame(e) /\ k \in 0 .. F
      /\ Hittable(Frame(e), k) /\ w \in Seq(Nat) /\ Len(w) = F
  BY <1>4, <1>5, SentIs
<1>7. /\ q \in Parser
      /\ n + 1 < F => Len(q.digits) < 2 /\ Taken(Reply, e, k, n + 1, q)
      /\ n + 1 = F => /\ Len(q.digits) = 2 /\ (sum_ok(q) <=> k = 0)
                      /\ k = 0 => q.reply = Reply
  <2>1. client.p \in Parser /\ n \in 0 .. Len(Frame(e)) - 1
    BY <1>1, <1>4, <1>6, Fields
  <2> QED
    BY <1>4, <1>5, <1>6, <2>1, TakenStep
<1> HIDE DEF w, F
<1>8. /\ F \in Nat /\ n \in 0 .. F - 1 /\ Head(s2c) = w[n + 1]
      /\ s2c' = SubSeq(w, (n + 1) + 1, F) /\ s2c' \in Seq(Nat)
      /\ (n + 1 = F => s2c' = << >>)
  <2>1. n \in 0 .. F - 1
    BY <1>4, <1>6 DEF F
  <2>2. s2c = SubSeq(w, n + 1, F)
    BY <1>4 DEF w, F
  <2> QED
    BY <1>2, <1>6, <2>1, <2>2, Onward
<1>9. RecvChar(client.p, Head(s2c)) = q
  BY <1>8
<1> HIDE DEF q
<1>10. IF Len(q.digits) < 2
       THEN client' = [client EXCEPT !.p = q] /\ c2s' = c2s
       ELSE /\ c2s' = Append(c2s, [cmd |-> IF sum_ok(q) THEN "+" ELSE "-"])
            /\ client' = [(IF sum_ok(q) THEN AfterReply(q.reply) ELSE client) EXCEPT !.p = Seek]
  BY <1>9 DEF recv_char
<1>11. ASSUME NEW p \in Parser, client' = [client EXCEPT !.p = p], c2s' \in Seq(Message)
       PROVE  /\ client'.pc = "recv" /\ client'.p = p /\ client'.call = client.call
              /\ client'.todo = client.todo /\ client'.reset = client.reset
              /\ TypeOK' /\ Calling' /\ Done' = Done /\ Packet' = Packet /\ Reply' = Reply
  <2>1. /\ client' \in Clients /\ client'.pc = "recv" /\ client'.p = p
        /\ client'.call = client.call /\ client'.todo = client.todo
        /\ client'.ok = client.ok /\ client'.qemu_r = client.qemu_r
        /\ client'.reset = client.reset
    BY <1>1, <1>11 DEF TypeOK, Clients
  <2>2. TypeOK'
    BY <1>1, <1>2, <1>8, <1>11, <2>1, Fields, ClientTypes
  <2>3. Calling' /\ Done' = Done /\ Packet' = Packet
    BY <1>1, <1>2, <2>1, Kept
  <2>4. Reply' = Reply
    BY <1>2, <2>3, ReplyKept
  <2> QED
    BY <2>1, <2>2, <2>3, <2>4
<1>12. CASE n + 1 < F
  <2>1. Len(q.digits) < 2 /\ Taken(Reply, e, k, n + 1, q)
    BY <1>7, <1>12
  <2>2. client' = [client EXCEPT !.p = q] /\ c2s' = c2s
    BY <1>10, <2>1
  <2>3. /\ client'.pc = "recv" /\ client'.p = q /\ client'.call = client.call
        /\ client'.todo = client.todo /\ client'.reset = client.reset
        /\ TypeOK' /\ Calling' /\ Done' = Done /\ Packet' = Packet /\ Reply' = Reply
    BY <1>1, <1>7, <1>11, <2>2, Fields
  <2>4. n + 1 \in 0 .. Len(qemu.last) - 1
    BY <1>6, <1>8, <1>12 DEF F
  <2>5. AtRecv'
    BY <1>2, <1>3, <1>4, <1>8, <2>1, <2>2, <2>3, <2>4 DEF AtRecv, w, F
  <2> QED
    BY <1>1, <1>2, <2>3, <2>5 DEF GInv
<1>13. CASE n + 1 = F
  <2>1. Len(q.digits) = 2 /\ (sum_ok(q) <=> k = 0) /\ (k = 0 => q.reply = Reply)
    BY <1>7, <1>13
  <2>2. ~(Len(q.digits) < 2)
    BY <2>1
  <2>3. s2c' = << >>
    BY <1>8, <1>13
  <2>4. c2s \in Seq(Message) /\ [cmd |-> "+"] \in Message /\ [cmd |-> "-"] \in Message
    BY <1>1, Fields DEF Message
  <2>5. CASE k = 0
    <3>1. /\ c2s' = Append(c2s, [cmd |-> "+"])
          /\ client' = [AfterReply(Reply) EXCEPT !.p = Seek]
      BY <1>10, <2>1, <2>2, <2>5
    <3>2. c2s' \in Seq(Message) /\ Pluses(c2s')
      BY <1>3, <2>4, <3>1, PlusesOf
    <3>3. /\ client' \in Clients /\ Calling' /\ Done' = Done + 1
          /\ client'.pc = (IF client'.todo = << >> THEN "return" ELSE "send")
          /\ client'.p = Seek /\ client'.call = client.call /\ client'.reset = client.reset
      BY <1>1, <1>2, <1>3, <3>1, Advance
    <3>4. TypeOK'
      BY <1>1, <1>2, <1>8, <3>2, <3>3, Fields, ClientTypes
    <3>5. AtSend'
      BY <2>3, <3>2, <3>3 DEF AtSend
    <3>6. Stage(client.call, before, Done, qemu.ref)'
      BY <1>2, <1>3, <3>3
    <3> QED
      BY <1>1, <1>2, <3>3, <3>4, <3>5, <3>6 DEF GInv
  <2>6. CASE k # 0
    <3>1. /\ c2s' = Append(c2s, [cmd |-> "-"])
          /\ client' = [client EXCEPT !.p = Seek]
      BY <1>10, <2>1, <2>2, <2>6
    <3>2. c2s' \in Seq(Message) /\ Ends(c2s', [cmd |-> "-"])
      BY <1>3, <2>4, <3>1, EndsOf
    <3>3. Seek \in Parser
      BY <1>5, <1>6, DecodeStart
    <3>4. /\ client'.pc = "recv" /\ client'.p = Seek /\ client'.call = client.call
          /\ client'.todo = client.todo /\ client'.reset = client.reset
          /\ TypeOK' /\ Calling' /\ Done' = Done /\ Packet' = Packet /\ Reply' = Reply
      BY <1>11, <3>1, <3>2, <3>3
    <3>5. AtRecv'
      BY <1>2, <1>3, <1>6, <2>3, <3>2, <3>4 DEF AtRecv
    <3> QED
      BY <1>1, <1>2, <3>4, <3>5 DEF GInv
  <2> QED
    BY <2>5, <2>6
<1> QED
  BY <1>8, <1>12, <1>13

\* A step the client has no part in.
LEMMA ServerSide ==
  ASSUME GInv, client' = client, before' = before,
         c2s' \in Seq(Message), s2c' \in Seq(Nat), qemu' \in Servers,
         qemu.state = "dead" => qemu'.state = "dead",
         client.pc = "connect" => qemu'.state # "dead",
         client.pc \in {"connect", "idle", "send", "return"} =>
             /\ AtSend => AtSend'
             /\ Stage(client.call, before, Done, qemu.ref) =>
                  Stage(client.call, before, Done, qemu'.ref),
         client.pc = "ack" => AtAck',
         client.pc = "recv" => AtRecv',
         client.pc = "exit" => qemu'.state = "dead" \/ Pluses(c2s')
  PROVE  GInv'
<1>1. /\ client'.pc = client.pc /\ client'.call = client.call /\ client'.todo = client.todo
      /\ client'.ok = client.ok /\ client'.qemu_r = client.qemu_r
      /\ client'.reset = client.reset
  OBVIOUS
<1>2. (Calling => Calling') /\ Done' = Done
  BY <1>1, Kept
<1>3. TypeOK'
  BY DEF GInv, TypeOK
<1>4. Stage(client.call, before, Done, qemu.ref)'
        <=> Stage(client.call, before, Done, qemu'.ref)
  BY <1>1, <1>2
<1>5. client.pc = "send" => AtSend' /\ Stage(client.call, before, Done, qemu.ref)'
  BY <1>4 DEF GInv
<1>6. client.pc = "return" => AtSend' /\ Stage(client.call, before, Done, qemu.ref)'
  BY <1>4 DEF GInv
<1>7. client.pc \in {"connect", "idle"} => AtSend'
  BY DEF GInv
<1> QED
  BY <1>1, <1>2, <1>3, <1>5, <1>6, <1>7 DEF GInv

\* QEMU listens,
LEMMA ListenKeeps ==
  ASSUME GInv, Listen
  PROVE  GInv'
<1>1. /\ client' = client /\ c2s' = c2s /\ s2c' = s2c /\ before' = before
      /\ qemu.state = "starting" /\ qemu' = [qemu EXCEPT !.state = "listening"]
  BY DEF Listen
<1>2. TypeOK
  BY DEF GInv
<1>3. /\ qemu' \in Servers /\ qemu'.state = "listening" /\ qemu'.ref = qemu.ref
      /\ qemu'.last = qemu.last /\ qemu'.hit = qemu.hit
  BY <1>1, <1>2 DEF TypeOK, Servers
<1>4. /\ client'.call = client.call /\ client'.todo = client.todo /\ client'.p = client.p
      /\ client'.ok = client.ok /\ client'.qemu_r = client.qemu_r
  BY <1>1
<1>5. Done' = Done /\ Packet' = Packet
  BY <1>1, <1>4, Kept
<1>6. Reply' = Reply
  BY <1>3, <1>5, ReplyKept
<1>7. \A e, k : Sent(qemu, Reply, e, k) => Sent(qemu', Reply', e, k)
  BY <1>3, <1>6 DEF Sent
<1>8. AtSend => AtSend'
  BY <1>1, <1>4 DEF AtSend
<1>9. ASSUME AtAck PROVE AtAck'
  BY <1>1, <1>3, <1>4, <1>5, <1>6, <1>7, <1>9 DEF AtAck
<1>10. ASSUME AtRecv PROVE AtRecv'
  BY <1>1, <1>3, <1>4, <1>5, <1>6, <1>7, <1>10 DEF AtRecv
<1>11. client.pc = "ack" => AtAck'
  BY <1>9 DEF GInv
<1>12. client.pc = "recv" => AtRecv'
  BY <1>10 DEF GInv
<1>13. client.pc = "exit" => qemu'.state = "dead" \/ Pluses(c2s')
  BY <1>1 DEF GInv
<1> QED
  BY <1>1, <1>2, <1>3, <1>8, <1>11, <1>12, <1>13, Fields, ServerSide

\* and dies.
LEMMA CrashKeeps ==
  ASSUME GInv, Crash
  PROVE  GInv'
<1>1. /\ client' = client /\ c2s' = << >> /\ s2c' = s2c /\ before' = before
      /\ client.pc # "connect" /\ qemu' = [qemu EXCEPT !.state = "dead"]
  BY DEF Crash
<1>2. TypeOK
  BY DEF GInv
<1>3. /\ qemu' \in Servers /\ qemu'.state = "dead" /\ qemu'.ref = qemu.ref
      /\ qemu'.last = qemu.last /\ qemu'.hit = qemu.hit
  BY <1>1, <1>2 DEF TypeOK, Servers
<1>4. /\ client'.call = client.call /\ client'.todo = client.todo /\ client'.p = client.p
      /\ client'.ok = client.ok /\ client'.qemu_r = client.qemu_r
  BY <1>1
<1>5. Done' = Done /\ Packet' = Packet
  BY <1>1, <1>4, Kept
<1>6. Reply' = Reply
  BY <1>3, <1>5, ReplyKept
<1>7. \A e, k : Sent(qemu, Reply, e, k) => Sent(qemu', Reply', e, k)
  BY <1>3, <1>6 DEF Sent
<1>8. c2s' \in Seq(Message) /\ Pluses(c2s')
  <2>1. << >> \in Seq(Message)
    OBVIOUS
  <2> QED
    BY <1>1, <2>1, PlusesOf
<1>9. AtSend => AtSend'
  BY <1>1, <1>4, <1>8 DEF AtSend
<1>10. ASSUME AtAck PROVE AtAck'
  BY <1>1, <1>3, <1>4, <1>5, <1>6, <1>7, <1>8, <1>10 DEF AtAck
<1>11. ASSUME AtRecv PROVE AtRecv'
  BY <1>1, <1>3, <1>4, <1>5, <1>6, <1>7, <1>8, <1>11 DEF AtRecv
<1>12. client.pc = "ack" => AtAck'
  BY <1>10 DEF GInv
<1>13. client.pc = "recv" => AtRecv'
  BY <1>11 DEF GInv
<1> QED
  BY <1>1, <1>2, <1>3, <1>8, <1>9, <1>12, <1>13, Fields, ServerSide

\* A damaged command.
LEMMA DamageCommandKeeps ==
  ASSUME GInv, DamageCommand
  PROVE  GInv'
<1>1. client' = client /\ s2c' = s2c /\ qemu' = qemu /\ before' = before
  BY DEF DamageCommand
<1>2. PICK i \in DOMAIN c2s : /\ c2s[i].cmd \notin {"+", "-"}
                              /\ c2s' = [c2s EXCEPT ![i].bad = TRUE]
  BY DEF DamageCommand
<1>3. TypeOK /\ c2s \in Seq(Message) /\ qemu \in Servers /\ s2c \in Seq(Nat)
  BY Fields DEF GInv, TypeOK
<1> DEFINE m == [c2s[i] EXCEPT !.bad = TRUE]
<1>4. m \in Message
  <2> DEFINE x == c2s[i]
  <2>1. x \in Message /\ x.cmd \notin {"+", "-"}
    BY <1>2, <1>3
  <2> HIDE DEF x
  <2>2. [x EXCEPT !.bad = TRUE] \in Message
    BY <2>1 DEF Message
  <2> QED
    BY <2>2 DEF x
<1>5. c2s' = [c2s EXCEPT ![i] = m]
  BY <1>2
<1>6. c2s' \in Seq(Message) /\ Len(c2s') = Len(c2s) /\ c2s' # << >>
      /\ c2s'[i] = m /\ \A j \in DOMAIN c2s : j # i => c2s'[j] = c2s[j]
  <2>1. i \in 1 .. Len(c2s) /\ DOMAIN c2s = 1 .. Len(c2s)
    BY <1>3
  <2> HIDE DEF m
  <2>2. c2s' \in Seq(Message) /\ Len(c2s') = Len(c2s)
    BY <1>3, <1>4, <1>5, <2>1, ExceptSeq
  <2>3. c2s'[i] = m /\ \A j \in DOMAIN c2s : j # i => c2s'[j] = c2s[j]
    BY <1>2, <1>5
  <2> QED
    BY <1>2, <1>3, <2>2, <2>3
<1>7. ~Pluses(c2s)
  BY <1>2 DEF Pluses
<1>8. ASSUME NEW x, Ends(c2s, x)
      PROVE  x = c2s[i] /\ Ends(c2s', m)
  <2> DEFINE n == Len(c2s)
  <2>1. c2s # << >> /\ n \in Nat \ {0} /\ c2s[n] = x /\ Pluses(SubSeq(c2s, 1, n - 1))
    BY <1>3, <1>8 DEF Ends
  <2>2. i \in 1 .. n
    BY <1>3
  <2> HIDE DEF n
  <2>3. i = n
    <3>1. SUFFICES ASSUME i # n PROVE FALSE
      OBVIOUS
    <3>2. n - 1 \in 0 .. n /\ i \in 1 .. n - 1
      BY <2>1, <2>2, <3>1
    <3>3. DOMAIN SubSeq(c2s, 1, n - 1) = 1 .. n - 1 /\ SubSeq(c2s, 1, n - 1)[i] = c2s[i]
      BY <1>3, <3>2 DEF n
    <3>4. SubSeq(c2s, 1, n - 1)[i].cmd = "+"
      BY <2>1, <3>2, <3>3 DEF Pluses
    <3> QED
      BY <1>2, <3>3, <3>4
  <2>4. SubSeq(c2s', 1, n - 1) = SubSeq(c2s, 1, n - 1)
    <3> DEFINE a == SubSeq(c2s', 1, n - 1)
               b == SubSeq(c2s, 1, n - 1)
    <3>1. n - 1 \in 0 .. n /\ Len(c2s) = n /\ Len(c2s') = n
      BY <1>6, <2>1 DEF n
    <3>2. /\ a \in Seq(Message) /\ Len(a) = n - 1 /\ \A j \in 1 .. n - 1 : a[j] = c2s'[j]
          /\ b \in Seq(Message) /\ Len(b) = n - 1 /\ \A j \in 1 .. n - 1 : b[j] = c2s[j]
      BY <1>3, <1>6, <3>1
    <3>3. \A j \in 1 .. n - 1 : c2s'[j] = c2s[j]
      <4>1. \A j \in 1 .. n - 1 : j \in DOMAIN c2s /\ j # i
        BY <1>3, <2>1, <2>3, <3>1
      <4> QED
        BY <1>6, <4>1
    <3> HIDE DEF a, b
    <3>4. Len(a) = Len(b) /\ \A j \in 1 .. Len(a) : a[j] = b[j]
      BY <3>2, <3>3
    <3>5. a = b
      BY <3>2, <3>4, SeqEqual
    <3> QED
      BY <3>5 DEF a, b
  <2>5. Ends(c2s', m)
    BY <1>6, <2>1, <2>3, <2>4 DEF Ends, n
  <2> QED
    BY <2>1, <2>3, <2>5
<1> HIDE DEF m
<1>9. /\ client'.call = client.call /\ client'.todo = client.todo /\ client'.p = client.p
      /\ client'.ok = client.ok /\ client'.qemu_r = client.qemu_r
  BY <1>1
<1>10. Done' = Done /\ Packet' = Packet
  BY <1>1, <1>9, Kept
<1>11. Reply' = Reply
  BY <1>1, <1>10, ReplyKept
<1>12. ASSUME client.pc = "ack" PROVE AtAck'
  <2>1. AtAck /\ Calling /\ client.todo # << >>
    BY <1>12 DEF GInv
  <2>2. /\ client.p = Seek /\ Stage(client.call, before, Done, qemu.ref)
        /\ s2c = << >> /\ qemu.state # "dead"
        /\ \E b \in BOOLEAN : Ends(c2s, [Packet EXCEPT !.bad = b])
    BY <1>7, <2>1 DEF AtAck
  <2>3. PICK b \in BOOLEAN : Ends(c2s, [Packet EXCEPT !.bad = b])
    BY <2>2
  <2>4. Packet \in Message /\ Packet.cmd \in {"s", "g", "G", "M"}
    BY <1>3, <2>1, Asked
  <2>5. [Packet EXCEPT !.bad = b] = c2s[i] /\ Ends(c2s', m)
    BY <1>8, <2>3
  <2>6. m = [Packet EXCEPT !.bad = TRUE]
    BY <2>4, <2>5 DEF m, Message
  <2> QED
    BY <1>1, <1>9, <1>10, <2>2, <2>5, <2>6 DEF AtAck
<1>13. ASSUME client.pc = "recv" PROVE AtRecv'
  <2>1. AtRecv
    BY <1>13 DEF GInv
  <2>2. ~Ends(c2s, [cmd |-> "-"])
    BY <1>2, <1>8
  <2>3. /\ Stage(client.call, before, Done + 1, qemu.ref) /\ s2c = << >> /\ client.p = Seek
        /\ qemu.state = "dead"
        /\ \E e \in Encodings(Reply) : qemu.last = Frame(e)
    BY <1>7, <2>1, <2>2 DEF AtRecv
  <2> QED
    BY <1>1, <1>9, <1>10, <1>11, <2>3 DEF AtRecv
<1>14. AtSend => AtSend'
  BY <1>7 DEF AtSend
<1>15. client.pc = "exit" => qemu'.state = "dead" \/ Pluses(c2s')
  BY <1>1, <1>7 DEF GInv
<1>16. client.pc = "connect" => qemu'.state # "dead"
  BY <1>1 DEF GInv
<1> QED
  BY <1>1, <1>3, <1>6, <1>12, <1>13, <1>14, <1>15, <1>16, ServerSide

\* QEMU takes an acknowledgement.
LEMMA ServePlus ==
  ASSUME GInv, Serve, Head(c2s).cmd = "+"
  PROVE  GInv'
<1>1. /\ client' = client /\ before' = before /\ c2s' = Tail(c2s) /\ s2c' = s2c
      /\ qemu' = qemu /\ qemu.state = "listening" /\ c2s # << >>
  BY DEF Serve
<1>2. TypeOK /\ c2s \in Seq(Message) /\ qemu \in Servers /\ s2c \in Seq(Nat)
  BY Fields DEF GInv, TypeOK
<1>3. c2s' \in Seq(Message)
  BY <1>1, <1>2, HeadTailProperties
<1>4. Pluses(c2s) => Pluses(c2s')
  BY <1>1, <1>2, PlusesOf
<1>5. ASSUME NEW m, Ends(c2s, m), m.cmd # "+" PROVE Ends(c2s', m)
  BY <1>1, <1>2, <1>5, EndsTail
<1>6. /\ client'.call = client.call /\ client'.todo = client.todo /\ client'.p = client.p
      /\ client'.ok = client.ok /\ client'.qemu_r = client.qemu_r
  BY <1>1
<1>7. Done' = Done /\ Packet' = Packet
  BY <1>1, <1>6, Kept
<1>8. Reply' = Reply
  BY <1>1, <1>7, ReplyKept
<1>9. ASSUME client.pc = "ack" PROVE AtAck'
  <2>1. AtAck /\ Calling /\ client.todo # << >>
    BY <1>9 DEF GInv
  <2>2. Packet \in Message /\ Packet.cmd \in {"s", "g", "G", "M"}
    BY <1>2, <2>1, Asked
  <2>3. \A b \in BOOLEAN : [Packet EXCEPT !.bad = b].cmd # "+"
    BY <2>2 DEF Message
  <2>4. \A b \in BOOLEAN : Ends(c2s, [Packet EXCEPT !.bad = b])
                             => Ends(c2s', [Packet EXCEPT !.bad = b])
    BY <1>5, <2>3
  <2> QED
    BY <1>1, <1>4, <1>6, <1>7, <1>8, <2>1, <2>4 DEF AtAck
<1>10. ASSUME client.pc = "recv" PROVE AtRecv'
  <2>1. AtRecv
    BY <1>10 DEF GInv
  <2>2. Ends(c2s, [cmd |-> "-"]) => Ends(c2s', [cmd |-> "-"])
    BY <1>5
  <2> QED
    BY <1>1, <1>4, <1>6, <1>7, <1>8, <2>1, <2>2 DEF AtRecv
<1>11. AtSend => AtSend'
  BY <1>1, <1>4 DEF AtSend
<1>12. client.pc = "exit" => qemu'.state = "dead" \/ Pluses(c2s')
  BY <1>1, <1>4 DEF GInv
<1>13. client.pc = "connect" => qemu'.state # "dead"
  BY <1>1
<1> QED
  BY <1>1, <1>2, <1>3, <1>9, <1>10, <1>11, <1>12, <1>13, ServerSide

\* It sends its last frame again.
LEMMA ServeMinus ==
  ASSUME GInv, Serve, Head(c2s).cmd = "-"
  PROVE  GInv'
<1>1. /\ client' = client /\ before' = before /\ c2s' = Tail(c2s) /\ s2c' = s2c \o qemu.last
      /\ qemu' = [qemu EXCEPT !.hit = FALSE] /\ qemu.state = "listening" /\ c2s # << >>
  BY DEF Serve
<1>2. TypeOK /\ c2s \in Seq(Message) /\ qemu \in Servers /\ s2c \in Seq(Nat)
  BY Fields DEF GInv, TypeOK
<1>3. ~Pluses(c2s)
  BY <1>1, <1>2, PlusesOf
<1>4. /\ qemu' \in Servers /\ qemu'.state = "listening" /\ qemu'.ref = qemu.ref
      /\ qemu'.last = qemu.last /\ qemu.last \in Seq(Nat)
  BY <1>1, <1>2 DEF TypeOK, Servers
<1>5. c2s' \in Seq(Message) /\ s2c' \in Seq(Nat)
  <2>1. c2s' \in Seq(Message)
    BY <1>1, <1>2, HeadTailProperties
  <2> QED
    BY <1>1, <1>2, <1>4, <2>1
<1>6. client.pc # "ack"
  <2>1. SUFFICES ASSUME client.pc = "ack" PROVE FALSE
    OBVIOUS
  <2>2. AtAck /\ Calling /\ client.todo # << >>
    BY <2>1 DEF GInv
  <2>3. PICK b \in BOOLEAN : Ends(c2s, [Packet EXCEPT !.bad = b])
    BY <1>1, <1>3, <2>2 DEF AtAck
  <2>4. Packet \in Message /\ Packet.cmd \in {"s", "g", "G", "M"}
    BY <1>2, <2>2, Asked
  <2>5. [Packet EXCEPT !.bad = b].cmd \in {"s", "g", "G", "M"}
    BY <2>4 DEF Message
  <2>6. Head(c2s).cmd = "+" \/ Head(c2s) = [Packet EXCEPT !.bad = b]
    BY <1>2, <2>3, EndsTail
  <2> QED
    BY <2>5, <2>6
<1>7. ASSUME client.pc = "recv" PROVE AtRecv'
  <2>1. AtRecv /\ Calling /\ client.todo # << >>
    BY <1>7 DEF GInv
  <2>2. /\ Stage(client.call, before, Done + 1, qemu.ref)
        /\ s2c = << >> /\ client.p = Seek /\ Ends(c2s, [cmd |-> "-"])
        /\ \E e \in Encodings(Reply) : qemu.last = Frame(e)
    BY <1>1, <1>3, <2>1 DEF AtRecv
  <2>3. PICK e \in Encodings(Reply) : qemu.last = Frame(e)
    BY <2>2
  <2>4. c2s' = << >>
    <3>1. Len(c2s) = 1
      BY <1>2, <2>2, EndsTail
    <3> QED
      BY <1>1, <1>2, <2>2, <3>1, EndsTail
  <2>5. Pluses(c2s')
    BY <1>5, <2>4, PlusesOf
  <2>6. s2c' = qemu.last
    BY <1>1, <1>4, <2>2
  <2>7. /\ client'.call = client.call /\ client'.todo = client.todo /\ client'.p = Seek
        /\ client'.ok = client.ok /\ client'.qemu_r = client.qemu_r
    BY <1>1, <2>2
  <2>8. Done' = Done /\ Packet' = Packet
    BY <1>1, <2>7, Kept
  <2>9. Reply' = Reply
    BY <1>4, <2>8, ReplyKept
  <2>10. IsText(Reply)
    BY <1>2, <2>1, Asking
  <2>11. Sent(qemu', Reply', e, 0)
    <3>1. Hittable(Frame(e), 0) /\ 0 \in 0 .. Len(Frame(e))
      BY <1>4, <2>3 DEF Hittable
    <3> QED
      BY <1>4, <2>3, <2>9, <3>1 DEF Sent
  <2>12. Len(qemu.last) \in Nat /\ Len(qemu.last) >= 4
    <3>1. Shape(e)
      BY <2>10, ShapeOf
    <3>2. e \in Seq(Nat)
      BY <3>1 DEF Shape
    <3>3. Len(qemu.last) = Len(e) + 4 /\ Len(e) \in Nat
      BY <2>3, <3>2, FrameIs
    <3> QED
      BY <3>3
  <2>13. 0 \in 0 .. Len(qemu'.last) /\ 0 \in 0 .. Len(qemu'.last) - 1
    BY <1>4, <2>12
  <2>14. s2c' = SubSeq(Wire(Frame(e), 0), 0 + 1, Len(Frame(e)))
    <3>1. Wire(Frame(e), 0) = Frame(e) /\ Frame(e) \in Seq(Nat)
      BY <1>4, <2>3 DEF Wire
    <3> QED
      BY <2>3, <2>6, <3>1
  <2>15. Taken(Reply', e, 0, 0, client'.p)
    BY <2>7 DEF Taken
  <2>16. e \in Encodings(Reply')
    BY <2>9
  <2>17. Stage(client.call, before, Done + 1, qemu.ref)'
    BY <1>1, <1>4, <2>2, <2>8
  <2> QED
    BY <2>5, <2>11, <2>13, <2>14, <2>15, <2>16, <2>17 DEF AtRecv
<1>8. AtSend => AtSend'
  BY <1>3 DEF AtSend
<1>9. client.pc # "exit"
  BY <1>1, <1>3 DEF GInv
<1> QED
  BY <1>1, <1>2, <1>4, <1>5, <1>6, <1>7, <1>8, <1>9, ServerSide

\* It refuses a damaged command and carries out a whole one.
LEMMA ServeCommand ==
  ASSUME GInv, Serve, Head(c2s).cmd \notin {"+", "-"}
  PROVE  GInv'
<1> DEFINE p == Head(c2s)
<1>1. /\ client' = client /\ before' = before /\ c2s' = Tail(c2s)
      /\ qemu.state = "listening" /\ c2s # << >>
  BY DEF Serve
<1>2. IF p.bad
      THEN s2c' = Append(s2c, MINUS) /\ qemu' = qemu
      ELSE \E e \in Encodings(ReplyTo(p)) :
             /\ s2c' = s2c \o <<PLUS>> \o Frame(e)
             /\ qemu' = [qemu EXCEPT !.ref = Executed(p, @), !.last = Frame(e), !.hit = FALSE]
  BY DEF Serve
<1>3. TypeOK /\ c2s \in Seq(Message) /\ qemu \in Servers /\ s2c \in Seq(Nat)
      /\ qemu.ref \in Reference
  BY Fields DEF GInv, TypeOK
<1>4. ~Pluses(c2s)
  BY <1>1, <1>3, PlusesOf
<1>5. client.pc # "recv"
  <2>1. SUFFICES ASSUME client.pc = "recv" PROVE FALSE
    OBVIOUS
  <2>2. AtRecv
    BY <2>1 DEF GInv
  <2>3. Ends(c2s, [cmd |-> "-"])
    BY <1>1, <1>4, <2>2 DEF AtRecv
  <2>4. Head(c2s).cmd = "+" \/ Head(c2s) = [cmd |-> "-"]
    BY <1>3, <2>3, EndsTail
  <2> QED
    BY <2>4
<1>6. client.pc \notin {"connect", "idle", "send", "return", "exit"}
  BY <1>1, <1>4 DEF GInv, AtSend
<1>7. client.pc = "ack"
  BY <1>3, <1>5, <1>6 DEF TypeOK, Clients
<1>8. AtAck /\ Calling /\ client.todo # << >>
  BY <1>7 DEF GInv
<1>9. /\ client.p = Seek /\ Stage(client.call, before, Done, qemu.ref) /\ s2c = << >>
      /\ \E b \in BOOLEAN : Ends(c2s, [Packet EXCEPT !.bad = b])
  BY <1>1, <1>4, <1>8 DEF AtAck
<1>10. PICK b \in BOOLEAN : Ends(c2s, [Packet EXCEPT !.bad = b])
  BY <1>9
<1>11. Packet \in Message /\ Packet.bad = FALSE /\ Packet.cmd \in {"s", "g", "G", "M"}
  BY <1>3, <1>8, Asked
<1>12. p = [Packet EXCEPT !.bad = b] /\ c2s' = << >>
  <2>1. Len(c2s) = 1
    BY <1>3, <1>10, EndsTail
  <2> QED
    BY <1>1, <1>3, <1>10, <2>1, EndsTail
<1>13. p.bad = b /\ (b = FALSE => p = Packet)
  BY <1>11, <1>12 DEF Message
<1>14. c2s' \in Seq(Message) /\ Pluses(c2s')
  <2>1. << >> \in Seq(Message)
    OBVIOUS
  <2> QED
    BY <1>12, <2>1, PlusesOf
<1>15. /\ client'.call = client.call /\ client'.todo = client.todo /\ client'.p = Seek
       /\ client'.ok = client.ok /\ client'.qemu_r = client.qemu_r /\ client'.pc = "ack"
  BY <1>1, <1>7, <1>9
<1>16. Done' = Done /\ Packet' = Packet
  BY <1>1, <1>15, Kept
<1>17. CASE b = TRUE
  <2>1. s2c' = Append(s2c, MINUS) /\ qemu' = qemu
    BY <1>2, <1>13, <1>17
  <2>2. s2c' \in Seq(Nat) /\ Len(s2c') = 1 /\ s2c'[1] # PLUS
    BY <1>9, <2>1 DEF MINUS, PLUS
  <2>3. AtAck'
    BY <1>1, <1>9, <1>14, <1>15, <1>16, <2>1, <2>2 DEF AtAck
  <2> QED
    BY <1>1, <1>3, <1>7, <1>14, <2>1, <2>2, <2>3, ServerSide
<1>18. CASE b = FALSE
  <2>1. p = Packet
    BY <1>13, <1>18
  <2>2. PICK e \in Encodings(Reply) :
             /\ s2c' = s2c \o <<PLUS>> \o Frame(e)
             /\ qemu' = [qemu EXCEPT !.ref = Executed(Packet, qemu.ref), !.last = Frame(e),
                                     !.hit = FALSE]
    BY <1>2, <1>13, <1>18, <2>1 DEF Reply
  <2>3. /\ Executed(Packet, qemu.ref) \in Reference
        /\ Stage(client.call, before, Done + 1, Executed(Packet, qemu.ref))
        /\ (Packet.cmd = "g" => Executed(Packet, qemu.ref) = qemu.ref)
    BY <1>3, <1>8, <1>9, Executes
  <2> DEFINE r == Executed(Packet, qemu.ref)
  <2> HIDE DEF r
  <2>4. IsText(Reply)
    BY <1>3, <1>8, Asking
  <2>5. e \in Seq(Nat)
    <3>1. Shape(e)
      BY <2>4, ShapeOf
    <3> QED
      BY <3>1 DEF Shape
  <2>6. Frame(e) \in Seq(Nat) /\ Len(Frame(e)) = Len(e) + 4 /\ Len(e) \in Nat
    BY <2>5, FrameIs
  <2>7. r \in Reference /\ qemu' = [qemu EXCEPT !.ref = r, !.last = Frame(e), !.hit = FALSE]
    BY <2>2, <2>3 DEF r
  <2>8. /\ qemu' \in Servers /\ qemu'.state = "listening" /\ qemu'.ref = r
        /\ qemu'.last = Frame(e)
    BY <1>1, <1>3, <2>6, <2>7 DEF Servers
  <2>9. Reply' = Reply
    <3>1. CASE Packet.cmd = "g"
      <4>1. qemu'.ref.regs = qemu.ref.regs
        BY <2>3, <2>8, <3>1 DEF r
      <4> QED
        BY <1>16, <4>1, ReplyKept
    <3>2. CASE Packet.cmd # "g"
      BY <1>16, <3>2 DEF Reply, ReplyTo, InMemory
    <3> QED
      BY <3>1, <3>2
  <2>10. Wire(Frame(e), 0) = Frame(e)
    BY DEF Wire
  <2>11. s2c' = <<PLUS>> \o Wire(Frame(e), 0) /\ s2c' \in Seq(Nat)
    <3> DEFINE f == Frame(e)
    <3>1. f \in Seq(Nat) /\ s2c' = s2c \o <<PLUS>> \o f
      BY <2>2, <2>6
    <3> HIDE DEF f
    <3>2. s2c' = <<PLUS>> \o f
      <4>1. << >> \o <<PLUS>> = <<PLUS>>
        BY DEF PLUS
      <4> QED
        BY <1>9, <3>1, <4>1
    <3>3. <<PLUS>> \o f \in Seq(Nat)
      BY <3>1 DEF PLUS
    <3> QED
      BY <2>10, <3>2, <3>3 DEF f
  <2>12. Sent(qemu', Reply', e, 0)
    <3>1. Hittable(Frame(e), 0) /\ 0 \in 0 .. Len(Frame(e))
      BY <2>6 DEF Hittable
    <3> QED
      BY <2>8, <2>9, <3>1 DEF Sent
  <2>13. 0 \in 0 .. Len(qemu'.last)
    BY <2>6, <2>8
  <2>14. Stage(client.call, before, Done + 1, qemu.ref)'
    BY <1>1, <1>16, <2>3, <2>8 DEF r
  <2>15. e \in Encodings(Reply')
    BY <2>9
  <2>16. AtAck'
    BY <1>14, <1>15, <2>11, <2>12, <2>13, <2>14, <2>15 DEF AtAck
  <2> QED
    BY <1>1, <1>3, <1>7, <1>14, <2>8, <2>11, <2>16, ServerSide
<1> QED
  BY <1>17, <1>18

\* Whatever QEMU is sent.
LEMMA ServeKeeps ==
  ASSUME GInv, Serve
  PROVE  GInv'
BY ServePlus, ServeMinus, ServeCommand

\* A damaged reply.
LEMMA DamageReplyKeeps ==
  ASSUME GInv, DamageReply
  PROVE  GInv'
<1>1. TypeOK /\ c2s \in Seq(Message) /\ qemu \in Servers /\ s2c \in Seq(Nat)
  BY Fields DEF GInv, TypeOK
<1>2. /\ client' = client /\ before' = before /\ c2s' = c2s
      /\ qemu.hit = FALSE /\ qemu' = [qemu EXCEPT !.hit = TRUE]
  BY <1>1, Fields DEF DamageReply
<1>3. PICK j \in DOMAIN s2c : /\ {s2c[j], s2c[j] + 1} \cap {DOLLAR, HASH, PLUS} = {}
                              /\ s2c' = [s2c EXCEPT ![j] = s2c[j] + 1]
  BY DEF DamageReply
<1>4. /\ qemu' \in Servers /\ qemu'.state = qemu.state /\ qemu'.ref = qemu.ref
      /\ qemu'.last = qemu.last /\ qemu'.hit = TRUE
  BY <1>1, <1>2 DEF Servers
<1>5. j \in 1 .. Len(s2c) /\ s2c # << >> /\ s2c[j] \in Nat
  BY <1>1, <1>3
<1>6. /\ s2c' \in Seq(Nat) /\ Len(s2c') = Len(s2c)
      /\ \A i \in 1 .. Len(s2c) : s2c'[i] = IF i = j THEN s2c[j] + 1 ELSE s2c[i]
  <2>1. s2c[j] + 1 \in Nat
    BY <1>5
  <2> QED
    BY <1>1, <1>3, <1>5, <2>1, ExceptSeq
<1>7. /\ client'.call = client.call /\ client'.todo = client.todo /\ client'.p = client.p
      /\ client'.ok = client.ok /\ client'.qemu_r = client.qemu_r
  BY <1>2
<1>8. Done' = Done /\ Packet' = Packet
  BY <1>2, <1>7, Kept
<1>9. Reply' = Reply
  BY <1>4, <1>8, ReplyKept
\* the frame that lies there was whole
<1>10. ASSUME NEW e, NEW k, Sent(qemu, Reply, e, k), IsText(Reply)
       PROVE  /\ k = 0 /\ Wire(Frame(e), k) = Frame(e) /\ Shape(e) /\ e \in Encodings(Reply)
              /\ qemu.last = Frame(e) /\ Frame(e) \in Seq(Nat)
  <2>1. k = 0
    BY <1>2, <1>10 DEF Sent
  <2>2. /\ Shape(e) /\ e \in Encodings(Reply) /\ qemu.last = Frame(e) /\ Frame(e) \in Seq(Nat)
    BY <1>10, SentIs
  <2> QED
    BY <2>1, <2>2 DEF Wire
<1>11. ASSUME NEW e, e \in Encodings(Reply), qemu.last = Frame(e), NEW i \in 1 .. Len(Frame(e)),
              Frame(e)[i] = s2c[j], Frame(e) \in Seq(Nat)
       PROVE  Sent(qemu', Reply', e, i)
  <2>1. i \in 0 .. Len(Frame(e)) /\ i \in DOMAIN Frame(e)
    BY <1>11
  <2>2. Hittable(Frame(e), i)
    BY <1>3, <1>11, <2>1 DEF Hittable
  <2> QED
    BY <1>4, <1>9, <1>11, <2>1, <2>2 DEF Sent
<1>12. ASSUME client.pc = "ack" PROVE AtAck'
  <2>1. AtAck /\ Calling /\ client.todo # << >>
    BY <1>12 DEF GInv
  <2>2. IsText(Reply)
    BY <1>1, <2>1, Asking
  <2>3. CASE /\ Stage(client.call, before, Done, qemu.ref)
             /\ Len(s2c) = 1 /\ s2c[1] # PLUS /\ Pluses(c2s)
    <3>1. j = 1
      BY <1>5, <2>3
    <3>2. s2c'[1] = s2c[1] + 1 /\ s2c[1] + 1 # PLUS
      BY <1>3, <1>5, <1>6, <3>1
    <3>3. Len(s2c') = 1 /\ s2c'[1] # PLUS
      BY <1>6, <2>3, <3>2
    <3> QED
      BY <1>2, <1>4, <1>7, <1>8, <2>1, <2>3, <3>3 DEF AtAck
  <2>4. CASE /\ Stage(client.call, before, Done + 1, qemu.ref) /\ Pluses(c2s)
             /\ \E e \in Encodings(Reply), k \in 0 .. Len(qemu.last) :
                  Sent(qemu, Reply, e, k) /\ s2c = <<PLUS>> \o Wire(Frame(e), k)
    <3>1. PICK e \in Encodings(Reply), k \in 0 .. Len(qemu.last) :
                  Sent(qemu, Reply, e, k) /\ s2c = <<PLUS>> \o Wire(Frame(e), k)
      BY <2>4
    <3> DEFINE f == Frame(e)
    <3>2. /\ s2c = <<PLUS>> \o f /\ e \in Encodings(Reply) /\ qemu.last = f /\ f \in Seq(Nat)
      BY <1>10, <2>2, <3>1
    <3> HIDE DEF f
    <3>3. Len(s2c) = Len(f) + 1 /\ s2c[1] = PLUS /\ \A i \in 1 .. Len(f) : s2c[i + 1] = f[i]
      BY <3>2 DEF PLUS
    <3>4. j # 1
      BY <1>3, <3>3
    <3>5. j - 1 \in 1 .. Len(f) /\ f[j - 1] = s2c[j] /\ j - 1 \in 0 .. Len(f) /\ j - 1 # 0
      BY <1>5, <3>2, <3>3, <3>4
    <3>6. Sent(qemu', Reply', e, j - 1)
      BY <1>11, <3>2, <3>5 DEF f
    <3>7. /\ Wire(f, j - 1) \in Seq(Nat) /\ Len(Wire(f, j - 1)) = Len(f)
          /\ \A i \in 1 .. Len(f) : Wire(f, j - 1)[i] = f[i] + (IF i = j - 1 THEN 1 ELSE 0)
      BY <3>2, <3>5, WireIs
    <3>8. s2c' = <<PLUS>> \o Wire(f, j - 1)
      <4> DEFINE w == Wire(f, j - 1)
                 t == <<PLUS>> \o w
      <4> HIDE DEF w
      <4>1. w \in Seq(Nat) /\ Len(w) = Len(f)
        BY <3>7 DEF w
      <4>2. /\ t \in Seq(Nat) /\ Len(t) = Len(w) + 1 /\ t[1] = PLUS
            /\ \A i \in 1 .. Len(w) : t[i + 1] = w[i]
        BY <4>1 DEF PLUS
      <4> HIDE DEF t
      <4>3. Len(t) = Len(s2c') /\ Len(f) \in Nat /\ Len(s2c') = Len(f) + 1
        BY <1>6, <3>2, <3>3, <4>1, <4>2
      <4>4. ASSUME NEW i \in 1 .. Len(s2c') PROVE s2c'[i] = t[i]
        <5>1. CASE i = 1
          <6>1. s2c'[1] = PLUS
            BY <1>5, <1>6, <3>3, <3>4, <4>3, <4>4, <5>1
          <6> QED
            BY <4>2, <5>1, <6>1
        <5>2. CASE i # 1
          <6>1. i - 1 \in 1 .. Len(f) /\ (i - 1) + 1 = i /\ i \in 1 .. Len(s2c)
            BY <1>6, <4>3, <4>4, <5>2
          <6>2. t[i] = w[i - 1] /\ s2c[i] = f[i - 1]
            BY <3>3, <4>1, <4>2, <6>1
          <6>3. w[i - 1] = f[i - 1] + (IF i - 1 = j - 1 THEN 1 ELSE 0)
            BY <3>7, <6>1 DEF w
          <6>4. s2c'[i] = IF i = j THEN s2c[j] + 1 ELSE s2c[i]
            BY <1>6, <6>1
          <6>5. f[i - 1] \in Nat
            BY <3>2, <6>1, ElementOfSeq
          <6> QED
            BY <1>5, <6>1, <6>2, <6>3, <6>4, <6>5
        <5> QED
          BY <5>1, <5>2
      <4>5. s2c' = t
        BY <1>6, <4>2, <4>3, <4>4, SeqEqual
      <4> QED
        BY <4>5 DEF t, w
    <3>9. e \in Encodings(Reply') /\ j - 1 \in 0 .. Len(qemu'.last)
      BY <1>4, <1>9, <3>2, <3>5
    <3>10. Stage(client.call, before, Done + 1, qemu.ref)' /\ Pluses(c2s')
      BY <1>2, <1>4, <1>8, <2>4
    <3>11. client'.p = Seek
      BY <1>7, <2>1 DEF AtAck
    <3> QED
      BY <3>6, <3>8, <3>9, <3>10, <3>11 DEF AtAck, f
  <2> QED
    BY <1>5, <2>1, <2>3, <2>4 DEF AtAck
<1>13. ASSUME client.pc = "recv" PROVE AtRecv'
  <2>1. AtRecv /\ Calling /\ client.todo # << >>
    BY <1>13 DEF GInv
  <2>2. IsText(Reply)
    BY <1>1, <2>1, Asking
  <2>3. /\ Stage(client.call, before, Done + 1, qemu.ref) /\ Pluses(c2s)
        /\ \E e \in Encodings(Reply), k \in 0 .. Len(qemu.last),
              n \in 0 .. Len(qemu.last) - 1 :
             /\ Sent(qemu, Reply, e, k) /\ s2c = SubSeq(Wire(Frame(e), k), n + 1, Len(Frame(e)))
             /\ Taken(Reply, e, k, n, client.p)
    BY <1>5, <2>1 DEF AtRecv
  <2>4. PICK e \in Encodings(Reply), k \in 0 .. Len(qemu.last), n \in 0 .. Len(qemu.last) - 1 :
             /\ Sent(qemu, Reply, e, k) /\ s2c = SubSeq(Wire(Frame(e), k), n + 1, Len(Frame(e)))
             /\ Taken(Reply, e, k, n, client.p)
    BY <2>3
  <2> DEFINE f == Frame(e)
             F == Len(f)
             x == n + j
  <2>5. /\ s2c = SubSeq(f, n + 1, F) /\ Taken(Reply, e, 0, n, client.p)
        /\ Shape(e) /\ e \in Encodings(Reply) /\ qemu.last = f /\ f \in Seq(Nat)
    BY <1>10, <2>2, <2>4
  <2> HIDE DEF f, F
  <2>6. F \in Nat /\ n \in 0 .. F - 1
    BY <2>4, <2>5 DEF F
  <2>7. Len(s2c) = F - n /\ \A i \in 1 .. F - n : s2c[i] = f[n + i]
    <3>1. n + 1 \in 1 .. F + 1 /\ F \in n .. F /\ (n + 1) - 1 = n
      BY <2>6
    <3>2. Len(s2c) = F - n
      <4>1. Len(SubSeq(f, n + 1, F)) = F - (n + 1) + 1
        BY <2>5, <2>6, <3>1 DEF F
      <4> QED
        BY <2>5, <2>6, <4>1
    <3>3. \A i \in 1 .. F - n : s2c[i] = f[n + i]
      BY <2>5, <2>6, <3>1 DEF F
    <3> QED
      BY <3>2, <3>3
  <2>8. /\ x \in n + 1 .. F /\ x \in 1 .. F /\ x \in 0 .. F /\ f[x] = s2c[j] /\ n \in Nat
        /\ j \in 1 .. F - n
    <3>1. j \in 1 .. F - n /\ n \in Nat
      BY <1>5, <2>6, <2>7
    <3>2. f[n + j] = s2c[j]
      BY <2>7, <3>1
    <3> QED
      BY <2>6, <3>1, <3>2
  <2> HIDE DEF x
  <2>9. Sent(qemu', Reply', e, x)
    BY <1>11, <2>5, <2>8 DEF f, F
  <2>10. Taken(Reply, e, x, n, client.p)
    BY <2>5, <2>8, TakenBefore DEF f, F
  <2> DEFINE w == Wire(f, x)
             t == SubSeq(w, n + 1, F)
  <2>11. /\ w \in Seq(Nat) /\ Len(w) = F
         /\ \A i \in 1 .. F : w[i] = f[i] + (IF i = x THEN 1 ELSE 0)
    BY <2>5, <2>8, WireIs DEF F
  <2> HIDE DEF w
  <2>12. t \in Seq(Nat) /\ Len(t) = F - n /\ \A i \in 1 .. F - n : t[i] = w[n + i]
    <3>1. n + 1 \in 1 .. F + 1 /\ F \in n .. F /\ (n + 1) - 1 = n
      BY <2>6
    <3>2. Len(t) = F - n
      <4>1. Len(SubSeq(w, n + 1, F)) = F - (n + 1) + 1
        BY <2>6, <2>11, <3>1
      <4> QED
        BY <2>6, <4>1
    <3>3. \A i \in 1 .. F - n : t[i] = w[n + i]
      BY <2>6, <2>11, <3>1
    <3>4. t \in Seq(Nat)
      BY <2>6, <2>11, <3>1
    <3> QED
      BY <3>2, <3>3, <3>4
  <2> HIDE DEF t
  <2>13. s2c' = t
    <3>1. Len(s2c') = Len(t)
      BY <1>6, <2>7, <2>12
    <3>2. ASSUME NEW i \in 1 .. Len(s2c') PROVE s2c'[i] = t[i]
      <4>1. i \in 1 .. F - n /\ i \in 1 .. Len(s2c)
        BY <1>6, <2>7, <3>2
      <4>2. n + i \in 1 .. F /\ (n + i = x <=> i = j)
        BY <2>6, <2>8, <4>1 DEF x
      <4>3. t[i] = f[n + i] + (IF n + i = x THEN 1 ELSE 0) /\ s2c[i] = f[n + i]
        BY <2>7, <2>11, <2>12, <4>1, <4>2
      <4>4. s2c'[i] = IF i = j THEN s2c[j] + 1 ELSE s2c[i]
        BY <1>6, <4>1
      <4>5. f[n + i] \in Nat
        BY <2>5, <4>2, ElementOfSeq DEF F
      <4> QED
        BY <1>5, <4>2, <4>3, <4>4, <4>5
    <3> QED
      BY <1>6, <2>12, <3>1, <3>2, SeqEqual
  <2>14. /\ e \in Encodings(Reply') /\ x \in 0 .. Len(qemu'.last)
         /\ n \in 0 .. Len(qemu'.last) - 1 /\ client'.p = client.p
    BY <1>4, <1>7, <1>9, <2>5, <2>6, <2>8 DEF F
  <2>15. Stage(client.call, before, Done + 1, qemu.ref)' /\ Pluses(c2s')
    BY <1>2, <1>4, <1>8, <2>3
  <2>16. s2c' = SubSeq(Wire(Frame(e), x), n + 1, Len(Frame(e)))
    BY <2>13 DEF t, w, f, F
  <2>17. Taken(Reply', e, x, n, client'.p)
    BY <1>9, <2>10, <2>14
  <2> QED
    BY <2>9, <2>14, <2>15, <2>16, <2>17 DEF AtRecv
<1>14. ~AtSend
  BY <1>5 DEF AtSend
<1>15. client.pc = "exit" => qemu'.state = "dead" \/ Pluses(c2s')
  BY <1>2, <1>4 DEF GInv
<1>16. client.pc = "connect" => qemu'.state # "dead"
  BY <1>4 DEF GInv
<1>17. Stage(client.call, before, Done, qemu.ref) => Stage(client.call, before, Done, qemu'.ref)
  BY <1>4
<1> QED
  BY <1>1, <1>2, <1>4, <1>6, <1>12, <1>13, <1>14, <1>15, <1>16, <1>17, ServerSide

\* The invariant holds at first,
LEMMA InitGInv ==
  ASSUME Init
  PROVE  GInv
<1>1. /\ client = [pc |-> "connect", call |-> NoCall, todo |-> << >>, ok |-> TRUE,
                   qemu_r |-> <<0, 0>>, ret |-> 0, reset |-> FALSE, p |-> Seek]
      /\ c2s = << >> /\ s2c = << >>
      /\ qemu = [state |-> "starting", last |-> << >>, hit |-> FALSE,
                 ref |-> [regs |-> <<0, 0>>, mem |-> [a \in 0 .. MemSize - 1 |-> 0]]]
      /\ before = qemu.ref
  BY DEF Init
<1>2. << >> \in Seq(Message) /\ << >> \in Seq(Nat) /\ << >> \in Seq(Command)
  OBVIOUS
<1>3. <<0, 0>> \in Reg \X Reg /\ 0 \in Reg /\ 0 \in Byte
  BY DEF Reg, Byte
<1>4. Seek \in Parser
  BY <1>2, <1>3 DEF Seek, Start, Parser
<1>5. [regs |-> <<0, 0>>, mem |-> [a \in 0 .. MemSize - 1 |-> 0]] \in Reference
  BY <1>3 DEF Reference
<1> DEFINE r == [regs |-> <<0, 0>>, mem |-> [a \in 0 .. MemSize - 1 |-> 0]]
<1> HIDE DEF r
<1>6. qemu = [state |-> "starting", last |-> << >>, hit |-> FALSE, ref |-> r] /\ r \in Reference
  BY <1>1, <1>5 DEF r
<1>7. client \in Clients
  BY <1>1, <1>2, <1>3, <1>4 DEF Clients
<1>8. qemu \in Servers /\ qemu.ref \in Reference /\ qemu.state = "starting"
  BY <1>2, <1>6 DEF Servers
<1>9. TypeOK
  BY <1>1, <1>2, <1>7, <1>8 DEF TypeOK
<1>10. AtSend
  BY <1>1, <1>2, PlusesOf DEF AtSend
<1>11. /\ client.pc = "connect" /\ client.call = NoCall /\ client.ok = TRUE
       /\ client.reset = FALSE
  BY <1>1
<1> QED
  BY <1>8, <1>9, <1>10, <1>11 DEF GInv

\* and when nothing happens,
LEMMA StutterKeeps ==
  ASSUME GInv, UNCHANGED vars
  PROVE  GInv'
<1>1. /\ client' = client /\ c2s' = c2s /\ s2c' = s2c /\ qemu' = qemu /\ before' = before
  BY DEF vars
<1>2. TypeOK' /\ (AtSend => AtSend')
  BY <1>1 DEF GInv, TypeOK, AtSend
<1>3. Done' = Done /\ Packet' = Packet
  BY <1>1, Kept
<1>4. Reply' = Reply
  BY <1>1, <1>3, ReplyKept
<1>5. AtAck => AtAck'
  BY <1>1, <1>3, <1>4 DEF AtAck
<1>6. AtRecv => AtRecv'
  BY <1>1, <1>3, <1>4 DEF AtRecv
<1>7. c2s \in Seq(Message) /\ s2c \in Seq(Nat) /\ qemu \in Servers
  BY DEF GInv, TypeOK
<1>8. (client.pc = "ack" => AtAck') /\ (client.pc = "recv" => AtRecv')
  BY <1>5, <1>6 DEF GInv
<1>9. /\ client.pc = "connect" => qemu'.state # "dead"
      /\ client.pc = "exit" => qemu'.state = "dead" \/ Pluses(c2s')
  BY <1>1 DEF GInv
<1> QED
  BY <1>1, <1>2, <1>7, <1>8, <1>9, ServerSide

\* and after every step.
LEMMA NextGInv ==
  ASSUME GInv, [Next]_vars
  PROVE  GInv'
<1>1. CASE Client
  BY <1>1, ConnectKeeps, SendKeeps, SigpipeKeeps, GetAckKeeps, RecvCharKeeps, RecvEofKeeps,
     ReturnKeeps DEF Client
<1>2. CASE UNCHANGED vars
  BY <1>2, StutterKeeps
<1> QED
  BY <1>1, <1>2, InvokeKeeps, ListenKeeps, ServeKeeps, DamageCommandKeeps, DamageReplyKeeps,
     CrashKeeps DEF Next

(* What the client holds, what lies in the connection and how far QEMU is  *)
(* with the call always fit together (gdb_send, gdb_recv).                 *)
THEOREM Invariance == Spec => []GInv
BY InitGInv, NextGInv, PTL DEF Spec
\* A call after all of its commands did what it should.
LEMMA Finished ==
  ASSUME NEW c \in Calls, NEW b \in Reference, NEW r \in Reference,
         Stage(c, b, Len(Commands(c)), r),
         c.op = "memcpy" => AllFit(c, Len(Commands(c)))
  PROVE  r = Ref!Apply(c, b)
<1> DEFINE n == Len(Commands(c))
<1>1. /\ b = [regs |-> b.regs, mem |-> b.mem] /\ b.mem \in [0 .. MemSize - 1 -> Byte]
      /\ r = [regs |-> r.regs, mem |-> r.mem] /\ r.mem \in [0 .. MemSize - 1 -> Byte]
  BY DEF Reference
<1>2. CASE c.op = "exec" /\ c.n \in Nat
  <2>1. n = c.n
    BY <1>2, CommandsIs
  <2>2. r = [b EXCEPT !.regs = <<(b.regs[1] + n) % 65536, (b.regs[2] + n) % 65536>>]
    BY <1>2 DEF Stage
  <2>3. r = [b EXCEPT !.regs = Ref!Steps(c.n, b.regs)]
    BY <2>1, <2>2 DEF Ref!Steps
  <2> QED
    BY <1>2, <2>3 DEF Ref!Apply
<1>3. CASE c.op = "memcpy" /\ c.addr \in Nat /\ c.buf \in Seq(Byte)
  <2>1. n = Chunks(Len(c.buf)) /\ Moved(c, n) = Len(c.buf)
    <3>1. n = Chunks(Len(c.buf))
      BY <1>3, ChunkIs
    <3>2. n \in Nat
      BY CommandsIs
    <3>3. Moved(c, Chunks(Len(c.buf))) = Len(c.buf)
      BY <1>3, <3>1, <3>2, MovedIs
    <3> QED
      BY <3>1, <3>3
  <2> HIDE DEF n
  <2>2. Stage(c, b, n, r) /\ AllFit(c, n)
    BY <1>3 DEF n
  <2>3. /\ r.regs = b.regs
        /\ \A a \in 0 .. MemSize - 1 :
             r.mem[a] = IF a \in c.addr .. c.addr + Len(c.buf) - 1
                        THEN c.buf[a - c.addr + 1] ELSE b.mem[a]
    BY <1>3, <2>1, <2>2 DEF Stage
  <2> DEFINE f == [a \in DOMAIN b.mem |-> IF a \in c.addr .. c.addr + Len(c.buf) - 1
                                          THEN c.buf[a - c.addr + 1] ELSE b.mem[a]]
  <2>4. r.mem = f
    BY <1>1, <2>3
  <2>5. r = [b EXCEPT !.mem = f]
    <3> HIDE DEF f
    <3> QED
      BY <1>1, <2>3, <2>4
  <2>6. Ref!Apply(c, b) = [b EXCEPT !.mem = f]
    BY <1>3 DEF Ref!Apply
  <2> QED
    BY <2>5, <2>6
<1>4. CASE c.op = "to_ref"
  <2>1. n = 2
    BY <1>4, CommandsIs
  <2>2. Stage(c, b, 2, r)
    BY <2>1
  <2>3. r = [b EXCEPT !.regs = <<c.pc, b.regs[2]>>]
    BY <1>4, <2>2 DEF Stage
  <2> QED
    BY <1>4, <2>3 DEF Ref!Apply
<1>5. CASE c.op = "to_dut"
  <2>1. r = b
    BY <1>5 DEF Stage
  <2> QED
    BY <1>5, <2>1 DEF Ref!Apply
<1> QED
  BY <1>2, <1>3, <1>4, <1>5, CallIs

-----------------------------------------------------------------------------
\* The client implements the interface of difftest-def.h.

\* A client beyond idle has a call.
LEMMA Busy ==
  ASSUME GInv, client.pc \notin {"connect", "idle"}
  PROVE  client.call \in Calls /\ client.call # NoCall
<1>1. client.call \in Calls
  BY DEF GInv, TypeOK, Clients, Calling
<1> QED
  BY <1>1, CallIs

\* A call under way changes nothing that can be seen.
LEMMA Hidden ==
  ASSUME client'.call = client.call, client'.ret = client.ret,
         client.pc # "exit" <=> client'.pc # "exit",
         client.call = NoCall => qemu'.ref = qemu.ref,
         client.call # NoCall => before' = before
  PROVE  [Ref!Next]_Ref!vars
BY DEF Ref!vars

\* The emulator ends.
LEMMA Dies ==
  ASSUME client.pc # "exit", client'.pc = "exit", client'.call = client.call,
         client'.ret = client.ret, qemu'.ref = qemu.ref, before' = before
  PROVE  [Ref!Next]_Ref!vars
<1>1. Ref!Die
  BY DEF Ref!Die
<1> QED
  BY <1>1 DEF Ref!Next

\* A call begins.
LEMMA InvokeIs ==
  ASSUME GInv, Invoke
  PROVE  [Ref!Next]_Ref!vars
<1>1. client.call = NoCall /\ client \in Clients /\ client.pc = "idle"
  BY DEF GInv, Invoke, TypeOK
<1>2. PICK c \in Calls :
        client' = [client EXCEPT !.call = c, !.todo = Commands(c),
                                 !.pc = IF Commands(c) = << >> THEN "return" ELSE "send"]
  BY DEF Invoke
<1>3. client'.call = c /\ client'.ret = client.ret /\ client'.pc # "exit"
  BY <1>1, <1>2 DEF Clients
<1>4. before' = qemu.ref /\ c # NoCall
  BY CallIs DEF Invoke
<1>5. Ref!Invoke
  BY <1>1, <1>3, <1>4 DEF Ref!Invoke
<1> QED
  BY <1>5 DEF Ref!Next

\* A call returns: it did what it should and returns what it should, or the emulator ends.
LEMMA ReturnIs ==
  ASSUME GInv, Return
  PROVE  [Ref!Next]_Ref!vars
<1> DEFINE c == client.call
<1>1. /\ client.pc = "return" /\ client \in Clients /\ Calling /\ client.todo = << >>
      /\ Stage(c, before, Done, qemu.ref) /\ TypeOK
  BY DEF GInv, Return, TypeOK
<1>2. before' = before /\ qemu' = qemu
  BY DEF Return
<1>3. c \in Calls /\ c # NoCall /\ qemu.ref \in Reference /\ before \in Reference
  BY <1>1, CallIs, Fields DEF Calling
<1>4. CASE c.op = "memcpy" /\ ~client.ok
  <2>1. client' = [client EXCEPT !.pc = "exit"]
    BY <1>4 DEF Return
  <2>2. client'.pc = "exit" /\ client'.call = client.call /\ client'.ret = client.ret
    BY <1>1, <2>1 DEF Clients
  <2> QED
    BY <1>1, <1>2, <2>2, Dies
<1>5. CASE ~(c.op = "memcpy" /\ ~client.ok)
  <2> DEFINE x == IF c.op = "to_dut" THEN client.qemu_r[1] ELSE 0
             n == Len(Commands(c))
  <2>1. client' = [client EXCEPT !.pc = "idle", !.call = NoCall, !.ret = x, !.qemu_r = <<0, 0>>]
    BY <1>5 DEF Return
  <2>2. client'.pc = "idle" /\ client'.call = NoCall /\ client'.ret = x
    <3> HIDE DEF x
    <3> QED
      BY <1>1, <2>1 DEF Clients
  <2>3. Done = n
    <3>1. n \in Nat
      BY <1>3, CommandsIs
    <3>2. Done = n - Len(client.todo)
      BY DEF Done, Count
    <3>3. Len(client.todo) = 0
      BY <1>1
    <3> HIDE DEF n
    <3> QED
      BY <3>1, <3>2, <3>3
  <2>4. c.op = "memcpy" => AllFit(c, n)
    <3>1. SUFFICES ASSUME c.op = "memcpy" PROVE AllFit(c, n)
      OBVIOUS
    <3>2. client.ok = TRUE
      BY <1>1, <1>5, <3>1, Fields
    <3> QED
      BY <1>1, <2>3, <3>1, <3>2 DEF Calling
  <2>5. qemu.ref = Ref!Apply(c, before)
    BY <1>1, <1>3, <2>3, <2>4, Finished
  <2>6. x = Ref!Result(c, before)
    <3>1. CASE c.op = "to_dut"
      <4>1. Commands(c) = <<gdb_getregs>>
        BY <1>3, <3>1, CommandsIs
      <4>2. n = 1
        BY <4>1
      <4>3. Done >= 1
        BY <2>3, <4>2
      <4>4. client.qemu_r = before.regs
        BY <1>1, <3>1, <4>3 DEF Calling
      <4> QED
        BY <3>1, <4>4 DEF Ref!Result
    <3>2. CASE c.op # "to_dut"
      BY <3>2 DEF Ref!Result
    <3> QED
      BY <3>1, <3>2
  <2> HIDE DEF x, n
  <2>7. Ref!Return
    BY <1>1, <1>2, <1>3, <2>2, <2>5, <2>6 DEF Ref!Return
  <2> QED
    BY <2>7 DEF Ref!Next
<1> QED
  BY <1>4, <1>5

\* No other step of the client is seen, or it is the end.
LEMMA ClientIs ==
  ASSUME GInv, Client
  PROVE  [Ref!Next]_Ref!vars
<1>1. client \in Clients
  BY DEF GInv, TypeOK
<1>2. CASE Connect
  <2>1. /\ client.pc = "connect" /\ client' = [client EXCEPT !.pc = "idle"]
        /\ qemu' = qemu /\ before' = before
    BY <1>2 DEF Connect
  <2>2. client'.pc = "idle" /\ client'.call = client.call /\ client'.ret = client.ret
    BY <1>1, <2>1 DEF Clients
  <2> QED
    BY <2>1, <2>2, Hidden
<1>3. CASE send_packet
  <2>1. /\ client.pc = "send" /\ qemu' = qemu /\ before' = before
        /\ \/ client' = [client EXCEPT !.pc = "ack", !.reset = TRUE]
           \/ client' = [client EXCEPT !.pc = "ack"]
    BY <1>3 DEF send_packet
  <2>2. client'.pc = "ack" /\ client'.call = client.call /\ client'.ret = client.ret
    BY <1>1, <2>1 DEF Clients
  <2> QED
    BY <2>1, <2>2, Hidden
<1>4. CASE sigpipe
  <2>1. /\ client.pc = "send" /\ client' = [client EXCEPT !.pc = "exit"]
        /\ qemu' = qemu /\ before' = before
    BY <1>4 DEF sigpipe
  <2>2. client'.pc = "exit" /\ client'.call = client.call /\ client'.ret = client.ret
    BY <1>1, <2>1 DEF Clients
  <2> QED
    BY <2>1, <2>2, Dies
<1>5. CASE recv_eof
  <2>1. /\ client.pc = "recv" /\ client' = [client EXCEPT !.pc = "exit"]
        /\ qemu' = qemu /\ before' = before
    BY <1>5 DEF recv_eof
  <2>2. client'.pc = "exit" /\ client'.call = client.call /\ client'.ret = client.ret
    BY <1>1, <2>1 DEF Clients
  <2> QED
    BY <2>1, <2>2, Dies
<1>6. CASE get_ack
  <2>1. /\ client.pc = "ack" /\ qemu' = qemu /\ before' = before
        /\ \E c \in {Head(s2c), -1} : client' = [client EXCEPT !.pc = gdb_send_ack(c)]
    BY <1>6 DEF get_ack
  <2>2. PICK c \in {Head(s2c), -1} : client' = [client EXCEPT !.pc = gdb_send_ack(c)]
    BY <2>1
  <2>3. gdb_send_ack(c) # "exit"
    BY DEF gdb_send_ack
  <2>4. client'.pc # "exit" /\ client'.call = client.call /\ client'.ret = client.ret
    BY <1>1, <2>2, <2>3 DEF Clients
  <2> QED
    BY <2>1, <2>4, Hidden
<1>7. CASE recv_char
  <2> DEFINE p == RecvChar(client.p, Head(s2c))
  <2>1. /\ client.pc = "recv" /\ qemu' = qemu /\ before' = before
        /\ \/ client' = [client EXCEPT !.p = p]
           \/ client' = [client EXCEPT !.p = Seek]
           \/ client' = [AfterReply(p.reply) EXCEPT !.p = Seek]
    BY <1>7 DEF recv_char
  <2> HIDE DEF p
  <2>2. CASE client' = [client EXCEPT !.p = p] \/ client' = [client EXCEPT !.p = Seek]
    <3>1. client'.pc = "recv" /\ client'.call = client.call /\ client'.ret = client.ret
      BY <1>1, <2>1, <2>2 DEF Clients
    <3> QED
      BY <2>1, <3>1, Hidden
  <2>3. CASE client' = [AfterReply(p.reply) EXCEPT !.p = Seek]
    <3> DEFINE r == p.reply
               ok == client.ok /\ (Head(client.todo).cmd = "M" => r = OK)
               q == IF Head(client.todo).cmd = "g" THEN DecodeRegs(r) ELSE client.qemu_r
               d == [client EXCEPT !.todo = Tail(client.todo), !.ok = ok, !.qemu_r = q]
               z == IF d.todo # << >> THEN "send" ELSE "return"
    <3>1. AfterReply(r) = [d EXCEPT !.pc = z]
      BY DEF AfterReply
    <3>2. z # "exit"
      OBVIOUS
    <3> HIDE DEF z, ok, q, r
    <3>3. client' = [[d EXCEPT !.pc = z] EXCEPT !.p = Seek]
      BY <2>3, <3>1 DEF r
    <3>4. client'.pc = z /\ client'.call = client.call /\ client'.ret = client.ret
      BY <1>1, <3>3 DEF Clients
    <3> QED
      BY <2>1, <3>2, <3>4, Hidden
  <2> QED
    BY <2>1, <2>2, <2>3
<1>8. CASE Return
  BY <1>8, ReturnIs
<1> QED
  BY <1>2, <1>3, <1>4, <1>5, <1>6, <1>7, <1>8 DEF Client

\* Nothing QEMU does is seen.
LEMMA ServerIs ==
  ASSUME GInv, Listen \/ Serve \/ DamageCommand \/ DamageReply \/ Crash
  PROVE  [Ref!Next]_Ref!vars
<1>1. client' = client /\ before' = before
  BY DEF Listen, Serve, DamageCommand, DamageReply, Crash
<1>2. ASSUME client.call = NoCall PROVE qemu'.ref = qemu.ref
  <2>1. qemu \in Servers /\ c2s \in Seq(Message)
    BY DEF GInv, TypeOK
  <2>2. CASE Serve
    <3>1. Pluses(c2s)
      BY <1>2, Busy DEF GInv, AtSend
    <3>2. c2s # << >>
      BY <2>2 DEF Serve
    <3>3. Head(c2s).cmd = "+"
      BY <2>1, <3>1, <3>2, PlusesOf
    <3> QED
      BY <2>2, <3>3 DEF Serve
  <2>3. CASE Listen \/ DamageCommand \/ DamageReply \/ Crash
    BY <2>1, <2>3 DEF Listen, DamageCommand, DamageReply, Crash, Servers
  <2> QED
    BY <2>2, <2>3
<1> QED
  BY <1>1, <1>2, Hidden

\* Every step maps to a step of the interface or a stutter.
LEMMA StepImplements ==
  ASSUME GInv, [Next]_vars
  PROVE  [Ref!Next]_Ref!vars
<1>1. CASE UNCHANGED vars
  BY <1>1, Hidden DEF vars
<1> QED
  BY <1>1, InvokeIs, ClientIs, ServerIs DEF Next

\* The initial states map to initial states.
LEMMA InitImplements ==
  ASSUME Init
  PROVE  Ref!Init
<1>1. /\ client.pc = "connect" /\ client.call = NoCall /\ client.ret = 0
      /\ qemu.ref = [regs |-> <<0, 0>>, mem |-> [a \in 0 .. MemSize - 1 |-> 0]]
  BY DEF Init
<1>2. qemu.ref.regs = <<0, 0>> /\ \A a \in DOMAIN qemu.ref.mem : qemu.ref.mem[a] = 0
  BY <1>1
<1> QED
  BY <1>1, <1>2 DEF Ref!Init

(* Each call acts on the reference exactly once and returns what it        *)
(* should, or the emulator ends - for every set of calls, packet size and  *)
(* memory, however often gdb_send and gdb_recv have to try, and wherever   *)
(* QEMU dies.  ImplementsReference asks, beyond that, only that calls end. *)
THEOREM EveryCallOnce ==
  Spec => /\ Ref!Init /\ [][Ref!Next]_Ref!vars
          /\ Ref!CallsEnd => ImplementsReference
<1>1. Spec => Ref!Init /\ [][Ref!Next]_Ref!vars
  BY InitImplements, StepImplements, Invariance, PTL DEF Spec
<1> QED
  BY <1>1, PTL DEF ImplementsReference, Ref!Spec
=============================================================================
