-------------------------- MODULE KeyboardProofs --------------------------
(***************************************************************************)
(* For every ring length and every key map: the keyboard ring is typed,    *)
(* never hands the guest an unfilled slot, and implements the bounded FIFO *)
(* of KeyFifo.                                                             *)
(***************************************************************************)
EXTENDS Keyboard, Integers, SequenceTheorems, TLAPS

\* The remainder of a number below the modulus.
LEMMA ModBelow ==
  ASSUME NEW n \in Nat, n > 0, NEW a \in 0 .. n - 1
  PROVE  a % n = a
BY SMT

\* The remainder of a number between the modulus and twice the modulus.
LEMMA ModOnce ==
  ASSUME NEW n \in Nat, n > 0, NEW a \in n .. 2 * n - 1
  PROVE  a % n = a - n
BY SMT

\* Advancing an index stays in the ring and wraps at its end only
\* (key_enqueue and key_dequeue, keyboard.c:54 and 62).
LEMMA SuccProperties ==
  ASSUME NEW i \in Slots
  PROVE  Succ(i) \in Slots /\ Succ(i) = IF i = KEY_QUEUE_LEN - 1 THEN 0 ELSE i + 1
<1>1. CASE i = KEY_QUEUE_LEN - 1
  <2>1. (i + 1) % KEY_QUEUE_LEN = (i + 1) - KEY_QUEUE_LEN
    BY <1>1, LenAssumption, ModOnce DEF Slots
  <2>. QED BY <1>1, <2>1, LenAssumption DEF Succ, Slots
<1>2. CASE i # KEY_QUEUE_LEN - 1
  <2>1. (i + 1) % KEY_QUEUE_LEN = i + 1
    BY <1>2, LenAssumption, ModBelow DEF Slots
  <2>. QED BY <1>2, <2>1, LenAssumption DEF Succ, Slots
<1>. QED BY <1>1, <1>2

\* The number of pending codes without the modulus.
LEMMA CountProperties ==
  ASSUME NEW f \in Slots, NEW r \in Slots
  PROVE  /\ CountOf(f, r) \in 0 .. KEY_QUEUE_LEN - 1
         /\ CountOf(f, r) = IF f <= r THEN r - f ELSE r + KEY_QUEUE_LEN - f
<1>1. CASE f <= r
  <2>1. (r + KEY_QUEUE_LEN - f) % KEY_QUEUE_LEN = (r + KEY_QUEUE_LEN - f) - KEY_QUEUE_LEN
    BY <1>1, LenAssumption, ModOnce DEF Slots
  <2>. QED BY <1>1, <2>1, LenAssumption DEF CountOf, Slots
<1>2. CASE ~ (f <= r)
  <2>1. (r + KEY_QUEUE_LEN - f) % KEY_QUEUE_LEN = r + KEY_QUEUE_LEN - f
    BY <1>2, LenAssumption, ModBelow DEF Slots
  <2>. QED BY <1>2, <2>1, LenAssumption DEF CountOf, Slots
<1>. QED BY <1>1, <1>2

\* The slot of the i-th pending code without the modulus.
LEMMA SlotProperties ==
  ASSUME NEW f \in Slots, NEW i \in 1 .. KEY_QUEUE_LEN
  PROVE  /\ (f + (i - 1)) % KEY_QUEUE_LEN \in Slots
         /\ (f + (i - 1)) % KEY_QUEUE_LEN = IF f + (i - 1) < KEY_QUEUE_LEN THEN f + (i - 1)
                                            ELSE f + (i - 1) - KEY_QUEUE_LEN
<1>1. CASE f + (i - 1) < KEY_QUEUE_LEN
  <2>1. (f + (i - 1)) % KEY_QUEUE_LEN = f + (i - 1)
    BY <1>1, LenAssumption, ModBelow DEF Slots
  <2>. QED BY <1>1, <2>1, LenAssumption DEF Slots
<1>2. CASE ~ (f + (i - 1) < KEY_QUEUE_LEN)
  <2>1. (f + (i - 1)) % KEY_QUEUE_LEN = (f + (i - 1)) - KEY_QUEUE_LEN
    BY <1>2, LenAssumption, ModOnce DEF Slots
  <2>. QED BY <1>2, <2>1, LenAssumption DEF Slots
<1>. QED BY <1>1, <1>2

\* A function on 1 .. n is a sequence of length n.
LEMMA FunctionIsSeq ==
  ASSUME NEW S, NEW n \in Nat, NEW s \in [1 .. n -> S]
  PROVE  s \in Seq(S) /\ Len(s) = n
<1>1. s \in Seq(S)
  BY SeqDef
<1>2. DOMAIN s = 1 .. n /\ DOMAIN s = 1 .. Len(s) /\ Len(s) \in Nat
  BY <1>1, LenProperties
<1>. QED BY <1>1, <1>2

\* A function on 1 .. n+1 that extends a sequence of length n by c appends c.
LEMMA FunctionIsAppend ==
  ASSUME NEW S, NEW n \in Nat, NEW old \in Seq(S), Len(old) = n, NEW c \in S,
         NEW new \in [1 .. n + 1 -> S],
         \A i \in 1 .. n : new[i] = old[i], new[n + 1] = c
  PROVE  new = Append(old, c)
<1>1. \A i \in 1 .. n + 1 : i \in 1 .. n \/ i = n + 1
  OBVIOUS
<1>2. new \in Seq(S) /\ Len(new) = n + 1
  BY FunctionIsSeq
<1>3. /\ Append(old, c) \in Seq(S)
      /\ Len(Append(old, c)) = n + 1
      /\ \A i \in 1 .. n : Append(old, c)[i] = old[i]
      /\ Append(old, c)[n + 1] = c
  BY AppendProperties
<1>4. \A i \in 1 .. n + 1 : new[i] = Append(old, c)[i]
  BY <1>1, <1>3
<1>. QED BY <1>2, <1>3, <1>4, SeqEqual

\* The pending codes as a sequence, in terms of ring slots.
LEMMA ContentsProperties ==
  ASSUME NEW q, NEW f \in Slots, NEW r \in Slots,
         ContentsOf(q, f, r) \in [1 .. CountOf(f, r) -> Codes]
  PROVE  /\ ContentsOf(q, f, r) \in Seq(Codes)
         /\ Len(ContentsOf(q, f, r)) = CountOf(f, r)
         /\ \A i \in 1 .. CountOf(f, r) :
               ContentsOf(q, f, r)[i] = q[(f + (i - 1)) % KEY_QUEUE_LEN]
<1>1. CountOf(f, r) \in Nat
  BY CountProperties, LenAssumption
<1>2. ContentsOf(q, f, r) \in Seq(Codes) /\ Len(ContentsOf(q, f, r)) = CountOf(f, r)
  BY <1>1, FunctionIsSeq
<1>. QED BY <1>2 DEF ContentsOf

\* key_enqueue into a ring that is not full appends the code.
LEMMA EnqueueAppends ==
  ASSUME NEW q \in [Slots -> Codes \cup {NONE}], NEW f \in Slots, NEW r \in Slots,
         NEW c \in Codes, Succ(r) # f,
         ContentsOf(q, f, r) \in [1 .. CountOf(f, r) -> Codes]
  PROVE  LET p == [q EXCEPT ![r] = c]
         IN  /\ CountOf(f, r) < KEY_QUEUE_LEN - 1
             /\ ContentsOf(p, f, Succ(r)) \in [1 .. CountOf(f, Succ(r)) -> Codes]
             /\ ContentsOf(p, f, Succ(r)) = Append(ContentsOf(q, f, r), c)
<1>. DEFINE p == [q EXCEPT ![r] = c]
            old == ContentsOf(q, f, r)
            new == ContentsOf(p, f, Succ(r))
            n == CountOf(f, r)
<1>1. Succ(r) \in Slots /\ Succ(r) = IF r = KEY_QUEUE_LEN - 1 THEN 0 ELSE r + 1
  BY SuccProperties
<1>2. n \in 0 .. KEY_QUEUE_LEN - 1 /\ n = IF f <= r THEN r - f ELSE r + KEY_QUEUE_LEN - f
  BY CountProperties
<1>3. CountOf(f, Succ(r)) = n + 1 /\ n < KEY_QUEUE_LEN - 1
  <2>1. CountOf(f, Succ(r)) = IF f <= Succ(r) THEN Succ(r) - f ELSE Succ(r) + KEY_QUEUE_LEN - f
    BY <1>1, CountProperties
  <2>. QED BY <2>1, <1>1, <1>2, LenAssumption DEF Slots
<1>4. old \in Seq(Codes) /\ Len(old) = n
      /\ \A i \in 1 .. n : old[i] = q[(f + (i - 1)) % KEY_QUEUE_LEN]
  BY ContentsProperties
<1>5. \A i \in 1 .. n + 1 : new[i] = p[(f + (i - 1)) % KEY_QUEUE_LEN]
  BY <1>3 DEF ContentsOf
<1>6. \A i \in 1 .. n : (f + (i - 1)) % KEY_QUEUE_LEN \in Slots \ {r}
  <2>. SUFFICES ASSUME NEW i \in 1 .. n
                PROVE  (f + (i - 1)) % KEY_QUEUE_LEN \in Slots \ {r}
    OBVIOUS
  <2>1. /\ (f + (i - 1)) % KEY_QUEUE_LEN \in Slots
        /\ (f + (i - 1)) % KEY_QUEUE_LEN = IF f + (i - 1) < KEY_QUEUE_LEN THEN f + (i - 1)
                                           ELSE f + (i - 1) - KEY_QUEUE_LEN
    BY <1>2, SlotProperties, LenAssumption
  <2>. QED BY <2>1, <1>2, LenAssumption DEF Slots
<1>7. (f + ((n + 1) - 1)) % KEY_QUEUE_LEN = r
  <2>1. (f + ((n + 1) - 1)) % KEY_QUEUE_LEN =
           IF f + ((n + 1) - 1) < KEY_QUEUE_LEN THEN f + ((n + 1) - 1)
           ELSE f + ((n + 1) - 1) - KEY_QUEUE_LEN
    <3>1. n + 1 \in 1 .. KEY_QUEUE_LEN
      BY <1>2, LenAssumption
    <3>. QED BY <3>1, SlotProperties
  <2>. QED BY <2>1, <1>2, LenAssumption DEF Slots
<1>8. \A i \in 1 .. n : new[i] = old[i]
  <2>. SUFFICES ASSUME NEW i \in 1 .. n
                PROVE  new[i] = old[i]
    OBVIOUS
  <2>1. new[i] = p[(f + (i - 1)) % KEY_QUEUE_LEN]
    <3>1. i \in 1 .. n + 1
      BY <1>2
    <3>. QED BY <3>1, <1>5
  <2>2. p[(f + (i - 1)) % KEY_QUEUE_LEN] = q[(f + (i - 1)) % KEY_QUEUE_LEN]
    BY <1>6
  <2>. QED BY <2>1, <2>2, <1>4
<1>9. new[n + 1] = c
  <2>1. new[n + 1] = p[(f + ((n + 1) - 1)) % KEY_QUEUE_LEN]
    <3>1. n + 1 \in 1 .. n + 1
      BY <1>2
    <3>. QED BY <3>1, <1>5
  <2>2. p[r] = c
    OBVIOUS
  <2>. QED BY <2>1, <2>2, <1>7
<1>10. new = [i \in 1 .. n + 1 |-> new[i]]
  BY <1>3 DEF ContentsOf
<1>. HIDE DEF new, old, n
<1>11. n \in Nat /\ old \in Seq(Codes) /\ Len(old) = n
  BY <1>2, <1>4, LenAssumption
<1>12. \A i \in 1 .. n + 1 : new[i] \in Codes
  <2>1. \A i \in 1 .. n : old[i] \in Codes
    BY <1>11, ElementOfSeq
  <2>2. \A i \in 1 .. n + 1 : i \in 1 .. n \/ i = n + 1
    BY <1>11
  <2>. QED BY <2>1, <2>2, <1>8, <1>9
<1>13. new \in [1 .. n + 1 -> Codes]
  BY <1>10, <1>12
<1>14. new = Append(old, c)
  BY <1>8, <1>9, <1>11, <1>13, FunctionIsAppend
<1>. QED BY <1>3, <1>13, <1>14 DEF new, old, n

\* key_enqueue trips its assertion exactly when KEY_QUEUE_LEN - 1 codes wait.
LEMMA FullWhenAsserted ==
  ASSUME NEW f \in Slots, NEW r \in Slots, Succ(r) = f
  PROVE  CountOf(f, r) = KEY_QUEUE_LEN - 1
<1>1. Succ(r) = IF r = KEY_QUEUE_LEN - 1 THEN 0 ELSE r + 1
  BY SuccProperties
<1>2. CountOf(f, r) = IF f <= r THEN r - f ELSE r + KEY_QUEUE_LEN - f
  BY CountProperties
<1>. QED BY <1>1, <1>2, LenAssumption DEF Slots

\* key_dequeue on a ring that is not empty takes the head.
LEMMA DequeueTakesHead ==
  ASSUME NEW q \in [Slots -> Codes \cup {NONE}], NEW f \in Slots, NEW r \in Slots, f # r,
         ContentsOf(q, f, r) \in [1 .. CountOf(f, r) -> Codes]
  PROVE  /\ ContentsOf(q, f, r) # << >>
         /\ q[f] = Head(ContentsOf(q, f, r))
         /\ q[f] \in Codes
         /\ ContentsOf(q, Succ(f), r) \in [1 .. CountOf(Succ(f), r) -> Codes]
         /\ ContentsOf(q, Succ(f), r) = Tail(ContentsOf(q, f, r))
<1>. DEFINE old == ContentsOf(q, f, r)
            new == ContentsOf(q, Succ(f), r)
            n == CountOf(f, r)
<1>1. Succ(f) \in Slots /\ Succ(f) = IF f = KEY_QUEUE_LEN - 1 THEN 0 ELSE f + 1
  BY SuccProperties
<1>2. n \in 1 .. KEY_QUEUE_LEN - 1 /\ n = IF f <= r THEN r - f ELSE r + KEY_QUEUE_LEN - f
  <2>1. n \in 0 .. KEY_QUEUE_LEN - 1 /\ n = IF f <= r THEN r - f ELSE r + KEY_QUEUE_LEN - f
    BY CountProperties
  <2>. QED BY <2>1, LenAssumption DEF Slots
<1>3. CountOf(Succ(f), r) = n - 1
  <2>1. CountOf(Succ(f), r) = IF Succ(f) <= r THEN r - Succ(f) ELSE r + KEY_QUEUE_LEN - Succ(f)
    BY <1>1, CountProperties
  <2>. QED BY <2>1, <1>1, <1>2, LenAssumption DEF Slots
<1>4. old \in Seq(Codes) /\ Len(old) = n
      /\ \A i \in 1 .. n : old[i] = q[(f + (i - 1)) % KEY_QUEUE_LEN]
  BY ContentsProperties
<1>5. old # << >>
  BY <1>2, <1>4
<1>6. (f + (1 - 1)) % KEY_QUEUE_LEN = f
  BY SlotProperties, LenAssumption DEF Slots
<1>7. q[f] = old[1]
  BY <1>2, <1>4, <1>6
<1>8. old[1] = Head(old) /\ old[1] \in Codes
  BY <1>2, <1>4, <1>5, ElementOfSeq
<1>9. \A i \in 1 .. n - 1 : new[i] = old[i + 1]
  <2>. SUFFICES ASSUME NEW i \in 1 .. n - 1
                PROVE  new[i] = old[i + 1]
    OBVIOUS
  <2>1. new[i] = q[(Succ(f) + (i - 1)) % KEY_QUEUE_LEN]
    BY <1>3 DEF ContentsOf
  <2>2. (Succ(f) + (i - 1)) % KEY_QUEUE_LEN =
           IF Succ(f) + (i - 1) < KEY_QUEUE_LEN THEN Succ(f) + (i - 1)
           ELSE Succ(f) + (i - 1) - KEY_QUEUE_LEN
    BY <1>1, <1>2, LenAssumption, SlotProperties
  <2>3. (f + ((i + 1) - 1)) % KEY_QUEUE_LEN =
           IF f + ((i + 1) - 1) < KEY_QUEUE_LEN THEN f + ((i + 1) - 1)
           ELSE f + ((i + 1) - 1) - KEY_QUEUE_LEN
    <3>1. i + 1 \in 1 .. KEY_QUEUE_LEN
      BY <1>2, LenAssumption
    <3>. QED BY <3>1, SlotProperties
  <2>4. (Succ(f) + (i - 1)) % KEY_QUEUE_LEN = (f + ((i + 1) - 1)) % KEY_QUEUE_LEN
    BY <2>2, <2>3, <1>1, <1>2, LenAssumption DEF Slots
  <2>5. i + 1 \in 1 .. n
    BY <1>2, LenAssumption
  <2>. QED BY <1>4, <2>1, <2>4, <2>5
<1>10. new \in [1 .. n - 1 -> Codes]
  <2>1. \A i \in 1 .. n - 1 : new[i] \in Codes
    BY <1>2, <1>4, <1>9, ElementOfSeq
  <2>2. new = [i \in 1 .. n - 1 |-> q[(Succ(f) + (i - 1)) % KEY_QUEUE_LEN]]
    BY <1>3 DEF ContentsOf
  <2>. QED BY <2>1, <2>2
<1>11. new \in Seq(Codes) /\ Len(new) = n - 1
  BY <1>10, <1>2, LenAssumption, FunctionIsSeq
<1>12. /\ Tail(old) \in Seq(Codes)
       /\ Len(Tail(old)) = n - 1
       /\ \A i \in 1 .. n - 1 : Tail(old)[i] = old[i + 1]
  BY <1>4, <1>5, HeadTailProperties
<1>13. new = Tail(old)
  BY <1>9, <1>11, <1>12, SeqEqual
<1>. QED BY <1>3, <1>5, <1>7, <1>8, <1>10, <1>13

(* The inductive invariant: both indices stay inside the ring, and every   *)
(* slot between them was filled by key_enqueue.                            *)
IInv == TypeOK /\ PendingAreCodes

LEMMA InitIInv == Init => IInv
<1>. SUFFICES ASSUME Init
              PROVE  IInv
  OBVIOUS
<1>1. TypeOK
  <2>1. 0 \in Slots
    BY LenAssumption DEF Slots
  <2>2. key_queue \in [Slots -> Codes \cup {NONE}]
    BY DEF Init
  <2>. QED BY <2>1, <2>2 DEF Init, TypeOK
<1>2. CountOf(0, 0) = 0
  BY CountProperties, LenAssumption DEF Slots
<1>3. ContentsOf(key_queue, key_f, key_r) \in [1 .. CountOf(key_f, key_r) -> Codes]
  BY <1>2 DEF Init, ContentsOf
<1>. QED BY <1>1, <1>3 DEF IInv, PendingAreCodes, Contents

LEMMA NextIInv == IInv /\ [Next]_vars => IInv'
<1>. SUFFICES ASSUME IInv, [Next]_vars
              PROVE  IInv'
  OBVIOUS
<1>. USE DEF IInv
<1>1. ASSUME NEW sc \in Scancodes, NEW down \in BOOLEAN, send_key(sc, down)
      PROVE  IInv'
  <2>. DEFINE c == [key |-> keymap[sc], down |-> down]
  <2>1. keymap[sc] \in Keys
    BY <1>1, KeymapAssumption DEF send_key
  <2>2. c \in Codes
    BY <2>1 DEF Codes
  <2>3. Succ(key_r) \in Slots
    BY SuccProperties DEF TypeOK
  <2>4. TypeOK'
    BY <1>1, <2>2, <2>3 DEF send_key, key_enqueue, TypeOK
  <2>5. PendingAreCodes'
    <3>1. CASE Succ(key_r) # key_f
      <4>1. ContentsOf([key_queue EXCEPT ![key_r] = c], key_f, Succ(key_r))
              \in [1 .. CountOf(key_f, Succ(key_r)) -> Codes]
        BY <1>1, <2>2, <3>1, EnqueueAppends DEF send_key, PendingAreCodes, Contents, TypeOK
      <4>. QED BY <1>1, <4>1 DEF send_key, key_enqueue, PendingAreCodes, Contents
    <3>2. CASE Succ(key_r) = key_f
      BY <1>1, <3>2 DEF send_key, key_enqueue, PendingAreCodes
    <3>. QED BY <3>1, <3>2
  <2>. QED BY <2>4, <2>5
<1>2. CASE i8042_data_io_handler
  <2>1. CASE key_f # key_r
    <3>1. /\ key_queue[key_f] \in Codes
          /\ ContentsOf(key_queue, Succ(key_f), key_r) \in [1 .. CountOf(Succ(key_f), key_r) -> Codes]
      BY <1>2, <2>1, DequeueTakesHead DEF i8042_data_io_handler, PendingAreCodes, Contents, TypeOK
    <3>2. Succ(key_f) \in Slots
      BY SuccProperties DEF TypeOK
    <3>3. TypeOK'
      BY <1>2, <2>1, <3>1, <3>2 DEF i8042_data_io_handler, TypeOK
    <3>4. PendingAreCodes'
      BY <1>2, <2>1, <3>1 DEF i8042_data_io_handler, PendingAreCodes, Contents
    <3>. QED BY <3>3, <3>4
  <2>2. CASE key_f = key_r
    BY <1>2, <2>2 DEF i8042_data_io_handler, TypeOK, PendingAreCodes, Contents
  <2>. QED BY <2>1, <2>2
<1>3. CASE SetRunning
  BY <1>3 DEF SetRunning, TypeOK, PendingAreCodes, Contents
<1>4. CASE UNCHANGED vars
  BY <1>4 DEF vars, TypeOK, PendingAreCodes, Contents
<1>. QED BY <1>1, <1>2, <1>3, <1>4 DEF Next

LEMMA Invariance == Spec => []IInv
BY InitIInv, NextIInv, PTL DEF Spec

(* For every ring length and key map the ring indices stay inside the ring *)
(* and every slot holds a key code or the zero it was born with, whatever  *)
(* the host, the guest and the run loop do (keyboard.c:51-65).             *)
THEOREM TypeCorrect == Spec => []TypeOK
BY Invariance, PTL DEF IInv

(* No interleaving of host events, guest reads, wrap-arounds and pauses of *)
(* the run lets the guest read a ring slot that holds no key code, for any *)
(* ring length (key_dequeue, keyboard.c:58-65).                            *)
THEOREM PendingAreCodesAlways == Spec => []PendingAreCodes
BY Invariance, PTL DEF IInv

(* Each step of the ring is a step of the bounded FIFO or changes nothing  *)
(* it can see.                                                             *)
LEMMA StepImplements == IInv /\ [Next]_vars => [F!FNext]_(F!fvars)
<1>. SUFFICES ASSUME IInv, [Next]_vars
              PROVE  [F!FNext]_(F!fvars)
  OBVIOUS
<1>. USE DEF IInv
<1>1. ASSUME NEW sc \in Scancodes, NEW down \in BOOLEAN, send_key(sc, down)
      PROVE  F!FNext
  <2>. DEFINE c == [key |-> keymap[sc], down |-> down]
  <2>1. c \in Codes
    BY <1>1, KeymapAssumption DEF send_key, Codes
  <2>2. Contents \in [1 .. CountOf(key_f, key_r) -> Codes]
    BY <1>1 DEF send_key, PendingAreCodes
  <2>3. Len(Contents) = CountOf(key_f, key_r)
    BY <2>2, ContentsProperties DEF TypeOK, Contents
  <2>4. CASE Succ(key_r) # key_f
    <3>1. /\ CountOf(key_f, key_r) < KEY_QUEUE_LEN - 1
          /\ ContentsOf([key_queue EXCEPT ![key_r] = c], key_f, Succ(key_r)) = Append(Contents, c)
      BY <2>1, <2>2, <2>4, EnqueueAppends DEF TypeOK, Contents
    <3>2. Contents' = Append(Contents, c) /\ alive /\ alive' /\ port' = port
      BY <1>1, <2>4, <3>1 DEF send_key, key_enqueue, Contents
    <3>3. F!FAccept
      BY <2>1, <2>3, <3>1, <3>2 DEF F!FAccept
    <3>. QED BY <3>3 DEF F!FNext
  <2>5. CASE Succ(key_r) = key_f
    <3>1. CountOf(key_f, key_r) = KEY_QUEUE_LEN - 1
      BY <2>5, FullWhenAsserted DEF TypeOK
    <3>2. alive /\ ~alive' /\ port' = port /\ alive' \in BOOLEAN
      BY <1>1, <2>5 DEF send_key, key_enqueue
    <3>3. F!FOverflow
      BY <2>3, <3>1, <3>2 DEF F!FOverflow
    <3>. QED BY <3>3 DEF F!FNext
  <2>. QED BY <2>4, <2>5
<1>2. CASE i8042_data_io_handler
  <2>1. alive /\ alive' = alive /\ PendingAreCodes
    BY <1>2 DEF i8042_data_io_handler
  <2>2. CASE key_f # key_r
    <3>1. /\ Contents # << >>
          /\ key_queue[key_f] = Head(Contents)
          /\ ContentsOf(key_queue, Succ(key_f), key_r) = Tail(Contents)
      BY <2>1, <2>2, DequeueTakesHead DEF PendingAreCodes, Contents, TypeOK
    <3>2. Contents' = Tail(Contents) /\ port' = Head(Contents)
      BY <1>2, <2>2, <3>1 DEF i8042_data_io_handler, Contents
    <3>3. F!FRead
      BY <2>1, <3>1, <3>2 DEF F!FRead
    <3>. QED BY <3>3 DEF F!FNext
  <2>3. CASE key_f = key_r
    <3>1. CountOf(key_f, key_r) = 0
      BY <2>3, CountProperties, LenAssumption DEF TypeOK, Slots
    <3>2. Len(Contents) = 0 /\ Contents \in Seq(Codes)
      BY <2>1, <3>1, ContentsProperties DEF TypeOK, PendingAreCodes, Contents
    <3>3. Contents = << >>
      BY <3>2, EmptySeq
    <3>4. Contents' = Contents /\ port' = NONE
      BY <1>2, <2>3 DEF i8042_data_io_handler, Contents
    <3>5. F!FRead
      BY <2>1, <3>3, <3>4 DEF F!FRead
    <3>. QED BY <3>5 DEF F!FNext
  <2>. QED BY <2>2, <2>3
<1>3. CASE SetRunning
  BY <1>3 DEF SetRunning, Contents, F!fvars
<1>4. CASE UNCHANGED vars
  BY <1>4 DEF vars, Contents, F!fvars
<1>. QED BY <1>1, <1>2, <1>3, <1>4 DEF Next

(* For every ring length and key map the ring of keyboard.c implements the *)
(* bounded FIFO: codes reach the guest in the order send_key accepted      *)
(* them, each once, across any wrap-around; and a full ring stops the      *)
(* emulator instead of overwriting a pending code.                         *)
THEOREM KeyboardImplementsFifo == Spec => ImplementsFifo
<1>1. Init => F!FInit
  <2>. SUFFICES ASSUME Init
                PROVE  F!FInit
    OBVIOUS
  <2>1. CountOf(0, 0) = 0
    BY CountProperties, LenAssumption DEF Slots
  <2>2. Contents \in [1 .. 0 -> Codes] /\ alive = TRUE /\ port = NONE
    BY <2>1 DEF Init, Contents, ContentsOf
  <2>3. Contents \in Seq(Codes) /\ Len(Contents) = 0
    BY <2>2, FunctionIsSeq
  <2>4. Contents = << >>
    BY <2>3, EmptySeq
  <2>. QED BY <2>2, <2>4 DEF F!FInit
<1>. QED BY <1>1, Invariance, StepImplements, PTL DEF Spec, ImplementsFifo, F!FSpec
=============================================================================
