------------------------------- MODULE RefApi -------------------------------
(***************************************************************************)
(* What differential testing expects of a reference (include/difftest-def, *)
(* src/cpu/difftest/dut.c): every call is carried out exactly once, as if  *)
(* at one moment, and returns what it should; or the emulator ends.        *)
(***************************************************************************)
EXTENDS Integers, Sequences

CONSTANTS Calls,     \* the calls: [op, ...]
          NoCall

VARIABLES ref,       \* the reference: [regs, mem]
          call,      \* the call under way, or NoCall
          ret,       \* what the last finished call returned
          up         \* the emulator is alive

vars == <<ref, call, ret, up>>

\* The registers are the compared one, pc, and one the emulator lacks, words of
\* two bytes; both move on with an instruction.
Steps(n, regs) == <<(regs[1] + n) % 65536, (regs[2] + n) % 65536>>

Apply(c, r) ==
  CASE c.op = "exec" -> [r EXCEPT !.regs = Steps(c.n, r.regs)]
    [] c.op = "memcpy" ->
         [r EXCEPT !.mem = [a \in DOMAIN @ |->
            IF a \in c.addr .. c.addr + Len(c.buf) - 1 THEN c.buf[a - c.addr + 1] ELSE @[a]]]
    [] c.op = "to_ref" -> [r EXCEPT !.regs = <<c.pc, @[2]>>]
    [] OTHER -> r
Result(c, r) == IF c.op = "to_dut" THEN r.regs[1] ELSE 0

Invoke == /\ up /\ call = NoCall
          /\ call' \in Calls
          /\ UNCHANGED <<ref, ret, up>>
Return == /\ up /\ call # NoCall
          /\ ref' = Apply(call, ref) /\ ret' = Result(call, ref)
          /\ call' = NoCall
          /\ UNCHANGED up
Die == /\ up /\ up' = FALSE
       /\ UNCHANGED <<ref, call, ret>>

Init == /\ ref.regs = <<0, 0>> /\ \A a \in DOMAIN ref.mem : ref.mem[a] = 0
        /\ call = NoCall /\ ret = 0 /\ up = TRUE
Next == Invoke \/ Return \/ Die
\* Every call ends, or the emulator does.
CallsEnd == call # NoCall ~> (call = NoCall \/ ~up)

Spec == Init /\ [][Next]_vars /\ CallsEnd
=============================================================================
