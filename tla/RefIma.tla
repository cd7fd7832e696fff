------------------------------- MODULE RefIma -------------------------------
(***************************************************************************)
(* MiniRV32IMA (tools/rv32ima-diff), the interpreter the hart is compared  *)
(* with: one MiniRV32IMAStep over the state of its core.  It has machine   *)
(* and user mode, a 64-bit timer of its own that runs on the host's clock, *)
(* and one interrupt.  The instructions are those of Hart; integer, memory *)
(* and atomic instructions on RAM are again one "alu" instruction.         *)
(***************************************************************************)
EXTENDS Integers

CONSTANTS ADDR,      \* size of the address space
          W          \* values of a word

MTIP == 7
PC_MISALIGNED == 0
ILLEGAL       == 2
BREAKPOINT    == 3
MTIMER == <<"irq", MTIP>>

\* init_vm: the core is cleared, in machine mode.
init_vm == [pc |-> 0, priv |-> 3, asleep |-> FALSE,
            mstatus |-> [MIE |-> FALSE, MPIE |-> FALSE, MPP |-> 0],
            mie |-> {}, mip |-> {}, mtvec |-> 0, mepc |-> 0, mcause |-> <<"exc", 0>>,
            timer |-> [hi |-> 0, lo |-> 0], timermatch |-> [hi |-> 0, lo |-> 0]]

\* The timer advances as one number, and is due strictly after a match
\* value that has been set; a due timer ends the sleep of wfi.
Elapse(r, us) ==
  [r EXCEPT !.timer = [hi |-> (@.hi + (@.lo + us) \div W) % W, lo |-> (@.lo + us) % W]]
Due(r) == /\ \/ r.timer.hi > r.timermatch.hi
             \/ r.timer.hi = r.timermatch.hi /\ r.timer.lo > r.timermatch.lo
          /\ r.timermatch # [hi |-> 0, lo |-> 0]
Polled(r) == IF Due(r) THEN [r EXCEPT !.mip = @ \cup {MTIP}, !.asleep = FALSE]
                       ELSE [r EXCEPT !.mip = @ \ {MTIP}]
Interrupted(r) == MTIP \in r.mip \cap r.mie /\ r.mstatus.MIE

\* Traps and interrupts: always to machine mode, at mtvec as it stands.
Trap_KeepsMIE(r, cause) ==
  [r EXCEPT !.mcause = cause, !.mepc = r.pc, !.pc = r.mtvec, !.priv = 3,
            !.mstatus = [MIE |-> @.MIE, MPIE |-> @.MIE, MPP |-> r.priv]]
Trap(r, cause) ==
  [r EXCEPT !.mcause = cause, !.mepc = r.pc, !.pc = r.mtvec, !.priv = 3,
            !.mstatus = [MIE |-> FALSE, MPIE |-> @.MIE, MPP |-> r.priv]]

Next4(r) == [r EXCEPT !.pc = (@ + 4) % ADDR]

\* A Zicsr instruction; the CSRs the core lacks are not written.
Zicsr(r, csr, v) ==
  CASE csr = "mstatus" -> [r EXCEPT !.mstatus = [MIE |-> v.MIE, MPIE |-> v.MPIE, MPP |-> v.MPP]]
    [] csr \in {"mtvec", "mepc", "mie", "mip"} -> [r EXCEPT ![csr] = v]
    [] OTHER -> r

\* MRET, which swaps the privilege with MPP; sret is taken for it.
MRET(r) == [r EXCEPT !.mstatus = [MIE |-> @.MPIE, MPIE |-> TRUE, MPP |-> r.priv],
                     !.priv = r.mstatus.MPP, !.pc = r.mepc]

\* WFI enables interrupts and goes to sleep.
WFI(r) == [Next4(r) EXCEPT !.mstatus.MIE = TRUE, !.asleep = TRUE]

\* A store to the CLINT: only the match value is there.
Store(r, reg, half, v) == IF reg = "mtimecmp" THEN [r EXCEPT !.timermatch[half] = v] ELSE r

\* jal, jalr and the branches do not look at their target; the fetch does.
Jump(r, i) == [r EXCEPT !.pc = i.target]

\* ecall knows two levels, and every other level traps as machine mode.
System(r, op) ==
  CASE op = "ecall"  -> Trap(r, <<"exc", IF r.priv # 0 THEN 11 ELSE 8>>)
    [] op = "ebreak" -> Trap(r, <<"exc", BREAKPOINT>>)
    [] op = "wfi"    -> WFI(r)
    [] op \in {"mret", "sret"} -> MRET(r)

\* The instruction i at the pc.
Execute(r, i) ==
  IF r.pc % 4 # 0 THEN Trap(r, <<"exc", PC_MISALIGNED>>)
  ELSE CASE i.op = "alu" -> Next4(r)
         [] i.op \in {"jal", "jalr", "branch"} -> Jump(r, i)
         [] i.op = "csrw" -> Next4(Zicsr(r, i.csr, i.val))
         [] i.op = "sw" -> Next4(Store(r, i.reg, i.half, i.val))
         [] i.op \in {"mret", "sret", "wfi", "ecall", "ebreak"} -> System(r, i.op)
         [] OTHER -> Trap(r, <<"exc", ILLEGAL>>)

\* The core when the step looks for work, and the step: asleep, interrupted,
\* or one instruction.
Woken(r, us) == Polled(Elapse(r, us))
MiniRV32IMAStep(r, i, us) ==
  LET w == Woken(r, us)
  IN  CASE w.asleep -> w
        [] ~w.asleep /\ Interrupted(w) -> Trap(w, MTIMER)
        [] OTHER -> Execute(w, i)
=============================================================================
