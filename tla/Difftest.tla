------------------------------ MODULE Difftest ------------------------------
(***************************************************************************)
(* Differential testing (src/cpu/difftest/dut.c and                        *)
(* src/isa/riscv32/difftest/dut.c): after every instruction of the device  *)
(* under test (DUT) difftest_step lets a reference run one instruction and *)
(* compares registers and pc, unless the instruction asked to be skipped.  *)
(*                                                                         *)
(* One general register stands for the register file and an instruction    *)
(* adds one to it; a wrong DUT adds something else or goes elsewhere.      *)
(* difftest_skip_dut is only called with nr_dut = 0 and a skip of one DUT  *)
(* instruction is only asked for on the way to ABORT, so neither counter   *)
(* is ever read while it is set (SkipsAreDead).                            *)
(***************************************************************************)
EXTENDS Integers

CONSTANTS Builds,      \* values of CONFIG_DIFFTEST_REF_MINIRV32I
          G,           \* values of a register (2^32)
          P,           \* values of the pc
          TOL,         \* the tolerated difference (0x100)
          Errors       \* by how much a faulty instruction of the DUT is off

ASSUME RefAssumption  == Builds \subseteq BOOLEAN
ASSUME SizeAssumption == G \in Nat /\ G > 1 /\ P \in Nat /\ P > 1 /\ TOL \in Nat
ASSUME ErrAssumption  == Errors \subseteq Int /\ 0 \in Errors

VARIABLES
  MINIRV32I,            \* the build compares with MiniRV32IMA
  dut, ref,             \* [gpr, pc] of both sides
  is_skip_ref, skip_dut_one_inst,
  nemu,                 \* nemu_state.state, RUNNING or ABORT
  phase,                \* exec: exec_once is next; step: difftest_step
  \* History, read by the properties only:
  waived                \* the user accepted a mismatch

vars == <<MINIRV32I, dut, ref, is_skip_ref, skip_dut_one_inst, nemu, phase, waived>>

\* One correct instruction, and one that is e off and goes j further.
Step(c, e, j) == [gpr |-> (c.gpr + 1 + e) % G, pc |-> (c.pc + 1 + j) % P]

\* init_difftest copies the registers from one side to the other.
Init == /\ MINIRV32I \in Builds
        /\ dut = [gpr |-> 0, pc |-> 0] /\ ref = dut
        /\ is_skip_ref = FALSE /\ skip_dut_one_inst = FALSE
        /\ nemu = "RUNNING" /\ phase = "exec"
        /\ waived = FALSE

\* difftest_skip_ref does nothing for the MiniRV32IMA reference.
difftest_skip_ref == is_skip_ref' = ~MINIRV32I

\* exec_once: irp_and polls the CLINT through find_mapid_by_addr, which
\* calls difftest_skip_ref, in every instruction.
exec_once == /\ phase = "exec" /\ nemu = "RUNNING"
             /\ \E e \in Errors, j \in {0, 1} : dut' = Step(dut, e, j)
             /\ difftest_skip_ref
             /\ phase' = "step"
             /\ UNCHANGED <<MINIRV32I, ref, skip_dut_one_inst, nemu, waived>>

\* difftest_step past its early return on skip_dut_one_inst.
AtStep == phase = "step" /\ ~skip_dut_one_inst

\* is_skip_ref: the reference gets the DUT's registers.
step_skip_ref == /\ AtStep /\ is_skip_ref
                 /\ ref' = dut /\ is_skip_ref' = FALSE
                 /\ phase' = "exec"
                 /\ UNCHANGED <<MINIRV32I, dut, skip_dut_one_inst, nemu, waived>>

\* isa_difftest_checkregs: int32_t dert = ref - dut; abs(dert) > 0x100.
\* abs of the most negative number is undefined: either answer.
Dert(a, b) == (a - b) % G
Differs_Wide(a, b) == {Dert(a, b) > 2 * TOL /\ G - Dert(a, b) > 2 * TOL}
Differs(a, b) ==
  LET d == Dert(a, b)
  IN  CASE 2 * d < G -> {d > TOL}
        [] 2 * d > G -> {G - d > TOL}
        [] OTHER     -> BOOLEAN

Executed == Step(ref, 0, 0)

\* Registers differ or not, pcs agree: the mismatch count decides.  The write
\* of the reference's time to the CLINT calls difftest_skip_ref once more.
check_same_pc ==
  /\ AtStep /\ ~is_skip_ref /\ dut.pc = Executed.pc
  /\ ref' = Executed
  /\ \E error \in Differs(Executed.gpr, dut.gpr) : nemu' = IF error THEN "ABORT" ELSE nemu
  /\ difftest_skip_ref
  /\ phase' = "exec"
  /\ UNCHANGED <<MINIRV32I, dut, skip_dut_one_inst, waived>>

\* The answers that call difftest_skip_ref_one.
SkipOne_FallThrough(a) == a \in {0, 2}
SkipOne(a) == a = 2

\* The pcs differ: the user is asked, and 0 accepts everything; 1 lets the
\* reference run one more instruction, 2 asks to skip one DUT instruction,
\* but both then return the mismatch.
check_other_pc ==
  /\ AtStep /\ ~is_skip_ref /\ dut.pc # Executed.pc
  /\ \E answer \in 0 .. 3 :
       /\ ref' = IF answer = 1 THEN Step(Executed, 0, 0) ELSE Executed
       /\ skip_dut_one_inst' = SkipOne(answer)
       /\ nemu' = IF answer = 0 THEN nemu ELSE "ABORT"
       /\ waived' = (waived \/ answer = 0)
  /\ difftest_skip_ref
  /\ phase' = "exec"
  /\ UNCHANGED <<MINIRV32I, dut>>

difftest_step == step_skip_ref \/ check_same_pc \/ check_other_pc
Next == exec_once \/ difftest_step
Spec == Init /\ [][Next]_vars
-----------------------------------------------------------------------------
(* Errors of the DUT do not pile up unseen: as long as the run goes on and *)
(* the user has waived nothing, the two sides agree on the pc and are      *)
(* within the tolerance on the register (isa dut.c:36), or exactly half    *)
(* the range apart, whatever small errors earlier instructions made.       *)
DriftIsBounded ==
  nemu = "RUNNING" /\ phase = "exec" /\ ~waived =>
     /\ dut.pc = ref.pc
     /\ \/ Dert(ref.gpr, dut.gpr) <= TOL \/ Dert(dut.gpr, ref.gpr) <= TOL
        \/ 2 * Dert(ref.gpr, dut.gpr) = G

(* No difftest_step meets a pending skip_dut_one_inst: the early return at *)
(* dut.c:123 is never taken, since the run that asked for it has aborted.  *)
SkipsAreDead == skip_dut_one_inst => nemu = "ABORT"
=============================================================================
