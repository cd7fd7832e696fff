------------------------------ MODULE Lockstep ------------------------------
(***************************************************************************)
(* The hart under differential testing with MiniRV32IMA, in the build      *)
(* CONFIG_DIFFTEST_REF_MINIRV32I: after each exec_once of the hart (DUT)   *)
(* difftest_step (src/cpu/difftest/dut.c) lets the reference do one step,  *)
(* copies the reference's time into the DUT's CLINT (its low word: a store *)
(* of 8 bytes stores 4, memory/host.h:37) and compares the two pcs.        *)
(* Nothing is copied from the DUT to the reference, and the CSRs are not   *)
(* compared (isa/riscv32/difftest/dut.c:62).                               *)
(***************************************************************************)
EXTENDS Hart

CONSTANTS Compared,  \* the images run with differential testing
          MaxUs      \* bound on the time that passes in a reference step

\* The instructions the two interpreters treat alike.  wfi, sret and ebreak,
\* delegation, and misaligned targets and vectors they do not.
Comparable(i) ==
  /\ i # NONE
  /\ \/ i.op \in {"alu", "inv", "ecall", "mret", "sw"}
     \/ i.op \in {"jal", "jalr", "branch"} /\ Aligned(i.target)
     \/ /\ i.op = "csrw"
        /\ i.csr \in {"mtvec", "mepc"} => Aligned(i.val)
        /\ i.csr \in {"medeleg", "mideleg"} => i.val = {}

ASSUME ComparedAssumption == /\ Compared \subseteq Images
                             /\ \A i \in UNION Compared : Comparable(i)
ASSUME UsAssumption == MaxUs \in Nat

VARIABLES ref,       \* the reference's core
          stage,     \* exec: the DUT is at work; step: difftest_step is next; abort
          fetched,   \* the instruction the DUT has just executed, NONE for an interrupt
          \* History, read by the properties only:
          split      \* one side has taken an interrupt where the other has not

dvars == <<ref, stage, fetched, split>>
lvars == <<vars, dvars>>

Ref == INSTANCE RefIma

CONFIG_DIFFTEST == image \in Compared

\* init_difftest: with this reference its core is copied into the DUT's, a
\* status word with MPP clear included.
difftest_regcpy(r) ==
  /\ pc = r.pc /\ mtvec = r.mtvec /\ mepc = r.mepc /\ mcause = r.mcause /\ mie = r.mie /\ mip = r.mip
  /\ mstatus = [MIE |-> r.mstatus.MIE, MPIE |-> r.mstatus.MPIE, MPP |-> r.mstatus.MPP,
                SIE |-> FALSE, SPIE |-> FALSE, SPP |-> 0]

LInit == /\ init_rest
         /\ IF CONFIG_DIFFTEST THEN difftest_regcpy(Ref!init_vm) ELSE restart
         /\ ref = Ref!init_vm /\ stage = "exec" /\ fetched = NONE /\ split = FALSE

\* An exec_once in progress, and its end.
exec_some == /\ stage = "exec" /\ (irp_and_none \/ Body)
             /\ UNCHANGED dvars
exec_once == /\ stage = "exec" /\ (irp_and_SSS \/ irp_and_take \/ retire \/ Trap)
             /\ stage' = IF CONFIG_DIFFTEST THEN "step" ELSE "exec"
             /\ fetched' = IF CONFIG_DIFFTEST THEN inst ELSE NONE
             /\ UNCHANGED <<ref, split>>

\* clint_update of this build: the host's time since the start.
device_update == /\ stage = "exec"
                 /\ \/ ~CONFIG_DIFFTEST /\ Tick
                    \/ /\ CONFIG_DIFFTEST /\ AtFetch
                       /\ mtime' \in Pair
                       /\ UNCHANGED <<mtimecmp, image, pc, dnpc, cur_pri, mvars, svars, exc, inst, rd, phase, nemu, assigned, mctx, sctx>>
                 /\ UNCHANGED dvars
new_exec == stage = "exec" /\ cpu_exec /\ UNCHANGED dvars

\* The reference's step.  Both read the same memory: at the same pc the
\* reference finds the instruction the DUT has executed, or, after an
\* interrupt, any.
difftest_step ==
  /\ stage = "step"
  /\ \E us \in 0 .. MaxUs, i \in IF fetched = NONE THEN image ELSE {fetched} :
       /\ ref' = Ref!MiniRV32IMAStep(ref, i, us)
       /\ split' = (split \/ (fetched = NONE) # Ref!Interrupted(Ref!Woken(ref, us)))
  /\ mtime' = [mtime EXCEPT !.lo = ref'.timer.lo]
  /\ stage' = IF pc = ref'.pc THEN "exec" ELSE "abort"
  /\ fetched' = NONE
  /\ UNCHANGED <<mtimecmp, image, pc, dnpc, cur_pri, mvars, svars, exc, inst, rd, phase, nemu, assigned, mctx, sctx>>

LNext == exec_some \/ exec_once \/ device_update \/ new_exec \/ difftest_step
LSpec == LInit /\ [][LNext]_lvars
-----------------------------------------------------------------------------
(* The two interpreters, written apart, keep the same trap state although  *)
(* only the pc is compared: until one of them takes a timer interrupt that *)
(* the other does not, the pcs agree after every instruction, and so do    *)
(* the interrupt enables, mepc, mtvec and mie that later pcs depend on -   *)
(* through any nesting of traps, returns and CSR writes of machine and     *)
(* user mode, although the privilege levels part (inst.c:98).              *)
LockstepAgrees ==
  CONFIG_DIFFTEST /\ ~split =>
    /\ stage # "abort"
    /\ stage = "exec" /\ phase = "fetch" =>
         /\ pc = ref.pc /\ mepc = ref.mepc /\ mtvec = ref.mtvec /\ mie = ref.mie
         /\ mstatus.MIE = ref.mstatus.MIE /\ mstatus.MPIE = ref.mstatus.MPIE
=============================================================================
