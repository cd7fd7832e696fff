----------------------------- MODULE MCLockstep -----------------------------
(* Guest programs of machine and user mode for the comparison with         *)
(* MiniRV32IMA: aligned targets and vectors, which it treats otherwise.    *)
EXTENDS Lockstep, MCHart

\* Nested traps and returns without interrupts.
TrapProgram ==
  {I("alu"), I("inv"), I("mret"), Ecall("other"), Jump("branch", 0),
   Csrw("mtvec", 4), Csrw("mepc", 4),
   Csrw("mstatus", MS(TRUE, FALSE, PRV_U)), Csrw("mstatus", MS(FALSE, TRUE, PRV_M))}

\* The timer, with two clocks.
ClockProgram ==
  {I("alu"), I("mret"), Csrw("mtvec", 4), Csrw("mie", {MTI}),
   Csrw("mstatus", MS(TRUE, FALSE, PRV_M)), Sw("mtimecmp", "lo", 1), Sw("mtimecmp", "hi", 0)}

ComparedImages == {TrapProgram, ClockProgram}
LockstepImages == SupervisorImages \cup ComparedImages
=============================================================================
