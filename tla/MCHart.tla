------------------------------- MODULE MCHart -------------------------------
(* Guest programs for Hart.  Any instruction of the program may be fetched *)
(* at any address; each program isolates one part of the trap machinery.   *)
EXTENDS Hart

I(op) == [op |-> op]
Csrw(c, v) == [op |-> "csrw", csr |-> c, val |-> v]
Jump(op, t) == [op |-> op, target |-> t]
Ecall(a7) == [op |-> "ecall", a7 |-> a7]
Sw(reg, half, v) == [op |-> "sw", reg |-> reg, half |-> half, val |-> v]

MS(mie_, mpie, mpp) == [MIE |-> mie_, MPIE |-> mpie, MPP |-> mpp, SIE |-> FALSE, SPIE |-> FALSE, SPP |-> 0]
SS(sie_, spie, spp, b) == [SIE |-> sie_, SPIE |-> spie, SPP |-> spp, b3 |-> b]

\* Machine traps and timer interrupts, aligned vectors.
MachineProgram ==
  {I("alu"), I("inv"), I("mret"), Ecall("other"), Ecall("exit"), Jump("jalr", 6),
   Csrw("mtvec", 4), Csrw("mie", {MTI}), Csrw("mepc", 4),
   Csrw("mstatus", MS(TRUE, TRUE, PRV_U)), Csrw("mstatus", MS(FALSE, TRUE, PRV_S)),
   Sw("mtimecmp", "lo", 0)}

\* Delegation to S, and traps of S handlers into M.
SupervisorProgram ==
  {I("inv"), I("mret"), I("sret"), Ecall("other"),
   Csrw("medeleg", {ILLEGAL_INST, U_ECALL}), Csrw("stvec", 4), Csrw("sepc", 4),
   Csrw("sstatus", SS(TRUE, FALSE, 0, TRUE)),
   Csrw("mstatus", MS(TRUE, TRUE, PRV_S))}

\* S interrupts enabled in every register they need, and a delegated ecall.
SInterruptProgram ==
  {I("mret"), Ecall("other"), Csrw("medeleg", {U_ECALL + PRV_S}), Csrw("stvec", 4),
   Csrw("mideleg", {1}), Csrw("sie", {1}), Csrw("sip", {1}),
   Csrw("sstatus", SS(TRUE, FALSE, 0, TRUE)),
   Csrw("mstatus", MS(TRUE, TRUE, PRV_S))}

\* Vectored and misaligned vectors, misaligned return addresses, wfi, ebreak.
VectorProgram ==
  {I("alu"), I("wfi"), I("ebreak"), I("mret"), Ecall("power"), Jump("branch", 6),
   Csrw("mtvec", 5), Csrw("mtvec", 6), Csrw("mepc", 2),
   Csrw("mie", {3}), Csrw("mip", {3}), Csrw("mstatus", MS(TRUE, FALSE, PRV_M))}

\* A timer interrupt that stays pending across every mret.
TimerProgram ==
  {I("alu"), I("mret"), Csrw("mie", {MTI}), Csrw("mtvec", 4),
   Csrw("mstatus", MS(TRUE, FALSE, PRV_M)), Sw("mtimecmp", "lo", 0)}

\* Every word of the CLINT written in every order, with wfi in between.
ClintProgram ==
  {I("wfi"), I("alu"), Csrw("mip", {MTI})} \cup
  {Sw(reg, half, v) : reg \in {"mtime", "mtimecmp"}, half \in {"hi", "lo"}, v \in Word}

\* User code above an S handler, without machine traps to nest them in, and
\* the S-interrupt branch on its own.
HandlerProgram ==
  {I("mret"), I("sret"), Ecall("other"), Csrw("medeleg", {U_ECALL}), Csrw("stvec", 4), Csrw("sepc", 4)}
PendingProgram ==
  {Csrw("mideleg", {1}), Csrw("sie", {1}), Csrw("sip", {1}),
   Csrw("mstatus", MS(TRUE, TRUE, PRV_S)), Csrw("sstatus", SS(TRUE, FALSE, 0, TRUE)), I("mret")}

MachineImages == {MachineProgram, VectorProgram, TimerProgram, ClintProgram}
SupervisorImages == {SupervisorProgram, SInterruptProgram}
HartImages == MachineImages \cup {HandlerProgram, PendingProgram}
=============================================================================
