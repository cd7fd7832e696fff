-------------------------------- MODULE Hart --------------------------------
(***************************************************************************)
(* The privileged state machine of the RV32 interpreter                    *)
(* (src/isa/riscv32/inst.c, init.c) in its default M/S/U build: what       *)
(* isa_exec_once does with privilege levels, traps, interrupts and the     *)
(* trap CSRs.  Integer and memory instructions are one "alu" instruction.  *)
(*                                                                         *)
(* isa_exec_once runs in three stages, one phase each:                     *)
(*   "fetch"   irp_and: poll the timer, maybe take an interrupt            *)
(*   "exec"    decode_exec: the matched instruction's body                 *)
(*   "retire"  decode_exec: the exception left behind, then cpu.pc = dnpc  *)
(* mstatus and sstatus are two words of cpu.csr, not two views of one.     *)
(***************************************************************************)
EXTENDS Clint

CONSTANTS ADDR,      \* size of the address space, a multiple of 4 (2^32)
          Images,    \* guest images: each a set of instructions
          Garbage,   \* what an uninitialised Decode.dnpc may hold
          NONE       \* RISCV_EXCP_NONE; also "no context" and "no instruction"

PRV_U == 0
PRV_S == 1
PRV_M == 3
INST_ADDR_MIS == 0
ILLEGAL_INST  == 2
U_ECALL       == 8
Causes == {INST_ADDR_MIS, ILLEGAL_INST} \cup (U_ECALL .. U_ECALL + PRV_M)
\* 0x0aaa: the interrupt numbers irp_and looks at.
Irqs == {1, 3, 5, 7, 9, 11}
MTI == 7

Addr == 0 .. ADDR - 1
MStatus == [MIE : BOOLEAN, MPIE : BOOLEAN, MPP : 0 .. 3, SIE : BOOLEAN, SPIE : BOOLEAN, SPP : 0 .. 1]
\* b3 is bit 3 of the sstatus word, which irp_and tests.
SStatus == [SIE : BOOLEAN, SPIE : BOOLEAN, SPP : 0 .. 1, b3 : BOOLEAN]

\* What a return from a trap restores.
Context == [pc : Addr, pri : 0 .. 3, ie : BOOLEAN]

\* The values a CSR instruction may leave in each trap CSR.
CsrType(c) == CASE c = "mstatus" -> MStatus
                [] c = "sstatus" -> SStatus
                [] c \in {"mtvec", "stvec", "mepc", "sepc"} -> Addr
                [] c = "medeleg" -> SUBSET Causes
                [] c \in {"mideleg", "mie", "mip", "sie", "sip"} -> SUBSET Irqs

ASSUME AddrAssumption == ADDR \in Nat /\ ADDR > 0 /\ ADDR % 4 = 0
ASSUME GarbageAssumption == Garbage \subseteq Addr /\ Garbage # {}
ASSUME NoneAssumption == NONE \notin Causes /\ NONE \notin Context
ASSUME ImagesAssumption ==
  \A i \in UNION Images :
     /\ i.op = "csrw" => i.val \in CsrType(i.csr)
     /\ i.op \in {"jal", "jalr", "branch"} => i.target \in Addr
     /\ i.op = "sw" => i.half \in {"hi", "lo"} /\ i.val \in Word

VARIABLES
  image,             \* the instructions the guest's memory may hold
  pc, dnpc,          \* cpu.pc and the dnpc field of execute's local Decode
  cur_pri,           \* the privilege level
  mstatus, mtvec, mepc, mcause, medeleg, mideleg, mie, mip,
  sstatus, stvec, sepc, scause, sie, sip,
  exc,               \* have_RISCVException
  inst,              \* the instruction being executed, NONE between two
  rd,                \* what it has done to its destination register
  phase,             \* the stage of isa_exec_once
  nemu,              \* nemu_state.state: "RUNNING" or "END"
  \* History, read by the properties only:
  assigned,          \* dnpc has been written since execute declared its Decode
  mctx, sctx         \* what the pending mret / sret has to give back

mvars == <<mstatus, mtvec, mepc, mcause, medeleg, mideleg, mie, mip>>
svars == <<sstatus, stvec, sepc, scause, sie, sip>>
vars  == <<pc, dnpc, cur_pri, mvars, svars, exc, inst, rd, phase, nemu,
           image, assigned, mctx, sctx, cvars>>

\* dnpc_and_check(t): a misaligned target leaves dnpc alone and raises an
\* exception, an aligned one goes into dnpc.
Aligned(t) == t % 4 = 0
DnpcAfter(d, t) == IF Aligned(t) THEN t ELSE d
ExcAfter(e, t)  == IF Aligned(t) THEN e ELSE INST_ADDR_MIS

\* restart and csr_init: the pc and the machine-mode CSRs ...
restart == /\ pc = 0
           /\ mstatus = [MIE |-> FALSE, MPIE |-> FALSE, MPP |-> 3, SIE |-> FALSE, SPIE |-> FALSE, SPP |-> 0]
           /\ mtvec = 0 /\ mepc = 0 /\ mcause = <<"exc", 0>> /\ mie = {} /\ mip = {}
\* ... and the rest of the machine; dnpc is an uninitialised local of execute.
init_rest == /\ image \in Images
             /\ dnpc \in Garbage /\ assigned = FALSE
             /\ cur_pri = PRV_M /\ medeleg = {} /\ mideleg = {}
             /\ sstatus = [SIE |-> FALSE, SPIE |-> FALSE, SPP |-> 0, b3 |-> FALSE]
             /\ stvec = 0 /\ sepc = 0 /\ scause = <<"exc", 0>> /\ sie = {} /\ sip = {}
             /\ exc = NONE /\ inst = NONE /\ rd = "kept"
             /\ phase = "fetch" /\ nemu = "RUNNING"
             /\ mctx = NONE /\ sctx = NONE
             /\ init_clint
Init == restart /\ init_rest
-----------------------------------------------------------------------------
(* irp_and.                                                                *)

\* MTIP follows the comparison of the CLINT words.
Polled_NoPoll == mip
Polled == IF TimerHit THEN mip \cup {MTI} ELSE mip \ {MTI}
have_IP == mie \cap Polled
\* find_irq_type_val: the highest pending interrupt number.
find_irq_type_val(p) == CHOOSE i \in p : \A j \in p : j <= i
\* The "S handles S" branch, whose handler is still to be written.
SSS == /\ mideleg # {}
       /\ cur_pri = PRV_S /\ sstatus.b3
       /\ sie \cap sip # {}

AtFetch == phase = "fetch" /\ nemu = "RUNNING"

\* The unfinished branch returns 1 with dnpc untouched.
irp_and_SSS == /\ AtFetch
               /\ mstatus.MIE /\ SSS
               /\ mip' = Polled
               /\ pc' = dnpc
               /\ UNCHANGED <<image, dnpc, cur_pri, mstatus, mtvec, mepc, mcause, medeleg, mideleg, mie,
                              svars, exc, inst, rd, phase, nemu, assigned, mctx, sctx, cvars>>

\* mstatus after a trap into M.
EnterM_KeepsMIE == [mstatus EXCEPT !.MPIE = mstatus.MIE, !.MPP = cur_pri]
EnterM_NoMPP    == [mstatus EXCEPT !.MPIE = mstatus.MIE, !.MIE = FALSE]
EnterM == [mstatus EXCEPT !.MPIE = mstatus.MIE, !.MIE = FALSE, !.MPP = cur_pri]

\* The vector of interrupt irq: direct, or vectored when bit 0 of mtvec is set.
InterruptVector(irq) == (mtvec + (4 * irq - 1) * (mtvec % 2)) % ADDR

irp_and_take ==
  /\ AtFetch
  /\ mstatus.MIE /\ ~SSS /\ have_IP # {}
  /\ LET irq == find_irq_type_val(have_IP)
         t   == InterruptVector(irq)
     IN  /\ mcause' = <<"irq", irq>>
         /\ dnpc' = DnpcAfter(dnpc, t)
         /\ exc' = ExcAfter(exc, t)
         /\ pc' = DnpcAfter(dnpc, t)
         /\ assigned' = (assigned \/ Aligned(t))
  /\ mip' = Polled
  /\ mepc' = pc
  /\ mstatus' = EnterM
  /\ cur_pri' = PRV_M
  /\ mctx' = [pc |-> pc, pri |-> cur_pri, ie |-> mstatus.MIE]
  /\ UNCHANGED <<image, mtvec, medeleg, mideleg, mie, svars, inst, rd, phase, nemu, sctx, cvars>>

\* No interrupt: the fetched instruction goes on to decode_exec.
irp_and_none ==
  /\ AtFetch
  /\ ~mstatus.MIE \/ (~SSS /\ have_IP = {})
  /\ mip' = Polled
  /\ inst' \in image
  /\ phase' = "exec"
  /\ UNCHANGED <<image, pc, dnpc, cur_pri, mstatus, mtvec, mepc, mcause, medeleg, mideleg, mie,
                 svars, exc, rd, nemu, assigned, mctx, sctx, cvars>>
-----------------------------------------------------------------------------
(* decode_exec, first half: dnpc_and_check(snpc), then the body.           *)

snpc_NoWrap == pc + 4
snpc == (pc + 4) % ADDR
Dnpc0 == DnpcAfter(dnpc, snpc)
Exc0  == ExcAfter(exc, snpc)

Executing(op) == phase = "exec" /\ inst.op = op

\* The body leaves the control flow to dnpc_and_check(snpc).
FallThrough_NoSnpc == UNCHANGED <<dnpc, exc, assigned>>
FallThrough == /\ dnpc' = Dnpc0 /\ exc' = Exc0
               /\ assigned' = (assigned \/ Aligned(snpc))
\* The body raises exception e on top of it.
Raise(e) == /\ dnpc' = Dnpc0 /\ exc' = e
            /\ assigned' = (assigned \/ Aligned(snpc))

\* RV32I/M/A instructions that write rd and fall through.
alu == /\ Executing("alu")
       /\ FallThrough /\ rd' = "written" /\ phase' = "retire"
       /\ UNCHANGED <<image, pc, cur_pri, mvars, svars, inst, nemu, mctx, sctx, cvars>>

\* jal, jalr and taken branches; a misaligned jalr clears rd.
jump == /\ phase = "exec" /\ inst.op \in {"jal", "jalr", "branch"}
        /\ IF Aligned(inst.target)
           THEN /\ dnpc' = inst.target /\ exc' = Exc0 /\ assigned' = TRUE
                /\ rd' = IF inst.op = "branch" THEN "kept" ELSE "written"
           ELSE /\ Raise(INST_ADDR_MIS)
                /\ rd' = IF inst.op = "jalr" THEN "zeroed" ELSE "kept"
        /\ phase' = "retire"
        /\ UNCHANGED <<image, pc, cur_pri, mvars, svars, inst, nemu, mctx, sctx, cvars>>

\* inv, and a CSR instruction on an unknown CSR.
inv == /\ Executing("inv")
       /\ Raise(ILLEGAL_INST) /\ rd' = "kept" /\ phase' = "retire"
       /\ UNCHANGED <<image, pc, cur_pri, mvars, svars, inst, nemu, mctx, sctx, cvars>>

\* ecall; a7 = 8 ("power") also ends the run.
ecall == /\ Executing("ecall")
         /\ Raise(U_ECALL + cur_pri) /\ rd' = "kept" /\ phase' = "retire"
         /\ nemu' = IF inst.a7 = "power" THEN "END" ELSE nemu
         /\ UNCHANGED <<image, pc, cur_pri, mvars, svars, inst, mctx, sctx, cvars>>

\* ebreak ends the run and leaves its address in mepc.
ebreak == /\ Executing("ebreak")
          /\ FallThrough /\ rd' = "kept" /\ phase' = "retire"
          /\ mepc' = pc /\ nemu' = "END"
          /\ UNCHANGED <<image, pc, cur_pri, mstatus, mtvec, mcause, medeleg, mideleg, mie, mip,
                         svars, inst, mctx, sctx, cvars>>

\* The value of CSR c after the CSR instruction.
Written(c, old) == IF inst.csr = c THEN inst.val ELSE old

csrw == /\ Executing("csrw")
        /\ FallThrough /\ rd' = "written" /\ phase' = "retire"
        /\ mstatus' = Written("mstatus", mstatus) /\ sstatus' = Written("sstatus", sstatus)
        /\ mtvec' = Written("mtvec", mtvec)       /\ stvec' = Written("stvec", stvec)
        /\ mepc' = Written("mepc", mepc)          /\ sepc' = Written("sepc", sepc)
        /\ medeleg' = Written("medeleg", medeleg) /\ mideleg' = Written("mideleg", mideleg)
        /\ mie' = Written("mie", mie)             /\ mip' = Written("mip", mip)
        /\ sie' = Written("sie", sie)             /\ sip' = Written("sip", sip)
        /\ mctx' = CASE inst.csr = "mstatus" \/ mctx = NONE -> NONE
                     [] OTHER -> [mctx EXCEPT !.pc = Written("mepc", @)]
        /\ sctx' = CASE inst.csr = "sstatus" \/ sctx = NONE -> NONE
                     [] OTHER -> [sctx EXCEPT !.pc = Written("sepc", @)]
        /\ UNCHANGED <<image, pc, cur_pri, mcause, scause, inst, nemu, cvars>>

\* mret: dnpc is set without the alignment check.
mret == /\ Executing("mret")
        /\ dnpc' = mepc /\ exc' = Exc0 /\ assigned' = TRUE
        /\ rd' = "kept" /\ phase' = "retire"
        /\ mstatus' = [mstatus EXCEPT !.MIE = mstatus.MPIE, !.MPIE = TRUE, !.MPP = PRV_U]
        /\ cur_pri' = mstatus.MPP
        /\ mctx' = NONE
        /\ UNCHANGED <<image, pc, mtvec, mepc, mcause, medeleg, mideleg, mie, mip, svars, inst, nemu, sctx, cvars>>

\* sret: SPIE is or-ed into SIE, and both status words are updated.
sret == /\ Executing("sret")
        /\ dnpc' = sepc /\ exc' = Exc0 /\ assigned' = TRUE
        /\ rd' = "kept" /\ phase' = "retire"
        /\ sstatus' = [sstatus EXCEPT !.SIE = @ \/ sstatus.SPIE, !.SPIE = TRUE, !.SPP = PRV_U]
        /\ mstatus' = [mstatus EXCEPT !.SPIE = TRUE, !.SPP = PRV_U]
        /\ cur_pri' = sstatus.SPP
        /\ sctx' = NONE
        /\ UNCHANGED <<image, pc, mtvec, mepc, mcause, medeleg, mideleg, mie, mip,
                       stvec, sepc, scause, sie, sip, inst, nemu, mctx, cvars>>

wfi == /\ Executing("wfi")
       /\ FallThrough /\ rd' = "kept" /\ phase' = "retire"
       /\ WfiAdvance
       /\ UNCHANGED <<image, pc, cur_pri, mvars, svars, inst, nemu, mctx, sctx>>

\* A store to the CLINT page.
sw == /\ Executing("sw")
      /\ FallThrough /\ rd' = "kept" /\ phase' = "retire"
      /\ ClintStore(inst.reg, inst.half, inst.val)
      /\ UNCHANGED <<image, pc, cur_pri, mvars, svars, inst, nemu, mctx, sctx>>
-----------------------------------------------------------------------------
(* decode_exec, second half, and exec_once: cpu.pc = dnpc.                 *)

Retiring == phase = "retire"
Delegated_FromM == exc \in medeleg
Delegated == cur_pri <= PRV_S /\ exc \in medeleg
\* The next isa_exec_once starts.
Boundary_KeepsExc == phase' = "fetch" /\ inst' = NONE /\ rd' = "kept" /\ UNCHANGED exc
Boundary == phase' = "fetch" /\ inst' = NONE /\ rd' = "kept" /\ exc' = NONE

retire == /\ Retiring /\ exc = NONE
          /\ pc' = dnpc
          /\ Boundary
          /\ UNCHANGED <<image, dnpc, cur_pri, mvars, svars, nemu, assigned, mctx, sctx, cvars>>

\* sstatus after a trap into S.
EnterS_NoSPP == [sstatus EXCEPT !.SPIE = sstatus.SIE, !.SIE = FALSE]
EnterS == [sstatus EXCEPT !.SPIE = sstatus.SIE, !.SIE = FALSE, !.SPP = cur_pri]

\* The exception is delegated to S; the misaligned-vector exception that
\* dnpc_and_check may raise here is dropped by recy_exception.
delegate ==
  /\ Retiring /\ exc # NONE /\ Delegated
  /\ scause' = <<"exc", exc>> /\ sepc' = pc
  /\ sstatus' = EnterS
  /\ cur_pri' = PRV_S
  /\ mstatus' = [mstatus EXCEPT !.SPIE = mstatus.SIE, !.SPP = PRV_S]
  /\ dnpc' = DnpcAfter(dnpc, stvec) /\ pc' = DnpcAfter(dnpc, stvec)
  /\ assigned' = (assigned \/ Aligned(stvec))
  /\ sctx' = [pc |-> pc, pri |-> cur_pri, ie |-> sstatus.SIE]
  /\ Boundary
  /\ UNCHANGED <<image, mtvec, mepc, mcause, medeleg, mideleg, mie, mip, stvec, sie, sip, nemu, mctx, cvars>>

\* illegal_instruction: the exception goes to M, cur_pri stays as it is.
illegal_instruction ==
  /\ Retiring /\ exc # NONE /\ ~Delegated
  /\ mcause' = <<"exc", exc>> /\ mepc' = pc
  /\ mstatus' = EnterM
  /\ dnpc' = DnpcAfter(dnpc, mtvec) /\ pc' = DnpcAfter(dnpc, mtvec)
  /\ assigned' = (assigned \/ Aligned(mtvec))
  /\ nemu' = IF exc >= U_ECALL /\ inst = [op |-> "ecall", a7 |-> "exit"] THEN "END" ELSE nemu
  /\ mctx' = [pc |-> pc, pri |-> cur_pri, ie |-> mstatus.MIE]
  /\ Boundary
  /\ UNCHANGED <<image, cur_pri, mtvec, medeleg, mideleg, mie, mip, svars, sctx, cvars>>
-----------------------------------------------------------------------------
\* Between two instructions the device tick may run ...
Tick == /\ AtFetch
        /\ clint_update
        /\ UNCHANGED <<image, pc, dnpc, cur_pri, mvars, svars, exc, inst, rd, phase, nemu, assigned, mctx, sctx>>

\* ... or execute(n) returns and a later cpu_exec declares a new Decode.
cpu_exec == /\ AtFetch
            /\ dnpc' \in Garbage /\ assigned' = FALSE
            /\ UNCHANGED <<image, pc, cur_pri, mvars, svars, exc, inst, rd, phase, nemu, mctx, sctx, cvars>>

irp_and == irp_and_SSS \/ irp_and_take \/ irp_and_none
Body == alu \/ jump \/ inv \/ ecall \/ ebreak \/ csrw \/ mret \/ sret \/ wfi \/ sw
Trap == delegate \/ illegal_instruction

isa_exec_once == irp_and \/ Body \/ retire \/ Trap

Next == isa_exec_once \/ Tick \/ cpu_exec

Spec == Init /\ [][Next]_vars
\* The interpreter loop keeps executing while the state is RUNNING.
FairSpec == Spec /\ WF_vars(isa_exec_once)
-----------------------------------------------------------------------------
TypeOK ==
  /\ pc \in Addr /\ dnpc \in Addr /\ assigned \in BOOLEAN /\ cur_pri \in 0 .. 3
  /\ mstatus \in MStatus /\ mtvec \in Addr /\ mepc \in Addr
  /\ mcause \in ({"exc"} \X Causes) \cup ({"irq"} \X Irqs)
  /\ medeleg \in SUBSET Causes /\ mideleg \in SUBSET Irqs
  /\ mie \in SUBSET Irqs /\ mip \in SUBSET Irqs
  /\ sstatus \in SStatus /\ stvec \in Addr /\ sepc \in Addr
  /\ scause \in {"exc"} \X Causes
  /\ sie \in SUBSET Irqs /\ sip \in SUBSET Irqs
  /\ exc \in Causes \cup {NONE}
  /\ image \in Images
  /\ inst \in image \cup {NONE} /\ (phase # "fetch" => inst \in image)
  /\ rd \in {"kept", "written", "zeroed"}
  /\ phase \in {"fetch", "exec", "retire"} /\ nemu \in {"RUNNING", "END"}
  /\ mctx \in Context \cup {NONE} /\ sctx \in Context \cup {NONE}
  /\ CTypeOK

(* What mret gives back is what the trap took: whatever S traps, srets,    *)
(* ticks and CSR writes other than to mstatus a machine handler goes       *)
(* through, its mret (inst.c:339) returns to the interrupted pc (or to the *)
(* one the handler put in mepc), privilege and interrupt enable.           *)
MretReturns ==
  [][mret /\ mctx # NONE => /\ dnpc' = mctx.pc
                            /\ cur_pri' = mctx.pri
                            /\ mstatus'.MIE = mctx.ie]_vars

(* The same for a delegated trap and sret (inst.c:334), although sret only *)
(* ever sets SIE: machine traps taken in between do not disturb it.        *)
SretReturns ==
  [][sret /\ sctx # NONE => /\ dnpc' = sctx.pc
                            /\ cur_pri' = sctx.pri
                            /\ sstatus'.SIE = sctx.ie]_vars

(* A machine trap handler is not preempted: irp_and (inst.c:162) takes no  *)
(* interrupt between a machine trap and the mret or mstatus write that     *)
(* ends its critical part.                                                 *)
HandlerNotPreempted == [][irp_and_take => mctx = NONE]_vars

(* No trap, delegated or not, lowers the privilege level: an exception in  *)
(* M is never handed to S (inst.c:377).                                    *)
TrapNeverLowersPrivilege == [][irp_and_take \/ Trap => cur_pri' >= cur_pri]_vars

(* An exception belongs to the instruction that raised it: at an           *)
(* instruction boundary have_RISCVException is clear, unless irp_and has   *)
(* just failed to enter a misaligned interrupt vector (inst.c:197), which  *)
(* charges the exception to the next instruction.                          *)
ExceptionsDoNotLeak ==
  phase = "fetch" /\ exc # NONE =>
     /\ mcause[1] = "irq" /\ ~Aligned(InterruptVector(mcause[2]))
     /\ mctx # NONE /\ cur_pri = PRV_M

(* "If there was a trap, do NOT allow register writeback."                 *)
(* (mini-rv32ima.h:509) holds with one exception: an instruction that      *)
(* changed rd (a CSR instruction, an alu instruction, jalr at inst.c:232)  *)
(* traps only for a misaligned pc, never for an exception that a CSR or an *)
(* earlier instruction raised.                                             *)
WritebackTrapsOnlyMisaligned == [][Trap /\ rd # "kept" => exc = INST_ADDR_MIS]_vars

(* cpu.pc is never loaded from a dnpc that no one has written since        *)
(* execute declared its Decode (cpu-exec.c:77), except through the         *)
(* unfinished S-interrupt branch or a misaligned trap vector.              *)
NextPcIsDefined ==
  [][irp_and_SSS \/ irp_and_take \/ retire \/ Trap =>
        assigned' \/ SSS \/ ~Aligned(mtvec) \/ ~Aligned(stvec)]_vars

(* When an instruction executes, a timer that was due at the last poll has *)
(* its MTIP bit set: the per-instruction poll of irp_and (inst.c:164-169)  *)
(* misses none, whatever the guest wrote to mip before.                    *)
DueTimerPending ==
  phase = "exec" /\ Value(mtime) > Value(mtimecmp) => MTI \in mip

(* The hart keeps executing instructions: interrupts, traps and ticks      *)
(* cannot keep it from reaching the end of one again and again, outside    *)
(* the unfinished S-interrupt branch.                                      *)
KeepsRetiring == []<>(phase = "retire" \/ nemu = "END" \/ (mstatus.MIE /\ SSS))
=============================================================================
