--------------------------- MODULE LockstepProofs ---------------------------
(***************************************************************************)
(* The trap machinery of Hart for every guest program, address space and   *)
(* word size: type correctness, and that traps and their returns fit       *)
(* together.  Then, for every set of comparable guest programs: the hart   *)
(* and MiniRV32IMA agree after each instruction.                           *)
(*                                                                         *)
(* Both are shown to implement one machine-mode core (Result, Trapped)     *)
(* whose state is what later pcs depend on.                                *)
(***************************************************************************)
EXTENDS Lockstep, Integers, TLAPS

\* Remainders stay inside the address space.
LEMMA ModAddr == \A x \in Nat : x % ADDR \in Addr
BY AddrAssumption DEF Addr

LEMMA SnpcType == pc \in Addr => snpc \in Addr
BY ModAddr, AddrAssumption DEF snpc, Addr

LEMMA AddrFacts == 0 \in Addr /\ Addr \subseteq Nat
BY AddrAssumption DEF Addr

\* find_irq_type_val picks a member of a non-empty set of interrupt numbers.
LEMMA HighestIrq ==
  ASSUME NEW p \in SUBSET Irqs, p # {}
  PROVE  find_irq_type_val(p) \in p
<1>1. \E i \in p : \A j \in p : j <= i
  <2>1. CASE 11 \in p
    BY <2>1 DEF Irqs
  <2>2. CASE 11 \notin p /\ 9 \in p
    BY <2>2 DEF Irqs
  <2>3. CASE 11 \notin p /\ 9 \notin p /\ 7 \in p
    BY <2>3 DEF Irqs
  <2>4. CASE 11 \notin p /\ 9 \notin p /\ 7 \notin p /\ 5 \in p
    BY <2>4 DEF Irqs
  <2>5. CASE 11 \notin p /\ 9 \notin p /\ 7 \notin p /\ 5 \notin p /\ 3 \in p
    BY <2>5 DEF Irqs
  <2>6. CASE 11 \notin p /\ 9 \notin p /\ 7 \notin p /\ 5 \notin p /\ 3 \notin p
    <3>1. \A j \in p : j = 1
      BY <2>6 DEF Irqs
    <3>2. 1 \in p
      BY <3>1
    <3>. QED BY <3>1, <3>2
  <2>. QED BY <2>1, <2>2, <2>3, <2>4, <2>5, <2>6
<1>. QED BY <1>1 DEF find_irq_type_val

LEMMA VectorType ==
  ASSUME mtvec \in Addr, NEW irq \in Irqs
  PROVE  InterruptVector(irq) \in Addr
<1>1. mtvec % 2 \in 0 .. 1 /\ mtvec \in Nat
  BY AddrFacts
<1>2. 4 * irq - 1 \in Nat
  BY DEF Irqs
<1>3. (4 * irq - 1) * (mtvec % 2) \in Nat
  BY <1>1, <1>2
<1>. QED BY <1>1, <1>3, ModAddr DEF InterruptVector

\* dnpc_and_check keeps dnpc an address and the exception a cause.
LEMMA CheckType ==
  ASSUME NEW d \in Addr, NEW t \in Addr, NEW e \in Causes \cup {NONE}
  PROVE  DnpcAfter(d, t) \in Addr /\ ExcAfter(e, t) \in Causes \cup {NONE}
BY DEF DnpcAfter, ExcAfter, Causes

LEMMA BodyTypes ==
  ASSUME TypeOK
  PROVE  /\ Dnpc0 \in Addr /\ Exc0 \in Causes \cup {NONE}
         /\ DnpcAfter(dnpc, stvec) \in Addr
         /\ DnpcAfter(dnpc, mtvec) \in Addr
         /\ Aligned(snpc) \in BOOLEAN
BY CheckType, SnpcType DEF TypeOK, Dnpc0, Exc0, Aligned

\* The timer poll keeps mip a set of interrupt numbers.
LEMMA PolledType == mip \in SUBSET Irqs => Polled \in SUBSET Irqs
BY DEF Polled, Irqs, MTI

\* A CSR write keeps the type of each CSR.
LEMMA CsrwTypes ==
  ASSUME TypeOK, Executing("csrw")
  PROVE  /\ Written("mstatus", mstatus) \in MStatus
         /\ Written("sstatus", sstatus) \in SStatus
         /\ Written("mtvec", mtvec) \in Addr /\ Written("stvec", stvec) \in Addr
         /\ Written("mepc", mepc) \in Addr /\ Written("sepc", sepc) \in Addr
         /\ Written("medeleg", medeleg) \in SUBSET Causes
         /\ Written("mideleg", mideleg) \in SUBSET Irqs
         /\ Written("mie", mie) \in SUBSET Irqs /\ Written("mip", mip) \in SUBSET Irqs
         /\ Written("sie", sie) \in SUBSET Irqs /\ Written("sip", sip) \in SUBSET Irqs
<1>1. inst.val \in CsrType(inst.csr)
  BY ImagesAssumption DEF TypeOK, Executing
<1>2. /\ inst.csr = "mstatus" => inst.val \in MStatus
      /\ inst.csr = "sstatus" => inst.val \in SStatus
      /\ inst.csr \in {"mtvec", "stvec", "mepc", "sepc"} => inst.val \in Addr
      /\ inst.csr = "medeleg" => inst.val \in SUBSET Causes
      /\ inst.csr \in {"mideleg", "mie", "mip", "sie", "sip"} => inst.val \in SUBSET Irqs
  BY <1>1 DEF CsrType
<1>. QED BY <1>2 DEF TypeOK, Written

\* Every CLINT access keeps both registers pairs of words.
LEMMA ClintTypes ==
  ASSUME CTypeOK
  PROVE  /\ clint_update => CTypeOK'
         /\ WfiAdvance => CTypeOK'
         /\ \A reg : \A half \in {"hi", "lo"} : \A v \in Word :
               ClintStore(reg, half, v) => CTypeOK'
<1>1. \A x \in Nat : x % W \in Word
  BY WAssumption DEF Word
<1>2. 0 \in Word /\ Word \subseteq Nat /\ W - 1 \in Word
  BY WAssumption DEF Word
<1>3. clint_update => CTypeOK'
  <2>1. mtime.lo # W - 1 /\ mtime.lo \in Word => mtime.lo + 1 \in Word
    BY WAssumption DEF Word
  <2>. QED BY <1>1, <1>2, <2>1 DEF clint_update, CTypeOK, Pair
<1>4. WfiAdvance => CTypeOK'
  BY <1>1, <1>2, WfiAssumption DEF WfiAdvance, CTypeOK, Pair
<1>5. ASSUME NEW reg, NEW half \in {"hi", "lo"}, NEW v \in Word, ClintStore(reg, half, v)
      PROVE  CTypeOK'
  BY <1>5 DEF ClintStore, CTypeOK, Pair
<1>. QED BY <1>3, <1>4, <1>5

\* Updates of the status words keep their types.
LEMMA StatusTypes ==
  /\ \A m \in MStatus : \A a, b \in BOOLEAN : \A p \in 0 .. 3 :
        [m EXCEPT !.MIE = a, !.MPIE = b, !.MPP = p] \in MStatus
  /\ \A m \in MStatus : \A a \in BOOLEAN : \A p \in 0 .. 1 :
        [m EXCEPT !.SPIE = a, !.SPP = p] \in MStatus
  /\ \A s \in SStatus : \A a, b \in BOOLEAN : \A p \in 0 .. 1 :
        [s EXCEPT !.SIE = a, !.SPIE = b, !.SPP = p] \in SStatus
  /\ \A m \in MStatus : /\ m.MIE \in BOOLEAN /\ m.MPIE \in BOOLEAN /\ m.MPP \in 0 .. 3
                        /\ m.SIE \in BOOLEAN
  /\ \A s \in SStatus : s.SIE \in BOOLEAN /\ s.SPIE \in BOOLEAN /\ s.SPP \in 0 .. 1
BY DEF MStatus, SStatus

\* What the two ways to start have in common: init_isa alone, and with the
\* reference's registers copied over.
Started == /\ init_rest
           /\ pc = 0 /\ mtvec = 0 /\ mepc = 0 /\ mcause = <<"exc", 0>> /\ mie = {} /\ mip = {}
           /\ mstatus \in MStatus /\ mstatus.MIE = FALSE /\ mstatus.MPIE = FALSE

\* Both kinds of run begin that way.
LEMMA InitStarted == (Init => Started) /\ (LInit => Started)
<1>1. restart /\ init_rest => Started
  BY DEF restart, Started, MStatus
<1>2. Init => Started
  BY <1>1 DEF Init
<1>3. difftest_regcpy(Ref!init_vm) /\ init_rest => Started
  <2> SUFFICES ASSUME difftest_regcpy(Ref!init_vm), init_rest
               PROVE  Started
    OBVIOUS
  <2>1. /\ pc = 0 /\ mtvec = 0 /\ mepc = 0 /\ mcause = <<"exc", 0>> /\ mie = {} /\ mip = {}
        /\ mstatus = [MIE |-> FALSE, MPIE |-> FALSE, MPP |-> 0,
                      SIE |-> FALSE, SPIE |-> FALSE, SPP |-> 0]
    BY DEF difftest_regcpy, Ref!init_vm
  <2> QED
    BY <2>1 DEF Started, MStatus
<1>4. LInit => Started
  BY <1>1, <1>3 DEF LInit
<1>. QED BY <1>2, <1>4

LEMMA InitType == Started => TypeOK
<1>. SUFFICES ASSUME Started
              PROVE  TypeOK
  OBVIOUS
<1>1. CTypeOK
  BY WAssumption DEF Started, init_rest, init_clint, CTypeOK, Pair, Word
<1>2. pc \in Addr /\ dnpc \in Addr /\ mtvec \in Addr /\ mepc \in Addr /\ stvec \in Addr /\ sepc \in Addr
  BY AddrFacts, GarbageAssumption DEF Started, init_rest
<1>3. mstatus \in MStatus /\ sstatus \in SStatus
  BY DEF Started, init_rest, SStatus
<1>4. mcause \in ({"exc"} \X Causes) \cup ({"irq"} \X Irqs) /\ scause \in {"exc"} \X Causes
  BY DEF Started, init_rest, Causes, INST_ADDR_MIS
<1>5. cur_pri \in 0 .. 3 /\ phase = "fetch" /\ nemu = "RUNNING" /\ rd = "kept"
  BY DEF Started, init_rest, PRV_M
<1>6. image \in Images /\ assigned = FALSE /\ exc = NONE /\ inst = NONE /\ mctx = NONE /\ sctx = NONE
      /\ medeleg = {} /\ mideleg = {} /\ mie = {} /\ mip = {} /\ sie = {} /\ sip = {}
  BY DEF Started, init_rest
<1>. QED BY <1>1, <1>2, <1>3, <1>4, <1>5, <1>6 DEF TypeOK

LEMMA NextType == TypeOK /\ [Next]_vars => TypeOK'
<1>. SUFFICES ASSUME TypeOK, [Next]_vars
              PROVE  TypeOK'
  OBVIOUS
<1>1. CASE irp_and_SSS
  BY <1>1, PolledType DEF irp_and_SSS, AtFetch, TypeOK, svars, cvars, CTypeOK
<1>2. CASE irp_and_take
  <2>. DEFINE irq == find_irq_type_val(have_IP)
              t == InterruptVector(irq)
  <2>1. Polled \in SUBSET Irqs /\ have_IP \in SUBSET Irqs /\ have_IP # {}
    BY <1>2, PolledType DEF irp_and_take, have_IP, TypeOK
  <2>2. irq \in Irqs
    BY <2>1, HighestIrq
  <2>3. t \in Addr
    BY <2>2, VectorType DEF TypeOK
  <2>4. DnpcAfter(dnpc, t) \in Addr /\ ExcAfter(exc, t) \in Causes \cup {NONE}
    BY <2>3, CheckType DEF TypeOK
  <2>. HIDE DEF irq, t
  <2>5. /\ mcause' = <<"irq", irq>> /\ dnpc' = DnpcAfter(dnpc, t) /\ exc' = ExcAfter(exc, t)
        /\ pc' = DnpcAfter(dnpc, t) /\ assigned' = (assigned \/ Aligned(t))
    BY <1>2 DEF irp_and_take, irq, t
  <2>6. mstatus' \in MStatus
    BY <1>2 DEF irp_and_take, EnterM, TypeOK, MStatus
  <2>7. mctx' \in Context
    BY <1>2 DEF irp_and_take, EnterM, TypeOK, MStatus, Context
  <2>8. assigned' \in BOOLEAN /\ cur_pri' \in 0 .. 3
    BY <1>2, <2>5 DEF irp_and_take, TypeOK, PRV_M, Aligned
  <2>. QED BY <1>2, <2>1, <2>2, <2>4, <2>5, <2>6, <2>7, <2>8
           DEF irp_and_take, AtFetch, TypeOK, svars, cvars, CTypeOK
<1>3. CASE irp_and_none
  BY <1>3, PolledType DEF irp_and_none, AtFetch, TypeOK, svars, cvars, CTypeOK
<1>4. CASE alu
  BY <1>4, BodyTypes DEF alu, FallThrough, Executing, TypeOK, mvars, svars, cvars, CTypeOK
<1>5. CASE jump
  <2>1. inst.target \in Addr
    BY <1>5, ImagesAssumption DEF jump, TypeOK
  <2>2. dnpc' \in Addr /\ exc' \in Causes \cup {NONE} /\ assigned' \in BOOLEAN
        /\ rd' \in {"kept", "written", "zeroed"}
    BY <1>5, <2>1, BodyTypes DEF jump, Raise, TypeOK, Causes
  <2>. QED BY <1>5, <2>2 DEF jump, TypeOK, mvars, svars, cvars, CTypeOK
<1>6. CASE inv
  BY <1>6, BodyTypes DEF inv, Raise, Executing, TypeOK, mvars, svars, cvars, CTypeOK, Causes
<1>7. CASE ecall
  <2>1. U_ECALL + cur_pri \in Causes
    BY DEF TypeOK, Causes, U_ECALL, PRV_M
  <2>. QED BY <1>7, <2>1, BodyTypes DEF ecall, Raise, Executing, TypeOK, mvars, svars, cvars, CTypeOK
<1>8. CASE ebreak
  BY <1>8, BodyTypes DEF ebreak, FallThrough, Executing, TypeOK, svars, cvars, CTypeOK
<1>9. CASE csrw
  <2>1. mctx' \in Context \cup {NONE}
    BY <1>9, CsrwTypes DEF csrw, TypeOK, Context, Written
  <2>2. sctx' \in Context \cup {NONE}
    BY <1>9, CsrwTypes DEF csrw, TypeOK, Context, Written
  <2>3. Executing("csrw")
    BY <1>9 DEF csrw
  <2>. QED BY <1>9, <2>1, <2>2, <2>3, CsrwTypes, BodyTypes
           DEF csrw, FallThrough, Executing, TypeOK, cvars, CTypeOK
<1>10. CASE mret
  <2>1. mstatus' \in MStatus /\ cur_pri' \in 0 .. 3
    <3>1. mstatus' = [mstatus EXCEPT !.MIE = mstatus.MPIE, !.MPIE = TRUE, !.MPP = 0]
      BY <1>10 DEF mret, PRV_U
    <3>2. mstatus \in MStatus /\ mstatus.MPIE \in BOOLEAN /\ mstatus.MPP \in 0 .. 3
      BY StatusTypes DEF TypeOK
    <3>3. TRUE \in BOOLEAN /\ 0 \in 0 .. 3
      OBVIOUS
    <3>4. mstatus' \in MStatus
      BY <3>1, <3>2, <3>3, StatusTypes, Zenon
    <3>. QED BY <1>10, <3>2, <3>4 DEF mret
  <2>. QED BY <1>10, <2>1, BodyTypes DEF mret, Executing, TypeOK, svars, cvars, CTypeOK
<1>11. CASE sret
  <2>1. mstatus' \in MStatus /\ sstatus' \in SStatus /\ cur_pri' \in 0 .. 3
    <3>1. mstatus' = [mstatus EXCEPT !.SPIE = TRUE, !.SPP = 0]
      BY <1>11 DEF sret, PRV_U
    <3>2. mstatus' \in MStatus
      <4>1. mstatus \in MStatus /\ TRUE \in BOOLEAN /\ 0 \in 0 .. 1
        BY DEF TypeOK
      <4>. QED BY <3>1, <4>1, StatusTypes, Zenon
    <3>3. sstatus' = [sstatus EXCEPT !.SIE = sstatus.SIE \/ sstatus.SPIE, !.SPIE = TRUE, !.SPP = 0]
      BY <1>11 DEF sret, PRV_U
    <3>4. sstatus' \in SStatus
      <4>1. /\ sstatus \in SStatus /\ TRUE \in BOOLEAN /\ 0 \in 0 .. 1
            /\ (sstatus.SIE \/ sstatus.SPIE) \in BOOLEAN
        BY DEF TypeOK
      <4>. QED BY <3>3, <4>1, StatusTypes, Zenon
    <3>5. cur_pri' \in 0 .. 3
      BY <1>11 DEF sret, TypeOK, SStatus
    <3>. QED BY <3>2, <3>4, <3>5
  <2>. QED BY <1>11, <2>1, BodyTypes DEF sret, Executing, TypeOK, cvars, CTypeOK
<1>12. CASE wfi
  <2>1. CTypeOK'
    BY <1>12, ClintTypes DEF wfi, TypeOK
  <2>. QED BY <1>12, <2>1, BodyTypes DEF wfi, FallThrough, Executing, TypeOK, mvars, svars
<1>13. CASE sw
  <2>1. inst.half \in {"hi", "lo"} /\ inst.val \in Word
    BY <1>13, ImagesAssumption DEF sw, Executing, TypeOK
  <2>2. CTypeOK'
    BY <1>13, <2>1, ClintTypes DEF sw, TypeOK
  <2>. QED BY <1>13, <2>2, BodyTypes DEF sw, FallThrough, Executing, TypeOK, mvars, svars
<1>14. CASE retire
  BY <1>14 DEF retire, Retiring, Boundary, TypeOK, mvars, svars, cvars, CTypeOK
<1>15. CASE delegate
  <2>1. mstatus' \in MStatus
    <3>1. mstatus' = [mstatus EXCEPT !.SPIE = mstatus.SIE, !.SPP = 1]
      BY <1>15 DEF delegate, PRV_S
    <3>2. mstatus \in MStatus
      BY DEF TypeOK
    <3>3. mstatus.SIE \in BOOLEAN
      BY <3>2, StatusTypes
    <3>4. 1 \in 0 .. 1
      OBVIOUS
    <3>. QED BY <3>1, <3>2, <3>3, <3>4, StatusTypes, Zenon
  <2>2. cur_pri \in 0 .. 1 /\ exc \in Causes
    BY <1>15 DEF delegate, Delegated, TypeOK, PRV_S
  <2>3. sstatus' \in SStatus /\ sctx' \in Context
    BY <1>15, <2>2 DEF delegate, EnterS, TypeOK, SStatus, Context
  <2>4. assigned' \in BOOLEAN /\ cur_pri' \in 0 .. 3
    BY <1>15 DEF delegate, TypeOK, Aligned, PRV_S
  <2>. QED BY <1>15, <2>1, <2>2, <2>3, <2>4, BodyTypes
           DEF delegate, Retiring, Boundary, TypeOK, cvars, CTypeOK
<1>16. CASE illegal_instruction
  <2>1. mstatus' \in MStatus /\ mctx' \in Context
    BY <1>16 DEF illegal_instruction, EnterM, TypeOK, MStatus, Context
  <2>2. exc \in Causes /\ assigned' \in BOOLEAN /\ nemu' \in {"RUNNING", "END"}
    BY <1>16 DEF illegal_instruction, TypeOK, Aligned
  <2>. QED BY <1>16, <2>1, <2>2, BodyTypes
           DEF illegal_instruction, Retiring, Boundary, TypeOK, svars, cvars, CTypeOK
<1>17. CASE Tick
  BY <1>17, ClintTypes DEF Tick, AtFetch, TypeOK, mvars, svars
<1>18. CASE cpu_exec
  BY <1>18, GarbageAssumption DEF cpu_exec, AtFetch, TypeOK, mvars, svars, cvars, CTypeOK
<1>19. CASE UNCHANGED vars
  BY <1>19 DEF vars, mvars, svars, cvars, TypeOK, CTypeOK
<1>. QED BY <1>1, <1>2, <1>3, <1>4, <1>5, <1>6, <1>7, <1>8, <1>9, <1>10, <1>11, <1>12, <1>13,
            <1>14, <1>15, <1>16, <1>17, <1>18, <1>19
         DEF Next, isa_exec_once, irp_and, Body, Trap

(* Every reachable state of the hart is typed, for every guest program:    *)
(* no path through irp_and and decode_exec leaves an out-of-range          *)
(* privilege, cause or address behind.                                     *)
THEOREM TypeCorrect == Spec => []TypeOK
BY InitStarted, InitType, NextType, PTL DEF Spec
-----------------------------------------------------------------------------
(* The inductive invariant behind the trap properties.  While a context is *)
(* open (mctx, sctx), the CSRs its return instruction reads still hold it, *)
(* and the interrupt enable of its level is off.  ebreak overwrites mepc,  *)
(* but only as the run ends.                                               *)
OnlyRunningExecutes == phase = "exec" => nemu = "RUNNING"
MctxKept == nemu = "RUNNING" /\ mctx # NONE =>
               /\ mepc = mctx.pc
               /\ mstatus.MPP = mctx.pri
               /\ mstatus.MPIE = mctx.ie
               /\ mstatus.MIE = FALSE
SctxKept == sctx # NONE => /\ sepc = sctx.pc
                           /\ sstatus.SPP = sctx.pri
                           /\ sstatus.SPIE = sctx.ie
                           /\ sstatus.SIE = FALSE
HInv == TypeOK /\ OnlyRunningExecutes /\ MctxKept /\ SctxKept

LEMMA InitHInv == Started => HInv
<1>. SUFFICES ASSUME Started
              PROVE  HInv
  OBVIOUS
<1>. QED BY InitType DEF Started, init_rest, HInv, OnlyRunningExecutes, MctxKept, SctxKept

LEMMA NextHInv == HInv /\ [Next]_vars => HInv'
<1>. SUFFICES ASSUME HInv, [Next]_vars
              PROVE  HInv'
  OBVIOUS
<1>0. TypeOK'
  BY NextType DEF HInv
<1>. USE <1>0 DEF HInv
<1>1. CASE irp_and_SSS
  BY <1>1 DEF irp_and_SSS, AtFetch, svars, OnlyRunningExecutes, MctxKept, SctxKept
<1>2. CASE irp_and_take
  <2>1. MctxKept'
    <3>1. mctx' = [pc |-> pc, pri |-> cur_pri, ie |-> mstatus.MIE]
      BY <1>2 DEF irp_and_take, EnterM
    <3>2. mepc' = pc /\ mstatus' = [mstatus EXCEPT !.MPIE = mstatus.MIE, !.MIE = FALSE, !.MPP = cur_pri]
      BY <1>2 DEF irp_and_take, EnterM
    <3>. QED BY <3>1, <3>2 DEF MctxKept, TypeOK, MStatus
  <2>. QED BY <1>2, <2>1 DEF irp_and_take, AtFetch, svars, OnlyRunningExecutes, SctxKept
<1>3. CASE irp_and_none
  BY <1>3 DEF irp_and_none, AtFetch, svars, OnlyRunningExecutes, MctxKept, SctxKept
<1>4. CASE alu \/ jump \/ inv
  BY <1>4 DEF alu, jump, inv, mvars, svars, OnlyRunningExecutes, MctxKept, SctxKept
<1>5. CASE ecall
  BY <1>5 DEF ecall, mvars, svars, OnlyRunningExecutes, MctxKept, SctxKept
<1>6. CASE ebreak
  BY <1>6 DEF ebreak, svars, OnlyRunningExecutes, MctxKept, SctxKept
<1>7. CASE csrw
  <2>1. MctxKept'
    <3>1. CASE inst.csr = "mstatus" \/ mctx = NONE
      BY <1>7, <3>1 DEF csrw, MctxKept
    <3>2. CASE ~(inst.csr = "mstatus" \/ mctx = NONE)
      <4>1. mctx' = [mctx EXCEPT !.pc = Written("mepc", @)] /\ mstatus' = mstatus /\ nemu' = nemu
        BY <1>7, <3>2 DEF csrw, Written
      <4>2. mepc' = Written("mepc", mepc)
        BY <1>7 DEF csrw
      <4>3. mctx \in Context
        BY <3>2 DEF TypeOK
      <4>. QED BY <4>1, <4>2, <4>3, <3>2 DEF MctxKept, Written, Context
    <3>. QED BY <3>1, <3>2
  <2>2. SctxKept'
    <3>1. CASE inst.csr = "sstatus" \/ sctx = NONE
      BY <1>7, <3>1 DEF csrw, SctxKept
    <3>2. CASE ~(inst.csr = "sstatus" \/ sctx = NONE)
      <4>1. sctx' = [sctx EXCEPT !.pc = Written("sepc", @)] /\ sstatus' = sstatus
        BY <1>7, <3>2 DEF csrw, Written
      <4>2. sepc' = Written("sepc", sepc)
        BY <1>7 DEF csrw
      <4>3. sctx \in Context
        BY <3>2 DEF TypeOK
      <4>. QED BY <4>1, <4>2, <4>3, <3>2 DEF SctxKept, Written, Context
    <3>. QED BY <3>1, <3>2
  <2>3. OnlyRunningExecutes'
    BY <1>7 DEF csrw, OnlyRunningExecutes
  <2>. QED BY <2>1, <2>2, <2>3
<1>8. CASE mret
  BY <1>8 DEF mret, svars, OnlyRunningExecutes, MctxKept, SctxKept
<1>9. CASE sret
  <2>1. /\ mstatus'.MPP = mstatus.MPP /\ mstatus'.MPIE = mstatus.MPIE
        /\ mstatus'.MIE = mstatus.MIE
    BY <1>9 DEF sret, TypeOK, MStatus
  <2>. QED BY <1>9, <2>1 DEF sret, OnlyRunningExecutes, MctxKept, SctxKept
<1>10. CASE wfi \/ sw
  BY <1>10 DEF wfi, sw, mvars, svars, OnlyRunningExecutes, MctxKept, SctxKept
<1>11. CASE retire
  BY <1>11 DEF retire, Boundary, mvars, svars, OnlyRunningExecutes, MctxKept, SctxKept
<1>12. CASE delegate
  <2>1. /\ mstatus'.MPP = mstatus.MPP /\ mstatus'.MPIE = mstatus.MPIE
        /\ mstatus'.MIE = mstatus.MIE
    BY <1>12 DEF delegate, EnterS, TypeOK, MStatus
  <2>2. SctxKept'
    <3>1. sctx' = [pc |-> pc, pri |-> cur_pri, ie |-> sstatus.SIE] /\ sepc' = pc
      BY <1>12 DEF delegate, EnterS
    <3>2. sstatus' = [sstatus EXCEPT !.SPIE = sstatus.SIE, !.SIE = FALSE, !.SPP = cur_pri]
      BY <1>12 DEF delegate, EnterS
    <3>. QED BY <3>1, <3>2 DEF SctxKept, TypeOK, SStatus
  <2>. QED BY <1>12, <2>1, <2>2 DEF delegate, Boundary, OnlyRunningExecutes, MctxKept
<1>13. CASE illegal_instruction
  <2>1. MctxKept'
    <3>1. mctx' = [pc |-> pc, pri |-> cur_pri, ie |-> mstatus.MIE]
      BY <1>13 DEF illegal_instruction, EnterM
    <3>2. mepc' = pc /\ mstatus' = [mstatus EXCEPT !.MPIE = mstatus.MIE, !.MIE = FALSE, !.MPP = cur_pri]
      BY <1>13 DEF illegal_instruction, EnterM
    <3>. QED BY <3>1, <3>2 DEF MctxKept, TypeOK, MStatus
  <2>. QED BY <1>13, <2>1 DEF illegal_instruction, Boundary, svars, OnlyRunningExecutes, SctxKept
<1>14. CASE Tick \/ cpu_exec
  BY <1>14 DEF Tick, cpu_exec, mvars, svars, OnlyRunningExecutes, MctxKept, SctxKept
<1>15. CASE UNCHANGED vars
  BY <1>15 DEF vars, mvars, svars, OnlyRunningExecutes, MctxKept, SctxKept
<1>. QED BY <1>1, <1>2, <1>3, <1>4, <1>5, <1>6, <1>7, <1>8, <1>9, <1>10, <1>11, <1>12, <1>13,
            <1>14, <1>15
         DEF Next, isa_exec_once, irp_and, Body, Trap

LEMMA HInvariance == Spec => []HInv
BY InitStarted, InitHInv, NextHInv, PTL DEF Spec

(* For every guest program: the mret that ends an undisturbed machine      *)
(* handler returns to the interrupted pc, privilege and interrupt enable   *)
(* (irp_and, illegal_instruction and mret of inst.c agree on mepc and      *)
(* mstatus), whatever delegated traps and srets ran in between.            *)
THEOREM MretReturnsAlways == Spec => MretReturns
<1>1. HInv /\ [Next]_vars =>
        [mret /\ mctx # NONE => /\ dnpc' = mctx.pc
                                /\ cur_pri' = mctx.pri
                                /\ mstatus'.MIE = mctx.ie]_vars
  <2>. SUFFICES ASSUME HInv, mret, mctx # NONE
                PROVE  dnpc' = mctx.pc /\ cur_pri' = mctx.pri /\ mstatus'.MIE = mctx.ie
    OBVIOUS
  <2>1. nemu = "RUNNING"
    BY DEF HInv, OnlyRunningExecutes, mret, Executing
  <2>2. mepc = mctx.pc /\ mstatus.MPP = mctx.pri /\ mstatus.MPIE = mctx.ie
    BY <2>1 DEF HInv, MctxKept
  <2>3. mstatus'.MIE = mstatus.MPIE
    BY DEF HInv, TypeOK, MStatus, mret
  <2>. QED BY <2>2, <2>3 DEF mret
<1>. QED BY <1>1, HInvariance, PTL DEF Spec, MretReturns

\* sret gives back the context of the last delegated trap.
LEMMA SretRestores ==
  ASSUME HInv, sret, sctx # NONE
  PROVE  dnpc' = sctx.pc /\ cur_pri' = sctx.pri /\ sstatus'.SIE = sctx.ie
<1>1. /\ sepc = sctx.pc /\ sstatus.SPP = sctx.pri /\ sstatus.SPIE = sctx.ie
      /\ sstatus.SIE = FALSE
  BY DEF HInv, SctxKept
<1>2. sstatus'.SIE = (sstatus.SIE \/ sstatus.SPIE)
  BY DEF HInv, TypeOK, SStatus, sret
<1>3. sstatus.SPIE \in BOOLEAN
  BY DEF HInv, TypeOK, SStatus
<1>4. sstatus'.SIE = sctx.ie
  BY <1>1, <1>2, <1>3
<1>. QED BY <1>1, <1>4 DEF sret

(* The same for sret and a trap delegated to S.                            *)
THEOREM SretReturnsAlways == Spec => SretReturns
<1>1. HInv /\ [Next]_vars =>
        [sret /\ sctx # NONE => /\ dnpc' = sctx.pc
                                /\ cur_pri' = sctx.pri
                                /\ sstatus'.SIE = sctx.ie]_vars
  BY SretRestores
<1>. QED BY <1>1, HInvariance, PTL DEF Spec, SretReturns

(* No guest program can get a machine handler preempted before it returns  *)
(* or rewrites mstatus: irp_and sees MIE off until then.                   *)
THEOREM HandlerNotPreemptedAlways == Spec => HandlerNotPreempted
<1>1. HInv /\ [Next]_vars => [irp_and_take => mctx = NONE]_vars
  BY DEF HInv, MctxKept, irp_and_take, AtFetch
<1>. QED BY <1>1, HInvariance, PTL DEF Spec, HandlerNotPreempted

\* Interrupts, exceptions and delegated exceptions do not lower the level.
LEMMA TrapsRaise ==
  ASSUME HInv, irp_and_take \/ Trap
  PROVE  cur_pri' >= cur_pri
<1>1. cur_pri \in 0 .. 3
  BY DEF HInv, TypeOK
<1>2. CASE irp_and_take
  BY <1>1, <1>2 DEF irp_and_take, PRV_M
<1>3. CASE delegate
  BY <1>1, <1>3 DEF delegate, Delegated, PRV_S
<1>4. CASE illegal_instruction
  BY <1>1, <1>4 DEF illegal_instruction
<1>. QED BY <1>2, <1>3, <1>4 DEF Trap

(* For every guest program, no trap lowers the privilege level.            *)
THEOREM TrapNeverLowersPrivilegeAlways == Spec => TrapNeverLowersPrivilege
<1>1. HInv /\ [Next]_vars => [irp_and_take \/ Trap => cur_pri' >= cur_pri]_vars
  BY TrapsRaise
<1>. QED BY <1>1, HInvariance, PTL DEF Spec, TrapNeverLowersPrivilege

(* An exception never outlives its instruction, except through a           *)
(* misaligned interrupt vector.                                            *)
LEMMA NextNoLeak == HInv /\ ExceptionsDoNotLeak /\ [Next]_vars => ExceptionsDoNotLeak'
<1>. SUFFICES ASSUME HInv, ExceptionsDoNotLeak, [Next]_vars
              PROVE  ExceptionsDoNotLeak'
  OBVIOUS
<1>1. CASE irp_and_SSS
  <2>1. exc = NONE
    BY <1>1 DEF irp_and_SSS, AtFetch, ExceptionsDoNotLeak, HInv, MctxKept
  <2>. QED BY <1>1, <2>1 DEF irp_and_SSS, ExceptionsDoNotLeak
<1>2. CASE irp_and_take
  <2>1. exc = NONE
    BY <1>2 DEF irp_and_take, AtFetch, ExceptionsDoNotLeak, HInv, MctxKept
  <2>. DEFINE irq == find_irq_type_val(have_IP)
  <2>2. mcause' = <<"irq", irq>> /\ exc' = ExcAfter(exc, InterruptVector(irq)) /\ mtvec' = mtvec
    BY <1>2 DEF irp_and_take
  <2>3. mctx' = [pc |-> pc, pri |-> cur_pri, ie |-> mstatus.MIE] /\ cur_pri' = PRV_M
    BY <1>2 DEF irp_and_take
  <2>4. mctx' \in Context
    BY <2>3 DEF HInv, TypeOK, Context, MStatus
  <2>5. mctx' # NONE
    BY <2>4, NoneAssumption
  <2>. HIDE DEF irq
  <2>6. mcause'[1] = "irq" /\ mcause'[2] = irq
    BY <2>2
  <2>7. exc' # NONE => ~Aligned(InterruptVector(irq))
    BY <2>1, <2>2 DEF ExcAfter
  <2>8. ~Aligned(InterruptVector(irq)) => ~Aligned(InterruptVector(mcause[2]))'
    BY <2>2, <2>6 DEF InterruptVector, Aligned
  <2>. QED BY <2>3, <2>5, <2>6, <2>7, <2>8 DEF ExceptionsDoNotLeak
<1>3. CASE irp_and_none
  BY <1>3 DEF irp_and_none, ExceptionsDoNotLeak
<1>4. CASE Body
  BY <1>4 DEF Body, alu, jump, inv, ecall, ebreak, csrw, mret, sret, wfi, sw, ExceptionsDoNotLeak
<1>5. CASE retire \/ Trap
  BY <1>5 DEF retire, Trap, delegate, illegal_instruction, Boundary, ExceptionsDoNotLeak
<1>6. CASE Tick \/ cpu_exec
  BY <1>6 DEF Tick, cpu_exec, mvars, ExceptionsDoNotLeak, InterruptVector, Aligned
<1>7. CASE UNCHANGED vars
  BY <1>7 DEF vars, mvars, ExceptionsDoNotLeak, InterruptVector, Aligned
<1>. QED BY <1>1, <1>2, <1>3, <1>4, <1>5, <1>6, <1>7 DEF Next, isa_exec_once, irp_and

(* For every guest program and memory: at an instruction boundary there is *)
(* no exception left over, unless irp_and has just been sent to a          *)
(* misaligned vector by the guest's own mtvec.                             *)
THEOREM ExceptionsDoNotLeakAlways == Spec => []ExceptionsDoNotLeak
<1>1. Init => ExceptionsDoNotLeak
  BY DEF Init, init_rest, ExceptionsDoNotLeak
<1>. QED BY <1>1, NextNoLeak, HInvariance, PTL DEF Spec

\* What may be pending before the body runs, and after a body that wrote rd.
WritebackInv == /\ phase # "retire" => exc \in {NONE, INST_ADDR_MIS} /\ rd = "kept"
                /\ rd # "kept" => exc \in {NONE, INST_ADDR_MIS}

LEMMA NextWriteback == WritebackInv /\ [Next]_vars => WritebackInv'
<1>. SUFFICES ASSUME WritebackInv, [Next]_vars
              PROVE  WritebackInv'
  OBVIOUS
<1>1. CASE irp_and
  BY <1>1 DEF irp_and, irp_and_SSS, irp_and_take, irp_and_none, AtFetch, ExcAfter, WritebackInv
<1>2. CASE alu \/ ebreak \/ csrw \/ wfi \/ sw
  BY <1>2 DEF alu, ebreak, csrw, wfi, sw, Executing, FallThrough, Exc0, ExcAfter, WritebackInv
<1>3. CASE jump
  BY <1>3 DEF jump, Raise, Exc0, ExcAfter, WritebackInv
<1>4. CASE inv \/ ecall
  BY <1>4 DEF inv, ecall, WritebackInv
<1>5. CASE mret \/ sret
  BY <1>5 DEF mret, sret, Executing, Exc0, ExcAfter, WritebackInv
<1>6. CASE retire \/ Trap
  BY <1>6 DEF retire, Trap, delegate, illegal_instruction, Boundary, WritebackInv
<1>7. CASE Tick \/ cpu_exec
  BY <1>7 DEF Tick, cpu_exec, WritebackInv
<1>8. CASE UNCHANGED vars
  BY <1>8 DEF vars, WritebackInv
<1>. QED BY <1>1, <1>2, <1>3, <1>4, <1>5, <1>6, <1>7, <1>8 DEF Next, isa_exec_once, Body

(* For every guest program: an instruction of inst.c that has changed its  *)
(* destination register traps only for a misaligned pc.                    *)
THEOREM WritebackTrapsOnlyMisalignedAlways == Spec => WritebackTrapsOnlyMisaligned
<1>1. Init => WritebackInv
  BY DEF Init, init_rest, WritebackInv
<1>2. WritebackInv /\ [Next]_vars => [Trap /\ rd # "kept" => exc = INST_ADDR_MIS]_vars
  BY DEF WritebackInv, Trap, delegate, illegal_instruction
<1>. QED BY <1>1, <1>2, NextWriteback, PTL DEF Spec, WritebackTrapsOnlyMisaligned

\* Multiplication is monotone in its first argument.
LEMMA MulMono ==
  ASSUME NEW a \in Nat, NEW b \in Nat, NEW w \in Nat, a <= b
  PROVE  a * w <= b * w
BY SMT

\* The word-by-word test of irp_and never misses a timer that is due.
LEMMA DueIsHit == CTypeOK /\ Value(mtime) > Value(mtimecmp) => TimerHit
<1>. SUFFICES ASSUME CTypeOK, ~TimerHit
              PROVE  ~(Value(mtime) > Value(mtimecmp))
  OBVIOUS
<1>1. /\ mtime.hi \in Nat /\ mtime.lo \in Nat /\ mtimecmp.hi \in Nat /\ mtimecmp.lo \in Nat
      /\ W \in Nat
  BY WAssumption DEF CTypeOK, Pair, Word
<1>2. mtime.hi <= mtimecmp.hi /\ mtime.lo <= mtimecmp.lo
  BY <1>1 DEF TimerHit
<1>3. mtime.hi * W <= mtimecmp.hi * W
  BY <1>1, <1>2, MulMono
<1>4. mtime.hi * W \in Nat /\ mtimecmp.hi * W \in Nat
  BY <1>1
<1>. QED BY <1>1, <1>2, <1>3, <1>4 DEF Value

(* For every word size and any interleaving of ticks and half-word stores, *)
(* a timer that is due when an instruction starts has its MTIP bit set.    *)
THEOREM DueTimerPendingAlways == Spec => []DueTimerPending
<1>1. Init => DueTimerPending
  BY DEF Init, init_rest, DueTimerPending
<1>2. HInv /\ DueTimerPending /\ [Next]_vars => DueTimerPending'
  <2>. SUFFICES ASSUME HInv, DueTimerPending, [Next]_vars
                PROVE  DueTimerPending'
    OBVIOUS
  <2>1. CASE irp_and_none
    <3>1. mip' = Polled /\ mtime' = mtime /\ mtimecmp' = mtimecmp
      BY <2>1 DEF irp_and_none, cvars
    <3>2. Value(mtime) > Value(mtimecmp) => TimerHit
      BY DueIsHit DEF HInv, TypeOK
    <3>. QED BY <3>1, <3>2 DEF DueTimerPending, Polled, Value
  <2>2. CASE irp_and_SSS \/ irp_and_take \/ Tick \/ cpu_exec
    BY <2>2 DEF irp_and_SSS, irp_and_take, Tick, cpu_exec, AtFetch, DueTimerPending
  <2>3. CASE Body
    BY <2>3 DEF Body, alu, jump, inv, ecall, ebreak, csrw, mret, sret, wfi, sw, DueTimerPending
  <2>4. CASE retire \/ Trap
    BY <2>4 DEF retire, Trap, delegate, illegal_instruction, Boundary, DueTimerPending
  <2>5. CASE UNCHANGED vars
    BY <2>5 DEF vars, mvars, cvars, DueTimerPending, Value
  <2>. QED BY <2>1, <2>2, <2>3, <2>4, <2>5 DEF Next, isa_exec_once, irp_and
<1>. QED BY <1>1, <1>2, HInvariance, PTL DEF Spec

\* After the body of an instruction either dnpc was written or an exception
\* is pending.
RetireAssigned == phase = "retire" => assigned \/ exc # NONE

LEMMA NextRetireAssigned == HInv /\ RetireAssigned /\ [Next]_vars => RetireAssigned'
<1>. SUFFICES ASSUME HInv, RetireAssigned, [Next]_vars
              PROVE  RetireAssigned'
  OBVIOUS
<1>0. INST_ADDR_MIS # NONE /\ ILLEGAL_INST # NONE /\ U_ECALL + cur_pri # NONE
  BY NoneAssumption DEF HInv, TypeOK, Causes, U_ECALL, PRV_M
<1>1. CASE FallThrough /\ Body
  BY <1>0, <1>1 DEF FallThrough, Exc0, ExcAfter, RetireAssigned
<1>2. CASE jump \/ mret \/ sret
  BY <1>0, <1>2 DEF jump, Raise, mret, sret, RetireAssigned
<1>3. CASE inv \/ ecall
  BY <1>0, <1>3 DEF inv, ecall, Raise, RetireAssigned
<1>4. CASE irp_and \/ retire \/ Trap \/ Tick \/ cpu_exec
  BY <1>4 DEF irp_and, irp_and_SSS, irp_and_take, irp_and_none, AtFetch, retire, Trap, delegate,
              illegal_instruction, Boundary, Tick, cpu_exec, RetireAssigned
<1>5. CASE UNCHANGED vars
  BY <1>5 DEF vars, RetireAssigned
<1>6. alu \/ ebreak \/ csrw \/ wfi \/ sw => FallThrough /\ Body
  BY DEF alu, ebreak, csrw, wfi, sw, Body
<1>. QED BY <1>1, <1>2, <1>3, <1>4, <1>5, <1>6 DEF Next, isa_exec_once, Body

\* A direct, aligned mtvec is its own interrupt vector.
LEMMA DirectVector ==
  ASSUME mtvec \in Addr, Aligned(mtvec), NEW irq \in Irqs
  PROVE  InterruptVector(irq) = mtvec
<1>1. mtvec \in Nat /\ mtvec < ADDR /\ ADDR \in Nat
  BY AddrAssumption DEF Addr
<1>2. mtvec % 2 = 0
  BY <1>1 DEF Aligned
<1>3. (4 * irq - 1) * (mtvec % 2) = 0
  BY <1>2 DEF Irqs
<1>4. mtvec % ADDR = mtvec
  BY <1>1
<1>. QED BY <1>1, <1>3, <1>4 DEF InterruptVector

(* For every guest program: cpu.pc is never loaded from a Decode.dnpc that *)
(* nobody has written, unless the guest uses a misaligned trap vector or   *)
(* enables the unfinished S-interrupt branch.                              *)
THEOREM NextPcIsDefinedAlways == Spec => NextPcIsDefined
<1>1. Init => RetireAssigned
  BY DEF Init, init_rest, RetireAssigned
<1>2. HInv /\ RetireAssigned /\ [Next]_vars =>
        [irp_and_SSS \/ irp_and_take \/ retire \/ Trap =>
            assigned' \/ SSS \/ ~Aligned(mtvec) \/ ~Aligned(stvec)]_vars
  <2>. SUFFICES ASSUME HInv, RetireAssigned, irp_and_SSS \/ irp_and_take \/ retire \/ Trap
                PROVE  assigned' \/ SSS \/ ~Aligned(mtvec) \/ ~Aligned(stvec)
    OBVIOUS
  <2>1. CASE irp_and_SSS
    BY <2>1 DEF irp_and_SSS
  <2>2. CASE irp_and_take
    <3>1. assigned' = (assigned \/ Aligned(InterruptVector(find_irq_type_val(have_IP))))
      BY <2>2 DEF irp_and_take
    <3>2. have_IP \in SUBSET Irqs /\ have_IP # {}
      BY <2>2, PolledType DEF irp_and_take, have_IP, HInv, TypeOK
    <3>3. find_irq_type_val(have_IP) \in Irqs
      BY <3>2, HighestIrq
    <3>4. Aligned(mtvec) => InterruptVector(find_irq_type_val(have_IP)) = mtvec
      BY <3>3, DirectVector DEF HInv, TypeOK
    <3>. QED BY <3>1, <3>4
  <2>3. CASE retire
    BY <2>3 DEF retire, Retiring, RetireAssigned
  <2>4. CASE Trap
    BY <2>4 DEF Trap, delegate, illegal_instruction
  <2>. QED BY <2>1, <2>2, <2>3, <2>4
<1>. QED BY <1>1, <1>2, NextRetireAssigned, HInvariance, PTL DEF Spec, NextPcIsDefined
-----------------------------------------------------------------------------
\* The hart and MiniRV32IMA in lockstep.
Status == [MIE : BOOLEAN, MPIE : BOOLEAN, MPP : 0 .. 3]
RefType == [pc : Addr, priv : 0 .. 3, asleep : {FALSE}, mstatus : Status,
            mie : SUBSET Irqs, mip : SUBSET Irqs, mtvec : Addr, mepc : Addr,
            mcause : {"exc", "irq"} \X Nat, timer : Pair, timermatch : Pair]

\* The core of the reference and of the hart, whose pc is about to be p.
Core(r) == [pc |-> r.pc, mepc |-> r.mepc, mtvec |-> r.mtvec, mie |-> r.mie,
            MIE |-> r.mstatus.MIE, MPIE |-> r.mstatus.MPIE]
DutCore(p) == [pc |-> p, mepc |-> mepc, mtvec |-> mtvec, mie |-> mie,
               MIE |-> mstatus.MIE, MPIE |-> mstatus.MPIE]

\* What a trap, and what an instruction, does to a core.
Trapped(c) == [pc |-> c.mtvec, mepc |-> c.pc, mtvec |-> c.mtvec, mie |-> c.mie,
               MIE |-> FALSE, MPIE |-> c.MIE]
Jumped(c, t) == [pc |-> t, mepc |-> c.mepc, mtvec |-> c.mtvec, mie |-> c.mie,
                 MIE |-> c.MIE, MPIE |-> c.MPIE]
Returned(c) == [pc |-> c.mepc, mepc |-> c.mepc, mtvec |-> c.mtvec, mie |-> c.mie,
                MIE |-> c.MPIE, MPIE |-> TRUE]
CsrWritten(c, i) ==
  [pc    |-> (c.pc + 4) % ADDR,
   mepc  |-> IF i.csr = "mepc" THEN i.val ELSE c.mepc,
   mtvec |-> IF i.csr = "mtvec" THEN i.val ELSE c.mtvec,
   mie   |-> IF i.csr = "mie" THEN i.val ELSE c.mie,
   MIE   |-> IF i.csr = "mstatus" THEN i.val.MIE ELSE c.MIE,
   MPIE  |-> IF i.csr = "mstatus" THEN i.val.MPIE ELSE c.MPIE]
Result(c, i) ==
  CASE i.op \in {"alu", "sw"} -> Jumped(c, (c.pc + 4) % ADDR)
    [] i.op \in {"jal", "jalr", "branch"} -> Jumped(c, i.target)
    [] i.op = "csrw" -> CsrWritten(c, i)
    [] i.op = "mret" -> Returned(c)
    [] OTHER -> Trapped(c)

\* The hart runs a comparable program: addresses are aligned, nothing is
\* delegated, and only inv and ecall raise exceptions.
DutOK ==
  /\ Aligned(pc) /\ Aligned(mtvec) /\ Aligned(mepc)
  /\ medeleg = {} /\ mideleg = {}
  /\ phase = "fetch" => inst = NONE
  /\ phase # "retire" => exc = NONE
  /\ phase = "retire" => IF exc = NONE THEN Aligned(dnpc) ELSE inst.op \in {"inv", "ecall"}

\* Where the two stand: together between and inside instructions, and one
\* instruction or interrupt apart when difftest_step is next.
Agreement ==
  /\ stage # "abort"
  /\ stage = "exec" =>
       DutCore(IF phase = "retire" /\ exc = NONE THEN dnpc ELSE pc)
         = IF phase = "retire" /\ exc = NONE THEN Result(Core(ref), inst) ELSE Core(ref)
  /\ stage = "step" =>
       DutCore(pc) = IF fetched = NONE THEN Trapped(Core(ref)) ELSE Result(Core(ref), fetched)

LInv ==
  /\ HInv
  /\ stage \in {"exec", "step", "abort"}
  /\ stage # "exec" => CONFIG_DIFFTEST /\ phase = "fetch"
  /\ stage = "step" => fetched \in image \cup {NONE}
  /\ CONFIG_DIFFTEST => /\ DutOK /\ ref \in RefType
                        /\ ~split => Aligned(ref.pc) /\ Agreement
-----------------------------------------------------------------------------
(* Arithmetic and types.                                                   *)

LEMMA NextAligned ==
  ASSUME NEW p \in Addr, Aligned(p)
  PROVE  (p + 4) % ADDR \in Addr /\ Aligned((p + 4) % ADDR)
<1>1. p \in Nat /\ p < ADDR /\ ADDR \in Nat /\ ADDR > 0 /\ ADDR % 4 = 0 /\ p % 4 = 0
  BY AddrAssumption DEF Addr, Aligned
<1>2. CASE p + 4 < ADDR
  <2>1. (p + 4) % ADDR = p + 4
    BY <1>1, <1>2
  <2> QED
    BY <1>1, <1>2, <2>1 DEF Addr, Aligned
<1>3. CASE p + 4 >= ADDR
  <2>1. p + 4 = ADDR
    BY <1>1, <1>3
  <2>2. (p + 4) % ADDR = 0
    BY <1>1, <2>1
  <2> QED
    BY <1>1, <2>2 DEF Addr, Aligned
<1> QED
  BY <1>1, <1>2, <1>3

LEMMA AlignedVector ==
  ASSUME mtvec \in Addr, Aligned(mtvec), NEW irq \in Irqs
  PROVE  InterruptVector(irq) = mtvec
<1>1. mtvec \in Nat /\ mtvec < ADDR /\ ADDR \in Nat /\ mtvec % 4 = 0
  BY AddrAssumption DEF Addr, Aligned
<1>2. mtvec % 2 = 0
  BY <1>1
<1>3. (4 * irq - 1) * (mtvec % 2) = 0
  BY <1>2 DEF Irqs
<1>4. mtvec % ADDR = mtvec
  BY <1>1
<1> QED
  BY <1>1, <1>3, <1>4 DEF InterruptVector

\* What a comparable instruction is made of.
LEMMA InstTypes ==
  ASSUME NEW i \in UNION Compared
  PROVE  /\ i # NONE
         /\ i.op \in {"alu", "inv", "ecall", "mret", "sw", "jal", "jalr", "branch", "csrw"}
         /\ i.op \in {"jal", "jalr", "branch"} => i.target \in Addr /\ Aligned(i.target)
         /\ i.op = "sw" => i.half \in {"hi", "lo"} /\ i.val \in Word
         /\ i.op = "csrw" =>
              /\ i.csr = "mstatus" => i.val \in MStatus
              /\ i.csr \in {"mtvec", "mepc"} => i.val \in Addr /\ Aligned(i.val)
              /\ i.csr \in {"mie", "mip"} => i.val \in SUBSET Irqs
              /\ i.csr \in {"medeleg", "mideleg"} => i.val = {}
<1>1. i \in UNION Images /\ Comparable(i)
  BY ComparedAssumption
<1>2. i.op = "csrw" => i.val \in CsrType(i.csr)
  BY <1>1, ImagesAssumption
<1>3. /\ CsrType("mstatus") = MStatus
      /\ CsrType("mtvec") = Addr /\ CsrType("mepc") = Addr
      /\ CsrType("mie") = SUBSET Irqs /\ CsrType("mip") = SUBSET Irqs
  BY DEF CsrType
<1>4. i.op = "csrw" =>
        /\ i.csr = "mstatus" => i.val \in MStatus
        /\ i.csr \in {"mtvec", "mepc"} => i.val \in Addr
        /\ i.csr \in {"mie", "mip"} => i.val \in SUBSET Irqs
  BY <1>2, <1>3
<1> QED
  BY <1>1, <1>4, ImagesAssumption DEF Comparable
-----------------------------------------------------------------------------
(* The reference implements the core.                                      *)


\* Records of the reference, field by field.
LEMMA RefFields ==
  ASSUME NEW r \in RefType
  PROVE  /\ r.pc \in Addr /\ r.pc \in Nat /\ r.priv \in 0 .. 3 /\ ~r.asleep
         /\ r.mstatus.MIE \in BOOLEAN /\ r.mstatus.MPIE \in BOOLEAN /\ r.mstatus.MPP \in 0 .. 3
         /\ r.mie \in SUBSET Irqs /\ r.mip \in SUBSET Irqs /\ r.mtvec \in Addr /\ r.mepc \in Addr
         /\ r.timer \in Pair /\ r.timermatch \in Pair
<1>1. r.pc \in Addr
  BY DEF RefType
<1>2. r.mstatus \in Status
  BY DEF RefType
<1>3. r.mstatus.MIE \in BOOLEAN /\ r.mstatus.MPIE \in BOOLEAN /\ r.mstatus.MPP \in 0 .. 3
  BY <1>2 DEF Status
<1>4. /\ r.priv \in 0 .. 3 /\ ~r.asleep /\ r.mie \in SUBSET Irqs /\ r.mip \in SUBSET Irqs
      /\ r.mtvec \in Addr /\ r.mepc \in Addr /\ r.timer \in Pair /\ r.timermatch \in Pair
  BY DEF RefType
<1> QED
  BY <1>1, <1>3, <1>4, AddrFacts

\* The timer, the match value and the pending interrupts are not in the core.
LEMMA OutsideCore ==
  ASSUME NEW r \in RefType, NEW e,
         \/ \E p \in Pair : e = [r EXCEPT !.timer = p] \/ e = [r EXCEPT !.timermatch = p]
         \/ \E p \in SUBSET Irqs : \/ e = [r EXCEPT !.mip = p]
                                   \/ e = [r EXCEPT !.mip = p, !.asleep = FALSE]
  PROVE  e \in RefType /\ Core(e) = Core(r)
<1>1. e \in RefType
  BY DEF RefType
<1>2. /\ e.pc = r.pc /\ e.mepc = r.mepc /\ e.mtvec = r.mtvec /\ e.mie = r.mie
      /\ e.mstatus = r.mstatus
  BY DEF RefType
<1> QED
  BY <1>1, <1>2 DEF Core

LEMMA WokenCore ==
  ASSUME NEW r \in RefType, NEW us \in Nat
  PROVE  Ref!Woken(r, us) \in RefType /\ Core(Ref!Woken(r, us)) = Core(r)
<1> DEFINE e == Ref!Elapse(r, us)
           t == [hi |-> (r.timer.hi + (r.timer.lo + us) \div W) % W, lo |-> (r.timer.lo + us) % W]
<1>1. r.timer.lo \in Nat /\ r.timer.hi \in Nat /\ W \in Nat /\ W > 1
  BY WAssumption, RefFields DEF Pair, Word
<1>2. (r.timer.lo + us) % W \in Word /\ (r.timer.lo + us) \div W \in Nat
  BY <1>1 DEF Word
<1>3. (r.timer.hi + (r.timer.lo + us) \div W) % W \in Word
  BY <1>1, <1>2 DEF Word
<1>4. t \in Pair
  BY <1>2, <1>3 DEF Pair
<1>5. e = [r EXCEPT !.timer = t]
  BY DEF Ref!Elapse
<1> HIDE DEF e, t
<1>6. e \in RefType /\ Core(e) = Core(r)
  BY <1>4, <1>5, OutsideCore, Zenon
<1>7. Ref!Polled(e) \in RefType /\ Core(Ref!Polled(e)) = Core(e)
  <2>1. e.mip \cup {Ref!MTIP} \in SUBSET Irqs /\ e.mip \ {Ref!MTIP} \in SUBSET Irqs
    <3>1. e.mip \in SUBSET Irqs
      BY <1>6, RefFields
    <3> QED
      BY <3>1 DEF Ref!MTIP, Irqs
  <2>2. CASE Ref!Due(e)
    <3>1. Ref!Polled(e) = [e EXCEPT !.mip = e.mip \cup {Ref!MTIP}, !.asleep = FALSE]
      BY <2>2 DEF Ref!Polled
    <3> QED
      BY <1>6, <2>1, <3>1, OutsideCore, Zenon
  <2>3. CASE ~Ref!Due(e)
    <3>1. Ref!Polled(e) = [e EXCEPT !.mip = e.mip \ {Ref!MTIP}]
      BY <2>3 DEF Ref!Polled
    <3> QED
      BY <1>6, <2>1, <3>1, OutsideCore, Zenon
  <2> QED
    BY <2>2, <2>3
<1> QED
  BY <1>6, <1>7 DEF Ref!Woken, e

LEMMA RefTrapCore ==
  ASSUME NEW r \in RefType, NEW cause \in {"exc", "irq"} \X Nat
  PROVE  Ref!Trap(r, cause) \in RefType /\ Core(Ref!Trap(r, cause)) = Trapped(Core(r))
<1> DEFINE s == [MIE |-> FALSE, MPIE |-> r.mstatus.MIE, MPP |-> r.priv]
<1>1. s \in Status /\ 3 \in 0 .. 3
  BY RefFields DEF Status
<1>2. Ref!Trap(r, cause) = [r EXCEPT !.mcause = cause, !.mepc = r.pc, !.pc = r.mtvec,
                                     !.priv = 3, !.mstatus = s]
  BY DEF Ref!Trap
<1>3. s.MIE = FALSE /\ s.MPIE = r.mstatus.MIE
  OBVIOUS
<1> HIDE DEF s
<1>4. Ref!Trap(r, cause) \in RefType
  BY <1>1, <1>2 DEF RefType
<1>5. Core(Ref!Trap(r, cause)) = Trapped(Core(r))
  BY <1>2, <1>3 DEF RefType, Core, Trapped
<1> QED
  BY <1>4, <1>5

LEMMA Next4Core ==
  ASSUME NEW r \in RefType
  PROVE  /\ Ref!Next4(r) \in RefType
         /\ Core(Ref!Next4(r)) = Jumped(Core(r), (r.pc + 4) % ADDR)
<1>1. (r.pc + 4) % ADDR \in Addr
  BY ModAddr, RefFields
<1>2. Ref!Next4(r) = [r EXCEPT !.pc = (r.pc + 4) % ADDR]
  BY DEF Ref!Next4
<1>3. Ref!Next4(r) \in RefType
  BY <1>1, <1>2 DEF RefType
<1>4. Core(Ref!Next4(r)) = Jumped(Core(r), (r.pc + 4) % ADDR)
  BY <1>1, <1>2 DEF RefType, Core, Jumped
<1> QED
  BY <1>3, <1>4

LEMMA MRETCore ==
  ASSUME NEW r \in RefType
  PROVE  Ref!MRET(r) \in RefType /\ Core(Ref!MRET(r)) = Returned(Core(r))
<1> DEFINE s == [MIE |-> r.mstatus.MPIE, MPIE |-> TRUE, MPP |-> r.priv]
<1>1. s \in Status
  BY RefFields DEF Status
<1>2. Ref!MRET(r) = [r EXCEPT !.mstatus = s, !.priv = r.mstatus.MPP, !.pc = r.mepc]
  BY DEF Ref!MRET
<1>3. s.MIE = r.mstatus.MPIE /\ s.MPIE = TRUE
  OBVIOUS
<1> HIDE DEF s
<1>4. Ref!MRET(r) \in RefType
  BY <1>1, <1>2, RefFields DEF RefType
<1>5. Core(Ref!MRET(r)) = Returned(Core(r))
  BY <1>2, <1>3 DEF RefType, Core, Returned
<1> QED
  BY <1>4, <1>5

\* A CSR instruction of a comparable program.
LEMMA ZicsrCore ==
  ASSUME NEW r \in RefType, NEW i \in UNION Compared, i.op = "csrw"
  PROVE  LET e == Ref!Zicsr(r, i.csr, i.val)
         IN  e \in RefType /\ Jumped(Core(e), (e.pc + 4) % ADDR) = CsrWritten(Core(r), i)
<1> DEFINE e == Ref!Zicsr(r, i.csr, i.val)
<1>1. CASE i.csr = "mstatus"
  <2> DEFINE s == [MIE |-> i.val.MIE, MPIE |-> i.val.MPIE, MPP |-> i.val.MPP]
  <2>1. s \in Status
    BY <1>1, InstTypes DEF MStatus, Status
  <2>2. e = [r EXCEPT !.mstatus = s]
    BY <1>1 DEF Ref!Zicsr
  <2>3. s.MIE = i.val.MIE /\ s.MPIE = i.val.MPIE
    OBVIOUS
  <2> HIDE DEF e, s
  <2>4. e \in RefType
    BY <2>1, <2>2 DEF RefType
  <2>5. /\ e.pc = r.pc /\ e.mepc = r.mepc /\ e.mtvec = r.mtvec /\ e.mie = r.mie
        /\ e.mstatus.MIE = i.val.MIE /\ e.mstatus.MPIE = i.val.MPIE
    BY <2>2, <2>3 DEF RefType
  <2> QED
    BY <1>1, <2>4, <2>5 DEF Core, Jumped, CsrWritten, e
<1>2. CASE i.csr = "mtvec"
  <2>1. e = [r EXCEPT !.mtvec = i.val] /\ i.val \in Addr
    BY <1>2, InstTypes DEF Ref!Zicsr
  <2> HIDE DEF e
  <2>2. e \in RefType
    BY <2>1 DEF RefType
  <2>3. e.pc = r.pc /\ Core(e) = [Core(r) EXCEPT !.mtvec = i.val]
    BY <2>1 DEF RefType, Core
  <2> QED
    BY <1>2, <2>2, <2>3 DEF Core, Jumped, CsrWritten, e
<1>3. CASE i.csr = "mepc"
  <2>1. e = [r EXCEPT !.mepc = i.val] /\ i.val \in Addr
    BY <1>3, InstTypes DEF Ref!Zicsr
  <2> HIDE DEF e
  <2>2. e \in RefType
    BY <2>1 DEF RefType
  <2>3. e.pc = r.pc /\ Core(e) = [Core(r) EXCEPT !.mepc = i.val]
    BY <2>1 DEF RefType, Core
  <2> QED
    BY <1>3, <2>2, <2>3 DEF Core, Jumped, CsrWritten, e
<1>4. CASE i.csr = "mie"
  <2>1. e = [r EXCEPT !.mie = i.val] /\ i.val \in SUBSET Irqs
    BY <1>4, InstTypes DEF Ref!Zicsr
  <2> HIDE DEF e
  <2>2. e \in RefType
    BY <2>1 DEF RefType
  <2>3. e.pc = r.pc /\ Core(e) = [Core(r) EXCEPT !.mie = i.val]
    BY <2>1 DEF RefType, Core
  <2> QED
    BY <1>4, <2>2, <2>3 DEF Core, Jumped, CsrWritten, e
<1>5. CASE i.csr = "mip"
  <2>1. e = [r EXCEPT !.mip = i.val] /\ i.val \in SUBSET Irqs
    BY <1>5, InstTypes DEF Ref!Zicsr
  <2> HIDE DEF e
  <2>2. e \in RefType /\ Core(e) = Core(r)
    BY <2>1, OutsideCore
  <2>3. e.pc = r.pc
    BY <2>1 DEF RefType
  <2> QED
    BY <1>5, <2>2, <2>3 DEF Core, Jumped, CsrWritten, e
<1>6. CASE i.csr \notin {"mstatus", "mtvec", "mepc", "mie", "mip"}
  <2>1. e = r
    BY <1>6 DEF Ref!Zicsr
  <2> QED
    BY <1>6, <2>1 DEF Core, Jumped, CsrWritten
<1> QED
  BY <1>1, <1>2, <1>3, <1>4, <1>5, <1>6

LEMMA ExecuteCore ==
  ASSUME NEW r \in RefType, NEW i \in UNION Compared
  PROVE  /\ Ref!Execute(r, i) \in RefType
         /\ Aligned(r.pc) => Core(Ref!Execute(r, i)) = Result(Core(r), i)
<1>0. CASE ~Aligned(r.pc)
  <2>1. Ref!Execute(r, i) = Ref!Trap(r, <<"exc", Ref!PC_MISALIGNED>>)
    BY <1>0 DEF Ref!Execute, Aligned
  <2>2. <<"exc", Ref!PC_MISALIGNED>> \in {"exc", "irq"} \X Nat
    BY DEF Ref!PC_MISALIGNED
  <2> QED
    BY <1>0, <2>1, <2>2, RefTrapCore
<1> SUFFICES ASSUME Aligned(r.pc)
             PROVE  Ref!Execute(r, i) \in RefType /\ Core(Ref!Execute(r, i)) = Result(Core(r), i)
  BY <1>0
<1>1. ~(r.pc % 4 # 0) /\ Core(r).pc = r.pc
  BY DEF Aligned, Core
<1>2. CASE i.op = "alu"
  <2>1. Ref!Execute(r, i) = Ref!Next4(r)
    BY <1>1, <1>2 DEF Ref!Execute
  <2> QED
    BY <1>1, <1>2, <2>1, Next4Core DEF Result
<1>3. CASE i.op \in {"jal", "jalr", "branch"}
  <2>1. Ref!Execute(r, i) = [r EXCEPT !.pc = i.target]
    BY <1>1, <1>3 DEF Ref!Execute, Ref!Jump
  <2>2. i.target \in Addr
    BY <1>3, InstTypes
  <2>3. [r EXCEPT !.pc = i.target] \in RefType
    BY <2>2 DEF RefType
  <2>4. Core([r EXCEPT !.pc = i.target]) = Jumped(Core(r), i.target)
    BY <2>2 DEF RefType, Core, Jumped
  <2> QED
    BY <1>3, <2>1, <2>3, <2>4 DEF Result
<1>4. CASE i.op = "csrw"
  <2> DEFINE e == Ref!Zicsr(r, i.csr, i.val)
  <2>1. Ref!Execute(r, i) = Ref!Next4(e)
    BY <1>1, <1>4 DEF Ref!Execute
  <2>2. e \in RefType /\ Jumped(Core(e), (e.pc + 4) % ADDR) = CsrWritten(Core(r), i)
    BY <1>4, ZicsrCore
  <2> HIDE DEF e
  <2> QED
    BY <1>4, <2>1, <2>2, Next4Core DEF Result
<1>5. CASE i.op = "sw"
  <2> DEFINE e == Ref!Store(r, i.reg, i.half, i.val)
  <2>1. Ref!Execute(r, i) = Ref!Next4(e)
    BY <1>1, <1>5 DEF Ref!Execute
  <2>2. e \in RefType /\ Core(e) = Core(r)
    <3>1. CASE i.reg = "mtimecmp"
      <4> DEFINE p == [r.timermatch EXCEPT ![i.half] = i.val]
      <4>1. p \in Pair
        BY <1>5, InstTypes, RefFields DEF Pair
      <4>2. e = [r EXCEPT !.timermatch = p]
        BY <3>1 DEF Ref!Store
      <4> HIDE DEF e, p
      <4> QED
        BY <4>1, <4>2, OutsideCore, Zenon
    <3>2. CASE i.reg # "mtimecmp"
      BY <3>2 DEF Ref!Store
    <3> QED
      BY <3>1, <3>2
  <2>3. e.pc = r.pc
    BY <2>2 DEF Core
  <2> HIDE DEF e
  <2> QED
    BY <1>1, <1>5, <2>1, <2>2, <2>3, Next4Core DEF Result
<1>6. CASE i.op = "mret"
  <2>1. Ref!Execute(r, i) = Ref!MRET(r)
    BY <1>1, <1>6 DEF Ref!Execute, Ref!System
  <2> QED
    BY <1>6, <2>1, MRETCore DEF Result
<1>7. CASE i.op \in {"ecall", "inv"}
  <2> DEFINE cause == <<"exc", IF i.op = "inv" THEN Ref!ILLEGAL ELSE IF r.priv # 0 THEN 11 ELSE 8>>
  <2>1. Ref!Execute(r, i) = Ref!Trap(r, cause)
    BY <1>1, <1>7 DEF Ref!Execute, Ref!System
  <2>2. cause \in {"exc", "irq"} \X Nat
    BY DEF Ref!ILLEGAL
  <2> HIDE DEF cause
  <2> QED
    BY <1>7, <2>1, <2>2, RefTrapCore DEF Result
<1> QED
  BY <1>2, <1>3, <1>4, <1>5, <1>6, <1>7, InstTypes

\* One step of the reference is an interrupt or an instruction of the core.
LEMMA RefStep ==
  ASSUME NEW r \in RefType, NEW i \in UNION Compared, NEW us \in Nat
  PROVE  LET e == Ref!MiniRV32IMAStep(r, i, us)
         IN  /\ e \in RefType
             /\ Aligned(r.pc) =>
                  Core(e) = IF Ref!Interrupted(Ref!Woken(r, us)) THEN Trapped(Core(r))
                            ELSE Result(Core(r), i)
<1> DEFINE w == Ref!Woken(r, us)
<1>1. w \in RefType /\ Core(w) = Core(r)
  BY WokenCore
<1>2. ~w.asleep /\ w.pc = r.pc
  BY <1>1, RefFields DEF Core
<1>3. CASE Ref!Interrupted(w)
  <2>1. Ref!MiniRV32IMAStep(r, i, us) = Ref!Trap(w, Ref!MTIMER)
    BY <1>2, <1>3 DEF Ref!MiniRV32IMAStep
  <2>2. Ref!MTIMER \in {"exc", "irq"} \X Nat
    BY DEF Ref!MTIMER, Ref!MTIP
  <2> HIDE DEF w
  <2> QED
    BY <1>1, <1>3, <2>1, <2>2, RefTrapCore DEF w
<1>4. CASE ~Ref!Interrupted(w)
  <2>1. Ref!MiniRV32IMAStep(r, i, us) = Ref!Execute(w, i)
    BY <1>2, <1>4 DEF Ref!MiniRV32IMAStep
  <2> HIDE DEF w
  <2> QED
    BY <1>1, <1>2, <1>4, <2>1, ExecuteCore DEF w
<1> QED
  BY <1>3, <1>4
-----------------------------------------------------------------------------
(* The hart implements the core, stage by stage.                           *)

LEMMA DutInst ==
  ASSUME HInv, CONFIG_DIFFTEST, phase # "fetch"
  PROVE  inst \in UNION Compared
BY DEF HInv, TypeOK, CONFIG_DIFFTEST

LEMMA DutSnpc ==
  ASSUME HInv, DutOK, phase = "exec"
  PROVE  /\ Aligned(snpc) /\ Dnpc0 = snpc /\ Exc0 = NONE /\ exc = NONE
<1>1. Aligned(snpc)
  BY NextAligned DEF HInv, TypeOK, DutOK, snpc
<1> QED
  BY <1>1 DEF DutOK, Dnpc0, Exc0, DnpcAfter, ExcAfter

LEMMA DutFetch ==
  ASSUME HInv, CONFIG_DIFFTEST, DutOK, irp_and_none
  PROVE  DutOK' /\ DutCore(pc)' = DutCore(pc)
<1>1. exc = NONE
  BY DEF DutOK, irp_and_none, AtFetch
<1> QED
  BY <1>1 DEF irp_and_none, DutOK, DutCore, svars

LEMMA DutBody ==
  ASSUME HInv, CONFIG_DIFFTEST, DutOK, Body
  PROVE  /\ DutOK' /\ phase = "exec" /\ phase' = "retire" /\ inst' = inst
         /\ exc' = NONE => DutCore(dnpc)' = Result(DutCore(pc), inst)
         /\ exc' # NONE => DutCore(pc)' = DutCore(pc)
<1>0. phase = "exec" /\ phase' = "retire" /\ inst' = inst /\ pc' = pc
  BY DEF Body, alu, jump, inv, ecall, ebreak, csrw, mret, sret, wfi, sw, Executing
<1>1. /\ Aligned(snpc) /\ Dnpc0 = snpc /\ Exc0 = NONE /\ exc = NONE /\ snpc = (pc + 4) % ADDR
  BY <1>0, DutSnpc DEF snpc
<1>2. inst \in UNION Compared
  BY <1>0, DutInst
<1> DEFINE c == DutCore(pc)
<1>3. /\ c.pc = pc /\ c.mepc = mepc /\ c.mtvec = mtvec /\ c.mie = mie
      /\ c.MIE = mstatus.MIE /\ c.MPIE = mstatus.MPIE
  BY DEF DutCore
<1> HIDE DEF c
<1>4. CASE alu \/ sw
  <2>1. /\ dnpc' = snpc /\ exc' = NONE /\ inst.op \in {"alu", "sw"}
        /\ UNCHANGED <<mstatus, mtvec, mepc, medeleg, mideleg, mie>>
    BY <1>1, <1>4 DEF alu, sw, Executing, FallThrough, mvars
  <2>2. Result(c, inst) = Jumped(c, snpc)
    BY <1>1, <1>3, <2>1 DEF Result
  <2>3. DutCore(dnpc)' = Jumped(c, snpc)
    BY <1>3, <2>1 DEF DutCore, Jumped
  <2> QED
    BY <1>0, <1>1, <2>1, <2>2, <2>3 DEF DutOK, c
<1>5. CASE jump
  <2>1. Aligned(inst.target) /\ inst.op \in {"jal", "jalr", "branch"}
    BY <1>2, <1>5, InstTypes DEF jump
  <2>2. /\ dnpc' = inst.target /\ exc' = NONE
        /\ UNCHANGED <<mstatus, mtvec, mepc, medeleg, mideleg, mie>>
    BY <1>1, <1>5, <2>1 DEF jump, mvars
  <2>3. Result(c, inst) = Jumped(c, inst.target)
    BY <2>1 DEF Result
  <2>4. DutCore(dnpc)' = Jumped(c, inst.target)
    BY <1>3, <2>2 DEF DutCore, Jumped
  <2> QED
    BY <1>0, <2>1, <2>2, <2>3, <2>4 DEF DutOK, c
<1>6. CASE inv \/ ecall
  <2>1. exc' # NONE
    <3>1. U_ECALL + cur_pri \in Causes /\ ILLEGAL_INST \in Causes
      BY DEF HInv, TypeOK, Causes, U_ECALL, PRV_M
    <3> QED
      BY <1>6, <3>1, NoneAssumption DEF inv, ecall, Raise
  <2>2. /\ inst.op \in {"inv", "ecall"}
        /\ UNCHANGED <<mstatus, mtvec, mepc, medeleg, mideleg, mie>>
    BY <1>6 DEF inv, ecall, Executing, mvars
  <2> QED
    BY <1>0, <2>1, <2>2 DEF DutOK, DutCore
<1>7. CASE csrw
  <2>1. /\ dnpc' = snpc /\ exc' = NONE /\ inst.op = "csrw"
        /\ mstatus' = Written("mstatus", mstatus) /\ mtvec' = Written("mtvec", mtvec)
        /\ mepc' = Written("mepc", mepc) /\ mie' = Written("mie", mie)
        /\ medeleg' = Written("medeleg", medeleg) /\ mideleg' = Written("mideleg", mideleg)
    BY <1>1, <1>7 DEF csrw, Executing, FallThrough
  <2>2. /\ inst.csr \in {"mtvec", "mepc"} => Aligned(inst.val)
        /\ inst.csr \in {"medeleg", "mideleg"} => inst.val = {}
    BY <1>2, <2>1, InstTypes
  <2>3. DutOK'
    BY <1>0, <1>1, <2>1, <2>2 DEF DutOK, Written
  <2>4. Result(c, inst) = CsrWritten(c, inst)
    BY <2>1 DEF Result
  <2>5. DutCore(dnpc)' = CsrWritten(c, inst)
    BY <1>1, <1>3, <2>1 DEF DutCore, CsrWritten, Written
  <2> QED
    BY <1>0, <2>1, <2>3, <2>4, <2>5 DEF c
<1>8. CASE mret
  <2>1. /\ dnpc' = mepc /\ exc' = NONE /\ inst.op = "mret"
        /\ UNCHANGED <<mtvec, mepc, medeleg, mideleg, mie>>
    BY <1>1, <1>8 DEF mret, Executing
  <2>2. mstatus'.MIE = mstatus.MPIE /\ mstatus'.MPIE = TRUE
    BY <1>8 DEF mret, HInv, TypeOK, MStatus
  <2>3. Result(c, inst) = Returned(c)
    BY <2>1 DEF Result
  <2>4. DutCore(dnpc)' = Returned(c)
    BY <1>3, <2>1, <2>2 DEF DutCore, Returned
  <2> QED
    BY <1>0, <2>1, <2>3, <2>4 DEF DutOK, c
<1>9. ~(ebreak \/ sret \/ wfi)
  BY <1>2, InstTypes DEF ebreak, sret, wfi, Executing
<1> QED
  BY <1>4, <1>5, <1>6, <1>7, <1>8, <1>9 DEF Body

LEMMA DutRetire ==
  ASSUME HInv, CONFIG_DIFFTEST, DutOK, retire
  PROVE  DutOK' /\ DutCore(pc)' = DutCore(dnpc)
BY DEF DutOK, retire, Retiring, Boundary, DutCore, mvars

LEMMA DutTrap ==
  ASSUME HInv, CONFIG_DIFFTEST, DutOK, irp_and_SSS \/ irp_and_take \/ Trap
  PROVE  /\ DutOK' /\ DutCore(pc)' = Trapped(DutCore(pc))
         /\ inst = NONE <=> irp_and_take
         /\ Trap => phase = "retire" /\ exc # NONE /\ inst.op \in {"inv", "ecall"}
         /\ irp_and_take => phase = "fetch"
<1>1. ~irp_and_SSS /\ ~delegate
  BY DEF irp_and_SSS, SSS, delegate, Delegated, DutOK
<1>2. CASE irp_and_take
  <2> DEFINE irq == find_irq_type_val(have_IP)
  <2>1. have_IP \in SUBSET Irqs /\ have_IP # {}
    BY <1>2, PolledType DEF irp_and_take, have_IP, HInv, TypeOK
  <2>2. irq \in Irqs
    BY <2>1, HighestIrq
  <2>3. InterruptVector(irq) = mtvec /\ exc = NONE /\ inst = NONE /\ phase = "fetch"
    BY <1>2, <2>2, AlignedVector DEF DutOK, HInv, TypeOK, irp_and_take, AtFetch
  <2> HIDE DEF irq
  <2>4. /\ pc' = mtvec /\ exc' = NONE /\ mepc' = pc /\ mstatus' = EnterM
        /\ UNCHANGED <<mtvec, medeleg, mideleg, mie, inst, phase>>
    BY <1>2, <2>3 DEF irp_and_take, irq, DnpcAfter, ExcAfter, DutOK
  <2>5. mstatus'.MIE = FALSE /\ mstatus'.MPIE = mstatus.MIE
    BY <2>4 DEF EnterM, HInv, TypeOK, MStatus
  <2> QED
    BY <1>2, <2>3, <2>4, <2>5
       DEF DutOK, DutCore, Trapped, Trap, delegate, illegal_instruction, Retiring
<1>3. CASE illegal_instruction
  <2>1. phase = "retire" /\ exc # NONE /\ inst.op \in {"inv", "ecall"}
    BY <1>3 DEF illegal_instruction, Retiring, DutOK
  <2>2. inst # NONE
    BY <2>1, DutInst, InstTypes
  <2>3. /\ pc' = mtvec /\ exc' = NONE /\ mepc' = pc /\ mstatus' = EnterM
        /\ phase' = "fetch" /\ inst' = NONE
        /\ UNCHANGED <<mtvec, medeleg, mideleg, mie>>
    BY <1>3 DEF illegal_instruction, Boundary, DnpcAfter, DutOK
  <2>4. mstatus'.MIE = FALSE /\ mstatus'.MPIE = mstatus.MIE
    BY <2>3 DEF EnterM, HInv, TypeOK, MStatus
  <2>5. ~irp_and_take
    BY <2>1 DEF irp_and_take, AtFetch
  <2> QED
    BY <2>1, <2>2, <2>3, <2>4, <2>5 DEF DutOK, DutCore, Trapped
<1> QED
  BY <1>1, <1>2, <1>3 DEF Trap
-----------------------------------------------------------------------------
(* The two together.                                                       *)

\* After difftest_step the reference is where the hart is, unless one of the
\* two has taken an interrupt alone.
LEMMA StepMeets ==
  ASSUME LInv, difftest_step
  PROVE  /\ CONFIG_DIFFTEST /\ ref' \in RefType
         /\ ~split' => ~split /\ Core(ref') = DutCore(pc)
<1>1. CONFIG_DIFFTEST /\ stage = "step" /\ ref \in RefType
  BY DEF LInv, difftest_step
<1>2. PICK us \in 0 .. MaxUs, i \in IF fetched = NONE THEN image ELSE {fetched} :
        /\ ref' = Ref!MiniRV32IMAStep(ref, i, us)
        /\ split' = (split \/ (fetched = NONE) # Ref!Interrupted(Ref!Woken(ref, us)))
  BY DEF difftest_step
<1>3. i \in UNION Compared /\ us \in Nat
  BY <1>1, UsAssumption DEF LInv, CONFIG_DIFFTEST
<1>4. /\ ref' \in RefType
      /\ Aligned(ref.pc) =>
           Core(ref') = IF Ref!Interrupted(Ref!Woken(ref, us)) THEN Trapped(Core(ref))
                        ELSE Result(Core(ref), i)
  BY <1>1, <1>2, <1>3, RefStep
<1>5. ASSUME ~split'
      PROVE  ~split /\ Core(ref') = DutCore(pc)
  <2>1. ~split /\ ((fetched = NONE) <=> Ref!Interrupted(Ref!Woken(ref, us)))
    BY <1>2, <1>5, Zenon
  <2>2. /\ Aligned(ref.pc)
        /\ DutCore(pc) = IF fetched = NONE THEN Trapped(Core(ref)) ELSE Result(Core(ref), fetched)
    BY <1>1, <2>1 DEF LInv, Agreement
  <2>3. fetched # NONE => i = fetched
    OBVIOUS
  <2> QED
    BY <1>4, <2>1, <2>2, <2>3
<1> QED
  BY <1>1, <1>4, <1>5

\* Every step leaves the image alone and keeps the invariant of the hart,
\* whose time the build sets from outside.
LEMMA LNextHart ==
  ASSUME LInv, [LNext]_lvars
  PROVE  HInv' /\ image' = image
<1> USE DEF LInv
<1>1. CASE [Next]_vars
  <2>1. image' = image
    BY <1>1 DEF Next, isa_exec_once, irp_and, irp_and_SSS, irp_and_take, irp_and_none, Body, alu,
                jump, inv, ecall, ebreak, csrw, mret, sret, wfi, sw, retire, Trap, delegate,
                illegal_instruction, Tick, cpu_exec, vars
  <2> QED
    BY <1>1, <2>1, NextHInv
<1>2. CASE mtime' \in Pair /\ UNCHANGED <<mtimecmp, image, pc, dnpc, cur_pri, mvars, svars, exc,
                                          inst, rd, phase, nemu, assigned, mctx, sctx>>
  BY <1>2 DEF HInv, TypeOK, CTypeOK, OnlyRunningExecutes, MctxKept, SctxKept, mvars, svars
<1>3. difftest_step => mtime' \in Pair
  <2> SUFFICES ASSUME difftest_step
               PROVE  mtime' \in Pair
    OBVIOUS
  <2>1. ref' \in RefType
    BY StepMeets
  <2>2. ref'.timer.lo \in Word
    BY <2>1 DEF RefType, Pair
  <2>3. mtime \in Pair /\ mtime' = [mtime EXCEPT !.lo = ref'.timer.lo]
    BY DEF difftest_step, HInv, TypeOK, CTypeOK
  <2> QED
    BY <2>2, <2>3 DEF Pair
<1>4. exec_some \/ exec_once \/ new_exec => Next
  BY DEF exec_some, exec_once, new_exec, Next, isa_exec_once, irp_and
<1>5. device_update => \/ Next
                       \/ mtime' \in Pair /\ UNCHANGED <<mtimecmp, image, pc, dnpc, cur_pri, mvars,
                            svars, exc, inst, rd, phase, nemu, assigned, mctx, sctx>>
  BY DEF device_update, Next
<1>6. difftest_step => UNCHANGED <<mtimecmp, image, pc, dnpc, cur_pri, mvars, svars, exc,
                                   inst, rd, phase, nemu, assigned, mctx, sctx>>
  BY DEF difftest_step
<1>7. UNCHANGED lvars => UNCHANGED vars
  BY DEF lvars
<1> QED
  BY <1>1, <1>2, <1>3, <1>4, <1>5, <1>6, <1>7 DEF LNext

LEMMA InitLInv == LInit => LInv
<1> SUFFICES ASSUME LInit
             PROVE  LInv
  OBVIOUS
<1>1. HInv /\ stage = "exec" /\ ref = Ref!init_vm /\ split = FALSE
  BY InitStarted, InitHInv DEF LInit
<1>2. ref \in RefType
  <2>1. 0 \in Addr /\ [hi |-> 0, lo |-> 0] \in Pair
    BY AddrFacts, WAssumption DEF Pair, Word
  <2>2. ref = [pc |-> 0, priv |-> 3, asleep |-> FALSE,
               mstatus |-> [MIE |-> FALSE, MPIE |-> FALSE, MPP |-> 0],
               mie |-> {}, mip |-> {}, mtvec |-> 0, mepc |-> 0, mcause |-> <<"exc", 0>>,
               timer |-> [hi |-> 0, lo |-> 0], timermatch |-> [hi |-> 0, lo |-> 0]]
    BY <1>1 DEF Ref!init_vm
  <2> QED
    BY <2>1, <2>2 DEF RefType, Status
<1>3. Aligned(0)
  BY DEF Aligned
<1>4. /\ pc = 0 /\ mepc = 0 /\ mtvec = 0 /\ mie = {} /\ medeleg = {} /\ mideleg = {}
      /\ ~mstatus.MIE /\ ~mstatus.MPIE /\ exc = NONE /\ inst = NONE /\ phase = "fetch"
  BY InitStarted DEF Started, init_rest
<1>5. DutOK
  BY <1>3, <1>4 DEF DutOK
<1>6. Aligned(ref.pc) /\ DutCore(pc) = Core(ref)
  <2>1. /\ ref.pc = 0 /\ ref.mepc = 0 /\ ref.mtvec = 0 /\ ref.mie = {}
        /\ ref.mstatus.MIE = FALSE /\ ref.mstatus.MPIE = FALSE
    BY <1>1 DEF Ref!init_vm
  <2>2. mstatus.MIE = FALSE /\ mstatus.MPIE = FALSE
    BY InitStarted DEF Started
  <2> QED
    BY <1>3, <1>4, <2>1, <2>2 DEF DutCore, Core
<1> QED
  BY <1>1, <1>2, <1>4, <1>5, <1>6 DEF LInv, Agreement

LEMMA NextLInv == LInv /\ [LNext]_lvars => LInv'
<1> SUFFICES ASSUME LInv, [LNext]_lvars
             PROVE  LInv'
  OBVIOUS
<1>1. HInv' /\ (CONFIG_DIFFTEST' <=> CONFIG_DIFFTEST) /\ HInv
  BY LNextHart DEF CONFIG_DIFFTEST, LInv
<1>2. ASSUME ~CONFIG_DIFFTEST
      PROVE  LInv'
  BY <1>1, <1>2 DEF LInv, LNext, exec_some, exec_once, device_update, new_exec, difftest_step,
                    lvars, dvars
<1> SUFFICES ASSUME CONFIG_DIFFTEST
             PROVE  LInv'
  BY <1>2
<1>3. DutOK /\ ref \in RefType
  BY DEF LInv
<1>4. CASE exec_some
  <2>1. stage = "exec" /\ stage' = "exec" /\ ref' = ref /\ split' = split
    BY <1>4 DEF exec_some, dvars
  <2>2. ~split => Aligned(ref.pc) /\ Agreement
    BY DEF LInv
  <2>3. CASE irp_and_none
    <3>1. DutOK' /\ DutCore(pc)' = DutCore(pc) /\ phase = "fetch" /\ phase' = "exec"
      BY <1>1, <1>3, <2>3, DutFetch DEF irp_and_none, AtFetch
    <3>2. ~split => Agreement'
      BY <2>1, <2>2, <3>1 DEF Agreement
    <3> QED
      BY <1>1, <1>3, <2>1, <2>2, <3>1, <3>2 DEF LInv
  <2>4. CASE Body
    <3>1. /\ DutOK' /\ phase = "exec" /\ phase' = "retire" /\ inst' = inst
          /\ exc' = NONE => DutCore(dnpc)' = Result(DutCore(pc), inst)
          /\ exc' # NONE => DutCore(pc)' = DutCore(pc)
      BY <1>1, <1>3, <2>4, DutBody
    <3>2. ~split => Agreement'
      BY <2>1, <2>2, <3>1 DEF Agreement
    <3> QED
      BY <1>1, <1>3, <2>1, <2>2, <3>1, <3>2 DEF LInv
  <2> QED
    BY <1>4, <2>3, <2>4 DEF exec_some
<1>5. CASE exec_once
  <2>1. /\ stage = "exec" /\ stage' = "step" /\ fetched' = inst /\ ref' = ref /\ split' = split
    BY <1>5 DEF exec_once
  <2>2. ~split => Aligned(ref.pc) /\ Agreement
    BY DEF LInv
  <2>3. phase' = "fetch" /\ inst \in image \cup {NONE} /\ image' = image
    BY <1>5, LNextHart DEF exec_once, irp_and_SSS, irp_and_take, AtFetch, retire, Trap, delegate,
                           illegal_instruction, Boundary, HInv, LInv, TypeOK
  <2>4. CASE retire
    <3>1. DutOK' /\ DutCore(pc)' = DutCore(dnpc) /\ phase = "retire" /\ exc = NONE
      BY <1>1, <1>3, <2>4, DutRetire DEF retire, Retiring
    <3>2. inst # NONE
      BY <1>1, <3>1, DutInst, InstTypes
    <3>3. ~split => Agreement'
      BY <2>1, <2>2, <3>1, <3>2 DEF Agreement
    <3> QED
      BY <1>1, <1>3, <2>1, <2>2, <2>3, <3>1, <3>3 DEF LInv
  <2>5. CASE irp_and_SSS \/ irp_and_take \/ Trap
    <3>1. /\ DutOK' /\ DutCore(pc)' = Trapped(DutCore(pc))
          /\ inst = NONE <=> irp_and_take
          /\ Trap => phase = "retire" /\ exc # NONE /\ inst.op \in {"inv", "ecall"}
          /\ irp_and_take => phase = "fetch"
      BY <1>1, <1>3, <2>5, DutTrap
    <3>2. ~split => DutCore(pc) = Core(ref)
      BY <1>5, <2>1, <2>2, <2>5, <3>1 DEF Agreement, irp_and_SSS, AtFetch
    <3>3. inst # NONE => Result(Core(ref), inst) = Trapped(Core(ref))
      <4>1. inst # NONE => inst.op \in {"inv", "ecall"}
        BY <1>1, <1>3, <2>5, <3>1 DEF irp_and_SSS, AtFetch, DutOK
      <4> QED
        BY <4>1 DEF Result
    <3>4. ~split => Agreement'
      BY <2>1, <3>1, <3>2, <3>3 DEF Agreement
    <3> QED
      BY <1>1, <1>3, <2>1, <2>2, <2>3, <3>1, <3>4 DEF LInv
  <2> QED
    BY <1>5, <2>4, <2>5 DEF exec_once
<1>6. CASE device_update \/ new_exec \/ UNCHANGED lvars
  <2>1. /\ UNCHANGED <<image, pc, mvars, exc, inst, phase, ref, stage, fetched, split>>
        /\ phase = "fetch" \/ dnpc' = dnpc
    BY <1>6 DEF device_update, new_exec, cpu_exec, AtFetch, Tick, lvars, vars, dvars
  <2>2. DutOK'
    BY <1>3, <2>1 DEF DutOK, mvars
  <2>3. Agreement => Agreement'
    BY <2>1 DEF Agreement, DutCore, mvars
  <2> QED
    BY <1>1, <1>3, <2>1, <2>2, <2>3 DEF LInv
<1>7. CASE difftest_step
  <2>1. ref' \in RefType /\ (~split' => ~split /\ Core(ref') = DutCore(pc))
    BY <1>7, StepMeets
  <2>2. /\ UNCHANGED <<image, pc, dnpc, mvars, exc, inst, phase>> /\ fetched' = NONE
        /\ stage' = IF pc = ref'.pc THEN "exec" ELSE "abort"
        /\ phase = "fetch"
    BY <1>7 DEF difftest_step, LInv
  <2>3. DutOK'
    BY <1>3, <2>2 DEF DutOK, mvars
  <2>4. DutCore(pc)' = DutCore(pc)
    BY <2>2 DEF DutCore, mvars
  <2>5. ~split' => pc = ref'.pc /\ Aligned(ref'.pc)
    BY <1>3, <2>1 DEF Core, DutCore, DutOK
  <2>6. ~split' => Agreement'
    BY <2>1, <2>2, <2>4, <2>5 DEF Agreement
  <2> QED
    BY <1>1, <2>1, <2>2, <2>3, <2>5, <2>6 DEF LInv
<1> QED
  BY <1>4, <1>5, <1>6, <1>7 DEF LNext

(* The invariant above holds in every state of the two interpreters        *)
(* together.                                                               *)
THEOREM LInvariance == LSpec => []LInv
BY InitLInv, NextLInv, PTL DEF LSpec

(* For every set of comparable guest programs, address space and timer:    *)
(* until one interpreter alone takes an interrupt, difftest_step           *)
(* (cpu/difftest/dut.c) never finds different pcs, and between             *)
(* instructions the trap state later pcs depend on is the same.            *)
THEOREM LockstepAgreesAlways == LSpec => []LockstepAgrees
<1>1. LInv => LockstepAgrees
  BY DEF LInv, Agreement, LockstepAgrees, Core, DutCore
<1> QED
  BY <1>1, LInvariance, PTL

(* The trap properties of the hart, when the build sets its clock.         *)
(* For every guest program under differential testing: sret gives back     *)
(* what the delegated trap took (inst.c:334).                              *)
THEOREM LockstepSretReturns == LSpec => SretReturns
<1>1. LInv /\ [LNext]_lvars =>
        [sret /\ sctx # NONE => /\ dnpc' = sctx.pc
                                /\ cur_pri' = sctx.pri
                                /\ sstatus'.SIE = sctx.ie]_vars
  BY SretRestores DEF LInv
<1> QED
  BY <1>1, LInvariance, PTL DEF LSpec, SretReturns

(* Neither does any trap lower the privilege level there.                  *)
THEOREM LockstepTrapNeverLowersPrivilege == LSpec => TrapNeverLowersPrivilege
<1>1. LInv /\ [LNext]_lvars => [irp_and_take \/ Trap => cur_pri' >= cur_pri]_vars
  BY TrapsRaise DEF LInv
<1> QED
  BY <1>1, LInvariance, PTL DEF LSpec, TrapNeverLowersPrivilege
====
