--------------------------- MODULE DifftestProofs ---------------------------
(* For registers of every width, every tolerance and every error of the    *)
(* DUT: what one difftest_step establishes about the two sides.            *)
EXTENDS Difftest, TLAPS

Side == [gpr : 0 .. G - 1, pc : 0 .. P - 1]

TypeOK ==
  /\ MINIRV32I \in BOOLEAN
  /\ dut \in Side /\ ref \in Side
  /\ is_skip_ref \in BOOLEAN /\ skip_dut_one_inst \in BOOLEAN
  /\ nemu \in {"RUNNING", "ABORT"}
  /\ phase \in {"exec", "step"}
  /\ waived \in BOOLEAN

\* A step only follows an instruction, and finds the request that irp_and
\* has made on the way.
StepIsDue == phase = "step" => nemu = "RUNNING" /\ is_skip_ref = ~MINIRV32I

(* Against every reference but MiniRV32IMA nothing is ever compared: the   *)
(* poll of the CLINT in each instruction (intr.c, through                  *)
(* find_mapid_by_addr) asks for a skip, so the reference gets the DUT's    *)
(* registers, right or wrong, and no run aborts.                           *)
NothingCompared ==
  ~MINIRV32I => /\ nemu = "RUNNING" /\ ~waived
                /\ phase = "exec" => ref = dut

IInv == TypeOK /\ StepIsDue /\ SkipsAreDead /\ NothingCompared /\ DriftIsBounded
-----------------------------------------------------------------------------
(* The arithmetic of the comparison.                                       *)

LEMMA StepType ==
  ASSUME NEW c \in Side, NEW e \in Int, NEW j \in Int
  PROVE  Step(c, e, j) \in Side
<1>1. \A x \in Int : x % G \in 0 .. G - 1 /\ x % P \in 0 .. P - 1
  BY SizeAssumption
<1>2. c.gpr + 1 + e \in Int /\ c.pc + 1 + j \in Int
  BY SizeAssumption DEF Side
<1> QED
  BY <1>1, <1>2 DEF Step, Side

\* The difference as the code sees it, a number of the register's width.
LEMMA DertValue ==
  ASSUME NEW a \in 0 .. G - 1, NEW b \in 0 .. G - 1
  PROVE  /\ Dert(a, b) = IF a >= b THEN a - b ELSE a - b + G
         /\ Dert(a, b) = 0 \/ Dert(b, a) = G - Dert(a, b)
  BY SizeAssumption DEF Dert

(* An answer that is not an error means that one side is at most the       *)
(* tolerance ahead of the other, or that they are half the range apart,    *)
(* where abs is undefined.                                                 *)
LEMMA AcceptedIsClose ==
  ASSUME NEW a \in 0 .. G - 1, NEW b \in 0 .. G - 1,
         NEW error \in Differs(a, b), ~error
  PROVE  Dert(a, b) <= TOL \/ Dert(b, a) <= TOL \/ 2 * Dert(a, b) = G
<1>1. Dert(a, b) \in Int /\ G \in Int /\ TOL \in Int /\ 0 <= TOL
  BY DertValue, SizeAssumption
<1>2. CASE 2 * Dert(a, b) < G
  <2>1. Differs(a, b) = {Dert(a, b) > TOL}
    BY <1>1, <1>2 DEF Differs
  <2>2. ~(Dert(a, b) > TOL)
    BY <2>1, Zenon
  <2> QED
    BY <2>2, <1>1
<1>3. CASE 2 * Dert(a, b) > G
  <2>1. Differs(a, b) = {G - Dert(a, b) > TOL}
    BY <1>1, <1>3 DEF Differs
  <2>2. ~(G - Dert(a, b) > TOL)
    BY <2>1, Zenon
  <2> QED
    BY <2>2, <1>1, DertValue
<1> QED
  BY <1>1, <1>2, <1>3
-----------------------------------------------------------------------------
(* The reference's instruction, and one step of the system.                *)

LEMMA ExecutedType == ref \in Side => Executed \in Side
  BY StepType DEF Executed

THEOREM Invariance == Spec => []IInv
<1>1. Init => IInv
  <2> SUFFICES ASSUME Init PROVE IInv
    OBVIOUS
  <2>1. TypeOK
    <3>1. MINIRV32I \in BOOLEAN
      BY RefAssumption, Zenon DEF Init
    <3>2. [gpr |-> 0, pc |-> 0] \in Side
      BY SizeAssumption DEF Side
    <3> QED
      BY <3>1, <3>2, Zenon DEF Init, TypeOK
  <2>2. DriftIsBounded
    <3>1. ref = dut /\ dut.gpr = 0 /\ dut.pc = 0
      BY DEF Init
    <3>2. Dert(0, 0) = 0
      BY DertValue, SizeAssumption
    <3> QED
      BY <3>1, <3>2, SizeAssumption DEF DriftIsBounded
  <2> QED
    BY <2>1, <2>2 DEF Init, IInv, StepIsDue, SkipsAreDead, NothingCompared
<1>2. IInv /\ [Next]_vars => IInv'
  <2> SUFFICES ASSUME IInv, [Next]_vars PROVE IInv'
    OBVIOUS
  <2> USE DEF IInv
  <2>1. CASE exec_once
    <3>1. PICK e \in Errors, j \in {0, 1} : dut' = Step(dut, e, j)
      BY <2>1 DEF exec_once
    <3>2. dut' \in Side
      BY <3>1, StepType, ErrAssumption DEF TypeOK
    <3>3. TypeOK'
      BY <2>1, <3>2 DEF exec_once, difftest_skip_ref, TypeOK
    <3> QED
      BY <2>1, <3>3 DEF exec_once, difftest_skip_ref, StepIsDue, SkipsAreDead,
                        NothingCompared, DriftIsBounded
  <2>2. CASE step_skip_ref
    <3>1. TypeOK'
      BY <2>2 DEF step_skip_ref, TypeOK
    <3>2. DriftIsBounded'
      <4>1. ref' = dut /\ dut' = dut
        BY <2>2 DEF step_skip_ref
      <4>2. Dert(dut.gpr, dut.gpr) = 0
        BY DertValue DEF TypeOK, Side
      <4> QED
        BY <4>1, <4>2, SizeAssumption DEF DriftIsBounded
    <3> QED
      BY <2>2, <3>1, <3>2 DEF step_skip_ref, StepIsDue, SkipsAreDead, NothingCompared
  <2>3. CASE check_same_pc
    <3>1. /\ phase = "step" /\ ~is_skip_ref /\ dut.pc = Executed.pc
          /\ ref' = Executed /\ phase' = "exec"
          /\ UNCHANGED <<MINIRV32I, dut, skip_dut_one_inst, waived>>
          /\ is_skip_ref' = ~MINIRV32I
      BY <2>3 DEF check_same_pc, AtStep, difftest_skip_ref
    <3>2. PICK error \in Differs(Executed.gpr, dut.gpr) :
                 nemu' = IF error THEN "ABORT" ELSE nemu
      BY <2>3 DEF check_same_pc
    <3>3. TypeOK'
      BY <3>1, <3>2, ExecutedType DEF TypeOK
    <3>4. DriftIsBounded'
      <4> SUFFICES ASSUME nemu' = "RUNNING"
                   PROVE  \/ Dert(Executed.gpr, dut.gpr) <= TOL
                          \/ Dert(dut.gpr, Executed.gpr) <= TOL
                          \/ 2 * Dert(Executed.gpr, dut.gpr) = G
        BY <3>1 DEF DriftIsBounded
      <4>1. Executed.gpr \in 0 .. G - 1 /\ dut.gpr \in 0 .. G - 1
        BY ExecutedType DEF TypeOK, Side
      <4>2. ~error
        BY <3>2
      <4> QED
        BY <4>1, <4>2, AcceptedIsClose
    <3> QED
      BY <3>1, <3>2, <3>3, <3>4 DEF StepIsDue, SkipsAreDead, NothingCompared, TypeOK
  <2>4. CASE check_other_pc
    <3>1. /\ phase = "step" /\ ~is_skip_ref /\ phase' = "exec"
          /\ UNCHANGED <<MINIRV32I, dut>>
          /\ is_skip_ref' = ~MINIRV32I
      BY <2>4 DEF check_other_pc, AtStep, difftest_skip_ref
    <3>2. PICK answer \in 0 .. 3 :
            /\ ref' = IF answer = 1 THEN Step(Executed, 0, 0) ELSE Executed
            /\ skip_dut_one_inst' = SkipOne(answer)
            /\ nemu' = IF answer = 0 THEN nemu ELSE "ABORT"
            /\ waived' = (waived \/ answer = 0)
      BY <2>4 DEF check_other_pc
    <3>3. TypeOK'
      <4>1. ref' \in Side
        BY <3>2, ExecutedType, StepType DEF TypeOK
      <4> QED
        BY <3>1, <3>2, <4>1 DEF TypeOK, SkipOne
    <3>4. waived' \/ nemu' = "ABORT"
      BY <3>2
    <3>5. skip_dut_one_inst' => nemu' = "ABORT"
      <4>1. answer = 2 => nemu' = "ABORT"
        BY <3>2
      <4>2. skip_dut_one_inst' <=> answer = 2
        BY <3>2, Zenon DEF SkipOne
      <4> QED
        BY <4>1, <4>2
    <3>6. MINIRV32I
      BY <3>1 DEF StepIsDue, TypeOK
    <3> QED
      BY <3>1, <3>3, <3>4, <3>5, <3>6
         DEF StepIsDue, SkipsAreDead, NothingCompared, DriftIsBounded
  <2>5. CASE UNCHANGED vars
    BY <2>5 DEF vars, TypeOK, StepIsDue, SkipsAreDead, NothingCompared, DriftIsBounded
  <2> QED
    BY <2>1, <2>2, <2>3, <2>4, <2>5 DEF Next, difftest_step
<1> QED
  BY <1>1, <1>2, PTL DEF Spec

-----------------------------------------------------------------------------
(* DriftIsBounded, for every width of the registers and every tolerance.   *)
THEOREM DriftStaysBounded == Spec => []DriftIsBounded
  BY Invariance, PTL DEF IInv

(* SkipsAreDead: difftest_step's early return is never taken.              *)
THEOREM SkipsNeverMet == Spec => []SkipsAreDead
  BY Invariance, PTL DEF IInv

(* NothingCompared: with another reference no wrong DUT is ever caught.    *)
THEOREM OnlyMiniRV32IMACompares == Spec => []NothingCompared
  BY Invariance, PTL DEF IInv
=============================================================================
