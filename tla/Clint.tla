------------------------------- MODULE Clint -------------------------------
(***************************************************************************)
(* The core-local interruptor of src/device/clint.c as the hart uses it:   *)
(* mtime and mtimecmp are each two words of the device page, which         *)
(* clint_update advances as one 64-bit number while the guest's stores,    *)
(* wfi and irp_and (src/isa/riscv32/inst.c) touch them word by word.       *)
(***************************************************************************)
EXTENDS Naturals

CONSTANTS W,          \* values of a word (2^32 in the code)
          WFI_STEP    \* what wfi adds to the low word (2000 in the code)

ASSUME WAssumption   == W \in Nat /\ W > 1
ASSUME WfiAssumption == WFI_STEP \in Nat

VARIABLES mtime, mtimecmp     \* [hi, lo] pairs of words

cvars == <<mtime, mtimecmp>>

Word == 0 .. W - 1
Pair == [hi : Word, lo : Word]
\* The 64-bit number a pair of words stands for.
Value(t) == t.hi * W + t.lo

init_clint == /\ mtimecmp = [hi |-> W - 1, lo |-> W - 1]
              /\ mtime = [hi |-> 0, lo |-> 0]

\* clint_update: one 64-bit increment, carry included.
clint_update ==
  /\ mtime' = IF mtime.lo = W - 1
              THEN [hi |-> (mtime.hi + 1) % W, lo |-> 0]
              ELSE [mtime EXCEPT !.lo = @ + 1]
  /\ UNCHANGED mtimecmp

\* A word store of the guest to one half of a register (no handler effect).
ClintStore(reg, half, v) ==
  /\ mtime'    = IF reg = "mtime"    THEN [mtime EXCEPT ![half] = v]    ELSE mtime
  /\ mtimecmp' = IF reg = "mtimecmp" THEN [mtimecmp EXCEPT ![half] = v] ELSE mtimecmp

\* wfi: MTIMELO is read, increased and written back as one word.
WfiAdvance == /\ mtime' = [mtime EXCEPT !.lo = (@ + WFI_STEP) % W]
              /\ UNCHANGED mtimecmp

\* The test with which irp_and raises MTIP, word against word.
TimerHit == mtime.hi > mtimecmp.hi \/ mtime.lo > mtimecmp.lo
-----------------------------------------------------------------------------
CTypeOK == mtime \in Pair /\ mtimecmp \in Pair
=============================================================================
