-------------------------------- MODULE LrSc --------------------------------
(***************************************************************************)
(* The A extension of the hart: lr.w, sc.w and the amo instructions of     *)
(* src/isa/riscv32/inst.c over the list of reservations kept by            *)
(* src/isa/riscv32/atomic_mem_word.c in cpu.amw.  The guest's tasks share  *)
(* the hart; a context switch may come between any two instructions, a     *)
(* task need not finish its lr/sc pair, and nothing but a successful sc.w  *)
(* takes a reservation off the list.  Beside it, what the repository's     *)
(* reference, MiniRV32IMA, makes of the same instructions: it keeps one    *)
(* reservation, that of the last lr.w.                                     *)
(***************************************************************************)
EXTENDS Naturals, FiniteSets, SequencesExt

CONSTANTS Addrs,     \* the words the tasks synchronise on
          Tasks,     \* guest tasks, each with its own registers
          W,         \* values of a word
          NONE,      \* no address
          MaxLr      \* bound on the lr.w per address

ASSUME WAssumption    == W \in Nat /\ W > 1
ASSUME NoneAssumption == NONE \notin Addrs
ASSUME LrAssumption   == MaxLr \in Nat

VARIABLES mem,       \* memory
          amw,       \* cpu.amw, the reserved addresses in list order
          reg,       \* reg[t]: the value t got from its last lr.w
          rd,        \* R(rd) of the last sc.w: 0 when it stored, 1 before the first
          \* History, read by the properties only:
          lrs, scs,  \* lr.w and successful sc.w per address
          slot,      \* the reference's reservation, the upper bits of its extraflags
          used       \* whether an sc.w has answered it already

counts == <<lrs, scs>>
ref    == <<slot, used>>
vars   == <<mem, amw, reg, rd, counts, ref>>

Init == /\ mem = [a \in Addrs |-> 0]
        /\ amw = << >>
        /\ reg = [t \in Tasks |-> 0] /\ rd = 1
        /\ lrs = [a \in Addrs |-> 0] /\ scs = [a \in Addrs |-> 0]
        /\ slot = NONE /\ used = FALSE

\* The list operations of atomic_mem_word.c; every node is reserved.
insertNode(l, a) == Append(l, a)
searchNode(l, a) == Contains(l, a)
deleteNode_All(l, a) == SelectSeq(l, LAMBDA x : x # a)
deleteNode_Tail(l, a) == Front(l)
deleteNode(l, a) == RemoveFirst(l, a)

\* What the tasks store: the word they read, plus one.
Inc(v) == (v + 1) % W

\* lr.w: the load, then a new node at the tail.
lr_w(t, a) == /\ lrs[a] < MaxLr
              /\ reg' = [reg EXCEPT ![t] = mem[a]]
              /\ amw' = insertNode(amw, a)
              /\ lrs' = [lrs EXCEPT ![a] = @ + 1]
              /\ slot' = a /\ used' = FALSE
              /\ UNCHANGED <<mem, rd, scs>>

\* The reference: it stores if its reservation is for the address, and keeps
\* the reservation.
ref_sc_w(a) == /\ used' = (used \/ slot = a)
               /\ UNCHANGED slot

\* sc.w, of whichever task, with some node for the address on the list ...
sc_w_success(t, a) == /\ searchNode(amw, a)
                      /\ mem' = [mem EXCEPT ![a] = Inc(reg[t])]
                      /\ rd' = 0
                      /\ amw' = deleteNode(amw, a)
                      /\ scs' = [scs EXCEPT ![a] = @ + 1]
                      /\ ref_sc_w(a)
                      /\ UNCHANGED <<reg, lrs>>
\* ... or without.
sc_w_fail(a) == /\ ~searchNode(amw, a)
                /\ rd' = 1
                /\ ref_sc_w(a)
                /\ UNCHANGED <<mem, amw, reg, counts>>

\* amoadd.w and the other amo: read, modify, write; the list is not looked at.
amo_w(a) == /\ mem' = [mem EXCEPT ![a] = Inc(@)]
            /\ UNCHANGED <<amw, reg, rd, counts, ref>>

Next == \/ \E t \in Tasks, a \in Addrs : lr_w(t, a) \/ sc_w_success(t, a)
        \/ \E a \in Addrs : sc_w_fail(a) \/ amo_w(a)

Spec == Init /\ [][Next]_vars
-----------------------------------------------------------------------------
Nodes(a) == Cardinality({i \in DOMAIN amw : amw[i] = a})

(* Every lr.w licenses at most one sc.w: the list holds exactly the lr.w   *)
(* that have not been used up, for every address, in whatever order tasks  *)
(* interleave (deleteNode, atomic_mem_word.c:27; inst.c:309).              *)
OneScPerLr == \A a \in Addrs : scs[a] + Nodes(a) = lrs[a]

(* "Validate that our reservation slot is OK" (mini-rv32ima.h:488): the    *)
(* sc.w that is the first to answer the last lr.w stores, as it does in    *)
(* the reference, whatever sc.w of other words, whatever older lr.w and    *)
(* whatever amo the tasks executed in between or before (inst.c:309).      *)
LastLrIsAnswered == slot # NONE /\ ~used => searchNode(amw, slot)
=============================================================================
