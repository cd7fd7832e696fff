----------------------------- MODULE LrScProofs -----------------------------
(* For any number of words and tasks: the list of reservations counts the  *)
(* lr.w that no sc.w has used up, so that sc.w succeeds while one is left. *)
EXTENDS LrSc, FiniteSetTheorems, SequenceTheorems, WellFoundedInduction, TLAPS

TypeOK ==
  /\ mem \in [Addrs -> 0 .. W - 1]
  /\ amw \in Seq(Addrs)
  /\ reg \in [Tasks -> 0 .. W - 1]
  /\ rd \in {0, 1} /\ used \in BOOLEAN
  /\ lrs \in [Addrs -> 0 .. MaxLr] /\ scs \in [Addrs -> Nat]
  /\ slot \in Addrs \cup {NONE}

\* The places of a word on a list.
Places(l, a) == {i \in DOMAIN l : l[i] = a}

IInv == TypeOK /\ OneScPerLr /\ LastLrIsAnswered

(* sc.w of a word stores as long as some lr.w of that word, whichever task *)
(* executed it and however long ago, has not been used up by another sc.w  *)
(* (inst.c:309), and only then.                                            *)
ScFindsUnusedLr == \A a \in Addrs : searchNode(amw, a) <=> scs[a] < lrs[a]
-----------------------------------------------------------------------------
(* What the list operations do to the number of places of a word.          *)

LEMMA PlacesFinite ==
  ASSUME NEW l \in Seq(Addrs), NEW a
  PROVE  IsFiniteSet(Places(l, a)) /\ Cardinality(Places(l, a)) \in Nat
<1>1. IsFiniteSet(1 .. Len(l))
  BY FS_Interval
<1>2. Places(l, a) \in SUBSET (1 .. Len(l))
  BY DEF Places
<1> QED
  BY <1>1, <1>2, FS_Subset, FS_CardinalityType

LEMMA InsertCounts ==
  ASSUME NEW l \in Seq(Addrs), NEW x \in Addrs, NEW a \in Addrs
  PROVE  /\ insertNode(l, x) \in Seq(Addrs)
         /\ Cardinality(Places(insertNode(l, x), a))
              = Cardinality(Places(l, a)) + (IF x = a THEN 1 ELSE 0)
<1>1. /\ insertNode(l, x) \in Seq(Addrs)
      /\ Len(insertNode(l, x)) = Len(l) + 1
      /\ \A i \in 1 .. Len(l) : insertNode(l, x)[i] = l[i]
      /\ insertNode(l, x)[Len(l) + 1] = x
  BY DEF insertNode
<1>2. Len(l) \in Nat /\ Len(l) + 1 \notin Places(l, a)
  BY DEF Places
<1>3. CASE x = a
  <2>1. Places(insertNode(l, x), a) = Places(l, a) \cup {Len(l) + 1}
    BY <1>1, <1>2, <1>3 DEF Places
  <2> QED
    BY <1>1, <1>2, <1>3, <2>1, PlacesFinite, FS_AddElement
<1>4. CASE x # a
  <2>1. Places(insertNode(l, x), a) = Places(l, a)
    BY <1>1, <1>2, <1>4 DEF Places
  <2> QED
    BY <1>1, <1>4, <2>1, PlacesFinite
<1> QED
  BY <1>3, <1>4

LEMMA SearchCounts ==
  ASSUME NEW l \in Seq(Addrs), NEW a
  PROVE  searchNode(l, a) <=> Cardinality(Places(l, a)) # 0
<1>1. searchNode(l, a) <=> Places(l, a) # {}
  BY DEF searchNode, Contains, Places
<1>2. IsFiniteSet(Places(l, a))
  BY PlacesFinite
<1> QED
  BY <1>1, <1>2, FS_EmptySet

\* The library's Min, for sets that need not be finite.
LEMMA MinIsLeast ==
  ASSUME NEW S \in SUBSET Nat, S # {}
  PROVE  Min(S) \in S /\ \A j \in S : Min(S) <= j
<1> DEFINE R == {p \in Nat \X Nat : p[1] < p[2]}
<1>1. OpToRel(<, Nat) = R
  BY DEF OpToRel
<1>2. IsWellFoundedOn(R, Nat)
  BY <1>1, NatLessThanWellFounded
<1>3. PICK i \in S : \A j \in S : <<j, i>> \notin R
  BY <1>2, WFMin
<1>4. ASSUME NEW j \in S PROVE i <= j
  <2>1. i \in Nat /\ j \in Nat /\ <<j, i>> \in Nat \X Nat
    OBVIOUS
  <2>2. ~(<<j, i>>[1] < <<j, i>>[2])
    BY <1>3, <2>1, Zenon
  <2> QED
    BY <2>1, <2>2
<1> QED
  BY <1>4 DEF Min

\* What is left when the k-th node is unlinked.
LEMMA RemoveAtValue ==
  ASSUME NEW l \in Seq(Addrs), NEW k \in 1 .. Len(l)
  PROVE  /\ RemoveAt(l, k) \in Seq(Addrs)
         /\ Len(RemoveAt(l, k)) = Len(l) - 1
         /\ \A i \in 1 .. Len(l) - 1 :
              RemoveAt(l, k)[i] = IF i < k THEN l[i] ELSE l[i + 1]
<1> DEFINE s == SubSeq(l, 1, k - 1)
           t == SubSeq(l, k + 1, Len(l))
<1>1. Len(l) \in Nat /\ k \in Nat
  OBVIOUS
<1>2. s \in Seq(Addrs) /\ Len(s) = k - 1 /\ \A i \in 1 .. k - 1 : s[i] = l[i]
  BY <1>1
<1>3. /\ t \in Seq(Addrs) /\ Len(t) = Len(l) - k
      /\ \A i \in 1 .. Len(l) - k : t[i] = l[k + i]
  BY <1>1
<1>4. RemoveAt(l, k) = s \o t
  BY DEF RemoveAt
<1> HIDE DEF s, t
<1>5. /\ s \o t \in Seq(Addrs) /\ Len(s \o t) = Len(s) + Len(t)
      /\ \A i \in 1 .. Len(s) + Len(t) : (s \o t)[i] = IF i <= Len(s) THEN s[i] ELSE t[i - Len(s)]
  BY <1>2, <1>3, ConcatProperties
<1>6. ASSUME NEW i \in 1 .. Len(l) - 1
      PROVE  RemoveAt(l, k)[i] = IF i < k THEN l[i] ELSE l[i + 1]
  <2>1. i \in 1 .. Len(s) + Len(t)
    BY <1>1, <1>2, <1>3
  <2>2. RemoveAt(l, k)[i] = IF i <= k - 1 THEN s[i] ELSE t[i - (k - 1)]
    BY <1>2, <1>4, <1>5, <2>1
  <2>3. i < k => s[i] = l[i]
    BY <1>1, <1>2
  <2>4. i >= k => t[i - (k - 1)] = l[i + 1]
    BY <1>1, <1>3
  <2> QED
    BY <1>1, <2>2, <2>3, <2>4
<1> QED
  BY <1>1, <1>2, <1>3, <1>4, <1>5, <1>6

\* The node that deleteNode unlinks is the first that matches.
LEMMA DeleteUnlinks ==
  ASSUME NEW l \in Seq(Addrs), NEW x \in Addrs, searchNode(l, x)
  PROVE  \E k \in 1 .. Len(l) : l[k] = x /\ deleteNode(l, x) = RemoveAt(l, k)
<1> DEFINE I == {i \in 1 .. Len(l) : l[i] = x}
<1>1. \E i \in 1 .. Len(l) : l[i] = x
  BY DEF searchNode, Contains
<1>2. I \in SUBSET Nat /\ I # {}
  BY <1>1
<1>3. Min(I) \in I
  BY <1>2, MinIsLeast
<1>4. deleteNode(l, x) = RemoveAt(l, Min(I))
  BY <1>1 DEF deleteNode, RemoveFirst, SelectInSeq
<1> QED
  BY <1>3, <1>4

LEMMA DeleteCounts ==
  ASSUME NEW l \in Seq(Addrs), NEW x \in Addrs, NEW a \in Addrs, searchNode(l, x)
  PROVE  /\ deleteNode(l, x) \in Seq(Addrs)
         /\ Cardinality(Places(deleteNode(l, x), a))
              = Cardinality(Places(l, a)) - (IF x = a THEN 1 ELSE 0)
<1> DEFINE d == deleteNode(l, x)
<1>a. PICK k \in 1 .. Len(l) : l[k] = x /\ d = RemoveAt(l, k)
  BY DeleteUnlinks
<1>1. /\ l[k] = x /\ d \in Seq(Addrs) /\ Len(d) = Len(l) - 1
      /\ \A i \in 1 .. Len(l) - 1 : d[i] = IF i < k THEN l[i] ELSE l[i + 1]
  BY <1>a, RemoveAtValue
<1> HIDE DEF d
<1> DEFINE S == Places(d, a)
           T == Places(l, a) \ {k}
           f == [i \in S |-> IF i < k THEN i ELSE i + 1]
<1>2. Len(l) \in Nat
  OBVIOUS
<1>3. f \in [S -> T]
  BY <1>1, <1>2 DEF Places
<1>4. \A i, j \in S : f[i] = f[j] => i = j
  BY <1>1, <1>2 DEF Places
<1>5. \A j \in T : \E i \in S : f[i] = j
  <2> SUFFICES ASSUME NEW j \in T PROVE \E i \in S : f[i] = j
    OBVIOUS
  <2>1. CASE j < k
    <3>1. j \in S /\ f[j] = j
      BY <2>1, <1>1, <1>2 DEF Places
    <3> QED
      BY <3>1
  <2>2. CASE j > k
    <3>1. j - 1 \in S /\ f[j - 1] = j
      BY <2>2, <1>1, <1>2 DEF Places
    <3> QED
      BY <3>1
  <2>3. j \in Nat /\ k \in Nat /\ j # k
    BY <1>2 DEF Places
  <2> QED
    BY <2>1, <2>2, <2>3
<1>6. ExistsBijection(S, T)
  BY <1>3, <1>4, <1>5, Zenon DEF ExistsBijection, Bijection, Injection, Surjection, IsInjective
<1>7. Cardinality(S) = Cardinality(T)
  BY <1>1, <1>6, PlacesFinite, FS_Bijection
<1>8. Cardinality(T) = Cardinality(Places(l, a)) - (IF x = a THEN 1 ELSE 0)
  <2>1. k \in Places(l, a) <=> x = a
    BY <1>1 DEF Places
  <2>2. IsFiniteSet(Places(l, a)) /\ Cardinality(Places(l, a)) \in Nat
    BY PlacesFinite
  <2>3. Cardinality(T) = IF k \in Places(l, a) THEN Cardinality(Places(l, a)) - 1
                         ELSE Cardinality(Places(l, a))
    BY <2>2, FS_RemoveElement
  <2> QED
    BY <2>1, <2>2, <2>3
<1> QED
  BY <1>1, <1>7, <1>8 DEF d
-----------------------------------------------------------------------------
(* The counts of a state and of its successor.                             *)

LEMMA IncType == \A v \in 0 .. W - 1 : Inc(v) \in 0 .. W - 1
  BY WAssumption DEF Inc

\* OneScPerLr at one word.
Counted(a) == scs[a] + Nodes(a) = lrs[a]

\* The last lr.w keeps its node until an sc.w answers it.
LEMMA LastLrStep ==
  ASSUME TypeOK, LastLrIsAnswered, [Next]_vars
  PROVE  LastLrIsAnswered'
<1>1. amw \in Seq(Addrs)
  BY DEF TypeOK
<1>2. ASSUME NEW t \in Tasks, NEW x \in Addrs, lr_w(t, x) PROVE LastLrIsAnswered'
  <2>1. amw' = insertNode(amw, x) /\ slot' = x
    BY <1>2 DEF lr_w
  <2>2. /\ amw' \in Seq(Addrs)
        /\ Cardinality(Places(amw', x)) = Cardinality(Places(amw, x)) + 1
    BY <1>1, <2>1, InsertCounts
  <2>3. Cardinality(Places(amw, x)) \in Nat
    BY <1>1, PlacesFinite
  <2>4. searchNode(amw', x)
    BY <2>2, <2>3, SearchCounts
  <2> QED
    BY <2>1, <2>4 DEF LastLrIsAnswered, searchNode
<1>3. ASSUME NEW t \in Tasks, NEW x \in Addrs, sc_w_success(t, x) PROVE LastLrIsAnswered'
  <2>1. /\ searchNode(amw, x) /\ amw' = deleteNode(amw, x)
        /\ slot' = slot /\ used' = (used \/ slot = x)
    BY <1>3 DEF sc_w_success, ref_sc_w
  <2>2. ASSUME slot # NONE, ~used, slot # x PROVE searchNode(amw', slot)
    <3>1. slot \in Addrs /\ searchNode(amw, slot)
      BY <2>2 DEF LastLrIsAnswered, TypeOK
    <3>2. /\ amw' \in Seq(Addrs)
          /\ Cardinality(Places(amw', slot)) = Cardinality(Places(amw, slot)) - 0
      BY <1>1, <2>1, <2>2, <3>1, DeleteCounts
    <3>3. Cardinality(Places(amw, slot)) \in Nat
      BY <1>1, PlacesFinite
    <3> QED
      BY <1>1, <3>1, <3>2, <3>3, SearchCounts
  <2> QED
    BY <2>1, <2>2 DEF LastLrIsAnswered, searchNode
<1>4. ASSUME NEW x \in Addrs, sc_w_fail(x) PROVE LastLrIsAnswered'
  BY <1>4 DEF sc_w_fail, ref_sc_w, LastLrIsAnswered, searchNode
<1>5. ASSUME NEW x \in Addrs, amo_w(x) PROVE LastLrIsAnswered'
  BY <1>5 DEF amo_w, ref, LastLrIsAnswered, searchNode
<1>6. CASE UNCHANGED vars
  BY <1>6 DEF vars, ref, LastLrIsAnswered, searchNode
<1> QED
  BY <1>2, <1>3, <1>4, <1>5, <1>6 DEF Next

(* The inductive invariant: the types, one node per unused lr.w, and one   *)
(* for the last lr.w as long as it is unanswered.                          *)
THEOREM Invariance == Spec => []IInv
<1>1. Init => IInv
  <2> SUFFICES ASSUME Init PROVE IInv
    OBVIOUS
  <2>1. TypeOK
    <3>1. used \in BOOLEAN
      BY Zenon DEF Init
    <3>2. mem \in [Addrs -> 0 .. W - 1] /\ reg \in [Tasks -> 0 .. W - 1]
      BY WAssumption DEF Init
    <3>3. amw \in Seq(Addrs) /\ rd \in {0, 1} /\ slot \in Addrs \cup {NONE}
      BY DEF Init
    <3>4. lrs \in [Addrs -> 0 .. MaxLr] /\ scs \in [Addrs -> Nat]
      BY LrAssumption DEF Init
    <3> QED
      BY <3>1, <3>2, <3>3, <3>4 DEF TypeOK
  <2>2. ASSUME NEW a \in Addrs PROVE Counted(a)
    <3>1. Places(amw, a) = {}
      BY DEF Init, Places
    <3>2. Nodes(a) = 0
      BY <3>1, FS_EmptySet DEF Nodes, Places
    <3> QED
      BY <3>2 DEF Init, Counted
  <2>3. LastLrIsAnswered
    BY DEF Init, LastLrIsAnswered
  <2> QED
    BY <2>1, <2>2, <2>3 DEF IInv, OneScPerLr, Counted
<1>2. IInv /\ [Next]_vars => IInv'
  <2> SUFFICES ASSUME IInv, [Next]_vars PROVE IInv'
    OBVIOUS
  <2>1. TypeOK /\ \A a \in Addrs : Counted(a)
    BY DEF IInv, OneScPerLr, Counted
  <2>2. amw \in Seq(Addrs) /\ \A a \in Addrs : /\ scs[a] \in Nat /\ lrs[a] \in Nat
                                              /\ Nodes(a) = Cardinality(Places(amw, a))
                                              /\ Nodes(a) \in Nat
    <3>1. amw \in Seq(Addrs) /\ \A a \in Addrs : scs[a] \in Nat /\ lrs[a] \in Nat
      BY <2>1, LrAssumption DEF TypeOK
    <3>2. \A a \in Addrs : Nodes(a) = Cardinality(Places(amw, a))
      BY DEF Nodes, Places
    <3> QED
      BY <3>1, <3>2, PlacesFinite
  <2>3. SUFFICES TypeOK' /\ \A a \in Addrs : Counted(a)'
    <3>1. LastLrIsAnswered'
      BY LastLrStep DEF IInv
    <3> QED
      BY <3>1, Zenon DEF IInv, Counted, OneScPerLr
  <2>4. ASSUME NEW t \in Tasks, NEW x \in Addrs, lr_w(t, x)
        PROVE  TypeOK' /\ \A a \in Addrs : Counted(a)'
    <3>1. amw' \in Seq(Addrs)
      BY <2>2, <2>4, InsertCounts DEF lr_w
    <3>2. TypeOK'
      <4>1. used' \in BOOLEAN
        BY <2>4, Zenon DEF lr_w
      <4>2. reg' \in [Tasks -> 0 .. W - 1] /\ lrs' \in [Addrs -> 0 .. MaxLr]
        BY <2>1, <2>4, LrAssumption DEF lr_w, TypeOK
      <4>3. slot' \in Addrs \cup {NONE} /\ mem' = mem /\ rd' = rd /\ scs' = scs
        BY <2>4 DEF lr_w
      <4> QED
        BY <2>1, <3>1, <4>1, <4>2, <4>3 DEF TypeOK
    <3>3. ASSUME NEW a \in Addrs PROVE Counted(a)'
      <4>1. Nodes(a)' = Nodes(a) + (IF x = a THEN 1 ELSE 0)
        <5>1. Nodes(a)' = Cardinality(Places(amw', a))
          BY DEF Nodes, Places
        <5> QED
          BY <2>2, <5>1, <2>4, InsertCounts DEF lr_w
      <4>2. scs'[a] = scs[a] /\ lrs'[a] = lrs[a] + (IF x = a THEN 1 ELSE 0)
        BY <2>1, <2>4 DEF lr_w, TypeOK
      <4>3. /\ scs[a] \in Nat /\ lrs[a] \in Nat /\ Nodes(a) \in Nat
            /\ scs[a] + Nodes(a) = lrs[a]
        BY <2>1, <2>2 DEF Counted
      <4> QED
        BY <4>1, <4>2, <4>3 DEF Counted
    <3> QED
      BY <3>2, <3>3
  <2>5. ASSUME NEW t \in Tasks, NEW x \in Addrs, sc_w_success(t, x)
        PROVE  TypeOK' /\ \A a \in Addrs : Counted(a)'
    <3>1. searchNode(amw, x) /\ amw' = deleteNode(amw, x)
      BY <2>5 DEF sc_w_success
    <3>2. amw' \in Seq(Addrs)
      BY <2>2, <3>1, DeleteCounts
    <3>3. TypeOK'
      <4>1. Inc(reg[t]) \in 0 .. W - 1
        BY <2>1, IncType DEF TypeOK
      <4>2. mem' \in [Addrs -> 0 .. W - 1] /\ scs' \in [Addrs -> Nat]
        BY <2>1, <2>5, <4>1 DEF sc_w_success, TypeOK
      <4>3. rd' \in {0, 1} /\ used' \in BOOLEAN /\ slot' \in Addrs \cup {NONE}
        BY <2>1, <2>5 DEF sc_w_success, ref_sc_w, TypeOK
      <4>4. reg' = reg /\ lrs' = lrs
        BY <2>5 DEF sc_w_success
      <4> QED
        BY <2>1, <3>2, <4>2, <4>3, <4>4 DEF TypeOK
    <3>4. ASSUME NEW a \in Addrs PROVE Counted(a)'
      <4>1. Nodes(a)' = Nodes(a) - (IF x = a THEN 1 ELSE 0)
        <5>1. Nodes(a)' = Cardinality(Places(amw', a))
          BY DEF Nodes, Places
        <5> QED
          BY <2>2, <5>1, <3>1, DeleteCounts
      <4>2. lrs'[a] = lrs[a] /\ scs'[a] = scs[a] + (IF x = a THEN 1 ELSE 0)
        BY <2>1, <2>5 DEF sc_w_success, TypeOK
      <4> QED
        BY <2>1, <2>2, <4>1, <4>2 DEF Counted
    <3> QED
      BY <3>3, <3>4
  <2>6. ASSUME NEW x \in Addrs, sc_w_fail(x)
        PROVE  TypeOK' /\ \A a \in Addrs : Counted(a)'
    <3>1. TypeOK'
      BY <2>1, <2>6 DEF sc_w_fail, ref_sc_w, counts, TypeOK
    <3>2. \A a \in Addrs : Counted(a)'
      BY <2>1, <2>6 DEF sc_w_fail, counts, Counted, Nodes
    <3> QED
      BY <3>1, <3>2
  <2>7. ASSUME NEW x \in Addrs, amo_w(x)
        PROVE  TypeOK' /\ \A a \in Addrs : Counted(a)'
    <3>1. TypeOK'
      BY <2>1, <2>7, IncType DEF amo_w, counts, ref, TypeOK
    <3>2. \A a \in Addrs : Counted(a)'
      BY <2>1, <2>7 DEF amo_w, counts, Counted, Nodes
    <3> QED
      BY <3>1, <3>2
  <2>8. CASE UNCHANGED vars
    BY <2>1, <2>8 DEF vars, counts, ref, TypeOK, Counted, Nodes
  <2> QED
    BY <2>4, <2>5, <2>6, <2>7, <2>8 DEF Next
<1> QED
  BY <1>1, <1>2, PTL DEF Spec
-----------------------------------------------------------------------------
(* OneScPerLr, for any number of words and tasks.                          *)
THEOREM EveryLrLicensesOneSc == Spec => []OneScPerLr
  BY Invariance, PTL DEF IInv

(* LastLrIsAnswered, for any number of words and tasks: where the          *)
(* reference stores for the first time, the hart does.                     *)
THEOREM LastLrIsAlwaysAnswered == Spec => []LastLrIsAnswered
  BY Invariance, PTL DEF IInv

(* ScFindsUnusedLr: sc.w fails exactly when every lr.w of its word has     *)
(* been used up; that the lr.w be the task's own, or the last, is not      *)
(* needed, which is where sc.w and the reference part.                     *)
THEOREM ScSucceedsOnUnusedLr == Spec => []ScFindsUnusedLr
<1>1. IInv => ScFindsUnusedLr
  <2> SUFFICES ASSUME IInv, NEW a \in Addrs
               PROVE  searchNode(amw, a) <=> scs[a] < lrs[a]
    BY DEF ScFindsUnusedLr
  <2>1. amw \in Seq(Addrs) /\ scs[a] \in Nat /\ lrs[a] \in Nat
    BY LrAssumption DEF IInv, TypeOK
  <2>2. scs[a] + Cardinality(Places(amw, a)) = lrs[a]
    BY DEF IInv, OneScPerLr, Nodes, Places
  <2>3. Cardinality(Places(amw, a)) \in Nat
    BY <2>1, PlacesFinite
  <2>4. searchNode(amw, a) <=> Cardinality(Places(amw, a)) # 0
    BY <2>1, SearchCounts
  <2> QED
    BY <2>1, <2>2, <2>3, <2>4
<1> QED
  BY <1>1, Invariance, PTL
=============================================================================
