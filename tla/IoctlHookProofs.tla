--------------------------- MODULE IoctlHookProofs ---------------------------
(***************************************************************************)
(* Theorems about IoctlHook for any threads, handles, sizes, limit and     *)
(* width of size_t.                                                        *)
(*                                                                         *)
(* Conservation is not inductive by itself: ChargeEnd and CreditEnd store  *)
(* a value computed from a register.  IndInv adds that the register still  *)
(* equals free_mem (StoreOK), which in turn needs the mutex.               *)
(*                                                                         *)
(* The second half is about the memory limit: the ledger is the sum of its *)
(* list, and with one call at a time the ledger and the driver's own use   *)
(* are quotas.                                                             *)
(***************************************************************************)
EXTENDS IoctlHook, ByteCountProofs, TLAPS, WellFoundedInduction, SequenceTheorems

-----------------------------------------------------------------------------
(* size_t arithmetic *)

\* size_t addition and subtraction stay in range.
LEMMA SizeClosed ==
  ASSUME NEW a \in Size, NEW b \in Size
  PROVE  Plus(a, b) \in Size /\ Minus(a, b) \in Size
BY ConstantsOK DEF Size, Plus, Minus

\* Moving n from a to b or back leaves their size_t sum alone, wrapped or not.
LEMMA MoveKeepsSum ==
  ASSUME NEW a \in Size, NEW b \in Size, NEW n \in Size
  PROVE  /\ Plus(Minus(a, n), Plus(b, n)) = Plus(a, b)
         /\ Plus(Plus(a, n), Minus(b, n)) = Plus(a, b)
BY ConstantsOK DEF Size, Plus, Minus

-----------------------------------------------------------------------------
(* The lists *)

\* A nonempty set of naturals has its Min.
LEMMA MinInSet ==
  ASSUME NEW S \in SUBSET Nat, S # {}
  PROVE  Min(S) \in S /\ \A y \in S : Min(S) <= y
<1>1. PICK x \in S : \A y \in S : ~(<<y, x>> \in OpToRel(<, Nat))
  BY NatLessThanWellFounded, WFMin
<1>2. ASSUME NEW y \in S PROVE x <= y
  <2>1. <<y, x>> \in {p \in Nat \X Nat : p[1] < p[2]} <=> y < x
    OBVIOUS
  <2>2. ~(y < x)
    BY <1>1, <2>1 DEF OpToRel
  <2> QED BY <2>2
<1> QED
  BY <1>2 DEF Min

\* The loop of free_heap_page and free_device_page ends on an entry of the
\* list whenever there is one.
LEMMA LoopEndsInList ==
  ASSUME NEW T, NEW list \in Seq(T), list # <<>>, NEW object
  PROVE  EntryAfterLoop(list, object) \in 1 .. Len(list)
<1> DEFINE I == {i \in 1 .. Len(list) : list[i].object = object}
<1>1. Len(list) \in 1 .. Len(list)
  OBVIOUS
<1>2. ASSUME I # {} PROVE Min(I) \in 1 .. Len(list)
  <2>1. I \in SUBSET Nat
    OBVIOUS
  <2> QED BY <2>1, <1>2, MinInSet
<1>3. FindEntry(list, object) = IF I # {} THEN Min(I) ELSE 0
  BY DEF FindEntry, SelectInSeq
<1> QED
  BY <1>1, <1>2, <1>3 DEF EntryAfterLoop

\* list_add and list_del keep a list a list.
LEMMA ListClosed ==
  ASSUME NEW T, NEW list \in Seq(T), NEW e \in T, NEW i \in 1 .. Len(list)
  PROVE  Cons(e, list) \in Seq(T) /\ RemoveAt(list, i) \in Seq(T)
BY DEF Cons, RemoveAt

\* list_del closes the gap the entry leaves.
LEMMA RemoveShape ==
  ASSUME NEW T, NEW list \in Seq(T), NEW i \in 1 .. Len(list)
  PROVE  /\ RemoveAt(list, i) \in Seq(T)
         /\ Len(RemoveAt(list, i)) = Len(list) - 1
         /\ \A j \in 1 .. Len(list) - 1 : RemoveAt(list, i)[j] = list[IF j < i THEN j ELSE j + 1]
<1> DEFINE a == SubSeq(list, 1, i - 1)
           b == SubSeq(list, i + 1, Len(list))
<1>1. Len(list) \in Nat \ {0} /\ i \in Nat /\ 1 <= i /\ i <= Len(list)
  OBVIOUS
<1>2. a \in Seq(T) /\ Len(a) = i - 1 /\ \A j \in 1 .. i - 1 : a[j] = list[j]
  BY <1>1
<1>3. b \in Seq(T) /\ Len(b) = Len(list) - i /\ \A j \in 1 .. Len(list) - i : b[j] = list[j + i]
  BY <1>1
<1>4. RemoveAt(list, i) = a \o b
  BY DEF RemoveAt
<1> HIDE DEF a, b
<1>5. /\ a \o b \in Seq(T) /\ Len(a \o b) = Len(a) + Len(b)
      /\ \A j \in 1 .. Len(a) + Len(b) : (a \o b)[j] = IF j <= Len(a) THEN a[j] ELSE b[j - Len(a)]
  BY <1>2, <1>3, ConcatProperties
<1>6. ASSUME NEW j \in 1 .. Len(list) - 1
      PROVE  (a \o b)[j] = list[IF j < i THEN j ELSE j + 1]
  <2>0. j \in 1 .. Len(a) + Len(b)
    BY <1>1, <1>2, <1>3
  <2>1. CASE j < i
    BY <1>1, <1>2, <1>5, <2>0, <2>1
  <2>2. CASE ~(j < i)
    <3>1. j - Len(a) \in 1 .. Len(list) - i /\ (j - Len(a)) + i = j + 1 /\ ~(j <= Len(a))
      BY <1>1, <1>2, <2>2
    <3> QED BY <1>3, <1>5, <2>0, <2>2, <3>1
  <2> QED BY <2>1, <2>2
<1>7. Len(a \o b) = Len(list) - 1
  BY <1>1, <1>2, <1>3, <1>5
<1> QED BY <1>4, <1>5, <1>6, <1>7

\* The index a loop finds: the first entry with the object, or 0.
FirstAt(list, object, i) ==
  \/ i = 0 /\ \A j \in 1 .. Len(list) : list[j].object # object
  \/ /\ i \in 1 .. Len(list) /\ list[i].object = object
     /\ \A j \in 1 .. i - 1 : list[j].object # object

\* FindEntry is that index.
LEMMA FindIsFirst ==
  ASSUME NEW T, NEW list \in Seq(T), NEW object
  PROVE  /\ FirstAt(list, object, FindEntry(list, object))
         /\ \A i : FirstAt(list, object, i) => FindEntry(list, object) = i
<1> DEFINE I == {i \in 1 .. Len(list) : list[i].object = object}
<1>1. FindEntry(list, object) = IF I # {} THEN Min(I) ELSE 0
  BY DEF FindEntry, SelectInSeq
<1>2. I \in SUBSET Nat /\ Len(list) \in Nat
  OBVIOUS
<1>3. CASE I = {}
  BY <1>1, <1>2, <1>3 DEF FirstAt
<1>4. CASE I # {}
  <2>1. Min(I) \in I /\ \A j \in I : Min(I) <= j
    BY <1>2, <1>4, MinInSet
  <2>2. FirstAt(list, object, Min(I))
    <3> DEFINE m == Min(I)
    <3>1. m \in 1 .. Len(list) /\ list[m].object = object /\ m \in Nat
      BY <2>1
    <3>2. \A j \in I : m <= j
      BY <2>1
    <3> HIDE DEF m
    <3>3. ASSUME NEW j \in 1 .. m - 1 PROVE list[j].object # object
      <4>1. j \in 1 .. Len(list) /\ ~(m <= j)
        BY <1>2, <3>1
      <4> QED BY <3>2, <4>1
    <3>4. FirstAt(list, object, m)
      BY <3>1, <3>3 DEF FirstAt
    <3> QED BY <3>4 DEF m
  <2>3. ASSUME NEW i, FirstAt(list, object, i) PROVE Min(I) = i
    <3>1. i \in I /\ \A j \in 1 .. i - 1 : j \notin I
      BY <1>4, <2>3 DEF FirstAt
    <3> QED BY <1>2, <2>1, <3>1
  <2> QED BY <1>1, <1>4, <2>2, <2>3
<1> QED BY <1>3, <1>4

\* After list_add the new entry is found for its object, and for any other
\* object the entry that was found before.
LEMMA FindAfterAdd ==
  ASSUME NEW T, NEW list \in Seq(T), NEW e \in T, NEW object
  PROVE  LET new == Cons(e, list)
             i == FindEntry(list, object)
             k == FindEntry(new, object) IN
         IF e.object = object THEN k # 0 /\ new[k] = e
         ELSE (k = 0 <=> i = 0) /\ (i # 0 => new[k] = list[i])
<1> DEFINE new == Cons(e, list)
           i == FindEntry(list, object)
<1>1. new \in Seq(T) /\ Len(new) = Len(list) + 1 /\ Len(list) \in Nat /\ new[1] = e
  BY DEF Cons
<1>2. \A j \in 1 .. Len(list) : new[j + 1] = list[j]
  BY DEF Cons
<1>3. FirstAt(list, object, i)
  BY FindIsFirst
<1> HIDE DEF new, i
<1>4. \A j \in 2 .. Len(new) : j - 1 \in 1 .. Len(list) /\ new[j] = list[j - 1]
  BY <1>1, <1>2
<1>5. CASE e.object = object
  <2>1. FirstAt(new, object, 1)
    BY <1>1, <1>5 DEF FirstAt
  <2>2. FindEntry(new, object) = 1
    BY <1>1, <2>1, FindIsFirst
  <2> QED BY <1>1, <1>5, <2>2 DEF new
<1>6. CASE e.object # object /\ i = 0
  <2>1. \A j \in 1 .. Len(new) : new[j].object # object
    BY <1>1, <1>3, <1>4, <1>6 DEF FirstAt
  <2>2. FindEntry(new, object) = 0
    BY <1>1, <2>1, FindIsFirst DEF FirstAt
  <2> QED BY <1>6, <2>2 DEF new, i
<1>7. CASE e.object # object /\ i # 0
  <2>1. i \in 1 .. Len(list) /\ list[i].object = object /\ \A j \in 1 .. i - 1 : list[j].object # object
    BY <1>3, <1>7 DEF FirstAt
  <2>2. i + 1 \in 1 .. Len(new) /\ new[i + 1] = list[i] /\ i + 1 # 0
    BY <1>1, <1>2, <2>1
  <2>3. ASSUME NEW j \in 1 .. i PROVE new[j].object # object
    BY <1>1, <1>2, <1>4, <1>7, <2>1
  <2>4. FirstAt(new, object, i + 1)
    BY <1>1, <2>1, <2>2, <2>3 DEF FirstAt
  <2>5. FindEntry(new, object) = i + 1
    BY <1>1, <2>4, FindIsFirst
  <2> QED BY <1>7, <2>2, <2>5 DEF new, i
<1> QED BY <1>5, <1>6, <1>7

\* list_del of one object's entry does not change what is found for another.
LEMMA FindAfterDel ==
  ASSUME NEW T, NEW list \in Seq(T), NEW d \in 1 .. Len(list), NEW object,
         list[d].object # object
  PROVE  LET new == RemoveAt(list, d)
             i == FindEntry(list, object)
             k == FindEntry(new, object) IN
         (k = 0 <=> i = 0) /\ (i # 0 => new[k] = list[i])
<1> DEFINE new == RemoveAt(list, d)
           i == FindEntry(list, object)
<1>1. new \in Seq(T) /\ Len(new) = Len(list) - 1 /\ Len(list) \in Nat \ {0} /\ d \in Nat
  BY RemoveShape
<1>2. \A j \in 1 .. Len(list) - 1 : new[j] = list[IF j < d THEN j ELSE j + 1]
  BY RemoveShape
<1>3. FirstAt(list, object, i)
  BY FindIsFirst
<1> HIDE DEF new, i
<1>4. CASE i = 0
  <2>1. \A j \in 1 .. Len(new) : new[j].object # object
    BY <1>1, <1>2, <1>3, <1>4 DEF FirstAt
  <2>2. FindEntry(new, object) = 0
    BY <1>1, <2>1, FindIsFirst DEF FirstAt
  <2> QED BY <1>4, <2>2 DEF new, i
<1>5. CASE i # 0
  <2> DEFINE k == IF i < d THEN i ELSE i - 1
  <2>1. i \in 1 .. Len(list) /\ list[i].object = object /\ \A j \in 1 .. i - 1 : list[j].object # object
    BY <1>3, <1>5 DEF FirstAt
  <2>2. i # d
    BY <2>1
  <2>3. k \in 1 .. Len(new) /\ new[k] = list[i] /\ k # 0
    <3>1. k \in 1 .. Len(list) - 1 /\ (IF k < d THEN k ELSE k + 1) = i
      BY <1>1, <2>1, <2>2
    <3> HIDE DEF k
    <3> QED BY <1>1, <1>2, <3>1
  <2>4. ASSUME NEW j \in 1 .. k - 1 PROVE new[j].object # object
    <3>1. j \in 1 .. Len(list) - 1 /\ (IF j < d THEN j ELSE j + 1) \in 1 .. i - 1
      BY <1>1, <2>1, <2>2, <2>4
    <3> QED BY <1>2, <2>1, <3>1
  <2>5. FirstAt(new, object, k)
    BY <2>1, <2>3, <2>4 DEF FirstAt
  <2>6. FindEntry(new, object) = k
    BY <1>1, <2>5, FindIsFirst
  <2> QED BY <1>5, <2>3, <2>6 DEF new, i
<1> QED BY <1>4, <1>5

-----------------------------------------------------------------------------
(* The inductive invariant *)

\* A thread about to store still has the current free_mem in its register,
\* and a thread about to credit has an entry to credit.
StoreOK ==
  \A t \in Threads : pc[t] = "store" =>
    /\ reg[t] = free_mem
    /\ req[t].op = "free" => heap_mem_list # <<>>

IndInv == TypeOK /\ MutualExclusion /\ StoreOK /\ Conservation

\* What applications pass is a request, and so is the frame of no call.
LEMMA RequestsTyped == Requests \subseteq Request /\ NoRequest \in Request
BY ConstantsOK DEF Requests, Request, NoRequest, Id, Size, AllOps, NoDevice

\* Returning from ioctl() keeps the threads' state typed.
LEMMA ReturnTyped ==
  ASSUME TypeOK, NEW t \in Threads, Return(t)
  PROVE  /\ pc' \in [Threads -> {"idle", "pre", "kernel", "post", "crit", "store"}]
         /\ req' \in [Threads -> Request]
         /\ reg' \in [Threads -> Size]
BY RequestsTyped, ConstantsOK DEF TypeOK, Return, Size

\* Outside the critical section a step that leaves the ledger and the mutex
\* alone keeps the mutex discipline.
LEMMA QuietStep ==
  ASSUME IndInv, NEW t \in Threads, ~InCrit(t),
         NEW to \in {"idle", "pre", "kernel", "post"}, Goto(t, to),
         \A u \in Threads \ {t} : req'[u] = req[u] /\ reg'[u] = reg[u],
         UNCHANGED <<free_mem, alloc_mem, heap_mem_list, mu>>
  PROVE  MutualExclusion' /\ StoreOK' /\ Conservation'
<1> USE DEF IndInv, TypeOK
<1>1. pc'[t] = to /\ \A u \in Threads \ {t} : pc'[u] = pc[u]
  BY DEF Goto
<1>2. MutualExclusion'
  BY <1>1 DEF MutualExclusion, InCrit
<1>3. StoreOK'
  BY <1>1 DEF StoreOK
<1>4. Conservation'
  BY DEF Conservation
<1> QED BY <1>2, <1>3, <1>4

\* The step that unlocks leaves nobody in the critical section.
LEMMA UnlockStep ==
  ASSUME IndInv, NEW t \in Threads, InCrit(t), Return(t), mu' = NoThread
  PROVE  MutualExclusion' /\ StoreOK'
<1>1. \A u \in Threads \ {t} : ~InCrit(u)
  BY ConstantsOK DEF IndInv, MutualExclusion
<1>2. \A u \in Threads : pc'[u] \notin {"crit", "store"}
  BY <1>1 DEF IndInv, TypeOK, Return, InCrit
<1> QED
  BY <1>2 DEF MutualExclusion, StoreOK, InCrit

\* A lookup in rm_mem_list gives a device id or none.
LEMMA DeviceOfTyped ==
  ASSUME TypeOK, NEW object
  PROVE  DeviceOf(object) \in Devices \cup {NoDevice}
<1> DEFINE I == {i \in 1 .. Len(rm_mem_list) : rm_mem_list[i].object = object}
<1>1. FindEntry(rm_mem_list, object) = IF I # {} THEN Min(I) ELSE 0
  BY DEF FindEntry, SelectInSeq
<1>2. I \in SUBSET Nat /\ 0 \notin I
  OBVIOUS
<1>3. CASE I = {}
  BY <1>1, <1>3 DEF DeviceOf
<1>4. CASE I # {}
  <2>1. Min(I) \in I
    BY <1>2, <1>4, MinInSet
  <2>2. Min(I) \in 1 .. Len(rm_mem_list)
    BY <2>1
  <2>3. rm_mem_list[Min(I)] \in RmEntry
    BY <2>2 DEF TypeOK
  <2>4. rm_mem_list[Min(I)].device_id \in Devices \cup {NoDevice}
    BY <2>3 DEF RmEntry
  <2>5. DeviceOf(object) = rm_mem_list[Min(I)].device_id
    BY <1>1, <1>4, <2>2 DEF DeviceOf
  <2> QED BY <2>4, <2>5
<1> QED BY <1>3, <1>4

\* Init establishes the inductive invariant.
LEMMA IndInvInit == Init => IndInv
BY RequestsTyped, ConstantsOK
DEF Init, IndInv, TypeOK, MutualExclusion, StoreOK, Conservation, InCrit, Plus, Size

\* The call, the pre check and the real ioctl keep the inductive invariant.
LEMMA IndInvBefore ==
  ASSUME IndInv, NEW t \in Threads,
         Call(t) \/ PreSkip(t) \/ PreAdmit(t) \/ PreDeny(t) \/ Kernel(t) \/ PostReturn(t)
  PROVE  IndInv'
<1> USE DEF IndInv, TypeOK
<1>1. CASE Call(t)
  <2>1. ~InCrit(t) /\ Goto(t, "pre") /\ UNCHANGED <<free_mem, alloc_mem, heap_mem_list, mu>>
    BY <1>1 DEF Call, InCrit
  <2>2. \A u \in Threads \ {t} : req'[u] = req[u] /\ reg'[u] = reg[u]
    BY <1>1 DEF Call
  <2>3. TypeOK'
    BY <1>1, RequestsTyped DEF Call, Goto
  <2> QED BY <2>1, <2>2, <2>3, QuietStep
<1>2. CASE PreSkip(t)
  <2>1. ~InCrit(t) /\ Goto(t, "kernel") /\ UNCHANGED <<free_mem, alloc_mem, heap_mem_list, mu>>
    BY <1>2 DEF PreSkip, InCrit
  <2>2. \A u \in Threads \ {t} : req'[u] = req[u] /\ reg'[u] = reg[u]
    BY <1>2 DEF PreSkip
  <2>3. TypeOK'
    BY <1>2 DEF PreSkip, Goto
  <2> QED BY <2>1, <2>2, <2>3, QuietStep
<1>3. CASE PreAdmit(t)
  <2>1. ~InCrit(t) /\ Goto(t, "kernel") /\ UNCHANGED <<free_mem, alloc_mem, heap_mem_list, mu>>
    BY <1>3 DEF PreAdmit, InCrit
  <2>2. \A u \in Threads \ {t} : req'[u] = req[u] /\ reg'[u] = reg[u]
    BY <1>3 DEF PreAdmit
  <2>3. TypeOK'
    BY <1>3 DEF PreAdmit, Goto
  <2> QED BY <2>1, <2>2, <2>3, QuietStep
<1>4. CASE KernelRefuse(t)
  <2>1. ~InCrit(t) /\ Goto(t, "post") /\ UNCHANGED <<free_mem, alloc_mem, heap_mem_list, mu>>
    BY <1>4 DEF KernelRefuse, InCrit
  <2>2. \A u \in Threads \ {t} : req'[u] = req[u] /\ reg'[u] = reg[u]
    BY <1>4 DEF KernelRefuse
  <2>3. TypeOK'
    <3>1. [req[t] EXCEPT !.status = "failed"] \in Request
      BY DEF Request
    <3> QED BY <1>4, <3>1 DEF KernelRefuse, Goto
  <2> QED BY <2>1, <2>2, <2>3, QuietStep
<1>5. CASE KernelAlloc(t)
  <2>1. ~InCrit(t) /\ Goto(t, "post") /\ UNCHANGED <<free_mem, alloc_mem, heap_mem_list, mu>>
    BY <1>5 DEF KernelAlloc, InCrit
  <2>2. \A u \in Threads \ {t} : req'[u] = req[u] /\ reg'[u] = reg[u]
    BY <1>5 DEF KernelAlloc
  <2>3. TypeOK'
    <3> DEFINE D == IF req[t].op = "rm_subdevice"
                      THEN {o.dev : o \in {p \in live : p.h = req[t].parent}} ELSE {req[t].dev}
    <3>0. D \subseteq Devices \cup {NoDevice}
      BY DEF Object, Request
    <3>1. PICK m \in Size, d \in D :
            /\ req' = [req EXCEPT ![t].size = m]
            /\ live' = live \cup {[h |-> req[t].h, op |-> req[t].op, parent |-> req[t].parent,
                                   size |-> m, dev |-> d]}
      BY <1>5 DEF KernelAlloc
    <3>2. [req[t] EXCEPT !.size = m] \in Request
      BY DEF Request
    <3>3. live' \in SUBSET Object
      BY <3>0, <3>1 DEF Request, Object
    <3> QED BY <1>5, <3>1, <3>2, <3>3 DEF KernelAlloc, Goto
  <2> QED BY <2>1, <2>2, <2>3, QuietStep
<1>6. CASE KernelFree(t)
  <2>1. ~InCrit(t) /\ Goto(t, "post") /\ UNCHANGED <<free_mem, alloc_mem, heap_mem_list, mu>>
    BY <1>6 DEF KernelFree, InCrit
  <2>2. \A u \in Threads \ {t} : req'[u] = req[u] /\ reg'[u] = reg[u]
    BY <1>6 DEF KernelFree
  <2>3. TypeOK'
    BY <1>6 DEF KernelFree, Goto
  <2> QED BY <2>1, <2>2, <2>3, QuietStep
<1>7. CASE KernelOther(t)
  <2>1. ~InCrit(t) /\ Goto(t, "post") /\ UNCHANGED <<free_mem, alloc_mem, heap_mem_list, mu>>
    BY <1>7 DEF KernelOther, InCrit
  <2>2. \A u \in Threads \ {t} : req'[u] = req[u] /\ reg'[u] = reg[u]
    BY <1>7 DEF KernelOther
  <2>3. TypeOK'
    BY <1>7 DEF KernelOther, Goto
  <2> QED BY <2>1, <2>2, <2>3, QuietStep
<1>8. CASE PreDeny(t)
  <2>1. ~InCrit(t) /\ Return(t) /\ Goto(t, "idle") /\ UNCHANGED <<free_mem, alloc_mem, heap_mem_list, mu>>
    BY <1>8 DEF PreDeny, Return, Goto, InCrit
  <2>2. \A u \in Threads \ {t} : req'[u] = req[u] /\ reg'[u] = reg[u]
    BY <2>1 DEF Return
  <2>3. TypeOK'
    BY <1>8, <2>1, ReturnTyped DEF PreDeny
  <2> QED BY <2>1, <2>2, <2>3, QuietStep
<1>9. CASE KernelError(t)
  <2>1. ~InCrit(t) /\ Return(t) /\ Goto(t, "idle") /\ UNCHANGED <<free_mem, alloc_mem, heap_mem_list, mu>>
    BY <1>9 DEF KernelError, Return, Goto, InCrit
  <2>2. \A u \in Threads \ {t} : req'[u] = req[u] /\ reg'[u] = reg[u]
    BY <2>1 DEF Return
  <2>3. TypeOK'
    BY <1>9, <2>1, ReturnTyped DEF KernelError
  <2> QED BY <2>1, <2>2, <2>3, QuietStep
<1>10. CASE PostReturn(t)
  <2>1. ~InCrit(t) /\ Return(t) /\ Goto(t, "idle") /\ UNCHANGED <<free_mem, alloc_mem, heap_mem_list, mu>>
    BY <1>10 DEF PostReturn, Return, Goto, InCrit
  <2>2. \A u \in Threads \ {t} : req'[u] = req[u] /\ reg'[u] = reg[u]
    BY <2>1 DEF Return
  <2>3. TypeOK'
    BY <1>10, <2>1, ReturnTyped DEF PostReturn
  <2> QED BY <2>1, <2>2, <2>3, QuietStep
<1> QED BY <1>1, <1>2, <1>3, <1>4, <1>5, <1>6, <1>7, <1>8, <1>9, <1>10 DEF Kernel

\* The bookkeeping handlers keep the inductive invariant.
LEMMA IndInvPost ==
  ASSUME IndInv, NEW t \in Threads,
         \/ PostLock(t) \/ ChargeBegin(t) \/ ChargeNoMemory(t) \/ ChargeEnd(t)
         \/ CreditBegin(t) \/ CreditEnd(t) \/ CreditNone(t)
         \/ FreeDevice(t) \/ AddDevice(t) \/ AddSubdevice(t) \/ ControlLookup(t)
  PROVE  IndInv'
<1> USE DEF IndInv, TypeOK
<1>1. CASE PostLock(t)
  <2>1. \A u \in Threads : ~InCrit(u)
    BY <1>1, ConstantsOK DEF PostLock, MutualExclusion
  <2>2. TypeOK'
    BY <1>1 DEF PostLock, Goto
  <2>3. MutualExclusion'
    BY <1>1, <2>1 DEF PostLock, Goto, MutualExclusion, InCrit
  <2>4. StoreOK'
    BY <1>1 DEF PostLock, Goto, StoreOK
  <2>5. Conservation'
    BY <1>1 DEF PostLock, Conservation
  <2> QED BY <2>2, <2>3, <2>4, <2>5
<1>2. CASE ChargeBegin(t)
  <2>1. \A u \in Threads \ {t} : ~InCrit(u)
    BY <1>2 DEF ChargeBegin, MutualExclusion, InCrit
  <2>2. [object |-> req[t].key, size |-> req[t].size] \in MemEntry
    BY DEF Request, MemEntry
  <2>3. heap_mem_list' \in Seq(MemEntry)
    BY <1>2, <2>2 DEF ChargeBegin, Cons
  <2>4. TypeOK'
    BY <1>2, <2>3 DEF ChargeBegin, Goto
  <2>5. MutualExclusion'
    BY <1>2 DEF ChargeBegin, Goto, MutualExclusion, InCrit
  <2>6. StoreOK'
    BY <1>2, <2>1 DEF ChargeBegin, Goto, StoreOK, InCrit, MemoryOps
  <2>7. Conservation'
    BY <1>2 DEF ChargeBegin, Conservation
  <2> QED BY <2>4, <2>5, <2>6, <2>7
<1>3. CASE ChargeNoMemory(t)
  <2>1. Return(t) /\ UNCHANGED <<free_mem, alloc_mem, heap_mem_list, mu>>
    BY <1>3 DEF ChargeNoMemory
  <2>2. TypeOK'
    BY <1>3, <2>1, ReturnTyped DEF ChargeNoMemory
  <2>3. MutualExclusion'
    BY <2>1 DEF Return, MutualExclusion, InCrit
  <2>4. StoreOK'
    BY <2>1 DEF Return, StoreOK
  <2>5. Conservation'
    BY <2>1 DEF Conservation
  <2> QED BY <2>2, <2>3, <2>4, <2>5
<1>4. CASE ChargeEnd(t)
  <2>1. InCrit(t) /\ Return(t) /\ mu' = NoThread
    BY <1>4 DEF ChargeEnd, InCrit
  <2>2. reg[t] = free_mem /\ req[t].size \in Size
    BY <1>4 DEF ChargeEnd, StoreOK, Request
  <2>3. /\ free_mem' = Minus(free_mem, req[t].size)
        /\ alloc_mem' = Plus(alloc_mem, req[t].size)
    BY <1>4, <2>2 DEF ChargeEnd
  <2>4. free_mem' \in Size /\ alloc_mem' \in Size
    BY <2>2, <2>3, SizeClosed
  <2>5. TypeOK'
    BY <1>4, <2>1, <2>4, ReturnTyped DEF ChargeEnd
  <2>6. Conservation'
    BY <2>2, <2>3, MoveKeepsSum DEF Conservation
  <2> QED BY <2>1, <2>5, <2>6, UnlockStep
<1>5. CASE CreditBegin(t)
  <2>1. \A u \in Threads \ {t} : ~InCrit(u)
    BY <1>5 DEF CreditBegin, MutualExclusion, InCrit
  <2>2. TypeOK'
    BY <1>5 DEF CreditBegin, Goto
  <2>3. MutualExclusion'
    BY <1>5 DEF CreditBegin, Goto, MutualExclusion, InCrit
  <2>4. StoreOK'
    BY <1>5, <2>1 DEF CreditBegin, Goto, StoreOK, InCrit
  <2>5. Conservation'
    BY <1>5 DEF CreditBegin, Conservation
  <2> QED BY <2>2, <2>3, <2>4, <2>5
<1>6. CASE CreditEnd(t)
  <2> DEFINE i == EntryAfterLoop(heap_mem_list, req[t].h)
  <2>1. InCrit(t) /\ Return(t) /\ mu' = NoThread
    BY <1>6 DEF CreditEnd, InCrit
  <2>2. reg[t] = free_mem /\ heap_mem_list # <<>>
    BY <1>6 DEF CreditEnd, StoreOK
  <2>3. i \in 1 .. Len(heap_mem_list)
    BY <2>2, LoopEndsInList
  <2>4. heap_mem_list[i] \in MemEntry /\ heap_mem_list[i].size \in Size
    <3>1. heap_mem_list[i] \in MemEntry
      BY <2>3
    <3> QED BY <3>1 DEF MemEntry
  <2>5. /\ free_mem' = Plus(free_mem, heap_mem_list[i].size)
        /\ alloc_mem' = Minus(alloc_mem, heap_mem_list[i].size)
        /\ heap_mem_list' = RemoveAt(heap_mem_list, i)
    BY <1>6, <2>2 DEF CreditEnd
  <2>6. free_mem' \in Size /\ alloc_mem' \in Size
    BY <2>4, <2>5, SizeClosed
  <2>7. heap_mem_list' \in Seq(MemEntry)
    BY <2>3, <2>4, <2>5, ListClosed
  <2>8. TypeOK'
    BY <1>6, <2>1, <2>6, <2>7, ReturnTyped DEF CreditEnd
  <2>9. Conservation'
    BY <2>4, <2>5, MoveKeepsSum DEF Conservation
  <2> QED BY <2>1, <2>8, <2>9, UnlockStep
<1>7. CASE CreditNone(t)
  <2>1. /\ InCrit(t) /\ Return(t) /\ mu' = NoThread
        /\ UNCHANGED <<free_mem, alloc_mem>>
    BY <1>7 DEF CreditNone, InCrit
  <2>2. TypeOK'
    BY <1>7, <2>1, ReturnTyped DEF CreditNone
  <2> QED BY <2>1, <2>2, UnlockStep DEF Conservation
<1>8. CASE FreeDevice(t)
  <2>1. /\ InCrit(t) /\ Return(t) /\ mu' = NoThread
        /\ UNCHANGED <<free_mem, alloc_mem>>
    BY <1>8 DEF FreeDevice, InCrit
  <2>2. rm_mem_list' \in Seq(RmEntry)
    <3>1. CASE rm_mem_list = <<>>
      BY <1>8, <3>1 DEF FreeDevice
    <3>2. CASE rm_mem_list # <<>>
      <4> DEFINE i == EntryAfterLoop(rm_mem_list, req[t].h)
      <4>1. i \in 1 .. Len(rm_mem_list)
        BY <3>2, LoopEndsInList
      <4>2. RemoveAt(rm_mem_list, i) \in Seq(RmEntry)
        BY <4>1 DEF RemoveAt
      <4> QED BY <1>8, <3>2, <4>2 DEF FreeDevice
    <3> QED BY <3>1, <3>2
  <2>3. TypeOK'
    BY <1>8, <2>1, <2>2, ReturnTyped DEF FreeDevice
  <2> QED BY <2>1, <2>3, UnlockStep DEF Conservation
<1>9. CASE AddDevice(t)
  <2>1. /\ InCrit(t) /\ Return(t) /\ mu' = NoThread
        /\ UNCHANGED <<free_mem, alloc_mem>>
    BY <1>9 DEF AddDevice, InCrit
  <2>2. [object |-> req[t].h, device_id |-> req[t].dev] \in RmEntry
    BY DEF Request, RmEntry
  <2>3. rm_mem_list' \in Seq(RmEntry)
    <3>1. <<[object |-> req[t].h, device_id |-> req[t].dev]>> \o rm_mem_list \in Seq(RmEntry)
      BY <2>2
    <3> QED BY <1>9, <3>1 DEF AddDevice, Cons
  <2>4. TypeOK'
    BY <1>9, <2>1, <2>3, ReturnTyped DEF AddDevice
  <2> QED BY <2>1, <2>4, UnlockStep DEF Conservation
<1>10. CASE AddSubdevice(t)
  <2> DEFINE d == DeviceOf(req[t].parent)
  <2>1. /\ InCrit(t) /\ Return(t) /\ mu' = NoThread
        /\ UNCHANGED <<free_mem, alloc_mem>>
    BY <1>10 DEF AddSubdevice, InCrit
  <2>2. d \in Devices \cup {NoDevice}
    BY DeviceOfTyped
  <2>3. [object |-> req[t].h, device_id |-> d] \in RmEntry
    BY <2>2 DEF Request, RmEntry
  <2>4. rm_mem_list' \in Seq(RmEntry)
    <3>1. <<[object |-> req[t].h, device_id |-> d]>> \o rm_mem_list \in Seq(RmEntry)
      BY <2>3
    <3> QED BY <1>10, <3>1 DEF AddSubdevice, Cons
  <2>5. TypeOK'
    BY <1>10, <2>1, <2>4, ReturnTyped DEF AddSubdevice
  <2> QED BY <2>1, <2>5, UnlockStep DEF Conservation
<1>11. CASE ControlLookup(t)
  <2>1. /\ InCrit(t) /\ Return(t) /\ mu' = NoThread
        /\ UNCHANGED <<free_mem, alloc_mem>>
    BY <1>11 DEF ControlLookup, InCrit
  <2>2. TypeOK'
    BY <1>11, <2>1, ReturnTyped DEF ControlLookup
  <2> QED BY <2>1, <2>2, UnlockStep DEF Conservation
<1> QED
  BY <1>1, <1>2, <1>3, <1>4, <1>5, <1>6, <1>7, <1>8, <1>9, <1>10, <1>11

\* Every step keeps the inductive invariant.
LEMMA IndInvStep == IndInv /\ [Next]_vars => IndInv'
<1> SUFFICES ASSUME IndInv, [Next]_vars PROVE IndInv'
  OBVIOUS
<1>1. CASE UNCHANGED vars
  BY <1>1 DEF vars, IndInv, TypeOK, MutualExclusion, StoreOK, Conservation, InCrit
<1>2. ASSUME NEW t \in Threads, Call(t) \/ Step(t) PROVE IndInv'
  BY <1>2, IndInvBefore, IndInvPost DEF Step
<1> QED BY <1>1, <1>2 DEF Next

\* The inductive invariant holds in every reachable state.
LEMMA IndInvAlways == Spec => []IndInv
BY IndInvInit, IndInvStep, PTL DEF Spec

\* Types hold in every state of the interposer, the index of the entry that a
\* free credits included.
THEOREM TypeCorrect == Spec => []TypeOK
<1>1. IndInv => TypeOK
  BY DEF IndInv
<1> QED BY <1>1, IndInvAlways, PTL

\* No two threads are between lock and unlock of the post handlers at once.
THEOREM Exclusion == Spec => []MutualExclusion
<1>1. IndInv => MutualExclusion
  BY DEF IndInv
<1> QED BY <1>1, IndInvAlways, PTL

\* free_mem + alloc_mem = total_mem in size_t arithmetic, in every state, for
\* any number of threads, any workload and any width of size_t.
THEOREM NothingLost == Spec => []Conservation
<1>1. IndInv => Conservation
  BY DEF IndInv
<1> QED BY <1>1, IndInvAlways, PTL

-----------------------------------------------------------------------------
(* One call at a time *)

\* ChargeFits with what it needs earlier in the call: a checked request that is
\* in the driver fits with its size rounded up.
FitInv ==
  /\ \A t \in Threads :
       pc[t] = "kernel" /\ req[t].op \in MemoryOps /\ req[t].align # 0 =>
         AlignSize(req[t]) <= free_mem
  /\ ChargeFits

\* Rounding up to the alignment gives a number.
LEMMA AlignedIsInt ==
  ASSUME NEW r \in Request, r.op \in MemoryOps, r.align # 0
  PROVE  AlignSize(r) \in Int
<1> DEFINE x == (r.size + r.align - 1) % SizeMod
<1>1. r.size \in Nat /\ r.align \in Nat \ {0} /\ SizeMod \in Nat \ {0}
  BY ConstantsOK DEF Request, Size
<1>2. r.size + r.align - 1 \in Nat
  BY <1>1
<1>3. x \in Nat
  BY <1>1, <1>2
<1>4. x % r.align \in Nat
  BY <1>1, <1>3
<1>5. AlignSize(r) = x - (x % r.align)
  BY DEF AlignSize, AlignUp, MemoryOps
<1> QED BY <1>3, <1>4, <1>5

\* With one thread, every step keeps FitInv.
LEMMA FitStep ==
  ASSUME \A t, u \in Threads : t = u,
         IndInv, FitInv, [Next]_vars
  PROVE  FitInv'
<1> USE DEF IndInv, TypeOK
<1>1. CASE UNCHANGED vars
  BY <1>1 DEF vars, FitInv, ChargeFits, ChargePending
<1>2. ASSUME NEW t \in Threads, Call(t) \/ Step(t) PROVE FitInv'
  <2> SUFFICES /\ pc'[t] = "kernel" /\ req'[t].op \in MemoryOps /\ req'[t].align # 0 =>
                     AlignSize(req'[t]) <= free_mem'
               /\ ChargePending(t)' => req'[t].size <= free_mem'
    BY DEF FitInv, ChargeFits
  <2>1. req[t] \in Request /\ free_mem \in Int
    BY DEF Size
  <2>2. CASE PreSkip(t) \/ PreAdmit(t)
    <3>1. ASSUME req[t].op \in MemoryOps, req[t].align # 0
          PROVE  ~(free_mem < AlignSize(req[t])) /\ AlignSize(req[t]) \in Int
      BY <2>1, <2>2, <3>1, AlignedIsInt DEF PreSkip, PreAdmit, PreLocks
    <3>2. req'[t] = req[t] /\ free_mem' = free_mem /\ pc'[t] = "kernel"
      BY <2>2 DEF PreSkip, PreAdmit, Goto
    <3> QED BY <2>1, <3>1, <3>2 DEF ChargePending
  <2>3. CASE KernelAlloc(t)
    <3>1. PICK m \in Size :
            /\ req[t].op \in MemoryOps /\ req[t].align # 0 => m \in req[t].size .. AlignSize(req[t])
            /\ req' = [req EXCEPT ![t].size = m]
      BY <2>3 DEF KernelAlloc
    <3>2. /\ req'[t].size = m /\ req'[t].op = req[t].op /\ req'[t].align = req[t].align
          /\ free_mem' = free_mem /\ pc'[t] = "post" /\ pc[t] = "kernel"
      BY <2>3, <2>1, <3>1 DEF KernelAlloc, Goto, Request
    <3>3. ChargePending(t)' => req[t].op \in MemoryOps /\ req[t].align # 0
      BY <3>2 DEF ChargePending, PostLocks, MemoryOps
    <3>4. ASSUME req[t].op \in MemoryOps, req[t].align # 0 PROVE m <= free_mem
      <4>1. AlignSize(req[t]) \in Int /\ AlignSize(req[t]) <= free_mem
        BY <2>1, <3>2, <3>4, AlignedIsInt DEF FitInv
      <4> QED BY <2>1, <3>1, <3>4, <4>1 DEF Size, Request
    <3> QED BY <3>2, <3>3, <3>4
  <2>4. CASE KernelRefuse(t)
    <3>1. req'[t].status = "failed" /\ req'[t].op = req[t].op /\ pc'[t] = "post"
      BY <2>1, <2>4 DEF KernelRefuse, Goto, Request
    <3> QED BY <3>1 DEF ChargePending, PostLocks, MemoryOps
  <2>5. CASE KernelFree(t) \/ KernelOther(t)
    <3>1. req'[t] = req[t] /\ req[t].op \notin MemoryOps /\ pc'[t] = "post"
      BY <2>5 DEF KernelFree, KernelOther, Goto, MemoryOps
    <3> QED BY <3>1 DEF ChargePending
  <2>6. CASE PostLock(t) \/ ChargeBegin(t) \/ CreditBegin(t)
    <3>1. req'[t] = req[t] /\ free_mem' = free_mem /\ pc'[t] \in {"crit", "store"}
      BY <2>6 DEF PostLock, ChargeBegin, CreditBegin, Goto
    <3>2. pc[t] \in {"post", "crit"}
      BY <2>6 DEF PostLock, ChargeBegin, CreditBegin
    <3>3. ChargePending(t)' => ChargePending(t)
      BY <3>1, <3>2 DEF ChargePending, PostLocks
    <3> QED BY <3>1, <3>3 DEF FitInv, ChargeFits
  <2>7. CASE Call(t)
    <3>1. pc'[t] = "pre"
      BY <2>7 DEF Call, Goto
    <3> QED BY <3>1 DEF ChargePending
  <2>8. ASSUME Return(t)
        PROVE  /\ pc'[t] = "kernel" /\ req'[t].op \in MemoryOps /\ req'[t].align # 0 =>
                     AlignSize(req'[t]) <= free_mem'
               /\ ChargePending(t)' => req'[t].size <= free_mem'
    <3>1. pc'[t] = "idle"
      BY <2>8 DEF Return
    <3> QED BY <3>1 DEF ChargePending
  <2>9. CASE \/ PreDeny(t) \/ KernelError(t) \/ PostReturn(t) \/ ChargeNoMemory(t) \/ ChargeEnd(t)
             \/ CreditEnd(t) \/ CreditNone(t) \/ FreeDevice(t) \/ AddDevice(t)
             \/ AddSubdevice(t) \/ ControlLookup(t)
    <3>1. Return(t)
      BY <2>9 DEF PreDeny, KernelError, PostReturn, ChargeNoMemory, ChargeEnd, CreditEnd,
                  CreditNone, FreeDevice, AddDevice, AddSubdevice, ControlLookup
    <3> QED BY <3>1, <2>8
  <2> QED BY <1>2, <2>2, <2>3, <2>4, <2>5, <2>6, <2>7, <2>9 DEF Step, Kernel
<1> QED BY <1>1, <1>2 DEF Next

\* In a process that makes one call at a time a charge never makes free_mem
\* wrap: the answer of the pre check is still good in the post handler,
\* because the size granted is at most the size that was checked.
THEOREM OneCallerFits ==
  ASSUME \A t, u \in Threads : t = u
  PROVE  Spec => []ChargeFits
<1>1. Init => FitInv
  BY DEF Init, FitInv, ChargeFits, ChargePending
<1>2. IndInv /\ FitInv /\ [Next]_vars => FitInv'
  BY FitStep
<1>3. FitInv => ChargeFits
  BY DEF FitInv
<1> QED BY <1>1, <1>2, <1>3, IndInvAlways, PTL DEF Spec

-----------------------------------------------------------------------------
(* The device map *)

DeviceOps == {"rm_device", "rm_subdevice"}

\* What callers pass, when nothing but devices, subdevices and memory is made,
\* and what a handler that holds the mutex has checked.
ShapeInv ==
  \A t \in InFlight : LET r == req[t] IN
    /\ r.op # "rm_other"
    /\ r.op \in AllocOps => r.h # Root /\ (r.parent = Root <=> r.op = "rm_device")
    /\ r.op = "rm_device" => r.dev # NoDevice
    /\ r.op = "free" /\ r.h = Root => r.parent = Root
    /\ pc[t] \in {"pre", "kernel"} => r.status = "ok"
    /\ InCrit(t) => PostLocks(r)

\* Calls in progress do not get in each other's way: nothing is freed while
\* another call names it, and a handle being created is in one call only.
ApartInv ==
  \A t, u \in InFlight : t # u =>
    /\ ~Frees(req[t], req[u])
    /\ req[t].op \in AllocOps => req[u].h # req[t].h

\* The driver's objects: a device below the client, the rest below a device,
\* a subdevice on the GPU of its device.
TreeInv ==
  /\ \A o, p \in live : o.h = p.h => o = p
  /\ \A o \in live :
       /\ o.h # Root /\ o.op \in AllocOps /\ (o.parent = Root <=> o.op = "rm_device")
       /\ o.op \in DeviceOps => o.dev # NoDevice
       /\ o.op = "rm_subdevice" =>
            \E p \in live : p.h = o.parent /\ p.op = "rm_device" /\ p.dev = o.dev

\* An object being created: its handle is new until the driver has made it,
\* its parent device stays known, and what is made is what was asked for.
ComingInv ==
  \A t \in InFlight : req[t].op \in AllocOps =>
    /\ pc[t] \in {"pre", "kernel"} => \A o \in live : o.h # req[t].h
    /\ req[t].parent # Root => \E p \in Known : p.h = req[t].parent /\ p.op = "rm_device"
    /\ \A o \in live : o.h = req[t].h =>
         /\ o.op = req[t].op /\ o.parent = req[t].parent
         /\ o.op = "rm_device" => o.dev = req[t].dev

\* An object being freed: it is live until the driver frees it, and a device
\* has its entry until free_device_page removes it.
GoingInv ==
  \A t \in InFlight : req[t].op = "free" /\ req[t].h # Root =>
    /\ pc[t] \in {"pre", "kernel"} => \E o \in Known : o.h = req[t].h /\ o.parent = req[t].parent
    /\ pc[t] \notin {"pre", "kernel"} /\ req[t].status = "ok" =>
         /\ \A o \in live : o.h # req[t].h
         /\ req[t].parent = Root => FindEntry(rm_mem_list, req[t].h) # 0

\* Every known device and subdevice is found with its GPU.
MapInv == \A o \in Known : o.op \in DeviceOps => DeviceOf(o.h) = o.dev

DeviceInv == ShapeInv /\ ApartInv /\ TreeInv /\ ComingInv /\ GoingInv /\ MapInv

\* A step inside a call that keeps the request, the objects and the map.
LEMMA MapAdvance ==
  ASSUME IndInv, DeviceInv, NEW t \in Threads, NEW to \in {"kernel", "post", "crit", "store"},
         pc[t] # "idle", Goto(t, to), UNCHANGED <<req, live, rm_mem_list>>,
         to = "kernel" => pc[t] = "pre",
         to \in {"crit", "store"} => PostLocks(req[t]),
         req[t].op = "free" => (to = "kernel" <=> pc[t] \in {"pre", "kernel"})
  PROVE  DeviceInv'
<1>1. pc'[t] = to /\ \A u \in Threads \ {t} : pc'[u] = pc[u]
  BY DEF Goto, IndInv, TypeOK
<1>2. InFlight' = InFlight /\ t \in InFlight /\ InFlight \subseteq Threads
  BY <1>1 DEF InFlight
<1>3. Known' = Known
  BY <1>2 DEF Known
<1>4. ShapeInv'
  BY <1>1, <1>2 DEF DeviceInv, ShapeInv, InCrit
<1>5. ApartInv'
  BY <1>2 DEF DeviceInv, ApartInv
<1>6. TreeInv'
  BY DEF DeviceInv, TreeInv
<1>7. ComingInv'
  BY <1>1, <1>2, <1>3 DEF DeviceInv, ComingInv
<1>8. GoingInv'
  BY <1>1, <1>2, <1>3 DEF DeviceInv, GoingInv
<1>9. MapInv'
  BY <1>3 DEF DeviceInv, MapInv, DeviceOf
<1> QED BY <1>4, <1>5, <1>6, <1>7, <1>8, <1>9 DEF DeviceInv

\* A call that returns leaves the others as they were; what it created becomes
\* known.
LEMMA MapReturn ==
  ASSUME IndInv, DeviceInv, NEW t \in Threads, pc[t] # "idle", Return(t), live' = live
  PROVE  /\ InFlight' = InFlight \ {t}
         /\ \A u \in InFlight' : u \in InFlight /\ req'[u] = req[u] /\ pc'[u] = pc[u]
         /\ Known \subseteq Known'
         /\ \A o \in Known' \ Known : req[t].op \in AllocOps /\ o.h = req[t].h
         /\ ShapeInv' /\ ApartInv' /\ TreeInv' /\ ComingInv'
<1>1. pc'[t] = "idle" /\ \A u \in Threads \ {t} : pc'[u] = pc[u] /\ req'[u] = req[u]
  BY DEF Return, IndInv, TypeOK
<1>2. InFlight' = InFlight \ {t} /\ t \in InFlight /\ InFlight \subseteq Threads
  BY <1>1 DEF InFlight
<1>3. \A u \in InFlight' : u \in InFlight /\ req'[u] = req[u] /\ pc'[u] = pc[u]
  BY <1>1, <1>2
<1>4. Known \subseteq Known' /\ \A o \in Known' \ Known : req[t].op \in AllocOps /\ o.h = req[t].h
  BY <1>2, <1>3 DEF Known
<1>5. ShapeInv'
  BY <1>3 DEF DeviceInv, ShapeInv, InCrit
<1>6. ApartInv'
  BY <1>3 DEF DeviceInv, ApartInv
<1>7. TreeInv'
  BY DEF DeviceInv, TreeInv
<1>8. ComingInv'
  BY <1>3, <1>4 DEF DeviceInv, ComingInv
<1> QED BY <1>2, <1>3, <1>4, <1>5, <1>6, <1>7, <1>8

\* A call that returns without touching the map, and created no device.
LEMMA MapLeave ==
  ASSUME IndInv, DeviceInv, NEW t \in Threads, pc[t] # "idle", Return(t),
         UNCHANGED <<live, rm_mem_list>>,
         req[t].op \notin DeviceOps \/ pc[t] \in {"pre", "kernel"}
  PROVE  DeviceInv'
<1>1. t \in InFlight
  BY DEF InFlight
<1>2. GoingInv'
  BY MapReturn DEF DeviceInv, GoingInv
<1>3. ASSUME NEW o \in Known', o.op \in DeviceOps PROVE o \in Known
  <2>1. o \in live
    BY DEF Known
  <2> SUFFICES ASSUME o \notin Known PROVE FALSE
    OBVIOUS
  <2>2. req[t].op \in AllocOps /\ o.h = req[t].h
    BY MapReturn
  <2> QED BY <1>1, <1>3, <2>1, <2>2 DEF DeviceInv, ComingInv
<1>4. MapInv'
  BY <1>3 DEF DeviceInv, MapInv, DeviceOf
<1> QED BY <1>2, <1>4, MapReturn DEF DeviceInv

\* A new call.
LEMMA MapCall ==
  ASSUME IndInv, DeviceInv, "rm_other" \notin Ops, NEW t \in Threads, Call(t)
  PROVE  DeviceInv'
<1>1. PICK r \in Requests : Callable(r) /\ req' = [req EXCEPT ![t] = r]
  BY DEF Call
<1>2. /\ pc[t] = "idle" /\ pc'[t] = "pre" /\ req'[t] = r /\ UNCHANGED <<live, rm_mem_list>>
      /\ \A u \in Threads \ {t} : pc'[u] = pc[u] /\ req'[u] = req[u]
  BY <1>1 DEF Call, Goto, IndInv, TypeOK
<1>3. InFlight' = InFlight \cup {t} /\ t \notin InFlight /\ InFlight \subseteq Threads
  BY <1>2 DEF InFlight
<1>4. \A u \in InFlight : u # t /\ u \in InFlight' /\ pc'[u] = pc[u] /\ req'[u] = req[u]
  BY <1>2, <1>3
<1>5. r.op \in AllocOps => \A o \in live : o.h # r.h
  BY <1>1 DEF Callable
<1>6. Known' = Known
  BY <1>2, <1>3, <1>4, <1>5 DEF Known
<1>7. /\ r.op # "rm_other" /\ r.status = "ok"
      /\ r.op \in AllocOps => r.h # Root /\ (r.parent = Root <=> r.op = "rm_device")
      /\ r.op = "rm_device" => r.dev # NoDevice
      /\ r.h = Root => r.parent = Root
      /\ r.op \in {"heap_info", "passthru"} => r.h = Root
      /\ r.op \in AllocOps \cup {"free", "control", "heap_info", "passthru"}
  BY <1>1, ConstantsOK DEF Requests, AllocOps, MemoryOps, AllOps
<1>8. ShapeInv'
  BY <1>2, <1>3, <1>4, <1>7 DEF DeviceInv, ShapeInv, InCrit
<1>9. ApartInv'
  <2>1. ASSUME NEW u \in InFlight
        PROVE  /\ ~Frees(r, req[u]) /\ ~Frees(req[u], r)
               /\ r.op \in AllocOps => req[u].h # r.h
               /\ req[u].op \in AllocOps => r.h # req[u].h
    <3>1. ~Frees(r, req[u]) /\ ~Frees(req[u], r) /\ (r.op \in AllocOps => req[u].h # r.h)
      BY <1>1 DEF Callable
    <3>2. ASSUME req[u].op \in AllocOps, r.op \notin AllocOps PROVE r.h # req[u].h
      <4>1. req[u].h # Root
        BY <3>2 DEF DeviceInv, ShapeInv
      <4>2. \A o \in Known : o.h # req[u].h
        BY <3>2 DEF Known
      <4>3. r.h = Root \/ \E o \in Known : o.h = r.h
        BY <1>1, <1>7, <3>2 DEF Callable
      <4> QED BY <4>1, <4>2, <4>3
    <3> QED BY <3>1, <3>2
  <2> QED BY <1>2, <1>3, <1>4, <2>1 DEF DeviceInv, ApartInv
<1>10. TreeInv'
  BY <1>2 DEF DeviceInv, TreeInv
<1>11. ComingInv'
  <2>1. r.op \in AllocOps /\ r.parent # Root => \E p \in Known : p.h = r.parent /\ p.op = "rm_device"
    BY <1>1 DEF Callable
  <2> QED BY <1>2, <1>3, <1>4, <1>5, <1>6, <2>1 DEF DeviceInv, ComingInv
<1>12. GoingInv'
  <2>1. r.op = "free" /\ r.h # Root => \E o \in Known : o.h = r.h /\ o.parent = r.parent
    BY <1>1 DEF Callable
  <2> QED BY <1>2, <1>3, <1>4, <1>6, <2>1 DEF DeviceInv, GoingInv
<1>13. MapInv'
  BY <1>2, <1>6 DEF DeviceInv, MapInv, DeviceOf
<1> QED BY <1>8, <1>9, <1>10, <1>11, <1>12, <1>13 DEF DeviceInv

\* The driver refuses a request.
LEMMA MapRefuse ==
  ASSUME IndInv, DeviceInv, NEW t \in Threads, KernelRefuse(t)
  PROVE  DeviceInv'
<1>1. /\ pc[t] = "kernel" /\ pc'[t] = "post" /\ UNCHANGED <<live, rm_mem_list>>
      /\ \A u \in Threads \ {t} : pc'[u] = pc[u] /\ req'[u] = req[u]
  BY DEF KernelRefuse, Goto, IndInv, TypeOK
<1>2. /\ req'[t].h = req[t].h /\ req'[t].op = req[t].op /\ req'[t].parent = req[t].parent
      /\ req'[t].dev = req[t].dev /\ req'[t].status = "failed"
  <2>1. req'[t] = [req[t] EXCEPT !.status = "failed"] /\ req[t] \in Request
    BY DEF KernelRefuse, IndInv, TypeOK
  <2> QED BY <2>1 DEF Request
<1>3. InFlight' = InFlight /\ t \in InFlight /\ InFlight \subseteq Threads
  BY <1>1 DEF InFlight
<1>4. \A u \in InFlight : /\ req'[u].h = req[u].h /\ req'[u].op = req[u].op
                          /\ req'[u].parent = req[u].parent /\ req'[u].dev = req[u].dev
  BY <1>1, <1>2, <1>3
<1>5. Known' = Known
  BY <1>1, <1>3, <1>4 DEF Known
<1>6. ShapeInv'
  BY <1>1, <1>2, <1>3 DEF DeviceInv, ShapeInv, InCrit
<1>7. ApartInv'
  BY <1>3, <1>4 DEF DeviceInv, ApartInv, Frees
<1>8. TreeInv'
  BY <1>1 DEF DeviceInv, TreeInv
<1>9. ComingInv'
  BY <1>1, <1>3, <1>4, <1>5 DEF DeviceInv, ComingInv
<1>10. GoingInv'
  BY <1>1, <1>2, <1>3, <1>5 DEF DeviceInv, GoingInv
<1>11. MapInv'
  BY <1>1, <1>5 DEF DeviceInv, MapInv, DeviceOf
<1> QED BY <1>6, <1>7, <1>8, <1>9, <1>10, <1>11 DEF DeviceInv

\* The driver creates an object; it is not known before its call returns.
LEMMA MapKernelAlloc ==
  ASSUME IndInv, DeviceInv, NEW t \in Threads, KernelAlloc(t)
  PROVE  DeviceInv'
<1> DEFINE r == req[t]
<1>1. PICK n \in Size :
        /\ req' = [req EXCEPT ![t].size = n]
        /\ \E d \in IF r.op = "rm_subdevice"
                      THEN {o.dev : o \in {p \in live : p.h = r.parent}} ELSE {r.dev} :
             live' = live \cup {[h |-> r.h, op |-> r.op, parent |-> r.parent,
                                 size |-> n, dev |-> d]}
  BY DEF KernelAlloc
<1>2. PICK d \in IF r.op = "rm_subdevice"
                   THEN {o.dev : o \in {p \in live : p.h = r.parent}} ELSE {r.dev} :
        live' = live \cup {[h |-> r.h, op |-> r.op, parent |-> r.parent, size |-> n, dev |-> d]}
  BY <1>1
<1> DEFINE new == [h |-> r.h, op |-> r.op, parent |-> r.parent, size |-> n, dev |-> d]
<1>3. /\ pc[t] = "kernel" /\ pc'[t] = "post" /\ rm_mem_list' = rm_mem_list /\ r.op \in AllocOps
      /\ \A u \in Threads \ {t} : pc'[u] = pc[u] /\ req'[u] = req[u]
      /\ req'[t] = [r EXCEPT !.size = n] /\ r \in Request
  BY <1>1 DEF KernelAlloc, Goto, IndInv, TypeOK
<1>4. /\ req'[t].h = r.h /\ req'[t].op = r.op /\ req'[t].parent = r.parent
      /\ req'[t].dev = r.dev /\ req'[t].status = r.status
  BY <1>3 DEF Request
<1>5. InFlight' = InFlight /\ t \in InFlight /\ InFlight \subseteq Threads
  BY <1>3 DEF InFlight
<1>6. \A u \in InFlight : /\ req'[u].h = req[u].h /\ req'[u].op = req[u].op
                          /\ req'[u].parent = req[u].parent /\ req'[u].dev = req[u].dev
                          /\ req'[u].status = req[u].status
  BY <1>3, <1>4, <1>5
<1>7. /\ live' = live \cup {new} /\ new.h = r.h /\ new.op = r.op /\ new.parent = r.parent
      /\ new.dev = d
  BY <1>2
<1> HIDE DEF new
<1>8. Known' = Known
  BY <1>3, <1>5, <1>6, <1>7 DEF Known
<1>9. \A o \in live : o.h # r.h
  BY <1>3, <1>5 DEF DeviceInv, ComingInv
<1>10. /\ r.op # "rm_other" /\ r.h # Root /\ (r.parent = Root <=> r.op = "rm_device")
       /\ r.op = "rm_device" => r.dev # NoDevice
  BY <1>3, <1>5 DEF DeviceInv, ShapeInv
<1>11. r.op = "rm_subdevice" =>
         \E p \in live : p.h = r.parent /\ p.op = "rm_device" /\ p.dev = d /\ d # NoDevice
  <2> SUFFICES ASSUME r.op = "rm_subdevice"
               PROVE  \E p \in live : p.h = r.parent /\ p.op = "rm_device" /\ p.dev = d /\ d # NoDevice
    OBVIOUS
  <2>1. PICK p \in live : p.h = r.parent /\ p.op = "rm_device"
    BY <1>10 DEF KernelAlloc
  <2>2. PICK o \in live : o.h = r.parent /\ o.dev = d
    BY <1>2
  <2>3. o = p
    BY <2>1, <2>2 DEF DeviceInv, TreeInv
  <2>4. p.dev # NoDevice
    BY <2>1 DEF DeviceInv, TreeInv, DeviceOps
  <2> QED BY <2>1, <2>2, <2>3, <2>4
<1>12. r.op = "rm_device" => d = r.dev
  BY <1>2
<1>13. ShapeInv'
  BY <1>3, <1>4, <1>5, <1>6 DEF DeviceInv, ShapeInv, InCrit
<1>14. ApartInv'
  BY <1>5, <1>6 DEF DeviceInv, ApartInv, Frees
<1>15. TreeInv'
  <2>1. \A o, p \in live' : o.h = p.h => o = p
    BY <1>7, <1>9 DEF DeviceInv, TreeInv
  <2>2. /\ new.h # Root /\ new.op \in AllocOps /\ (new.parent = Root <=> new.op = "rm_device")
        /\ new.op \in DeviceOps => new.dev # NoDevice
        /\ new.op = "rm_subdevice" =>
             \E p \in live' : p.h = new.parent /\ p.op = "rm_device" /\ p.dev = new.dev
    BY <1>3, <1>7, <1>10, <1>11, <1>12 DEF DeviceOps
  <2> QED BY <1>7, <2>1, <2>2 DEF DeviceInv, TreeInv
<1>16. ComingInv'
  <2> SUFFICES ASSUME NEW u \in InFlight, req[u].op \in AllocOps
               PROVE  /\ pc'[u] \in {"pre", "kernel"} => \A o \in live' : o.h # req[u].h
                      /\ req[u].parent # Root =>
                           \E p \in Known : p.h = req[u].parent /\ p.op = "rm_device"
                      /\ \A o \in live' : o.h = req[u].h =>
                           /\ o.op = req[u].op /\ o.parent = req[u].parent
                           /\ o.op = "rm_device" => o.dev = req[u].dev
    BY <1>5, <1>6, <1>8 DEF ComingInv
  <2>1. CASE u = t
    BY <1>3, <1>5, <1>7, <1>9, <1>12, <2>1 DEF DeviceInv, ComingInv
  <2>2. CASE u # t
    <3>1. new.h # req[u].h /\ pc'[u] = pc[u]
      BY <1>3, <1>5, <1>7, <2>2 DEF DeviceInv, ApartInv
    <3> QED BY <1>7, <3>1 DEF DeviceInv, ComingInv
  <2> QED BY <2>1, <2>2
<1>17. GoingInv'
  <2> SUFFICES ASSUME NEW u \in InFlight, req[u].op = "free", req[u].h # Root
               PROVE  /\ pc'[u] \in {"pre", "kernel"} =>
                           \E o \in Known : o.h = req[u].h /\ o.parent = req[u].parent
                      /\ pc'[u] \notin {"pre", "kernel"} /\ req[u].status = "ok" =>
                           /\ \A o \in live' : o.h # req[u].h
                           /\ req[u].parent = Root => FindEntry(rm_mem_list, req[u].h) # 0
    BY <1>3, <1>5, <1>6, <1>8 DEF GoingInv
  <2>1. u # t
    BY <1>3 DEF AllocOps, MemoryOps
  <2>2. new.h # req[u].h /\ pc'[u] = pc[u]
    BY <1>3, <1>5, <1>7, <2>1 DEF DeviceInv, ApartInv
  <2> QED BY <1>7, <2>2 DEF DeviceInv, GoingInv
<1>18. MapInv'
  BY <1>3, <1>8 DEF DeviceInv, MapInv, DeviceOf
<1> QED BY <1>13, <1>14, <1>15, <1>16, <1>17, <1>18 DEF DeviceInv

\* The driver frees an object and what is below it; nothing that goes is named
\* by another call.
LEMMA MapKernelFree ==
  ASSUME IndInv, DeviceInv, NEW t \in Threads, KernelFree(t)
  PROVE  DeviceInv'
<1> DEFINE h == req[t].h
<1>1. /\ pc[t] = "kernel" /\ pc'[t] = "post" /\ UNCHANGED <<req, rm_mem_list>> /\ req[t].op = "free"
      /\ \A u \in Threads \ {t} : pc'[u] = pc[u]
      /\ live' = {o \in live : h # Root /\ o.h # h /\ o.parent # h}
  BY DEF KernelFree, Goto, IndInv, TypeOK
<1>2. InFlight' = InFlight /\ t \in InFlight /\ InFlight \subseteq Threads
  BY <1>1 DEF InFlight
<1>3. live' \subseteq live /\ Known' = Known \cap live' /\ Known \subseteq live
  BY <1>1, <1>2 DEF Known
<1>4. ASSUME NEW u \in InFlight, u # t
      PROVE  h # req[u].h /\ h # req[u].parent /\ h # Root
  BY <1>1, <1>2, <1>4 DEF DeviceInv, ApartInv, Frees
<1>5. ShapeInv'
  BY <1>1, <1>2 DEF DeviceInv, ShapeInv, InCrit
<1>6. ApartInv'
  BY <1>1, <1>2 DEF DeviceInv, ApartInv
<1>7. TreeInv'
  <2>1. ASSUME NEW o \in live', o.op = "rm_subdevice"
        PROVE  \E p \in live' : p.h = o.parent /\ p.op = "rm_device" /\ p.dev = o.dev
    <3>1. PICK p \in live : p.h = o.parent /\ p.op = "rm_device" /\ p.dev = o.dev
      BY <1>3, <2>1 DEF DeviceInv, TreeInv
    <3>2. p.parent = Root
      BY <3>1 DEF DeviceInv, TreeInv
    <3>3. p \in live'
      BY <1>1, <2>1, <3>1, <3>2
    <3> QED BY <3>1, <3>3
  <2> QED BY <1>3, <2>1 DEF DeviceInv, TreeInv
<1>8. ComingInv'
  <2> SUFFICES ASSUME NEW u \in InFlight, req[u].op \in AllocOps
               PROVE  /\ pc'[u] \in {"pre", "kernel"} => \A o \in live' : o.h # req[u].h
                      /\ req[u].parent # Root =>
                           \E p \in Known' : p.h = req[u].parent /\ p.op = "rm_device"
                      /\ \A o \in live' : o.h = req[u].h =>
                           /\ o.op = req[u].op /\ o.parent = req[u].parent
                           /\ o.op = "rm_device" => o.dev = req[u].dev
    BY <1>1, <1>2 DEF ComingInv
  <2>1. u # t
    BY <1>1 DEF AllocOps, MemoryOps
  <2>2. pc'[u] = pc[u]
    BY <1>1, <1>2, <2>1
  <2>3. ASSUME req[u].parent # Root
        PROVE  \E p \in Known' : p.h = req[u].parent /\ p.op = "rm_device"
    <3>1. PICK p \in Known : p.h = req[u].parent /\ p.op = "rm_device"
      BY <2>3 DEF DeviceInv, ComingInv
    <3>2. p.parent = Root
      BY <1>3, <3>1 DEF DeviceInv, TreeInv
    <3>3. p \in live'
      BY <1>1, <1>3, <1>4, <2>1, <3>1, <3>2
    <3> QED BY <1>3, <3>1, <3>3
  <2> QED BY <1>3, <2>2, <2>3 DEF DeviceInv, ComingInv
<1>9. GoingInv'
  <2> SUFFICES ASSUME NEW u \in InFlight, req[u].op = "free", req[u].h # Root
               PROVE  /\ pc'[u] \in {"pre", "kernel"} =>
                           \E o \in Known' : o.h = req[u].h /\ o.parent = req[u].parent
                      /\ pc'[u] \notin {"pre", "kernel"} /\ req[u].status = "ok" =>
                           /\ \A o \in live' : o.h # req[u].h
                           /\ req[u].parent = Root => FindEntry(rm_mem_list, req[u].h) # 0
    BY <1>1, <1>2 DEF GoingInv
  <2>1. CASE u = t
    <3>1. PICK o \in Known : o.h = h /\ o.parent = req[t].parent
      BY <1>1, <1>2, <2>1 DEF DeviceInv, GoingInv
    <3>2. ASSUME req[t].parent = Root PROVE FindEntry(rm_mem_list, h) # 0
      <4>1. o.op = "rm_device" /\ o.dev # NoDevice
        BY <1>3, <3>1, <3>2 DEF DeviceInv, TreeInv, DeviceOps
      <4>2. DeviceOf(h) # NoDevice
        BY <3>1, <4>1 DEF DeviceInv, MapInv, DeviceOps
      <4> QED BY <4>2 DEF DeviceOf
    <3> QED BY <1>1, <2>1, <3>2
  <2>2. CASE u # t
    <3>1. pc'[u] = pc[u]
      BY <1>1, <1>2, <2>2
    <3>2. ASSUME pc[u] \in {"pre", "kernel"}
          PROVE  \E o \in Known' : o.h = req[u].h /\ o.parent = req[u].parent
      <4>1. PICK o \in Known : o.h = req[u].h /\ o.parent = req[u].parent
        BY <3>2 DEF DeviceInv, GoingInv
      <4>2. o \in live'
        BY <1>1, <1>3, <1>4, <2>2, <4>1
      <4> QED BY <1>3, <4>1, <4>2
    <3> QED BY <1>3, <3>1, <3>2 DEF DeviceInv, GoingInv
  <2> QED BY <2>1, <2>2
<1>10. MapInv'
  BY <1>1, <1>3 DEF DeviceInv, MapInv, DeviceOf
<1> QED BY <1>5, <1>6, <1>7, <1>8, <1>9, <1>10 DEF DeviceInv

\* A call that returns with an entry for the object it created.
LEMMA MapAdd ==
  ASSUME IndInv, DeviceInv, NEW t \in Threads, pc[t] # "idle", Return(t), live' = live,
         req[t].op \in AllocOps, NEW e \in RmEntry, e.object = req[t].h,
         rm_mem_list' = Cons(e, rm_mem_list),
         \A o \in live : o.h = req[t].h => o.dev = e.device_id
  PROVE  DeviceInv'
<1> USE DEF IndInv, TypeOK
<1>0. t \in InFlight
  BY DEF InFlight
<1>1. ASSUME NEW object, object # req[t].h
      PROVE  /\ FindEntry(rm_mem_list', object) = 0 <=> FindEntry(rm_mem_list, object) = 0
             /\ FindEntry(rm_mem_list, object) # 0 =>
                  rm_mem_list'[FindEntry(rm_mem_list', object)] = rm_mem_list[FindEntry(rm_mem_list, object)]
  BY <1>1, FindAfterAdd
<1>2. /\ FindEntry(rm_mem_list', req[t].h) # 0
      /\ rm_mem_list'[FindEntry(rm_mem_list', req[t].h)] = e
  BY FindAfterAdd
<1>3. GoingInv'
  <2> SUFFICES ASSUME NEW u \in InFlight', req[u].op = "free", req[u].h # Root
               PROVE  /\ pc[u] \in {"pre", "kernel"} =>
                           \E o \in Known' : o.h = req[u].h /\ o.parent = req[u].parent
                      /\ pc[u] \notin {"pre", "kernel"} /\ req[u].status = "ok" =>
                           /\ \A o \in live : o.h # req[u].h
                           /\ req[u].parent = Root => FindEntry(rm_mem_list', req[u].h) # 0
    BY MapReturn DEF GoingInv
  <2>1. u \in InFlight /\ u # t /\ Known \subseteq Known'
    BY MapReturn
  <2>2. req[u].h # req[t].h
    BY <1>0, <2>1 DEF DeviceInv, ApartInv
  <2> QED BY <1>1, <2>1, <2>2 DEF DeviceInv, GoingInv
<1>4. MapInv'
  <2> SUFFICES ASSUME NEW o \in Known', o.op \in DeviceOps
               PROVE  DeviceOf(o.h)' = o.dev
    BY DEF MapInv
  <2>1. o \in live
    BY DEF Known
  <2>2. CASE o.h = req[t].h
    <3>1. o.dev = e.device_id
      BY <2>1, <2>2
    <3> QED BY <1>2, <2>2, <3>1 DEF DeviceOf
  <2>3. CASE o.h # req[t].h
    <3>1. o \in Known
      BY <2>3, MapReturn
    <3>2. DeviceOf(o.h) = o.dev
      BY <3>1 DEF DeviceInv, MapInv
    <3> QED BY <1>1, <2>3, <3>2 DEF DeviceOf
  <2> QED BY <2>2, <2>3
<1> QED BY <1>3, <1>4, MapReturn DEF DeviceInv

\* free_device_page removes the entry of the device that was freed.
LEMMA MapFreeDevice ==
  ASSUME IndInv, DeviceInv, NEW t \in Threads, FreeDevice(t)
  PROVE  DeviceInv'
<1> USE DEF IndInv, TypeOK
<1> DEFINE i == FindEntry(rm_mem_list, req[t].h)
<1>1. /\ pc[t] = "crit" /\ Return(t) /\ live' = live /\ req[t].op = "free" /\ req[t].parent = Root
      /\ t \in InFlight
  BY DEF FreeDevice, InFlight
<1>2. req[t].h # Root /\ req[t].status = "ok"
  BY <1>1 DEF DeviceInv, ShapeInv, InCrit, PostLocks
<1>3. i # 0 /\ \A o \in live : o.h # req[t].h
  BY <1>1, <1>2 DEF DeviceInv, GoingInv
<1>4. FirstAt(rm_mem_list, req[t].h, i)
  BY FindIsFirst
<1>5. i \in 1 .. Len(rm_mem_list) /\ rm_mem_list[i].object = req[t].h
  BY <1>3, <1>4 DEF FirstAt
<1>6. rm_mem_list' = RemoveAt(rm_mem_list, i)
  <2>1. rm_mem_list # <<>>
    BY <1>5
  <2> QED BY <1>3, <2>1 DEF FreeDevice, EntryAfterLoop
<1> HIDE DEF i
<1>7. ASSUME NEW object, object # req[t].h
      PROVE  /\ FindEntry(rm_mem_list', object) = 0 <=> FindEntry(rm_mem_list, object) = 0
             /\ FindEntry(rm_mem_list, object) # 0 =>
                  rm_mem_list'[FindEntry(rm_mem_list', object)] = rm_mem_list[FindEntry(rm_mem_list, object)]
  BY <1>5, <1>6, <1>7, FindAfterDel
<1>8. GoingInv'
  <2> SUFFICES ASSUME NEW u \in InFlight', req[u].op = "free", req[u].h # Root
               PROVE  /\ pc[u] \in {"pre", "kernel"} =>
                           \E o \in Known' : o.h = req[u].h /\ o.parent = req[u].parent
                      /\ pc[u] \notin {"pre", "kernel"} /\ req[u].status = "ok" =>
                           /\ \A o \in live : o.h # req[u].h
                           /\ req[u].parent = Root => FindEntry(rm_mem_list', req[u].h) # 0
    BY <1>1, MapReturn DEF GoingInv
  <2>1. u \in InFlight /\ u # t /\ Known \subseteq Known'
    BY <1>1, MapReturn
  <2>2. req[u].h # req[t].h
    BY <1>1, <2>1 DEF DeviceInv, ApartInv, Frees
  <2> QED BY <1>7, <2>1, <2>2 DEF DeviceInv, GoingInv
<1>9. MapInv'
  <2> SUFFICES ASSUME NEW o \in Known', o.op \in DeviceOps
               PROVE  DeviceOf(o.h)' = o.dev
    BY DEF MapInv
  <2>1. o \in live /\ o.h # req[t].h
    BY <1>1, <1>3 DEF Known
  <2>2. o \in Known
    BY <1>1, <2>1, MapReturn
  <2>3. DeviceOf(o.h) = o.dev
    BY <2>2 DEF DeviceInv, MapInv
  <2> QED BY <1>7, <2>1, <2>3 DEF DeviceOf
<1> QED BY <1>1, <1>8, <1>9, MapReturn DEF DeviceInv

\* post_device_rm_alloc records the device.
LEMMA MapAddDevice ==
  ASSUME IndInv, DeviceInv, ~MallocMayFail, NEW t \in Threads, AddDevice(t)
  PROVE  DeviceInv'
<1> DEFINE e == [object |-> req[t].h, device_id |-> req[t].dev]
<1>1. /\ pc[t] = "crit" /\ Return(t) /\ live' = live /\ req[t].op = "rm_device"
      /\ t \in InFlight /\ rm_mem_list' = Cons(e, rm_mem_list)
  BY DEF AddDevice, InFlight
<1>2. e \in RmEntry /\ e.object = req[t].h /\ e.device_id = req[t].dev
  BY DEF IndInv, TypeOK, Request, RmEntry
<1>3. req[t].op \in AllocOps
  BY <1>1 DEF AllocOps
<1>4. \A o \in live : o.h = req[t].h => o.dev = e.device_id
  BY <1>1, <1>2, <1>3 DEF DeviceInv, ComingInv
<1> HIDE DEF e
<1> QED BY <1>1, <1>2, <1>3, <1>4, MapAdd

\* post_ctrl_rm_alloc records the subdevice with the GPU of its device.
LEMMA MapAddSubdevice ==
  ASSUME IndInv, DeviceInv, ~MallocMayFail, NEW t \in Threads, AddSubdevice(t)
  PROVE  DeviceInv'
<1> DEFINE d == DeviceOf(req[t].parent)
           e == [object |-> req[t].h, device_id |-> d]
<1>1. /\ pc[t] = "crit" /\ Return(t) /\ live' = live /\ req[t].op = "rm_subdevice" /\ t \in InFlight
      /\ \/ d # NoDevice /\ rm_mem_list' = Cons(e, rm_mem_list)
         \/ d = NoDevice /\ rm_mem_list' = rm_mem_list
  BY DEF AddSubdevice, InFlight
<1>2. d \in Devices \cup {NoDevice}
  BY DeviceOfTyped DEF IndInv
<1>3. e \in RmEntry /\ e.object = req[t].h /\ e.device_id = d
  BY <1>2 DEF IndInv, TypeOK, Request, RmEntry
<1>4. req[t].op \in AllocOps
  BY <1>1 DEF AllocOps
<1>5. ASSUME NEW o \in live, o.h = req[t].h PROVE o.dev = d /\ d # NoDevice
  <2>1. o.op = "rm_subdevice" /\ o.parent = req[t].parent
    BY <1>1, <1>4, <1>5 DEF DeviceInv, ComingInv
  <2>2. PICK p \in live : p.h = o.parent /\ p.op = "rm_device" /\ p.dev = o.dev
    BY <2>1 DEF DeviceInv, TreeInv
  <2>3. o.dev # NoDevice /\ req[t].parent # Root
    BY <2>1 DEF DeviceInv, TreeInv, DeviceOps
  <2>4. PICK q \in Known : q.h = req[t].parent /\ q.op = "rm_device"
    BY <1>1, <1>4, <2>3 DEF DeviceInv, ComingInv
  <2>5. q = p
    BY <2>1, <2>2, <2>4 DEF DeviceInv, TreeInv, Known
  <2>6. DeviceOf(q.h) = q.dev
    BY <2>4 DEF DeviceInv, MapInv, DeviceOps
  <2> QED BY <2>1, <2>2, <2>3, <2>4, <2>5, <2>6
<1>6. CASE d # NoDevice
  <2> HIDE DEF e
  <2> QED BY <1>1, <1>3, <1>4, <1>5, <1>6, MapAdd
<1>7. CASE d = NoDevice
  <2>1. \A o \in Known' : o \in Known
    BY <1>1, <1>5, <1>7, MapReturn DEF Known
  <2>2. rm_mem_list' = rm_mem_list
    BY <1>1, <1>7
  <2>3. MapInv'
    BY <2>1, <2>2 DEF DeviceInv, MapInv, DeviceOf
  <2>4. GoingInv'
    BY <1>1, <2>2, MapReturn DEF DeviceInv, GoingInv
  <2> QED BY <1>1, <2>3, <2>4, MapReturn DEF DeviceInv
<1> QED BY <1>6, <1>7

\* Every step keeps DeviceInv.
LEMMA DeviceStep ==
  ASSUME IndInv, DeviceInv, [Next]_vars, "rm_other" \notin Ops, ~MallocMayFail
  PROVE  DeviceInv'
<1>1. CASE UNCHANGED vars
  <2>1. InFlight' = InFlight /\ Known' = Known
    BY <1>1 DEF vars, InFlight, Known
  <2> QED BY <1>1, <2>1 DEF vars, DeviceInv, ShapeInv, ApartInv, TreeInv, ComingInv, GoingInv, MapInv,
                            InCrit, DeviceOf
<1>2. ASSUME NEW t \in Threads, Call(t) \/ Step(t) PROVE DeviceInv'
  <2>1. CASE Call(t)
    BY <2>1, MapCall
  <2>2. CASE PreSkip(t) \/ PreAdmit(t)
    <3>1. pc[t] = "pre" /\ Goto(t, "kernel") /\ UNCHANGED <<req, live, rm_mem_list>>
      BY <2>2 DEF PreSkip, PreAdmit
    <3> QED BY <3>1, MapAdvance
  <2>3. CASE KernelOther(t)
    <3>1. /\ pc[t] = "kernel" /\ Goto(t, "post") /\ UNCHANGED <<req, live, rm_mem_list>>
          /\ req[t].op # "free"
      BY <2>3 DEF KernelOther
    <3> QED BY <3>1, MapAdvance
  <2>4. CASE PostLock(t)
    <3>1. /\ pc[t] = "post" /\ Goto(t, "crit") /\ UNCHANGED <<req, live, rm_mem_list>>
          /\ PostLocks(req[t])
      BY <2>4 DEF PostLock
    <3> QED BY <3>1, MapAdvance
  <2>5. CASE ChargeBegin(t) \/ CreditBegin(t)
    <3>1. pc[t] = "crit" /\ Goto(t, "store") /\ UNCHANGED <<req, live, rm_mem_list>>
      BY <2>5 DEF ChargeBegin, CreditBegin
    <3>2. PostLocks(req[t])
      BY <3>1 DEF DeviceInv, ShapeInv, InFlight, InCrit
    <3> QED BY <3>1, <3>2, MapAdvance
  <2>6. CASE PreDeny(t) \/ KernelError(t)
    <3>1. /\ pc[t] \in {"pre", "kernel"} /\ Return(t) /\ UNCHANGED <<live, rm_mem_list>>
      BY <2>6 DEF PreDeny, KernelError
    <3> QED BY <3>1, MapLeave
  <2>7. CASE \/ PostReturn(t) \/ ChargeEnd(t) \/ ChargeNoMemory(t) \/ CreditEnd(t) \/ CreditNone(t)
             \/ ControlLookup(t)
    <3>1. pc[t] # "idle" /\ Return(t) /\ UNCHANGED <<live, rm_mem_list>>
      BY <2>7 DEF PostReturn, ChargeEnd, ChargeNoMemory, CreditEnd, CreditNone, ControlLookup
    <3>2. req[t].op \notin DeviceOps
      BY <2>7 DEF PostReturn, ChargeEnd, ChargeNoMemory, CreditEnd, CreditNone, ControlLookup,
                  PostLocks, DeviceOps, MemoryOps
    <3> QED BY <3>1, <3>2, MapLeave
  <2> QED BY <1>2, <2>1, <2>2, <2>3, <2>4, <2>5, <2>6, <2>7, MapRefuse, MapKernelAlloc, MapKernelFree,
             MapFreeDevice, MapAddDevice, MapAddSubdevice DEF Step, Kernel
<1> QED BY <1>1, <1>2 DEF Next

\* Lookups in rm_mem_list give the GPU an object is really on, for any number
\* of threads, devices and handles, with refused calls, failed ioctls, entries
\* left behind and handles used again, as long as the objects made below the
\* client are devices and malloc succeeds.
THEOREM DevicesFound ==
  ASSUME "rm_other" \notin Ops, ~MallocMayFail
  PROVE  Spec => []DeviceMapFaithful
<1>1. Init => DeviceInv
  BY DEF Init, DeviceInv, ShapeInv, ApartInv, TreeInv, ComingInv, GoingInv, MapInv, InFlight, Known
<1>2. IndInv /\ DeviceInv /\ [Next]_vars => DeviceInv'
  BY DeviceStep
<1>3. DeviceInv => DeviceMapFaithful
  BY DEF DeviceInv, MapInv, DeviceMapFaithful, Known, DeviceOps
<1> QED BY <1>1, <1>2, <1>3, IndInvAlways, PTL DEF Spec

-----------------------------------------------------------------------------
(* The sum of a list *)

\* The sizes of a list of allocations added up.
SumOf(list) == Total([i \in 1 .. Len(list) |-> list[i].size])

\* The sum is a number, and no entry is larger.
LEMMA SumType ==
  ASSUME NEW list \in Seq(MemEntry)
  PROVE  /\ SumOf(list) \in Nat
         /\ \A i \in 1 .. Len(list) : list[i].size \in Nat /\ list[i].size <= SumOf(list)
<1> DEFINE f == [i \in 1 .. Len(list) |-> list[i].size]
<1>1. Len(list) \in Nat /\ IsFiniteSet(1 .. Len(list))
  BY FS_Interval
<1>2. f \in [1 .. Len(list) -> Nat]
  <2> SUFFICES ASSUME NEW i \in 1 .. Len(list) PROVE list[i].size \in Nat
    OBVIOUS
  <2>1. list[i] \in MemEntry
    OBVIOUS
  <2> QED BY <2>1 DEF MemEntry, Size
<1>3. Total(f) \in Nat
  BY <1>1, <1>2, TotalType
<1>4. \A i \in 1 .. Len(list) : f[i] \in Nat /\ f[i] <= Total(f)
  BY <1>1, <1>2, TotalElement
<1> QED BY <1>3, <1>4 DEF SumOf

\* list_del takes the entry's size from the sum.
LEMMA SumRemove ==
  ASSUME NEW list \in Seq(MemEntry), NEW i \in 1 .. Len(list)
  PROVE  SumOf(list) = SumOf(RemoveAt(list, i)) + list[i].size
<1> DEFINE short == RemoveAt(list, i)
           S == 1 .. Len(list)
           T == 1 .. Len(short)
           R == S \ {i}
           f == [j \in S |-> list[j].size]
           h == [j \in T |-> short[j].size]
           m == [j \in T |-> IF j < i THEN j ELSE j + 1]
<1>1. Len(list) \in Nat \ {0} /\ i \in Nat /\ 1 <= i /\ i <= Len(list)
  OBVIOUS
<1>2. short \in Seq(MemEntry) /\ Len(short) = Len(list) - 1
  BY RemoveShape
<1>3. \A j \in 1 .. Len(list) - 1 : short[j] = list[IF j < i THEN j ELSE j + 1]
  BY RemoveShape
<1> HIDE DEF short
<1>4. m \in Bijection(T, R)
  <2>1. m \in [T -> S \ {i}]
    BY <1>1, <1>2
  <2>2. \A a, b \in T : m[a] = m[b] => a = b
    BY <1>1, <1>2
  <2>3. ASSUME NEW z \in S \ {i} PROVE \E a \in T : m[a] = z
    <3>1. CASE z < i
      <4>1. z \in T /\ m[z] = z
        BY <1>1, <1>2, <3>1
      <4> QED BY <4>1
    <3>2. CASE z > i
      <4>1. z - 1 \in T /\ m[z - 1] = z
        BY <1>1, <1>2, <3>2
      <4> QED BY <4>1
    <3> QED BY <1>1, <3>1, <3>2
  <2> QED BY <2>1, <2>2, <2>3 DEF Bijection, Injection, Surjection, IsInjective
<1>5. f \in [S -> Nat] /\ h \in [T -> Nat]
  BY <1>2, SumType
<1>6. ASSUME NEW j \in T PROVE f[m[j]] = h[j]
  <2>1. j \in 1 .. Len(list) - 1 /\ m[j] = (IF j < i THEN j ELSE j + 1) /\ m[j] \in S
    BY <1>1, <1>2
  <2> QED BY <1>3, <2>1
<1>7. i \in S /\ f[i] = list[i].size
  OBVIOUS
<1>8. IsFiniteSet(S) /\ IsFiniteSet(T)
  BY <1>1, <1>2, FS_Interval
<1>9. Total(f) = SumOf(list) /\ Total(h) = SumOf(short)
  BY DEF SumOf
<1>10. R = S \ {i}
  OBVIOUS
<1> HIDE DEF f, h, m, S, T, R
<1>11. Total(f) = Total(h) + f[i]
  BY <1>4, <1>5, <1>6, <1>7, <1>8, <1>10, TotalRemove
<1> QED BY <1>7, <1>9, <1>11 DEF short

\* list_add adds the entry's size to the sum.
LEMMA SumCons ==
  ASSUME NEW list \in Seq(MemEntry), NEW e \in MemEntry
  PROVE  SumOf(Cons(e, list)) = SumOf(list) + e.size
<1>1. /\ Cons(e, list) \in Seq(MemEntry) /\ Len(Cons(e, list)) \in Nat \ {0}
      /\ Cons(e, list)[1] = e
  BY DEF Cons
<1>2. RemoveAt(Cons(e, list), 1) = list
  BY DEF Cons, RemoveAt
<1>3. 1 \in 1 .. Len(Cons(e, list))
  BY <1>1
<1> QED BY <1>1, <1>2, <1>3, SumRemove

\* The empty list.
LEMMA SumEmpty == SumOf(<<>>) = 0
BY TotalZero DEF SumOf

\* A remainder, from its quotient.
LEMMA RemainderIs ==
  ASSUME NEW m \in Nat \ {0}, NEW k \in Nat, NEW x \in 0 .. m - 1
  PROVE  (m * k + x) % m = x
<1> DEFINE s == m * k + x
           q == s \div m
           r == s % m
<1>1. m * k \in Nat /\ s \in Nat
  OBVIOUS
<1>2. q \in Nat /\ r \in 0 .. m - 1 /\ s = m * q + r
  BY <1>1
<1>3. s = m * k + x
  OBVIOUS
<1> HIDE DEF s, q, r
<1>4. ASSUME q = k PROVE r = x
  BY <1>2, <1>3, <1>4
<1>5. ASSUME q > k PROVE r = x
  <2>1. PICK d \in Nat : q = k + 1 + d
    <3>1. q - k - 1 \in Nat /\ q = k + 1 + (q - k - 1)
      BY <1>2, <1>5
    <3> QED BY <3>1
  <2>2. m * q = m * k + m + m * d /\ m * d \in Nat /\ m * k \in Nat
    BY <2>1
  <2> QED BY <1>2, <1>3, <2>2
<1>6. ASSUME q < k PROVE r = x
  <2>1. PICK d \in Nat : k = q + 1 + d
    <3>1. k - q - 1 \in Nat /\ k = q + 1 + (k - q - 1)
      BY <1>2, <1>6
    <3> QED BY <3>1
  <2>2. m * k = m * q + m + m * d /\ m * d \in Nat /\ m * q \in Nat
    BY <1>2, <2>1
  <2> QED BY <1>2, <1>3, <2>2
<1>7. r = x
  BY <1>2, <1>4, <1>5, <1>6
<1> QED BY <1>7 DEF r, s

\* size_t arithmetic is arithmetic modulo SizeMod.
LEMMA PlusMod ==
  ASSUME NEW s \in Nat, NEW n \in Size
  PROVE  (s + n) % SizeMod = Plus(s % SizeMod, n)
<1> DEFINE q == s \div SizeMod
           r == s % SizeMod
<1>1. SizeMod \in Nat \ {0} /\ n \in 0 .. SizeMod - 1
  BY ConstantsOK DEF Size
<1>2. q \in Nat /\ r \in 0 .. SizeMod - 1 /\ s = SizeMod * q + r
  BY <1>1
<1>3. SizeMod * q \in Nat /\ SizeMod * (q + 1) = SizeMod * q + SizeMod
  BY <1>1, <1>2
<1>4. r = s % SizeMod
  OBVIOUS
<1> HIDE DEF q, r
<1>5. CASE r + n < SizeMod
  <2>1. s + n = SizeMod * q + (r + n) /\ r + n \in 0 .. SizeMod - 1 /\ Plus(r, n) = r + n
    BY <1>1, <1>2, <1>3, <1>5 DEF Plus
  <2>2. (SizeMod * q + (r + n)) % SizeMod = r + n
    BY <1>1, <1>2, <2>1, RemainderIs
  <2> QED BY <1>4, <2>1, <2>2
<1>6. CASE r + n >= SizeMod
  <2>1. /\ s + n = SizeMod * (q + 1) + (r + n - SizeMod)
        /\ r + n - SizeMod \in 0 .. SizeMod - 1
        /\ q + 1 \in Nat
        /\ Plus(r, n) = r + n - SizeMod
    BY <1>1, <1>2, <1>3, <1>6 DEF Plus
  <2>2. (SizeMod * (q + 1) + (r + n - SizeMod)) % SizeMod = r + n - SizeMod
    BY <1>1, <2>1, RemainderIs
  <2> QED BY <1>4, <2>1, <2>2
<1> QED BY <1>1, <1>2, <1>5, <1>6

\* What was added last is taken off again.
LEMMA MinusPlus ==
  ASSUME NEW a \in Size, NEW n \in Size
  PROVE  Minus(Plus(a, n), n) = a
BY ConstantsOK DEF Size, Plus, Minus

-----------------------------------------------------------------------------
(* The ledger is the sum of its list *)

\* A thread between list_add and the stores of its charge.
Charging(t) == pc[t] = "store" /\ req[t].op \in MemoryOps

\* LedgerMatchesList with the state in the middle of a charge, when the entry
\* is in the list and alloc_mem is not written yet.
LedgerInv ==
  /\ \A t \in Threads : Charging(t) => SumOf(heap_mem_list) % SizeMod = Plus(alloc_mem, req[t].size)
  /\ (\A t \in Threads : ~Charging(t)) => SumOf(heap_mem_list) % SizeMod = alloc_mem

\* Whoever is in the critical section excludes the charges of others.
LEMMA OneCharging ==
  ASSUME IndInv, NEW t \in Threads, InCrit(t)
  PROVE  \A u \in Threads \ {t} : ~Charging(u)
BY DEF IndInv, MutualExclusion, InCrit, Charging

\* A step before or after a charge that leaves the ledger alone.
LEMMA LedgerQuiet ==
  ASSUME IndInv, LedgerInv, NEW t \in Threads, ~Charging(t), ~Charging(t)',
         \A u \in Threads \ {t} : pc'[u] = pc[u] /\ req'[u] = req[u],
         UNCHANGED <<alloc_mem, heap_mem_list>>
  PROVE  LedgerInv'
<1>1. \A u \in Threads : Charging(u)' <=> Charging(u)
  BY DEF Charging
<1>2. \A u \in Threads : Charging(u) => req'[u] = req[u]
  OBVIOUS
<1> QED BY <1>1, <1>2 DEF LedgerInv

\* Every step keeps LedgerInv.
LEMMA LedgerStep ==
  ASSUME IndInv, LedgerInv, [Next]_vars
  PROVE  LedgerInv'
<1> USE DEF IndInv, TypeOK
<1>1. CASE UNCHANGED vars
  BY <1>1 DEF vars, LedgerInv, Charging
<1>2. ASSUME NEW t \in Threads, Call(t) \/ Step(t) PROVE LedgerInv'
  <2>1. ASSUME Goto(t, "pre") \/ Goto(t, "kernel") \/ Goto(t, "post") \/ Goto(t, "crit"),
               pc[t] # "store", \A u \in Threads \ {t} : req'[u] = req[u],
               UNCHANGED <<alloc_mem, heap_mem_list>>
        PROVE  LedgerInv'
    <3>1. ~Charging(t) /\ ~Charging(t)' /\ \A u \in Threads \ {t} : pc'[u] = pc[u]
      BY <2>1 DEF Charging, Goto
    <3> QED BY <2>1, <3>1, LedgerQuiet
  <2>2. ASSUME Return(t), ~Charging(t), UNCHANGED <<alloc_mem, heap_mem_list>>
        PROVE  LedgerInv'
    <3>1. ~Charging(t)' /\ \A u \in Threads \ {t} : pc'[u] = pc[u] /\ req'[u] = req[u]
      BY <2>2 DEF Charging, Return
    <3> QED BY <2>2, <3>1, LedgerQuiet
  <2>3. CASE Call(t)
    BY <2>1, <2>3 DEF Call
  <2>4. CASE PreSkip(t) \/ PreAdmit(t) \/ PostLock(t)
    BY <2>1, <2>4 DEF PreSkip, PreAdmit, PostLock
  <2>5. CASE KernelRefuse(t) \/ KernelFree(t) \/ KernelOther(t)
    BY <2>1, <2>5 DEF KernelRefuse, KernelFree, KernelOther
  <2>6. CASE KernelAlloc(t)
    <3>1. /\ Goto(t, "post") /\ pc[t] # "store" /\ UNCHANGED <<alloc_mem, heap_mem_list>>
          /\ \A u \in Threads \ {t} : req'[u] = req[u]
      BY <2>6 DEF KernelAlloc
    <3> QED BY <2>1, <3>1
  <2>7. CASE \/ PreDeny(t) \/ KernelError(t) \/ PostReturn(t) \/ ChargeNoMemory(t) \/ CreditNone(t)
             \/ FreeDevice(t) \/ AddDevice(t) \/ AddSubdevice(t) \/ ControlLookup(t)
    <3>1. Return(t) /\ pc[t] # "store" /\ UNCHANGED <<alloc_mem, heap_mem_list>>
      BY <2>7 DEF PreDeny, KernelError, PostReturn, ChargeNoMemory, CreditNone,
                  FreeDevice, AddDevice, AddSubdevice, ControlLookup
    <3> QED BY <2>2, <3>1 DEF Charging
  <2>8. CASE CreditBegin(t)
    <3>1. /\ ~Charging(t) /\ ~Charging(t)' /\ UNCHANGED <<alloc_mem, heap_mem_list>>
          /\ \A u \in Threads \ {t} : pc'[u] = pc[u] /\ req'[u] = req[u]
      BY <2>8 DEF CreditBegin, Goto, Charging, MemoryOps
    <3> QED BY <3>1, LedgerQuiet
  <2>9. CASE ChargeBegin(t)
    <3> DEFINE e == [object |-> req[t].key, size |-> req[t].size]
    <3>1. e \in MemEntry /\ e.size = req[t].size /\ req[t].size \in Size
      BY DEF Request, MemEntry
    <3>2. \A u \in Threads : ~Charging(u)
      BY <2>9, OneCharging DEF ChargeBegin, InCrit, Charging
    <3>3. /\ heap_mem_list' = Cons(e, heap_mem_list) /\ UNCHANGED <<alloc_mem, req>>
          /\ pc' = [pc EXCEPT ![t] = "store"] /\ req[t].op \in MemoryOps
      BY <2>9 DEF ChargeBegin, Goto
    <3> HIDE DEF e
    <3>4. SumOf(heap_mem_list) \in Nat
      BY SumType
    <3>5. SumOf(heap_mem_list') = SumOf(heap_mem_list) + req[t].size
      BY <3>1, <3>3, SumCons
    <3>6. SumOf(heap_mem_list') % SizeMod = Plus(alloc_mem', req'[t].size)
      BY <3>1, <3>2, <3>3, <3>4, <3>5, PlusMod DEF LedgerInv
    <3>7. \A u \in Threads : Charging(u)' <=> u = t
      BY <3>2, <3>3 DEF Charging
    <3> QED BY <3>6, <3>7 DEF LedgerInv
  <2>10. CASE ChargeEnd(t)
    <3>1. Charging(t) /\ InCrit(t)
      BY <2>10 DEF ChargeEnd, Charging, InCrit
    <3>2. alloc_mem' = Plus(alloc_mem, req[t].size) /\ heap_mem_list' = heap_mem_list /\ Return(t)
      BY <2>10 DEF ChargeEnd
    <3>3. SumOf(heap_mem_list') % SizeMod = alloc_mem'
      BY <3>1, <3>2 DEF LedgerInv
    <3>4. \A u \in Threads : ~Charging(u)'
      BY <3>1, <3>2, OneCharging DEF Charging, Return
    <3> QED BY <3>3, <3>4 DEF LedgerInv
  <2>11. CASE CreditEnd(t)
    <3> DEFINE i == EntryAfterLoop(heap_mem_list, req[t].h)
               n == heap_mem_list[i].size
               rest == RemoveAt(heap_mem_list, i)
    <3>1. InCrit(t) /\ ~Charging(t) /\ heap_mem_list # <<>>
      BY <2>11 DEF CreditEnd, Charging, InCrit, MemoryOps, StoreOK
    <3>2. alloc_mem' = Minus(alloc_mem, n) /\ heap_mem_list' = rest /\ Return(t)
      BY <2>11 DEF CreditEnd
    <3>3. i \in 1 .. Len(heap_mem_list)
      BY <3>1, LoopEndsInList
    <3>4. heap_mem_list[i] \in MemEntry
      BY <3>3
    <3>5. n \in Size
      BY <3>4 DEF MemEntry
    <3>6. rest \in Seq(MemEntry) /\ SumOf(heap_mem_list) = SumOf(rest) + n
      BY <3>3, SumRemove, RemoveShape
    <3>7. SumOf(rest) \in Nat
      BY <3>6, SumType
    <3>8. SumOf(heap_mem_list) % SizeMod = alloc_mem
      BY <3>1, OneCharging DEF LedgerInv
    <3> HIDE DEF n, rest, i
    <3>9. SumOf(rest) % SizeMod \in Size
      BY <3>7, ConstantsOK DEF Size
    <3>10. alloc_mem = Plus(SumOf(rest) % SizeMod, n)
      BY <3>5, <3>6, <3>7, <3>8, PlusMod
    <3>11. alloc_mem' = SumOf(heap_mem_list') % SizeMod
      BY <3>2, <3>5, <3>9, <3>10, MinusPlus
    <3>12. \A u \in Threads : ~Charging(u)'
      BY <3>1, <3>2, OneCharging DEF Charging, Return
    <3> QED BY <3>11, <3>12 DEF LedgerInv
  <2> QED
    BY <1>2, <2>3, <2>4, <2>5, <2>6, <2>7, <2>8, <2>9, <2>10, <2>11 DEF Step, Kernel
<1> QED BY <1>1, <1>2 DEF Next

\* alloc_mem is the sum of heap_mem_list whenever no thread is between list_add
\* and the stores, for any threads and workload: misdirected frees, failing
\* mallocs and wrapped sums included.
THEOREM LedgerIsList == Spec => []LedgerMatchesList
<1>1. Init => LedgerInv
  <2> SUFFICES ASSUME Init PROVE LedgerInv
    OBVIOUS
  <2>1. SumOf(heap_mem_list) % SizeMod = 0 /\ alloc_mem = 0
    BY SumEmpty, ConstantsOK DEF Init
  <2>2. \A t \in Threads : ~Charging(t)
    BY DEF Init, Charging
  <2> QED BY <2>1, <2>2 DEF LedgerInv
<1>2. LedgerInv => LedgerMatchesList
  BY DEF LedgerInv, LedgerMatchesList, Charging, SumOf, Listed
<1>3. IndInv /\ LedgerInv /\ [Next]_vars => LedgerInv'
  BY LedgerStep
<1> QED BY <1>1, <1>2, <1>3, IndInvAlways, PTL DEF Spec

-----------------------------------------------------------------------------
(* One call at a time: the ledger is a quota *)

\* The process makes one call at a time.
OneCaller == \A t, u \in Threads : t = u

\* Without a second caller nothing wraps: the ledger is exact, not only modulo
\* SizeMod.  A handler that holds the mutex has passed its early returns.
ExactInv ==
  /\ \A t \in Threads : InCrit(t) => PostLocks(req[t])
  /\ free_mem + alloc_mem = TotalMem
  /\ \A t \in Threads : Charging(t) => SumOf(heap_mem_list) = alloc_mem + req[t].size
  /\ (\A t \in Threads : ~Charging(t)) => SumOf(heap_mem_list) = alloc_mem

\* A step outside the stores that leaves the ledger alone.
LEMMA ExactQuiet ==
  ASSUME OneCaller, IndInv, ExactInv, NEW t \in Threads, ~Charging(t), ~Charging(t)',
         InCrit(t)' => PostLocks(req'[t]),
         UNCHANGED <<free_mem, alloc_mem, heap_mem_list>>
  PROVE  ExactInv'
<1>1. \A u \in Threads : u = t
  BY DEF OneCaller
<1> QED BY <1>1 DEF ExactInv

\* With one caller, every step keeps ExactInv.
LEMMA ExactStep ==
  ASSUME OneCaller, IndInv, FitInv, ExactInv, [Next]_vars
  PROVE  ExactInv'
<1> USE DEF IndInv, TypeOK
<1>1. CASE UNCHANGED vars
  BY <1>1 DEF vars, ExactInv, Charging, InCrit
<1>2. ASSUME NEW t \in Threads, Call(t) \/ Step(t) PROVE ExactInv'
  <2>0. \A u \in Threads : u = t
    BY DEF OneCaller
  <2>1. ASSUME Goto(t, "pre") \/ Goto(t, "kernel") \/ Goto(t, "post"),
               pc[t] # "store", UNCHANGED <<free_mem, alloc_mem, heap_mem_list>>
        PROVE  ExactInv'
    <3>1. ~Charging(t) /\ ~Charging(t)' /\ ~InCrit(t)'
      BY <2>1 DEF Charging, Goto, InCrit
    <3> QED BY <2>1, <3>1, ExactQuiet
  <2>2. ASSUME Return(t), ~Charging(t), UNCHANGED <<free_mem, alloc_mem, heap_mem_list>>
        PROVE  ExactInv'
    <3>1. ~Charging(t)' /\ ~InCrit(t)'
      BY <2>2 DEF Charging, Return, InCrit
    <3> QED BY <2>2, <3>1, ExactQuiet
  <2>3. CASE Call(t)
    BY <2>1, <2>3 DEF Call
  <2>4. CASE PreSkip(t) \/ PreAdmit(t)
    BY <2>1, <2>4 DEF PreSkip, PreAdmit
  <2>5. CASE KernelRefuse(t) \/ KernelAlloc(t) \/ KernelFree(t) \/ KernelOther(t)
    BY <2>1, <2>5 DEF KernelRefuse, KernelAlloc, KernelFree, KernelOther
  <2>6. CASE PostLock(t)
    <3>1. /\ ~Charging(t) /\ ~Charging(t)' /\ PostLocks(req'[t])
          /\ UNCHANGED <<free_mem, alloc_mem, heap_mem_list>>
      BY <2>6 DEF PostLock, Charging, Goto
    <3> QED BY <3>1, ExactQuiet
  <2>7. CASE \/ PreDeny(t) \/ KernelError(t) \/ PostReturn(t) \/ ChargeNoMemory(t) \/ CreditNone(t)
             \/ FreeDevice(t) \/ AddDevice(t) \/ AddSubdevice(t) \/ ControlLookup(t)
    <3>1. Return(t) /\ pc[t] # "store" /\ UNCHANGED <<free_mem, alloc_mem, heap_mem_list>>
      BY <2>7 DEF PreDeny, KernelError, PostReturn, ChargeNoMemory, CreditNone,
                  FreeDevice, AddDevice, AddSubdevice, ControlLookup
    <3> QED BY <2>2, <3>1 DEF Charging
  <2>8. CASE CreditBegin(t)
    <3>1. /\ ~Charging(t) /\ ~Charging(t)' /\ UNCHANGED <<free_mem, alloc_mem, heap_mem_list, req>>
          /\ InCrit(t)
      BY <2>8 DEF CreditBegin, Goto, Charging, MemoryOps, InCrit
    <3> QED BY <3>1, ExactQuiet DEF ExactInv
  <2>9. CASE ChargeBegin(t)
    <3> DEFINE e == [object |-> req[t].key, size |-> req[t].size]
    <3>1. e \in MemEntry /\ e.size = req[t].size
      BY DEF Request, MemEntry
    <3>2. ~Charging(t) /\ InCrit(t)
      BY <2>9 DEF ChargeBegin, InCrit, Charging
    <3>3. /\ heap_mem_list' = Cons(e, heap_mem_list) /\ UNCHANGED <<free_mem, alloc_mem, req>>
          /\ pc'[t] = "store" /\ req[t].op \in MemoryOps
      BY <2>9 DEF ChargeBegin, Goto
    <3> HIDE DEF e
    <3>4. SumOf(heap_mem_list') = SumOf(heap_mem_list) + req[t].size
      BY <3>1, <3>3, SumCons
    <3>5. SumOf(heap_mem_list') = alloc_mem' + req'[t].size
      BY <2>0, <3>2, <3>3, <3>4 DEF ExactInv
    <3>6. Charging(t)' /\ PostLocks(req'[t])
      BY <3>2, <3>3 DEF Charging, ExactInv
    <3> QED BY <2>0, <3>3, <3>5, <3>6 DEF ExactInv
  <2>10. CASE ChargeEnd(t)
    <3>1. Charging(t) /\ InCrit(t) /\ ~Charging(t)' /\ ~InCrit(t)'
      BY <2>10 DEF ChargeEnd, Charging, InCrit, Return
    <3>2. req[t].size \in Size /\ req[t].size <= free_mem
      BY <3>1 DEF Charging, ExactInv, FitInv, ChargeFits, ChargePending, Request
    <3>3. /\ free_mem' = Minus(free_mem, req[t].size)
          /\ alloc_mem' = Plus(alloc_mem, req[t].size)
          /\ heap_mem_list' = heap_mem_list
      BY <2>10 DEF ChargeEnd, StoreOK
    <3>4. free_mem + alloc_mem = TotalMem /\ SumOf(heap_mem_list) = alloc_mem + req[t].size
      BY <3>1 DEF ExactInv
    <3>5. free_mem' = free_mem - req[t].size /\ alloc_mem' = alloc_mem + req[t].size
      BY <3>2, <3>3, <3>4, ConstantsOK DEF Minus, Plus, Size
    <3>6. free_mem' + alloc_mem' = TotalMem /\ SumOf(heap_mem_list') = alloc_mem'
      BY <3>2, <3>3, <3>4, <3>5 DEF Size
    <3> QED BY <2>0, <3>1, <3>6 DEF ExactInv
  <2>11. CASE CreditEnd(t)
    <3> DEFINE i == EntryAfterLoop(heap_mem_list, req[t].h)
               n == heap_mem_list[i].size
               rest == RemoveAt(heap_mem_list, i)
    <3>1. ~Charging(t) /\ heap_mem_list # <<>> /\ ~Charging(t)' /\ ~InCrit(t)'
      BY <2>11 DEF CreditEnd, Charging, InCrit, MemoryOps, StoreOK, Return
    <3>2. free_mem' = Plus(free_mem, n) /\ alloc_mem' = Minus(alloc_mem, n) /\ heap_mem_list' = rest
      BY <2>11 DEF CreditEnd, StoreOK
    <3>3. i \in 1 .. Len(heap_mem_list)
      BY <3>1, LoopEndsInList
    <3>4. rest \in Seq(MemEntry) /\ SumOf(heap_mem_list) = SumOf(rest) + n
      BY <3>3, SumRemove, RemoveShape
    <3>5. SumOf(rest) \in Nat /\ n \in Nat
      BY <3>3, <3>4, SumType
    <3>6. SumOf(heap_mem_list) = alloc_mem /\ free_mem + alloc_mem = TotalMem
      BY <2>0, <3>1 DEF ExactInv
    <3> HIDE DEF n, rest, i
    <3>7. free_mem' = free_mem + n /\ alloc_mem' = alloc_mem - n
      BY <3>2, <3>4, <3>5, <3>6, ConstantsOK DEF Minus, Plus, Size
    <3>8. free_mem' + alloc_mem' = TotalMem /\ SumOf(heap_mem_list') = alloc_mem'
      BY <3>2, <3>4, <3>5, <3>6, <3>7 DEF Size
    <3> QED BY <2>0, <3>1, <3>8 DEF ExactInv
  <2> QED
    BY <1>2, <2>3, <2>4, <2>5, <2>6, <2>7, <2>8, <2>9, <2>10, <2>11 DEF Step, Kernel
<1> QED BY <1>1, <1>2 DEF Next

\* With one caller the ledger is exact in every state.
LEMMA ExactAlways ==
  ASSUME OneCaller
  PROVE  Spec => [](IndInv /\ FitInv /\ ExactInv)
<1>1. Init => FitInv /\ ExactInv
  <2> SUFFICES ASSUME Init PROVE FitInv /\ ExactInv
    OBVIOUS
  <2>1. FitInv
    BY DEF Init, FitInv, ChargeFits, ChargePending
  <2>2. SumOf(heap_mem_list) = 0 /\ alloc_mem = 0 /\ free_mem = TotalMem
    BY SumEmpty DEF Init
  <2>3. \A t \in Threads : ~Charging(t) /\ ~InCrit(t)
    BY DEF Init, Charging, InCrit
  <2> QED BY <2>1, <2>2, <2>3, ConstantsOK DEF ExactInv
<1>2. IndInv /\ FitInv /\ ExactInv /\ [Next]_vars => FitInv' /\ ExactInv'
  BY FitStep, ExactStep DEF OneCaller
<1> QED BY <1>1, <1>2, IndInvAlways, PTL DEF Spec

\* In a process that makes one call at a time the hook's ledger is a quota:
\* each change of alloc_mem is a grant within the limit or a release of what
\* was granted, whatever the workload.
THEOREM OneCallerLedger ==
  ASSUME OneCaller
  PROVE  Spec => LedgerQuota
<1> DEFINE Within == alloc_mem \in 0 .. TotalMem
<1>1. Init => Ledger!Init
  BY DEF Init, Ledger!Init
<1>2. IndInv /\ ExactInv => Within
  BY ConstantsOK DEF IndInv, TypeOK, ExactInv, Size
<1>3. Within /\ Within' => [Ledger!Next]_alloc_mem
  <2> SUFFICES ASSUME alloc_mem \in 0 .. TotalMem, alloc_mem' \in 0 .. TotalMem, alloc_mem' # alloc_mem
               PROVE  Ledger!Next
    OBVIOUS
  <2>1. TotalMem \in Nat
    BY ConstantsOK
  <2>2. \/ \E n \in 1 .. TotalMem - alloc_mem : alloc_mem' = alloc_mem + n
        \/ \E n \in 1 .. alloc_mem : alloc_mem' = alloc_mem - n
    BY <2>1, WithinIsQuota
  <2> QED BY <2>2 DEF Ledger!Next, Ledger!Grant, Ledger!Release
<1>4. Spec => [](IndInv /\ ExactInv)
  BY ExactAlways, PTL
<1> HIDE DEF Within
<1> QED BY <1>1, <1>2, <1>3, <1>4, PTL DEF Spec, LedgerQuota, Ledger!Spec

-----------------------------------------------------------------------------
(* One call at a time: the driver keeps to the limit *)

\* Memory that is aligned, keyed by its handle and freed by itself or with its
\* device, over the control device, in a process whose mallocs succeed.  Where
\* the code departs from the limit outside this workload the runs show it.
TidyWorkload ==
  /\ OwnerTags = {}
  /\ 0 \notin Aligns
  /\ Ops \cap {"rm_subdevice", "rm_other"} = {}
  /\ Minors \subseteq {"ctl"}
  /\ ~MallocMayFail

\* The driver has granted memory that is not in the list yet.
Granted(t) == pc[t] \in {"post", "crit"} /\ req[t].op \in MemoryOps /\ req[t].status = "ok"

\* The driver has freed memory whose entry is still in the list.
Released(t) ==
  /\ pc[t] \in {"post", "crit", "store"}
  /\ req[t].op = "free" /\ req[t].parent # Root /\ req[t].status = "ok"

\* The first entry of the object has this size.
Found(list, object, size) ==
  FindEntry(list, object) # 0 /\ list[FindEntry(list, object)].size = size

\* What is known of the call a thread is in.
CallInv ==
  \A t \in Threads : LET r == req[t] IN
    pc[t] # "idle" =>
      /\ r.minor = "ctl" /\ r.op \notin {"rm_subdevice", "rm_other"}
      /\ r.op \in MemoryOps => r.align # 0 /\ r.key = r.h /\ r.parent # Root /\ r.h # Root
      /\ r.op = "rm_device" => r.parent = Root /\ r.h # Root /\ r.size = 0
      /\ r.op = "free" /\ r.h = Root => r.parent = Root
      /\ r.op = "free" /\ pc[t] = "store" => r.parent # Root
      /\ pc[t] \in {"pre", "kernel"} =>
           /\ r.status = "ok"
           /\ r.op \in AllocOps => \A o \in live : o.h # r.h
           /\ r.op = "free" /\ r.h # Root => \E o \in live : o.h = r.h /\ o.parent = r.parent

\* What is known of the driver's objects.
ObjectInv ==
  /\ IsFiniteSet(live)
  /\ \A o, p \in live : o.h = p.h => o = p
  /\ \A o \in live : \/ o.op \in MemoryOps /\ o.parent # Root
                     \/ o.op = "rm_device" /\ o.parent = Root /\ o.size = 0

\* Memory the driver holds has its entry, or is just being charged.
EntryInv ==
  \A o \in live : o.op \in MemoryOps =>
    /\ \A t \in Threads : Granted(t) /\ req[t].h = o.h => o.size = req[t].size
    /\ (\A t \in Threads : ~(Granted(t) /\ req[t].h = o.h)) => Found(heap_mem_list, o.h, o.size)

\* The driver holds no more than the list says, give or take the call that is
\* between the driver and the list.
UseInv ==
  /\ \A t \in Threads : Granted(t) => KernelUse <= SumOf(heap_mem_list) + req[t].size
  /\ \A t \in Threads : Released(t) =>
       /\ \A o \in live : o.h # req[t].h
       /\ \E n \in Size : Found(heap_mem_list, req[t].h, n) /\ KernelUse + n <= SumOf(heap_mem_list)
  /\ (\A t \in Threads : ~Granted(t) /\ ~Released(t)) => KernelUse <= SumOf(heap_mem_list)

DriverInv == CallInv /\ ObjectInv /\ EntryInv /\ UseInv

\* Memory the driver holds, when an object comes and when objects go.
LEMMA UseOfObjects ==
  ASSUME NEW S \in SUBSET Object, IsFiniteSet(S)
  PROVE  /\ Total([o \in S |-> o.size]) \in Nat
         /\ \A o \in Object \ S :
              Total([x \in S \cup {o} |-> x.size]) = Total([x \in S |-> x.size]) + o.size
         /\ \A T \in SUBSET S : Total([x \in T |-> x.size]) <= Total([x \in S |-> x.size])
         /\ \A o \in S : \A T \in SUBSET (S \ {o}) :
              Total([x \in T |-> x.size]) + o.size <= Total([x \in S |-> x.size])
<1> DEFINE f(T) == [o \in T |-> o.size]
<1>1. ASSUME NEW T \in SUBSET Object PROVE f(T) \in [T -> Nat]
  BY DEF Object, Size
<1>2. Total(f(S)) \in Nat
  BY <1>1, TotalType
<1>3. ASSUME NEW o \in Object \ S PROVE Total(f(S \cup {o})) = Total(f(S)) + o.size
  <2>1. f(S) \in [S -> Nat] /\ f(S \cup {o}) \in [S \cup {o} -> Nat]
    BY <1>1
  <2>2. (\A y \in S : f(S \cup {o})[y] = f(S)[y]) /\ f(S \cup {o})[o] = o.size
    OBVIOUS
  <2> HIDE DEF f
  <2> QED BY <2>1, <2>2, TotalAdd
<1>4. ASSUME NEW R \in SUBSET S, NEW T \in SUBSET R PROVE Total(f(T)) <= Total(f(R))
  <2>1. f(R) \in [R -> Nat] /\ f(T) \in [T -> Nat] /\ IsFiniteSet(R)
    BY <1>1, FS_Subset
  <2>2. \A y \in T : f(T)[y] = f(R)[y]
    OBVIOUS
  <2> HIDE DEF f
  <2> QED BY <2>1, <2>2, TotalSubset
<1>5. ASSUME NEW o \in S, NEW T \in SUBSET (S \ {o}) PROVE Total(f(T)) + o.size <= Total(f(S))
  <2>1. f(S) \in [S -> Nat] /\ f(S \ {o}) \in [S \ {o} -> Nat] /\ f(T) \in [T -> Nat]
    BY <1>1
  <2>2. (\A y \in S \ {o} : f(S \ {o})[y] = f(S)[y]) /\ f(S)[o] = o.size
    OBVIOUS
  <2>3. o.size \in Nat /\ IsFiniteSet(S \ {o}) /\ IsFiniteSet(T)
    BY FS_Subset DEF Object, Size
  <2>4. Total(f(T)) <= Total(f(S \ {o}))
    BY <1>4
  <2> HIDE DEF f
  <2>5. Total(f(S)) = Total(f(S \ {o})) + o.size
    <3> DEFINE a == f(S)
               b == f(S \ {o})
    <3>1. /\ a \in [S -> Nat] /\ b \in [S \ {o} -> Nat] /\ o \in S
          /\ \A y \in S \ {o} : b[y] = a[y]
      BY <2>1, <2>2
    <3> HIDE DEF a, b
    <3>2. Total(a) = Total(b) + a[o]
      BY <3>1, TotalSplit
    <3> QED BY <2>2, <3>2 DEF a, b
  <2>6. Total(f(S \ {o})) \in Nat /\ Total(f(T)) \in Nat
    BY <2>1, <2>3, TotalType
  <2> QED BY <2>3, <2>4, <2>5, <2>6
<1> QED BY <1>2, <1>3, <1>4, <1>5

\* A step that leaves the list and the objects alone, with nothing between the
\* driver and the list before it or after it.
LEMMA DriverQuiet ==
  ASSUME OneCaller, DriverInv, NEW t \in Threads,
         ~Granted(t), ~Released(t), ~Granted(t)', ~Released(t)',
         UNCHANGED <<heap_mem_list, live>>
  PROVE  ObjectInv' /\ EntryInv' /\ UseInv'
<1>1. \A u \in Threads : u = t
  BY DEF OneCaller
<1>2. KernelUse' = KernelUse
  BY DEF KernelUse
<1>3. ObjectInv'
  BY DEF DriverInv, ObjectInv
<1>4. EntryInv'
  BY <1>1 DEF DriverInv, EntryInv, Found
<1>5. UseInv'
  BY <1>1, <1>2 DEF DriverInv, UseInv
<1> QED BY <1>3, <1>4, <1>5

\* The same when the call stays between the driver and the list.
LEMMA DriverKeeps ==
  ASSUME OneCaller, DriverInv, NEW t \in Threads,
         Granted(t)' <=> Granted(t), Released(t)' <=> Released(t), req'[t] = req[t],
         UNCHANGED <<heap_mem_list, live>>
  PROVE  ObjectInv' /\ EntryInv' /\ UseInv'
<1>1. \A u \in Threads : u = t
  BY DEF OneCaller
<1>2. KernelUse' = KernelUse
  BY DEF KernelUse
<1>3. ObjectInv'
  BY DEF DriverInv, ObjectInv
<1>4. EntryInv'
  BY <1>1 DEF DriverInv, EntryInv, Found
<1>5. UseInv'
  BY <1>1, <1>2 DEF DriverInv, UseInv, Found
<1> QED BY <1>3, <1>4, <1>5

\* A tidy application's call is what CallInv says.
LEMMA CallEstablishes ==
  ASSUME OneCaller, TidyWorkload, IndInv, DriverInv, NEW t \in Threads, Call(t)
  PROVE  CallInv'
<1>1. PICK r \in Requests : Callable(r) /\ req' = [req EXCEPT ![t] = r]
  BY DEF Call
<1>2. pc'[t] = "pre" /\ req'[t] = r /\ live' = live
  BY <1>1 DEF Call, Goto, IndInv, TypeOK
<1>3. /\ r.minor = "ctl" /\ r.op \notin {"rm_subdevice", "rm_other"} /\ r.status = "ok"
      /\ r.op \in MemoryOps => r.align # 0 /\ r.key = r.h /\ r.parent # Root /\ r.h # Root
      /\ r.op = "rm_device" => r.parent = Root /\ r.h # Root /\ r.size = 0
      /\ r.op = "free" /\ r.h = Root => r.parent = Root
  BY <1>1 DEF TidyWorkload, Requests, MemoryOps, AllocOps
<1>4. /\ r.op \in AllocOps => \A o \in live : o.h # r.h
      /\ r.op = "free" /\ r.h # Root => \E o \in live : o.h = r.h /\ o.parent = r.parent
  BY <1>1 DEF Callable, Known
<1> QED BY <1>2, <1>3, <1>4 DEF CallInv, OneCaller

\* A step of one call that keeps its request keeps CallInv.
LEMMA CallKeeps ==
  ASSUME OneCaller, CallInv, NEW t \in Threads, pc[t] # "idle", req'[t] = req[t],
         \/ pc'[t] \in {"idle", "post", "crit"}
         \/ pc[t] = "pre" /\ pc'[t] = "kernel" /\ live' = live
         \/ pc'[t] = "store" /\ (req[t].op = "free" => req[t].parent # Root)
  PROVE  CallInv'
<1>1. \A u \in Threads : u = t
  BY DEF OneCaller
<1> QED BY <1>1 DEF CallInv

\* The end of a call keeps CallInv.
LEMMA CallEnds ==
  ASSUME OneCaller, IndInv, NEW t \in Threads, Return(t)
  PROVE  CallInv' /\ ~Granted(t)' /\ ~Released(t)'
<1>1. pc'[t] = "idle" /\ \A u \in Threads : u = t
  BY DEF OneCaller, Return, IndInv, TypeOK
<1> QED BY <1>1 DEF CallInv, Granted, Released

\* The driver's own steps keep DriverInv.
LEMMA DriverKernel ==
  ASSUME OneCaller, TidyWorkload, IndInv, IndInv', DriverInv, NEW t \in Threads,
         KernelAlloc(t) \/ KernelFree(t)
  PROVE  DriverInv'
<1> USE DEF IndInv, TypeOK
<1>0. (\A u \in Threads : u = t) /\ req[t] \in Request
  BY DEF OneCaller
<1>1. /\ pc[t] = "kernel" /\ pc'[t] = "post" /\ ~Granted(t) /\ ~Released(t)
      /\ heap_mem_list' = heap_mem_list
  BY DEF KernelAlloc, KernelFree, Goto, Granted, Released
<1>2. KernelUse <= SumOf(heap_mem_list)
  BY <1>0, <1>1 DEF DriverInv, UseInv
<1>3. IsFiniteSet(live) /\ live \in SUBSET Object
  BY DEF DriverInv, ObjectInv
<1>4. SumOf(heap_mem_list) \in Nat /\ KernelUse \in Nat
  BY <1>3, SumType, UseOfObjects DEF KernelUse
<1>5. ASSUME KernelAlloc(t) PROVE DriverInv'
  <2>1. PICK n \in Size :
          /\ req[t].op \notin MemoryOps => n = req[t].size
          /\ req' = [req EXCEPT ![t].size = n]
          /\ \E d \in IF req[t].op = "rm_subdevice"
                        THEN {o.dev : o \in {p \in live : p.h = req[t].parent}} ELSE {req[t].dev} :
               live' = live \cup {[h |-> req[t].h, op |-> req[t].op, parent |-> req[t].parent,
                                   size |-> n, dev |-> d]}
    BY <1>5 DEF KernelAlloc
  <2>2. PICK d : live' = live \cup {[h |-> req[t].h, op |-> req[t].op, parent |-> req[t].parent,
                                     size |-> n, dev |-> d]}
    BY <2>1
  <2> DEFINE new == [h |-> req[t].h, op |-> req[t].op, parent |-> req[t].parent,
                     size |-> n, dev |-> d]
  <2>3. /\ req'[t].h = req[t].h /\ req'[t].op = req[t].op /\ req'[t].parent = req[t].parent
        /\ req'[t].size = n /\ req'[t].status = req[t].status /\ req'[t].align = req[t].align
        /\ req'[t].key = req[t].key /\ req'[t].minor = req[t].minor
    BY <1>0, <2>1 DEF Request
  <2>4. req[t].op \in MemoryOps \cup {"rm_device"} /\ req[t].status = "ok"
    BY <1>0, <1>1, <1>5 DEF KernelAlloc, AllocOps, DriverInv, CallInv
  <2>5. \A o \in live : o.h # req[t].h
    BY <1>0, <1>1, <1>5 DEF KernelAlloc, DriverInv, CallInv
  <2>6. /\ new.h = req[t].h /\ new.op = req[t].op /\ new.parent = req[t].parent /\ new.size = n
        /\ live' = live \cup {new}
    BY <2>2
  <2> HIDE DEF new
  <2>7. new \in Object \ live
    BY <2>5, <2>6
  <2>8. KernelUse' = KernelUse + n
    BY <1>3, <2>6, <2>7, UseOfObjects DEF KernelUse
  <2>9. Granted(t)' <=> req[t].op \in MemoryOps
    BY <1>1, <2>3, <2>4 DEF Granted
  <2>10. ~Released(t)'
    BY <2>3, <2>4 DEF Released, MemoryOps
  <2>11. CallInv'
    BY <1>0, <1>1, <2>1, <2>3, <2>4 DEF DriverInv, CallInv, MemoryOps
  <2>12. ObjectInv'
    <3>1. IsFiniteSet(live')
      BY <1>3, <2>6, FS_AddElement
    <3>2. \A o, p \in live' : o.h = p.h => o = p
      BY <2>5, <2>6 DEF DriverInv, ObjectInv
    <3>3. \/ new.op \in MemoryOps /\ new.parent # Root
          \/ new.op = "rm_device" /\ new.parent = Root /\ new.size = 0
      BY <1>0, <1>1, <2>1, <2>4, <2>6 DEF DriverInv, CallInv, MemoryOps
    <3> QED BY <2>6, <3>1, <3>2, <3>3 DEF DriverInv, ObjectInv
  <2>13. EntryInv'
    <3> SUFFICES ASSUME NEW o \in live', o.op \in MemoryOps
                 PROVE  /\ Granted(t)' /\ req'[t].h = o.h => o.size = req'[t].size
                        /\ ~(Granted(t)' /\ req'[t].h = o.h) => Found(heap_mem_list', o.h, o.size)
      BY <1>0 DEF EntryInv
    <3>1. CASE o \in live
      <4>1. o.h # req[t].h /\ Found(heap_mem_list, o.h, o.size)
        BY <1>0, <1>1, <2>5, <3>1 DEF DriverInv, EntryInv
      <4> QED BY <1>1, <2>3, <4>1
    <3>2. CASE o = new
      BY <2>3, <2>6, <2>9, <3>2
    <3> QED BY <2>6, <3>1, <3>2
  <2>14. UseInv'
    <3>1. CASE req[t].op \in MemoryOps
      <4>1. KernelUse' <= SumOf(heap_mem_list') + req'[t].size
        BY <1>1, <1>2, <1>4, <2>3, <2>8 DEF Size
      <4> QED BY <1>0, <2>9, <2>10, <3>1, <4>1 DEF UseInv
    <3>2. CASE req[t].op \notin MemoryOps
      <4>1. n = 0
        BY <1>0, <1>1, <2>1, <2>4, <3>2 DEF DriverInv, CallInv
      <4>2. KernelUse' <= SumOf(heap_mem_list')
        BY <1>1, <1>2, <1>4, <2>8, <4>1
      <4> QED BY <1>0, <2>9, <2>10, <3>2, <4>2 DEF UseInv
    <3> QED BY <3>1, <3>2
  <2> QED BY <2>11, <2>12, <2>13, <2>14 DEF DriverInv
<1>6. ASSUME KernelFree(t) PROVE DriverInv'
  <2>1. /\ req' = req /\ req[t].op = "free"
        /\ live' = {o \in live : req[t].h # Root /\ o.h # req[t].h /\ o.parent # req[t].h}
    BY <1>6 DEF KernelFree
  <2>2. live' \subseteq live /\ \A o \in live' : o.h # req[t].h
    BY <2>1
  <2>3. ~Granted(t)' /\ (Released(t)' => req[t].parent # Root)
    BY <2>1 DEF Granted, Released, MemoryOps
  <2>4. CallInv'
    BY <1>1, <2>1, CallKeeps DEF DriverInv
  <2>5. ObjectInv'
    <3>1. IsFiniteSet(live')
      BY <1>3, <2>2, FS_Subset
    <3> QED BY <2>2, <3>1 DEF DriverInv, ObjectInv
  <2>6. EntryInv'
    <3> SUFFICES ASSUME NEW o \in live', o.op \in MemoryOps
                 PROVE  Found(heap_mem_list', o.h, o.size)
      BY <1>0, <2>3 DEF EntryInv
    <3>1. Found(heap_mem_list, o.h, o.size)
      BY <1>0, <1>1, <2>2 DEF DriverInv, EntryInv
    <3> QED BY <1>1, <3>1
  <2>7. KernelUse' <= KernelUse /\ KernelUse' \in Nat
    <3>1. live' \in SUBSET live /\ live' \in SUBSET Object /\ IsFiniteSet(live')
      BY <1>3, <2>2, FS_Subset
    <3> QED BY <1>3, <3>1, UseOfObjects DEF KernelUse
  <2>8. ASSUME Released(t)'
        PROVE  \E n \in Size : Found(heap_mem_list', req'[t].h, n) /\ KernelUse' + n <= SumOf(heap_mem_list')
    <3>1. req[t].h # Root
      BY <1>0, <1>1, <2>1, <2>3, <2>8 DEF DriverInv, CallInv
    <3>2. PICK o \in live : o.h = req[t].h /\ o.parent = req[t].parent
      BY <1>0, <1>1, <2>1, <3>1 DEF DriverInv, CallInv
    <3>3. o.op \in MemoryOps
      BY <2>3, <2>8, <3>2 DEF DriverInv, ObjectInv
    <3>4. Found(heap_mem_list, req[t].h, o.size)
      BY <1>0, <1>1, <3>2, <3>3 DEF DriverInv, EntryInv
    <3>5. live' \in SUBSET (live \ {o})
      BY <2>2, <3>2
    <3>6. KernelUse' + o.size <= KernelUse /\ o.size \in Size
      BY <1>3, <3>5, UseOfObjects DEF KernelUse, Object
    <3>7. KernelUse' + o.size <= SumOf(heap_mem_list')
      BY <1>1, <1>2, <1>4, <2>7, <3>6 DEF Size
    <3> QED BY <1>1, <2>1, <3>4, <3>6, <3>7
  <2>9. KernelUse' <= SumOf(heap_mem_list')
    BY <1>1, <1>2, <1>4, <2>7
  <2>10. UseInv'
    BY <1>0, <2>1, <2>2, <2>3, <2>8, <2>9 DEF UseInv
  <2> QED BY <2>4, <2>5, <2>6, <2>10 DEF DriverInv
<1> QED BY <1>5, <1>6

\* The bookkeeping of memory keeps DriverInv.
LEMMA DriverPost ==
  ASSUME OneCaller, TidyWorkload, IndInv, ExactInv, DriverInv, NEW t \in Threads,
         \/ ChargeBegin(t) \/ ChargeEnd(t) \/ CreditBegin(t) \/ CreditEnd(t) \/ CreditNone(t)
  PROVE  DriverInv'
<1> USE DEF IndInv, TypeOK
<1>0. (\A u \in Threads : u = t) /\ req[t] \in Request
  BY DEF OneCaller
<1>1. InCrit(t) /\ PostLocks(req[t]) /\ live' = live /\ KernelUse' = KernelUse
  BY DEF ChargeBegin, ChargeEnd, CreditBegin, CreditEnd, CreditNone, InCrit, ExactInv, KernelUse
<1>2. IsFiniteSet(live) /\ live \in SUBSET Object /\ ObjectInv'
  BY <1>1 DEF DriverInv, ObjectInv
<1>3. SumOf(heap_mem_list) \in Nat /\ KernelUse \in Nat
  BY <1>2, SumType, UseOfObjects DEF KernelUse
<1>4. ASSUME ChargeBegin(t) PROVE DriverInv'
  <2> DEFINE e == [object |-> req[t].key, size |-> req[t].size]
  <2>1. Granted(t) /\ req[t].key = req[t].h
    BY <1>1, <1>4 DEF ChargeBegin, Granted, PostLocks, MemoryOps, DriverInv, CallInv
  <2>2. /\ heap_mem_list' = Cons(e, heap_mem_list) /\ req' = req /\ pc'[t] = "store"
        /\ req[t].op \in MemoryOps /\ pc[t] = "crit"
    BY <1>4 DEF ChargeBegin, Goto
  <2>3. e \in MemEntry /\ e.size = req[t].size /\ e.object = req[t].h /\ req[t].size \in Nat
    BY <1>0, <2>1 DEF Request, MemEntry, Size
  <2> HIDE DEF e
  <2>4. SumOf(heap_mem_list') = SumOf(heap_mem_list) + req[t].size
    BY <2>2, <2>3, SumCons
  <2>5. ~Granted(t)' /\ ~Released(t)'
    BY <2>2 DEF Granted, Released, MemoryOps
  <2>6. CallInv'
    BY <2>2, CallKeeps DEF DriverInv, MemoryOps
  <2>7. EntryInv'
    <3> SUFFICES ASSUME NEW o \in live, o.op \in MemoryOps
                 PROVE  Found(heap_mem_list', o.h, o.size)
      BY <1>0, <1>1, <2>5 DEF EntryInv
    <3>1. CASE o.h = req[t].h
      <4>1. o.size = req[t].size
        BY <2>1, <3>1 DEF DriverInv, EntryInv
      <4>2. LET k == FindEntry(heap_mem_list', o.h) IN k # 0 /\ heap_mem_list'[k] = e
        BY <2>2, <2>3, <3>1, FindAfterAdd
      <4> QED BY <2>3, <4>1, <4>2 DEF Found
    <3>2. CASE o.h # req[t].h
      <4>1. Found(heap_mem_list, o.h, o.size)
        BY <1>0, <3>2 DEF DriverInv, EntryInv
      <4>2. LET k == FindEntry(heap_mem_list', o.h)
                i == FindEntry(heap_mem_list, o.h) IN
            (k = 0 <=> i = 0) /\ (i # 0 => heap_mem_list'[k] = heap_mem_list[i])
        BY <2>2, <2>3, <3>2, FindAfterAdd
      <4> QED BY <4>1, <4>2 DEF Found
    <3> QED BY <3>1, <3>2
  <2>8. KernelUse' <= SumOf(heap_mem_list')
    BY <1>1, <2>1, <2>4 DEF DriverInv, UseInv
  <2>9. UseInv'
    BY <1>0, <2>5, <2>8 DEF UseInv
  <2> QED BY <1>2, <2>6, <2>7, <2>9 DEF DriverInv
<1>5. ASSUME ChargeEnd(t) PROVE DriverInv'
  <2>1. ~Granted(t) /\ ~Released(t) /\ UNCHANGED <<heap_mem_list, live>> /\ Return(t)
    BY <1>5 DEF ChargeEnd, Granted, Released, MemoryOps
  <2> QED BY <2>1, CallEnds, DriverQuiet DEF DriverInv
<1>6. ASSUME CreditBegin(t) PROVE DriverInv'
  <2>1. /\ UNCHANGED <<heap_mem_list, live, req>> /\ pc[t] = "crit" /\ pc'[t] = "store"
        /\ req[t].op = "free" /\ req[t].parent # Root
    BY <1>6 DEF CreditBegin, Goto
  <2>2. (Granted(t)' <=> Granted(t)) /\ (Released(t)' <=> Released(t))
    BY <2>1 DEF Granted, Released, MemoryOps
  <2>3. CallInv'
    BY <2>1, CallKeeps DEF DriverInv
  <2> QED BY <2>1, <2>2, <2>3, DriverKeeps DEF DriverInv
<1>7. ASSUME req[t].op = "free", req[t].parent # Root
      PROVE  Released(t) /\ ~Granted(t)
  BY <1>1, <1>7 DEF Released, Granted, InCrit, PostLocks, MemoryOps
<1>8. ASSUME CreditNone(t) PROVE DriverInv'
  <2>1. Released(t) /\ heap_mem_list = <<>>
    BY <1>7, <1>8 DEF CreditNone
  <2>2. FindEntry(heap_mem_list, req[t].h) # 0
    BY <2>1 DEF DriverInv, UseInv, Found
  <2>3. FirstAt(heap_mem_list, req[t].h, FindEntry(heap_mem_list, req[t].h))
    BY FindIsFirst
  <2>4. Len(heap_mem_list) = 0
    BY <2>1
  <2>5. FALSE
    BY <2>2, <2>3, <2>4 DEF FirstAt
  <2> QED BY <2>5
<1>9. ASSUME CreditEnd(t) PROVE DriverInv'
  <2> DEFINE i == FindEntry(heap_mem_list, req[t].h)
             rest == RemoveAt(heap_mem_list, i)
  <2>1. req[t].op = "free" /\ req[t].parent # Root
    BY <1>9 DEF CreditEnd, DriverInv, CallInv
  <2>2. Released(t) /\ ~Granted(t)
    BY <1>7, <2>1
  <2>3. PICK n \in Size : Found(heap_mem_list, req[t].h, n) /\ KernelUse + n <= SumOf(heap_mem_list)
    BY <2>2 DEF DriverInv, UseInv
  <2>4. i # 0 /\ heap_mem_list[i].size = n /\ EntryAfterLoop(heap_mem_list, req[t].h) = i
    BY <2>3 DEF Found, EntryAfterLoop
  <2>5. FirstAt(heap_mem_list, req[t].h, i)
    BY FindIsFirst
  <2>6. i \in 1 .. Len(heap_mem_list) /\ heap_mem_list[i].object = req[t].h
    BY <2>4, <2>5 DEF FirstAt
  <2>7. heap_mem_list' = rest /\ Return(t)
    BY <1>9, <2>4 DEF CreditEnd
  <2>8. CallInv' /\ ~Granted(t)' /\ ~Released(t)'
    BY <2>7, CallEnds
  <2>9. rest \in Seq(MemEntry) /\ SumOf(heap_mem_list) = SumOf(rest) + n
    BY <2>4, <2>6, RemoveShape, SumRemove
  <2>10. SumOf(rest) \in Nat
    BY <2>9, SumType
  <2>11. EntryInv'
    <3> SUFFICES ASSUME NEW o \in live, o.op \in MemoryOps
                 PROVE  Found(rest, o.h, o.size)
      BY <1>0, <1>1, <2>7, <2>8 DEF EntryInv
    <3>1. Found(heap_mem_list, o.h, o.size) /\ o.h # req[t].h
      BY <1>0, <2>2 DEF DriverInv, EntryInv, UseInv
    <3>2. LET k == FindEntry(rest, o.h)
              j == FindEntry(heap_mem_list, o.h) IN
          (k = 0 <=> j = 0) /\ (j # 0 => rest[k] = heap_mem_list[j])
      BY <2>6, <3>1, FindAfterDel
    <3> QED BY <3>1, <3>2 DEF Found
  <2> HIDE DEF i, rest
  <2>12. KernelUse' <= SumOf(heap_mem_list')
    BY <1>1, <1>3, <2>3, <2>7, <2>9, <2>10 DEF Size
  <2>13. UseInv'
    BY <1>0, <2>8, <2>12 DEF UseInv
  <2> QED BY <1>2, <2>8, <2>11, <2>13 DEF DriverInv
<1> QED BY <1>4, <1>5, <1>6, <1>8, <1>9

\* Every step keeps DriverInv.
LEMMA DriverStep ==
  ASSUME OneCaller, TidyWorkload, IndInv, IndInv', ExactInv, DriverInv, [Next]_vars
  PROVE  DriverInv'
<1> USE DEF IndInv, TypeOK
<1>1. CASE UNCHANGED vars
  BY <1>1 DEF vars, DriverInv, CallInv, ObjectInv, EntryInv, UseInv, Granted, Released, Found, KernelUse
<1>2. ASSUME NEW t \in Threads, Call(t) \/ Step(t) PROVE DriverInv'
  <2>0. \A u \in Threads : u = t
    BY DEF OneCaller
  <2>1. CASE Call(t)
    <3>1. ~Granted(t) /\ ~Released(t) /\ ~Granted(t)' /\ ~Released(t)' /\ UNCHANGED <<heap_mem_list, live>>
      BY <2>1 DEF Call, Goto, Granted, Released
    <3> QED BY <2>1, <3>1, CallEstablishes, DriverQuiet DEF DriverInv
  <2>2. CASE PreSkip(t) \/ PreAdmit(t)
    <3>1. /\ pc[t] = "pre" /\ pc'[t] = "kernel" /\ UNCHANGED <<heap_mem_list, live, req>>
      BY <2>2 DEF PreSkip, PreAdmit, Goto
    <3>2. ~Granted(t) /\ ~Released(t) /\ ~Granted(t)' /\ ~Released(t)'
      BY <3>1 DEF Granted, Released
    <3> QED BY <3>1, <3>2, CallKeeps, DriverQuiet DEF DriverInv
  <2>3. CASE KernelRefuse(t)
    <3>1. pc[t] = "kernel" /\ pc'[t] = "post" /\ UNCHANGED <<heap_mem_list, live>>
      BY <2>3 DEF KernelRefuse, Goto
    <3>2. /\ req[t] \in Request /\ req'[t] = [req[t] EXCEPT !.status = "failed"]
      BY <2>3 DEF KernelRefuse
    <3>3. ~Granted(t) /\ ~Released(t) /\ ~Granted(t)' /\ ~Released(t)'
      BY <3>1, <3>2 DEF Granted, Released, Request
    <3>4. CallInv'
      BY <2>0, <3>1, <3>2 DEF DriverInv, CallInv, Request
    <3> QED BY <3>1, <3>3, <3>4, DriverQuiet DEF DriverInv
  <2>4. CASE KernelAlloc(t) \/ KernelFree(t)
    BY <2>4, DriverKernel
  <2>5. CASE KernelOther(t)
    <3>1. /\ pc[t] = "kernel" /\ pc'[t] = "post" /\ UNCHANGED <<heap_mem_list, live, req>>
          /\ req[t].op \notin MemoryOps \cup {"free"}
      BY <2>5 DEF KernelOther, Goto, MemoryOps
    <3>2. ~Granted(t) /\ ~Released(t) /\ ~Granted(t)' /\ ~Released(t)'
      BY <3>1 DEF Granted, Released
    <3> QED BY <3>1, <3>2, CallKeeps, DriverQuiet DEF DriverInv
  <2>6. CASE PostLock(t)
    <3>1. /\ pc[t] = "post" /\ pc'[t] = "crit" /\ UNCHANGED <<heap_mem_list, live, req>>
      BY <2>6 DEF PostLock, Goto
    <3>2. (Granted(t)' <=> Granted(t)) /\ (Released(t)' <=> Released(t))
      BY <3>1 DEF Granted, Released
    <3> QED BY <3>1, <3>2, CallKeeps, DriverKeeps DEF DriverInv
  <2>7. CASE ChargeBegin(t) \/ ChargeEnd(t) \/ CreditBegin(t) \/ CreditEnd(t) \/ CreditNone(t)
    BY <2>7, DriverPost
  <2>8. CASE \/ PreDeny(t) \/ KernelError(t) \/ PostReturn(t) \/ FreeDevice(t) \/ AddDevice(t)
             \/ AddSubdevice(t) \/ ControlLookup(t)
    <3>1. Return(t) /\ UNCHANGED <<heap_mem_list, live>>
      BY <2>8 DEF PreDeny, KernelError, PostReturn, FreeDevice, AddDevice, AddSubdevice, ControlLookup
    <3>2. ~Granted(t) /\ ~Released(t)
      <4>1. CASE PreDeny(t) \/ KernelError(t)
        BY <4>1 DEF PreDeny, KernelError, Granted, Released
      <4>2. CASE PostReturn(t)
        BY <4>2 DEF PostReturn, PostLocks, Granted, Released, MemoryOps, DriverInv, CallInv
      <4>3. CASE FreeDevice(t) \/ AddDevice(t) \/ AddSubdevice(t) \/ ControlLookup(t)
        BY <4>3 DEF FreeDevice, AddDevice, AddSubdevice, ControlLookup, Granted, Released, MemoryOps
      <4> QED BY <2>8, <4>1, <4>2, <4>3
    <3> QED BY <3>1, <3>2, CallEnds, DriverQuiet DEF DriverInv
  <2>9. ~ChargeNoMemory(t)
    BY DEF ChargeNoMemory, TidyWorkload
  <2> QED BY <1>2, <2>1, <2>2, <2>3, <2>4, <2>5, <2>6, <2>7, <2>8, <2>9 DEF Step, Kernel
<1> QED BY <1>1, <1>2 DEF Next

\* Nothing is held at the start.
LEMMA DriverInit == Init => DriverInv
<1> SUFFICES ASSUME Init PROVE DriverInv
  OBVIOUS
<1>1. CallInv /\ \A t \in Threads : ~Granted(t) /\ ~Released(t)
  BY DEF Init, CallInv, Granted, Released
<1>2. ObjectInv /\ EntryInv
  BY FS_EmptySet DEF Init, ObjectInv, EntryInv
<1>3. KernelUse = 0 /\ SumOf(heap_mem_list) = 0
  BY SumEmpty, TotalZero DEF Init, KernelUse
<1> QED BY <1>1, <1>2, <1>3 DEF DriverInv, UseInv

\* The memory the driver holds is a number within the limit.
LEMMA DriverWithin ==
  ASSUME OneCaller, IndInv, FitInv, ExactInv, DriverInv
  PROVE  KernelUse \in 0 .. TotalMem
<1> USE DEF IndInv, TypeOK
<1>1. SumOf(heap_mem_list) \in Nat /\ KernelUse \in Nat
  BY SumType, UseOfObjects DEF DriverInv, ObjectInv, KernelUse
<1>2. /\ free_mem \in Nat /\ alloc_mem \in Nat /\ TotalMem \in Nat
      /\ free_mem + alloc_mem = TotalMem
  BY ConstantsOK DEF ExactInv, Size
<1>3. ASSUME NEW t \in Threads, Granted(t) PROVE KernelUse <= TotalMem
  <2>0. \A u \in Threads : u = t
    BY DEF OneCaller
  <2>1. ~Charging(t) /\ SumOf(heap_mem_list) = alloc_mem
    BY <1>3, <2>0 DEF Granted, Charging, ExactInv
  <2>2. ChargePending(t)
    BY <1>3 DEF Granted, ChargePending, PostLocks, MemoryOps, DriverInv, CallInv
  <2>3. req[t].size \in Nat /\ req[t].size <= free_mem
    BY <2>2 DEF FitInv, ChargeFits, Request, Size
  <2>4. KernelUse <= SumOf(heap_mem_list) + req[t].size
    BY <1>3 DEF DriverInv, UseInv
  <2> QED BY <1>1, <1>2, <2>1, <2>3, <2>4
<1>4. SumOf(heap_mem_list) <= TotalMem
  <2>1. CASE \A t \in Threads : ~Charging(t)
    BY <1>1, <1>2, <2>1 DEF ExactInv
  <2>2. ASSUME NEW t \in Threads, Charging(t) PROVE SumOf(heap_mem_list) <= TotalMem
    <3>1. SumOf(heap_mem_list) = alloc_mem + req[t].size
      BY <2>2 DEF ExactInv
    <3>2. req[t].size \in Nat /\ req[t].size <= free_mem
      BY <2>2 DEF Charging, ExactInv, InCrit, FitInv, ChargeFits, ChargePending, Request, Size
    <3> QED BY <1>1, <1>2, <3>1, <3>2
  <2> QED BY <2>1, <2>2
<1>5. ASSUME NEW t \in Threads, Released(t) PROVE KernelUse <= SumOf(heap_mem_list)
  BY <1>1, <1>5 DEF DriverInv, UseInv, Size
<1>6. (\A t \in Threads : ~Granted(t) /\ ~Released(t)) => KernelUse <= SumOf(heap_mem_list)
  BY DEF DriverInv, UseInv
<1> QED BY <1>1, <1>2, <1>3, <1>4, <1>5, <1>6

\* With one caller and a tidy workload, the driver's use stays in range.
LEMMA DriverAlways ==
  ASSUME OneCaller, TidyWorkload
  PROVE  Spec => [](KernelUse \in 0 .. TotalMem)
<1>1. Spec => [](IndInv /\ FitInv /\ ExactInv)
  BY ExactAlways
<1>2. IndInv /\ IndInv' /\ ExactInv /\ DriverInv /\ [Next]_vars => DriverInv'
  BY DriverStep
<1>3. IndInv /\ FitInv /\ ExactInv /\ DriverInv => KernelUse \in 0 .. TotalMem
  BY DriverWithin
<1> QED BY <1>1, <1>2, <1>3, DriverInit, PTL DEF Spec

\* The memory limit holds: in a process that makes one call at a time and keeps
\* to aligned memory objects, the driver never holds more than total_mem,
\* although stale entries of freed devices stay in the list and handles are
\* used again.
THEOREM OneCallerLimit ==
  ASSUME OneCaller, TidyWorkload
  PROVE  Spec => []KernelWithinLimit
<1>1. KernelUse \in 0 .. TotalMem => KernelWithinLimit
  BY ConstantsOK DEF KernelWithinLimit
<1> QED BY <1>1, DriverAlways, PTL

-----------------------------------------------------------------------------
(* Any number of callers: a free finds its own entry *)

\* What a tidy workload passes, and what the driver makes of it.
TidyInv ==
  /\ \A t \in InFlight :
       /\ req[t].minor = "ctl"
       /\ req[t].op \in MemoryOps => req[t].align # 0 /\ req[t].key = req[t].h
       /\ req[t].op \notin {"rm_subdevice", "rm_other"}
       /\ req[t].op = "free" /\ pc[t] = "store" => req[t].parent # Root
  /\ \A o \in live : o.op \in MemoryOps \cup {"rm_device"}

\* Memory being freed has an entry to credit.
ReleaseInv == \A t \in Threads : Released(t) => FindEntry(heap_mem_list, req[t].h) # 0

HeapInv == TidyInv /\ EntryInv /\ ReleaseInv

\* Calls keep what TidyInv says of them.
LEMMA TidyStep ==
  ASSUME TidyWorkload, IndInv, TidyInv, [Next]_vars
  PROVE  TidyInv'
<1> USE DEF IndInv, TypeOK
<1>1. CASE UNCHANGED vars
  BY <1>1 DEF vars, TidyInv, InFlight
<1>2. ASSUME NEW t \in Threads, Call(t) PROVE TidyInv'
  <2>1. PICK r \in Requests : req' = [req EXCEPT ![t] = r]
    BY <1>2 DEF Call
  <2>2. /\ r.minor = "ctl" /\ r.op \notin {"rm_subdevice", "rm_other"}
        /\ r.op \in MemoryOps => r.align # 0 /\ r.key = r.h
    BY <2>1 DEF Requests, TidyWorkload, MemoryOps
  <2>3. /\ req'[t] = r /\ (\A u \in Threads \ {t} : req'[u] = req[u] /\ pc'[u] = pc[u]) /\ live' = live
        /\ pc'[t] = "pre"
    BY <1>2, <2>1 DEF Call, Goto
  <2>4. ASSUME NEW u \in InFlight', u # t PROVE u \in InFlight /\ req'[u] = req[u] /\ pc'[u] = pc[u]
    BY <2>3, <2>4 DEF InFlight
  <2> QED BY <2>2, <2>3, <2>4 DEF TidyInv
<1>3. ASSUME NEW t \in Threads, Return(t), UNCHANGED live PROVE TidyInv'
  <2>1. pc'[t] = "idle" /\ \A u \in Threads \ {t} : req'[u] = req[u] /\ pc'[u] = pc[u]
    BY <1>3 DEF Return
  <2>2. ASSUME NEW u \in InFlight' PROVE u \in InFlight /\ req'[u] = req[u] /\ pc'[u] = pc[u]
    BY <2>1 DEF InFlight
  <2> QED BY <1>3, <2>2 DEF TidyInv
<1>4. ASSUME NEW t \in Threads, UNCHANGED <<req, live>>, pc[t] # "idle",
             \A u \in Threads \ {t} : pc'[u] = pc[u],
             req[t].op = "free" /\ pc'[t] = "store" => req[t].parent # Root
      PROVE  TidyInv'
  <2>1. ASSUME NEW u \in InFlight' PROVE u \in InFlight /\ (u # t => pc'[u] = pc[u])
    BY <1>4 DEF InFlight
  <2> QED BY <1>4, <2>1 DEF TidyInv
<1>5. ASSUME NEW t \in Threads, Step(t) PROVE TidyInv'
  <2>1. CASE \/ PreDeny(t) \/ KernelError(t) \/ PostReturn(t) \/ ChargeNoMemory(t) \/ ChargeEnd(t)
             \/ CreditEnd(t) \/ CreditNone(t) \/ FreeDevice(t) \/ AddDevice(t) \/ AddSubdevice(t)
             \/ ControlLookup(t)
    <3>1. Return(t) /\ UNCHANGED live
      BY <2>1 DEF PreDeny, KernelError, PostReturn, ChargeNoMemory, ChargeEnd, CreditEnd, CreditNone,
                  FreeDevice, AddDevice, AddSubdevice, ControlLookup
    <3> QED BY <1>3, <3>1
  <2>2. CASE \/ PreSkip(t) \/ PreAdmit(t) \/ KernelOther(t) \/ PostLock(t) \/ ChargeBegin(t)
             \/ CreditBegin(t)
    <3>1. /\ UNCHANGED <<req, live>> /\ pc[t] # "idle" /\ \A u \in Threads \ {t} : pc'[u] = pc[u]
          /\ req[t].op = "free" /\ pc'[t] = "store" => req[t].parent # Root
      BY <2>2 DEF PreSkip, PreAdmit, KernelOther, PostLock, ChargeBegin, CreditBegin, Goto, MemoryOps
    <3> QED BY <1>4, <3>1
  <2>3. CASE KernelRefuse(t) \/ KernelFree(t) \/ KernelAlloc(t)
    <3>1. /\ pc[t] = "kernel" /\ \A u \in Threads \ {t} : pc'[u] = pc[u] /\ req'[u] = req[u]
          /\ req'[t].minor = req[t].minor /\ req'[t].op = req[t].op /\ req'[t].align = req[t].align
          /\ req'[t].key = req[t].key /\ req'[t].h = req[t].h /\ pc'[t] = "post"
      BY <2>3 DEF KernelRefuse, KernelFree, KernelAlloc, Goto, Request
    <3>2. t \in InFlight /\ \A u \in InFlight' : u \in InFlight
      BY <3>1 DEF InFlight
    <3>3. \A o \in live' : o.op \in MemoryOps \cup {"rm_device"}
      <4>1. CASE KernelRefuse(t) \/ KernelFree(t)
        BY <4>1 DEF KernelRefuse, KernelFree, TidyInv
      <4>2. CASE KernelAlloc(t)
        <5>1. req[t].op \in MemoryOps \cup {"rm_device"}
          BY <3>2, <4>2 DEF KernelAlloc, AllocOps, TidyInv
        <5> QED BY <4>2, <5>1 DEF KernelAlloc, TidyInv
      <4> QED BY <2>3, <4>1, <4>2
    <3> QED BY <3>1, <3>2, <3>3 DEF TidyInv, InFlight
  <2> QED BY <1>5, <2>1, <2>2, <2>3 DEF Step, Kernel
<1> QED BY <1>1, <1>2, <1>5 DEF Next

\* A call that neither gets nor gives back memory leaves every object's entry
\* alone.
LEMMA HeapQuiet ==
  ASSUME EntryInv, ReleaseInv, NEW t \in Threads, UNCHANGED <<heap_mem_list, live>>,
         \A u \in Threads \ {t} : pc'[u] = pc[u] /\ req'[u] = req[u],
         ~Granted(t), ~Granted(t)', Released(t)' => Released(t) /\ req'[t] = req[t]
  PROVE  EntryInv' /\ ReleaseInv'
<1>1. \A u \in Threads \ {t} : (Granted(u)' <=> Granted(u)) /\ (Released(u)' <=> Released(u))
  BY DEF Granted, Released
<1>2. EntryInv'
  <2> SUFFICES ASSUME NEW o \in live, o.op \in MemoryOps
               PROVE  /\ \A u \in Threads : Granted(u)' /\ req'[u].h = o.h => o.size = req'[u].size
                      /\ (\A u \in Threads : ~(Granted(u)' /\ req'[u].h = o.h)) =>
                           Found(heap_mem_list, o.h, o.size)
    BY DEF EntryInv, Found
  <2> QED BY <1>1 DEF EntryInv
<1>3. ReleaseInv'
  BY <1>1 DEF ReleaseInv
<1> QED BY <1>2, <1>3

\* The same when the call goes on with its memory.
LEMMA HeapKeeps ==
  ASSUME EntryInv, ReleaseInv, NEW t \in Threads, UNCHANGED <<heap_mem_list, live, req>>,
         \A u \in Threads \ {t} : pc'[u] = pc[u],
         Granted(t)' <=> Granted(t), Released(t)' <=> Released(t)
  PROVE  EntryInv' /\ ReleaseInv'
<1>1. \A u \in Threads : (Granted(u)' <=> Granted(u)) /\ (Released(u)' <=> Released(u))
  BY DEF Granted, Released
<1> QED BY <1>1 DEF EntryInv, ReleaseInv, Found

\* The driver makes an object: its memory is the one the call will charge.
LEMMA HeapKernelAlloc ==
  ASSUME IndInv, DeviceInv, HeapInv, NEW t \in Threads, KernelAlloc(t)
  PROVE  EntryInv' /\ ReleaseInv'
<1> USE DEF IndInv, TypeOK
<1>1. /\ pc[t] = "kernel" /\ pc'[t] = "post" /\ req[t].op \in AllocOps /\ heap_mem_list' = heap_mem_list
      /\ \A u \in Threads \ {t} : pc'[u] = pc[u] /\ req'[u] = req[u]
      /\ req'[t].op = req[t].op /\ req'[t].h = req[t].h /\ req'[t].status = req[t].status
  BY DEF KernelAlloc, Goto, Request
<1>2. PICK x : /\ live' = live \cup {x} /\ x.h = req[t].h /\ x.op = req[t].op
               /\ x.size = req'[t].size
  <2>0. PICK n \in Size : /\ req' = [req EXCEPT ![t].size = n]
                          /\ \E d : live' = live \cup {[h |-> req[t].h, op |-> req[t].op,
                                       parent |-> req[t].parent, size |-> n, dev |-> d]}
    BY DEF KernelAlloc
  <2>1. PICK d : /\ req' = [req EXCEPT ![t].size = n]
                 /\ live' = live \cup {[h |-> req[t].h, op |-> req[t].op,
                                        parent |-> req[t].parent, size |-> n, dev |-> d]}
    BY <2>0
  <2>2. req'[t].size = n
    BY <2>1 DEF Request
  <2> DEFINE x == [h |-> req[t].h, op |-> req[t].op, parent |-> req[t].parent, size |-> n, dev |-> d]
  <2>3. x.h = req[t].h /\ x.op = req[t].op /\ x.size = n
    OBVIOUS
  <2>4. live' = live \cup {x}
    BY <2>1
  <2> HIDE DEF x
  <2> QED BY <2>2, <2>3, <2>4
<1>3. t \in InFlight /\ req[t].status = "ok" /\ \A o \in live : o.h # req[t].h
  BY <1>1 DEF InFlight, DeviceInv, ShapeInv, ComingInv
<1>4. ASSUME NEW u \in Threads \ {t}
      PROVE  (Granted(u)' <=> Granted(u)) /\ (Released(u)' <=> Released(u))
             /\ (Granted(u) => req[u].h # req[t].h)
  <2>1. Granted(u) => u \in InFlight
    BY DEF Granted, InFlight
  <2> QED BY <1>1, <1>3, <2>1 DEF Granted, Released, DeviceInv, ApartInv
<1>5. ~Granted(t) /\ ~Released(t) /\ ~Released(t)' /\ (Granted(t)' <=> req[t].op \in MemoryOps)
  BY <1>1, <1>3 DEF Granted, Released, AllocOps, MemoryOps
<1>6. EntryInv'
  <2> SUFFICES ASSUME NEW o \in live', o.op \in MemoryOps
               PROVE  /\ \A u \in Threads : Granted(u)' /\ req'[u].h = o.h => o.size = req'[u].size
                      /\ (\A u \in Threads : ~(Granted(u)' /\ req'[u].h = o.h)) =>
                           Found(heap_mem_list, o.h, o.size)
    BY <1>1 DEF EntryInv, Found
  <2>1. CASE o = x
    BY <1>1, <1>2, <1>4, <1>5, <2>1
  <2>2. CASE o \in live
    BY <1>1, <1>3, <1>4, <1>5, <2>2 DEF HeapInv, EntryInv
  <2> QED BY <1>2, <2>1, <2>2
<1>7. ReleaseInv'
  BY <1>1, <1>4, <1>5 DEF HeapInv, ReleaseInv
<1> QED BY <1>6, <1>7

\* The driver frees an object: memory that was known has its entry.
LEMMA HeapKernelFree ==
  ASSUME IndInv, DeviceInv, HeapInv, NEW t \in Threads, KernelFree(t)
  PROVE  EntryInv' /\ ReleaseInv'
<1> USE DEF IndInv, TypeOK
<1>1. /\ pc[t] = "kernel" /\ pc'[t] = "post" /\ req[t].op = "free" /\ req' = req
      /\ \A u \in Threads \ {t} : pc'[u] = pc[u]
      /\ heap_mem_list' = heap_mem_list /\ live' \subseteq live
  BY DEF KernelFree, Goto
<1>2. t \in InFlight
  BY <1>1 DEF InFlight
<1>3. \A u \in Threads : Granted(u)' <=> Granted(u)
  BY <1>1 DEF Granted, MemoryOps
<1>4. \A u \in Threads \ {t} : Released(u)' <=> Released(u)
  BY <1>1 DEF Released
<1>5. EntryInv'
  BY <1>1, <1>3 DEF HeapInv, EntryInv, Found
<1>6. ASSUME Released(t)' PROVE FindEntry(heap_mem_list, req[t].h) # 0
  <2>1. req[t].parent # Root /\ req[t].h # Root
    BY <1>1, <1>2, <1>6 DEF Released, DeviceInv, ShapeInv
  <2>2. PICK o \in Known : o.h = req[t].h /\ o.parent = req[t].parent
    BY <1>1, <1>2, <2>1 DEF DeviceInv, GoingInv
  <2>3. o \in live /\ o.op \in MemoryOps
    BY <2>1, <2>2 DEF Known, DeviceInv, TreeInv, HeapInv, TidyInv
  <2>4. \A u \in Threads : ~(Granted(u) /\ req[u].h = o.h)
    BY <2>2 DEF Known, InFlight, Granted, AllocOps
  <2>5. Found(heap_mem_list, o.h, o.size)
    BY <2>3, <2>4 DEF HeapInv, EntryInv
  <2> QED BY <2>2, <2>5 DEF Found
<1>7. ReleaseInv'
  BY <1>1, <1>4, <1>6 DEF HeapInv, ReleaseInv
<1> QED BY <1>5, <1>7

\* list_add puts the new entry before one that was left under the same handle,
\* and hides no other.
LEMMA HeapCharge ==
  ASSUME IndInv, DeviceInv, HeapInv, NEW t \in Threads, ChargeBegin(t)
  PROVE  EntryInv' /\ ReleaseInv'
<1> USE DEF IndInv, TypeOK
<1> DEFINE e == [object |-> req[t].key, size |-> req[t].size]
<1>1. /\ heap_mem_list' = Cons(e, heap_mem_list) /\ req' = req /\ live' = live
      /\ pc[t] = "crit" /\ pc'[t] = "store" /\ req[t].op \in MemoryOps
      /\ \A u \in Threads \ {t} : pc'[u] = pc[u]
  BY DEF ChargeBegin, Goto
<1>2. t \in InFlight /\ Granted(t) /\ req[t].key = req[t].h
  <2>1. t \in InFlight /\ PostLocks(req[t])
    BY <1>1 DEF InFlight, InCrit, DeviceInv, ShapeInv
  <2> QED BY <1>1, <2>1 DEF Granted, PostLocks, MemoryOps, HeapInv, TidyInv
<1>3. e \in MemEntry /\ e.size = req[t].size /\ e.object = req[t].h
  BY <1>2 DEF Request, MemEntry
<1> HIDE DEF e
<1>4. ~Granted(t)' /\ ~Released(t)'
  BY <1>1 DEF Granted, Released, MemoryOps
<1>5. ASSUME NEW u \in Threads \ {t}
      PROVE  (Granted(u)' <=> Granted(u)) /\ (Released(u)' <=> Released(u))
  BY <1>1, <1>5 DEF Granted, Released
<1>6. ASSUME NEW h, h # req[t].h
      PROVE  LET k == FindEntry(heap_mem_list', h)
                 i == FindEntry(heap_mem_list, h) IN
             (k = 0 <=> i = 0) /\ (i # 0 => heap_mem_list'[k] = heap_mem_list[i])
  BY <1>1, <1>3, <1>6, FindAfterAdd
<1>7. LET k == FindEntry(heap_mem_list', req[t].h) IN k # 0 /\ heap_mem_list'[k] = e
  BY <1>1, <1>3, FindAfterAdd
<1>8. EntryInv'
  <2> SUFFICES ASSUME NEW o \in live, o.op \in MemoryOps
               PROVE  /\ \A u \in Threads : Granted(u)' /\ req[u].h = o.h => o.size = req[u].size
                      /\ (\A u \in Threads : ~(Granted(u)' /\ req[u].h = o.h)) =>
                           Found(heap_mem_list', o.h, o.size)
    BY <1>1 DEF EntryInv, Found
  <2>1. \A u \in Threads : Granted(u)' /\ req[u].h = o.h => o.size = req[u].size
    BY <1>4, <1>5 DEF HeapInv, EntryInv
  <2>2. CASE o.h = req[t].h
    <3>1. o.size = req[t].size
      BY <1>2, <2>2 DEF HeapInv, EntryInv
    <3>2. Found(heap_mem_list', o.h, o.size)
      BY <1>3, <1>7, <2>2, <3>1 DEF Found
    <3> QED BY <2>1, <3>2
  <2>3. CASE o.h # req[t].h
    <3>1. ASSUME \A u \in Threads : ~(Granted(u)' /\ req[u].h = o.h)
          PROVE  Found(heap_mem_list', o.h, o.size)
      <4>1. \A u \in Threads : ~(Granted(u) /\ req[u].h = o.h)
        BY <1>5, <2>3, <3>1
      <4>2. Found(heap_mem_list, o.h, o.size)
        BY <4>1 DEF HeapInv, EntryInv
      <4> QED BY <1>6, <2>3, <4>2 DEF Found
    <3> QED BY <2>1, <3>1
  <2> QED BY <2>2, <2>3
<1>9. ReleaseInv'
  <2> SUFFICES ASSUME NEW u \in Threads, Released(u)' PROVE FindEntry(heap_mem_list', req[u].h) # 0
    BY <1>1 DEF ReleaseInv
  <2>1. FindEntry(heap_mem_list, req[u].h) # 0
    BY <1>4, <1>5 DEF HeapInv, ReleaseInv
  <2>2. CASE req[u].h = req[t].h
    BY <1>7, <2>2
  <2>3. CASE req[u].h # req[t].h
    BY <1>6, <2>1, <2>3
  <2> QED BY <2>2, <2>3
<1> QED BY <1>8, <1>9

\* free_heap_page removes the first entry of the handle, which no object has
\* any more, and no other call is about.
LEMMA HeapCredit ==
  ASSUME IndInv, DeviceInv, HeapInv, NEW t \in Threads, CreditEnd(t), Released(t)
  PROVE  EntryInv' /\ ReleaseInv'
<1> USE DEF IndInv, TypeOK
<1> DEFINE n == FindEntry(heap_mem_list, req[t].h)
<1>1. n # 0 /\ EntryAfterLoop(heap_mem_list, req[t].h) = n
  BY DEF HeapInv, ReleaseInv, EntryAfterLoop
<1>2. n \in 1 .. Len(heap_mem_list) /\ heap_mem_list[n].object = req[t].h
  <2>1. FirstAt(heap_mem_list, req[t].h, n)
    BY FindIsFirst
  <2> QED BY <1>1, <2>1 DEF FirstAt
<1>3. /\ heap_mem_list' = RemoveAt(heap_mem_list, n) /\ Return(t) /\ live' = live
      /\ pc[t] = "store" /\ req[t].op = "free"
  BY <1>1 DEF CreditEnd
<1>4. /\ ~Granted(t) /\ ~Granted(t)' /\ ~Released(t)'
      /\ \A u \in Threads \ {t} : pc'[u] = pc[u] /\ req'[u] = req[u]
  BY <1>3 DEF Return, Granted, Released, MemoryOps
<1>5. ASSUME NEW u \in Threads \ {t}
      PROVE  (Granted(u)' <=> Granted(u)) /\ (Released(u)' <=> Released(u))
             /\ (Released(u) => req[u].h # req[t].h)
  <2>1. t \in InFlight /\ (Released(u) => u \in InFlight)
    BY <1>3 DEF InFlight, Released
  <2> QED BY <1>3, <1>4, <2>1 DEF Granted, Released, DeviceInv, ApartInv, Frees
<1>6. \A o \in live : o.h # req[t].h
  <2>1. t \in InFlight /\ req[t].h # Root /\ req[t].status = "ok"
    BY <1>3 DEF InFlight, Released, DeviceInv, ShapeInv
  <2> QED BY <1>3, <2>1 DEF DeviceInv, GoingInv
<1>7. ASSUME NEW h, h # req[t].h
      PROVE  LET k == FindEntry(heap_mem_list', h)
                 i == FindEntry(heap_mem_list, h) IN
             (k = 0 <=> i = 0) /\ (i # 0 => heap_mem_list'[k] = heap_mem_list[i])
  BY <1>2, <1>3, <1>7, FindAfterDel
<1> HIDE DEF n
<1>8. EntryInv'
  <2> SUFFICES ASSUME NEW o \in live, o.op \in MemoryOps
               PROVE  /\ \A u \in Threads : Granted(u)' /\ req'[u].h = o.h => o.size = req'[u].size
                      /\ (\A u \in Threads : ~(Granted(u)' /\ req'[u].h = o.h)) =>
                           Found(heap_mem_list', o.h, o.size)
    BY <1>3 DEF EntryInv, Found
  <2>1. \A u \in Threads : (Granted(u)' /\ req'[u].h = o.h) <=> (Granted(u) /\ req[u].h = o.h)
    BY <1>4, <1>5
  <2>2. \A u \in Threads : Granted(u)' => req'[u] = req[u]
    BY <1>4
  <2>3. ASSUME Found(heap_mem_list, o.h, o.size) PROVE Found(heap_mem_list', o.h, o.size)
    BY <1>6, <1>7, <2>3 DEF Found
  <2> QED BY <2>1, <2>2, <2>3 DEF HeapInv, EntryInv
<1>9. ReleaseInv'
  BY <1>4, <1>5, <1>7 DEF HeapInv, ReleaseInv
<1> QED BY <1>8, <1>9

\* Every step keeps HeapInv.
LEMMA HeapStep ==
  ASSUME TidyWorkload, IndInv, DeviceInv, HeapInv, [Next]_vars
  PROVE  HeapInv'
<1> USE DEF IndInv, TypeOK
<1>1. TidyInv'
  BY TidyStep DEF HeapInv
<1>2. CASE UNCHANGED vars
  <2>1. EntryInv' /\ ReleaseInv'
    BY <1>2 DEF vars, HeapInv, EntryInv, ReleaseInv, Found, Granted, Released
  <2> QED BY <1>1, <2>1 DEF HeapInv
<1>3. ASSUME NEW t \in Threads, Call(t) \/ Step(t) PROVE EntryInv' /\ ReleaseInv'
  <2>1. CASE Call(t)
    <3>1. /\ UNCHANGED <<heap_mem_list, live>> /\ pc[t] = "idle" /\ pc'[t] = "pre"
          /\ \A u \in Threads \ {t} : pc'[u] = pc[u] /\ req'[u] = req[u]
      BY <2>1 DEF Call, Goto
    <3>2. ~Granted(t) /\ ~Granted(t)' /\ ~Released(t)'
      BY <3>1 DEF Granted, Released
    <3> QED BY <3>1, <3>2, HeapQuiet DEF HeapInv
  <2>2. CASE KernelRefuse(t)
    <3>1. /\ UNCHANGED <<heap_mem_list, live>> /\ pc[t] = "kernel" /\ req'[t].status = "failed"
          /\ \A u \in Threads \ {t} : pc'[u] = pc[u] /\ req'[u] = req[u]
      BY <2>2 DEF KernelRefuse, Goto, Request
    <3>2. ~Granted(t) /\ ~Granted(t)' /\ ~Released(t)'
      BY <3>1 DEF Granted, Released
    <3> QED BY <3>1, <3>2, HeapQuiet DEF HeapInv
  <2>3. CASE PreSkip(t) \/ PreAdmit(t) \/ KernelOther(t) \/ PostLock(t) \/ CreditBegin(t)
    <3>1. UNCHANGED <<heap_mem_list, live, req>> /\ \A u \in Threads \ {t} : pc'[u] = pc[u]
      BY <2>3 DEF PreSkip, PreAdmit, KernelOther, PostLock, CreditBegin, Goto
    <3>2. (Granted(t)' <=> Granted(t)) /\ (Released(t)' <=> Released(t))
      <4>1. CASE PreSkip(t) \/ PreAdmit(t)
        BY <4>1 DEF PreSkip, PreAdmit, Goto, Granted, Released
      <4>2. CASE KernelOther(t)
        BY <4>2 DEF KernelOther, Goto, Granted, Released, MemoryOps
      <4>3. CASE PostLock(t)
        BY <4>3 DEF PostLock, Goto, Granted, Released
      <4>4. CASE CreditBegin(t)
        BY <4>4 DEF CreditBegin, Goto, Granted, Released, MemoryOps
      <4> QED BY <2>3, <4>1, <4>2, <4>3, <4>4
    <3> QED BY <3>1, <3>2, HeapKeeps DEF HeapInv
  <2>4. CASE \/ PreDeny(t) \/ KernelError(t) \/ PostReturn(t) \/ ChargeEnd(t) \/ CreditNone(t)
             \/ FreeDevice(t) \/ AddDevice(t) \/ AddSubdevice(t) \/ ControlLookup(t)
    <3>1. Return(t) /\ UNCHANGED <<heap_mem_list, live>>
      BY <2>4 DEF PreDeny, KernelError, PostReturn, ChargeEnd, CreditNone, FreeDevice, AddDevice,
                  AddSubdevice, ControlLookup
    <3>2. pc'[t] = "idle" /\ \A u \in Threads \ {t} : pc'[u] = pc[u] /\ req'[u] = req[u]
      BY <3>1 DEF Return
    <3>3. ~Granted(t)
      <4>1. CASE PreDeny(t) \/ KernelError(t) \/ ChargeEnd(t)
        BY <4>1 DEF PreDeny, KernelError, ChargeEnd, Granted
      <4>2. CASE PostReturn(t)
        <5>1. pc[t] = "post" /\ ~PostLocks(req[t])
          BY <4>2 DEF PostReturn
        <5>2. t \in InFlight
          BY <5>1 DEF InFlight
        <5> QED BY <5>1, <5>2 DEF PostLocks, Granted, MemoryOps, HeapInv, TidyInv
      <4>3. CASE \/ CreditNone(t) \/ FreeDevice(t) \/ AddDevice(t) \/ AddSubdevice(t)
                 \/ ControlLookup(t)
        BY <4>3 DEF CreditNone, FreeDevice, AddDevice, AddSubdevice, ControlLookup, Granted, MemoryOps
      <4> QED BY <2>4, <4>1, <4>2, <4>3
    <3>4. ~Granted(t)' /\ ~Released(t)'
      BY <3>2 DEF Granted, Released
    <3> QED BY <3>1, <3>2, <3>3, <3>4, HeapQuiet DEF HeapInv
  <2>5. CASE CreditEnd(t)
    <3>1. pc[t] = "store" /\ req[t].op = "free" /\ t \in InFlight /\ InCrit(t)
      BY <2>5 DEF CreditEnd, InFlight, InCrit
    <3>2. req[t].status = "ok" /\ req[t].h # Root
      BY <3>1 DEF DeviceInv, ShapeInv, PostLocks
    <3>3. req[t].parent # Root
      BY <3>1 DEF HeapInv, TidyInv
    <3> QED BY <2>5, <3>1, <3>2, <3>3, HeapCredit DEF Released
  <2>6. ~ChargeNoMemory(t)
    BY DEF ChargeNoMemory, TidyWorkload
  <2> QED BY <1>3, <2>1, <2>2, <2>3, <2>4, <2>5, <2>6, HeapKernelAlloc, HeapKernelFree, HeapCharge
          DEF Step, Kernel
<1> QED BY <1>1, <1>2, <1>3 DEF Next, HeapInv

\* Memory the driver holds is found under its handle with its size, for any
\* number of threads, handles, sizes and limit, after the limit has been
\* exceeded, too, if the workload is tidy: whichever interleaving, a free
\* credits what its allocation was charged.
THEOREM MemoryFound ==
  ASSUME TidyWorkload
  PROVE  Spec => []HeapListFaithful
<1>1. Init => DeviceInv /\ HeapInv
  BY DEF Init, DeviceInv, ShapeInv, ApartInv, TreeInv, ComingInv, GoingInv, MapInv, InFlight, Known,
         HeapInv, TidyInv, EntryInv, ReleaseInv, Released
<1>2. IndInv /\ DeviceInv /\ [Next]_vars => DeviceInv'
  BY DeviceStep DEF TidyWorkload
<1>3. IndInv /\ DeviceInv /\ HeapInv /\ [Next]_vars => HeapInv'
  BY HeapStep
<1>4. HeapInv => HeapListFaithful
  BY DEF HeapInv, EntryInv, HeapListFaithful, Found, Granted, InFlight
<1> QED BY <1>1, <1>2, <1>3, <1>4, IndInvAlways, PTL DEF Spec

=============================================================================
