------------------------------ MODULE ListSeq ------------------------------
(***************************************************************************)
(* What the list routines of src/include/list.h promise: every head stands *)
(* for a sequence of entries, no entry is on two lists, and a routine does *)
(* to the sequences what its comment says.  IoctlHook keeps the two lists  *)
(* of gpu_device_t as sequences of this kind.                              *)
(***************************************************************************)
EXTENDS Sequences, SequencesExt, Naturals

CONSTANTS Heads, Entries

VARIABLE lists                \* head -> the sequence of its entries

Off(e) == \A h \in Heads : ~Contains(lists[h], e)

Position(e, h) == CHOOSE i \in DOMAIN lists[h] : lists[h][i] = e

Without(e) ==
    [h \in Heads |-> IF Contains(lists[h], e) THEN RemoveAt(lists[h], Position(e, h)) ELSE lists[h]]

Init == lists = [h \in Heads |-> <<>>]

Push(e, h) == Off(e) /\ lists' = [lists EXCEPT ![h] = <<e>> \o @]

Append1(e, h) == Off(e) /\ lists' = [lists EXCEPT ![h] = Append(@, e)]

Drop(e) == ~Off(e) /\ lists' = Without(e)

Exchange(old, new) ==
    /\ ~Off(old) /\ Off(new)
    /\ lists' = [h \in Heads |->
                   [i \in DOMAIN lists[h] |-> IF lists[h][i] = old THEN new ELSE lists[h][i]]]

MoveFront(e, h) == ~Off(e) /\ lists' = [Without(e) EXCEPT ![h] = <<e>> \o @]

MoveBack(e, h) == ~Off(e) /\ lists' = [Without(e) EXCEPT ![h] = Append(@, e)]

\* The first n entries of h become the list of g, which had none.
Cut(g, h, n) ==
    /\ g # h /\ lists[g] = <<>> /\ n \in 0 .. Len(lists[h])
    /\ lists' = [lists EXCEPT ![g] = SubSeq(lists[h], 1, n),
                              ![h] = SubSeq(lists[h], n + 1, Len(lists[h]))]

\* All entries of g join h, in front or at the end.
JoinFront(g, h) == g # h /\ lists' = [lists EXCEPT ![g] = <<>>, ![h] = lists[g] \o @]

JoinBack(g, h) == g # h /\ lists' = [lists EXCEPT ![g] = <<>>, ![h] = @ \o lists[g]]

Next ==
    \/ \E e \in Entries, h \in Heads :
         Push(e, h) \/ Append1(e, h) \/ MoveFront(e, h) \/ MoveBack(e, h)
    \/ \E e \in Entries : Drop(e)
    \/ \E old, new \in Entries : Exchange(old, new)
    \/ \E g, h \in Heads :
         JoinFront(g, h) \/ JoinBack(g, h) \/ \E n \in 0 .. Len(lists[h]) : Cut(g, h, n)

Spec == Init /\ [][Next]_lists
=============================================================================
