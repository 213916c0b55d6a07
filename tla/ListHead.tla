------------------------------ MODULE ListHead ------------------------------
(***************************************************************************)
(* The doubly linked lists of src/include/list.h on the level of pointers. *)
(* Every routine is a function from the memory before it to the memory     *)
(* after it, its stores in the order of the source: several of them are    *)
(* right for an empty list only because of that order.  The callers follow *)
(* the comments of the header: an entry is on at most one list, and a head *)
(* that a routine leaves in an undefined state is initialised before it is *)
(* used again.                                                             *)
(***************************************************************************)
EXTENDS Naturals, Sequences, SequencesExt, FiniteSets

CONSTANTS Heads,              \* list heads, as gpu_device.heap_mem_list
          Entries,            \* embedded nodes, as device_mem_t.node
          NULL, LIST_POISON1, LIST_POISON2

Nodes == Heads \cup Entries

ASSUME ListConstantsOK ==
    /\ IsFiniteSet(Entries) /\ Heads \cap Entries = {}
    /\ Nodes \cap {NULL, LIST_POISON1, LIST_POISON2} = {}

VARIABLES mem,                \* the next and prev members of all nodes
          undef,              \* heads whose members mean nothing
          walk                \* the loop in progress, or NoWalk

vars == <<mem, undef, walk>>

NoWalk == [dir |-> "none"]

(***************************************************************************)
(* The routines.                                                           *)
(***************************************************************************)
SetNext(m, p, v) == [m EXCEPT !.next[p] = v]
SetPrev(m, p, v) == [m EXCEPT !.prev[p] = v]

INIT_LIST_HEAD(m, list) == SetPrev(SetNext(m, list, list), list, list)

__list_add(m, new, prev, next) ==
    SetNext(SetPrev(SetNext(SetPrev(m, next, new), new, next), new, prev), prev, new)

list_add(m, new, head) == __list_add(m, new, head, m.next[head])

\* Mutant: the entry is inserted in front.
list_add_tail_front(m, new, head) == __list_add(m, new, head, m.next[head])

list_add_tail(m, new, head) == __list_add(m, new, m.prev[head], head)

\* Mutant: the store to next->prev is missing.
__list_del_forward(m, prev, next) == SetNext(m, prev, next)

\* Mutant: the store to prev->next is missing.
__list_del_backward(m, prev, next) == SetPrev(m, next, prev)

__list_del(m, prev, next) == SetNext(SetPrev(m, next, prev), prev, next)

__list_del_entry(m, entry) == __list_del(m, m.prev[entry], m.next[entry])

list_del(m, entry) ==
    SetPrev(SetNext(__list_del_entry(m, entry), entry, LIST_POISON1), entry, LIST_POISON2)

list_replace(m, old, new) ==
    LET m1 == SetNext(m, new, m.next[old])
        m2 == SetPrev(m1, m1.next[new], new)
        m3 == SetPrev(m2, new, m2.prev[old])
    IN  SetNext(m3, m3.prev[new], new)

list_replace_init(m, old, new) == INIT_LIST_HEAD(list_replace(m, old, new), old)

list_del_init(m, entry) == INIT_LIST_HEAD(__list_del_entry(m, entry), entry)

list_move(m, list, head) == list_add(__list_del_entry(m, list), list, head)

list_move_tail(m, list, head) == list_add_tail(__list_del_entry(m, list), list, head)

list_is_last(m, list, head) == m.next[list] = head

list_empty(m, head) == m.next[head] = head

list_empty_careful(m, head) == m.next[head] = head /\ m.next[head] = m.prev[head]

list_rotate_left(m, head) ==
    IF list_empty(m, head) THEN m ELSE list_move_tail(m, m.next[head], head)

\* Mutant: the empty list is taken for one of one entry.
list_is_singular_ring(m, head) == m.next[head] = m.prev[head]

list_is_singular(m, head) == ~list_empty(m, head) /\ m.next[head] = m.prev[head]

__list_cut_position(m, list, head, entry) ==
    LET m1 == SetNext(m, list, m.next[head])
        m2 == SetPrev(m1, m1.next[list], list)
        m3 == SetNext(SetPrev(m2, list, entry), entry, list)
    IN  SetPrev(SetNext(m3, head, m.next[entry]), m.next[entry], head)

\* The early returns of list_cut_position, which leave the target as it was.
CutReturns(m, head, entry) ==
    \/ list_empty(m, head)
    \/ list_is_singular(m, head) /\ entry \notin {head, m.next[head]}

list_cut_position(m, list, head, entry) ==
    CASE CutReturns(m, head, entry) -> m
      [] ~CutReturns(m, head, entry) /\ entry = head -> INIT_LIST_HEAD(m, list)
      [] OTHER -> __list_cut_position(m, list, head, entry)

__list_splice(m, list, prev, next) ==
    LET first == m.next[list]
        last  == m.prev[list]
    IN  SetPrev(SetNext(SetNext(SetPrev(m, first, prev), prev, first), last, next), next, last)

list_splice(m, list, head) ==
    IF list_empty(m, list) THEN m ELSE __list_splice(m, list, head, m.next[head])

list_splice_tail(m, list, head) ==
    IF list_empty(m, list) THEN m ELSE __list_splice(m, list, m.prev[head], head)

list_splice_init(m, list, head) ==
    IF list_empty(m, list) THEN m ELSE INIT_LIST_HEAD(list_splice(m, list, head), list)

list_splice_tail_init(m, list, head) ==
    IF list_empty(m, list) THEN m ELSE INIT_LIST_HEAD(list_splice_tail(m, list, head), list)

(***************************************************************************)
(* The nodes a loop over head visits; one that does not come back to head  *)
(* is cut off at one node more than there are entries.                     *)
(***************************************************************************)
MaxTurns == Cardinality(Entries) + 1

\* Where the loop is at each of its turns; back at the head it is over.
Path(link, head) ==
    LET at[k \in 1 .. MaxTurns] ==
            IF k = 1 THEN link[head]
            ELSE IF at[k - 1] \in Nodes \ {head} THEN link[at[k - 1]] ELSE at[k - 1]
    IN  at

Visited(link, head) ==
    LET at == Path(link, head)
        ends == {k \in 1 .. MaxTurns : at[k] = head}
        len == IF ends = {} THEN MaxTurns ELSE Min(ends) - 1
    IN  [k \in 1 .. len |-> at[k]]

list_for_each(m, head) == Visited(m.next, head)

list_for_each_prev(m, head) == Visited(m.prev, head)

On(head) == IF head \in undef THEN {} ELSE ToSet(list_for_each(mem, head))

Listed == UNION {On(h) : h \in Heads}

(***************************************************************************)
(* The callers.                                                            *)
(***************************************************************************)
Init ==
    /\ mem = [next |-> [n \in Nodes |-> NULL], prev |-> [n \in Nodes |-> NULL]]
    /\ undef = Heads
    /\ walk = NoWalk

Ready == Heads \ undef

\* One routine runs, no loop being in progress.
Does(m, u) == walk = NoWalk /\ mem' = m /\ undef' = u /\ UNCHANGED walk

InitHead(h) == h \in undef /\ Does(INIT_LIST_HEAD(mem, h), undef \ {h})

AddHead(e, h) == e \notin Listed /\ h \in Ready /\ Does(list_add(mem, e, h), undef)

AddTail(e, h) == e \notin Listed /\ h \in Ready /\ Does(list_add_tail(mem, e, h), undef)

Del(e) ==
    /\ e \in Listed
    /\ \E m \in {list_del(mem, e), list_del_init(mem, e)} : Does(m, undef)

Replace(old, new) ==
    /\ old \in Listed /\ new \notin Listed
    /\ \E m \in {list_replace(mem, old, new), list_replace_init(mem, old, new)} : Does(m, undef)

MoveHead(e, h) == e \in Listed /\ h \in Ready /\ Does(list_move(mem, e, h), undef)

MoveTail(e, h) == e \in Listed /\ h \in Ready /\ Does(list_move_tail(mem, e, h), undef)

\* "If @old was empty, it will be overwritten": a new head takes a list over.
ReplaceHead(old, new) ==
    /\ old \in Ready /\ new \in undef
    /\ \/ Does(list_replace(mem, old, new), (undef \ {new}) \cup {old})
       \/ Does(list_replace_init(mem, old, new), undef \ {new})

Rotate(h) == h \in Ready /\ Does(list_rotate_left(mem, h), undef)

Cut(list, head, entry) ==
    /\ head \in Ready /\ head # list /\ On(list) = {}
    /\ entry \in On(head) \cup {head}
    /\ Does(list_cut_position(mem, list, head, entry),
            IF CutReturns(mem, head, entry) THEN undef ELSE undef \ {list})

\* Without the _init suffix the emptied list is left undefined.
Emptied(list) == IF list_empty(mem, list) THEN undef ELSE undef \cup {list}

SpliceHead(list, head) ==
    /\ {list, head} \subseteq Ready /\ list # head
    /\ \/ Does(list_splice_init(mem, list, head), undef)
       \/ Does(list_splice(mem, list, head), Emptied(list))

SpliceTail(list, head) ==
    /\ {list, head} \subseteq Ready /\ list # head
    /\ \/ Does(list_splice_tail_init(mem, list, head), undef)
       \/ Does(list_splice_tail(mem, list, head), Emptied(list))

(***************************************************************************)
(* The loops that are safe against removal of the current entry: forward   *)
(* or backward, from the head, from an entry on or from its neighbour.     *)
(***************************************************************************)
From(seq, p) == LET i == CHOOSE i \in DOMAIN seq : seq[i] = p IN SubSeq(seq, i, Len(seq))

WalkBegin(head, dir, start) ==
    /\ walk = NoWalk
    /\ head \in Ready
    /\ start \in On(head) \cup {mem[dir][p] : p \in On(head) \cup {head}}
    /\ walk' = [dir |-> dir, head |-> head, pos |-> start, n |-> mem[dir][start],
                seen |-> <<>>,
                due |-> IF start = head THEN <<>> ELSE From(Visited(mem[dir], head), start)]
    /\ UNCHANGED <<mem, undef>>

\* Mutant: list_for_each, whose body must not remove the entry.
AdvanceUnsafe(m) ==
    LET following == m[walk.dir][walk.pos] IN
    [walk EXCEPT !.pos = following, !.n = following, !.seen = Append(@, walk.pos)]

\* pos = n, n = pos->next (or prev).
Advance(m) ==
    [walk EXCEPT !.pos = walk.n, !.n = m[walk.dir][walk.n], !.seen = Append(@, walk.pos)]

\* The body of the loop keeps the current entry, deletes it or moves it away.
WalkBody ==
    /\ walk # NoWalk /\ walk.pos # walk.head
    /\ \E m \in {mem, list_del(mem, walk.pos)} \cup
                {list_move(mem, walk.pos, h) : h \in Ready \ {walk.head}} :
         mem' = m /\ walk' = Advance(m)
    /\ UNCHANGED undef

WalkEnd == walk # NoWalk /\ walk.pos = walk.head /\ walk' = NoWalk /\ UNCHANGED <<mem, undef>>

Next ==
    \/ \E h \in Heads : InitHead(h) \/ Rotate(h)
    \/ \E e \in Entries : Del(e)
    \/ \E e \in Entries, h \in Heads :
         AddHead(e, h) \/ AddTail(e, h) \/ MoveHead(e, h) \/ MoveTail(e, h)
    \/ \E e, f \in Entries : Replace(e, f)
    \/ \E g, h \in Heads :
         \/ ReplaceHead(g, h)
         \/ SpliceHead(g, h) \/ SpliceTail(g, h)
         \/ \E e \in Nodes : Cut(g, h, e)
    \/ \E h \in Heads, dir \in {"next", "prev"}, p \in Nodes : WalkBegin(h, dir, p)
    \/ WalkBody
    \/ WalkEnd

Spec == Init /\ [][Next]_vars
-----------------------------------------------------------------------------
(***************************************************************************)
(* Every list read backwards is the list read forwards, reversed: no       *)
(* routine updates one direction of links and not the other, even when the *)
(* nodes it is given coincide because a list is empty or has one entry.    *)
(***************************************************************************)
Mirrored ==
    \A h \in Ready : list_for_each_prev(mem, h) = Reverse(list_for_each(mem, h))

(***************************************************************************)
(* list_empty, list_empty_careful, list_is_singular and list_is_last look  *)
(* at one or two links only; they agree with the whole list, entries that  *)
(* are on no list or on another one included.                              *)
(***************************************************************************)
TestsAgree ==
    \A h \in Ready :
      LET l == list_for_each(mem, h) IN
        /\ list_empty(mem, h) <=> l = <<>>
        /\ list_empty_careful(mem, h) <=> l = <<>>
        /\ list_is_singular(mem, h) <=> Len(l) = 1
        /\ \A e \in Listed : list_is_last(mem, e, h) <=> l # <<>> /\ Last(l) = e

(***************************************************************************)
(* A safe loop visits every entry it has to, once and in order, although   *)
(* its body removes entries or moves them to another list.                 *)
(***************************************************************************)
WalkVisitsAll ==
    walk # NoWalk =>
      LET k == Len(walk.seen) IN
        /\ IsPrefix(walk.seen, walk.due)
        /\ walk.pos = IF k < Len(walk.due) THEN walk.due[k + 1] ELSE walk.head

(***************************************************************************)
(* The routines implement lists of sequences: a head stands for the nodes  *)
(* list_for_each visits, an undefined head for no list.                    *)
(***************************************************************************)
Lists == [h \in Heads |-> IF h \in undef THEN <<>> ELSE list_for_each(mem, h)]

Seqs == INSTANCE ListSeq WITH lists <- Lists

RefinesSequences == Seqs!Spec

(***************************************************************************)
(* Each routine does what its own comment says: list_add is for stacks,    *)
(* list_add_tail for queues, and so on for every operand it may be given.  *)
(***************************************************************************)
AsPromised ==
    [][/\ \A e \in Entries, h \in Heads :
            /\ AddHead(e, h) => Seqs!Push(e, h)
            /\ AddTail(e, h) => Seqs!Append1(e, h)
            /\ MoveHead(e, h) => Seqs!MoveFront(e, h)
            /\ MoveTail(e, h) => Seqs!MoveBack(e, h)
       /\ \A g, h \in Heads :
            /\ SpliceHead(g, h) => Seqs!JoinFront(g, h)
            /\ SpliceTail(g, h) => Seqs!JoinBack(g, h)
            /\ \A e \in Nodes : Cut(g, h, e) =>
                 Seqs!Cut(g, h, IF e = h THEN 0 ELSE Seqs!Position(e, h))
      ]_vars
=============================================================================
