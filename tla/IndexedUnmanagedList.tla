------------------------- MODULE IndexedUnmanagedList -------------------------
(***************************************************************************)
(* The two intrusive lists of IndexedUnmanagedList.h, as operators on one  *)
(* record: nodes 0, 1, ... lie in pages of NodesPerPage, every node has    *)
(* the links `next` and `prev` and the flag `allocated`, and `free` and    *)
(* `used` are freeHead_ and allocatedHead_.                                *)
(***************************************************************************)
EXTENDS Naturals, FiniteSets

CONSTANTS NodesPerPage,
          NullNode       \* nullptr

ASSUME NodeAssumption == NodesPerPage \in Nat \ {0} /\ NullNode \notin Nat

EmptyList == [next |-> <<>>, prev |-> <<>>, allocated |-> <<>>,
              free |-> NullNode, used |-> NullNode]

Nodes(list) == DOMAIN list.allocated
Allocated(list) == {i \in Nodes(list) : list.allocated[i]}

\* links with the link of `node` set, unless it is nullptr.
SetLink(links, node, value) ==
    IF node = NullNode THEN links ELSE [links EXCEPT ![node] = value]

\* A page whose nodes are linked in their order, in front of `rest`.
ExtendPage(list, rest) ==
    LET first == Cardinality(Nodes(list))
        last == first + NodesPerPage - 1
        Extend(f, New(_)) ==
            [i \in 0..last |-> IF i < first THEN f[i] ELSE New(i)]
        NextOf(i) == IF i = last THEN rest ELSE i + 1
        PrevOf(i) == IF i = first THEN NullNode ELSE i - 1
        NotAllocated(i) == FALSE
    IN [list EXCEPT
           !.next = Extend(@, NextOf),
           !.prev = SetLink(Extend(@, PrevOf), rest, last),
           !.allocated = Extend(@, NotAllocated),
           !.free = first]

\* The list of Create, with a page more if no node is free, ...
WithFreeNode(list) ==
    IF list.free = NullNode THEN ExtendPage(list, NullNode) ELSE list

\* ... the index it returns ...
CreatedIndex(list) == WithFreeNode(list).free

\* ... and what it does: the head of the free list becomes the head of the
\* allocated one.
Create(list) ==
    LET l == WithFreeNode(list)
        node == l.free
        free == l.next[node]
    IN [next |-> [l.next EXCEPT ![node] = l.used],
        prev |-> SetLink([SetLink(l.prev, free, NullNode)
                             EXCEPT ![node] = NullNode], l.used, node),
        allocated |-> [l.allocated EXCEPT ![node] = TRUE],
        free |-> free, used |-> node]

\* Mutant: the successor keeps its Prev.
MoveKeepingSuccessor(list, i, from, to, allocated) ==
    LET next == SetLink(list.next, list.prev[i], list.next[i])
        head == IF list.prev[i] = NullNode THEN list.next[i] ELSE list[from]
    IN [list EXCEPT
           !.next = [next EXCEPT ![i] = list[to]],
           !.prev = SetLink(@, list[to], i),
           !.allocated[i] = allocated,
           ![from] = head,
           ![to] = i]

\* Node i leaves the list `from` and becomes the head of the list `to`.  Its
\* own Prev stays as it was.
Move(list, i, from, to, allocated) ==
    LET before == list.prev[i]
        after == list.next[i]
        next == SetLink(list.next, before, after)
        head == IF before = NullNode THEN after ELSE list[from]
    IN [list EXCEPT
           !.next = [next EXCEPT ![i] = list[to]],
           !.prev = SetLink(SetLink(@, after, before), list[to], i),
           !.allocated[i] = allocated,
           ![from] = head,
           ![to] = i]

\* Pages are added in front of the free list until there is a node i.
WithNode(list, i) ==
    LET grown[pages \in 0..i + 1] ==
            IF pages = 0 THEN list
            ELSE IF i \in Nodes(grown[pages - 1]) THEN grown[pages - 1]
            ELSE ExtendPage(grown[pages - 1], grown[pages - 1].free)
    IN grown[i + 1]

\* CreateAt does not take a node that is allocated, and returns nullptr.
CreateAt(list, i) ==
    LET l == WithNode(list, i)
    IN IF l.allocated[i] THEN l ELSE Move(l, i, "free", "used", TRUE)

Get(list, i) == i \in Nodes(list) /\ list.allocated[i]

Erase(list, i) ==
    IF Get(list, i) THEN Move(list, i, "used", "free", FALSE) ELSE list

\* The first nodes an iteration from `head` meets, and whether it ends there.
Chain(list, head, length) ==
    LET at[k \in 0..length] ==
            IF k = 0 THEN head
            ELSE IF at[k - 1] = NullNode THEN NullNode ELSE list.next[at[k - 1]]
    IN at

\* From `head` on, the list visits every node of S once and then ends.
Visits(list, head, S) ==
    LET chain == Chain(list, head, Cardinality(S))
    IN /\ chain[Cardinality(S)] = NullNode
       /\ {chain[k] : k \in 0..Cardinality(S)} \ {NullNode} = S
=============================================================================
