# embedlib: TLA+ models, checks and proofs

embedlib is a C library of containers for small devices. All of them live in
memory the caller supplies, allocate nothing, and are called from one thread.
This directory models every container in the library, checks the models with
TLC, and proves with TLAPS, for any number of items, objects and nodes, every
safety property the passing runs check: of the array containers, the packed node words
and both red-black trees, and of the clients that go beyond what the headers
regulate.

## 1. The system

| Component | Source | State | Operations |
|---|---|---|---|
| array queue | `array_utils/array_queue.h` | ring buffer, `aq_size`, `aq_front`, `aq_back`, `aq_len` of a width the user picks (8, 16 or 32 bits); an iterator is a pointer into the buffer | init, enqueue, dequeue (each with and without a return value), front, iterate, remove the item under the iterator |
| array map | `array_utils/array_map.h` 267-446 | array of values sorted by key, `am_size`, `am_len` | init, clear, insert, remove, find; binary search |
| array map pool | `array_utils/array_map.h` 58-248 | array of object pointers, the first `amp_len` handed out and sorted by key, the rest free | init, clear, get, free, find; the client supplies an initializer, a finalizer and a comparison |
| red-black tree | `rbtree/rbtree.h`, `rbtree.c` | root; in each node two child links and one word with parent pointer and colour bit | insert, find, remove by key, `rb_remove` of a node, first/last/next/prev |
| compact red-black tree | `rbtree/rbtree_compact.h`, `rbtree_compact.c` | root; in each node two child links, one carrying the colour bit; no parent pointer, an `RB_PATH` stack for every call | as above; walks keep an `RB_PATH` owned by the client |
| tests, CMake, Doxygen | `test_*.c`, `CMakeLists.txt` | - | not modelled: no behaviour of the library |

The containers do not call each other. What crosses a boundary is a callback
(comparison, initializer, finalizer) and memory shared with the client: nodes
embedded in its structures, iterators into the queue's buffer, objects behind
the pool's pointers, the `RB_PATH` of a walk.

There is no concurrency, no message and no persistence here, so there is
nothing to crash, lose or reorder. What is hard is

- **long sequences of legal calls** that lead to states few tests build: rings
  that have wrapped and are full, trees deep enough for the fix-up of a removal
  to meet cases 1, 3 and 4 above the leaves, walks that change direction;
- **intermediate states of loops** that rewrite shared links or shift an array,
  where an invariant is suspended in one place and must hold elsewhere;
- **unchecked assumptions**: dereferences the code argues to be safe in a
  comment, a stack with no bounds check, `int` sums of array indexes, sizes
  narrowed to 8 bits;
- **termination** of loops that test for equality with an index or run until a
  pointer is NULL.

`PROJECT.json` lists the places one by one under `hazards`, with the
properties that watch each.

## 2. Modules

| Module | Models | Extends / instantiates |
|---|---|---|
| `BoundedFifo` | abstract: what the queue promises | |
| `ArrayQueue` | `array_queue.h` | refines `BoundedFifo` |
| `ArrayQueueProofs` | ring invariant, refinement and held iterators, proved | `QueueIterators`, TLAPS |
| `BoundedMap` | abstract: what the map promises | |
| `ArrayMap` | the map of `array_map.h` | refines `BoundedMap` |
| `ArrayMapProofs` | invariants and refinement of `ArrayMap`, proved | `ArrayMap`, TLAPS |
| `ObjectPool` | abstract: what the pool promises | |
| `ArrayMapPool` | the pool of `array_map.h` | refines `ObjectPool` |
| `ArrayMapPoolProofs` | invariants and refinement of `ArrayMapPool`, and callbacks, proved | `PoolCallbacks`, TLAPS |
| `OrderedSet` | abstract: what both trees promise | |
| `RbNode` | the nodes and accessors the two trees share | |
| `NodeWord` | the words behind those accessors, colour bit and pointer in one | refines `RbNode`'s accessors |
| `NodeWordProofs` | the words behave like separate fields, proved | `NodeWord`, TLAPS |
| `NatRecursion` | induction and recursive functions over Nat, in a form the provers can use | TLAPS |
| `RbNodeProofs` | what link changes do to a red-black tree, for both trees | `RbNode`, `NatRecursion` |
| `RbTree` | `rbtree.h`, `rbtree.c` | `RbNode`; refines `OrderedSet` |
| `RbTreeProofs` | invariants and refinement of `RbTree`, proved | `RbTree`, `RbNodeProofs` |
| `RbTreeCompact` | `rbtree_compact.h`, `rbtree_compact.c` | `RbNode`; refines `OrderedSet` |
| `RbTreeCompactProofs` | invariants, stack bound and refinement of `RbTreeCompact`, and walks across inserts, proved | `CompactWalks`, `RbNodeProofs` |
| `QueueIterators` | a client that keeps a second queue iterator across dequeues and removals | `ArrayQueue` |
| `PoolCallbacks` | callbacks of the pool that call the pool | `ArrayMapPool`; refines `ObjectPool` |
| `CompactWalks` | a client with two walks that inserts in between | `RbTreeCompact` |
| `MCArrayMap`, `MCRbTree`, `MCRbTreeCompact`, `MCCompactWalks` | key assignments for TLC | |
| `MCRbTreeDrain`, `MCRbTreeCompactDrain` | a client that fills a tree in a given order and empties it in every order | |

Conventions shared by all of them:

- *Step size.* A macro without a loop is one action. In a function with loops
  the entry is one action (`Insert`, `Call`, `Find`, ...) and each turn of a
  loop is one (`InsertColor`, `RemoveColor`, `Bsearch`, `ShiftUp`, ...); straight
  code before, after and between loops belongs to the neighbouring step. `pc`
  says where the running call is, the locals that live across turns are
  variables, and the client acts only when `pc = "idle"` (in the queue, when
  `rm_i = NULL`). So the invariants see every intermediate state of every loop.
- *Memory.* A pointer is the node, object or slot it points at. Memory the
  library has not written yet is arbitrary (the queue's buffer, the pool's
  array in any order) or `NULL` where no code may look at it.
- *Client.* Inputs come from the sets in the `.cfg`. The client follows the
  headers' rules: it removes only nodes of the tree (but may insert one that is
  in it), compares an iterator with the end before using it, and gives up an
  iterator when it dequeues that item. Where the headers give no rule, three
  modules with a bolder client find out what it is (below). `linked` in the tree modules and `alive`
  in the pool are ledgers of the client's and exist only for the properties.
- *Mutants.* A definition marked "Mutant" is a plausible mistake in the
  definition that follows it. No specification uses it; it serves to show that
  the properties notice.

How the modules correspond to the code, beyond what the names say:

**ArrayQueue.** `Store(n)` is assignment to a `size_type` field, so
`ARRAY_QUEUE_INIT` narrows the size as the C does. `Inc` is
`(i + 1) % aq_size`. `ARRAY_QUEUE_ITER_REMOVE` is the entry and the branch for
the last item, `IterRemoveShift` one turn of its do-while, `RemoveEnd` the
assignments after it. `want` tells the `_RET` macros from the others.

**ArrayMap, ArrayMapPool.** `Call` starts a search, `Bsearch` is one turn of it,
`Found`/`NotFound` what the calling function does with the answer, up to the
shifting loop. `ToUint`/`ToInt` are the conversions between `uint32_t` and
`int`; in an empty map `am_len - 1` becomes -1 through them. Initializer and
finalizer are external: they store the key and erase it.

**RbTree.** `tree` is the memory as one record, and the accessors and
`rb_rotate` are functions from tree to tree, composed in the order of the
assignments in the C. `rb_insert_color` is `InsertColor` with the cases as
`InsertCase1` and `InsertCase23`; `rb_remove` is `RbRemove`, `Successor` (the
search for the successor, then `Transplant`) and `RemoveColor`. A node that
leaves the tree is the client's; `Poison` fills it with self-links and paints it
black, as all nodes are to begin with, so a step that still follows the links is
caught, and so is an insertion that forgets to overwrite links or colour.

**RbTreeCompact.** `rp` is the `RB_PATH` of the running call or of the client's
walk, a sequence of node and direction entries; `at` is the node the client's
one stands at. The rewriting of the stack in case 1 of `rb_remove_color` is
`PathCase1`, the entry that `rb_remove` rewrites when a successor moves up is
`NodeEntry`. The direction `RB_PATH_INIT` leaves uninitialised is `NULL`, which
is no direction: `rb_remove` copies it, and a step that let it choose a child
would be an evaluation error in TLC. No step does.

**RbNode, NodeWord.** The headers keep the colour in the lowest bit of
`rb_parent_color`, or of the left word of `rb_child_color`. The trees are
modelled with a pointer and a colour field; `RbNode` has an accessor per
function of the headers. `NodeWord` has the same accessors with the masks and
ors of the C, on words that start as anything, and compares what the getters
see with `RbNode`. It assumes even addresses, as the code silently does.

**Bolder clients.** Each is the base module plus a variable or two that the
library cannot see.

- `QueueIterators`: `held` is a copy of an iterator, `owed` (a history
  variable) the items its walk has still to deliver. The rule it establishes:
  such an iterator survives the dequeue of its own item but not a second
  dequeue, nor the enqueue that fills the ring and so reuses its slot; a
  removal at its item or before it moves it on by one item, and if there is none it is
  lost. Dropping any of the three conditions makes `HeldWalk` fail.
- `PoolCallbacks`: `frame` is the C stack frame of the get or free that waits
  while its callback calls the pool. The nested calls are the ones that leave
  the pool as it is; others would make the waiting `index` and `new_item`
  stale, and `array_map.h` promises nothing about them. Nor does it model a
  finalizer that erases the key first and calls the pool then: the search would
  hand the client's comparison an object without a key.
- `CompactWalks`: `walk` and `wat` are a second `RB_PATH`. An insert that
  rotates down a node on that stack makes it `stale`; with `Cautious` the client
  does not use it again.

## 3. What TLC checks

All runs use breadth-first search without symmetry. Counts are distinct states.

| Run | Instance | States | What it shows |
|---|---|---|---|
| `queue` | 2 values, 5 slots, `size_type` that counts to 4, two iterators | 122,880 | `TypeOK`, `RingInv`, refinement of `BoundedFifo`, that removal ends, and how long a second iterator can be kept |
| `map` | 6 values (two with one key), 4 slots, `INT_MAX` = 7 | 619,761 | order, search window, no `int` overflow, refinement of `BoundedMap`, every call returns |
| `pool` | 4 objects, 4 keys, `INT_MAX` = 7 | 539,160 | no object lost or listed twice, order, search window, no `int` overflow, refinement of `ObjectPool`, every call returns |
| `pool_callbacks` | 3 objects, 4 keys, `INT_MAX` = 5 | 223,728 | nested calls answer right, and the waiting call still refines `ObjectPool` |
| `pool_clear` | 3 objects, 4 keys | - | a disagreement with the documentation, see below |
| `rbtree` | 9 nodes, two with one key | 341,438 | links, search order, colours in every turn of every loop, no NULL dereference, refinement of `OrderedSet`, every call returns |
| `rbtree_drain` | 14 nodes, filled ascending, emptied in every order | 1.3 million | links and colours where a removal climbs through all cases |
| `compact` | 9 nodes, two with one key | 362,683 | as `rbtree`, and the stack: it names the way from the root to the current node |
| `compact_drain` | 14 nodes, filled ascending, emptied in every order | 2.3 million | stack, its bound and colours where case 1 lengthens the path above the leaves |
| `compact_walks` | 8 nodes, two walks | 3.7 million | an `RB_PATH` survives inserts exactly until one rotates a node on it |
| `walk_after_insert` | 4 nodes, two walks | - | a disagreement with the documentation, see below |
| `node_word` | 2 nodes, 3-bit words | 4,160 | packed words behave like separate fields |

**Why the bounds are enough.**
Rings of up to four slots are empty, full and partly filled at every rotation
of `aq_front`, and see removals with zero to three turns of the loop; size 4 is
the largest the modelled `size_type` holds, and 5 narrows to a queue of size 0
that refuses everything. Two values suffice to tell lost, repeated and swapped
items apart, since every pattern of them is queued. `IntMax = 7`
with four slots is exactly the boundary `2 * BufLen = IntMax + 1`: one more slot
and the assumption fails. One more key, value or node than fits makes "full" and
"not there" happen. Nine nodes in every order of insertion and removal reach
every branch of both fix-up loops; but a removal that climbs to an *upper* level
and meets case 1 there needs a bigger tree: no tree filled in ascending order
with 13 or fewer nodes leads there, one with 14 does (and to cases 2, 3 and 4 on
upper levels), hence the drains with 14 nodes. In the drains the client is
restricted, the library code is not. `compact_walks` needs eight nodes: with
seven no insert climbs and then rotates on a walk's stack. The accessors of
`NodeWord` touch one node, or two in the copies, so two addresses suffice, and a
third bit tells them apart from NULL and from each other.

**Fairness.** `FairSpec` (`HeldSpec` in the queue run) adds weak fairness of the library's own steps: a call
that has started keeps running, because the code is sequential and nothing in
it waits. Nothing is assumed of the client, who may never call again. Only the
properties `RemoveReturns` and `CallReturns` need it.

**The properties.** Type invariants apart:

- `RingInv`: front, back and length describe one window of the ring, and live
  iterators, and the hole of a removal in progress, are inside it.
- `ImplementsFifo`, `ImplementsMap`, `ImplementsPool`, `ImplementsOrderedSet`:
  the container behaves like its abstract specification. Every call takes
  effect in one step of the abstract one; in the middle of a loop the mapping
  says what the container holds already.
- `Sorted`, `LiveSorted`, `SearchWindow`: array order in every turn of a shift,
  and that the binary search never discards the slot it is looking for.
- `PoolConserved`: the pool's array stays a one-to-one list of the objects.
- `NoIntOverflow`: `low + high` and all indexes stay in range.
- `TreeShape` (its parts: `Links`, `SearchOrder`), `ColorRules`: links agree in both directions (in
  the compact tree: every node is reached once), keys are ordered, red and black
  rules hold, with the one debt a running fix-up is working off stated exactly.
- `NoNullDereference`: the sibling and grandparent the fix-ups dereference
  unchecked are there, as the comment in `rbtree.c` argues.
- `PathMatches`, `PathBound`: the stack is the way from the root, and the number
  d of its entries above the bottom one, with the one case 1 of
  `rb_remove_color` pushes for the rest of its turn, satisfies
  2^d <= (n + 1)^2.
- `HeldWalk`: a held iterator delivers exactly the items it owes, each once and
  in order, and then ends.
- `CallbacksHarmless`: a call from a callback answers for the
  pool as it stands, and the waiting call does what `ObjectPool` says.
- `WalkSurvives`, `RotationRuinsWalk`: the rule for an `RB_PATH` kept across
  inserts, and that it is not stricter than need be. What a client that keeps to
  it can rely on is proved (section 4), what befalls one that does not is below.
- `WordsFaithful`: a setter changes the half of the
  word it names and keeps the other.
- `RemoveReturns`, `CallReturns`: every call returns.

**Two disagreements with the documentation.** `pool_clear` and
`walk_after_insert` expect a violation. `array_map.h` says the
pool "uses a initializer and a finalizer when allocating and deallocating a
object"; `ARRAY_MAP_POOL_CLEAR` gives all objects back by setting `amp_len` to 0
and calls no finalizer, so the next `get` initialises an object again that was
never finalised. `FinalizedBeforeReuse` states the sentence of the header, and
TLC's trace is get, clear, get.

`rbtree_compact.h` says `rb_next` returns "The node's successor in the tree, or
NULL if the node is the last node", and ends the use of an `RB_PATH` only for
`rb_remove`. `NextIsSuccessor` fails for a client that inserts during a walk:
insert 1 and 2, `rb_first`, insert 3 (which rotates 1 below 2), and `rb_next` of
1 returns NULL although 2 and 3 follow. In `rbtree.h` the same program works.

**What the runs say about limits.** The array map and pool are free of `int`
overflow up to `2 * BufLen <= INT_MAX + 1` entries; the header states no limit
and the length fields hold more. `RB_PATH` has `8 * sizeof(void *)` entries and
no push is checked; by `PathBound` it suffices while `(n + 1)^2 < 2^(8 *
sizeof(void *))`, so for fewer than 2^32 - 1 nodes with 64-bit pointers and
fewer than 2^16 - 1 with 32-bit ones; no limit is stated either.

## 4. What is proved

The theorems hold for every item type, key set, node set, buffer length and
integer width the assumptions admit. The assumptions, besides `NULL` differing
from every value it is compared with:

- queue: `BufLen` is a natural number, `size_type` has at least two values;
- map and pool: keys are integers and `2 * BufLen <= IntMax + 1`, without which
  `low + high` can overflow and the code is undefined;
- node words: the number of word values is even, addresses are even and not 0;
- trees: finitely many nodes, with integer keys (two nodes may have the same);
  in the compact tree `NULL` is no direction;
- the theorems about walks: `Cautious`, the client does not take up a stack on
  which an insert has rotated. Without it `NextIsSuccessor` is false.

TLC evaluates the named ASSUMEs on the constants of the runs.

| Theorem | Statement |
|---|---|
| `ArrayQueueProofs!TypeCorrect` | `Spec => []TypeOK`: indexes stay inside the caller's buffer, fields inside their width |
| `ArrayQueueProofs!RingSafe` | `Spec => []RingInv` |
| `ArrayQueueProofs!Refinement` | `Spec => ImplementsFifo` |
| `ArrayQueueProofs!HeldWalks`, `HeldRefinement` | `HeldSpec => []HeldWalk`, and the queue is still a FIFO with that client |
| `ArrayMapProofs!TypeCorrect`, `StaysSorted`, `SearchCorrect`, `NoOverflow` | `Spec => []TypeOK`, `[]Sorted`, `[]SearchWindow`, `[]NoIntOverflow` |
| `ArrayMapProofs!Refinement` | `Spec => ImplementsMap` |
| `ArrayMapPoolProofs!TypeCorrect`, `PoolSafe`, `StaysSorted`, `SearchCorrect`, `NoOverflow` | `Spec => []TypeOK`, `[]PoolConserved`, `[]LiveSorted`, `[]SearchWindow`, `[]NoIntOverflow` |
| `ArrayMapPoolProofs!Refinement` | `Spec => ImplementsPool` |
| `ArrayMapPoolProofs!Callbacks` | `NestSpec => CallbacksHarmless` |
| `NodeWordProofs!Faithful` | `Spec => WordsFaithful` |
| `RbTreeProofs!Invariance` | `Spec => []Inv`, the inductive invariant below |
| `RbTreeProofs!TypeCorrect`, `NoNull` | `Spec => []TypeOK`, `[]NoNullDereference` |
| `RbTreeProofs!ShapeKept`, `ColorsKept` | `Spec => []TreeShape`, `[]ColorRules`, at every turn of every loop |
| `RbTreeProofs!Refinement` | `Spec => ImplementsOrderedSet` |
| `RbTreeCompactProofs!Invariance` | `Spec => []Inv`, with the stack in it |
| `RbTreeCompactProofs!TypeCorrect`, `NoNull`, `PathCorrect` | `Spec => []TypeOK`, `[]NoNullDereference`, `[]PathMatches` |
| `RbTreeCompactProofs!ShapeKept`, `ColorsKept` | `Spec => []TreeShape`, `[]ColorRules`, at every turn of every loop |
| `RbTreeCompactProofs!PathShort` | `Spec => []PathBound` |
| `RbTreeCompactProofs!Refinement` | `Spec => ImplementsOrderedSet` |
| `RbTreeCompactProofs!WalksSurvive`, `WalksRuined`, `CautiousNext`, `WalksRefine` | if `Cautious`: `WalkSpec => []WalkSurvives`, `RotationRuinsWalk`, `NextIsSuccessor`, `ImplementsOrderedSet` |

**The ring.** `RingInv` with `TypeOK` is inductive, but it speaks of `%` with a
variable divisor, which the solver does not handle. Every sum the code reduces
is below `2 * aq_size`, so `%` is a case distinction (`Wrap`, lemma `ModWrap`).
`LinearInv` is `RingInv` in these terms; `RingInvLinear` shows them equal and
`NextInv` is proved for `TypeOK /\ LinearInv`, one step per action. The step that
needs thought is the loop of `ARRAY_QUEUE_ITER_REMOVE`: the hole moves one slot
per turn and stays at least one item before the back, so equality with `aq_back`
is met and never stepped over.

**The queue as a FIFO.** Under that invariant the j-th item of the abstract
queue is in slot `SlotOf(j)`, counted around the hole while a removal runs. Each
macro is simulated by comparing `SlotOf(j)` before and after: enqueue leaves it
alone, dequeue shifts it by one, the start of a removal is the abstract removal,
and a turn of its loop changes neither queue nor cursor.

**Held iterators.** A held iterator that has lost its own item points at the slot
before the front; otherwise it stands in the window. `HeldWalk` says what it
still delivers as a sequence read off the ring; the proof compares that sequence
slot by slot across each macro, again with the hole of a running removal as the
only place where a slot and its item part.

**Map and pool.** The invariants hold each other up. The binary search is right
(`SearchWindow`) because the array is sorted; the array stays sorted through an
insertion because the window put the value in its place; in the pool it also
needs that initializer and finalizer change the key of no *other* live object,
which is `PoolConserved`. So all are proved in one induction, together with
`Bounds`, the ranges of the locals, from which `NoIntOverflow` follows. While a
loop shifts, slot `i` is dead (map), or stands for the pointer the function
carries in a local (pool, `Held`).

For the refinements, a sorted array lists its values once, so the abstract map
has as many entries as `am_len` (plus or minus the one a shift is about) and is
full exactly when the array is. A search that ends without a hit proves the key
absent, one that ends with a hit names the only entry with it.

**Callbacks.** While a callback calls the pool, the pool's own invariant holds
for the nested call, and `Waiting` says that the locals in `frame` are true of
the pool as it stands: a window the waiting search would continue with, or an
index and a fresh pointer that would still fit. This is kept because the nested
calls change nothing, which needs proof where they look as if they might: a get
of a key that is listed cannot miss it, nor a free of one that is not hit it
(`NestedStep`, from the search window). It also needs `FreshItem`, that until
the shifting starts `new_item` is the pointer in slot `amp_len`, so the nested
search sees no slot half changed. With no frame the steps are those of
`ArrayMapPool`; with one they are stutters for the client of the waiting call.

**Node words.** Adding and removing the low bit is arithmetic modulo 2. Each
getter of a setter is one lemma about an even address and a bit, each action a
case of them.

**Recursion.** The provers cannot instantiate the library's induction theorems.
`NatRecursion` states induction with a *set* in place of the predicate, a least
element principle for subsets of a finite set, and that a recursive function
defined with LET satisfies its equation. That is enough for the functions the
models use.

**The red-black tree.** `TreeShape` and `ColorRules` follow the links by
recursion, from every node up to the root. The inductive invariant says
the same from below and without recursion: there are functions `D` and `B` from
nodes to their sets of descendants and their black heights that satisfy one
equation per node (`IsTree`, `IsRb`). A rotation changes `D` at two nodes, a
recolouring changes `B` at few, and all else is carried over; nestedness of
subtrees, uniqueness of the parent and the interval of keys below a node
are lemmas of `RbNodeProofs`, which knows the child links only and serves both
trees. `Inv` in `RbTreeProofs` is

- `TypeOK`, and `Parents`: parent links are the child links turned round;
- `Shape(D, B)` for some `D` and `B`: a red-black tree but for one debt, a link
  (`OwedAt`, `OwedDir`) below which one black is missing while `rb_remove_color`
  runs, and `Exempt`, the node that may be red under a red parent;
- `CallInv(D)`: what the running loop knows. Insertion stands on the search path
  of its key, a lookup has all it seeks below `cur`, a walk has the outermost of
  its `Candidates` below `cur` or above it, the successor search stands on the
  left spine of the right subtree, the fix-ups stand at the debt.

It was checked by TLC on small trees before it was proved. The proof goes in
layers: what the accessors do; what `rb_rotate`, `Splice`, `Detach` and
`Transplant` do to the links, order of assignments included; what such a change
of links does to a red-black tree with a debt; one step per action. The
fix-up of a removal has most of the work: case 2 moves the debt up, case 1 keeps
it but lowers it, cases 3 and 4 pay it. `NoNull` is a consequence: a red parent
is not the root, and a link that owes a black has a sibling subtree with at
least one. `ShapeKept` and `ColorsKept` then show that `Ancestors`, the recursive
function of `TreeShape` and `ColorRules`, is the set of nodes whose `D` contains
the node, and that along it the blacks add up to the height at the root.

For `Refinement` a call takes effect when its node is linked or unlinked, before
the fix-up loop, whose turns are stutters and whose end is the reply. Lookups
and walks take effect when they return, and the invariant of their loop says
that what they return is the answer the ordered set gives.

**The compact tree.** There are no parent links; their place in the invariant is
taken by the stack. `Way` says that a stack starts at the root and that the link
each entry names leads to the node of the next, `WayTo` where it ends, and
`CallInv` says for every loop where its stack leads. From this come the facts the
code relies on when it reads a parent or grandparent off the stack: an entry's
node is the only one that links to the next, the entries are distinct, and the
subtrees along a way are nested. What the proof adds to that of `RbTree` is the
care of the stack: pushes and pops; a rotation, which the code follows by
replacing or adding the entries at the top (`PathCase1`); and the entry in the
*middle* that `rb_remove` rewrites when a successor moves up (`NodeEntry`), where
everything below it now hangs from another node. `PathMatches` and
`NoNullDereference` are consequences. `TreeShape` and `ColorRules` compute subtrees
and heights with `Below` and `Heights`, recursive over links; `ShapeKept` and
`ColorsKept` show by induction on the size of a subtree that they come to `D` and
to the one height `B`, for every node.

**The bound of the stack.** A subtree of black height b has at least 2^b - 1
nodes. On a way no two red nodes are neighbours, so a stack that leads into a
red-black tree of black height b has at most 2b entries, which gives
2^d <= (n + 1)^2 whenever no fix-up is at work (`QuietBound`). In a fix-up loop
the tree is no red-black tree and the bound is carried along instead
(`BoundStep`): the loops pop and never make the stack longer from one turn to
the next, and a removal enters its loop with a node less, which `Size` still
counts, and with a stack that led to that node, which was black and so leaves
room for one entry more.

**Walks across inserts.** A new leaf hangs at a link that was `NULL`, and no link
a walk's stack names is. Case 1 of `rb_insert_color` recolours. Cases 2 and 3 turn
three nodes in a line, g, its child q and its grandchild n, and change no other
link but the one that led to g. A way that does not name g names neither q nor n,
so its links are as before but for the one to g, and that one is not on it; hence
`WalksSurvive`. A way that names g has an entry before it, which now leads to
another node; hence `WalksRuined`. So the rule is exact, and a client that keeps
to it has at every call a stack that is right: the invariant of the tree holds
for it, and with it all answers, `CautiousNext` among them.

**Only model-checked.** Termination (`RemoveReturns`, `CallReturns`): liveness
under fairness is beyond the prover. All other properties of the passing runs
are stated by a theorem.

## 5. Not modelled

- `RB_ENTRY` and the other macros that only compute addresses or types.
- Misuse beyond the rules that the bolder clients establish: an iterator used
  after its item and the next one are gone, an `RB_PATH` kept across a removal
  or used to turn back after `rb_next` returned NULL, a callback that changes
  the pool it was called from, a comparison that is not an order, two objects of
  the pool whose keys the client changes, nodes at odd addresses.
- The prototypes-only macros. `ARRAY_MAP_POOL_GEN_PROTO` and
  `ARRAY_MAP_GEN_PROTO` pass four arguments to `..._FREE_PROTO` and
  `..._REMOVE_PROTO`, which take three, so they cannot be expanded at all; that
  is a matter for a compiler.
- Tests, CMake files and Doxygen configuration.

## 6. Plan

Done: every component of the library that changes state, with its abstract
specification; the clients that go beyond what the headers regulate; proofs of
all safety properties and refinements. What is left:

1. *Termination by proof.* The measures are known: the search window, the
   distance of the hole to the back, the height of the node a fix-up works at;
   stated as action properties (each turn makes the measure smaller) they would
   be within the prover's reach, the step from there to `~>` not.
2. *Turning back at the end of a compact walk.* When `rb_next` finds no successor
   it has popped the whole stack; a rule for what a client may do then, as
   `CompactWalks` has one for inserts.
