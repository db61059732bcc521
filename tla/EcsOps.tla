------------------------------- MODULE EcsOps -------------------------------
(***************************************************************************)
(* The entity registry of src/NeuronCore/ECS.h as operators on a world     *)
(* record: generations and liveness of the slots, the stack of free slots  *)
(* and the component pools.  A handle is an index with the generation it   *)
(* was created under; a pool knows only the index, and Add, unlike TryGet, *)
(* does not ask whether the handle is valid.                               *)
(***************************************************************************)
EXTENDS Naturals, Sequences

CONSTANTS
  MaxSlots,   \* bound: slots the registry may grow to
  MaxGen,     \* bound: a slot is reused while its generation is at most this
  Pools       \* the component types

ASSUME BoundsAssumption == MaxSlots \in Nat /\ MaxGen \in Nat

Slot == 0 .. MaxSlots - 1
NoSlot == MaxSlots                       \* INVALID_INDEX
EntityId == [index : Slot, gen : Nat]
NoEntity == [index |-> NoSlot, gen |-> 0]
Absent == [none |-> TRUE]                \* nothing in the pool for a slot

EmptyWorld ==
  [gen   |-> [i \in Slot |-> 0],
   alive |-> {},
   free  |-> <<>>,
   size  |-> 0,
   pool  |-> [p \in Pools |-> [i \in Slot |-> Absent]]]

NextIndex(w) == IF w.free = <<>> THEN w.size ELSE w.free[Len(w.free)]
CanCreate(w) == NextIndex(w) \in Slot /\ w.gen[NextIndex(w)] <= MaxGen
NewId(w) == [index |-> NextIndex(w), gen |-> w.gen[NextIndex(w)]]

(* Mutants: a free slot taken at the wrong end of the stack; a handle's      *)
(* generation ignored.                                                       *)
CreateFromFront(w) ==
  [w EXCEPT !.alive = @ \cup {NextIndex(w)},
            !.free = IF @ = <<>> THEN @ ELSE SubSeq(@, 2, Len(@)),
            !.size = IF w.free = <<>> THEN @ + 1 ELSE @]

Create(w) ==
  [w EXCEPT !.alive = @ \cup {NextIndex(w)},
            !.free = IF @ = <<>> THEN @ ELSE SubSeq(@, 1, Len(@) - 1),
            !.size = IF w.free = <<>> THEN @ + 1 ELSE @]

IsValid(w, e) == e.index \in w.alive /\ w.gen[e.index] = e.gen

\* A bare index, as the client or an order names its target, made a handle.
LiveEntity(w, i) ==
  IF i \in w.alive THEN [index |-> i, gen |-> w.gen[i]] ELSE NoEntity

\* mutant: a slot freed without a new generation
DestroyKeepsGen(w, e) ==
  IF IsValid(w, e)
  THEN [w EXCEPT !.pool = [p \in Pools |-> [w.pool[p] EXCEPT ![e.index] = Absent]],
                 !.alive = @ \ {e.index},
                 !.free = Append(@, e.index)]
  ELSE w

Destroy(w, e) ==
  IF IsValid(w, e)
  THEN [w EXCEPT !.pool = [p \in Pools |-> [w.pool[p] EXCEPT ![e.index] = Absent]],
                 !.alive = @ \ {e.index},
                 !.gen[e.index] = @ + 1,
                 !.free = Append(@, e.index)]
  ELSE w

Add(w, p, e, c) == [w EXCEPT !.pool[p][e.index] = c]
Remove(w, p, e) == IF IsValid(w, e) THEN [w EXCEPT !.pool[p][e.index] = Absent] ELSE w
Has(w, p, e) == IsValid(w, e) /\ w.pool[p][e.index] # Absent
Get(w, p, e) == w.pool[p][e.index]

\* An entity with its components in one pool, as every Spawn function makes it.
CreateWith(w, p, c) == Add(Create(w), p, NewId(w), c)

Living(w) == {LiveEntity(w, i) : i \in w.alive}

\* The slots in use and the free slots are the slots there are, each once.
SlotsPartitioned(w) ==
  LET freed == {w.free[k] : k \in DOMAIN w.free} IN
  /\ w.alive \cup freed = 0 .. w.size - 1
  /\ w.alive \cap freed = {}
  /\ \A j, k \in DOMAIN w.free : w.free[j] = w.free[k] => j = k
=============================================================================
