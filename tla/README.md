# TLA+ verification of atomic_shared_pointer

The repository implements lock-free atomic shared and weak pointers on top of
a hazard-pointer reclamation domain, and uses them in a stack and a queue.
This directory holds TLA+ models of that code, configurations that check them
with TLC, and proofs checked by TLAPS.  Paths are relative to the repository
root.

## The system

| component | source | state | operations |
|---|---|---|---|
| ThreadEntryList, EntriesHolder | `src/thread_entry_list.h` | `head_`, per entry `next_`, `acquired_`; thread_local `entry_` | `acquireEntry` (`findFree`, `allocItem`, `internalPush`), `release`, `tryAcquire`, iteration, `clear` |
| HazardPtrList | `src/hazard_pointer_domain.h:20` | `hazards_[MaxHP]`, the intrusive free list `free_`/`next_` | `acquire`, `release`, `clear` |
| RetiredList | `src/hazard_pointer_domain.h:100` | `retires_[MaxRetired]`, `last_` | `pushBack`, `setLast`, `clear`, `RetiredPtr::dispose` |
| HazardPointerDomain | `src/hazard_pointer_domain.h:234` | one ThreadData (ticks, hazards, retires) per entry | `protect`, `release`, `retire`, `scan`, `helpScan`, `clear`, thread exit |
| control blocks | `src/atomic_shared_pointer.h:14` | `ref_counter_`, `weak_counter_`, `next_` of the destruction chain | `increment*`, `decrement*`, `incrementNotZeroRef`, `safetyDestroy` |
| SharedPtr, WeakPtr | `src/atomic_shared_pointer.h:192` | a control block and a value pointer | copy, move, swap, reset, `lock` |
| AtomicSharedPtr, AtomicWeakPtr | `src/atomic_shared_pointer.h:590` | one atomic control-block pointer, the cell | `load`, `store`, `exchange`, `compareExchange` |
| LockFreeStack, LockFreeQueue | `structures/` | `head_`, `tail_`, nodes | `push`, `pop` |
| stress test | `benchmarks/main.cpp` | | runs a container with several threads, compares pushed and popped values |
| utils, decl_fwd | `src/` | none | raw storage, exception guards, aliases |

How they interact.  A container keeps its nodes behind AtomicSharedPtrs.  An
AtomicSharedPtr owns one reference of the control block its cell points to.
`load` asks the domain to protect the cell, then increments the counter of the
guarded block; `store` and a successful `compareExchange` take the old pointer
out of the cell and hand its reference to the domain (`retire`), which drops it
with a disposer once no slot announces the pointer.  The domain keeps its
per-thread data in entries of the thread list.  A thread takes an entry at its
first call and gives it back when it exits; other threads then adopt the
records left in it (`helpScan`), and a new thread reuses it.

What is hard.  Nothing is locked.  Announcing a pointer and validating it races
with overwriting, retiring and scanning; scans read the slots of threads that
exit and are replaced meanwhile; entries change owner; the list of entries
grows under the cursors that walk it; the bounded retired lists make `retire`
wait; the same pointer is retired several times, with different disposers.
The full list, with the line where each hazard bites and the property that
covers it, is in `PROJECT.json` under "hazards".

What makes each component correct:

- thread list: an entry has one owner at a time; published links never change;
  the list is a sequence that grows at one end; `acquireEntry` ends.
- domain: a guarded pointer keeps a reference that nobody drops; records are
  neither lost nor duplicated and only a scan drops one; a scan frees room
  whenever the list has more places than there are slots; `retire` returns
  when there is room to be made; an exiting thread waits for nobody.
- control block: destroyed once, when the last strong reference is dropped;
  freed once, after that, when the last weak one is.
- atomic pointers: linearisable, and no access to a freed control block.
- stack and queue: linearisable to the abstract stack and FIFO queue; nothing
  is lost or duplicated.

## Modules

| module | models |
|---|---|
| `EntryRegistry` | the entries of all threads as the sequence the domain relies on |
| `ThreadEntryList` | the same list pointer by pointer; implements `EntryRegistry` |
| `HazardPointerDomain` | `protect`, guards, `retire`, `scan`, `helpScan`, thread exit; extends `EntryRegistry` |
| `Reclaimer` | abstract: what the domain promises to the atomic pointers |
| `DomainReclaimer` | the domain with a history variable; implements `Reclaimer` |
| `ThreadData` | the arrays of one thread: free list of slots, retired records, sort, compaction, adoption |
| `AtomicSharedPtr` | the atomic pointers, handles and strong counters; extends `Reclaimer` |
| `AtomicPointer` | abstract: what an atomic pointer with a collector does; implemented by `AtomicSharedPtr` |
| `AtomicWeakPtr` | strong and weak atomic pointers on one domain; extends `AtomicSharedPtr` |
| `ControlBlock` | both counters, `lock`, `safetyDestroy`, `create` with its failures |
| `Container` | abstract: a sequence with atomic `push` and `pop` |
| `Nodes` | the nodes of the containers: what keeps one alive, the list from a node on |
| `LockFreeStack`, `LockFreeQueue` | the containers; extend `Nodes`, implement `Container` |
| `MC...` | instances for TLC |
| `ThreadEntryListProofs`, `HazardPointerDomainProofs` (with those about `EntryRegistry` and `DomainReclaimer`), `ThreadDataProofs`, `AtomicSharedPtrProofs` (with those about `Reclaimer`), `AtomicWeakPtrProofs`, `ControlBlockProofs`, `ContainerProofs` (stack and queue) | theorems and proofs |
| `Counting` | lemmas on counting and on walks along a list, which these proofs share |

The modules form a tower, each level resting on the promise of the one below:
`ThreadEntryList` implements `EntryRegistry`, which `HazardPointerDomain`
extends; the domain implements `Reclaimer`, which `AtomicSharedPtr` extends;
`AtomicSharedPtr` implements `AtomicPointer`: `load`, `store` and
`compareExchange` happen at one moment, and the address of a block is given out
again only when nobody can reach the block.  That is what the containers take
for granted.  Every link of the tower up to `AtomicPointer` is checked by a run
and proved for all instances (see Proofs).  Two of them carry a condition: no
push has lost its entry (`DomainReclaimer`), and no `load` is under way that an
`exchange` has overtaken (`AtomicSharedPtr`).  The containers stand on
`AtomicPointer` by argument: each of their steps is one of its operations, and
they never call `exchange`.  `ThreadData` stands beside the tower: it shows that
the sets and functions which `HazardPointerDomain` uses for the arrays of a
thread are what the loops over those arrays compute.

### EntryRegistry and ThreadEntryList

`ThreadEntryList` has one action per access to `head_`, `next_` or `acquired_`.
`cur` is the local pointer of `findFree`, of `internalPush` and of the iterator
in `helpScan`.  `internalPush` is modelled as it is written: the loop goes on
while the exchange succeeds and ends when it fails, so a push that wins goes
round once more (the second exchange fails because `head_` is the node itself)
and a push that loses returns with its node in no list.

`EntryRegistry` is what the domain sees.  `chain` lists the linked entries from
the oldest to `head_`; a cursor is a position in it, 0 is `nullptr`, and
`++it` is minus one.  A push is one action that either appends the entry or
loses it.  `ThreadEntryList` implements it under the refinement mapping at its
end: `chain` is what the links from `head_` give, a cursor is the index of its
entry, and the second round of a successful push is a stutter.

Creating a thread is not an action: an identifier of `Thread` that has no entry
stands for a thread that has not called the domain yet, and after its exit for
the next thread.

### HazardPointerDomain

A thread's `pc` says where it is inside the domain; `idle` is outside.

| action | code |
|---|---|
| `StartAcquire`, `GoOnAcquiring` | `entries_.getValue()` of a thread without an entry |
| `Protect`, `ProtectLoad`, `ProtectPublish`, `ProtectValidate` | `protect`: take a slot, load, announce, load again |
| `ReleaseGuard` | `~GuardedPtr`, `release`, `releaseHP`, the tick |
| `Store` | the exchange in `store`, or a `compareExchange` that succeeds |
| `RetireFull`, `RetirePush` | the loop and the push in `retire` |
| `ScanBegin`, `ScanEntry`, `ScanHazard`, `ScanDispose`, `ScanEnd` | `scan(ThreadData &)`: one action per flag read, per slot read, per disposed record |
| `HelpBegin` ... `HelpDrained` | `helpScan`; `CallScan(t, l)` runs a scan and goes on at `l` |
| `Exit`, `Leave` | `~EntryHolder`: clear the slots, `scan()`, release the entry |

Steps that touch only the thread's own data are joined to the shared access
before or after them.  Three abstractions of data:

- A retired list is a function from places to records.  `scan` sorts the list
  and compacts it, so the order of the records has no meaning; `marked` is the
  bitset.  `lower_bound` finds the same record for the same pointer every
  time, and which of several equal ones is left open.
- The free list of slots is the set of slots that no guard of the thread holds.
- A tick is kept modulo `ScanDelay`, the only use the code makes of it.

`Store` waits for the end of `getValue`, because a client is in one call at a
time.  Disposing of a record drops one reference.  The model does not count
references: `Referenced(p)` says that one is left in a cell, in the hands of a
thread about to retire it, or in a list.  A client that holds a copy of its own
only adds references.

### ThreadData

One thread calls `acquireHP`, `releaseHP` and `retire`, exits and is replaced;
`held` are the slots of its GuardedPtrs.  Pointers are numbers, because `scan`
orders them, and 0 is `nullptr`.  `scan` is `ScanBegin` (the sort and the bits
for whatever set of pointers the slots of all threads announce), then one step
for each place.  The sort is what `std::sort` promises, an ascending list with
the same records (`Sortings`).  The steps for a place are `ScanDispose` and
`ScanDisposed` around the call of a disposer, `ScanKeep` for a record that is
marked and, in the second loop, for one that a disposer has retired meanwhile;
`ScanEnd` sets `last_`.  While a disposer runs (`pc = "busy"`) the same thread
can retire, take a slot and give one back. `source` is the list of another
entry, in any order and with any repetitions (`SourceIsLeft`), because disposers
may have retired in the last scan of its thread.  `helpScan` moves it record by
record from its end (`HelpMove`), leaves half way (`HelpStop`) or clears
(`HelpDrained`).  `Clear` is the domain's `clear()` at the end.

Two history variables say what ought to be: `live[p]` counts the references of
`p` that were retired and not yet dropped; `due[p]` counts the records that
should be in the list by a definition without arrays, one for each announced
pointer after a scan, one more for each later retirement or adoption.

A disposer does not start a scan: its releases do not hit the tick, its
retirements find room.  The code does not ensure that; see the observations.

### Reclaimer and DomainReclaimer

`Reclaimer` has no slots that are announced, no scans and no exits.  `Protect`
takes what a cell holds at one moment; `Overwrite` takes a pointer out of a
cell, `Retire` makes it a record, `Dispose` drops a record.  `blockers[p]` are
the guards that the latest retirement of `p` has found: as long as one of them
exists, the last record of `p` is not disposed of.  Records are a bag, and only
the last one is kept, which is what `lower_bound` gives.

`DomainReclaimer` adds `blockers` to the domain as a history variable and maps
the records of all lists to the bag.  The promise holds as long as no push has
lost its entry (`NoLostEntry'`; a lost entry stays lost, by `LostForGood`).

### AtomicSharedPtr

A thread has an `expected` and a `desired` handle, as the callers of
`compareExchange` have.  `load` is five steps (protect, increment, release the
guard, assign, drop what the target has held), `store` and `compareExchange`
two (the exchange, `delayDecrementRef`, which for `compareExchange` is part of
`CompareExchangeReturns`); a `compareExchange` that fails goes through `load`
and then drops its `desired`.  A block whose counter is zero is
gone and `MakeShared` can take its address.  `DestroyCell` is the destructor of
the atomic pointer, which drops the reference at once; its guard is the rule of
the language that no call on the object is running.  `Exchange` needs a cell that is
not empty, because the code dereferences the old pointer.  The reference that
it gives out is not deferred, so it can be dropped under a `load` that has
protected the same cell before: `handed` is the set of the threads whose guard an
`exchange` has overtaken in this way, until they release it.

The constant `Kind` is the disposer of the class, so that the module stands for
the strong and the weak class.  `AtomicPointer` is the abstract view: a load
finds the pointer at one moment between its call and its return, all other
operations take effect in one step, a `compareExchange` that succeeds (`Swap`,
which nothing else can pass for) finds what it expects in the cell, and a new
object takes an address that no cell, handle or running load can reach.
`ImplementsAtomicPointer` maps what a load has found to the guard until the
counter is incremented, and to `result` from then on; a retirement after a
`store` is a stutter.  It is stated for the steps that leave `handed` empty.

### AtomicWeakPtr

`weaks` is `weak_counter_`.  The module extends `AtomicSharedPtr` and uses it a
second time, as `Weak`, with that counter, the other disposer and WeakPtrs for
handles; both share the cells, guards and records of one `Reclaimer`.
`MakeWeak` copies a SharedPtr into a WeakPtr, `Lock` is `lock()` in one step
(`ControlBlock` has its two).  All strong references own one weak reference
together: `DropSharedWeak` drops it in the step that takes the strong counter to
zero.  A thread is inside one operation at a time, strong or weak.  A `load`
that finds the counter at zero increments the counter of a destroyed value;
what happens after is undefined, and the model ends that behaviour there.
`exchange` of the strong class is in `AtomicSharedPtr` only.

### ControlBlock

`shared` and `weaks` count the clients' handles; a value can own SharedPtrs
(`member`).  `safetyDestroy` is `Pop`, one `DropMember` for each SharedPtr the
value owns, `ReleasePopped`, and `EndLoop`.  `queue` is the list from the
thread_local `head` through `next_`; a nested call only prepends to it.

A SharedPtr made from a pointer takes over a value that may own SharedPtrs
already (`WrapValue`, `fresh`).  `create()` is `Allocate`, which leaves raw
memory in `pointer`, and `Construct`, which makes a block of it.  Either step can
throw (`AllocateFails`, `ConstructFails`); then the guards of `utils.h` give the
memory back, if there is any, and delete the value (`UndoValue`), whose members
can be last references.  `MakeShared` goes the same way with no members; the
storage of its value is in the block.

### LockFreeStack and LockFreeQueue

One action per operation on an atomic pointer.  A node is live while it can be
reached from the container, a live node or a variable of a running call, as
SharedPtrs keep it (`KeptBy` in `Nodes`); any other address can be taken by the
next `makeShared`. What a failed exchange loads into `expected` is overwritten
at the top of each loop and is left out.  In the queue, a push takes effect at
`PushLink`, a pop at `PopExchange` or when `PopPeek` finds no next node; the
value is moved out one step later (`PopTake`), so the answer of `Container` is
the value of the node from the exchange on.

## Checks

| run | instance | properties |
|---|---|---|
| `list` | 3 threads, 3 entries | `TypeOK`, `ExclusiveEntry`, `LossesAreBounded`, `ImplementsRegistry`, `LinksAreStable`, `AcquireReturns` |
| `domain_guards` | 2 threads that load and store, 2 pointers, 1 slot, 1 place | `TypeOK`, `ExclusiveEntry`, `GuardKeepsReference` |
| `domain_lists` | as before, 1 pointer, 2 places, a scan every second release | `GuardKeepsReference`, `ScanSparesAtMostOnePerSlot`, `ImplementsReclaimer` |
| `domain_adoption` | a reader with 2 slots, a writer, 1 pointer, 1 place | `GuardKeepsReference`, `OnlyScanDrops`, `HelpReturns` |
| `domain_liveness` | a reader, a writer, 1 pointer, 2 places | `RetireReturns`, `ExitReturns` |
| `domain_deadlock` | 2 threads, 2 pointers, 1 slot, 2 places | `DeadlockOnlyBeyondLimit`, violated |
| `thread_data` | 2 slots, 3 places, 3 pointers, a scan every second release | `TypeOK`, `FreeListIsExact`, `RecordsAreKept`, `KeepsWhatIsDue` |
| `atomic_counts` | 2 threads, 2 cells, 2 blocks, counters up to 4 | `TypeOK`, `CountIsExact`, `GuardedIsAlive`, `ImplementsAtomicPointer` |
| `atomic_weak` | 2 threads, a strong and a weak cell, 1 block, counters up to 3 and 4 | `BothTypeOK`, `BothCountsAreExact`, `GuardedIsNotFreed`, `OnlyWeakRecordsUndercut` |
| `control_block` | 2 threads, 3 blocks, 2 handles of each kind | `TypeOK`, `HandlesKeep`, `QueuedOnce`, `NothingLeaks`, `CountersAreExact`, `FreedAfterDestroyed` |
| `stack` | 2 threads, 3 nodes, 2 values | `ImplementsStack`, `LockFree` |
| `queue` | 2 threads, 4 nodes, 2 values | `TailIsNearTheEnd`, `ImplementsQueue`, `LockFree` |

Bounds.  Two threads are a reader and a reclaimer, and also an exited thread and
its helper: an identifier is used again after an exit, so an entry passes
through more owners than there are threads.  Two pointers let a cell change and
change back while a reader validates.  One place forces `retire` into its loop
at the second retirement; two places allow lists that are neither empty nor full
and a pointer that is in a list twice.  In `domain_adoption` one pointer and one
place are enough for a guard of the helper to keep both lists full.  `ScanDelay
= 1` scans at each release, 2 lets releases pass without one.  Three threads are
the smallest number for which a push can fail twice.  The heap of entries is
bounded: when it is exhausted, allocation blocks, and the liveness properties
exempt that state by name (`HeapExhausted`).  `MaxRefs` and `MaxHandles` bound
the counters: an increment beyond them waits.  With 4 the two cells, a handle
and a retired record can own one block together, and with 3 in `atomic_weak` its
cell, a handle and a record; two cells let a block be dropped through one while
a load guards it through the other.  In `atomic_weak` the weak counter may go
one higher, for the reference that the strong ones share, and one block is
enough for a strong and a weak record of the same pointer.  In `thread_data` two
slots come back in either order, and three places and pointers are the least
with which a record moves over a gap, a list is left in the middle of an
adoption, and a disposer fills a place while others wait to be scanned.  In
`control_block` a value that may fail to get its block starts only while a block
is free, so the other two form a chain that its failure brings down; two threads
can race for the last block, and one waits.  Two control blocks let the address
of a freed one come back in a cell while a thread still expects the old one;
three let a destroyed value own a block that owns another.  Three nodes are a
node that is popped, one behind it and one pushed, and the address of the first
comes back; the queue has one more, the dummy.  Deadlock is checked for the
containers, where an idle thread can always call `pop`, and not for the other
modules, because a program may stop when its threads have nothing to call.

Fairness.  `WF(Running(t))` for each thread: a call that has begun goes on, as
the scheduler of the operating system provides.  No fairness makes a client
start a call, so a reader may keep its guard for ever.  The containers assume
less, only that *some* call takes steps while there is one: any thread may
stop inside its call, which is what lock-freedom is about.

What the runs show.

- A guarded pointer keeps a reference through every interleaving, if the
  entry of the thread that guards it is linked (`GuardKeepsReference`).  A thread
  whose push has lost its entry goes on to retire, scan and adopt without harm to
  the guards of others.
- `retire` returns with one place more than announced pointers.
- `helpScan` ends, also in a thread that holds guards on all its list can hold:
  its scan frees no place, and it gives the entry back with the rest of the list.
- The comment in `retire` says "Maybe dead-lock if T * HP > R".
  `domain_deadlock` shows the state with T * HP = R: the loop waits while the
  list is *full*, so R guarded pointers are enough.
- The domain keeps the promise of `Reclaimer` as long as no push has lost its
  entry (`NoLostEntry`).
- A push that wins its race links its entry, so of the pushes that raced at one
  `head_` only the others are lost: at most T - 1 for each entry in the list.
- The arrays of a thread hold what the sets of the domain model say, also when
  disposers retire during the scan and when an adoption stops half way.
- Every counter is the number of its owners, through failing exchanges and
  reused addresses.  `load` increments the counter of a live block, unless an
  `exchange` takes the block out of the cell while it stands between `protect`
  and `incrementRef`: the caller of `exchange` may drop the reference at once.  No
  other use of `exchange` does harm.
- Apart from such loads an AtomicSharedPtr is an atomic pointer with a collector.
- With weak pointers in the same domain the counters stay exact and a guarded
  block is not freed.  Its value can be destroyed under the guard of a `load`,
  and only when a weak record of the block is in the lists as well: the scan
  spares one record of the pointer, and that can be the weak one.
- A value is destroyed once and not under a handle, `lock` included; a block is
  freed after its value; chains of owners are destroyed to the end.
- The stack and the queue are linearisable and lock-free on top of atomic
  pointers; `tail_` of the queue lags by at most one node.

## Proofs

The theorems hold for all instances: any sets of threads, entries, cells, blocks
and pointers, any number of slots and places, any positive scan policy.  They
rest on the assumptions that the modules name: `NullIsNoEntry` and
`NullIsNoBlock` (the null pointer is no entry and no block), `PolicyAssumption`
(the limits are positive), `ArrayAssumption` (the same for the arrays of one
thread, whose pointers are numbers other than 0), `ClientAssumption`,
`ReclaimerAssumption` and `KindAssumption` (what the constants are),
`BothAssumption` (there are the two classes of atomic pointers, each with its
disposer), `NodeAssumption` (the heap has finitely many nodes, one at least for
the dummy, and null is none of them), and `FiniteAssumption` (there are finitely
many threads, cells, entries and blocks, as in a run of a program), which only
what is counted needs.

**The list of entries.**

- `RegistryExclusive`, `EntriesExclusive`: an entry has one owner.  Inductive
  with the flags: an owner has set `acquired_`, and whoever takes an entry has
  found it clear or has just allocated the entry (`RegistryInv`).
- `ListTypeCorrect`, `ListExclusive`: the same for the pointer-level list, with
  its types.  There the invariant (`ListInv`) also says that `head_`, every link
  and every cursor lead to allocated entries, so what `allocItem` returns is
  nobody's.
- `RegistryImplemented`, `LinksStay`: the list implements the registry, and a
  published link never changes.  The invariant (`LinkInv`) says that the links
  from `head_` form a list which has each entry once, that all cursors are in
  it, and that a thread in the second round of its push still has in `next_` what
  it has linked with, so the store of that round writes what is there.  `Chain`,
  which the refinement mapping computes by recursion, is the only list those
  links form: two different ones would differ at a least place, and the place
  before it has one successor.
- `LossesBounded`: at most T - 1 entries are lost for each one linked.  The
  invariant (`LossInv`) charges each loss to a place of the list and to the
  thread that lost there.  Two losses differ in the thread or in the place,
  because a thread that pushes has no loss beyond its cursor; and nobody loses
  at the place that the thread itself has linked, which leaves T - 1 for each.
- `LostForGood`: a lost entry is never linked later, so `NoLostEntry` of a
  state holds of the whole past.

**The domain.**

- `TypeCorrect`: the types.  They need to know that a push finds a free place,
  and that a thread in `scan` or `helpScan` owns what it works on (`Shape`).
- `UsesRegistry`: each step of the domain is a step of the registry.
- `GuardsAreSafe`: what a thread with a linked entry guards keeps its reference,
  whatever other threads have lost their entries.  The argument: a
  guard's slot announces its value from the validation on (`Announced`).  When
  it was validated the cell still owned a reference.  From then on there is a
  reference in a cell, in flight, or in a list (`Kept`); if some thread scans
  the last one, either the scan has not read the slot yet, or it has marked a
  record of the pointer (`SparedBy`, `Pending`), because the slot's entry is
  linked, acquired and at a fixed position of the chain.  Dropping a record
  therefore leaves another one.
- `ScanIsBounded`: a scan spares at most one record per slot.  At each moment
  the marks are no more than the slots it has read; the entries behind the
  cursor are counted with all their slots.
- `RetireFindsRoom`: with T * HP < R no thread waits in `retire` in a list of
  different pointers that are all guarded.  Such a list would map its R places
  one-to-one to pairs of a thread and a slot.
- `DropsAreScans`: only a scan that has read all slots drops references, one in
  a step.  The references of a pointer are those in cells, in flight and in
  lists, and every other action changes these three by moving one.
- `ReclaimerImplemented`: the domain implements `Reclaimer`.  The lists of
  records map to a bag.  A blocker of a pointer still guards it, and a record of
  the pointer is in the lists that no scan under way can drop before that guard
  is released (`BlockersKeep`); so a scan that disposes of the last record finds
  it without blockers.

**The arrays of a thread.**

- `TypeCorrect`, `FreeListCorrect`: the links of the slots form a list of the
  slots that no guard holds.  The invariant (`SlotInv`) has the sequence of those
  slots; `acquire` takes its first element, `release` puts one before it.
- `RecordsCorrect`: no record is lost or disposed of twice.  The invariant
  (`ListInv`) follows the compaction: the places between `ret_insert` and `it`
  are empty (`Gaps`), and the references of a pointer are as many as its records
  in both lists, less the one whose disposer is running (`Owned`).  It needs that
  `end` does not pass `last_` although disposers add records behind it.
- `DueCorrect`: after a scan the list is what the sets of the domain model say.
  What will be in the list (`Kept`) are the places before `ret_insert`, the
  marked ones that `it` has not reached, and those behind `ret_end`.  The
  bits are one for each announced pointer that the list has, because the first
  of equal records in a sorted list is unique.
- `SortingExists`: `Sortings` of a list is never empty, so `scan` is modelled for
  every list.  A shortest list without one would be a sorted list and one record
  more, for which there is a place in it.

**The atomic pointers.**

- `GuardsKeepReferences`: in `Reclaimer` a guarded pointer keeps a reference.
  Inductive with `KeptFor`: the reference is in a cell, in flight, or a record
  that this guard blocks.  A guard is older than every record retired after
  it, because the retirement makes all guards of the pointer its blockers; and
  a thread has one guard per slot, so a release unblocks nothing else.
- `TypeCorrect`, `CountsCorrect`: a counter is the number of its owners.  Each
  step gives one kind of owner one more and takes one from another, or changes
  the counter with it.
- `GuardedCorrect`: `load` increments the counter of a live block.  It is not
  enough that a reference is somewhere, since a cell can be destroyed, which
  drops its reference at once.  The invariant (`GuardsHold`) says where it is: in
  the cell that the `load` reads, which cannot be destroyed meanwhile, or
  deferred for this guard, or an `exchange` has overtaken the guard in that cell.
- `PointerImplemented`: each step maps to a step of `AtomicPointer` or to none, as
  long as no `load` is under way that an `exchange` has overtaken.
- `BothTypeCorrect`, `BothCountsCorrect`: the two classes on one domain.  The
  invariant of a class (`ClassInv`) speaks of its own cells, records and
  counters only, and its steps keep it whatever else shares the domain.  So the
  weak class is a second instance (`W`) of the same lemmas, and a step of one
  class is, for the other, a step of the reclaimer on cells and records that are
  not its own (`OtherStepKeeps`).  What joins them is the weak reference that all
  strong ones own together (`Common`): it counts while the strong counter is
  above zero, and the step that takes the counter to zero drops it.
- `NotFreedCorrect`: whatever a `load` of either class guards has an owner in the
  cell, in flight, or in a record of one disposer or the other, and each of these
  keeps the block: a weak owner by itself, a strong one by the common reference.
  Excepted is a `load` that the `exchange` of an AtomicWeakPtr has overtaken.
- `UndercutCorrect`: if the guard is a strong one and the strong counter is zero,
  no strong owner is left, so the record that the scan has spared for this guard
  is a weak one.

**The control blocks.**

- `TypeCorrect`, `CountersCorrect`, `HandlesCorrect`, `QueueCorrect`, `NoLeak`,
  `FreeingCorrect`.  One invariant carries them.  It joins the counts to what they
  mean: a strong counter above zero has its value alive, a weak one its block.
  Whoever drops a handle then finds a counter above zero, and whoever takes it
  to zero knows that nobody else has the block, which is why it can be in one
  destruction chain only, and once (`PoppedOnce`, `QueuedOnce`).  Raw memory
  belongs to the one call of `create()` that has it in its guard (`Allocated`).

**The containers.**

- `StackCorrect`, `QueueCorrect`: the stack and the queue implement `Container`.
  The links from `head_` list nodes, each once (`IsList`), and whatever lists
  them is `ListFrom`, since two different walks would differ at a least place.
  A push's node is `Private` until it is linked: no other variable, link or list
  has it, as its address was not live.  An exchange on `head_` that
  succeeds finds the node whose `next` the call has read: the call's own variable
  has kept that node from being freed and used again.  In the queue, what a
  call has read stays true (`Read`): a node without a `next` is the last one and
  `tail_`, and the next node of a former dummy never changes; a pop whose
  exchange has succeeded has the node its value comes from to itself, and no
  other pop takes it.
- `TailCorrect`: `tail_` is the last node or the one before.  Part of the same
  invariant (`TailNear`): only a call that has seen the last node links behind
  it, and only when `tail_` is that node.

Only model-checked is liveness (`AcquireReturns`, `RetireReturns`,
`ExitReturns`, `HelpReturns`, `LockFree`), which needs ENABLED and fairness and
is out of the prover's reach.

## Observations on the code

- `internalPush` repeats while the exchange succeeds (`thread_entry_list.h:161`).
  Under contention the losing entry is in no list: no scan reads its slots, and
  its records are never adopted.  The guards of its thread are then unsafe, and
  only those.
- `retire` can wait for ever, with T * HP = R already, while the atomic
  pointers declare `is_always_lock_free`.  T * HP < R is enough to exclude it
  (`RetireFindsRoom`).
- `exchange` of both atomic pointers returns the old reference undeferred, which
  is unsafe for a `load` of the same cell that is under way, and dereferences a
  null pointer when the cell was empty.
- `lower_bound` marks one of several records with the same pointer, which can
  be the weak one: `load` then increments the counter of a destroyed value.
- `dispose` clears a record after its disposer has returned.  A disposer that
  starts a scan on the same thread (the `ScanDelay`-th release of a guard, or a
  retirement on a full list) finds its own record there and runs again for it.
- `WeakPtr::expired` returns the negation of what its name says; all ordering
  comparisons of SharedPtr are `<`.

## Not modelled

Weak memory (the models are sequentially consistent, and `isAcquired` is a
relaxed load); a scan that a disposer starts inside a scan; the destructors of
the containers and of the list of entries, and the order of static destruction;
guards that outlive their thread's entry, which `load` never lets happen; more
guards in one thread than slots; failed allocations outside `create()`; the rest
of `utils` and `decl_fwd`, which have no state; the stress test, whose
assertions are the promises `ImplementsStack` and `ImplementsQueue` make; the
third-party containers of the benchmark.  The value pointer of a SharedPtr, its
conversions, deleters and allocators are data that no property tells apart.

## Plan

1. A run in which a push loses its entry, under the containers: what the
   assertions of the stress test (`benchmarks/main.cpp:63`) then see.
2. Nested scans in `ThreadData`.
