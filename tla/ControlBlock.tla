---------------------------- MODULE ControlBlock ----------------------------
(***************************************************************************)
(* Control blocks: the two counters, lock(), and the destruction of a      *)
(* block with all that its value owns (safetyDestroy), one action per      *)
(* access to a counter; and the construction of a block, which can fail    *)
(* before its memory is allocated and after.                               *)
(*                                                                         *)
(* The handles are the SharedPtr and WeakPtr objects of the clients, with  *)
(* their number per block only: any thread can use any of them.  A value   *)
(* can own SharedPtrs of its own (a list node owns the next), moved into   *)
(* it when it is made.                                                     *)
(***************************************************************************)
EXTENDS Naturals, Sequences, FiniteSets

CONSTANTS
  Thread,
  Block,          \* addresses of control blocks
  NULL,
  MaxHandles      \* bounds the handles of each kind per block, for TLC

ASSUME NullIsNoBlock == NULL \notin Block

\* A program has so many threads and so much memory.
ASSUME FiniteAssumption ==
  IsFiniteSet(Thread) /\ IsFiniteSet(Block) /\ MaxHandles \in Nat

VARIABLES
  ref, weak,      \* ref_counter_, weak_counter_
  life,           \* of the block: free, raw (memory only), alive, destroyed (its
                  \* value is gone)
  member,         \* the blocks whose SharedPtrs the value owns
  shared, weaks,  \* how many SharedPtr and WeakPtr handles there are
  fresh,          \* per thread: the blocks that a value not yet in a block owns
  pointer,        \* per thread: AllocateGuard::pointer_
  pc,             \* idle, lock, create, construct, undo, loop, destroy
  locked, count,  \* lock(): the block, and ref_count
  queue,          \* safetyDestroy(): the list from head through next_
  popped, todo    \* the block being destroyed, its SharedPtrs still to drop

counterVars == <<ref, weak>>
handleVars == <<shared, weaks>>
lockVars == <<locked, count>>
destroyVars == <<queue, popped, todo>>
createVars == <<fresh, pointer>>
vars == <<counterVars, life, member, handleVars, createVars, pc, lockVars, destroyVars>>

Goto(t, l) == pc' = [pc EXCEPT ![t] = l]

Init ==
  /\ ref = [b \in Block |-> 0]
  /\ weak = [b \in Block |-> 0]
  /\ life = [b \in Block |-> "free"]
  /\ member = [b \in Block |-> {}]
  /\ shared = [b \in Block |-> 0]
  /\ weaks = [b \in Block |-> 0]
  /\ fresh = [t \in Thread |-> {}]
  /\ pointer = [t \in Thread |-> NULL]
  /\ pc = [t \in Thread |-> "idle"]
  /\ locked = [t \in Thread |-> NULL]
  /\ count = [t \in Thread |-> 0]
  /\ queue = [t \in Thread |-> <<>>]
  /\ popped = [t \in Thread |-> NULL]
  /\ todo = [t \in Thread |-> {}]

-----------------------------------------------------------------------------
(* Handles are made.                                                       *)

\* makeShared(): the block has its value in it.  Values are made while blocks
\* are left.
MakeShared(t) ==
  /\ pc[t] = "idle"
  /\ \E b \in Block : life[b] = "free"
  /\ Goto(t, "create")
  /\ UNCHANGED <<counterVars, life, member, handleVars, createVars, lockVars, destroyVars>>

\* SharedPtr(TTValue *value): the client has made a value and moved some of
\* its SharedPtrs into it.
WrapValue(t) ==
  /\ pc[t] = "idle"
  /\ \E b \in Block : life[b] = "free"
  /\ \E S \in (SUBSET {c \in Block : shared[c] > 0}) \ {{}} :
       /\ fresh' = [fresh EXCEPT ![t] = S]
       /\ shared' = [c \in Block |-> IF c \in S THEN shared[c] - 1 ELSE shared[c]]
  /\ Goto(t, "create")
  /\ UNCHANGED <<counterVars, life, member, weaks, pointer, lockVars, destroyVars>>

\* create(): allocation.allocate()
Allocate(t) ==
  /\ pc[t] = "create"
  /\ \E b \in Block :
       /\ life[b] = "free"
       /\ life' = [life EXCEPT ![b] = "raw"]
       /\ pointer' = [pointer EXCEPT ![t] = b]
  /\ Goto(t, "construct")
  /\ UNCHANGED <<counterVars, member, handleVars, fresh, lockVars, destroyVars>>

\* Mutant: the strong references together own no weak one.
NewBlockNoWeak(b, S) ==
  /\ life' = [life EXCEPT ![b] = "alive"]
  /\ ref' = [ref EXCEPT ![b] = 1]
  /\ weak' = [weak EXCEPT ![b] = 0]
  /\ member' = [member EXCEPT ![b] = S]
  /\ shared' = [shared EXCEPT ![b] = 1]

\* A block around a value that owns SharedPtrs of S, and its first SharedPtr.
NewBlock(b, S) ==
  /\ life' = [life EXCEPT ![b] = "alive"]
  /\ ref' = [ref EXCEPT ![b] = 1]
  /\ weak' = [weak EXCEPT ![b] = 1]
  /\ member' = [member EXCEPT ![b] = S]
  /\ shared' = [shared EXCEPT ![b] = 1]

\* allocation.construct(), and both guards release.
Construct(t) ==
  /\ pc[t] = "construct"
  /\ NewBlock(pointer[t], fresh[t])
  /\ fresh' = [fresh EXCEPT ![t] = {}]
  /\ pointer' = [pointer EXCEPT ![t] = NULL]
  /\ Goto(t, "idle")
  /\ UNCHANGED <<weaks, lockVars, destroyVars>>

\* allocate() throws: there is no memory to give back.
AllocateFails(t) ==
  /\ pc[t] = "create"
  /\ Goto(t, "undo")
  /\ UNCHANGED <<counterVars, life, member, handleVars, createVars, lockVars, destroyVars>>

\* Mutant: nobody guards the value.
ConstructFailsUnguarded(t) ==
  /\ pc[t] = "construct"
  /\ life' = [life EXCEPT ![pointer[t]] = "free"]
  /\ pointer' = [pointer EXCEPT ![t] = NULL]
  /\ fresh' = [fresh EXCEPT ![t] = {}]
  /\ Goto(t, "idle")
  /\ UNCHANGED <<counterVars, member, handleVars, lockVars, destroyVars>>

\* Mutant: the guard of the memory has released before construct().
ConstructFailsReleased(t) ==
  /\ pc[t] = "construct"
  /\ pointer' = [pointer EXCEPT ![t] = NULL]
  /\ Goto(t, "undo")
  /\ UNCHANGED <<counterVars, life, member, handleVars, fresh, lockVars, destroyVars>>

\* construct() throws: ~AllocateGuard() gives the memory back, and then
\* ~DeleterGuard() deletes the value, which nobody but it owns any more.
ConstructFails(t) ==
  /\ pc[t] = "construct"
  /\ life' = [life EXCEPT ![pointer[t]] = "free"]
  /\ pointer' = [pointer EXCEPT ![t] = NULL]
  /\ Goto(t, "undo")
  /\ UNCHANGED <<counterVars, member, handleVars, fresh, lockVars, destroyVars>>

\* The deleter destroys the SharedPtrs of the value one after another.
UndoValue(t) ==
  /\ pc[t] = "undo"
  /\ \/ /\ fresh[t] = {}
        /\ Goto(t, "idle")
        /\ UNCHANGED <<fresh, ref, queue>>
     \/ \E b \in fresh[t] :
          /\ fresh' = [fresh EXCEPT ![t] = @ \ {b}]
          /\ ref' = [ref EXCEPT ![b] = @ - 1]
          /\ IF ref[b] <= 1
               THEN queue' = [queue EXCEPT ![t] = <<b>>] /\ Goto(t, "loop")
               ELSE UNCHANGED <<queue, pc>>
  /\ UNCHANGED <<weak, life, member, handleVars, pointer, lockVars, popped, todo>>

\* The copy constructor of SharedPtr: incrementRef().
CopyShared(t, b) ==
  /\ pc[t] = "idle"
  /\ shared[b] \in 1..(MaxHandles - 1)
  /\ ref' = [ref EXCEPT ![b] = @ + 1]
  /\ shared' = [shared EXCEPT ![b] = @ + 1]
  /\ UNCHANGED <<createVars, weak, life, member, weaks, pc, lockVars, destroyVars>>

\* A WeakPtr made from a SharedPtr or from a WeakPtr: incrementWeakRef().
MakeWeak(t, b) ==
  /\ pc[t] = "idle"
  /\ shared[b] > 0 \/ weaks[b] > 0
  /\ weaks[b] < MaxHandles
  /\ weak' = [weak EXCEPT ![b] = @ + 1]
  /\ weaks' = [weaks EXCEPT ![b] = @ + 1]
  /\ UNCHANGED <<createVars, ref, life, member, shared, pc, lockVars, destroyVars>>

-----------------------------------------------------------------------------
(* WeakPtr::lock(): incrementNotZeroRef().                                 *)

\* size_t ref_count = ref_counter_.load()
Lock(t, b) ==
  /\ pc[t] = "idle"
  /\ weaks[b] > 0
  /\ shared[b] < MaxHandles
  /\ weaks' = [weaks EXCEPT ![b] = @ - 1]     \* this handle is in use
  /\ locked' = [locked EXCEPT ![t] = b]
  /\ count' = [count EXCEPT ![t] = ref[b]]
  /\ Goto(t, "lock")
  /\ UNCHANGED <<createVars, counterVars, life, member, shared, destroyVars>>

LockReturns(t, b) ==
  /\ weaks' = [weaks EXCEPT ![b] = @ + 1]
  /\ locked' = [locked EXCEPT ![t] = NULL]
  /\ count' = [count EXCEPT ![t] = 0]
  /\ Goto(t, "idle")

LockFails(t) ==
  /\ pc[t] = "lock"
  /\ count[t] = 0
  /\ LockReturns(t, locked[t])
  /\ UNCHANGED <<createVars, counterVars, life, member, shared, destroyVars>>

\* Mutant: the counter is incremented whatever it has become.
LockExchangeAny(t) ==
  /\ pc[t] = "lock"
  /\ count[t] # 0
  /\ LET b == locked[t] IN
       /\ ref' = [ref EXCEPT ![b] = @ + 1]
       /\ shared' = [shared EXCEPT ![b] = @ + 1]
       /\ LockReturns(t, b)
  /\ UNCHANGED <<createVars, weak, life, member, destroyVars>>

\* compare_exchange_strong(ref_count, ref_count + 1): a failure reads the
\* counter again.
LockExchange(t) ==
  /\ pc[t] = "lock"
  /\ count[t] # 0
  /\ LET b == locked[t] IN
       IF ref[b] = count[t]
         THEN /\ ref' = [ref EXCEPT ![b] = @ + 1]
              /\ shared' = [shared EXCEPT ![b] = @ + 1]
              /\ LockReturns(t, b)
         ELSE /\ count' = [count EXCEPT ![t] = ref[b]]
              /\ UNCHANGED <<ref, handleVars, pc, locked>>
  /\ UNCHANGED <<createVars, weak, life, member, destroyVars>>

-----------------------------------------------------------------------------
(* Handles are destroyed.                                                  *)

\* Mutant: the last reference but one counts as the last.
DropSharedEarly(t, b) ==
  /\ pc[t] = "idle"
  /\ shared[b] > 0
  /\ shared' = [shared EXCEPT ![b] = @ - 1]
  /\ ref' = [ref EXCEPT ![b] = @ - 1]
  /\ IF ref[b] <= 2
       THEN queue' = [queue EXCEPT ![t] = <<b>>] /\ Goto(t, "loop")
       ELSE UNCHANGED <<queue, pc>>
  /\ UNCHANGED <<createVars, weak, life, member, weaks, lockVars, popped, todo>>

\* ~SharedPtr(): decrementRef(); the last one enters safetyDestroy().
DropShared(t, b) ==
  /\ pc[t] = "idle"
  /\ shared[b] > 0
  /\ shared' = [shared EXCEPT ![b] = @ - 1]
  /\ ref' = [ref EXCEPT ![b] = @ - 1]
  /\ IF ref[b] <= 1
       THEN queue' = [queue EXCEPT ![t] = <<b>>] /\ Goto(t, "loop")
       ELSE UNCHANGED <<queue, pc>>
  /\ UNCHANGED <<createVars, weak, life, member, weaks, lockVars, popped, todo>>

\* decrementWeakRef(): the last one frees the block (deleteThis).
DecrementWeakRef(b) ==
  /\ weak' = [weak EXCEPT ![b] = @ - 1]
  /\ life' = IF weak[b] <= 1 THEN [life EXCEPT ![b] = "free"] ELSE life

\* ~WeakPtr()
DropWeak(t, b) ==
  /\ pc[t] = "idle"
  /\ weaks[b] > 0
  /\ weaks' = [weaks EXCEPT ![b] = @ - 1]
  /\ DecrementWeakRef(b)
  /\ UNCHANGED <<createVars, ref, member, shared, pc, lockVars, destroyVars>>

-----------------------------------------------------------------------------
(* The loop of safetyDestroy().                                            *)

\* poped = head; head = head->next_; poped->destroy()
Pop(t) ==
  /\ pc[t] = "loop"
  /\ queue[t] # <<>>
  /\ LET b == Head(queue[t]) IN
       /\ popped' = [popped EXCEPT ![t] = b]
       /\ life' = [life EXCEPT ![b] = "destroyed"]
       /\ todo' = [todo EXCEPT ![t] = member[b]]
       /\ member' = [member EXCEPT ![b] = {}]
  /\ queue' = [queue EXCEPT ![t] = Tail(@)]
  /\ Goto(t, "destroy")
  /\ UNCHANGED <<createVars, counterVars, handleVars, lockVars>>

\* Mutant: a block whose last reference goes inside destroy() is not queued.
DropMemberUnqueued(t, b) ==
  /\ pc[t] = "destroy"
  /\ b \in todo[t]
  /\ todo' = [todo EXCEPT ![t] = @ \ {b}]
  /\ ref' = [ref EXCEPT ![b] = @ - 1]
  /\ UNCHANGED <<createVars, weak, life, member, handleVars, pc, lockVars, queue, popped>>

\* The destructor of the value destroys one of its SharedPtrs: decrementRef(),
\* whose safetyDestroy() is nested and only queues the block.
DropMember(t, b) ==
  /\ pc[t] = "destroy"
  /\ b \in todo[t]
  /\ todo' = [todo EXCEPT ![t] = @ \ {b}]
  /\ ref' = [ref EXCEPT ![b] = @ - 1]
  /\ IF ref[b] <= 1
       THEN queue' = [queue EXCEPT ![t] = <<b>> \o @]
       ELSE UNCHANGED queue
  /\ UNCHANGED <<createVars, weak, life, member, handleVars, pc, lockVars, popped>>

\* poped->decrementWeakRef(), after destroy()
ReleasePopped(t) ==
  /\ pc[t] = "destroy"
  /\ todo[t] = {}
  /\ DecrementWeakRef(popped[t])
  /\ popped' = [popped EXCEPT ![t] = NULL]
  /\ Goto(t, "loop")
  /\ UNCHANGED <<createVars, ref, member, handleVars, lockVars, queue, todo>>

\* in_progress = false
EndLoop(t) ==
  /\ pc[t] = "loop"
  /\ queue[t] = <<>>
  /\ Goto(t, IF fresh[t] = {} THEN "idle" ELSE "undo")
  /\ UNCHANGED <<createVars, counterVars, life, member, handleVars, lockVars, destroyVars>>

-----------------------------------------------------------------------------
Destroying(t) ==
  \/ Pop(t) \/ ReleasePopped(t) \/ EndLoop(t)
  \/ \E b \in Block : DropMember(t, b)

Next ==
  \E t \in Thread :
    \/ MakeShared(t) \/ WrapValue(t) \/ Allocate(t) \/ Construct(t)
    \/ AllocateFails(t) \/ ConstructFails(t) \/ UndoValue(t)
    \/ LockFails(t) \/ LockExchange(t) \/ Destroying(t)
    \/ \E b \in Block :
         CopyShared(t, b) \/ MakeWeak(t, b) \/ Lock(t, b)
           \/ DropShared(t, b) \/ DropWeak(t, b)

Spec == Init /\ [][Next]_vars

-----------------------------------------------------------------------------
\* The types of the variables.
TypeOK ==
  /\ ref \in [Block -> Nat] /\ weak \in [Block -> Nat]
  /\ life \in [Block -> {"free", "raw", "alive", "destroyed"}]
  /\ member \in [Block -> SUBSET Block]
  /\ shared \in [Block -> Nat] /\ weaks \in [Block -> Nat]
  /\ fresh \in [Thread -> SUBSET Block]
  /\ pointer \in [Thread -> Block \cup {NULL}]
  /\ pc \in [Thread -> {"idle", "lock", "create", "construct", "undo", "loop",
                       "destroy"}]
  /\ locked \in [Thread -> Block \cup {NULL}] /\ count \in [Thread -> Nat]
  /\ queue \in [Thread -> Seq(Block)]
  /\ popped \in [Thread -> Block \cup {NULL}]
  /\ todo \in [Thread -> SUBSET Block]

\* A SharedPtr, held by a client or by a value, has a value that is alive; a
\* WeakPtr has a block that is not freed.  Among others: lock() brings no
\* value back whose destruction has begun.
HandlesKeep ==
  \A b \in Block :
    /\ shared[b] > 0 => life[b] = "alive"
    /\ \A c \in Block : b \in member[c] => life[b] = "alive"
    /\ \A t \in Thread : b \in todo[t] \cup fresh[t] => life[b] = "alive"
    /\ weaks[b] > 0 => life[b] \in {"alive", "destroyed"}
    /\ \A t \in Thread : locked[t] = b => life[b] \in {"alive", "destroyed"}

\* A block is queued for destruction once, by one thread: its next_ is in one
\* list, and its value is destroyed one time.
QueuedOnce ==
  /\ \A t, u \in Thread :
       \A i \in 1..Len(queue[t]), j \in 1..Len(queue[u]) :
         queue[t][i] = queue[u][j] => t = u /\ i = j
  /\ \A t \in Thread : \A i \in 1..Len(queue[t]) :
       ref[queue[t][i]] = 0 /\ life[queue[t][i]] = "alive"

\* A block is freed after its value is destroyed, never before, although the
\* two counters belong to different handles.
FreedAfterDestroyed ==
  [][\A b \in Block : life[b] = "alive" => life'[b] \in {"alive", "destroyed"}]_vars

\* Both counters are the numbers of their owners, whatever fails while a block
\* is made: the strong one of the SharedPtrs of clients and values, the weak
\* one of the WeakPtrs and of the value that is not yet destroyed.
CountersAreExact ==
  \A b \in Block :
    /\ ref[b] = shared[b] + Cardinality({c \in Block : b \in member[c]})
                + Cardinality({t \in Thread : b \in todo[t]})
                + Cardinality({t \in Thread : b \in fresh[t]})
    /\ weak[b] = weaks[b] + Cardinality({t \in Thread : locked[t] = b})
                 + (IF life[b] = "alive" \/ \E t \in Thread : popped[t] = b
                      THEN 1 ELSE 0)

\* What nobody refers to is about to go, the members of a value that was the
\* last to refer to them included: a value without references is in the list
\* of a thread that is destroying, a block without a value has a WeakPtr or
\* is the one that such a thread works on, and memory without a block has a
\* thread that is about to construct one in it.
NothingLeaks ==
  \A b \in Block :
    /\ life[b] = "alive" /\ ref[b] = 0 =>
         \E t \in Thread :
           /\ pc[t] \in {"loop", "destroy"}
           /\ \E i \in 1..Len(queue[t]) : queue[t][i] = b
    /\ life[b] = "destroyed" =>
         \/ weaks[b] > 0
         \/ \E t \in Thread : locked[t] = b \/ popped[t] = b
    /\ life[b] = "raw" =>
         \E t \in Thread : pc[t] = "construct" /\ pointer[t] = b
=============================================================================
