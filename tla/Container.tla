----------------------------- MODULE Container -----------------------------
(***************************************************************************)
(* What LockFreeStack and LockFreeQueue promise: push and pop take effect  *)
(* one at a time, at one moment between the call and the return, on a      *)
(* sequence whose head is what the next pop returns.                       *)
(***************************************************************************)
EXTENDS Sequences

CONSTANTS
  Thread, Value,
  None,             \* std::nullopt
  Inserted(_, _)    \* the sequence after a push

VARIABLES
  contents,
  op,               \* the call a thread is in, until it takes effect
  arg,              \* the value it pushes
  answer            \* what it has returned, until its thread's next call

containerVars == <<contents, op, arg, answer>>

ContainerInit ==
  /\ contents = <<>>
  /\ op = [t \in Thread |-> "none"]
  /\ arg = [t \in Thread |-> None]
  /\ answer = [t \in Thread |-> None]

CallPush(t, v) ==
  /\ op[t] = "none"
  /\ op' = [op EXCEPT ![t] = "push"]
  /\ arg' = [arg EXCEPT ![t] = v]
  /\ answer' = [answer EXCEPT ![t] = None]
  /\ UNCHANGED contents

CallPop(t) ==
  /\ op[t] = "none"
  /\ op' = [op EXCEPT ![t] = "pop"]
  /\ answer' = [answer EXCEPT ![t] = None]
  /\ UNCHANGED <<contents, arg>>

PushTakesEffect(t) ==
  /\ op[t] = "push"
  /\ contents' = Inserted(contents, arg[t])
  /\ op' = [op EXCEPT ![t] = "none"]
  /\ arg' = [arg EXCEPT ![t] = None]
  /\ UNCHANGED answer

PopTakesEffect(t) ==
  /\ op[t] = "pop"
  /\ IF contents = <<>>
       THEN answer' = [answer EXCEPT ![t] = None] /\ UNCHANGED contents
       ELSE /\ answer' = [answer EXCEPT ![t] = Head(contents)]
            /\ contents' = Tail(contents)
  /\ op' = [op EXCEPT ![t] = "none"]
  /\ UNCHANGED arg

ContainerNext ==
  \E t \in Thread :
    \/ \E v \in Value : CallPush(t, v)
    \/ CallPop(t)
    \/ PushTakesEffect(t)
    \/ PopTakesEffect(t)

ContainerSpec == ContainerInit /\ [][ContainerNext]_containerVars
=============================================================================
