-------------------------- MODULE AsyncLock_proofs --------------------------
(***************************************************************************)
(* What the operations of AsyncLock preserve and who holds the lock after  *)
(* them, for every lock and task.                                          *)
(***************************************************************************)
EXTENDS AsyncLock, TLAPS

\* Whoever queues for a lock leaves it a lock.
LEMMA AcquireType ==
  ASSUME NEW L \in Lock, NEW t \in Task
  PROVE  Acquire(L, t) \in Lock
BY DEF Acquire, Lock

\* A release hands a lock to a task of its queue or to nobody.
LEMMA ReleaseType ==
  ASSUME NEW L \in Lock
  PROVE  Release(L) \in Lock
<1>1. CASE L.queue = <<>>  BY <1>1 DEF Release, Lock
<1>2. CASE L.queue # <<>>
  <2>1. L.queue \in Seq(Task)  BY DEF Lock
  <2>2. Head(L.queue) \in Task /\ Tail(L.queue) \in Seq(Task)  BY <1>2, <2>1
  <2> QED  BY <1>2, <2>2 DEF Release, Lock
<1> QED  BY <1>1, <1>2

\* A queue without one of its waiters is a queue.
LEMMA WithoutWaiterType ==
  ASSUME NEW q \in Seq(Task), NEW i \in DOMAIN q
  PROVE  WithoutWaiter(q, i) \in Seq(Task)
<1>1. Len(q) \in Nat /\ DOMAIN q = 1..Len(q)  OBVIOUS
<1>2. Len(q) - 1 \in Nat  BY <1>1
<1>3. \A j \in 1..(Len(q) - 1) : (IF j < i THEN q[j] ELSE q[j + 1]) \in Task
  <2> SUFFICES ASSUME NEW j \in 1..(Len(q) - 1)
               PROVE  q[j] \in Task /\ q[j + 1] \in Task
    OBVIOUS
  <2>1. j \in 1..Len(q) /\ j + 1 \in 1..Len(q)  BY <1>1
  <2> QED  BY <2>1
<1>4. WithoutWaiter(q, i) \in [1..(Len(q) - 1) -> Task]  BY <1>3 DEF WithoutWaiter
<1> QED  BY <1>2, <1>4

\* Cancelling a task leaves a lock a lock.
LEMMA WithdrawType ==
  ASSUME NEW L \in Lock, NEW t \in Task
  PROVE  Withdraw(L, t) \in Lock
<1>1. CASE L.holder = t  BY <1>1, ReleaseType DEF Withdraw
<1>2. CASE L.holder # t /\ \E i \in DOMAIN L.queue : L.queue[i] = t
  <2> DEFINE i == CHOOSE i \in DOMAIN L.queue : L.queue[i] = t
  <2>1. i \in DOMAIN L.queue  BY <1>2
  <2>2. L.queue \in Seq(Task) /\ L.holder \in Task \cup {NoTask}  BY DEF Lock
  <2>3. WithoutWaiter(L.queue, i) \in Seq(Task)  BY <2>1, <2>2, WithoutWaiterType
  <2>4. Withdraw(L, t) = [holder |-> L.holder, queue |-> WithoutWaiter(L.queue, i)]
    BY <1>2 DEF Withdraw
  <2> QED  BY <2>2, <2>3, <2>4 DEF Lock
<1>3. CASE L.holder # t /\ ~\E i \in DOMAIN L.queue : L.queue[i] = t
  BY <1>3 DEF Withdraw
<1> QED  BY <1>1, <1>2, <1>3

\* A newcomer never takes a lock somebody holds.
LEMMA AcquireHolder ==
  ASSUME NEW L \in Lock, NEW t \in Task
  PROVE  /\ L.holder # NoTask => Acquire(L, t).holder = L.holder
         /\ L.holder = NoTask => Acquire(L, t).holder = t
BY DEF Acquire, Lock

\* Cancelling a task that does not hold the lock does not move it.
LEMMA WithdrawHolder ==
  ASSUME NEW L \in Lock, NEW t \in Task, L.holder # t
  PROVE  Withdraw(L, t).holder = L.holder
BY DEF Withdraw, Lock
-----------------------------------------------------------------------------
(* A task has its place at a lock from Acquire until it releases the lock or *)
(* is cancelled, and a lock with waiters is never left without a holder.     *)
HasPlace(L, t) == L.holder = t \/ \E i \in DOMAIN L.queue : L.queue[i] = t
NeverIdle(L) == L.holder = NoTask => L.queue = <<>>

\* Whoever asks gets a place, and nobody loses one.
LEMMA AcquirePlaces ==
  ASSUME NEW L \in Lock, NEW t \in Task, NeverIdle(L)
  PROVE  /\ NeverIdle(Acquire(L, t)) /\ HasPlace(Acquire(L, t), t)
         /\ \A u \in Task : HasPlace(L, u) => HasPlace(Acquire(L, t), u)
<1>1. CASE L.holder = NoTask
  BY <1>1, NoTaskAssumption DEF Acquire, NeverIdle, HasPlace, Lock
<1>2. CASE L.holder # NoTask
  <2> DEFINE q == Append(L.queue, t)
  <2>1. Acquire(L, t).holder = L.holder /\ Acquire(L, t).queue = q
    BY <1>2 DEF Acquire
  <2>2. L.queue \in Seq(Task)  BY DEF Lock
  <2>3. /\ DOMAIN L.queue = 1..Len(L.queue) /\ DOMAIN q = 1..(Len(L.queue) + 1) /\ Len(L.queue) \in Nat
        /\ q[Len(L.queue) + 1] = t /\ \A i \in 1..Len(L.queue) : q[i] = L.queue[i]
    BY <2>2
  <2>4. Len(L.queue) + 1 \in DOMAIN q /\ DOMAIN L.queue \subseteq DOMAIN q
    BY <2>3
  <2> HIDE DEF q
  <2>5. HasPlace(Acquire(L, t), t)  BY <2>1, <2>3, <2>4 DEF HasPlace
  <2>6. \A u \in Task : HasPlace(L, u) => HasPlace(Acquire(L, t), u)
    BY <2>1, <2>3, <2>4 DEF HasPlace
  <2> QED  BY <1>2, <2>1, <2>5, <2>6 DEF NeverIdle
<1> QED  BY <1>1, <1>2

\* A release costs the holder its place only, and wakes a waiter.
LEMMA ReleasePlaces ==
  ASSUME NEW L \in Lock
  PROVE  /\ NeverIdle(Release(L))
         /\ \A u \in Task : HasPlace(L, u) /\ u # L.holder => HasPlace(Release(L), u)
<1>0. L.queue \in Seq(Task)  BY DEF Lock
<1>1. CASE L.queue = <<>>
  BY <1>1 DEF Release, NeverIdle, HasPlace
<1>2. CASE L.queue # <<>>
  <2>1. Release(L).holder = Head(L.queue) /\ Release(L).queue = Tail(L.queue)  BY <1>2 DEF Release
  <2>2. Head(L.queue) \in Task  BY <1>0, <1>2
  <2>3. ASSUME NEW u \in Task, NEW i \in DOMAIN L.queue, L.queue[i] = u
        PROVE  HasPlace(Release(L), u)
    <3>1. CASE i = 1  BY <1>0, <1>2, <2>1, <2>3, <3>1 DEF HasPlace
    <3>2. CASE i # 1
      <4>1. i - 1 \in DOMAIN Tail(L.queue) /\ Tail(L.queue)[i - 1] = L.queue[i]
        BY <1>0, <1>2, <2>3, <3>2
      <4> QED  BY <2>1, <2>3, <4>1 DEF HasPlace
    <3> QED  BY <3>1, <3>2
  <2> QED  BY <2>1, <2>2, <2>3, NoTaskAssumption DEF HasPlace, NeverIdle
<1> QED  BY <1>1, <1>2

\* A cancelled task loses its place, and nobody else does.
LEMMA WithdrawPlaces ==
  ASSUME NEW L \in Lock, NEW t \in Task, NeverIdle(L)
  PROVE  /\ NeverIdle(Withdraw(L, t))
         /\ \A u \in Task \ {t} : HasPlace(L, u) => HasPlace(Withdraw(L, t), u)
<1>0. L.queue \in Seq(Task)  BY DEF Lock
<1>1. CASE L.holder = t  BY <1>1, ReleasePlaces DEF Withdraw
<1>2. CASE L.holder # t /\ \E i \in DOMAIN L.queue : L.queue[i] = t
  <2> DEFINE k == CHOOSE i \in DOMAIN L.queue : L.queue[i] = t
             q == WithoutWaiter(L.queue, k)
  <2>1. k \in DOMAIN L.queue /\ L.queue[k] = t  BY <1>2
  <2>2. Withdraw(L, t).holder = L.holder /\ Withdraw(L, t).queue = q  BY <1>2 DEF Withdraw
  <2>3. NeverIdle(Withdraw(L, t))
    <3>1. L.queue # <<>>  BY <1>0, <2>1
    <3> QED  BY <2>2, <3>1 DEF NeverIdle
  <2> HIDE DEF k
  <2>4. /\ DOMAIN q = 1..(Len(L.queue) - 1) /\ Len(L.queue) \in Nat /\ k \in 1..Len(L.queue)
        /\ \A j \in 1..(Len(L.queue) - 1) : q[j] = IF j < k THEN L.queue[j] ELSE L.queue[j + 1]
    BY <1>0, <2>1 DEF WithoutWaiter
  <2> HIDE DEF q
  <2>5. ASSUME NEW u \in Task \ {t}, NEW i \in DOMAIN L.queue, L.queue[i] = u
        PROVE  \E j \in DOMAIN q : q[j] = u
    <3>0. i \in 1..Len(L.queue) /\ i # k  BY <1>0, <2>1, <2>5
    <3>1. CASE i < k
      <4>1. i \in DOMAIN q /\ q[i] = u  BY <2>4, <2>5, <3>0, <3>1
      <4> QED  BY <4>1
    <3>2. CASE i > k
      <4>1. i - 1 \in DOMAIN q /\ q[i - 1] = L.queue[(i - 1) + 1] /\ (i - 1) + 1 = i
        BY <2>4, <3>0, <3>2
      <4> QED  BY <2>5, <4>1
    <3> QED  BY <2>4, <3>0, <3>1, <3>2
  <2> QED  BY <2>2, <2>3, <2>5 DEF HasPlace
<1>3. CASE L.holder # t /\ ~\E i \in DOMAIN L.queue : L.queue[i] = t
  BY <1>3 DEF Withdraw
<1> QED  BY <1>1, <1>2, <1>3

=============================================================================
