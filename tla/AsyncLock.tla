----------------------------- MODULE AsyncLock -----------------------------
(***************************************************************************)
(* asyncio.Lock, the mutual exclusion primitive behind every multi-step    *)
(* operation of the gateway (external: a library, modelled from how the    *)
(* code uses it with `async with`).  Waiters are woken in FIFO order and a *)
(* newcomer never overtakes a queued waiter; cancelling a task takes it    *)
(* out of the queue.  A lock is a value, so that one module can own        *)
(* several of them.                                                        *)
(***************************************************************************)
EXTENDS Integers, Sequences

CONSTANTS Task,   \* the asyncio tasks that may take the lock
          NoTask  \* "held by nobody"

ASSUME NoTaskAssumption == NoTask \notin Task

Lock == [holder : Task \cup {NoTask}, queue : Seq(Task)]

Unlocked == [holder |-> NoTask, queue |-> <<>>]

\* Lock.acquire: taken at once when nobody holds it, else the caller waits.
Acquire(L, t) ==
  IF L.holder = NoTask THEN [holder |-> t, queue |-> L.queue]
                       ELSE [holder |-> L.holder, queue |-> Append(L.queue, t)]

\* Lock.release: the first waiter, if any, becomes the holder.
Release(L) ==
  IF L.queue = <<>> THEN [holder |-> NoTask, queue |-> <<>>]
                    ELSE [holder |-> Head(L.queue), queue |-> Tail(L.queue)]

\* The queue without its i-th waiter.
WithoutWaiter(q, i) == [j \in 1..(Len(q) - 1) |-> IF j < i THEN q[j] ELSE q[j + 1]]

\* Cancelling t: a holder's `async with` releases, a waiter leaves the queue.
Withdraw(L, t) ==
  IF L.holder = t THEN Release(L)
  ELSE IF \E i \in DOMAIN L.queue : L.queue[i] = t
       THEN [holder |-> L.holder,
             queue |-> WithoutWaiter(L.queue,
                                     CHOOSE i \in DOMAIN L.queue : L.queue[i] = t)]
       ELSE L
=============================================================================
