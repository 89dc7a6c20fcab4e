---------------------------- MODULE AbstractLock ----------------------------
(***************************************************************************)
(* What coro::mutex promises its users: a lock with at most one owner and  *)
(* a FIFO queue of coroutines blocked on it.  A coroutine takes a free     *)
(* lock only when nobody is queued; unlocking hands the lock straight to   *)
(* the oldest queued coroutine, or frees it when the queue is empty.       *)
(***************************************************************************)
EXTENDS Sequences, SequencesExt

CONSTANTS Coro, NoCoro

VARIABLES owner, waiting

vars == <<owner, waiting>>

Init ==
  /\ owner = NoCoro
  /\ waiting = <<>>

Acquire(c) ==
  /\ owner = NoCoro
  /\ waiting = <<>>
  /\ owner' = c
  /\ UNCHANGED waiting

Block(c) ==
  /\ owner \notin {NoCoro, c}
  /\ ~Contains(waiting, c)
  /\ waiting' = Append(waiting, c)
  /\ UNCHANGED owner

Release ==
  /\ owner # NoCoro
  /\ owner' = IF waiting = <<>> THEN NoCoro ELSE Head(waiting)
  /\ waiting' = IF waiting = <<>> THEN <<>> ELSE Tail(waiting)

Next ==
  \/ \E c \in Coro : Acquire(c) \/ Block(c)
  \/ Release

Spec == Init /\ [][Next]_vars

=============================================================================
