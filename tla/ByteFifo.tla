------------------------------ MODULE ByteFifo ------------------------------
(***************************************************************************)
(* What a BBBuffer promises its two users, without a ring, indices or       *)
(* concurrency: a bounded first-in first-out queue of bytes.  The writer    *)
(* prepares some bytes and appends the first of them in one step; the       *)
(* reader looks at a non-empty prefix of the queue and later removes some   *)
(* of what it looked at.  While it looks, what it sees does not change,     *)
(* whatever the writer does.                                                *)
(***************************************************************************)
EXTENDS Integers, Sequences

CONSTANTS Byte,          \* the values a byte of the buffer may have
          Capacity       \* how many bytes fit

VARIABLES staged,        \* the bytes of the grant the writer holds
          queue,         \* the bytes committed and not yet released
          view           \* the bytes the reader holds a grant for

fifoVars == <<staged, queue, view>>

IsPrefixOf(s, t) ==
  /\ Len(s) <= Len(t)
  /\ \A i \in 1 .. Len(s) : s[i] = t[i]

FifoInit == staged = <<>> /\ queue = <<>> /\ view = <<>>

\* The writer takes a grant or stores bytes through it, which nobody sees.
Stage ==
  /\ staged' \in Seq(Byte) /\ Len(staged') <= Capacity
  /\ UNCHANGED <<queue, view>>

\* A commit: the first bytes prepared follow what is queued, and nothing else.
Put ==
  /\ \E k \in 0 .. Len(staged) : queue' = queue \o SubSeq(staged, 1, k)
  /\ Len(queue') <= Capacity
  /\ staged' = <<>>
  /\ UNCHANGED view

\* A read grant: a non-empty prefix of the queue.
Look ==
  /\ view = <<>>
  /\ view' # <<>>
  /\ IsPrefixOf(view', queue)
  /\ UNCHANGED <<staged, queue>>

\* A release of some (possibly none) of the bytes granted.
Release ==
  /\ view # <<>>
  /\ \E k \in 0 .. Len(view) :
        queue' = [i \in 1 .. Len(queue) - k |-> queue[i + k]]
  /\ view' = <<>>
  /\ UNCHANGED staged

FifoNext == Stage \/ Put \/ Look \/ Release

FifoSpec == FifoInit /\ [][FifoNext]_fifoVars
=============================================================================
