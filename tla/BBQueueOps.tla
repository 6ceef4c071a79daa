----------------------------- MODULE BBQueueOps -----------------------------
(***************************************************************************)
(* The arithmetic of crates/bbqueue-spicy/src/bbbuffer.rs: which contiguous *)
(* piece of the ring a write grant gets, where `last` is put when a grant   *)
(* is committed, and which bytes a reader may take.  The operators are pure *)
(* functions of the indices the code has loaded, so that the module that    *)
(* interleaves the two sides (BBBuffer) and the modules that take an        *)
(* operation as one step (Pipe) share one translation of the code.          *)
(*                                                                         *)
(* Indices are natural numbers.  In the code they are usize and no sum of   *)
(* an index and a request wraps as long as N plus the request fits a usize, *)
(* which FrameProducer::grant guarantees (requests are at most 65535 + 2).  *)
(***************************************************************************)
EXTENDS Integers

CONSTANT N          \* the const generic of BBBuffer<N>: bytes of storage

ASSUME NAssumption == N \in Nat \ {0}

Smaller(a, b) == IF a <= b THEN a ELSE b       \* core::cmp::min

Index == 0 .. N

\* The ring is inverted when the writer has wrapped and the reader has not.
Inverted(write, read) == write < read

-----------------------------------------------------------------------------
\* What a call answers: Err(InsufficientSize) or a grant buf[start ..][.. len].
NoGrant == [ok |-> FALSE, start |-> 0, len |-> 0]
GrantAt(start, len) == [ok |-> TRUE, start |-> start, len |-> len]

\* Mutation: a grant that wraps may reach the reader.
ExactGrantTouches(write, read, sz) ==
  CASE Inverted(write, read) /\ write + sz < read   -> GrantAt(write, sz)
    [] ~Inverted(write, read) /\ write + sz <= N    -> GrantAt(write, sz)
    [] /\ ~Inverted(write, read)
       /\ write + sz > N
       /\ sz <= read                                -> GrantAt(0, sz)
    [] OTHER                                        -> NoGrant

\* Mutation: a grant never wraps.
ExactGrantStraight(write, read, sz) ==
  CASE Inverted(write, read) /\ write + sz < read   -> GrantAt(write, sz)
    [] ~Inverted(write, read) /\ write + sz <= N    -> GrantAt(write, sz)
    [] OTHER                                        -> NoGrant

\* Producer::grant_exact, once `write` and `read` are loaded.
ExactGrant(write, read, sz) ==
  CASE Inverted(write, read) /\ write + sz < read   -> GrantAt(write, sz)
    [] ~Inverted(write, read) /\ write + sz <= N    -> GrantAt(write, sz)
    [] /\ ~Inverted(write, read)
       /\ write + sz > N
       /\ sz < read                                 -> GrantAt(0, sz)
    [] OTHER                                        -> NoGrant

\* Mutation: the reader ahead of an inverted ring is overlooked.
MaxRemainingPastReader(write, read, sz) ==
  CASE write # N             -> GrantAt(write, Smaller(N - write, sz))
    [] write = N /\ read > 1 -> GrantAt(0, Smaller(read - 1, sz))
    [] OTHER                 -> NoGrant

\* Mutation: what does not fit at the end is put at the start.
MaxRemainingSkips(write, read, sz) ==
  CASE Inverted(write, read) /\ read - write - 1 # 0
                              -> GrantAt(write, Smaller(read - write - 1, sz))
    [] ~Inverted(write, read) /\ (write + sz > N \/ write = N) /\ read > 1
                              -> GrantAt(0, Smaller(read - 1, sz))
    [] ~Inverted(write, read) /\ write # N
                              -> GrantAt(write, Smaller(N - write, sz))
    [] OTHER                  -> NoGrant

\* Producer::grant_max_remaining, once `write` and `read` are loaded.
MaxRemainingGrant(write, read, sz) ==
  CASE Inverted(write, read) /\ read - write - 1 # 0
                              -> GrantAt(write, Smaller(read - write - 1, sz))
    [] ~Inverted(write, read) /\ write # N
                              -> GrantAt(write, Smaller(N - write, sz))
    [] ~Inverted(write, read) /\ write = N /\ read > 1
                              -> GrantAt(0, Smaller(read - 1, sz))
    [] OTHER                  -> NoGrant

\* Mutation: a wrap does not mark where it left the end of the ring.
LastNotMarked(write, last, newWrite) == IF newWrite > last THEN N ELSE last

\* GrantW::commit_inner: the value of `last` once the branch on it has run.
LastAfterCommit(write, last, newWrite) ==
  IF newWrite < write /\ write # N THEN write
  ELSE IF newWrite > last THEN N
  ELSE last

\* Mutation: the reader goes back to 0 whether the ring is inverted or not.
ResolvedAtAnyEnd(write, last, read) == IF read = last THEN 0 ELSE read

\* Mutation: the reader never goes back to 0.
ResolvedNever(write, last, read) == read

\* Consumer::read and split_read: the reader has reached the end of the
\* inverted ring and starts again at 0.
ResolvedRead(write, last, read) ==
  IF read = last /\ write < read THEN 0 ELSE read

\* Bytes in the first slice, from the (resolved) read index on, and in the
\* second one, from 0 on (split_read only).
FirstLen(write, last, read) == (IF write < read THEN last ELSE write) - read
SecondLen(write, read)      == IF write < read THEN write ELSE 0

\* SplitGrantR::release_inner: the read index after `used` bytes of two slices
\* are released; with an empty second slice it is GrantR::release_inner.
ReadAfterRelease(read, len1, used) ==
  IF used <= len1 THEN read + used ELSE used - len1
=============================================================================
