------------------------------ MODULE LockWord ------------------------------
(***************************************************************************)
(* AtomicLockState (crates/lock/src/fast_lock/state.rs): the u64 in which  *)
(* one object's lock is packed, as the record of its fields.  Every        *)
(* operator is the effect of one successful compare-and-swap loop.         *)
(* MaxReaders is the reader field's 0xFF and MaxWaiting the 0xFFFF of each *)
(* waiting field.  Module PackedWord shows that the packed word implements *)
(* these operators.                                                        *)
(***************************************************************************)
EXTENDS Naturals

CONSTANTS MaxReaders, MaxWaiting

ASSUME WidthAssumption == /\ MaxReaders \in Nat \ {0}
                          /\ MaxWaiting \in Nat \ {0}

Modes == {"Shared", "Exclusive"}

LockWords == [writer  : BOOLEAN,
              readers : 0..MaxReaders,
              rwait   : 0..MaxWaiting,
              wwait   : 0..MaxWaiting]

\* COMPLETELY_UNLOCKED: no flag and no count, waiting counts included.
FreeWord == [writer |-> FALSE, readers |-> 0, rwait |-> 0, wwait |-> 0]

\* Faulty: the reader field's limit is not checked.
CanShareWithoutLimit(w) == ~w.writer /\ w.wwait = 0

\* try_acquire_shared: no writer, no waiting writer, and room in the field.
CanShare(w) == ~w.writer /\ w.wwait = 0 /\ w.readers < MaxReaders

\* Faulty: only the writer flag is compared.
CanOwnIgnoringReaders(w) == ~w.writer

\* try_acquire_exclusive: the compare-and-swap expects the whole word to be 0.
CanOwn(w) == w = FreeWord

CanAcquire(w, m) == IF m = "Shared" THEN CanShare(w) ELSE CanOwn(w)

Acquired(w, m) == IF m = "Shared" THEN [w EXCEPT !.readers = @ + 1]
                                  ELSE [w EXCEPT !.writer = TRUE]

\* release_shared and release_exclusive return false instead of going below 0.
CanRelease(w, m) == IF m = "Shared" THEN w.readers > 0 ELSE w.writer

\* Faulty: the last release's effect for every reader.
ReleasedAllReaders(w, m) == IF m = "Shared" THEN [w EXCEPT !.readers = 0]
                                            ELSE [w EXCEPT !.writer = FALSE]

Released(w, m) == IF m = "Shared" THEN [w EXCEPT !.readers = @ - 1]
                                  ELSE [w EXCEPT !.writer = FALSE]

\* inc_readers_waiting and inc_writers_waiting saturate at the field's limit.
IncWaiting(w, m) ==
  IF m = "Shared"
  THEN [w EXCEPT !.rwait = IF @ = MaxWaiting THEN @ ELSE @ + 1]
  ELSE [w EXCEPT !.wwait = IF @ = MaxWaiting THEN @ ELSE @ + 1]

\* dec_readers_waiting and dec_writers_waiting stop at 0.
DecWaiting(w, m) ==
  IF m = "Shared"
  THEN [w EXCEPT !.rwait = IF @ = 0 THEN @ ELSE @ - 1]
  ELSE [w EXCEPT !.wwait = IF @ = 0 THEN @ ELSE @ - 1]

HasWaiters(w) == w.rwait > 0 \/ w.wwait > 0

=============================================================================
