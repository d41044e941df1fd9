----------------------------- MODULE PackedWord -----------------------------
(***************************************************************************)
(* AtomicLockState (crates/lock/src/fast_lock/state.rs) as the code has    *)
(* it: one unsigned word, its fields picked out with masks and shifts and  *)
(* changed by adding or subtracting a field's unit.  The layout is the     *)
(* code's, with ReaderUnit = 2^READERS_SHIFT and the widths of LockWord's  *)
(* MaxReaders (0xFF) and MaxWaiting (0xFFFF) scaled down for TLC.          *)
(*                                                                         *)
(* Each action is one successful iteration of a compare-and-swap loop.     *)
(***************************************************************************)
EXTENDS LockWord

CONSTANT ReaderUnit   \* 1 << READERS_SHIFT

ASSUME LayoutAssumption == ReaderUnit \in Nat /\ \E k \in 1..ReaderUnit : ReaderUnit = 2 * k

VARIABLE state

ReaderWaitUnit == ReaderUnit * (MaxReaders + 1)

WriterWaitUnit == ReaderWaitUnit * (MaxWaiting + 1)

\* (state & MASK) >> SHIFT
Field(s, unit, max) == (s \div unit) % (max + 1)

writer_flag(s) == s % 2

readers_count(s) == Field(s, ReaderUnit, MaxReaders)

readers_waiting(s) == Field(s, ReaderWaitUnit, MaxWaiting)

writers_waiting(s) == Field(s, WriterWaitUnit, MaxWaiting)

\* state & NO_WRITER_AND_NO_WAITING_WRITERS
WriterBits(s) == writer_flag(s) + writers_waiting(s) * WriterWaitUnit

MayShare(s) == WriterBits(s) = 0 /\ readers_count(s) # MaxReaders

MayOwn(s) == s = 0

PackedInit == state = 0

try_acquire_shared ==
  /\ MayShare(state)
  /\ state' = state + ReaderUnit

try_acquire_exclusive ==
  /\ MayOwn(state)
  /\ state' = 1

release_shared ==
  /\ readers_count(state) # 0
  /\ state' = state - ReaderUnit

release_exclusive ==
  /\ writer_flag(state) # 0
  /\ state' = state - writer_flag(state)

inc_readers_waiting ==
  /\ readers_waiting(state) # MaxWaiting
  /\ state' = state + ReaderWaitUnit

\* Faulty: the decrement is not checked and borrows from the next field.
DecReadersUnchecked ==
  /\ state >= ReaderWaitUnit
  /\ state' = state - ReaderWaitUnit

dec_readers_waiting ==
  /\ readers_waiting(state) # 0
  /\ state' = state - ReaderWaitUnit

\* Faulty: the increment is not checked at the field's limit.
IncWritersUnchecked == state' = state + WriterWaitUnit

inc_writers_waiting ==
  /\ writers_waiting(state) # MaxWaiting
  /\ state' = state + WriterWaitUnit

dec_writers_waiting ==
  /\ writers_waiting(state) # 0
  /\ state' = state - WriterWaitUnit

PackedNext ==
  \/ try_acquire_shared \/ release_shared
  \/ try_acquire_exclusive \/ release_exclusive
  \/ inc_readers_waiting \/ dec_readers_waiting
  \/ inc_writers_waiting \/ dec_writers_waiting

PackedSpec == PackedInit /\ [][PackedNext]_state

-----------------------------------------------------------------------------
(* Properties. *)

\* The record that the word stands for.
Unpacked(s) == [writer  |-> writer_flag(s) = 1,
                readers |-> readers_count(s),
                rwait   |-> readers_waiting(s),
                wwait   |-> writers_waiting(s)]

\* One operation on the fields, as LockWord has them.
FieldStep(v, w) ==
  \E m \in Modes :
    \/ CanAcquire(v, m) /\ w = Acquired(v, m)
    \/ CanRelease(v, m) /\ w = Released(v, m)
    \/ w = IncWaiting(v, m)
    \/ w = DecWaiting(v, m)

\* Arithmetic on the whole word changes one field and never carries into or
\* borrows from its neighbours, at the fields' limits too.
PackedStepIsFieldStep == [][FieldStep(Unpacked(state), Unpacked(state'))]_state

\* The masks of the two fast paths say what LockWord says of the fields, and
\* no bit outside the fields is ever set, without which the whole-word compare
\* of try_acquire_exclusive could never succeed again.
MasksAgree ==
  /\ MayShare(state) <=> CanShare(Unpacked(state))
  /\ MayOwn(state) <=> CanOwn(Unpacked(state))

=============================================================================
