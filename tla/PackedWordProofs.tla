-------------------------- MODULE PackedWordProofs --------------------------
(***************************************************************************)
(* The packed word for any widths of its fields, the code's 8 and 16 bits  *)
(* included.  The argument: every reachable word is a sum of field values  *)
(* within their limits, each times its field's unit (Layout), and of such  *)
(* a sum the masks and shifts give back the values (Fields).               *)
(***************************************************************************)
EXTENDS PackedWord, Integers, TLAPS

USE WidthAssumption DEF WidthAssumption

Packed(f, r, p, q) == f + r * ReaderUnit + p * ReaderWaitUnit + q * WriterWaitUnit

\* The word is the sum of its fields; nothing is set outside them.
Layout ==
  \E f \in 0..1, r \in 0..MaxReaders, p, q \in 0..MaxWaiting : state = Packed(f, r, p, q)

-----------------------------------------------------------------------------
(* Arithmetic. *)

\* A product of a positive unit grows by at least the unit.
LEMMA ProductGrows ==
  ASSUME NEW u \in Nat \ {0}, NEW a \in Int, NEW b \in Int, a < b
  PROVE  a * u + u <= b * u
<1>1. PICK c \in Nat : b = a + 1 + c
  <2>1. b - a - 1 \in Nat /\ b = a + 1 + (b - a - 1)
    OBVIOUS
  <2> QED
    BY <2>1
<1>2. b * u = a * u + u + c * u
  BY <1>1
<1>3. c * u >= 0
  OBVIOUS
<1> QED
  BY <1>2, <1>3

\* Shifting and masking: quotient and remainder of a number put together from them.
LEMMA Division ==
  ASSUME NEW u \in Nat \ {0}, NEW a \in Nat, NEW x \in Nat, x < u
  PROVE  (a * u + x) \div u = a /\ (a * u + x) % u = x
<1> DEFINE n == a * u + x
           d == n \div u
           y == n % u
<1>1. n \in Nat
  OBVIOUS
<1> HIDE DEF n
<1>2. d \in Int /\ y \in 0..(u - 1) /\ n = u * d + y
  BY <1>1
<1> HIDE DEF d, y
<1>3. u * d = d * u
  BY <1>2
<1>4. a * u + x = d * u + y
  BY <1>2, <1>3 DEF n
<1>5. ~(a < d)
  <2>1. a < d => a * u + u <= d * u
    BY <1>2, ProductGrows
  <2>2. a * u \in Int /\ d * u \in Int
    BY <1>2
  <2> QED
    BY <1>2, <1>4, <2>1, <2>2
<1>6. ~(d < a)
  <2>1. d < a => d * u + u <= a * u
    BY <1>2, ProductGrows
  <2>2. a * u \in Int /\ d * u \in Int
    BY <1>2
  <2> QED
    BY <1>2, <1>4, <2>1, <2>2
<1>7. a = d /\ x = y
  <2>1. a = d
    BY <1>2, <1>5, <1>6
  <2>2. a * u \in Int
    OBVIOUS
  <2> QED
    BY <1>2, <1>4, <2>1, <2>2
<1> QED
  BY <1>7 DEF n, d, y

-----------------------------------------------------------------------------
(* The fields of a word. *)

LEMMA Units ==
  /\ ReaderUnit \in Nat \ {0} /\ ReaderUnit > 1
  /\ ReaderWaitUnit \in Nat \ {0} /\ WriterWaitUnit \in Nat \ {0}
  /\ ReaderWaitUnit = (MaxReaders + 1) * ReaderUnit
  /\ WriterWaitUnit = (MaxWaiting + 1) * ReaderWaitUnit
<1>1. ReaderUnit \in Nat /\ ReaderUnit > 1
  BY LayoutAssumption DEF LayoutAssumption
<1>2. ReaderWaitUnit \in Nat /\ ReaderWaitUnit = (MaxReaders + 1) * ReaderUnit
  BY <1>1 DEF ReaderWaitUnit
<1>3. ReaderWaitUnit > 0
  <2>1. 0 * ReaderUnit + ReaderUnit <= (MaxReaders + 1) * ReaderUnit
    BY <1>1, ProductGrows
  <2> QED
    BY <1>1, <1>2, <2>1
<1>4. WriterWaitUnit \in Nat /\ WriterWaitUnit = (MaxWaiting + 1) * ReaderWaitUnit
  BY <1>2 DEF WriterWaitUnit
<1>5. WriterWaitUnit > 0
  <2>1. 0 * ReaderWaitUnit + ReaderWaitUnit <= (MaxWaiting + 1) * ReaderWaitUnit
    BY <1>2, <1>3, ProductGrows
  <2> QED
    BY <1>2, <1>3, <1>4, <2>1
<1> QED
  BY <1>1, <1>2, <1>3, <1>4, <1>5

\* What lies below a field is less than the field's unit.
LEMMA Below ==
  ASSUME NEW f \in 0..1, NEW r \in 0..MaxReaders, NEW p \in 0..MaxWaiting
  PROVE  /\ f + r * ReaderUnit \in Nat /\ f + r * ReaderUnit < ReaderWaitUnit
         /\ f + r * ReaderUnit + p * ReaderWaitUnit \in Nat
         /\ f + r * ReaderUnit + p * ReaderWaitUnit < WriterWaitUnit
<1>1. r * ReaderUnit \in Nat /\ p * ReaderWaitUnit \in Nat
  BY Units
<1>2. r * ReaderUnit + ReaderUnit <= (MaxReaders + 1) * ReaderUnit
  BY Units, ProductGrows
<1>3. p * ReaderWaitUnit + ReaderWaitUnit <= (MaxWaiting + 1) * ReaderWaitUnit
  BY Units, ProductGrows
<1> QED
  BY Units, <1>1, <1>2, <1>3

\* The word as a multiple of each unit and the rest.
LEMMA Splits ==
  ASSUME NEW f \in 0..1, NEW r \in 0..MaxReaders, NEW p \in 0..MaxWaiting, NEW q \in 0..MaxWaiting
  PROVE  /\ Packed(f, r, p, q) \in Nat
         /\ Packed(f, r, p, q) = q * WriterWaitUnit + (f + r * ReaderUnit + p * ReaderWaitUnit)
         /\ Packed(f, r, p, q) = (q * (MaxWaiting + 1) + p) * ReaderWaitUnit + (f + r * ReaderUnit)
         /\ Packed(f, r, p, q)
              = ((q * (MaxWaiting + 1) + p) * (MaxReaders + 1) + r) * ReaderUnit + f
<1> DEFINE h == q * (MaxWaiting + 1)
<1>1. /\ r * ReaderUnit \in Nat /\ p * ReaderWaitUnit \in Nat /\ q * WriterWaitUnit \in Nat
      /\ h \in Nat /\ ReaderUnit \in Nat /\ ReaderWaitUnit \in Nat
  BY Units
<1>2. q * WriterWaitUnit = h * ReaderWaitUnit
  BY Units
<1> HIDE DEF h
<1>3. (h + p) * ReaderWaitUnit = h * ReaderWaitUnit + p * ReaderWaitUnit
  BY <1>1
<1>4. (h + p) * ReaderWaitUnit = ((h + p) * (MaxReaders + 1)) * ReaderUnit
  BY <1>1, Units
<1> DEFINE g == (h + p) * (MaxReaders + 1)
<1>5. g \in Nat /\ h * ReaderWaitUnit \in Nat /\ g * ReaderUnit \in Nat
  BY <1>1
<1>6. (g + r) * ReaderUnit = g * ReaderUnit + r * ReaderUnit
  BY <1>1, <1>5
<1>7. Packed(f, r, p, q) = f + r * ReaderUnit + p * ReaderWaitUnit + q * WriterWaitUnit
  BY DEF Packed
<1> HIDE DEF g
<1>8. Packed(f, r, p, q) = (g + r) * ReaderUnit + f
  BY <1>1, <1>2, <1>3, <1>4, <1>5, <1>6, <1>7 DEF g
<1>9. Packed(f, r, p, q) = (h + p) * ReaderWaitUnit + (f + r * ReaderUnit)
  BY <1>1, <1>2, <1>3, <1>5, <1>7
<1>10. Packed(f, r, p, q) \in Nat
       /\ Packed(f, r, p, q) = q * WriterWaitUnit + (f + r * ReaderUnit + p * ReaderWaitUnit)
  BY <1>1, <1>7
<1> QED
  BY <1>8, <1>9, <1>10 DEF g, h

\* The masks and shifts give back the values a word was put together from.
LEMMA Fields ==
  ASSUME NEW f \in 0..1, NEW r \in 0..MaxReaders, NEW p \in 0..MaxWaiting, NEW q \in 0..MaxWaiting,
         NEW s, s = Packed(f, r, p, q)
  PROVE  writer_flag(s) = f /\ readers_count(s) = r /\ readers_waiting(s) = p /\ writers_waiting(s) = q
<1> DEFINE h == q * (MaxWaiting + 1) + p
           g == h * (MaxReaders + 1) + r
<1>1. /\ s = g * ReaderUnit + f
      /\ s = h * ReaderWaitUnit + (f + r * ReaderUnit)
      /\ s = q * WriterWaitUnit + (f + r * ReaderUnit + p * ReaderWaitUnit)
  BY Splits
<1>2. h \in Nat /\ g \in Nat
  OBVIOUS
<1>3. readers_count(s) = r
  <2>1. s \div ReaderUnit = g
    <3> HIDE DEF g
    <3> QED
      BY <1>1, <1>2, Units, Division
  <2>2. g % (MaxReaders + 1) = r
    <3> HIDE DEF h
    <3> DEFINE u == MaxReaders + 1
    <3>1. u \in Nat \ {0} /\ r \in Nat /\ r < u
      OBVIOUS
    <3> HIDE DEF u
    <3>2. (h * u + r) % u = r
      BY <1>2, <3>1, Division
    <3> QED
      BY <3>2 DEF u
  <2> QED
    BY <2>1, <2>2 DEF readers_count, Field
<1>4. readers_waiting(s) = p
  <2>1. s \div ReaderWaitUnit = h
    <3> HIDE DEF h
    <3> QED
      BY <1>1, <1>2, Units, Below, Division
  <2>2. h % (MaxWaiting + 1) = p
    <3> DEFINE u == MaxWaiting + 1
    <3>1. u \in Nat \ {0} /\ p \in Nat /\ q \in Nat /\ p < u
      OBVIOUS
    <3> HIDE DEF u
    <3>2. (q * u + p) % u = p
      BY <3>1, Division
    <3> QED
      BY <3>2 DEF u
  <2> QED
    BY <2>1, <2>2 DEF readers_waiting, Field
<1>5. writers_waiting(s) = q
  <2>1. s \div WriterWaitUnit = q
    BY <1>1, Units, Below, Division
  <2>2. q % (MaxWaiting + 1) = q
    <3>1. (0 * (MaxWaiting + 1) + q) % (MaxWaiting + 1) = q
      BY Division
    <3> QED
      BY <3>1
  <2> QED
    BY <2>1, <2>2 DEF writers_waiting, Field
<1>6. writer_flag(s) = f
  <2>1. PICK k \in 1..ReaderUnit : ReaderUnit = 2 * k
    BY LayoutAssumption DEF LayoutAssumption
  <2>2. s = (g * k) * 2 + f
    <3> HIDE DEF g
    <3>1. k \in Nat
      BY Units
    <3> QED
      BY <1>1, <1>2, <2>1, <3>1
  <2>3. g * k \in Nat
    <3> HIDE DEF g
    <3> QED
      BY <1>2, Units
  <2> HIDE DEF g
  <2> QED
    BY <2>2, <2>3 DEF writer_flag
<1> QED
  BY <1>3, <1>4, <1>5, <1>6

-----------------------------------------------------------------------------
(* The invariant. *)

Word(b, r, p, q) == [writer |-> b, readers |-> r, rwait |-> p, wwait |-> q]

\* What LockWord says of a word given by its fields.
LEMMA Words ==
  ASSUME NEW b \in BOOLEAN, NEW r \in 0..MaxReaders, NEW p \in 0..MaxWaiting, NEW q \in 0..MaxWaiting
  PROVE  /\ CanShare(Word(b, r, p, q)) <=> ~b /\ q = 0 /\ r < MaxReaders
         /\ CanOwn(Word(b, r, p, q)) <=> ~b /\ r = 0 /\ p = 0 /\ q = 0
         /\ CanRelease(Word(b, r, p, q), "Exclusive") <=> b
<1> DEFINE w == Word(b, r, p, q)
<1>1. w.writer = b /\ w.readers = r /\ w.rwait = p /\ w.wwait = q
  BY DEF Word
<1>2. CanShare(w) <=> ~b /\ q = 0 /\ r < MaxReaders
  BY <1>1 DEF CanShare
<1>3. CanOwn(w) <=> ~b /\ r = 0 /\ p = 0 /\ q = 0
  <2>1. w = FreeWord => ~b /\ r = 0 /\ p = 0 /\ q = 0
    <3>1. /\ FreeWord.writer = FALSE /\ FreeWord.readers = 0
          /\ FreeWord.rwait = 0 /\ FreeWord.wwait = 0
      BY DEF FreeWord
    <3> HIDE DEF w
    <3> QED
      BY <1>1, <3>1
  <2>2. ~b /\ r = 0 /\ p = 0 /\ q = 0 => w = FreeWord
    BY DEF FreeWord, Word
  <2> QED
    BY <2>1, <2>2 DEF CanOwn
<1>4. CanRelease(w, "Exclusive") <=> b
  BY <1>1 DEF CanRelease
<1> QED
  BY <1>2, <1>3, <1>4

\* The steps of LockWord that the operations of the packed word are to be.
LEMMA Steps ==
  ASSUME NEW b \in BOOLEAN, NEW r \in 0..MaxReaders, NEW p \in 0..MaxWaiting, NEW q \in 0..MaxWaiting
  PROVE  /\ ~b /\ q = 0 /\ r < MaxReaders => FieldStep(Word(b, r, p, q), Word(b, r + 1, p, q))
         /\ ~b /\ r = 0 /\ p = 0 /\ q = 0 => FieldStep(Word(b, r, p, q), Word(TRUE, r, p, q))
         /\ r # 0 => FieldStep(Word(b, r, p, q), Word(b, r - 1, p, q))
         /\ b => FieldStep(Word(b, r, p, q), Word(FALSE, r, p, q))
         /\ p # MaxWaiting => FieldStep(Word(b, r, p, q), Word(b, r, p + 1, q))
         /\ p # 0 => FieldStep(Word(b, r, p, q), Word(b, r, p - 1, q))
         /\ q # MaxWaiting => FieldStep(Word(b, r, p, q), Word(b, r, p, q + 1))
         /\ q # 0 => FieldStep(Word(b, r, p, q), Word(b, r, p, q - 1))
<1> DEFINE w == Word(b, r, p, q)
<1>1. ~b /\ q = 0 /\ r < MaxReaders => FieldStep(w, Word(b, r + 1, p, q))
  <2>1. Acquired(w, "Shared") = Word(b, r + 1, p, q)
    BY DEF Acquired, Word
  <2> QED
    BY <2>1, Words DEF FieldStep, Modes, CanAcquire
<1>2. ~b /\ r = 0 /\ p = 0 /\ q = 0 => FieldStep(w, Word(TRUE, r, p, q))
  <2>1. ~b /\ r = 0 /\ p = 0 /\ q = 0 => CanAcquire(w, "Exclusive")
    BY Words DEF CanAcquire
  <2>2. Acquired(w, "Exclusive") = Word(TRUE, r, p, q)
    BY DEF Acquired, Word
  <2> HIDE DEF w
  <2> QED
    BY <2>1, <2>2 DEF FieldStep, Modes
<1>3. r # 0 => FieldStep(w, Word(b, r - 1, p, q))
  <2>1. Released(w, "Shared") = Word(b, r - 1, p, q) /\ (r # 0 => CanRelease(w, "Shared"))
    BY DEF Released, CanRelease, Word
  <2> QED
    BY <2>1 DEF FieldStep, Modes
<1>4. b => FieldStep(w, Word(FALSE, r, p, q))
  <2>1. b => CanRelease(w, "Exclusive")
    BY Words
  <2>2. Released(w, "Exclusive") = Word(FALSE, r, p, q)
    BY DEF Released, Word
  <2> HIDE DEF w
  <2> QED
    BY <2>1, <2>2 DEF FieldStep, Modes
<1>5. p # MaxWaiting => FieldStep(w, Word(b, r, p + 1, q))
  <2>1. p # MaxWaiting => IncWaiting(w, "Shared") = Word(b, r, p + 1, q)
    BY DEF IncWaiting, Word
  <2> QED
    BY <2>1 DEF FieldStep, Modes
<1>6. p # 0 => FieldStep(w, Word(b, r, p - 1, q))
  <2>1. p # 0 => DecWaiting(w, "Shared") = Word(b, r, p - 1, q)
    BY DEF DecWaiting, Word
  <2> QED
    BY <2>1 DEF FieldStep, Modes
<1>7. q # MaxWaiting => FieldStep(w, Word(b, r, p, q + 1))
  <2>1. q # MaxWaiting => IncWaiting(w, "Exclusive") = Word(b, r, p, q + 1)
    BY DEF IncWaiting, Word
  <2> QED
    BY <2>1 DEF FieldStep, Modes
<1>8. q # 0 => FieldStep(w, Word(b, r, p, q - 1))
  <2>1. q # 0 => DecWaiting(w, "Exclusive") = Word(b, r, p, q - 1)
    BY DEF DecWaiting, Word
  <2> QED
    BY <2>1 DEF FieldStep, Modes
<1> QED
  BY <1>1, <1>2, <1>3, <1>4, <1>5, <1>6, <1>7, <1>8

LEMMA UnpackedOf ==
  ASSUME NEW f \in 0..1, NEW r \in 0..MaxReaders, NEW p \in 0..MaxWaiting, NEW q \in 0..MaxWaiting,
         NEW s, s = Packed(f, r, p, q)
  PROVE  Unpacked(s) = Word(f = 1, r, p, q)
BY Fields DEF Unpacked, Word

\* A word is 0 exactly when all its fields are.
LEMMA ZeroWord ==
  ASSUME NEW f \in 0..1, NEW r \in 0..MaxReaders, NEW p \in 0..MaxWaiting, NEW q \in 0..MaxWaiting
  PROVE  Packed(f, r, p, q) = 0 <=> f = 0 /\ r = 0 /\ p = 0 /\ q = 0
<1>1. Packed(0, 0, 0, 0) = 0
  BY Units DEF Packed
<1>2. Packed(f, r, p, q) = 0 => f = 0 /\ r = 0 /\ p = 0 /\ q = 0
  <2>1. 0 \in 0..1 /\ 0 \in 0..MaxReaders /\ 0 \in 0..MaxWaiting
    OBVIOUS
  <2>2. writer_flag(0) = 0 /\ readers_count(0) = 0 /\ readers_waiting(0) = 0 /\ writers_waiting(0) = 0
    BY <1>1, <2>1, Fields
  <2> QED
    BY <2>2, Fields
<1> QED
  BY <1>1, <1>2

\* The two tests of the whole word, in terms of the fields.
LEMMA Tests ==
  ASSUME NEW f \in 0..1, NEW r \in 0..MaxReaders, NEW p \in 0..MaxWaiting, NEW q \in 0..MaxWaiting,
         NEW s, s = Packed(f, r, p, q)
  PROVE  /\ MayShare(s) <=> f = 0 /\ q = 0 /\ r < MaxReaders
         /\ MayOwn(s) <=> f = 0 /\ r = 0 /\ p = 0 /\ q = 0
<1>1. WriterBits(s) = f + q * WriterWaitUnit
  BY Fields DEF WriterBits
<1>2. f + q * WriterWaitUnit = 0 <=> f = 0 /\ q = 0
  <2>1. 0 \in 0..MaxReaders /\ 0 \in 0..MaxWaiting
    OBVIOUS
  <2>2. Packed(f, 0, 0, q) = f + q * WriterWaitUnit
    BY Units DEF Packed
  <2> QED
    BY <2>1, <2>2, ZeroWord
<1>3. MayShare(s) <=> f = 0 /\ q = 0 /\ r < MaxReaders
  BY <1>1, <1>2, Fields DEF MayShare
<1> QED
  BY <1>3, ZeroWord DEF MayOwn

\* One step, as a change of one field.
LEMMA FieldChange ==
  ASSUME Layout, PackedNext
  PROVE  Layout' /\ FieldStep(Unpacked(state), Unpacked(state'))
<1>1. PICK f \in 0..1, r \in 0..MaxReaders, p \in 0..MaxWaiting, q \in 0..MaxWaiting :
        state = Packed(f, r, p, q)
  BY DEF Layout
<1> DEFINE b == (f = 1)
           v == Word(b, r, p, q)
<1>2. b \in BOOLEAN /\ (b <=> f = 1) /\ Unpacked(state) = v
  BY <1>1, UnpackedOf
<1> HIDE DEF b
<1>3. /\ writer_flag(state) = f /\ readers_count(state) = r
      /\ readers_waiting(state) = p /\ writers_waiting(state) = q
  BY <1>1, Fields
<1>4. /\ MayShare(state) <=> f = 0 /\ q = 0 /\ r < MaxReaders
      /\ MayOwn(state) <=> f = 0 /\ r = 0 /\ p = 0 /\ q = 0
  BY <1>1, Tests
<1>5. SUFFICES \E f1 \in 0..1, r1 \in 0..MaxReaders, p1 \in 0..MaxWaiting, q1 \in 0..MaxWaiting :
                 \E b1 \in BOOLEAN :
                   /\ state' = Packed(f1, r1, p1, q1)
                   /\ b1 = (f1 = 1)
                   /\ FieldStep(v, Word(b1, r1, p1, q1))
  <2>1. PICK f1 \in 0..1, r1 \in 0..MaxReaders, p1 \in 0..MaxWaiting, q1 \in 0..MaxWaiting :
               \E b1 \in BOOLEAN :
                 /\ state' = Packed(f1, r1, p1, q1)
                 /\ b1 = (f1 = 1)
                 /\ FieldStep(v, Word(b1, r1, p1, q1))
    BY <1>5
  <2>2. PICK b1 \in BOOLEAN : /\ state' = Packed(f1, r1, p1, q1)
                              /\ b1 = (f1 = 1)
                              /\ FieldStep(v, Word(b1, r1, p1, q1))
    BY <2>1
  <2>3. Unpacked(state') = Word(b1, r1, p1, q1)
    <3>1. Unpacked(state') = Word(f1 = 1, r1, p1, q1)
      BY <2>2, UnpackedOf
    <3> QED
      BY <2>2, <3>1
  <2>4. Layout'
    BY <2>2 DEF Layout, Packed, ReaderWaitUnit, WriterWaitUnit
  <2> QED
    BY <1>2, <2>2, <2>3, <2>4
<1>6. /\ f \in Int /\ r * ReaderUnit \in Int /\ p * ReaderWaitUnit \in Int /\ q * WriterWaitUnit \in Int
      /\ ReaderUnit \in Int /\ ReaderWaitUnit \in Int /\ WriterWaitUnit \in Int
  BY Units
<1>7. CASE try_acquire_shared
  <2>1. state' = Packed(f, r + 1, p, q)
    <3>1. (r + 1) * ReaderUnit = r * ReaderUnit + ReaderUnit
      BY Units
    <3> QED
      BY <1>1, <1>6, <1>7, <3>1 DEF try_acquire_shared, Packed
  <2>2. ~b /\ q = 0 /\ r < MaxReaders /\ r + 1 \in 0..MaxReaders
    BY <1>2, <1>4, <1>7 DEF try_acquire_shared
  <2>3. FieldStep(v, Word(b, r + 1, p, q))
    BY <1>2, <2>2, Steps
  <2> QED
    BY <1>2, <2>1, <2>2, <2>3 DEF b
<1>8. CASE try_acquire_exclusive
  <2>1. ~b /\ r = 0 /\ p = 0 /\ q = 0 /\ f = 0 /\ state' = 1
    BY <1>2, <1>4, <1>8 DEF try_acquire_exclusive
  <2>2. state' = Packed(1, r, p, q)
    BY <2>1, Units DEF Packed
  <2>3. FieldStep(v, Word(TRUE, r, p, q))
    BY <1>2, <2>1, Steps
  <2>4. 1 \in 0..1 /\ TRUE \in BOOLEAN /\ TRUE = (1 = 1)
    OBVIOUS
  <2> HIDE DEF v
  <2> QED
    BY <2>2, <2>3, <2>4
<1>9. CASE release_shared
  <2>1. r # 0 /\ r - 1 \in 0..MaxReaders
    BY <1>3, <1>9 DEF release_shared
  <2>2. state' = Packed(f, r - 1, p, q)
    <3>1. (r - 1) * ReaderUnit = r * ReaderUnit - ReaderUnit
      BY Units
    <3> QED
      BY <1>1, <1>6, <1>9, <3>1 DEF release_shared, Packed
  <2>3. FieldStep(v, Word(b, r - 1, p, q))
    BY <1>2, <2>1, Steps
  <2> QED
    BY <1>2, <2>1, <2>2, <2>3 DEF b
<1>10. CASE release_exclusive
  <2>1. f = 1
    BY <1>3, <1>10 DEF release_exclusive
  <2>2. state' = Packed(0, r, p, q)
    BY <1>1, <1>3, <1>6, <1>10, <2>1 DEF release_exclusive, Packed
  <2>3. FieldStep(v, Word(FALSE, r, p, q))
    BY <1>2, <2>1, Steps
  <2>4. 0 \in 0..1 /\ FALSE \in BOOLEAN /\ FALSE = (0 = 1)
    OBVIOUS
  <2> HIDE DEF v
  <2> QED
    BY <2>2, <2>3, <2>4
<1>11. CASE inc_readers_waiting
  <2>1. p # MaxWaiting /\ p + 1 \in 0..MaxWaiting
    BY <1>3, <1>11 DEF inc_readers_waiting
  <2>2. state' = Packed(f, r, p + 1, q)
    <3>1. (p + 1) * ReaderWaitUnit = p * ReaderWaitUnit + ReaderWaitUnit
      BY Units
    <3> QED
      BY <1>1, <1>6, <1>11, <3>1 DEF inc_readers_waiting, Packed
  <2>3. FieldStep(v, Word(b, r, p + 1, q))
    BY <1>2, <2>1, Steps
  <2> QED
    BY <1>2, <2>1, <2>2, <2>3 DEF b
<1>12. CASE dec_readers_waiting
  <2>1. p # 0 /\ p - 1 \in 0..MaxWaiting
    BY <1>3, <1>12 DEF dec_readers_waiting
  <2>2. state' = Packed(f, r, p - 1, q)
    <3>1. (p - 1) * ReaderWaitUnit = p * ReaderWaitUnit - ReaderWaitUnit
      BY Units
    <3> QED
      BY <1>1, <1>6, <1>12, <3>1 DEF dec_readers_waiting, Packed
  <2>3. FieldStep(v, Word(b, r, p - 1, q))
    BY <1>2, <2>1, Steps
  <2> QED
    BY <1>2, <2>1, <2>2, <2>3 DEF b
<1>13. CASE inc_writers_waiting
  <2>1. q # MaxWaiting /\ q + 1 \in 0..MaxWaiting
    BY <1>3, <1>13 DEF inc_writers_waiting
  <2>2. state' = Packed(f, r, p, q + 1)
    <3>1. (q + 1) * WriterWaitUnit = q * WriterWaitUnit + WriterWaitUnit
      BY Units
    <3> QED
      BY <1>1, <1>6, <1>13, <3>1 DEF inc_writers_waiting, Packed
  <2>3. FieldStep(v, Word(b, r, p, q + 1))
    BY <1>2, <2>1, Steps
  <2> QED
    BY <1>2, <2>1, <2>2, <2>3 DEF b
<1>14. CASE dec_writers_waiting
  <2>1. q # 0 /\ q - 1 \in 0..MaxWaiting
    BY <1>3, <1>14 DEF dec_writers_waiting
  <2>2. state' = Packed(f, r, p, q - 1)
    <3>1. (q - 1) * WriterWaitUnit = q * WriterWaitUnit - WriterWaitUnit
      BY Units
    <3> QED
      BY <1>1, <1>6, <1>14, <3>1 DEF dec_writers_waiting, Packed
  <2>3. FieldStep(v, Word(b, r, p, q - 1))
    BY <1>2, <2>1, Steps
  <2> QED
    BY <1>2, <2>1, <2>2, <2>3 DEF b
<1> QED
  BY <1>7, <1>8, <1>9, <1>10, <1>11, <1>12, <1>13, <1>14 DEF PackedNext

LEMMA LaidOut == PackedSpec => []Layout
<1>1. PackedInit => Layout
  <2>1. 0 \in 0..1 /\ 0 \in 0..MaxReaders /\ 0 \in 0..MaxWaiting /\ Packed(0, 0, 0, 0) = 0
    BY ZeroWord
  <2> QED
    BY <2>1 DEF PackedInit, Layout
<1>2. Layout /\ [PackedNext]_state => Layout'
  <2>1. Layout /\ PackedNext => Layout'
    BY FieldChange
  <2>2. Layout /\ state' = state => Layout'
    BY DEF Layout
  <2> QED
    BY <2>1, <2>2
<1> QED
  BY <1>1, <1>2, PTL DEF PackedSpec

\* The masks of the two fast paths mean what LockWord says of the fields, and
\* no bit outside the fields is ever set, whatever the widths.
THEOREM Masks == PackedSpec => []MasksAgree
<1>1. Layout => MasksAgree
  <2> SUFFICES ASSUME Layout PROVE MasksAgree
    OBVIOUS
  <2>1. PICK f \in 0..1, r \in 0..MaxReaders, p \in 0..MaxWaiting, q \in 0..MaxWaiting :
          state = Packed(f, r, p, q)
    BY DEF Layout
  <2> DEFINE b == (f = 1)
             v == Word(b, r, p, q)
  <2>2. b \in BOOLEAN /\ (~b <=> f = 0) /\ Unpacked(state) = v
    BY <2>1, UnpackedOf
  <2> HIDE DEF b
  <2>3. CanShare(v) <=> f = 0 /\ q = 0 /\ r < MaxReaders
    BY <2>2, Words
  <2>4. CanOwn(v) <=> f = 0 /\ r = 0 /\ p = 0 /\ q = 0
    BY <2>2, Words
  <2> HIDE DEF v
  <2> QED
    BY <2>1, <2>2, <2>3, <2>4, Tests DEF MasksAgree
<1> QED
  BY <1>1, LaidOut, PTL

\* Every addition to or subtraction from the packed word changes one field as
\* LockWord says and leaves its neighbours alone, whatever the widths.
THEOREM OneField == PackedSpec => PackedStepIsFieldStep
<1>1. Layout /\ [PackedNext]_state => [FieldStep(Unpacked(state), Unpacked(state'))]_state
  BY FieldChange
<1> QED
  BY <1>1, LaidOut, PTL DEF PackedSpec, PackedStepIsFieldStep

=============================================================================
