--------------------------- MODULE JsonStreamProofs ---------------------------
(***************************************************************************)
(* Proofs about JsonStream, for every stream of any number of records of   *)
(* any length, and for whatever stands behind the data in the buffer.  The  *)
(* types hold however the stream is cut; that every record is handed over  *)
(* once and in order needs reads that end where a record does and records   *)
(* that end in an empty line, the form skipRecord() knows.                 *)
(***************************************************************************)
EXTENDS JsonStream, SequenceTheorems, WellFoundedInduction, TLAPS

NatLess == OpToRel(<, Nat)

LEMMA LeastIn ==
    ASSUME NEW S \in SUBSET Nat, S # {}
    PROVE  Least(S) \in S /\ \A y \in S : Least(S) <= y
<1>1. IsWellFoundedOn(NatLess, Nat)
  BY NatLessThanWellFounded DEF NatLess
<1>2. PICK x \in S : \A y \in S : ~(<<y, x>> \in NatLess)
  BY <1>1, WFMin
<1>3. ASSUME NEW y \in S, ~(x <= y) PROVE FALSE
  <2>1. y < x /\ x \in Nat /\ y \in Nat
    BY <1>3
  <2>2. <<y, x>> \in NatLess
    BY <2>1 DEF OpToRel, NatLess
  <2> QED
    BY <1>2, <2>2
<1> QED
  BY <1>3 DEF Least

\* The one place that can be the least one.
LEMMA LeastIs ==
    ASSUME NEW S \in SUBSET Nat, NEW x \in S, \A y \in S : x <= y
    PROVE  Least(S) = x
<1>1. Least(S) \in S /\ \A y \in S : Least(S) <= y
  BY LeastIn
<1>2. Least(S) <= x /\ x <= Least(S) /\ x \in Nat /\ Least(S) \in Nat
  BY <1>1
<1> QED
  BY <1>1, <1>2

-----------------------------------------------------------------------------
(* The bytes of the stream *)

LEMMA StreamFacts ==
    ASSUME ends \in Streams
    PROVE  /\ NRecords \in Nat \ {0} /\ Newlines \in {1, 2}
           /\ ends \in [0..NRecords -> Nat] /\ ends[0] = 0
           /\ \A i \in 1..NRecords : ends[i] >= ends[i - 1] + 2 + Newlines
           /\ \A i \in 0..NRecords : ends[i] \in Nat
           /\ \A i \in 1..NRecords : i - 1 \in 0..NRecords /\ ends[i - 1] \in Nat
  BY StreamAssumption

\* A record ends behind the ones before it.
LEMMA EndsGrow ==
    ASSUME ends \in Streams, NEW i \in 0..NRecords, NEW j \in 0..NRecords, i < j
    PROVE  ends[i] + 2 + Newlines <= ends[j]
<1> DEFINE S == {k \in 0..NRecords : i < k /\ ~(ends[i] + 2 + Newlines <= ends[k])}
<1> SUFFICES ASSUME S # {} PROVE FALSE
  OBVIOUS
<1>1. S \in SUBSET Nat
  OBVIOUS
<1>2. PICK k \in S : \A y \in S : k <= y
  BY <1>1, LeastIn
<1>3. k \in 1..NRecords /\ i < k /\ ~(ends[i] + 2 + Newlines <= ends[k])
  BY <1>2
<1>4. /\ ends[k] >= ends[k - 1] + 2 + Newlines /\ k - 1 \in 0..NRecords
      /\ ends[k] \in Nat /\ ends[k - 1] \in Nat /\ ends[i] \in Nat /\ Newlines \in {1, 2}
  BY <1>3, StreamFacts
<1>5. CASE k - 1 = i
  BY <1>3, <1>4, <1>5
<1>6. CASE k - 1 # i
  <2>1. i < k - 1 /\ k - 1 \notin S
    BY <1>2, <1>3, <1>6
  <2>2. ends[i] + 2 + Newlines <= ends[k - 1]
    BY <1>4, <2>1
  <2> QED
    BY <1>3, <1>4, <2>2
<1> QED
  BY <1>5, <1>6

LEMMA EndsNotLess ==
    ASSUME ends \in Streams, NEW i \in 0..NRecords, NEW j \in 0..NRecords, i <= j
    PROVE  ends[i] <= ends[j]
<1>1. ends[i] \in Nat /\ ends[j] \in Nat /\ Newlines \in {1, 2}
  BY StreamFacts
<1>2. CASE i = j
  BY <1>1, <1>2
<1>3. CASE i < j
  BY <1>1, <1>3, EndsGrow
<1> QED
  BY <1>2, <1>3

\* Where the end is the same the record is.
LEMMA EndsApart ==
    ASSUME ends \in Streams, NEW i \in 0..NRecords, NEW j \in 0..NRecords, ends[i] = ends[j]
    PROVE  i = j
<1>1. ends[i] \in Nat /\ ends[j] \in Nat /\ Newlines \in {1, 2}
  BY StreamFacts
<1>2. CASE i < j
  BY <1>1, <1>2, EndsGrow
<1>3. CASE j < i
  BY <1>1, <1>3, EndsGrow
<1> QED
  BY <1>2, <1>3

LEMMA RecordIs ==
    ASSUME ends \in Streams, NEW i \in 1..NRecords, NEW k \in Nat, ends[i - 1] < k, k <= ends[i]
    PROVE  RecordAt(k) = i
<1>1. ASSUME NEW j \in 1..NRecords, ends[j - 1] < k, k <= ends[j] PROVE j = i
  <2>1. /\ ends[i - 1] \in Nat /\ ends[j - 1] \in Nat /\ ends[i] \in Nat /\ ends[j] \in Nat
        /\ i - 1 \in 0..NRecords /\ j - 1 \in 0..NRecords /\ i \in 0..NRecords /\ j \in 0..NRecords
    BY StreamFacts
  <2>2. CASE j < i
    <3>1. ends[j] <= ends[i - 1]
      BY <2>1, <2>2, EndsNotLess
    <3> QED
      BY <1>1, <2>1, <3>1
  <2>3. CASE i < j
    <3>1. ends[i] <= ends[j - 1]
      BY <2>1, <2>3, EndsNotLess
    <3> QED
      BY <1>1, <2>1, <3>1
  <2> QED
    BY <2>2, <2>3
<1> QED
  BY <1>1 DEF RecordAt

\* What stands where in a record.
LEMMA SentIs ==
    ASSUME ends \in Streams, NEW i \in 1..NRecords, NEW p \in 1..(ends[i] - ends[i - 1])
    PROVE  /\ Sent(ends[i - 1] + p) = ByteOf(i, p)
           /\ p = 1 => Sent(ends[i - 1] + p) = RS
           /\ p \in 2..(ends[i] - ends[i - 1] - Newlines) => Sent(ends[i - 1] + p) = i
           /\ p > ends[i] - ends[i - 1] - Newlines => Sent(ends[i - 1] + p) = NL
<1>1. /\ ends[i - 1] \in Nat /\ ends[i] \in Nat /\ Newlines \in {1, 2}
      /\ ends[i] >= ends[i - 1] + 2 + Newlines
  BY StreamFacts
<1> DEFINE k == ends[i - 1] + p
<1>2. k \in Nat /\ ends[i - 1] < k /\ k <= ends[i] /\ k - ends[i - 1] = p
  BY <1>1
<1>3. RecordAt(k) = i
  BY <1>2, RecordIs
<1>4. Sent(k) = ByteOf(i, p)
  BY <1>2, <1>3 DEF Sent
<1>5. PayloadOf(i) + 1 = ends[i] - ends[i - 1] - Newlines
  BY <1>1 DEF PayloadOf
<1> QED
  BY <1>1, <1>4, <1>5 DEF ByteOf

Byte == {RS, NL, Zero} \cup 1..NRecords

\* Every place of the stream is in a record.
LEMMA InRecord ==
    ASSUME ends \in Streams, NEW k \in 1..Total
    PROVE  \E i \in 1..NRecords : ends[i - 1] < k /\ k <= ends[i]
<1> DEFINE S == {i \in 0..NRecords : k <= ends[i]}
<1>1. NRecords \in S /\ S \in SUBSET Nat
  BY StreamFacts DEF Total
<1>2. PICK i \in S : \A y \in S : i <= y
  BY <1>1, LeastIn
<1>3. i # 0
  BY <1>2, StreamFacts
<1>4. i \in 1..NRecords /\ i - 1 \in 0..NRecords /\ i - 1 \notin S
  BY <1>2, <1>3, StreamFacts
<1> QED
  BY <1>2, <1>4, StreamFacts

LEMMA SentType ==
    ASSUME ends \in Streams, NEW k \in 1..Total
    PROVE  Sent(k) \in Byte
<1>1. PICK i \in 1..NRecords : ends[i - 1] < k /\ k <= ends[i]
  BY InRecord
<1>2. k \in Nat
  BY StreamFacts DEF Total
<1>3. RecordAt(k) = i
  BY <1>1, <1>2, RecordIs
<1>4. ByteOf(i, k - ends[i - 1]) \in Byte
  BY DEF ByteOf, Byte
<1> QED
  BY <1>3, <1>4 DEF Sent

-----------------------------------------------------------------------------
(* Types *)

USE DEF sent

LEMMA MemFacts ==
    ASSUME TypeOK
    PROVE  /\ ends \in Streams /\ Total \in Nat /\ MemSize = Total + 1
           /\ arrived \in Nat /\ arrived <= Total
           /\ dataSize \in Nat /\ dataSize <= arrived
           /\ mem \in [1..MemSize -> Byte]
           /\ \A i \in 1..(dataSize + 1) : i \in 1..MemSize /\ mem[i] \in Byte
<1>1. ends \in Streams /\ mem \in [1..MemSize -> Byte]
  BY DEF TypeOK, Byte
<1>2. Total \in Nat /\ MemSize = Total + 1
  BY <1>1, StreamFacts DEF Total, MemSize
<1>3. /\ arrived \in Nat /\ arrived <= Total
      /\ dataSize \in Nat /\ dataSize <= arrived
  BY <1>2 DEF TypeOK
<1>4. \A i \in 1..(dataSize + 1) : i \in 1..MemSize
  BY <1>2, <1>3
<1> QED
  BY <1>1, <1>2, <1>3, <1>4

\* What skipRecord() leaves: no more data than there was.
LEMMA SkipType ==
    ASSUME TypeOK, SkipRecord
    PROVE  /\ mem' \in [1..MemSize -> Byte]
           /\ dataSize' \in 0..dataSize
           /\ pc' \in {pc, "wild"}
<1>1. CASE EmptyLines = {} \/ (EmptyLines # {} /\ RecordSize > dataSize)
  BY <1>1, MemFacts DEF SkipRecord
<1>2. CASE EmptyLines # {} /\ ~(RecordSize > dataSize)
  <2>1. EmptyLines \in SUBSET Nat
    BY DEF EmptyLines
  <2>2. Least(EmptyLines) \in Nat
    BY <1>2, <2>1, LeastIn
  <2>3. RecordSize \in Nat
    BY <2>2 DEF RecordSize
  <2>4. mem' = ShiftBy(RecordSize) /\ dataSize' = dataSize - RecordSize /\ pc' = pc
    BY <1>2 DEF SkipRecord
  <2>5. ShiftBy(RecordSize) \in [1..MemSize -> Byte]
    <3>1. ASSUME NEW i \in 1..MemSize, i + RecordSize <= dataSize PROVE mem[i + RecordSize] \in Byte
      BY <2>3, <3>1, MemFacts
    <3> QED
      BY <3>1, MemFacts DEF ShiftBy
  <2> QED
    BY <1>2, <2>3, <2>4, <2>5, MemFacts
<1> QED
  BY <1>1, <1>2

\* However the stream is cut and whatever its records look like, no step leaves
\* the types, an arithmetic step into memory that is not the buffer included:
\* skipRecord() then ends in wild, with the buffer as it was.
THEOREM TypeCorrect == Spec => []TypeOK
<1>1. Init => TypeOK
  <2> SUFFICES ASSUME Init PROVE TypeOK
    OBVIOUS
  <2>1. Total \in Nat /\ MemSize \in Nat
    BY StreamFacts DEF Init, Total, MemSize
  <2>2. mem \in [1..MemSize -> {RS, NL, Zero} \cup 1..NRecords]
    BY StreamAssumption DEF Init
  <2>3. handed \in Seq(1..NRecords)
    BY DEF Init
  <2>4. arrived \in 0..Total /\ dataSize \in 0..arrived
    BY <2>1 DEF Init
  <2>5. /\ pc \in {"read", "parse", "done", "wild"} /\ ends \in Streams /\ broken \in 0..NRecords
        /\ ended \in BOOLEAN /\ isStream \in BOOLEAN /\ retval \in BOOLEAN
    BY DEF Init
  <2> QED
    BY <2>2, <2>3, <2>4, <2>5 DEF TypeOK
<1>2. TypeOK /\ [Next]_vars => TypeOK'
  <2> SUFFICES ASSUME TypeOK, [Next]_vars PROVE TypeOK'
    OBVIOUS
  <2>1. UNCHANGED sent => Total' = Total /\ MemSize' = MemSize
    BY DEF Total, MemSize
  <2>2. ASSUME NEW n \in 1..MaxRead, Read(n) PROVE TypeOK'
    <3>1. /\ n \in Nat /\ arrived' = arrived + n /\ arrived + n <= Total /\ dataSize' = dataSize + n
          /\ UNCHANGED sent /\ handed' = handed
      BY <2>2, StreamAssumption DEF Read
    <3>2. mem' \in [1..MemSize -> Byte]
      <4>1. ASSUME NEW i \in (dataSize + 1)..(dataSize + n) PROVE Sent(arrived + i - dataSize) \in Byte
        <5>1. arrived + i - dataSize \in 1..Total
          BY <3>1, MemFacts
        <5> QED
          BY <5>1, MemFacts, SentType
      <4> QED
        BY <2>2, <4>1, MemFacts DEF Read
    <3>3. arrived' \in 0..Total /\ dataSize' \in 0..arrived'
      BY <3>1, MemFacts
    <3>4. pc' \in {"read", "parse", "done", "wild"} /\ isStream' \in BOOLEAN
      BY <2>2 DEF Read, TypeOK
    <3>5. ended' = ended /\ retval' = retval
      BY <2>2 DEF Read
    <3> QED
      BY <2>1, <3>1, <3>2, <3>3, <3>4, <3>5 DEF TypeOK, Byte
  <2>3. CASE Eof
    BY <2>1, <2>3 DEF Eof, TypeOK
  <2>4. CASE ReadError
    BY <2>1, <2>4 DEF ReadError, TypeOK
  <2>5. CASE HandOver
    <3>1. CompleteJSon[1] \in 1..NRecords
      BY <2>5 DEF HandOver, Parses, Whole
    <3>2. handed' \in Seq(1..NRecords)
      BY <2>5, <3>1 DEF HandOver, TypeOK
    <3>3. /\ mem' \in [1..MemSize -> Byte] /\ dataSize' \in 0..dataSize /\ pc' \in {pc, "wild"}
      BY <2>5, SkipType DEF HandOver
    <3>4. dataSize' \in 0..arrived
      BY <3>3, MemFacts
    <3>5. pc' \in {"read", "parse", "done", "wild"}
      BY <3>3 DEF TypeOK
    <3> QED
      BY <2>1, <2>5, <3>2, <3>3, <3>4, <3>5 DEF HandOver, TypeOK, Byte
  <2>6. CASE NotJson
    BY <2>1, <2>6 DEF NotJson, TypeOK
  <2>7. CASE ReadMore
    BY <2>1, <2>7 DEF ReadMore, TypeOK
  <2>8. CASE Finish
    BY <2>1, <2>8 DEF Finish, TypeOK
  <2>9. CASE UNCHANGED vars
    BY <2>1, <2>9 DEF vars, TypeOK
  <2> QED
    BY <2>2, <2>3, <2>4, <2>5, <2>6, <2>7, <2>8, <2>9 DEF Next
<1> QED
  BY <1>1, <1>2, PTL DEF Spec

-----------------------------------------------------------------------------
(* The framing *)

\* How much of the stream is no longer in the buffer.
Start == arrived - dataSize

\* What holds between two steps when reads end where a record does: the data is
\* what the stream has from the first record that was not handed over, with its
\* separator or, behind an other record, without; the first byte of a stream
\* that was not recognized is a separator; and no data waits but behind a read
\* that filled the buffer.
Framed ==
    /\ arrived \in Boundaries
    /\ handed = [i \in 1..Len(handed) |-> i]
    /\ pc = "done" /\ retval => dataSize = 0
    /\ pc = "read" => dataSize = 0 \/ dataSize >= MaxRead
    /\ pc = "parse" /\ dataSize > 0 => isStream
    /\ pc # "wild" =>
          /\ Len(handed) <= NRecords
          /\ \A j \in 1..dataSize : mem[j] = Sent(Start + j)
          /\ IF dataSize = 0 THEN arrived = ends[Len(handed)]
             ELSE arrived > ends[Len(handed)] /\ Start \in {ends[Len(handed)], ends[Len(handed)] + 1}
          /\ ~isStream => Start = ends[Len(handed)]

LEMMA HandedFacts ==
    ASSUME TypeOK
    PROVE  /\ Len(handed) \in Nat /\ handed \in Seq(Nat)
           /\ Len(handed) <= NRecords => Len(handed) \in 0..NRecords
<1>1. handed \in Seq(1..NRecords) /\ NRecords \in Nat
  BY StreamFacts, MemFacts DEF TypeOK
<1>2. Len(handed) \in Nat
  BY <1>1, LenProperties
<1>3. \A i \in 1..Len(handed) : handed[i] \in Nat
  BY <1>1, ElementOfSeq
<1>4. handed \in Seq(Nat)
  BY <1>1, <1>3, SeqDef
<1> QED
  BY <1>1, <1>2, <1>4

\* The first record in the buffer is all there.
LEMMA FrontIsWhole ==
    ASSUME TypeOK, Framed, pc # "wild", arrived > ends[Len(handed)]
    PROVE  /\ Len(handed) + 1 \in 1..NRecords
           /\ ends[Len(handed) + 1] <= arrived
           /\ ends[Len(handed) + 1] < arrived => ends[Len(handed) + 1] + 2 + Newlines <= arrived
<1> DEFINE h == Len(handed)
<1>1. PICK a \in 0..NRecords : arrived = ends[a]
  BY DEF Framed, Boundaries
<1>2. h \in 0..NRecords /\ NRecords \in Nat /\ ends \in Streams
  BY HandedFacts, MemFacts, StreamFacts DEF Framed
<1> HIDE DEF h
<1>3. h < a
  <2>1. ends[h] \in Nat /\ ends[a] \in Nat
    BY <1>2, StreamFacts
  <2>2. CASE a <= h
    <3>1. ends[a] <= ends[h]
      BY <1>2, <2>2, EndsNotLess
    <3> QED
      BY <1>1, <2>1, <3>1 DEF h
  <2> QED
    BY <1>2, <2>2
<1>4. h + 1 \in 1..NRecords /\ h + 1 \in 0..NRecords /\ h + 1 <= a
  BY <1>2, <1>3
<1>5. ends[h + 1] <= ends[a] /\ ends[h + 1] \in Nat /\ ends[a] \in Nat
  BY <1>2, <1>4, EndsNotLess, StreamFacts
<1>6. ASSUME ends[h + 1] < arrived PROVE ends[h + 1] + 2 + Newlines <= arrived
  <2>1. h + 1 # a
    BY <1>1, <1>5, <1>6
  <2>2. h + 1 < a
    BY <1>2, <1>4, <2>1
  <2> QED
    BY <1>1, <1>2, <1>4, <2>2, EndsGrow
<1> QED
  BY <1>1, <1>4, <1>5, <1>6 DEF h

\* What the framing sees of it: where it ends, that its first empty line is its
\* last, and what is behind.
End == ends[Len(handed) + 1] - Start

LEMMA FrontRecord ==
    ASSUME TypeOK, Framed, Newlines = 2, pc # "wild", dataSize > 0
    PROVE  /\ Len(handed) + 1 \in 1..NRecords
           /\ End \in 3..dataSize
           /\ EmptyLines # {} /\ Least(EmptyLines) = End - 1
           /\ IF mem[1] = RS THEN Start = ends[Len(handed)] /\ mem[2] = Len(handed) + 1
              ELSE Start = ends[Len(handed)] + 1 /\ mem[1] = Len(handed) + 1
           /\ End < dataSize => mem[End + 1] = RS /\ End + 3 < dataSize
<1> DEFINE h == Len(handed)
           i == h + 1
           L == ends[i] - ends[i - 1]
           d == Start - ends[h]
<1>1. /\ ends \in Streams /\ arrived \in Nat /\ dataSize \in Nat /\ dataSize <= arrived
      /\ NRecords \in Nat /\ h \in 0..NRecords
  BY HandedFacts, MemFacts, StreamFacts DEF Framed
<1>2. arrived > ends[h] /\ Start \in {ends[h], ends[h] + 1}
  BY DEF Framed
<1>3. /\ i \in 1..NRecords /\ i - 1 = h /\ ends[h] \in Nat /\ ends[i] \in Nat
      /\ ends[i] <= arrived /\ (ends[i] < arrived => ends[i] + 4 <= arrived)
  <2>1. /\ i \in 1..NRecords /\ ends[i] <= arrived
        /\ (ends[i] < arrived => ends[i] + 2 + Newlines <= arrived)
    BY <1>2, FrontIsWhole
  <2>2. i \in 0..NRecords /\ i - 1 = h
    BY <1>1, <2>1
  <2>3. ends[i] \in Nat /\ ends[h] \in Nat
    BY <1>1, <2>2, StreamFacts
  <2> QED
    BY <1>1, <2>1, <2>2, <2>3
<1>4. ends[i] >= ends[h] + 4
  <2>1. ends[i] >= ends[i - 1] + 2 + Newlines
    BY <1>1, <1>3, StreamFacts
  <2> QED
    BY <1>3, <2>1
<1>5. d \in {0, 1} /\ L \in Nat /\ L >= 4 /\ End = L - d /\ Start = ends[h] + d
  BY <1>2, <1>3, <1>4 DEF End
<1>6. Start = arrived - dataSize
  BY DEF Start
<1>7. End \in 3..dataSize /\ (End < dataSize => End + 3 < dataSize)
  <2> End = ends[i] - Start
    BY DEF End
  <2> HIDE DEF h, i, L, d
  <2> QED
    BY <1>1, <1>3, <1>4, <1>5, <1>6
<1> HIDE DEF h, i, L, d
<1>8. ASSUME NEW j \in 1..End
      PROVE  mem[j] = IF j + d = 1 THEN RS ELSE IF j + d <= L - 2 THEN i ELSE NL
  <2>1. j \in 1..dataSize /\ j + d \in 1..L /\ Start + j = ends[i - 1] + (j + d)
    BY <1>1, <1>3, <1>5, <1>7
  <2>2. mem[j] = Sent(Start + j)
    BY <2>1 DEF Framed
  <2>3. /\ j + d = 1 => mem[j] = RS
        /\ j + d \in 2..(L - 2) => mem[j] = i
        /\ j + d > L - 2 => mem[j] = NL
    BY <1>1, <1>3, <2>1, <2>2, SentIs DEF L
  <2> QED
    BY <1>5, <2>1, <2>3
<1>9. mem[End] = NL /\ mem[End - 1] = NL /\ \A j \in 1..(End - 2) : mem[j] # NL
  <2>1. mem[End] = NL /\ mem[End - 1] = NL
    BY <1>5, <1>7, <1>8
  <2>2. ASSUME NEW j \in 1..(End - 2) PROVE mem[j] # NL
    <3>1. j \in 1..End /\ j + d <= L - 2
      BY <1>5, <1>7
    <3>2. mem[j] = RS \/ mem[j] = i
      BY <1>8, <3>1
    <3> QED
      BY <1>3, <3>2 DEF RS, NL
  <2> QED
    BY <2>1, <2>2
<1>10. EmptyLines # {} /\ Least(EmptyLines) = End - 1
  <2>1. EmptyLines \in SUBSET Nat
    BY DEF EmptyLines
  <2>2. End - 1 \in EmptyLines
    BY <1>1, <1>7, <1>9 DEF EmptyLines
  <2>3. ASSUME NEW j \in EmptyLines PROVE End - 1 <= j
    <3>1. j \in 1..(dataSize - 1) /\ mem[j] = NL
      BY DEF EmptyLines
    <3> QED
      BY <1>1, <1>7, <1>9, <3>1
  <2> QED
    BY <2>1, <2>2, <2>3, LeastIs
<1>11. IF mem[1] = RS THEN Start = ends[h] /\ mem[2] = i ELSE Start = ends[h] + 1 /\ mem[1] = i
  <2>1. CASE d = 0
    <3>1. 1 \in 1..End /\ 2 \in 1..End /\ 1 + d = 1 /\ ~(2 + d = 1) /\ 2 + d <= L - 2
      BY <1>5, <1>7, <2>1
    <3>2. mem[1] = RS /\ mem[2] = i
      BY <1>8, <3>1
    <3> QED
      BY <1>3, <1>5, <2>1, <3>2
  <2>2. CASE d = 1
    <3>1. mem[1] = i
      BY <1>5, <1>7, <1>8, <2>2
    <3> QED
      BY <1>3, <1>5, <2>2, <3>1 DEF RS
  <2> QED
    BY <1>5, <2>1, <2>2
<1>12. ASSUME End < dataSize PROVE mem[End + 1] = RS
  <2>1. End + 1 \in 1..dataSize /\ Start + (End + 1) = ends[i] + 1 /\ ends[i] < arrived
    BY <1>1, <1>3, <1>5, <1>6, <1>7, <1>12 DEF L
  <2>2. mem[End + 1] = Sent(ends[i] + 1)
    BY <2>1 DEF Framed
  <2>3. i < NRecords
    <3>1. arrived <= ends[NRecords] /\ ends[NRecords] \in Nat
      BY <1>1, MemFacts, StreamFacts DEF Total
    <3>2. i # NRecords
      BY <1>1, <1>3, <2>1, <3>1
    <3> QED
      BY <1>1, <1>3, <3>2
  <2>4. i + 1 \in 1..NRecords /\ (i + 1) - 1 = i
    BY <1>1, <1>3, <2>3
  <2>5. ends[i + 1] \in Nat /\ ends[i + 1] >= ends[(i + 1) - 1] + 2 + Newlines
    BY <1>1, <2>4, StreamFacts
  <2>6. 1 \in 1..(ends[i + 1] - ends[(i + 1) - 1])
    BY <1>3, <2>4, <2>5
  <2>7. Sent(ends[(i + 1) - 1] + 1) = RS
    BY <1>1, <2>4, <2>6, SentIs
  <2> QED
    BY <2>2, <2>4, <2>7
<1> QED
  BY <1>3, <1>7, <1>10, <1>11, <1>12 DEF h, i

\* What getCompleteJSon() returns begins with the number of the record that is
\* next, when it returns anything.
LEMMA FrontIsNext ==
    ASSUME TypeOK, Framed, Newlines = 2, pc # "wild", dataSize > 0, Len(CompleteJSon) > 0
    PROVE  CompleteJSon[1] = Len(handed) + 1
<1> DEFINE m == IF mem[1] = RS THEN 2 ELSE 1
           n == Least(StringEnd) - 1
<1>1. dataSize \in Nat /\ m \in {1, 2} /\ \A j \in 1..dataSize : mem[j] \in Byte
  BY MemFacts
<1>2. n \in 1..dataSize
  <2>1. StringEnd \in SUBSET Nat /\ StringEnd \subseteq 2..(dataSize + 1) /\ dataSize + 1 \in StringEnd
    BY <1>1 DEF StringEnd
  <2>2. Least(StringEnd) \in StringEnd
    BY <2>1, LeastIn
  <2>3. Least(StringEnd) \in 2..(dataSize + 1)
    BY <2>1, <2>2
  <2> QED
    BY <1>1, <2>3
<1> HIDE DEF m, n
<1>3. CompleteJSon = SubSeq(mem, m, n)
  BY DEF CompleteJSon, m, n
<1>4. \A j \in m..n : mem[j] \in Byte
  BY <1>1, <1>2
<1>5. m \in Int /\ n \in Int
  BY <1>1, <1>2
<1>6. /\ Len(SubSeq(mem, m, n)) = IF m <= n THEN n - m + 1 ELSE 0
      /\ \A j \in 1..(n - m + 1) : SubSeq(mem, m, n)[j] = mem[m + j - 1]
  BY <1>4, <1>5, SubSeqProperties
<1>7. m <= n
  BY <1>3, <1>6
<1>8. 1 \in 1..(n - m + 1) /\ m + 1 - 1 = m
  BY <1>5, <1>7
<1>9. CompleteJSon[1] = mem[m]
  BY <1>3, <1>6, <1>8
<1> QED
  BY <1>9, FrontRecord DEF m

\* A stream that was not recognized yet begins with a separator.
LEMMA FrontSeparator ==
    ASSUME TypeOK, Framed, Newlines = 2, pc # "wild", dataSize > 0
    PROVE  isStream \/ mem[1] = RS
<1>1. /\ ends \in Streams /\ Len(handed) \in 0..NRecords /\ Len(handed) + 1 \in 1..NRecords
  BY HandedFacts, MemFacts, FrontRecord DEF Framed
<1>2. ends[Len(handed)] \in Nat
  BY <1>1, StreamFacts
<1>3. ~isStream => Start = ends[Len(handed)]
  BY DEF Framed
<1> QED
  BY <1>2, <1>3, FrontRecord

\* The bytes of the stream do not change.
LEMMA SameBytes ==
    ASSUME ends' = ends
    PROVE  /\ \A k : Sent(k)' = Sent(k)
           /\ Boundaries' = Boundaries /\ Total' = Total
  BY DEF Sent, RecordAt, ByteOf, PayloadOf, Boundaries, Total

LEMMA ReadFrames ==
    ASSUME TypeOK, Framed, Newlines = 2, Aligned, NEW n \in 1..MaxRead, Read(n)
    PROVE  Framed'
<1> DEFINE h == Len(handed)
<1>1. /\ ends \in Streams /\ arrived \in Nat /\ dataSize \in Nat /\ dataSize <= arrived
      /\ h \in 0..NRecords /\ Total \in Nat /\ MemSize = Total + 1 /\ ends[h] \in Nat /\ n \in Nat
      /\ MaxRead \in Nat
  BY HandedFacts, MemFacts, StreamFacts, StreamAssumption DEF Framed, Read
<1>2. /\ pc = "read" /\ ends' = ends /\ arrived' = arrived + n /\ dataSize' = dataSize + n
      /\ handed' = handed /\ retval' = retval /\ arrived + n \in Boundaries /\ arrived + n <= Total
  BY DEF Read
<1>3. arrived' \in Boundaries' /\ Start' = Start /\ Start = arrived - dataSize /\ Start \in Nat
  BY <1>1, <1>2, SameBytes DEF Start
<1>4. ASSUME NEW j \in 1..dataSize' PROVE mem'[j] = (Sent(Start + j))'
  <2>1. (Sent(Start + j))' = Sent(Start + j)
    BY <1>2, <1>3 DEF Sent, RecordAt, ByteOf, PayloadOf
  <2>2. j \in 1..MemSize
    BY <1>1, <1>2
  <2>3. CASE j <= dataSize
    <3>1. j \in 1..dataSize /\ j \notin (dataSize + 1)..(dataSize + n)
      BY <1>1, <2>3
    <3>2. mem'[j] = mem[j]
      BY <2>2, <3>1 DEF Read
    <3> QED
      BY <1>2, <2>1, <3>1, <3>2 DEF Framed
  <2>4. CASE ~(j <= dataSize)
    <3>1. j \in (dataSize + 1)..(dataSize + n) /\ arrived + j - dataSize = Start + j
      BY <1>1, <1>2, <1>3, <2>4
    <3>2. mem'[j] = Sent(arrived + j - dataSize)
      BY <2>2, <3>1 DEF Read
    <3> QED
      BY <2>1, <3>1, <3>2
  <2> QED
    BY <2>3, <2>4
<1>5. arrived >= ends[h] /\ (dataSize = 0 => Start = ends[h])
  BY <1>1, <1>2, <1>3 DEF Framed
<1>6. dataSize' > 0 /\ arrived' > ends[h] /\ Start \in {ends[h], ends[h] + 1}
  BY <1>1, <1>2, <1>3, <1>5 DEF Framed
<1>7. ~isStream => Start = ends[h]
  BY <1>2 DEF Framed
<1>8. /\ isStream => isStream'
      /\ pc' = "read" => n = MaxRead
      /\ pc' = "parse" => isStream' = (isStream \/ mem'[1] = RS)
      /\ pc' \in {"read", "parse"}
  BY <1>2 DEF Read
<1>9. ASSUME ~isStream PROVE mem'[1] = RS
  <2>1. Start = ends[h] /\ 1 \in 1..dataSize'
    BY <1>1, <1>2, <1>7, <1>9
  <2>2. mem'[1] = Sent(ends[h] + 1)
    <3>1. (Sent(Start + 1))' = Sent(Start + 1)
      BY <1>2, <1>3 DEF Sent, RecordAt, ByteOf, PayloadOf
    <3> QED
      BY <1>4, <2>1, <3>1
  <2>3. h + 1 \in 1..NRecords /\ (h + 1) - 1 = h
    <3>1. h # NRecords
      BY <1>1, <1>2, <1>6 DEF Total
    <3> QED
      BY <1>1, <3>1, StreamFacts
  <2>4. ends[h + 1] \in Nat /\ ends[h + 1] >= ends[(h + 1) - 1] + 2 + Newlines
    BY <1>1, <2>3, StreamFacts
  <2>5. 1 \in 1..(ends[h + 1] - ends[(h + 1) - 1])
    BY <1>1, <2>3, <2>4
  <2>6. Sent(ends[(h + 1) - 1] + 1) = RS
    BY <1>1, <2>3, <2>5, SentIs
  <2> QED
    BY <2>2, <2>3, <2>6
<1>10. handed' = [i \in 1..Len(handed') |-> i] /\ Len(handed') = h /\ h <= NRecords
  BY <1>1, <1>2 DEF Framed
<1>11. pc' = "read" => dataSize' >= MaxRead
  BY <1>1, <1>2, <1>8
<1>12. pc' = "parse" => isStream'
  BY <1>8, <1>9
<1>13. ~isStream' => Start' = ends'[h]
  BY <1>2, <1>3, <1>7, <1>8
<1>14. arrived' > ends'[h] /\ Start' \in {ends'[h], ends'[h] + 1}
  BY <1>2, <1>3, <1>6
<1>15. dataSize' # 0
  BY <1>1, <1>2
<1> HIDE DEF h
<1> QED
  BY <1>3, <1>4, <1>8, <1>10, <1>11, <1>12, <1>13, <1>14, <1>15 DEF Framed

\* skipRecord() takes the record from the front, and the separator of the next
\* one with it when there is a next one.
LEMMA SkipFrames ==
    ASSUME TypeOK, Framed, Newlines = 2, pc = "parse", dataSize > 0, SkipRecord, UNCHANGED arrived
    PROVE  \/ pc' = "wild" /\ UNCHANGED <<mem, dataSize>>
           \/ /\ pc' = pc
              /\ dataSize' \in Nat
              /\ \A j \in 1..dataSize' : mem'[j] = Sent(Start' + j)
              /\ IF dataSize' = 0 THEN arrived = ends[Len(handed) + 1]
                 ELSE arrived > ends[Len(handed) + 1] /\ Start' = ends[Len(handed) + 1] + 1
<1> DEFINE h == Len(handed)
           r == RecordSize
<1>1. /\ arrived \in Nat /\ dataSize \in Nat /\ dataSize <= arrived
      /\ MemSize \in Nat /\ \A j \in 1..dataSize : j \in 1..MemSize
  BY MemFacts
<1>2. /\ h + 1 \in 1..NRecords /\ End \in 3..dataSize
      /\ EmptyLines # {} /\ Least(EmptyLines) = End - 1
      /\ End < dataSize => mem[End + 1] = RS /\ End + 3 < dataSize
  BY FrontRecord
<1>3. ends[h + 1] \in Nat /\ Start = arrived - dataSize /\ Start \in Nat /\ ends[h + 1] = Start + End
  <2>1. ends[h + 1] \in Nat
    BY <1>2, MemFacts, StreamFacts
  <2> QED
    BY <1>1, <2>1 DEF End, Start
<1>4. r = IF mem[End + 1] = RS THEN End + 1 ELSE End
  <2>1. End \in Nat /\ (End - 1) + 2 = End + 1 /\ (End + 1) - 1 = End
    BY <1>2
  <2> QED
    BY <1>2, <2>1 DEF RecordSize
<1>5. CASE r > dataSize
  BY <1>2, <1>5 DEF SkipRecord
<1>6. CASE ~(r > dataSize)
  <2>1. mem' = ShiftBy(r) /\ dataSize' = dataSize - r /\ pc' = pc
    BY <1>2, <1>6 DEF SkipRecord
  <2>2. r \in 3..dataSize /\ (End < dataSize => r = End + 1) /\ (End = dataSize => r = End)
    BY <1>1, <1>2, <1>4, <1>6
  <2> HIDE DEF r, h
  <2>3. dataSize' \in Nat /\ Start' = Start + r
    BY <1>1, <1>3, <2>1, <2>2 DEF Start
  <2>4. ASSUME NEW j \in 1..dataSize' PROVE mem'[j] = Sent(Start' + j)
    <3>1. j \in 1..MemSize /\ j + r <= dataSize /\ j + r \in 1..dataSize /\ Start' + j = Start + (j + r)
      BY <1>1, <1>3, <2>1, <2>2, <2>3
    <3>2. mem'[j] = mem[j + r]
      BY <2>1, <3>1 DEF ShiftBy
    <3> QED
      BY <3>1, <3>2 DEF Framed
  <2>5. CASE End = dataSize
    <3>1. dataSize' = 0 /\ arrived = ends[h + 1]
      BY <1>1, <1>3, <2>1, <2>2, <2>5
    <3> QED
      BY <2>1, <2>3, <2>4, <3>1 DEF h
  <2>6. CASE End < dataSize
    <3>1. dataSize' # 0 /\ arrived > ends[h + 1] /\ Start' = ends[h + 1] + 1
      BY <1>1, <1>2, <1>3, <2>1, <2>2, <2>3, <2>6
    <3> QED
      BY <2>1, <2>3, <2>4, <3>1 DEF h
  <2> QED
    BY <1>1, <1>2, <2>5, <2>6
<1> QED
  BY <1>5, <1>6

LEMMA HandOverFrames ==
    ASSUME TypeOK, Framed, Newlines = 2, HandOver
    PROVE  Framed'
<1> DEFINE h == Len(handed)
<1>1. /\ pc = "parse" /\ isStream /\ HasCompleteJSon /\ Parses(CompleteJSon) /\ SkipRecord
      /\ handed' = Append(handed, CompleteJSon[1])
      /\ ends' = ends /\ arrived' = arrived /\ isStream' = isStream /\ retval' = retval
  BY DEF HandOver
<1>2. dataSize > 0
  <2>1. \E i \in 1..dataSize : TRUE
    BY <1>1, MemFacts DEF HasCompleteJSon, EmptyLines
  <2> QED
    BY <2>1, MemFacts
<1>3. CompleteJSon[1] = h + 1 /\ h + 1 \in 1..NRecords
  BY <1>1, <1>2, FrontIsNext, FrontRecord DEF Parses, Whole
<1>4. h \in Nat /\ handed \in Seq(Nat) /\ handed = [i \in 1..h |-> i]
  BY HandedFacts DEF Framed
<1>5. Len(handed') = h + 1 /\ handed' = [i \in 1..(h + 1) |-> i]
  <2>1. h + 1 \in Nat /\ handed' = Append(handed, h + 1)
    BY <1>1, <1>3, <1>4
  <2>2. /\ Len(handed') = h + 1
        /\ handed' \in [1..(h + 1) -> Nat]
        /\ \A i \in 1..h : handed'[i] = handed[i]
        /\ handed'[h + 1] = h + 1
    <3>1. /\ Append(handed, h + 1) \in Seq(Nat)
          /\ Len(Append(handed, h + 1)) = Len(handed) + 1
          /\ \A i \in 1..Len(handed) : Append(handed, h + 1)[i] = handed[i]
          /\ Append(handed, h + 1)[Len(handed) + 1] = h + 1
      BY <1>4, <2>1, AppendProperties
    <3>2. Append(handed, h + 1) \in [1..Len(Append(handed, h + 1)) -> Nat]
      BY <3>1, LenProperties
    <3> QED
      BY <2>1, <3>1, <3>2
  <2>3. \A i \in 1..(h + 1) : handed'[i] = i
    BY <1>4, <2>2
  <2> QED
    BY <2>2, <2>3
<1>6. arrived' \in Boundaries'
  BY <1>1, SameBytes DEF Framed
<1>7. CASE pc' = "wild"
  BY <1>5, <1>6, <1>7 DEF Framed
<1>8. CASE pc' # "wild"
  <2>1. /\ pc' = "parse" /\ dataSize' \in Nat
        /\ \A j \in 1..dataSize' : mem'[j] = Sent(Start' + j)
        /\ IF dataSize' = 0 THEN arrived = ends[h + 1]
           ELSE arrived > ends[h + 1] /\ Start' = ends[h + 1] + 1
    BY <1>1, <1>2, <1>8, SkipFrames
  <2>2. \A j \in 1..dataSize' : mem'[j] = (Sent(Start + j))'
    BY <1>1, <2>1 DEF Sent, RecordAt, ByteOf, PayloadOf
  <2>3. h + 1 <= NRecords
    BY <1>3, MemFacts, StreamFacts
  <2> HIDE DEF h
  <2> QED
    BY <1>1, <1>5, <1>6, <2>1, <2>2, <2>3 DEF Framed
<1> QED
  BY <1>7, <1>8

\* When nothing is left to hand over the buffer is empty.
LEMMA NothingLeft ==
    ASSUME TypeOK, Framed, Newlines = 2, pc = "parse", ~(isStream /\ HasCompleteJSon)
    PROVE  dataSize = 0
<1>1. CASE dataSize > 0
  <2>1. isStream /\ EmptyLines # {}
    BY <1>1, FrontRecord DEF Framed
  <2> QED
    BY <2>1 DEF HasCompleteJSon
<1> QED
  BY <1>1, MemFacts

\* What does not touch the buffer and the stream leaves them framed.
LEMMA StayFrames ==
    ASSUME TypeOK, Framed, pc # "wild", pc' # "wild",
           UNCHANGED <<sent, arrived, mem, dataSize, handed>>,
           isStream => isStream',
           pc' = "done" /\ retval' => dataSize = 0,
           pc' = "read" => dataSize = 0,
           pc' = "parse" /\ dataSize > 0 => isStream'
    PROVE  Framed'
<1>1. Start' = Start /\ arrived' \in Boundaries'
  BY SameBytes DEF Start, Framed
<1>2. \A j \in 1..dataSize' : mem'[j] = (Sent(Start + j))'
  BY <1>1 DEF Framed, Sent, RecordAt, ByteOf, PayloadOf
<1>3. /\ handed' = [i \in 1..Len(handed') |-> i] /\ Len(handed') <= NRecords
      /\ IF dataSize' = 0 THEN arrived' = ends'[Len(handed')]
         ELSE arrived' > ends'[Len(handed')] /\ Start' \in {ends'[Len(handed')], ends'[Len(handed')] + 1}
      /\ ~isStream' => Start' = ends'[Len(handed')]
  BY <1>1 DEF Framed
<1> QED
  BY <1>1, <1>2, <1>3 DEF Framed

LEMMA InitFrames ==
    ASSUME Init
    PROVE  Framed
<1>1. /\ ends \in Streams /\ arrived = 0 /\ dataSize = 0 /\ handed = <<>> /\ pc = "read"
      /\ Len(handed) = 0
  BY DEF Init
<1>2. /\ ends[0] = 0 /\ 0 \in 0..NRecords /\ NRecords \in Nat
  BY <1>1, StreamFacts
<1>3. arrived \in Boundaries
  BY <1>1, <1>2 DEF Boundaries
<1>4. handed = [i \in 1..Len(handed) |-> i]
  BY <1>1
<1>5. Start = 0
  BY <1>1 DEF Start
<1> QED
  BY <1>1, <1>2, <1>3, <1>4, <1>5 DEF Framed

LEMMA StepFrames ==
    ASSUME Aligned, Newlines = 2, TypeOK, Framed, [Next]_vars
    PROVE  Framed'
<1>1. ASSUME NEW n \in 1..MaxRead, Read(n) PROVE Framed'
  BY <1>1, ReadFrames
<1>2. CASE Eof
  <2>1. dataSize > 0 => isStream'
    BY <1>2, FrontSeparator DEF Eof
  <2> QED
    BY <1>2, <2>1, StayFrames DEF Eof
<1>3. CASE ReadError
  BY <1>3, StayFrames DEF ReadError
<1>4. CASE HandOver
  BY <1>4, HandOverFrames
<1>5. CASE NotJson
  BY <1>5, StayFrames DEF NotJson
<1>6. CASE ReadMore
  BY <1>6, NothingLeft, StayFrames DEF ReadMore
<1>7. CASE Finish
  BY <1>7, NothingLeft, StayFrames DEF Finish
<1>8. CASE UNCHANGED vars
  <2>1. UNCHANGED <<pc, ends, broken, arrived, mem, dataSize, ended, isStream, handed, retval>>
    BY <1>8 DEF vars
  <2>2. Start' = Start /\ Boundaries' = Boundaries /\ \A j : (Sent(Start + j))' = Sent(Start + j)
    BY <2>1 DEF Start, Boundaries, Sent, RecordAt, ByteOf, PayloadOf
  <2> QED
    BY <2>1, <2>2 DEF Framed
<1> QED
  BY <1>1, <1>2, <1>3, <1>4, <1>5, <1>6, <1>7, <1>8 DEF Next

-----------------------------------------------------------------------------
(* The theorems *)

\* Between two steps the data of the buffer is the stream from the record that
\* is next, for reads of any number of whole records, full reads included, and
\* for whatever stale bytes are behind the data.
THEOREM FramedCorrect ==
    ASSUME Aligned, Newlines = 2
    PROVE  Spec => []Framed
<1>1. Init => Framed
  BY InitFrames
<1>2. TypeOK /\ Framed /\ [Next]_vars => Framed'
  BY StepFrames
<1> QED
  BY <1>1, <1>2, TypeCorrect, PTL DEF Spec

\* The callback gets the records of the stream once each and in order, up to
\* the step that makes skipRecord() run out of the buffer.
THEOREM HandedInOrderCorrect ==
    ASSUME Aligned, Newlines = 2
    PROVE  Spec => []HandedInOrder
<1>1. Framed => HandedInOrder
  BY DEF Framed, HandedInOrder
<1> QED
  BY <1>1, FramedCorrect, PTL

\* No record that came is held back until the next read, unless the read before
\* filled the buffer, and none is lost in a subscription that ends well.
THEOREM AllHandedOverCorrect ==
    ASSUME Aligned, Newlines = 2
    PROVE  Spec => []AllHandedOver
<1>1. TypeOK /\ Framed => AllHandedOver
  <2> SUFFICES ASSUME TypeOK, Framed,
                      (pc = "read" /\ dataSize < MaxRead) \/ (pc = "done" /\ retval)
               PROVE  Len(handed) = Received
    BY DEF AllHandedOver
  <2> DEFINE h == Len(handed)
  <2>1. dataSize = 0 /\ pc # "wild"
    BY MemFacts, StreamAssumption DEF Framed
  <2>2. h \in 0..NRecords /\ arrived = ends[h] /\ ends \in Streams
    BY <2>1, HandedFacts, MemFacts DEF Framed
  <2>3. Newlines \in {1, 2} /\ NRecords \in Nat /\ \A n \in 0..NRecords : ends[n] \in Nat
    BY <2>2, StreamFacts
  <2> HIDE DEF h
  <2>4. ASSUME h < NRecords PROVE arrived < ends[h + 1]
    <3>1. h + 1 \in 0..NRecords /\ h < h + 1
      BY <2>2, <2>3, <2>4
    <3>2. ends[h] + 2 + Newlines <= ends[h + 1]
      BY <2>2, <3>1, EndsGrow
    <3> QED
      BY <2>2, <2>3, <3>1, <3>2
  <2>5. ASSUME NEW n \in 0..NRecords, ends[n] <= arrived, n < NRecords => arrived < ends[n + 1]
        PROVE  n = h
    <3>1. CASE n < h
      <4>1. n + 1 \in 0..NRecords /\ n + 1 <= h /\ n < NRecords
        BY <2>2, <2>3, <3>1
      <4>2. ends[n + 1] <= ends[h]
        BY <2>2, <4>1, EndsNotLess
      <4> QED
        BY <2>2, <2>3, <2>5, <4>1, <4>2
    <3>2. CASE h < n
      <4>1. ends[h] + 2 + Newlines <= ends[n]
        BY <2>2, <3>2, EndsGrow
      <4> QED
        BY <2>2, <2>3, <2>5, <4>1
    <3> QED
      BY <2>2, <2>3, <3>1, <3>2
  <2>6. ends[h] <= arrived
    BY <2>2, <2>3
  <2> QED
    BY <2>2, <2>4, <2>5, <2>6 DEF Received, h
<1> QED
  BY <1>1, FramedCorrect, TypeCorrect, PTL

-----------------------------------------------------------------------------
(* Records that end in one newline *)

\* The whole stream is still in the buffer, and what the callback got is its
\* first record.
Kept ==
    /\ pc # "wild" /\ dataSize = arrived
    /\ \A j \in 1..dataSize : mem[j] = Sent(j)
    /\ handed = [i \in 1..Len(handed) |-> 1]

LEMMA FirstBytes ==
    ASSUME ends \in Streams
    PROVE  Sent(1) = RS /\ Sent(2) = 1
<1>1. /\ NRecords \in Nat \ {0} /\ 1 \in 1..NRecords /\ ends[1 - 1] = 0 /\ ends[1] \in Nat
      /\ ends[1] >= ends[1 - 1] + 2 + Newlines /\ Newlines \in {1, 2}
  BY StreamFacts
<1>2. /\ 1 \in 1..(ends[1] - ends[1 - 1]) /\ 2 \in 1..(ends[1] - ends[1 - 1])
      /\ 2 \in 2..(ends[1] - ends[1 - 1] - Newlines)
      /\ ends[1 - 1] + 1 = 1 /\ ends[1 - 1] + 2 = 2
  BY <1>1
<1>3. Sent(ends[1 - 1] + 1) = RS
  BY <1>1, <1>2, SentIs
<1>4. Sent(ends[1 - 1] + 2) = 1
  BY <1>1, <1>2, SentIs
<1> QED
  BY <1>2, <1>3, <1>4

\* There is no empty line to find in such a stream.
LEMMA NoEmptyLine ==
    ASSUME TypeOK, Kept, Newlines = 1
    PROVE  EmptyLines = {}
<1> SUFFICES ASSUME NEW k \in EmptyLines PROVE FALSE
  OBVIOUS
<1>1. /\ ends \in Streams /\ Total \in Nat /\ dataSize \in Nat /\ dataSize <= Total
      /\ NRecords \in Nat \ {0}
  BY MemFacts, StreamFacts
<1>2. /\ k \in 1..Total /\ k + 1 \in 1..Total /\ k \in 1..dataSize /\ k + 1 \in 1..dataSize
      /\ mem[k] = NL /\ mem[k + 1] = NL
  BY <1>1 DEF EmptyLines
<1>3. Sent(k) = NL /\ Sent(k + 1) = NL
  BY <1>2 DEF Kept
<1>4. PICK i \in 1..NRecords : ends[i - 1] < k /\ k <= ends[i]
  BY <1>1, <1>2, InRecord
<1>5. ends[i - 1] \in Nat /\ ends[i] \in Nat /\ k \in Nat
  BY <1>1, <1>2, <1>4, StreamFacts
<1> DEFINE p == k - ends[i - 1]
<1>6. p \in 1..(ends[i] - ends[i - 1]) /\ ends[i - 1] + p = k
  BY <1>4, <1>5
<1>7. p > ends[i] - ends[i - 1] - 1
  <2>1. CASE p = 1
    <3>1. Sent(k) = RS
      BY <1>1, <1>4, <1>6, <2>1, SentIs
    <3> QED
      BY <1>3, <3>1 DEF RS, NL
  <2>2. CASE p \in 2..(ends[i] - ends[i - 1] - Newlines)
    <3>1. Sent(k) = i
      BY <1>1, <1>4, <1>6, <2>2, SentIs
    <3> QED
      BY <1>1, <1>3, <3>1 DEF NL
  <2> HIDE DEF p
  <2> QED
    BY <1>5, <1>6, <2>1, <2>2
<1>8. k = ends[i]
  BY <1>5, <1>6, <1>7
<1>9. i + 1 \in 1..NRecords /\ (i + 1) - 1 = i
  <2>1. ends[i] < Total
    BY <1>1, <1>2, <1>5, <1>8
  <2>2. i # NRecords
    BY <1>5, <2>1 DEF Total
  <2> QED
    BY <1>1, <1>4, <2>2
<1>10. ends[i + 1] \in Nat /\ ends[i + 1] >= ends[(i + 1) - 1] + 2 + Newlines
  BY <1>1, <1>9, StreamFacts
<1>11. 1 \in 1..(ends[i + 1] - ends[(i + 1) - 1])
  BY <1>5, <1>9, <1>10
<1>12. Sent(ends[(i + 1) - 1] + 1) = RS
  BY <1>1, <1>9, <1>11, SentIs
<1> QED
  BY <1>3, <1>8, <1>9, <1>12 DEF RS, NL

\* The first string of the buffer is the first record.
LEMMA FrontIsFirst ==
    ASSUME TypeOK, Kept, HasCompleteJSon, Parses(CompleteJSon)
    PROVE  CompleteJSon[1] = 1
<1> DEFINE n == Least(StringEnd) - 1
<1>1. dataSize \in Nat /\ ends \in Streams /\ \A j \in 1..dataSize : mem[j] \in Byte
  BY MemFacts
<1>2. dataSize > 0
  <2>1. \E i \in 1..dataSize : TRUE
    BY <1>1 DEF HasCompleteJSon, EmptyLines
  <2> QED
    BY <1>1, <2>1
<1>3. mem[1] = RS
  BY <1>1, <1>2, FirstBytes DEF Kept
<1>4. n \in 1..dataSize
  <2>1. StringEnd \in SUBSET Nat /\ StringEnd \subseteq 2..(dataSize + 1) /\ dataSize + 1 \in StringEnd
    BY <1>1, <1>2 DEF StringEnd
  <2>2. Least(StringEnd) \in StringEnd
    BY <2>1, LeastIn
  <2>3. Least(StringEnd) \in 2..(dataSize + 1)
    BY <2>1, <2>2
  <2> QED
    BY <1>1, <2>3
<1> HIDE DEF n
<1>5. CompleteJSon = SubSeq(mem, 2, n) /\ Len(CompleteJSon) > 0
  BY <1>3 DEF CompleteJSon, n, Parses, Whole
<1>6. \A j \in 2..n : mem[j] \in Byte
  BY <1>1, <1>4
<1>7. /\ Len(SubSeq(mem, 2, n)) = IF 2 <= n THEN n - 2 + 1 ELSE 0
      /\ \A j \in 1..(n - 2 + 1) : SubSeq(mem, 2, n)[j] = mem[2 + j - 1]
  BY <1>4, <1>6, SubSeqProperties
<1>8. 2 <= n /\ n \in Nat
  BY <1>4, <1>5, <1>7
<1>9. CompleteJSon[1] = mem[2 + 1 - 1] /\ 2 \in 1..dataSize
  BY <1>1, <1>4, <1>5, <1>7, <1>8
<1> QED
  BY <1>1, <1>9, FirstBytes DEF Kept

LEMMA StepKeeps ==
    ASSUME Newlines = 1, TypeOK, Kept, [Next]_vars
    PROVE  Kept'
<1>0. ASSUME UNCHANGED ends, NEW j PROVE Sent(j)' = Sent(j)
  BY <1>0, SameBytes
<1>1. ASSUME NEW n \in 1..MaxRead, Read(n) PROVE Kept'
  <2>1. /\ n \in Nat /\ dataSize \in Nat /\ arrived \in Nat /\ Total \in Nat /\ MemSize = Total + 1
        /\ arrived' = arrived + n /\ dataSize' = dataSize + n /\ arrived + n <= Total /\ ends' = ends
        /\ pc = "read" /\ pc' \in {"read", "parse"} /\ handed' = handed
    BY <1>1, MemFacts, StreamAssumption DEF Read
  <2>2. ASSUME NEW j \in 1..dataSize' PROVE mem'[j] = Sent(j)'
    <3>1. j \in 1..MemSize /\ j \in Nat
      BY <2>1 DEF Kept
    <3>2. CASE j \in (dataSize + 1)..(dataSize + n)
      <4>1. mem'[j] = Sent(arrived + j - dataSize) /\ arrived + j - dataSize = j
        BY <1>1, <2>1, <3>1, <3>2 DEF Read, Kept
      <4> QED
        BY <1>0, <2>1, <4>1
    <3>3. CASE j \notin (dataSize + 1)..(dataSize + n)
      <4>1. mem'[j] = mem[j] /\ j \in 1..dataSize
        BY <1>1, <2>1, <3>1, <3>3 DEF Read
      <4> QED
        BY <1>0, <2>1, <4>1 DEF Kept
    <3> QED
      BY <3>2, <3>3
  <2> QED
    BY <2>1, <2>2 DEF Kept
<1>2. CASE HandOver
  <2>1. /\ UNCHANGED <<ends, arrived, mem, dataSize>> /\ pc' = "parse"
        /\ handed' = Append(handed, 1)
    BY <1>2, NoEmptyLine, FrontIsFirst DEF HandOver, SkipRecord
  <2>2. Len(handed) \in Nat /\ handed \in Seq(Nat)
    BY HandedFacts
  <2>3. handed' = [i \in 1..Len(handed') |-> 1]
    <3>1. /\ Append(handed, 1) \in Seq(Nat)
          /\ Len(Append(handed, 1)) = Len(handed) + 1
          /\ \A i \in 1..Len(handed) : Append(handed, 1)[i] = handed[i]
          /\ Append(handed, 1)[Len(handed) + 1] = 1
      BY <2>2, AppendProperties
    <3>2. Append(handed, 1) \in [1..Len(Append(handed, 1)) -> Nat]
      BY <3>1, LenProperties
    <3>3. \A i \in 1..(Len(handed) + 1) : Append(handed, 1)[i] = 1
      BY <2>2, <3>1 DEF Kept
    <3> QED
      BY <2>1, <3>1, <3>2, <3>3
  <2> QED
    BY <1>0, <2>1, <2>3 DEF Kept
<1>3. CASE Eof \/ ReadError \/ NotJson \/ ReadMore \/ Finish \/ UNCHANGED vars
  <2>1. UNCHANGED <<ends, arrived, mem, dataSize, handed>> /\ pc' # "wild"
    BY <1>3 DEF Eof, ReadError, NotJson, ReadMore, Finish, vars, Kept
  <2> QED
    BY <1>0, <2>1 DEF Kept
<1> QED
  BY <1>1, <1>2, <1>3 DEF Next

\* The read loop says that a record ends in one newline, and skipRecord() knows
\* only the empty line.  With such records no step takes anything from the
\* buffer, however the stream is cut: the callback gets the first record again
\* each time, and never an other one.
THEOREM OneNewlineRepeats ==
    ASSUME Newlines = 1
    PROVE  Spec => /\ [](handed = [i \in 1..Len(handed) |-> 1])
                   /\ [][HandOver => UNCHANGED <<mem, dataSize>>]_vars
<1>1. Init => Kept
  BY StreamFacts DEF Init, Kept
<1>2. TypeOK /\ Kept /\ [Next]_vars => Kept'
  BY StepKeeps
<1>3. Kept => handed = [i \in 1..Len(handed) |-> 1]
  BY DEF Kept
<1>4. TypeOK /\ Kept /\ [Next]_vars => [HandOver => UNCHANGED <<mem, dataSize>>]_vars
  <2>1. TypeOK /\ Kept /\ HandOver => UNCHANGED <<mem, dataSize>>
    BY NoEmptyLine DEF HandOver, SkipRecord
  <2> QED
    BY <2>1
<1> QED
  BY <1>1, <1>2, <1>3, <1>4, TypeCorrect, PTL DEF Spec
=============================================================================
