----------------------------- MODULE JsonStream -----------------------------
(***************************************************************************)
(* The receive buffer of S9sRpcClient while it reads the reply to an event *)
(* subscription: the read loop of doExecuteRequest with hasCompleteJSon,   *)
(* getCompleteJSon and skipRecord of S9sRpcClientPrivate.                  *)
(*                                                                         *)
(* The buffer is modelled byte by byte because the framing looks at single *)
(* bytes, the one after the data included.  The stream is given by the     *)
(* places where its records end: a record is a separator, a payload that is *)
(* reduced to bytes with the number of the record, and newlines.           *)
(***************************************************************************)
EXTENDS Integers, Sequences

CONSTANTS
    NRecords,   \* records the controller sends
    Newlines,   \* newlines at the end of a record
    Streams,    \* the streams it may send: how many bytes up to the end of each record
    MaxRead,    \* READ_SIZE - 1
    Aligned,    \* whether a read returns whole records only
    Garbage     \* what the bytes of the allocated buffer may be

RS   == 0       \* the record separator '\036'
NL   == -1
Zero == -2

ASSUME StreamAssumption ==
    /\ NRecords \in Nat \ {0}
    /\ Newlines \in {1, 2}
    /\ \A e \in Streams :
          /\ e \in [0..NRecords -> Nat] /\ e[0] = 0
          /\ \A i \in 1..NRecords : e[i] >= e[i - 1] + 2 + Newlines
    /\ MaxRead \in Nat \ {0}
    /\ Aligned \in BOOLEAN
    /\ Garbage \subseteq {RS, Zero} /\ Garbage # {}

VARIABLES
    pc,         \* "read", "parse", "done" or "wild"
    ends,       \* where the records of the stream end
    broken,     \* the record that is no JSON, 0 for none
    arrived,    \* bytes of the stream that were received
    mem,        \* m_buffer
    dataSize,   \* m_dataSize
    ended,      \* the last read returned 0
    isStream,   \* isJSonStream
    handed,     \* the records given to the callback
    retval      \* what doExecuteRequest returns

sent == <<ends, broken>>
vars == <<pc, sent, arrived, mem, dataSize, ended, isStream, handed, retval>>

\* The length of the payload of a record.
PayloadOf(i) == ends[i] - ends[i - 1] - 1 - Newlines

\* The bytes of a record, and of the stream.
ByteOf(i, p) == IF p = 1 THEN RS ELSE IF p <= PayloadOf(i) + 1 THEN i ELSE NL
RecordAt(k)  == CHOOSE i \in 1..NRecords : ends[i - 1] < k /\ k <= ends[i]
Sent(k)      == ByteOf(RecordAt(k), k - ends[RecordAt(k) - 1])

Total      == ends[NRecords]
Boundaries == {ends[n] : n \in 0..NRecords}

\* The number of whole records that were received.
Received == CHOOSE n \in 0..NRecords :
    /\ ends[n] <= arrived
    /\ n < NRecords => arrived < ends[n + 1]

MemSize == Total + 1

----------------------------------------------------------------------------
(* S9sRpcClientPrivate *)

\* Where an empty line begins in the data.
EmptyLines == {i \in 1..(dataSize - 1) : mem[i] = NL /\ mem[i + 1] = NL}

HasCompleteJSon == EmptyLines # {} \/ \E i \in 1..dataSize : mem[i] = RS

\* The index of the byte that ends the first JSON string: a separator that is
\* not the first byte, or the second newline of an empty line.
StringEnd ==
    {i \in 2..dataSize : mem[i] = RS \/ (mem[i] = NL /\ mem[i - 1] = NL)} \cup {dataSize + 1}

Least(S) == CHOOSE i \in S : \A j \in S : i <= j

CompleteJSon == SubSeq(mem, IF mem[1] = RS THEN 2 ELSE 1, Least(StringEnd) - 1)

\* The string is the payload of one record and not a part of one; the white
\* space behind it does not matter.
Whole(s) ==
    /\ Len(s) > 0 /\ s[1] \in 1..NRecords
    /\ Len(s) >= PayloadOf(s[1])
    /\ s = [j \in 1..Len(s) |-> IF j <= PayloadOf(s[1]) THEN s[1] ELSE NL]

Parses(s) == Whole(s) /\ s[1] # broken

\* Mistake: the buffer is taken to hold one record.
RecordSizeOfAll == dataSize

\* recordSize of skipRecord(): the empty line is looked for in the data, the
\* separator behind it is not.
RecordSize ==
    LET next == Least(EmptyLines) + 2
    IN  IF mem[next] = RS THEN next ELSE next - 1

\* memmove() of what is left to the front; the bytes behind it stay.
ShiftBy(n) == [i \in 1..MemSize |-> IF i + n <= dataSize THEN mem[i + n] ELSE mem[i]]

\* Mistake: the record stays in the buffer.
SkipNothing == UNCHANGED <<mem, dataSize>> /\ pc' = pc

\* Mistake: the size of what is left is not looked at.
SkipUnchecked ==
    IF EmptyLines = {}
    THEN UNCHANGED <<mem, dataSize>> /\ pc' = pc
    ELSE mem' = ShiftBy(RecordSize) /\ dataSize' = dataSize - RecordSize /\ pc' = pc

\* skipRecord().  When recordSize is greater than m_dataSize the size_t
\* remaining wraps around, and memmove() runs far out of the buffer.
SkipRecord ==
    IF EmptyLines = {}
    THEN UNCHANGED <<mem, dataSize>> /\ pc' = pc
    ELSE IF RecordSize > dataSize
    THEN UNCHANGED <<mem, dataSize>> /\ pc' = "wild"
    ELSE mem' = ShiftBy(RecordSize) /\ dataSize' = dataSize - RecordSize /\ pc' = pc

----------------------------------------------------------------------------
(* S9sRpcClient::doExecuteRequest *)

Init ==
    /\ pc = "read"
    /\ ends \in Streams
    /\ broken \in 0..NRecords
    /\ arrived = 0
    /\ \E g \in Garbage : mem = [i \in 1..MemSize |-> g]
    /\ dataSize = 0
    /\ ended = FALSE
    /\ isStream = FALSE
    /\ handed = <<>>
    /\ retval = FALSE

\* A read of n bytes.  A read that fills the buffer is followed by an other one.
Read(n) ==
    /\ pc = "read"
    /\ n \in 1..MaxRead
    /\ arrived + n <= Total
    /\ Aligned => arrived + n \in Boundaries
    /\ mem' = [i \in 1..MemSize |->
                 IF i \in (dataSize + 1)..(dataSize + n)
                 THEN Sent(arrived + i - dataSize) ELSE mem[i]]
    /\ dataSize' = dataSize + n
    /\ arrived' = arrived + n
    /\ IF n = MaxRead
       THEN pc' = pc /\ UNCHANGED isStream
       ELSE pc' = "parse" /\ isStream' = (isStream \/ mem'[1] = RS)
    /\ UNCHANGED <<sent, ended, handed, retval>>

\* The controller closes the connection: the first byte of the buffer is
\* looked at even when nothing was ever received.
Eof ==
    /\ pc = "read"
    /\ ended' = TRUE
    /\ isStream' = (isStream \/ mem[1] = RS)
    /\ pc' = "parse"
    /\ UNCHANGED <<sent, arrived, mem, dataSize, handed, retval>>

\* read() fails or times out.
ReadError ==
    /\ pc = "read"
    /\ pc' = "done"
    /\ retval' = FALSE
    /\ UNCHANGED <<sent, arrived, mem, dataSize, ended, isStream, handed>>

\* One turn of the loop over the records in the buffer.
HandOver ==
    /\ pc = "parse"
    /\ isStream
    /\ HasCompleteJSon
    /\ Parses(CompleteJSon)
    /\ Len(handed) <= NRecords
    /\ SkipRecord
    /\ handed' = Append(handed, CompleteJSon[1])
    /\ UNCHANGED <<sent, arrived, ended, isStream, retval>>

\* "Failed to parse JSon string."
NotJson ==
    /\ pc = "parse"
    /\ isStream
    /\ HasCompleteJSon
    /\ ~Parses(CompleteJSon)
    /\ pc' = "done"
    /\ retval' = FALSE
    /\ UNCHANGED <<sent, arrived, mem, dataSize, ended, isStream, handed>>

\* No complete record is left in the buffer.
ReadMore ==
    /\ pc = "parse"
    /\ ~(isStream /\ HasCompleteJSon)
    /\ ~ended
    /\ pc' = "read"
    /\ UNCHANGED <<sent, arrived, mem, dataSize, ended, isStream, handed, retval>>

\* A stream that ended is a success, an answer without data is an error.
Finish ==
    /\ pc = "parse"
    /\ ~(isStream /\ HasCompleteJSon)
    /\ ended
    /\ pc' = "done"
    /\ retval' = isStream
    /\ UNCHANGED <<sent, arrived, mem, dataSize, ended, isStream, handed>>

Next == (\E n \in 1..MaxRead : Read(n)) \/ Eof \/ ReadError \/ HandOver \/ NotJson \/ ReadMore \/ Finish

Spec == Init /\ [][Next]_vars

----------------------------------------------------------------------------
(* Properties *)

TypeOK ==
    /\ pc \in {"read", "parse", "done", "wild"}
    /\ ends \in Streams
    /\ broken \in 0..NRecords
    /\ arrived \in 0..Total
    /\ mem \in [1..MemSize -> {RS, NL, Zero} \cup 1..NRecords]
    /\ dataSize \in 0..arrived
    /\ ended \in BOOLEAN /\ isStream \in BOOLEAN /\ retval \in BOOLEAN
    /\ handed \in Seq(1..NRecords)

\* The callback sees every record once and in the order of the stream, however
\* many records a read returns and wherever the buffer was shifted before.
HandedInOrder == handed = [i \in 1..Len(handed) |-> i]

\* Before the next read the buffer holds no record that came whole, unless the
\* last read filled it, so an event is not held back until the next one comes;
\* and a subscription that ends well has handed over everything that came.
AllHandedOver ==
    (pc = "read" /\ dataSize < MaxRead) \/ (pc = "done" /\ retval) => Len(handed) = Received

\* hasCompleteJSon: "True if there is at least one complete JSon string is in
\* the buffer."
CompleteMeansComplete == pc = "parse" /\ isStream /\ HasCompleteJSon => Whole(CompleteJSon)
=============================================================================
