---------------------------- MODULE MCJsonStream ----------------------------
(* JsonStream with the streams of payloads of every length up to MaxLen. *)
EXTENDS JsonStream, Folds

CONSTANT MaxLen

MCStreams ==
    LET EndsOf(len) ==
            [n \in 0..NRecords |->
                MapThenFoldSet(+, n * (1 + Newlines), LAMBDA i : len[i],
                               LAMBDA S : CHOOSE i \in S : TRUE, 1..n)]
    IN  {EndsOf(len) : len \in [1..NRecords -> 1..MaxLen]}

MCClean == {Zero}
=============================================================================
