--------------------------- MODULE ConfigFileProofs ---------------------------
(***************************************************************************)
(* What editing a configuration file keeps, for files of any length: the   *)
(* section an assignment is in is the last header before it, and a line    *)
(* that is put in without a header changes no assignment and no section.   *)
(* Then what a later run finds in the files, and which controller it asks. *)
(***************************************************************************)
EXTENDS Settings, SequenceTheorems, WellFoundedInduction, TLAPS

-----------------------------------------------------------------------------
(* The highest and the lowest of a set of places *)

NatLess == OpToRel(<, Nat)

LEMMA SmallestExists ==
    ASSUME NEW S \in SUBSET Nat, S # {}
    PROVE  \E x \in S : \A y \in S : x <= y
<1>1. IsWellFoundedOn(NatLess, Nat)
  BY NatLessThanWellFounded DEF NatLess
<1>2. PICK x \in S : \A y \in S : ~(<<y, x>> \in NatLess)
  BY <1>1, WFMin
<1>3. ASSUME NEW y \in S, ~(x <= y) PROVE FALSE
  <2>1. y < x /\ x \in Nat /\ y \in Nat
    BY <1>3
  <2>2. <<y, x>> \in NatLess
    BY <2>1 DEF OpToRel, NatLess
  <2> QED
    BY <1>2, <2>2
<1> QED
  BY <1>3

\* The distances to a bound have a smallest one.
LEMMA GreatestExists ==
    ASSUME NEW n \in Nat, NEW S \in SUBSET (0..n), S # {}
    PROVE  \E x \in S : \A y \in S : y <= x
<1> DEFINE D == {n - x : x \in S}
<1>1. D \in SUBSET Nat /\ D # {}
  <2>1. \A x \in S : x \in 0..n /\ n - x \in Nat
    OBVIOUS
  <2> QED
    BY <2>1
<1>2. PICK d \in D : \A e \in D : d <= e
  BY <1>1, SmallestExists
<1>3. PICK x \in S : d = n - x
  BY <1>2
<1>4. ASSUME NEW y \in S PROVE y <= x
  BY <1>2, <1>3, <1>4
<1> QED
  BY <1>3, <1>4

LEMMA HighestIs ==
    ASSUME NEW S \in SUBSET Int, NEW x \in S, \A y \in S : y <= x
    PROVE  Highest(S) = x
<1>1. \A z \in S : (\A y \in S : y <= z) => z = x
  OBVIOUS
<1> QED
  BY <1>1 DEF Highest

LEMMA HighestIn ==
    ASSUME NEW n \in Nat, NEW S \in SUBSET (0..n), S # {}
    PROVE  Highest(S) \in S /\ \A y \in S : y <= Highest(S)
  BY GreatestExists DEF Highest

-----------------------------------------------------------------------------
(* Lines that are put in *)

\* What stands where in a file that some nodes were put into.
LEMMA Inserted ==
    ASSUME NEW S, NEW ast \in Seq(S), NEW nodes \in Seq(S), NEW i \in 0..Len(ast)
    PROVE  /\ InsertAfter(ast, i, nodes) \in Seq(S)
           /\ Len(InsertAfter(ast, i, nodes)) = Len(ast) + Len(nodes)
           /\ \A j \in 1..i : InsertAfter(ast, i, nodes)[j] = ast[j]
           /\ \A j \in 1..Len(nodes) : InsertAfter(ast, i, nodes)[i + j] = nodes[j]
           /\ \A j \in i + 1..Len(ast) :
                 InsertAfter(ast, i, nodes)[j + Len(nodes)] = ast[j]
<1> DEFINE A == SubSeq(ast, 1, i)
           B == SubSeq(ast, i + 1, Len(ast))
<1>1. /\ Len(ast) \in Nat /\ Len(nodes) \in Nat /\ i \in Int /\ i + 1 \in Int /\ Len(ast) \in Int
      /\ \A j \in 1..Len(ast) : ast[j] \in S
  BY LenProperties, ElementOfSeq
<1>2. A \in Seq(S) /\ Len(A) = i /\ \A j \in 1..i : A[j] = ast[j]
  <2>1. \A j \in 1..i : ast[j] \in S
    BY <1>1
  <2>2. /\ A \in Seq(S) /\ Len(A) = IF 1 <= i THEN i - 1 + 1 ELSE 0
        /\ \A j \in 1..(i - 1 + 1) : A[j] = ast[1 + j - 1]
    BY <1>1, <2>1, SubSeqProperties
  <2> QED
    BY <2>2
<1>3. /\ B \in Seq(S) /\ Len(B) = Len(ast) - i
      /\ \A j \in 1..(Len(ast) - i) : B[j] = ast[i + j]
  <2>1. \A j \in i + 1..Len(ast) : ast[j] \in S
    BY <1>1
  <2>2. /\ B \in Seq(S)
        /\ Len(B) = IF i + 1 <= Len(ast) THEN Len(ast) - (i + 1) + 1 ELSE 0
        /\ \A j \in 1..(Len(ast) - (i + 1) + 1) : B[j] = ast[(i + 1) + j - 1]
    BY <1>1, <2>1, SubSeqProperties
  <2> QED
    BY <1>1, <2>2
<1> HIDE DEF A, B
<1>4. /\ A \o nodes \in Seq(S) /\ Len(A \o nodes) = Len(A) + Len(nodes)
      /\ \A j \in 1..Len(A) + Len(nodes) :
            (A \o nodes)[j] = IF j <= Len(A) THEN A[j] ELSE nodes[j - Len(A)]
  BY <1>2, ConcatProperties
<1> DEFINE C == A \o nodes
<1> HIDE DEF C
<1>5. C \in Seq(S) /\ Len(C) = i + Len(nodes)
  BY <1>2, <1>4 DEF C
<1>6. \A j \in 1..i + Len(nodes) : C[j] = IF j <= i THEN ast[j] ELSE nodes[j - i]
  BY <1>1, <1>2, <1>4 DEF C
<1>7. /\ C \o B \in Seq(S) /\ Len(C \o B) = Len(C) + Len(B)
      /\ \A j \in 1..Len(C) + Len(B) :
            (C \o B)[j] = IF j <= Len(C) THEN C[j] ELSE B[j - Len(C)]
  BY <1>3, <1>5, ConcatProperties
<1> DEFINE E == C \o B
<1> HIDE DEF E
<1>8. /\ E \in Seq(S) /\ Len(E) = Len(ast) + Len(nodes)
      /\ \A j \in 1..Len(ast) + Len(nodes) :
            E[j] = IF j <= i + Len(nodes) THEN C[j] ELSE B[j - (i + Len(nodes))]
  <2>1. Len(C) + Len(B) = Len(ast) + Len(nodes)
    BY <1>1, <1>3, <1>5
  <2> QED
    BY <1>5, <1>7, <2>1 DEF E
<1>9. InsertAfter(ast, i, nodes) = E
  BY DEF InsertAfter, A, B, C, E
<1>10. \A j \in 1..i : E[j] = ast[j]
  <2> TAKE j \in 1..i
  <2>1. j \in 1..i + Len(nodes) /\ j \in 1..Len(ast) + Len(nodes) /\ j <= i + Len(nodes) /\ j <= i
    BY <1>1
  <2> QED
    BY <1>6, <1>8, <2>1
<1>11. \A j \in 1..Len(nodes) : E[i + j] = nodes[j]
  <2> TAKE j \in 1..Len(nodes)
  <2>1. E[i + j] = C[i + j]
    BY <1>1, <1>8
  <2> QED
    BY <1>1, <1>6, <2>1
<1>12. \A j \in i + 1..Len(ast) : E[j + Len(nodes)] = ast[j]
  <2> TAKE j \in i + 1..Len(ast)
  <2>0. /\ j + Len(nodes) \in 1..Len(ast) + Len(nodes) /\ ~(j + Len(nodes) <= i + Len(nodes))
        /\ j + Len(nodes) - (i + Len(nodes)) = j - i
    BY <1>1
  <2>1. E[j + Len(nodes)] = B[j - i]
    BY <1>8, <2>0
  <2>2. j - i \in 1..(Len(ast) - i) /\ i + (j - i) = j
    BY <1>1
  <2> QED
    BY <1>3, <2>1, <2>2
<1> QED
  BY <1>8, <1>9, <1>10, <1>11, <1>12

\* f says where each node of one file went in an other one: the order and what
\* the nodes open or assign are the same, and the other file has no header of
\* its own among them.
Moved(ast, f, other) ==
    /\ \A j \in 1..Len(ast) :
          /\ f[j] \in 1..Len(other)
          /\ other[f[j]].kind = ast[j].kind /\ other[f[j]].name = ast[j].name
    /\ \A j, k \in 1..Len(ast) : j < k => f[j] < f[k]
    /\ \A h \in Places(other, "section") :
          \/ \E j \in 1..Len(ast) : h = f[j]
          \/ \A j \in 1..Len(ast) : f[j] < h

LEMMA SameSections ==
    ASSUME NEW S, NEW ast \in Seq(S), NEW other \in Seq(S), NEW f, Moved(ast, f, other),
           NEW j \in 1..Len(ast)
    PROVE  SectionAt(other, f[j]) = SectionAt(ast, j)
<1> DEFINE Old == {h \in Places(ast, "section") : h <= j}
           New == {h \in Places(other, "section") : h <= f[j]}
<1>1. Len(ast) \in Nat /\ Len(other) \in Nat /\ DOMAIN ast = 1..Len(ast) /\ DOMAIN other = 1..Len(other)
  BY LenProperties
<1>2. Old \in SUBSET (0..Len(ast)) /\ New \in SUBSET (0..Len(other)) /\ New \in SUBSET Int
  BY <1>1 DEF Places
<1>3. \A h \in Old : f[h] \in New /\ f[h] \in Int /\ other[f[h]].name = ast[h].name
  <2> TAKE h \in Old
  <2>1. h \in 1..Len(ast) /\ h <= j /\ ast[h].kind = "section"
    BY <1>1 DEF Places
  <2>2. /\ f[h] \in 1..Len(other) /\ other[f[h]].kind = "section" /\ other[f[h]].name = ast[h].name
        /\ f[j] \in 1..Len(other) /\ (h < j => f[h] < f[j])
    BY <2>1 DEF Moved
  <2>3. f[h] <= f[j]
    BY <1>1, <2>1, <2>2
  <2> QED
    BY <1>1, <2>2, <2>3 DEF Places
<1>4. \A k \in New : \E h \in Old : k = f[h]
  <2> TAKE k \in New
  <2>1. k \in 1..Len(other) /\ k <= f[j] /\ other[k].kind = "section" /\ f[j] \in Int
    BY <1>1 DEF Places, Moved
  <2>2. PICK h \in 1..Len(ast) : k = f[h]
    BY <1>1, <2>1 DEF Moved, Places
  <2>3. h <= j
    BY <1>1, <2>1, <2>2 DEF Moved
  <2>4. ast[h].kind = "section"
    BY <2>1, <2>2 DEF Moved
  <2> QED
    BY <1>1, <2>2, <2>3, <2>4 DEF Places
<1>5. CASE Old = {}
  <2>1. New = {}
    BY <1>4, <1>5
  <2> QED
    BY <1>5, <2>1 DEF SectionAt
<1>6. CASE Old # {}
  <2>1. Highest(Old) \in Old /\ \A y \in Old : y <= Highest(Old)
    BY <1>1, <1>2, <1>6, HighestIn
  <2> DEFINE h == Highest(Old)
  <2> HIDE DEF h
  <2>2. h \in Old /\ \A y \in Old : y <= h
    BY <2>1 DEF h
  <2>3. \A k \in New : k <= f[h]
    <3> TAKE k \in New
    <3>1. PICK y \in Old : k = f[y]
      BY <1>4
    <3>2. y \in 1..Len(ast) /\ h \in 1..Len(ast) /\ y <= h
      BY <1>1, <2>2 DEF Places
    <3>3. y < h => f[y] < f[h]
      BY <3>2 DEF Moved
    <3>4. y \in Int /\ h \in Int /\ f[y] \in Int /\ f[h] \in Int
      BY <1>3, <2>2, <3>2
    <3> QED
      BY <3>1, <3>2, <3>3, <3>4
  <2>4. f[h] \in New /\ Highest(New) = f[h]
    BY <1>2, <1>3, <2>2, <2>3, HighestIs
  <2>5. SectionAt(other, f[j]) = other[Highest(New)].name /\ SectionAt(ast, j) = ast[h].name
    BY <1>6, <2>4 DEF SectionAt, h
  <2> QED
    BY <1>3, <2>2, <2>4, <2>5
<1> QED
  BY <1>5, <1>6

\* A node that is moved with its value goes on saying what it said.
LEMMA SameSetting ==
    ASSUME NEW S, NEW ast \in Seq(S), NEW other \in Seq(S), NEW f, Moved(ast, f, other),
           NEW j \in Places(ast, "assignment"), other[f[j]].value = ast[j].value
    PROVE  <<SectionAt(ast, j), ast[j].name, ast[j].value>> \in SettingsOf(other)
<1>1. DOMAIN ast = 1..Len(ast) /\ DOMAIN other = 1..Len(other)
  BY LenProperties
<1>2. j \in 1..Len(ast) /\ ast[j].kind = "assignment"
  BY <1>1 DEF Places
<1>3. f[j] \in Places(other, "assignment") /\ other[f[j]].name = ast[j].name
  BY <1>1, <1>2 DEF Moved, Places
<1>4. SectionAt(other, f[j]) = SectionAt(ast, j)
  BY <1>2, SameSections
<1> QED
  BY <1>3, <1>4 DEF SettingsOf

-----------------------------------------------------------------------------
(* Appending and inserting *)

LEMMA AppendKeeps ==
    ASSUME NEW S, NEW ast \in Seq(S), NEW nodes \in Seq(S)
    PROVE  /\ ast \o nodes \in Seq(S) /\ SettingsOf(ast) \subseteq SettingsOf(ast \o nodes)
           /\ \A j \in 1..Len(ast) : SectionAt(ast \o nodes, j) = SectionAt(ast, j)
<1> DEFINE E == ast \o nodes
           f == [j \in 1..Len(ast) |-> j]
<1>1. /\ E \in Seq(S) /\ Len(E) = Len(ast) + Len(nodes)
      /\ \A i \in 1..Len(ast) + Len(nodes) : E[i] = IF i <= Len(ast) THEN ast[i] ELSE nodes[i - Len(ast)]
  BY ConcatProperties
<1> HIDE DEF E
<1>2. Len(ast) \in Nat /\ Len(nodes) \in Nat /\ DOMAIN ast = 1..Len(ast) /\ DOMAIN E = 1..Len(E)
  BY <1>1, LenProperties
<1>3. \A j \in 1..Len(ast) : f[j] = j /\ j \in 1..Len(E) /\ E[j] = ast[j]
  BY <1>1, <1>2
<1>4. Moved(ast, f, E)
  <2>1. \A h \in 1..Len(E) : h \in 1..Len(ast) \/ \A j \in 1..Len(ast) : j < h
    BY <1>1, <1>2
  <2> QED
    BY <1>2, <1>3, <2>1 DEF Moved, Places
<1>5. SettingsOf(ast) \subseteq SettingsOf(E)
  <2>1. \A j \in Places(ast, "assignment") : E[f[j]].value = ast[j].value
    BY <1>2, <1>3 DEF Places
  <2>2. ASSUME NEW t \in SettingsOf(ast) PROVE t \in SettingsOf(E)
    <3>1. PICK j \in Places(ast, "assignment") :
                  t = <<SectionAt(ast, j), ast[j].name, ast[j].value>>
      BY <2>2 DEF SettingsOf
    <3> QED
      BY <1>1, <1>4, <2>1, <3>1, SameSetting
  <2> QED
    BY <2>2
<1>6. \A j \in 1..Len(ast) : SectionAt(E, j) = SectionAt(ast, j)
  BY <1>1, <1>3, <1>4, SameSections
<1> QED
  BY <1>1, <1>5, <1>6 DEF E

LEMMA InsertKeeps ==
    ASSUME NEW S, NEW ast \in Seq(S), NEW nodes \in Seq(S), NEW i \in 0..Len(ast),
           \A j \in 1..Len(nodes) : nodes[j].kind # "section"
    PROVE  /\ SettingsOf(ast) \subseteq SettingsOf(InsertAfter(ast, i, nodes))
           /\ \A j \in 1..i : SectionAt(InsertAfter(ast, i, nodes), j) = SectionAt(ast, j)
<1> DEFINE E == InsertAfter(ast, i, nodes)
           n == Len(nodes)
           f == [j \in 1..Len(ast) |-> IF j <= i THEN j ELSE j + n]
<1> HIDE DEF E, n
<1>1. /\ E \in Seq(S) /\ Len(E) = Len(ast) + n
      /\ \A j \in 1..i : E[j] = ast[j]
      /\ \A j \in 1..n : E[i + j] = nodes[j]
      /\ \A j \in i + 1..Len(ast) : E[j + n] = ast[j]
  <2>1. InsertAfter(ast, i, nodes) \in Seq(S) /\ Len(InsertAfter(ast, i, nodes)) = Len(ast) + Len(nodes)
    BY Inserted
  <2>2. \A j \in 1..i : InsertAfter(ast, i, nodes)[j] = ast[j]
    BY Inserted
  <2>3. \A j \in 1..Len(nodes) : InsertAfter(ast, i, nodes)[i + j] = nodes[j]
    BY Inserted
  <2>4. \A j \in i + 1..Len(ast) : InsertAfter(ast, i, nodes)[j + Len(nodes)] = ast[j]
    BY Inserted
  <2> QED
    BY <2>1, <2>2, <2>3, <2>4 DEF E, n
<1>2. Len(ast) \in Nat /\ n \in Nat /\ DOMAIN ast = 1..Len(ast) /\ DOMAIN E = 1..Len(E)
  BY <1>1, LenProperties DEF n
<1>3. \A j \in 1..Len(ast) : f[j] \in 1..Len(E) /\ E[f[j]] = ast[j]
  <2> TAKE j \in 1..Len(ast)
  <2>1. CASE j <= i
    BY <1>1, <1>2, <2>1
  <2>2. CASE j > i
    BY <1>1, <1>2, <2>2
  <2> QED
    BY <1>2, <2>1, <2>2
<1>4. \A h \in 1..Len(E) :
         \/ \E j \in 1..Len(ast) : h = f[j]
         \/ E[h].kind # "section"
  <2> TAKE h \in 1..Len(E)
  <2>1. CASE h <= i
    <3>1. h \in 1..Len(ast) /\ h = f[h]
      BY <1>1, <1>2, <2>1
    <3> QED
      BY <3>1
  <2>2. CASE h > i /\ h <= i + n
    <3>1. h - i \in 1..n /\ i + (h - i) = h
      BY <1>2, <2>2
    <3>2. E[h] = nodes[h - i] /\ nodes[h - i].kind # "section"
      BY <1>1, <3>1 DEF n
    <3> QED
      BY <3>2
  <2>3. CASE h > i + n
    <3>1. h - n \in 1..Len(ast) /\ h = f[h - n]
      BY <1>1, <1>2, <2>3
    <3> QED
      BY <3>1
  <2> QED
    BY <1>1, <1>2, <2>1, <2>2, <2>3
<1>5. Moved(ast, f, E)
  <2>1. \A j, k \in 1..Len(ast) : j < k => f[j] < f[k]
    BY <1>2
  <2> HIDE DEF f
  <2> QED
    BY <1>2, <1>3, <1>4, <2>1 DEF Moved, Places
<1>6. SettingsOf(ast) \subseteq SettingsOf(E)
  <2>1. \A j \in Places(ast, "assignment") : E[f[j]].value = ast[j].value
    BY <1>2, <1>3 DEF Places
  <2> HIDE DEF f
  <2>2. ASSUME NEW t \in SettingsOf(ast) PROVE t \in SettingsOf(E)
    <3>1. PICK j \in Places(ast, "assignment") :
                  t = <<SectionAt(ast, j), ast[j].name, ast[j].value>>
      BY <2>2 DEF SettingsOf
    <3> QED
      BY <1>1, <1>5, <2>1, <3>1, SameSetting
  <2> QED
    BY <2>2
<1>7. \A j \in 1..i : SectionAt(E, j) = SectionAt(ast, j)
  <2> TAKE j \in 1..i
  <2>1. j \in 1..Len(ast) /\ f[j] = j
    BY <1>2
  <2> HIDE DEF f
  <2> QED
    BY <1>1, <1>5, <2>1, SameSections
<1> QED
  BY <1>6, <1>7 DEF E

LEMMA StillIn ==
    ASSUME NEW S, NEW ast \in Seq(S), NEW i \in 1..Len(ast), i + 1 \in 1..Len(ast),
           ast[i + 1].kind # "section"
    PROVE  SectionAt(ast, i + 1) = SectionAt(ast, i)
<1>1. DOMAIN ast = 1..Len(ast) /\ Len(ast) \in Nat
  BY LenProperties
<1>2. {h \in Places(ast, "section") : h <= i + 1} = {h \in Places(ast, "section") : h <= i}
  BY <1>1 DEF Places
<1> QED
  BY <1>2 DEF SectionAt

-----------------------------------------------------------------------------
(* Setting a variable *)

\* A variable that is added (S9sClusterConfigParseContext::addVariable) is in
\* its section, and nothing that the file said is lost or changes its section.
\* (With an empty section name it may land in the section the file begins with.)
THEOREM AddVariableKeeps ==
    ASSUME NEW S, NEW ast \in Seq(S), NEW section, NEW name, NEW value, section # NoSection,
           {NewLine, Section(section), Assignment(name, value)} \subseteq S
    PROVE  /\ addVariable(ast, section, name, value) \in Seq(S)
           /\ SettingsOf(ast) \subseteq SettingsOf(addVariable(ast, section, name, value))
           /\ <<section, name, value>> \in SettingsOf(addVariable(ast, section, name, value))
<1> DEFINE candidates == {i \in Places(ast, "assignment") \cup Places(ast, "section") :
                            SectionAt(ast, i) = section}
           header == <<NewLine, Section(section)>>
           isNew == candidates = {} /\ section # NoSection
           base == IF isNew THEN ast \o header ELSE ast
           last == IF isNew THEN Len(base)
                   ELSE IF candidates = {} THEN 1 ELSE Highest(candidates)
           line == <<Assignment(name, value), NewLine>>
           E == addVariable(ast, section, name, value)
<1>1. DOMAIN ast = 1..Len(ast) /\ Len(ast) \in Nat
  BY LenProperties
<1>2. candidates \in SUBSET (0..Len(ast)) /\ candidates \subseteq 1..Len(ast)
  BY <1>1 DEF Places
<1>3. header \in Seq(S) /\ Len(header) = 2 /\ header[2] = Section(section)
  OBVIOUS
<1>4. /\ base \in Seq(S) /\ last \in 1..Len(base) /\ SectionAt(base, last) = section
      /\ SettingsOf(ast) \subseteq SettingsOf(base)
  <2>1. CASE candidates # {}
    <3>1. Highest(candidates) \in candidates
      BY <1>1, <1>2, <2>1, HighestIn
    <3>2. base = ast /\ last = Highest(candidates)
      BY <2>1
    <3> QED
      BY <1>2, <3>1, <3>2
  <2>2. CASE candidates = {}
    <3> DEFINE B == ast \o header
    <3>1. base = B /\ last = Len(B)
      BY <2>2
    <3> HIDE DEF header, base, last
    <3>2. /\ B \in Seq(S) /\ Len(B) = Len(ast) + 2 /\ B[Len(ast) + 2] = Section(section)
      <4>1. /\ B \in Seq(S) /\ Len(B) = Len(ast) + Len(header)
            /\ \A i \in 1..Len(ast) + Len(header) :
                  B[i] = IF i <= Len(ast) THEN ast[i] ELSE header[i - Len(ast)]
        BY <1>3, ConcatProperties
      <4>2. Len(ast) + 2 \in 1..Len(ast) + Len(header) /\ Len(ast) + 2 - Len(ast) = 2
        BY <1>1, <1>3
      <4> QED
        BY <1>1, <1>3, <4>1, <4>2
    <3>3. SettingsOf(ast) \subseteq SettingsOf(B)
      BY <1>3, AppendKeeps
    <3> HIDE DEF B
    <3>4. DOMAIN B = 1..Len(B)
      BY <3>2, LenProperties
    <3>5. B[Len(B)].kind = "section" /\ B[Len(B)].name = section /\ Len(B) \in 1..Len(B)
      BY <1>1, <3>2 DEF Section
    <3> DEFINE H == {h \in Places(B, "section") : h <= Len(B)}
    <3>6. H \in SUBSET Int /\ Len(B) \in H /\ \A y \in H : y <= Len(B)
      BY <1>1, <3>2, <3>4, <3>5 DEF Places
    <3>7. Highest(H) = Len(B)
      BY <3>6, HighestIs
    <3>8. SectionAt(B, Len(B)) = B[Highest(H)].name
      BY <3>6 DEF SectionAt
    <3> QED
      BY <3>1, <3>2, <3>3, <3>5, <3>7, <3>8
  <2> QED
    BY <2>1, <2>2
<1>5. E = IF last < Len(base) /\ base[last + 1] = NewLine
          THEN InsertAfter(base, last + 1, line)
          ELSE InsertAfter(base, last, <<NewLine>> \o line)
  BY DEF addVariable
<1> HIDE DEF candidates, isNew, base, last, E
<1>6. /\ line \in Seq(S) /\ Len(line) = 2 /\ line[1] = Assignment(name, value)
      /\ \A j \in 1..2 : line[j].kind # "section"
  BY DEF Assignment, NewLine
<1>7. Len(base) \in Nat /\ DOMAIN base = 1..Len(base)
  BY <1>4, LenProperties
\* The new assignment comes two places after the last one of its section.
<1>8. /\ E \in Seq(S) /\ SettingsOf(base) \subseteq SettingsOf(E) /\ SectionAt(E, last) = section
      /\ Len(E) >= last + 2 /\ E[last + 1] = NewLine /\ E[last + 2] = Assignment(name, value)
  <2>1. CASE last < Len(base) /\ base[last + 1] = NewLine
    <3>1. E = InsertAfter(base, last + 1, line) /\ last + 1 \in 0..Len(base)
      BY <1>4, <1>5, <1>7, <2>1
    <3> HIDE DEF line
    <3>2. /\ E \in Seq(S) /\ Len(E) = Len(base) + 2
          /\ \A j \in 1..last + 1 : E[j] = base[j]
          /\ \A j \in 1..2 : E[(last + 1) + j] = line[j]
      <4> DEFINE k == last + 1
      <4> HIDE DEF k
      <4>1. base \in Seq(S) /\ line \in Seq(S) /\ k \in 0..Len(base)
        BY <1>4, <1>6, <3>1 DEF k
      <4>2. /\ InsertAfter(base, k, line) \in Seq(S)
            /\ Len(InsertAfter(base, k, line)) = Len(base) + Len(line)
        BY <4>1, Inserted
      <4>3. \A j \in 1..k : InsertAfter(base, k, line)[j] = base[j]
        BY <4>1, Inserted
      <4>4. \A j \in 1..Len(line) : InsertAfter(base, k, line)[k + j] = line[j]
        <5>1. ASSUME NEW i \in 0..Len(base), NEW nodes \in Seq(S)
              PROVE  \A j \in 1..Len(nodes) : InsertAfter(base, i, nodes)[i + j] = nodes[j]
          BY <4>1, Inserted
        <5> QED
          BY <4>1, <5>1
      <4> QED
        BY <1>6, <3>1, <4>2, <4>3, <4>4 DEF k
    <3>3. SettingsOf(base) \subseteq SettingsOf(E) /\ \A j \in 1..last + 1 : SectionAt(E, j) = SectionAt(base, j)
      BY <1>4, <1>6, <3>1, InsertKeeps
    <3>4. E[(last + 1) + 1] = line[1]
      BY <3>2
    <3>5. (last + 1) + 1 = last + 2 /\ last \in 1..last + 1 /\ last + 1 \in 1..last + 1
      BY <1>4, <1>7
    <3> QED
      BY <1>4, <1>6, <1>7, <2>1, <3>2, <3>3, <3>4, <3>5
  <2>2. CASE ~(last < Len(base) /\ base[last + 1] = NewLine)
    <3> DEFINE lines == <<NewLine>> \o line
    <3>1. /\ lines \in Seq(S) /\ Len(lines) = 3 /\ lines[1] = NewLine
          /\ lines[2] = Assignment(name, value) /\ lines[3] = NewLine
      OBVIOUS
    <3>2. E = InsertAfter(base, last, lines) /\ last \in 0..Len(base)
      BY <1>4, <1>5, <1>7, <2>2
    <3> HIDE DEF lines, line
    <3>3. /\ E \in Seq(S) /\ Len(E) = Len(base) + 3
          /\ \A j \in 1..3 : E[last + j] = lines[j]
      <4>1. base \in Seq(S) /\ lines \in Seq(S) /\ last \in 0..Len(base)
        BY <1>4, <3>1, <3>2
      <4>2. E \in Seq(S) /\ Len(E) = Len(base) + Len(lines)
        BY <3>2, <4>1, Inserted
      <4>3. \A j \in 1..Len(lines) : InsertAfter(base, last, lines)[last + j] = lines[j]
        BY <4>1, Inserted
      <4> QED
        BY <3>1, <3>2, <4>2, <4>3
    <3>4. \A j \in 1..3 : lines[j].kind # "section"
      BY <3>1 DEF NewLine, Assignment
    <3>5. SettingsOf(base) \subseteq SettingsOf(E) /\ \A j \in 1..last : SectionAt(E, j) = SectionAt(base, j)
      BY <1>4, <3>1, <3>2, <3>4, InsertKeeps
    <3>6. E[last + 1] = lines[1] /\ E[last + 2] = lines[2] /\ last \in 1..last
      BY <1>4, <1>7, <3>3
    <3> QED
      BY <1>4, <1>7, <3>1, <3>3, <3>5, <3>6
  <2> QED
    BY <2>1, <2>2
<1>9. <<section, name, value>> \in SettingsOf(E)
  <2>1. DOMAIN E = 1..Len(E) /\ Len(E) \in Nat /\ last \in Int /\ last >= 1
    BY <1>4, <1>7, <1>8, LenProperties
  <2>2. SectionAt(E, last + 1) = section
    BY <1>8, <2>1, StillIn DEF NewLine
  <2>3. (last + 1) + 1 = last + 2 /\ last + 1 \in 1..Len(E) /\ last + 2 \in 1..Len(E)
    BY <1>8, <2>1
  <2>4. SectionAt(E, last + 2) = section
    <3>1. E[(last + 1) + 1].kind # "section"
      BY <1>8, <2>3 DEF Assignment
    <3> QED
      BY <1>8, <2>2, <2>3, <3>1, StillIn
  <2>5. last + 2 \in Places(E, "assignment") /\ E[last + 2].name = name /\ E[last + 2].value = value
    BY <1>8, <2>1, <2>3 DEF Places, Assignment
  <2> QED
    BY <2>4, <2>5 DEF SettingsOf
<1> QED
  BY <1>4, <1>8, <1>9 DEF E

LEMMA NodesMade ==
    ASSUME NEW N, NEW V, NEW section \in N, NEW name \in N, NEW value \in V
    PROVE  {NewLine, Section(section), Assignment(name, value)} \subseteq Node(N, V)
<1>1. Section(section) \in Node(N, V) /\ Assignment(name, value) \in Node(N, V)
  BY DEF Section, Assignment, Node
<1>2. NewLine \in Node(N, V)
  BY DEF NewLine, Node
<1> QED
  BY <1>1, <1>2

\* A changed value (S9sClusterConfigParseContext::changeVariable) stays where it
\* was and what is assigned to other variables is not touched.
LEMMA ChangeVariableKeeps ==
    ASSUME NEW N, NEW V, NEW ast \in Seq(Node(N, V)), NEW places \in SUBSET (1..Len(ast)), NEW value \in V
    PROVE  /\ changeVariable(ast, places, value) \in Seq(Node(N, V))
           /\ \A j \in 1..Len(ast) :
                 SectionAt(changeVariable(ast, places, value), j) = SectionAt(ast, j)
           /\ \A j \in Places(ast, "assignment") \ places :
                 <<SectionAt(ast, j), ast[j].name, ast[j].value>>
                    \in SettingsOf(changeVariable(ast, places, value))
           /\ \A j \in Places(ast, "assignment") \cap places :
                 <<SectionAt(ast, j), ast[j].name, value>>
                    \in SettingsOf(changeVariable(ast, places, value))
<1> DEFINE E == changeVariable(ast, places, value)
           f == [j \in 1..Len(ast) |-> j]
<1>1. /\ DOMAIN ast = 1..Len(ast) /\ Len(ast) \in Nat
      /\ \A j \in 1..Len(ast) : ast[j] \in Node(N, V)
  BY LenProperties, ElementOfSeq
<1>2. E = [j \in 1..Len(ast) |-> IF j \in places THEN [ast[j] EXCEPT !.value = value] ELSE ast[j]]
  BY <1>1 DEF changeVariable
<1>3. \A j \in 1..Len(ast) :
         /\ E[j] \in Node(N, V) /\ E[j].kind = ast[j].kind /\ E[j].name = ast[j].name
         /\ E[j].value = IF j \in places THEN value ELSE ast[j].value
  <2> TAKE j \in 1..Len(ast)
  <2>1. ast[j] \in Node(N, V) /\ E[j] = IF j \in places THEN [ast[j] EXCEPT !.value = value] ELSE ast[j]
    BY <1>1, <1>2
  <2> HIDE DEF E
  <2> QED
    BY <2>1 DEF Node
<1>4. E \in Seq(Node(N, V)) /\ Len(E) = Len(ast) /\ DOMAIN E = 1..Len(ast)
  <2>1. E \in [1..Len(ast) -> Node(N, V)]
    BY <1>2, <1>3
  <2>2. E \in Seq(Node(N, V))
    BY <1>1, <2>1, IsASeq
  <2> QED
    BY <1>1, <2>1, <2>2, LenProperties
<1> HIDE DEF E
<1>5. Moved(ast, f, E)
  BY <1>1, <1>3, <1>4 DEF Moved, Places
<1>6. \A j \in 1..Len(ast) : SectionAt(E, j) = SectionAt(ast, j)
  <2> TAKE j \in 1..Len(ast)
  <2>1. f[j] = j
    OBVIOUS
  <2> HIDE DEF f
  <2> QED
    BY <1>4, <1>5, <2>1, SameSections
<1>7. \A j \in Places(ast, "assignment") :
         <<SectionAt(ast, j), ast[j].name, IF j \in places THEN value ELSE ast[j].value>>
            \in SettingsOf(E)
  <2> TAKE j \in Places(ast, "assignment")
  <2>1. j \in 1..Len(ast) /\ ast[j].kind = "assignment"
    BY <1>1 DEF Places
  <2>2. j \in Places(E, "assignment") /\ E[j].name = ast[j].name
    BY <1>3, <1>4, <2>1 DEF Places
  <2> QED
    BY <1>3, <1>6, <2>1, <2>2 DEF SettingsOf
<1> QED
  BY <1>4, <1>6, <1>7 DEF E

\* S9sConfigFile::setVariable: what the file said of other variables stays as
\* it is, in the same sections, and the value is where it was asked for; a
\* variable that only stands at the top of the file is changed there.
THEOREM SetVariableCorrect ==
    ASSUME NEW N, NEW V, NEW ast \in Seq(Node(N, V)), NEW section \in N \ {NoSection},
           NEW name \in N, NEW value \in V
    PROVE  /\ setVariable(ast, section, name, value) \in Seq(Node(N, V))
           /\ \A setting \in SettingsOf(ast) :
                 setting[2] # name => setting \in SettingsOf(setVariable(ast, section, name, value))
           /\ \/ <<section, name, value>> \in SettingsOf(setVariable(ast, section, name, value))
              \/ /\ ~hasVariable(ast, section, name)
                 /\ <<NoSection, name, value>> \in SettingsOf(setVariable(ast, section, name, value))
<1> DEFINE E == setVariable(ast, section, name, value)
<1>1. DOMAIN ast = 1..Len(ast)
  BY LenProperties
<1>2. ASSUME NEW places \in SUBSET Assigned(ast, name), NEW where,
             \E i \in places : SectionAt(ast, i) = where, E = changeVariable(ast, places, value)
      PROVE  /\ E \in Seq(Node(N, V)) /\ <<where, name, value>> \in SettingsOf(E)
             /\ \A setting \in SettingsOf(ast) : setting[2] # name => setting \in SettingsOf(E)
  <2>1. places \in SUBSET (1..Len(ast)) /\ places \subseteq Places(ast, "assignment")
    BY <1>1, <1>2 DEF Assigned, Places
  <2> HIDE DEF E
  <2>2. /\ E \in Seq(Node(N, V))
        /\ \A j \in Places(ast, "assignment") \ places :
              <<SectionAt(ast, j), ast[j].name, ast[j].value>> \in SettingsOf(E)
        /\ \A j \in Places(ast, "assignment") \cap places :
              <<SectionAt(ast, j), ast[j].name, value>> \in SettingsOf(E)
    BY <1>2, <2>1, ChangeVariableKeeps
  <2>3. \A i \in places : ast[i].name = name
    BY <1>2 DEF Assigned
  <2>4. ASSUME NEW setting \in SettingsOf(ast), setting[2] # name PROVE setting \in SettingsOf(E)
    <3>1. PICK j \in Places(ast, "assignment") :
                  setting = <<SectionAt(ast, j), ast[j].name, ast[j].value>>
      BY DEF SettingsOf
    <3>2. j \notin places
      BY <2>3, <2>4, <3>1
    <3> QED
      BY <2>2, <3>1, <3>2
  <2>5. <<where, name, value>> \in SettingsOf(E)
    BY <1>2, <2>1, <2>2, <2>3
  <2> QED
    BY <2>2, <2>4, <2>5
<1>3. CASE hasVariable(ast, section, name)
  <2>1. E = changeVariable(ast, AssignedIn(ast, section, name), value)
    BY <1>3 DEF setVariable
  <2>2. /\ AssignedIn(ast, section, name) \in SUBSET Assigned(ast, name)
        /\ \E i \in AssignedIn(ast, section, name) : SectionAt(ast, i) = section
    BY <1>3 DEF hasVariable, AssignedIn
  <2> HIDE DEF E
  <2>3. /\ E \in Seq(Node(N, V)) /\ <<section, name, value>> \in SettingsOf(E)
        /\ \A setting \in SettingsOf(ast) : setting[2] # name => setting \in SettingsOf(E)
    BY <1>2, <2>1, <2>2
  <2> QED
    BY <2>3 DEF E
<1>4. CASE ~hasVariable(ast, section, name) /\ hasVariable(ast, NoSection, name)
  <2>1. E = changeVariable(ast, Assigned(ast, name), value)
    BY <1>4 DEF setVariable
  <2>2. \E i \in Assigned(ast, name) : SectionAt(ast, i) = NoSection
    BY <1>4 DEF hasVariable, AssignedIn
  <2> HIDE DEF E
  <2>3. /\ E \in Seq(Node(N, V)) /\ <<NoSection, name, value>> \in SettingsOf(E)
        /\ \A setting \in SettingsOf(ast) : setting[2] # name => setting \in SettingsOf(E)
    BY <1>2, <2>1, <2>2
  <2> QED
    BY <1>4, <2>3 DEF E
<1>5. CASE ~hasVariable(ast, section, name) /\ ~hasVariable(ast, NoSection, name)
  <2>1. E = addVariable(ast, section, name, value)
    BY <1>5 DEF setVariable
  <2> HIDE DEF E
  <2>2. /\ E \in Seq(Node(N, V)) /\ SettingsOf(ast) \subseteq SettingsOf(E)
        /\ <<section, name, value>> \in SettingsOf(E)
    <3>1. {NewLine, Section(section), Assignment(name, value)} \subseteq Node(N, V)
      BY NodesMade
    <3>2. /\ addVariable(ast, section, name, value) \in Seq(Node(N, V))
          /\ SettingsOf(ast) \subseteq SettingsOf(addVariable(ast, section, name, value))
          /\ <<section, name, value>> \in SettingsOf(addVariable(ast, section, name, value))
      BY <3>1, AddVariableKeeps
    <3> QED
      BY <2>1, <3>2
  <2> QED
    BY <2>2 DEF E
<1> QED
  BY <1>3, <1>4, <1>5

-----------------------------------------------------------------------------
(* What a run finds that comes later *)

LEMMA LowestIn ==
    ASSUME NEW S \in SUBSET Nat, S # {}
    PROVE  Lowest(S) \in S
  BY SmallestExists DEF Lowest

\* What a creation saves is what the next run finds: a variable that no section
\* of the user's file assigns has the value it is set to, whatever the file of
\* the system says and whatever section it is set in (executeCreateUser sets the
\* name, the key and the controller only when none was found).
THEOREM SavedIsFound ==
    ASSUME NEW S, NEW user \in Seq(S), NEW system, NEW options, NEW env,
           NEW section, section # NoSection, NEW name, name \notin DOMAIN options,
           NEW value, value # NoValue, Assigned(user, name) = {}
    PROVE  configured([options |-> options, system |-> system, env |-> env,
                       user |-> setVariable(user, section, name, value)], name) = value
<1> DEFINE E == addVariable(user, section, name, value)
           T == {user[i] : i \in 1..Len(user)} \cup
                    {NewLine, Section(section), Assignment(name, value)}
<1>1. Len(user) \in Nat /\ DOMAIN user = 1..Len(user) /\ user = [i \in 1..Len(user) |-> user[i]]
  BY LenProperties, SeqDef
<1>2. user \in Seq(T)
  BY <1>1, SeqDef
<1>3. {NewLine, Section(section), Assignment(name, value)} \subseteq T
  OBVIOUS
<1>4. E \in Seq(T) /\ <<section, name, value>> \in SettingsOf(E)
  <2> HIDE DEF T
  <2> QED
    BY <1>2, <1>3, AddVariableKeeps
<1>5. setVariable(user, section, name, value) = E
  BY DEF setVariable, hasVariable, AssignedIn
<1>6. Len(E) \in Nat /\ DOMAIN E = 1..Len(E) /\ \A i \in 1..Len(E) : E[i] \in T
  <2> HIDE DEF E, T
  <2> QED
    BY <1>4, LenProperties, ElementOfSeq
<1>7. ASSUME NEW i \in Assigned(E, name) PROVE E[i].value = value
  <2>1. i \in 1..Len(E) /\ E[i].kind = "assignment" /\ E[i].name = name
    BY <1>6 DEF Assigned, Places
  <2>2. E[i] \in T
    BY <1>6, <2>1
  <2>3. ASSUME NEW j \in 1..Len(user), E[i] = user[j] PROVE FALSE
    <3>1. j \in Assigned(user, name)
      BY <1>1, <2>1, <2>3 DEF Assigned, Places
    <3> QED
      BY <3>1
  <2> HIDE DEF E
  <2>4. E[i] \in {NewLine, Section(section), Assignment(name, value)}
    BY <2>2, <2>3
  <2>5. E[i] = Assignment(name, value)
    BY <2>1, <2>4 DEF NewLine, Section
  <2> QED
    BY <2>5 DEF Assignment
<1>8. Assigned(E, name) # {} /\ Assigned(E, name) \subseteq 1..Len(E)
  <2> HIDE DEF E
  <2>1. PICK i \in Places(E, "assignment") :
                <<section, name, value>> = <<SectionAt(E, i), E[i].name, E[i].value>>
    BY <1>4 DEF SettingsOf
  <2> QED
    BY <1>6, <2>1 DEF Assigned, Places
<1>9. variableValue(E, name) = value
  <2> HIDE DEF E
  <2>1. Lowest(Assigned(E, name)) \in Assigned(E, name)
    BY <1>8, LowestIn
  <2> QED
    BY <1>7, <1>8, <2>1 DEF variableValue
<1> QED
  BY <1>5, <1>9 DEF configured, optionOr, inFiles, OrElse, hasOption

\* What setting the controller leaves of the options there were before.
Left(url, before, o) ==
    LET a == Address[url]
        Kept(key) == key \in DOMAIN before => key \in DOMAIN o /\ o[key] = before[key]
        Is(key, value) == key \in DOMAIN o /\ o[key] = value
    IN  /\ Is("controller", a.host)
        /\ IF a.port # NoValue THEN Is("controller_port", a.port) ELSE Kept("controller_port")
        /\ IF a.protocol # NoValue
           THEN Is("controller_protocol", a.protocol) ELSE Kept("controller_protocol")

LEMMA AddressSet ==
    ASSUME NEW before, NEW user, NEW system, NEW env, NEW url, url \notin Bare
    PROVE  \E o :
             /\ setController([options |-> before, user |-> user, system |-> system, env |-> env], url) =
                   [options |-> o, user |-> user, system |-> system, env |-> env]
             /\ Left(url, before, o)
<1> DEFINE a == Address[url]
           o1 == IF a.protocol = NoValue THEN before
                 ELSE With(before, "controller_protocol", a.protocol)
           o2 == With(o1, "controller", a.host)
           o3 == With(o2, "controller_port", a.port)
           o4 == With(o3, "controller_path", a.path)
           s == [options |-> before, user |-> user, system |-> system, env |-> env]
           At(o) == [options |-> o, user |-> user, system |-> system, env |-> env]
<1>1. /\ SetOption(At(o1), "controller", a.host) = At(o2)
      /\ SetOption(At(o2), "controller_port", a.port) = At(o3)
      /\ SetOption(At(o3), "controller_path", a.path) = At(o4)
  BY DEF SetOption
<1>2. At(o1) = IF a.protocol = NoValue THEN s ELSE SetOption(s, "controller_protocol", a.protocol)
  BY DEF SetOption
<1>3. setController(s, url) = At(IF a.port = NoValue THEN o2 ELSE o4)
  <2> HIDE DEF o1, o2, o3, o4
  <2> QED
    BY <1>1, <1>2 DEF setController
<1>4. IF a.protocol = NoValue THEN o1 = before
      ELSE /\ "controller_protocol" \in DOMAIN o1 /\ o1["controller_protocol"] = a.protocol
           /\ \A k \in DOMAIN before : k # "controller_protocol" => k \in DOMAIN o1 /\ o1[k] = before[k]
  BY DEF With
<1> HIDE DEF o1
<1>5. /\ "controller" \in DOMAIN o2 /\ o2["controller"] = a.host
      /\ \A k \in DOMAIN o1 : k # "controller" => k \in DOMAIN o2 /\ o2[k] = o1[k]
  BY DEF With
<1> HIDE DEF o2
<1>6. /\ "controller_port" \in DOMAIN o4 /\ o4["controller_port"] = a.port
      /\ \A k \in DOMAIN o2 : k \notin {"controller_port", "controller_path"} =>
            k \in DOMAIN o4 /\ o4[k] = o2[k]
  BY DEF With
<1> HIDE DEF o3, o4
<1> DEFINE o == IF a.port = NoValue THEN o2 ELSE o4
<1>7. "controller" \in DOMAIN o /\ o["controller"] = a.host
  BY <1>5, <1>6
<1>8. IF a.port # NoValue
      THEN "controller_port" \in DOMAIN o /\ o["controller_port"] = a.port
      ELSE "controller_port" \in DOMAIN before =>
              "controller_port" \in DOMAIN o /\ o["controller_port"] = before["controller_port"]
  BY <1>4, <1>5, <1>6
<1>9. IF a.protocol # NoValue
      THEN "controller_protocol" \in DOMAIN o /\ o["controller_protocol"] = a.protocol
      ELSE "controller_protocol" \in DOMAIN before =>
              "controller_protocol" \in DOMAIN o /\ o["controller_protocol"] = before["controller_protocol"]
  BY <1>4, <1>5, <1>6
<1> QED
  BY <1>3, <1>7, <1>8, <1>9 DEF Left

\* Who is asked is settled by the first question: checkController() puts what it
\* finds among the options, and finds it there the next time; an address of the
\* command line or of the environment is kept as it is.  Only a file that says
\* just "http://" leaves nothing behind; it is the one way to get to the
\* controller_host_name of the files.
THEOREM ControllerSettles ==
    ASSUME NEW options, NEW user, NEW system, NEW env, NEW s,
           s = [options |-> options, user |-> user, system |-> system, env |-> env]
    PROVE  /\ checkController(checkController(s)) = checkController(s)
           /\ hasOption(s, "controller") => checkController(s) = s
           /\ \/ hasOption(checkController(s), "controller")
              \/ checkController(s) = s /\ inFiles(s, "controller") \in Bare
<1> DEFINE url == OrElse(inFiles(s, "controller"), LocalController)
<1>1. CASE hasOption(s, "controller")
  BY <1>1 DEF checkController
<1>2. CASE ~hasOption(s, "controller") /\ url \in Bare
  <2>1. checkController(s) = s
    BY <1>2 DEF checkController, setController
  <2>2. url = inFiles(s, "controller")
    BY <1>2 DEF Bare, LocalController, OrElse
  <2> QED
    BY <1>2, <2>1, <2>2
<1>3. CASE ~hasOption(s, "controller") /\ url \notin Bare
  <2>1. checkController(s) = setController(s, url)
    BY <1>3 DEF checkController
  <2>2. PICK o : /\ setController(s, url) =
                      [options |-> o, user |-> user, system |-> system, env |-> env]
                 /\ Left(url, options, o)
    <3> HIDE DEF url
    <3> QED
      BY <1>3, AddressSet
  <2>3. hasOption(checkController(s), "controller")
    BY <2>1, <2>2 DEF hasOption, Left
  <2> QED
    BY <1>3, <2>3 DEF checkController
<1> QED
  BY <1>1, <1>2, <1>3

\* Of two addresses, CMON_CONTROLLER and then --controller, the host is always
\* the one of the last; the port, the path and the protocol stay those of the
\* first when the last one names none.
THEOREM AddressesMix ==
    ASSUME NEW options, NEW user, NEW system, NEW env, NEW s,
           s = [options |-> options, user |-> user, system |-> system, env |-> env],
           NEW first \in DOMAIN Address \ Bare, NEW last \in DOMAIN Address \ Bare
    PROVE  LET t == setController(setController(s, first), last)
               Port(url) == Address[url].port
               Protocol(url) == Address[url].protocol
           IN  /\ t.options["controller"] = Address[last].host
               /\ Port(last) # NoValue => t.options["controller_port"] = Port(last)
               /\ Port(last) = NoValue /\ Port(first) # NoValue =>
                     t.options["controller_port"] = Port(first)
               /\ Protocol(last) # NoValue => t.options["controller_protocol"] = Protocol(last)
               /\ Protocol(last) = NoValue /\ Protocol(first) # NoValue =>
                     t.options["controller_protocol"] = Protocol(first)
<1> DEFINE At(o) == [options |-> o, user |-> user, system |-> system, env |-> env]
<1>1. PICK o1 : setController(s, first) = At(o1) /\ Left(first, options, o1)
  BY AddressSet
<1>2. PICK o2 : setController(At(o1), last) = At(o2) /\ Left(last, o1, o2)
  BY AddressSet
<1>3. setController(setController(s, first), last).options = o2
  BY <1>1, <1>2
<1>4. o2["controller"] = Address[last].host
  BY <1>2 DEF Left
<1>5. /\ Address[last].port # NoValue => o2["controller_port"] = Address[last].port
      /\ Address[last].port = NoValue /\ Address[first].port # NoValue =>
            o2["controller_port"] = Address[first].port
  BY <1>1, <1>2 DEF Left
<1>6. /\ Address[last].protocol # NoValue => o2["controller_protocol"] = Address[last].protocol
      /\ Address[last].protocol = NoValue /\ Address[first].protocol # NoValue =>
            o2["controller_protocol"] = Address[first].protocol
  BY <1>1, <1>2 DEF Left
<1> QED
  BY <1>3, <1>4, <1>5, <1>6

\* The credentials of a file are missed when they stand in a section, as they do
\* in the template under [global]: the servers of a job then go without, while
\* the functions that ask for the name itself find it.
THEOREM CredentialsInSectionsAreMissed ==
    ASSUME NEW s, \A key \in {"os_user", "os_password", "os_key_file"} :
                     /\ ~hasOption(s, key)
                     /\ \A ast \in {s.user, s.system} :
                           \A i \in Assigned(ast, key) : SectionAt(ast, i) # NoSection
    PROVE  /\ ~hasSshCredentials(s)
           /\ inFiles(s, "os_user") # NoValue => osUser(s) = inFiles(s, "os_user")
<1>1. \A key \in {"os_user", "os_password", "os_key_file"} : \A ast \in {s.user, s.system} :
         ~hasVariable(ast, NoSection, key)
  BY DEF hasVariable, AssignedIn
<1>2. ~hasSshCredentials(s)
  BY <1>1 DEF hasSshCredentials
<1> QED
  BY <1>2 DEF osUser, configured, optionOr, OrElse
===============================================================================
