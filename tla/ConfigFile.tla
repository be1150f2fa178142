----------------------------- MODULE ConfigFile -----------------------------
(***************************************************************************)
(* The configuration files of s9s (S9sConfigFile and its parse context):   *)
(* a file is kept as the list of its nodes, so that the comments and the   *)
(* layout survive when one variable is set and the file is written back.   *)
(*                                                                         *)
(* A node is a section header, an assignment, a comment or a new line.     *)
(* The lexer turns a commented-out assignment into a comment, so a node of *)
(* the type Commented never comes from a file and is left out.  A file     *)
(* that is no longer one is a list that ends in a Broken node: what is     *)
(* left of a longer text under a shorter one.                              *)
(***************************************************************************)
EXTENDS Naturals, Sequences

NoSection == ""
NoValue == ""

Section(name) == [kind |-> "section", name |-> name, value |-> NoValue]
Assignment(name, value) == [kind |-> "assignment", name |-> name, value |-> value]
Comment == [kind |-> "comment", name |-> NoSection, value |-> NoValue]
NewLine == [kind |-> "newLine", name |-> NoSection, value |-> NoValue]
Broken == [kind |-> "broken", name |-> NoSection, value |-> NoValue]

\* A file is a sequence of nodes, with names and values from two sets.
Node(Name, Value) ==
    [kind : {"section", "assignment", "comment", "newLine", "broken"},
     name : Name \cup {NoSection}, value : Value \cup {NoValue}]

\* The places of a file that hold a node of the kind.
Places(ast, kind) == {i \in DOMAIN ast : ast[i].kind = kind}

Highest(S) == CHOOSE i \in S : \A j \in S : j <= i
Lowest(S) == CHOOSE i \in S : \A j \in S : i <= j

\* The section the i-th node is in: a header is in the section it opens.
SectionAt(ast, i) ==
    LET headers == {h \in Places(ast, "section") : h <= i}
    IN  IF headers = {} THEN NoSection ELSE ast[Highest(headers)].name

\* What the assignments of a file say.
SettingsOf(ast) ==
    {<<SectionAt(ast, i), ast[i].name, ast[i].value>> : i \in Places(ast, "assignment")}

\* The assignments to the variable, in any section or in the one given.
Assigned(ast, name) == {i \in Places(ast, "assignment") : ast[i].name = name}
AssignedIn(ast, section, name) ==
    {i \in Assigned(ast, name) : SectionAt(ast, i) = section}

hasVariable(ast, section, name) == AssignedIn(ast, section, name) # {}

\* With no search groups the first value of the file counts, whatever section
\* it is in.
variableValue(ast, name) ==
    IF Assigned(ast, name) = {} THEN NoValue
    ELSE ast[Lowest(Assigned(ast, name))].value

\* changeVariable() with a section and without: every occurrence changes.
changeVariable(ast, places, value) ==
    [i \in DOMAIN ast |-> IF i \in places THEN [ast[i] EXCEPT !.value = value] ELSE ast[i]]

\* The nodes put after the i-th one.
InsertAfter(ast, i, nodes) == SubSeq(ast, 1, i) \o nodes \o SubSeq(ast, i + 1, Len(ast))

\* A new assignment goes on a line of its own after the last assignment of its
\* section, or after the header; a section that is missing is added at the end.
\* Without a section, and with no assignment at the top of the file, it goes
\* after the first node, whatever that is; the code then needs a first node.
addVariable(ast, section, name, value) ==
    LET candidates == {i \in Places(ast, "assignment") \cup Places(ast, "section") :
                          SectionAt(ast, i) = section}
        isNew == candidates = {} /\ section # NoSection
        base  == IF isNew THEN ast \o <<NewLine, Section(section)>> ELSE ast
        last  == IF isNew THEN Len(base)
                 ELSE IF candidates = {} THEN 1 ELSE Highest(candidates)
        line  == <<Assignment(name, value), NewLine>>
    IN  IF last < Len(base) /\ base[last + 1] = NewLine
        THEN InsertAfter(base, last + 1, line)
        ELSE InsertAfter(base, last, <<NewLine>> \o line)

setVariable(ast, section, name, value) ==
    CASE hasVariable(ast, section, name) ->
            changeVariable(ast, AssignedIn(ast, section, name), value)
      [] ~hasVariable(ast, section, name) /\ hasVariable(ast, NoSection, name) ->
            changeVariable(ast, Assigned(ast, name), value)
      [] OTHER -> addVariable(ast, section, name, value)

\* parse(): what comes before an error is kept, and the call fails.
Parses(ast) == Places(ast, "broken") = {}
Parsed(ast) == IF Parses(ast) THEN ast ELSE SubSeq(ast, 1, Lowest(Places(ast, "broken")) - 1)
=============================================================================
