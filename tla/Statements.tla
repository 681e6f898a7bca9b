------------------------------ MODULE Statements ------------------------------
(***************************************************************************)
(* The SQL statements of DWhoObjectSQLBase in dwho.classes.objects: what   *)
(* its methods put together from the arguments of a call, what a database  *)
(* does with it, and what the caller asked for.                            *)
(*                                                                         *)
(* What follows WHERE is a sequence of tokens: the clauses, and the marks  *)
(* "and", "or", "(" and ")" that join them.  The places ("?") of a         *)
(* statement are bound to its parameters by their position alone.  A text  *)
(* is a sequence of characters, of which LIKE gives "%", "_" and, as the   *)
(* escape, "!" a meaning.  ORDER BY, LIMIT, OFFSET and the syntax of       *)
(* identifiers are left out.                                               *)
(***************************************************************************)
EXTENDS Integers, Sequences, SequencesExt

CONSTANTS
    Column,
    Char, MaxLength,    \* the texts are those of at most MaxLength characters
    Null

Text == SeqOf(Char, MaxLength)
Word == {<<>>} \cup {<<x>> : x \in Char \cap {"a", "%"}}    \* bound: values of columns
Value == Word \cup {Null}

Row == [Column -> Value]

\* A condition: a column with a value, or with a list of values; either may be None.
Condition ==
    [column : Column, list : {FALSE}, values : {<<v>> : v \in Value}]
    \cup [column : Column, list : {TRUE}, values : SeqOf(Value, 2)]

\* The keyword arguments of a call: at most one condition on each column.
Conditions ==
    {q \in SeqOf(Condition, 2) : \A i, j \in DOMAIN q : i # j => q[i].column # q[j].column}

-----------------------------------------------------------------------------
(* The builders                                                            *)

Clause(kind, column, places) == [kind |-> kind, column |-> column, places |-> places]
Mark(kind) == [kind |-> kind, places |-> 0]
Marks == {"and", "or", "(", ")"}

\* str.join: the mark stands between the clauses.
Join(q, mark) ==
    IF q = <<>> THEN <<>>
    ELSE [i \in 1 .. 2 * Len(q) - 1 |-> IF i % 2 = 1 THEN q[(i + 1) \div 2] ELSE Mark(mark)]

\* Mutant: an empty list is left out.
InList_Skips(e) == IF e.values = <<>> THEN <<>>
                   ELSE <<Clause("in", e.column, Len(e.values))>>
\* "1 = 0" for an empty list, or IN with one place for each element.
InList(e) == IF e.values = <<>> THEN <<Clause("never", e.column, 0)>>
             ELSE <<Clause("in", e.column, Len(e.values))>>

PrepareElement(e) ==
    IF e.list THEN [q |-> InList(e), v |-> e.values]
    ELSE IF e.values[1] = Null THEN [q |-> <<Clause("is null", e.column, 0)>>, v |-> <<>>]
    ELSE [q |-> <<Clause("=", e.column, 1)>>, v |-> e.values]

Prepared(parts) ==
    [q |-> FlattenSeq([i \in DOMAIN parts |-> parts[i].q]),
     v |-> FlattenSeq([i \in DOMAIN parts |-> parts[i].v])]

PrepareCondition(elements) ==
    LET p == Prepared([i \in DOMAIN elements |-> PrepareElement(elements[i])])
    IN  [q |-> Join(p.q, "and"), v |-> p.v]

\* str.replace of one character by two.
Replace(text, x, y) ==
    FlattenSeq([i \in DOMAIN text |-> IF text[i] = x THEN y ELSE <<text[i]>>])

\* Mutant: the escape is escaped last, with those that were put in.
Escaped_Last(text) ==
    Replace(Replace(Replace(text, "%", <<"!", "%">>), "_", <<"!", "_">>), "!", <<"!", "!">>)
Escaped(text) ==
    Replace(Replace(Replace(text, "!", <<"!", "!">>), "%", <<"!", "%">>), "_", <<"!", "_">>)

PrepareCondLike(columns, text) ==
    LET p == Prepared([i \in DOMAIN columns |-> [q |-> <<Clause("like", columns[i], 1)>>,
                                                 v |-> <<<<"%">> \o Escaped(text) \o <<"%">>>>]])
    IN  [q |-> Join(p.q, "or"), v |-> p.v]

\* where is empty when there is no WHERE, as without conditions.
Statement(verb, sets, where, params) ==
    [verb |-> verb, sets |-> sets, where |-> where, params |-> params]

\* get, get_all, get_count and exists.
Select(elements) ==
    LET cond == PrepareCondition(elements)
    IN  Statement("select", <<>>, cond.q, cond.v)

\* Mutant: the parentheses are forgotten.
Braced_Bare(q) == q
Braced(q) == <<Mark("(")>> \o q \o <<Mark(")")>>

\* WHERE (LIKE or ...) AND (condition and ...).
Search(columns, text, elements) ==
    LET like == PrepareCondLike(columns, text)
        cond == PrepareCondition(elements)
        more == IF elements = <<>> THEN <<>> ELSE <<Mark("and")>> \o Braced(cond.q)
    IN  Statement("select", <<>>, Braced(like.q) \o more, like.v \o cond.v)

Create(columns, values) == Statement("insert", columns, <<>>, values)

\* Mutant: the parameters of the condition come first.
UpdateParams_Swapped(values, cond) == cond.v \o values
UpdateParams(values, cond) == values \o cond.v

Update(columns, values, elements) ==
    LET cond == PrepareCondition(elements)
    IN  Statement("update", columns, cond.q, UpdateParams(values, cond))

Delete(elements) ==
    LET cond == PrepareCondition(elements)
    IN  Statement("delete", <<>>, cond.q, cond.v)

-----------------------------------------------------------------------------
(* What a database does with a statement                                   *)

\* Where a text may go on for the pattern from its j-th character on, given that for
\* what is left of the pattern after one character and after two.
GoesOn(text, pattern, j, next, after) ==
    IF pattern[j] = "%" THEN UNION {1 .. k : k \in next}
    ELSE IF pattern[j] = "!" THEN {i \in DOMAIN text : i + 1 \in after /\ text[i] = pattern[j + 1]}
    ELSE {i \in DOMAIN text : i + 1 \in next /\ pattern[j] \in {"_", text[i]}}

\* text LIKE pattern ESCAPE '!'.
Like(text, pattern) ==
    LET end == Len(pattern) + 1
        from[j \in 1 .. end + 1] ==
          IF j = end THEN {Len(text) + 1} ELSE IF j > end THEN {}
          ELSE GoesOn(text, pattern, j, from[j + 1], from[j + 2])
    IN  1 \in from[1]

\* Whether a clause is true of a value with what is bound to its places.  What
\* compares with NULL is not, and IN compares with each element of its list.
TrueOf(clause, bound, value) ==
    CASE clause.kind = "never" -> FALSE
      [] clause.kind = "is null" -> value = Null
      [] clause.kind = "like" -> value # Null /\ Like(value, bound[1])
      [] OTHER -> value # Null /\ value \in ToSet(bound)

\* An expression that has been read in part: whether one of its terms before the last
\* "or" is true, whether the clauses since then are, and whether an operand is due.
Open == [some |-> FALSE, last |-> TRUE, due |-> TRUE]
Holds(e) == e.some \/ e.last
Operand(e, true) == [some |-> e.some, last |-> e.last /\ true, due |-> FALSE]

\* The expressions that are open, the innermost first, after one more token; none
\* after a syntax error.
Parse(nest, kind, true) ==
    IF nest = <<>> THEN <<>>
    ELSE LET e == Head(nest)  outer == Tail(nest)
         IN  CASE kind = "(" /\ e.due -> <<Open>> \o nest
               [] kind = ")" /\ ~e.due /\ outer # <<>> ->
                     <<Operand(Head(outer), Holds(e))>> \o Tail(outer)
               [] kind = "and" /\ ~e.due -> <<[e EXCEPT !.due = TRUE]>> \o outer
               [] kind = "or" /\ ~e.due ->
                     <<[some |-> Holds(e), last |-> TRUE, due |-> TRUE]>> \o outer
               [] kind \notin Marks /\ e.due -> <<Operand(e, true)>> \o outer
               [] OTHER -> <<>>

\* One token, which takes the next parameters for its places.
Read(at, token, params, row) ==
    LET bound == SubSeq(params, at.used + 1, at.used + token.places)
    IN  [used |-> at.used + token.places,
         nest |-> Parse(at.nest, token.kind,
                        token.kind \notin Marks /\ TrueOf(token, bound, row[token.column]))]

\* A statement is read from left to right.  SET takes the first parameters.
Evaluated(s, row) ==
    LET read[i \in 0 .. Len(s.where)] ==
          IF i = 0 THEN [used |-> Len(s.sets), nest |-> <<Open>>]
          ELSE Read(read[i - 1], s.where[i], s.params, row)
    IN  read[Len(s.where)]

\* The row with values[i] in columns[i].
Assigned(row, columns, values) ==
    [c \in Column |-> IF Contains(columns, c)
                      THEN values[CHOOSE i \in DOMAIN columns : columns[i] = c] ELSE row[c]]

\* What is true of the row that was read to its end; nothing if there is no WHERE.
Where(s, row) == s.where = <<>> \/ Holds(Head(Evaluated(s, row).nest))

\* The row as it is answered, written or deleted; nothing if WHERE excludes it.
Effect(s, row) == IF Where(s, row) THEN {Assigned(row, s.sets, s.params)} ELSE {}

\* The statement can be read to its end, and there is a parameter for each place;
\* else the query raises.
Runs(s, row) ==
    LET end == Evaluated(s, row)
    IN  /\ end.used = Len(s.params)
        /\ s.where # <<>> => Len(end.nest) = 1 /\ ~Head(end.nest).due

-----------------------------------------------------------------------------
(* What was asked for                                                      *)

\* The calls: what each method does not take is empty.
Call(methods, scolumns, texts, assignments, conditions) ==
    {[method |-> m, scolumns |-> c, text |-> x, columns |-> a.columns, values |-> a.values,
      conditions |-> q] :
        m \in methods, c \in scolumns, x \in texts, a \in assignments, q \in conditions}

Nothing == [columns |-> <<>>, values |-> <<>>]
Columns == {q \in SeqOf(Column, 2) : IsInjective(q)}
Searched == Columns \ {<<>>}       \* without columns the search is a syntax error
Assignments == {[columns |-> c, values |-> v] : c \in Columns, v \in SeqOf(Value, 2)}
Scalars == {q \in Conditions : \A i \in DOMAIN q : ~q[i].list}

\* _validate_columns_values: all others are refused with ValueError.
ValidColumnsValues(r) == Len(r.columns) = Len(r.values) /\ Len(r.columns) # 0

Request ==
    Call({"select", "delete"}, {<<>>}, {<<>>}, {Nothing}, Conditions)
    \cup Call({"search"}, Searched, Text, {Nothing}, {<<>>})
    \cup Call({"search"}, Searched, Word, {Nothing}, Scalars)
    \cup {r \in Call({"create"}, {<<>>}, {<<>>}, Assignments, {<<>>})
                 \cup Call({"update"}, {<<>>}, {<<>>}, Assignments, Scalars) :
             ValidColumnsValues(r)}

StatementOf(r) ==
    CASE r.method = "select" -> Select(r.conditions)
      [] r.method = "search" -> Search(r.scolumns, r.text, r.conditions)
      [] r.method = "create" -> Create(r.columns, r.values)
      [] r.method = "update" -> Update(r.columns, r.values, r.conditions)
      [] r.method = "delete" -> Delete(r.conditions)

\* A value asks for the rows that have it, None for those that have none.  A list
\* asks for the rows that have one of its values: None in it adds no row.
Meets(row, e) == IF e.list THEN row[e.column] \in ToSet(e.values) \ {Null}
                           ELSE row[e.column] = e.values[1]

HasPart(text, part) ==
    \E k \in 0 .. Len(text) - Len(part) : SubSeq(text, k + 1, k + Len(part)) = part

Asked(r, row) ==
    IF /\ \A e \in ToSet(r.conditions) : Meets(row, e)
       /\ r.method = "search" =>
             \E c \in ToSet(r.scolumns) : row[c] # Null /\ HasPart(row[c], r.text)
    THEN {Assigned(row, r.columns, r.values)}
    ELSE {}

\* The rows that tell statements apart: a search is about every text.
RowsFor(r) ==
    CASE r.method = "search" ->
            {[c \in Column |-> IF c = d THEN x ELSE y] : d \in Column, x \in Text, y \in Value}
      [] r.method = "create" -> {[c \in Column |-> Null]}
      [] OTHER -> Row

AsAsked(r) ==
    LET s == StatementOf(r)
    IN  \A row \in RowsFor(r) : Runs(s, row) /\ Effect(s, row) = Asked(r, row)
=============================================================================
