------------------------------- MODULE MCTools -------------------------------
(***************************************************************************)
(* One instance for TLC of the single-threaded programs beside the         *)
(* library: the spreadsheet tool (its checker, the text of its cells, the  *)
(* types of its columns) and the searches of the game logic.  In a         *)
(* behaviour one part moves; the others stay where Init puts them.         *)
(***************************************************************************)
EXTENDS Tools

CONSTANTS heroes, items
CONSTANTS Table, Definable, Files, Bad, None, MaxCalls           \* TableChecker
CONSTANTS Chunk, MaxChunks, Types                                \* TableText

VARIABLES
  part,   \* the part that moves
  file, tpls, seen, stack, todo, at, verdict, passes, begun, report, failed, calls,
  text, chunks

checker == <<file, tpls, seen, stack, todo, at, verdict, passes, begun, report, failed, calls>>
cell == <<text, chunks>>
search == <<gain, rival, over, history, marks, frames, result>>
visit == <<edges, found, turn, processed, past>>

C == INSTANCE TableChecker
T == INSTANCE TableText

ToolsInit ==
  /\ part \in {"checker", "cell", "sheet", "search", "visit"}
  /\ C!Init /\ (part # "checker" => file = [t \in Table |-> Bad])
  /\ T!Init
  /\ Init
  /\ K!Init /\ (part # "search" => gain = [p \in K!Positions |-> 0] /\ ~rival /\ over = {})
  /\ V!Init /\ (part # "visit" => edges = {} /\ found = <<CHOOSE v \in Vertices : TRUE>>)

ToolsNext ==
  /\ UNCHANGED part
  /\ \/ part = "checker" /\ C!Next /\ UNCHANGED <<cell, vars, search, visit>>
     \/ part = "cell" /\ T!Next /\ UNCHANGED <<checker, vars, search, visit>>
     \/ part = "sheet" /\ Next /\ UNCHANGED <<checker, cell, search, visit>>
     \/ part = "search" /\ K!Next /\ UNCHANGED <<checker, cell, vars, visit>>
     \/ part = "visit" /\ V!Next /\ UNCHANGED <<checker, cell, vars, search>>

ToolsSpec == ToolsInit /\ [][ToolsNext]_<<part, checker, cell, vars, search, visit>>

------------------------------------------------------------------------------
(* The constants: the tables and their files.                              *)

In(s) == [op |-> "in", set |-> s]
Unique == [op |-> "unique"]
Foreign == [op |-> "foreign"]
And(l, r) == [op |-> "and", l |-> l, r |-> r]
Or(l, r) == [op |-> "or", l |-> l, r |-> r]
Not(l) == [op |-> "not", l |-> l]

IntType(c) == [kind |-> "scalar", items |-> <<>>, c |-> c]
List(ty, c) == [kind |-> "list", items |-> <<ty>>, c |-> c]
Tuple(tys, c) == [kind |-> "tuple", items |-> tys, c |-> c]

Scalars == {IntType(c) : c \in {None, Unique, In({1}), And(Unique, In({2})), Or(In({1}), In({2})),
                            Or(In({1}), Unique), Not(In({1})), Foreign}}
Lists == {List(IntType(In({1})), None), List(IntType(None), Or(Unique, Not(In({<<1>>}))))}
Tuples == {Tuple(<<IntType(None), IntType(None)>>, Unique), Tuple(<<IntType(Unique), IntType(None)>>, Unique)}

FieldsOf(columns) == {[id |-> IntType(Unique), f |-> ty] : ty \in columns}
Records(values, n) == UNION {[1 .. k -> [id : {1, 2}, f : values]] : k \in 0 .. n}

\* One table has scalars, the other a list or tuple.
MCDefinable == [t \in {heroes, items} |-> IF t = heroes THEN FieldsOf(Scalars) ELSE FieldsOf(Lists \cup Tuples)]
\* Files of items have one record, or two with different ids.
MCFiles ==
  {[t \in {heroes, items} |-> IF t = heroes THEN x ELSE y] :
     x \in Records({1, 2}, 2) \cup {Bad},
     y \in {<<[id |-> 2, f |-> <<1, 2>>]>>, Bad}
           \cup {<<[id |-> 1, f |-> v], [id |-> 2, f |-> <<1, 1>>]>> : v \in {<<1, 1>>, <<2, 1>>}}}

------------------------------------------------------------------------------
(* The types and the pieces of a cell's text.                              *)

Of(k) == [kind |-> k, items |-> <<>>]
ListOf(ty) == [kind |-> "list", items |-> <<ty>>]
TupleType(tys) == [kind |-> "tuple", items |-> tys]

MCTypes == {ListOf(Of("number")), ListOf(ListOf(Of("bool"))), ListOf(Of("string")),
            TupleType(<<Of("number")>>), TupleType(<<Of("bool"), Of("number")>>),
            TupleType(<<ListOf(Of("number"))>>), ListOf(TupleType(<<Of("string")>>))}

\* Brackets, blanks, and pieces of numbers and strings that go wrong in many
\* places.
MCChunk == {<<"[">>, <<"]">>, <<"{">>, <<"}">>, <<" ", ",">>, <<" ">>, <<"-", "1">>, <<"1">>, <<"1", ",">>,
            <<".", "1">>, <<"'", "\\", "'", "'">>, <<"'", "}", ",", "\"">>}

TwoMoves == <<"move", "turn_end">>

------------------------------------------------------------------------------
(* The properties of the parts.                                            *)

\* What Checker.check_tpl of checker.py finds right when it is checked for the
\* first time is right, as far as its constraints are looked at; a table with
\* unique ids is found right once, since constraint.py keeps what it saw.
PassesRight == C!PassesRight

\* A table of plain constraints that Checker.check_tpl finds wrong is wrong, and
\* push_check_pop names the record that was being checked, until a check raises.
FailuresRight == C!FailuresRight

\* convert_toplevel of type2.py reads the texts of the grammar and no others, and
\* erlang_to_python of parse.py rewrites the braces outside of strings.
CellsRight == T!CellsRight
==============================================================================
