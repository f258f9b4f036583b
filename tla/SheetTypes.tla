----------------------------- MODULE SheetTypes ------------------------------
(***************************************************************************)
(* The types of a sheet's columns (tools/excel_tool: main.py, type.py,     *)
(* meta.py).  The cell under a column's name is a Python expression over   *)
(* types that are shared by all columns, such as int/unordered_unique; it  *)
(* is evaluated one operator at a time.  A type is an object with a list   *)
(* of properties, indices and constraints, and the C++ table gets every    *)
(* index of every column.                                                  *)
(***************************************************************************)
EXTENDS Naturals, SequencesExt

CONSTANTS
  Shared,      \* types the tool defines, set_readonly(): int, string ...
  Indexes,     \* properties that are an Index: unordered_unique ...
  Others,      \* properties that are not: constraints
  MaxColumns,  \* bound on the columns
  MaxObjects,  \* bound on the objects an evaluation makes
  MaxProps     \* bound on the properties put on one type

ASSUME SheetAssumption ==
  /\ "int" \in Shared /\ "unordered_unique" \in Indexes
  /\ {MaxColumns, MaxObjects, MaxProps} \subseteq Nat

Prop == Indexes \cup Others
NoObject == <<>>   \* no object
Object == {<<t>> : t \in Shared} \cup {<<"made", n>> : n \in 1 .. MaxObjects}

VARIABLES
  types,    \* the objects there are: readonly, and which list is props
  lists,    \* the lists of properties, by the object each was made for
  value,    \* what the cell has given so far, or NoObject before it
  fields,   \* Struct.fields: the type of each column, and Field.props
  asked,    \* history: properties put on the value, and on each column's type
  indice,   \* what the C++ table gets: a column and a property
  state     \* "reading", "failed" or "dumped"

vars == <<types, lists, value, fields, asked, indice, state>>

Init ==
  /\ types = [t \in {<<s>> : s \in Shared} |-> [readonly |-> TRUE, props |-> t]]
  /\ lists = [t \in DOMAIN types |-> <<>>]
  /\ value = NoObject
  /\ fields = <<>>
  /\ asked = <<>>
  /\ indice = <<>>
  /\ state = "reading"

Reading == state = "reading" /\ Len(fields) < MaxColumns

\* f with x as the value of one more element o.
With(f, o, x) == [e \in DOMAIN f \cup {o} |-> IF e = o THEN x ELSE f[e]]

\* A new object and its list.
New == CHOOSE o \in Object : o \notin DOMAIN types
Make(list) ==
  /\ DOMAIN types # Object
  /\ types' = With(types, New, [readonly |-> FALSE, props |-> New])
  /\ lists' = With(lists, New, list)

\* The cell names a type.
Name(t) ==
  /\ Reading /\ value = NoObject
  /\ value' = <<t>>
  /\ asked' = Append(asked, <<>>)
  /\ UNCHANGED <<types, lists, fields, indice, state>>

\* Optional, Vector or another template over the value: properties of the inner
\* type are not its own.
Template ==
  /\ Reading /\ value # NoObject
  /\ Make(<<>>)
  /\ value' = New
  /\ asked' = [asked EXCEPT ![Len(asked)] = <<>>]
  /\ UNCHANGED <<fields, indice, state>>

\* Fault: the copy of a shared type shares its list.
AddPropsShallow(props) ==
  /\ Reading /\ value # NoObject /\ Len(lists[types[value].props]) < MaxProps
  /\ IF types[value].readonly
     THEN /\ DOMAIN types # Object
          /\ types' = With(types, New, [readonly |-> FALSE, props |-> types[value].props])
          /\ lists' = [lists EXCEPT ![types[value].props] = @ \o props]
          /\ value' = New
     ELSE /\ lists' = [lists EXCEPT ![types[value].props] = @ \o props]
          /\ UNCHANGED <<types, value>>
  /\ asked' = [asked EXCEPT ![Len(asked)] = @ \o props]
  /\ UNCHANGED <<fields, indice, state>>

\* value/prop and value(props): a shared type is copied, any other one extended.
AddProps(props) ==
  /\ Reading /\ value # NoObject /\ Len(lists[types[value].props]) < MaxProps
  /\ IF types[value].readonly
     THEN Make(lists[types[value].props] \o props) /\ value' = New
     ELSE /\ lists' = [lists EXCEPT ![types[value].props] = @ \o props]
          /\ UNCHANGED <<types, value>>
  /\ asked' = [asked EXCEPT ![Len(asked)] = @ \o props]
  /\ UNCHANGED <<fields, indice, state>>

\* The end of a cell: Field(name, type, *props), the props being what follows the
\* type when the cell is a tuple.
EndCell(props) ==
  /\ Reading /\ value # NoObject
  /\ fields' = Append(fields, [type |-> value, props |-> props])
  /\ value' = NoObject
  /\ UNCHANGED <<types, lists, asked, indice, state>>

\* An empty cell: int/unordered_unique for a column named id, else an assertion.
EmptyCell ==
  /\ Reading /\ value = NoObject
  /\ \/ /\ Make(lists[<<"int">>] \o <<"unordered_unique">>)
        /\ fields' = Append(fields, [type |-> New, props |-> <<>>])
        /\ asked' = Append(asked, <<"unordered_unique">>)
        /\ UNCHANGED <<value, indice, state>>
     \/ /\ state' = "failed"
        /\ UNCHANGED <<types, lists, value, fields, asked, indice>>

\* isinstance(prop, Index)
IsIndex(prop) == prop \in Indexes
OnlyIndexes(props) == SelectSeq(props, IsIndex)

\* Fault: the properties behind the type in a tuple are taken instead.
get_props_tuple(field) == OnlyIndexes(field.props)

\* Fault: every property is taken for an index.
get_props_all(field) == lists[types[field.type].props]

\* Field.get_props(Index)
get_props(field) == OnlyIndexes(lists[types[field.type].props])

\* Dumper.tpl_related: the pairs of every column, in order.
Dump ==
  /\ state = "reading" /\ value = NoObject
  /\ indice' = FlattenSeq([c \in DOMAIN fields |->
                  [p \in DOMAIN get_props(fields[c]) |-> <<c, get_props(fields[c])[p]>>]])
  /\ state' = "dumped"
  /\ UNCHANGED <<types, lists, value, fields, asked>>

Next ==
  \/ \E t \in Shared : Name(t)
  \/ Template
  \/ \E p \in Prop : AddProps(<<p>>)
  \/ \E props \in {<<>>} \cup {<<p>> : p \in Prop} : EndCell(props)
  \/ EmptyCell
  \/ Dump

Spec == Init /\ [][Next]_vars

------------------------------------------------------------------------------
(* Properties.                                                             *)

\* The table gets the indices that were put on the type of each column, in order,
\* no other property of it and none of another column that uses the same shared
\* type.
DumpsWhatWasAsked ==
  LET wanted(c) == OnlyIndexes(asked[c])
  IN  state = "dumped" =>
        indice = FlattenSeq([c \in DOMAIN fields |-> [p \in DOMAIN wanted(c) |-> <<c, wanted(c)[p]>>]])
==============================================================================
